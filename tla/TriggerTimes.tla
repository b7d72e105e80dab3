----------------------------- MODULE TriggerTimes -----------------------------
(***************************************************************************)
(* Trigger mathematics (backend/autowright/triggers.py): when a cron, a    *)
(* one-shot or an interval trigger is next due.  Instants are small         *)
(* integers; a zone maps every instant to its offset, so that a zone with a *)
(* smaller offset later repeats wall times (a fall-back) and one with a     *)
(* larger offset erases some (a spring-forward gap).                        *)
(*                                                                          *)
(* A trigger is a record [kind, at, zoned, missed]: `at` is the set of wall *)
(* times a cron names, or the wall time of a one-shot in a singleton, or    *)
(* the length of an interval in a singleton; `zoned` holds the trigger's    *)
(* own zone in a singleton, empty when it follows the system zone.          *)
(***************************************************************************)
EXTENDS Integers, FiniteSets, FiniteSetsExt

NoTime == -1    \* no instant: None in the code

Wall(z, u) == u + z[u]

(* The instants a wall time names: one, two in a repeated hour, and for a   *)
(* time erased by a gap the one shifted forward by the width of the gap.    *)
Readings(z, w) == {u \in DOMAIN z : Wall(z, u) = w}
Shifted(z, w) ==
  {w - z[k - 1] : k \in {k \in DOMAIN z : /\ k - 1 \in DOMAIN z
                                          /\ Wall(z, k - 1) < w
                                          /\ w < Wall(z, k)}} \cap DOMAIN z
Moments(z, w) == IF Readings(z, w) # {} THEN Readings(z, w) ELSE Shifted(z, w)

(* _wall_to_local, _local_gap_fix: the earliest reading strictly after an   *)
(* instant.                                                                 *)
ReadingAfter(z, w, after) ==
  LET later == {u \in Moments(z, w) : u > after}
  IN IF later = {} THEN NoTime ELSE Min(later)

(* cron_next and the loop around it in trigger_next: the first wall time    *)
(* after the baseline's own that still has a reading after the baseline.    *)
CronNext(z, W, after) ==
  LET ws == {w \in W : w > Wall(z, after) /\ ReadingAfter(z, w, after) # NoTime}
  IN IF ws = {} THEN NoTime ELSE ReadingAfter(z, Min(ws), after)

(* The moment of a one-shot (_to_local, _local_gap_fix without `after`).    *)
OnceAt(z, w) == IF Moments(z, w) = {} THEN NoTime ELSE Min(Moments(z, w))

(* A zoned one-shot is compared as an instant, one in the system zone by    *)
(* its wall reading.                                                        *)
OncePassed(t, z, now) ==
  \E w \in t.at :
    IF t.zoned = {} THEN /\ OnceAt(z, w) # NoTime
                         /\ Wall(z, OnceAt(z, w)) <= Wall(z, now)
    ELSE \E own \in t.zoned : OnceAt(own, w) # NoTime /\ OnceAt(own, w) <= now

(* time_elapsed *)
Elapsed(t, z, now) == t.kind = "time" /\ OncePassed(t, z, now)

(* credible_enabled_instant, credible_run_baseline: a stamp further than    *)
(* the hold ahead of now was made under a wrong clock and is ignored.       *)
Credible(stamp, now, hold) == IF stamp > now + hold THEN NoTime ELSE stamp

(* interval_anchor: the later of the enable stamp and the latest run.       *)
Anchor(stamp, ran, after, now, hold) ==
  LET known == {Credible(stamp, now, hold), Credible(ran, now, hold)} \ {NoTime}
  IN IF known = {} THEN after ELSE Max(known)

(* interval_instant: the first anchor + n * every strictly after `after`.   *)
IntervalNext(every, anchor, after) ==
  IF after < anchor THEN anchor + every
  ELSE anchor + ((after - anchor) \div every + 1) * every

(* trigger_next and the scheduler's occurrence(): the next occurrence of a  *)
(* trigger strictly after `after`.                                          *)
NextOccurrence(t, z, after, stamp, ran, now, hold) ==
  CASE t.kind = "cron" ->
         IF t.zoned = {} THEN CronNext(z, t.at, after)
         ELSE CronNext(CHOOSE own \in t.zoned : TRUE, t.at, after)
    [] t.kind = "time" ->
         LET own == IF t.zoned = {} THEN z ELSE CHOOSE o \in t.zoned : TRUE
             at == OnceAt(own, CHOOSE w \in t.at : TRUE)
         IN IF at = NoTime \/ OncePassed(t, z, after) THEN NoTime ELSE at
    [] t.kind = "interval" ->
         LET every == CHOOSE e \in t.at : TRUE
         IN IntervalNext(every, Anchor(stamp, ran, after, now, hold), after)
    [] OTHER -> NoTime

OneMissed(t, z, stamp, ran, now, hold) ==
  LET from == Anchor(stamp, ran, NoTime, now, hold)
      first == NextOccurrence(t, z, from, stamp, ran, now, hold)
  IN t.missed /\ from # NoTime /\ first # NoTime /\ first < now

(* is_overdue, for one enabled schedule that catches up after a sleep: two  *)
(* occurrences since the later of the last run and the enable stamp passed. *)
Overdue(t, z, stamp, ran, now, hold) ==
  LET from == Anchor(stamp, ran, NoTime, now, hold)
      first == NextOccurrence(t, z, from, stamp, ran, now, hold)
      second == NextOccurrence(t, z, first, stamp, ran, now, hold)
  IN /\ t.kind \in {"cron", "interval"} /\ t.missed
     /\ from # NoTime /\ first # NoTime /\ first \in DOMAIN z
     /\ second # NoTime /\ second < now

(***************************************************************************)
(* The cron dialect.  An item of a field is [form, a, b, step]: "star" for  *)
(* `*`, "range" for `a-b`, "one" for a bare number; step 0 stands for none. *)
(***************************************************************************)
ItemOk(item, lo, hi) ==
  /\ item.form = "one" => item.step = 0     \* a step needs `*` or a range
  /\ item.form = "range" => item.a \in lo..hi /\ item.b \in lo..hi /\ item.a <= item.b
  /\ item.form = "one" => item.a \in lo..hi

ItemValues(item, lo, hi) ==
  LET first == IF item.form = "star" THEN lo ELSE item.a
      last == CASE item.form = "star" -> hi [] item.form = "one" -> item.a [] OTHER -> item.b
      step == IF item.step = 0 THEN 1 ELSE item.step
  IN {n \in first..last : (n - first) % step = 0}

FieldOk(items, lo, hi) == items # <<>> /\ \A i \in DOMAIN items : ItemOk(items[i], lo, hi)
FieldValues(items, lo, hi) == UNION {ItemValues(items[i], lo, hi) : i \in DOMAIN items}
Unrestricted(items) == items[1].form = "star"

(* The Vixie rule: both day fields restricted means either may match; a     *)
(* field led by `*` leaves both to match.                                   *)
DayMatches(doms, dows, dom, dow, lastDom) ==
  LET inDom == dom \in FieldValues(doms, 1, lastDom)
      inDow == dow \in FieldValues(dows, 0, 6)
  IN IF Unrestricted(doms) \/ Unrestricted(dows) THEN inDom /\ inDow ELSE inDom \/ inDow

KeepsBare(items, hi) == items

(* rewrite_legacy_cron: a stored `a/n` becomes `a-max/n`.                   *)
Legacy(items, hi) ==
  [i \in DOMAIN items |->
     IF items[i].form = "one" /\ items[i].step # 0
     THEN [form |-> "range", a |-> items[i].a, b |-> hi, step |-> items[i].step]
     ELSE items[i]]

(***************************************************************************)
(* The interval dialect.                                                    *)
(***************************************************************************)
Units == <<86400, 3600, 60, 1>>
IntervalMin == 15
IntervalMax == 365 * 86400

(* parse_duration: the seconds of <<days, hours, minutes, seconds>>.        *)
Seconds(parts) ==
  parts[1] * Units[1] + parts[2] * Units[2] + parts[3] * Units[3] + parts[4] * Units[4]
DurationOk(parts) == Seconds(parts) \in IntervalMin..IntervalMax

LargestReached(seconds) == Min({i \in 1..4 : seconds >= Units[i]})

(* canonical_duration: one component, in the largest unit that divides it.  *)
CanonicalUnit(seconds) == Min({i \in 1..4 : seconds % Units[i] = 0})
Canonical(parts) ==
  LET s == Seconds(parts)
      u == CanonicalUnit(s)
  IN [i \in 1..4 |-> IF i = u THEN s \div Units[u] ELSE 0]
=============================================================================
