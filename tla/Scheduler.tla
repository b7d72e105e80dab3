------------------------------- MODULE Scheduler -------------------------------
(***************************************************************************)
(* The trigger tick (backend/autowright/scheduler.py) for one automation:   *)
(* baselines, catch-up after a sleep, the drop rule of triggers that do not  *)
(* catch up, one-shots, and the edits, deletes, clock steps, zone changes    *)
(* and restarts that land between its steps.                                 *)
(*                                                                          *)
(* Baselines and firings are kept as instants; the wall reading the code     *)
(* stores beside each is recomputed from it in the current zone, as the tick *)
(* itself does.  What a firing does once attempted is ExecQueue's business:  *)
(* here it starts, is skipped for want of a slot, is refused by a backend    *)
(* that is shutting down, is called off by an edit, or fails to be written.  *)
(***************************************************************************)
EXTENDS TriggerTimes, Sequences

CONSTANTS Triggers,    \* trigger id -> [kind, at, zoned, missed]
          Zones,       \* the system zones, each a function on 0..MaxTime
          Groups,      \* the sets of triggers examined together
          Grace,       \* GRACE_S: older than this is slept through
          Hold,        \* LAST_FIRED_HOLD and FUTURE_STAMP_HOLD
          Start,       \* the instant the backend first starts
          MaxEdits, MaxSteps   \* bounds on user edits, and on these with the steps

VARIABLES focus,       \* the triggers of this behaviour
          utc, zone,   \* the machine's clock and system zone
          book,        \* the automation's triggers: id -> [here, on, stamp]
          there,       \* the automation is registered
          closing,     \* its delete has begun (_deleting)
          base,        \* _baseline_utc: id -> instant or NoTime
          lastFired,   \* _last_fired
          prev,        \* _prev_tick: [at, wall]
          ran,         \* the latest real execution's start
          refusing,    \* the engine is shutting down
          cutOff,      \* the data path is unreachable this session
          tick,        \* the tick in progress
          left,        \* its triggers still to scan, then those still to try
          seen,        \* ghost: no later than this a whole tick has looked
          answered,    \* ghost: id -> wall times (or instants) answered
          from,        \* ghost: id -> instant its occurrences count from
          lost,        \* ghost: one-shots consumed although their moment was owed
          misread,     \* ghost: an occurrence younger than the grace was dropped
          fired,       \* ghost: id -> those it fired for, with whether the clock will
                       \* read them again
          again,       \* ghost: it fired again for one of them
          glitch,      \* ghost: the clock fell behind a firing by more than the hold
          voided,      \* ghost: id -> those given up: a write failed, or the trigger to
                       \* fire was called off after the tick had looked
          turnedAway,  \* ghost: one-shots a firing of which was refused, and not fired since
          edits,       \* how many edits the user made
          steps        \* the clock steps, zone changes, shutdowns and failed writes so far,
                       \* in order

schedVars == <<focus, utc, zone, book, there, closing, base, lastFired, prev, ran, refusing, cutOff,
               tick, left, seen, answered, from, lost, misread, fired, again, glitch, voided,
               turnedAway,
               edits, steps>>

Ids == DOMAIN Triggers
MaxTime == Max(DOMAIN (CHOOSE z \in Zones : TRUE))
ASSUME SchedulerAssumption == MaxTime \in Nat /\ Start \in 0..MaxTime
Rest == [phase |-> "rest", now |-> NoTime, keys |-> {}, snap |-> <<>>,
         due |-> {}, dropped |-> {}, prior |-> <<>>, fired |-> FALSE]

(* The next occurrence as the tick computes it, and whether it is due.      *)
Next1(t, row, after) ==
  NextOccurrence(Triggers[t], zone, after, row.stamp, ran, tick.now, Hold)
IsDue(u) == u # NoTime /\ u <= tick.now

SchedInit ==
  /\ zone \in Zones /\ utc = Start
  /\ focus \in Groups
  /\ \E kept \in {focus, {}} :
       book = [t \in Ids |-> [here |-> t \in kept, on |-> t \in kept, stamp |-> NoTime]]
  /\ there = TRUE /\ closing = FALSE
  /\ base = [t \in Ids |-> NoTime] /\ lastFired = [t \in Ids |-> NoTime]
  /\ prev = [at |-> Start, wall |-> Wall(zone, Start)]
  /\ ran = 0 /\ refusing = FALSE /\ cutOff \in BOOLEAN /\ tick = Rest
  /\ left = {}
  /\ seen = Start /\ answered = [t \in Ids |-> {}] /\ from = [t \in Ids |-> Start]
  /\ voided = answered /\ turnedAway = {}
  /\ fired = answered /\ lost = FALSE /\ misread = FALSE /\ again = "no" /\ glitch = FALSE
  /\ edits = 0 /\ steps = <<>>

(***************************************************************************)
(* Time.  Sleeping is time passing with no tick in between; the clock moves *)
(* between ticks, edits land anywhere.                                       *)
(***************************************************************************)
TimePasses ==
  /\ utc < MaxTime /\ tick = Rest
  /\ utc' = utc + 1
  /\ UNCHANGED <<focus, zone, book, there, closing, base, lastFired, prev, ran, refusing, cutOff,
                 tick, left, seen, answered, from, lost, misread, fired, again, glitch, voided,
                 turnedAway, edits, steps>>

(* At most MaxSteps edits and steps in a behaviour.  A step back and a zone   *)
(* change do not meet in one: a step across a fall-back may read no earlier on *)
(* the wall, which leaves the baseline ahead of the clock, and the zone change *)
(* then moves what it hides.  Nor does either meet a failed write.             *)
MayMove == edits + Len(steps) < MaxSteps
MayEdit == edits < MaxEdits /\ MayMove
MayStep(apart) == MayMove /\ \A i \in DOMAIN steps : steps[i] \notin apart

(* A write to the data path works, or it fails. *)
Writes(ok) ==
  IF ok THEN UNCHANGED steps
  ELSE MayStep({"back", "zone"}) /\ steps' = Append(steps, "fault")

(* An NTP step back.  Once it is behind a firing by more than the hold, in    *)
(* one step or in several, the clock had been wrong, and what it fired         *)
(* meanwhile no longer counts.                                                *)
ClockSteps(k) ==
  /\ MayStep({"zone", "fault"}) /\ utc - k >= Start /\ tick = Rest
  /\ utc' = utc - k /\ steps' = Append(steps, "back")
  /\ seen' = IF seen > utc - k THEN utc - k ELSE seen
  /\ glitch' = (glitch \/ \E t \in Ids : lastFired[t] > utc - k + Hold)
  /\ UNCHANGED <<focus, zone, book, there, closing, base, lastFired, prev, ran, refusing, cutOff,
                 tick, left, answered, from, lost, misread, fired, again, voided, turnedAway,
                 edits>>

(* The user travels: from the last tick on occurrences are the new zone's.  *)
ZoneChanges(z) ==
  /\ MayStep({"back", "fault"}) /\ z # zone /\ tick = Rest
  /\ zone' = z /\ steps' = Append(steps, "zone")
  /\ answered' = [t \in Ids |-> {}] /\ fired' = [t \in Ids |-> {}]
  /\ voided' = [t \in Ids |-> {}]
  /\ from' = [t \in Ids |-> IF from[t] > prev.at THEN from[t] ELSE prev.at]
  /\ UNCHANGED <<focus, utc, book, there, closing, base, lastFired, prev, ran, refusing, cutOff,
                 tick, left, seen, lost, misread, again, glitch, turnedAway, edits>>

(***************************************************************************)
(* Edits (patch_automation with stamp_enabled), deletion, shutdown, restart. *)
(***************************************************************************)
(* An enable between a step back and the moment the clock is past the last  *)
(* tick again is left out: the previous tick's reading, ahead of the stamp,  *)
(* would be its baseline.                                                     *)
SwitchOn(t) ==
  /\ MayEdit /\ there /\ t \in focus /\ ~book[t].on /\ utc >= prev.at
  /\ book' = [book EXCEPT ![t] = [here |-> TRUE, on |-> TRUE, stamp |-> utc]]
  /\ from' = [from EXCEPT ![t] = utc]
  /\ answered' = [answered EXCEPT ![t] = {}] /\ fired' = [fired EXCEPT ![t] = {}]
  /\ voided' = [voided EXCEPT ![t] = {}] /\ turnedAway' = turnedAway \ {t}
  /\ edits' = edits + 1
  /\ UNCHANGED <<focus, utc, zone, there, closing, base, lastFired, prev, ran, refusing, cutOff,
                 tick, left, seen, lost, misread, again, glitch, steps>>

SwitchOff(t) ==
  /\ MayEdit /\ there /\ book[t].on
  /\ book' = [book EXCEPT ![t].on = FALSE]
  /\ turnedAway' = turnedAway \ {t}
  /\ edits' = edits + 1
  /\ UNCHANGED <<focus, utc, zone, there, closing, base, lastFired, prev, ran, refusing, cutOff,
                 tick, left, seen, answered, from, lost, misread, fired, again, glitch, voided,
                 steps>>

(* delete_auto: no firing is let in from its first step on; it waits for what *)
(* runs, and the directory may turn out not to be removable.                  *)
DeleteBegins ==
  /\ MayEdit /\ there /\ ~closing
  /\ closing' = TRUE /\ edits' = edits + 1
  /\ UNCHANGED <<focus, utc, zone, book, there, base, lastFired, prev, ran, refusing, cutOff,
                 tick, left, seen, answered, from, lost, misread, fired, again, glitch, voided,
                 turnedAway, steps>>

DeleteEnds(removed) ==
  /\ closing /\ closing' = FALSE
  /\ there' = (there /\ ~removed)
  /\ UNCHANGED <<focus, utc, zone, book, base, lastFired, prev, ran, refusing, cutOff, tick, left,
                 seen, answered, from, lost, misread, fired, again, glitch, voided, turnedAway,
                 edits, steps>>

Shutdown ==
  /\ MayMove /\ ~refusing
  /\ refusing' = TRUE /\ steps' = Append(steps, "down")
  /\ UNCHANGED <<focus, utc, zone, book, there, closing, base, lastFired, prev, ran, cutOff, tick,
                 left, seen, answered, from, lost, misread, fired, again, glitch, voided,
                 turnedAway, edits>>

(* Scheduler.__init__: nothing that passed while the backend was down is     *)
(* caught up, and nothing of the last session is remembered.                 *)
Restart ==
  /\ refusing
  /\ refusing' = FALSE /\ closing' = FALSE /\ tick' = Rest /\ left' = {}
  /\ cutOff' \in BOOLEAN
  /\ base' = [t \in Ids |-> NoTime] /\ lastFired' = [t \in Ids |-> NoTime]
  /\ prev' = [at |-> utc, wall |-> Wall(zone, utc)]
  /\ from' = [t \in Ids |-> Max({utc, book[t].stamp})]
  /\ answered' = [t \in Ids |-> {}] /\ fired' = [t \in Ids |-> {}]
  /\ voided' = [t \in Ids |-> {}]
  /\ seen' = utc
  /\ UNCHANGED <<focus, utc, zone, book, there, ran, lost, misread, again, glitch, turnedAway,
                 edits, steps>>

(***************************************************************************)
(* One tick: _tick takes the clock and the live keys, _tick_automation the  *)
(* triggers; then trigger by trigger, then the firing, then the settling.   *)
(***************************************************************************)
TickStarts ==
  /\ tick.phase = "rest" /\ there
  /\ tick' = [Rest EXCEPT !.phase = "begun", !.now = utc,
                          !.keys = {t \in Ids : book[t].here}]
  /\ UNCHANGED <<focus, utc, zone, book, there, closing, base, lastFired, prev, ran, refusing,
                 cutOff, left, seen, answered, from, lost, misread, fired, again, glitch, voided,
                 turnedAway, edits, steps>>

(* Degraded session: nothing fires, baselines still advance. *)
SessionCutOff ==
  /\ tick.phase = "begun" /\ cutOff
  /\ base' = [t \in Ids |-> IF book[t].here THEN tick.now ELSE base[t]]
  /\ from' = [t \in Ids |-> IF book[t].here THEN tick.now ELSE from[t]]
  /\ tick' = [tick EXCEPT !.phase = "end"]
  /\ UNCHANGED <<focus, utc, zone, book, there, closing, lastFired, prev, ran, refusing, cutOff,
                 left, seen, answered, lost, misread, fired, again, glitch, voided, turnedAway,
                 edits, steps>>

TakeTriggers ==
  /\ tick.phase = "begun" /\ ~cutOff
  /\ left' = {t \in Ids : book[t].here}
  /\ tick' = [tick EXCEPT !.phase = "scan", !.snap = book,
                          !.prior = [t \in Ids |-> NoTime]]
  /\ UNCHANGED <<focus, utc, zone, book, there, closing, base, lastFired, prev, ran, refusing,
                 cutOff, seen, answered, from, lost, misread, fired, again, glitch, voided,
                 turnedAway, edits, steps>>

(* The enable stamp, ignored when it was made under a clock set ahead.      *)
Since(row) == IF row.stamp = NoTime THEN NoTime ELSE Credible(row.stamp, tick.now, Hold)

NowBase(row) == tick.now

(* A first-seen trigger counts from the previous tick or its later stamp.   *)
FirstBase(row) ==
  IF Since(row) # NoTime /\ Wall(zone, Since(row)) > prev.wall THEN Since(row) ELSE prev.at

ForgetsFired(t, b) == IF Wall(zone, b) > Wall(zone, tick.now) /\ tick.now < b THEN tick.now ELSE b

(* A backward clock step must not silence the trigger, nor go below the last *)
(* occurrence it fired.                                                      *)
HeldBase(t, b) ==
  IF Wall(zone, b) > Wall(zone, tick.now) /\ tick.now < b
  THEN IF lastFired[t] # NoTime /\ tick.now < lastFired[t] /\ lastFired[t] <= tick.now + Hold
       THEN lastFired[t] ELSE tick.now
  ELSE b

(* Moments before the enable stamp never count. *)
ClampedBase(row, b) ==
  IF Since(row) # NoTime /\ Wall(zone, b) < Wall(zone, Since(row)) THEN Since(row) ELSE b

OldBase(t) == HeldBase(t, IF base[t] = NoTime THEN FirstBase(tick.snap[t]) ELSE base[t])

(* consume_trigger: nothing happens on an automation that is gone.          *)
Without(ts) == IF there THEN [t \in Ids |-> IF t \in ts THEN [book[t] EXCEPT !.here = FALSE,
                                                                             !.on = FALSE]
                              ELSE book[t]]
               ELSE book

Owed(t) == there /\ book[t].here /\ book[t].on
           /\ \E w \in Triggers[t].at : /\ OnceAt(zone, w) > from[t]
                                        /\ w \notin answered[t] \cup voided[t]

(* The wall times, or for an interval the instants, a trigger reached after a *)
(* baseline and by now.                                                       *)
OwnZone(t) == IF Triggers[t].zoned = {} THEN zone ELSE CHOOSE o \in Triggers[t].zoned : TRUE
Reached(t, b) ==
  {w \in Triggers[t].at : LET z == OwnZone(t) IN
     w > Wall(z, b) /\ ReadingAfter(z, w, b) \in b + 1..tick.now}
Covered(t, b) ==
  CASE Triggers[t].kind = "cron" -> Reached(t, b)
    [] Triggers[t].kind = "time" -> Triggers[t].at
    [] OTHER -> {Next1(t, tick.snap[t], b)}
Youngest(t, b) ==
  IF Triggers[t].kind = "cron"
  THEN Max({ReadingAfter(OwnZone(t), w, b) : w \in Reached(t, b)} \cup {0})
  ELSE Next1(t, tick.snap[t], b)

ByAge(t, row, occ) == occ < tick.now - Grace

(* Not in grace: no occurrence since now - Grace, counted as instants. *)
SleptThrough(t, row, occ) ==
  LET probe == IF tick.now < Grace THEN 0 ELSE tick.now - Grace
      fresh == Next1(t, row, probe)
  IN ~IsDue(fresh) /\ occ < tick.now - Grace

(* A trigger that is spent or dropped leaves the list; a write that fails      *)
(* there raises, and ends the automation's share of the tick.                  *)
Consumes(t, due, ok) ==
  /\ ~ok => due /\ there
  /\ book' = IF due /\ ok THEN Without({t}) ELSE book

Phase(ok) == IF ok THEN "scan" ELSE "raised"

ScanOff(t, ok) ==
  /\ ~tick.snap[t].on
  /\ base' = [base EXCEPT ![t] = tick.now]
  /\ Consumes(t, Elapsed(Triggers[t], zone, tick.now), ok)
  /\ tick' = [tick EXCEPT !.phase = Phase(ok)]
  /\ UNCHANGED <<lost, misread>>

ScanDue(t, ok) ==
  LET row == tick.snap[t]
      b == ClampedBase(row, OldBase(t))
      occ == Next1(t, row, b)
      drop == ~Triggers[t].missed /\ SleptThrough(t, row, occ)
  IN /\ row.on /\ IsDue(occ)
     /\ base' = [base EXCEPT ![t] = tick.now]
     /\ tick' = [tick EXCEPT !.prior[t] = b, !.phase = Phase(ok),
                             !.due = IF drop THEN @ ELSE @ \cup {[at |-> occ, of |-> t]},
                             !.dropped = IF drop THEN @ \cup {t} ELSE @]
     /\ Consumes(t, drop /\ Triggers[t].kind = "time", ok)
     /\ misread' = (misread \/ (drop /\ Youngest(t, b) > tick.now - Grace))
     /\ UNCHANGED lost

ScanNotDue(t, ok) ==
  LET row == tick.snap[t]
      b == ClampedBase(row, OldBase(t))
      occ == Next1(t, row, b)
      spent == occ = NoTime /\ Elapsed(Triggers[t], zone, tick.now)
  IN /\ row.on /\ ~IsDue(occ)
     /\ base' = [base EXCEPT ![t] = b]
     /\ Consumes(t, spent, ok)
     /\ tick' = [tick EXCEPT !.phase = Phase(ok)]
     /\ lost' = (lost \/ (spent /\ ok /\ Owed(t)))
     /\ UNCHANGED misread

ScanOne(t) ==
  /\ tick.phase = "scan" /\ t \in left
  /\ left' = left \ {t}
  /\ \E ok \in BOOLEAN :
       Writes(ok) /\ (ScanOff(t, ok) \/ ScanDue(t, ok) \/ ScanNotDue(t, ok))
  /\ UNCHANGED <<focus, utc, zone, there, closing, lastFired, prev, ran, refusing, cutOff, seen,
                 answered, from, fired, again, glitch, voided, turnedAway, edits>>

ScanEnds ==
  /\ tick.phase = "scan" /\ left = {}
  /\ left' = {d.of : d \in tick.due}
  /\ tick' = [tick EXCEPT !.phase = "fire"]
  /\ UNCHANGED <<focus, utc, zone, book, there, closing, base, lastFired, prev, ran, refusing,
                 cutOff, seen, answered, from, lost, misread, fired, again, glitch, voided,
                 turnedAway, edits, steps>>

(* The occurrences the tick took on, and will not look at again. *)
TakenOn == {d.of : d \in tick.due} \cup tick.dropped

(* They are answered by an execution or a record, or they are given up.  Then   *)
(* nobody is told of them but the log.                                         *)
With(told, ts) == [t \in Ids |-> IF t \in ts THEN told[t] \cup Covered(t, tick.prior[t])
                                ELSE told[t]]
GivenUp == voided' = With(voided, TakenOn) /\ UNCHANGED answered

(* The exception ends this automation's share; baselines stay advanced.  One   *)
(* first seen in this tick, and not reached, counts from it.                   *)
Abandons ==
  /\ tick.phase = "raised"
  /\ tick' = [tick EXCEPT !.phase = "end"]
  /\ GivenUp
  /\ from' = [t \in Ids |-> IF t \in left /\ base[t] = NoTime THEN Max({from[t], tick.now})
                           ELSE from[t]]
  /\ UNCHANGED <<focus, utc, zone, book, there, closing, base, lastFired, prev, ran, refusing,
                 cutOff, left, seen, lost, misread, fired, again, glitch, turnedAway, edits, steps>>

(* _fire: the due occurrences in the order of their wall times; one whose   *)
(* trigger went, or was switched off, since the scan is never attempted.    *)
First(ds) == CHOOSE d \in ds : \A e \in ds : Wall(zone, d.at) <= Wall(zone, e.at)
Untried == {d \in tick.due : d.of \in left}
Turn == First(Untried).of
Stale(t) == ~there \/ ~book[t].here \/ ~book[t].on

NotAttempted ==
  /\ tick.phase = "fire" /\ Untried # {}
  /\ Stale(Turn) /\ left' = left \ {Turn}
  /\ UNCHANGED <<focus, utc, zone, book, there, closing, base, lastFired, prev, ran, refusing,
                 cutOff, tick, seen, answered, from, lost, misread, fired, again, glitch, voided,
                 turnedAway, edits, steps>>

(* Otherwise it is fired, once the lock was let go. *)
LooksFresh ==
  /\ tick.phase = "fire" /\ Untried # {} /\ ~Stale(Turn)
  /\ tick' = [tick EXCEPT !.phase = "firing"]
  /\ UNCHANGED <<focus, utc, zone, book, there, closing, base, lastFired, prev, ran, refusing,
                 cutOff, left, seen, answered, from, lost, misread, fired, again, glitch, voided,
                 turnedAway, edits, steps>>

(* fire_trigger looks again, under the lock it then keeps.  What it calls off   *)
(* counts as attempted all the same.                                          *)
Void == closing \/ Stale(Turn)

CountsAsFired ==
  /\ tick' = [tick EXCEPT !.fired = TRUE, !.phase = "settle"] /\ left' = {}
  /\ turnedAway' = turnedAway \ TakenOn

CalledOff ==
  /\ tick.phase = "firing" /\ Void
  /\ CountsAsFired /\ GivenUp
  /\ UNCHANGED <<focus, utc, zone, book, there, closing, base, lastFired, prev, ran, refusing,
                 cutOff, seen, from, lost, misread, fired, again, glitch, edits, steps>>

(* Only the refusal of a backend that shuts down is no attempt, and only a free *)
(* slot leads to it.                                                          *)
Refused ==
  /\ tick.phase = "firing" /\ ~Void /\ refusing
  /\ tick' = [tick EXCEPT !.phase = "fire"] /\ left' = left \ {Turn}
  /\ turnedAway' = turnedAway \cup {t \in {Turn} : Triggers[t].kind = "time"}
  /\ UNCHANGED <<focus, utc, zone, book, there, closing, base, lastFired, prev, ran, refusing,
                 cutOff, seen, answered, from, lost, misread, fired, again, glitch, voided, edits,
                 steps>>

(* The run baseline is only followed where an interval is anchored on it.    *)
Anchored == \E t \in focus : Triggers[t].kind = "interval"

(* Attempted: the execution starts, or is skipped and recorded for want of  *)
(* a slot.  Either answers every occurrence the tick found due.  Between the *)
(* passes of a repeated hour the clock will read some of these again.        *)
FiredFor(t) == {x[1] : x \in fired[t]}
WillReadAgain(t, w) == Triggers[t].kind = "cron" /\ w > Wall(OwnZone(t), tick.now)

Attempted(busy) ==
  /\ tick.phase = "firing" /\ ~Void /\ (busy \/ ~refusing)
  /\ ran' = IF busy \/ ~Anchored THEN ran ELSE utc
  /\ CountsAsFired
  /\ answered' = With(answered, TakenOn)
  /\ LET due == {d.of : d \in tick.due}
         covers(t) == Covered(t, tick.prior[t])
         twice == {t \in due : covers(t) \subseteq FiredFor(t)}
         excused(t) == \E x \in fired[t] : x[1] \in covers(t) /\ x[2]
     IN /\ fired' = [t \in Ids |-> IF t \in due
                                   THEN fired[t] \cup {<<w, WillReadAgain(t, w)>> : w \in covers(t)}
                                   ELSE fired[t]]
        /\ again' = CASE glitch \/ twice = {} -> again
                      [] \E t \in twice : ~excused(t) -> "yes"
                      [] OTHER -> IF again = "yes" THEN again ELSE "ahead"
  /\ UNCHANGED <<focus, utc, zone, book, there, closing, base, lastFired, prev, refusing, cutOff,
                 seen, from, lost, misread, glitch, voided, edits, steps>>

(* A start that fails is logged; the record of a skip that cannot be written   *)
(* raises.                                                                     *)
StartFails ==
  /\ tick.phase = "firing" /\ ~Void /\ ~refusing /\ Writes(FALSE)
  /\ CountsAsFired /\ GivenUp
  /\ UNCHANGED <<focus, utc, zone, book, there, closing, base, lastFired, prev, ran, refusing,
                 cutOff, seen, from, lost, misread, fired, again, glitch, edits>>

SkipFails ==
  /\ tick.phase = "firing" /\ ~Void /\ Writes(FALSE)
  /\ tick' = [tick EXCEPT !.phase = "raised"]
  /\ UNCHANGED <<focus, utc, zone, book, there, closing, base, lastFired, prev, ran, refusing,
                 cutOff, left, seen, answered, from, lost, misread, fired, again, glitch, voided,
                 turnedAway, edits>>

NothingToFire ==
  /\ tick.phase = "fire" /\ Untried = {}
  /\ tick' = [tick EXCEPT !.phase = "settle"]
  /\ UNCHANGED <<focus, left, utc, zone, book, there, closing, base, lastFired, prev, ran,
                 refusing, cutOff, seen, answered, from, lost, misread, fired, again, glitch,
                 voided, turnedAway, edits, steps>>

(* An attempted firing marks every coalesced trigger fired and consumes the *)
(* one-shots among them, as far as the writes go through: one that stays on   *)
(* the list may be due again, in a repeated hour; otherwise the              *)
(* baselines go back to where they were and a drop, if any, is recorded.      *)
SettleFired ==
  /\ tick.phase = "settle" /\ tick.fired
  /\ LET ts == {d.of : d \in tick.due}
         shots == {t \in ts : Triggers[t].kind = "time"}
     IN /\ lastFired' = [t \in Ids |-> IF t \in ts THEN tick.now ELSE lastFired[t]]
        /\ \E gone \in SUBSET shots : /\ Writes(gone = shots) /\ (gone # shots => there)
                                      /\ book' = Without(gone)
                                      /\ fired' = [t \in Ids |-> IF t \in shots \ gone THEN {}
                                                                ELSE fired[t]]
  /\ tick' = [tick EXCEPT !.phase = "end"]
  /\ UNCHANGED <<focus, left, utc, zone, there, closing, base, prev, ran, refusing, cutOff, seen,
                 answered, from, lost, misread, again, glitch, voided, turnedAway, edits>>

SettleUnfired ==
  /\ tick.phase = "settle" /\ ~tick.fired
  /\ base' = [t \in Ids |-> IF t \in {d.of : d \in tick.due} THEN tick.prior[t] ELSE base[t]]
  /\ LET drops == IF there THEN tick.dropped ELSE {}
     IN \E ok \in BOOLEAN :
          /\ Writes(ok) /\ (~ok => drops # {})
          /\ answered' = IF ok THEN With(answered, drops) ELSE answered
          /\ voided' = IF ok THEN voided ELSE With(voided, drops)
  /\ tick' = [tick EXCEPT !.phase = "end"]
  /\ UNCHANGED <<focus, left, utc, zone, book, there, closing, lastFired, prev, ran, refusing,
                 cutOff, seen, from, lost, misread, fired, again, glitch, turnedAway, edits>>

(* Baselines of triggers that were gone when the tick began are forgotten.  *)
TickEnds ==
  /\ tick.phase = "end"
  /\ base' = [t \in Ids |-> IF t \in tick.keys THEN base[t] ELSE NoTime]
  /\ lastFired' = [t \in Ids |-> IF t \in tick.keys THEN lastFired[t] ELSE NoTime]
  /\ prev' = [at |-> tick.now, wall |-> Wall(zone, tick.now)]
  /\ seen' = IF left # {} THEN seen ELSE IF utc < tick.now THEN utc ELSE tick.now
  /\ tick' = Rest /\ left' = {}
  /\ UNCHANGED <<focus, utc, zone, book, there, closing, ran, refusing, cutOff, answered, from,
                 lost, misread, fired, again, glitch, voided, turnedAway, edits, steps>>

SchedNext ==
  \/ TimePasses \/ DeleteBegins \/ Shutdown \/ Restart
  \/ \E removed \in BOOLEAN : DeleteEnds(removed)
  \/ \E k \in 1..(Hold + 2) : ClockSteps(k)
  \/ \E z \in Zones : ZoneChanges(z)
  \/ \E t \in Ids : SwitchOn(t) \/ SwitchOff(t) \/ ScanOne(t)
  \/ TickStarts \/ SessionCutOff \/ TakeTriggers \/ ScanEnds \/ Abandons
  \/ NotAttempted \/ LooksFresh \/ CalledOff \/ Refused
  \/ (\E busy \in BOOLEAN : Attempted(busy))
  \/ StartFails \/ SkipFails
  \/ NothingToFire \/ SettleFired \/ SettleUnfired \/ TickEnds

SchedSpec == SchedInit /\ [][SchedNext]_schedVars

-----------------------------------------------------------------------------
(* Every variable keeps its type. *)
SchedTypeOK ==
  /\ utc \in 0..MaxTime /\ zone \in Zones
  /\ book \in [Ids -> [here : BOOLEAN, on : BOOLEAN, stamp : NoTime..MaxTime]]
  /\ \A t \in Ids : base[t] \in NoTime..MaxTime /\ lastFired[t] \in NoTime..MaxTime
  /\ tick.phase \in {"rest", "begun", "scan", "fire", "firing", "raised", "settle", "end"}
  /\ \A t \in Ids : book[t].on => book[t].here

(* An occurrence that passed while its trigger was on, watched and in reach  *)
(* of the backend is answered by the tick that saw it pass: by an execution, *)
(* a skipped record or a drop record (scheduler.py:172-384) - unless a write *)
(* failed, or what the tick was about to fire was called off under its hands. *)
(* A wall time repeated by a fall-back passes when the clock first reads it.  *)
NothingSwallowed ==
  (tick.phase = "rest" /\ there /\ ~refusing /\ ~cutOff) =>
    \A t \in Ids : (book[t].on /\ Triggers[t].kind = "cron") =>
      \A w \in Triggers[t].at :
        LET z == OwnZone(t)
            u == OnceAt(z, w)
        IN (w > Wall(z, from[t]) /\ u > from[t] /\ u <= seen)
           => w \in answered[t] \cup voided[t]

(* A tick never fires for an occurrence it fired for before: neither an   *)
(* hour repeated by a fall-back nor backward clock steps that together stay  *)
(* within the hold make a trigger fire again for the same moment             *)
(* (scheduler.py:236-254).  Two exceptions: a one-shot whose removal from the *)
(* list could not be written, and RepeatedFiresOnce.                          *)
FiresOnce == again # "yes"

(* One repeated by a fall-back fires once (spec/data-model.md:668-669), also  *)
(* when the first pass was slept through and a tick between the two passes    *)
(* caught up for it.                                                          *)
RepeatedFiresOnce == again = "no"

(* A one-shot leaves the list only for a reason the user can see: it fired,  *)
(* its drop was recorded, or its moment passed while nobody owed it - in one  *)
(* session a refused or stale firing consumes nothing (scheduler.py:334-373). *)
(* The exceptions are those of NothingSwallowed.                              *)
OneShotKept == ~lost

(* What is dropped had been slept through: no occurrence younger than the    *)
(* grace window is ever dropped, through a gap or a repeated hour too        *)
(* (scheduler.py:305-333).                                                    *)
OnlySleptThroughDrops == ~misread

(* A due trigger that turned stale mid-tick is never attempted: the next due  *)
(* one in order is, rather than abandoning the group (scheduler.py:351-353).  *)
NextDueIsTried ==
  [][tick.phase = "firing" /\ tick'.phase = "settle" /\ there /\ Stale(Turn)
     => \A d \in Untried : Stale(d.of)]_schedVars

(* A one-shot whose firing the backend refused because it was shutting down   *)
(* fires at the next start (scheduler.py:435-437): it does not leave the list *)
(* unfired.                                                                    *)
RefusedOneShotFires == there => \A t \in turnedAway : book[t].here
=============================================================================
