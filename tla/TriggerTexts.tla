------------------------------ MODULE TriggerTexts ------------------------------
(***************************************************************************)
(* The texts a trigger is stored as and the badge read from it               *)
(* (backend/autowright/triggers.py): a cron field that grows item by item,    *)
(* an interval's length, and a schedule looked at some time after its last    *)
(* run.  Each operator of TriggerTimes is compared with what released         *)
(* versions or the documented rule make of the same text.                     *)
(***************************************************************************)
EXTENDS TriggerTimes, Sequences

CONSTANTS Hi,            \* the field's largest value (its smallest is 0)
          MaxItems,      \* items of a field
          Lengths,       \* <<days, hours, minutes, seconds>>
          Badged,        \* the schedules looked at
          BadgeZones     \* the zones they are looked at in

Instants(z) == DOMAIN z

\* A schedule that wears a badge is a cron or an interval of one length, and one that
\* catches up; a zone is known from the first instant to the last.
ASSUME TextAssumption ==
  /\ Hi \in Nat /\ Lengths \subseteq [1..4 -> Nat]
  /\ \A t \in Badged : /\ t.kind \in {"cron", "interval"} /\ t.missed = TRUE /\ t.at \subseteq Nat
                       /\ t.zoned \subseteq BadgeZones
                       /\ t.kind = "interval" => \E e \in t.at : e > 0 /\ t.at = {e}
  /\ \A z \in BadgeZones : \A u \in Instants(z) :
        u \in Nat /\ z[u] \in Int /\ 0..u \subseteq Instants(z)

VARIABLES field, parts, badge

textVars == <<field, parts, badge>>

Items == [form : {"star"}, a : {0}, b : {0}, step : 0..2]
           \cup [form : {"one"}, a : 0..Hi, b : {0}, step : 0..2]
           \cup [form : {"range"}, a : 0..Hi, b : 0..Hi, step : 0..2]

BadgeStarts == UNION {[of : Badged, zone : {z}, stamp : {NoTime, 1}, ran : {NoTime, 0, 1, 2},
                       now : Instants(z)] : z \in BadgeZones}

(* A behaviour is about one text: a field, a length, or a schedule's badge.   *)
NoText == <<>>
TextInit ==
  /\ field = <<>>
  /\ \/ parts = NoText /\ badge = NoText
     \/ parts \in Lengths /\ badge = NoText
     \/ parts = NoText /\ badge \in BadgeStarts
ItemTyped(item) == /\ Len(field) < MaxItems /\ parts = NoText /\ badge = NoText
                   /\ field' = Append(field, item) /\ UNCHANGED <<parts, badge>>
TextNext == \E item \in Items : ItemTyped(item)

TextSpec == TextInit /\ [][TextNext]_textVars

(* What a released version fired: a stepped bare number ran to the field's end. *)
ReleasedValues(item) ==
  IF item.form = "one" /\ item.step # 0 THEN {n \in item.a..Hi : (n - item.a) % item.step = 0}
  ELSE ItemValues(item, 0, Hi)
ReleasedOk(item) == ItemOk(IF item.form = "one" THEN [item EXCEPT !.step = 0] ELSE item, 0, Hi)

(* A field stored by a released version is read, fires at the very times it   *)
(* did, and a field of today comes through untouched (triggers.py:237-257).    *)
LegacyFieldsKeepFiring ==
  LET stored == {i \in DOMAIN field : ReleasedOk(field[i])}
  IN (field # <<>> /\ stored = DOMAIN field) =>
       /\ FieldOk(Legacy(field, Hi), 0, Hi)
       /\ FieldValues(Legacy(field, Hi), 0, Hi) = UNION {ReleasedValues(field[i]) : i \in stored}
       /\ FieldOk(field, 0, Hi) => Legacy(field, Hi) = field

(* A length is stored in one form: as long as it was, in one unit, and the     *)
(* form of a stored length is itself (triggers.py:57-87).                       *)
LengthsKeepTheirSeconds ==
  (parts # NoText /\ DurationOk(parts)) =>
    /\ Seconds(Canonical(parts)) = Seconds(parts)
    /\ Cardinality({i \in 1..4 : Canonical(parts)[i] # 0}) = 1
    /\ Canonical(Canonical(parts)) = Canonical(parts)

(* A schedule is called overdue only when two of its moments really went by    *)
(* since it last ran or was switched on, through a gap or a repeated hour, and  *)
(* an interval exactly when two whole intervals did (triggers.py:857-905).      *)
LastSeen == LET known == {badge.stamp, badge.ran} \ {NoTime} IN IF known = {} THEN NoTime ELSE Max(known)
BadgeZone == IF badge.of.zoned = {} THEN badge.zone ELSE CHOOSE z \in badge.of.zoned : TRUE
MomentsBetween ==
  {u \in LastSeen + 1..badge.now - 1 : \E w \in badge.of.at : u \in Moments(BadgeZone, w)}
BadgeMeansTwoMissed ==
  badge # NoText =>
  LET shown == Overdue(badge.of, badge.zone, badge.stamp, badge.ran, badge.now, badge.now)
  IN LastSeen \in Instants(badge.zone) =>
       CASE badge.of.kind = "cron" -> shown => Cardinality(MomentsBetween) >= 2
         [] OTHER -> shown <=> (\A e \in badge.of.at : LastSeen + 2 * e < badge.now)
=============================================================================
