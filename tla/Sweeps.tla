-------------------------------- MODULE Sweeps --------------------------------
(***************************************************************************)
(* The hourly work of the scheduler tick (backend/autowright/scheduler.py): *)
(* the retention sweep on its own single-flight thread and the overdue      *)
(* sweep with its notification, under a wall clock that may be stepped back. *)
(* Whether an automation is overdue is the environment's (TriggerTimes       *)
(* defines it).                                                              *)
(***************************************************************************)
EXTENDS Integers

CONSTANTS Autos,          \* the automations
          Hour,           \* ticks in an hour
          MaxClock,       \* bound on the clock
          MaxBack         \* bound on backward steps
ASSUME SweepsAssumption == Hour \in Nat /\ MaxClock \in Nat /\ MaxBack \in Nat

VARIABLES wall,           \* the local clock
          backs,          \* backward steps so far
          lastRetention, lastOverdue,
          sweeper,        \* the retention thread: "none" or "deleting"
          overdue,        \* Autos -> the automation is overdue
          mute,           \* Autos -> its notifications are set to never
          streak,         \* _overdue_streak: Autos -> consecutive sightings
          told,           \* _overdue_notified
          posted,         \* ghost: Autos -> notifications in this stretch
          announced,      \* ghost: Autos -> change events in this stretch
          waited          \* ghost: ticks since the last overdue sweep

sweepVars == <<wall, backs, lastRetention, lastOverdue, sweeper, overdue, mute,
               streak, told, posted, announced, waited>>

SweepInit ==
  /\ wall = 0 /\ backs = 0 /\ lastRetention = 0 /\ lastOverdue = 0
  /\ sweeper = "none" /\ waited = 0
  /\ overdue \in [Autos -> BOOLEAN] /\ mute \in [Autos -> BOOLEAN]
  /\ streak = [a \in Autos |-> 0] /\ told = {}
  /\ posted = [a \in Autos |-> 0] /\ announced = [a \in Autos |-> 0]

DueForward(last) == wall - last > Hour

(* More than an hour ago, or in the future of a clock that was stepped back. *)
Due(last) == wall - last > Hour \/ wall - last < 0

(* An automation recovers, or falls behind, between sweeps.                  *)
Changes(a) ==
  /\ overdue' = [overdue EXCEPT ![a] = ~@]
  /\ UNCHANGED <<wall, backs, lastRetention, lastOverdue, sweeper, mute, streak, told,
                 posted, announced, waited>>

MuteChanges(a) ==
  /\ mute' = [mute EXCEPT ![a] = ~@]
  /\ UNCHANGED <<wall, backs, lastRetention, lastOverdue, sweeper, overdue, streak, told,
                 posted, announced, waited>>

StepsBack(k) ==
  /\ backs < MaxBack /\ wall >= k
  /\ wall' = wall - k /\ backs' = backs + 1
  /\ UNCHANGED <<lastRetention, lastOverdue, sweeper, overdue, mute, streak, told,
                 posted, announced, waited>>

RetentionEnds ==
  /\ sweeper = "deleting" /\ sweeper' = "none"
  /\ UNCHANGED <<wall, backs, lastRetention, lastOverdue, overdue, mute, streak, told,
                 posted, announced, waited>>

(* _overdue_sweep: an automation seen overdue twice running is announced,    *)
(* and told about unless its notifications are off.                          *)
Sighted(a) == IF overdue[a] THEN (IF streak[a] = 2 THEN 2 ELSE streak[a] + 1) ELSE 0
TellingAgain(a) == Sighted(a) >= 2 /\ ~mute[a]
Telling(a) == Sighted(a) >= 2 /\ a \notin told /\ ~mute[a]
Announcing(a) == streak[a] = 1 /\ Sighted(a) = 2

OverdueSweep ==
  /\ streak' = [a \in Autos |-> Sighted(a)]
  /\ told' = {a \in told : overdue[a]} \cup {a \in Autos : Telling(a)}
  /\ posted' = [a \in Autos |-> IF ~overdue[a] THEN 0
                                ELSE posted[a] + (IF Telling(a) THEN 1 ELSE 0)]
  /\ announced' = [a \in Autos |-> IF ~overdue[a] THEN 0
                                   ELSE announced[a] + (IF Announcing(a) THEN 1 ELSE 0)]

(* The tick: each sweep's timestamp moves before the sweep runs.             *)
HourlyTick ==
  /\ wall < MaxClock
  /\ wall' = wall + 1
  /\ IF Due(lastRetention) /\ sweeper = "none"
     THEN lastRetention' = wall /\ sweeper' = "deleting"
     ELSE UNCHANGED <<lastRetention, sweeper>>
  /\ IF Due(lastOverdue)
     THEN lastOverdue' = wall /\ waited' = 0 /\ OverdueSweep
     ELSE waited' = waited + 1 /\ UNCHANGED <<lastOverdue, streak, told, posted, announced>>
  /\ UNCHANGED <<backs, overdue, mute>>

SweepNext ==
  \/ HourlyTick \/ RetentionEnds
  \/ \E k \in 1..(3 * Hour) : StepsBack(k)
  \/ \E a \in Autos : Changes(a) \/ MuteChanges(a)

SweepSpec == SweepInit /\ [][SweepNext]_sweepVars

SweepTypeOK ==
  /\ streak \in [Autos -> 0..2] /\ told \subseteq Autos /\ sweeper \in {"none", "deleting"}

(* An overdue stretch is told about once and announced once, however often   *)
(* the sweep sees it and whenever its notifications are switched back on; a   *)
(* recovery re-arms both (scheduler.py:433-497).                              *)
ToldOnceAStretch ==
  \A a \in Autos : /\ posted[a] <= 1 /\ announced[a] <= 1
                   /\ posted[a] = 1 => announced[a] = 1

(* However far the clock is stepped back, a step holds a sweep off for no     *)
(* more than one hour on top of the hour it may wait anyway                   *)
(* (scheduler.py:131-156).                                                    *)
SweepNeverStalls == waited <= (Hour + 1) * (1 + backs)
===============================================================================
