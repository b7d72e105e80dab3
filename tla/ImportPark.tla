------------------------------- MODULE ImportPark -------------------------------
(***************************************************************************)
(* Archives parked between an import's preview and its confirm              *)
(* (backend/autowright/api.py, _park_archive to import_confirm): a spool     *)
(* file per token, a slot in memory, an expiry timer per slot.  Requests run *)
(* on threads; every change of the slots is made under one lock.            *)
(***************************************************************************)
EXTENDS Integers, FiniteSets

CONSTANTS Previews,      \* previews' tokens, numbers
          Confirms,    \* confirm requests
          Slots,       \* _IMPORT_SLOTS
          Ttl,         \* _IMPORT_TTL
          MaxNow, MaxMishaps   \* bounds

ASSUME ParkAssumption == /\ IsFiniteSet(Previews) /\ Slots \in Nat \ {0}
                         /\ Ttl \in Nat /\ MaxNow \in Nat

VARIABLES now,         \* time.monotonic()
          slot,        \* _import_parked: token -> the stamp it was parked with
          timer,       \* _import_timers: token -> when it fires
          firing,      \* callbacks that began and wait for the lock
          resweeps,    \* callbacks through with their own slot
          spool,       \* tokens with a file in import-spool/
          parking,     \* token -> [st, stamp] of its preview request
          confirm,     \* confirm request -> [st, token, stamp, late]
          imported,    \* token -> times its archive landed
          leftover,    \* files given up to the next start's sweep
          running, mishaps

parkVars == <<now, slot, timer, firing, resweeps, spool, parking, confirm, imported,
              leftover, running, mishaps>>

FreeSlot == -1
NoConfirm == [st |-> "idle", token |-> 0, stamp |-> FreeSlot, late |-> FALSE]

ParkInit ==
  /\ now = 0 /\ slot = [t \in Previews |-> FreeSlot] /\ timer = [t \in Previews |-> FreeSlot]
  /\ firing = {} /\ resweeps = 0 /\ spool = {}
  /\ parking = [t \in Previews |-> [st |-> "none", stamp |-> FreeSlot]]
  /\ confirm = [c \in Confirms |-> NoConfirm]
  /\ imported = [t \in Previews |-> 0] /\ leftover = {} /\ running = TRUE /\ mishaps = 0

Parked == {t \in Previews : slot[t] # FreeSlot}
Stale(stamp) == now - stamp > Ttl
Expired == {t \in Parked : Stale(slot[t])}

(* _drop_parked: slot, timer and file of each token go. *)
Forgotten(ts) == [t \in Previews |-> IF t \in ts THEN FreeSlot ELSE timer[t]]
Dropped(ts) ==
  /\ slot' = [t \in Previews |-> IF t \in ts THEN FreeSlot ELSE slot[t]]
  /\ timer' = Forgotten(ts)
  /\ spool' = spool \ (ts \cap Parked)

Goes(t, st) == parking' = [parking EXCEPT ![t].st = st]
Mishap == mishaps < MaxMishaps /\ mishaps' = mishaps + 1

(***************************************************************************)
(* A preview parks what it reviewed: the file first, then the slot.         *)
(***************************************************************************)
(* Tokens are random: the numbers only name them in the order of arrival.    *)
ParkBegins(t) ==
  /\ running /\ parking[t].st = "none" /\ \A u \in Previews : u < t => parking[u].st # "none"
  /\ parking' = [parking EXCEPT ![t] = [st |-> "writing", stamp |-> now]]
  /\ spool' = spool \cup {t}
  /\ UNCHANGED <<now, slot, timer, firing, resweeps, confirm, imported, leftover, running, mishaps>>

ParkWrites(t) ==
  /\ running /\ parking[t].st = "writing" /\ Goes(t, "written")
  /\ UNCHANGED <<now, slot, timer, firing, resweeps, spool, confirm, imported, leftover, running, mishaps>>

(* A write that fails takes the half-written file with it: 507.             *)
ParkFails(t) ==
  /\ running /\ parking[t].st = "writing" /\ Mishap /\ Goes(t, "over")
  /\ spool' = spool \ {t}
  /\ UNCHANGED <<now, slot, timer, firing, resweeps, confirm, imported, leftover, running>>

ParkSweeps(t) ==
  /\ running /\ parking[t].st = "written" /\ Goes(t, "swept") /\ Dropped(Expired)
  /\ UNCHANGED <<now, firing, resweeps, confirm, imported, leftover, running, mishaps>>

(* An expired file that cannot be removed ends the request as well: neither  *)
(* its file nor the one just written has a slot any more.                    *)
ParkSweepFails(t, e) ==
  /\ running /\ parking[t].st = "written" /\ e \in Expired /\ Mishap /\ Goes(t, "over")
  /\ slot' = [slot EXCEPT ![e] = FreeSlot] /\ timer' = [timer EXCEPT ![e] = FreeSlot]
  /\ leftover' = leftover \cup {e, t}
  /\ UNCHANGED <<now, firing, resweeps, spool, confirm, imported, running>>

Oldest(ts) == CHOOSE t \in ts : \A u \in ts : slot[t] <= slot[u]
NeverEvicts == {}
Evicted == IF Cardinality(Parked) >= Slots THEN {Oldest(Parked)} ELSE {}
ParkInserts(t) ==
  /\ running /\ parking[t].st = "swept" /\ Goes(t, "over")
  /\ slot' = [u \in Previews |-> IF u = t THEN parking[t].stamp
                               ELSE IF u \in Evicted THEN FreeSlot ELSE slot[u]]
  /\ timer' = [Forgotten(Evicted) EXCEPT ![t] = now + Ttl]
  /\ spool' = spool \ Evicted
  /\ UNCHANGED <<now, firing, resweeps, confirm, imported, leftover, running, mishaps>>

(***************************************************************************)
(* The expiry timer.  Cancelling one whose callback has begun is in vain.   *)
(***************************************************************************)
TimerFires(t) ==
  /\ running /\ timer[t] # FreeSlot /\ now >= timer[t] /\ t \notin firing
  /\ firing' = firing \cup {t}
  /\ UNCHANGED <<now, slot, timer, resweeps, spool, parking, confirm, imported, leftover, running, mishaps>>

Expires(t) ==
  /\ running /\ t \in firing
  /\ firing' = firing \ {t} /\ resweeps' = resweeps + 1 /\ Dropped({t})
  /\ UNCHANGED <<now, parking, confirm, imported, leftover, running, mishaps>>

Resweeps ==
  /\ running /\ resweeps > 0
  /\ resweeps' = resweeps - 1 /\ Dropped(Expired)
  /\ UNCHANGED <<now, firing, parking, confirm, imported, leftover, running, mishaps>>

(***************************************************************************)
(* A confirm sweeps, takes the slot, reads the file, and always removes it. *)
(***************************************************************************)
Answers(c, rec) == confirm' = [confirm EXCEPT ![c] = rec]

ConfirmBegins(c, t) ==
  /\ running /\ confirm[c].st = "idle" /\ parking[t].st = "over"
  /\ Answers(c, [st |-> "swept", token |-> t, stamp |-> FreeSlot, late |-> Stale(parking[t].stamp)])
  /\ Dropped(Expired)
  /\ UNCHANGED <<now, firing, resweeps, parking, imported, leftover, running, mishaps>>

ConfirmFinds(c) == slot[confirm[c].token] # FreeSlot
PeeksOnly(t) == slot
Taken(t) == [slot EXCEPT ![t] = FreeSlot]
ConfirmPops(c) ==
  /\ running /\ confirm[c].st = "swept" /\ ConfirmFinds(c)
  /\ LET t == confirm[c].token
     IN /\ Answers(c, [confirm[c] EXCEPT !.st = "taken", !.stamp = slot[t]])
        /\ slot' = Taken(t) /\ timer' = Forgotten({t})
  /\ UNCHANGED <<now, firing, resweeps, spool, parking, imported, leftover, running, mishaps>>

ConfirmGone(c) ==
  /\ running /\ confirm[c].st = "swept" /\ ~ConfirmFinds(c)
  /\ Answers(c, NoConfirm)
  /\ UNCHANGED <<now, slot, timer, firing, resweeps, spool, parking, imported, leftover, running, mishaps>>

(* Expired meanwhile, or the file gone: the answer of an expired token.      *)
ConfirmReads(c) ==
  /\ running /\ confirm[c].st = "taken"
  /\ Answers(c, [confirm[c] EXCEPT !.st = IF ~Stale(confirm[c].stamp) /\ confirm[c].token \in spool
                                          THEN "read" ELSE "refused"])
  /\ UNCHANGED <<now, slot, timer, firing, resweeps, spool, parking, imported, leftover, running, mishaps>>

ConfirmEnds(c) ==
  /\ running /\ confirm[c].st \in {"read", "refused"}
  /\ LET t == confirm[c].token
     IN /\ spool' = spool \ {t}
        /\ imported' = [imported EXCEPT ![t] = IF confirm[c].st = "read" THEN @ + 1 ELSE @]
  /\ Answers(c, NoConfirm)
  /\ UNCHANGED <<now, slot, timer, firing, resweeps, parking, leftover, running, mishaps>>

(***************************************************************************)
(* Time, an outside cleanup, a crash and the sweep of the next start, which  *)
(* may be unable to remove some of the files.                                *)
(***************************************************************************)
TimePasses == /\ now < MaxNow /\ now' = now + 1
              /\ UNCHANGED <<slot, timer, firing, resweeps, spool, parking, confirm, imported,
                             leftover, running, mishaps>>
CleanedOutside(t) ==
  /\ t \in spool /\ parking[t].st = "over" /\ Mishap
  /\ spool' = spool \ {t}
  /\ UNCHANGED <<now, slot, timer, firing, resweeps, parking, confirm, imported, leftover, running>>
BackendDies ==
  /\ running /\ Mishap
  /\ running' = FALSE /\ firing' = {} /\ resweeps' = 0
  /\ slot' = [t \in Previews |-> FreeSlot] /\ timer' = [t \in Previews |-> FreeSlot]
  /\ confirm' = [c \in Confirms |-> NoConfirm]
  /\ parking' = [t \in Previews |-> IF parking[t].st = "none" THEN parking[t]
                                  ELSE [parking[t] EXCEPT !.st = "over"]]
  /\ UNCHANGED <<now, spool, imported, leftover>>
ClearedSpool(stuck) == stuck
Starts(stuck) ==
  /\ ~running /\ running' = TRUE
  /\ spool' = ClearedSpool(stuck) /\ leftover' = stuck
  /\ UNCHANGED <<now, slot, timer, firing, resweeps, parking, confirm, imported, mishaps>>

ParkNext ==
  \/ TimePasses \/ BackendDies \/ Resweeps
  \/ \E stuck \in SUBSET spool : Cardinality(stuck) <= 1 /\ Starts(stuck)
  \/ \E t \in Previews : \/ ParkBegins(t) \/ ParkWrites(t) \/ ParkFails(t) \/ ParkSweeps(t)
                       \/ ParkInserts(t) \/ TimerFires(t) \/ Expires(t) \/ CleanedOutside(t)
                       \/ \E e \in Previews : ParkSweepFails(t, e)
  \/ \E c \in Confirms : \/ ConfirmPops(c) \/ ConfirmGone(c) \/ ConfirmReads(c) \/ ConfirmEnds(c)
                         \/ \E t \in Previews : ConfirmBegins(c, t)

ParkSpec == ParkInit /\ [][ParkNext]_parkVars

ParkTypeOK ==
  /\ now \in 0..MaxNow /\ spool \subseteq Previews /\ firing \subseteq Previews
  /\ slot \in [Previews -> FreeSlot..MaxNow] /\ timer \in [Previews -> FreeSlot..(MaxNow + Ttl)]
  /\ \A t \in Previews : parking[t].st \in {"none", "writing", "written", "swept", "over"}

(* A reviewed archive lands at most once, however many confirms race, and     *)
(* never on a confirm that came after its time (api.py:1700-1722).            *)
LandsOnceInTime ==
  /\ \A t \in Previews : imported[t] <= 1
  /\ \A c \in Confirms : confirm[c].st = "read" => ~confirm[c].late

(* No spool file is forgotten: each has a slot, a request still at work on    *)
(* it, or was given up where the code says so; and no slot outlives its time, *)
(* nor are there more than Slots (api.py:1586-1667).                          *)
SpoolIsAccounted ==
  /\ \A t \in spool : \/ slot[t] # FreeSlot \/ parking[t].st \in {"writing", "written", "swept"}
                      \/ \E c \in Confirms : confirm[c].st \in {"taken", "read", "refused"} /\ confirm[c].token = t
                      \/ t \in leftover \/ ~running
  /\ \A t \in Parked : timer[t] # FreeSlot \/ t \in firing
  /\ Cardinality(Parked) <= Slots
================================================================================
