----------------------------- MODULE ExecQueue -----------------------------
(***************************************************************************)
(* Admission, queueing and ending of executions in the autowright backend: *)
(* firing.py, the admission half of engine.py, the record writes of        *)
(* storage.py they make, and the API handlers that call them.              *)
(*                                                                         *)
(* One action is one hold of store.lock, or one effect a thread makes      *)
(* outside it.  A handler that lets go of the lock keeps what it read in   *)
(* op, on, ref, doomed and tell, and goes on with those possibly stale     *)
(* values in its next action.                                              *)
(***************************************************************************)
EXTENDS Naturals, FiniteSets

CONSTANTS
    Autos,        \* the automations
    MaxRecs,      \* bound: the number of execution records ever made
    MaxGen,       \* bound: the number of data-path switches
    Handlers,     \* the API and listener threads
    Ticker,       \* the scheduler thread
    NoAuto,       \* "no automation"
    ParallelVals, \* the values maxParallel may be given
    DepthVals,    \* the values maxQueued may be given
    Requests,     \* bound: what is asked of the backend, a subset of AllRequests
    Faults,       \* the failures that may happen: "version", "error", "write", "launch"
    ClockSteps,   \* TRUE when the wall clock may be set back
    GraceExpires  \* TRUE when a step may outlive the kill grace of a delete

Recs == 1..MaxRecs
NoRec == 0
Gens == 0..MaxGen

\* An automation dict: a reload of the store replaces it by a new object.
Dicts == Autos \X Gens

\* The thread of an execution is named by its record: it drains the queue
\* as its last act.
Threads == Handlers \cup {Ticker} \cup Recs

\* A firing, a manual start or queue request, a retry, a cancel, a queue clear,
\* a change of the limits or of the triggers, a delete, a shutdown, a new data path.
AllRequests == {"message", "timer", "start", "queue", "retry", "cancel", "clear", "limits",
                "triggers", "delete", "shutdown", "data_path"}

ASSUME SizeAssumption == MaxRecs \in Nat /\ MaxGen \in Nat
ASSUME LimitAssumption == ParallelVals \subseteq Nat \ {0} /\ DepthVals \subseteq Nat
ASSUME FaultAssumption == Faults \subseteq {"version", "error", "write", "launch"}
ASSUME RequestAssumption == Requests \subseteq AllRequests
ASSUME SwitchAssumption == ClockSteps \in BOOLEAN /\ GraceExpires \in BOOLEAN
ASSUME ThreadAssumption ==
    /\ Ticker \notin Handlers
    /\ Ticker \notin Recs
    /\ Handlers \cap Recs = {}
    /\ NoAuto \notin Autos

VARIABLES
    \* execution records
    made,       \* how many records exist; record r is the r-th one made
    status,     \* record -> its status ("none" before it is made)
    owner,      \* record -> its automation
    payload,    \* record -> TRUE when a message fired it (trigger_payload)
    stamp,      \* record -> its queued_at, by the wall clock
    stale,      \* the message entries that have waited longer than QUEUE_TTL_S
    note,       \* record -> why it never ran
    told,       \* record -> how many busy notices its sender was sent
    \* automations
    registered, \* the automations in store.autos
    gen,        \* automation -> the generation of its registered dict
    slots,      \* dict -> its _live set
    deleting,   \* the dicts whose _deleting flag is set
    parallel,   \* automation -> maxParallel
    depth,      \* automation -> maxQueued
    enabled,    \* automation -> the kinds of its enabled triggers
    \* engine
    thread,     \* record -> how far its engine thread is; "none" when not in engine._live
    flags,      \* record -> the flags on its engine state
    stopping,   \* engine._stopping
    unreachable,\* store.exec_dir_unreachable
    \* the handlers in progress
    op,         \* thread -> what it is doing
    on,         \* thread -> the automation it works on
    ref,        \* thread -> the generation of the dict it holds
    doomed,     \* thread -> the records it has yet to deal with
    waits,      \* thread -> the executions a delete waits for
    tell        \* thread -> the record whose sender it still has to answer

recVars == <<made, status, owner, payload, stamp, stale, note, told>>
autoVars == <<registered, gen, slots, deleting, parallel, depth, enabled>>
engineVars == <<thread, flags, stopping, unreachable>>
threadVars == <<op, on, ref, doomed, waits, tell>>
vars == <<recVars, autoVars, engineVars, threadVars>>

\* "ended" stands for succeeded, cancelled and interrupted, which nothing here
\* tells apart; only a failed record can be retried.
Statuses == {"none", "queued", "executing", "ended", "failed", "skipped"}
TriggerKinds == {"message", "timer"}
Notes == {"none", "busy", "left", "untold"}
Stages == {"none", "run", "decided", "settled"}
FlagKinds == {"cancel", "shutdown"}

\* Threads that hold a firing or a start they are about to admit.
Admitting == {"fire_message", "fire_timer", "start", "queue"}

Ops == Admitting \cup {"idle", "retry", "cancel", "leave", "clear", "patched", "unmatch",
                       "enter", "drain", "stop_live", "stop_queued", "stop_wait", "sweep"}

(***************************************************************************)
(* Reading the store                                                       *)
(***************************************************************************)
Dict(a) == <<a, gen[a]>>

\* The dict a handler looked up, perhaps a while ago.
Held(w) == <<on[w], ref[w]>>

QueuedExecs(a) == {r \in Recs : status[r] = "queued" /\ owner[r] = a}

\* Mutation: the queue is sorted the other way round.
MutNewestFirst(a) == {r \in QueuedExecs(a) : \A q \in QueuedExecs(a) : stamp[r] >= stamp[q]}

\* queued_execs sorts by queued_at.
Heads(a) == {r \in QueuedExecs(a) : \A q \in QueuedExecs(a) : stamp[r] <= stamp[q]}

AtCapacity(d) == Cardinality(slots[d]) >= parallel[d[1]]

AdmissionBlocked(d) == AtCapacity(d) \/ QueuedExecs(d[1]) # {}

\* Mutation: a delete in progress refuses no start.
MutAdmitsDeleting(d) == stopping \/ unreachable

\* Mutation: a start inside a shutdown is not refused.
MutAdmitsStopping(d) == unreachable \/ d \in deleting

\* What start and retry refuse before they look at anything else.
Refused(d) == stopping \/ unreachable \/ d \in deleting

IsLive(r) == thread[r] # "none"

New == made + 1

(***************************************************************************)
(* Writing the store                                                       *)
(***************************************************************************)
\* create_execution: one more record.  A record is stamped with the wall
\* clock, which a clock set back may put before older records.
Create(a, s, msg, why) ==
    /\ made < MaxRecs
    /\ made' = New
    /\ status' = [status EXCEPT ![New] = s]
    /\ owner' = [owner EXCEPT ![New] = a]
    /\ payload' = [payload EXCEPT ![New] = msg]
    /\ note' = [note EXCEPT ![New] = why]
    /\ \E t \in IF ClockSteps THEN 1..New ELSE {New} : stamp' = [stamp EXCEPT ![New] = t]
    /\ UNCHANGED <<stale, told>>

\* Mutation: an entry that leaves the queue is marked cancelled.
MutCancelledStatus(r, why) ==
    /\ status' = [status EXCEPT ![r] = "cancelled"]
    /\ note' = [note EXCEPT ![r] = why]
    /\ stale' = stale \ {r}
    /\ UNCHANGED <<made, owner, payload, stamp, told>>

\* finish_never_ran on a record that exists.
FinishNeverRan(r, why) ==
    /\ status' = [status EXCEPT ![r] = "skipped"]
    /\ note' = [note EXCEPT ![r] = why]
    /\ stale' = stale \ {r}
    /\ UNCHANGED <<made, owner, payload, stamp, told>>

\* The record takes a slot of dict d, if that is one that counts, and gets an
\* engine thread (_launch).
Launch(d, r, counts) ==
    /\ slots' = IF counts THEN [slots EXCEPT ![d] = @ \cup {r}] ELSE slots
    /\ thread' = [thread EXCEPT ![r] = "run"]
    /\ flags' = [flags EXCEPT ![r] = {}]
    /\ UNCHANGED <<registered, gen, deleting, parallel, depth, enabled, stopping, unreachable>>

\* Thread w is done; it still owes an answer to the sender of r, if any.
Rests(w, r) ==
    /\ op' = [op EXCEPT ![w] = "idle"]
    /\ on' = [on EXCEPT ![w] = NoAuto]
    /\ ref' = [ref EXCEPT ![w] = 0]
    /\ tell' = [tell EXCEPT ![w] = r]

Idle(w) == Rests(w, NoRec)

\* Handlers start from rest.  Ones that will make a record are not let in
\* beyond the bound on records.
Begins(w, o, a) ==
    /\ op[w] = "idle" /\ tell[w] = NoRec
    /\ o \in Admitting =>
          made + Cardinality({v \in Threads : op[v] \in Admitting}) < MaxRecs
    /\ op' = [op EXCEPT ![w] = o]
    /\ on' = [on EXCEPT ![w] = a]
    /\ ref' = [ref EXCEPT ![w] = IF a = NoAuto THEN 0 ELSE gen[a]]

-----------------------------------------------------------------------------
Init ==
    /\ made = 0
    /\ status = [r \in Recs |-> "none"]
    /\ owner = [r \in Recs |-> NoAuto]
    /\ payload = [r \in Recs |-> FALSE]
    /\ stamp = [r \in Recs |-> 0]
    /\ stale = {}
    /\ note = [r \in Recs |-> "none"]
    /\ told = [r \in Recs |-> 0]
    /\ registered = Autos
    /\ gen = [a \in Autos |-> 0]
    /\ slots = [d \in Dicts |-> {}]
    /\ deleting = {}
    /\ parallel \in [Autos -> ParallelVals]
    /\ depth \in [Autos -> DepthVals]
    /\ enabled = [a \in Autos |-> TriggerKinds]
    /\ thread = [r \in Recs |-> "none"]
    /\ flags = [r \in Recs |-> {}]
    /\ stopping = FALSE
    /\ unreachable \in BOOLEAN
    /\ unreachable => "data_path" \in Requests
    /\ op = [w \in Threads |-> "idle"]
    /\ on = [w \in Threads |-> NoAuto]
    /\ ref = [w \in Threads |-> 0]
    /\ doomed = [w \in Threads |-> {}]
    /\ waits = [w \in Threads |-> {}]
    /\ tell = [w \in Threads |-> NoRec]

(***************************************************************************)
(* fire_trigger.  The scheduler or a listener collects a firing in one     *)
(* hold of the lock and admits it in another.                              *)
(***************************************************************************)
CollectFiring(w, a, k) ==
    /\ a \in registered
    /\ k \in enabled[a]
    /\ k \in Requests
    /\ (k = "timer") = (w = Ticker)
    /\ Begins(w, IF k = "timer" THEN "fire_timer" ELSE "fire_message", a)
    /\ UNCHANGED <<recVars, autoVars, engineVars, doomed, waits, tell>>

Firing(w) == op[w] \in {"fire_message", "fire_timer"} /\ w \in Handlers \cup {Ticker}

IsMessage(w) == op[w] = "fire_message"

FiringKind(w) == IF IsMessage(w) THEN "message" ELSE "timer"

\* Mutation: a trigger switched off after the firing was collected still fires.
MutFiresDisabled(w) ==
    \/ Held(w) \in deleting
    \/ on[w] \notin registered
    \/ ref[w] # gen[on[w]]
    \/ unreachable

\* Mutation: the dict collected before a reload is taken for the registered one.
MutFiresStaleDict(w) ==
    \/ Held(w) \in deleting
    \/ on[w] \notin registered
    \/ FiringKind(w) \notin enabled[on[w]]
    \/ unreachable

\* What happened to the automation since the firing was collected may have
\* made it void: then it leaves no record at all.
FiringVoid(w) ==
    \/ Held(w) \in deleting
    \/ on[w] \notin registered
    \/ ref[w] # gen[on[w]]
    \/ FiringKind(w) \notin enabled[on[w]]
    \/ unreachable

\* Mutation: the queue takes one entry too many.
MutRoomForOneMore(a) == Cardinality(QueuedExecs(a)) <= depth[a]

RoomInQueue(a) == Cardinality(QueuedExecs(a)) < depth[a]

FireVoid(w) ==
    /\ Firing(w)
    /\ FiringVoid(w)
    /\ Idle(w)
    /\ UNCHANGED <<recVars, autoVars, engineVars, doomed, waits>>

FireJoins(w) ==
    /\ Firing(w) /\ ~FiringVoid(w)
    /\ AdmissionBlocked(Held(w))
    /\ IsMessage(w) /\ RoomInQueue(on[w])
    /\ Create(on[w], "queued", TRUE, "none")
    /\ Idle(w)
    /\ UNCHANGED <<autoVars, engineVars, doomed, waits>>

\* Mutation: a message turned away is not answered.
MutSkipsSilently(w) ==
    /\ Firing(w) /\ ~FiringVoid(w)
    /\ AdmissionBlocked(Held(w))
    /\ ~(IsMessage(w) /\ RoomInQueue(on[w]))
    /\ Create(on[w], "skipped", IsMessage(w), "busy")
    /\ Idle(w)
    /\ UNCHANGED <<autoVars, engineVars, doomed, waits>>

\* The newest firing is turned away; if it is a message, its sender is told
\* once the lock is free.
FireSkips(w) ==
    /\ Firing(w) /\ ~FiringVoid(w)
    /\ AdmissionBlocked(Held(w))
    /\ ~(IsMessage(w) /\ RoomInQueue(on[w]))
    /\ Create(on[w], "skipped", IsMessage(w), "busy")
    /\ Rests(w, IF IsMessage(w) THEN New ELSE NoRec)
    /\ UNCHANGED <<autoVars, engineVars, doomed, waits>>

\* Engine.start for a record that does not exist yet.
StartNew(w, msg) ==
    /\ ~Refused(Held(w))
    /\ ~AdmissionBlocked(Held(w))
    /\ \/ /\ Create(on[w], "executing", msg, "none")
          /\ Launch(Held(w), New, TRUE)
       \* the thread cannot be started: _launch settles the record
       \/ /\ "launch" \in Faults
          /\ Create(on[w], "failed", msg, "none")
          /\ UNCHANGED <<autoVars, engineVars>>

\* start refuses, or fails before there is a record.
StartRaises(w, failures) ==
    /\ \/ AdmissionBlocked(Held(w))
       \/ Refused(Held(w))
       \/ Faults \cap failures # {}
    /\ UNCHANGED <<recVars, autoVars, engineVars>>

FireStarts(w) ==
    /\ Firing(w) /\ ~FiringVoid(w)
    /\ StartNew(w, IsMessage(w))
    /\ Idle(w)
    /\ UNCHANGED <<doomed, waits>>

FireRaises(w) ==
    /\ Firing(w) /\ ~FiringVoid(w)
    /\ ~AdmissionBlocked(Held(w))
    /\ \/ StartRaises(w, {"error", "write"})
       \* VersionNotFound leaves a record saying so, and no notice
       \/ /\ "version" \in Faults /\ ~Refused(Held(w))
          /\ Create(on[w], "skipped", IsMessage(w), "untold")
          /\ UNCHANGED <<autoVars, engineVars>>
    /\ Idle(w)
    /\ UNCHANGED <<doomed, waits>>

(***************************************************************************)
(* POST /automations/{id}/execute: a manual start, or with queue: true a   *)
(* manual admission (queue_manual).  The route looks the automation up     *)
(* before it takes the lock.                                               *)
(***************************************************************************)
RequestStart(w, a, o) ==
    /\ w \in Handlers /\ a \in registered
    /\ o \in Requests
    /\ Begins(w, o, a)
    /\ UNCHANGED <<recVars, autoVars, engineVars, doomed, waits, tell>>

Manual(w) == op[w] \in {"start", "queue"} /\ w \in Handlers

ManualStarts(w) ==
    /\ Manual(w)
    /\ StartNew(w, FALSE)
    /\ Idle(w)
    /\ UNCHANGED <<doomed, waits>>

\* A start is refused at capacity; a queue request when the queue is full,
\* or for a Draft, or for a version that does not resolve.  No record.
ManualRefused(w) ==
    /\ Manual(w)
    /\ StartRaises(w, {"version", "error", "write"})
    /\ Idle(w)
    /\ UNCHANGED <<doomed, waits>>

ManualJoins(w) ==
    /\ op[w] = "queue" /\ w \in Handlers
    /\ Held(w) \notin deleting /\ ~unreachable
    /\ AdmissionBlocked(Held(w))
    /\ RoomInQueue(on[w])
    /\ Create(on[w], "queued", FALSE, "none")
    /\ Idle(w)
    /\ UNCHANGED <<autoVars, engineVars, doomed, waits>>

(***************************************************************************)
(* Engine.retry: the same record executes again.                           *)
(***************************************************************************)
RequestRetry(w, r) ==
    /\ "retry" \in Requests
    /\ w \in Handlers
    /\ status[r] # "none" /\ owner[r] \in registered
    /\ Begins(w, "retry", owner[r])
    /\ doomed' = [doomed EXCEPT ![w] = {r}]
    /\ UNCHANGED <<recVars, autoVars, engineVars, waits, tell>>

RetryAdmitted(w, r) ==
    /\ ~Refused(Held(w))
    /\ ~IsLive(r)
    /\ ~AdmissionBlocked(Held(w))
    /\ status[r] = "failed"

\* The slot is taken in the registered dict, if there is one (update_execution
\* looks it up); capacity was judged on the dict the route held.
RetryStarts(w) ==
    /\ op[w] = "retry"
    /\ \E r \in doomed[w] :
          /\ RetryAdmitted(w, r)
          /\ status' = [status EXCEPT ![r] = "executing"]
          /\ Launch(Dict(owner[r]), r, owner[r] \in registered)
    /\ doomed' = [doomed EXCEPT ![w] = {}]
    /\ Idle(w)
    /\ UNCHANGED <<made, owner, payload, stamp, stale, note, told, waits>>

\* Refused, or the write or the launch failed: the record is failed as before.
RetryRefused(w) ==
    /\ op[w] = "retry"
    /\ \A r \in doomed[w] : RetryAdmitted(w, r) => Faults \cap {"write", "launch"} # {}
    /\ doomed' = [doomed EXCEPT ![w] = {}]
    /\ Idle(w)
    /\ UNCHANGED <<recVars, autoVars, engineVars, waits>>

(***************************************************************************)
(* finish_queued, one entry at a time: for a cancel, the queue-clear       *)
(* route, a trigger switched off, the TTL, a head that cannot start, and   *)
(* the entries of an automation being deleted.                             *)
(***************************************************************************)
Finishing == {"leave", "clear", "unmatch", "drain", "stop_queued"}

\* The entry ends and its sender is told after the lock is let go.
FinishQueued(w) ==
    /\ op[w] \in Finishing /\ tell[w] = NoRec
    /\ \E r \in doomed[w] :
          /\ status[r] = "queued"
          /\ FinishNeverRan(r, "left")
          /\ doomed' = [doomed EXCEPT ![w] = @ \ {r}]
          /\ tell' = [tell EXCEPT ![w] = IF payload[r] THEN r ELSE NoRec]
    /\ UNCHANGED <<autoVars, engineVars, op, on, ref, waits>>

\* A flag goes up on the engine state; it is read until the thread decides.
Flag(r, f) ==
    /\ flags' = [flags EXCEPT ![r] = IF thread[r] = "run" THEN @ \cup {f} ELSE @]
    /\ UNCHANGED <<thread, stopping, unreachable>>

\* Mutation: a cancel that lost the entry to a promotion gives up.
MutCancelGivesUp(w) ==
    /\ op[w] \in Finishing \ {"stop_queued"} /\ tell[w] = NoRec
    /\ \E r \in doomed[w] :
          /\ status[r] # "queued"
          /\ doomed' = [doomed EXCEPT ![w] = @ \ {r}]
    /\ UNCHANGED <<recVars, autoVars, engineVars, op, on, ref, waits, tell>>

\* Mutation: an entry promoted meanwhile is cancelled as a live execution.
MutSweepCancelsLive(w) ==
    /\ op[w] \in Finishing \ {"stop_queued"} /\ tell[w] = NoRec
    /\ \E r \in doomed[w] :
          /\ status[r] # "queued"
          /\ Flag(r, "cancel")
          /\ doomed' = [doomed EXCEPT ![w] = @ \ {r}]
    /\ UNCHANGED <<recVars, autoVars, op, on, ref, waits, tell>>

\* The entry was promoted or ended meanwhile.  A cancel looks again, all
\* others let it be.
FinishQueuedLost(w) ==
    /\ op[w] \in Finishing \ {"stop_queued"} /\ tell[w] = NoRec
    /\ \E r \in doomed[w] :
          /\ status[r] # "queued"
          /\ doomed' = [doomed EXCEPT ![w] = IF op[w] = "leave" THEN @ ELSE @ \ {r}]
    /\ op' = [op EXCEPT ![w] = IF @ = "leave" THEN "cancel" ELSE @]
    /\ UNCHANGED <<recVars, autoVars, engineVars, on, ref, waits, tell>>

\* The write of the ended entry fails: memory has it skipped already, and the
\* exception leaves the handler before the sender is told.  A delete puts the
\* _deleting flag back.
FinishQueuedRaises(w) ==
    /\ "write" \in Faults
    /\ op[w] \in Finishing /\ tell[w] = NoRec
    /\ \E r \in doomed[w] : status[r] = "queued" /\ FinishNeverRan(r, "untold")
    /\ doomed' = [doomed EXCEPT ![w] = {}]
    /\ deleting' = IF op[w] = "stop_queued" THEN deleting \ {Held(w)} ELSE deleting
    /\ Idle(w)
    /\ UNCHANGED <<registered, gen, slots, parallel, depth, enabled, engineVars, waits>>

\* notify_busy
Tell(w) ==
    /\ tell[w] # NoRec
    /\ told' = [told EXCEPT ![tell[w]] = @ + 1]
    /\ tell' = [tell EXCEPT ![w] = NoRec]
    /\ UNCHANGED <<made, status, owner, payload, stamp, stale, note, autoVars, engineVars,
                   op, on, ref, doomed, waits>>

\* Mutation: a delete returns once the queue is empty.
MutDeleteReturns(w) ==
    /\ doomed[w] = {} /\ tell[w] = NoRec
    /\ \/ /\ op[w] \in {"leave", "clear", "stop_queued"}
          /\ Idle(w)
       \/ /\ op[w] = "unmatch"
          /\ op' = [op EXCEPT ![w] = "enter"]
          /\ UNCHANGED <<on, ref, tell>>
    /\ UNCHANGED <<recVars, autoVars, engineVars, doomed, waits>>

\* Nothing is left to finish: the handler ends, or calls what comes next.
FinishedAll(w) ==
    /\ doomed[w] = {} /\ tell[w] = NoRec
    /\ \/ /\ op[w] \in {"leave", "clear"}
          /\ Idle(w)
       \/ /\ op[w] \in {"unmatch", "stop_queued"}
          /\ op' = [op EXCEPT ![w] = IF @ = "unmatch" THEN "enter" ELSE "stop_wait"]
          /\ UNCHANGED <<on, ref, tell>>
    /\ UNCHANGED <<recVars, autoVars, engineVars, doomed, waits>>

(***************************************************************************)
(* Engine.cancel and POST /automations/{id}/queue/clear.                   *)
(***************************************************************************)
RequestCancel(w, r) ==
    /\ "cancel" \in Requests
    /\ w \in Handlers
    /\ status[r] # "none"
    /\ Begins(w, "cancel", owner[r])
    /\ doomed' = [doomed EXCEPT ![w] = {r}]
    /\ UNCHANGED <<recVars, autoVars, engineVars, waits, tell>>

CancelLooks(w) ==
    /\ op[w] = "cancel"
    /\ \E r \in doomed[w] :
          \/ /\ status[r] = "queued"
             /\ op' = [op EXCEPT ![w] = "leave"]
             /\ UNCHANGED <<engineVars, on, ref, doomed, tell>>
          \/ /\ status[r] # "queued"
             /\ Flag(r, "cancel")
             /\ doomed' = [doomed EXCEPT ![w] = {}]
             /\ Idle(w)
    /\ UNCHANGED <<recVars, autoVars, waits>>

RequestClear(w, a) ==
    /\ "clear" \in Requests
    /\ w \in Handlers /\ a \in registered
    /\ Begins(w, "clear", a)
    /\ doomed' = [doomed EXCEPT ![w] = QueuedExecs(a)]
    /\ UNCHANGED <<recVars, autoVars, engineVars, waits, tell>>

(***************************************************************************)
(* PATCH /automations/{id}: limits, or the trigger list.                   *)
(***************************************************************************)
PatchLimits(w, a) ==
    /\ "limits" \in Requests
    /\ w \in Handlers /\ a \in registered
    /\ \E p \in ParallelVals : parallel' = [parallel EXCEPT ![a] = p]
    /\ \E q \in DepthVals : depth' = [depth EXCEPT ![a] = q]
    /\ Begins(w, "enter", a)
    /\ UNCHANGED <<recVars, engineVars, registered, gen, slots, deleting, enabled,
                   doomed, waits, tell>>

PatchTriggers(w, a) ==
    /\ "triggers" \in Requests
    /\ w \in Handlers /\ a \in registered
    /\ \E k \in SUBSET TriggerKinds : enabled' = [enabled EXCEPT ![a] = k]
    /\ Begins(w, "patched", a)
    /\ UNCHANGED <<recVars, engineVars, registered, gen, slots, deleting, parallel, depth,
                   doomed, waits, tell>>

\* cancel_unmatched_queue: entries no enabled trigger would admit are doomed.
CancelUnmatched(w) ==
    /\ op[w] = "patched"
    /\ op' = [op EXCEPT ![w] = "unmatch"]
    /\ doomed' = [doomed EXCEPT ![w] =
          IF on[w] \in registered /\ "message" \notin enabled[on[w]]
          THEN {r \in QueuedExecs(on[w]) : payload[r]} ELSE {}]
    /\ UNCHANGED <<recVars, autoVars, engineVars, on, ref, waits, tell>>

(***************************************************************************)
(* drain_queue: called by the scheduler on a tick, by the engine thread of *)
(* an execution that ended, and by the PATCH route.                        *)
(***************************************************************************)
TickDrains(a) ==
    /\ a \in registered /\ QueuedExecs(a) # {}
    /\ Begins(Ticker, "enter", a)
    /\ UNCHANGED <<recVars, autoVars, engineVars, doomed, waits, tell>>

\* expire_stale picks its entries.
ExpireStale(w) ==
    /\ op[w] = "enter" /\ tell[w] = NoRec
    /\ op' = [op EXCEPT ![w] = "drain"]
    /\ doomed' = [doomed EXCEPT ![w] = stale \cap QueuedExecs(on[w])]
    /\ UNCHANGED <<recVars, autoVars, engineVars, on, ref, waits, tell>>

Draining(w) == op[w] = "drain" /\ doomed[w] = {} /\ tell[w] = NoRec

CanPromote(a) == a \in registered /\ ~AtCapacity(Dict(a))

\* The drain ends: nothing to hand out, nobody to hand it to, or the engine
\* refuses.  An OSError before the record was promoted ends it too.
DrainEnds(w) ==
    /\ Draining(w)
    /\ \/ ~CanPromote(on[w])
       \/ QueuedExecs(on[w]) = {}
       \/ Heads(on[w]) \ stale # {} /\ (Refused(Dict(on[w])) \/ "write" \in Faults)
    /\ Idle(w)
    /\ UNCHANGED <<recVars, autoVars, engineVars, doomed, waits>>

DrainPromotes(w) ==
    /\ Draining(w) /\ CanPromote(on[w]) /\ ~Refused(Dict(on[w]))
    /\ \E r \in Heads(on[w]) \ stale :
          /\ status' = [status EXCEPT ![r] = "executing"]
          /\ Launch(Dict(on[w]), r, TRUE)
    /\ UNCHANGED <<made, owner, payload, stamp, stale, note, told, threadVars>>

\* The head waited too long, or start raises something that will not clear:
\* it is doomed, and ends in the thread's next action.
DrainDooms(w) ==
    /\ Draining(w) /\ CanPromote(on[w])
    /\ \E r \in Heads(on[w]) :
          /\ \/ r \in stale
             \/ ~Refused(Dict(on[w])) /\ Faults \cap {"version", "error"} # {}
          /\ doomed' = [doomed EXCEPT ![w] = {r}]
    /\ UNCHANGED <<recVars, autoVars, engineVars, op, on, ref, waits, tell>>

\* Mutation: the record keeps the status the failed promotion gave it.
MutStrandsHead(w) ==
    /\ "write" \in Faults
    /\ Draining(w) /\ CanPromote(on[w]) /\ ~Refused(Dict(on[w]))
    /\ \E r \in Heads(on[w]) \ stale : status' = [status EXCEPT ![r] = "executing"]
    /\ Idle(w)
    /\ UNCHANGED <<made, owner, payload, stamp, stale, note, told,
                   autoVars, engineVars, doomed, waits>>

\* The write of the promoted record fails: promote_execution has flipped the
\* status, no thread was launched, so the record ends where it stands.
DrainWriteFails(w) ==
    /\ "write" \in Faults
    /\ Draining(w) /\ CanPromote(on[w]) /\ ~Refused(Dict(on[w]))
    /\ \E r \in Heads(on[w]) \ stale : FinishNeverRan(r, "untold")
    /\ Idle(w)
    /\ UNCHANGED <<autoVars, engineVars, doomed, waits>>

\* The thread cannot be started: _launch settles the record as failed and
\* the drain goes on with the next head.
DrainLaunchFails(w) ==
    /\ "launch" \in Faults
    /\ Draining(w) /\ CanPromote(on[w]) /\ ~Refused(Dict(on[w]))
    /\ \E r \in Heads(on[w]) \ stale : status' = [status EXCEPT ![r] = "failed"]
    /\ UNCHANGED <<made, owner, payload, stamp, stale, note, told,
                   autoVars, engineVars, threadVars>>

\* A message entry has now waited longer than QUEUE_TTL_S.
WaitsTooLong(r) ==
    /\ status[r] = "queued" /\ payload[r] /\ r \notin stale
    /\ stale' = stale \cup {r}
    /\ UNCHANGED <<made, status, owner, payload, stamp, note, told,
                   autoVars, engineVars, threadVars>>

(***************************************************************************)
(* The end of Engine._execute, in the thread of record r.                  *)
(***************************************************************************)
\* The thread sets the final status, outside the lock.
Decide(r) ==
    /\ thread[r] = "run"
    /\ \E s \in {"ended", "failed"} : status' = [status EXCEPT ![r] = s]
    /\ thread' = [thread EXCEPT ![r] = "decided"]
    /\ flags' = [flags EXCEPT ![r] = {}]
    /\ UNCHANGED <<made, owner, payload, stamp, stale, note, told, autoVars,
                   stopping, unreachable, threadVars>>

\* Mutation: no slot is ever given back.
MutKeepsSlot(r) == UNCHANGED autoVars

\* Record r gives back its slot in the registered dict of its automation.
FreeSlot(r) ==
    /\ slots' = IF owner[r] \in registered
                THEN [slots EXCEPT ![Dict(owner[r])] = @ \ {r}] ELSE slots
    /\ UNCHANGED <<registered, gen, deleting, parallel, depth, enabled>>

\* update_execution: written, and out of _live.
Settle(r) ==
    /\ thread[r] = "decided"
    /\ thread' = [thread EXCEPT ![r] = "settled"]
    /\ FreeSlot(r)
    /\ UNCHANGED <<recVars, flags, stopping, unreachable, threadVars>>

\* The write raises: the record is failed in memory, and keeps its slot for now.
SettleFails(r) ==
    /\ "write" \in Faults
    /\ thread[r] = "decided"
    /\ thread' = [thread EXCEPT ![r] = "settled"]
    /\ status' = [status EXCEPT ![r] = "failed"]
    /\ UNCHANGED <<made, owner, payload, stamp, stale, note, told, autoVars,
                   flags, stopping, unreachable, threadVars>>

\* The finally block: out of engine._live and of _live, then drain the queue.
Release(r) ==
    /\ thread[r] = "settled"
    /\ Begins(r, "enter", owner[r])
    /\ thread' = [thread EXCEPT ![r] = "none"]
    /\ FreeSlot(r)
    /\ UNCHANGED <<recVars, flags, stopping, unreachable, doomed, waits, tell>>

(***************************************************************************)
(* DELETE /automations/{id}                                                *)
(***************************************************************************)
RequestDelete(w, a) ==
    /\ "delete" \in Requests
    /\ w \in Handlers /\ a \in registered
    /\ Dict(a) \notin deleting
    /\ Begins(w, "stop_live", a)
    /\ deleting' = deleting \cup {Dict(a)}
    /\ doomed' = [doomed EXCEPT ![w] = slots[Dict(a)]]
    /\ waits' = [waits EXCEPT ![w] = slots[Dict(a)]]
    /\ UNCHANGED <<recVars, engineVars, registered, gen, slots, parallel, depth, enabled, tell>>

\* engine.cancel on each execution of the snapshot, ...
StopLive(w) ==
    /\ op[w] = "stop_live"
    /\ \E r \in doomed[w] :
          /\ Flag(r, "cancel")
          /\ doomed' = [doomed EXCEPT ![w] = @ \ {r}]
    /\ UNCHANGED <<recVars, autoVars, op, on, ref, waits, tell>>

\* ... then a snapshot of the queue, ...
SnapshotQueue(w) ==
    /\ op[w] = "stop_live" /\ doomed[w] = {}
    /\ op' = [op EXCEPT ![w] = "stop_queued"]
    /\ doomed' = [doomed EXCEPT ![w] = QueuedExecs(on[w])]
    /\ UNCHANGED <<recVars, autoVars, engineVars, on, ref, waits, tell>>

\* ... engine.cancel on each of those (FinishQueued, or this when it was
\* promoted meanwhile), ...
StopPromoted(w) ==
    /\ op[w] = "stop_queued" /\ tell[w] = NoRec
    /\ \E r \in doomed[w] :
          /\ status[r] # "queued"
          /\ Flag(r, "cancel")
          /\ doomed' = [doomed EXCEPT ![w] = @ \ {r}]
    /\ UNCHANGED <<recVars, autoVars, op, on, ref, waits, tell>>

\* ... and once the threads of the first snapshot are gone, the automation is.
RemoveAutomation(w) ==
    /\ op[w] = "stop_wait"
    /\ (\A r \in waits[w] : ~IsLive(r)) \/ GraceExpires
    /\ registered' = registered \ {on[w]}
    /\ waits' = [waits EXCEPT ![w] = {}]
    /\ Idle(w)
    /\ UNCHANGED <<recVars, engineVars, gen, slots, deleting, parallel, depth, enabled,
                   doomed>>

\* The directory cannot be moved aside: the automation stays.
RemoveFails(w) ==
    /\ "write" \in Faults
    /\ op[w] = "stop_wait"
    /\ deleting' = deleting \ {Held(w)}
    /\ waits' = [waits EXCEPT ![w] = {}]
    /\ Idle(w)
    /\ UNCHANGED <<recVars, engineVars, registered, gen, slots, parallel, depth, enabled,
                   doomed>>

(***************************************************************************)
(* Shutdown (kill_all_live) and the data-path switch (set_data_path).      *)
(***************************************************************************)
\* Mutation: the sweep leaves out what a cancel is already stopping.
MutSweepSkipsCancelled(w) ==
    /\ "shutdown" \in Requests
    /\ w \in Handlers
    /\ ~stopping
    /\ Begins(w, "sweep", NoAuto)
    /\ stopping' = TRUE
    /\ doomed' = [doomed EXCEPT ![w] = {r \in Recs : IsLive(r) /\ "cancel" \notin flags[r]}]
    /\ UNCHANGED <<recVars, autoVars, thread, flags, unreachable, waits, tell>>

KillAllLive(w) ==
    /\ "shutdown" \in Requests
    /\ w \in Handlers
    /\ ~stopping
    /\ Begins(w, "sweep", NoAuto)
    /\ stopping' = TRUE
    /\ doomed' = [doomed EXCEPT ![w] = {r \in Recs : IsLive(r)}]
    /\ UNCHANGED <<recVars, autoVars, thread, flags, unreachable, waits, tell>>

SweepKills(w) ==
    /\ op[w] = "sweep"
    /\ \E r \in doomed[w] :
          /\ Flag(r, "shutdown")
          /\ doomed' = [doomed EXCEPT ![w] = @ \ {r}]
    /\ UNCHANGED <<recVars, autoVars, op, on, ref, waits, tell>>

SweepEnds(w) ==
    /\ op[w] = "sweep" /\ doomed[w] = {}
    /\ Idle(w)
    /\ UNCHANGED <<recVars, autoVars, engineVars, doomed, waits>>

\* Refused while any record is executing or queued; otherwise the store is
\* loaded anew and every automation gets a new dict.
SetDataPath ==
    /\ "data_path" \in Requests
    /\ \A r \in Recs : status[r] \notin {"executing", "queued"}
    /\ \A a \in registered : gen[a] < MaxGen
    /\ gen' = [a \in Autos |-> IF a \in registered THEN gen[a] + 1 ELSE gen[a]]
    /\ unreachable' = FALSE
    /\ UNCHANGED <<recVars, registered, slots, deleting, parallel, depth, enabled,
                   thread, flags, stopping, threadVars>>

-----------------------------------------------------------------------------
ThreadNext(w) ==
    \/ FireVoid(w) \/ FireJoins(w) \/ FireSkips(w) \/ FireStarts(w) \/ FireRaises(w)
    \/ ManualStarts(w) \/ ManualRefused(w) \/ ManualJoins(w)
    \/ RetryStarts(w) \/ RetryRefused(w)
    \/ FinishQueued(w) \/ FinishQueuedLost(w) \/ FinishQueuedRaises(w)
    \/ Tell(w) \/ FinishedAll(w)
    \/ CancelLooks(w) \/ CancelUnmatched(w)
    \/ ExpireStale(w) \/ DrainEnds(w) \/ DrainPromotes(w) \/ DrainDooms(w)
    \/ DrainWriteFails(w) \/ DrainLaunchFails(w)
    \/ StopLive(w) \/ SnapshotQueue(w) \/ StopPromoted(w) \/ RemoveAutomation(w) \/ RemoveFails(w)
    \/ SweepKills(w) \/ SweepEnds(w)

EngineNext(r) == Decide(r) \/ Settle(r) \/ SettleFails(r) \/ Release(r)

RequestNext(w) ==
    \/ \E a \in Autos :
          \/ \E k \in TriggerKinds : CollectFiring(w, a, k)
          \/ \E o \in {"start", "queue"} : RequestStart(w, a, o)
          \/ RequestClear(w, a)
          \/ PatchLimits(w, a) \/ PatchTriggers(w, a)
          \/ RequestDelete(w, a)
    \/ \E r \in Recs : RequestRetry(w, r) \/ RequestCancel(w, r)
    \/ KillAllLive(w)

Next ==
    \/ \E w \in Threads : ThreadNext(w)
    \/ \E r \in Recs : EngineNext(r) \/ WaitsTooLong(r)
    \/ \E w \in Handlers \cup {Ticker} : RequestNext(w)
    \/ \E a \in Autos : TickDrains(a)
    \/ SetDataPath

Spec == Init /\ [][Next]_vars

\* Threads run, the scheduler keeps ticking, and executions end: a step has a
\* watchdog, so what it runs does not go on for ever.
Fairness ==
    /\ \A w \in Threads : WF_vars(ThreadNext(w))
    /\ \A r \in Recs : WF_vars(EngineNext(r))
    /\ \A a \in Autos : WF_vars(TickDrains(a))

FairSpec == Spec /\ Fairness

-----------------------------------------------------------------------------
RecsTypeOK ==
    /\ made \in 0..MaxRecs
    /\ status \in [Recs -> Statuses]
    /\ owner \in [Recs -> Autos \cup {NoAuto}]
    /\ payload \in [Recs -> BOOLEAN]
    /\ stamp \in [Recs -> Nat]
    /\ stale \in SUBSET Recs
    /\ note \in [Recs -> Notes]
    /\ told \in [Recs -> Nat]

AutosTypeOK ==
    /\ registered \in SUBSET Autos
    /\ gen \in [Autos -> Gens]
    /\ slots \in [Dicts -> SUBSET Recs]
    /\ deleting \in SUBSET Dicts
    /\ parallel \in [Autos -> ParallelVals]
    /\ depth \in [Autos -> DepthVals]
    /\ enabled \in [Autos -> SUBSET TriggerKinds]

EngineTypeOK ==
    /\ thread \in [Recs -> Stages]
    /\ flags \in [Recs -> SUBSET FlagKinds]
    /\ stopping \in BOOLEAN
    /\ unreachable \in BOOLEAN

ThreadsTypeOK ==
    /\ op \in [Threads -> Ops]
    /\ on \in [Threads -> Autos \cup {NoAuto}]
    /\ ref \in [Threads -> Gens]
    /\ doomed \in [Threads -> SUBSET Recs]
    /\ waits \in [Threads -> SUBSET Recs]
    /\ tell \in [Threads -> Recs \cup {NoRec}]

TypeOK == RecsTypeOK /\ AutosTypeOK /\ EngineTypeOK /\ ThreadsTypeOK

Executing(a) == {r \in Recs : status[r] = "executing" /\ owner[r] = a}

\* A record is executing exactly as long as an engine thread is running it:
\* no failed start, promotion or write leaves an execution nobody will end.
ExecutingHasThread == \A r \in Recs : status[r] = "executing" <=> thread[r] = "run"

\* A slot is held by every execution of the automation, and by nothing but
\* records whose engine thread has not gone: no slot leaks, none is handed
\* out twice.
SlotsMatchThreads ==
    \A a \in registered :
       /\ Executing(a) \subseteq slots[Dict(a)]
       /\ \A r \in slots[Dict(a)] : owner[r] = a /\ IsLive(r)

\* Every message that was turned away, or left the queue without running, is
\* answered once: it was told, or the thread that dropped it still owes it.
\* No other record's sender is told anything.
DroppedIsAnsweredOnce ==
    \A r \in Recs :
       LET owes == {w \in Threads : tell[w] = r}
       IN  told[r] + Cardinality(owes) =
              IF payload[r] /\ status[r] = "skipped" /\ note[r] \in {"busy", "left"}
              THEN 1 ELSE 0

\* An entry no enabled trigger would admit any more does not stay in the
\* queue: a handler of the change that switched the trigger off is about to
\* find it, or has already doomed it.
UnmatchedIsDoomed ==
    \A r \in Recs :
       status[r] = "queued" /\ payload[r] /\ owner[r] \in registered
       /\ "message" \notin enabled[owner[r]]
       => \E w \in Threads :
             \/ op[w] = "patched" /\ on[w] = owner[r]
             \/ op[w] \in {"unmatch", "drain", "clear", "leave", "stop_queued"} /\ r \in doomed[w]

\* A deleted automation leaves neither a waiting entry nor an execution that
\* would write into its removed directory.
DeletedLeavesNothing ==
    \A r \in Recs :
       status[r] \in {"queued", "executing"} => owner[r] \in registered

\* Nothing gets lost on its way through the queue: a dropped message is
\* answered once, a slot belongs to a running execution, and a deleted
\* automation leaves nothing behind (firing.py, engine.py).
QueueIsAccounted == DroppedIsAnsweredOnce /\ SlotsMatchThreads /\ DeletedLeavesNothing

\* Once the kill sweep has begun, every running execution has been told of
\* the shutdown, or is on the sweep's list.
SweepMissesNone ==
    stopping => \A r \in Recs : thread[r] = "run" =>
       \/ "shutdown" \in flags[r]
       \/ \E w \in Threads : op[w] = "sweep" /\ r \in doomed[w]

\* The limits bind whenever something is admitted: an execution starts only
\* within maxParallel, an entry joins the queue only within maxQueued.
\* Lowering a limit is no admission.
AdmittedWithinLimits ==
    [][\A a \in Autos :
         /\ Cardinality(Executing(a)') > Cardinality(Executing(a))
               => Cardinality(Executing(a)') <= parallel[a]
         /\ Cardinality(QueuedExecs(a)') > Cardinality(QueuedExecs(a))
               => Cardinality(QueuedExecs(a)') <= depth[a]]_vars

\* Nothing jumps the queue: what starts is the entry admitted first, or there
\* was no entry.
NothingJumpsTheQueue ==
    [][\A r \in Recs :
         status[r] # "executing" /\ status'[r] = "executing"
         => \A q \in QueuedExecs(owner'[r]) : r <= q]_vars

\* A cancel ends with its record out of the queue, and if that record is
\* executing, with the cancel flag up: never with neither.
CancelTakesEffect ==
    [][\A w \in Handlers : \A r \in doomed[w] :
         op[w] \in {"cancel", "leave"} /\ doomed'[w] = {}
         => /\ status'[r] # "queued"
            /\ status'[r] = "executing" => "cancel" \in flags'[r]]_vars

\* Clearing the queue, or switching a trigger off, never touches a running
\* execution, even one promoted from the queue meanwhile.
OnlyCancelsCancel ==
    [][\A r \in Recs :
         "cancel" \in flags'[r] \ flags[r]
         => \E w \in Handlers : op[w] \in {"cancel", "stop_live", "stop_queued"}
                                /\ r \in doomed[w]]_vars

\* Nothing starts once the backend is shutting down.
NoStartAfterShutdown ==
    [][stopping => \A r \in Recs : status'[r] = "executing" => status[r] = "executing"]_vars

\* A cancel stops what it was asked to stop, and nothing starts once the
\* backend is shutting down (firing.py, engine.py).
StopsHold == CancelTakesEffect /\ NoStartAfterShutdown

\* An edit of the triggers reaches the entries it leaves without one, and it
\* cancels only what still waits (firing.py, cancel_unmatched_queue); a slot
\* belongs to a running execution whatever the limits become.
EditsReachTheQueue ==
    /\ [](UnmatchedIsDoomed /\ SlotsMatchThreads)
    /\ OnlyCancelsCancel

\* A write error while the head is promoted leaves it waiting (firing.py:374,
\* spec/engine.md): the head only leaves the queue to run.
WriteErrorKeepsHead ==
    [][\A w \in Threads : \A r \in Recs :
         Draining(w) /\ op'[w] = "idle" /\ status[r] = "queued" => status'[r] = "queued"]_vars

\* A waiting entry does not wait for ever.
QueueMoves ==
    \A r \in Recs : status[r] = "queued" ~> status[r] # "queued" \/ stopping

\* A delete that was accepted ends with the automation gone.
DeleteEnds ==
    \A a \in Autos : Dict(a) \in deleting ~> a \notin registered

\* What the queue promises, with all that makes it hard left out.
Promise == INSTANCE FiringQueue WITH
    waiting <- [a \in Autos |-> QueuedExecs(a)],
    running <- [a \in Autos |-> Executing(a)],
    stopped <- stopping

ImplementsFiringQueue == Promise!Spec
=============================================================================
