------------------------- MODULE ExecQueueAccounts -------------------------
(***************************************************************************)
(* What ExecQueue keeps account of, for every value of its constants: the  *)
(* answers owed to senders, the slots, the entries of an automation that   *)
(* is deleted or edited, and what a cancel or a shutdown stops.  From that *)
(* follows that it implements FiringQueue: the limits bind every admission,*)
(* and what leaves the queue to run is the entry that has waited longest.  *)
(***************************************************************************)
EXTENDS ExecQueueProofs, FiniteSetTheorems

\* The automations' dicts are never replaced.
NoSwitch == "data_path" \notin Requests

\* The dict a manual start holds is the registered one when it takes the lock:
\* the dicts are not replaced, or nothing is started by hand.
StartsAreCurrent == NoSwitch \/ Requests \cap {"start", "queue"} = {}

-----------------------------------------------------------------------------
(***************************************************************************)
(* What a handler holds.                                                   *)
(***************************************************************************)
Deleting == {"stop_live", "stop_queued", "stop_wait"}

\* Records belong to automations, ...
RecordsAreOwned == \A r \in Recs : status[r] # "none" => owner[r] \in Autos

\* ... a handler that may admit something works on one, and holds its dict, ...
AdmitsToAuto(w) ==
    /\ op[w] \in Admitting \cup {"retry"} => on[w] \in Autos
    /\ op[w] \in {"start", "queue"} => op[w] \in Requests
    /\ NoSwitch /\ on[w] \in Autos => ref[w] = gen[on[w]]

\* ... and a cancel or a retry is about one record.
WorksOnOne(w) ==
    /\ op[w] \in {"cancel", "leave"} \cup Deleting => w \in Handlers
    /\ op[w] \in {"cancel", "leave"} => \A r, s \in doomed[w] : r = s
    /\ op[w] = "retry" => \A r \in doomed[w] : status[r] # "none" /\ owner[r] = on[w]

\* A record whose engine thread has not gone does not wait, and has not been
\* skipped.
LiveHasRun == \A r \in Recs : IsLive(r) => status[r] \in {"executing", "ended", "failed"}

HoldInv ==
    /\ ThreadInv /\ RecordsAreOwned /\ LiveHasRun
    /\ \A w \in Threads : AdmitsToAuto(w) /\ WorksOnOne(w)

\* What a step of thread w leaves alone: what the other threads hold, ...
OthersStay(w) ==
    \A v \in Threads \ {w} :
       /\ op'[v] = op[v] /\ on'[v] = on[v] /\ ref'[v] = ref[v]
       /\ doomed'[v] = doomed[v] /\ waits'[v] = waits[v] /\ tell'[v] = tell[v]

\* ... and to whom a record belongs.
RecordsStay ==
    \A r \in Recs :
       /\ status[r] # "none" =>
             status'[r] # "none" /\ owner'[r] = owner[r] /\ payload'[r] = payload[r]
       /\ status[r] = "none" /\ status'[r] # "none" => owner'[r] \in Autos

LEMMA ThreadStaysApart ==
  ASSUME TypeOK, NEW w \in Threads, ThreadNext(w)
  PROVE  OthersStay(w)
<1>0. ThreadsTypeOK
  BY DEF TypeOK
<1> USE <1>0 DEF OthersStay, threadVars, Idle, Rests, ThreadsTypeOK
<1>1. CASE FireVoid(w) \/ FireJoins(w) \/ FireSkips(w) \/ FireStarts(w) \/ FireRaises(w)
  BY <1>1 DEF FireVoid, FireJoins, FireSkips, FireStarts, FireRaises
<1>2. CASE ManualStarts(w) \/ ManualRefused(w) \/ ManualJoins(w) \/ RetryStarts(w)
           \/ RetryRefused(w)
  BY <1>2 DEF ManualStarts, ManualRefused, ManualJoins, RetryStarts, RetryRefused
<1>3. CASE FinishQueued(w) \/ FinishQueuedLost(w) \/ FinishQueuedRaises(w) \/ Tell(w)
           \/ FinishedAll(w)
  BY <1>3 DEF FinishQueued, FinishQueuedLost, FinishQueuedRaises, Tell, FinishedAll
<1>4. CASE CancelLooks(w) \/ CancelUnmatched(w) \/ ExpireStale(w) \/ DrainEnds(w)
           \/ DrainPromotes(w) \/ DrainDooms(w) \/ DrainWriteFails(w) \/ DrainLaunchFails(w)
  BY <1>4 DEF CancelLooks, CancelUnmatched, ExpireStale, DrainEnds, DrainPromotes, DrainDooms,
              DrainWriteFails, DrainLaunchFails
<1>5. CASE StopLive(w) \/ SnapshotQueue(w) \/ StopPromoted(w) \/ RemoveAutomation(w) \/ RemoveFails(w)
           \/ SweepKills(w) \/ SweepEnds(w)
  BY <1>5 DEF StopLive, SnapshotQueue, StopPromoted, RemoveAutomation, RemoveFails, SweepKills, SweepEnds
<1> QED
  BY <1>1, <1>2, <1>3, <1>4, <1>5 DEF ThreadNext

LEMMA EngineStaysApart ==
  ASSUME TypeOK, NEW r \in Recs, EngineNext(r) \/ WaitsTooLong(r)
  PROVE  OthersStay(r)
  BY DEF TypeOK, OthersStay, threadVars, Begins, ThreadsTypeOK, Threads, EngineNext, Decide,
         Settle, SettleFails, Release, WaitsTooLong

LEMMA RequestStaysApart ==
  ASSUME TypeOK, NEW w \in Threads, RequestNext(w)
  PROVE  OthersStay(w)
<1>0. ThreadsTypeOK
  BY DEF TypeOK
<1> USE <1>0 DEF OthersStay, Begins, ThreadsTypeOK
<1>1. CASE KillAllLive(w)
  BY <1>1 DEF KillAllLive
<1>2. ASSUME NEW r \in Recs, RequestRetry(w, r) \/ RequestCancel(w, r) PROVE OthersStay(w)
  BY <1>2 DEF RequestRetry, RequestCancel
<1>3. ASSUME NEW a \in Autos, NEW k \in TriggerKinds, CollectFiring(w, a, k)
      PROVE  OthersStay(w)
  BY <1>3 DEF CollectFiring
<1>4. ASSUME NEW a \in Autos, NEW o \in {"start", "queue"}, RequestStart(w, a, o)
      PROVE  OthersStay(w)
  BY <1>4 DEF RequestStart
<1>5. ASSUME NEW a \in Autos, RequestClear(w, a) \/ PatchLimits(w, a) \/ PatchTriggers(w, a)
                              \/ RequestDelete(w, a)
      PROVE  OthersStay(w)
  BY <1>5 DEF RequestClear, PatchLimits, PatchTriggers, RequestDelete
<1> QED
  BY <1>1, <1>2, <1>3, <1>4, <1>5 DEF RequestNext

\* What HoldInv says of records and of one thread.
LEMMA HoldFacts ==
  ASSUME HoldInv
  PROVE  /\ TypeOK /\ ThreadInv /\ RecordsAreOwned /\ LiveHasRun
         /\ status \in [Recs -> Statuses] /\ owner \in [Recs -> Autos \cup {NoAuto}]
         /\ op \in [Threads -> Ops] /\ doomed \in [Threads -> SUBSET Recs]
         /\ \A w \in Threads : AdmitsToAuto(w) /\ WorksOnOne(w)
  BY DEF HoldInv, ThreadInv, TypeOK, RecsTypeOK, ThreadsTypeOK

LEMMA CreateStays ==
  ASSUME HoldInv, NEW a \in Autos, NEW s, NEW msg, NEW why, Create(a, s, msg, why)
  PROVE  RecordsStay
<1>1. New \in Recs /\ status[New] = "none"
  BY NewIsUnmade DEF HoldInv, Create
<1> QED
  BY <1>1, HoldFacts DEF RecordsStay, Create

LEMMA ThreadRecordsStay ==
  ASSUME HoldInv, NEW w \in Threads, ThreadNext(w)
  PROVE  RecordsStay
<1>0. /\ status \in [Recs -> Statuses] /\ RecordsAreOwned
      /\ op[w] \in Admitting => on[w] \in Autos
      /\ doomed[w] \subseteq Recs
  BY HoldFacts DEF AdmitsToAuto
<1> USE DEF recVars
<1>1. CASE FireVoid(w) \/ ManualRefused(w) \/ RetryRefused(w) \/ FinishQueuedLost(w)
           \/ Tell(w) \/ FinishedAll(w) \/ CancelLooks(w) \/ CancelUnmatched(w)
  BY <1>1 DEF RecordsStay, FireVoid, ManualRefused, StartRaises, RetryRefused,
              FinishQueuedLost, Tell, FinishedAll, CancelLooks, CancelUnmatched
<1>2. CASE ExpireStale(w) \/ DrainEnds(w) \/ DrainDooms(w) \/ StopLive(w) \/ SnapshotQueue(w)
           \/ StopPromoted(w) \/ RemoveAutomation(w) \/ RemoveFails(w) \/ SweepKills(w) \/ SweepEnds(w)
  BY <1>2 DEF RecordsStay, ExpireStale, DrainEnds, DrainDooms, StopLive, SnapshotQueue,
              StopPromoted, RemoveAutomation, RemoveFails, SweepKills, SweepEnds
<1>3. CASE FireJoins(w) \/ FireSkips(w) \/ FireStarts(w)
  BY <1>0, <1>3, CreateStays DEF FireJoins, FireSkips, FireStarts, StartNew, Firing, Admitting
<1>4. CASE ManualStarts(w) \/ ManualJoins(w)
  BY <1>0, <1>4, CreateStays DEF ManualStarts, ManualJoins, StartNew, Manual, Admitting
<1>5. CASE FireRaises(w)
  BY <1>0, <1>5, CreateStays DEF FireRaises, StartRaises, RecordsStay, Firing, Admitting
<1>6. CASE RetryStarts(w) \/ FinishQueued(w) \/ FinishQueuedRaises(w)
  BY <1>0, <1>6
  DEF RetryStarts, RetryAdmitted, FinishQueued, FinishQueuedRaises, FinishNeverRan, RecordsStay
<1>7. CASE DrainPromotes(w) \/ DrainWriteFails(w) \/ DrainLaunchFails(w)
  BY <1>0, <1>7
  DEF DrainPromotes, DrainWriteFails, DrainLaunchFails, FinishNeverRan, Heads, QueuedExecs,
      RecordsStay
<1> QED
  BY <1>1, <1>2, <1>3, <1>4, <1>5, <1>6, <1>7 DEF ThreadNext

LEMMA EngineRecordsStay ==
  ASSUME HoldInv, NEW r \in Recs, EngineNext(r) \/ WaitsTooLong(r)
  PROVE  RecordsStay
  BY HoldFacts
  DEF RecordsStay, EngineNext, Decide, Settle, SettleFails, Release, WaitsTooLong, recVars,
      ThreadInv, ExecutingHasThread, UnmadeIsNothing

LEMMA RequestRecordsStay ==
  ASSUME NEW w \in Threads, RequestNext(w)
  PROVE  UNCHANGED recVars
  BY DEF recVars, RequestNext, CollectFiring, RequestStart, RequestClear, PatchLimits,
         PatchTriggers, RequestDelete, RequestRetry, RequestCancel, KillAllLive

LEMMA NextRecordsStay ==
  ASSUME HoldInv, [Next]_vars
  PROVE  RecordsStay
<1>1. CASE UNCHANGED recVars
  BY <1>1 DEF RecordsStay, recVars
<1>2. CASE UNCHANGED vars \/ SetDataPath \/ \E a \in Autos : TickDrains(a)
  BY <1>1, <1>2 DEF vars, SetDataPath, TickDrains
<1> QED
  BY <1>1, <1>2, ThreadRecordsStay, EngineRecordsStay, RequestRecordsStay DEF Next, Threads

LEMMA ThreadKeepsGen ==
  ASSUME NEW w \in Threads, ThreadNext(w)
  PROVE  UNCHANGED <<gen, parallel, depth, enabled>>
<1> USE DEF autoVars
<1>1. CASE FireVoid(w) \/ FireJoins(w) \/ FireSkips(w) \/ FireStarts(w) \/ FireRaises(w)
  BY <1>1 DEF FireVoid, FireJoins, FireSkips, FireStarts, FireRaises, StartRaises, StartNew,
              Launch
<1>2. CASE ManualStarts(w) \/ ManualRefused(w) \/ ManualJoins(w) \/ RetryStarts(w)
           \/ RetryRefused(w)
  BY <1>2 DEF ManualStarts, ManualRefused, ManualJoins, RetryStarts, RetryRefused, StartRaises,
              StartNew, Launch
<1>3. CASE FinishQueued(w) \/ FinishQueuedLost(w) \/ FinishQueuedRaises(w) \/ Tell(w)
           \/ FinishedAll(w)
  BY <1>3 DEF FinishQueued, FinishQueuedLost, FinishQueuedRaises, Tell, FinishedAll
<1>4. CASE CancelLooks(w) \/ CancelUnmatched(w) \/ ExpireStale(w) \/ DrainEnds(w)
           \/ DrainPromotes(w) \/ DrainDooms(w) \/ DrainWriteFails(w) \/ DrainLaunchFails(w)
  BY <1>4 DEF CancelLooks, CancelUnmatched, ExpireStale, DrainEnds, DrainPromotes, DrainDooms,
              DrainWriteFails, DrainLaunchFails, Launch
<1>5. CASE StopLive(w) \/ SnapshotQueue(w) \/ StopPromoted(w) \/ RemoveAutomation(w) \/ RemoveFails(w)
           \/ SweepKills(w) \/ SweepEnds(w)
  BY <1>5 DEF StopLive, SnapshotQueue, StopPromoted, RemoveAutomation, RemoveFails, SweepKills, SweepEnds
<1> QED
  BY <1>1, <1>2, <1>3, <1>4, <1>5 DEF ThreadNext

LEMMA RequestKeepsGen ==
  ASSUME NEW w \in Threads, RequestNext(w)
  PROVE  UNCHANGED <<gen, slots, registered, thread>>
  BY DEF autoVars, engineVars, RequestNext, CollectFiring, RequestStart, RequestClear,
         PatchLimits, PatchTriggers, RequestDelete, RequestRetry, RequestCancel, KillAllLive

LEMMA ThreadKeepsLive ==
  ASSUME HoldInv, NEW w \in Threads, ThreadNext(w)
  PROVE  LiveHasRun'
<1>0. /\ status \in [Recs -> Statuses] /\ thread \in [Recs -> Stages] /\ LiveHasRun
      /\ doomed[w] \subseteq Recs /\ ThreadInv
  BY HoldFacts DEF TypeOK, EngineTypeOK
<1> USE DEF recVars, engineVars, LiveHasRun, IsLive
<1>1. ASSUME NEW a, NEW s, NEW msg, NEW why, Create(a, s, msg, why), UNCHANGED thread
      PROVE  LiveHasRun'
  BY <1>0, <1>1, NewIsUnmade DEF Create
<1>2. CASE FireVoid(w) \/ ManualRefused(w) \/ RetryRefused(w) \/ FinishQueuedLost(w)
           \/ Tell(w) \/ FinishedAll(w) \/ CancelLooks(w) \/ CancelUnmatched(w)
  BY <1>0, <1>2 DEF FireVoid, ManualRefused, StartRaises, RetryRefused, FinishQueuedLost,
                    Tell, FinishedAll, CancelLooks, CancelUnmatched, Flag
<1>3. CASE ExpireStale(w) \/ DrainEnds(w) \/ DrainDooms(w) \/ StopLive(w) \/ SnapshotQueue(w)
           \/ StopPromoted(w) \/ RemoveAutomation(w) \/ RemoveFails(w) \/ SweepKills(w) \/ SweepEnds(w)
  BY <1>0, <1>3 DEF ExpireStale, DrainEnds, DrainDooms, StopLive, SnapshotQueue, StopPromoted,
                    RemoveAutomation, RemoveFails, SweepKills, SweepEnds, Flag
<1>4. CASE FireJoins(w) \/ FireSkips(w) \/ ManualJoins(w)
  BY <1>1, <1>4 DEF FireJoins, FireSkips, ManualJoins
<1>5. ASSUME NEW msg, StartNew(w, msg) PROVE LiveHasRun'
  <2>1. CASE Create(on[w], "executing", msg, "none") /\ Launch(Held(w), New, TRUE)
    BY <1>0, <2>1, NewIsUnmade DEF Create, Launch
  <2> QED
    BY <1>1, <1>5, <2>1 DEF StartNew
<1>6. CASE FireStarts(w) \/ ManualStarts(w)
  BY <1>5, <1>6 DEF FireStarts, ManualStarts
<1>7. CASE FireRaises(w)
  BY <1>0, <1>1, <1>7 DEF FireRaises, StartRaises
<1>8. CASE RetryStarts(w) \/ FinishQueued(w) \/ FinishQueuedRaises(w)
  BY <1>0, <1>8 DEF RetryStarts, Launch, FinishQueued, FinishQueuedRaises, FinishNeverRan
<1>9. CASE DrainPromotes(w) \/ DrainWriteFails(w) \/ DrainLaunchFails(w)
  BY <1>0, <1>9
  DEF DrainPromotes, DrainWriteFails, DrainLaunchFails, FinishNeverRan, Heads, QueuedExecs,
      Launch
<1> QED
  BY <1>2, <1>3, <1>4, <1>6, <1>7, <1>8, <1>9 DEF ThreadNext

LEMMA NextKeepsLive ==
  ASSUME HoldInv, [Next]_vars
  PROVE  LiveHasRun'
<1>0. /\ status \in [Recs -> Statuses] /\ thread \in [Recs -> Stages] /\ LiveHasRun
  BY HoldFacts DEF TypeOK, EngineTypeOK
<1>1. CASE UNCHANGED <<status, thread>>
  BY <1>0, <1>1 DEF LiveHasRun, IsLive
<1>2. ASSUME NEW w \in Threads, ThreadNext(w) PROVE LiveHasRun'
  BY <1>2, ThreadKeepsLive
<1>3. ASSUME NEW r \in Recs, EngineNext(r) \/ WaitsTooLong(r) PROVE LiveHasRun'
  BY <1>0, <1>3
  DEF EngineNext, Decide, Settle, SettleFails, Release, WaitsTooLong, recVars, engineVars,
      LiveHasRun, IsLive
<1>4. ASSUME NEW w \in Threads, RequestNext(w) PROVE LiveHasRun'
  BY <1>1, <1>4, RequestRecordsStay, RequestKeepsGen DEF recVars
<1>5. CASE UNCHANGED vars \/ SetDataPath \/ \E a \in Autos : TickDrains(a)
  BY <1>1, <1>5 DEF vars, SetDataPath, TickDrains, recVars, engineVars
<1> QED
  BY <1>2, <1>3, <1>4, <1>5 DEF Next, Threads

LEMMA AtRestHolds ==
  ASSUME NEW w \in Threads, op'[w] = "idle", on'[w] = NoAuto
  PROVE  AdmitsToAuto(w)' /\ WorksOnOne(w)'
  BY ThreadAssumption DEF ThreadAssumption, AdmitsToAuto, WorksOnOne, Admitting, Deleting

LEMMA ThreadHolds ==
  ASSUME HoldInv, TypeOK', RecordsStay, NEW w \in Threads, ThreadNext(w)
  PROVE  AdmitsToAuto(w)' /\ WorksOnOne(w)'
<1>0. /\ ThreadsTypeOK /\ ThreadsTypeOK' /\ AdmitsToAuto(w) /\ WorksOnOne(w)
      /\ \A r \in Recs : status[r] # "none" => status'[r] # "none" /\ owner'[r] = owner[r]
  BY HoldFacts DEF RecordsStay, TypeOK
<1> USE DEF threadVars, autoVars, Idle, Rests
<1>1. CASE FireVoid(w) \/ FireJoins(w) \/ FireSkips(w) \/ FireStarts(w) \/ FireRaises(w)
  BY <1>0, <1>1, AtRestHolds
  DEF ThreadsTypeOK, FireVoid, FireJoins, FireSkips, FireStarts, FireRaises
<1>2. CASE ManualStarts(w) \/ ManualRefused(w) \/ ManualJoins(w) \/ RetryStarts(w)
           \/ RetryRefused(w) \/ FinishQueuedRaises(w) \/ DrainEnds(w)
  BY <1>0, <1>2, AtRestHolds
  DEF ThreadsTypeOK, ManualStarts, ManualRefused, ManualJoins, RetryStarts, RetryRefused,
      FinishQueuedRaises, DrainEnds
<1>3. CASE DrainWriteFails(w) \/ RemoveAutomation(w) \/ RemoveFails(w) \/ SweepEnds(w)
  BY <1>0, <1>3, AtRestHolds DEF ThreadsTypeOK, DrainWriteFails, RemoveAutomation, RemoveFails, SweepEnds
<1> USE <1>0 DEF ThreadsTypeOK, AdmitsToAuto, WorksOnOne, Admitting, Deleting
<1>4. CASE FinishQueued(w) \/ FinishQueuedLost(w)
  BY <1>4 DEF FinishQueued, FinishQueuedLost, Finishing
<1>5. CASE FinishedAll(w)
  <2>1. CASE op'[w] = "idle" /\ on'[w] = NoAuto
    BY <2>1, AtRestHolds
  <2>2. CASE op[w] \in {"unmatch", "stop_queued"}
    BY <1>5, <2>2 DEF FinishedAll
  <2> QED
    BY <1>5, <2>1, <2>2 DEF FinishedAll
<1>6. CASE CancelLooks(w)
  <2>1. CASE op'[w] = "idle" /\ on'[w] = NoAuto
    BY <2>1, AtRestHolds
  <2>2. CASE op'[w] = "leave" /\ UNCHANGED <<doomed, on, ref, gen>>
    BY <1>6, <2>2 DEF CancelLooks
  <2> QED
    BY <1>6, <2>1, <2>2 DEF CancelLooks
<1>7. CASE Tell(w) \/ CancelUnmatched(w) \/ ExpireStale(w)
  BY <1>7 DEF Tell, CancelUnmatched, ExpireStale
<1>8. CASE DrainPromotes(w) \/ DrainDooms(w) \/ DrainLaunchFails(w)
  BY <1>8 DEF DrainPromotes, DrainDooms, DrainLaunchFails, Launch, Draining
<1>9. CASE StopLive(w) \/ SnapshotQueue(w) \/ StopPromoted(w) \/ SweepKills(w)
  BY <1>9 DEF StopLive, SnapshotQueue, StopPromoted, SweepKills
<1> QED
  BY <1>1, <1>2, <1>3, <1>4, <1>5, <1>6, <1>7, <1>8, <1>9 DEF ThreadNext

LEMMA RequestHolds ==
  ASSUME HoldInv, TypeOK', NEW w \in Handlers \cup {Ticker}, RequestNext(w)
  PROVE  AdmitsToAuto(w)' /\ WorksOnOne(w)'
<1>0. w \in Threads /\ ThreadsTypeOK /\ ThreadsTypeOK' /\ UNCHANGED recVars
      /\ RecordsAreOwned
  BY HoldFacts, RequestRecordsStay DEF TypeOK, Threads
<1> USE <1>0 DEF ThreadsTypeOK, Begins, AdmitsToAuto, WorksOnOne, Admitting, Deleting, recVars,
                 autoVars
<1>1. CASE KillAllLive(w)
  BY <1>1, ThreadAssumption DEF KillAllLive, ThreadAssumption
<1>2. ASSUME NEW r \in Recs, RequestRetry(w, r) \/ RequestCancel(w, r)
      PROVE  AdmitsToAuto(w)' /\ WorksOnOne(w)'
  BY <1>2, ThreadAssumption
  DEF RequestRetry, RequestCancel, RecordsAreOwned, ThreadAssumption
<1>3. ASSUME NEW a \in Autos, NEW k \in TriggerKinds, CollectFiring(w, a, k)
      PROVE  AdmitsToAuto(w)' /\ WorksOnOne(w)'
  BY <1>3, ThreadAssumption DEF CollectFiring, ThreadAssumption
<1>4. ASSUME NEW a \in Autos, NEW o \in {"start", "queue"}, RequestStart(w, a, o)
      PROVE  AdmitsToAuto(w)' /\ WorksOnOne(w)'
  BY <1>4, ThreadAssumption DEF RequestStart, ThreadAssumption
<1>5. ASSUME NEW a \in Autos, RequestClear(w, a) \/ PatchLimits(w, a) \/ PatchTriggers(w, a)
                              \/ RequestDelete(w, a)
      PROVE  AdmitsToAuto(w)' /\ WorksOnOne(w)'
  BY <1>5, ThreadAssumption
  DEF RequestClear, PatchLimits, PatchTriggers, RequestDelete, ThreadAssumption
<1> QED
  BY <1>1, <1>2, <1>3, <1>4, <1>5 DEF RequestNext

\* The other threads go on holding what they held.
LEMMA OthersHold ==
  ASSUME HoldInv, RecordsStay, UNCHANGED gen, NEW w \in Threads, OthersStay(w),
         NEW v \in Threads \ {w}
  PROVE  AdmitsToAuto(v)' /\ WorksOnOne(v)'
  BY HoldFacts DEF RecordsStay, OthersStay, AdmitsToAuto, WorksOnOne

LEMMA HoldInvariance == Spec => []HoldInv
<1>1. Init /\ ThreadInv => HoldInv
  BY ThreadAssumption
  DEF ThreadAssumption, Init, HoldInv, RecordsAreOwned, LiveHasRun, IsLive, AdmitsToAuto,
      WorksOnOne, Admitting, Deleting
<1>2. HoldInv /\ ThreadInv' /\ [Next]_vars => HoldInv'
  <2> SUFFICES ASSUME HoldInv, ThreadInv', [Next]_vars PROVE HoldInv'
    OBVIOUS
  <2>0. /\ RecordsStay /\ TypeOK /\ TypeOK' /\ ThreadsTypeOK
        /\ \A v \in Threads : AdmitsToAuto(v) /\ WorksOnOne(v)
    BY NextRecordsStay, HoldFacts DEF ThreadInv, TypeOK
  <2>1. ASSUME NEW w \in Threads, ThreadNext(w), NEW v \in Threads
        PROVE  AdmitsToAuto(v)' /\ WorksOnOne(v)'
    <3>1. UNCHANGED gen
      BY <2>1, ThreadKeepsGen
    <3> QED
      BY <2>0, <2>1, <3>1, ThreadHolds, OthersHold, ThreadStaysApart
  <2>2. ASSUME NEW w \in Handlers \cup {Ticker}, RequestNext(w), NEW v \in Threads
        PROVE  AdmitsToAuto(v)' /\ WorksOnOne(v)'
    <3>1. UNCHANGED gen
      BY <2>2, RequestKeepsGen DEF Threads
    <3> QED
      BY <2>0, <2>2, <3>1, RequestHolds, OthersHold, RequestStaysApart DEF Threads
  <2>3. ASSUME NEW r \in Recs, EngineNext(r) \/ WaitsTooLong(r), NEW v \in Threads
        PROVE  AdmitsToAuto(v)' /\ WorksOnOne(v)'
    <3>1. UNCHANGED gen
      BY <2>3 DEF EngineNext, Decide, Settle, SettleFails, Release, WaitsTooLong, FreeSlot,
                  autoVars
    <3>2. CASE v # r
      BY <2>0, <2>3, <3>1, <3>2, EngineStaysApart, OthersHold DEF Threads
    <3>3. CASE v = r /\ Release(r)
      BY <2>0, <3>1, <3>3, ThreadAssumption
      DEF ThreadAssumption, Release, Begins, AdmitsToAuto, WorksOnOne, Admitting, Deleting, ThreadsTypeOK
    <3>4. CASE v = r /\ UNCHANGED threadVars
      BY <2>0, <3>1, <3>4
      DEF threadVars, RecordsStay, AdmitsToAuto, WorksOnOne, ThreadsTypeOK
    <3> QED
      BY <2>3, <3>2, <3>3, <3>4 DEF EngineNext, Decide, Settle, SettleFails, WaitsTooLong
  <2>4. ASSUME NEW a \in Autos, TickDrains(a), NEW v \in Threads
        PROVE  AdmitsToAuto(v)' /\ WorksOnOne(v)'
    <3>1. UNCHANGED gen /\ Ticker \in Threads /\ OthersStay(Ticker)
      BY <2>0, <2>4
      DEF TickDrains, Begins, autoVars, OthersStay, Threads, ThreadsTypeOK
    <3>2. CASE v = Ticker
      BY <2>0, <2>4, <3>1, <3>2, ThreadAssumption
      DEF ThreadAssumption, TickDrains, Begins, AdmitsToAuto, WorksOnOne, Admitting, Deleting,
          ThreadsTypeOK
    <3> QED
      BY <2>0, <3>1, <3>2, OthersHold
  <2>5. ASSUME UNCHANGED vars \/ SetDataPath, NEW v \in Threads
        PROVE  AdmitsToAuto(v)' /\ WorksOnOne(v)'
    <3>1. /\ UNCHANGED <<status, owner, op, on, ref, doomed>>
          /\ NoSwitch => UNCHANGED gen
      BY <2>5 DEF vars, SetDataPath, threadVars, autoVars, recVars, NoSwitch
    <3>2. AdmitsToAuto(v) /\ WorksOnOne(v)
      BY <2>0
    <3> QED
      BY <3>1, <3>2 DEF AdmitsToAuto, WorksOnOne
  <2>6. \A v \in Threads : AdmitsToAuto(v)' /\ WorksOnOne(v)'
    BY <2>1, <2>2, <2>3, <2>4, <2>5 DEF Next
  <2>7. RecordsAreOwned'
    BY <2>0, HoldFacts DEF RecordsStay, RecordsAreOwned
  <2> QED
    BY <2>6, <2>7, NextKeepsLive DEF HoldInv
<1> QED
  BY <1>1, <1>2, ThreadInvariance, PTL DEF Spec

-----------------------------------------------------------------------------
Dropped(r) == payload[r] /\ status[r] = "skipped" /\ note[r] \in {"busy", "left"}

\* A dropped message has been answered or is owed an answer by one thread, and
\* a thread that owes one is still at the drop.
TellInv ==
    /\ \A w \in Threads : tell[w] # NoRec => op[w] \in Finishing \cup {"idle"}
    /\ \A v, w \in Threads : tell[w] # NoRec /\ tell[v] = tell[w] => v = w
    /\ \A r \in Recs : told[r] = 1 \/ (told[r] = 0 /\ (Dropped(r) => \E w \in Threads : tell[w] = r))
    /\ \A r \in Recs : told[r] = 1 => Dropped(r) /\ \A w \in Threads : tell[w] # r
    /\ \A w \in Threads : tell[w] # NoRec => Dropped(tell[w])

\* A step that drops nothing and answers nobody.
DropsStay == \A r \in Recs : Dropped(r)' <=> Dropped(r)

LEMMA TellFrame ==
  ASSUME TellInv, TypeOK, TypeOK', NEW w \in Threads, OthersStay(w), UNCHANGED told, DropsStay,
         tell'[w] = tell[w], tell[w] = NoRec \/ op'[w] = op[w]
  PROVE  TellInv'
<1> DEFINE D(r) == Dropped(r)
<1>1. /\ \A r \in Recs : D(r)' <=> D(r)
      /\ \A v \in Threads : tell'[v] = tell[v]
      /\ \A v \in Threads : tell[v] # NoRec => op'[v] = op[v]
      /\ \A v \in Threads : tell[v] # NoRec => tell[v] \in Recs
  BY DEF OthersStay, DropsStay, TypeOK, ThreadsTypeOK
<1>2. /\ \A v \in Threads : tell[v] # NoRec => op[v] \in Finishing \cup {"idle"}
      /\ \A u, v \in Threads : tell[v] # NoRec /\ tell[u] = tell[v] => u = v
      /\ \A r \in Recs : told[r] = 1 \/ (told[r] = 0 /\ (D(r) => \E v \in Threads : tell[v] = r))
      /\ \A r \in Recs : told[r] = 1 => D(r) /\ \A v \in Threads : tell[v] # r
      /\ \A v \in Threads : tell[v] # NoRec => D(tell[v])
  BY DEF TellInv
<1> SUFFICES
      /\ \A v \in Threads : tell'[v] # NoRec => op'[v] \in Finishing \cup {"idle"}
      /\ \A u, v \in Threads : tell'[v] # NoRec /\ tell'[u] = tell'[v] => u = v
      /\ \A r \in Recs :
            told'[r] = 1 \/ (told'[r] = 0 /\ (D(r)' => \E v \in Threads : tell'[v] = r))
      /\ \A r \in Recs : told'[r] = 1 => D(r)' /\ \A v \in Threads : tell'[v] # r
      /\ \A v \in Threads : tell'[v] # NoRec => D(tell[v])'
  BY <1>1 DEF TellInv
<1> HIDE DEF D
<1> QED
  BY <1>1, <1>2

LEMMA SameDrops ==
  ASSUME UNCHANGED <<status, payload, note>>
  PROVE  DropsStay
  BY DEF DropsStay, Dropped

\* Records whose status changes, but not to or from skipped.
LEMMA StatusDrops ==
  ASSUME HoldInv, NEW r \in Recs, status[r] # "skipped", NEW s, s # "skipped",
         status' = [status EXCEPT ![r] = s], UNCHANGED <<payload, note>>
  PROVE  DropsStay
<1>1. \A q \in Recs : status'[q] = "skipped" <=> status[q] = "skipped"
  BY HoldFacts
<1> QED
  BY <1>1 DEF DropsStay, Dropped

LEMMA CreateDrops ==
  ASSUME HoldInv, NEW a, NEW s, NEW msg \in BOOLEAN, NEW why, Create(a, s, msg, why),
         s # "skipped" \/ why = "untold" \/ msg = FALSE
  PROVE  DropsStay
<1>1. New \in Recs /\ status[New] = "none"
  BY NewIsUnmade DEF HoldInv, Create
<1>2. /\ status \in [Recs -> Statuses] /\ note \in [Recs -> Notes] /\ payload \in [Recs -> BOOLEAN]
      /\ status' = [status EXCEPT ![New] = s] /\ note' = [note EXCEPT ![New] = why]
      /\ payload' = [payload EXCEPT ![New] = msg]
  BY HoldFacts DEF TypeOK, RecsTypeOK, Create
<1>3. /\ \A r \in Recs \ {New} : /\ status'[r] = status[r] /\ note'[r] = note[r]
                                 /\ payload'[r] = payload[r]
      /\ status'[New] = s /\ note'[New] = why /\ payload'[New] = msg
  BY <1>1, <1>2
<1> SUFFICES ASSUME NEW r \in Recs PROVE Dropped(r)' <=> Dropped(r)
  BY DEF DropsStay
<1>4. CASE r # New
  BY <1>3, <1>4 DEF Dropped
<1>5. CASE r = New
  <2>1. status[r] # "skipped"
    BY <1>1, <1>5
  <2>2. ~(payload'[r] /\ status'[r] = "skipped" /\ note'[r] \in {"busy", "left"})
    BY <1>3, <1>5
  <2> QED
    BY <2>1, <2>2 DEF Dropped
<1> QED
  BY <1>4, <1>5

\* A step that drops one message, and takes on the answer.
LEMMA TellDrops ==
  ASSUME TellInv, TypeOK, TypeOK', NEW w \in Threads, OthersStay(w), UNCHANGED told,
         tell[w] = NoRec, NEW r \in Recs, tell'[w] = r, op'[w] \in Finishing \cup {"idle"},
         ~Dropped(r), Dropped(r)', \A q \in Recs \ {r} : Dropped(q)' <=> Dropped(q)
  PROVE  TellInv'
<1> DEFINE D(q) == Dropped(q)
<1>1. /\ \A q \in Recs \ {r} : D(q)' <=> D(q)
      /\ ~D(r) /\ D(r)' /\ NoRec \notin Recs
      /\ \A v \in Threads \ {w} : tell'[v] = tell[v]
      /\ \A v \in Threads : tell[v] # NoRec => op'[v] = op[v] /\ v # w
      /\ \A v \in Threads : tell[v] # NoRec => tell[v] \in Recs
  BY SizeAssumption DEF OthersStay, TypeOK, ThreadsTypeOK, Recs, NoRec, SizeAssumption
<1>2. /\ \A v \in Threads : tell[v] # NoRec => op[v] \in Finishing \cup {"idle"}
      /\ \A u, v \in Threads : tell[v] # NoRec /\ tell[u] = tell[v] => u = v
      /\ \A q \in Recs : told[q] = 1 \/ (told[q] = 0 /\ (D(q) => \E v \in Threads : tell[v] = q))
      /\ \A q \in Recs : told[q] = 1 => D(q) /\ \A v \in Threads : tell[v] # q
      /\ \A v \in Threads : tell[v] # NoRec => D(tell[v])
  BY DEF TellInv
<1> SUFFICES
      /\ \A v \in Threads : tell'[v] # NoRec => op'[v] \in Finishing \cup {"idle"}
      /\ \A u, v \in Threads : tell'[v] # NoRec /\ tell'[u] = tell'[v] => u = v
      /\ \A q \in Recs :
            told'[q] = 1 \/ (told'[q] = 0 /\ (D(q)' => \E v \in Threads : tell'[v] = q))
      /\ \A q \in Recs : told'[q] = 1 => D(q)' /\ \A v \in Threads : tell'[v] # q
      /\ \A v \in Threads : tell'[v] # NoRec => D(tell[v])'
  BY <1>1 DEF TellInv
<1> HIDE DEF D
<1>3. \A v \in Threads : tell'[v] # NoRec => op'[v] \in Finishing \cup {"idle"}
  BY <1>1, <1>2
<1>4. \A u, v \in Threads : tell'[v] # NoRec /\ tell'[u] = tell'[v] => u = v
  BY <1>1, <1>2
<1>5. ASSUME NEW q \in Recs, told[q] # 1
      PROVE  told'[q] = 0 /\ (D(q)' => \E v \in Threads : tell'[v] = q)
  <2>1. CASE q = r
    BY <1>2, <1>5, <2>1
  <2>2. CASE q # r
    <3>1. told[q] = 0 /\ (D(q)' => \E v \in Threads : tell[v] = q)
      BY <1>1, <1>2, <1>5, <2>2
    <3> QED
      BY <1>1, <3>1
  <2> QED
    BY <2>1, <2>2
<1>6. \A q \in Recs : told'[q] = 1 => D(q)' /\ \A v \in Threads : tell'[v] # q
  BY <1>1, <1>2
<1>7. \A v \in Threads : tell'[v] # NoRec => D(tell[v])'
  BY <1>1, <1>2
<1> QED
  BY <1>3, <1>4, <1>5, <1>6, <1>7

LEMMA TellTells ==
  ASSUME TellInv, TypeOK, TypeOK', NEW w \in Threads, OthersStay(w), DropsStay, Tell(w)
  PROVE  TellInv'
<1> DEFINE D(q) == Dropped(q)
<1>0. PICK r \in Recs : r = tell[w] /\ r # NoRec
  BY DEF Tell, TypeOK, ThreadsTypeOK
<1>1. /\ \A q \in Recs : D(q)' <=> D(q)
      /\ \A v \in Threads \ {w} : tell'[v] = tell[v]
      /\ tell'[w] = NoRec
      /\ \A v \in Threads : op'[v] = op[v]
      /\ \A v \in Threads : tell[v] # NoRec => tell[v] \in Recs
      /\ \A q \in Recs \ {r} : told'[q] = told[q]
      /\ told'[r] = told[r] + 1
  BY <1>0 DEF OthersStay, DropsStay, TypeOK, ThreadsTypeOK, RecsTypeOK, Tell
<1>2. /\ \A v \in Threads : tell[v] # NoRec => op[v] \in Finishing \cup {"idle"}
      /\ \A u, v \in Threads : tell[v] # NoRec /\ tell[u] = tell[v] => u = v
      /\ \A q \in Recs : told[q] = 1 \/ (told[q] = 0 /\ (D(q) => \E v \in Threads : tell[v] = q))
      /\ \A q \in Recs : told[q] = 1 => D(q) /\ \A v \in Threads : tell[v] # q
      /\ \A v \in Threads : tell[v] # NoRec => D(tell[v])
  BY DEF TellInv
<1> SUFFICES
      /\ \A v \in Threads : tell'[v] # NoRec => op'[v] \in Finishing \cup {"idle"}
      /\ \A u, v \in Threads : tell'[v] # NoRec /\ tell'[u] = tell'[v] => u = v
      /\ \A q \in Recs :
            told'[q] = 1 \/ (told'[q] = 0 /\ (D(q)' => \E v \in Threads : tell'[v] = q))
      /\ \A q \in Recs : told'[q] = 1 => D(q)' /\ \A v \in Threads : tell'[v] # q
      /\ \A v \in Threads : tell'[v] # NoRec => D(tell[v])'
  BY <1>1 DEF TellInv
<1> HIDE DEF D
<1> USE <1>0, <1>1, <1>2
<1>3. told[r] = 0 /\ told'[r] = 1
  OBVIOUS
<1>4. ASSUME NEW q \in Recs, told'[q] # 1
      PROVE  told'[q] = 0 /\ (D(q)' => \E v \in Threads : tell'[v] = q)
  <2>1. q # r /\ told'[q] = told[q]
    BY <1>3, <1>4
  <2>2. told[q] = 0 /\ (D(q)' => \E v \in Threads : tell[v] = q)
    BY <1>4, <2>1
  <2> QED
    BY <2>1, <2>2
<1>5. ASSUME NEW q \in Recs, told'[q] = 1
      PROVE  D(q)' /\ \A v \in Threads : tell'[v] # q
  <2>1. CASE q = r
    <3>1. D(tell[w]) /\ tell[w] = q
      BY <2>1
    <3>2. D(q)'
      BY <3>1
    <3>3. \A v \in Threads : tell[v] = tell[w] => v = w
      OBVIOUS
    <3> QED
      BY <2>1, <3>2, <3>3
  <2>2. CASE q # r
    <3>1. D(q) /\ \A v \in Threads : tell[v] # q
      BY <1>5, <2>2
    <3> QED
      BY <3>1, <2>2, <1>3, SizeAssumption DEF NoRec, Recs, SizeAssumption
  <2> QED
    BY <2>1, <2>2
<1> QED
  BY <1>4, <1>5

LEMMA ThreadTells ==
  ASSUME HoldInv, TellInv, TypeOK', NEW w \in Threads, ThreadNext(w)
  PROVE  TellInv'
<1>0. /\ TypeOK /\ ThreadsTypeOK /\ ThreadsTypeOK' /\ OthersStay(w)
      /\ op[w] \notin Finishing \cup {"idle"} => tell[w] = NoRec
      /\ status \in [Recs -> Statuses] /\ doomed[w] \subseteq Recs
  BY HoldFacts, ThreadStaysApart DEF TypeOK, ThreadsTypeOK, TellInv
<1> USE DEF recVars, autoVars, engineVars, threadVars, Idle, Rests
<1>1. CASE FireVoid(w) \/ ManualRefused(w) \/ RetryRefused(w) \/ FinishQueuedLost(w)
           \/ FinishedAll(w) \/ CancelLooks(w) \/ CancelUnmatched(w)
  <2>1. UNCHANGED recVars
    BY <1>1 DEF FireVoid, ManualRefused, StartRaises, RetryRefused, FinishQueuedLost,
                FinishedAll, CancelLooks, CancelUnmatched
  <2>2. tell[w] = NoRec /\ tell'[w] = NoRec
    BY <1>0, <1>1
    DEF ThreadsTypeOK, FireVoid, Firing, ManualRefused, Manual, RetryRefused, FinishQueuedLost,
        FinishedAll, CancelLooks, CancelUnmatched, Finishing
  <2> QED
    BY <1>0, <2>1, <2>2, TellFrame, SameDrops
<1>2. CASE ExpireStale(w) \/ DrainEnds(w) \/ DrainDooms(w) \/ StopLive(w) \/ SnapshotQueue(w)
           \/ StopPromoted(w) \/ RemoveAutomation(w) \/ RemoveFails(w) \/ SweepKills(w) \/ SweepEnds(w)
  <2>1. UNCHANGED recVars
    BY <1>2 DEF ExpireStale, DrainEnds, DrainDooms, StopLive, SnapshotQueue, StopPromoted,
                RemoveAutomation, RemoveFails, SweepKills, SweepEnds
  <2>2. tell[w] = NoRec /\ tell'[w] = NoRec
    BY <1>0, <1>2
    DEF ThreadsTypeOK, ExpireStale, DrainEnds, DrainDooms, StopLive, SnapshotQueue,
        StopPromoted, RemoveAutomation, RemoveFails, SweepKills, SweepEnds, Draining, Finishing
  <2> QED
    BY <1>0, <2>1, <2>2, TellFrame, SameDrops
<1>3. CASE RetryStarts(w) \/ DrainPromotes(w) \/ DrainLaunchFails(w)
  <2>1. DropsStay
    BY <1>0, <1>3, StatusDrops
    DEF RetryStarts, RetryAdmitted, DrainPromotes, DrainLaunchFails, Heads, QueuedExecs
  <2>2. tell[w] = NoRec /\ tell'[w] = NoRec /\ UNCHANGED told
    BY <1>0, <1>3
    DEF ThreadsTypeOK, RetryStarts, DrainPromotes, DrainLaunchFails, Draining, Finishing
  <2> QED
    BY <1>0, <2>1, <2>2, TellFrame
<1>4. CASE FireJoins(w) \/ ManualJoins(w) \/ FireRaises(w)
  <2>1. DropsStay
    BY <1>4, CreateDrops, SameDrops
    DEF FireJoins, ManualJoins, FireRaises, StartRaises, IsMessage
  <2>2. tell[w] = NoRec /\ tell'[w] = NoRec /\ UNCHANGED told
    BY <1>0, <1>4
    DEF ThreadsTypeOK, FireJoins, ManualJoins, FireRaises, StartRaises, Firing, Finishing, Create
  <2> QED
    BY <1>0, <2>1, <2>2, TellFrame
<1>5. CASE FireStarts(w) \/ ManualStarts(w)
  <2>1. DropsStay
    BY <1>5, CreateDrops DEF FireStarts, ManualStarts, StartNew, IsMessage
  <2>2. tell[w] = NoRec /\ tell'[w] = NoRec /\ UNCHANGED told
    BY <1>0, <1>5
    DEF ThreadsTypeOK, FireStarts, ManualStarts, StartNew, Firing, Manual, Finishing, Create
  <2> QED
    BY <1>0, <2>1, <2>2, TellFrame
<1>6. CASE Tell(w)
  BY <1>0, <1>6, TellTells, SameDrops DEF Tell
<1>7. CASE FireSkips(w)
  <2>1. tell[w] = NoRec /\ UNCHANGED told /\ op'[w] = "idle" /\ made < MaxRecs
    BY <1>0, <1>7 DEF ThreadsTypeOK, FireSkips, Firing, Finishing, Create
  <2>2. CASE ~IsMessage(w)
    <3>1. DropsStay
      BY <1>7, <2>2, CreateDrops DEF FireSkips, IsMessage
    <3> QED
      BY <1>0, <1>7, <2>1, <2>2, <3>1, TellFrame DEF FireSkips, ThreadsTypeOK
  <2>3. CASE IsMessage(w)
    <3>1. PICK r \in Recs : r = New /\ status[r] = "none"
      BY <2>1, NewIsUnmade, HoldFacts
    <3>2. /\ status' = [status EXCEPT ![r] = "skipped"] /\ note' = [note EXCEPT ![r] = "busy"]
          /\ payload' = [payload EXCEPT ![r] = TRUE] /\ tell' = [tell EXCEPT ![w] = r]
      BY <1>7, <2>3, <3>1 DEF FireSkips, Create
    <3>3. tell'[w] = r /\ ~Dropped(r) /\ Dropped(r)'
      BY <1>0, <3>1, <3>2, HoldFacts DEF Dropped, ThreadsTypeOK, TypeOK, RecsTypeOK
    <3>4. \A q \in Recs \ {r} : Dropped(q)' <=> Dropped(q)
      BY <3>1, <3>2, HoldFacts DEF Dropped, TypeOK, RecsTypeOK
    <3> QED
      BY <1>0, <2>1, <3>1, <3>3, <3>4, TellDrops
  <2> QED
    BY <2>2, <2>3
<1>8. CASE FinishQueued(w)
  <2>1. PICK r \in doomed[w] :
           /\ status[r] = "queued" /\ FinishNeverRan(r, "left")
           /\ tell' = [tell EXCEPT ![w] = IF payload[r] THEN r ELSE NoRec]
    BY <1>8 DEF FinishQueued
  <2>2. r \in Recs /\ tell[w] = NoRec /\ UNCHANGED <<told, op, payload>> /\ op[w] \in Finishing
    BY <1>0, <1>8, <2>1 DEF FinishQueued, FinishNeverRan
  <2>3. ~Dropped(r) /\ (Dropped(r)' <=> payload[r])
        /\ \A q \in Recs \ {r} : Dropped(q)' <=> Dropped(q)
    BY <2>1, <2>2, HoldFacts DEF FinishNeverRan, Dropped, TypeOK, RecsTypeOK
  <2>4. CASE payload[r]
    BY <1>0, <2>1, <2>2, <2>3, <2>4, TellDrops DEF ThreadsTypeOK
  <2>5. CASE ~payload[r]
    BY <1>0, <2>1, <2>2, <2>3, <2>5, TellFrame DEF ThreadsTypeOK, DropsStay
  <2> QED
    BY <2>4, <2>5
<1>9. CASE FinishQueuedRaises(w) \/ DrainWriteFails(w)
  <2>1. PICK r \in Recs : status[r] = "queued" /\ FinishNeverRan(r, "untold")
    BY <1>0, <1>9 DEF FinishQueuedRaises, DrainWriteFails, Heads, QueuedExecs
  <2>2. DropsStay
    BY <2>1, HoldFacts DEF FinishNeverRan, Dropped, DropsStay, TypeOK, RecsTypeOK
  <2>3. tell[w] = NoRec /\ tell'[w] = NoRec /\ UNCHANGED told
    BY <1>0, <1>9, <2>1
    DEF ThreadsTypeOK, FinishQueuedRaises, DrainWriteFails, Draining, FinishNeverRan
  <2> QED
    BY <1>0, <2>2, <2>3, TellFrame
<1> QED
  BY <1>1, <1>2, <1>3, <1>4, <1>5, <1>6, <1>7, <1>8, <1>9 DEF ThreadNext

LEMMA RequestBegins ==
  ASSUME NEW w \in Threads, RequestNext(w)
  PROVE  op[w] = "idle" /\ tell[w] = NoRec /\ UNCHANGED <<recVars, tell>>
  BY DEF Begins, RequestNext, CollectFiring, RequestStart, RequestClear, PatchLimits,
         PatchTriggers, RequestDelete, RequestRetry, RequestCancel, KillAllLive

LEMMA TellInvariance == Spec => []TellInv
<1>1. Init => TellInv
  BY DEF Init, TellInv, Dropped
<1>2. HoldInv /\ TypeOK' /\ TellInv /\ [Next]_vars => TellInv'
  <2> SUFFICES ASSUME HoldInv, TypeOK', TellInv, [Next]_vars PROVE TellInv'
    OBVIOUS
  <2>0. TypeOK /\ LiveHasRun /\ ThreadInv
    BY HoldFacts
  <2>1. ASSUME NEW w \in Threads, ThreadNext(w) PROVE TellInv'
    BY <2>1, ThreadTells
  <2>2. ASSUME NEW w \in Threads, RequestNext(w) PROVE TellInv'
    BY <2>0, <2>2, RequestBegins, RequestStaysApart, TellFrame, SameDrops DEF recVars
  <2>3. ASSUME NEW r \in Recs, EngineNext(r) \/ WaitsTooLong(r) PROVE TellInv'
    <3>1. OthersStay(r) /\ r \in Threads
      BY <2>0, <2>3, EngineStaysApart DEF Threads
    <3>2. DropsStay
      <4>1. CASE Decide(r) \/ SettleFails(r)
        BY <2>0, <4>1, StatusDrops
        DEF Decide, SettleFails, LiveHasRun, IsLive
      <4>2. CASE Settle(r) \/ Release(r) \/ WaitsTooLong(r)
        BY <4>2, SameDrops DEF Settle, Release, WaitsTooLong, recVars
      <4> QED
        BY <2>3, <4>1, <4>2 DEF EngineNext
    <3>3. /\ UNCHANGED <<told, tell>>
          /\ tell[r] = NoRec \/ op'[r] = op[r]
      BY <2>3
      DEF EngineNext, Decide, Settle, SettleFails, Release, Begins, WaitsTooLong, threadVars,
          recVars
    <3> QED
      BY <2>0, <3>1, <3>2, <3>3, TellFrame
  <2>4. CASE UNCHANGED vars \/ SetDataPath
    <3>1. UNCHANGED <<status, payload, note, told>> /\ UNCHANGED threadVars
      BY <2>4 DEF vars, SetDataPath, recVars
    <3>2. Ticker \in Threads /\ OthersStay(Ticker)
      BY <3>1 DEF threadVars, OthersStay, Threads
    <3> QED
      BY <2>0, <3>1, <3>2, TellFrame, SameDrops DEF threadVars
  <2>5. ASSUME NEW a \in Autos, TickDrains(a) PROVE TellInv'
    <3>1. Ticker \in Threads /\ OthersStay(Ticker) /\ tell[Ticker] = NoRec
          /\ UNCHANGED <<tell, recVars>>
      BY <2>0, <2>5 DEF TickDrains, Begins, OthersStay, Threads, TypeOK, ThreadsTypeOK
    <3> QED
      BY <2>0, <3>1, TellFrame, SameDrops DEF recVars
  <2> QED
    BY <2>1, <2>2, <2>3, <2>4, <2>5 DEF Next, Threads
<1>3. HoldInv => TypeOK
  BY HoldFacts
<1> QED
  BY <1>1, <1>2, <1>3, HoldInvariance, PTL DEF Spec

LEMMA AnsweredOnce == TypeOK /\ TellInv => DroppedIsAnsweredOnce
<1> SUFFICES ASSUME TypeOK, TellInv, NEW r \in Recs
             PROVE  told[r] + Cardinality({w \in Threads : tell[w] = r}) =
                       IF Dropped(r) THEN 1 ELSE 0
  BY DEF DroppedIsAnsweredOnce, Dropped
<1>0. r # NoRec
  BY SizeAssumption DEF Recs, NoRec, SizeAssumption
<1>1. CASE told[r] = 1
  <2>1. Dropped(r) /\ {w \in Threads : tell[w] = r} = {}
    BY <1>1 DEF TellInv
  <2> QED
    BY <1>1, <2>1, FS_EmptySet
<1>2. CASE told[r] = 0 /\ ~Dropped(r)
  <2>1. {w \in Threads : tell[w] = r} = {}
    BY <1>0, <1>2 DEF TellInv
  <2> QED
    BY <1>2, <2>1, FS_EmptySet
<1>3. CASE told[r] = 0 /\ Dropped(r)
  <2>1. PICK w \in Threads : tell[w] = r
    BY <1>3 DEF TellInv
  <2>2. {v \in Threads : tell[v] = r} = {w}
    BY <1>0, <2>1 DEF TellInv
  <2>3. Cardinality({v \in Threads : tell[v] = r}) = 1
    BY <2>2, FS_Singleton, Zenon
  <2> QED
    BY <1>3, <2>3
<1> QED
  BY <1>1, <1>2, <1>3 DEF TellInv

\* Every message that is turned away, or leaves the queue without running, is
\* answered once and no other is (firing.py: notify_busy after the lock is let
\* go, in whatever thread dropped it).
THEOREM DroppedAnsweredOnce == Spec => []DroppedIsAnsweredOnce
<1>1. HoldInv => TypeOK
  BY HoldFacts
<1> QED
  BY <1>1, AnsweredOnce, HoldInvariance, TellInvariance, PTL

-----------------------------------------------------------------------------
\* A dict that is not registered yet has no slot taken.
FutureSlotsFree == \A a \in Autos, g \in Gens : g > gen[a] => slots[<<a, g>>] = {}

SlotInv == SlotsMatchThreads /\ FutureSlotsFree

\* A step that takes and frees no slot.
LEMMA SlotFrame ==
  ASSUME SlotInv, HoldInv, RecordsStay, UNCHANGED <<slots, gen>>, registered' \subseteq registered,
         \A r \in Recs : /\ IsLive(r) => thread'[r] # "none"
                         /\ status'[r] = "executing" => status[r] = "executing"
  PROVE  SlotInv'
<1>1. /\ LiveHasRun /\ registered \subseteq Autos
      /\ \A a \in registered : slots[Dict(a)] \subseteq Recs
  BY HoldFacts DEF TypeOK, AutosTypeOK, Dict, Dicts
<1>2. \A r \in Recs : IsLive(r) => owner'[r] = owner[r]
  BY <1>1 DEF LiveHasRun, RecordsStay
<1>3. \A r \in Recs :
         status'[r] = "executing" => status[r] = "executing" /\ owner'[r] = owner[r]
  BY DEF RecordsStay
<1>4. SlotsMatchThreads'
  <2> SUFFICES ASSUME NEW a \in registered'
               PROVE  /\ Executing(a)' \subseteq slots[Dict(a)]
                      /\ \A r \in slots[Dict(a)] : owner'[r] = a /\ thread'[r] # "none"
    BY DEF SlotsMatchThreads, Dict, IsLive
  <2>1. /\ Executing(a) \subseteq slots[Dict(a)]
        /\ \A r \in slots[Dict(a)] : r \in Recs /\ owner[r] = a /\ IsLive(r)
    BY <1>1 DEF SlotInv, SlotsMatchThreads
  <2>2. Executing(a)' \subseteq Executing(a)
    BY <1>3 DEF Executing
  <2> QED
    BY <1>2, <2>1, <2>2
<1>5. FutureSlotsFree'
  BY DEF SlotInv, FutureSlotsFree
<1> QED
  BY <1>4, <1>5 DEF SlotInv

\* A step that starts record r and takes a slot of the registered dict for it.
LEMMA SlotTaken ==
  ASSUME SlotInv, HoldInv, NEW a \in Autos, NEW r \in Recs, ~IsLive(r),
         slots' = [slots EXCEPT ![Dict(a)] = @ \cup {r}],
         thread' = [thread EXCEPT ![r] = "run"],
         status' = [status EXCEPT ![r] = "executing"],
         owner'[r] = a, \A q \in Recs \ {r} : owner'[q] = owner[q],
         UNCHANGED <<registered, gen>>
  PROVE  SlotInv'
<1>1. /\ status \in [Recs -> Statuses] /\ thread \in [Recs -> Stages]
      /\ slots \in [Dicts -> SUBSET Recs] /\ registered \subseteq Autos /\ gen \in [Autos -> Gens]
  BY HoldFacts DEF TypeOK, AutosTypeOK, EngineTypeOK
<1>2. \A b \in Autos : Dict(b) \in Dicts /\ Dict(b)' = Dict(b) /\ (Dict(b) = Dict(a) => b = a)
  BY <1>1 DEF Dict, Dicts
<1>3. /\ slots'[Dict(a)] = slots[Dict(a)] \cup {r}
      /\ \A b \in Autos \ {a} : slots'[Dict(b)] = slots[Dict(b)]
  BY <1>1, <1>2
<1>4. /\ Executing(a)' \subseteq Executing(a) \cup {r}
      /\ \A b \in Autos \ {a} : Executing(b)' \subseteq Executing(b)
  BY <1>1 DEF Executing
<1>5. \A q \in Recs : IsLive(q) \/ q = r => thread'[q] # "none"
  BY <1>1 DEF IsLive
<1>6. ASSUME NEW b \in registered, NEW q \in slots'[Dict(b)], q # r
      PROVE  owner'[q] = b /\ thread'[q] # "none"
  <2>1. q \in slots[Dict(b)] /\ q \in Recs
    BY <1>1, <1>2, <1>3, <1>6
  <2> QED
    BY <1>5, <1>6, <2>1 DEF SlotInv, SlotsMatchThreads
<1>7. ASSUME NEW b \in registered, r \in slots'[Dict(b)]
      PROVE  owner'[r] = b /\ thread'[r] # "none"
  <2>1. CASE b = a
    BY <1>5, <2>1
  <2>2. CASE b # a
    BY <1>1, <1>2, <1>3, <1>7, <2>2 DEF SlotInv, SlotsMatchThreads
  <2> QED
    BY <2>1, <2>2
<1>8. SlotsMatchThreads'
  BY <1>1, <1>2, <1>3, <1>4, <1>6, <1>7 DEF SlotInv, SlotsMatchThreads, IsLive
<1>9. FutureSlotsFree'
  <2>1. \A b \in Autos, g \in Gens : g > gen[b] => <<b, g>> \in Dicts /\ <<b, g>> # Dict(a)
    BY <1>1 DEF Dict, Dicts, Gens
  <2> QED
    BY <1>1, <2>1 DEF SlotInv, FutureSlotsFree
<1> QED
  BY <1>8, <1>9 DEF SlotInv

LEMMA ThreadSlots ==
  ASSUME StartsAreCurrent, SlotInv, HoldInv, TypeOK', NEW w \in Threads, ThreadNext(w)
  PROVE  SlotInv'
<1>0. /\ status \in [Recs -> Statuses] /\ thread \in [Recs -> Stages] /\ RecordsStay
      /\ AdmitsToAuto(w) /\ LiveHasRun /\ registered \subseteq Autos
      /\ doomed[w] \subseteq Recs /\ WorksOnOne(w) /\ ThreadInv
  BY HoldFacts, ThreadRecordsStay DEF TypeOK, EngineTypeOK, AutosTypeOK
<1> USE DEF recVars, autoVars, engineVars
<1>1. CASE FireVoid(w) \/ ManualRefused(w) \/ RetryRefused(w) \/ FinishQueuedLost(w)
           \/ Tell(w) \/ FinishedAll(w) \/ CancelLooks(w) \/ CancelUnmatched(w)
  BY <1>0, <1>1, SlotFrame
  DEF FireVoid, ManualRefused, StartRaises, RetryRefused, FinishQueuedLost, Tell, FinishedAll,
      CancelLooks, CancelUnmatched, Flag, IsLive
<1>2. CASE ExpireStale(w) \/ DrainEnds(w) \/ DrainDooms(w) \/ StopLive(w) \/ SnapshotQueue(w)
           \/ StopPromoted(w) \/ RemoveAutomation(w) \/ RemoveFails(w) \/ SweepKills(w) \/ SweepEnds(w)
  BY <1>0, <1>2, SlotFrame
  DEF ExpireStale, DrainEnds, DrainDooms, StopLive, SnapshotQueue, StopPromoted, RemoveAutomation,
      RemoveFails, SweepKills, SweepEnds, Flag, IsLive
<1>3. ASSUME NEW a, NEW s, s # "executing", NEW msg, NEW why, Create(a, s, msg, why),
             UNCHANGED <<autoVars, engineVars>>
      PROVE  SlotInv'
  BY <1>0, <1>3, NewIsUnmade, SlotFrame DEF Create, IsLive
<1>4. CASE FireJoins(w) \/ FireSkips(w) \/ ManualJoins(w) \/ FireRaises(w)
  <2>1. CASE UNCHANGED <<recVars, autoVars, engineVars>>
    BY <1>0, <2>1, SlotFrame DEF IsLive
  <2> QED
    BY <1>3, <1>4, <2>1 DEF FireJoins, FireSkips, ManualJoins, FireRaises, StartRaises
<1>5. ASSUME on[w] \in Autos, Held(w) = Dict(on[w]), NEW msg, StartNew(w, msg) PROVE SlotInv'
  <2>1. CASE Create(on[w], "executing", msg, "none") /\ Launch(Held(w), New, TRUE)
    <3>1. New \in Recs /\ thread[New] = "none"
      BY <1>0, <2>1, NewIsUnmade DEF Create
    <3> QED
      BY <1>0, <1>5, <2>1, <3>1, SlotTaken, HoldFacts
      DEF Create, Launch, IsLive
  <2> QED
    BY <1>3, <1>5, <2>1 DEF StartNew
<1>6. CASE FireStarts(w) \/ ManualStarts(w)
  <2>1. on[w] \in Autos
    BY <1>0, <1>6 DEF FireStarts, ManualStarts, Firing, Manual, AdmitsToAuto, Admitting
  <2>2. Held(w) = Dict(on[w])
    BY <1>0, <1>6, <2>1
    DEF FireStarts, ManualStarts, Firing, FiringVoid, Manual, AdmitsToAuto, StartsAreCurrent,
        Held, Dict
  <2> QED
    BY <1>5, <1>6, <2>1, <2>2 DEF FireStarts, ManualStarts
<1>7. CASE RetryStarts(w)
  <2>1. PICK r \in doomed[w] :
           /\ RetryAdmitted(w, r) /\ status' = [status EXCEPT ![r] = "executing"]
           /\ Launch(Dict(owner[r]), r, owner[r] \in registered)
    BY <1>7 DEF RetryStarts
  <2>2. r \in Recs /\ ~IsLive(r) /\ owner[r] \in Autos /\ UNCHANGED owner
    BY <1>0, <1>7, <2>1, HoldFacts DEF RetryStarts, RetryAdmitted, RecordsAreOwned
  <2>3. CASE owner[r] \in registered
    BY <1>0, <2>1, <2>2, <2>3, SlotTaken DEF Launch
  <2>4. CASE owner[r] \notin registered
    <3>1. /\ UNCHANGED <<slots, gen, registered, owner>>
          /\ \A q \in Recs \ {r} : thread'[q] = thread[q] /\ status'[q] = status[q]
      BY <1>0, <2>1, <2>2, <2>4 DEF Launch
    <3>2. \A a \in registered : Executing(a)' \subseteq Executing(a) /\ r \notin slots[Dict(a)]
      BY <2>2, <2>4, <3>1 DEF Executing, SlotInv, SlotsMatchThreads
    <3>3. \A a \in registered : slots[Dict(a)] \subseteq Recs
      BY HoldFacts DEF TypeOK, AutosTypeOK, Dict, Dicts
    <3>4. SlotsMatchThreads'
      BY <3>1, <3>2, <3>3 DEF SlotInv, SlotsMatchThreads, Dict, IsLive
    <3> QED
      BY <3>1, <3>4 DEF SlotInv, FutureSlotsFree
  <2> QED
    BY <2>3, <2>4
<1>8. CASE FinishQueued(w) \/ FinishQueuedRaises(w) \/ DrainWriteFails(w) \/ DrainLaunchFails(w)
  BY <1>0, <1>8, SlotFrame
  DEF FinishQueued, FinishQueuedRaises, FinishNeverRan, DrainWriteFails, DrainLaunchFails,
      Heads, QueuedExecs, IsLive
<1>9. CASE DrainPromotes(w)
  <2>1. PICK r \in Recs :
           /\ status[r] = "queued" /\ owner[r] = on[w] /\ on[w] \in registered
           /\ status' = [status EXCEPT ![r] = "executing"]
           /\ Launch(Dict(on[w]), r, TRUE) /\ UNCHANGED owner
    BY <1>9 DEF DrainPromotes, Heads, QueuedExecs, CanPromote
  <2>2. ~IsLive(r) /\ on[w] \in Autos
    BY <1>0, <2>1 DEF LiveHasRun
  <2> QED
    BY <2>1, <2>2, SlotTaken DEF Launch
<1> QED
  BY <1>1, <1>2, <1>4, <1>6, <1>7, <1>8, <1>9 DEF ThreadNext

LEMMA EngineSlots ==
  ASSUME SlotInv, HoldInv, NEW r \in Recs, EngineNext(r) \/ WaitsTooLong(r)
  PROVE  SlotInv'
<1>0. /\ status \in [Recs -> Statuses] /\ thread \in [Recs -> Stages] /\ RecordsStay
      /\ ExecutingHasThread /\ slots \in [Dicts -> SUBSET Recs]
      /\ \A a \in registered : a \in Autos /\ Dict(a) \in Dicts
      /\ gen \in [Autos -> Gens]
  BY HoldFacts, EngineRecordsStay
  DEF TypeOK, EngineTypeOK, AutosTypeOK, ThreadInv, Dict, Dicts
<1>1. CASE Decide(r) \/ SettleFails(r) \/ WaitsTooLong(r)
  BY <1>0, <1>1, SlotFrame
  DEF Decide, SettleFails, WaitsTooLong, autoVars, engineVars, IsLive
<1>2. ASSUME FreeSlot(r), UNCHANGED <<status, owner>>, thread[r] # "run",
             \A q \in Recs \ {r} : thread'[q] = thread[q]
      PROVE  SlotInv'
  <2>1. /\ UNCHANGED <<registered, gen>>
        /\ \A d \in Dicts : slots'[d] \subseteq slots[d] /\ slots[d] \ {r} \subseteq slots'[d]
        /\ owner[r] \in registered => r \notin slots'[Dict(owner[r])]
    BY <1>0, <1>2 DEF FreeSlot
  <2>2. ASSUME NEW a \in registered PROVE Executing(a) \subseteq slots'[Dict(a)]
    BY <1>0, <1>2, <2>1 DEF SlotInv, SlotsMatchThreads, ExecutingHasThread, Executing
  <2>3. ASSUME NEW a \in registered, NEW q \in slots'[Dict(a)]
        PROVE  owner[q] = a /\ thread'[q] # "none"
    <3>1. q \in Recs /\ owner[q] = a /\ IsLive(q) /\ q # r
      BY <1>0, <2>1, <2>3 DEF SlotInv, SlotsMatchThreads
    <3> QED
      BY <1>2, <3>1 DEF IsLive
  <2>4. SlotsMatchThreads'
    BY <1>2, <2>1, <2>2, <2>3 DEF SlotsMatchThreads, Executing, Dict, IsLive
  <2>5. FutureSlotsFree'
    BY <1>0, <2>1 DEF SlotInv, FutureSlotsFree, Dicts
  <2> QED
    BY <2>4, <2>5 DEF SlotInv
<1>3. CASE Settle(r) \/ Release(r)
  BY <1>0, <1>2, <1>3 DEF Settle, Release, recVars
<1> QED
  BY <1>1, <1>3 DEF EngineNext

LEMMA SlotInvariance == StartsAreCurrent /\ Spec => []SlotInv
<1> SUFFICES ASSUME StartsAreCurrent PROVE Spec => []SlotInv
  OBVIOUS
<1>1. Init => SlotInv
  <2> SUFFICES ASSUME Init PROVE SlotInv
    OBVIOUS
  <2>1. \A a \in Autos, g \in Gens : slots[<<a, g>>] = {}
    BY DEF Init, Dicts
  <2>2. \A a \in Autos : gen[a] \in Gens
    BY SizeAssumption DEF Init, SizeAssumption, Gens
  <2>3. \A a \in Autos : Executing(a) = {}
    BY DEF Init, Executing
  <2>4. registered = Autos
    BY DEF Init
  <2> QED
    BY <2>1, <2>2, <2>3, <2>4 DEF SlotInv, SlotsMatchThreads, FutureSlotsFree, Dict
<1>2. HoldInv /\ TypeOK' /\ SlotInv /\ [Next]_vars => SlotInv'
  <2> SUFFICES ASSUME HoldInv, TypeOK', SlotInv, [Next]_vars PROVE SlotInv'
    OBVIOUS
  <2>0. /\ RecordsStay /\ AutosTypeOK /\ AutosTypeOK'
    BY NextRecordsStay, HoldFacts DEF TypeOK
  <2>1. ASSUME NEW w \in Threads, ThreadNext(w) PROVE SlotInv'
    BY <2>1, ThreadSlots
  <2>2. ASSUME NEW r \in Recs, EngineNext(r) \/ WaitsTooLong(r) PROVE SlotInv'
    BY <2>2, EngineSlots
  <2>3. ASSUME NEW w \in Threads, RequestNext(w) PROVE SlotInv'
    BY <2>0, <2>3, RequestKeepsGen, RequestRecordsStay, SlotFrame DEF recVars, IsLive
  <2>4. CASE UNCHANGED vars \/ \E a \in Autos : TickDrains(a)
    BY <2>0, <2>4, SlotFrame DEF vars, TickDrains, recVars, autoVars, engineVars, IsLive
  <2>5. CASE SetDataPath
    <3>1. /\ UNCHANGED <<status, owner, thread, slots, registered>>
          /\ \A r \in Recs : status[r] # "executing"
          /\ gen' = [a \in Autos |-> IF a \in registered THEN gen[a] + 1 ELSE gen[a]]
          /\ gen \in [Autos -> Gens] /\ gen' \in [Autos -> Gens] /\ registered \subseteq Autos
      BY <2>0, <2>5 DEF SetDataPath, recVars, AutosTypeOK
    <3>2. \A a \in registered : gen'[a] \in Gens /\ gen'[a] > gen[a]
      BY <3>1, SizeAssumption DEF SizeAssumption, Gens
    <3>3. \A a \in registered : slots[<<a, gen'[a]>>] = {} /\ Executing(a)' = {}
      BY <3>1, <3>2 DEF SlotInv, FutureSlotsFree, Executing
    <3>4. SlotsMatchThreads'
      BY <3>1, <3>3 DEF SlotsMatchThreads, Dict
    <3>5. FutureSlotsFree'
      <4>1. \A a \in Autos : gen[a] \in 0..MaxGen /\ gen'[a] \in 0..MaxGen /\ gen[a] <= gen'[a]
        BY <3>1, SizeAssumption DEF SizeAssumption, Gens
      <4>2. \A a \in Autos, g \in Gens : g > gen'[a] => g > gen[a]
        BY <4>1, SizeAssumption DEF SizeAssumption, Gens
      <4> QED
        BY <3>1, <4>2 DEF SlotInv, FutureSlotsFree
    <3> QED
      BY <3>4, <3>5 DEF SlotInv
  <2> QED
    BY <2>1, <2>2, <2>3, <2>4, <2>5 DEF Next, Threads
<1>3. HoldInv => TypeOK
  BY HoldFacts
<1> QED
  BY <1>1, <1>2, <1>3, HoldInvariance, PTL DEF Spec

\* A slot is held by every execution and by nothing but records whose engine
\* thread has not gone, whatever limits change and writes fail: as long as no
\* manual start can hold a dict that a data-path switch has replaced.
THEOREM SlotsAlwaysMatch == StartsAreCurrent /\ Spec => []SlotsMatchThreads
<1>1. SlotInv => SlotsMatchThreads
  BY DEF SlotInv
<1> QED
  BY <1>1, SlotInvariance, PTL

-----------------------------------------------------------------------------
\* A delete keeps its automation closed: what executes is what it waits for,
\* what waits is what it has yet to end, and no other delete is at it.  Only
\* a step that outlives the kill grace is left behind.
DeleteInv ==
    /\ GraceExpires = FALSE => DeletedLeavesNothing
    /\ \A a \in Autos \ registered : Dict(a) \in deleting
    /\ \A w \in Threads : op[w] \in Deleting =>
          /\ on[w] \in registered /\ Dict(on[w]) \in deleting
          /\ Executing(on[w]) \subseteq waits[w]
          /\ op[w] = "stop_queued" => QueuedExecs(on[w]) \subseteq doomed[w]
          /\ op[w] = "stop_wait" => QueuedExecs(on[w]) = {}
          /\ \A v \in Threads : op[v] \in Deleting /\ on[v] = on[w] => v = w

\* A step that admits only to automations that no delete has closed, and
\* takes none off the list of a delete that still waits.
LEMMA DeleteFrame ==
  ASSUME DeleteInv, HoldInv, NEW w \in Threads, OthersStay(w),
         UNCHANGED <<registered, deleting, gen>>,
         \A r \in Recs : status'[r] \in {"queued", "executing"} =>
            \/ status'[r] = status[r] /\ owner'[r] = owner[r]
            \/ owner'[r] \in Autos /\ Dict(owner'[r]) \notin deleting,
         op'[w] \in Deleting =>
            /\ op'[w] = op[w] /\ on'[w] = on[w] /\ waits'[w] = waits[w]
            /\ op[w] = "stop_queued" =>
                  \A r \in doomed[w] : status'[r] = "queued" => r \in doomed'[w]
  PROVE  DeleteInv'
<1>1. GraceExpires = FALSE => DeletedLeavesNothing'
  BY DEF DeleteInv, DeletedLeavesNothing
<1>2. \A a \in Autos : Dict(a)' = Dict(a)
  BY DEF Dict
<1>3. (\A a \in Autos \ registered : Dict(a) \in deleting)'
  BY <1>2 DEF DeleteInv
<1>4. \A v \in Threads : op'[v] \in Deleting =>
         op'[v] = op[v] /\ on'[v] = on[v] /\ waits'[v] = waits[v]
  BY DEF OthersStay
<1>5. ASSUME NEW v \in Threads, op'[v] \in Deleting
      PROVE  /\ on'[v] \in registered /\ Dict(on[v])' \in deleting
             /\ Executing(on[v])' \subseteq waits'[v]
             /\ op'[v] = "stop_queued" => QueuedExecs(on[v])' \subseteq doomed'[v]
             /\ op'[v] = "stop_wait" => QueuedExecs(on[v])' = {}
             /\ \A u \in Threads : op'[u] \in Deleting /\ on'[u] = on'[v] => u = v
  <2>1. /\ op[v] \in Deleting /\ on'[v] = on[v] /\ waits'[v] = waits[v] /\ op'[v] = op[v]
        /\ on[v] \in registered /\ Dict(on[v]) \in deleting
        /\ Executing(on[v]) \subseteq waits[v]
        /\ op[v] = "stop_queued" => QueuedExecs(on[v]) \subseteq doomed[v]
        /\ op[v] = "stop_wait" => QueuedExecs(on[v]) = {}
        /\ \A u \in Threads : op[u] \in Deleting /\ on[u] = on[v] => u = v
    BY <1>4, <1>5 DEF DeleteInv
  <2>2. on[v] \in Autos
    BY <2>1, HoldFacts DEF TypeOK, AutosTypeOK
  <2>3. /\ Executing(on[v])' \subseteq Executing(on[v])
        /\ QueuedExecs(on[v])' \subseteq QueuedExecs(on[v])
    BY <2>1, <2>2 DEF Executing, QueuedExecs
  <2>4. op'[v] = "stop_queued" => QueuedExecs(on[v])' \subseteq doomed'[v]
    BY <1>5, <2>1, <2>3 DEF QueuedExecs, OthersStay
  <2> QED
    BY <1>2, <1>4, <2>1, <2>2, <2>3, <2>4
<1> QED
  BY <1>1, <1>3, <1>5 DEF DeleteInv

\* A delete goes on to its next stage.
LEMMA DeleteMoves ==
  ASSUME DeleteInv, HoldInv, NEW w \in Threads, OthersStay(w),
         UNCHANGED <<status, owner, registered, deleting, gen, waits>>, on'[w] = on[w],
         op[w] \in Deleting,
         op'[w] = "stop_queued" => QueuedExecs(on[w]) \subseteq doomed'[w],
         op'[w] = "stop_wait" => QueuedExecs(on[w]) = {}
  PROVE  DeleteInv'
<1>1. /\ GraceExpires = FALSE => DeletedLeavesNothing'
      /\ (\A a \in Autos \ registered : Dict(a) \in deleting)'
  BY DEF DeleteInv, DeletedLeavesNothing, Dict
<1>2. /\ \A a : Dict(a)' = Dict(a) /\ Executing(a)' = Executing(a) /\ QueuedExecs(a)' = QueuedExecs(a)
      /\ \A v \in Threads : on'[v] = on[v] /\ (op'[v] \in Deleting => op[v] \in Deleting)
  BY DEF Dict, Executing, QueuedExecs, OthersStay
<1>3. ASSUME NEW v \in Threads, op'[v] \in Deleting
      PROVE  /\ on[v] \in registered /\ Dict(on[v]) \in deleting
             /\ Executing(on[v]) \subseteq waits[v]
             /\ op'[v] = "stop_queued" => QueuedExecs(on[v]) \subseteq doomed'[v]
             /\ op'[v] = "stop_wait" => QueuedExecs(on[v]) = {}
             /\ \A u \in Threads : op'[u] \in Deleting /\ on[u] = on[v] => u = v
  BY <1>2, <1>3 DEF DeleteInv, OthersStay
<1> QED
  BY <1>1, <1>2, <1>3 DEF DeleteInv

\* A delete ends: its automation is gone, or open again.
LEMMA DeleteStops ==
  ASSUME DeleteInv, HoldInv, NEW w \in Threads, OthersStay(w), UNCHANGED <<owner, gen>>,
         op[w] \in Deleting, op'[w] \notin Deleting,
         \A r \in Recs : status'[r] \in {"queued", "executing"} => status'[r] = status[r],
         \/ /\ registered' = registered \ {on[w]} /\ UNCHANGED deleting
            /\ GraceExpires = FALSE => Executing(on[w]) = {} /\ QueuedExecs(on[w]) = {}
         \/ deleting' = deleting \ {Dict(on[w])} /\ UNCHANGED registered
  PROVE  DeleteInv'
<1>0. /\ on[w] \in registered /\ registered \subseteq Autos /\ Dict(on[w]) \in deleting
      /\ \A v \in Threads : op[v] \in Deleting /\ on[v] = on[w] => v = w
  BY HoldFacts DEF DeleteInv, TypeOK, AutosTypeOK
<1>1. GraceExpires = FALSE => DeletedLeavesNothing'
  <2> SUFFICES ASSUME GraceExpires = FALSE, NEW r \in Recs, status'[r] \in {"queued", "executing"}
               PROVE  owner[r] \in registered'
    BY DEF DeletedLeavesNothing
  <2>1. owner[r] \in registered /\ status[r] \in {"queued", "executing"}
    BY DEF DeleteInv, DeletedLeavesNothing
  <2> QED
    BY <2>1 DEF Executing, QueuedExecs
<1>2. \A a \in Autos : Dict(a)' = Dict(a) /\ (Dict(a) = Dict(on[w]) => a = on[w])
  BY DEF Dict
<1>3. ASSUME NEW a \in Autos, a \notin registered' PROVE Dict(a)' \in deleting'
  BY <1>0, <1>2, <1>3 DEF DeleteInv
<1>4. ASSUME NEW v \in Threads, op'[v] \in Deleting
      PROVE  /\ on'[v] \in registered' /\ Dict(on[v])' \in deleting'
             /\ Executing(on[v])' \subseteq waits'[v]
             /\ op'[v] = "stop_queued" => QueuedExecs(on[v])' \subseteq doomed'[v]
             /\ op'[v] = "stop_wait" => QueuedExecs(on[v])' = {}
             /\ \A u \in Threads : op'[u] \in Deleting /\ on'[u] = on'[v] => u = v
  <2>1. /\ v # w /\ op'[v] = op[v] /\ on'[v] = on[v] /\ doomed'[v] = doomed[v]
        /\ waits'[v] = waits[v]
    BY <1>4 DEF OthersStay
  <2>2. /\ on[v] \in registered /\ Dict(on[v]) \in deleting
        /\ Executing(on[v]) \subseteq waits[v]
        /\ op[v] = "stop_queued" => QueuedExecs(on[v]) \subseteq doomed[v]
        /\ op[v] = "stop_wait" => QueuedExecs(on[v]) = {}
        /\ \A u \in Threads : op[u] \in Deleting /\ on[u] = on[v] => u = v
    BY <1>4, <2>1 DEF DeleteInv
  <2>3. on[v] # on[w]
    BY <1>0, <1>4, <2>1
  <2>4. on'[v] \in registered' /\ Dict(on[v])' \in deleting'
    BY <1>0, <1>2, <2>1, <2>2, <2>3
  <2>5. /\ Executing(on[v])' \subseteq Executing(on[v])
        /\ QueuedExecs(on[v])' \subseteq QueuedExecs(on[v])
    BY <2>1 DEF Executing, QueuedExecs
  <2>6. \A u \in Threads : op'[u] \in Deleting /\ on'[u] = on'[v] => u = v
    BY <2>1, <2>2 DEF OthersStay
  <2> QED
    BY <2>1, <2>2, <2>4, <2>5, <2>6
<1> QED
  BY <1>1, <1>3, <1>4 DEF DeleteInv

LEMMA ThreadDeletes ==
  ASSUME NoSwitch, DeleteInv, HoldInv, TypeOK', NEW w \in Threads, ThreadNext(w)
  PROVE  DeleteInv'
<1>0. /\ OthersStay(w) /\ UNCHANGED gen /\ ThreadsTypeOK /\ ThreadsTypeOK'
      /\ status \in [Recs -> Statuses] /\ owner \in [Recs -> Autos \cup {NoAuto}]
      /\ registered \subseteq Autos /\ doomed[w] \subseteq Recs
  BY HoldFacts, ThreadStaysApart, ThreadKeepsGen DEF TypeOK, AutosTypeOK, ThreadsTypeOK
<1>h. on[w] \in Autos => Held(w) = Dict(on[w])
  BY HoldFacts DEF AdmitsToAuto, Held, Dict
<1>a. op[w] \in Admitting \cup {"retry"} => on[w] \in Autos
  BY HoldFacts DEF AdmitsToAuto
<1> USE DEF recVars, autoVars, engineVars, threadVars, Idle, Rests
<1>1. CASE FireVoid(w) \/ ManualRefused(w) \/ RetryRefused(w) \/ FinishQueuedLost(w)
           \/ CancelUnmatched(w)
  <2>1. /\ UNCHANGED <<status, owner, registered, deleting>>
        /\ op'[w] \notin Deleting
    BY <1>0, <1>1
    DEF ThreadsTypeOK, Deleting, FireVoid, ManualRefused, StartRaises, RetryRefused,
        FinishQueuedLost, Finishing, CancelUnmatched
  <2> QED
    BY <1>0, <2>1, DeleteFrame
<1>2. CASE Tell(w) \/ CancelLooks(w) \/ ExpireStale(w) \/ DrainEnds(w) \/ DrainDooms(w)
           \/ SweepKills(w) \/ SweepEnds(w)
  <2>1. /\ UNCHANGED <<status, owner, registered, deleting>>
        /\ op'[w] \in Deleting =>
              op'[w] = op[w] /\ on'[w] = on[w] /\ waits'[w] = waits[w] /\ doomed'[w] = doomed[w]
    BY <1>0, <1>2
    DEF ThreadsTypeOK, Deleting, Tell, CancelLooks, ExpireStale, DrainEnds, DrainDooms, Draining,
        SweepKills, SweepEnds
  <2> QED
    BY <1>0, <2>1, DeleteFrame
<1>3. ASSUME NEW s, NEW msg, NEW why, Create(on[w], s, msg, why), UNCHANGED <<registered, deleting>>,
             op'[w] = "idle", on[w] \in Autos,
             s \in {"queued", "executing"} => Dict(on[w]) \notin deleting
      PROVE  DeleteInv'
  <2>1. New \in Recs
    BY <1>3, NewIsUnmade, HoldFacts DEF Create
  <2>2. \A r \in Recs : status'[r] \in {"queued", "executing"} =>
           \/ status'[r] = status[r] /\ owner'[r] = owner[r]
           \/ owner'[r] \in Autos /\ Dict(owner'[r]) \notin deleting
    BY <1>0, <1>3, <2>1 DEF Create
  <2>3. op'[w] \notin Deleting
    BY <1>3 DEF Deleting
  <2> QED
    BY <1>0, <1>3, <2>2, <2>3, DeleteFrame
<1>4. CASE FireJoins(w) \/ FireSkips(w) \/ FireStarts(w)
  <2>1. on[w] \in Autos /\ op'[w] = "idle" /\ Dict(on[w]) \notin deleting
    BY <1>0, <1>a, <1>h, <1>4
    DEF ThreadsTypeOK, Admitting, FireJoins, FireSkips, FireStarts, Firing, FiringVoid
  <2>2. UNCHANGED <<registered, deleting>>
    BY <1>4 DEF FireJoins, FireSkips, FireStarts, StartNew, Launch
  <2> QED
    BY <1>3, <1>4, <2>1, <2>2 DEF FireJoins, FireSkips, FireStarts, StartNew
<1>5. CASE ManualJoins(w) \/ ManualStarts(w)
  <2>1. on[w] \in Autos /\ op'[w] = "idle" /\ Dict(on[w]) \notin deleting
    BY <1>0, <1>a, <1>h, <1>5
    DEF ThreadsTypeOK, Admitting, ManualJoins, ManualStarts, Manual, StartNew, Refused
  <2>2. UNCHANGED <<registered, deleting>>
    BY <1>5 DEF ManualJoins, ManualStarts, StartNew, Launch
  <2> QED
    BY <1>3, <1>5, <2>1, <2>2 DEF ManualJoins, ManualStarts, StartNew
<1>6. CASE FireRaises(w)
  <2>1. on[w] \in Autos /\ op'[w] = "idle" /\ UNCHANGED <<registered, deleting>>
    BY <1>0, <1>a, <1>6 DEF ThreadsTypeOK, Admitting, FireRaises, StartRaises, Firing
  <2>2. CASE UNCHANGED <<status, owner>>
    BY <1>0, <2>1, <2>2, DeleteFrame DEF Deleting
  <2> QED
    BY <1>3, <1>6, <2>1, <2>2 DEF FireRaises, StartRaises
<1>7. CASE RetryStarts(w)
  <2>1. PICK r \in doomed[w] :
           RetryAdmitted(w, r) /\ status' = [status EXCEPT ![r] = "executing"]
    BY <1>7 DEF RetryStarts
  <2>2. on[w] \in Autos /\ r \in Recs /\ owner[r] = on[w] /\ Dict(on[w]) \notin deleting
    BY <1>0, <1>a, <1>h, <1>7, <2>1, HoldFacts DEF RetryStarts, WorksOnOne, RetryAdmitted, Refused
  <2>3. op'[w] \notin Deleting /\ UNCHANGED <<owner, registered, deleting>>
    BY <1>0, <1>7 DEF RetryStarts, Launch, ThreadsTypeOK, Deleting
  <2> QED
    BY <1>0, <2>1, <2>2, <2>3, DeleteFrame
<1>8. CASE DrainPromotes(w) \/ DrainWriteFails(w) \/ DrainLaunchFails(w)
  <2>1. on[w] \in Autos /\ Dict(on[w]) \notin deleting
    BY <1>0, <1>8 DEF DrainPromotes, DrainWriteFails, DrainLaunchFails, CanPromote, Refused
  <2>2. op'[w] \notin Deleting /\ UNCHANGED <<owner, registered, deleting>>
    BY <1>0, <1>8
    DEF DrainPromotes, DrainWriteFails, DrainLaunchFails, FinishNeverRan, Launch, ThreadsTypeOK,
        Deleting, Draining
  <2>3. PICK r \in QueuedExecs(on[w]), s \in Statuses : status' = [status EXCEPT ![r] = s]
    BY <1>8
    DEF DrainPromotes, DrainWriteFails, DrainLaunchFails, FinishNeverRan, Heads, Statuses
  <2>4. r \in Recs /\ owner[r] = on[w]
    BY DEF QueuedExecs
  <2> QED
    BY <1>0, <2>1, <2>2, <2>3, <2>4, DeleteFrame
<1>9. CASE FinishQueued(w)
  <2>1. PICK r \in doomed[w] : /\ status' = [status EXCEPT ![r] = "skipped"]
                               /\ doomed' = [doomed EXCEPT ![w] = @ \ {r}]
    BY <1>9 DEF FinishQueued, FinishNeverRan
  <2>2. UNCHANGED <<owner, registered, deleting, op, on, waits>>
    BY <1>9 DEF FinishQueued, FinishNeverRan
  <2> QED
    BY <1>0, <2>1, <2>2, DeleteFrame DEF ThreadsTypeOK
<1>10. CASE StopLive(w) \/ StopPromoted(w)
  <2>1. UNCHANGED <<status, owner, registered, deleting, op, on, waits>>
    BY <1>10 DEF StopLive, StopPromoted
  <2>2. op[w] = "stop_queued" =>
           \A r \in doomed[w] : status'[r] = "queued" => r \in doomed'[w]
    BY <1>0, <1>10, <2>1 DEF StopLive, StopPromoted, ThreadsTypeOK
  <2> QED
    BY <1>0, <2>1, <2>2, DeleteFrame
<1>11. CASE SnapshotQueue(w) \/ FinishedAll(w)
  <2>1. UNCHANGED <<status, owner, registered, deleting, waits>>
    BY <1>11 DEF SnapshotQueue, FinishedAll
  <2>2. CASE op'[w] \notin Deleting
    BY <1>0, <2>1, <2>2, DeleteFrame
  <2>3. CASE op'[w] \in Deleting
    <3>1. /\ op[w] \in Deleting /\ on'[w] = on[w]
          /\ op'[w] = "stop_queued" => QueuedExecs(on[w]) \subseteq doomed'[w]
          /\ op'[w] = "stop_wait" => op[w] = "stop_queued" /\ doomed[w] = {}
      BY <1>0, <1>11, <2>3 DEF SnapshotQueue, FinishedAll, ThreadsTypeOK, Deleting
    <3>2. op'[w] = "stop_wait" => QueuedExecs(on[w]) = {}
      BY <3>1 DEF DeleteInv
    <3> QED
      BY <1>0, <2>1, <3>1, <3>2, DeleteMoves
  <2> QED
    BY <2>2, <2>3
<1>12. CASE RemoveAutomation(w)
  <2>1. /\ op[w] = "stop_wait" /\ op'[w] = "idle" /\ UNCHANGED <<status, owner, deleting>>
        /\ (\A r \in waits[w] : ~IsLive(r)) \/ GraceExpires
        /\ registered' = registered \ {on[w]}
    BY <1>0, <1>12 DEF RemoveAutomation, ThreadsTypeOK
  <2>2. QueuedExecs(on[w]) = {} /\ Executing(on[w]) \subseteq waits[w]
    BY <2>1 DEF DeleteInv, Deleting
  <2>3. GraceExpires = FALSE => Executing(on[w]) = {}
    BY <2>1, <2>2, HoldFacts DEF Executing, ThreadInv, ExecutingHasThread, IsLive
  <2> QED
    BY <1>0, <2>1, <2>2, <2>3, DeleteStops DEF Deleting
<1>13. CASE RemoveFails(w) \/ FinishQueuedRaises(w)
  <2>1. /\ op'[w] = "idle" /\ UNCHANGED <<owner, registered>>
        /\ \A r \in Recs : status'[r] \in {"queued", "executing"} => status'[r] = status[r]
    BY <1>0, <1>13 DEF RemoveFails, FinishQueuedRaises, FinishNeverRan, ThreadsTypeOK
  <2>2. CASE op[w] \in Deleting
    <3>1. on[w] \in Autos
      BY <1>0, <2>2 DEF DeleteInv
    <3>2. deleting' = deleting \ {Held(w)}
      BY <1>13, <2>2 DEF RemoveFails, FinishQueuedRaises, Finishing, Deleting
    <3> QED
      BY <1>0, <1>h, <2>1, <2>2, <3>1, <3>2, DeleteStops DEF Deleting
  <2>3. CASE op[w] \notin Deleting
    <3>1. UNCHANGED deleting
      BY <1>13, <2>3 DEF RemoveFails, FinishQueuedRaises, Finishing, Deleting
    <3> QED
      BY <1>0, <2>1, <3>1, DeleteFrame DEF Deleting
  <2> QED
    BY <2>2, <2>3
<1> QED
  BY <1>1, <1>2, <1>4, <1>5, <1>6, <1>7, <1>8, <1>9, <1>10, <1>11, <1>12, <1>13
  DEF ThreadNext

LEMMA RequestDeletes ==
  ASSUME NoSwitch, DeleteInv, SlotInv, HoldInv, TypeOK', NEW w \in Threads, RequestNext(w)
  PROVE  DeleteInv'
<1>0. /\ OthersStay(w) /\ UNCHANGED <<gen, registered, recVars>> /\ ThreadsTypeOK
      /\ registered \subseteq Autos
  BY HoldFacts, RequestStaysApart, RequestKeepsGen, RequestRecordsStay DEF TypeOK, AutosTypeOK
<1>1. CASE op'[w] \notin Deleting /\ UNCHANGED deleting
  BY <1>0, <1>1, DeleteFrame DEF recVars
<1>2. ASSUME NEW a \in Autos, RequestDelete(w, a) PROVE DeleteInv'
  <2>1. /\ op'[w] = "stop_live" /\ on'[w] = a /\ a \in registered
        /\ deleting' = deleting \cup {Dict(a)} /\ Dict(a) \notin deleting
        /\ waits'[w] = slots[Dict(a)] /\ UNCHANGED <<status, owner>>
    BY <1>0, <1>2 DEF RequestDelete, Begins, ThreadsTypeOK, recVars
  <2>2. Executing(a) \subseteq waits'[w]
    BY <2>1 DEF SlotInv, SlotsMatchThreads
  <2>3. /\ GraceExpires = FALSE => DeletedLeavesNothing'
        /\ (\A b \in Autos \ registered : Dict(b) \in deleting)'
    BY <1>0, <2>1 DEF DeleteInv, DeletedLeavesNothing, Dict
  <2>4. /\ \A b : Dict(b)' = Dict(b) /\ Executing(b)' = Executing(b)
                   /\ QueuedExecs(b)' = QueuedExecs(b)
    BY <1>0, <2>1 DEF Dict, Executing, QueuedExecs
  <2>5. \A v \in Threads : op[v] \in Deleting => on[v] # a
    BY <2>1 DEF DeleteInv
  <2>6. ASSUME NEW v \in Threads, op'[v] \in Deleting
        PROVE  /\ on'[v] \in registered /\ Dict(on'[v]) \in deleting'
               /\ Executing(on'[v]) \subseteq waits'[v]
               /\ op'[v] = "stop_queued" => QueuedExecs(on'[v]) \subseteq doomed'[v]
               /\ op'[v] = "stop_wait" => QueuedExecs(on'[v]) = {}
               /\ \A u \in Threads : op'[u] \in Deleting /\ on'[u] = on'[v] => u = v
    <3>1. CASE v = w
      <4>1. \A u \in Threads \ {w} : op'[u] \in Deleting => on'[u] # a
        BY <1>0, <2>5 DEF OthersStay
      <4> QED
        BY <2>1, <2>2, <3>1, <4>1
    <3>2. CASE v # w
      <4>1. /\ op[v] \in Deleting /\ op'[v] = op[v] /\ on'[v] = on[v] /\ waits'[v] = waits[v]
            /\ doomed'[v] = doomed[v]
        BY <1>0, <2>6, <3>2 DEF OthersStay
      <4>2. /\ on[v] \in registered /\ Dict(on[v]) \in deleting
            /\ Executing(on[v]) \subseteq waits[v]
            /\ op[v] = "stop_queued" => QueuedExecs(on[v]) \subseteq doomed[v]
            /\ op[v] = "stop_wait" => QueuedExecs(on[v]) = {}
            /\ \A u \in Threads : op[u] \in Deleting /\ on[u] = on[v] => u = v
        BY <4>1 DEF DeleteInv
      <4>3. \A u \in Threads : op'[u] \in Deleting /\ on'[u] = on'[v] => u = v
        BY <1>0, <2>1, <2>5, <4>1, <4>2 DEF OthersStay
      <4> QED
        BY <2>1, <4>1, <4>2, <4>3
    <3> QED
      BY <3>1, <3>2
  <2> QED
    BY <1>0, <2>3, <2>4, <2>6 DEF DeleteInv
<1> USE <1>0 DEF ThreadsTypeOK, Begins, Deleting, autoVars
<1>3. CASE KillAllLive(w)
  BY <1>1, <1>3 DEF KillAllLive
<1>4. ASSUME NEW r \in Recs, RequestRetry(w, r) \/ RequestCancel(w, r) PROVE DeleteInv'
  BY <1>1, <1>4 DEF RequestRetry, RequestCancel
<1>5. ASSUME NEW a \in Autos, NEW k \in TriggerKinds, CollectFiring(w, a, k) PROVE DeleteInv'
  BY <1>1, <1>5 DEF CollectFiring
<1>6. ASSUME NEW a \in Autos, NEW o \in {"start", "queue"}, RequestStart(w, a, o)
      PROVE  DeleteInv'
  BY <1>1, <1>6 DEF RequestStart
<1>7. ASSUME NEW a \in Autos, RequestClear(w, a) \/ PatchLimits(w, a) \/ PatchTriggers(w, a)
      PROVE  DeleteInv'
  BY <1>1, <1>7 DEF RequestClear, PatchLimits, PatchTriggers
<1> QED
  BY <1>2, <1>3, <1>4, <1>5, <1>6, <1>7 DEF RequestNext

LEMMA DeleteInvariance == NoSwitch /\ Spec => []DeleteInv
<1> SUFFICES ASSUME NoSwitch PROVE Spec => []DeleteInv
  OBVIOUS
<1>1. Init => DeleteInv
  BY DEF Init, DeleteInv, DeletedLeavesNothing, Deleting
<1>2. HoldInv /\ SlotInv /\ TypeOK' /\ DeleteInv /\ [Next]_vars => DeleteInv'
  <2> SUFFICES ASSUME HoldInv, SlotInv, TypeOK', DeleteInv, [Next]_vars PROVE DeleteInv'
    OBVIOUS
  <2>0. TypeOK /\ LiveHasRun /\ ThreadsTypeOK /\ Ticker \in Threads
        /\ status \in [Recs -> Statuses]
    BY HoldFacts DEF TypeOK, Threads
  <2>1. ASSUME NEW w \in Threads, ThreadNext(w) PROVE DeleteInv'
    BY <2>1, ThreadDeletes
  <2>2. ASSUME NEW w \in Threads, RequestNext(w) PROVE DeleteInv'
    BY <2>2, RequestDeletes
  <2>3. ASSUME NEW r \in Recs, EngineNext(r) \/ WaitsTooLong(r) PROVE DeleteInv'
    <3>1. OthersStay(r) /\ r \in Threads
      BY <2>0, <2>3, EngineStaysApart DEF Threads
    <3>2. /\ UNCHANGED <<registered, deleting, gen, owner>>
          /\ \A q \in Recs : status'[q] \in {"queued", "executing"} => status'[q] = status[q]
      BY <2>0, <2>3
      DEF EngineNext, Decide, Settle, SettleFails, Release, WaitsTooLong, FreeSlot, autoVars,
          recVars
    <3>3. op'[r] \in Deleting => UNCHANGED threadVars
      <4>1. CASE Release(r)
        BY <2>0, <3>1, <4>1 DEF Release, Begins, ThreadsTypeOK, Deleting
      <4> QED
        BY <2>3, <4>1 DEF EngineNext, Decide, Settle, SettleFails, WaitsTooLong
    <3> QED
      BY <3>1, <3>2, <3>3, DeleteFrame DEF threadVars
  <2>4. CASE UNCHANGED vars
    <3>1. OthersStay(Ticker) /\ UNCHANGED <<status, owner, registered, deleting, gen>>
          /\ UNCHANGED threadVars
      BY <2>4 DEF vars, recVars, autoVars, threadVars, OthersStay
    <3> QED
      BY <2>0, <3>1, DeleteFrame DEF threadVars
  <2>5. ASSUME NEW a \in Autos, TickDrains(a) PROVE DeleteInv'
    <3>1. OthersStay(Ticker) /\ UNCHANGED <<status, owner, registered, deleting, gen>>
          /\ op'[Ticker] = "enter"
      BY <2>0, <2>5 DEF TickDrains, Begins, recVars, autoVars, OthersStay, ThreadsTypeOK
    <3> QED
      BY <2>0, <3>1, DeleteFrame DEF Deleting
  <2>6. ~SetDataPath
    BY DEF SetDataPath, NoSwitch
  <2> QED
    BY <2>1, <2>2, <2>3, <2>4, <2>5, <2>6 DEF Next, Threads
<1>3. HoldInv => TypeOK
  BY HoldFacts
<1>4. StartsAreCurrent
  BY DEF StartsAreCurrent
<1> QED
  BY <1>1, <1>2, <1>3, <1>4, HoldInvariance, SlotInvariance, PTL DEF Spec

\* Nothing gets lost on its way through the queue, and a deleted automation
\* leaves nothing behind, whatever admissions, cancels and retries race with
\* the delete: as long as no step outlives the kill grace, and no data-path
\* switch replaces the dict whose _deleting flag the delete set.
THEOREM QueueAlwaysAccounted == NoSwitch /\ GraceExpires = FALSE /\ Spec => []QueueIsAccounted
<1> SUFFICES ASSUME NoSwitch, GraceExpires = FALSE PROVE Spec => []QueueIsAccounted
  OBVIOUS
<1>1. StartsAreCurrent
  BY DEF StartsAreCurrent
<1>2. DroppedIsAnsweredOnce /\ SlotsMatchThreads /\ DeleteInv => QueueIsAccounted
  BY DEF QueueIsAccounted, DeleteInv
<1> QED
  BY <1>1, <1>2, DroppedAnsweredOnce, SlotsAlwaysMatch, DeleteInvariance, PTL

-----------------------------------------------------------------------------
\* Where an entry waits to be ended by a thread.
Ending == {"unmatch", "drain", "clear", "leave", "stop_queued"}

\* A step that lets no thread forget an entry it was about to end.
LEMMA EditFrame ==
  ASSUME UnmatchedIsDoomed, NEW w \in Threads, OthersStay(w), registered' \subseteq registered,
         UNCHANGED enabled,
         \A r \in Recs : status'[r] = "queued" /\ payload'[r] =>
            \/ status[r] = "queued" /\ payload[r] /\ owner'[r] = owner[r]
            \/ "message" \in enabled[owner'[r]],
         op[w] = "patched" => op'[w] = "patched" /\ on'[w] = on[w],
         op[w] \in Ending => \A r \in doomed[w] : status'[r] = "queued" =>
                                op'[w] \in Ending /\ r \in doomed'[w]
  PROVE  UnmatchedIsDoomed'
<1> SUFFICES ASSUME NEW r \in Recs, status'[r] = "queued", payload'[r],
                    owner'[r] \in registered', "message" \notin enabled[owner'[r]]
             PROVE  \E v \in Threads : \/ op'[v] = "patched" /\ on'[v] = owner'[r]
                                       \/ op'[v] \in Ending /\ r \in doomed'[v]
  BY DEF UnmatchedIsDoomed, Ending
<1>1. status[r] = "queued" /\ payload[r] /\ owner'[r] = owner[r] /\ owner[r] \in registered
  OBVIOUS
<1>2. PICK v \in Threads : \/ op[v] = "patched" /\ on[v] = owner[r]
                           \/ op[v] \in Ending /\ r \in doomed[v]
  BY <1>1 DEF UnmatchedIsDoomed, Ending
<1>3. CASE v = w
  BY <1>1, <1>2, <1>3
<1>4. CASE v # w
  BY <1>1, <1>2, <1>4 DEF OthersStay
<1> QED
  BY <1>3, <1>4

LEMMA ThreadEdits ==
  ASSUME "write" \notin Faults, UnmatchedIsDoomed, HoldInv, TypeOK', NEW w \in Threads,
         ThreadNext(w)
  PROVE  UnmatchedIsDoomed'
<1>0. /\ OthersStay(w) /\ UNCHANGED enabled /\ ThreadsTypeOK /\ WorksOnOne(w)
      /\ status \in [Recs -> Statuses] /\ payload \in [Recs -> BOOLEAN]
  BY HoldFacts, ThreadStaysApart, ThreadKeepsGen DEF TypeOK, RecsTypeOK
<1> USE DEF recVars, autoVars, engineVars, threadVars, Idle, Rests, Ending
<1>1. ASSUME UNCHANGED <<status, payload, owner>>, registered' \subseteq registered,
             op[w] = "patched" => op'[w] = "patched" /\ on'[w] = on[w],
             op[w] \in Ending => \A r \in doomed[w] : status[r] = "queued" =>
                                   op'[w] \in Ending /\ r \in doomed'[w]
      PROVE  UnmatchedIsDoomed'
  BY <1>0, <1>1, EditFrame
<1>2. CASE FireVoid(w) \/ ManualRefused(w) \/ RetryRefused(w) \/ SnapshotQueue(w) \/ RemoveAutomation(w)
           \/ RemoveFails(w) \/ SweepKills(w) \/ SweepEnds(w) \/ StopLive(w)
  BY <1>1, <1>2
  DEF FireVoid, Firing, ManualRefused, Manual, StartRaises, RetryRefused, SnapshotQueue, RemoveAutomation,
      RemoveFails, SweepKills, SweepEnds, StopLive
<1>3. CASE Tell(w) \/ CancelLooks(w) \/ ExpireStale(w) \/ DrainEnds(w) \/ DrainDooms(w)
  BY <1>0, <1>1, <1>3
  DEF Tell, CancelLooks, ExpireStale, DrainEnds, DrainDooms, Draining, ThreadsTypeOK
<1>4. CASE FinishedAll(w)
  BY <1>0, <1>1, <1>4 DEF FinishedAll
<1>5. CASE StopPromoted(w)
  BY <1>0, <1>1, <1>5 DEF StopPromoted, ThreadsTypeOK
<1>6. CASE FinishQueuedLost(w)
  <2>1. PICK r \in doomed[w] :
           /\ status[r] # "queued"
           /\ doomed' = [doomed EXCEPT ![w] = IF op[w] = "leave" THEN @ ELSE @ \ {r}]
    BY <1>6 DEF FinishQueuedLost
  <2>2. op'[w] = (IF op[w] = "leave" THEN "cancel" ELSE op[w])
        /\ UNCHANGED <<status, payload, owner, registered, on>>
    BY <1>0, <1>6 DEF FinishQueuedLost, ThreadsTypeOK
  <2>3. op[w] = "leave" => \A q \in doomed[w] : q = r
    BY <1>0 DEF WorksOnOne
  <2> QED
    BY <1>0, <1>1, <2>1, <2>2, <2>3 DEF ThreadsTypeOK
<1>7. CASE FinishQueuedRaises(w) \/ DrainWriteFails(w)
  BY <1>7 DEF FinishQueuedRaises, DrainWriteFails
<1>8. CASE CancelUnmatched(w)
  <2> SUFFICES ASSUME NEW r \in Recs, status[r] = "queued", payload[r], owner[r] \in registered,
                      "message" \notin enabled[owner[r]]
               PROVE  \E v \in Threads : \/ op'[v] = "patched" /\ on'[v] = owner[r]
                                         \/ op'[v] \in Ending /\ r \in doomed'[v]
    BY <1>8 DEF CancelUnmatched, UnmatchedIsDoomed
  <2>1. PICK v \in Threads : \/ op[v] = "patched" /\ on[v] = owner[r]
                             \/ op[v] \in Ending /\ r \in doomed[v]
    BY DEF UnmatchedIsDoomed
  <2>2. CASE v = w
    <3>1. on[w] = owner[r] /\ op'[w] = "unmatch"
      BY <1>0, <1>8, <2>1, <2>2 DEF CancelUnmatched, ThreadsTypeOK
    <3>2. r \in doomed'[w]
      BY <1>0, <1>8, <3>1 DEF CancelUnmatched, ThreadsTypeOK, QueuedExecs
    <3> QED
      BY <3>1, <3>2
  <2>3. CASE v # w
    BY <1>0, <2>1, <2>3 DEF OthersStay
  <2> QED
    BY <2>2, <2>3
<1>9. ASSUME NEW a, NEW t, NEW msg \in BOOLEAN, NEW why, Create(a, t, msg, why),
             UNCHANGED registered, op[w] \notin Ending \cup {"patched"},
             t = "queued" /\ msg = TRUE => "message" \in enabled[a]
      PROVE  UnmatchedIsDoomed'
  <2>1. New \in Recs /\ status[New] = "none"
    BY <1>9, NewIsUnmade, HoldFacts DEF Create
  <2>2. ASSUME NEW r \in Recs, status'[r] = "queued", payload'[r]
        PROVE  \/ status[r] = "queued" /\ payload[r] /\ owner'[r] = owner[r]
               \/ "message" \in enabled[owner'[r]]
    <3>1. CASE r # New
      <4>1. status'[r] = status[r] /\ owner'[r] = owner[r] /\ payload'[r] = payload[r]
        BY <1>0, <1>9, <3>1, HoldFacts DEF Create
      <4> QED
        BY <2>2, <4>1
    <3>2. CASE r = New
      <4>1. t = "queued" /\ msg = payload'[r] /\ owner'[r] = a
        BY <1>0, <1>9, <2>1, <2>2, <3>2, HoldFacts DEF Create
      <4> QED
        BY <1>9, <2>2, <4>1
    <3> QED
      BY <3>1, <3>2
  <2> QED
    BY <1>0, <1>9, <2>2, EditFrame
<1>10. CASE FireJoins(w) \/ FireSkips(w) \/ FireRaises(w)
  <2>1. op[w] \notin Ending \cup {"patched"} /\ UNCHANGED registered
    BY <1>10 DEF FireJoins, FireSkips, FireRaises, StartRaises, Firing
  <2>2. CASE UNCHANGED <<status, payload, owner>>
    BY <1>0, <1>1, <2>1, <2>2
  <2>3. FireJoins(w) => "message" \in enabled[on[w]]
    BY DEF FireJoins, FiringVoid, FiringKind
  <2> QED
    BY <1>9, <1>10, <2>1, <2>2, <2>3
    DEF FireJoins, FireSkips, FireRaises, StartRaises, IsMessage
<1>11. CASE FireStarts(w) \/ ManualStarts(w) \/ ManualJoins(w)
  <2>1. op[w] \notin Ending \cup {"patched"} /\ UNCHANGED registered
    BY <1>11
    DEF FireStarts, ManualStarts, ManualJoins, StartNew, Launch, Firing, Manual
  <2> QED
    BY <1>9, <1>11, <2>1 DEF FireStarts, ManualStarts, ManualJoins, StartNew, IsMessage
<1>12. CASE RetryStarts(w)
  <2>1. op[w] = "retry" /\ UNCHANGED <<owner, payload, registered>>
        /\ \A r \in Recs : status'[r] = "queued" => status[r] = "queued"
    BY <1>0, <1>12, HoldFacts DEF RetryStarts, Launch
  <2> QED
    BY <1>0, <2>1, EditFrame
<1>13. CASE FinishQueued(w)
  <2>1. PICK r \in doomed[w] : /\ FinishNeverRan(r, "left")
                               /\ doomed' = [doomed EXCEPT ![w] = @ \ {r}]
    BY <1>13 DEF FinishQueued
  <2>2. UNCHANGED <<owner, payload, registered, op, on>> /\ r \in Recs
    BY <1>0, <1>13, <2>1 DEF FinishQueued, FinishNeverRan, ThreadsTypeOK
  <2>3. status'[r] # "queued" /\ \A q \in Recs : status'[q] = "queued" => status[q] = "queued"
    BY <1>0, <2>1, <2>2 DEF FinishNeverRan
  <2> QED
    BY <1>0, <2>1, <2>2, <2>3, EditFrame DEF ThreadsTypeOK
<1>14. CASE DrainPromotes(w) \/ DrainLaunchFails(w)
  <2>1. /\ UNCHANGED <<owner, payload, registered, op, on, doomed>> /\ doomed[w] = {}
        /\ op[w] = "drain"
        /\ \A r \in Recs : status'[r] = "queued" => status[r] = "queued"
    BY <1>0, <1>14 DEF DrainPromotes, DrainLaunchFails, Draining, Launch, Heads, QueuedExecs
  <2> QED
    BY <1>0, <2>1, EditFrame
<1> QED
  BY <1>2, <1>3, <1>4, <1>5, <1>6, <1>7, <1>8, <1>10, <1>11, <1>12, <1>13, <1>14
  DEF ThreadNext

LEMMA RequestEdits ==
  ASSUME UnmatchedIsDoomed, HoldInv, TypeOK', NEW w \in Threads, RequestNext(w)
  PROVE  UnmatchedIsDoomed'
<1>0. /\ OthersStay(w) /\ UNCHANGED <<recVars, registered>> /\ op[w] = "idle" /\ ThreadsTypeOK
      /\ enabled \in [Autos -> SUBSET TriggerKinds]
  BY HoldFacts, RequestStaysApart, RequestKeepsGen, RequestBegins DEF TypeOK, AutosTypeOK
<1>1. CASE UNCHANGED enabled
  BY <1>0, <1>1, EditFrame DEF recVars, Ending
<1>2. ASSUME NEW a \in Autos, PatchTriggers(w, a) PROVE UnmatchedIsDoomed'
  <2>0. /\ op'[w] = "patched" /\ on'[w] = a
        /\ \A b \in Autos \ {a} : enabled'[b] = enabled[b]
        /\ UNCHANGED <<status, payload, owner, registered>> /\ registered \subseteq Autos
    BY <1>0, <1>2, HoldFacts DEF PatchTriggers, Begins, ThreadsTypeOK, recVars, TypeOK, AutosTypeOK
  <2> SUFFICES ASSUME NEW r \in Recs, status[r] = "queued", payload[r], owner[r] \in registered,
                      "message" \notin enabled'[owner[r]]
               PROVE  \E v \in Threads : \/ op'[v] = "patched" /\ on'[v] = owner[r]
                                         \/ op'[v] \in Ending /\ r \in doomed'[v]
    BY <2>0 DEF UnmatchedIsDoomed, Ending
  <2>1. CASE owner[r] = a
    BY <2>0, <2>1
  <2>2. CASE owner[r] # a
    <3>1. PICK v \in Threads : \/ op[v] = "patched" /\ on[v] = owner[r]
                               \/ op[v] \in Ending /\ r \in doomed[v]
      BY <2>0, <2>2 DEF UnmatchedIsDoomed, Ending
    <3>2. v # w
      BY <1>0, <3>1 DEF Ending
    <3> QED
      BY <1>0, <3>1, <3>2 DEF OthersStay
  <2> QED
    BY <2>1, <2>2
<1> QED
  BY <1>1, <1>2
  DEF RequestNext, CollectFiring, RequestStart, RequestClear, PatchLimits, RequestDelete,
      RequestRetry, RequestCancel, KillAllLive, autoVars

\* An entry that no enabled trigger would admit any more does not stay behind,
\* as long as no write fails: a failed write ends the handler that was about to
\* end the entry.
THEOREM UnmatchedEnds == "write" \notin Faults /\ Spec => []UnmatchedIsDoomed
<1> SUFFICES ASSUME "write" \notin Faults PROVE Spec => []UnmatchedIsDoomed
  OBVIOUS
<1>1. Init => UnmatchedIsDoomed
  BY DEF Init, UnmatchedIsDoomed
<1>2. HoldInv /\ TypeOK' /\ UnmatchedIsDoomed /\ [Next]_vars => UnmatchedIsDoomed'
  <2> SUFFICES ASSUME HoldInv, TypeOK', UnmatchedIsDoomed, [Next]_vars
               PROVE  UnmatchedIsDoomed'
    OBVIOUS
  <2>0. TypeOK /\ ThreadsTypeOK /\ LiveHasRun /\ Ticker \in Threads
        /\ status \in [Recs -> Statuses]
    BY HoldFacts DEF TypeOK, Threads
  <2>1. ASSUME NEW w \in Threads, ThreadNext(w) PROVE UnmatchedIsDoomed'
    BY <2>1, ThreadEdits
  <2>2. ASSUME NEW w \in Threads, RequestNext(w) PROVE UnmatchedIsDoomed'
    BY <2>2, RequestEdits
  <2>3. ASSUME NEW r \in Recs, EngineNext(r) \/ WaitsTooLong(r) PROVE UnmatchedIsDoomed'
    <3>1. OthersStay(r) /\ r \in Threads
      BY <2>0, <2>3, EngineStaysApart DEF Threads
    <3>2. /\ UNCHANGED <<owner, payload, registered, enabled>>
          /\ \A q \in Recs : status'[q] = "queued" => status[q] = "queued"
      BY <2>0, <2>3
      DEF EngineNext, Decide, Settle, SettleFails, Release, WaitsTooLong, FreeSlot, autoVars,
          recVars
    <3>3. op[r] = "idle" \/ UNCHANGED threadVars
      BY <2>3
      DEF EngineNext, Decide, Settle, SettleFails, Release, WaitsTooLong, Begins
    <3> QED
      BY <3>1, <3>2, <3>3, EditFrame DEF threadVars, Ending
  <2>4. CASE UNCHANGED vars \/ SetDataPath
    <3>1. OthersStay(Ticker) /\ UNCHANGED <<status, payload, owner, registered, enabled>>
          /\ UNCHANGED threadVars
      BY <2>4 DEF vars, SetDataPath, recVars, autoVars, threadVars, OthersStay
    <3> QED
      BY <2>0, <3>1, EditFrame DEF threadVars, Ending
  <2>5. ASSUME NEW a \in Autos, TickDrains(a) PROVE UnmatchedIsDoomed'
    <3>1. OthersStay(Ticker) /\ UNCHANGED <<status, payload, owner, registered, enabled>>
          /\ op[Ticker] = "idle"
      BY <2>0, <2>5 DEF TickDrains, Begins, recVars, autoVars, OthersStay, ThreadsTypeOK
    <3> QED
      BY <2>0, <3>1, EditFrame DEF Ending
  <2> QED
    BY <2>1, <2>2, <2>3, <2>4, <2>5 DEF Next, Threads
<1>3. HoldInv => TypeOK
  BY HoldFacts
<1> QED
  BY <1>1, <1>2, <1>3, HoldInvariance, PTL DEF Spec

\* What raises a cancel flag is a cancel, or a delete.
LEMMA OnlyCancels ==
  ASSUME HoldInv, [Next]_vars, NEW r \in Recs, "cancel" \in flags'[r], "cancel" \notin flags[r]
  PROVE  \E w \in Handlers : op[w] \in {"cancel", "stop_live", "stop_queued"} /\ r \in doomed[w]
<1>0. flags \in [Recs -> SUBSET FlagKinds] /\ TypeOK
  BY HoldFacts DEF TypeOK, EngineTypeOK
<1>1. ASSUME NEW w \in Threads, NEW q \in doomed[w], Flag(q, "cancel"),
             op[w] \in {"cancel", "stop_live", "stop_queued"}
      PROVE  \E v \in Handlers : op[v] \in {"cancel", "stop_live", "stop_queued"} /\ r \in doomed[v]
  <2>1. q = r
    BY <1>0, <1>1 DEF Flag
  <2>2. w \in Handlers
    BY <1>1, HoldFacts DEF WorksOnOne, Deleting
  <2> QED
    BY <1>1, <2>1, <2>2
<1>2. ~UNCHANGED flags
  OBVIOUS
<1>3. ASSUME NEW d, NEW q, NEW c, Launch(d, q, c) PROVE FALSE
  BY <1>0, <1>3 DEF Launch
<1>4. ASSUME NEW w \in Threads, ThreadNext(w)
      PROVE  \E v \in Handlers : op[v] \in {"cancel", "stop_live", "stop_queued"} /\ r \in doomed[v]
  <2> USE DEF engineVars
  <2>1. CASE CancelLooks(w) \/ StopLive(w) \/ StopPromoted(w)
    BY <1>1, <1>2, <2>1 DEF CancelLooks, StopLive, StopPromoted
  <2>2. ~SweepKills(w)
    BY <1>0 DEF SweepKills, Flag
  <2>3. ~FireVoid(w) /\ ~FireJoins(w) /\ ~FireSkips(w) /\ ~FireStarts(w) /\ ~FireRaises(w)
        /\ ~ManualStarts(w) /\ ~ManualRefused(w) /\ ~ManualJoins(w)
    BY <1>2, <1>3
    DEF FireVoid, FireJoins, FireSkips, FireStarts, FireRaises, StartRaises, ManualStarts,
        ManualRefused, ManualJoins, StartNew
  <2>4. ~RetryStarts(w) /\ ~RetryRefused(w) /\ ~FinishQueued(w) /\ ~FinishQueuedLost(w)
        /\ ~FinishQueuedRaises(w) /\ ~Tell(w) /\ ~FinishedAll(w) /\ ~CancelUnmatched(w)
    BY <1>2, <1>3
    DEF RetryStarts, RetryRefused, FinishQueued, FinishQueuedLost, FinishQueuedRaises, Tell,
        FinishedAll, CancelUnmatched
  <2>5. ~ExpireStale(w) /\ ~DrainEnds(w) /\ ~DrainPromotes(w) /\ ~DrainDooms(w)
        /\ ~DrainWriteFails(w) /\ ~DrainLaunchFails(w) /\ ~SnapshotQueue(w) /\ ~RemoveAutomation(w)
        /\ ~RemoveFails(w) /\ ~SweepEnds(w)
    BY <1>2, <1>3
    DEF ExpireStale, DrainEnds, DrainPromotes, DrainDooms, DrainWriteFails, DrainLaunchFails,
        SnapshotQueue, RemoveAutomation, RemoveFails, SweepEnds
  <2> QED
    BY <1>4, <2>1, <2>2, <2>3, <2>4, <2>5 DEF ThreadNext
<1>5. ASSUME NEW q \in Recs PROVE ~EngineNext(q) /\ ~WaitsTooLong(q)
  BY <1>0, <1>2 DEF EngineNext, Decide, Settle, SettleFails, Release, WaitsTooLong, engineVars
<1>6. ASSUME NEW w PROVE ~RequestNext(w)
  BY <1>2
  DEF RequestNext, CollectFiring, RequestStart, RequestClear, PatchLimits, PatchTriggers,
      RequestDelete, RequestRetry, RequestCancel, KillAllLive, engineVars
<1>7. ~(UNCHANGED vars) /\ ~SetDataPath /\ (\A a \in Autos : ~TickDrains(a))
  BY <1>2 DEF SetDataPath, TickDrains, vars, engineVars
<1> QED
  BY <1>4, <1>5, <1>6, <1>7 DEF Next

\* A cancel is raised only by a request to cancel that record or by the delete
\* of its automation, never by a clear or an edit that found it waiting
\* (api.py, queue/clear and PATCH).
THEOREM OnlyCancelsEver == Spec => OnlyCancelsCancel
<1>1. HoldInv /\ [Next]_vars =>
        [\A r \in Recs :
           "cancel" \in flags'[r] \ flags[r]
           => \E w \in Handlers : op[w] \in {"cancel", "stop_live", "stop_queued"}
                                  /\ r \in doomed[w]]_vars
  BY OnlyCancels
<1> QED
  BY <1>1, HoldInvariance, PTL DEF Spec, OnlyCancelsCancel

\* An edit of the triggers reaches every entry it leaves without one, and
\* nothing but what waits; slots match executions whatever the limits become.
THEOREM EditsAlwaysReach ==
  StartsAreCurrent /\ "write" \notin Faults /\ Spec => EditsReachTheQueue
<1> SUFFICES ASSUME StartsAreCurrent, "write" \notin Faults PROVE Spec => EditsReachTheQueue
  OBVIOUS
<1> QED
  BY UnmatchedEnds, SlotsAlwaysMatch, OnlyCancelsEver, PTL DEF EditsReachTheQueue

-----------------------------------------------------------------------------
(***************************************************************************)
(* What a cancel and a shutdown stop.                                      *)
(***************************************************************************)
\* The step with which a cancel is done with its record.
LEMMA CancelDone ==
  ASSUME HoldInv, [Next]_vars, NEW w \in Handlers, NEW r \in doomed[w],
         op[w] \in {"cancel", "leave"}, doomed'[w] = {}
  PROVE  status'[r] # "queued" /\ (status'[r] = "executing" => "cancel" \in flags'[r])
<1>0. /\ TypeOK /\ ThreadsTypeOK /\ w \in Threads /\ r \in Recs /\ ExecutingHasThread
      /\ status \in [Recs -> Statuses] /\ flags \in [Recs -> SUBSET FlagKinds]
      /\ \A q \in doomed[w] : q = r
  BY HoldFacts DEF TypeOK, ThreadsTypeOK, EngineTypeOK, Threads, WorksOnOne, ThreadInv
<1>1. ASSUME NEW v \in Threads \ {w} PROVE ~OthersStay(v)
  BY <1>0 DEF OthersStay
<1>2. ThreadNext(w)
  <2>1. ASSUME NEW v \in Threads, ThreadNext(v) PROVE v = w
    BY <1>0, <1>1, <2>1, ThreadStaysApart
  <2>2. ASSUME NEW v \in Handlers \cup {Ticker} PROVE ~RequestNext(v)
    BY <1>0, <1>1, RequestBegins, RequestStaysApart DEF Threads
  <2>3. ASSUME NEW q \in Recs PROVE ~EngineNext(q) /\ ~WaitsTooLong(q)
    BY <1>0, <1>1, EngineStaysApart, ThreadAssumption DEF ThreadAssumption, Threads
  <2>4. ~(UNCHANGED vars) /\ ~SetDataPath /\ (\A a \in Autos : ~TickDrains(a))
    BY DEF vars, SetDataPath, TickDrains, threadVars
  <2> QED
    BY <2>1, <2>2, <2>3, <2>4 DEF Next
<1>3. CASE CancelLooks(w)
  BY <1>0, <1>3 DEF CancelLooks, recVars, Flag, ExecutingHasThread
<1>4. CASE FinishQueued(w) \/ FinishQueuedRaises(w)
  BY <1>0, <1>4 DEF FinishQueued, FinishQueuedRaises, FinishNeverRan
<1>5. ~FinishQueuedLost(w) /\ ~Tell(w) /\ ~FinishedAll(w)
  <2>1. doomed'[w] # doomed[w]
    OBVIOUS
  <2>2. ~Tell(w) /\ ~FinishedAll(w)
    BY <2>1 DEF Tell, FinishedAll
  <2>3. ASSUME FinishQueuedLost(w) PROVE FALSE
    <3>1. op[w] = "leave"
      BY <2>3 DEF FinishQueuedLost, Finishing
    <3> QED
      BY <1>0, <2>1, <2>3, <3>1 DEF FinishQueuedLost, ThreadsTypeOK
  <2> QED
    BY <2>2, <2>3
<1>6. /\ ~FireVoid(w) /\ ~FireJoins(w) /\ ~FireSkips(w) /\ ~FireStarts(w) /\ ~FireRaises(w)
      /\ ~ManualStarts(w) /\ ~ManualRefused(w) /\ ~ManualJoins(w)
      /\ ~RetryStarts(w) /\ ~RetryRefused(w) /\ ~CancelUnmatched(w)
  BY DEF FireVoid, FireJoins, FireSkips, FireStarts, FireRaises, ManualStarts, ManualRefused,
         ManualJoins, RetryStarts, RetryRefused, CancelUnmatched, Firing, Manual
<1>7. /\ ~ExpireStale(w) /\ ~DrainEnds(w) /\ ~DrainPromotes(w) /\ ~DrainDooms(w)
      /\ ~DrainWriteFails(w) /\ ~DrainLaunchFails(w) /\ ~StopLive(w) /\ ~SnapshotQueue(w)
      /\ ~StopPromoted(w) /\ ~RemoveAutomation(w) /\ ~RemoveFails(w) /\ ~SweepKills(w) /\ ~SweepEnds(w)
  BY DEF ExpireStale, DrainEnds, DrainPromotes, DrainDooms, DrainWriteFails, DrainLaunchFails,
         Draining, StopLive, SnapshotQueue, StopPromoted, RemoveAutomation, RemoveFails, SweepKills,
         SweepEnds
<1> QED
  BY <1>2, <1>3, <1>4, <1>5, <1>6, <1>7 DEF ThreadNext

\* No step starts a record once the engine is stopping.
LEMMA StoppingStartsNothing ==
  ASSUME HoldInv, [Next]_vars, stopping, NEW r \in Recs, status'[r] = "executing"
  PROVE  status[r] = "executing"
<1>0. /\ status \in [Recs -> Statuses] /\ TypeOK
      /\ \A w \in Threads : doomed[w] \subseteq Recs
  BY HoldFacts DEF TypeOK, ThreadsTypeOK
<1>1. CASE UNCHANGED status
  BY <1>1
<1>2. ASSUME NEW a, NEW s, NEW msg, NEW why, s # "executing", Create(a, s, msg, why)
      PROVE  status[r] = "executing"
  BY <1>0, <1>2, NewIsUnmade, HoldFacts DEF Create
<1>3. \A d : Refused(d)
  BY DEF Refused
<1>4. ASSUME NEW w \in Threads, ThreadNext(w) PROVE status[r] = "executing"
  <2> USE DEF recVars
  <2>1. ~FireStarts(w) /\ ~ManualStarts(w) /\ ~RetryStarts(w) /\ ~DrainPromotes(w)
    BY <1>3 DEF FireStarts, ManualStarts, StartNew, RetryStarts, RetryAdmitted, DrainPromotes
  <2>2. CASE FireJoins(w) \/ FireSkips(w) \/ ManualJoins(w) \/ FireRaises(w)
    BY <1>1, <1>2, <2>2 DEF FireJoins, FireSkips, ManualJoins, FireRaises, StartRaises
  <2>3. CASE FinishQueued(w) \/ FinishQueuedRaises(w) \/ DrainWriteFails(w) \/ DrainLaunchFails(w)
    BY <1>0, <2>3
    DEF FinishQueued, FinishQueuedRaises, FinishNeverRan, DrainWriteFails, DrainLaunchFails,
        Heads, QueuedExecs
  <2>4. CASE FireVoid(w) \/ ManualRefused(w) \/ RetryRefused(w) \/ FinishQueuedLost(w)
             \/ Tell(w) \/ FinishedAll(w) \/ CancelLooks(w) \/ CancelUnmatched(w)
    BY <1>1, <2>4 DEF FireVoid, ManualRefused, StartRaises, RetryRefused, FinishQueuedLost, Tell,
                      FinishedAll, CancelLooks, CancelUnmatched
  <2>5. CASE ExpireStale(w) \/ DrainEnds(w) \/ DrainDooms(w) \/ SnapshotQueue(w)
             \/ StopLive(w) \/ StopPromoted(w) \/ RemoveAutomation(w) \/ RemoveFails(w)
             \/ SweepKills(w) \/ SweepEnds(w)
    BY <1>1, <2>5 DEF ExpireStale, DrainEnds, DrainDooms, SnapshotQueue, StopLive, StopPromoted,
                      RemoveAutomation, RemoveFails, SweepKills, SweepEnds
  <2> QED
    BY <1>4, <2>1, <2>2, <2>3, <2>4, <2>5 DEF ThreadNext
<1>5. ASSUME NEW q \in Recs, EngineNext(q) \/ WaitsTooLong(q) PROVE status[r] = "executing"
  <2>1. CASE Decide(q) \/ SettleFails(q)
    BY <1>0, <2>1 DEF Decide, SettleFails
  <2> QED
    BY <1>1, <1>5, <2>1 DEF EngineNext, Settle, Release, WaitsTooLong, recVars
<1>6. ASSUME NEW w \in Threads, RequestNext(w) PROVE status[r] = "executing"
  BY <1>1, <1>6, RequestRecordsStay DEF recVars
<1>7. CASE UNCHANGED vars \/ SetDataPath \/ \E a \in Autos : TickDrains(a)
  BY <1>1, <1>7 DEF vars, SetDataPath, TickDrains, recVars
<1> QED
  BY <1>4, <1>5, <1>6, <1>7 DEF Next, Threads

\* A cancel ends with its record out of the queue or flagged, wherever the
\* record moved meanwhile, and nothing starts once the backend is stopping.
THEOREM StopsAlwaysHold == Spec => StopsHold
<1>1. HoldInv /\ [Next]_vars =>
        [\A w \in Handlers : \A r \in doomed[w] :
           op[w] \in {"cancel", "leave"} /\ doomed'[w] = {}
           => /\ status'[r] # "queued"
              /\ status'[r] = "executing" => "cancel" \in flags'[r]]_vars
  BY CancelDone
<1>2. HoldInv /\ [Next]_vars =>
        [stopping => \A r \in Recs : status'[r] = "executing" => status[r] = "executing"]_vars
  BY StoppingStartsNothing
<1> QED
  BY <1>1, <1>2, HoldInvariance, PTL
  DEF Spec, StopsHold, CancelTakesEffect, NoStartAfterShutdown

-----------------------------------------------------------------------------
(***************************************************************************)
(* ExecQueue implements FiringQueue.                                       *)
(***************************************************************************)
\* Whatever starts takes the slot it was judged by: the dicts are not replaced,
\* or nothing is started by hand.
AdmissionsAreCurrent == NoSwitch \/ Requests \cap {"start", "queue", "retry"} = {}

\* A retry was asked for.
RetriesAreAsked == \A w \in Threads : op[w] = "retry" => "retry" \in Requests

AdmitInv == /\ HoldInv /\ SlotInv /\ RetriesAreAsked
            /\ NoSwitch => DeleteInv

\* The queue and the executions of every automation are as they were.
NothingMoves ==
    \A b \in Autos : QueuedExecs(b)' = QueuedExecs(b) /\ Executing(b)' = Executing(b)

LEMMA StatusMoves ==
  ASSUME status \in [Recs -> Statuses], NEW a \in Autos, NEW r \in Recs, NEW s,
         status' = [status EXCEPT ![r] = s],
         owner'[r] = a, status[r] # "none" => owner[r] = a,
         \A q \in Recs \ {r} : owner'[q] = owner[q]
  PROVE  /\ \A b \in Autos \ {a} :
               QueuedExecs(b)' = QueuedExecs(b) /\ Executing(b)' = Executing(b)
         /\ QueuedExecs(a)' = IF s = "queued" THEN QueuedExecs(a) \cup {r}
                                              ELSE QueuedExecs(a) \ {r}
         /\ Executing(a)' = IF s = "executing" THEN Executing(a) \cup {r}
                                               ELSE Executing(a) \ {r}
<1>1. /\ status'[r] = s
      /\ \A q \in Recs \ {r} : status'[q] = status[q] /\ owner'[q] = owner[q]
  OBVIOUS
<1>2. ASSUME NEW b \in Autos \ {a}
      PROVE  QueuedExecs(b)' = QueuedExecs(b) /\ Executing(b)' = Executing(b)
  BY <1>1, <1>2 DEF QueuedExecs, Executing
<1>3. QueuedExecs(a)' = IF s = "queued" THEN QueuedExecs(a) \cup {r} ELSE QueuedExecs(a) \ {r}
  BY <1>1 DEF QueuedExecs
<1>4. Executing(a)' = IF s = "executing" THEN Executing(a) \cup {r} ELSE Executing(a) \ {r}
  BY <1>1 DEF Executing
<1> QED
  BY <1>2, <1>3, <1>4

\* A new record of automation a is in neither set before.
LEMMA CreateMoves ==
  ASSUME HoldInv, NEW a \in Autos, NEW s, NEW msg, NEW why, Create(a, s, msg, why)
  PROVE  /\ New \in Recs /\ made' = New /\ New \notin Executing(a) /\ New \notin QueuedExecs(a)
         /\ \A b \in Autos \ {a} :
               QueuedExecs(b)' = QueuedExecs(b) /\ Executing(b)' = Executing(b)
         /\ QueuedExecs(a)' = IF s = "queued" THEN QueuedExecs(a) \cup {New} ELSE QueuedExecs(a)
         /\ Executing(a)' = IF s = "executing" THEN Executing(a) \cup {New} ELSE Executing(a)
<1>1. /\ New \in Recs /\ status[New] = "none" /\ made' = New
      /\ status' = [status EXCEPT ![New] = s] /\ owner' = [owner EXCEPT ![New] = a]
  BY NewIsUnmade DEF Create, HoldInv
<1>2. New \notin Executing(a) /\ New \notin QueuedExecs(a)
  BY <1>1 DEF Executing, QueuedExecs
<1>3. /\ status \in [Recs -> Statuses] /\ owner'[New] = a
      /\ \A q \in Recs \ {New} : owner'[q] = owner[q]
  BY <1>1, HoldFacts
<1> DEFINE r == New
<1>4. /\ r \in Recs /\ status[r] = "none" /\ owner'[r] = a
      /\ status' = [status EXCEPT ![r] = s] /\ \A q \in Recs \ {r} : owner'[q] = owner[q]
      /\ r \notin Executing(a) /\ r \notin QueuedExecs(a)
  BY <1>1, <1>2, <1>3
<1>5. r = New
  OBVIOUS
<1> HIDE DEF r
<1>6. /\ \A b \in Autos \ {a} :
            QueuedExecs(b)' = QueuedExecs(b) /\ Executing(b)' = Executing(b)
      /\ QueuedExecs(a)' = IF s = "queued" THEN QueuedExecs(a) \cup {r}
                                           ELSE QueuedExecs(a) \ {r}
      /\ Executing(a)' = IF s = "executing" THEN Executing(a) \cup {r}
                                            ELSE Executing(a) \ {r}
  BY <1>3, <1>4, StatusMoves
<1> QED
  BY <1>1, <1>2, <1>4, <1>5, <1>6

\* Beside a free slot of the registered dict there is room for one more execution.
LEMMA Room ==
  ASSUME HoldInv, SlotInv, NEW a \in registered, ~AtCapacity(Dict(a))
  PROVE  Cardinality(Executing(a)) < parallel[a]
<1>1. /\ Executing(a) \subseteq slots[Dict(a)] /\ slots[Dict(a)] \subseteq Recs
      /\ parallel[a] \in Nat
  BY HoldFacts, LimitAssumption
  DEF SlotInv, SlotsMatchThreads, TypeOK, AutosTypeOK, Dict, Dicts, LimitAssumption
<1>2. IsFiniteSet(Recs)
  BY SizeAssumption, FS_Interval DEF SizeAssumption, Recs
<1>3. IsFiniteSet(slots[Dict(a)])
  BY <1>1, <1>2, FS_Subset
<1>4. /\ Cardinality(Executing(a)) \in Nat /\ Cardinality(slots[Dict(a)]) \in Nat
      /\ Cardinality(Executing(a)) <= Cardinality(slots[Dict(a)])
  BY <1>1, <1>3, FS_Subset, FS_CardinalityType
<1>5. ~(Cardinality(slots[Dict(a)]) >= parallel[a])
  BY DEF AtCapacity, Dict
<1> QED
  BY <1>1, <1>4, <1>5

\* A thread that may start something works on a registered automation, and the
\* dict it holds is the registered one.
LEMMA CurrentStart ==
  ASSUME AdmissionsAreCurrent, AdmitInv, NEW w \in Threads, Held(w) \notin deleting,
         (Firing(w) /\ ~FiringVoid(w)) \/ op[w] \in {"start", "queue", "retry"}
  PROVE  on[w] \in registered /\ Held(w) = Dict(on[w])
<1>0. AdmitsToAuto(w) /\ RetriesAreAsked
  BY HoldFacts DEF AdmitInv
<1>1. CASE Firing(w) /\ ~FiringVoid(w)
  BY <1>1 DEF FiringVoid, Held, Dict
<1>2. CASE op[w] \in {"start", "queue", "retry"}
  <2>1. NoSwitch
    BY <1>0, <1>2 DEF AdmissionsAreCurrent, AdmitsToAuto, RetriesAreAsked
  <2>2. on[w] \in Autos /\ ref[w] = gen[on[w]]
    BY <1>0, <1>2, <2>1 DEF AdmitsToAuto, Admitting
  <2>3. Held(w) = Dict(on[w])
    BY <2>2 DEF Held, Dict
  <2>4. on[w] \in registered
    BY <2>1, <2>2, <2>3 DEF AdmitInv, DeleteInv
  <2> QED
    BY <2>3, <2>4
<1> QED
  BY <1>1, <1>2

\* Every retry under way was asked for.
LEMMA AskedInvariance == Spec => []RetriesAreAsked
<1>1. Init => RetriesAreAsked
  BY DEF Init, RetriesAreAsked
<1>2. TypeOK /\ RetriesAreAsked /\ [Next]_vars => RetriesAreAsked'
  <2> SUFFICES ASSUME TypeOK, RetriesAreAsked, [Next]_vars PROVE RetriesAreAsked'
    OBVIOUS
  <2>0. ThreadsTypeOK /\ Ticker \in Threads
    BY DEF TypeOK, Threads
  <2>1. ASSUME NEW w \in Threads, ThreadNext(w) PROVE RetriesAreAsked'
    <3>1. op'[w] # "retry" \/ op'[w] = op[w]
      BY <2>0, <2>1
      DEF ThreadNext, FireVoid, FireJoins, FireSkips, FireStarts, FireRaises, ManualStarts,
          ManualRefused, ManualJoins, RetryStarts, RetryRefused, FinishQueued,
          FinishQueuedLost, FinishQueuedRaises, Tell, FinishedAll, CancelLooks,
          CancelUnmatched, ExpireStale, DrainEnds, DrainPromotes, DrainDooms,
          DrainWriteFails, DrainLaunchFails, StopLive, SnapshotQueue, StopPromoted, RemoveAutomation,
          RemoveFails, SweepKills, SweepEnds, ThreadsTypeOK, Idle, Rests, threadVars
    <3> QED
      BY <2>1, <3>1, ThreadStaysApart DEF RetriesAreAsked, OthersStay
  <2>2. ASSUME NEW r \in Recs, EngineNext(r) \/ WaitsTooLong(r) PROVE RetriesAreAsked'
    <3>1. op'[r] # "retry" \/ op'[r] = op[r]
      BY <2>0, <2>2
      DEF EngineNext, Decide, Settle, SettleFails, Release, WaitsTooLong, Begins, threadVars,
          ThreadsTypeOK, Threads
    <3> QED
      BY <2>2, <3>1, EngineStaysApart DEF RetriesAreAsked, OthersStay, Threads
  <2>3. ASSUME NEW w \in Threads, RequestNext(w) PROVE RetriesAreAsked'
    <3>1. op'[w] # "retry" \/ "retry" \in Requests
      BY <2>0, <2>3
      DEF RequestNext, CollectFiring, RequestStart, RequestClear, PatchLimits, PatchTriggers,
          RequestDelete, RequestRetry, RequestCancel, KillAllLive, Begins, ThreadsTypeOK
    <3> QED
      BY <2>3, <3>1, RequestStaysApart DEF RetriesAreAsked, OthersStay
  <2>4. ASSUME NEW a \in Autos, TickDrains(a) PROVE RetriesAreAsked'
    BY <2>0, <2>4 DEF TickDrains, Begins, RetriesAreAsked, ThreadsTypeOK
  <2>5. CASE UNCHANGED vars \/ SetDataPath
    BY <2>5 DEF vars, SetDataPath, threadVars, RetriesAreAsked
  <2> QED
    BY <2>1, <2>2, <2>3, <2>4, <2>5 DEF Next, Threads
<1> QED
  BY <1>1, <1>2, TypeCorrect, PTL DEF Spec

LEMMA AdmitInvariance == AdmissionsAreCurrent /\ Spec => []AdmitInv
<1> SUFFICES ASSUME AdmissionsAreCurrent PROVE Spec => []AdmitInv
  OBVIOUS
<1>1. StartsAreCurrent
  BY DEF AdmissionsAreCurrent, StartsAreCurrent
<1>2. CASE NoSwitch
  <2>1. HoldInv /\ SlotInv /\ RetriesAreAsked /\ DeleteInv => AdmitInv
    BY DEF AdmitInv
  <2> QED
    BY <1>1, <1>2, <2>1, HoldInvariance, SlotInvariance, AskedInvariance, DeleteInvariance, PTL
<1>3. CASE ~NoSwitch
  <2>1. HoldInv /\ SlotInv /\ RetriesAreAsked => AdmitInv
    BY <1>3 DEF AdmitInv
  <2> QED
    BY <1>1, <2>1, HoldInvariance, SlotInvariance, AskedInvariance, PTL
<1> QED
  BY <1>2, <1>3

-----------------------------------------------------------------------------
(***************************************************************************)
(* Every step of ExecQueue is a step of FiringQueue, or none.              *)
(***************************************************************************)
\* What FiringQueue sees beside the queue and the executions.
limitVars == <<parallel, depth, stopping>>

\* A head of the queue, by its stamp, takes a free slot.
PromotesHead(a) ==
    /\ ~stopping
    /\ Cardinality(Executing(a)) < parallel[a]
    /\ \E r \in Heads(a) : /\ QueuedExecs(a)' = QueuedExecs(a) \ {r}
                           /\ Executing(a)' = Executing(a) \cup {r}
    /\ \A b \in Autos \ {a} : QueuedExecs(b)' = QueuedExecs(b) /\ Executing(b)' = Executing(b)
    /\ UNCHANGED <<made, limitVars>>

Stutters == NothingMoves /\ UNCHANGED <<made, limitVars>>

\* A step of FiringQueue, but for the order in which the queue is left.
Moves ==
    \/ Promise!Drop \/ Promise!Stop \/ Stutters
    \/ \E a \in Autos : \/ Promise!Begin(a) \/ Promise!Join(a) \/ PromotesHead(a)
                        \/ Promise!Leave(a) \/ Promise!End(a) \/ Promise!SetLimits(a)

\* FiringQueue counts as ExecQueue does.
LEMMA SameCount == ASSUME NEW S PROVE Promise!Cardinality(S) = Cardinality(S)
  BY DEF Promise!Cardinality, Cardinality

LEMMA BeginMoves ==
  ASSUME AdmitInv, NEW a \in registered, NEW r \in Recs, r <= made + 1, r \notin Executing(a),
         ~stopping, QueuedExecs(a) = {}, ~AtCapacity(Dict(a)),
         made' = IF r > made THEN r ELSE made,
         Executing(a)' = Executing(a) \cup {r}, QueuedExecs(a)' = QueuedExecs(a),
         \A b \in Autos \ {a} : QueuedExecs(b)' = QueuedExecs(b) /\ Executing(b)' = Executing(b),
         UNCHANGED limitVars
  PROVE  Moves
<1>1. a \in Autos /\ Cardinality(Executing(a)) < parallel[a]
  BY HoldFacts, Room DEF AdmitInv, TypeOK, AutosTypeOK
<1>2. r \in 1..(made + 1) /\ r \in 1..MaxRecs
  BY SizeAssumption, HoldFacts DEF SizeAssumption, AdmitInv, TypeOK, RecsTypeOK, Recs
<1> DEFINE W == [b \in Autos |-> QueuedExecs(b)]
           R == [b \in Autos |-> Executing(b)]
<1>3. /\ W[a] = {} /\ R[a] = Executing(a) /\ W' = W
      /\ R' = [R EXCEPT ![a] = @ \cup {r}]
  BY <1>1
<1>4. Promise!Begin(a)
  BY <1>1, <1>2, <1>3, SameCount DEF Promise!Begin, Promise!FreeSlot, Promise!Recs, limitVars
<1> QED
  BY <1>1, <1>4 DEF Moves

LEMMA StutterMoves ==
  ASSUME UNCHANGED <<made, status, owner, parallel, depth, stopping>>
  PROVE  Moves
  BY DEF Moves, Stutters, NothingMoves, QueuedExecs, Executing, limitVars

\* A new record that neither waits nor runs.
LEMMA DropMoves ==
  ASSUME HoldInv, NEW a \in Autos, NEW s, s \notin {"queued", "executing"}, NEW msg, NEW why,
         Create(a, s, msg, why), UNCHANGED limitVars
  PROVE  Moves
<1> DEFINE W == [b \in Autos |-> QueuedExecs(b)]
           R == [b \in Autos |-> Executing(b)]
<1>1. W' = W /\ R' = R /\ made' = made + 1 /\ made < MaxRecs
  <2>1. /\ \A b \in Autos \ {a} : QueuedExecs(b)' = QueuedExecs(b) /\ Executing(b)' = Executing(b)
        /\ QueuedExecs(a)' = QueuedExecs(a) /\ Executing(a)' = Executing(a)
    BY CreateMoves
  <2>2. \A b \in Autos : QueuedExecs(b)' = QueuedExecs(b) /\ Executing(b)' = Executing(b)
    BY <2>1
  <2> QED
    BY <2>2 DEF Create, New
<1>2. Promise!Drop
  BY <1>1 DEF Promise!Drop, limitVars
<1> QED
  BY <1>2 DEF Moves

LEMMA JoinMoves ==
  ASSUME HoldInv, NEW a \in Autos, NEW msg, NEW why, Create(a, "queued", msg, why),
         RoomInQueue(a), UNCHANGED limitVars
  PROVE  Moves
<1> DEFINE W == [b \in Autos |-> QueuedExecs(b)]
           R == [b \in Autos |-> Executing(b)]
<1>1. /\ \A b \in Autos \ {a} : QueuedExecs(b)' = QueuedExecs(b) /\ Executing(b)' = Executing(b)
      /\ QueuedExecs(a)' = QueuedExecs(a) \cup {made + 1} /\ Executing(a)' = Executing(a)
  BY CreateMoves DEF New
<1>2. /\ R' = R /\ W' = [W EXCEPT ![a] = @ \cup {made + 1}] /\ W[a] = QueuedExecs(a)
  BY <1>1
<1>3. made' = made + 1 /\ made < MaxRecs
  BY DEF Create, New
<1>4. Promise!Join(a)
  BY <1>2, <1>3, SameCount DEF Promise!Join, limitVars, RoomInQueue
<1> QED
  BY <1>4 DEF Moves

\* A record ends: a waiting one leaves the queue, a running one its slot.
LEMMA EndMoves ==
  ASSUME HoldInv, NEW r \in Recs, NEW s, s \notin {"queued", "executing"},
         status[r] # "none", status' = [status EXCEPT ![r] = s],
         UNCHANGED <<made, owner, limitVars>>
  PROVE  Moves
<1> DEFINE W == [b \in Autos |-> QueuedExecs(b)]
           R == [b \in Autos |-> Executing(b)]
<1>0. PICK a \in Autos : a = owner[r]
  BY HoldFacts DEF RecordsAreOwned
<1>1. status \in [Recs -> Statuses] /\ owner'[r] = a
  BY <1>0, HoldFacts
<1>2. /\ \A b \in Autos \ {a} : QueuedExecs(b)' = QueuedExecs(b) /\ Executing(b)' = Executing(b)
      /\ QueuedExecs(a)' = QueuedExecs(a) \ {r} /\ Executing(a)' = Executing(a) \ {r}
  BY <1>0, <1>1, StatusMoves
<1>3. CASE r \in QueuedExecs(a)
  <2>1. r \notin Executing(a)
    BY <1>3 DEF QueuedExecs, Executing
  <2>2. R' = R /\ W' = [W EXCEPT ![a] = @ \ {r}] /\ r \in W[a]
    BY <1>2, <1>3, <2>1
  <2>3. Promise!Leave(a)
    BY <2>2 DEF Promise!Leave, limitVars
  <2> QED
    BY <1>1, <2>3 DEF Moves
<1>4. CASE r \in Executing(a)
  <2>1. r \notin QueuedExecs(a)
    BY <1>4 DEF QueuedExecs, Executing
  <2>2. W' = W /\ R' = [R EXCEPT ![a] = @ \ {r}] /\ r \in R[a]
    BY <1>2, <1>4, <2>1
  <2>3. Promise!End(a)
    BY <2>2 DEF Promise!End, limitVars
  <2> QED
    BY <1>1, <2>3 DEF Moves
<1>5. CASE r \notin QueuedExecs(a) /\ r \notin Executing(a)
  <2>1. NothingMoves
    BY <1>2, <1>5 DEF NothingMoves
  <2> QED
    BY <2>1 DEF Moves, Stutters
<1> QED
  BY <1>3, <1>4, <1>5

LEMMA HeadMoves ==
  ASSUME AdmitInv, NEW a \in registered, ~AtCapacity(Dict(a)), ~stopping,
         NEW r \in Heads(a), status' = [status EXCEPT ![r] = "executing"],
         UNCHANGED <<made, owner, limitVars>>
  PROVE  Moves
<1>1. a \in Autos /\ Cardinality(Executing(a)) < parallel[a]
  BY HoldFacts, Room DEF AdmitInv, TypeOK, AutosTypeOK
<1>2. r \in Recs /\ owner[r] = a /\ status \in [Recs -> Statuses]
  BY HoldFacts DEF AdmitInv, Heads, QueuedExecs
<1>3. /\ \A b \in Autos \ {a} : QueuedExecs(b)' = QueuedExecs(b) /\ Executing(b)' = Executing(b)
      /\ QueuedExecs(a)' = QueuedExecs(a) \ {r} /\ Executing(a)' = Executing(a) \cup {r}
  BY <1>1, <1>2, StatusMoves
<1>4. PromotesHead(a)
  BY <1>1, <1>3 DEF PromotesHead
<1> QED
  BY <1>1, <1>4 DEF Moves

LEMMA StartNewMoves ==
  ASSUME AdmissionsAreCurrent, AdmitInv, NEW w \in Threads, NEW msg, StartNew(w, msg),
         (Firing(w) /\ ~FiringVoid(w)) \/ op[w] \in {"start", "queue"}
  PROVE  Moves
<1>1. PICK a \in registered : /\ a = on[w] /\ a \in Autos /\ ~stopping
                              /\ ~AtCapacity(Dict(a)) /\ QueuedExecs(a) = {}
  <2>1. Held(w) \notin deleting /\ ~stopping
        /\ ~AtCapacity(Held(w)) /\ QueuedExecs(on[w]) = {}
    BY DEF StartNew, Refused, AdmissionBlocked, Held
  <2>2. on[w] \in registered /\ Held(w) = Dict(on[w])
    BY <2>1, CurrentStart
  <2> QED
    BY <2>1, <2>2, HoldFacts DEF AdmitInv, TypeOK, AutosTypeOK
<1>2. CASE Create(a, "executing", msg, "none") /\ Launch(Held(w), New, TRUE)
  <2>1. /\ New \in Recs /\ made' = New /\ New \notin Executing(a)
        /\ \A b \in Autos \ {a} :
              QueuedExecs(b)' = QueuedExecs(b) /\ Executing(b)' = Executing(b)
        /\ QueuedExecs(a)' = QueuedExecs(a)
        /\ Executing(a)' = Executing(a) \cup {New}
    BY <1>1, <1>2, CreateMoves DEF AdmitInv
  <2>2. New <= made + 1 /\ New > made
    BY HoldFacts, SizeAssumption DEF SizeAssumption, AdmitInv, TypeOK, RecsTypeOK, New
  <2>3. UNCHANGED limitVars
    BY <1>2 DEF Launch, limitVars
  <2> HIDE DEF New
  <2> QED
    BY <1>1, <2>1, <2>2, <2>3, BeginMoves
<1>3. CASE Create(a, "failed", msg, "none") /\ UNCHANGED <<autoVars, engineVars>>
  BY <1>1, <1>3, DropMoves DEF AdmitInv, autoVars, engineVars, limitVars
<1> QED
  BY <1>1, <1>2, <1>3 DEF StartNew

LEMMA RetryMoves ==
  ASSUME AdmissionsAreCurrent, AdmitInv, NEW w \in Threads, RetryStarts(w)
  PROVE  Moves
<1>1. PICK r \in doomed[w] : /\ RetryAdmitted(w, r)
                             /\ status' = [status EXCEPT ![r] = "executing"]
                             /\ Launch(Dict(owner[r]), r, owner[r] \in registered)
  BY DEF RetryStarts
<1>2. op[w] = "retry" /\ UNCHANGED <<made, owner>>
  BY DEF RetryStarts
<1>3. /\ r \in Recs /\ status[r] = "failed" /\ owner[r] = on[w] /\ WorksOnOne(w)
      /\ status \in [Recs -> Statuses] /\ UnmadeIsNothing /\ made \in 0..MaxRecs
  BY <1>1, <1>2, HoldFacts
  DEF AdmitInv, RetryAdmitted, WorksOnOne, ThreadInv, TypeOK, RecsTypeOK
<1>4. /\ Held(w) \notin deleting /\ ~stopping
      /\ ~AtCapacity(Held(w)) /\ QueuedExecs(on[w]) = {}
  BY <1>1 DEF RetryAdmitted, Refused, AdmissionBlocked, Held
<1>5. on[w] \in registered /\ Held(w) = Dict(on[w])
  BY <1>2, <1>4, CurrentStart
<1>6. PICK a \in registered : a = on[w] /\ a \in Autos /\ ~AtCapacity(Dict(a))
                              /\ QueuedExecs(a) = {}
  BY <1>4, <1>5, HoldFacts DEF AdmitInv, TypeOK, AutosTypeOK
<1>7. r <= made /\ ~(r > made) /\ r <= made + 1
  BY <1>3, SizeAssumption DEF UnmadeIsNothing, SizeAssumption, Recs
<1>8. r \notin Executing(a) /\ r \notin QueuedExecs(a)
  BY <1>3 DEF Executing, QueuedExecs
<1>9. /\ \A b \in Autos \ {a} :
            QueuedExecs(b)' = QueuedExecs(b) /\ Executing(b)' = Executing(b)
      /\ QueuedExecs(a)' = QueuedExecs(a) \ {r}
      /\ Executing(a)' = Executing(a) \cup {r}
  BY <1>1, <1>2, <1>3, <1>6, StatusMoves
<1>10. UNCHANGED limitVars
  BY <1>1 DEF Launch, limitVars
<1> QED
  BY <1>2, <1>3, <1>4, <1>6, <1>7, <1>8, <1>9, <1>10, BeginMoves

LEMMA ThreadMoves ==
  ASSUME AdmissionsAreCurrent, AdmitInv, NEW w \in Threads, ThreadNext(w)
  PROVE  Moves
<1>0. /\ HoldInv /\ doomed[w] \subseteq Recs /\ AdmitsToAuto(w)
      /\ registered \subseteq Autos
  BY HoldFacts DEF AdmitInv, TypeOK, AutosTypeOK
<1> USE DEF recVars, autoVars, engineVars
<1>1. CASE FireVoid(w) \/ ManualRefused(w) \/ RetryRefused(w) \/ FinishQueuedLost(w)
           \/ Tell(w) \/ FinishedAll(w) \/ CancelLooks(w) \/ CancelUnmatched(w)
  BY <1>1, StutterMoves
  DEF FireVoid, ManualRefused, StartRaises, RetryRefused, FinishQueuedLost, Tell, FinishedAll,
      CancelLooks, CancelUnmatched, Flag
<1>2. CASE ExpireStale(w) \/ DrainEnds(w) \/ DrainDooms(w) \/ StopLive(w) \/ SnapshotQueue(w)
           \/ StopPromoted(w) \/ RemoveAutomation(w) \/ RemoveFails(w) \/ SweepKills(w) \/ SweepEnds(w)
  BY <1>2, StutterMoves
  DEF ExpireStale, DrainEnds, DrainDooms, StopLive, SnapshotQueue, StopPromoted, RemoveAutomation,
      RemoveFails, SweepKills, SweepEnds, Flag
<1>3. CASE FireJoins(w) \/ ManualJoins(w)
  <2>1. PICK a \in Autos : a = on[w]
    BY <1>0, <1>3
    DEF FireJoins, ManualJoins, Firing, AdmitsToAuto, Admitting
  <2> QED
    BY <1>0, <1>3, <2>1, JoinMoves DEF FireJoins, ManualJoins, limitVars
<1>4. CASE FireSkips(w) \/ FireRaises(w)
  <2>1. PICK a \in Autos : a = on[w]
    BY <1>0, <1>4 DEF FireSkips, FireRaises, Firing, AdmitsToAuto, Admitting
  <2>2. CASE UNCHANGED <<recVars, autoVars, engineVars>>
    BY <2>2, StutterMoves
  <2>3. CASE /\ UNCHANGED limitVars
             /\ \E why : Create(a, "skipped", IsMessage(w), why)
    BY <1>0, <2>3, DropMoves
  <2> QED
    BY <1>4, <2>1, <2>2, <2>3 DEF FireSkips, FireRaises, StartRaises, limitVars
<1>5. CASE FireStarts(w) \/ ManualStarts(w)
  BY <1>5, StartNewMoves DEF FireStarts, ManualStarts, Manual
<1>6. CASE RetryStarts(w)
  BY <1>6, RetryMoves
<1>7. CASE FinishQueued(w) \/ FinishQueuedRaises(w) \/ DrainWriteFails(w) \/ DrainLaunchFails(w)
  <2>1. PICK r \in Recs, s \in {"skipped", "failed"} :
           status[r] = "queued" /\ status' = [status EXCEPT ![r] = s]
    BY <1>0, <1>7
    DEF FinishQueued, FinishQueuedRaises, FinishNeverRan, DrainWriteFails, DrainLaunchFails,
        Heads, QueuedExecs
  <2>2. UNCHANGED <<made, owner, limitVars>>
    BY <1>7
    DEF FinishQueued, FinishQueuedRaises, FinishNeverRan, DrainWriteFails, DrainLaunchFails,
        limitVars
  <2> QED
    BY <1>0, <2>1, <2>2, EndMoves
<1>8. CASE DrainPromotes(w)
  <2>1. PICK a \in registered : \E r \in Heads(a) :
           /\ a = on[w] /\ ~AtCapacity(Dict(a)) /\ ~stopping
           /\ status' = [status EXCEPT ![r] = "executing"] /\ Launch(Dict(a), r, TRUE)
    BY <1>8 DEF DrainPromotes, CanPromote, Refused
  <2>2. UNCHANGED <<made, owner, limitVars>>
    BY <1>8, <2>1 DEF DrainPromotes, Launch, limitVars
  <2> QED
    BY <2>1, <2>2, HeadMoves
<1> QED
  BY <1>1, <1>2, <1>3, <1>4, <1>5, <1>6, <1>7, <1>8 DEF ThreadNext

LEMMA RequestMoves ==
  ASSUME AdmitInv, TypeOK', NEW w \in Threads, RequestNext(w)
  PROVE  Moves
<1>0. UNCHANGED recVars
  BY RequestRecordsStay
<1> USE <1>0 DEF recVars, autoVars, engineVars
<1>1. CASE KillAllLive(w)
  <2>1. stopping' = TRUE /\ UNCHANGED <<made, status, owner, parallel, depth>>
    BY <1>1 DEF KillAllLive
  <2>2. Promise!Stop
    BY <2>1 DEF Promise!Stop, QueuedExecs, Executing
  <2> QED
    BY <2>2 DEF Moves
<1>2. ASSUME NEW r \in Recs, RequestRetry(w, r) \/ RequestCancel(w, r) PROVE Moves
  BY <1>2, StutterMoves DEF RequestRetry, RequestCancel
<1>3. ASSUME NEW a \in Autos, NEW k \in TriggerKinds, CollectFiring(w, a, k) PROVE Moves
  BY <1>3, StutterMoves DEF CollectFiring
<1>4. ASSUME NEW a \in Autos, NEW o \in {"start", "queue"}, RequestStart(w, a, o) PROVE Moves
  BY <1>4, StutterMoves DEF RequestStart
<1>5. ASSUME NEW a \in Autos, RequestClear(w, a) \/ PatchTriggers(w, a) \/ RequestDelete(w, a)
      PROVE  Moves
  BY <1>5, StutterMoves DEF RequestClear, PatchTriggers, RequestDelete
<1>6. ASSUME NEW a \in Autos, PatchLimits(w, a) PROVE Moves
  <2>1. PICK p \in ParallelVals, q \in DepthVals :
           parallel' = [parallel EXCEPT ![a] = p] /\ depth' = [depth EXCEPT ![a] = q]
    BY <1>6 DEF PatchLimits
  <2>2. /\ parallel'[a] = p /\ p \in Nat \ {0} /\ depth'[a] = q /\ q \in Nat
        /\ UNCHANGED <<made, status, owner, stopping>>
    BY <1>6, <2>1, HoldFacts, LimitAssumption
    DEF PatchLimits, LimitAssumption, AdmitInv, TypeOK, AutosTypeOK
  <2>3. UNCHANGED <<[b \in Autos |-> QueuedExecs(b)], [b \in Autos |-> Executing(b)]>>
    BY <2>2 DEF QueuedExecs, Executing
  <2>4. Promise!SetLimits(a)
    BY <2>1, <2>2, <2>3 DEF Promise!SetLimits
  <2> QED
    BY <2>4 DEF Moves
<1> QED
  BY <1>1, <1>2, <1>3, <1>4, <1>5, <1>6 DEF RequestNext

LEMMA NextMoves ==
  ASSUME AdmissionsAreCurrent, AdmitInv, TypeOK', [Next]_vars
  PROVE  Moves
<1>1. ASSUME NEW w \in Threads, ThreadNext(w) PROVE Moves
  BY <1>1, ThreadMoves
<1>2. ASSUME NEW w \in Threads, RequestNext(w) PROVE Moves
  BY <1>2, RequestMoves
<1>3. ASSUME NEW r \in Recs, EngineNext(r) \/ WaitsTooLong(r) PROVE Moves
  <2>0. HoldInv /\ ExecutingHasThread /\ UnmadeIsNothing
    BY DEF AdmitInv, HoldInv, ThreadInv
  <2>1. CASE Decide(r) \/ SettleFails(r)
    <3>1. PICK s \in {"ended", "failed"} : status' = [status EXCEPT ![r] = s]
      BY <2>1 DEF Decide, SettleFails
    <3>2. status[r] # "none" /\ UNCHANGED <<made, owner, limitVars>>
      BY <2>0, <2>1 DEF Decide, SettleFails, UnmadeIsNothing, autoVars, limitVars
    <3> QED
      BY <2>0, <3>1, <3>2, EndMoves
  <2>2. CASE Settle(r) \/ Release(r) \/ WaitsTooLong(r)
    BY <2>2, StutterMoves
    DEF Settle, Release, WaitsTooLong, FreeSlot, recVars, autoVars, engineVars
  <2> QED
    BY <1>3, <2>1, <2>2 DEF EngineNext
<1>4. CASE UNCHANGED vars \/ SetDataPath \/ \E a \in Autos : TickDrains(a)
  BY <1>4, StutterMoves DEF vars, SetDataPath, TickDrains, recVars, autoVars, engineVars
<1> QED
  BY <1>1, <1>2, <1>3, <1>4 DEF Next, Threads

-----------------------------------------------------------------------------
\* What a set of records may become: it shrinks, or gains one record while
\* there was room for it.
Fits(S, T, limit) ==
    \/ T \subseteq S
    \/ Cardinality(S) < limit /\ \E r \in Recs : T = S \cup {r}

LEMMA FitsWithin ==
  ASSUME NEW S \in SUBSET Recs, NEW T \in SUBSET Recs, NEW limit \in Nat, Fits(S, T, limit)
  PROVE  Cardinality(T) > Cardinality(S) => Cardinality(T) <= limit
<1>1. IsFiniteSet(S) /\ Cardinality(S) \in Nat
  <2>1. IsFiniteSet(Recs)
    BY SizeAssumption, FS_Interval DEF SizeAssumption, Recs
  <2>2. IsFiniteSet(S)
    BY <2>1, FS_Subset
  <2> QED
    BY <2>2, FS_CardinalityType
<1>2. CASE T \subseteq S
  BY <1>1, <1>2, FS_Subset, FS_CardinalityType
<1>3. CASE Cardinality(S) < limit /\ \E r \in Recs : T = S \cup {r}
  <2>1. Cardinality(T) \in Nat /\ Cardinality(T) <= Cardinality(S) + 1
    BY <1>1, <1>3, FS_AddElement
  <2> QED
    BY <1>1, <1>3, <2>1
<1> QED
  BY <1>2, <1>3 DEF Fits

LEMMA MovesFit ==
  ASSUME AdmitInv, Moves, NEW b \in Autos
  PROVE  /\ Fits(Executing(b), Executing(b)', parallel[b])
         /\ Fits(QueuedExecs(b), QueuedExecs(b)', depth[b])
<1> DEFINE W == [a \in Autos |-> QueuedExecs(a)]
           R == [a \in Autos |-> Executing(a)]
<1>1. /\ W[b] = QueuedExecs(b) /\ R[b] = Executing(b)
      /\ W'[b] = QueuedExecs(b)' /\ R'[b] = Executing(b)'
  OBVIOUS
<1>2. CASE W'[b] \subseteq W[b] /\ R'[b] \subseteq R[b]
  BY <1>1, <1>2 DEF Fits
<1>3. CASE Promise!Drop \/ Promise!Stop \/ Stutters
  BY <1>3 DEF Promise!Drop, Promise!Stop, Stutters, NothingMoves, Fits
<1>4. ASSUME NEW a \in Autos, Promise!Begin(a)
      PROVE  /\ Fits(Executing(b), Executing(b)', parallel[b])
             /\ Fits(QueuedExecs(b), QueuedExecs(b)', depth[b])
  <2>1. PICK r \in Recs : R' = [R EXCEPT ![a] = @ \cup {r}]
    BY <1>4 DEF Promise!Begin, Promise!Recs, Recs
  <2>2. W' = W /\ Cardinality(R[a]) < parallel[a]
    BY <1>4, SameCount DEF Promise!Begin, Promise!FreeSlot
  <2> QED
    BY <1>1, <2>1, <2>2 DEF Fits
<1>5. ASSUME NEW a \in Autos, Promise!Join(a)
      PROVE  /\ Fits(Executing(b), Executing(b)', parallel[b])
             /\ Fits(QueuedExecs(b), QueuedExecs(b)', depth[b])
  <2>1. /\ W' = [W EXCEPT ![a] = @ \cup {made + 1}] /\ R' = R
        /\ Cardinality(W[a]) < depth[a] /\ made < MaxRecs
    BY <1>5, SameCount DEF Promise!Join
  <2>2. made + 1 \in Recs
    BY <2>1, NewIsUnmade DEF New, AdmitInv, HoldInv
  <2> QED
    BY <1>1, <2>1, <2>2 DEF Fits
<1>6. ASSUME NEW a \in Autos, PromotesHead(a)
      PROVE  /\ Fits(Executing(b), Executing(b)', parallel[b])
             /\ Fits(QueuedExecs(b), QueuedExecs(b)', depth[b])
  BY <1>6 DEF PromotesHead, Heads, QueuedExecs, Fits
<1>7. ASSUME NEW a \in Autos, Promise!Leave(a) \/ Promise!End(a) \/ Promise!SetLimits(a)
      PROVE  /\ Fits(Executing(b), Executing(b)', parallel[b])
             /\ Fits(QueuedExecs(b), QueuedExecs(b)', depth[b])
  BY <1>1, <1>2, <1>7 DEF Promise!Leave, Promise!End, Promise!SetLimits
<1> QED
  BY <1>3, <1>4, <1>5, <1>6, <1>7 DEF Moves

\* The limits bind whenever something is admitted, whichever thread admits it
\* and whatever the limits were changed to while it waited for the lock.
THEOREM LimitsAlwaysBind == AdmissionsAreCurrent /\ Spec => AdmittedWithinLimits
<1> SUFFICES ASSUME AdmissionsAreCurrent PROVE Spec => AdmittedWithinLimits
  OBVIOUS
<1>1. AdmitInv /\ TypeOK' /\ [Next]_vars =>
        [\A a \in Autos :
          /\ Cardinality(Executing(a)') > Cardinality(Executing(a))
                => Cardinality(Executing(a)') <= parallel[a]
          /\ Cardinality(QueuedExecs(a)') > Cardinality(QueuedExecs(a))
                => Cardinality(QueuedExecs(a)') <= depth[a]]_vars
  <2> SUFFICES ASSUME AdmitInv, TypeOK', [Next]_vars, NEW a \in Autos
               PROVE  /\ Cardinality(Executing(a)') > Cardinality(Executing(a))
                            => Cardinality(Executing(a)') <= parallel[a]
                      /\ Cardinality(QueuedExecs(a)') > Cardinality(QueuedExecs(a))
                            => Cardinality(QueuedExecs(a)') <= depth[a]
    OBVIOUS
  <2>1. /\ Fits(Executing(a), Executing(a)', parallel[a])
        /\ Fits(QueuedExecs(a), QueuedExecs(a)', depth[a])
    BY NextMoves, MovesFit
  <2>2. /\ Executing(a) \subseteq Recs /\ Executing(a)' \subseteq Recs
        /\ QueuedExecs(a) \subseteq Recs /\ QueuedExecs(a)' \subseteq Recs
        /\ parallel[a] \in Nat /\ depth[a] \in Nat
    BY HoldFacts, LimitAssumption
    DEF Executing, QueuedExecs, AdmitInv, TypeOK, AutosTypeOK, LimitAssumption
  <2> QED
    BY <2>1, <2>2, FitsWithin
<1>2. AdmitInv => TypeOK
  BY HoldFacts DEF AdmitInv
<1> QED
  BY <1>1, <1>2, AdmitInvariance, PTL DEF Spec, AdmittedWithinLimits

\* ExecQueue, with its threads, stale dicts, faults and half-done handlers,
\* implements FiringQueue as long as the wall clock is not set back: what
\* leaves the queue to run is the entry that has waited longest.
THEOREM QueueKeepsPromise ==
    AdmissionsAreCurrent /\ ClockSteps = FALSE /\ Spec => ImplementsFiringQueue
<1> SUFFICES ASSUME AdmissionsAreCurrent, ClockSteps = FALSE
             PROVE  Spec => ImplementsFiringQueue
  OBVIOUS
<1>1. Init => Promise!Init
  <2> SUFFICES ASSUME Init PROVE Promise!Init
    OBVIOUS
  <2>1. \A a \in Autos : QueuedExecs(a) = {} /\ Executing(a) = {}
    BY DEF Init, QueuedExecs, Executing
  <2>2. parallel \in [Autos -> Nat \ {0}] /\ depth \in [Autos -> Nat]
    BY LimitAssumption DEF Init, LimitAssumption
  <2> QED
    BY <2>1, <2>2 DEF Init, Promise!Init
<1>2. AdmitInv /\ OrderInv /\ TypeOK' /\ [Next]_vars => [Promise!Next]_(Promise!vars)
  <2> SUFFICES ASSUME AdmitInv, OrderInv, TypeOK', [Next]_vars
               PROVE  Promise!Next \/ UNCHANGED Promise!vars
    OBVIOUS
  <2>1. Moves
    BY NextMoves
  <2>2. CASE Stutters
    BY <2>2 DEF Stutters, NothingMoves, limitVars, Promise!vars
  <2>3. ASSUME NEW a \in Autos, PromotesHead(a) PROVE Promise!Promote(a)
    <3> DEFINE W == [b \in Autos |-> QueuedExecs(b)]
               R == [b \in Autos |-> Executing(b)]
    <3>1. PICK r \in Heads(a) : /\ QueuedExecs(a)' = QueuedExecs(a) \ {r}
                                /\ Executing(a)' = Executing(a) \cup {r}
      BY <2>3 DEF PromotesHead
    <3>2. r \in QueuedExecs(a) /\ \A q \in QueuedExecs(a) : r <= q
      <4>1. \A q \in QueuedExecs(a) : q \in Recs /\ stamp[q] = q
        BY DEF OrderInv, StampsInOrder, QueuedExecs
      <4> QED
        BY <4>1 DEF Heads
    <3>3. W' = [W EXCEPT ![a] = @ \ {r}] /\ R' = [R EXCEPT ![a] = @ \cup {r}]
      BY <2>3, <3>1 DEF PromotesHead
    <3>4. Promise!Oldest(a, r) /\ Promise!FreeSlot(a) /\ r \in Promise!Recs
      BY <2>3, <3>2, SameCount
      DEF PromotesHead, Promise!Oldest, Promise!FreeSlot, Promise!Recs, QueuedExecs, Recs
    <3> QED
      BY <2>3, <3>3, <3>4 DEF PromotesHead, Promise!Promote, limitVars
  <2> QED
    BY <2>1, <2>2, <2>3 DEF Moves, Promise!Next
<1>3. AdmitInv => TypeOK
  BY HoldFacts DEF AdmitInv
<1> QED
  BY <1>1, <1>2, <1>3, AdmitInvariance, OrderInvariance, PTL
  DEF Spec, ImplementsFiringQueue, Promise!Spec
=============================================================================
