-------------------------- MODULE ExecQueueProofs --------------------------
(***************************************************************************)
(* Types and safety of ExecQueue for every value of its constants.         *)
(***************************************************************************)
EXTENDS ExecQueue, TLAPS

LEMMA InitType == Init => TypeOK
<1> SUFFICES ASSUME Init PROVE TypeOK
  OBVIOUS
<1>1. RecsTypeOK
  BY SizeAssumption DEF SizeAssumption, Init, RecsTypeOK, Statuses, Notes
<1>2. AutosTypeOK
  BY SizeAssumption DEF SizeAssumption, Init, AutosTypeOK, Gens
<1>3. EngineTypeOK
  BY DEF Init, EngineTypeOK, Stages
<1>4. ThreadsTypeOK
  BY SizeAssumption DEF SizeAssumption, Init, ThreadsTypeOK, Gens, Ops
<1> QED
  BY <1>1, <1>2, <1>3, <1>4 DEF TypeOK

LEMMA KeepsType ==
  /\ RecsTypeOK /\ UNCHANGED recVars => RecsTypeOK'
  /\ AutosTypeOK /\ UNCHANGED autoVars => AutosTypeOK'
  /\ EngineTypeOK /\ UNCHANGED engineVars => EngineTypeOK'
  /\ ThreadsTypeOK /\ UNCHANGED threadVars => ThreadsTypeOK'
<1>1. RecsTypeOK /\ UNCHANGED recVars => RecsTypeOK'
  BY DEF RecsTypeOK, recVars
<1>2. AutosTypeOK /\ UNCHANGED autoVars => AutosTypeOK'
  BY DEF AutosTypeOK, autoVars
<1>3. EngineTypeOK /\ UNCHANGED engineVars => EngineTypeOK'
  BY DEF EngineTypeOK, engineVars
<1>4. ThreadsTypeOK /\ UNCHANGED threadVars => ThreadsTypeOK'
  BY DEF ThreadsTypeOK, threadVars
<1> QED
  BY <1>1, <1>2, <1>3, <1>4

\* The operators the actions are built from keep the types.
LEMMA CreateType ==
  ASSUME RecsTypeOK, NEW a \in Autos \cup {NoAuto}, NEW s \in Statuses,
         NEW msg \in BOOLEAN, NEW why \in Notes, Create(a, s, msg, why)
  PROVE  RecsTypeOK' /\ New \in Recs
  BY SizeAssumption DEF SizeAssumption, RecsTypeOK, Create, New, Recs

LEMMA StatusType ==
  ASSUME RecsTypeOK, NEW r \in Recs, NEW s \in Statuses,
         status' = [status EXCEPT ![r] = s],
         UNCHANGED <<made, owner, payload, stamp, stale, note, told>>
  PROVE  RecsTypeOK'
  BY DEF RecsTypeOK

LEMMA FinishType ==
  ASSUME RecsTypeOK, NEW r \in Recs, NEW why \in Notes, FinishNeverRan(r, why)
  PROVE  RecsTypeOK'
  BY DEF RecsTypeOK, FinishNeverRan, Statuses

LEMMA RestsType ==
  ASSUME ThreadsTypeOK, NEW w \in Threads, NEW r \in Recs \cup {NoRec}, Rests(w, r),
         doomed' \in [Threads -> SUBSET Recs], waits' \in [Threads -> SUBSET Recs]
  PROVE  ThreadsTypeOK'
<1>1. "idle" \in Ops /\ 0 \in Gens
  BY SizeAssumption DEF SizeAssumption, Ops, Gens
<1>2. op' \in [Threads -> Ops]
  BY <1>1 DEF ThreadsTypeOK, Rests
<1>3. on' \in [Threads -> Autos \cup {NoAuto}] /\ tell' \in [Threads -> Recs \cup {NoRec}]
  BY DEF ThreadsTypeOK, Rests
<1>4. ref' \in [Threads -> Gens]
  BY <1>1 DEF ThreadsTypeOK, Rests
<1> QED
  BY <1>2, <1>3, <1>4 DEF ThreadsTypeOK

LEMMA IdleType ==
  ASSUME ThreadsTypeOK, NEW w \in Threads, Idle(w),
         doomed' \in [Threads -> SUBSET Recs], waits' \in [Threads -> SUBSET Recs]
  PROVE  ThreadsTypeOK'
  BY RestsType DEF Idle

LEMMA BeginsType ==
  ASSUME AutosTypeOK, ThreadsTypeOK, NEW w \in Threads, NEW o \in Ops,
         NEW a \in Autos \cup {NoAuto}, Begins(w, o, a),
         doomed' \in [Threads -> SUBSET Recs], waits' \in [Threads -> SUBSET Recs],
         tell' = tell
  PROVE  ThreadsTypeOK'
<1>1. 0 \in Gens /\ (a # NoAuto => gen[a] \in Gens)
  BY SizeAssumption DEF SizeAssumption, Gens, AutosTypeOK
<1>2. op' \in [Threads -> Ops] /\ on' \in [Threads -> Autos \cup {NoAuto}]
  BY DEF ThreadsTypeOK, Begins
<1>3. ref' \in [Threads -> Gens]
  BY <1>1 DEF ThreadsTypeOK, Begins
<1> QED
  BY <1>2, <1>3 DEF ThreadsTypeOK

LEMMA LaunchType ==
  ASSUME AutosTypeOK, EngineTypeOK, NEW d, NEW r \in Recs, NEW c, Launch(d, r, c)
  PROVE  AutosTypeOK' /\ EngineTypeOK'
  BY DEF AutosTypeOK, EngineTypeOK, Launch, Stages

LEMMA FlagType ==
  ASSUME EngineTypeOK, NEW r \in Recs, NEW f \in FlagKinds, Flag(r, f)
  PROVE  EngineTypeOK'
  BY DEF EngineTypeOK, Flag

LEMMA FreeSlotType ==
  ASSUME AutosTypeOK, NEW r \in Recs, FreeSlot(r)
  PROVE  AutosTypeOK'
  BY DEF AutosTypeOK, FreeSlot

\* A handler that admits something works on an automation.
LEMMA HeldType ==
  ASSUME ThreadsTypeOK, NEW w \in Threads
  PROVE  on[w] \in Autos \cup {NoAuto}
  BY DEF ThreadsTypeOK

LEMMA StartNewType ==
  ASSUME TypeOK, NEW w \in Threads, NEW msg \in BOOLEAN, StartNew(w, msg)
  PROVE  RecsTypeOK' /\ AutosTypeOK' /\ EngineTypeOK'
<1>1. RecsTypeOK' /\ New \in Recs
  BY CreateType, HeldType DEF TypeOK, StartNew, Statuses, Notes
<1>2. AutosTypeOK' /\ EngineTypeOK'
  BY <1>1, LaunchType, KeepsType DEF TypeOK, StartNew
<1> QED
  BY <1>1, <1>2

LEMMA ThreadNextType ==
  ASSUME TypeOK, NEW w \in Threads, ThreadNext(w)
  PROVE  TypeOK'
<1> USE DEF TypeOK
<1>1. CASE FireVoid(w)
  <2>1. RecsTypeOK' /\ AutosTypeOK' /\ EngineTypeOK'
    BY <1>1, KeepsType DEF FireVoid
  <2>2. ThreadsTypeOK'
    BY <1>1, IdleType DEF FireVoid, ThreadsTypeOK
  <2> QED
    BY <2>1, <2>2 DEF TypeOK
<1>2. CASE FireJoins(w)
  <2>1. RecsTypeOK'
    BY <1>2, CreateType, HeldType DEF FireJoins, Firing, Statuses, Notes
  <2>2. AutosTypeOK' /\ EngineTypeOK'
    BY <1>2, KeepsType DEF FireJoins
  <2>3. ThreadsTypeOK'
    BY <1>2, IdleType DEF FireJoins, ThreadsTypeOK
  <2> QED
    BY <2>1, <2>2, <2>3 DEF TypeOK
<1>3. CASE FireSkips(w)
  <2>1. RecsTypeOK'
    BY <1>3, CreateType, HeldType DEF FireSkips, IsMessage, Statuses, Notes
  <2>2. AutosTypeOK' /\ EngineTypeOK'
    BY <1>3, KeepsType DEF FireSkips
  <2>3. ThreadsTypeOK'
    BY <1>3, RestsType, CreateType, HeldType DEF FireSkips, IsMessage, Statuses, Notes, ThreadsTypeOK
  <2> QED
    BY <2>1, <2>2, <2>3 DEF TypeOK
<1>4. CASE FireStarts(w)
  <2>1. RecsTypeOK' /\ AutosTypeOK' /\ EngineTypeOK'
    BY <1>4, StartNewType DEF FireStarts, IsMessage
  <2>2. ThreadsTypeOK'
    BY <1>4, IdleType DEF FireStarts, ThreadsTypeOK
  <2> QED
    BY <2>1, <2>2 DEF TypeOK
<1>5. CASE FireRaises(w)
  <2>1. RecsTypeOK'
    BY <1>5, CreateType, HeldType, KeepsType DEF FireRaises, StartRaises, IsMessage, Statuses, Notes
  <2>2. AutosTypeOK' /\ EngineTypeOK'
    BY <1>5, KeepsType DEF FireRaises, StartRaises
  <2>3. ThreadsTypeOK'
    BY <1>5, IdleType DEF FireRaises, ThreadsTypeOK
  <2> QED
    BY <2>1, <2>2, <2>3 DEF TypeOK
<1>6. CASE ManualStarts(w)
  <2>1. RecsTypeOK' /\ AutosTypeOK' /\ EngineTypeOK'
    BY <1>6, StartNewType DEF ManualStarts
  <2>2. ThreadsTypeOK'
    BY <1>6, IdleType DEF ManualStarts, ThreadsTypeOK
  <2> QED
    BY <2>1, <2>2 DEF TypeOK
<1>7. CASE ManualRefused(w)
  <2>1. RecsTypeOK' /\ AutosTypeOK' /\ EngineTypeOK'
    BY <1>7, KeepsType DEF ManualRefused, StartRaises
  <2>2. ThreadsTypeOK'
    BY <1>7, IdleType DEF ManualRefused, ThreadsTypeOK
  <2> QED
    BY <2>1, <2>2 DEF TypeOK
<1>8. CASE ManualJoins(w)
  <2>1. RecsTypeOK'
    BY <1>8, CreateType, HeldType DEF ManualJoins, Statuses, Notes
  <2>2. AutosTypeOK' /\ EngineTypeOK'
    BY <1>8, KeepsType DEF ManualJoins
  <2>3. ThreadsTypeOK'
    BY <1>8, IdleType DEF ManualJoins, ThreadsTypeOK
  <2> QED
    BY <2>1, <2>2, <2>3 DEF TypeOK
<1>9. CASE RetryStarts(w)
  <2>1. RecsTypeOK'
    BY <1>9, StatusType DEF RetryStarts, Statuses, ThreadsTypeOK
  <2>2. AutosTypeOK' /\ EngineTypeOK'
    BY <1>9, LaunchType DEF RetryStarts, ThreadsTypeOK
  <2>3. ThreadsTypeOK'
    BY <1>9, IdleType DEF RetryStarts, ThreadsTypeOK
  <2> QED
    BY <2>1, <2>2, <2>3 DEF TypeOK
<1>10. CASE RetryRefused(w)
  <2>1. RecsTypeOK' /\ AutosTypeOK' /\ EngineTypeOK'
    BY <1>10, KeepsType DEF RetryRefused
  <2>2. ThreadsTypeOK'
    BY <1>10, IdleType DEF RetryRefused, ThreadsTypeOK
  <2> QED
    BY <2>1, <2>2 DEF TypeOK
<1>11. CASE FinishQueued(w)
  <2>1. RecsTypeOK'
    BY <1>11, FinishType DEF FinishQueued, Notes, ThreadsTypeOK
  <2>2. AutosTypeOK' /\ EngineTypeOK'
    BY <1>11, KeepsType DEF FinishQueued
  <2>3. ThreadsTypeOK'
    BY <1>11 DEF FinishQueued, ThreadsTypeOK
  <2> QED
    BY <2>1, <2>2, <2>3 DEF TypeOK
<1>12. CASE FinishQueuedLost(w)
  <2>1. RecsTypeOK' /\ AutosTypeOK' /\ EngineTypeOK'
    BY <1>12, KeepsType DEF FinishQueuedLost
  <2>2. ThreadsTypeOK'
    BY <1>12 DEF FinishQueuedLost, ThreadsTypeOK, Ops
  <2> QED
    BY <2>1, <2>2 DEF TypeOK
<1>13. CASE FinishQueuedRaises(w)
  <2>1. RecsTypeOK'
    BY <1>13, FinishType DEF FinishQueuedRaises, Notes, ThreadsTypeOK
  <2>2. AutosTypeOK'
    BY <1>13 DEF FinishQueuedRaises, AutosTypeOK
  <2>3. EngineTypeOK'
    BY <1>13, KeepsType DEF FinishQueuedRaises
  <2>4. ThreadsTypeOK'
    BY <1>13, IdleType DEF FinishQueuedRaises, ThreadsTypeOK
  <2> QED
    BY <2>1, <2>2, <2>3, <2>4 DEF TypeOK
<1>14. CASE Tell(w)
  <2>1. RecsTypeOK'
    BY <1>14 DEF Tell, RecsTypeOK, ThreadsTypeOK
  <2>2. AutosTypeOK' /\ EngineTypeOK'
    BY <1>14, KeepsType DEF Tell
  <2>3. ThreadsTypeOK'
    BY <1>14 DEF Tell, ThreadsTypeOK
  <2> QED
    BY <2>1, <2>2, <2>3 DEF TypeOK
<1>15. CASE FinishedAll(w)
  <2>1. RecsTypeOK' /\ AutosTypeOK' /\ EngineTypeOK'
    BY <1>15, KeepsType DEF FinishedAll
  <2>2. ThreadsTypeOK'
    <3>1. CASE Idle(w)
      BY <1>15, <3>1, IdleType DEF FinishedAll, ThreadsTypeOK
    <3>2. CASE ~Idle(w)
      BY <1>15, <3>2 DEF FinishedAll, ThreadsTypeOK, Ops
    <3> QED
      BY <3>1, <3>2
  <2> QED
    BY <2>1, <2>2 DEF TypeOK
<1>16. CASE CancelLooks(w)
  <2>1. RecsTypeOK' /\ AutosTypeOK'
    BY <1>16, KeepsType DEF CancelLooks
  <2>2. EngineTypeOK'
    BY <1>16, KeepsType, FlagType DEF CancelLooks, FlagKinds, ThreadsTypeOK
  <2>3. ThreadsTypeOK'
    <3>1. CASE Idle(w)
      BY <1>16, <3>1, IdleType DEF CancelLooks, ThreadsTypeOK
    <3>2. CASE ~Idle(w)
      BY <1>16, <3>2 DEF CancelLooks, ThreadsTypeOK, Ops
    <3> QED
      BY <3>1, <3>2
  <2> QED
    BY <2>1, <2>2, <2>3 DEF TypeOK
<1>17. CASE CancelUnmatched(w)
  <2>1. RecsTypeOK' /\ AutosTypeOK' /\ EngineTypeOK'
    BY <1>17, KeepsType DEF CancelUnmatched
  <2>2. ThreadsTypeOK'
    BY <1>17 DEF CancelUnmatched, ThreadsTypeOK, Ops, QueuedExecs
  <2> QED
    BY <2>1, <2>2 DEF TypeOK
<1>18. CASE ExpireStale(w)
  <2>1. RecsTypeOK' /\ AutosTypeOK' /\ EngineTypeOK'
    BY <1>18, KeepsType DEF ExpireStale
  <2>2. ThreadsTypeOK'
    BY <1>18 DEF ExpireStale, ThreadsTypeOK, Ops, QueuedExecs
  <2> QED
    BY <2>1, <2>2 DEF TypeOK
<1>19. CASE DrainEnds(w)
  <2>1. RecsTypeOK' /\ AutosTypeOK' /\ EngineTypeOK'
    BY <1>19, KeepsType DEF DrainEnds
  <2>2. ThreadsTypeOK'
    BY <1>19, IdleType DEF DrainEnds, ThreadsTypeOK
  <2> QED
    BY <2>1, <2>2 DEF TypeOK
<1>20. CASE DrainPromotes(w)
  <2>1. RecsTypeOK'
    BY <1>20, StatusType DEF DrainPromotes, Heads, QueuedExecs, Statuses
  <2>2. AutosTypeOK' /\ EngineTypeOK'
    BY <1>20, LaunchType DEF DrainPromotes, Heads, QueuedExecs
  <2>3. ThreadsTypeOK'
    BY <1>20, KeepsType DEF DrainPromotes
  <2> QED
    BY <2>1, <2>2, <2>3 DEF TypeOK
<1>21. CASE DrainDooms(w)
  <2>1. RecsTypeOK' /\ AutosTypeOK' /\ EngineTypeOK'
    BY <1>21, KeepsType DEF DrainDooms
  <2>2. ThreadsTypeOK'
    BY <1>21 DEF DrainDooms, ThreadsTypeOK, Heads, QueuedExecs
  <2> QED
    BY <2>1, <2>2 DEF TypeOK
<1>22. CASE DrainWriteFails(w)
  <2>1. RecsTypeOK'
    BY <1>22, FinishType DEF DrainWriteFails, Notes, Heads, QueuedExecs
  <2>2. AutosTypeOK' /\ EngineTypeOK'
    BY <1>22, KeepsType DEF DrainWriteFails
  <2>3. ThreadsTypeOK'
    BY <1>22, IdleType DEF DrainWriteFails, ThreadsTypeOK
  <2> QED
    BY <2>1, <2>2, <2>3 DEF TypeOK
<1>23. CASE DrainLaunchFails(w)
  <2>1. RecsTypeOK'
    BY <1>23, StatusType DEF DrainLaunchFails, Heads, QueuedExecs, Statuses
  <2>2. AutosTypeOK' /\ EngineTypeOK' /\ ThreadsTypeOK'
    BY <1>23, KeepsType DEF DrainLaunchFails
  <2> QED
    BY <2>1, <2>2 DEF TypeOK
<1>24. CASE StopLive(w)
  <2>1. RecsTypeOK' /\ AutosTypeOK'
    BY <1>24, KeepsType DEF StopLive
  <2>2. EngineTypeOK'
    BY <1>24, FlagType DEF StopLive, FlagKinds, ThreadsTypeOK
  <2>3. ThreadsTypeOK'
    BY <1>24 DEF StopLive, ThreadsTypeOK
  <2> QED
    BY <2>1, <2>2, <2>3 DEF TypeOK
<1>25. CASE SnapshotQueue(w)
  <2>1. RecsTypeOK' /\ AutosTypeOK' /\ EngineTypeOK'
    BY <1>25, KeepsType DEF SnapshotQueue
  <2>2. ThreadsTypeOK'
    BY <1>25 DEF SnapshotQueue, ThreadsTypeOK, Ops, QueuedExecs
  <2> QED
    BY <2>1, <2>2 DEF TypeOK
<1>26. CASE StopPromoted(w)
  <2>1. RecsTypeOK' /\ AutosTypeOK'
    BY <1>26, KeepsType DEF StopPromoted
  <2>2. EngineTypeOK'
    BY <1>26, FlagType DEF StopPromoted, FlagKinds, ThreadsTypeOK
  <2>3. ThreadsTypeOK'
    BY <1>26 DEF StopPromoted, ThreadsTypeOK
  <2> QED
    BY <2>1, <2>2, <2>3 DEF TypeOK
<1>27. CASE RemoveAutomation(w)
  <2>1. RecsTypeOK' /\ EngineTypeOK'
    BY <1>27, KeepsType DEF RemoveAutomation
  <2>2. AutosTypeOK'
    BY <1>27 DEF RemoveAutomation, AutosTypeOK
  <2>3. ThreadsTypeOK'
    BY <1>27, IdleType DEF RemoveAutomation, ThreadsTypeOK
  <2> QED
    BY <2>1, <2>2, <2>3 DEF TypeOK
<1>28. CASE RemoveFails(w)
  <2>1. RecsTypeOK' /\ EngineTypeOK'
    BY <1>28, KeepsType DEF RemoveFails
  <2>2. AutosTypeOK'
    BY <1>28 DEF RemoveFails, AutosTypeOK
  <2>3. ThreadsTypeOK'
    BY <1>28, IdleType DEF RemoveFails, ThreadsTypeOK
  <2> QED
    BY <2>1, <2>2, <2>3 DEF TypeOK
<1>29. CASE SweepKills(w)
  <2>1. RecsTypeOK' /\ AutosTypeOK'
    BY <1>29, KeepsType DEF SweepKills
  <2>2. EngineTypeOK'
    BY <1>29, FlagType DEF SweepKills, FlagKinds, ThreadsTypeOK
  <2>3. ThreadsTypeOK'
    BY <1>29 DEF SweepKills, ThreadsTypeOK
  <2> QED
    BY <2>1, <2>2, <2>3 DEF TypeOK
<1>30. CASE SweepEnds(w)
  <2>1. RecsTypeOK' /\ AutosTypeOK' /\ EngineTypeOK'
    BY <1>30, KeepsType DEF SweepEnds
  <2>2. ThreadsTypeOK'
    BY <1>30, IdleType DEF SweepEnds, ThreadsTypeOK
  <2> QED
    BY <2>1, <2>2 DEF TypeOK
<1> QED
  BY <1>1, <1>2, <1>3, <1>4, <1>5, <1>6, <1>7, <1>8, <1>9, <1>10, <1>11, <1>12, <1>13, <1>14, <1>15, <1>16, <1>17, <1>18, <1>19, <1>20, <1>21, <1>22, <1>23, <1>24, <1>25, <1>26, <1>27, <1>28, <1>29, <1>30 DEF ThreadNext

LEMMA EngineNextType ==
  ASSUME TypeOK, NEW r \in Recs, EngineNext(r) \/ WaitsTooLong(r)
  PROVE  TypeOK'
<1> USE DEF TypeOK
<1>1. CASE Decide(r)
  <2>1. RecsTypeOK'
    BY <1>1, StatusType DEF Decide, Statuses
  <2>2. AutosTypeOK'
    BY <1>1, KeepsType DEF Decide
  <2>3. EngineTypeOK'
    BY <1>1 DEF Decide, EngineTypeOK, Stages
  <2>4. ThreadsTypeOK'
    BY <1>1, KeepsType DEF Decide
  <2> QED
    BY <2>1, <2>2, <2>3, <2>4
<1>2. CASE Settle(r)
  <2>1. RecsTypeOK' /\ ThreadsTypeOK'
    BY <1>2, KeepsType DEF Settle
  <2>2. AutosTypeOK'
    BY <1>2, FreeSlotType DEF Settle
  <2>3. EngineTypeOK'
    BY <1>2 DEF Settle, EngineTypeOK, Stages
  <2> QED
    BY <2>1, <2>2, <2>3
<1>3. CASE SettleFails(r)
  <2>1. RecsTypeOK'
    BY <1>3, StatusType DEF SettleFails, Statuses
  <2>2. AutosTypeOK' /\ ThreadsTypeOK'
    BY <1>3, KeepsType DEF SettleFails
  <2>3. EngineTypeOK'
    BY <1>3 DEF SettleFails, EngineTypeOK, Stages
  <2> QED
    BY <2>1, <2>2, <2>3
<1>4. CASE Release(r)
  <2>1. RecsTypeOK'
    BY <1>4, KeepsType DEF Release
  <2>2. AutosTypeOK'
    BY <1>4, FreeSlotType DEF Release
  <2>3. EngineTypeOK'
    BY <1>4 DEF Release, EngineTypeOK, Stages
  <2>4. ThreadsTypeOK'
    BY <1>4, BeginsType DEF Release, ThreadsTypeOK, RecsTypeOK, Ops, Threads
  <2> QED
    BY <2>1, <2>2, <2>3, <2>4
<1>5. CASE WaitsTooLong(r)
  <2>1. RecsTypeOK'
    BY <1>5 DEF WaitsTooLong, RecsTypeOK
  <2>2. AutosTypeOK' /\ EngineTypeOK' /\ ThreadsTypeOK'
    BY <1>5, KeepsType DEF WaitsTooLong
  <2> QED
    BY <2>1, <2>2
<1> QED
  BY <1>1, <1>2, <1>3, <1>4, <1>5 DEF EngineNext

LEMMA RequestNextType ==
  ASSUME TypeOK, NEW w \in Threads, RequestNext(w)
  PROVE  TypeOK'
<1> USE DEF TypeOK
<1>1. ASSUME NEW a \in Autos, NEW k \in TriggerKinds, CollectFiring(w, a, k) PROVE TypeOK'
  <2>1. RecsTypeOK' /\ AutosTypeOK' /\ EngineTypeOK'
    BY <1>1, KeepsType DEF CollectFiring
  <2>2. ThreadsTypeOK'
    BY <1>1, BeginsType DEF CollectFiring, ThreadsTypeOK, Ops, Admitting
  <2> QED
    BY <2>1, <2>2
<1>2. ASSUME NEW a \in Autos, NEW o \in {"start", "queue"}, RequestStart(w, a, o) PROVE TypeOK'
  <2>1. RecsTypeOK' /\ AutosTypeOK' /\ EngineTypeOK'
    BY <1>2, KeepsType DEF RequestStart
  <2>2. ThreadsTypeOK'
    BY <1>2, BeginsType DEF RequestStart, ThreadsTypeOK, Ops, Admitting
  <2> QED
    BY <2>1, <2>2
<1>3. ASSUME NEW a \in Autos, RequestClear(w, a) PROVE TypeOK'
  <2>1. RecsTypeOK' /\ AutosTypeOK' /\ EngineTypeOK'
    BY <1>3, KeepsType DEF RequestClear
  <2>2. ThreadsTypeOK'
    BY <1>3, BeginsType DEF RequestClear, ThreadsTypeOK, Ops, Admitting, QueuedExecs
  <2> QED
    BY <2>1, <2>2
<1>4. ASSUME NEW a \in Autos, PatchLimits(w, a) PROVE TypeOK'
  <2>1. RecsTypeOK' /\ EngineTypeOK'
    BY <1>4, KeepsType DEF PatchLimits
  <2>2. AutosTypeOK'
    BY <1>4 DEF PatchLimits, AutosTypeOK
  <2>3. ThreadsTypeOK'
    BY <1>4, BeginsType DEF PatchLimits, ThreadsTypeOK, Ops, Admitting
  <2> QED
    BY <2>1, <2>2, <2>3
<1>5. ASSUME NEW a \in Autos, PatchTriggers(w, a) PROVE TypeOK'
  <2>1. RecsTypeOK' /\ EngineTypeOK'
    BY <1>5, KeepsType DEF PatchTriggers
  <2>2. AutosTypeOK'
    BY <1>5 DEF PatchTriggers, AutosTypeOK
  <2>3. ThreadsTypeOK'
    BY <1>5, BeginsType DEF PatchTriggers, ThreadsTypeOK, Ops, Admitting
  <2> QED
    BY <2>1, <2>2, <2>3
<1>6. ASSUME NEW a \in Autos, RequestDelete(w, a) PROVE TypeOK'
  <2>1. RecsTypeOK' /\ EngineTypeOK'
    BY <1>6, KeepsType DEF RequestDelete
  <2>2. AutosTypeOK'
    BY <1>6 DEF RequestDelete, AutosTypeOK, Dict, Dicts
  <2>3. ThreadsTypeOK'
    BY <1>6, BeginsType DEF RequestDelete, ThreadsTypeOK, Ops, Admitting, AutosTypeOK, Dict, Dicts
  <2> QED
    BY <2>1, <2>2, <2>3
<1>7. ASSUME NEW r \in Recs, RequestRetry(w, r) PROVE TypeOK'
  <2>1. RecsTypeOK' /\ AutosTypeOK' /\ EngineTypeOK'
    BY <1>7, KeepsType DEF RequestRetry
  <2>2. ThreadsTypeOK'
    BY <1>7, BeginsType DEF RequestRetry, ThreadsTypeOK, Ops, Admitting, RecsTypeOK
  <2> QED
    BY <2>1, <2>2
<1>8. ASSUME NEW r \in Recs, RequestCancel(w, r) PROVE TypeOK'
  <2>1. RecsTypeOK' /\ AutosTypeOK' /\ EngineTypeOK'
    BY <1>8, KeepsType DEF RequestCancel
  <2>2. ThreadsTypeOK'
    BY <1>8, BeginsType DEF RequestCancel, ThreadsTypeOK, Ops, Admitting, RecsTypeOK
  <2> QED
    BY <2>1, <2>2
<1>9. CASE KillAllLive(w)
  <2>1. RecsTypeOK' /\ AutosTypeOK'
    BY <1>9, KeepsType DEF KillAllLive
  <2>2. EngineTypeOK'
    BY <1>9 DEF KillAllLive, EngineTypeOK
  <2>3. ThreadsTypeOK'
    BY <1>9, BeginsType DEF KillAllLive, ThreadsTypeOK, Ops, Admitting
  <2> QED
    BY <2>1, <2>2, <2>3
<1> QED
  BY <1>1, <1>2, <1>3, <1>4, <1>5, <1>6, <1>7, <1>8, <1>9 DEF RequestNext

\* The variables keep their types.
THEOREM TypeCorrect == Spec => []TypeOK
<1>1. Init => TypeOK
  BY InitType
<1>2. TypeOK /\ [Next]_vars => TypeOK'
  <2> SUFFICES ASSUME TypeOK, [Next]_vars PROVE TypeOK'
    OBVIOUS
  <2>1. ASSUME NEW w \in Threads, ThreadNext(w) PROVE TypeOK'
    BY <2>1, ThreadNextType
  <2>2. ASSUME NEW r \in Recs, EngineNext(r) \/ WaitsTooLong(r) PROVE TypeOK'
    BY <2>2, EngineNextType
  <2>3. ASSUME NEW w \in Handlers \cup {Ticker}, RequestNext(w) PROVE TypeOK'
    BY <2>3, RequestNextType DEF Threads
  <2>4. ASSUME NEW a \in Autos, TickDrains(a) PROVE TypeOK'
    BY <2>4, KeepsType, BeginsType DEF TickDrains, TypeOK, ThreadsTypeOK, Threads, Ops
  <2>5. CASE SetDataPath
    <3>1. gen' \in [Autos -> Gens]
      BY <2>5, SizeAssumption DEF SetDataPath, SizeAssumption, TypeOK, AutosTypeOK, Gens
    <3>2. AutosTypeOK' /\ EngineTypeOK'
      BY <2>5, <3>1 DEF SetDataPath, TypeOK, AutosTypeOK, EngineTypeOK
    <3> QED
      BY <2>5, <3>2, KeepsType DEF SetDataPath, TypeOK
  <2>6. CASE UNCHANGED vars
    BY <2>6, KeepsType DEF TypeOK, vars
  <2> QED
    BY <2>1, <2>2, <2>3, <2>4, <2>5, <2>6 DEF Next
<1> QED
  BY <1>1, <1>2, PTL DEF Spec

-----------------------------------------------------------------------------
(***************************************************************************)
(* Safety.                                                                 *)
(***************************************************************************)
\* What makes ExecutingHasThread inductive: a number nobody has used yet names
\* no record, and a record that does not exist has no engine thread.
UnmadeIsNothing ==
    /\ \A r \in Recs : r > made => status[r] = "none"
    /\ \A r \in Recs : status[r] = "none" => thread[r] = "none"

ThreadInv == TypeOK /\ ExecutingHasThread /\ UnmadeIsNothing

\* What ThreadInv reads of the state.
fateVars == <<made, status, thread>>

LEMMA ThreadInvFrame == ThreadInv /\ TypeOK' /\ UNCHANGED fateVars => ThreadInv'
  BY DEF ThreadInv, ExecutingHasThread, UnmadeIsNothing, fateVars

LEMMA NewIsUnmade ==
  ASSUME ThreadInv, made < MaxRecs
  PROVE  New \in Recs /\ New > made /\ status[New] = "none" /\ thread[New] = "none"
  BY SizeAssumption
  DEF SizeAssumption, ThreadInv, TypeOK, RecsTypeOK, UnmadeIsNothing, New, Recs

LEMMA CreateKeeps ==
  ASSUME ThreadInv, TypeOK', NEW a, NEW s \in Statuses \ {"none", "executing"},
         NEW msg, NEW why, Create(a, s, msg, why), UNCHANGED thread
  PROVE  ThreadInv'
<1>1. made' = New /\ status' = [status EXCEPT ![New] = s] /\ made < MaxRecs
  BY DEF Create
<1>2. New \in Recs /\ New > made /\ status[New] = "none" /\ thread[New] = "none"
  BY <1>1, NewIsUnmade
<1>3. ExecutingHasThread'
  BY <1>1, <1>2 DEF ThreadInv, ExecutingHasThread, TypeOK, RecsTypeOK
<1>4. UnmadeIsNothing'
  BY <1>1, <1>2 DEF ThreadInv, UnmadeIsNothing, TypeOK, RecsTypeOK, Recs
<1> QED
  BY <1>3, <1>4 DEF ThreadInv

LEMMA StartKeeps ==
  ASSUME ThreadInv, TypeOK', NEW w \in Threads, NEW msg, StartNew(w, msg)
  PROVE  ThreadInv'
<1>1. CASE Create(on[w], "executing", msg, "none") /\ Launch(Held(w), New, TRUE)
  <2>1. /\ made < MaxRecs /\ made' = New
        /\ status' = [status EXCEPT ![New] = "executing"]
        /\ thread' = [thread EXCEPT ![New] = "run"]
    BY <1>1 DEF Create, Launch
  <2>2. New \in Recs /\ New > made
    BY <2>1, NewIsUnmade
  <2>3. ExecutingHasThread'
    BY <2>1, <2>2 DEF ThreadInv, ExecutingHasThread, TypeOK, RecsTypeOK, EngineTypeOK
  <2>4. UnmadeIsNothing'
    BY <2>1, <2>2
    DEF ThreadInv, UnmadeIsNothing, TypeOK, RecsTypeOK, EngineTypeOK, Recs
  <2> QED
    BY <2>3, <2>4 DEF ThreadInv
<1>2. CASE Create(on[w], "failed", msg, "none") /\ UNCHANGED engineVars
  BY <1>2, CreateKeeps DEF engineVars, Statuses
<1> QED
  BY <1>1, <1>2 DEF StartNew

\* A record that is not executing, and stays so, may change its status.
LEMMA EndsKeeps ==
  ASSUME ThreadInv, TypeOK', NEW r \in Recs, status[r] \notin {"none", "executing"},
         NEW s \in Statuses \ {"none", "executing"},
         status' = [status EXCEPT ![r] = s], UNCHANGED <<made, thread>>
  PROVE  ThreadInv'
  BY DEF ThreadInv, ExecutingHasThread, UnmadeIsNothing, TypeOK, RecsTypeOK

\* A record that exists gets an engine thread and is executing.
LEMMA LaunchKeeps ==
  ASSUME ThreadInv, TypeOK', NEW r \in Recs, status[r] # "none", NEW d, NEW c,
         status' = [status EXCEPT ![r] = "executing"], UNCHANGED made, Launch(d, r, c)
  PROVE  ThreadInv'
  BY DEF ThreadInv, ExecutingHasThread, UnmadeIsNothing, TypeOK, RecsTypeOK, EngineTypeOK,
         Launch

LEMMA ThreadNextKeeps ==
  ASSUME ThreadInv, TypeOK', NEW w \in Threads, ThreadNext(w)
  PROVE  ThreadInv'
<1> USE DEF recVars, autoVars, engineVars, threadVars
<1>1. CASE FireVoid(w) \/ ManualRefused(w) \/ RetryRefused(w) \/ FinishQueuedLost(w)
  BY <1>1, ThreadInvFrame
  DEF fateVars, FireVoid, ManualRefused, StartRaises, RetryRefused, FinishQueuedLost
<1>2. CASE Tell(w) \/ FinishedAll(w) \/ CancelLooks(w) \/ CancelUnmatched(w)
           \/ ExpireStale(w) \/ DrainEnds(w) \/ DrainDooms(w)
  BY <1>2, ThreadInvFrame
  DEF fateVars, Tell, FinishedAll, CancelLooks, Flag, CancelUnmatched, ExpireStale, DrainEnds,
      DrainDooms
<1>3. CASE StopLive(w) \/ SnapshotQueue(w) \/ StopPromoted(w) \/ RemoveAutomation(w) \/ RemoveFails(w)
           \/ SweepKills(w) \/ SweepEnds(w)
  BY <1>3, ThreadInvFrame
  DEF fateVars, StopLive, SnapshotQueue, StopPromoted, RemoveAutomation, RemoveFails, SweepKills,
      SweepEnds, Flag
<1>4. CASE FireJoins(w) \/ FireSkips(w) \/ ManualJoins(w)
  BY <1>4, CreateKeeps DEF FireJoins, FireSkips, ManualJoins, Statuses
<1>5. CASE FireStarts(w) \/ ManualStarts(w)
  BY <1>5, StartKeeps DEF FireStarts, ManualStarts
<1>6. CASE FireRaises(w)
  <2>1. CASE StartRaises(w, {"error", "write"})
    BY <2>1, ThreadInvFrame DEF StartRaises, fateVars
  <2>2. CASE Create(on[w], "skipped", IsMessage(w), "untold") /\ UNCHANGED engineVars
    BY <2>2, CreateKeeps DEF Statuses
  <2> QED
    BY <1>6, <2>1, <2>2 DEF FireRaises
<1>7. CASE RetryStarts(w)
  BY <1>7, LaunchKeeps
  DEF RetryStarts, RetryAdmitted, ThreadInv, TypeOK, ThreadsTypeOK
<1>8. CASE FinishQueued(w) \/ FinishQueuedRaises(w)
  BY <1>8, EndsKeeps
  DEF FinishQueued, FinishQueuedRaises, FinishNeverRan, Statuses, ThreadInv, TypeOK,
      ThreadsTypeOK
<1>9. CASE DrainPromotes(w)
  BY <1>9, LaunchKeeps DEF DrainPromotes, Heads, QueuedExecs
<1>10. CASE DrainWriteFails(w) \/ DrainLaunchFails(w)
  BY <1>10, EndsKeeps
  DEF DrainWriteFails, DrainLaunchFails, Heads, QueuedExecs, FinishNeverRan, Statuses
<1> QED
  BY <1>1, <1>2, <1>3, <1>4, <1>5, <1>6, <1>7, <1>8, <1>9, <1>10 DEF ThreadNext

LEMMA EngineNextKeeps ==
  ASSUME ThreadInv, TypeOK', NEW r \in Recs, EngineNext(r)
  PROVE  ThreadInv'
<1> USE DEF ThreadInv, ExecutingHasThread, UnmadeIsNothing, TypeOK, RecsTypeOK, EngineTypeOK
<1>1. CASE Decide(r)
  BY <1>1 DEF Decide
<1>2. CASE Settle(r) \/ Release(r)
  BY <1>2 DEF Settle, Release, recVars
<1>3. CASE SettleFails(r)
  BY <1>3 DEF SettleFails
<1> QED
  BY <1>1, <1>2, <1>3 DEF EngineNext

LEMMA RequestNextKeeps ==
  ASSUME ThreadInv, TypeOK', NEW w \in Threads, RequestNext(w)
  PROVE  ThreadInv'
  BY ThreadInvFrame
  DEF fateVars, RequestNext, CollectFiring, RequestStart, RequestClear, PatchLimits,
      PatchTriggers, RequestDelete, RequestRetry, RequestCancel, KillAllLive,
      recVars, engineVars

THEOREM ThreadInvariance == Spec => []ThreadInv
<1>1. Init => ThreadInv
  BY InitType, SizeAssumption
  DEF ThreadInv, Init, ExecutingHasThread, UnmadeIsNothing
<1>2. ThreadInv /\ TypeOK' /\ [Next]_vars => ThreadInv'
  <2> SUFFICES ASSUME ThreadInv, TypeOK', [Next]_vars PROVE ThreadInv'
    OBVIOUS
  <2>1. ASSUME NEW w \in Threads, ThreadNext(w) PROVE ThreadInv'
    BY <2>1, ThreadNextKeeps
  <2>2. ASSUME NEW r \in Recs, EngineNext(r) PROVE ThreadInv'
    BY <2>2, EngineNextKeeps
  <2>3. ASSUME NEW w \in Handlers \cup {Ticker}, RequestNext(w) PROVE ThreadInv'
    BY <2>3, RequestNextKeeps DEF Threads
  <2>4. CASE UNCHANGED vars \/ SetDataPath
             \/ (\E r \in Recs : WaitsTooLong(r)) \/ (\E a \in Autos : TickDrains(a))
    BY <2>4, ThreadInvFrame
    DEF fateVars, SetDataPath, WaitsTooLong, TickDrains, vars, recVars, engineVars
  <2> QED
    BY <2>1, <2>2, <2>3, <2>4 DEF Next
<1> QED
  BY <1>1, <1>2, TypeCorrect, PTL DEF Spec

\* A record is executing exactly as long as an engine thread is running it:
\* whatever fails or races, no execution is left behind that nobody will end.
THEOREM ExecutingAlwaysHasThread == Spec => []ExecutingHasThread
<1>1. ThreadInv => ExecutingHasThread
  BY DEF ThreadInv
<1> QED
  BY <1>1, ThreadInvariance, PTL

-----------------------------------------------------------------------------
(***************************************************************************)
(* The queue is first in, first out, as long as the wall clock is not set  *)
(* back.                                                                   *)
(***************************************************************************)
\* Records are stamped in the order in which they are made, ...
StampsInOrder == \A r \in Recs : status[r] # "none" => stamp[r] = r

\* ... and a retry judges the queue of the automation its record belongs to.
RetriesOwnRecord ==
    \A w \in Threads : op[w] = "retry" =>
       \A r \in doomed[w] : status[r] # "none" /\ owner[r] = on[w]

OrderInv == ThreadInv /\ StampsInOrder /\ RetriesOwnRecord

\* A step that makes no record.
LEMMA OrderFrame ==
  ASSUME OrderInv, ThreadInv', UNCHANGED <<owner, stamp>>,
         \A r \in Recs : status'[r] = "none" <=> status[r] = "none",
         \A w \in Threads : op'[w] = "retry" =>
             op[w] = "retry" /\ doomed'[w] = doomed[w] /\ on'[w] = on[w]
  PROVE  OrderInv'
  BY DEF OrderInv, StampsInOrder, RetriesOwnRecord, ThreadInv, TypeOK, ThreadsTypeOK

\* A step that makes the next record.
LEMMA OrderCreate ==
  ASSUME OrderInv, ThreadInv', ClockSteps = FALSE, NEW a, NEW s, NEW msg, NEW why,
         Create(a, s, msg, why),
         \A w \in Threads : op'[w] = "retry" =>
             op[w] = "retry" /\ doomed'[w] = doomed[w] /\ on'[w] = on[w]
  PROVE  OrderInv'
<1>1. /\ New \in Recs /\ status[New] = "none"
      /\ status' = [status EXCEPT ![New] = s]
      /\ owner' = [owner EXCEPT ![New] = a]
      /\ stamp' = [stamp EXCEPT ![New] = New]
  BY NewIsUnmade DEF OrderInv, Create
<1>2. StampsInOrder'
  BY <1>1 DEF OrderInv, StampsInOrder, ThreadInv, TypeOK, RecsTypeOK
<1>3. RetriesOwnRecord'
  <2> SUFFICES ASSUME NEW w \in Threads, op'[w] = "retry", NEW r \in doomed'[w]
               PROVE  status'[r] # "none" /\ owner'[r] = on'[w]
    BY DEF RetriesOwnRecord
  <2>1. r \in Recs /\ status[r] # "none" /\ owner[r] = on[w] /\ on'[w] = on[w]
    BY DEF OrderInv, RetriesOwnRecord, ThreadInv, TypeOK, ThreadsTypeOK
  <2> QED
    BY <1>1, <2>1 DEF OrderInv, ThreadInv, TypeOK, RecsTypeOK
<1> QED
  BY <1>2, <1>3 DEF OrderInv

LEMMA ThreadNextOrder ==
  ASSUME OrderInv, ThreadInv', ClockSteps = FALSE, NEW w \in Threads, ThreadNext(w)
  PROVE  OrderInv'
<1> USE DEF recVars, autoVars, engineVars, threadVars, Idle, Rests
<1>0. TypeOK /\ op \in [Threads -> Ops] /\ status \in [Recs -> Statuses]
  BY DEF OrderInv, ThreadInv, TypeOK, ThreadsTypeOK, RecsTypeOK
<1>1. CASE FireVoid(w) \/ ManualRefused(w) \/ RetryRefused(w) \/ FinishQueuedLost(w)
  BY <1>0, <1>1, OrderFrame
  DEF FireVoid, Firing, ManualRefused, Manual, StartRaises, RetryRefused, FinishQueuedLost,
      Finishing, OrderInv, ThreadInv, TypeOK, ThreadsTypeOK
<1>2. CASE Tell(w) \/ FinishedAll(w) \/ CancelLooks(w) \/ CancelUnmatched(w)
  BY <1>0, <1>2, OrderFrame
  DEF Tell, FinishedAll, CancelLooks, CancelUnmatched, TypeOK, ThreadsTypeOK
<1>3. CASE ExpireStale(w) \/ DrainEnds(w) \/ DrainDooms(w) \/ SnapshotQueue(w)
  BY <1>0, <1>3, OrderFrame
  DEF ExpireStale, DrainEnds, DrainDooms, SnapshotQueue, Draining, TypeOK, ThreadsTypeOK
<1>4. CASE StopLive(w) \/ StopPromoted(w) \/ RemoveAutomation(w) \/ RemoveFails(w)
           \/ SweepKills(w) \/ SweepEnds(w)
  BY <1>0, <1>4, OrderFrame
  DEF StopLive, StopPromoted, RemoveAutomation, RemoveFails, SweepKills, SweepEnds, TypeOK,
      ThreadsTypeOK
<1>5. CASE FireJoins(w) \/ FireSkips(w) \/ ManualJoins(w)
  BY <1>0, <1>5, OrderCreate
  DEF FireJoins, FireSkips, ManualJoins, Firing, TypeOK, ThreadsTypeOK
<1>6. CASE FireStarts(w) \/ ManualStarts(w)
  BY <1>0, <1>6, OrderCreate
  DEF FireStarts, ManualStarts, StartNew, Firing, Manual, TypeOK, ThreadsTypeOK
<1>7. CASE FireRaises(w)
  <2>1. CASE StartRaises(w, {"error", "write"})
    BY <1>0, <1>7, <2>1, OrderFrame
    DEF FireRaises, StartRaises, Firing, TypeOK, ThreadsTypeOK
  <2>2. CASE Create(on[w], "skipped", IsMessage(w), "untold")
    BY <1>0, <1>7, <2>2, OrderCreate DEF FireRaises, Firing, TypeOK, ThreadsTypeOK
  <2> QED
    BY <1>7, <2>1, <2>2 DEF FireRaises
<1>8. CASE RetryStarts(w) \/ FinishQueued(w) \/ FinishQueuedRaises(w)
  BY <1>0, <1>8, OrderFrame
  DEF RetryStarts, RetryAdmitted, FinishQueued, FinishQueuedRaises, FinishNeverRan, Finishing,
      TypeOK, ThreadsTypeOK
<1>9. CASE DrainPromotes(w) \/ DrainLaunchFails(w)
  BY <1>0, <1>9, OrderFrame DEF DrainPromotes, DrainLaunchFails, Heads, QueuedExecs
<1>10. CASE DrainWriteFails(w)
  BY <1>0, <1>10, OrderFrame
  DEF DrainWriteFails, FinishNeverRan, Heads, QueuedExecs, Draining, TypeOK, ThreadsTypeOK
<1> QED
  BY <1>1, <1>2, <1>3, <1>4, <1>5, <1>6, <1>7, <1>8, <1>9, <1>10 DEF ThreadNext

LEMMA EngineNextOrder ==
  ASSUME OrderInv, ThreadInv', NEW r \in Recs, EngineNext(r)
  PROVE  OrderInv'
<1>0. TypeOK /\ ExecutingHasThread /\ UnmadeIsNothing
  BY DEF OrderInv, ThreadInv
<1> USE DEF TypeOK, RecsTypeOK, ThreadsTypeOK
<1>1. CASE Decide(r)
  BY <1>0, <1>1, OrderFrame DEF Decide, threadVars, UnmadeIsNothing
<1>2. CASE Settle(r)
  BY <1>0, <1>2, OrderFrame DEF Settle, recVars, threadVars
<1>3. CASE SettleFails(r)
  BY <1>0, <1>3, OrderFrame DEF SettleFails, threadVars, UnmadeIsNothing
<1>4. CASE Release(r)
  BY <1>0, <1>4, OrderFrame DEF Release, Begins, recVars, Threads
<1> QED
  BY <1>1, <1>2, <1>3, <1>4 DEF EngineNext

LEMMA RequestNextOrder ==
  ASSUME OrderInv, ThreadInv', NEW w \in Threads, RequestNext(w)
  PROVE  OrderInv'
<1>0. TypeOK
  BY DEF OrderInv, ThreadInv
<1> USE DEF TypeOK, ThreadsTypeOK, Begins, recVars
<1>1. ASSUME NEW r \in Recs, RequestRetry(w, r) PROVE OrderInv'
  BY <1>0, <1>1 DEF RequestRetry, OrderInv, StampsInOrder, RetriesOwnRecord
<1>2. ASSUME NEW r \in Recs, RequestCancel(w, r) PROVE OrderInv'
  BY <1>0, <1>2, OrderFrame DEF RequestCancel
<1>3. CASE KillAllLive(w)
  BY <1>0, <1>3, OrderFrame DEF KillAllLive
<1>4. ASSUME NEW a \in Autos, NEW k \in TriggerKinds, CollectFiring(w, a, k) PROVE OrderInv'
  BY <1>0, <1>4, OrderFrame DEF CollectFiring
<1>5. ASSUME NEW a \in Autos, NEW o \in {"start", "queue"}, RequestStart(w, a, o)
      PROVE  OrderInv'
  BY <1>0, <1>5, OrderFrame DEF RequestStart
<1>6. ASSUME NEW a \in Autos, RequestClear(w, a) \/ PatchLimits(w, a) \/ PatchTriggers(w, a)
                              \/ RequestDelete(w, a)
      PROVE  OrderInv'
  BY <1>0, <1>6, OrderFrame DEF RequestClear, PatchLimits, PatchTriggers, RequestDelete
<1> QED
  BY <1>1, <1>2, <1>3, <1>4, <1>5, <1>6 DEF RequestNext

THEOREM OrderInvariance == ClockSteps = FALSE /\ Spec => []OrderInv
<1> SUFFICES ASSUME ClockSteps = FALSE PROVE Spec => []OrderInv
  OBVIOUS
<1>1. Init /\ ThreadInv => OrderInv
  BY DEF Init, OrderInv, StampsInOrder, RetriesOwnRecord
<1>2. OrderInv /\ ThreadInv' /\ [Next]_vars => OrderInv'
  <2> SUFFICES ASSUME OrderInv, ThreadInv', [Next]_vars PROVE OrderInv'
    OBVIOUS
  <2>1. ASSUME NEW w \in Threads, ThreadNext(w) PROVE OrderInv'
    BY <2>1, ThreadNextOrder
  <2>2. ASSUME NEW r \in Recs, EngineNext(r) PROVE OrderInv'
    BY <2>2, EngineNextOrder
  <2>3. ASSUME NEW w \in Handlers \cup {Ticker}, RequestNext(w) PROVE OrderInv'
    BY <2>3, RequestNextOrder DEF Threads
  <2>4. CASE UNCHANGED vars \/ SetDataPath \/ (\E r \in Recs : WaitsTooLong(r))
    BY <2>4, OrderFrame DEF SetDataPath, WaitsTooLong, vars, recVars, threadVars
  <2>5. ASSUME NEW a \in Autos, TickDrains(a) PROVE OrderInv'
    BY <2>5, OrderFrame
    DEF TickDrains, Begins, recVars, OrderInv, ThreadInv, TypeOK, ThreadsTypeOK, Threads
  <2> QED
    BY <2>1, <2>2, <2>3, <2>4, <2>5 DEF Next
<1> QED
  BY <1>1, <1>2, ThreadInvariance, PTL DEF Spec

\* What a thread starts is the oldest entry of its automation, or a record of
\* an automation with an empty queue.
LEMMA StartsInOrder ==
  ASSUME OrderInv, [Next]_vars,
         NEW r \in Recs, status[r] # "executing", status'[r] = "executing",
         NEW q \in QueuedExecs(owner'[r])
  PROVE  r <= q
<1>0. /\ TypeOK /\ StampsInOrder /\ RetriesOwnRecord /\ UnmadeIsNothing
      /\ q \in Recs /\ status[q] = "queued" /\ owner[q] = owner'[r]
      /\ status \in [Recs -> Statuses] /\ owner \in [Recs -> Autos \cup {NoAuto}]
  BY DEF OrderInv, ThreadInv, QueuedExecs, TypeOK, RecsTypeOK
<1> USE <1>0
<1>1. ASSUME NEW w \in Threads, NEW msg, StartNew(w, msg) PROVE FALSE
  <2>1. Create(on[w], "executing", msg, "none") \/ Create(on[w], "failed", msg, "none")
    BY <1>1 DEF StartNew
  <2>2. New \in Recs
    BY <2>1, SizeAssumption DEF SizeAssumption, Create, New, Recs, TypeOK, RecsTypeOK
  <2>3. r = New /\ owner'[r] = on[w]
    BY <2>1, <2>2 DEF Create
  <2>4. q \notin QueuedExecs(on[w])
    BY <1>1 DEF StartNew, AdmissionBlocked, Held
  <2> QED
    BY <2>3, <2>4
<1>2. ASSUME NEW w \in Threads, RetryStarts(w) PROVE FALSE
  <2>1. PICK s \in doomed[w] :
           RetryAdmitted(w, s) /\ status' = [status EXCEPT ![s] = "executing"]
    BY <1>2 DEF RetryStarts
  <2>2. r = s /\ owner' = owner /\ owner[r] = on[w]
    BY <1>2, <2>1 DEF RetryStarts, RetriesOwnRecord, TypeOK, ThreadsTypeOK
  <2>3. q \notin QueuedExecs(on[w])
    BY <2>1 DEF RetryAdmitted, AdmissionBlocked, Held
  <2> QED
    BY <2>2, <2>3 DEF QueuedExecs
<1>3. ASSUME NEW w \in Threads, DrainPromotes(w) PROVE r <= q
  <2>1. PICK s \in Heads(on[w]) : status' = [status EXCEPT ![s] = "executing"]
    BY <1>3 DEF DrainPromotes
  <2>2. r = s /\ owner' = owner /\ stamp[r] <= stamp[q]
    BY <1>3, <2>1 DEF DrainPromotes, Heads, QueuedExecs
  <2>3. stamp[r] = r /\ stamp[q] = q
    BY <2>1, <2>2 DEF StampsInOrder, Heads, QueuedExecs
  <2> QED
    BY <2>2, <2>3
<1>4. ASSUME NEW s, NEW a, NEW msg, NEW why, s # "executing", Create(a, s, msg, why)
      PROVE  FALSE
  BY <1>4, SizeAssumption DEF SizeAssumption, Create, New, Recs, TypeOK, RecsTypeOK
<1>5. ASSUME NEW w \in Threads, ThreadNext(w) PROVE r <= q
  <2> USE DEF recVars
  <2>1. CASE FireStarts(w) \/ ManualStarts(w)
    BY <2>1, <1>1 DEF FireStarts, ManualStarts
  <2>2. CASE RetryStarts(w) \/ DrainPromotes(w)
    BY <2>2, <1>2, <1>3
  <2>3. CASE FireJoins(w) \/ FireSkips(w) \/ ManualJoins(w) \/ FireRaises(w)
    BY <2>3, <1>4 DEF FireJoins, FireSkips, ManualJoins, FireRaises, StartRaises
  <2>4. CASE FireVoid(w) \/ ManualRefused(w) \/ RetryRefused(w) \/ FinishQueuedLost(w)
             \/ Tell(w) \/ FinishedAll(w) \/ CancelLooks(w) \/ CancelUnmatched(w)
    BY <2>4 DEF FireVoid, ManualRefused, StartRaises, RetryRefused, FinishQueuedLost, Tell,
                FinishedAll, CancelLooks, CancelUnmatched
  <2>5. CASE ExpireStale(w) \/ DrainEnds(w) \/ DrainDooms(w) \/ SnapshotQueue(w)
             \/ StopLive(w) \/ StopPromoted(w) \/ RemoveAutomation(w) \/ RemoveFails(w)
             \/ SweepKills(w) \/ SweepEnds(w)
    BY <2>5 DEF ExpireStale, DrainEnds, DrainDooms, SnapshotQueue, StopLive, StopPromoted,
                RemoveAutomation, RemoveFails, SweepKills, SweepEnds
  <2>6. CASE FinishQueued(w) \/ FinishQueuedRaises(w)
    BY <2>6 DEF FinishQueued, FinishQueuedRaises, FinishNeverRan, TypeOK, ThreadsTypeOK
  <2>7. CASE DrainWriteFails(w) \/ DrainLaunchFails(w)
    BY <2>7 DEF DrainWriteFails, DrainLaunchFails, FinishNeverRan, Heads, QueuedExecs
  <2> QED
    BY <1>5, <2>1, <2>2, <2>3, <2>4, <2>5, <2>6, <2>7 DEF ThreadNext
<1>6. ASSUME NEW s \in Recs, EngineNext(s) \/ WaitsTooLong(s) PROVE FALSE
  BY <1>6
  DEF EngineNext, Decide, Settle, SettleFails, Release, WaitsTooLong, recVars
<1>7. ASSUME NEW w \in Threads, RequestNext(w) PROVE FALSE
  BY <1>7
  DEF RequestNext, CollectFiring, RequestStart, RequestClear, PatchLimits, PatchTriggers,
      RequestDelete, RequestRetry, RequestCancel, KillAllLive, recVars
<1>8. ~(UNCHANGED vars) /\ ~SetDataPath /\ (\A a \in Autos : ~TickDrains(a))
  BY DEF SetDataPath, TickDrains, vars, recVars
<1> QED
  BY <1>5, <1>6, <1>7, <1>8 DEF Next, Threads

\* Nothing jumps the queue, whatever threads race to admit, promote or retry:
\* as long as the wall clock never steps back.
THEOREM QueueIsFIFO == ClockSteps = FALSE /\ Spec => NothingJumpsTheQueue
<1> SUFFICES ASSUME ClockSteps = FALSE PROVE Spec => NothingJumpsTheQueue
  OBVIOUS
<1>1. OrderInv /\ [Next]_vars =>
        [\A r \in Recs :
           status[r] # "executing" /\ status'[r] = "executing"
           => \A q \in QueuedExecs(owner'[r]) : r <= q]_vars
  BY StartsInOrder
<1> QED
  BY <1>1, OrderInvariance, PTL DEF Spec, NothingJumpsTheQueue

-----------------------------------------------------------------------------
(***************************************************************************)
(* Shutdown.                                                               *)
(***************************************************************************)
SweepInv == TypeOK /\ SweepMissesNone

\* A step that starts nothing and leaves every sweep its list.
LEMMA SweepFrame ==
  ASSUME SweepInv, TypeOK', stopping' = stopping,
         \A r \in Recs : stopping /\ thread'[r] = "run" =>
             thread[r] = "run" /\ ("shutdown" \in flags[r] => "shutdown" \in flags'[r]),
         \A w \in Threads : op[w] = "sweep" => op'[w] = "sweep" /\ doomed'[w] = doomed[w]
  PROVE  SweepInv'
  BY DEF SweepInv, SweepMissesNone

LEMMA ThreadNextSweep ==
  ASSUME SweepInv, TypeOK', NEW w \in Threads, ThreadNext(w)
  PROVE  SweepInv'
<1>0. TypeOK /\ op \in [Threads -> Ops] /\ doomed \in [Threads -> SUBSET Recs]
      /\ thread \in [Recs -> Stages] /\ flags \in [Recs -> SUBSET FlagKinds]
  BY DEF SweepInv, TypeOK, ThreadsTypeOK, EngineTypeOK
<1> USE <1>0 DEF recVars, autoVars, engineVars, threadVars, Idle, Rests
<1>1. CASE FireVoid(w) \/ FireJoins(w) \/ FireSkips(w) \/ FireRaises(w)
  BY <1>1, SweepFrame DEF FireVoid, FireJoins, FireSkips, FireRaises, StartRaises, Firing
<1>2. CASE FireStarts(w) \/ ManualStarts(w) \/ RetryStarts(w)
  BY <1>2, SweepFrame
  DEF FireStarts, ManualStarts, StartNew, RetryStarts, RetryAdmitted, Refused, Launch, Firing,
      Manual
<1>3. CASE ManualRefused(w) \/ ManualJoins(w) \/ RetryRefused(w)
  BY <1>3, SweepFrame DEF ManualRefused, StartRaises, ManualJoins, RetryRefused, Manual
<1>4. CASE FinishQueued(w) \/ FinishQueuedLost(w) \/ FinishQueuedRaises(w)
  BY <1>4, SweepFrame DEF FinishQueued, FinishQueuedLost, FinishQueuedRaises, Finishing
<1>5. CASE Tell(w) \/ FinishedAll(w) \/ CancelUnmatched(w) \/ ExpireStale(w)
  BY <1>5, SweepFrame DEF Tell, FinishedAll, CancelUnmatched, ExpireStale
<1>6. CASE CancelLooks(w) \/ StopLive(w) \/ StopPromoted(w)
  BY <1>6, SweepFrame DEF CancelLooks, StopLive, StopPromoted, Flag
<1>7. CASE DrainEnds(w) \/ DrainDooms(w) \/ DrainWriteFails(w) \/ DrainLaunchFails(w)
  BY <1>7, SweepFrame
  DEF DrainEnds, DrainDooms, DrainWriteFails, DrainLaunchFails, Draining
<1>8. CASE DrainPromotes(w)
  BY <1>8, SweepFrame DEF DrainPromotes, Refused, Launch
<1>9. CASE SnapshotQueue(w) \/ RemoveAutomation(w) \/ RemoveFails(w)
  BY <1>9, SweepFrame DEF SnapshotQueue, RemoveAutomation, RemoveFails
<1>10. CASE SweepKills(w)
  <2>1. PICK s \in doomed[w] :
           Flag(s, "shutdown") /\ doomed' = [doomed EXCEPT ![w] = @ \ {s}]
    BY <1>10 DEF SweepKills
  <2> SUFFICES ASSUME stopping, NEW r \in Recs, thread[r] = "run"
               PROVE  \/ "shutdown" \in flags'[r]
                      \/ \E v \in Threads : op'[v] = "sweep" /\ r \in doomed'[v]
    BY <1>10, <2>1 DEF SweepInv, SweepMissesNone, SweepKills, Flag
  <2>2. CASE r = s
    BY <2>1, <2>2 DEF Flag
  <2>3. CASE r # s
    BY <1>10, <2>1, <2>3 DEF SweepInv, SweepMissesNone, SweepKills, Flag
  <2> QED
    BY <2>2, <2>3
<1>11. CASE SweepEnds(w)
  BY <1>11 DEF SweepEnds, SweepInv, SweepMissesNone
<1> QED
  BY <1>1, <1>2, <1>3, <1>4, <1>5, <1>6, <1>7, <1>8, <1>9, <1>10, <1>11 DEF ThreadNext

LEMMA EngineNextSweep ==
  ASSUME SweepInv, TypeOK', NEW r \in Recs, EngineNext(r) \/ WaitsTooLong(r)
  PROVE  SweepInv'
  BY SweepFrame
  DEF SweepInv, TypeOK, ThreadsTypeOK, EngineTypeOK, EngineNext, Decide, Settle, SettleFails,
      Release, WaitsTooLong, Begins, Threads, engineVars, threadVars

LEMMA RequestNextSweep ==
  ASSUME SweepInv, TypeOK', NEW w \in Threads, RequestNext(w)
  PROVE  SweepInv'
<1> USE DEF SweepInv, TypeOK, ThreadsTypeOK, Begins, engineVars
<1>1. CASE KillAllLive(w)
  BY <1>1 DEF KillAllLive, SweepMissesNone, IsLive
<1>2. ASSUME NEW r \in Recs, RequestRetry(w, r) \/ RequestCancel(w, r) PROVE SweepInv'
  BY <1>2, SweepFrame DEF RequestRetry, RequestCancel
<1>3. ASSUME NEW a \in Autos, NEW k \in TriggerKinds, CollectFiring(w, a, k) PROVE SweepInv'
  BY <1>3, SweepFrame DEF CollectFiring
<1>4. ASSUME NEW a \in Autos, NEW o \in {"start", "queue"}, RequestStart(w, a, o)
      PROVE  SweepInv'
  BY <1>4, SweepFrame DEF RequestStart
<1>5. ASSUME NEW a \in Autos, RequestClear(w, a) \/ PatchLimits(w, a) \/ PatchTriggers(w, a)
                              \/ RequestDelete(w, a)
      PROVE  SweepInv'
  BY <1>5, SweepFrame DEF RequestClear, PatchLimits, PatchTriggers, RequestDelete
<1> QED
  BY <1>1, <1>2, <1>3, <1>4, <1>5 DEF RequestNext

\* The kill sweep of a shutdown misses no execution: whatever was admitted
\* before it began is on its list or has been told.
THEOREM SweepNeverMisses == Spec => []SweepMissesNone
<1>1. Init /\ TypeOK => SweepInv
  BY DEF Init, SweepInv, SweepMissesNone
<1>2. SweepInv /\ TypeOK' /\ [Next]_vars => SweepInv'
  <2> SUFFICES ASSUME SweepInv, TypeOK', [Next]_vars PROVE SweepInv'
    OBVIOUS
  <2>1. ASSUME NEW w \in Threads, ThreadNext(w) PROVE SweepInv'
    BY <2>1, ThreadNextSweep
  <2>2. ASSUME NEW r \in Recs, EngineNext(r) \/ WaitsTooLong(r) PROVE SweepInv'
    BY <2>2, EngineNextSweep
  <2>3. ASSUME NEW w \in Handlers \cup {Ticker}, RequestNext(w) PROVE SweepInv'
    BY <2>3, RequestNextSweep DEF Threads
  <2>4. ASSUME NEW a \in Autos, TickDrains(a) PROVE SweepInv'
    BY <2>4, SweepFrame
    DEF SweepInv, TypeOK, ThreadsTypeOK, TickDrains, Begins, Threads, engineVars
  <2>5. CASE UNCHANGED vars \/ SetDataPath
    BY <2>5, SweepFrame DEF SetDataPath, vars, engineVars, threadVars
  <2> QED
    BY <2>1, <2>2, <2>3, <2>4, <2>5 DEF Next
<1>3. SweepInv => SweepMissesNone
  BY DEF SweepInv
<1> QED
  BY <1>1, <1>2, <1>3, TypeCorrect, PTL DEF Spec
=============================================================================
