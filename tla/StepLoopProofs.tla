--------------------------- MODULE StepLoopProofs ---------------------------
(***************************************************************************)
(* Theorems about StepLoop, for any number of steps, retries and passes:   *)
(* types, what the final status of a record tells, that only a step a skip *)
(* was accepted for is skipped, that no signal is outrun by a starting     *)
(* process, that the record tells what the attempts did, and that the step *)
(* loop implements StepPass.                                               *)
(***************************************************************************)
EXTENDS StepLoop, TLAPS

(***************************************************************************)
(* Types                                                                   *)
(***************************************************************************)
\* The verdict on an attempt is a final status.
LEMMA OutcomeType == Outcome \in Ended
BY DEF Outcome, Ended, Done

\* The record ends in a final status.
LEMMA FinalStatusType == FinalStatus \in Terminal
BY DEF FinalStatus, Terminal

\* The steps of the engine thread keep the types of the record.
LEMMA RecStep ==
  ASSUME RecTypeOK, LoopTypeOK, Next
  PROVE  RecTypeOK'
<1> USE StepsAssumption DEF StepsAssumption, RecTypeOK, Ended, Done, Steps, recVars
<1>1. CASE \/ Prologue \/ HeadPasses \/ Spawn \/ NothingToRun \/ Recheck \/ Reap
           \/ Leave \/ WritesVerdict \/ Notify \/ GoesOver \/ GraceEnds
  BY <1>1 DEF Prologue, HeadPasses, Spawn, NothingToRun, Recheck, Reap, Leave, WritesVerdict,
              Notify, GoesOver,
              GraceEnds
<1>2. CASE HeadCloses
  BY <1>2 DEF HeadCloses, ClosedStatus
<1>3. CASE HeadBegins \/ TriesAgain
  BY <1>3 DEF HeadBegins, TriesAgain, AppendAttempt, Mark
<1>4. CASE GivesUpRetry
  BY <1>4 DEF GivesUpRetry, Mark, Fold
<1>5. CASE JudgeRetries
  BY <1>5 DEF JudgeRetries, Mark
<1>6. CASE JudgeEnds
  BY <1>6, OutcomeType DEF JudgeEnds, Mark, Fold
<1>7. CASE Finalize
  BY <1>7, FinalStatusType DEF Finalize, CutShort, Terminal
<1>8. CASE EngineError
  BY <1>8 DEF EngineError, FailRecord, Terminal
<1>9. CASE Retry
  BY <1>9 DEF Retry, Requeued
<1>10. CASE \E c \in {"ok", "bad", "verdict"} : Exits(c)
  BY <1>10 DEF Exits
<1>11. CASE Callers
  BY <1>11 DEF Callers, CancelFlags, CancelLooks, CancelSignals, SkipAccepts, SkipSignals,
               SweepLists, SweepFlags, SweepKills
<1> QED
  BY <1>1, <1>2, <1>3, <1>4, <1>5, <1>6, <1>7, <1>8, <1>9, <1>10, <1>11
  DEF Next, EngineThread, Process

\* So do the steps of the loop, of its own variables.
LEMMA LoopStep ==
  ASSUME RecTypeOK, LoopTypeOK, Next
  PROVE  LoopTypeOK'
<1> USE StepsAssumption DEF StepsAssumption, LoopTypeOK, InStep, Places, Steps, NoStep, loopVars
<1>1. CASE Prologue
  <2>1. failed' \in BOOLEAN
    BY <1>1, Zenon DEF Prologue
  <2> QED
    BY <1>1, <2>1 DEF Prologue
<1>9. CASE HeadPasses \/ HeadCloses
  BY <1>9 DEF HeadPasses, HeadCloses, AtHead
<1>2. CASE HeadBegins \/ TriesAgain
  BY <1>2 DEF HeadBegins, TriesAgain, AppendAttempt, AtHead
<1>3. CASE GivesUpRetry \/ Spawn \/ NothingToRun \/ Recheck \/ Reap
  BY <1>3 DEF GivesUpRetry, Spawn, NothingToRun, Recheck, Reap
<1>4. CASE JudgeRetries \/ JudgeEnds
  <2>1. failed' \in BOOLEAN
    BY <1>4 DEF JudgeRetries, JudgeEnds
  <2>2. pc' \in {"again", "leave"} /\ pc = "judge" /\ tries' \in Nat /\ UNCHANGED <<at, cur, passes>>
    BY <1>4 DEF JudgeRetries, JudgeEnds
  <2> QED
    BY <2>1, <2>2
<1>5. CASE Leave \/ Finalize \/ WritesVerdict \/ Notify \/ GoesOver
  BY <1>5 DEF Leave, Finalize, WritesVerdict, Notify, GoesOver
<1>6. CASE EngineError
  BY <1>6 DEF EngineError
<1>10. CASE Retry
  <2>1. pc' = "prologue" /\ at' = 1 /\ tries' = 0 /\ failed' = FALSE /\ passes' = passes + 1
        /\ cur' = cur
    BY <1>10, Zenon DEF Retry
  <2>2. at' \in 1..(NumSteps + 1) /\ passes' \in Nat /\ tries' \in Nat
    BY <2>1
  <2> QED
    BY <2>1, <2>2, Zenon
<1>7. CASE Process
  BY <1>7 DEF Process, GraceEnds, Exits
<1>8. CASE Callers
  BY <1>8 DEF Callers, CancelFlags, CancelLooks, CancelSignals, SkipAccepts, SkipSignals,
              SweepLists, SweepFlags, SweepKills
<1> QED
  BY <1>1, <1>2, <1>3, <1>4, <1>5, <1>6, <1>7, <1>8, <1>9, <1>10 DEF Next, EngineThread

\* And every step those of the engine state, the process and the callers.
LEMMA CallStep ==
  ASSUME CallTypeOK, Next
  PROVE  CallTypeOK'
<1> USE DEF CallTypeOK, stateVars, procVars, callVars
<1>1. CASE \/ Prologue \/ HeadPasses \/ HeadCloses \/ HeadBegins \/ Leave \/ Finalize
           \/ WritesVerdict \/ Notify
           \/ GoesOver
  BY <1>1 DEF Prologue, HeadPasses, HeadCloses, HeadBegins, Leave, Finalize, WritesVerdict, Notify,
              GoesOver
<1>2. CASE GivesUpRetry \/ TriesAgain \/ JudgeRetries \/ JudgeEnds
  BY <1>2 DEF GivesUpRetry, TriesAgain, JudgeRetries, JudgeEnds
<1>3. CASE Spawn \/ NothingToRun \/ Recheck \/ Reap
  BY <1>3 DEF Spawn, NothingToRun, Recheck, Reap
<1>4. CASE EngineError \/ Retry
  BY <1>4 DEF EngineError, Retry
<1>5. CASE Process
  BY <1>5 DEF Process, GraceEnds, Exits
<1>6. CASE CancelFlags \/ CancelLooks \/ CancelSignals
  BY <1>6 DEF CancelFlags, CancelLooks, CancelSignals, Terminate
<1>7. CASE (\E s \in Steps : SkipAccepts(s)) \/ SkipSignals
  BY <1>7 DEF SkipAccepts, SkipSignals, Terminate
<1>8. CASE SweepLists \/ SweepFlags \/ SweepKills
  BY <1>8 DEF SweepLists, SweepFlags, SweepKills
<1> QED
  BY <1>1, <1>2, <1>3, <1>4, <1>5, <1>6, <1>7, <1>8 DEF Next, EngineThread, Callers

\* At the start every variable has its type.
LEMMA InitType == Init => TypeOK
<1> SUFFICES ASSUME Init PROVE TypeOK
  OBVIOUS
<1>1. RecTypeOK
  BY DEF Init, RecTypeOK, Ended, Done
<1>2. LoopTypeOK
  <2>1. 1 \in 1..(NumSteps + 1) /\ 0 \in Nat /\ 1 \in Nat
    BY StepsAssumption DEF StepsAssumption
  <2> QED
    BY <2>1, Zenon DEF Init, LoopTypeOK, Places, InStep
<1>3. CallTypeOK
  BY Zenon DEF Init, CallTypeOK
<1> QED
  BY <1>1, <1>2, <1>3 DEF TypeOK

\* And no step, of whichever thread, takes one out of it.
LEMMA NextType ==
  ASSUME TypeOK, [Next]_vars
  PROVE  TypeOK'
<1>1. CASE Next
  BY <1>1, RecStep, LoopStep, CallStep DEF TypeOK
<1>2. CASE UNCHANGED vars
  BY <1>2 DEF TypeOK, RecTypeOK, LoopTypeOK, CallTypeOK, vars, recVars, loopVars, stateVars,
              procVars, callVars
<1> QED
  BY <1>1, <1>2

\* Every variable keeps its type, for any number of steps, retries and passes.
THEOREM TypeCorrect == Spec => []TypeOK
BY InitType, NextType, PTL DEF Spec

(***************************************************************************)
(* The order of the loop                                                   *)
(***************************************************************************)
\* A step the loop has dealt with in this pass: what is not done says why.
Settled(s) ==
    \/ step[s] \in Done
    \/ step[s] \in {"failed", "queued"} /\ failed
    \/ step[s] = "interrupted" /\ shutdown
    \/ step[s] = "cancelled" /\ cancel

\* A step the loop has yet to come to.
Ahead(s) == step[s] \notin {"executing", "failed"}

HeadInv ==
    pc \in {"prologue", "head"} =>
       /\ pc = "prologue" => at = 1
       /\ \A s \in Steps : (s < at => Settled(s)) /\ (s >= at => Ahead(s))

StepInv ==
    pc \in InStep =>
       /\ \A s \in Steps : s > at => Ahead(s)
       /\ pc # "leave" => \A s \in Steps : s < at => step[s] \in Done
       /\ pc = "leave" => \A s \in Steps : s <= at => Settled(s)
       /\ pc \in {"ready", "spawned", "running", "judge"} => step[at] = "executing"
       /\ pc = "again" => step[at] = "failed"

RecordInv == record = "executing" <=> pc \notin {"decided", "written", "closed", "over"}

LoopInv == TypeOK /\ HeadInv /\ StepInv /\ RecordInv /\ VerdictFitsSteps

\* The order of the loop at the start.
LEMMA InitLoop == Init => HeadInv /\ StepInv /\ RecordInv /\ VerdictFitsSteps
BY StepsAssumption DEF StepsAssumption, Init, HeadInv, StepInv, RecordInv, VerdictFitsSteps,
   Settled, Ahead, InStep, Steps

\* A step that leaves the loop and its record alone, and at most raises flags.
LoopRests == UNCHANGED <<record, step, at, failed>> /\ (cancel => cancel') /\ (shutdown => shutdown')

\* Places the loop goes through with the record and the step it is at unchanged.
SamePlace ==
    \/ pc' = pc
    \/ pc \in {"ready", "spawned", "running"} /\ pc' \in {"spawned", "running", "judge"}
    \/ pc \in {"decided", "written", "closed"} /\ pc' \in {"written", "closed", "over"}

\* A step of that kind does not disturb the order of the loop.
LEMMA RestsLoop ==
  ASSUME LoopInv, LoopRests, SamePlace
  PROVE  HeadInv' /\ StepInv' /\ RecordInv' /\ VerdictFitsSteps'
<1> USE DEF LoopInv, LoopRests, SamePlace, Settled, Ahead
<1>1. HeadInv'
  BY DEF HeadInv
<1>2. StepInv'
  BY DEF HeadInv, StepInv, InStep
<1>3. RecordInv'
  BY DEF RecordInv
<1>4. VerdictFitsSteps'
  BY DEF VerdictFitsSteps, Some
<1> QED
  BY <1>1, <1>2, <1>3, <1>4

\* What the loop does not do itself is a step of that kind.
LEMMA OthersRest ==
  ASSUME Process \/ Callers \/ Spawn \/ NothingToRun \/ Recheck \/ Reap \/ WritesVerdict
         \/ Notify \/ GoesOver
  PROVE  LoopRests /\ SamePlace
<1> USE DEF LoopRests, SamePlace, recVars, loopVars, stateVars
<1>1. CASE Process
  BY <1>1 DEF Process, GraceEnds, Exits
<1>2. CASE CancelFlags \/ CancelLooks \/ CancelSignals
  BY <1>2 DEF CancelFlags, CancelLooks, CancelSignals
<1>3. CASE (\E s \in Steps : SkipAccepts(s)) \/ SkipSignals
  BY <1>3 DEF SkipAccepts, SkipSignals
<1>4. CASE SweepLists \/ SweepFlags \/ SweepKills
  BY <1>4 DEF SweepLists, SweepFlags, SweepKills
<1>5. CASE Spawn \/ NothingToRun \/ Recheck \/ Reap
  BY <1>5 DEF Spawn, NothingToRun, Recheck, Reap
<1>6. CASE WritesVerdict \/ Notify \/ GoesOver
  BY <1>6 DEF WritesVerdict, Notify, GoesOver
<1> QED
  BY <1>1, <1>2, <1>3, <1>4, <1>5, <1>6 DEF Callers

\* The head of the loop.
LEMMA HeadLoop ==
  ASSUME LoopInv, Prologue \/ HeadPasses \/ HeadCloses \/ HeadBegins
  PROVE  HeadInv' /\ StepInv' /\ RecordInv' /\ VerdictFitsSteps'
<1> USE StepsAssumption DEF StepsAssumption, LoopInv, TypeOK, RecTypeOK, LoopTypeOK, HeadInv,
        StepInv, RecordInv, Settled, Ahead, Steps, recVars, stateVars, AtHead, InStep
<1>1. CASE Prologue
  <2>1. /\ pc = "prologue" /\ pc' = "head" /\ at = 1
        /\ UNCHANGED <<record, step, at, cancel, shutdown>>
    BY <1>1, Zenon DEF Prologue
  <2> QED
    BY <2>1 DEF VerdictFitsSteps, Some
<1>2. CASE HeadPasses
  BY <1>2 DEF HeadPasses, VerdictFitsSteps, Some
<1>3. CASE HeadCloses
  <2>1. /\ pc = "head" /\ pc' = "head" /\ at \in Steps /\ at' = at + 1
        /\ UNCHANGED <<record, failed, cancel, shutdown>>
        /\ step' = [step EXCEPT ![at] = ClosedStatus]
    BY <1>3, Zenon DEF HeadCloses
  <2>2. \/ ClosedStatus = "interrupted" /\ shutdown
        \/ ClosedStatus = "cancelled" /\ cancel
        \/ ClosedStatus = "queued" /\ failed
    BY <1>3, Zenon DEF HeadCloses, NoMoreSteps, Stopped, ClosedStatus
  <2> QED
    BY <2>1, <2>2 DEF VerdictFitsSteps, Some
<1>4. CASE HeadBegins
  <2>1. /\ pc = "head" /\ pc' = "ready" /\ at \in Steps /\ ~NoMoreSteps
        /\ UNCHANGED <<record, at, failed, cancel, shutdown>>
        /\ step' = [step EXCEPT ![at] = "executing"]
    BY <1>4, Zenon DEF HeadBegins, AppendAttempt, Mark
  <2>2. \A s \in Steps : s < at => step[s] \in Done
    BY <2>1 DEF NoMoreSteps, Stopped
  <2> QED
    BY <2>1, <2>2 DEF VerdictFitsSteps, Some
<1> QED
  BY <1>1, <1>2, <1>3, <1>4

\* The end of an attempt, and of a step.
LEMMA StepLoops ==
  ASSUME LoopInv, GivesUpRetry \/ TriesAgain \/ JudgeRetries \/ JudgeEnds \/ Leave
  PROVE  HeadInv' /\ StepInv' /\ RecordInv' /\ VerdictFitsSteps'
<1> USE StepsAssumption DEF StepsAssumption, LoopInv, TypeOK, RecTypeOK, LoopTypeOK, HeadInv,
        StepInv, RecordInv, Settled, Ahead, Steps, recVars, stateVars, InStep
<1>1. CASE GivesUpRetry
  <2> DEFINE v == IF shutdown THEN "interrupted" ELSE IF cancel THEN "cancelled" ELSE "skipped"
  <2>1. /\ pc = "again" /\ pc' = "leave"
        /\ UNCHANGED <<record, at, failed, cancel, shutdown>>
        /\ step' = [step EXCEPT ![at] = v]
    BY <1>1, Zenon DEF GivesUpRetry, Mark
  <2>2. \/ v = "interrupted" /\ shutdown
        \/ v = "cancelled" /\ cancel
        \/ v = "skipped"
    BY Zenon
  <2>3. "skipped" \in Done
    BY DEF Done
  <2> HIDE DEF v
  <2> QED
    BY <2>1, <2>2, <2>3 DEF VerdictFitsSteps, Some
<1>2. CASE TriesAgain
  <2>1. /\ pc = "again" /\ pc' = "ready"
        /\ UNCHANGED <<record, at, failed, cancel, shutdown>>
        /\ step' = [step EXCEPT ![at] = "executing"]
    BY <1>2, Zenon DEF TriesAgain, AppendAttempt, Mark
  <2> QED
    BY <2>1 DEF VerdictFitsSteps, Some
<1>3. CASE JudgeRetries
  <2>1. /\ pc = "judge" /\ pc' = "again"
        /\ UNCHANGED <<record, at, failed, cancel, shutdown>>
        /\ step' = [step EXCEPT ![at] = "failed"]
    BY <1>3, Zenon DEF JudgeRetries, Mark
  <2> QED
    BY <2>1 DEF VerdictFitsSteps, Some
<1>4. CASE JudgeEnds
  <2>1. /\ pc = "judge" /\ pc' = "leave"
        /\ UNCHANGED <<record, at, cancel, shutdown>>
        /\ step' = [step EXCEPT ![at] = Outcome]
        /\ failed' = (failed \/ Outcome = "failed")
    BY <1>4, Zenon DEF JudgeEnds, Mark
  <2>2. \/ Outcome = "interrupted" /\ shutdown
        \/ Outcome = "cancelled" /\ cancel
        \/ Outcome \in Done
        \/ Outcome = "failed"
    BY Zenon DEF Outcome, Done
  <2>3. (failed => failed') /\ (Outcome = "failed" => failed')
    BY <2>1, Zenon
  <2> QED
    BY <2>1, <2>2, <2>3 DEF VerdictFitsSteps, Some
<1>5. CASE Leave
  <2>1. pc = "leave" /\ pc' = "head" /\ at' = at + 1
        /\ UNCHANGED <<record, step, failed, cancel, shutdown>>
    BY <1>5, Zenon DEF Leave
  <2> QED
    BY <2>1 DEF VerdictFitsSteps, Some
<1> QED
  BY <1>1, <1>2, <1>3, <1>4, <1>5
\* The end of a pass, whatever it comes to.
LEMMA FinalizeLoop ==
  ASSUME LoopInv, Finalize
  PROVE  HeadInv' /\ StepInv' /\ RecordInv' /\ VerdictFitsSteps'
<1> USE StepsAssumption DEF StepsAssumption, LoopInv, TypeOK, RecTypeOK, Steps
<1>1. /\ pc = "head" /\ at = NumSteps + 1 /\ pc' = "decided"
      /\ record' = FinalStatus
      /\ step' = [s \in Steps |-> IF CutShort(s) THEN "interrupted" ELSE step[s]]
      /\ UNCHANGED <<failed, cancel, shutdown>>
  BY Zenon DEF Finalize, loopVars, stateVars
<1>2. \A s \in Steps : Settled(s)
  BY <1>1 DEF HeadInv
<1>3. \A s \in Steps : step[s] # "executing"
  BY <1>2 DEF Settled, Done
<1>4. \/ FinalStatus = "interrupted" /\ shutdown /\ Some({"interrupted", "queued", "executing"})
      \/ FinalStatus = "cancelled" /\ cancel /\ Some({"cancelled", "queued", "executing"})
      \/ FinalStatus = "failed"
      \/ /\ FinalStatus = "succeeded" /\ ~failed
         /\ ~(shutdown /\ Some({"interrupted", "queued", "executing"}))
         /\ ~(cancel /\ Some({"cancelled", "queued", "executing"}))
  BY Zenon DEF FinalStatus
<1>5. HeadInv' /\ StepInv' /\ RecordInv'
  BY <1>1, <1>4 DEF HeadInv, StepInv, RecordInv, InStep
<1>6. VerdictFitsSteps'
  <2>1. CASE FinalStatus = "interrupted" /\ shutdown /\ Some({"interrupted", "queued", "executing"})
    <3>1. PICK s \in Steps : step[s] \in {"interrupted", "queued", "executing"}
      BY <2>1 DEF Some
    <3>2. step'[s] = "interrupted"
      BY <3>1, <2>1, <1>1 DEF CutShort
    <3>3. \A t \in Steps : step'[t] # "executing"
      BY <1>1, <1>3
    <3> QED
      BY <3>2, <3>3, <2>1, <1>1 DEF VerdictFitsSteps, Some
  <2>2. CASE FinalStatus # "interrupted"
    <3>1. \A s \in Steps : step'[s] = step[s]
      BY <2>2, <1>1 DEF CutShort
    <3>2. CASE FinalStatus = "succeeded"
      <4>1. /\ ~failed
            /\ ~(shutdown /\ Some({"interrupted", "queued", "executing"}))
            /\ ~(cancel /\ Some({"cancelled", "queued", "executing"}))
        BY <1>4, <3>2, Zenon
      <4>2. \A s \in Steps : step[s] \in Done
        BY <4>1, <1>2 DEF Settled, Some
      <4> QED
        BY <4>2, <3>1, <3>2, <1>1, <1>3 DEF VerdictFitsSteps, Some
    <3>3. CASE FinalStatus = "cancelled"
      <4>1. cancel /\ Some({"cancelled", "queued", "executing"})
        BY <1>4, <3>3, Zenon
      <4> QED
        BY <4>1, <3>1, <3>3, <1>1, <1>3 DEF VerdictFitsSteps, Some
    <3>4. CASE FinalStatus = "failed"
      BY <3>1, <3>4, <1>1, <1>3 DEF VerdictFitsSteps, Some
    <3> QED
      BY <1>4, <2>2, <3>2, <3>3, <3>4, Zenon
  <2> QED
    BY <1>4, <2>1, <2>2, Zenon
<1> QED
  BY <1>5, <1>6

\* An engine error ends the pass: nothing is left executing.
LEMMA ErrorLoop ==
  ASSUME LoopInv, EngineError
  PROVE  HeadInv' /\ StepInv' /\ RecordInv' /\ VerdictFitsSteps'
<1>1. /\ pc' = "closed" /\ record' = "failed"
      /\ step' = [s \in Steps |-> IF step[s] = "executing" THEN "failed" ELSE step[s]]
  BY Zenon DEF EngineError, FailRecord
<1> QED
  BY <1>1 DEF HeadInv, StepInv, RecordInv, VerdictFitsSteps, Some, InStep

\* A retry starts from a record of which no step is executing.
LEMMA RetryLoop ==
  ASSUME LoopInv, Retry
  PROVE  HeadInv' /\ StepInv' /\ RecordInv' /\ VerdictFitsSteps'
<1> USE StepsAssumption DEF StepsAssumption, LoopInv, TypeOK, RecTypeOK, Steps
<1>1. /\ pc = "over" /\ record = "failed"
      /\ pc' = "prologue" /\ record' = "executing" /\ at' = 1
      /\ step' = [s \in Steps |-> Requeued(step[s])]
  BY Zenon DEF Retry
<1>2. \A s \in Steps : step[s] # "executing"
  BY <1>1 DEF VerdictFitsSteps, Some
<1>3. HeadInv'
  BY <1>1, <1>2 DEF HeadInv, Settled, Ahead, Requeued
<1> QED
  BY <1>1, <1>3 DEF StepInv, RecordInv, VerdictFitsSteps, InStep

\* The order of the loop, in every state.
LEMMA LoopInvariance == Spec => []LoopInv
<1>1. Init => LoopInv
  BY InitLoop, InitType DEF LoopInv
<1>2. LoopInv /\ [Next]_vars => LoopInv'
  <2> SUFFICES ASSUME LoopInv, [Next]_vars PROVE LoopInv'
    OBVIOUS
  <2>1. TypeOK'
    BY NextType DEF LoopInv
  <2>2. HeadInv' /\ StepInv' /\ RecordInv' /\ VerdictFitsSteps'
    <3>1. CASE Prologue \/ HeadPasses \/ HeadCloses \/ HeadBegins
      BY <3>1, HeadLoop
    <3>2. CASE GivesUpRetry \/ TriesAgain \/ JudgeRetries \/ JudgeEnds \/ Leave
      BY <3>2, StepLoops
    <3>3. CASE Process \/ Callers \/ Spawn \/ NothingToRun \/ Recheck \/ Reap \/ WritesVerdict
               \/ Notify \/ GoesOver
      BY <3>3, OthersRest, RestsLoop
    <3>4. CASE Finalize
      BY <3>4, FinalizeLoop
    <3>5. CASE EngineError
      BY <3>5, ErrorLoop
    <3>6. CASE Retry
      BY <3>6, RetryLoop
    <3>7. CASE UNCHANGED vars
      <4>1. LoopRests /\ SamePlace
        BY <3>7 DEF LoopRests, SamePlace, vars, recVars, loopVars, stateVars
      <4> QED
        BY <4>1, RestsLoop
    <3> QED
      BY <3>1, <3>2, <3>3, <3>4, <3>5, <3>6, <3>7, Zenon DEF Next, EngineThread
  <2> QED
    BY <2>1, <2>2 DEF LoopInv
<1> QED
  BY <1>1, <1>2, PTL DEF Spec

\* However cancels, skips, shutdowns, failures and retries fall, the final
\* status of an execution fits its steps (engine.py, "finalize").
THEOREM VerdictFits == Spec => []VerdictFitsSteps
<1>1. LoopInv => VerdictFitsSteps
  BY DEF LoopInv
<1> QED
  BY <1>1, LoopInvariance, PTL

(***************************************************************************)
(* The engine thread keeps the promise of StepPass                         *)
(***************************************************************************)
\* The promise speaks of the same steps, and means the same by done.
LEMMA SameWords == Promise!Steps = Steps /\ Promise!Done = Done
BY DEF Promise!Steps, Promise!Done, Steps, Done

\* What the promise knows nothing of.
LEMMA OthersKeep ==
  ASSUME Process \/ Callers \/ Spawn \/ NothingToRun \/ Recheck \/ Reap \/ WritesVerdict
         \/ Notify \/ GoesOver
         \/ Prologue \/ HeadPasses \/ Leave
  PROVE  UNCHANGED <<record, step>>
<1>1. CASE Prologue \/ HeadPasses \/ Leave
  BY <1>1 DEF Prologue, HeadPasses, Leave, recVars
<1>2. CASE ~(Prologue \/ HeadPasses \/ Leave)
  BY <1>2, OthersRest DEF LoopRests
<1> QED
  BY <1>1, <1>2

\* The head of the loop closes the step it is at, or starts it in order.
LEMMA HeadKeeps ==
  ASSUME LoopInv, HeadCloses \/ HeadBegins
  PROVE  Promise!Close(at) \/ Promise!Start(at)
<1> USE DEF AtHead, recVars
<1>1. /\ record = "executing" /\ at \in Steps
      /\ step[at] \notin Done \cup {"executing", "failed"}
      /\ step[at] \in Ended \cup {"queued", "executing"}
  <2>1. pc = "head" /\ at \in Steps /\ step[at] \notin Done
    BY Zenon DEF HeadCloses, HeadBegins
  <2> QED
    BY <2>1, StepsAssumption
       DEF StepsAssumption, Steps, LoopInv, RecordInv, HeadInv, Ahead, TypeOK, RecTypeOK
<1>2. step[at] \in {"queued", "cancelled", "interrupted"}
  BY <1>1 DEF Ended, Done
<1>3. CASE HeadCloses
  <2>1. UNCHANGED record /\ step' = [step EXCEPT ![at] = ClosedStatus]
    BY <1>3, Zenon DEF HeadCloses
  <2>2. ClosedStatus \in {"queued", "cancelled", "interrupted"}
    BY Zenon DEF ClosedStatus
  <2> QED
    BY <1>1, <1>2, <2>1, <2>2 DEF Promise!Close, Promise!Move, Promise!Stopped
<1>4. CASE HeadBegins
  <2>1. /\ UNCHANGED record /\ step' = [step EXCEPT ![at] = "executing"]
        /\ pc = "head" /\ ~failed /\ ~cancel /\ ~shutdown
    BY <1>4, Zenon DEF HeadBegins, AppendAttempt, Mark, NoMoreSteps, Stopped
  <2>2. \A s \in Steps : s < at => step[s] \in Done
    BY <2>1 DEF LoopInv, HeadInv, Settled
  <2>3. Promise!DoneBefore(at)
    BY <2>2, <1>1, StepsAssumption, SameWords DEF StepsAssumption, Steps, Promise!DoneBefore
  <2> QED
    BY <1>1, <1>2, <2>1, <2>3 DEF Promise!Start, Promise!Move, Promise!Stopped
<1> QED
  BY <1>3, <1>4

\* An attempt that ends is the end of its step or the start of its next attempt.
LEMMA StepKeeps ==
  ASSUME LoopInv, GivesUpRetry \/ TriesAgain \/ JudgeRetries \/ JudgeEnds
  PROVE  at \in Steps /\ (Promise!Start(at) \/ Promise!End(at))
<1>1. pc \in {"again", "judge"}
  BY Zenon DEF GivesUpRetry, TriesAgain, JudgeRetries, JudgeEnds
<1>2. record = "executing" /\ at \in Steps
  BY <1>1 DEF LoopInv, RecordInv, TypeOK, LoopTypeOK, InStep
<1>3. step[at] = IF pc = "again" THEN "failed" ELSE "executing"
  BY <1>1 DEF LoopInv, StepInv, InStep
<1>4. CASE GivesUpRetry
  <2> DEFINE v == IF shutdown THEN "interrupted" ELSE IF cancel THEN "cancelled" ELSE "skipped"
  <2>1. UNCHANGED record /\ step' = [step EXCEPT ![at] = v]
    BY <1>4, Zenon DEF GivesUpRetry, Mark
  <2>2. v \in {"interrupted", "cancelled", "skipped"}
    BY Zenon
  <2> HIDE DEF v
  <2> QED
    BY <1>1, <1>2, <1>3, <2>1, <2>2
       DEF Promise!End, Promise!Move, Promise!Done, Promise!Stopped
<1>5. CASE TriesAgain
  <2>1. pc = "again" /\ UNCHANGED record /\ step' = [step EXCEPT ![at] = "executing"]
    BY <1>5, Zenon DEF TriesAgain, AppendAttempt, Mark
  <2>2. \A s \in Steps : s < at => step[s] \in Done
    BY <2>1 DEF LoopInv, StepInv, InStep
  <2>3. Promise!DoneBefore(at)
    BY <2>2, <1>2, StepsAssumption, SameWords DEF StepsAssumption, Steps, Promise!DoneBefore
  <2> QED
    BY <1>2, <1>3, <2>1, <2>3 DEF Promise!Start, Promise!Move
<1>6. CASE JudgeRetries \/ JudgeEnds
  <2>1. /\ UNCHANGED record
        /\ step' = [step EXCEPT ![at] = "failed"] \/ step' = [step EXCEPT ![at] = Outcome]
    BY <1>6, Zenon DEF JudgeRetries, JudgeEnds, Mark
  <2>2. Outcome \in Ended
    BY OutcomeType
  <2> QED
    BY <1>1, <1>2, <1>3, <2>1, <2>2
       DEF Promise!End, Promise!Move, Promise!Done, Promise!Stopped, Ended, Done
<1> QED
  BY <1>2, <1>4, <1>5, <1>6

\* The final status is one that the steps allow.
LEMMA FinalizeKeeps ==
  ASSUME LoopInv, Finalize
  PROVE  Promise!Finish
<1>1. /\ pc = "head" /\ at = NumSteps + 1
      /\ record' = FinalStatus
      /\ step' = [s \in Steps |-> IF CutShort(s) THEN "interrupted" ELSE step[s]]
  BY Zenon DEF Finalize
<1>2. record = "executing"
  BY <1>1 DEF LoopInv, RecordInv
<1>3. step = [s \in Steps |-> step[s]]
  BY DEF LoopInv, TypeOK, RecTypeOK
<1>4. \A s \in Steps : Settled(s)
  BY <1>1, StepsAssumption DEF StepsAssumption, Steps, LoopInv, HeadInv
<1>5. \A s \in Steps : step[s] # "executing"
  BY <1>4 DEF Settled, Done
<1>6. \A s \in Steps : step'[s] # "executing"
  BY <1>1, <1>5
<1>7. CASE FinalStatus = "interrupted"
  <2>1. Some({"interrupted", "queued", "executing"})
    BY <1>7, Zenon DEF FinalStatus
  <2>2. \E s \in Steps : step[s] \notin Done
    BY <2>1 DEF Some, Done
  <2>3. step' = [s \in Steps |-> IF step[s] = "queued" THEN "interrupted" ELSE step[s]]
    BY <1>1, <1>5, <1>7 DEF CutShort
  <2> QED
    BY <1>1, <1>2, <1>6, <1>7, <2>2, <2>3, SameWords DEF Promise!Finish, Promise!AllDone
<1>8. CASE FinalStatus # "interrupted"
  <2>1. step' = step
    BY <1>1, <1>3, <1>8 DEF CutShort
  <2>2. CASE FinalStatus = "cancelled"
    <3>1. Some({"cancelled", "queued", "executing"})
      BY <2>2, Zenon DEF FinalStatus
    <3>2. \E s \in Steps : step[s] \notin Done
      BY <3>1 DEF Some, Done
    <3> QED
      BY <1>1, <1>2, <1>6, <2>1, <2>2, <3>2, SameWords DEF Promise!Finish, Promise!AllDone
  <2>3. CASE FinalStatus = "succeeded"
    <3>1. VerdictFitsSteps'
      BY FinalizeLoop
    <3>2. \A s \in Steps : step'[s] \in Done
      BY <3>1, <1>1, <2>3 DEF VerdictFitsSteps
    <3> QED
      BY <1>1, <1>2, <1>6, <2>1, <2>3, <3>2, SameWords DEF Promise!Finish, Promise!AllDone
  <2>4. CASE FinalStatus = "failed"
    <3>1. step = [s \in Steps |-> IF step[s] = "executing" THEN "failed" ELSE step[s]]
      BY <1>3, <1>5
    <3> QED
      BY <1>1, <1>2, <1>6, <2>1, <2>4, <3>1, SameWords DEF Promise!Finish
  <2> QED
    BY <1>8, <2>2, <2>3, <2>4, FinalStatusType DEF Terminal
<1> QED
  BY <1>7, <1>8

\* An engine error ends a record, or overrules a verdict it shows already.
LEMMA ErrorKeeps ==
  ASSUME LoopInv, EngineError
  PROVE  Promise!Finish \/ Promise!Overrule \/ UNCHANGED <<record, step>>
<1>1. /\ record' = "failed"
      /\ step' = [s \in Steps |-> IF step[s] = "executing" THEN "failed" ELSE step[s]]
  BY Zenon DEF EngineError, FailRecord
<1>2. \A s \in Steps : step'[s] # "executing"
  BY <1>1
<1>3. CASE record = "executing"
  BY <1>1, <1>2, <1>3, SameWords DEF Promise!Finish
<1>4. CASE record # "executing"
  <2>1. \A s \in Steps : step[s] # "executing"
    BY <1>4 DEF LoopInv, VerdictFitsSteps, Some
  <2>2. step = [s \in Steps |-> step[s]]
    BY DEF LoopInv, TypeOK, RecTypeOK
  <2>3. step' = step
    BY <1>1, <2>1, <2>2
  <2>4. record \in {"succeeded", "failed", "cancelled", "interrupted"}
    BY <1>4 DEF LoopInv, TypeOK, RecTypeOK, Terminal
  <2> QED
    BY <1>1, <2>3, <2>4 DEF Promise!Overrule, Promise!Stopped
<1> QED
  BY <1>3, <1>4

\* The in-place retry opens a failed record again.
LEMMA RetryKeeps == Retry => Promise!Reopen
<1> SUFFICES ASSUME Retry PROVE Promise!Reopen
  OBVIOUS
<1>1. /\ record = "failed" /\ record' = "executing"
      /\ step' = [s \in Steps |-> Requeued(step[s])]
  BY Zenon DEF Retry
<1> QED
  BY <1>1, SameWords DEF Promise!Reopen, Requeued

\* An execution keeps what StepPass promises, whatever reaches into it while it
\* runs: steps in order, what is done done for good, and a verdict that fits.
THEOREM PromiseKept == Spec => ImplementsStepPass
<1>1. Init => Promise!Init
  BY SameWords DEF Init, Promise!Init
<1>2. LoopInv /\ [Next]_vars => [Promise!Next]_<<record, step>>
  <2> SUFFICES ASSUME LoopInv, [Next]_vars
               PROVE  Promise!Next \/ UNCHANGED <<record, step>>
    OBVIOUS
  <2>1. CASE HeadCloses \/ HeadBegins
    <3>1. at \in Steps
      BY <2>1 DEF HeadCloses, HeadBegins, AtHead
    <3> QED
      BY <2>1, <3>1, HeadKeeps, SameWords DEF Promise!Next
  <2>2. CASE GivesUpRetry \/ TriesAgain \/ JudgeRetries \/ JudgeEnds
    BY <2>2, StepKeeps, SameWords DEF Promise!Next
  <2>3. CASE Finalize
    BY <2>3, FinalizeKeeps DEF Promise!Next
  <2>4. CASE EngineError
    BY <2>4, ErrorKeeps DEF Promise!Next
  <2>5. CASE Retry
    BY <2>5, RetryKeeps DEF Promise!Next
  <2>6. CASE Process \/ Callers \/ Spawn \/ NothingToRun \/ Recheck \/ Reap \/ WritesVerdict
             \/ Notify \/ GoesOver
             \/ Prologue \/ HeadPasses \/ Leave
    BY <2>6, OthersKeep
  <2>7. CASE UNCHANGED vars
    BY <2>7 DEF vars, recVars
  <2> QED
    BY <2>1, <2>2, <2>3, <2>4, <2>5, <2>6, <2>7, Zenon DEF Next, EngineThread
<1> QED
  BY <1>1, <1>2, LoopInvariance, PTL DEF Spec, ImplementsStepPass, Promise!Spec, Promise!vars

(***************************************************************************)
(* Skips, cancels and shutdowns reach the step they mean                   *)
(***************************************************************************)
AskedInv == SkippedOnlyIfAsked /\ (skip # NoStep => skip \in asked)

\* No step skips what was not asked for.
LEMMA AskedStep ==
  ASSUME TypeOK, AskedInv, [Next]_vars
  PROVE  AskedInv'
<1> USE DEF AskedInv, SkippedOnlyIfAsked, recVars, stateVars, callVars
<1>1. CASE \/ Prologue \/ HeadPasses \/ Leave \/ WritesVerdict \/ Notify \/ GoesOver \/ Spawn
           \/ NothingToRun
           \/ Recheck \/ Reap \/ Process
  BY <1>1 DEF Prologue, HeadPasses, Leave, WritesVerdict, Notify, GoesOver, Spawn, NothingToRun,
              Recheck, Reap,
              Process, GraceEnds, Exits
<1>2. CASE \/ CancelFlags \/ CancelLooks \/ CancelSignals \/ SkipSignals
           \/ SweepLists \/ SweepFlags \/ SweepKills
  BY <1>2 DEF CancelFlags, CancelLooks, CancelSignals, SkipSignals, SweepLists, SweepFlags,
              SweepKills
<1>3. CASE \E s \in Steps : SkipAccepts(s)
  <2>1. PICK s \in Steps : SkipAccepts(s)
    BY <1>3
  <2> QED
    BY <2>1 DEF SkipAccepts
<1>4. CASE HeadCloses \/ HeadBegins \/ TriesAgain \/ JudgeRetries
  <2>1. /\ \E v \in {"queued", "cancelled", "interrupted", "executing", "failed"} :
             step' = [step EXCEPT ![at] = v]
        /\ UNCHANGED asked /\ (skip' = skip \/ skip' = NoStep)
    BY <1>4, Zenon DEF HeadCloses, HeadBegins, TriesAgain, JudgeRetries, AppendAttempt, Mark,
                       ClosedStatus
  <2> QED
    BY <2>1 DEF TypeOK, RecTypeOK
<1>5. CASE GivesUpRetry
  <2> DEFINE v == IF shutdown THEN "interrupted" ELSE IF cancel THEN "cancelled" ELSE "skipped"
  <2>1. /\ step' = [step EXCEPT ![at] = v] /\ UNCHANGED asked /\ skip' = NoStep /\ pc = "again"
        /\ v = "skipped" => skip = at
    BY <1>5, Zenon DEF GivesUpRetry, Mark, Stopped
  <2> HIDE DEF v
  <2>2. at \in Steps /\ NoStep \notin Steps
    BY <2>1 DEF TypeOK, LoopTypeOK, InStep, NoStep, Steps
  <2> QED
    BY <2>1, <2>2 DEF TypeOK, RecTypeOK
<1>6. CASE JudgeEnds
  <2>1. /\ step' = [step EXCEPT ![at] = Outcome] /\ UNCHANGED asked /\ skip' = NoStep
        /\ pc = "judge"
    BY <1>6, Zenon DEF JudgeEnds, Mark
  <2>2. Outcome = "skipped" => skip = at
    BY Zenon DEF Outcome
  <2>3. at \in Steps /\ NoStep \notin Steps
    BY <2>1 DEF TypeOK, LoopTypeOK, InStep, NoStep, Steps
  <2> QED
    BY <2>1, <2>2, <2>3 DEF TypeOK, RecTypeOK
<1>7. CASE Finalize
  BY <1>7 DEF Finalize
<1>8. CASE EngineError
  BY <1>8 DEF EngineError, FailRecord
<1>9. CASE Retry
  BY <1>9 DEF Retry, Requeued, NoStep
<1>10. CASE UNCHANGED vars
  BY <1>10 DEF vars
<1> QED
  BY <1>1, <1>2, <1>3, <1>4, <1>5, <1>6, <1>7, <1>8, <1>9, <1>10, Zenon
     DEF Next, EngineThread, Callers

\* A step reads skipped only when a skip was accepted for that very step, never
\* because one meant for another step was still pending (skip_step, _execute).
THEOREM SkipsFitRequests == Spec => []SkippedOnlyIfAsked
<1>1. Init => AskedInv
  BY DEF Init, AskedInv, SkippedOnlyIfAsked
<1>2. AskedInv => SkippedOnlyIfAsked
  BY DEF AskedInv
<1> QED
  BY <1>1, <1>2, AskedStep, TypeCorrect, PTL DEF Spec

\* A canceller that missed its process is never near another one.
MissedInv ==
    /\ canceller # "idle" => cancel
    /\ canceller = "missed" => pc \notin {"ready", "spawned", "running"}

SignalInv == MissedInv /\ NothingOutrunsItsSignal

\* No step lets a process outrun its signal.
LEMMA SignalStep ==
  ASSUME TypeOK, SignalInv, [Next]_vars
  PROVE  SignalInv'
<1> USE DEF SignalInv, MissedInv, NothingOutrunsItsSignal, recVars, loopVars, stateVars, procVars,
            callVars
<1>1. CASE \/ Prologue \/ HeadPasses \/ HeadCloses \/ Leave \/ Finalize \/ WritesVerdict
           \/ Notify \/ GoesOver
           \/ NothingToRun
  BY <1>1 DEF Prologue, AtHead, HeadPasses, HeadCloses, Leave, Finalize, WritesVerdict, Notify,
              GoesOver,
              NothingToRun
<1>2. CASE HeadBegins \/ TriesAgain
  BY <1>2 DEF HeadBegins, TriesAgain, AppendAttempt, NoMoreSteps, Stopped
<1>3. CASE GivesUpRetry \/ JudgeRetries \/ JudgeEnds
  BY <1>3 DEF GivesUpRetry, JudgeRetries, JudgeEnds
<1>4. CASE Spawn \/ Reap
  BY <1>4 DEF Spawn, Reap
<1>5. CASE Recheck
  BY <1>5 DEF Recheck, CameBeforeSpawn, Stopped
<1>6. CASE EngineError \/ Retry
  BY <1>6 DEF EngineError, Retry
<1>7. CASE Process
  BY <1>7 DEF Process, GraceEnds, Exits
<1>8. CASE CancelFlags
  BY <1>8 DEF CancelFlags
<1>9. CASE CancelLooks
  BY <1>9 DEF CancelLooks
<1>10. CASE CancelSignals
  BY <1>10 DEF CancelSignals, Terminate
<1>11. CASE \E s \in Steps : SkipAccepts(s)
  BY <1>11 DEF SkipAccepts
<1>12. CASE SkipSignals
  BY <1>12 DEF SkipSignals, Terminate
<1>13. CASE SweepLists \/ SweepFlags \/ SweepKills
  BY <1>13 DEF SweepLists, SweepFlags, SweepKills, IsLive
<1>14. CASE UNCHANGED vars
  BY <1>14 DEF vars
<1> QED
  BY <1>1, <1>2, <1>3, <1>4, <1>5, <1>6, <1>7, <1>8, <1>9, <1>10, <1>11, <1>12, <1>13, <1>14,
     Zenon DEF Next, EngineThread, Callers

\* Whether a cancel, skip or shutdown comes before, while or after the process
\* of the step starts, it is signalled (_execute, run_step_process).
THEOREM SignalsArrive == Spec => []NothingOutrunsItsSignal
<1>1. Init => SignalInv
  BY DEF Init, SignalInv, MissedInv, NothingOutrunsItsSignal
<1>2. SignalInv => NothingOutrunsItsSignal
  BY DEF SignalInv
<1> QED
  BY <1>1, <1>2, SignalStep, TypeCorrect, PTL DEF Spec

(***************************************************************************)
(* What the record tells is what the attempts did                          *)
(***************************************************************************)
\* A process lives only while its step runs, a skip that takes aim means the
\* step that runs, a sweep that takes aim has raised its flag, and whoever
\* signalled the process of a step has said why.
ProcInv ==
    /\ proc # "none" => pc \in {"spawned", "running"}
    /\ cur # NoStep => cur = at /\ pc \in InStep
    /\ skipper = "aiming" => proc # "none" /\ skip = at
    /\ sweeper # "idle" => stopping
    /\ sweeper = "flagged" => shutdown
    /\ canceller # "idle" => cancel
    /\ pc \in {"spawned", "running", "judge"} /\ signal # "none" =>
          Stopped \/ skip = at \/ (pc = "judge" /\ code = "verdict")

LEMMA ProcStep ==
  ASSUME TypeOK, ProcInv, [Next]_vars
  PROVE  ProcInv'
<1> USE DEF ProcInv, Stopped, recVars, loopVars, stateVars, procVars, callVars
<1>0. LoopTypeOK /\ CallTypeOK
  BY DEF TypeOK
<1>1. CASE \/ Prologue \/ HeadPasses \/ HeadCloses \/ Leave \/ Finalize \/ WritesVerdict
           \/ Notify \/ GoesOver
  BY <1>1 DEF Prologue, AtHead, HeadPasses, HeadCloses, Leave, Finalize, WritesVerdict, Notify,
              GoesOver, InStep
<1>2. CASE HeadBegins \/ TriesAgain
  BY <1>2 DEF HeadBegins, TriesAgain, AppendAttempt, AtHead, InStep
<1>3. CASE GivesUpRetry \/ JudgeRetries \/ JudgeEnds
  BY <1>3 DEF GivesUpRetry, JudgeRetries, JudgeEnds, InStep
<1>4. CASE Spawn \/ Reap \/ NothingToRun
  BY <1>4 DEF Spawn, Reap, NothingToRun, InStep
<1>5. CASE Recheck
  BY <1>5 DEF Recheck, CameBeforeSpawn, InStep
<1>6. CASE EngineError \/ Retry
  BY <1>6 DEF EngineError, Retry, InStep
<1>7. CASE Process
  BY <1>7 DEF Process, GraceEnds, Exits
<1>8. CASE CancelFlags \/ CancelLooks
  BY <1>8 DEF CancelFlags, CancelLooks
<1>9. CASE CancelSignals
  BY <1>9 DEF CancelSignals, Terminate
<1>10. CASE \E s \in Steps : SkipAccepts(s)
  BY <1>0, <1>10 DEF SkipAccepts, IsCurrent, NoStep, Steps
<1>11. CASE SkipSignals
  BY <1>11 DEF SkipSignals, Terminate
<1>12. CASE SweepLists \/ SweepFlags \/ SweepKills
  BY <1>12 DEF SweepLists, SweepFlags, SweepKills
<1>13. CASE UNCHANGED vars
  BY <1>13 DEF vars
<1> QED
  BY <1>1, <1>2, <1>3, <1>4, <1>5, <1>6, <1>7, <1>8, <1>9, <1>10, <1>11, <1>12, <1>13,
     Zenon DEF Next, EngineThread, Callers

LEMMA ProcInvariance == Spec => []ProcInv
<1>1. Init => ProcInv
  BY DEF Init, ProcInv, NoStep
<1> QED
  BY <1>1, ProcStep, TypeCorrect, PTL DEF Spec

\* What is held is what the running attempt said, or what an error cut off,
\* and the words of a step that is not over are not folded.
WordsInv ==
    /\ \A s \in Steps :
          /\ words[s] = "folded" => step[s] # "executing"
          /\ words[s] = "held" => \/ pc \in {"closed", "over"}
                                  \/ at = s /\ pc \in {"spawned", "running", "judge", "again"}
    /\ pc \in InStep \ {"leave"} => words[at] # "folded"

LEMMA WordsStep ==
  ASSUME TypeOK, ProcInv, WordsInv, [Next]_vars
  PROVE  WordsInv'
<1> USE DEF WordsInv, recVars, loopVars, InStep
<1>0. RecTypeOK /\ LoopTypeOK
  BY DEF TypeOK
<1>1. CASE \/ Prologue \/ HeadPasses \/ Leave \/ WritesVerdict \/ Notify \/ GoesOver \/ Spawn
           \/ NothingToRun
           \/ Recheck \/ Reap
  BY <1>1 DEF Prologue, HeadPasses, Leave, WritesVerdict, Notify, GoesOver, Spawn, NothingToRun,
              Recheck, Reap,
              AtHead
<1>2. CASE HeadCloses
  BY <1>0, <1>2 DEF HeadCloses, ClosedStatus, AtHead, RecTypeOK
<1>3. CASE HeadBegins \/ TriesAgain
  BY <1>0, <1>3 DEF HeadBegins, TriesAgain, AppendAttempt, Mark, AtHead, RecTypeOK
<1>4. CASE GivesUpRetry \/ JudgeEnds
  <2>1. PICK v \in Ended : step' = [step EXCEPT ![at] = v] /\ Fold(at) /\ pc' = "leave"
                           /\ at' = at /\ pc \in InStep \ {"leave"} /\ pc \in {"again", "judge"}
    BY <1>4, OutcomeType DEF GivesUpRetry, JudgeEnds, Mark, Ended, Done
  <2>2. v # "executing" /\ at \in Steps
    BY <1>0, <2>1 DEF LoopTypeOK, Ended, Done
  <2>3. words' = [words EXCEPT ![at] = IF words[at] = "held" THEN "folded" ELSE words[at]]
    BY <2>1 DEF Fold
  <2> QED
    BY <1>0, <2>1, <2>2, <2>3 DEF RecTypeOK
<1>5. CASE JudgeRetries
  <2>1. /\ step' = [step EXCEPT ![at] = "failed"] /\ words' = words /\ pc' = "again"
        /\ at' = at /\ pc = "judge"
    BY <1>5 DEF JudgeRetries, Mark
  <2> QED
    BY <1>0, <2>1 DEF RecTypeOK
<1>6. CASE Finalize
  BY <1>6 DEF Finalize
<1>7. CASE EngineError
  <2>1. /\ step' = [s \in Steps |-> IF step[s] = "executing" THEN "failed" ELSE step[s]]
        /\ words' = words /\ pc' = "closed" /\ at' = at
    BY <1>7 DEF EngineError, FailRecord
  <2> QED
    BY <2>1
<1>8. CASE Retry
  BY <1>8 DEF Retry
<1>9. CASE Process
  <2>1. CASE GraceEnds
    BY <2>1 DEF GraceEnds
  <2>2. CASE \E c \in {"ok", "bad", "verdict"} : Exits(c)
    <3>1. /\ words' = words \/ words' = [words EXCEPT ![at] = "held"]
          /\ UNCHANGED <<step, at, pc>> /\ proc = "alive"
      BY <2>2 DEF Exits
    <3> QED
      BY <1>0, <3>1 DEF ProcInv, RecTypeOK
  <2> QED
    BY <1>9, <2>1, <2>2 DEF Process
<1>10. CASE Callers
  BY <1>10 DEF Callers, CancelFlags, CancelLooks, CancelSignals, SkipAccepts, SkipSignals,
               SweepLists, SweepFlags, SweepKills
<1>11. CASE UNCHANGED vars
  BY <1>11 DEF vars
<1> QED
  BY <1>1, <1>2, <1>3, <1>4, <1>5, <1>6, <1>7, <1>8, <1>9, <1>10, <1>11, Zenon
  DEF Next, EngineThread

\* In the first pass no step is tried before the loop comes to it.
Untried == \A s \in Steps : \/ s < at
                            \/ s = at /\ pc \notin {"prologue", "head"}
                            \/ attempt[s] = "none"

AttemptInv ==
    /\ LatestAttemptTells
    /\ passes >= 1
    /\ passes = 1 => pc \in {"closed", "over", "decided", "written"} \/ Untried

LEMMA AttemptStep ==
  ASSUME LoopInv, AttemptInv, [Next]_vars
  PROVE  AttemptInv'
<1>0. /\ TypeOK /\ HeadInv /\ StepInv
      /\ step \in [Steps -> Ended \cup {"queued", "executing"}]
      /\ attempt \in [Steps -> Ended \cup {"none", "executing"}]
      /\ pc \in Places /\ at \in 1..(NumSteps + 1) /\ (pc \in InStep => at \in Steps)
      /\ passes \in Nat /\ NumSteps \in Nat
  BY StepsAssumption DEF StepsAssumption, LoopInv, TypeOK, RecTypeOK, LoopTypeOK
<1> USE DEF recVars, loopVars
<1>1. ASSUME UNCHANGED <<step, attempt, passes, at>>,
             \/ pc' = pc \/ pc' \in {"closed", "over", "decided", "written"}
             \/ pc \in {"prologue", "head"} /\ pc' \in {"prologue", "head"}
             \/ pc \in InStep /\ pc' \in InStep
      PROVE  AttemptInv'
  BY <1>1 DEF AttemptInv, LatestAttemptTells, Untried, InStep
<1>2. CASE Prologue \/ WritesVerdict \/ Notify \/ GoesOver \/ Spawn \/ NothingToRun \/ Recheck
           \/ Reap
           \/ Process \/ Callers
  BY <1>1, <1>2
  DEF Prologue, WritesVerdict, Notify, GoesOver, Spawn, NothingToRun, Recheck, Reap, Process,
      GraceEnds, Exits,
      Callers, CancelFlags, CancelLooks, CancelSignals, SkipAccepts, SkipSignals,
      SweepLists, SweepFlags, SweepKills, InStep
<1>3. CASE UNCHANGED vars
  BY <1>1, <1>3 DEF vars
<1>4. CASE HeadPasses \/ Leave
  <2>1. /\ UNCHANGED <<step, attempt, passes>> /\ at' = at + 1 /\ pc' = "head"
        /\ pc \in {"head", "leave"} /\ at \in Steps
    BY <1>0, <1>4 DEF HeadPasses, Leave, AtHead, InStep
  <2> QED
    BY <1>0, <2>1 DEF AttemptInv, LatestAttemptTells, Untried, Steps
<1>5. CASE HeadCloses
  <2>1. /\ pc = "head" /\ pc' = "head" /\ at \in Steps /\ at' = at + 1 /\ step[at] \notin Done
        /\ step' = [step EXCEPT ![at] = ClosedStatus] /\ UNCHANGED <<attempt, passes>>
        /\ ClosedStatus \in {"queued", "cancelled", "interrupted"}
    BY <1>5 DEF HeadCloses, AtHead, ClosedStatus
  <2> HIDE DEF ClosedStatus
  <2>2. \/ attempt[at] = "none"
        \/ attempt[at] \notin Done \cup {"executing"} /\ passes > 1
    <3>1. step[at] \notin Done \cup {"executing"}
      BY <1>0, <2>1 DEF HeadInv, Ahead, Steps
    <3>2. passes > 1 \/ attempt[at] = "none"
      BY <1>0, <2>1 DEF AttemptInv, Untried, Steps
    <3> QED
      BY <2>1, <3>1, <3>2 DEF AttemptInv, LatestAttemptTells
  <2>3. LatestAttemptTells'
    BY <1>0, <2>1, <2>2 DEF AttemptInv, LatestAttemptTells
  <2> QED
    BY <1>0, <2>1, <2>3 DEF AttemptInv, Untried, Steps
<1>6. ASSUME NEW v, Mark(at, v), UNCHANGED <<at, passes>>, pc' \in InStep, at \in Steps,
             pc \in InStep \cup {"head"}
      PROVE  AttemptInv'
  <2>1. /\ step' = [step EXCEPT ![at] = v] /\ attempt' = [attempt EXCEPT ![at] = v]
    BY <1>6 DEF Mark
  <2>2. LatestAttemptTells'
    BY <1>0, <1>6, <2>1 DEF AttemptInv, LatestAttemptTells
  <2> QED
    BY <1>0, <1>6, <2>1, <2>2 DEF AttemptInv, Untried, Steps, InStep
<1>7. CASE HeadBegins \/ TriesAgain \/ GivesUpRetry \/ JudgeRetries \/ JudgeEnds
  <2>1. /\ \E v : Mark(at, v)
        /\ UNCHANGED <<at, passes>> /\ pc' \in InStep /\ at \in Steps
        /\ pc \in InStep \cup {"head"}
    BY <1>0, <1>7
    DEF HeadBegins, TriesAgain, GivesUpRetry, JudgeRetries, JudgeEnds, AppendAttempt, AtHead,
        InStep
  <2> QED
    BY <1>6, <2>1
<1>8. CASE Finalize
  <2>1. /\ \A s \in Steps : \/ step'[s] = step[s] /\ attempt'[s] = attempt[s]
                            \/ /\ step[s] \in {"queued", "executing"}
                               /\ step'[s] = "interrupted"
                               /\ attempt'[s] = IF attempt[s] = "executing" THEN "interrupted"
                                                ELSE attempt[s]
        /\ passes' = passes /\ pc' = "decided"
    BY <1>8 DEF Finalize, CutShort
  <2>2. \A s \in Steps : attempt[s] # "queued"
    BY <1>0 DEF Ended, Done
  <2>3. LatestAttemptTells'
    BY <2>1, <2>2 DEF AttemptInv, LatestAttemptTells, Done
  <2> QED
    BY <2>1, <2>3 DEF AttemptInv
<1>9. CASE EngineError
  <2>1. /\ \A s \in Steps : \/ step'[s] = step[s] /\ attempt'[s] = attempt[s]
                            \/ /\ step[s] = "executing" /\ step'[s] = "failed"
                               /\ attempt'[s] = IF attempt[s] = "executing" THEN "failed"
                                                ELSE attempt[s]
        /\ passes' = passes /\ pc' = "closed"
    BY <1>9 DEF EngineError, FailRecord
  <2>2. LatestAttemptTells'
    BY <2>1 DEF AttemptInv, LatestAttemptTells
  <2> QED
    BY <2>1, <2>2 DEF AttemptInv
<1>10. CASE Retry
  <2>1. /\ \A s \in Steps : step'[s] = IF step[s] = "failed" THEN "queued" ELSE step[s]
        /\ attempt' = attempt /\ passes' = passes + 1
    BY <1>10 DEF Retry, Requeued
  <2>2. passes' > 1 /\ passes' >= 1 /\ passes' # 1
    BY <1>0, <2>1 DEF AttemptInv
  <2>3. LatestAttemptTells'
    BY <2>1, <2>2 DEF AttemptInv, LatestAttemptTells, Done
  <2> QED
    BY <2>2, <2>3 DEF AttemptInv
<1> QED
  BY <1>2, <1>3, <1>4, <1>5, <1>7, <1>8, <1>9, <1>10, Zenon DEF Next, EngineThread

\* A step whose process was signalled does not read failed.
LEMMA FailsAlone ==
  ASSUME TypeOK, ProcInv, [Next]_vars, pc = "judge", pc' \in {"again", "leave"},
         step'[at] = "failed"
  PROVE  signal = "none" \/ code = "verdict"
<1>1. at \in Steps /\ step \in [Steps -> Ended \cup {"queued", "executing"}]
  BY DEF TypeOK, LoopTypeOK, RecTypeOK, InStep
<1>2. Outcome = "failed"
  <2>1. JudgeRetries \/ JudgeEnds
    BY DEF Next, EngineThread, Prologue, HeadPasses, HeadCloses, HeadBegins, AtHead,
           GivesUpRetry, TriesAgain, Spawn, NothingToRun, Recheck, Reap, Leave, Finalize,
           WritesVerdict, Notify,
           GoesOver, EngineError, Retry, Process, GraceEnds, Exits, Callers, CancelFlags,
           CancelLooks, CancelSignals, SkipAccepts, SkipSignals, SweepLists, SweepFlags,
           SweepKills, loopVars, vars
  <2>2. CASE JudgeRetries
    BY <2>2 DEF JudgeRetries, RetryDue
  <2>3. CASE JudgeEnds
    BY <1>1, <2>3 DEF JudgeEnds, Mark
  <2> QED
    BY <2>1, <2>2, <2>3
<1>3. Bad /\ ~shutdown /\ ~cancel /\ skip # at
  BY <1>2 DEF Outcome
<1> QED
  BY <1>3 DEF ProcInv, Stopped

\* However signals, retries, errors and passes fall, a step reads as its latest
\* attempt, only a final attempt's words count, and a step that was signalled
\* never reads failed (_execute, fold_attempt).
THEOREM AttemptsTell == Spec => AttemptsAreTold
<1>1. Init => AttemptInv /\ WordsInv
  BY DEF Init, AttemptInv, LatestAttemptTells, Untried, WordsInv, InStep
<1>2. AttemptInv /\ WordsInv => LatestAttemptTells /\ OnlyFinalWordsCount
  BY DEF AttemptInv, WordsInv, OnlyFinalWordsCount, InStep
<1>3. TypeOK /\ ProcInv /\ [Next]_vars =>
        [pc = "judge" /\ pc' \in {"again", "leave"} /\ step'[at] = "failed"
         => signal = "none" \/ code = "verdict"]_vars
  BY FailsAlone
<1> QED
  BY <1>1, <1>2, <1>3, AttemptStep, WordsStep, LoopInvariance, ProcInvariance, TypeCorrect, PTL
  DEF Spec, AttemptsAreTold, FailsOnItsOwn
=============================================================================
