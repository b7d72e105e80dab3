------------------------------ MODULE StepLoop ------------------------------
(***************************************************************************)
(* The engine thread of one execution: engine.py, _execute, with the user  *)
(* actions that reach into it while it runs (cancel, skip_step), the       *)
(* shutdown sweep (kill_all_live) and the in-place retry.                  *)
(*                                                                         *)
(* The engine thread takes no lock between its steps, so every action      *)
(* below may come between any two of another thread.  A step's process is  *)
(* here only alive or exited; how it is read, timed out and torn down is   *)
(* engine.py's run_step_process.                                           *)
(***************************************************************************)
EXTENDS Integers

CONSTANTS
    NumSteps,   \* the number of steps of the version that is executed
    Retries,    \* step -> its automatic retry budget for each pass
    Endless,    \* the steps that are retried for ever (infinite_retries)
    MaxPasses,  \* bound: the number of passes (manual retries) over the record
    Faults      \* the failures that may happen: "gate", "script", "engine", "notify"

Steps == 1..NumSteps
NoStep == 0

ASSUME StepsAssumption == NumSteps \in Nat /\ MaxPasses \in Nat
ASSUME RetriesAssumption == Retries \in [Steps -> Nat] /\ Endless \subseteq Steps
ASSUME FaultsAssumption == Faults \subseteq {"gate", "script", "engine", "notify"}

VARIABLES
    \* the execution record
    record,     \* h["status"]
    step,       \* step -> its status
    attempt,    \* step -> the status of its latest attempt ("none" before the first)
    words,      \* step -> what its latest attempt said through result and notify
    \* the engine thread
    pc,         \* where it is
    at,         \* the step its loop is at (i)
    cur,        \* h["_cur"], the step it shows as executing
    tries,      \* pass_tries of that step
    failed,     \* the local flag failed
    passes,     \* how many passes have begun
    \* the engine state of the execution
    cancel, shutdown, signalled,    \* its flags; signalled is cancel_signalled
    skip,       \* the step to skip, or NoStep
    \* the process of the latest attempt
    proc,       \* "none" once it is reaped, and before there is one
    code,       \* how it exited
    signal,     \* the strongest signal sent to it
    \* the other threads
    canceller, skipper, sweeper,
    stopping,   \* engine._stopping
    asked       \* history: the steps for which a skip was accepted

recVars == <<record, step, attempt, words>>
loopVars == <<pc, at, cur, tries, failed, passes>>
stateVars == <<cancel, shutdown, signalled, skip>>
procVars == <<proc, code, signal>>
callVars == <<canceller, skipper, sweeper, stopping, asked>>
vars == <<recVars, loopVars, stateVars, procVars, callVars>>

Done == {"succeeded", "skipped"}
Ended == Done \cup {"failed", "cancelled", "interrupted"}
Terminal == {"succeeded", "failed", "cancelled", "interrupted"}

\* Where the thread is when it is at a step, and where when it is not.
InStep == {"again", "ready", "spawned", "running", "judge", "leave"}
Places == InStep \cup {"prologue", "head", "decided", "written", "closed", "over"}

Stopped == cancel \/ shutdown

\* engine._live holds the state until the very end of the thread.
IsLive == pc # "over"

Mark(s, status) ==
    /\ step' = [step EXCEPT ![s] = status]
    /\ attempt' = [attempt EXCEPT ![s] = status]

\* fold_attempt: what the attempt said becomes the execution's.
Fold(s) == words' = [words EXCEPT ![s] = IF @ = "held" THEN "folded" ELSE @]

-----------------------------------------------------------------------------
Init ==
    /\ record = "executing"
    /\ step = [s \in Steps |-> "queued"]
    /\ attempt = [s \in Steps |-> "none"]
    /\ words = [s \in Steps |-> "none"]
    /\ pc = "prologue"
    /\ at = 1
    /\ cur = NoStep
    /\ tries = 0
    /\ failed = FALSE
    /\ passes = 1
    /\ cancel = FALSE /\ shutdown = FALSE /\ signalled = FALSE
    /\ skip = NoStep
    /\ proc = "none" /\ code = "ok" /\ signal = "none"
    /\ canceller = "idle" /\ skipper = "idle" /\ sweeper = "idle"
    /\ stopping = FALSE
    /\ asked = {}

(***************************************************************************)
(* The engine thread                                                       *)
(***************************************************************************)
\* Secrets and packages: a missing one fails the execution before any step.
Prologue ==
    /\ pc = "prologue"
    /\ failed' \in IF "gate" \in Faults THEN BOOLEAN ELSE {FALSE}
    /\ pc' = "head"
    /\ UNCHANGED <<recVars, at, cur, tries, passes, stateVars, procVars, callVars>>

AtHead == pc = "head" /\ at \in Steps

HeadPasses ==
    /\ AtHead
    /\ step[at] \in Done
    /\ at' = at + 1
    /\ UNCHANGED <<recVars, pc, cur, tries, failed, passes, stateVars, procVars, callVars>>

\* Nothing is begun any more.
NoMoreSteps == failed \/ Stopped

ClosedStatus == IF shutdown THEN "interrupted" ELSE IF cancel THEN "cancelled" ELSE "queued"

HeadCloses ==
    /\ AtHead
    /\ step[at] \notin Done
    /\ NoMoreSteps
    /\ step' = [step EXCEPT ![at] = ClosedStatus]
    /\ at' = at + 1
    /\ UNCHANGED <<record, attempt, words, pc, cur, tries, failed, passes, stateVars, procVars,
                   callVars>>

\* One more attempt of the step is appended to the record.
AppendAttempt(s) ==
    /\ Mark(s, "executing")
    /\ words' = [words EXCEPT ![s] = "none"]
    /\ cur' = s
    /\ pc' = "ready"

HeadBegins ==
    /\ AtHead
    /\ step[at] \notin Done
    /\ ~NoMoreSteps
    /\ AppendAttempt(at)
    /\ tries' = 0
    /\ UNCHANGED <<record, at, failed, passes, stateVars, procVars, callVars>>

\* Mutation: a stop during the retry wait marks the step, not its attempt.
MutMarksStepOnly ==
    /\ pc = "again"
    /\ Stopped \/ skip = at
    /\ step' = [step EXCEPT ![at] = IF shutdown THEN "interrupted"
                                    ELSE IF cancel THEN "cancelled" ELSE "skipped"]
    /\ Fold(at)
    /\ skip' = NoStep
    /\ pc' = "leave"
    /\ UNCHANGED <<record, attempt, at, cur, tries, failed, passes, cancel, shutdown, signalled,
                   procVars, callVars>>

\* Mutation: what the last attempt said is lost when its retry is given up.
MutForgetsWords ==
    /\ pc = "again"
    /\ Stopped \/ skip = at
    /\ Mark(at, IF shutdown THEN "interrupted" ELSE IF cancel THEN "cancelled" ELSE "skipped")
    /\ skip' = NoStep
    /\ pc' = "leave"
    /\ UNCHANGED <<record, words, at, cur, tries, failed, passes, cancel, shutdown, signalled,
                   procVars, callVars>>

\* A retry is due.  A shutdown, a cancel or a skip wins over it: the step ends
\* with its latest attempt, which thereby was the final one.
GivesUpRetry ==
    /\ pc = "again"
    /\ Stopped \/ skip = at
    /\ Mark(at, IF shutdown THEN "interrupted" ELSE IF cancel THEN "cancelled" ELSE "skipped")
    /\ Fold(at)
    /\ skip' = NoStep
    /\ pc' = "leave"
    /\ UNCHANGED <<record, at, cur, tries, failed, passes, cancel, shutdown, signalled,
                   procVars, callVars>>

TriesAgain ==
    /\ pc = "again"
    /\ ~Stopped /\ skip # at
    /\ AppendAttempt(at)
    /\ skip' = NoStep
    /\ UNCHANGED <<record, at, tries, failed, passes, cancel, shutdown, signalled, procVars,
                   callVars>>

Spawn ==
    /\ pc = "ready"
    /\ proc' = "alive"
    /\ signal' = "none"
    /\ pc' = "spawned"
    /\ UNCHANGED <<recVars, at, cur, tries, failed, passes, stateVars, code, callVars>>

\* There is nothing to run: the script is missing, or no agent is enabled.
NothingToRun ==
    /\ pc = "ready"
    /\ "script" \in Faults
    /\ code' = "verdict"
    /\ pc' = "judge"
    /\ UNCHANGED <<recVars, at, cur, tries, failed, passes, stateVars, proc, signal, callVars>>

\* Mutation: a cancel that came before the process existed is not noticed.
MutNoRecheck == FALSE

\* Mutation: a skip that came before the process existed is not noticed.
MutNoSkipCheck == Stopped

\* Mutation: a skip left over from another step kills this one.
MutAnySkip == Stopped \/ skip # NoStep

\* A cancel, shutdown or skip may have come when there was no process to kill.
CameBeforeSpawn == Stopped \/ skip = at

Recheck ==
    /\ pc = "spawned"
    /\ signal' = IF CameBeforeSpawn THEN "kill" ELSE signal
    /\ pc' = "running"
    /\ UNCHANGED <<recVars, at, cur, tries, failed, passes, stateVars, proc, code, callVars>>

\* run_step_process returns: the process is reaped, and a handle another
\* thread still holds reaches nobody.
Reap ==
    /\ pc = "running"
    /\ proc = "exited"
    /\ proc' = "none"
    /\ pc' = "judge"
    /\ canceller' = IF canceller = "aiming" THEN "missed" ELSE canceller
    /\ skipper' = "idle"
    /\ UNCHANGED <<recVars, at, cur, tries, failed, passes, stateVars, code, signal, sweeper,
                   stopping, asked>>

Bad == code # "ok"

\* Mutation: any pending skip makes a failed step a skipped one.
MutSkipsWhatever ==
    IF shutdown /\ Bad THEN "interrupted"
    ELSE IF cancel /\ (Bad \/ signalled) THEN "cancelled"
    ELSE IF ~Bad THEN "succeeded"
    ELSE IF skip # NoStep THEN "skipped"
    ELSE "failed"

Outcome ==
    IF shutdown /\ Bad THEN "interrupted"
    ELSE IF cancel /\ (Bad \/ signalled) THEN "cancelled"
    ELSE IF ~Bad THEN "succeeded"
    ELSE IF skip = at THEN "skipped"
    ELSE "failed"

RetryDue == Outcome = "failed" /\ code # "verdict" /\ (at \in Endless \/ tries < Retries[at])

\* Mutation: the attempts are counted down, from nothing.
MutCountsDown ==
    /\ pc = "judge"
    /\ RetryDue
    /\ Mark(at, "failed")
    /\ tries' = tries - 1
    /\ skip' = NoStep
    /\ pc' = "again"
    /\ UNCHANGED <<record, words, at, cur, failed, passes, cancel, shutdown, signalled, procVars,
                   callVars>>

JudgeRetries ==
    /\ pc = "judge"
    /\ RetryDue
    /\ Mark(at, "failed")
    \* of an endless step only matters that this is not its first try
    /\ tries' = IF at \in Endless THEN 1 ELSE tries + 1
    /\ skip' = NoStep
    /\ pc' = "again"
    /\ UNCHANGED <<record, words, at, cur, failed, passes, cancel, shutdown, signalled, procVars,
                   callVars>>

JudgeEnds ==
    /\ pc = "judge"
    /\ ~RetryDue
    /\ Mark(at, Outcome)
    /\ Fold(at)
    /\ failed' = (failed \/ Outcome = "failed")
    /\ skip' = NoStep
    /\ pc' = "leave"
    /\ UNCHANGED <<record, at, cur, tries, passes, cancel, shutdown, signalled, procVars, callVars>>

Leave ==
    /\ pc = "leave"
    /\ cur' = NoStep
    /\ at' = at + 1
    /\ pc' = "head"
    /\ UNCHANGED <<recVars, tries, failed, passes, stateVars, procVars, callVars>>

Some(statuses) == \E s \in Steps : step[s] \in statuses

\* Mutation: a cancel marks the record even when it came too late for any step.
MutLateCancelWins ==
    IF shutdown /\ Some({"interrupted", "queued", "executing"}) THEN "interrupted"
    ELSE IF cancel THEN "cancelled"
    ELSE IF failed THEN "failed" ELSE "succeeded"

\* The final status.  A flag counts only when it reached a step.
FinalStatus ==
    IF shutdown /\ Some({"interrupted", "queued", "executing"}) THEN "interrupted"
    ELSE IF cancel /\ Some({"cancelled", "queued", "executing"}) THEN "cancelled"
    ELSE IF failed THEN "failed" ELSE "succeeded"

CutShort(s) == FinalStatus = "interrupted" /\ step[s] \in {"queued", "executing"}

\* The verdict stands in memory, where every reader sees it, before it is
\* logged and written.
Finalize ==
    /\ pc = "head" /\ at = NumSteps + 1
    /\ record' = FinalStatus
    /\ step' = [s \in Steps |-> IF CutShort(s) THEN "interrupted" ELSE step[s]]
    /\ attempt' = [s \in Steps |-> IF CutShort(s) /\ attempt[s] = "executing" THEN "interrupted"
                                   ELSE attempt[s]]
    /\ cur' = NoStep
    /\ pc' = "decided"
    /\ UNCHANGED <<words, at, tries, failed, passes, stateVars, procVars, callVars>>

WritesVerdict ==
    /\ pc = "decided"
    /\ pc' = "written"
    /\ UNCHANGED <<recVars, at, cur, tries, failed, passes, stateVars, procVars, callVars>>

\* The user is notified, unless it was a cancel or a shutdown.
Notify ==
    /\ pc = "written"
    /\ pc' = "closed"
    /\ UNCHANGED <<recVars, at, cur, tries, failed, passes, stateVars, procVars, callVars>>

\* The except clause: what was executing has failed, and so has the record,
\* whatever verdict it showed already.
FailRecord ==
    /\ record' = "failed"
    /\ step' = [s \in Steps |-> IF step[s] = "executing" THEN "failed" ELSE step[s]]
    /\ attempt' = [s \in Steps |-> IF step[s] = "executing" /\ attempt[s] = "executing"
                                   THEN "failed" ELSE attempt[s]]

\* A write, a spawn or anything else raises: also the log line or the write of
\* the verdict.  run_step_process has by then killed and reaped its process.
EngineError ==
    /\ \/ "engine" \in Faults /\ pc \notin {"written", "closed", "over"}
       \* the notification's thread cannot be started
       \/ "notify" \in Faults /\ pc = "written" /\ record \in {"succeeded", "failed"}
    /\ FailRecord
    /\ cur' = NoStep
    /\ proc' = "none"
    /\ pc' = "closed"
    /\ canceller' = IF canceller = "aiming" THEN "missed" ELSE canceller
    /\ skipper' = "idle"
    /\ UNCHANGED <<words, at, tries, failed, passes, stateVars, code, signal, sweeper, stopping,
                   asked>>

\* The finally clause takes the execution out of engine._live.
GoesOver ==
    /\ pc = "closed"
    /\ pc' = "over"
    /\ UNCHANGED <<recVars, at, cur, tries, failed, passes, stateVars, procVars, callVars>>

(***************************************************************************)
(* Engine.retry: a new pass over the same record, with a state of its own. *)
(* What a cancel or skip still does to the old state reaches nobody.       *)
(***************************************************************************)
\* Mutation: every step is run again.
MutStartsAllOver(status) == "queued"

Requeued(status) == IF status = "failed" THEN "queued" ELSE status

Retry ==
    /\ pc = "over" /\ record = "failed"
    /\ ~stopping
    /\ passes < MaxPasses
    /\ record' = "executing"
    /\ step' = [s \in Steps |-> Requeued(step[s])]
    /\ words' = [s \in Steps |-> "none"]
    /\ pc' = "prologue" /\ at' = 1 /\ tries' = 0 /\ failed' = FALSE
    /\ passes' = passes + 1
    /\ cancel' = FALSE /\ shutdown' = FALSE /\ signalled' = FALSE /\ skip' = NoStep
    /\ canceller' = "idle" /\ skipper' = "idle"
    /\ UNCHANGED <<attempt, cur, procVars, sweeper, stopping, asked>>

(***************************************************************************)
(* The step's process                                                      *)
(***************************************************************************)
\* It exits as it pleases, unless it was killed.  A verdict is a failure that
\* no retry would change.
Exits(c) ==
    /\ proc = "alive"
    /\ c # "bad" => signal # "kill"
    /\ c = "verdict" => signal = "none"
    /\ proc' = "exited"
    /\ code' = c
    /\ words' \in {words, [words EXCEPT ![at] = "held"]}
    /\ UNCHANGED <<record, step, attempt, loopVars, stateVars, signal, callVars>>

\* SIGTERM now, and SIGKILL from the grace timer.
Terminate == signal' = IF proc = "alive" /\ signal = "none" THEN "term" ELSE signal

GraceEnds ==
    /\ proc = "alive"
    /\ signal = "term"
    /\ signal' = "kill"
    /\ UNCHANGED <<recVars, loopVars, stateVars, proc, code, callVars>>

(***************************************************************************)
(* Engine.cancel, Engine.skip_step, Engine.kill_all_live                   *)
(***************************************************************************)
CancelFlags ==
    /\ IsLive
    /\ canceller = "idle" /\ ~cancel
    /\ cancel' = TRUE
    /\ canceller' = "flagged"
    /\ UNCHANGED <<recVars, loopVars, shutdown, signalled, skip, procVars, skipper, sweeper,
                   stopping, asked>>

\* The handle is read, and polled, only after the flag is up.
CancelLooks ==
    /\ canceller = "flagged"
    /\ canceller' = IF proc = "alive" THEN "aiming" ELSE "idle"
    /\ UNCHANGED <<recVars, loopVars, stateVars, procVars, skipper, sweeper, stopping, asked>>

CancelSignals ==
    /\ canceller \in {"aiming", "missed"}
    /\ signalled' = TRUE
    /\ IF canceller = "aiming" THEN Terminate ELSE UNCHANGED signal
    /\ canceller' = "idle"
    /\ UNCHANGED <<recVars, loopVars, cancel, shutdown, skip, proc, code, skipper, sweeper,
                   stopping, asked>>

\* skip_step compares the step asked for with h["_cur"], under engine._lock.
IsCurrent(s) == cur = s

SkipAccepts(s) ==
    /\ IsLive
    /\ skipper = "idle"
    /\ IsCurrent(s)
    /\ skip' = s
    /\ asked' = asked \cup {s}
    /\ skipper' = IF proc = "none" THEN "idle" ELSE "aiming"
    /\ UNCHANGED <<recVars, loopVars, cancel, shutdown, signalled, procVars, canceller, sweeper,
                   stopping>>

SkipSignals ==
    /\ skipper = "aiming"
    /\ Terminate
    /\ skipper' = "idle"
    /\ UNCHANGED <<recVars, loopVars, stateVars, proc, code, canceller, sweeper, stopping, asked>>

SweepLists ==
    /\ ~stopping
    /\ stopping' = TRUE
    /\ sweeper' = IF IsLive THEN "listed" ELSE "idle"
    /\ UNCHANGED <<recVars, loopVars, stateVars, procVars, canceller, skipper, asked>>

SweepFlags ==
    /\ sweeper = "listed"
    /\ shutdown' = TRUE
    /\ sweeper' = "flagged"
    /\ UNCHANGED <<recVars, loopVars, cancel, signalled, skip, procVars, canceller, skipper,
                   stopping, asked>>

SweepKills ==
    /\ sweeper = "flagged"
    /\ signal' = IF proc = "alive" THEN "kill" ELSE signal
    /\ sweeper' = "idle"
    /\ UNCHANGED <<recVars, loopVars, stateVars, proc, code, canceller, skipper, stopping, asked>>

-----------------------------------------------------------------------------
EngineThread ==
    \/ Prologue \/ HeadPasses \/ HeadCloses \/ HeadBegins
    \/ GivesUpRetry \/ TriesAgain
    \/ Spawn \/ NothingToRun \/ Recheck \/ Reap
    \/ JudgeRetries \/ JudgeEnds \/ Leave
    \/ Finalize \/ WritesVerdict \/ Notify \/ GoesOver

Process == GraceEnds \/ \E c \in {"ok", "bad", "verdict"} : Exits(c)

Callers ==
    \/ CancelFlags \/ CancelLooks \/ CancelSignals
    \/ \E s \in Steps : SkipAccepts(s)
    \/ SkipSignals
    \/ SweepLists \/ SweepFlags \/ SweepKills

Next == EngineThread \/ EngineError \/ Retry \/ Process \/ Callers

Spec == Init /\ [][Next]_vars

\* Threads run, a grace timer fires, and what is killed exits.  A step nobody
\* stops may run for ever.
Fairness ==
    /\ WF_vars(EngineThread)
    /\ WF_vars(GraceEnds)
    /\ WF_vars(signal = "kill" /\ Exits("bad"))
    /\ WF_vars(CancelLooks) /\ WF_vars(CancelSignals)
    /\ WF_vars(SkipSignals)
    /\ WF_vars(SweepFlags) /\ WF_vars(SweepKills)

FairSpec == Spec /\ Fairness

(***************************************************************************)
(* Properties                                                              *)
(***************************************************************************)
RecTypeOK ==
    /\ record \in Terminal \cup {"executing"}
    /\ step \in [Steps -> Ended \cup {"queued", "executing"}]
    /\ attempt \in [Steps -> Ended \cup {"none", "executing"}]
    /\ words \in [Steps -> {"none", "held", "folded"}]

LoopTypeOK ==
    /\ pc \in Places
    /\ at \in 1..(NumSteps + 1)
    /\ pc \in InStep => at \in Steps
    /\ cur \in Steps \cup {NoStep}
    /\ tries \in Nat
    /\ failed \in BOOLEAN
    /\ passes \in Nat

CallTypeOK ==
    /\ cancel \in BOOLEAN /\ shutdown \in BOOLEAN /\ signalled \in BOOLEAN
    /\ skip \in Steps \cup {NoStep}
    /\ proc \in {"none", "alive", "exited"}
    /\ code \in {"ok", "bad", "verdict"}
    /\ signal \in {"none", "term", "kill"}
    /\ canceller \in {"idle", "flagged", "aiming", "missed"}
    /\ skipper \in {"idle", "aiming"}
    /\ sweeper \in {"idle", "listed", "flagged"}
    /\ stopping \in BOOLEAN
    /\ asked \subseteq Steps

TypeOK == RecTypeOK /\ LoopTypeOK /\ CallTypeOK

\* The final status tells what became of the steps (engine.py, "finalize"):
\* nothing is left executing, a success means that every step is done, a
\* cancel or a shutdown is named only if there was one and it left a step
\* undone, and one that came too late for any step changes nothing.
VerdictFitsSteps ==
    record # "executing" =>
       /\ ~Some({"executing"})
       /\ record = "succeeded" => \A s \in Steps : step[s] \in Done
       /\ record = "cancelled" => cancel /\ Some({"cancelled", "queued"})
       /\ record = "interrupted" => shutdown /\ Some({"interrupted"})

\* A step reads as its latest attempt does (_execute, the retry loop), unless
\* this pass has yet to try it or was stopped before it did.
LatestAttemptTells ==
    \A s \in Steps :
       \/ attempt[s] = step[s]
       \/ /\ attempt[s] = "none" \/ (attempt[s] \notin Done \cup {"executing"} /\ passes > 1)
          /\ step[s] \in {"queued", "cancelled", "interrupted"}

\* What an attempt said through result and notify counts for the execution
\* when the attempt was the step's final one, and only then (fold_attempt).
OnlyFinalWordsCount ==
    \A s \in Steps :
       /\ words[s] = "folded" => step[s] # "executing" /\ ~(pc = "again" /\ at = s)
       /\ words[s] = "held" => at = s \/ pc \in {"closed", "over"}

\* A step is skipped only when a skip was accepted for that very step.
SkippedOnlyIfAsked == \A s \in Steps : step[s] = "skipped" => s \in asked

\* A step whose process was signalled never reads failed: whoever sent the
\* signal, for a cancel, a skip or a shutdown, meant this step, and its status
\* says so.
FailsOnItsOwn ==
    [][pc = "judge" /\ pc' \in {"again", "leave"} /\ step'[at] = "failed"
       => signal = "none" \/ code = "verdict"]_vars

\* What the record tells is what the attempts did: a step reads as its latest
\* attempt, only a final attempt's words count, and a step that was signalled
\* never reads failed (engine.py, _execute, fold_attempt).
AttemptsAreTold ==
    /\ [](LatestAttemptTells /\ OnlyFinalWordsCount)
    /\ FailsOnItsOwn

\* No cancel, skip or shutdown misses a process that was starting at the time:
\* once the thread that asked for it is through, the step it meant runs only
\* under a signal.
NothingOutrunsItsSignal ==
    pc = "running" /\ proc = "alive" /\ signal = "none" =>
       /\ cancel => canceller # "idle"
       /\ shutdown => sweeper # "idle"
       /\ skip = at => skipper # "idle"

\* A live execution that is cancelled, or swept by a shutdown, ends.
StopEnds == Stopped ~> pc = "over"

\* A skip gets past a step that would be retried for ever.
SkipMovesOn == \A s \in Steps : (skip = s /\ cur = s) ~> cur # s

\* A cancel or a shutdown ends the execution, and a skip gets past a step that
\* would be retried for ever (engine.py).
StopsAndSkipsLand == StopEnds /\ SkipMovesOn

\* An instance for TLC: the first step may be retried once, no other.
RetryFirst == [s \in Steps |-> IF s = 1 THEN 1 ELSE 0]

\* What the steps of an execution promise, without any of the machinery.
Promise == INSTANCE StepPass

ImplementsStepPass == Promise!Spec
=============================================================================
