------------------------------ MODULE StepPass ------------------------------
(***************************************************************************)
(* What running the steps of an execution promises, without processes,     *)
(* flags, signals or retries: steps run one at a time and in order, what   *)
(* is done is done for good, and the record's final status tells what      *)
(* became of the steps.  StepLoop is shown to implement this module.       *)
(***************************************************************************)
EXTENDS Naturals

CONSTANT NumSteps   \* the number of steps of the execution's version

VARIABLES
    record,     \* the status of the execution
    step        \* step -> its status

vars == <<record, step>>

Steps == 1..NumSteps
Done == {"succeeded", "skipped"}
Stopped == {"cancelled", "interrupted"}

DoneBefore(s) == \A t \in 1..(s - 1) : step[t] \in Done

AllDone == \A s \in Steps : step[s] \in Done

Init ==
    /\ record = "executing"
    /\ step = [s \in Steps |-> "queued"]

Move(s, from, to) ==
    /\ record = "executing"
    /\ step[s] \in from
    /\ \E v \in to : step' = [step EXCEPT ![s] = v]
    /\ UNCHANGED record

\* A step starts, again or for the first time, when all before it are done.
Start(s) == DoneBefore(s) /\ Move(s, {"queued", "failed"} \cup Stopped, {"executing"})

\* A step ends.  One that failed may yet be given up while its retry is due.
End(s) == Move(s, {"executing", "failed"}, Done \cup Stopped \cup {"failed"})

\* A step that is not reached.
Close(s) == Move(s, {"queued"} \cup Stopped, {"queued"} \cup Stopped)

\* The record ends.  It succeeds only when every step is done; steps cut
\* short do not stay executing.
Finish ==
    /\ record = "executing"
    /\ \/ record' = "succeeded" /\ AllDone /\ UNCHANGED step
       \/ record' = "cancelled" /\ ~AllDone /\ UNCHANGED step
       \/ /\ record' = "interrupted" /\ ~AllDone
          /\ step' = [s \in Steps |-> IF step[s] = "queued" THEN "interrupted" ELSE step[s]]
       \/ /\ record' = "failed"
          /\ step' = [s \in Steps |-> IF step[s] = "executing" THEN "failed" ELSE step[s]]
    /\ \A s \in Steps : step'[s] # "executing"

\* The verdict on a record may yet be turned into a failure, while it is being
\* written and its user told, and into nothing else.
Overrule ==
    /\ record \in {"succeeded"} \cup Stopped
    /\ record' = "failed"
    /\ UNCHANGED step

\* Only a failed record is opened again; what failed is due again.
Reopen ==
    /\ record = "failed"
    /\ record' = "executing"
    /\ step' = [s \in Steps |-> IF step[s] = "failed" THEN "queued" ELSE step[s]]

Next ==
    \/ Finish \/ Overrule
    \/ Reopen
    \/ \E s \in Steps : Start(s) \/ End(s) \/ Close(s)

Spec == Init /\ [][Next]_vars
=============================================================================
