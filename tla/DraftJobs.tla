----------------------------- MODULE DraftJobs -----------------------------
(***************************************************************************)
(* The drafting jobs of one owner (an automation, or the pending slot):    *)
(* src/backend/autowright/drafting.py class DraftJobs with its locked-bytes *)
(* guard, and the requests of api.py that start, settle and remove them    *)
(* (post_draft, _settle_draft, delete_auto, the shutdown).                 *)
(*                                                                         *)
(* A job is a thread that calls an agent's command-line program, perhaps   *)
(* several times (a retry, repair rounds, a diagnosis).  Three parties     *)
(* race: the thread, whoever cancels the job, and the program itself,      *)
(* which may rewrite a locked step's script while it runs.  A job is        *)
(* marked cancelled under the registry's lock, and its program signalled    *)
(* after the lock is let go: between the two the canceller owes a call.     *)
(***************************************************************************)
EXTENDS Integers, FiniteSets

CONSTANTS MaxJobs,         \* requests for a job, in order
          MaxCalls,        \* calls of the agent a job may make
          MaxDrafts,       \* settles of the owner's draft
          MaxTampers       \* times a program rewrites the locked script

ASSUME JobsAssumption ==
  MaxJobs \in Nat /\ MaxCalls \in Nat /\ MaxDrafts \in Nat /\ MaxTampers \in Nat

Jobs == 1..MaxJobs
Held == {"done", "blocked", "failed"}

VARIABLES
  generation,   \* draft_generations[owner]
  flagged,      \* the owner's _deleting
  backend,      \* "runs", "stops" once kill_all_building has begun, "gone"
  request,      \* job -> where its POST /drafts is
  seen,         \* job -> the generation its POST read
  status,       \* job -> its status, "none" before it is registered
  known,        \* jobs with a record in the registry
  thread,       \* job -> where its thread is
  calls,        \* job -> calls made
  proc,         \* job -> its program: "none", "live", "killed" (signalled)
  grip,         \* jobs whose proc_holder names a process
  snapshot,     \* job -> the locked script as it was before the call
  script,       \* the locked step's script on disk
  tampers,
  settling,     \* a settle or a removal is between its mark and cancel_for
  noted,        \* jobs a cancel_for found building and has still to cancel
  owed          \* signals a canceller has still to send

jobVars == <<generation, flagged, backend, request, seen, status, known, thread, calls,
             proc, grip, snapshot, script, tampers, settling, noted, owed>>

\* Who marked a job cancelled and owes its program the signal: the POST of a
\* later job, DraftJobs.cancel, or the shutdown.
Canceller == 0
Stopper == MaxJobs + 1
Signal == [job : Jobs, by : 0..Stopper]
Owes(who, js) == {[job |-> j, by |-> who] : j \in js}
Waits(who) == \E c \in owed : c.by = who

JobsInit ==
  /\ generation = 0 /\ flagged = FALSE /\ backend = "runs"
  /\ request = [j \in Jobs |-> "none"] /\ seen = [j \in Jobs |-> 0]
  /\ status = [j \in Jobs |-> "none"] /\ known = {}
  /\ thread = [j \in Jobs |-> "none"] /\ calls = [j \in Jobs |-> 0]
  /\ proc = [j \in Jobs |-> "none"] /\ grip = {}
  /\ snapshot = [j \in Jobs |-> "own"] /\ script = "own" /\ tampers = 0
  /\ settling = FALSE /\ noted = {} /\ owed = {}

callVars == <<thread, calls, snapshot, script, tampers>>

Building == {j \in known : status[j] = "building"}
Droppable == known \ Building

(* _mark_cancelled_locked, under the registry's lock, for those of js that  *)
(* are building: whoever does it then owes their programs the signal.      *)
MarksCancelled(who, js) ==
  /\ status' = [j \in Jobs |-> IF j \in js \cap Building THEN "cancelled" ELSE status[j]]
  /\ owed' = owed \cup Owes(who, js \cap Building)

(* _kill_harness: what the holder names by now is signalled.               *)
Signals(c) ==
  /\ c \in owed /\ owed' = owed \ {c}
  /\ proc' = [proc EXCEPT ![c.job] = IF c.job \in grip /\ @ = "live" THEN "killed" ELSE @]
  /\ UNCHANGED <<generation, flagged, backend, request, seen, status, known, grip, settling,
                 noted, callVars>>

-----------------------------------------------------------------------------
(* POST /drafts reads the generation before it builds the context.         *)
PostReads(j) ==
  /\ request[j] = "none" /\ \A k \in Jobs : k < j => request[k] # "none"
  /\ request' = [request EXCEPT ![j] = IF flagged THEN "refused" ELSE "read"]
  /\ seen' = [seen EXCEPT ![j] = generation]
  /\ UNCHANGED <<generation, flagged, backend, status, known, proc, grip, settling, noted, owed,
                 callVars>>

(* DraftJobs.start, in one hold of the registry's lock: refuse, or cancel  *)
(* the owner's building job, consume what it holds, and insert.            *)
AdmitsStale(j) == ~ flagged
Admits(j) == ~ flagged /\ seen[j] = generation

Start(j) ==
  /\ request[j] = "read" /\ backend = "runs" /\ Admits(j)
  /\ status' = [k \in Jobs |-> IF k = j THEN "building"
                               ELSE IF k \in Building THEN "cancelled" ELSE status[k]]
  /\ known' = {j} /\ owed' = owed \cup Owes(j, Building)
  /\ request' = [request EXCEPT ![j] = "started"]
  /\ UNCHANGED <<generation, flagged, backend, seen, proc, grip, settling, noted, callVars>>

StartRefused(j) ==
  /\ request[j] = "read" /\ (backend = "stops" \/ ~ Admits(j))
  /\ request' = [request EXCEPT ![j] = "refused"]
  /\ UNCHANGED <<generation, flagged, backend, seen, status, known, proc, grip, settling, noted,
                 owed, callVars>>

(* The program of the job it superseded is signalled, then its own thread  *)
(* starts.                                                                 *)
ThreadStarts(j) ==
  /\ request[j] = "started" /\ ~ Waits(j)
  /\ thread' = [thread EXCEPT ![j] = "ready"]
  /\ request' = [request EXCEPT ![j] = "launched"]
  /\ UNCHANGED <<generation, flagged, backend, seen, status, known, proc, grip, calls, snapshot,
                 script, tampers, settling, noted, owed>>

(* The belt-and-braces check after it.  A removal has begun: cancel_for.   *)
(* The draft was settled: the job is cancelled, or what it ended with is   *)
(* dropped.                                                                *)
PostAnswers(j) ==
  /\ request[j] = "launched" /\ request' = [request EXCEPT ![j] = "answered"]
  /\ \/ flagged /\ known' = known \ Droppable /\ noted' = noted \cup Building
        /\ UNCHANGED <<status, owed>>
     \/ ~ flagged /\ seen[j] # generation /\ MarksCancelled(Canceller, {j})
        /\ known' = known \ ({j} \cap Droppable) /\ UNCHANGED noted
     \/ ~ flagged /\ seen[j] = generation /\ UNCHANGED <<status, known, noted, owed>>
  /\ UNCHANGED <<generation, flagged, backend, seen, proc, grip, settling, callVars>>

-----------------------------------------------------------------------------
(* cancel: never over a terminal status.  A user's, or one of cancel_for's, *)
(* after its scan.                                                         *)
UserCancels(j) ==
  /\ j \in Building /\ MarksCancelled(Canceller, {j})
  /\ UNCHANGED <<generation, flagged, backend, request, seen, known, proc, grip, settling, noted,
                 callVars>>

Cancels(j) ==
  /\ j \in noted /\ noted' = noted \ {j} /\ MarksCancelled(Canceller, {j})
  /\ UNCHANGED <<generation, flagged, backend, request, seen, known, proc, grip, settling,
                 callVars>>

(* ack: the editor has applied a settled outcome.                          *)
Ack(j) ==
  /\ j \in known /\ status[j] # "building"
  /\ known' = known \ {j}
  /\ UNCHANGED <<generation, flagged, backend, request, seen, status, proc, grip, settling, noted,
                 owed, callVars>>

(* _settle_draft bumps the generation, delete_auto raises its flag ...     *)
SettleBumps ==
  /\ ~ settling /\ generation < MaxDrafts
  /\ generation' = generation + 1 /\ settling' = TRUE
  /\ UNCHANGED <<flagged, backend, request, seen, status, known, proc, grip, noted, owed,
                 callVars>>

RemovalFlags ==
  /\ ~ settling /\ ~ flagged
  /\ flagged' = TRUE /\ settling' = TRUE
  /\ UNCHANGED <<generation, backend, request, seen, status, known, proc, grip, noted, owed,
                 callVars>>

(* ... then cancel_for: the building ones noted and the rest dropped under *)
(* the lock, the cancels one by one after it (Cancels).                    *)
SettleScans ==
  /\ settling /\ settling' = FALSE
  /\ known' = known \ Droppable /\ noted' = noted \cup Building
  /\ UNCHANGED <<generation, flagged, backend, request, seen, status, proc, grip, owed,
                 callVars>>

(* kill_all_building: refuse from now on, mark, and kill outright.         *)
Shutdown ==
  /\ backend = "runs" /\ backend' = "stops" /\ MarksCancelled(Stopper, Building)
  /\ UNCHANGED <<generation, flagged, request, seen, known, proc, grip, settling, noted,
                 callVars>>

(* The process ends, and with it its threads, wherever they are; a program *)
(* in a session of its own is left to itself.                              *)
Exits ==
  /\ backend = "stops" /\ ~ Waits(Stopper) /\ backend' = "gone"
  /\ thread' = [j \in Jobs |-> "none"] /\ grip' = {} /\ noted' = {} /\ owed' = {}
  /\ UNCHANGED <<generation, flagged, request, seen, status, known, calls, proc, snapshot,
                 script, tampers, settling>>

-----------------------------------------------------------------------------
(* The thread.  _invoke: check for a cancel, remember the locked script,   *)
(* then the call.                                                          *)
Cancelled(j) == status[j] = "cancelled"

InvokeBegins(j) ==
  /\ thread[j] = "ready"
  /\ IF Cancelled(j) \/ calls[j] = MaxCalls
     THEN thread' = [thread EXCEPT ![j] = "settling"] /\ UNCHANGED <<snapshot, calls>>
     ELSE /\ thread' = [thread EXCEPT ![j] = "calling"]
          /\ snapshot' = [snapshot EXCEPT ![j] = script]
          /\ calls' = [calls EXCEPT ![j] = @ + 1]
  /\ UNCHANGED <<generation, flagged, backend, request, seen, status, known, proc, grip,
                 script, tampers, settling, noted, owed>>

(* harness.invoke: the process exists, then the holder names it, then the  *)
(* cancel flag is read again.                                              *)
Spawn(j) ==
  /\ thread[j] = "calling"
  /\ proc' = [proc EXCEPT ![j] = "live"] /\ thread' = [thread EXCEPT ![j] = "spawned"]
  /\ UNCHANGED <<generation, flagged, backend, request, seen, status, known, grip, calls,
                 snapshot, script, tampers, settling, noted, owed>>

Registers(j) ==
  /\ thread[j] = "spawned"
  /\ grip' = grip \cup {j} /\ thread' = [thread EXCEPT ![j] = "registered"]
  /\ UNCHANGED <<generation, flagged, backend, request, seen, status, known, proc, calls,
                 snapshot, script, tampers, settling, noted, owed>>

AbortIgnored(j) ==
  /\ thread[j] = "registered"
  /\ thread' = [thread EXCEPT ![j] = "reading"]
  /\ UNCHANGED <<generation, flagged, backend, request, seen, status, known, proc, grip, calls,
                 snapshot, script, tampers, settling, noted, owed>>
AbortCheck(j) ==
  /\ thread[j] = "registered"
  /\ proc' = IF Cancelled(j) THEN [proc EXCEPT ![j] = "killed"] ELSE proc
  /\ thread' = [thread EXCEPT ![j] = "reading"]
  /\ UNCHANGED <<generation, flagged, backend, request, seen, status, known, grip, calls,
                 snapshot, script, tampers, settling, noted, owed>>

(* The program ends by itself, by its time limit or by the kill; the call  *)
(* reaps it and lets go of it.                                             *)
CallEnds(j) ==
  /\ thread[j] = "reading"
  /\ proc' = [proc EXCEPT ![j] = "none"] /\ grip' = grip \ {j}
  /\ thread' = [thread EXCEPT ![j] = "guarding"]
  /\ UNCHANGED <<generation, flagged, backend, request, seen, status, known, calls,
                 snapshot, script, tampers, settling, noted, owed>>

(* restore_locked: a changed script is written back and the response is    *)
(* thrown away unread.                                                     *)
GuardOnlyReports(j) ==
  /\ thread[j] = "guarding"
  /\ thread' = [thread EXCEPT ![j] = IF script # snapshot[j] THEN "tampered" ELSE "returned"]
  /\ UNCHANGED <<generation, flagged, backend, request, seen, status, known, proc, grip,
                 calls, snapshot, script, tampers, settling, noted, owed>>
GuardCompares(j) ==
  /\ thread[j] = "guarding"
  /\ script' = snapshot[j]
  /\ thread' = [thread EXCEPT ![j] = IF script # snapshot[j] THEN "tampered" ELSE "returned"]
  /\ UNCHANGED <<generation, flagged, backend, request, seen, status, known, proc, grip,
                 calls, snapshot, tampers, settling, noted, owed>>

(* The response: another call (a retry, a repair round, the diagnosis), or *)
(* the end of the pipeline.                                                *)
GoesOn(j) ==
  /\ thread[j] = "returned"
  /\ \E next \in IF Cancelled(j) THEN {"settling"} ELSE {"ready", "settling"} :
        thread' = [thread EXCEPT ![j] = next]
  /\ UNCHANGED <<generation, flagged, backend, request, seen, status, known, proc, grip,
                 calls, snapshot, script, tampers, settling, noted, owed>>

(* _settle: the only way to a held status, and never over a cancel.        *)
SettlesAnything(j) == TRUE
MaySettle(j) == status[j] = "building"

Settles(j) ==
  /\ thread[j] \in {"settling", "tampered"}
  /\ thread' = [thread EXCEPT ![j] = "over"]
  /\ \E s \in IF thread[j] = "tampered" THEN {"failed"} ELSE Held :
        status' = [status EXCEPT ![j] = IF MaySettle(j) THEN s ELSE @]
  /\ UNCHANGED <<generation, flagged, backend, request, seen, known, proc, grip, calls,
                 snapshot, script, tampers, settling, noted, owed>>

(* The program writes to the locked step's script.                         *)
Tamper(j) ==
  /\ proc[j] # "none" /\ script = "own" /\ tampers < MaxTampers
  /\ script' = "changed" /\ tampers' = tampers + 1
  /\ UNCHANGED <<generation, flagged, backend, request, seen, status, known, thread, calls,
                 proc, grip, snapshot, settling, noted, owed>>

JobSteps(j) ==
  \/ InvokeBegins(j) \/ Spawn(j) \/ Registers(j) \/ AbortCheck(j) \/ CallEnds(j)
  \/ GuardCompares(j) \/ GoesOn(j) \/ Settles(j)

RegistrySteps ==
  \/ \E j \in Jobs :
        \/ PostReads(j) \/ Start(j) \/ StartRefused(j) \/ ThreadStarts(j) \/ PostAnswers(j)
        \/ UserCancels(j) \/ Cancels(j) \/ Ack(j)
  \/ \E c \in owed : Signals(c)
  \/ SettleBumps \/ RemovalFlags \/ SettleScans \/ Shutdown \/ Exits

JobsNext == backend # "gone" /\ (RegistrySteps \/ \E j \in Jobs : JobSteps(j) \/ Tamper(j))

JobsSpec == JobsInit /\ [][JobsNext]_jobVars

-----------------------------------------------------------------------------
(* Every variable has its type.                                            *)
JobsTypeOK ==
  /\ generation \in 0..MaxDrafts /\ flagged \in BOOLEAN /\ settling \in BOOLEAN
  /\ backend \in {"runs", "stops", "gone"}
  /\ request \in [Jobs -> {"none", "read", "refused", "started", "launched", "answered"}]
  /\ seen \in [Jobs -> 0..MaxDrafts]
  /\ status \in [Jobs -> {"none", "building", "cancelled"} \cup Held]
  /\ known \subseteq Jobs /\ grip \subseteq Jobs
  /\ thread \in [Jobs -> {"none", "ready", "calling", "spawned", "registered", "reading",
                          "guarding", "returned", "tampered", "settling", "over"}]
  /\ calls \in [Jobs -> 0..MaxCalls] /\ proc \in [Jobs -> {"none", "live", "killed"}]
  /\ snapshot \in [Jobs -> {"own", "changed"}] /\ script \in {"own", "changed"}
  /\ tampers \in 0..MaxTampers
  /\ noted \subseteq Jobs /\ owed \subseteq Signal

(* At most one job of the owner is building: two agent runs never write    *)
(* the same draft, though two requests may start at once.                  *)
OneJobBuilds == Cardinality(Building) =< 1

(* A job of a settled draft, or of an automation being removed, does not   *)
(* go on building: when no settle is before its scan and the request of    *)
(* the job has been answered, every building job belongs to the draft that *)
(* is there now, or a cancel_for has noted it and is about to cancel it.   *)
NoJobOutlivesItsDraft ==
  ~ settling =>
     \A j \in Building \ noted :
        request[j] = "answered" => seen[j] = generation /\ ~ flagged

(* A request that read an older generation never takes the place of the    *)
(* fresh draft's own job.                                                  *)
StaleNeverSupersedes ==
  \A j, k \in Jobs : (status[j] = "none" /\ status'[j] = "building"
                           /\ status[k] = "building" /\ status'[k] = "cancelled")
                        => seen[j] >= seen[k]

(* What a job ended as stays: a cancel that races the answer and an answer *)
(* that races the cancel both lose to whichever was first.                 *)
OutcomeStands ==
  \A j \in Jobs : status[j] \in Held \cup {"cancelled"} => status'[j] = status[j]

(* No program runs on for a job that was cancelled: while the backend runs *)
(* its live process has been signalled, or whoever cancelled it is about   *)
(* to signal what the holder names, or its own thread is about to look at  *)
(* the cancel flag.                                                        *)
CancelReachesTheProgram ==
  backend # "gone" =>
     \A j \in Jobs : (Cancelled(j) /\ proc[j] = "live")
        => \/ j \in grip /\ \E c \in owed : c.job = j
           \/ thread[j] \in {"spawned", "registered"}

(* api.py:170: a stopping backend never leaves a drafting program running  *)
(* with nobody to collect it.                                              *)
HarnessesDieWithTheBackend == backend = "gone" => \A j \in Jobs : proc[j] # "live"

(* Once the draft is settled, no outcome of the settled one is held for    *)
(* the fresh draft.                                                        *)
NothingHeldOver ==
  ~ settling =>
     \A j \in known : (status[j] \in Held /\ request[j] = "answered") => seen[j] = generation

(* The guard restores a changed script: while the backend runs and no call *)
(* is under way the locked script is the owner's, as long as one job alone *)
(* made calls ...                                                          *)
InNoCall == \A j \in Jobs : thread[j] \notin {"calling", "spawned", "registered", "reading",
                                             "guarding"}

GuardRestores ==
  (backend # "gone" /\ InNoCall /\ Cardinality({j \in Jobs : calls[j] > 0}) =< 1)
     => script = "own"

(* ... and, as restore_locked's text has it, whatever jobs there were.     *)
LockedScriptSurvives == (backend # "gone" /\ InNoCall) => script = "own"

=============================================================================
