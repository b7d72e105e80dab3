------------------------------ MODULE AgentCall ------------------------------
(***************************************************************************)
(* One call of an agent CLI (harness._invoke): the invoking thread that    *)
(* spawns the child, reads its stdout and reaps it; the watchdog that      *)
(* kills it after a silent window or the hard cap; the writer thread with  *)
(* the prompt; the scratch watcher with its documents; and a drafting      *)
(* cancel that may arrive at any moment.  The child may leave a helper     *)
(* behind that survives the kill of the group and holds the pipes open.    *)
(***************************************************************************)
EXTENDS Naturals

CONSTANTS Silence,       \* the silent window (agent_timeout), in ticks
          HardCap,    \* the cap on the whole call (agent_hard_cap), in ticks
          Documents,  \* bound: the documents the CLI may save, of "small" and "big"
          MayCancel     \* bound: whether a cancel may come

ASSUME CallAssumption ==
  Silence \in Nat /\ HardCap \in Nat /\ Documents \subseteq {"small", "big"}

VARIABLES call,       \* where the invoking thread is
          child,      \* the CLI: none, running, or how it ended
          helper,     \* an escaped process holds the pipe ends
          prompt,     \* the stdin payload: unsent, partly, sent, dropped
          line,       \* a line is in the stdout pipe, unread
          mute,       \* the running child closed its stdout
          held,       \* what proc_holder shows: "no", "proc", "both"
          released,   \* the readers and the writer are defused
          drained,    \* a defused reader has handed back its last
          expired, capped, overflow,    \* the events of the call
          done,       \* the event that disarms the watchdog
          guard,      \* the watchdog: off, watch, due, kill, release, ended
          canceller,  \* the cancel: no, flagged, term, free, kill, gone
          quiet, age, \* ticks since the last line or event, since the start
          doc,        \* the scratch document: none, small, big
          poll,       \* the watcher: off, wait, reading, stopped
          dead,       \* _dead: stop() has run
          fed,        \* the feed: none, shown, late
          verdict     \* what the call returned or raised

pipes == <<prompt, line, mute, released, drained>>
callEvents == <<expired, capped, overflow>>
watched == <<doc, poll, dead, fed>>
clock == <<quiet, age>>
agentCallVars == <<call, child, helper, pipes, held, callEvents, done, guard, canceller,
              clock, watched, verdict>>

Assembling == {"spawned", "holding", "held", "built"}
Verdicts == {"none", "reply", "bare", "timeout", "hard cap", "failed", "too big", "error"}

CallTypeOK ==
    /\ call \in Assembling \cup {"idle", "reading", "reaping", "raising", "stopping",
                               "answering", "leaving", "returned"}
    /\ child \in {"none", "running", "ok", "bad", "killed"}
    /\ prompt \in {"unsent", "partly", "sent", "dropped"}
    /\ held \in {"no", "proc", "both"}
    /\ guard \in {"off", "watch", "due", "kill", "release", "ended"}
    /\ canceller \in {"no", "flagged", "term", "free", "kill", "gone"}
    /\ quiet \in 0..Silence /\ age \in 0..HardCap
    /\ doc \in {"none", "small", "big"} /\ poll \in {"off", "wait", "reading", "stopped"}
    /\ fed \in {"none", "shown", "late"} /\ verdict \in Verdicts
    /\ {helper, line, mute, released, drained, expired, capped, overflow, done, dead} \subseteq BOOLEAN

CallInit ==
    /\ call = "idle" /\ child = "none" /\ helper = FALSE
    /\ prompt = "unsent" /\ line = FALSE /\ mute = FALSE /\ released = FALSE
    /\ drained = FALSE
    /\ held = "no" /\ expired = FALSE /\ capped = FALSE /\ overflow = FALSE
    /\ done = FALSE /\ guard = "off" /\ canceller = "no"
    /\ quiet = 0 /\ age = 0
    /\ doc = "none" /\ poll = "off" /\ dead = FALSE /\ fed = "none"
    /\ verdict = "none"

-----------------------------------------------------------------------------
(* What ends a pipe, and what a kill does.                                 *)

\* The group is signalled: a running child dies, an escaped helper does not.
KillCallGroup == child' = IF child = "running" THEN "killed" ELSE child

PromptWriters == (child = "running" /\ ~mute) \/ helper

\* readline answers "": the writers are gone, or the reader was defused, and
\* what the pipe held is drained; a defused reader drains up to its cap only,
\* whoever keeps on writing.
NoDrain == ~line /\ (~PromptWriters \/ released)
AtEof == drained \/ (~line /\ (~PromptWriters \/ released))

\* _release before the pipes are built frees nothing.
Built == call \notin {"idle"} \cup (Assembling \ {"built"})
ReleaseCall == released' = (released \/ Built)

-----------------------------------------------------------------------------
(* The invoking thread.                                                    *)

\* Unknown harness, failed preflight, missing binary, failed Popen.
CannotSpawn ==
    /\ call = "idle"
    /\ call' = "returned" /\ verdict' = "error"
    /\ UNCHANGED <<child, helper, pipes, held, callEvents, done, guard, canceller, clock, watched>>

SpawnAgent ==
    /\ call = "idle"
    /\ call' = "spawned" /\ child' = "running"
    /\ UNCHANGED <<helper, pipes, held, callEvents, done, guard, canceller, clock, watched,
                   verdict>>

Hold ==
    /\ \/ call = "spawned" /\ call' = "holding" /\ held' = "proc"
       \/ call = "holding" /\ call' = "held" /\ held' = "both"
    /\ UNCHANGED <<child, helper, pipes, callEvents, done, guard, canceller, clock, watched,
                   verdict>>

\* The writer thread and both readers exist from here on.
Build ==
    /\ call = "held"
    /\ call' = "built" /\ prompt' = "partly"
    /\ UNCHANGED <<child, helper, line, mute, released, drained, held, callEvents, done, guard,
                   canceller,
                   clock, watched, verdict>>

\* A reader or a thread cannot be made: the outer handler kills and reaps.
BuildFails ==
    /\ call \in {"held", "built"}
    /\ KillCallGroup /\ done' = TRUE /\ released' = TRUE
    /\ call' = "leaving" /\ verdict' = "error"
    /\ UNCHANGED <<helper, prompt, line, mute, drained, held, callEvents, guard, canceller, clock,
                   watched>>

NeverAborting == FALSE
Aborting == canceller /= "no"      \* should_abort()

\* should_abort is read again now that the process can be seen; then the
\* watchdog, the stderr drain and the scratch watcher start.
CallRecheck ==
    /\ call = "built"
    /\ IF Aborting THEN KillCallGroup /\ ReleaseCall ELSE UNCHANGED <<child, released>>
    /\ call' = "reading" /\ guard' = "watch" /\ poll' = "wait"
    /\ UNCHANGED <<helper, prompt, line, mute, drained, held, callEvents, done, canceller, clock,
                   doc, dead, fed, verdict>>

\* Every line pushes the silent window out.  The stream cap, or a handler or a
\* callback that raises, ends the loop through its BaseException branch.
ReadLine ==
    /\ call = "reading" /\ line /\ ~drained
    /\ line' = FALSE /\ quiet' = 0 /\ drained' = released
    /\ \/ UNCHANGED <<call, verdict>>
       \/ call' = "raising" /\ verdict' \in {"too big", "error"}
    /\ UNCHANGED <<child, helper, prompt, mute, released, held, callEvents, done, guard, canceller,
                   age, watched>>

\* End of stdout disarms the watchdog before the reap.
Eof ==
    /\ call = "reading" /\ AtEof
    /\ call' = "reaping" /\ done' = TRUE
    /\ UNCHANGED <<child, helper, pipes, held, callEvents, guard, canceller, clock, watched,
                   verdict>>

\* proc.wait: it exits on its own, or REAP_TIMEOUT_S passes and it is killed.
Reap ==
    /\ call = "reaping"
    /\ KillCallGroup /\ call' = "stopping"
    /\ UNCHANGED <<helper, pipes, held, callEvents, done, guard, canceller, clock, watched,
                   verdict>>

Raise ==
    /\ call = "raising"
    /\ KillCallGroup /\ call' = "stopping"
    /\ UNCHANGED <<helper, pipes, held, callEvents, done, guard, canceller, clock, watched,
                   verdict>>

\* The inner finally: the writer is closed, the watcher stopped.  Its thread
\* is joined for 5 s: joined, the final sweep feeds the document; still in a
\* read, the sweep is skipped.
Stop ==
    /\ call = "stopping"
    /\ done' = TRUE
    /\ prompt' = IF prompt = "partly" THEN "dropped" ELSE prompt
    /\ IF poll = "reading"
          THEN dead' = TRUE /\ UNCHANGED <<poll, fed, overflow>>
          ELSE /\ poll' = "stopped" /\ UNCHANGED dead
               /\ overflow' = (overflow \/ doc = "big")
               /\ fed' = IF doc = "small" THEN "shown" ELSE fed
    /\ call' = IF verdict = "none" THEN "answering" ELSE "leaving"
    /\ UNCHANGED <<child, helper, line, mute, released, drained, held, expired, capped, guard,
                   canceller,
                   clock, doc, verdict>>

\* What is on disk joins the reply, polled or not.
OnlyShown == fed = "shown"
Collected == doc = "small"

IgnoresTheExit == expired
TimedOut == expired /\ child /= "ok"

Answer ==
    /\ call = "answering"
    /\ verdict' = CASE overflow -> "too big"
                    [] ~overflow /\ TimedOut -> (IF capped THEN "hard cap" ELSE "timeout")
                    [] ~overflow /\ ~TimedOut /\ child /= "ok" -> "failed"
                    [] OTHER -> (IF doc = "big" THEN "too big"
                                 ELSE IF Collected THEN "reply" ELSE "bare")
    /\ call' = "leaving"
    /\ UNCHANGED <<child, helper, pipes, held, callEvents, done, guard, canceller, clock, watched>>

\* The outer finally: the pipes are closed (each defused first), the scratch
\* directory goes.
LeaveCall ==
    /\ call = "leaving"
    /\ released' = TRUE
    /\ prompt' = IF prompt = "partly" THEN "dropped" ELSE prompt
    /\ call' = "returned"
    /\ UNCHANGED <<child, helper, line, mute, drained, held, callEvents, done, guard, canceller,
                   clock,
                   watched, verdict>>

-----------------------------------------------------------------------------
(* The watchdog: the deadlines are read, then each step of _kill.          *)

WatchEnds ==
    /\ guard = "watch" /\ done
    /\ guard' = "ended"
    /\ UNCHANGED <<call, child, helper, pipes, held, callEvents, done, canceller, clock, watched,
                   verdict>>

WatchDecides ==
    /\ guard = "watch" /\ ~done
    /\ \/ age = HardCap /\ capped' = TRUE
       \/ age < HardCap /\ quiet = Silence /\ UNCHANGED capped
    /\ guard' = "due"
    /\ UNCHANGED <<call, child, helper, pipes, held, expired, overflow, done, canceller, clock,
                   watched, verdict>>

WatchKills ==
    /\ \/ guard = "due" /\ expired' = TRUE /\ guard' = "kill" /\ UNCHANGED <<child, released>>
       \/ guard = "kill" /\ KillCallGroup /\ guard' = "release" /\ UNCHANGED <<expired, released>>
       \/ guard = "release" /\ ReleaseCall /\ guard' = "ended" /\ UNCHANGED <<expired, child>>
    /\ UNCHANGED <<call, helper, prompt, line, mute, drained, held, capped, overflow, done,
                   canceller,
                   clock, watched, verdict>>

Tick ==
    /\ call = "reading" /\ age < HardCap
    /\ age' = age + 1
    /\ quiet' = IF quiet < Silence THEN quiet + 1 ELSE quiet
    /\ UNCHANGED <<call, child, helper, pipes, held, callEvents, done, guard, canceller, watched,
                   verdict>>

-----------------------------------------------------------------------------
(* The writer thread and the scratch watcher.                              *)

\* The rest of the prompt is abandoned: released, or nobody reads any more.
WriterGivesUp ==
    /\ prompt = "partly"
    /\ released \/ (child /= "running" /\ ~helper)
    /\ prompt' = "dropped"
    /\ UNCHANGED <<call, child, helper, line, mute, released, drained, held, callEvents, done,
                   guard, canceller,
                   clock, watched, verdict>>

\* A poll finds the document.  An oversized one kills the call; a small one
\* passes the _dead test and is then read, which may stall.
PollFinds ==
    /\ poll = "wait" /\ call \in {"reading", "reaping", "stopping", "raising"} /\ doc /= "none"
    /\ fed = "none" /\ ~overflow
    /\ IF doc = "big"
          THEN /\ overflow' = TRUE /\ UNCHANGED poll
               /\ IF child = "running" THEN KillCallGroup /\ ReleaseCall ELSE UNCHANGED <<child,
                                                                                          released>>
          ELSE /\ poll' = "reading" /\ UNCHANGED <<overflow, child, released>>
    /\ UNCHANGED <<call, helper, prompt, line, mute, drained, held, expired, capped, done, guard,
                   canceller,
                   clock, doc, dead, fed, verdict>>

\* The read ends and the event goes to the sink, which resets the window.
PollFeeds ==
    /\ poll = "reading"
    /\ fed' = IF call = "returned" THEN "late" ELSE "shown"
    /\ quiet' = 0
    /\ poll' = IF dead THEN "stopped" ELSE "wait"
    /\ UNCHANGED <<call, child, helper, pipes, held, callEvents, done, guard, canceller, age, doc,
                   dead,
                   verdict>>

-----------------------------------------------------------------------------
(* A drafting cancel: the flag, then _kill_harness on what the holder      *)
(* shows, then the hard kill on a thread of its own.                       *)

CancelCall ==
    /\ \/ canceller = "no" /\ MayCancel /\ call \notin {"idle", "returned"} /\ canceller' = "flagged"
          /\ UNCHANGED <<child, released>>
       \/ canceller = "flagged" /\ canceller' = (IF held = "no" THEN "gone" ELSE "term")
          /\ UNCHANGED <<child, released>>
       \/ canceller = "term" /\ canceller' = "free"           \* SIGTERM may be trapped
          /\ (KillCallGroup \/ UNCHANGED child) /\ UNCHANGED released
       \/ canceller = "free" /\ canceller' = "kill" /\ UNCHANGED child
          /\ IF held = "both" THEN ReleaseCall ELSE UNCHANGED released
       \/ canceller = "kill" /\ canceller' = "gone" /\ KillCallGroup /\ UNCHANGED released
    /\ UNCHANGED <<call, helper, prompt, line, mute, drained, held, callEvents, done, guard,
                   clock, watched,
                   verdict>>

-----------------------------------------------------------------------------
(* The child (external): it reads the prompt, writes, falls silent,        *)
(* leaves a helper behind, exits.                                          *)

ChildReads ==
    /\ (child = "running" \/ helper) /\ prompt = "partly"
    /\ prompt' = "sent"
    /\ UNCHANGED <<call, child, helper, line, mute, released, drained, held, callEvents, done,
                   guard, canceller,
                   clock, watched, verdict>>

ChildWrites ==
    /\ PromptWriters /\ ~line /\ call \in Assembling \cup {"reading"}
    /\ line' = TRUE
    /\ UNCHANGED <<call, child, helper, prompt, mute, released, drained, held, callEvents, done,
                   guard, canceller,
                   clock, watched, verdict>>

ChildSavesDocument ==
    /\ child = "running" /\ doc /= "big"
    /\ doc' \in Documents /\ doc' /= doc
    /\ UNCHANGED <<call, child, helper, pipes, held, callEvents, done, guard, canceller, clock,
                   poll, dead, fed, verdict>>

ChildLingers ==
    /\ child = "running" /\ ~mute
    /\ mute' = TRUE
    /\ UNCHANGED <<call, child, helper, prompt, line, released, drained, held, callEvents, done,
                   guard, canceller,
                   clock, watched, verdict>>

ChildForks ==
    /\ child = "running" /\ ~helper
    /\ helper' = TRUE
    /\ UNCHANGED <<call, child, pipes, held, callEvents, done, guard, canceller, clock, watched,
                   verdict>>

ChildExits ==
    /\ child = "running"
    /\ child' \in {"ok", "bad"}
    /\ UNCHANGED <<call, helper, pipes, held, callEvents, done, guard, canceller, clock, watched,
                   verdict>>

-----------------------------------------------------------------------------
ReaderThread == CannotSpawn \/ SpawnAgent \/ Hold \/ Build \/ BuildFails \/ CallRecheck \/ ReadLine \/ Eof
          \/ Reap \/ Raise \/ Stop \/ Answer \/ LeaveCall
Watchdog == WatchEnds \/ WatchDecides \/ WatchKills
Child == ChildReads \/ ChildWrites \/ ChildSavesDocument \/ ChildLingers \/ ChildForks \/ ChildExits

CallNext == ReaderThread \/ Watchdog \/ Tick \/ WriterGivesUp \/ PollFinds \/ PollFeeds \/ CancelCall \/ Child

CallSpec == CallInit /\ [][CallNext]_agentCallVars

\* The operating system runs every ready thread and time passes.  Nothing is
\* asked of the child: it may read nothing, write for ever and never exit.
CallFair == CallSpec /\ WF_agentCallVars(ReaderThread) /\ WF_agentCallVars(Watchdog) /\ WF_agentCallVars(Tick)

-----------------------------------------------------------------------------
(* Whatever path the call leaves by, the CLI is dead and the prompt's      *)
(* writer has let go.                                                      *)
NothingOutlivesTheCall == call = "returned" => child /= "running" /\ prompt /= "partly"

(* A CLI that finished by itself is never reported as timed out or failed, *)
(* however late the watchdog acts and whoever still holds its pipes.       *)
FinishedIsAnswered ==
    call = "returned" /\ child = "ok" => verdict \notin {"timeout", "hard cap", "failed"}

(* A cancel that has run to its end leaves no call waiting on a pipe or on *)
(* a live CLI, even when it raced the spawn.                               *)
CancelFreesTheCall ==
    canceller = "gone" /\ call \in {"reading", "reaping"} => released /\ child /= "running"

(* A document saved by a CLI that finished is in the reply, even when the  *)
(* watcher never polled it.                                                *)
DocumentsReachTheReply == call = "returned" /\ doc = "small" => verdict /= "bare"

(* A watcher that stop() could not join feeds nothing into the next round. *)
FeedEndsWithTheCall == fed /= "late"

(* Every call returns: no silent, endless, deaf or escaped child holds it. *)
CallReturns == (call = "spawned") ~> (call = "returned")
=============================================================================
