---------------------------- MODULE StepProcess ----------------------------
(***************************************************************************)
(* engine.py, run_step_process: the processes of one execution's steps,    *)
(* one after another, with the threads that may kill them: the reader (the *)
(* engine thread), the exit watcher and the timeout watchdog of each, the  *)
(* grace timers of _term_then_kill, its callers (cancel, skip_step) and    *)
(* the shutdown sweep.  They share the state of the execution and take no  *)
(* lock around it, so each read and each write of it is an action.         *)
(*                                                                         *)
(* A process may leave a child in its group and another that escaped into  *)
(* a session of its own; either holds the log pipe open.  The CLI of an    *)
(* agent call runs in its own session too, and is announced over the pipe. *)
(* SIGKILL always ends what it reaches; SIGTERM may be trapped.            *)
(***************************************************************************)
EXTENDS Naturals

CONSTANTS
    NumProcs,   \* bound: how many steps are run, one process each
    Callers,    \* the threads that cancel or skip
    NoCaller,   \* "no caller"
    Limits,     \* the sets of steps that may have a time limit (timeout_s)
    Leftovers,  \* what a step may leave running: "child" in its group, "escapee" outside
    Shutdowns,  \* bound: whether the backend is shut down, 0 or 1 times
    Failing      \* what may fail: "write" (a record or log write), "thread" (a thread start)

Procs == 1..NumProcs
NoProc == 0

ASSUME ProcsAssumption == NumProcs \in Nat /\ Limits \subseteq SUBSET Procs
ASSUME CallersAssumption == NoCaller \notin Callers
ASSUME LeftoversAssumption == Leftovers \subseteq {"child", "escapee"}
ASSUME ShutdownsAssumption == Shutdowns \in {0, 1}
ASSUME FaultsAssumption == Failing \subseteq {"write", "thread"}

VARIABLES
    \* the engine thread, in run_step_process or between two calls of it
    limited,    \* the steps that have a time limit
    pc, cur,    \* where it is, and with which process
    raised,     \* an exception is on its way out of the step loop
    \* the state of the execution, shared by all threads
    proc,       \* state["proc"]
    hardKill,   \* state["hard_kill"], named by the process it kills
    grace,      \* state["grace_timer"], named by the caller that stored it
    groups,     \* state["agent_pgids"], named by the step that announced them
    cancel, shutdown, skip,
    \* operating-system processes
    exe,        \* the step's executor: "waiting" for its context, then "running" the step
    kids,       \* what it has left running
    agent,      \* its agent call: the CLI is running while "unread" or "known"
    \* the threads of a run
    timedOut,   \* the runs whose timed_out is set
    defused,    \* the runs whose read end was released
    readDone,   \* the runs whose read_done is set
    watcher,    \* exit watcher
    watchdog,   \* the runs whose timeout timer is armed
    \* the callers
    caller,     \* where each is in cancel, skip_step or _term_then_kill
    aim,        \* the process it holds
    hook,       \* the hard_kill it read
    timer,      \* its grace timer
    sweeper,    \* where the shutdown sweep is in kill_all_live
    swept       \* the process and the hard_kill it read

stateVars == <<proc, hardKill, grace, groups, cancel, shutdown, skip>>
osVars == <<exe, kids, agent>>
runVars == <<timedOut, defused, readDone, watcher, watchdog>>
callVars == <<caller, aim, hook, timer, sweeper, swept>>
stepVars == <<limited, pc, cur, raised, stateVars, osVars, runVars, callVars>>

Places == {"idle", "spawned", "hooked", "watched", "checked", "reading", "read", "settle",
           "join", "timers", "drop", "unhook", "pop", "sweep"}

Alive(p) == exe[p] \in {"waiting", "running"}

\* Who may still write to the log pipe of p.
Writers(p) == kids[p] \cup (IF Alive(p) THEN {"executor"} ELSE {})

(***************************************************************************)
(* Killing                                                                 *)
(***************************************************************************)
\* kill_step_group with SIGKILL.
KillGroup(p) ==
    /\ exe' = [exe EXCEPT ![p] = IF Alive(p) THEN "dead" ELSE @]
    /\ kids' = [kids EXCEPT ![p] = @ \ {"child"}]

\* The known agent groups of the given steps.
KillAgents(ps) ==
    agent' = [p \in Procs |-> IF p \in ps /\ agent[p] = "known" THEN "dead" ELSE agent[p]]

\* Mutation: the agent groups are killed whoever owns the state by now.
MutKillsAnyAgents(p) ==
    /\ KillGroup(p)
    /\ KillAgents(groups)
    /\ defused' = defused \cup {p}

\* _hard_kill of p: its group, the agent groups as long as p owns the state,
\* and the read end.
HardKill(p) ==
    /\ KillGroup(p)
    /\ KillAgents(IF proc = p THEN groups ELSE {})
    /\ defused' = defused \cup {p}

-----------------------------------------------------------------------------
StepInit ==
    /\ limited \in Limits
    /\ pc = "idle" /\ cur = 0 /\ raised = FALSE
    /\ proc = NoProc /\ hardKill = NoProc /\ grace = NoCaller /\ groups = {}
    /\ cancel = FALSE /\ shutdown = FALSE /\ skip = NoProc
    /\ exe = [p \in Procs |-> "none"]
    /\ kids = [p \in Procs |-> {}]
    /\ agent = [p \in Procs |-> "none"]
    /\ timedOut = {} /\ defused = {} /\ readDone = {} /\ watchdog = {}
    /\ watcher = [p \in Procs |-> "none"]
    /\ caller = [c \in Callers |-> "idle"]
    /\ aim = [c \in Callers |-> NoProc]
    /\ hook = [c \in Callers |-> NoProc]
    /\ timer = [c \in Callers |-> "none"]
    /\ sweeper = "idle" /\ swept = <<NoProc, NoProc>>

(***************************************************************************)
(* The engine thread                                                       *)
(***************************************************************************)
\* Mutation: the loop runs past the last step.
MutOneMore == cur <= NumProcs

MoreSteps == cur < NumProcs

\* The step loop runs the next step unless it was told to stop, or failed.
Spawn ==
    /\ pc = "idle" /\ MoreSteps
    /\ ~cancel /\ ~shutdown /\ ~raised
    /\ cur' = cur + 1
    /\ exe' = [exe EXCEPT ![cur + 1] = "waiting"]
    /\ proc' = cur + 1
    /\ pc' = "spawned"
    /\ UNCHANGED <<limited, raised, hardKill, grace, groups, cancel, shutdown, skip, kids, agent,
                   runVars, callVars>>

\* The group id is persisted, and hard_kill registered.
Hook ==
    /\ pc = "spawned"
    /\ hardKill' = cur
    /\ pc' = "hooked"
    /\ UNCHANGED <<limited, cur, raised, proc, grace, groups, cancel, shutdown, skip, osVars,
                   runVars, callVars>>

StartWatcher ==
    /\ pc = "hooked"
    /\ watcher' = [watcher EXCEPT ![cur] = "waiting"]
    /\ pc' = "watched"
    /\ UNCHANGED <<limited, cur, raised, stateVars, osVars, timedOut, defused, readDone, watchdog,
                   callVars>>

\* Mutation: what came before the spawn is not looked at again.
MutNoRecheck == FALSE

StopWanted == cancel \/ shutdown \/ skip = cur

Recheck ==
    /\ pc = "watched"
    /\ IF StopWanted THEN HardKill(cur) ELSE UNCHANGED <<exe, kids, agent, defused>>
    /\ pc' = "checked"
    /\ UNCHANGED <<limited, cur, raised, stateVars, timedOut, readDone, watcher, watchdog,
                   callVars>>

\* Mutation: the time limit is forgotten.
MutArmsNothing ==
    /\ pc = "checked"
    /\ exe' = [exe EXCEPT ![cur] = IF Alive(cur) THEN "running" ELSE @]
    /\ pc' = "reading"
    /\ UNCHANGED <<limited, cur, raised, stateVars, kids, agent, runVars, callVars>>

\* The timeout timer starts, and the executor, if it is still there, gets its
\* context: no code of the step runs before.
Arm ==
    /\ pc = "checked"
    /\ watchdog' = IF cur \in limited THEN {cur} ELSE {}
    /\ exe' = [exe EXCEPT ![cur] = IF Alive(cur) THEN "running" ELSE @]
    /\ pc' = "reading"
    /\ UNCHANGED <<limited, cur, raised, stateVars, kids, agent, timedOut, defused, readDone,
                   watcher, callVars>>

\* A write or a thread start on the way raises: the finally clause follows,
\* and the execution ends.
Raises ==
    /\ \/ "write" \in Failing /\ pc \in {"spawned", "reading"}
          /\ UNCHANGED watcher
       \/ "thread" \in Failing /\ pc = "hooked"
          /\ watcher' = [watcher EXCEPT ![cur] = "unstarted"]
       \/ "thread" \in Failing /\ pc = "checked" /\ cur \in limited
          /\ UNCHANGED watcher
    /\ readDone' = readDone \cup {cur}
    /\ raised' = TRUE
    /\ pc' = "settle"
    /\ UNCHANGED <<limited, cur, stateVars, osVars, timedOut, defused, watchdog, callVars>>

\* The read loop takes in the announcement of an agent call.
ReadGroup ==
    /\ pc = "reading" /\ cur \notin timedOut
    /\ agent[cur] = "unread"
    /\ agent' = [agent EXCEPT ![cur] = "known"]
    /\ groups' = groups \cup {cur}
    /\ UNCHANGED <<limited, pc, cur, raised, proc, hardKill, grace, cancel, shutdown, skip, exe,
                   kids, runVars, callVars>>

\* Nothing is left to read: the pipe is drained, and closed by all its writers
\* or released by a kill.  After a timeout what is left is not looked at.
PipeOver(p) ==
    \/ p \in timedOut
    \/ agent[p] # "unread" /\ (Writers(p) = {} \/ p \in defused)

ReadEnds ==
    /\ pc = "reading"
    /\ PipeOver(cur)
    /\ readDone' = readDone \cup {cur}
    /\ pc' = "read"
    /\ UNCHANGED <<limited, cur, raised, stateVars, osVars, timedOut, defused, watcher, watchdog,
                   callVars>>

\* proc.wait with a limit: an executor that closed the pipe may linger.
AwaitExit ==
    /\ pc = "read"
    /\ IF Alive(cur) THEN KillGroup(cur) ELSE UNCHANGED <<exe, kids>>
    /\ pc' = "settle"
    /\ UNCHANGED <<limited, cur, raised, stateVars, agent, runVars, callVars>>

\* The finally clause.  An executor that is still alive is killed with its
\* group; dead it is reaped.
SettleStep ==
    /\ pc = "settle"
    /\ exe' = [exe EXCEPT ![cur] = "reaped"]
    /\ kids' = [kids EXCEPT ![cur] = IF Alive(cur) THEN @ \ {"child"} ELSE @]
    /\ pc' = "join"
    /\ UNCHANGED <<limited, cur, raised, stateVars, agent, runVars, callVars>>

\* Mutation: the teardown does not wait for the exit watcher.
MutNoJoin ==
    /\ pc = "join"
    /\ pc' = "timers"
    /\ UNCHANGED <<limited, cur, raised, stateVars, osVars, runVars, callVars>>

\* The exit watcher, if there is one, kills the group; the teardown waits.
Join ==
    /\ pc = "join"
    /\ watcher[cur] \in {"none", "done"}
    /\ pc' = "timers"
    /\ UNCHANGED <<limited, cur, raised, stateVars, osVars, runVars, callVars>>

\* Joining a thread that was never started raises, out of the finally clause.
JoinRaises ==
    /\ pc = "join"
    /\ watcher[cur] = "unstarted"
    /\ pc' = "idle"
    /\ UNCHANGED <<limited, cur, raised, stateVars, osVars, runVars, callVars>>

\* Timer.cancel: a timer that has not fired never will, started or not.
Defuse(c) == timer' = [d \in Callers |-> IF d = c /\ timer[d] # "none" THEN "off" ELSE timer[d]]

\* Mutation: the timeout timer is left armed.
MutKeepsWatchdog ==
    /\ pc = "timers"
    /\ Defuse(grace)
    /\ grace' = NoCaller
    /\ pc' = "drop"
    /\ UNCHANGED <<limited, cur, raised, proc, hardKill, groups, cancel, shutdown, skip, osVars,
                   runVars, caller, aim, hook, sweeper, swept>>

CancelTimers ==
    /\ pc = "timers"
    /\ watchdog' = {}
    /\ Defuse(grace)
    /\ grace' = NoCaller
    /\ pc' = "drop"
    /\ UNCHANGED <<limited, cur, raised, proc, hardKill, groups, cancel, shutdown, skip, osVars,
                   timedOut, defused, readDone, watcher, caller, aim, hook, sweeper, swept>>

DropProc ==
    /\ pc = "drop"
    /\ proc' = NoProc
    /\ pc' = "unhook"
    /\ UNCHANGED <<limited, cur, raised, hardKill, grace, groups, cancel, shutdown, skip, osVars,
                   runVars, callVars>>

DropHook ==
    /\ pc = "unhook"
    /\ hardKill' = NoProc
    /\ pc' = "pop"
    /\ UNCHANGED <<limited, cur, raised, proc, grace, groups, cancel, shutdown, skip, osVars,
                   runVars, callVars>>

\* Mutation: a timer armed during the teardown is not looked for.
MutPopsOnce ==
    /\ pc = "pop"
    /\ pc' = "sweep"
    /\ UNCHANGED <<limited, cur, raised, stateVars, osVars, runVars, callVars>>

\* A timer may have been stored since CancelTimers.
PopGrace ==
    /\ pc = "pop"
    /\ Defuse(grace)
    /\ grace' = NoCaller
    /\ pc' = "sweep"
    /\ UNCHANGED <<limited, cur, raised, proc, hardKill, groups, cancel, shutdown, skip, osVars,
                   runVars, caller, aim, hook, sweeper, swept>>

\* Mutation: the list of agent groups is cleared, and nothing killed.
MutClearsGroups ==
    /\ pc = "sweep"
    /\ groups' = {}
    /\ skip' = NoProc
    /\ pc' = "idle"
    /\ UNCHANGED <<limited, cur, raised, proc, hardKill, grace, cancel, shutdown, osVars, runVars,
                   callVars>>

\* Agent groups still listed lost their executor in the middle of a call.  The
\* step loop then forgets the skip.
SweepGroups ==
    /\ pc = "sweep"
    /\ KillAgents(groups)
    /\ groups' = {}
    /\ skip' = NoProc
    /\ pc' = "idle"
    /\ UNCHANGED <<limited, cur, raised, proc, hardKill, grace, cancel, shutdown, exe, kids,
                   runVars, callVars>>

(***************************************************************************)
(* The other threads of a run                                              *)
(***************************************************************************)
WatcherSees(p) ==
    /\ watcher[p] = "waiting"
    /\ ~Alive(p)
    /\ watcher' = [watcher EXCEPT ![p] = "draining"]
    /\ UNCHANGED <<limited, pc, cur, raised, stateVars, osVars, timedOut, defused, readDone,
                   watchdog, callVars>>

\* Mutation: the exit watcher kills the group but does not release the reader.
MutWatcherLeavesPipe(p) ==
    /\ watcher[p] = "draining"
    /\ KillGroup(p)
    /\ watcher' = [watcher EXCEPT ![p] = "done"]
    /\ UNCHANGED <<limited, pc, cur, raised, stateVars, agent, timedOut, defused, readDone,
                   watchdog, callVars>>

\* The pipe is drained, or its grace is over: the group goes, and a reader
\* still blocked is released.
WatcherKills(p) ==
    /\ watcher[p] = "draining"
    /\ KillGroup(p)
    /\ defused' = IF p \in readDone THEN defused ELSE defused \cup {p}
    /\ watcher' = [watcher EXCEPT ![p] = "done"]
    /\ UNCHANGED <<limited, pc, cur, raised, stateVars, agent, timedOut, readDone, watchdog,
                   callVars>>

WatchdogFires(p) ==
    /\ p \in watchdog
    /\ watchdog' = watchdog \ {p}
    /\ timedOut' = timedOut \cup {p}
    /\ HardKill(p)
    /\ UNCHANGED <<limited, pc, cur, raised, stateVars, readDone, watcher, callVars>>

(***************************************************************************)
(* Operating-system processes                                              *)
(***************************************************************************)
Leaves(p, k) ==
    /\ exe[p] = "running"
    /\ kids' = [kids EXCEPT ![p] = @ \cup {k}]
    /\ UNCHANGED <<limited, pc, cur, raised, stateVars, exe, agent, runVars, callVars>>

Exits(p) ==
    /\ Alive(p)
    /\ exe' = [exe EXCEPT ![p] = "dead"]
    /\ UNCHANGED <<limited, pc, cur, raised, stateVars, kids, agent, runVars, callVars>>

\* An agent call starts its CLI and announces the group.
CallsAgent(p) ==
    /\ exe[p] = "running"
    /\ agent[p] = "none"
    /\ agent' = [agent EXCEPT ![p] = "unread"]
    /\ UNCHANGED <<limited, pc, cur, raised, stateVars, exe, kids, runVars, callVars>>

\* The call returns, and the read loop takes in that it did.
AgentReturns(p) ==
    /\ exe[p] = "running"
    /\ pc = "reading" /\ cur = p
    /\ agent[p] = "known"
    /\ agent' = [agent EXCEPT ![p] = "over"]
    /\ groups' = groups \ {p}
    /\ UNCHANGED <<limited, pc, cur, raised, proc, hardKill, grace, cancel, shutdown, skip, exe,
                   kids, runVars, callVars>>

(***************************************************************************)
(* cancel, skip_step, _term_then_kill.  A caller whose timer may still     *)
(* fire does not call again.                                               *)
(***************************************************************************)
Free(c) == caller[c] = "idle" /\ timer[c] \in {"none", "off"}

Aims(c) ==
    /\ caller' = [caller EXCEPT ![c] = IF proc # NoProc /\ Alive(proc) THEN "aims" ELSE "idle"]
    /\ aim' = [aim EXCEPT ![c] = IF proc # NoProc /\ Alive(proc) THEN proc ELSE NoProc]
    /\ timer' = [timer EXCEPT ![c] = "none"]

CancelFlags(c) ==
    /\ Free(c)
    /\ cancel' = TRUE
    /\ caller' = [caller EXCEPT ![c] = "flagged"]
    /\ UNCHANGED <<limited, pc, cur, raised, proc, hardKill, grace, groups, shutdown, skip, osVars,
                   runVars, aim, hook, timer, sweeper, swept>>

CancelTakesProc(c) ==
    /\ caller[c] = "flagged"
    /\ Aims(c)
    /\ UNCHANGED <<limited, pc, cur, raised, stateVars, osVars, runVars, hook, sweeper, swept>>

\* skip_step reads the handle with the flag, under engine._lock.
SkipFlags(c) ==
    /\ Free(c)
    /\ pc # "idle"
    /\ skip' = cur
    /\ Aims(c)
    /\ UNCHANGED <<limited, pc, cur, raised, proc, hardKill, grace, groups, cancel, shutdown,
                   osVars, runVars, hook, sweeper, swept>>

\* SIGTERM to the group: each of its members may trap it.
Terms(c) ==
    /\ caller[c] = "aims"
    /\ exe' \in {exe, [exe EXCEPT ![aim[c]] = IF Alive(aim[c]) THEN "dead" ELSE @]}
    /\ kids' \in {kids, [kids EXCEPT ![aim[c]] = @ \ {"child"}]}
    /\ caller' = [caller EXCEPT ![c] = "termed"]
    /\ UNCHANGED <<limited, pc, cur, raised, stateVars, agent, runVars, aim, hook, timer, sweeper,
                   swept>>

\* Without a hard_kill registered there is nothing to arm.
ReadsHook(c) ==
    /\ caller[c] = "termed"
    /\ hook' = [hook EXCEPT ![c] = hardKill]
    /\ caller' = [caller EXCEPT ![c] = IF hardKill = NoProc THEN "idle" ELSE "hooked"]
    /\ UNCHANGED <<limited, pc, cur, raised, stateVars, osVars, runVars, aim, timer, sweeper,
                   swept>>

\* Mutation: the caller does not ask whether its process still owns the state.
MutNoOwnerCheck(c) ==
    /\ caller[c] = "hooked"
    /\ caller' = [caller EXCEPT ![c] = "owner"]
    /\ UNCHANGED <<limited, pc, cur, raised, stateVars, osVars, runVars, aim, hook, timer, sweeper,
                   swept>>

ChecksOwner(c) ==
    /\ caller[c] = "hooked"
    /\ caller' = [caller EXCEPT ![c] = IF proc = aim[c] THEN "owner" ELSE "idle"]
    /\ UNCHANGED <<limited, pc, cur, raised, stateVars, osVars, runVars, aim, hook, timer, sweeper,
                   swept>>

StoresTimer(c) ==
    /\ caller[c] = "owner"
    /\ timer' = [timer EXCEPT ![c] = "stored"]
    /\ grace' = c
    /\ caller' = [caller EXCEPT ![c] = "stored"]
    /\ UNCHANGED <<limited, pc, cur, raised, proc, hardKill, groups, cancel, shutdown, skip, osVars,
                   runVars, aim, hook, sweeper, swept>>

\* The teardown may have run meanwhile; if not, the timer starts.
StartsTimer(c) ==
    /\ caller[c] = "stored"
    /\ IF hardKill # hook[c]
       THEN /\ timer' = [timer EXCEPT ![c] = "off"]
            /\ grace' = IF grace = c THEN NoCaller ELSE grace
       ELSE /\ timer' = [timer EXCEPT ![c] = IF @ = "stored" THEN "running" ELSE @]
            /\ UNCHANGED grace
    /\ caller' = [caller EXCEPT ![c] = "idle"]
    /\ UNCHANGED <<limited, pc, cur, raised, proc, hardKill, groups, cancel, shutdown, skip, osVars,
                   runVars, aim, hook, sweeper, swept>>

TimerFires(c) ==
    /\ timer[c] = "running"
    /\ timer' = [timer EXCEPT ![c] = "off"]
    /\ HardKill(hook[c])
    /\ UNCHANGED <<limited, pc, cur, raised, stateVars, timedOut, readDone, watcher, watchdog,
                   caller, aim, hook, sweeper, swept>>

(***************************************************************************)
(* kill_all_live                                                           *)
(***************************************************************************)
SweepFlags ==
    /\ Shutdowns = 1 /\ ~shutdown
    /\ shutdown' = TRUE
    /\ sweeper' = "flagged"
    /\ UNCHANGED <<limited, pc, cur, raised, proc, hardKill, grace, groups, cancel, skip, osVars,
                   runVars, caller, aim, hook, timer, swept>>

SweepReads ==
    /\ sweeper = "flagged"
    /\ swept' = <<proc, hardKill>>
    /\ sweeper' = "read"
    /\ UNCHANGED <<limited, pc, cur, raised, stateVars, osVars, runVars, caller, aim, hook, timer>>

SweepHits ==
    /\ sweeper = "read"
    /\ \/ swept[2] # NoProc /\ HardKill(swept[2])
       \/ swept[2] = NoProc /\ swept[1] # NoProc /\ KillGroup(swept[1])
          /\ UNCHANGED <<agent, defused>>
       \/ swept = <<NoProc, NoProc>> /\ UNCHANGED <<exe, kids, agent, defused>>
    /\ sweeper' = "idle"
    /\ UNCHANGED <<limited, pc, cur, raised, stateVars, timedOut, readDone, watcher, watchdog,
                   caller, aim, hook, timer, swept>>

-----------------------------------------------------------------------------
EngineThread ==
    \/ Hook \/ StartWatcher \/ Recheck \/ Arm
    \/ ReadGroup \/ ReadEnds \/ AwaitExit
    \/ SettleStep \/ Join \/ JoinRaises
    \/ CancelTimers \/ DropProc \/ DropHook \/ PopGrace \/ SweepGroups

RunThreads(p) == WatcherSees(p) \/ WatcherKills(p) \/ WatchdogFires(p)

System(p) == (\E k \in Leftovers : Leaves(p, k)) \/ Exits(p) \/ CallsAgent(p) \/ AgentReturns(p)

TermThenKill(c) ==
    \/ CancelTakesProc(c)
    \/ Terms(c) \/ ReadsHook(c) \/ ChecksOwner(c) \/ StoresTimer(c) \/ StartsTimer(c)
    \/ TimerFires(c)

StepNext ==
    \/ Spawn \/ EngineThread \/ Raises
    \/ \E p \in Procs : RunThreads(p) \/ System(p)
    \/ \E c \in Callers : CancelFlags(c) \/ SkipFlags(c) \/ TermThenKill(c)
    \/ SweepFlags \/ SweepReads \/ SweepHits

StepSpec == StepInit /\ [][StepNext]_stepVars

\* Threads run and timers fire.  Nothing is assumed of the step: it may run,
\* and hold its pipe, for ever.
StepFairness ==
    /\ WF_stepVars(EngineThread)
    /\ \A p \in Procs : WF_stepVars(RunThreads(p))
    /\ \A c \in Callers : WF_stepVars(TermThenKill(c))
    /\ WF_stepVars(SweepReads \/ SweepHits)

StepFairSpec == StepSpec /\ StepFairness

(* A bound of the runs, two questions in one: steps with a time limit, a      *)
(* shutdown and every kind of leftover meet one caller; steps without a limit *)
(* meet callers that race, and a thread that may not start, instead of a      *)
(* write that fails.                                                          *)
Lead == CHOOSE c \in Callers : TRUE
Fits ==
    /\ \A c \in Callers \ {Lead} : caller[c] = "idle" /\ caller'[c] # "idle" =>
          limited = {} /\ (caller[Lead] # "idle" \/ timer[Lead] # "none")
    /\ ~(raised' /\ shutdown')
    /\ limited = {} => ~shutdown' /\ \A p \in Procs : "escapee" \notin kids'[p]
    /\ raised' /\ ~raised => (limited = {}) = (pc = "hooked")
FittingNext == StepNext /\ Fits
FittingSpec == StepInit /\ [][FittingNext]_stepVars

(***************************************************************************)
(* Properties                                                              *)
(***************************************************************************)
StepTypeOK ==
    /\ limited \in Limits
    /\ pc \in Places /\ cur \in 0..NumProcs
    /\ pc # "idle" => cur # 0
    /\ raised \in BOOLEAN
    /\ proc \in Procs \cup {NoProc} /\ hardKill \in Procs \cup {NoProc}
    /\ grace \in Callers \cup {NoCaller}
    /\ groups \subseteq Procs
    /\ cancel \in BOOLEAN /\ shutdown \in BOOLEAN /\ skip \in Procs \cup {NoProc}
    /\ exe \in [Procs -> {"none", "waiting", "running", "dead", "reaped"}]
    /\ kids \in [Procs -> SUBSET Leftovers]
    /\ agent \in [Procs -> {"none", "unread", "known", "over", "dead"}]
    /\ timedOut \subseteq Procs /\ defused \subseteq Procs /\ readDone \subseteq Procs
    /\ watcher \in [Procs -> {"none", "unstarted", "waiting", "draining", "done"}]
    /\ watchdog \subseteq Procs
    /\ caller \in [Callers -> {"idle", "flagged", "aims", "termed", "hooked", "owner", "stored"}]
    /\ aim \in [Callers -> Procs \cup {NoProc}]
    /\ hook \in [Callers -> Procs \cup {NoProc}]
    /\ timer \in [Callers -> {"none", "stored", "running", "off"}]
    /\ sweeper \in {"idle", "flagged", "read"}
    /\ swept \in (Procs \cup {NoProc}) \X (Procs \cup {NoProc})

\* Every group dies with its step: once run_step_process is through, neither
\* the executor nor a child in its group is left, nor the CLI of an agent call
\* the engine knew of, however the step ended.
GroupDiesWithStep ==
    \A p \in Procs : p < cur \/ (p = cur /\ pc = "idle") =>
       exe[p] = "reaped" /\ "child" \notin kids[p] /\ agent[p] # "known"

\* Nothing a step leaves armed or listed reaches the next one: between two
\* steps the shared state names no process, and no timer of the last one can
\* fire.
StateIsClean ==
    pc = "idle" =>
       /\ proc = NoProc /\ hardKill = NoProc /\ groups = {}
       /\ watchdog = {}

\* An agent call is ended from outside only by its own step: by a kill of that
\* step, or by its teardown.
OnlyOwnAgents ==
    [][\A p \in Procs : agent[p] = "known" /\ agent'[p] = "dead" =>
         \/ pc = "sweep" /\ cur = p
         \/ p \in defused'
         \/ ~Alive(p)]_stepVars

\* A grace timer that may still fire belongs to the step that is running: it
\* "must never fire _hard_kill on a reaped pid" (engine.py:1155), nor into the
\* next step.
TimerDiesWithStep == \A c \in Callers : timer[c] = "running" => hook[c] = cur /\ pc # "idle"

\* A cancel or a skip arms its timer with the hard_kill of the process it
\* signalled, and of no later one.
TimerKillsItsAim == \A c \in Callers : timer[c] = "running" => hook[c] = aim[c]

\* However a step ends, its processes end with it, and a kill hits what it was
\* aimed at; where one caller signals it, nothing it armed or listed
\* reaches the next step, a grace timer neither (engine.py, run_step_process,
\* _hard_kill, _term_then_kill).
StepsEndClean ==
    /\ StepTypeOK
    /\ GroupDiesWithStep /\ TimerKillsItsAim
    /\ limited # {} => StateIsClean /\ TimerDiesWithStep

\* A step is over soon after its executor, whoever still holds the pipe.
ExitEndsStep == \A p \in Procs : exe[p] = "dead" ~> (cur = p => pc = "idle")

\* A cancel, a shutdown or a skip ends the step it meant, whatever it traps.
StopEndsStep ==
    /\ cancel \/ shutdown ~> pc = "idle"
    /\ \A p \in Procs : skip = p ~> skip # p

\* A step with a time limit ends, even one that never says a word, never reads
\* its context, or leaves its pipe to others.
LimitBinds == \A p \in Procs : p \in limited /\ cur = p /\ pc # "idle" ~> cur # p \/ pc = "idle"
=============================================================================
