------------------------- MODULE StepProcessProofs -------------------------
(***************************************************************************)
(* What the threads that share the state of an execution may rely on, for  *)
(* any number of steps and, but where it says otherwise, of callers: no    *)
(* group outlives its step, a kill hits the process it was aimed at, and   *)
(* no agent call is ended by another step.  None of the threads takes a    *)
(* lock, so the invariant says for each place of the engine thread what    *)
(* the others may find there.                                              *)
(***************************************************************************)
EXTENDS StepProcess, TLAPS

\* A caller that found a process to signal.
Reported(c) == caller[c] \in {"aims", "termed", "hooked", "owner", "stored"}

\* Where the engine thread holds the process it spawned, where the step may run,
\* and where the exit watcher of the run is known to be through.
Holding == {"spawned", "hooked", "watched", "checked", "reading", "read", "settle", "join",
            "timers", "drop"}
Reading == {"watched", "checked", "reading", "read"}
TornDown == {"timers", "drop", "unhook", "pop", "sweep"}
\* The exit watcher of this run could not be started.
Unstarted == cur # 0 /\ watcher[cur] = "unstarted"

\* The shared state names the process of the engine thread, or nothing.
EngineFits ==
    /\ proc \in {NoProc, cur} /\ hardKill \in {NoProc, cur}
    /\ pc \in Holding => proc = cur
    /\ pc \in {"unhook", "pop", "sweep"} => proc = NoProc
    /\ pc \in {"spawned", "pop", "sweep"} => hardKill = NoProc
    /\ pc \in Reading \cup {"hooked"} => hardKill = cur
    /\ pc = "idle" /\ ~Unstarted => proc = NoProc /\ hardKill = NoProc
    /\ raised => pc \in TornDown \cup {"settle", "join", "idle"}
    /\ watchdog \subseteq {cur}
    /\ watchdog # {} => pc \in {"reading", "read", "settle", "join", "timers"} /\ ~Unstarted

\* The groups listed are of this run, and every agent call known to run is listed.
AgentsFit ==
    /\ groups \subseteq {cur}
    /\ pc = "idle" => groups = {}
    /\ \A p \in Procs : /\ p \in groups => agent[p] \notin {"none", "unread"}
                        /\ agent[p] = "known" => p \in groups

\* Which processes and watchers there are, by where the engine thread is: a step
\* runs only with a watcher, and a watcher that is through leaves no group.
RunsFit ==
    \A p \in Procs :
        /\ p > cur => /\ exe[p] = "none" /\ kids[p] = {} /\ agent[p] = "none"
                      /\ watcher[p] = "none"
        /\ p < cur \/ (p = cur /\ pc \in TornDown \cup {"join", "idle"}) => exe[p] = "reaped"
        /\ watcher[p] \in {"none", "unstarted"} =>
             exe[p] # "running" /\ kids[p] = {} /\ agent[p] = "none"
        /\ watcher[p] = "done" => ~Alive(p) /\ "child" \notin kids[p]
        /\ watcher[p] = "unstarted" => p = cur /\ raised /\ pc \in {"settle", "join", "idle"}
        /\ p = cur /\ pc \in {"spawned", "hooked"} => watcher[p] = "none"
        /\ p = cur /\ pc \in Reading => watcher[p] # "none"
        /\ p < cur \/ (p = cur /\ pc \in TornDown) => watcher[p] \in {"none", "done"}
        /\ p = cur /\ pc = "idle" => watcher[p] \in {"none", "done", "unstarted"}

\* A caller holds no later process than there is, and by the time it stores its
\* timer the hard_kill it read is of the process it signalled.
CallersFit ==
    /\ \A c \in Callers :
        /\ aim[c] =< cur /\ hook[c] =< cur
        /\ Reported(c) => aim[c] # NoProc
        /\ caller[c] = "hooked" => hook[c] # NoProc /\ aim[c] =< hook[c]
        /\ caller[c] \in {"owner", "stored"} \/ timer[c] \in {"stored", "running"} =>
             hook[c] = aim[c] /\ hook[c] # NoProc
        /\ timer[c] = "stored" => caller[c] = "stored"
        /\ timer[c] = "running" => caller[c] = "idle"

StepInv == StepTypeOK /\ EngineFits /\ AgentsFit /\ RunsFit /\ CallersFit

\* One caller: its timer is the one the state names.
Quiet(c) ==
    /\ ~Unstarted
    /\ timer[c] = "stored" => grace = c
    /\ timer[c] = "running" => /\ grace = c /\ hook[c] = cur
                               /\ pc \notin {"idle", "spawned", "sweep"}
\* No other caller signals anything.
Alone(c) == \A d \in Callers \ {c} : caller[d] = "idle" /\ timer[d] = "none"

-----------------------------------------------------------------------------
\* What a kill of the group of q does to the processes.
LEMMA KillGroupDoes ==
  ASSUME StepTypeOK, NEW q, KillGroup(q)
  PROVE  /\ exe' \in [Procs -> {"none", "waiting", "running", "dead", "reaped"}]
         /\ kids' \in [Procs -> SUBSET Leftovers]
         /\ \A p \in Procs : /\ exe'[p] = IF p = q /\ Alive(p) THEN "dead" ELSE exe[p]
                             /\ kids'[p] = IF p = q THEN kids[p] \ {"child"} ELSE kids[p]
<1>1. exe' \in [Procs -> {"none", "waiting", "running", "dead", "reaped"}]
  BY DEF StepTypeOK, KillGroup
<1>2. kids' \in [Procs -> SUBSET Leftovers]
  BY DEF StepTypeOK, KillGroup
<1>3. \A p \in Procs : /\ exe'[p] = IF p = q /\ Alive(p) THEN "dead" ELSE exe[p]
                       /\ kids'[p] = IF p = q THEN kids[p] \ {"child"} ELSE kids[p]
  BY DEF StepTypeOK, KillGroup
<1> QED
  BY <1>1, <1>2, <1>3

\* A hard kill of q releases its reader, and kills the agent groups q still owns.
LEMMA HardKillDoes ==
  ASSUME StepTypeOK, NEW q \in Procs, HardKill(q)
  PROVE  /\ KillGroup(q)
         /\ agent' \in [Procs -> {"none", "unread", "known", "over", "dead"}]
         /\ \A p \in Procs : agent'[p] = IF agent[p] = "known" /\ proc = q /\ p \in groups
                                         THEN "dead" ELSE agent[p]
         /\ defused' \subseteq Procs /\ q \in defused'
BY DEF StepTypeOK, HardKill, KillAgents

\* Processes only die.
Dying ==
    /\ exe' \in [Procs -> {"none", "waiting", "running", "dead", "reaped"}]
    /\ kids' \in [Procs -> SUBSET Leftovers]
    /\ agent' \in [Procs -> {"none", "unread", "known", "over", "dead"}]
    /\ \A p \in Procs : /\ exe'[p] = exe[p] \/ (Alive(p) /\ exe'[p] = "dead")
                        /\ kids'[p] \subseteq kids[p]
                        /\ agent'[p] = agent[p] \/ (agent[p] = "known" /\ agent'[p] = "dead")

\* The steps that do nothing but kill, and the rest of what they leave alone.
LEMMA Kills ==
  ASSUME StepInv,
         \/ Recheck \/ AwaitExit \/ SweepHits
         \/ \E p \in Procs : WatchdogFires(p) \/ Exits(p)
         \/ \E c \in Callers : Terms(c) \/ TimerFires(c)
  PROVE  /\ Dying /\ defused' \subseteq Procs
         /\ UNCHANGED <<limited, cur, raised, stateVars, watcher>>
         /\ \A p \in Procs : agent[p] = "known" /\ agent'[p] = "dead" => p \in defused'
<1>1. ASSUME NEW q \in Procs, HardKill(q)
      PROVE  /\ Dying /\ defused' \subseteq Procs
             /\ \A p \in Procs : agent[p] = "known" /\ agent'[p] = "dead" => p \in defused'
  <2>1. Dying /\ defused' \subseteq Procs
    BY <1>1, HardKillDoes, KillGroupDoes DEF StepInv, Dying
  <2>2. ASSUME NEW p \in Procs, agent[p] = "known", agent'[p] = "dead" PROVE p = q
    BY <1>1, <2>2, HardKillDoes DEF StepInv, EngineFits, AgentsFit, NoProc, Procs
  <2> QED
    BY <1>1, <2>1, <2>2, HardKillDoes DEF StepInv
<1>2. ASSUME NEW q \in Procs, KillGroup(q), UNCHANGED <<agent, defused>>
      PROVE  Dying /\ defused' \subseteq Procs
  BY <1>2, KillGroupDoes DEF StepInv, StepTypeOK, Dying
<1>3. ASSUME UNCHANGED <<exe, kids, agent, defused>>
      PROVE  Dying /\ defused' \subseteq Procs
  BY <1>3 DEF StepInv, StepTypeOK, Dying
<1>4. pc # "idle" => cur \in Procs
  BY ProcsAssumption DEF StepInv, StepTypeOK, Procs
<1>5. CASE Recheck
  <2>1. HardKill(cur) \/ UNCHANGED <<exe, kids, agent, defused>>
    BY <1>5 DEF Recheck
  <2> QED
    BY <1>1, <1>3, <1>4, <1>5, <2>1 DEF Recheck, callVars
<1>6. CASE AwaitExit
  <2>1. KillGroup(cur) \/ UNCHANGED <<exe, kids>>
    BY <1>6 DEF AwaitExit
  <2> QED
    BY <1>2, <1>3, <1>4, <1>6, <2>1 DEF AwaitExit, runVars, callVars
<1>7. CASE SweepHits
  <2>1. \/ swept[2] \in Procs /\ HardKill(swept[2])
        \/ swept[1] \in Procs /\ KillGroup(swept[1]) /\ UNCHANGED <<agent, defused>>
        \/ UNCHANGED <<exe, kids, agent, defused>>
    BY <1>7 DEF SweepHits, StepInv, StepTypeOK
  <2> QED
    BY <1>1, <1>2, <1>3, <1>7, <2>1 DEF SweepHits
<1>8. CASE \E p \in Procs : WatchdogFires(p)
  BY <1>1, <1>8 DEF WatchdogFires
<1>9. CASE \E p \in Procs : Exits(p)
  BY <1>9 DEF Exits, Dying, StepInv, StepTypeOK, runVars
<1>10. CASE \E c \in Callers : Terms(c)
  <2>1. PICK c \in Callers : Terms(c)
    BY <1>10
  <2>2. exe' \in [Procs -> {"none", "waiting", "running", "dead", "reaped"}]
        /\ \A p \in Procs : exe'[p] = exe[p] \/ (Alive(p) /\ exe'[p] = "dead")
    BY <2>1 DEF Terms, StepInv, StepTypeOK
  <2>3. kids' \in [Procs -> SUBSET Leftovers] /\ \A p \in Procs : kids'[p] \subseteq kids[p]
    BY <2>1 DEF Terms, StepInv, StepTypeOK
  <2> QED
    BY <2>1, <2>2, <2>3 DEF Terms, Dying, StepInv, StepTypeOK, runVars
<1>11. CASE \E c \in Callers : TimerFires(c)
  <2>1. PICK c \in Callers : TimerFires(c)
    BY <1>11
  <2>2. hook[c] \in Procs
    BY <2>1 DEF TimerFires, StepInv, StepTypeOK, CallersFit
  <2> QED
    BY <1>1, <2>1, <2>2 DEF TimerFires
<1> QED
  BY <1>5, <1>6, <1>7, <1>8, <1>9, <1>10, <1>11

\* Dying disturbs nothing the runs and the groups promise.
LEMMA DyingStays ==
  ASSUME StepInv, Dying, UNCHANGED <<pc, cur, raised, groups, watcher>>
  PROVE  AgentsFit' /\ RunsFit'
<1>1. AgentsFit'
  BY DEF StepInv, AgentsFit, Dying
<1>2. ASSUME NEW p \in Procs
      PROVE  /\ exe'[p] = exe[p] \/ (Alive(p) /\ exe'[p] = "dead")
             /\ kids'[p] \subseteq kids[p]
             /\ agent'[p] = agent[p] \/ (agent[p] = "known" /\ agent'[p] = "dead")
  BY <1>2 DEF Dying
<1>3. RunsFit'
  BY <1>2 DEF StepInv, RunsFit, Alive
<1> QED
  BY <1>1, <1>3

LEMMA KillsStay ==
  ASSUME StepInv,
         \/ SweepHits
         \/ \E p \in Procs : WatchdogFires(p) \/ Exits(p)
         \/ \E c \in Callers : Terms(c) \/ TimerFires(c)
  PROVE  AgentsFit' /\ RunsFit'
<1>1. pc' = pc
  BY DEF SweepHits, WatchdogFires, Exits, Terms, TimerFires
<1>2. Dying /\ UNCHANGED <<cur, raised, groups, watcher>>
  BY Kills DEF stateVars
<1> QED
  BY <1>1, <1>2, DyingStays

\* Every variable keeps its type.
LEMMA TypesKept == ASSUME StepInv, StepNext PROVE StepTypeOK'
<1> USE ProcsAssumption DEF StepInv, StepTypeOK, Places, Procs, NoProc, Alive, Defuse,
                            Aims, Free, KillAgents, stateVars, osVars, runVars, callVars
<1>1. CASE Spawn
  <2>1. cur + 1 \in Procs /\ exe' \in [Procs -> {"none", "waiting", "running", "dead", "reaped"}]
    BY <1>1 DEF Spawn, MoreSteps
  <2> QED
    BY <1>1, <2>1 DEF Spawn
<1>2. CASE Hook
  BY <1>2 DEF Hook
<1>3. CASE StartWatcher
  BY <1>3 DEF StartWatcher
<1>4. CASE Recheck
  BY <1>4, Kills DEF Recheck, Dying
<1>5. CASE Arm
  BY <1>5 DEF Arm
<1>6. CASE Raises
  BY <1>6 DEF Raises
<1>7. CASE ReadGroup
  BY <1>7 DEF ReadGroup
<1>8. CASE ReadEnds
  BY <1>8 DEF ReadEnds
<1>9. CASE AwaitExit
  BY <1>9, Kills DEF AwaitExit, Dying
<1>10. CASE SettleStep
  BY <1>10 DEF SettleStep
<1>11. CASE Join
  BY <1>11 DEF Join
<1>12. CASE JoinRaises
  BY <1>12 DEF JoinRaises
<1>13. CASE CancelTimers
  BY <1>13 DEF CancelTimers
<1>14. CASE DropProc
  BY <1>14 DEF DropProc
<1>15. CASE DropHook
  BY <1>15 DEF DropHook
<1>16. CASE PopGrace
  BY <1>16 DEF PopGrace
<1>17. CASE SweepGroups
  BY <1>17 DEF SweepGroups
<1>18. CASE \E p \in Procs : WatcherSees(p)
  BY <1>18 DEF WatcherSees
<1>19. CASE \E p \in Procs : WatcherKills(p)
  BY <1>19, KillGroupDoes DEF WatcherKills
<1>20. CASE \E p \in Procs : WatchdogFires(p)
  BY <1>20, Kills DEF WatchdogFires, Dying
<1>21. CASE \E p \in Procs : Exits(p)
  BY <1>21, Kills DEF Exits, Dying
<1>22. CASE \E p \in Procs : CallsAgent(p)
  BY <1>22 DEF CallsAgent
<1>23. CASE \E p \in Procs : AgentReturns(p)
  BY <1>23 DEF AgentReturns
<1>24. CASE \E p \in Procs, k \in Leftovers : Leaves(p, k)
  BY <1>24 DEF Leaves
<1>25. CASE \E c \in Callers : CancelFlags(c)
  BY <1>25 DEF CancelFlags
<1>26. CASE \E c \in Callers : SkipFlags(c)
  BY <1>26 DEF SkipFlags
<1>27. CASE \E c \in Callers : CancelTakesProc(c)
  BY <1>27 DEF CancelTakesProc
<1>28. CASE \E c \in Callers : Terms(c)
  <2>1. PICK c \in Callers : Terms(c)
    BY <1>28
  <2>2. caller' \in [Callers -> {"idle", "flagged", "aims", "termed", "hooked", "owner", "stored"}]
    BY <2>1 DEF Terms
  <2>3. /\ exe' \in [Procs -> {"none", "waiting", "running", "dead", "reaped"}]
        /\ kids' \in [Procs -> SUBSET Leftovers]
    BY <1>28, Kills DEF Dying
  <2> QED
    BY <2>1, <2>2, <2>3 DEF Terms
<1>29. CASE \E c \in Callers : ReadsHook(c)
  BY <1>29 DEF ReadsHook
<1>30. CASE \E c \in Callers : ChecksOwner(c)
  BY <1>30 DEF ChecksOwner
<1>31. CASE \E c \in Callers : StoresTimer(c)
  BY <1>31 DEF StoresTimer
<1>32. CASE \E c \in Callers : StartsTimer(c)
  <2>1. PICK c \in Callers : StartsTimer(c)
    BY <1>32
  <2>2. timer' \in [Callers -> {"none", "stored", "running", "off"}]
    BY <2>1 DEF StartsTimer
  <2>3. caller' \in [Callers -> {"idle", "flagged", "aims", "termed", "hooked", "owner", "stored"}]
    BY <2>1 DEF StartsTimer
  <2>4. grace' \in Callers \cup {NoCaller}
    BY <2>1 DEF StartsTimer
  <2> QED
    BY <2>1, <2>2, <2>3, <2>4 DEF StartsTimer
<1>33. CASE \E c \in Callers : TimerFires(c)
  <2>1. PICK c \in Callers : TimerFires(c)
    BY <1>33
  <2>2. timer' \in [Callers -> {"none", "stored", "running", "off"}]
    BY <2>1 DEF TimerFires
  <2>3. /\ exe' \in [Procs -> {"none", "waiting", "running", "dead", "reaped"}]
        /\ kids' \in [Procs -> SUBSET Leftovers]
        /\ agent' \in [Procs -> {"none", "unread", "known", "over", "dead"}]
        /\ defused' \subseteq Procs
    BY <1>33, Kills DEF Dying
  <2> QED
    BY <2>1, <2>2, <2>3 DEF TimerFires
<1>34. CASE SweepFlags
  BY <1>34 DEF SweepFlags
<1>35. CASE SweepReads
  BY <1>35 DEF SweepReads
<1>36. CASE SweepHits
  BY <1>36, Kills DEF SweepHits, Dying
<1> QED
  BY <1>1, <1>2, <1>3, <1>4, <1>5, <1>6, <1>7, <1>8, <1>9, <1>10, <1>11, <1>12, <1>13, <1>14,
     <1>15, <1>16, <1>17, <1>18, <1>19, <1>20, <1>21, <1>22, <1>23, <1>24, <1>25, <1>26,
     <1>27, <1>28, <1>29, <1>30, <1>31, <1>32, <1>33, <1>34, <1>35, <1>36
     DEF StepNext, EngineThread, RunThreads, System, TermThenKill

\* What the shared state names is the process of the engine thread, or nothing.
LEMMA EngineKept == ASSUME StepInv, StepNext PROVE EngineFits'
<1> USE DEF StepInv, StepTypeOK, EngineFits, Holding, Reading, TornDown, Unstarted,
            NoProc, Procs, RunsFit, stateVars, osVars, runVars, callVars
<1>1. CASE \/ ReadGroup \/ SweepFlags \/ SweepReads \/ SweepHits
           \/ \E p \in Procs : Exits(p) \/ CallsAgent(p) \/ AgentReturns(p)
           \/ \E p \in Procs, k \in Leftovers : Leaves(p, k)
           \/ \E c \in Callers : CancelFlags(c) \/ SkipFlags(c) \/ CancelTakesProc(c) \/ Terms(c)
           \/ \E c \in Callers : ReadsHook(c) \/ ChecksOwner(c) \/ StoresTimer(c) \/ StartsTimer(c)
           \/ \E c \in Callers : TimerFires(c)
  <2>1. UNCHANGED <<pc, cur, raised, proc, hardKill, watcher, watchdog>>
    BY <1>1 DEF ReadGroup, SweepFlags, SweepReads, SweepHits, Exits, CallsAgent, AgentReturns,
                Leaves, CancelFlags, SkipFlags, CancelTakesProc, Terms, ReadsHook, ChecksOwner,
                StoresTimer, StartsTimer, TimerFires
  <2> QED
    BY <2>1
<1>2. CASE Spawn
  BY <1>2 DEF Spawn
<1>3. CASE Hook
  BY <1>3 DEF Hook
<1>4. CASE StartWatcher
  BY <1>4 DEF StartWatcher
<1>5. CASE Recheck
  BY <1>5 DEF Recheck
<1>6. CASE Arm
  BY <1>6 DEF Arm
<1>7. CASE Raises
  BY <1>7 DEF Raises
<1>8. CASE ReadEnds
  BY <1>8 DEF ReadEnds
<1>9. CASE AwaitExit
  BY <1>9 DEF AwaitExit
<1>10. CASE SettleStep
  BY <1>10 DEF SettleStep
<1>11. CASE Join
  BY <1>11 DEF Join
<1>12. CASE JoinRaises
  BY <1>12 DEF JoinRaises
<1>13. CASE CancelTimers
  BY <1>13 DEF CancelTimers
<1>14. CASE DropProc
  BY <1>14 DEF DropProc
<1>15. CASE DropHook
  BY <1>15 DEF DropHook
<1>16. CASE PopGrace
  BY <1>16 DEF PopGrace
<1>17. CASE SweepGroups
  BY <1>17 DEF SweepGroups
<1>18. CASE \E p \in Procs : WatcherSees(p)
  BY <1>18 DEF WatcherSees
<1>19. CASE \E p \in Procs : WatcherKills(p)
  BY <1>19 DEF WatcherKills
<1>20. CASE \E p \in Procs : WatchdogFires(p)
  BY <1>20 DEF WatchdogFires
<1> QED
  BY <1>1, <1>2, <1>3, <1>4, <1>5, <1>6, <1>7, <1>8, <1>9, <1>10, <1>11, <1>12, <1>13, <1>14,
     <1>15, <1>16, <1>17, <1>18, <1>19, <1>20
     DEF StepNext, EngineThread, RunThreads, System, TermThenKill

\* The agent groups that are listed are of the run that is on.
LEMMA AgentsKept == ASSUME StepInv, StepNext PROVE AgentsFit'
<1> USE DEF StepInv, StepTypeOK, AgentsFit, EngineFits, KillAgents, NoProc, Procs,
            RunsFit, stateVars, osVars, runVars, callVars
<1>1. CASE \/ Hook \/ StartWatcher \/ Arm \/ Raises \/ ReadEnds \/ AwaitExit
           \/ SettleStep \/ Join \/ CancelTimers \/ DropProc \/ DropHook
           \/ PopGrace \/ SweepFlags \/ SweepReads
           \/ \E p \in Procs : WatcherSees(p) \/ WatcherKills(p) \/ Exits(p)
           \/ \E p \in Procs, k \in Leftovers : Leaves(p, k)
           \/ \E c \in Callers : CancelFlags(c) \/ SkipFlags(c) \/ CancelTakesProc(c) \/ Terms(c)
           \/ \E c \in Callers : ReadsHook(c) \/ ChecksOwner(c) \/ StoresTimer(c) \/ StartsTimer(c)
  <2>1. UNCHANGED <<cur, groups, agent>> /\ (pc' = "idle" => pc = "idle")
    BY <1>1 DEF Hook, StartWatcher, Arm, Raises, ReadEnds, AwaitExit, SettleStep, Join,
                CancelTimers, DropProc, DropHook, PopGrace, WatcherSees, WatcherKills, Exits,
                Leaves, CancelFlags, SkipFlags, CancelTakesProc, Terms, ReadsHook, ChecksOwner,
                StoresTimer, StartsTimer, SweepFlags, SweepReads
  <2> QED
    BY <2>1
<1>2. CASE Spawn
  BY <1>2 DEF Spawn
<1>3. CASE Recheck
  BY <1>3, Kills DEF Recheck, Dying
<1>4. CASE ReadGroup
  BY <1>4 DEF ReadGroup
<1>5. CASE JoinRaises
  BY <1>5 DEF JoinRaises
<1>6. CASE SweepGroups
  BY <1>6 DEF SweepGroups
<1>7. CASE \E p \in Procs : WatchdogFires(p)
  BY <1>7, KillsStay
<1>8. CASE \E p \in Procs : CallsAgent(p)
  BY <1>8 DEF CallsAgent
<1>9. CASE \E p \in Procs : AgentReturns(p)
  BY <1>9 DEF AgentReturns
<1>10. CASE \E c \in Callers : TimerFires(c)
  BY <1>10, KillsStay
<1>11. CASE SweepHits
  BY <1>11, KillsStay
<1> QED
  BY <1>1, <1>2, <1>3, <1>4, <1>5, <1>6, <1>7, <1>8, <1>9, <1>10, <1>11
     DEF StepNext, EngineThread, RunThreads, System, TermThenKill

\* Processes and watchers are where the engine thread is.
LEMMA RunsKept == ASSUME StepInv, StepNext PROVE RunsFit'
<1> USE DEF StepInv, StepTypeOK, RunsFit, Reading, TornDown, KillAgents, Alive, NoProc,
            Procs, EngineFits, AgentsFit, stateVars, osVars, runVars, callVars
<1>1. CASE \/ SweepFlags \/ SweepReads
           \/ \E c \in Callers : CancelFlags(c) \/ SkipFlags(c) \/ CancelTakesProc(c)
           \/ \E c \in Callers : ReadsHook(c) \/ ChecksOwner(c) \/ StoresTimer(c) \/ StartsTimer(c)
  <2>1. UNCHANGED <<pc, cur, raised, exe, kids, agent, watcher>>
    BY <1>1 DEF SweepFlags, SweepReads, CancelFlags, SkipFlags, CancelTakesProc, ReadsHook,
                ChecksOwner, StoresTimer, StartsTimer
  <2> QED
    BY <2>1
<1>2. CASE Spawn
  BY <1>2 DEF Spawn
<1>3. CASE Hook
  BY <1>3 DEF Hook
<1>4. CASE StartWatcher
  BY <1>4 DEF StartWatcher
<1>5. CASE Recheck
  BY <1>5, Kills DEF Recheck, Dying, Alive
<1>6. CASE Arm
  BY <1>6 DEF Arm
<1>7. CASE Raises
  <2>1. watcher' = watcher \/ (pc = "hooked" /\ watcher' = [watcher EXCEPT ![cur] = "unstarted"])
    BY <1>7 DEF Raises
  <2>2. ASSUME NEW p \in Procs
        PROVE  watcher'[p] = watcher[p] \/ (pc = "hooked" /\ p = cur /\ watcher'[p] = "unstarted")
    <3>1. watcher \in [Procs -> {"none", "unstarted", "waiting", "draining", "done"}]
      OBVIOUS
    <3> HIDE DEF StepInv, StepTypeOK, RunsFit, EngineFits, AgentsFit
    <3> QED
      BY <2>1, <3>1
  <2>3. /\ pc \in {"spawned", "hooked", "checked", "reading"} /\ pc' = "settle" /\ raised' = TRUE
        /\ UNCHANGED <<cur, exe, kids, agent>>
    BY <1>7 DEF Raises
  <2> QED
    BY <2>2, <2>3
<1>8. CASE ReadGroup
  BY <1>8 DEF ReadGroup
<1>9. CASE ReadEnds
  BY <1>9 DEF ReadEnds
<1>10. CASE AwaitExit
  BY <1>10, Kills DEF AwaitExit, Dying, Alive
<1>11. CASE SettleStep
  BY <1>11 DEF SettleStep
<1>12. CASE Join
  BY <1>12 DEF Join
<1>13. CASE JoinRaises
  BY <1>13 DEF JoinRaises
<1>14. CASE CancelTimers
  BY <1>14 DEF CancelTimers
<1>15. CASE DropProc
  BY <1>15 DEF DropProc
<1>16. CASE DropHook
  BY <1>16 DEF DropHook
<1>17. CASE PopGrace
  BY <1>17 DEF PopGrace
<1>18. CASE SweepGroups
  BY <1>18 DEF SweepGroups
<1>19. CASE \E p \in Procs : WatcherSees(p)
  BY <1>19 DEF WatcherSees
<1>20. CASE \E p \in Procs : WatcherKills(p)
  <2>1. PICK q \in Procs : WatcherKills(q)
    BY <1>20
  <2>2. \A p \in Procs : /\ exe'[p] = IF p = q /\ Alive(p) THEN "dead" ELSE exe[p]
                         /\ kids'[p] = IF p = q THEN kids[p] \ {"child"} ELSE kids[p]
    BY <2>1, KillGroupDoes DEF WatcherKills
  <2>3. \A p \in Procs : watcher'[p] = IF p = q THEN "done" ELSE watcher[p]
    BY <2>1 DEF WatcherKills
  <2>4. watcher[q] = "draining" /\ UNCHANGED <<pc, cur, raised, agent>>
    BY <2>1 DEF WatcherKills
  <2>5. ASSUME NEW p \in Procs, p # q
        PROVE  exe'[p] = exe[p] /\ kids'[p] = kids[p] /\ watcher'[p] = watcher[p]
    BY <2>2, <2>3, <2>5
  <2>6. /\ watcher'[q] = "done" /\ kids'[q] = kids[q] \ {"child"}
        /\ exe'[q] = (IF Alive(q) THEN "dead" ELSE exe[q])
    BY <2>1, <2>2, <2>3
  <2>7. ~Alive(q)' /\ "child" \notin kids'[q]
    BY <2>6
  <2> QED
    BY <2>1, <2>4, <2>5, <2>6, <2>7
<1>21. CASE \E p \in Procs : WatchdogFires(p)
  BY <1>21, KillsStay
<1>22. CASE \E p \in Procs : Exits(p)
  BY <1>22, KillsStay
<1>23. CASE \E p \in Procs : CallsAgent(p)
  BY <1>23 DEF CallsAgent
<1>24. CASE \E p \in Procs : AgentReturns(p)
  BY <1>24 DEF AgentReturns
<1>25. CASE \E p \in Procs, k \in Leftovers : Leaves(p, k)
  BY <1>25 DEF Leaves
<1>26. CASE \E c \in Callers : Terms(c)
  BY <1>26, KillsStay
<1>27. CASE \E c \in Callers : TimerFires(c)
  BY <1>27, KillsStay
<1>28. CASE SweepHits
  BY <1>28, KillsStay
<1> QED
  BY <1>1, <1>2, <1>3, <1>4, <1>5, <1>6, <1>7, <1>8, <1>9, <1>10, <1>11, <1>12, <1>13, <1>14,
     <1>15, <1>16, <1>17, <1>18, <1>19, <1>20, <1>21, <1>22, <1>23, <1>24, <1>25, <1>26,
     <1>27, <1>28
     DEF StepNext, EngineThread, RunThreads, System, TermThenKill

\* A caller's timer is of the process it signalled.
LEMMA CallersKept == ASSUME StepInv, StepNext PROVE CallersFit'
<1> USE DEF StepInv, StepTypeOK, CallersFit, Reported, EngineFits, Aims, Free, Defuse,
            NoProc, Procs, stateVars, osVars, runVars, callVars
<1>1. CASE \/ Hook \/ StartWatcher \/ Recheck \/ Arm \/ Raises \/ ReadGroup
           \/ ReadEnds \/ AwaitExit \/ SettleStep \/ Join \/ JoinRaises
           \/ DropProc \/ DropHook \/ SweepGroups \/ SweepFlags \/ SweepReads
           \/ SweepHits
           \/ \E p \in Procs : WatcherSees(p) \/ WatcherKills(p) \/ WatchdogFires(p) \/ Exits(p)
           \/ \E p \in Procs : CallsAgent(p) \/ AgentReturns(p)
           \/ \E p \in Procs, k \in Leftovers : Leaves(p, k)
  <2>1. UNCHANGED <<cur, caller, aim, hook, timer>>
    BY <1>1 DEF Hook, StartWatcher, Recheck, Arm, Raises, ReadGroup, ReadEnds, AwaitExit,
                SettleStep, Join, JoinRaises, DropProc, DropHook, SweepGroups, SweepFlags,
                SweepReads, SweepHits, WatcherSees, WatcherKills, WatchdogFires, Exits, CallsAgent,
                AgentReturns, Leaves
  <2> QED
    BY <2>1
<1>2. CASE Spawn
  BY <1>2 DEF Spawn
<1>3. CASE CancelTimers
  BY <1>3 DEF CancelTimers
<1>4. CASE PopGrace
  BY <1>4 DEF PopGrace
<1>5. CASE \E c \in Callers : CancelFlags(c)
  BY <1>5 DEF CancelFlags
<1>6. CASE \E c \in Callers : SkipFlags(c)
  BY <1>6 DEF SkipFlags
<1>7. CASE \E c \in Callers : CancelTakesProc(c)
  BY <1>7 DEF CancelTakesProc
<1>8. CASE \E c \in Callers : Terms(c)
  BY <1>8 DEF Terms
<1>9. CASE \E c \in Callers : ReadsHook(c)
  BY <1>9 DEF ReadsHook
<1>10. CASE \E c \in Callers : ChecksOwner(c)
  BY <1>10 DEF ChecksOwner
<1>11. CASE \E c \in Callers : StoresTimer(c)
  BY <1>11 DEF StoresTimer
<1>12. CASE \E c \in Callers : StartsTimer(c)
  BY <1>12 DEF StartsTimer
<1>13. CASE \E c \in Callers : TimerFires(c)
  BY <1>13 DEF TimerFires
<1> QED
  BY <1>1, <1>2, <1>3, <1>4, <1>5, <1>6, <1>7, <1>8, <1>9, <1>10, <1>11, <1>12, <1>13
     DEF StepNext, EngineThread, RunThreads, System, TermThenKill

\* The first state fits, and a step that changes nothing keeps what fits.
LEMMA StepStarts == ASSUME StepInit PROVE StepInv
<1> USE ProcsAssumption DEF StepInit, NoProc, Procs
<1>1. StepTypeOK
  <2>1. /\ exe \in [Procs -> {"none", "waiting", "running", "dead", "reaped"}]
        /\ kids \in [Procs -> SUBSET Leftovers]
        /\ agent \in [Procs -> {"none", "unread", "known", "over", "dead"}]
        /\ watcher \in [Procs -> {"none", "unstarted", "waiting", "draining", "done"}]
    OBVIOUS
  <2>2. /\ caller \in [Callers -> {"idle", "flagged", "aims", "termed", "hooked", "owner", "stored"}]
        /\ aim \in [Callers -> Procs \cup {NoProc}]
        /\ hook \in [Callers -> Procs \cup {NoProc}]
        /\ timer \in [Callers -> {"none", "stored", "running", "off"}]
    OBVIOUS
  <2>3. swept \in (Procs \cup {NoProc}) \X (Procs \cup {NoProc})
    OBVIOUS
  <2>4. raised \in BOOLEAN /\ cancel \in BOOLEAN /\ shutdown \in BOOLEAN
    OBVIOUS
  <2>5. /\ limited \in Limits /\ pc \in Places /\ cur \in 0..NumProcs
        /\ sweeper \in {"idle", "flagged", "read"}
    BY DEF Places
  <2> QED
    BY <2>1, <2>2, <2>3, <2>4, <2>5 DEF StepTypeOK
<1>2. EngineFits
  BY DEF EngineFits, Holding, Reading, Unstarted
<1>3. AgentsFit
  BY DEF AgentsFit
<1>4. RunsFit
  BY DEF RunsFit, Alive, TornDown, Reading
<1>5. CallersFit
  BY DEF CallersFit, Reported
<1> QED
  BY <1>1, <1>2, <1>3, <1>4, <1>5 DEF StepInv

LEMMA StepStutters == ASSUME StepInv, UNCHANGED stepVars PROVE StepInv'
<1> USE DEF StepInv, stepVars, stateVars, osVars, runVars, callVars
<1>1. StepTypeOK'
  BY DEF StepTypeOK
<1>2. EngineFits'
  BY DEF EngineFits, Unstarted
<1>3. AgentsFit'
  BY DEF AgentsFit
<1>4. RunsFit'
  BY DEF RunsFit, Alive
<1>5. CallersFit'
  BY DEF CallersFit, Reported
<1> QED
  BY <1>1, <1>2, <1>3, <1>4, <1>5

LEMMA StepKept == ASSUME StepInv, [StepNext]_stepVars PROVE StepInv'
<1>1. CASE StepNext
  BY <1>1, TypesKept, EngineKept, AgentsKept, RunsKept, CallersKept DEF StepInv
<1> QED
  BY <1>1, StepStutters

LEMMA StepsFit == StepSpec => []StepInv
  BY StepStarts, StepKept, PTL DEF StepSpec

\* What the invariant says of a step that is over, and of a timer that is armed.
LEMMA FitMeans == ASSUME StepInv PROVE StepTypeOK /\ GroupDiesWithStep /\ TimerKillsItsAim
<1>1. ASSUME NEW p \in Procs, p < cur \/ (p = cur /\ pc = "idle")
      PROVE  exe[p] = "reaped" /\ "child" \notin kids[p] /\ agent[p] # "known"
  <2>1. exe[p] = "reaped" /\ watcher[p] \in {"none", "done", "unstarted"}
    BY <1>1 DEF StepInv, RunsFit
  <2>2. "child" \notin kids[p]
    BY <2>1 DEF StepInv, RunsFit
  <2>3. p \notin groups
    BY <1>1, ProcsAssumption DEF StepInv, StepTypeOK, AgentsFit, Procs
  <2>4. agent[p] # "known"
    BY <2>3 DEF StepInv, AgentsFit
  <2> QED
    BY <2>1, <2>2, <2>4
<1>2. TimerKillsItsAim
  BY DEF StepInv, CallersFit, TimerKillsItsAim
<1> QED
  BY <1>1, <1>2 DEF StepInv, GroupDiesWithStep

\* Every group dies with its step, and no timer kills another process than the
\* one its caller signalled: for any number of steps and any number of callers
\* that race, whatever fails (engine.py, run_step_process, _term_then_kill).
THEOREM GroupsDieTimersAim ==
  StepSpec => [](StepTypeOK /\ GroupDiesWithStep /\ TimerKillsItsAim)
<1>1. StepInv => StepTypeOK /\ GroupDiesWithStep /\ TimerKillsItsAim
  BY FitMeans
<1> QED
  BY <1>1, StepsFit, PTL

\* The steps that neither kill nor end the run leave a known agent call alive.
LEMMA AgentsLeftAlone ==
  ASSUME StepInv, StepNext,
         ~(Recheck \/ AwaitExit \/ SweepHits \/ SweepGroups),
         ~ \E p \in Procs : WatchdogFires(p) \/ Exits(p),
         ~ \E c \in Callers : Terms(c) \/ TimerFires(c)
  PROVE  \A p \in Procs : agent[p] = "known" => agent'[p] # "dead"
<1> USE DEF StepInv, StepTypeOK, osVars, runVars
<1>1. CASE \/ Spawn \/ Hook \/ StartWatcher \/ Arm \/ Raises \/ ReadEnds
           \/ SettleStep \/ Join \/ JoinRaises \/ CancelTimers \/ DropProc
           \/ DropHook \/ PopGrace \/ SweepFlags \/ SweepReads
           \/ \E p \in Procs : WatcherSees(p) \/ WatcherKills(p)
           \/ \E p \in Procs, k \in Leftovers : Leaves(p, k)
           \/ \E c \in Callers : CancelFlags(c) \/ SkipFlags(c) \/ CancelTakesProc(c)
           \/ \E c \in Callers : ReadsHook(c) \/ ChecksOwner(c) \/ StoresTimer(c) \/ StartsTimer(c)
  <2>1. UNCHANGED agent
    BY <1>1 DEF Spawn, Hook, StartWatcher, Arm, Raises, ReadEnds, SettleStep, Join, JoinRaises,
                CancelTimers, DropProc, DropHook, PopGrace, WatcherSees, WatcherKills, Leaves,
                CancelFlags, SkipFlags, CancelTakesProc, ReadsHook, ChecksOwner, StoresTimer,
                StartsTimer, SweepFlags, SweepReads
  <2> QED
    BY <2>1
<1>2. CASE ReadGroup
  BY <1>2 DEF ReadGroup
<1>3. CASE \E p \in Procs : CallsAgent(p)
  BY <1>3 DEF CallsAgent
<1>4. CASE \E p \in Procs : AgentReturns(p)
  BY <1>4 DEF AgentReturns
<1> QED
  BY <1>1, <1>2, <1>3, <1>4
     DEF StepNext, EngineThread, RunThreads, System, TermThenKill

\* No kill reaches the agent call of another step: one that was known dies by a
\* kill of its own step or by its teardown, whatever the other threads do
\* (engine.py, _hard_kill and the finally clause of run_step_process).
THEOREM AgentsDieWithTheirStep == StepSpec => OnlyOwnAgents
<1> DEFINE Own == \A p \in Procs : agent[p] = "known" /\ agent'[p] = "dead" =>
                    \/ pc = "sweep" /\ cur = p
                    \/ p \in defused'
                    \/ ~Alive(p)
<1>1. ASSUME StepInv, StepNext PROVE Own
  <2>1. CASE SweepGroups
    BY <1>1, <2>1 DEF SweepGroups, KillAgents, StepInv, StepTypeOK, AgentsFit
  <2>2. CASE \/ Recheck \/ AwaitExit \/ SweepHits
             \/ \E p \in Procs : WatchdogFires(p) \/ Exits(p)
             \/ \E c \in Callers : Terms(c) \/ TimerFires(c)
    BY <1>1, <2>2, Kills
  <2> QED
    BY <1>1, <2>1, <2>2, AgentsLeftAlone
<1>2. StepInv /\ [StepNext]_stepVars => [Own]_stepVars
  BY <1>1
<1> QED
  BY <1>2, StepsFit, PTL DEF StepSpec, OnlyOwnAgents

\* With every exit watcher started before a step, it is after it, unless its
\* start is what fails.
LEMMA StartedStays ==
  ASSUME StepInv, ~Unstarted, [StepNext]_stepVars, ~(Raises /\ pc = "hooked")
  PROVE  ~Unstarted'
<1> USE ProcsAssumption DEF StepInv, StepTypeOK, Unstarted, NoProc, Procs, runVars
<1>1. CASE \/ Hook \/ Recheck \/ Arm \/ ReadGroup \/ ReadEnds \/ AwaitExit
           \/ SettleStep \/ Join \/ JoinRaises \/ CancelTimers \/ DropProc
           \/ DropHook \/ PopGrace \/ SweepGroups \/ SweepFlags \/ SweepReads
           \/ SweepHits
           \/ \E p \in Procs : WatchdogFires(p) \/ Exits(p) \/ CallsAgent(p) \/ AgentReturns(p)
           \/ \E p \in Procs, k \in Leftovers : Leaves(p, k)
           \/ \E c \in Callers : CancelFlags(c) \/ SkipFlags(c) \/ CancelTakesProc(c) \/ Terms(c)
           \/ \E c \in Callers : ReadsHook(c) \/ ChecksOwner(c) \/ StoresTimer(c) \/ StartsTimer(c)
           \/ \E c \in Callers : TimerFires(c)
  <2>1. UNCHANGED <<cur, watcher>>
    BY <1>1 DEF Hook, Recheck, Arm, ReadGroup, ReadEnds, AwaitExit, SettleStep, Join, JoinRaises,
                CancelTimers, DropProc, DropHook, PopGrace, SweepGroups, WatchdogFires, Exits,
                CallsAgent, AgentReturns, Leaves, CancelFlags, SkipFlags, CancelTakesProc, Terms,
                ReadsHook, ChecksOwner, StoresTimer, StartsTimer, TimerFires, SweepFlags,
                SweepReads, SweepHits
  <2> QED
    BY <2>1
<1>2. CASE Spawn
  <2>1. watcher[cur + 1] = "none" /\ cur' = cur + 1 /\ watcher' = watcher
    BY <1>2 DEF Spawn, MoreSteps, RunsFit
  <2> QED
    BY <2>1
<1>3. CASE StartWatcher
  BY <1>3 DEF StartWatcher
<1>4. CASE Raises
  BY <1>4 DEF Raises
<1>5. CASE \E p \in Procs : WatcherSees(p)
  BY <1>5 DEF WatcherSees
<1>6. CASE \E p \in Procs : WatcherKills(p)
  BY <1>6 DEF WatcherKills
<1>7. CASE UNCHANGED stepVars
  BY <1>7 DEF stepVars
<1> QED
  BY <1>1, <1>2, <1>3, <1>4, <1>5, <1>6, <1>7
     DEF StepNext, EngineThread, RunThreads, System, TermThenKill

\* A caller who leaves it at looking arms no timer.
LEMMA AloneStays ==
  ASSUME StepInv, NEW a \in Callers, Alone(a), [StepNext]_stepVars,
         \A d \in Callers \ {a} : caller'[d] = "idle"
  PROVE  Alone(a)'
<1> USE DEF StepInv, StepTypeOK, Alone, Aims, Free, Defuse, callVars
<1>1. CASE \/ Spawn \/ Hook \/ StartWatcher \/ Recheck \/ Arm \/ Raises
           \/ ReadGroup \/ ReadEnds \/ AwaitExit \/ SettleStep \/ Join
           \/ JoinRaises \/ DropProc \/ DropHook \/ SweepGroups \/ SweepFlags
           \/ SweepReads \/ SweepHits
           \/ \E p \in Procs : WatcherSees(p) \/ WatcherKills(p) \/ WatchdogFires(p) \/ Exits(p)
           \/ \E p \in Procs : CallsAgent(p) \/ AgentReturns(p)
           \/ \E p \in Procs, k \in Leftovers : Leaves(p, k)
  <2>1. UNCHANGED <<caller, timer>>
    BY <1>1 DEF Spawn, Hook, StartWatcher, Recheck, Arm, Raises, ReadGroup, ReadEnds, AwaitExit,
                SettleStep, Join, JoinRaises, DropProc, DropHook, SweepGroups, SweepFlags,
                SweepReads, SweepHits, WatcherSees, WatcherKills, WatchdogFires, Exits, CallsAgent,
                AgentReturns, Leaves
  <2> QED
    BY <2>1
<1>2. CASE CancelTimers
  BY <1>2 DEF CancelTimers
<1>3. CASE PopGrace
  BY <1>3 DEF PopGrace
<1>4. CASE \E c \in Callers : CancelFlags(c)
  BY <1>4 DEF CancelFlags
<1>5. CASE \E c \in Callers : SkipFlags(c)
  BY <1>5 DEF SkipFlags
<1>6. CASE \E c \in Callers : CancelTakesProc(c)
  BY <1>6 DEF CancelTakesProc
<1>7. CASE \E c \in Callers : Terms(c)
  BY <1>7 DEF Terms
<1>8. CASE \E c \in Callers : ReadsHook(c)
  BY <1>8 DEF ReadsHook
<1>9. CASE \E c \in Callers : ChecksOwner(c)
  BY <1>9 DEF ChecksOwner
<1>10. CASE \E c \in Callers : StoresTimer(c)
  BY <1>10 DEF StoresTimer
<1>11. CASE \E c \in Callers : StartsTimer(c)
  BY <1>11 DEF StartsTimer
<1>12. CASE \E c \in Callers : TimerFires(c)
  BY <1>12 DEF TimerFires
<1>13. CASE UNCHANGED stepVars
  BY <1>13 DEF stepVars
<1> QED
  BY <1>1, <1>2, <1>3, <1>4, <1>5, <1>6, <1>7, <1>8, <1>9, <1>10, <1>11, <1>12, <1>13
     DEF StepNext, EngineThread, RunThreads, System, TermThenKill

\* The only caller that has a timer has the one the state names, and it runs
\* for the step that is on.
LEMMA QuietStays ==
  ASSUME StepInv, NEW a \in Callers, Alone(a), Quiet(a), [StepNext]_stepVars, ~Unstarted'
  PROVE  Quiet(a)'
<1> USE CallersAssumption, ProcsAssumption DEF StepInv, StepTypeOK, Procs, NoProc,
                                               EngineFits, CallersFit, Quiet, Alone, Aims,
                                               Free, Defuse, stateVars, osVars, runVars,
                                               callVars
<1>1. CASE \/ Hook \/ StartWatcher \/ Recheck \/ Arm \/ Raises \/ ReadGroup
           \/ ReadEnds \/ AwaitExit \/ SettleStep \/ Join \/ DropProc
           \/ DropHook \/ SweepFlags \/ SweepReads \/ SweepHits
           \/ \E p \in Procs : WatcherSees(p) \/ WatcherKills(p) \/ WatchdogFires(p) \/ Exits(p)
           \/ \E p \in Procs : CallsAgent(p) \/ AgentReturns(p)
           \/ \E p \in Procs, k \in Leftovers : Leaves(p, k)
  <2>1. /\ UNCHANGED <<cur, grace, caller, hook, timer>>
        /\ pc' # pc => pc' \notin {"idle", "spawned", "sweep"}
    BY <1>1 DEF Hook, StartWatcher, Recheck, Arm, Raises, ReadGroup, ReadEnds, AwaitExit,
                SettleStep, Join, DropProc, DropHook, SweepFlags, SweepReads, SweepHits,
                WatcherSees, WatcherKills, WatchdogFires, Exits, CallsAgent, AgentReturns, Leaves
  <2> QED
    BY <2>1
<1>2. CASE Spawn
  BY <1>2 DEF Spawn
<1>3. CASE JoinRaises
  BY <1>3 DEF JoinRaises, Unstarted
<1>4. CASE CancelTimers
  BY <1>4 DEF CancelTimers
<1>5. CASE PopGrace
  BY <1>5 DEF PopGrace
<1>6. CASE SweepGroups
  BY <1>6 DEF SweepGroups
<1>7. CASE \E c \in Callers : CancelFlags(c)
  BY <1>7 DEF CancelFlags
<1>8. CASE \E c \in Callers : SkipFlags(c)
  BY <1>8 DEF SkipFlags
<1>9. CASE \E c \in Callers : CancelTakesProc(c)
  BY <1>9 DEF CancelTakesProc
<1>10. CASE \E c \in Callers : Terms(c)
  BY <1>10 DEF Terms
<1>11. CASE \E c \in Callers : ReadsHook(c)
  BY <1>11 DEF ReadsHook
<1>12. CASE \E c \in Callers : ChecksOwner(c)
  BY <1>12 DEF ChecksOwner
<1>13. CASE \E c \in Callers : StoresTimer(c)
  BY <1>13 DEF StoresTimer
<1>14. CASE \E c \in Callers : StartsTimer(c)
  BY <1>14 DEF StartsTimer
<1>15. CASE \E c \in Callers : TimerFires(c)
  BY <1>15 DEF TimerFires
<1>16. CASE UNCHANGED stepVars
  BY <1>16 DEF stepVars
<1> QED
  BY <1>1, <1>2, <1>3, <1>4, <1>5, <1>6, <1>7, <1>8, <1>9, <1>10, <1>11, <1>12, <1>13, <1>14,
     <1>15, <1>16
     DEF StepNext, EngineThread, RunThreads, System, TermThenKill

\* Which steps have a limit is settled from the start.
LEMMA LimitsStay == ASSUME [StepNext]_stepVars PROVE limited' = limited
  BY DEF StepNext, EngineThread, RunThreads, System, TermThenKill, stepVars, Spawn, Hook,
         StartWatcher, Recheck, Arm, Raises, ReadGroup, ReadEnds, AwaitExit, SettleStep,
         Join, JoinRaises, CancelTimers, DropProc, DropHook, PopGrace, SweepGroups,
         WatcherSees, WatcherKills, WatchdogFires, Exits, CallsAgent, AgentReturns, Leaves,
         CancelFlags, SkipFlags, CancelTakesProc, Terms, ReadsHook, ChecksOwner, StoresTimer,
         StartsTimer, TimerFires, SweepFlags, SweepReads, SweepHits

LEMMA QuietMeans ==
  ASSUME StepInv, NEW a \in Callers, Alone(a), Quiet(a)
  PROVE  StateIsClean /\ TimerDiesWithStep
<1>1. StateIsClean
  BY DEF StepInv, EngineFits, AgentsFit, Quiet, StateIsClean
<1>2. TimerDiesWithStep
  BY DEF Alone, Quiet, TimerDiesWithStep
<1> QED
  BY <1>1, <1>2

LEMMA QuietStarts == ASSUME StepInit, NEW a \in Callers PROVE Alone(a) /\ Quiet(a)
  BY DEF StepInit, Alone, Quiet, Unstarted

\* With one caller, and every thread of a run started, nothing armed or listed
\* outlives its step: between two steps the state names no process, and a timer
\* that may fire is of the step that is on (engine.py:1155, "must never fire
\* _hard_kill on a reaped pid").
THEOREM OneCallerLeavesNothing ==
  ASSUME NEW a, Callers = {a}, "thread" \notin Failing
  PROVE  StepSpec => [](StateIsClean /\ TimerDiesWithStep)
<1> DEFINE Inv == StepInv /\ Alone(a) /\ Quiet(a)
<1>1. StepInit => Inv
  BY StepStarts, QuietStarts
<1>2. Inv /\ [StepNext]_stepVars => Inv'
  <2> SUFFICES ASSUME Inv, [StepNext]_stepVars PROVE Inv'
    OBVIOUS
  <2>1. StepInv'
    BY StepKept
  <2>2. Alone(a)'
    BY AloneStays
  <2>3. ~(Raises /\ pc = "hooked")
    BY DEF Raises
  <2>4. ~Unstarted'
    BY <2>3, StartedStays DEF Quiet
  <2> QED
    BY <2>1, <2>2, <2>4, QuietStays
<1>3. Inv => StateIsClean /\ TimerDiesWithStep
  BY QuietMeans
<1> QED
  BY <1>1, <1>2, <1>3, PTL DEF StepSpec

\* What the runs check, for any number of steps, any limits, leftovers and
\* faults: callers that race where no step has a limit, else one of them
\* (engine.py, run_step_process, _hard_kill, _term_then_kill).
THEOREM StepsAlwaysEndClean ==
  ASSUME Callers # {}
  PROVE  FittingSpec => []StepsEndClean
<1> DEFINE Inv == StepInv /\ (limited # {} => Alone(Lead) /\ Quiet(Lead))
<1>0. Lead \in Callers
  BY DEF Lead
<1>1. StepInit => Inv
  BY <1>0, StepStarts, QuietStarts
<1>2. Inv /\ [FittingNext]_stepVars => Inv'
  <2> SUFFICES ASSUME Inv, [FittingNext]_stepVars PROVE Inv'
    OBVIOUS
  <2>1. [StepNext]_stepVars
    BY DEF FittingNext
  <2>2. StepInv'
    BY <2>1, StepKept
  <2>3. limited' = limited
    BY <2>1, LimitsStay
  <2>4. ASSUME limited # {} PROVE Alone(Lead)' /\ Quiet(Lead)'
    <3>1. \A c \in Callers \ {Lead} : caller'[c] = "idle"
      BY <2>4 DEF FittingNext, Fits, Alone, stepVars, callVars
    <3>2. Alone(Lead)'
      BY <1>0, <2>1, <2>4, <3>1, AloneStays
    <3>3. ~(Raises /\ pc = "hooked")
      <4>1. ASSUME Raises, pc = "hooked" PROVE FALSE
        <5>1. pc \notin TornDown \cup {"settle", "join", "idle"}
          BY <4>1 DEF TornDown
        <5>2. ~raised
          BY <5>1 DEF StepInv, EngineFits
        <5>3. raised' = TRUE
          BY <4>1 DEF Raises
        <5>4. FittingNext
          BY <5>2, <5>3 DEF stepVars
        <5> QED
          BY <2>4, <4>1, <5>2, <5>3, <5>4 DEF FittingNext, Fits
      <4> QED
        BY <4>1
    <3>4. ~Unstarted'
      BY <1>0, <2>1, <2>4, <3>3, StartedStays DEF Quiet
    <3> QED
      BY <1>0, <2>1, <2>4, <3>2, <3>4, QuietStays
  <2> QED
    BY <2>2, <2>3, <2>4
<1>3. Inv => StepsEndClean
  BY <1>0, FitMeans, QuietMeans DEF StepsEndClean
<1> QED
  BY <1>1, <1>2, <1>3, PTL DEF FittingSpec
=============================================================================
