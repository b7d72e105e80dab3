-------------------------------- MODULE MCFair --------------------------------
(***************************************************************************)
(* What must eventually happen, under the fairness of a running backend:       *)
(* threads run, the event loop turns, time passes.  The parts share no state     *)
(* here: a behaviour is about one of them, and the threads of the others are     *)
(* not asked to run.                                                             *)
(***************************************************************************)
EXTENDS ExecQueue, StepProcess, Gateway, EventHub, MemoryStats, AgentCall

VARIABLE part     \* the part a behaviour is about

CONSTANTS a1, h1, tick, c1     \* model values: an automation and three threads
TheHolds == [a |-> <<"s">>]

PartInit ==
  /\ part \in {"queue", "step", "gateway", "events", "sizes", "call"}
  /\ Init
  /\ StepInit
  /\ GateInit
  /\ HubInit
  /\ StatsInit
  /\ CallInit
  /\ part # "step" => limited = {}   \* so that each of them starts one way

(* A bound: steps with a time limit meet no shutdown. *)
NoSweepWithLimit == limited # {} => ~shutdown'

Still(p) ==
  /\ UNCHANGED part
  /\ p # "queue" => UNCHANGED vars
  /\ p # "step" => UNCHANGED stepVars
  /\ p # "gateway" => UNCHANGED gateVars
  /\ p # "events" => UNCHANGED hubVars
  /\ p # "sizes" => UNCHANGED statsVars
  /\ p # "call" => UNCHANGED agentCallVars

PartNext ==
  \/ part = "queue" /\ Next /\ Still("queue")
  \/ part = "step" /\ StepNext /\ NoSweepWithLimit /\ Still("step")
  \/ part = "gateway" /\ GateNext /\ Still("gateway")
  \/ part = "events" /\ HubNext /\ Still("events")
  \/ part = "sizes" /\ StatsNext /\ Still("sizes")
  \/ part = "call" /\ CallNext /\ Still("call")

allVars ==
    <<part, vars, stepVars, gateVars, hubVars, statsVars, agentCallVars>>

(* The fairness of each part, asked for where the behaviour is about it: that of *)
(* ExecQueue!Fairness, StepFairness, GateFairness, HubFairness, StatsFairness and  *)
(* CallFair.                                                                      *)
PartFairness ==
  /\ \A w \in Threads : WF_vars(part = "queue" /\ ThreadNext(w))
  /\ \A r \in Recs : WF_vars(part = "queue" /\ EngineNext(r))
  /\ \A a \in Autos : WF_vars(part = "queue" /\ TickDrains(a))
  /\ WF_stepVars(part = "step" /\ EngineThread)
  /\ \A p \in Procs : WF_stepVars(part = "step" /\ RunThreads(p))
  /\ \A c \in Callers : WF_stepVars(part = "step" /\ TermThenKill(c))
  /\ WF_stepVars(part = "step" /\ (SweepReads \/ SweepHits))
  /\ WF_gateVars(part = "gateway" /\ Reconciles)
  /\ \A k \in ConnIds : WF_gateVars(part = "gateway" /\ Works(k))
  /\ WF_hubVars(part = "events" /\ Fanout)
  /\ \A c \in Clients : WF_hubVars(part = "events" /\ ServesClient(c))
  /\ WF_statsVars(part = "sizes" /\ Walk) /\ WF_statsVars(part = "sizes" /\ Invalidate)
  /\ WF_agentCallVars(part = "call" /\ ReaderThread)
  /\ WF_agentCallVars(part = "call" /\ Watchdog)
  /\ WF_agentCallVars(part = "call" /\ Tick)

PartSpec == PartInit /\ [][PartNext]_allVars /\ PartFairness

-----------------------------------------------------------------------------
(* A client of the event feed that stays connected has missed nothing, or is     *)
(* cut off so that it reads the state again; a client that is gone is not          *)
(* subscribed; a memory size that counts as fresh is the size of what is there,     *)
(* from one walk at a time (events.py:15-75, storage.py:3408-3518).                *)
FeedsAreTrue ==
  /\ part = "events" => HubTypeOK /\ LostMeansCutOff /\ GoneIsUnsubscribed
  /\ part = "sizes" => StatsTypeOK /\ FreshIsCurrent /\ OneWalkAtATime

(* A queued execution leaves the queue, an accepted delete ends, and a step ends     *)
(* after its process, its stop or its time limit (firing.py, engine.py).             *)
ExecutionsMoveOn ==
  /\ part = "queue" => QueueMoves /\ DeleteEnds
  /\ part = "step" => ExitEndsStep /\ StopEndsStep /\ LimitBinds

(* A bot that enabled triggers want is listened to again after any loss, an event   *)
(* reaches every client that stays or closes it, a memory size catches up with what  *)
(* is there, and every agent call returns, however silent, endless or deaf its child  *)
(* (listeners.py, events.py, storage.py:3408-3518, harness.py:1294-1621).            *)
FeedsCatchUp ==
  /\ part = "gateway" => ListenedTo
  /\ part = "events" => EventsArrive
  /\ part = "sizes" => SizeCatchesUp
  /\ part = "call" => CallReturns
==============================================================================
