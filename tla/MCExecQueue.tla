---------------------------- MODULE MCExecQueue ----------------------------
(***************************************************************************)
(* Instances of ExecQueue for TLC.  "open" is ExecQueue as its cfg bounds it. *)
(* The others are grouped into runs.  One has a line where two entries wait   *)
(* behind an execution and a third firing comes; a queue of one that handlers *)
(* and the scheduler work on; and a teardown where two handlers start, cancel,*)
(* delete and shut down.  The other has edits, where two handlers change      *)
(* limits, triggers and the data path under firings; and faulty, the only one *)
(* in which writes, launches and look-ups fail, and nothing is edited.        *)
(***************************************************************************)
EXTENDS ExecQueue, TLC

CONSTANT Scenarios   \* those of the run

VARIABLE scenario

Calm == INSTANCE ExecQueue WITH Faults <- {}

HandlerSymmetry == Permutations(Handlers)

\* What handlers begin in each, how many records are made, how many handlers may
\* be busy, and the limits it begins with.
Begun == [line     |-> {"fire_message"},
          queue    |-> {"fire_message", "fire_timer", "cancel", "clear"},
          teardown |-> {"fire_message", "queue", "cancel", "stop_live", "sweep"},
          edits    |-> {"fire_message", "enter", "patched"},
          faulty   |-> {"fire_message", "start", "queue", "retry", "cancel", "clear", "stop_live"}]
Records == [line |-> 4, queue |-> 3, teardown |-> 2, edits |-> 2, faulty |-> 2]
Busy == [line |-> 1, queue |-> 1, teardown |-> 2, edits |-> 2, faulty |-> 1]
Waiting == [line |-> {2}, queue |-> {1}, teardown |-> {1}, edits |-> {1}, faulty |-> {1}]
Running == [line |-> {1}, queue |-> {1}, teardown |-> {1}, edits |-> {1, 2}, faulty |-> {1}]

Fits ==
    /\ \A w \in Handlers \cup {Ticker} : op[w] = "idle" =>
          op'[w] \in Begun[scenario] \cup {"idle"}
                     \cup {o \in {"enter"} : w = Ticker /\ scenario # "line"}
    /\ made' + Cardinality({w \in Threads : op'[w] \in Admitting}) <= Records[scenario]
    /\ Cardinality({h \in Handlers : op'[h] # "idle"}) <= Busy[scenario]
    /\ scenario # "edits" => UNCHANGED <<gen, parallel, depth, enabled>>

MCInit ==
    /\ Init
    /\ scenario \in Scenarios
    /\ scenario # "open" => \A a \in Autos :
          depth[a] \in Waiting[scenario] /\ parallel[a] \in Running[scenario]

MCNext ==
    /\ CASE scenario = "open"   -> Next
         [] scenario = "faulty" -> Next /\ Fits
         [] OTHER               -> Calm!Next /\ Fits
    /\ UNCHANGED scenario

MCSpec == MCInit /\ [][MCNext]_<<vars, scenario>>

=============================================================================
