---------------------------- MODULE FiringQueue ----------------------------
(***************************************************************************)
(* What the firing queue of autowright promises, without threads, locks,   *)
(* handlers or faults: one automation is a server with a number of slots   *)
(* and a bounded waiting room.  Records are numbered in the order in which *)
(* they are made, so the oldest waiting record is the one with the least   *)
(* number.  ExecQueue is shown to implement this module.                   *)
(***************************************************************************)
EXTENDS Naturals, FiniteSets

CONSTANTS
    Autos,      \* the automations
    MaxRecs     \* bound: the number of records ever made

VARIABLES
    made,       \* how many records have been made
    waiting,    \* automation -> the records waiting in its queue
    running,    \* automation -> the records executing
    parallel,   \* automation -> maxParallel
    depth,      \* automation -> maxQueued
    stopped     \* the backend admits nothing any more

vars == <<made, waiting, running, parallel, depth, stopped>>

Recs == 1..MaxRecs

\* The record that has waited longest.
Oldest(a, r) == r \in waiting[a] /\ \A q \in waiting[a] : r <= q

FreeSlot(a) == Cardinality(running[a]) < parallel[a]

Init ==
    /\ made = 0
    /\ waiting = [a \in Autos |-> {}]
    /\ running = [a \in Autos |-> {}]
    /\ parallel \in [Autos -> Nat \ {0}]
    /\ depth \in [Autos -> Nat]
    /\ stopped = FALSE

\* A record starts without waiting: only beside a free slot and past no one.
\* It is a new record, or an old one that is executed again (a retry).
Begin(a) ==
    /\ ~stopped
    /\ waiting[a] = {}
    /\ FreeSlot(a)
    /\ \E r \in 1..(made + 1) :
          /\ r \in Recs
          /\ r \notin running[a]
          /\ made' = IF r > made THEN r ELSE made
          /\ running' = [running EXCEPT ![a] = @ \cup {r}]
    /\ UNCHANGED <<waiting, parallel, depth, stopped>>

\* A new record joins the tail of the queue while there is room.
Join(a) ==
    /\ made < MaxRecs
    /\ Cardinality(waiting[a]) < depth[a]
    /\ made' = made + 1
    /\ waiting' = [waiting EXCEPT ![a] = @ \cup {made + 1}]
    /\ UNCHANGED <<running, parallel, depth, stopped>>

\* A new record that never runs and never waits: it is only the trace of a
\* firing that was turned away, or of a start that failed.
Drop ==
    /\ made < MaxRecs
    /\ made' = made + 1
    /\ UNCHANGED <<waiting, running, parallel, depth, stopped>>

\* A free slot goes to the record that has waited longest.
Promote(a) ==
    /\ ~stopped
    /\ FreeSlot(a)
    /\ \E r \in Recs :
          /\ Oldest(a, r)
          /\ waiting' = [waiting EXCEPT ![a] = @ \ {r}]
          /\ running' = [running EXCEPT ![a] = @ \cup {r}]
    /\ UNCHANGED <<made, parallel, depth, stopped>>

\* A waiting record ends without having run.
Leave(a) ==
    /\ \E r \in waiting[a] : waiting' = [waiting EXCEPT ![a] = @ \ {r}]
    /\ UNCHANGED <<made, running, parallel, depth, stopped>>

End(a) ==
    /\ \E r \in running[a] : running' = [running EXCEPT ![a] = @ \ {r}]
    /\ UNCHANGED <<made, waiting, parallel, depth, stopped>>

\* Lowering a limit ends nothing: it only admits nothing new.
SetLimits(a) ==
    /\ parallel'[a] \in Nat \ {0}
    /\ depth'[a] \in Nat
    /\ parallel' = [parallel EXCEPT ![a] = parallel'[a]]
    /\ depth' = [depth EXCEPT ![a] = depth'[a]]
    /\ UNCHANGED <<made, waiting, running, stopped>>

Stop ==
    /\ stopped' = TRUE
    /\ UNCHANGED <<made, waiting, running, parallel, depth>>

Next ==
    \/ Drop
    \/ Stop
    \/ \E a \in Autos :
          Begin(a) \/ Join(a) \/ Promote(a) \/ Leave(a) \/ End(a) \/ SetLimits(a)

Spec == Init /\ [][Next]_vars
=============================================================================
