---------------------------- MODULE MemoryStats ----------------------------
(***************************************************************************)
(* The size shown for an automation's memory (storage.py): memory_stats    *)
(* answers the last walk's result and starts a walk when it has expired;   *)
(* whatever replaces the memory calls invalidate_memory_stats.  A walk     *)
(* runs on a thread of its own and takes only the memo's guard.  The       *)
(* memory's content is a number, and a walk reports the content it saw.    *)
(***************************************************************************)
EXTENDS Naturals

CONSTANTS
    MaxReplaced,    \* how often the memory is replaced
    MaxFailures     \* how many walks fail with an OSError
ASSUME StatsAssumption == MaxReplaced \in Nat /\ MaxFailures \in Nat

VARIABLES
    content,    \* what is in memory/
    measuring,    \* it was replaced, and the invalidation has not run yet
    memo,       \* the content last landed, 0 for none
    fresh,      \* the memo has neither expired nor been invalidated
    generation, \* _memory_stats_generation
    walking,    \* _memory_stats_walking
    rewalk,     \* _memory_stats_rewalk
    walks,      \* walk threads: a set of [id, generation, seen]
    failures

statsVars == <<content, measuring, memo, fresh, generation, walking, rewalk, walks, failures>>

StatsInit ==
    /\ content = 1 /\ measuring = FALSE
    /\ memo = 0 /\ fresh = FALSE
    /\ generation = 0
    /\ walking = FALSE /\ rewalk = FALSE
    /\ walks = {} /\ failures = 0

StartWalk(g) == walks' = walks \cup {[generation |-> g, seen |-> 0]}

\* memory_stats: a GET asks for the size.
Ask ==
    /\ ~fresh /\ ~walking
    /\ walking' = TRUE
    /\ StartWalk(generation)
    /\ UNCHANGED <<content, measuring, memo, fresh, generation, rewalk, failures>>

\* MEMORY_STATS_TTL_S has passed.
Expire ==
    /\ fresh
    /\ fresh' = FALSE
    /\ UNCHANGED <<content, measuring, memo, generation, walking, rewalk, walks, failures>>

\* A clear, a restore, a copy or the end of an execution: the content first.
Replace ==
    /\ ~measuring /\ content <= MaxReplaced
    /\ content' = content + 1
    /\ measuring' = TRUE
    /\ UNCHANGED <<memo, fresh, generation, walking, rewalk, walks, failures>>

\* Mutation: an invalidation starts no walk of its own.
MutUnwatched == FALSE

Watched == memo # 0 \/ walking

Invalidate ==
    /\ measuring
    /\ measuring' = FALSE
    /\ fresh' = FALSE
    /\ generation' = generation + 1
    /\ rewalk' = (rewalk \/ walking)
    /\ walking' = (walking \/ Watched)
    /\ IF Watched /\ ~walking THEN StartWalk(generation') ELSE UNCHANGED walks
    /\ UNCHANGED <<content, memo, failures>>

\* _memory_stats_walk: the walk itself, under no lock.
Read(w) ==
    /\ w \in walks /\ w.seen = 0
    /\ walks' = (walks \ {w}) \cup {[w EXCEPT !.seen = content]}
    /\ UNCHANGED <<content, measuring, memo, fresh, generation, walking, rewalk, failures>>

\* Mutation: a walk lands whatever happened since it began.
MutAnyWalk(w) == TRUE

Current(w) == w.generation = generation

\* A walk lands, or walks once more under the generation that voided it.
Leave(w) ==
    /\ rewalk' = FALSE
    /\ walking' = rewalk
    /\ walks' = (walks \ {w}) \cup
                IF rewalk THEN {[generation |-> generation, seen |-> 0]} ELSE {}

Land(w) ==
    /\ w \in walks /\ w.seen # 0
    /\ IF Current(w)
       THEN memo' = w.seen /\ fresh' = TRUE
       ELSE UNCHANGED <<memo, fresh>>
    /\ Leave(w)
    /\ UNCHANGED <<content, measuring, generation, failures>>

\* An unreadable directory leaves the label as it was.
Fail(w) ==
    /\ w \in walks
    /\ failures < MaxFailures
    /\ failures' = failures + 1
    /\ Leave(w)
    /\ UNCHANGED <<content, measuring, memo, fresh, generation>>

Walk == \E w \in walks : Read(w) \/ Land(w)

StatsNext == Ask \/ Expire \/ Replace \/ Invalidate \/ Walk \/ \E w \in walks : Fail(w)

\* Threads run, and what replaces the memory invalidates it in the same hold.
StatsFairness == WF_statsVars(Walk) /\ WF_statsVars(Invalidate)

StatsSpec == StatsInit /\ [][StatsNext]_statsVars /\ StatsFairness

----------------------------------------------------------------------------

StatsTypeOK ==
    /\ content \in 1..(MaxReplaced + 1) /\ memo \in 0..content
    /\ {measuring, fresh, walking, rewalk} \subseteq BOOLEAN
    /\ generation \in 0..MaxReplaced

\* A size that counts as fresh is the size of what is there: a walk that began
\* before the memory was replaced never lands after it (the generation check of
\* _memory_stats_walk).
FreshIsCurrent == fresh /\ ~measuring => memo = content

\* One walk at a time, and never a walk that nothing will release: the flag is
\* up exactly as long as a thread is there to take it down.
OneWalkAtATime ==
    /\ walking <=> walks # {}
    /\ \A v, w \in walks : v = w
    /\ rewalk => walking

\* A size that was once shown catches up with every replacement, without anybody
\* asking again (the rewalk, the walk an invalidation starts).
SizeCatchesUp == [](memo # 0 => <>(memo = content \/ failures > 0))

=============================================================================
