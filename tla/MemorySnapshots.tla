-------------------------- MODULE MemorySnapshots --------------------------
(***************************************************************************)
(* One automation's memory directory and its snapshots (storage.py,        *)
(* api.py, engine.py).  A memory operation - clear, manual snapshot,       *)
(* restore, delete or rename of a snapshot, the snapshot before a          *)
(* version's first run, the copy into a duplicate - holds memory_ops.  It  *)
(* copies outside store.lock, while executions may start, write and end,   *)
(* and lands its copy by renames under the lock if no execution started    *)
(* meanwhile.  The process may die between any two renames.                *)
(*                                                                         *)
(* The content of a directory is a number: each write of an execution      *)
(* makes a new one, and a copy that a write overlaps is Torn.              *)
(***************************************************************************)
EXTENDS Naturals, FiniteSets

CONSTANTS
    MaxContent,     \* contents an execution may write: 2..MaxContent
    MaxSnaps,       \* snapshots that may be made
    KeepUnnamed,    \* unnamed snapshots the prune keeps (5 in the code)
    MaxParallel,    \* executions of the automation that may be live at once
    Automatic,      \* the automatic reasons that are switched on
    MaxDeaths       \* how many times the process dies

ASSUME MemoryAssumption == MaxContent \in Nat \ {0} /\ MaxParallel \in Nat

Absent == 0
Empty == 1
Torn == MaxContent + 1
MemoryContents == 0..Torn

Reasons == {"manual", "pre-clear", "pre-restore", "pre-version"}

VARIABLES
    mem,        \* memory/
    tmp,        \* .ad-tmp-memory, a restore's staged image
    old,        \* .ad-old-memory, the memory a swap moved aside
    snaps,      \* memory-snapshots/: [id, reason, named, content, meta]
    made,       \* how many snapshots were made
    twin,       \* the memory of a duplicate made of this automation
    up,         \* whether a process runs
    reg,        \* whether the automation is registered
    runs,       \* live executions: "pre" before the version snapshot, "work" after
    owed,       \* _needs_pre_version: the version has not run yet, or owes its snapshot
    written,    \* the newest content
    task,         \* the memory operation that holds memory_ops
    deaths,
    expect      \* what the memory may hold, by what its user was told

memoryDisk == <<mem, tmp, old, snaps, made, twin>>
snapVars == <<memoryDisk, up, reg, runs, owed, written, task, deaths, expect>>

NoTask == [kind |-> "none", at |-> "none", moved |-> FALSE, sid |-> 0, staged |-> Absent]

\* Places of an operation that lie inside its commit's one hold of store.lock.
RestoreHeld == task.at \in {"clear", "place", "meta", "prune", "aside", "swap", "sweep"}
At(place) == up /\ task.at = place
Go(place) == task' = [task EXCEPT !.at = place]

\* start_token is None while anything is live; op.moved says that _starts is not
\* what it was at the operation's first gate.
LiveRuns == Cardinality({r \in DOMAIN runs : runs[r] # "none"})
Quiet == LiveRuns = 0
\* Mutation: only what is live now counts, not what started and ended meanwhile.
MutLiveOnly == ~Quiet

TokenMoved == ~Quiet \/ task.moved

Listed == {s \in snaps : s.meta}
Snapshot(i) == CHOOSE s \in snaps : s.id = i

SnapInit ==
    /\ mem = Absent /\ tmp = Absent /\ old = Absent
    /\ snaps = {} /\ made = 0 /\ twin = Absent
    /\ up = TRUE /\ reg = TRUE
    /\ runs = [r \in 1..MaxParallel |-> "none"]
    /\ owed = TRUE /\ written = Empty
    /\ task = NoTask /\ deaths = 0
    /\ expect = {Absent, Empty}

----------------------------------------------------------------------------
(* Executions.                                                             *)

\* Engine.start under store.lock; the step directories, memory/ among them, are
\* made when it begins.
RunStarts(r) ==
    /\ up /\ reg /\ ~RestoreHeld
    /\ runs[r] = "none"
    /\ task' = [task EXCEPT !.moved = (task.kind # "none")]
    /\ runs' = [runs EXCEPT ![r] = IF owed THEN "pre" ELSE "work"]
    /\ owed' = FALSE
    /\ mem' = IF mem = Absent THEN Empty ELSE mem
    /\ expect' = IF mem = Absent /\ Absent \in expect THEN expect \cup {Empty} ELSE expect
    /\ UNCHANGED <<tmp, old, snaps, made, twin, up, reg, written, deaths>>

\* A step writes memory, whatever is being copied.
RunWrites(r) ==
    /\ up
    /\ runs[r] = "work" /\ written < MaxContent
    /\ written' = written + 1
    /\ mem' = written'
    /\ expect' = {written'}
    /\ task' = IF task.at = "copying" THEN [task EXCEPT !.staged = Torn] ELSE task
    /\ UNCHANGED <<tmp, old, snaps, made, twin, up, reg, runs, owed, deaths>>

RunEnds(r) ==
    /\ up /\ ~RestoreHeld
    /\ runs[r] = "work"
    /\ runs' = [runs EXCEPT ![r] = "none"]
    /\ UNCHANGED <<memoryDisk, up, reg, owed, written, task, deaths, expect>>

\* Stopped before step 1: the version's snapshot stays owed.
RunStopsEarly(r) ==
    /\ up
    /\ runs[r] = "pre" /\ task.kind # "pre-version"
    /\ runs' = [runs EXCEPT ![r] = "none"]
    /\ owed' = TRUE
    /\ UNCHANGED <<memoryDisk, up, reg, written, task, deaths, expect>>

NewVersion ==
    /\ up /\ reg /\ ~owed
    /\ owed' = TRUE
    /\ UNCHANGED <<memoryDisk, up, reg, runs, written, task, deaths, expect>>

----------------------------------------------------------------------------
(* Memory operations: the first gate.                                      *)

Takes(kind, sid, at) ==
    /\ up /\ task.kind = "none"
    /\ task' = [kind |-> kind, at |-> at, moved |-> FALSE, sid |-> sid, staged |-> Absent]

\* clear_memory and create_snapshot of the API, and copy_memory_into.
BeginTask(kind) ==
    /\ kind \in {"pre-clear", "manual", "duplicate"}
    /\ reg /\ Quiet
    /\ Takes(kind, 0, "stage")
    /\ UNCHANGED <<memoryDisk, up, reg, runs, owed, written, deaths, expect>>

\* Mutation: an earlier swap is never repaired.
MutForgetsAside == mem

\* What an earlier swap left: an aside directory is put back when memory/ is gone.
RecoveredMemory == IF mem = Absent /\ old # Absent THEN old ELSE mem

\* restore_snapshot: the first hold also repairs an earlier swap.
BeginRestore(s) ==
    /\ s \in Listed
    /\ reg /\ Quiet
    /\ Takes("pre-restore", s.id, "stage")
    /\ mem' = RecoveredMemory /\ tmp' = Absent /\ old' = Absent
    /\ UNCHANGED <<snaps, made, twin, up, reg, runs, owed, written, deaths, expect>>

\* _take_pre_version: on the worker thread of a live execution.
BeginVersion(r) ==
    /\ runs[r] = "pre"
    /\ Takes("pre-version", r, "stage")
    /\ UNCHANGED <<memoryDisk, up, reg, runs, owed, written, deaths, expect>>

\* rename_snapshot and delete_snapshot, one hold each.
NameSnapshot(s) ==
    /\ up /\ reg /\ task.kind = "none"
    /\ s \in Listed
    /\ snaps' = (snaps \ {s}) \cup {[s EXCEPT !.named = ~s.named]}
    /\ UNCHANGED <<mem, tmp, old, made, twin, up, reg, runs, owed, written, task, deaths, expect>>

DropSnapshot(s) ==
    /\ up /\ reg /\ task.kind = "none"
    /\ s \in Listed
    /\ snaps' = snaps \ {s}
    /\ UNCHANGED <<mem, tmp, old, made, twin, up, reg, runs, owed, written, task, deaths, expect>>

----------------------------------------------------------------------------
(* Staging, outside store.lock.                                            *)

\* The operation is over; the execution that waited for it goes on.
Ends ==
    /\ task' = NoTask
    /\ runs' = IF task.kind = "pre-version" THEN [runs EXCEPT ![task.sid] = "work"] ELSE runs

AfterStage == IF task.kind = "pre-restore" THEN "image" ELSE "commit"

Off == task.kind \in Reasons \ {"manual"} /\ task.kind \notin Automatic

\* stage_snapshot: nothing to do when the reason is off or the memory is empty.
StageBegins ==
    /\ At("stage")
    /\ IF ~reg \/ (mem \in {Absent, Empty} /\ task.kind \in {"manual", "pre-version", "duplicate"})
          \/ (Off /\ task.kind = "pre-version")
       THEN Ends
       ELSE /\ task' = IF Off \/ mem \in {Absent, Empty}
                     THEN [task EXCEPT !.at = AfterStage]
                     ELSE [task EXCEPT !.at = "copying", !.staged = mem]
            /\ UNCHANGED runs
    /\ UNCHANGED <<memoryDisk, up, reg, owed, written, deaths, expect>>

StageEnds ==
    /\ At("copying")
    /\ Go(AfterStage)
    /\ UNCHANGED <<memoryDisk, up, reg, runs, owed, written, deaths, expect>>

\* A restore stages the snapshot beside memory/.
ImageBegins ==
    /\ At("image")
    /\ tmp' = IF reg THEN Torn ELSE Absent
    /\ Go("imaging")
    /\ UNCHANGED <<mem, old, snaps, made, twin, up, reg, runs, owed, written, deaths, expect>>

ImageEnds ==
    /\ At("imaging")
    /\ IF reg
       THEN tmp' = Snapshot(task.sid).content /\ Go("commit")
       ELSE task' = NoTask /\ UNCHANGED tmp
    /\ UNCHANGED <<mem, old, snaps, made, twin, up, reg, runs, owed, written, deaths, expect>>

----------------------------------------------------------------------------
(* The commit, one hold of store.lock.                                     *)

\* The second gate: an execution that started, even one that ended again, or a
\* delete, leaves the copy behind.
Abandons == ~reg \/ (task.kind # "pre-version" /\ TokenMoved)

FirstOf == CASE task.kind = "pre-clear" -> "clear"
             [] task.kind \in {"manual", "pre-version"} -> "place"
             [] task.kind = "pre-restore" -> IF task.staged = Absent THEN "aside" ELSE "place"

CommitBegins ==
    /\ At("commit")
    /\ IF Abandons
       THEN Ends /\ tmp' = Absent /\ UNCHANGED twin
       ELSE IF task.kind = "duplicate"
       THEN task' = NoTask /\ twin' = task.staged /\ UNCHANGED <<tmp, runs>>
       ELSE Go(FirstOf) /\ UNCHANGED <<tmp, twin, runs>>
    /\ UNCHANGED <<mem, old, snaps, made, up, reg, owed, written, deaths, expect>>

\* Store.clear_memory, which repairs an earlier swap first.
ClearMemory ==
    /\ At("clear")
    /\ mem' = Empty /\ tmp' = Absent /\ old' = Absent
    /\ expect' = {Empty}
    /\ IF task.staged = Absent THEN task' = NoTask ELSE Go("place")
    /\ UNCHANGED <<snaps, made, twin, up, reg, runs, owed, written, deaths>>

\* commit_snapshot: directories without a snapshot.yaml go, the staged copy is
\* renamed into place, its snapshot.yaml is written, unnamed ones are pruned.
PlaceSnapshot ==
    /\ At("place") /\ made < MaxSnaps
    /\ made' = made + 1
    /\ snaps' = Listed \cup {[id |-> made', reason |-> task.kind, named |-> FALSE,
                              content |-> task.staged, meta |-> FALSE]}
    /\ Go("meta")
    /\ UNCHANGED <<mem, tmp, old, twin, up, reg, runs, owed, written, deaths, expect>>

\* A manual snapshot may come with a name.
WriteMeta ==
    /\ At("meta")
    /\ \E named \in IF task.kind = "manual" THEN BOOLEAN ELSE {FALSE} :
          snaps' = {IF s.id = made THEN [s EXCEPT !.meta = TRUE, !.named = named] ELSE s : s \in snaps}
    /\ Go("prune")
    /\ UNCHANGED <<mem, tmp, old, made, twin, up, reg, runs, owed, written, deaths, expect>>

\* keep: the snapshot a restore is about to copy from.
Exempt(s) == task.kind = "pre-restore" /\ s.id = task.sid

Newer(s) == {t \in Listed : ~t.named /\ t.id > s.id}

\* Mutation: a name spares no snapshot.
MutIgnoresNames(s) == Exempt(s) \/ Cardinality(Newer(s)) < KeepUnnamed

Spared(s) == s.named \/ Exempt(s) \/ Cardinality(Newer(s)) < KeepUnnamed

Prune ==
    /\ At("prune")
    /\ snaps' = {s \in snaps : Spared(s)}
    /\ IF task.kind = "pre-restore" THEN Go("aside") /\ UNCHANGED runs ELSE Ends
    /\ UNCHANGED <<mem, tmp, old, made, twin, up, reg, owed, written, deaths, expect>>

\* _restore_swap: memory/ aside, the image in its place, the aside one goes.
MoveAside ==
    /\ At("aside")
    /\ old' = IF mem = Absent THEN old ELSE mem
    /\ mem' = Absent
    /\ expect' = expect \cup {tmp}
    /\ Go("swap")
    /\ UNCHANGED <<tmp, snaps, made, twin, up, reg, runs, owed, written, deaths>>

MoveIn ==
    /\ At("swap")
    /\ mem' = tmp /\ tmp' = Absent
    /\ expect' = {tmp}
    /\ Go("sweep")
    /\ UNCHANGED <<old, snaps, made, twin, up, reg, runs, owed, written, deaths>>

SweepMoved ==
    /\ At("sweep")
    /\ old' = Absent
    /\ task' = NoTask
    /\ UNCHANGED <<mem, tmp, snaps, made, twin, up, reg, runs, owed, written, deaths, expect>>

----------------------------------------------------------------------------

\* DELETE /automations: the whole directory is renamed aside once nothing is live.
DeleteAutomation ==
    /\ up /\ reg /\ Quiet /\ ~RestoreHeld
    /\ reg' = FALSE
    /\ mem' = Absent /\ tmp' = Absent /\ old' = Absent /\ snaps' = {}
    /\ UNCHANGED <<made, twin, up, runs, owed, written, task, deaths, expect>>

\* Executions die with the process; whether a snapshot is owed is then decided
\* by the records on disk.
Die ==
    /\ up /\ deaths < MaxDeaths
    /\ up' = FALSE /\ deaths' = deaths + 1
    /\ task' = NoTask
    /\ runs' = [r \in DOMAIN runs |-> "none"]
    /\ owed' \in {owed, FALSE}
    /\ UNCHANGED <<memoryDisk, reg, written, expect>>

\* _load_automation: _recover_memory_swap.
MemoryLoads ==
    /\ ~up
    /\ up' = TRUE
    /\ mem' = RecoveredMemory /\ tmp' = Absent /\ old' = Absent
    /\ expect' = IF RecoveredMemory \in expect THEN {RecoveredMemory} ELSE expect
    /\ UNCHANGED <<snaps, made, twin, reg, runs, owed, written, task, deaths>>

Executions == \E r \in DOMAIN runs :
    RunStarts(r) \/ RunWrites(r) \/ RunEnds(r) \/ RunStopsEarly(r) \/ BeginVersion(r)

Operations ==
    \/ \E kind \in Reasons \cup {"duplicate"} : BeginTask(kind)
    \/ \E s \in snaps : BeginRestore(s) \/ NameSnapshot(s) \/ DropSnapshot(s)
    \/ StageBegins \/ StageEnds \/ ImageBegins \/ ImageEnds

CommitTask ==
    \/ CommitBegins \/ ClearMemory \/ PlaceSnapshot \/ WriteMeta \/ Prune
    \/ MoveAside \/ MoveIn \/ SweepMoved

SnapNext ==
    \/ Executions \/ Operations \/ CommitTask
    \/ NewVersion \/ DeleteAutomation \/ Die \/ MemoryLoads

SnapSpec == SnapInit /\ [][SnapNext]_snapVars

----------------------------------------------------------------------------
(* Properties.                                                             *)

SnapTypeOK ==
    /\ {mem, tmp, old, twin} \subseteq MemoryContents
    /\ \A s \in snaps : s.id \in 1..made /\ s.reason \in Reasons /\ s.content \in MemoryContents
    /\ {up, reg, owed} \subseteq BOOLEAN
    /\ runs \in [1..MaxParallel -> {"none", "pre", "work"}]
    /\ task.staged \in MemoryContents

\* No copy that an execution wrote under is ever kept: not as a snapshot, not
\* as restored memory, not as a duplicate's memory (start_token, compared at
\* the first gate and at the commit).
CopiesAreWhole ==
    /\ \A s \in snaps : s.content # Torn
    /\ mem # Torn /\ twin # Torn

\* Memory is only ever what its user last saw written, cleared or restored; a
\* death anywhere in a restore's swap leaves the old or the new content, and
\* the start after it puts it in place (_recover_memory_swap).
MemorySurvives == up /\ reg /\ ~RestoreHeld => mem \in expect

\* A restore can be repeated: its prune never removes the snapshot it restores.
RestoreIsRepeatable ==
    reg /\ RestoreHeld /\ task.kind = "pre-restore" => \E s \in Listed : s.id = task.sid

\* A named snapshot goes only with a request to delete it, or with its automation.
NamedAreSpared ==
    reg' => \A s \in Listed : s.named => \/ \E t \in snaps' : t.id = s.id
                                         \/ task.kind = "none"

\* After a delete no operation that was under way makes the directory again.
DeletedStaysEmpty == ~reg => mem = Absent /\ snaps = {} /\ tmp \in {Absent, Torn} /\ old = Absent

=============================================================================
