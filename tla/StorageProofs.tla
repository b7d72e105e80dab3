----------------------------- MODULE StorageProofs -----------------------------
(***************************************************************************)
(* What MCStorage promises of its parts whatever the constants: an           *)
(* automation's memory and the copies of it, the draft that is swapped in,   *)
(* the history of versions, the catalogs and their marketplaces, the         *)
(* execution records, parked imports, downloads and archives.                *)
(***************************************************************************)
EXTENDS MCStorage, FiniteSetTheorems, SequenceTheorems, WellFoundedInduction, TLAPS

\* The image taken before a version's first execution is exact when that
\* execution runs alone; beside a sibling it is best effort (spec/engine.md).
CopiesAlone == MaxParallel = 1 \/ "pre-version" \notin Automatic

-----------------------------------------------------------------------------
(***************************************************************************)
(* Memory and its snapshots: the inductive invariant.                      *)
(***************************************************************************)
MemoryPlaces ==
    {"none", "stage", "copying", "image", "imaging", "commit",
     "clear", "place", "meta", "prune", "aside", "swap", "sweep"}
MemoryKinds == Reasons \cup {"none", "duplicate"}
WholeContents == 2..MaxContent

SnapshotRecs ==
    [id : Nat, reason : Reasons, named : BOOLEAN, content : WholeContents, meta : BOOLEAN]
MemoryTasks == [kind : MemoryKinds, at : MemoryPlaces, moved : BOOLEAN, sid : Nat, staged : MemoryContents]

NoRuns == \A r \in 1..MaxParallel : runs[r] = "none"

MemoryTypes ==
    /\ mem \in 0..MaxContent /\ old \in 0..MaxContent /\ twin \in 0..MaxContent
    /\ tmp \in MemoryContents
    /\ made \in Nat /\ written \in 1..MaxContent
    /\ up \in BOOLEAN /\ reg \in BOOLEAN /\ owed \in BOOLEAN
    /\ runs \in [1..MaxParallel -> {"none", "pre", "work"}]
    /\ task \in MemoryTasks

\* What is kept is whole, and a copy starts from memory that holds something.
SnapshotsFit == snaps \subseteq SnapshotRecs

\* Where an operation of each kind may be, ...
TaskFits ==
    /\ task.kind = "none" <=> task.at = "none"
    /\ task.at = "clear" => task.kind = "pre-clear"
    /\ task.at \in {"image", "imaging", "aside", "swap", "sweep"} => task.kind = "pre-restore"
    /\ task.kind = "duplicate" => task.at \in {"stage", "copying", "commit"}

\* ... which executions there are beside it: none that it does not know of, and
\* the one that waits for its version's snapshot.
RunsFit ==
    /\ task.kind \notin {"none", "pre-version"} /\ ~task.moved => NoRuns
    /\ task.kind \notin {"none", "pre-version"} /\ RestoreHeld => ~task.moved
    /\ task.kind = "pre-version" =>
          /\ task.sid \in 1..MaxParallel /\ runs[task.sid] = "pre"
          /\ task.at = "stage" \/ "pre-version" \in Automatic
    /\ ~up => task.kind = "none" /\ NoRuns
    /\ ~reg => NoRuns /\ ~RestoreHeld

\* What it has staged: a copy that was written under is never committed.
StagedFits ==
    /\ task.staged # Empty
    /\ task.at = "stage" => task.staged = Absent
    /\ task.at \in {"copying", "place"} => task.staged # Absent
    /\ task.at = "commit" /\ task.kind \in {"manual", "pre-version", "duplicate"} =>
          task.staged # Absent
    /\ task.staged = Torn =>
          task.moved /\ task.kind \notin {"none", "pre-version"} /\ ~RestoreHeld

\* What a restore copies from, and the image it has made of it.
RestoreFits ==
    reg /\ task.kind = "pre-restore" =>
      /\ \E s \in Listed : s.id = task.sid
      /\ task.at \in {"commit", "place", "meta", "prune", "aside", "swap"} => tmp \in WholeContents

\* Memory is what its user was told, or the aside directory is; outside a swap
\* there is no aside directory.
SwapFits ==
    /\ reg => RecoveredMemory \in expect
    /\ up /\ task.at \notin {"swap", "sweep"} => old = Absent
    /\ task.at = "swap" => mem = Absent
    /\ task.at = "sweep" => mem # Absent

DeletedFits == ~reg => mem = Absent /\ snaps = {} /\ tmp = Absent /\ old = Absent

MemoryInv ==
    /\ MemoryTypes /\ SnapshotsFit /\ TaskFits /\ RunsFit
    /\ StagedFits /\ RestoreFits /\ SwapFits /\ DeletedFits

-----------------------------------------------------------------------------
(***************************************************************************)
(* The steps.                                                              *)
(***************************************************************************)

\* start_token is there exactly while no execution is live.
LEMMA QuietIsNoRuns ==
  ASSUME MemoryAssumption, MemoryTypes
  PROVE  Quiet <=> NoRuns
<1> DEFINE LiveOnes == {r \in DOMAIN runs : runs[r] # "none"}
<1>1. DOMAIN runs = 1..MaxParallel
  BY DEF MemoryTypes
<1>2. IsFiniteSet(1..MaxParallel)
  BY FS_Interval DEF MemoryAssumption
<1>3. IsFiniteSet(LiveOnes)
  BY <1>1, <1>2, FS_Subset
<1>4. Cardinality(LiveOnes) = 0 <=> LiveOnes = {}
  BY <1>3, FS_EmptySet
<1> QED
  BY <1>1, <1>4 DEF Quiet, LiveRuns, NoRuns

\* What an operation's step to another place leaves of it.
LEMMA GoMoves ==
  ASSUME task \in MemoryTasks, NEW p \in MemoryPlaces, Go(p)
  PROVE  /\ task' \in MemoryTasks
         /\ task'.at = p /\ task'.kind = task.kind /\ task'.moved = task.moved
         /\ task'.sid = task.sid /\ task'.staged = task.staged
  BY DEF MemoryTasks, Go

LEMMA RunStartsInv ==
  ASSUME MemoryAssumption, CopiesAlone, MemoryInv, NEW r \in DOMAIN runs, RunStarts(r)
  PROVE  MemoryInv'
<1> USE DEF MemoryInv, RunStarts
<1>1. /\ task' \in MemoryTasks
      /\ task'.at = task.at /\ task'.kind = task.kind /\ task'.sid = task.sid
      /\ task'.staged = task.staged /\ (task.kind # "none" => task'.moved)
  <2>1. task \in MemoryTasks /\ (task.kind # "none") \in BOOLEAN
    BY DEF MemoryTypes
  <2>2. task' = [task EXCEPT !.moved = (task.kind # "none")]
    OBVIOUS
  <2> QED
    BY <2>1, <2>2, Zenon DEF MemoryTasks
<1>2. MemoryTypes'
  <2>1. runs[r] = "none" /\ runs' \in [1..MaxParallel -> {"none", "pre", "work"}]
    BY DEF MemoryTypes
  <2>2. mem' \in 0..MaxContent
    BY DEF MemoryTypes, Empty, MemoryAssumption
  <2>3. owed' \in BOOLEAN /\ up' \in BOOLEAN /\ reg' \in BOOLEAN
    BY Zenon DEF MemoryTypes
  <2> QED
    BY <1>1, <2>1, <2>2, <2>3 DEF MemoryTypes, MemoryContents, Torn
<1>3. SnapshotsFit' /\ TaskFits'
  BY <1>1 DEF SnapshotsFit, TaskFits
<1>4. RunsFit'
  BY <1>1 DEF RunsFit, RestoreHeld, NoRuns, MemoryTypes
<1>5. StagedFits'
  BY <1>1 DEF StagedFits, RestoreHeld
<1>6. RestoreFits'
  BY <1>1 DEF RestoreFits, Listed
<1>7. SwapFits' /\ DeletedFits'
  BY <1>1 DEF SwapFits, DeletedFits, RecoveredMemory, RestoreHeld, Empty, Absent
<1> QED
  BY <1>2, <1>3, <1>4, <1>5, <1>6, <1>7 DEF MemoryInv

LEMMA RunWritesInv ==
  ASSUME MemoryAssumption, CopiesAlone, MemoryInv, NEW r \in DOMAIN runs, RunWrites(r)
  PROVE  MemoryInv'
<1> USE DEF MemoryInv, RunWrites
<1>1. /\ task' \in MemoryTasks
      /\ task'.at = task.at /\ task'.kind = task.kind /\ task'.sid = task.sid
      /\ task'.moved = task.moved
      /\ task'.staged = IF task.at = "copying" THEN Torn ELSE task.staged
  BY SMT DEF MemoryTasks, MemoryTypes, MemoryContents, Torn, MemoryAssumption
<1>2. ~NoRuns /\ r \in 1..MaxParallel
  BY DEF NoRuns, MemoryTypes
<1>3. reg /\ (task.kind \notin {"none", "pre-version"} => task.moved /\ ~RestoreHeld)
  BY <1>2 DEF RunsFit
<1>4. task.at = "copying" => task.kind \notin {"none", "pre-version"}
  BY <1>2 DEF RunsFit, TaskFits, CopiesAlone, MemoryAssumption
<1>5. MemoryTypes'
  BY <1>1 DEF MemoryTypes, MemoryAssumption
<1>6. SnapshotsFit' /\ TaskFits'
  BY <1>1 DEF SnapshotsFit, TaskFits
<1>7. RunsFit'
  BY <1>1 DEF RunsFit, RestoreHeld, NoRuns
<1>8. StagedFits'
  BY <1>1, <1>3, <1>4 DEF StagedFits, RestoreHeld, Torn, Empty, Absent, MemoryAssumption
<1>9. RestoreFits'
  BY <1>1 DEF RestoreFits, Listed
<1>10. SwapFits' /\ DeletedFits'
  BY <1>1, <1>3 DEF SwapFits, DeletedFits, RecoveredMemory, RestoreHeld, Absent, MemoryTypes,
                    TaskFits
<1> QED
  BY <1>5, <1>6, <1>7, <1>8, <1>9, <1>10 DEF MemoryInv

LEMMA RunEndsInv ==
  ASSUME MemoryAssumption, CopiesAlone, MemoryInv,
         NEW r \in DOMAIN runs, RunEnds(r) \/ RunStopsEarly(r)
  PROVE  MemoryInv'
<1> USE DEF MemoryInv, RunEnds, RunStopsEarly, memoryDisk
<1>1. /\ runs' = [runs EXCEPT ![r] = "none"] /\ task' = task
      /\ task.kind = "pre-version" => runs[r] = "work"
  OBVIOUS
<1>2. runs' \in [1..MaxParallel -> {"none", "pre", "work"}]
  BY <1>1 DEF MemoryTypes
<1>3. owed' \in BOOLEAN
  BY Zenon DEF MemoryTypes
<1>4. MemoryTypes'
  BY <1>2, <1>3, Zenon DEF MemoryTypes, MemoryContents, Torn
<1>5. SnapshotsFit' /\ TaskFits' /\ StagedFits' /\ RestoreFits' /\ SwapFits' /\ DeletedFits'
  BY DEF SnapshotsFit, TaskFits, StagedFits, RestoreFits, SwapFits, DeletedFits, RestoreHeld,
         Listed, RecoveredMemory
<1>6. NoRuns => NoRuns'
  BY <1>1, <1>2 DEF NoRuns, MemoryTypes
<1>7. RunsFit'
  BY <1>1, <1>6 DEF RunsFit, RestoreHeld, MemoryTypes
<1> QED
  BY <1>4, <1>5, <1>7 DEF MemoryInv

LEMMA NewVersionInv ==
  ASSUME MemoryInv, NewVersion
  PROVE  MemoryInv'
<1> USE DEF MemoryInv, NewVersion, memoryDisk
<1>1. owed' \in BOOLEAN
  OBVIOUS
<1>2. MemoryTypes'
  BY <1>1 DEF MemoryTypes, MemoryContents, Torn
<1> QED
  BY <1>2 DEF SnapshotsFit, TaskFits, RunsFit, StagedFits, RestoreFits, SwapFits, DeletedFits,
              RestoreHeld, Listed, RecoveredMemory, NoRuns

\* A memory operation begins.
LEMMA TakesOne ==
  ASSUME NEW kind \in MemoryKinds, NEW sid \in Nat, Takes(kind, sid, "stage")
  PROVE  /\ task' \in MemoryTasks
         /\ task.kind = "none" /\ up
         /\ task'.kind = kind /\ task'.at = "stage" /\ task'.sid = sid
         /\ task'.moved = FALSE /\ task'.staged = Absent
<1>1. Absent \in MemoryContents
  BY MemoryAssumption DEF MemoryContents, Torn, Absent, MemoryAssumption
<1>2. task' = [kind |-> kind, at |-> "stage", moved |-> FALSE, sid |-> sid, staged |-> Absent]
  BY DEF Takes
<1>3. FALSE \in BOOLEAN /\ "stage" \in MemoryPlaces
  BY DEF MemoryPlaces
<1>4. task' \in MemoryTasks
  BY <1>1, <1>2, <1>3 DEF MemoryTasks
<1> QED
  BY <1>2, <1>4 DEF Takes

LEMMA BeginTaskInv ==
  ASSUME MemoryAssumption, MemoryInv, NEW kind \in Reasons \cup {"duplicate"}, BeginTask(kind)
  PROVE  MemoryInv'
<1> USE DEF MemoryInv, BeginTask, memoryDisk
<1>1. /\ task' \in MemoryTasks /\ task.kind = "none" /\ up
      /\ task'.kind = kind /\ task'.at = "stage" /\ task'.moved = FALSE /\ task'.staged = Absent
  BY TakesOne, 0 \in Nat, Zenon DEF MemoryKinds
<1>2. reg /\ NoRuns
  BY QuietIsNoRuns
<1>3. MemoryTypes'
  BY <1>1 DEF MemoryTypes
<1>4. SnapshotsFit' /\ TaskFits' /\ StagedFits' /\ RestoreFits' /\ SwapFits' /\ DeletedFits'
  BY <1>1, <1>2 DEF SnapshotsFit, TaskFits, StagedFits, RestoreFits, SwapFits, DeletedFits,
         RestoreHeld, Listed, RecoveredMemory, Absent, Empty, Torn, MemoryAssumption
<1>5. RunsFit'
  BY <1>1, <1>2 DEF RunsFit, RestoreHeld, NoRuns
<1> QED
  BY <1>3, <1>4, <1>5 DEF MemoryInv

LEMMA BeginVersionInv ==
  ASSUME MemoryAssumption, MemoryInv, NEW r \in DOMAIN runs, BeginVersion(r)
  PROVE  MemoryInv'
<1> USE DEF MemoryInv, BeginVersion, memoryDisk
<1>0. r \in 1..MaxParallel /\ r \in Nat /\ runs[r] = "pre"
  BY DEF MemoryTypes, MemoryAssumption
<1>1. /\ task' \in MemoryTasks /\ task.kind = "none" /\ up
      /\ task'.kind = "pre-version" /\ task'.at = "stage" /\ task'.sid = r
      /\ task'.moved = FALSE /\ task'.staged = Absent
  BY <1>0, TakesOne, Zenon DEF MemoryKinds, Reasons
<1>2. ~NoRuns /\ reg
  BY <1>0 DEF NoRuns, RunsFit
<1>3. MemoryTypes'
  BY <1>1 DEF MemoryTypes
<1>4. SnapshotsFit' /\ TaskFits' /\ StagedFits' /\ RestoreFits' /\ SwapFits' /\ DeletedFits'
  BY <1>1, <1>2 DEF SnapshotsFit, TaskFits, StagedFits, RestoreFits, SwapFits, DeletedFits,
         RestoreHeld, Listed, RecoveredMemory, Absent, Empty, Torn, MemoryAssumption
<1>5. RunsFit'
  BY <1>0, <1>1, <1>2 DEF RunsFit, RestoreHeld, NoRuns
<1> QED
  BY <1>3, <1>4, <1>5 DEF MemoryInv

LEMMA BeginRestoreInv ==
  ASSUME MemoryAssumption, MemoryInv, NEW s \in snaps, BeginRestore(s)
  PROVE  MemoryInv'
<1> USE DEF MemoryInv, BeginRestore
<1>0. s \in Listed /\ s.id \in Nat
  BY DEF SnapshotsFit, SnapshotRecs
<1>1. /\ task' \in MemoryTasks /\ task.kind = "none" /\ up
      /\ task'.kind = "pre-restore" /\ task'.at = "stage" /\ task'.sid = s.id
      /\ task'.moved = FALSE /\ task'.staged = Absent
  BY <1>0, TakesOne, Zenon DEF MemoryKinds, Reasons
<1>2. reg /\ NoRuns
  BY QuietIsNoRuns
<1>3. mem' = mem /\ old = Absent /\ old' = Absent /\ tmp' = Absent
  BY <1>1 DEF RecoveredMemory, SwapFits, TaskFits
<1>4. MemoryTypes'
  BY <1>1, <1>3 DEF MemoryTypes, MemoryContents, Torn, Absent
<1>5. SnapshotsFit' /\ TaskFits' /\ StagedFits' /\ SwapFits' /\ DeletedFits'
  BY <1>1, <1>2, <1>3 DEF SnapshotsFit, TaskFits, StagedFits, SwapFits, DeletedFits,
         RestoreHeld, RecoveredMemory, Absent, Empty, Torn, MemoryAssumption
<1>6. RestoreFits'
  BY <1>0, <1>1 DEF RestoreFits, Listed
<1>7. RunsFit'
  BY <1>1, <1>2 DEF RunsFit, RestoreHeld, NoRuns
<1> QED
  BY <1>4, <1>5, <1>6, <1>7 DEF MemoryInv

LEMMA NameOrDropInv ==
  ASSUME MemoryInv, NEW s \in snaps, NameSnapshot(s) \/ DropSnapshot(s)
  PROVE  MemoryInv'
<1> USE DEF MemoryInv, NameSnapshot, DropSnapshot
<1>1. [s EXCEPT !.named = ~s.named] \in SnapshotRecs
  BY Zenon DEF SnapshotsFit, SnapshotRecs
<1>2. SnapshotsFit'
  BY <1>1 DEF SnapshotsFit
<1>3. task' = task /\ task.kind = "none" /\ reg' = reg /\ reg
  OBVIOUS
<1>4. RestoreFits' /\ DeletedFits'
  BY <1>3 DEF RestoreFits, DeletedFits
<1> QED
  BY <1>2, <1>4 DEF MemoryTypes, TaskFits, RunsFit, StagedFits, SwapFits, RestoreHeld,
                    RecoveredMemory, NoRuns

\* What the end of an operation leaves: no operation, and the executions there
\* were, the one that waited now at work.
LEMMA EndsFrees ==
  ASSUME MemoryTypes, RunsFit, Ends
  PROVE  /\ task' \in MemoryTasks
         /\ task'.kind = "none" /\ task'.at = "none" /\ task'.staged = Absent
         /\ runs' \in [1..MaxParallel -> {"none", "pre", "work"}]
         /\ NoRuns => NoRuns'
<1>1. Absent \in MemoryContents
  BY MemoryAssumption DEF MemoryContents, Torn, Absent, MemoryAssumption
<1>2. NoTask \in MemoryTasks
  BY <1>1 DEF MemoryTasks, MemoryPlaces, MemoryKinds, NoTask
<1>3. task' = NoTask
  BY DEF Ends
<1>4. runs' \in [1..MaxParallel -> {"none", "pre", "work"}]
  BY Zenon DEF Ends, MemoryTypes
<1>5. CASE task.kind = "pre-version"
  BY <1>2, <1>3, <1>4, <1>5 DEF RunsFit, NoRuns, NoTask
<1>6. CASE task.kind # "pre-version"
  BY <1>2, <1>3, <1>4, <1>6 DEF Ends, NoRuns, NoTask
<1> QED
  BY <1>5, <1>6

\* ... so the invariant holds after an end that leaves the memory alone.
LEMMA EndsInv ==
  ASSUME MemoryAssumption, MemoryInv, Ends, UNCHANGED <<mem, old, made, twin, up, reg, owed, written, expect>>,
         task.at \notin {"swap", "sweep"},
         tmp' \in {tmp, Absent}, snaps' \subseteq snaps
  PROVE  MemoryInv'
<1> USE DEF MemoryInv
<1>1. /\ task' \in MemoryTasks
      /\ task'.kind = "none" /\ task'.at = "none" /\ task'.staged = Absent
      /\ runs' \in [1..MaxParallel -> {"none", "pre", "work"}]
      /\ NoRuns => NoRuns'
  BY EndsFrees
<1>2. tmp' \in MemoryContents
  BY MemoryAssumption DEF MemoryTypes, MemoryContents, Torn, Absent, MemoryAssumption
<1>3. MemoryTypes'
  BY <1>1, <1>2 DEF MemoryTypes
<1>4. SnapshotsFit' /\ TaskFits' /\ StagedFits' /\ RestoreFits' /\ SwapFits' /\ DeletedFits'
  BY <1>1 DEF SnapshotsFit, TaskFits, StagedFits, RestoreFits, SwapFits, DeletedFits,
         RestoreHeld, RecoveredMemory, Absent, Empty, Torn, MemoryAssumption
<1>5. RunsFit'
  BY <1>1 DEF RunsFit, RestoreHeld
<1> QED
  BY <1>3, <1>4, <1>5 DEF MemoryInv

LEMMA StageBeginsInv ==
  ASSUME MemoryAssumption, MemoryInv, StageBegins
  PROVE  MemoryInv'
<1> DEFINE StagesNone == \/ ~reg \/ (mem \in {Absent, Empty} /\ task.kind \in {"manual", "pre-version", "duplicate"})
                      \/ (Off /\ task.kind = "pre-version")
<1>1. CASE StagesNone
  <2>1. Ends
    BY <1>1 DEF StageBegins
  <2> QED
    BY <2>1, EndsInv DEF StageBegins, At, memoryDisk
<1>2. CASE ~StagesNone
  <2> USE DEF MemoryInv
  <2>1. UNCHANGED <<mem, tmp, old, snaps, made, twin, up, reg, owed, written, expect, runs>>
    BY <1>2 DEF StageBegins, memoryDisk
  <2>2. /\ up /\ task.at = "stage" /\ reg /\ task.staged = Absent
        /\ mem \in {Absent, Empty} => task.kind \notin {"manual", "pre-version", "duplicate"}
        /\ task.kind = "pre-version" => ~Off
        /\ task \in MemoryTasks /\ task.kind # "none"
    BY <1>2 DEF StageBegins, At, StagedFits, MemoryTypes, TaskFits
  <2>3. CASE Off \/ mem \in {Absent, Empty}
    <3>1. task' = [task EXCEPT !.at = AfterStage]
      BY <1>2, <2>3 DEF StageBegins
    <3>2. AfterStage \in {"image", "commit"} /\ (AfterStage = "image" <=> task.kind = "pre-restore")
      BY DEF AfterStage
    <3>3. /\ task' \in MemoryTasks /\ task'.kind = task.kind /\ task'.at = AfterStage
          /\ task'.moved = task.moved /\ task'.sid = task.sid /\ task'.staged = Absent
      BY <2>2, <3>1, <3>2 DEF MemoryTasks, MemoryPlaces
    <3>4. task.kind \notin {"manual", "pre-version", "duplicate"}
      BY <2>2, <2>3 DEF Off, Reasons
    <3>5. MemoryTypes'
      BY <2>1, <3>3 DEF MemoryTypes, MemoryContents, Torn
    <3>6. SnapshotsFit' /\ TaskFits' /\ StagedFits' /\ SwapFits' /\ DeletedFits'
      BY <2>1, <2>2, <3>2, <3>3, <3>4 DEF SnapshotsFit, TaskFits, StagedFits, SwapFits, DeletedFits,
         RestoreHeld, RecoveredMemory, Absent, Empty, Torn, MemoryAssumption
    <3>7. RunsFit' /\ RestoreFits'
      BY <2>1, <2>2, <3>2, <3>3, <3>4 DEF RunsFit, RestoreFits, RestoreHeld, NoRuns, Listed
    <3> QED
      BY <3>5, <3>6, <3>7 DEF MemoryInv
  <2>4. CASE ~(Off \/ mem \in {Absent, Empty})
    <3>1. task' = [task EXCEPT !.at = "copying", !.staged = mem]
      BY <1>2, <2>4 DEF StageBegins
    <3>2. mem \in WholeContents /\ mem \in MemoryContents
      BY <2>4 DEF MemoryTypes, MemoryContents, Torn, Absent, Empty, MemoryAssumption, WholeContents
    <3>3. /\ task' \in MemoryTasks /\ task'.kind = task.kind /\ task'.at = "copying"
          /\ task'.moved = task.moved /\ task'.sid = task.sid /\ task'.staged = mem
      BY <2>2, <3>1, <3>2, Zenon DEF MemoryTasks, MemoryPlaces
    <3>4. task.kind = "pre-version" => "pre-version" \in Automatic
      BY <2>4 DEF Off, Reasons
    <3>5. MemoryTypes'
      BY <2>1, <3>3 DEF MemoryTypes, MemoryContents, Torn
    <3>6. SnapshotsFit' /\ TaskFits' /\ StagedFits' /\ SwapFits' /\ DeletedFits'
      BY <2>1, <2>2, <3>2, <3>3, <3>4 DEF SnapshotsFit, TaskFits, StagedFits, SwapFits, DeletedFits,
         RestoreHeld, RecoveredMemory, Absent, Empty, Torn, MemoryAssumption, WholeContents
    <3>7. RunsFit' /\ RestoreFits'
      BY <2>1, <2>2, <3>3, <3>4 DEF RunsFit, RestoreFits, RestoreHeld, NoRuns, Listed
    <3> QED
      BY <3>5, <3>6, <3>7 DEF MemoryInv
  <2> QED
    BY <2>3, <2>4
<1> QED
  BY <1>1, <1>2

LEMMA StageEndsInv ==
  ASSUME MemoryAssumption, MemoryInv, StageEnds
  PROVE  MemoryInv'
<1> USE DEF MemoryInv
<1>1. AfterStage \in {"image", "commit"} /\ (AfterStage = "image" <=> task.kind = "pre-restore")
  BY DEF AfterStage
<1>2. /\ task' \in MemoryTasks /\ task'.kind = task.kind /\ task'.at = AfterStage
      /\ task'.moved = task.moved /\ task'.sid = task.sid /\ task'.staged = task.staged
  BY <1>1, GoMoves DEF StageEnds, MemoryPlaces, MemoryTypes
<1>3. UNCHANGED <<mem, tmp, old, snaps, made, twin, up, reg, owed, written, expect, runs>>
  BY DEF StageEnds, memoryDisk
<1>4. up /\ task.at = "copying"
  BY DEF StageEnds, At
<1>5. MemoryTypes'
  BY <1>2, <1>3 DEF MemoryTypes, MemoryContents, Torn
<1>6. SnapshotsFit' /\ TaskFits' /\ StagedFits' /\ SwapFits' /\ DeletedFits'
  BY <1>1, <1>2, <1>3, <1>4 DEF SnapshotsFit, TaskFits, StagedFits, SwapFits, DeletedFits,
     RestoreHeld, RecoveredMemory, Torn
<1>7. RestoreFits'
  <2>1. reg /\ task.kind = "pre-restore" => AfterStage = "image" /\ \E s \in Listed : s.id = task.sid
    BY <1>1 DEF RestoreFits
  <2> QED
    BY <1>2, <1>3, <2>1 DEF RestoreFits, Listed
<1>8. RunsFit'
  BY <1>1, <1>2, <1>3, <1>4 DEF RunsFit, RestoreHeld, NoRuns
<1> QED
  BY <1>5, <1>6, <1>7, <1>8 DEF MemoryInv

LEMMA ImageBeginsInv ==
  ASSUME MemoryAssumption, MemoryInv, ImageBegins
  PROVE  MemoryInv'
<1> USE DEF MemoryInv
<1>1. /\ task' \in MemoryTasks /\ task'.kind = task.kind /\ task'.at = "imaging"
      /\ task'.moved = task.moved /\ task'.sid = task.sid /\ task'.staged = task.staged
  BY GoMoves DEF ImageBegins, MemoryPlaces, MemoryTypes
<1>2. UNCHANGED <<mem, old, snaps, made, twin, up, reg, owed, written, expect, runs>>
  BY DEF ImageBegins
<1>3. up /\ task.at = "image" /\ task.kind = "pre-restore"
  BY DEF ImageBegins, At, TaskFits
<1>4. tmp' \in MemoryContents /\ (~reg => tmp' = Absent)
  BY DEF ImageBegins, MemoryContents, Torn, Absent, MemoryAssumption
<1>5. MemoryTypes'
  BY <1>1, <1>2, <1>4 DEF MemoryTypes
<1>6. SnapshotsFit' /\ TaskFits' /\ StagedFits' /\ SwapFits' /\ DeletedFits' /\ RestoreFits'
  BY <1>1, <1>2, <1>3, <1>4 DEF SnapshotsFit, TaskFits, StagedFits, SwapFits, DeletedFits,
     RestoreHeld, RecoveredMemory, Torn, RestoreFits, Listed
<1>7. RunsFit'
  BY <1>1, <1>2, <1>3 DEF RunsFit, RestoreHeld, NoRuns
<1> QED
  BY <1>5, <1>6, <1>7 DEF MemoryInv

LEMMA ImageEndsInv ==
  ASSUME MemoryAssumption, MemoryInv, ImageEnds
  PROVE  MemoryInv'
<1> USE DEF MemoryInv
<1>1. UNCHANGED <<mem, old, snaps, made, twin, up, reg, owed, written, expect, runs>>
  BY DEF ImageEnds
<1>2. up /\ task.at = "imaging" /\ task.kind = "pre-restore"
  BY DEF ImageEnds, At, TaskFits
<1>3. CASE reg
  <2>1. PICK s \in snaps : s.id = task.sid
    BY <1>2, <1>3 DEF RestoreFits, Listed
  <2>2. Snapshot(task.sid) \in snaps
    BY <2>1 DEF Snapshot
  <2>3. tmp' \in WholeContents /\ tmp' \in MemoryContents
    BY <1>3, <2>2 DEF ImageEnds, SnapshotsFit, SnapshotRecs, WholeContents, MemoryContents, Torn,
                      MemoryAssumption
  <2>4. /\ task' \in MemoryTasks /\ task'.kind = task.kind /\ task'.at = "commit"
        /\ task'.moved = task.moved /\ task'.sid = task.sid /\ task'.staged = task.staged
    BY <1>3, GoMoves DEF ImageEnds, MemoryPlaces, MemoryTypes
  <2>5. MemoryTypes'
    BY <1>1, <2>3, <2>4 DEF MemoryTypes
  <2>6. SnapshotsFit' /\ TaskFits' /\ StagedFits' /\ SwapFits' /\ DeletedFits' /\ RestoreFits'
    BY <1>1, <1>2, <1>3, <2>3, <2>4 DEF SnapshotsFit, TaskFits, StagedFits, SwapFits, DeletedFits,
       RestoreHeld, RecoveredMemory, Torn, RestoreFits, Listed
  <2>7. RunsFit'
    BY <1>1, <1>2, <2>4 DEF RunsFit, RestoreHeld, NoRuns
  <2> QED
    BY <2>5, <2>6, <2>7 DEF MemoryInv
<1>4. CASE ~reg
  <2>1. Ends /\ tmp' = tmp
    BY <1>1, <1>2, <1>4 DEF ImageEnds, Ends
  <2> QED
    BY <1>1, <1>2, <2>1, EndsInv
<1> QED
  BY <1>3, <1>4

\* What is committed is whole.
LEMMA CommitIsWhole ==
  ASSUME MemoryInv, ~Abandons, task.at = "commit"
  PROVE  /\ reg
         /\ task.kind # "pre-version" => ~task.moved /\ NoRuns
         /\ task.staged # Torn
<1>1. task.kind # "pre-version" => ~task.moved /\ Quiet
  BY DEF Abandons, TokenMoved
<1> QED
  BY <1>1, QuietIsNoRuns, MemoryAssumption DEF Abandons, MemoryInv, StagedFits

LEMMA CommitBeginsInv ==
  ASSUME MemoryAssumption, MemoryInv, CommitBegins
  PROVE  MemoryInv'
<1> USE DEF MemoryInv
<1>1. UNCHANGED <<mem, old, snaps, made, up, reg, owed, written, expect>>
  BY DEF CommitBegins
<1>2. up /\ task.at = "commit" /\ task.kind \in MemoryKinds \ {"none"}
  BY DEF CommitBegins, At, TaskFits, MemoryTypes, MemoryTasks
<1>3. CASE Abandons
  <2>1. Ends /\ tmp' = Absent /\ twin' = twin
    BY <1>3 DEF CommitBegins
  <2> QED
    BY <1>1, <1>2, <2>1, EndsInv
<1>4. CASE ~Abandons
  <2>1. reg /\ (task.kind # "pre-version" => ~task.moved /\ NoRuns) /\ task.staged # Torn
    BY <1>2, <1>4, CommitIsWhole
  <2>2. CASE task.kind = "duplicate"
    <3>1. task' = NoTask /\ twin' = task.staged /\ tmp' = tmp /\ runs' = runs
      BY <1>4, <2>2 DEF CommitBegins
    <3>2. Ends
      BY <2>2, <3>1 DEF Ends
    <3>3. /\ task' \in MemoryTasks
          /\ task'.kind = "none" /\ task'.at = "none" /\ task'.staged = Absent
      BY <3>2, EndsFrees
    <3>4. twin' \in 0..MaxContent
      BY <2>1, <3>1 DEF MemoryTypes, MemoryTasks, MemoryContents, Torn, MemoryAssumption
    <3>5. MemoryTypes'
      BY <1>1, <3>1, <3>3, <3>4 DEF MemoryTypes, MemoryContents, Torn
    <3> QED
      BY <1>1, <1>2, <2>1, <3>1, <3>3, <3>5 DEF SnapshotsFit, TaskFits, StagedFits, RestoreFits,
         SwapFits, DeletedFits, RestoreHeld, RecoveredMemory, Absent, Empty, Torn, RunsFit, NoRuns,
         MemoryAssumption
  <2>3. CASE task.kind # "duplicate"
    <3>1. Go(FirstOf) /\ tmp' = tmp /\ twin' = twin /\ runs' = runs
      BY <1>4, <2>3 DEF CommitBegins
    <3>2. /\ task.kind = "pre-clear" => FirstOf = "clear"
          /\ task.kind \in {"manual", "pre-version"} => FirstOf = "place"
          /\ task.kind = "pre-restore" /\ task.staged = Absent => FirstOf = "aside"
          /\ task.kind = "pre-restore" /\ task.staged # Absent => FirstOf = "place"
      BY DEF FirstOf
    <3>3. FirstOf \in {"clear", "place", "aside"}
      BY <1>2, <2>3, <3>2 DEF MemoryKinds, Reasons
    <3>4. /\ task' \in MemoryTasks /\ task'.kind = task.kind /\ task'.at = FirstOf
          /\ task'.moved = task.moved /\ task'.sid = task.sid /\ task'.staged = task.staged
      BY <3>1, <3>3, GoMoves DEF MemoryPlaces, MemoryTypes
    <3>5. MemoryTypes'
      BY <1>1, <3>1, <3>4 DEF MemoryTypes, MemoryContents, Torn
    <3>6. TaskFits' /\ StagedFits'
      BY <1>2, <2>1, <2>3, <3>2, <3>3, <3>4 DEF TaskFits, StagedFits, MemoryKinds, Reasons, Torn
    <3>7. SnapshotsFit' /\ RestoreFits' /\ SwapFits' /\ DeletedFits'
      BY <1>1, <1>2, <2>1, <3>1, <3>3, <3>4 DEF SnapshotsFit, RestoreFits, SwapFits, DeletedFits,
         RecoveredMemory, Listed
    <3>8. RunsFit'
      BY <1>1, <1>2, <2>1, <3>1, <3>3, <3>4 DEF RunsFit, RestoreHeld, NoRuns
    <3> QED
      BY <3>5, <3>6, <3>7, <3>8 DEF MemoryInv
  <2> QED
    BY <2>2, <2>3
<1> QED
  BY <1>3, <1>4

LEMMA ClearMemoryInv ==
  ASSUME MemoryAssumption, MemoryInv, ClearMemory
  PROVE  MemoryInv'
<1> USE DEF MemoryInv
<1>1. /\ UNCHANGED <<snaps, made, twin, up, reg, owed, written, runs>>
      /\ mem' = Empty /\ tmp' = Absent /\ old' = Absent /\ expect' = {Empty}
  BY DEF ClearMemory
<1>2. up /\ task.at = "clear" /\ task.kind = "pre-clear" /\ RestoreHeld
  BY DEF ClearMemory, At, TaskFits, RestoreHeld
<1>3. reg /\ NoRuns /\ ~task.moved
  BY <1>2 DEF RunsFit
<1>4. mem' \in 0..MaxContent /\ old' \in 0..MaxContent /\ tmp' \in MemoryContents
  BY <1>1 DEF MemoryContents, Torn, Absent, Empty, MemoryAssumption
<1>5. CASE task.staged = Absent
  <2>1. Ends
    BY <1>1, <1>2, <1>5 DEF ClearMemory, Ends
  <2>2. /\ task' \in MemoryTasks
        /\ task'.kind = "none" /\ task'.at = "none" /\ task'.staged = Absent
    BY <2>1, EndsFrees
  <2>3. MemoryTypes'
    BY <1>1, <1>4, <2>2 DEF MemoryTypes
  <2> QED
    BY <1>1, <1>2, <1>3, <2>2, <2>3 DEF SnapshotsFit, TaskFits, StagedFits, RestoreFits,
       SwapFits, DeletedFits, RestoreHeld, RecoveredMemory, Absent, Empty, Torn, RunsFit, NoRuns,
       MemoryAssumption
<1>6. CASE task.staged # Absent
  <2>1. /\ task' \in MemoryTasks /\ task'.kind = task.kind /\ task'.at = "place"
        /\ task'.moved = task.moved /\ task'.sid = task.sid /\ task'.staged = task.staged
    BY <1>6, GoMoves DEF ClearMemory, MemoryPlaces, MemoryTypes
  <2>2. MemoryTypes'
    BY <1>1, <1>4, <2>1 DEF MemoryTypes
  <2> QED
    BY <1>1, <1>2, <1>3, <1>6, <2>1, <2>2 DEF SnapshotsFit, TaskFits, StagedFits, RestoreFits,
       SwapFits, DeletedFits, RestoreHeld, RecoveredMemory, Absent, Empty, Torn, RunsFit, NoRuns,
       MemoryAssumption
<1> QED
  BY <1>5, <1>6

LEMMA PlaceSnapshotInv ==
  ASSUME MemoryAssumption, MemoryInv, PlaceSnapshot
  PROVE  MemoryInv'
<1> USE DEF MemoryInv
<1> DEFINE new == [id |-> made + 1, reason |-> task.kind, named |-> FALSE,
                   content |-> task.staged, meta |-> FALSE]
<1>1. /\ UNCHANGED <<mem, tmp, old, twin, up, reg, owed, written, expect, runs>>
      /\ made' = made + 1 /\ snaps' = Listed \cup {new}
  BY DEF PlaceSnapshot
<1>2. /\ up /\ task.at = "place" /\ RestoreHeld
      /\ task.kind \in MemoryKinds /\ task.kind \notin {"none", "duplicate"}
  BY DEF PlaceSnapshot, At, TaskFits, RestoreHeld, MemoryTypes, MemoryTasks
<1>3. reg
  BY <1>2 DEF RunsFit
<1>4. task.staged \in WholeContents
  BY <1>2 DEF StagedFits, MemoryTypes, MemoryTasks, MemoryContents, Torn, Absent, Empty,
              WholeContents, MemoryAssumption
<1>5. made' \in Nat
  BY <1>1 DEF MemoryTypes
<1>6. new \in SnapshotRecs
  <2>1. made + 1 \in Nat /\ task.kind \in Reasons /\ FALSE \in BOOLEAN
    BY <1>2 DEF MemoryKinds, MemoryTypes
  <2> QED
    BY <1>4, <2>1 DEF SnapshotRecs
<1>7. SnapshotsFit'
  BY <1>1, <1>6, Zenon DEF SnapshotsFit, Listed
<1>8. /\ task' \in MemoryTasks /\ task'.kind = task.kind /\ task'.at = "meta"
      /\ task'.moved = task.moved /\ task'.sid = task.sid /\ task'.staged = task.staged
  BY GoMoves DEF PlaceSnapshot, MemoryPlaces, MemoryTypes
<1>9. MemoryTypes'
  BY <1>1, <1>5, <1>8 DEF MemoryTypes, MemoryContents, Torn
<1>10. RestoreFits'
  <2>1. \A s \in Listed : s \in snaps' /\ s.meta
    BY <1>1 DEF Listed
  <2> QED
    BY <1>1, <1>2, <1>8, <2>1 DEF RestoreFits, Listed
<1>11. TaskFits' /\ StagedFits' /\ SwapFits' /\ DeletedFits'
  BY <1>1, <1>2, <1>3, <1>8 DEF TaskFits, StagedFits, SwapFits, DeletedFits, RestoreHeld,
     RecoveredMemory, Torn
<1>12. RunsFit'
  BY <1>1, <1>2, <1>8 DEF RunsFit, RestoreHeld, NoRuns
<1> QED
  BY <1>7, <1>9, <1>10, <1>11, <1>12 DEF MemoryInv

LEMMA WriteMetaInv ==
  ASSUME MemoryAssumption, MemoryInv, WriteMeta
  PROVE  MemoryInv'
<1> USE DEF MemoryInv
<1>1. UNCHANGED <<mem, tmp, old, made, twin, up, reg, owed, written, expect, runs>>
  BY Zenon DEF WriteMeta
<1>2. /\ up /\ task.at = "meta" /\ RestoreHeld
      /\ task.kind \in MemoryKinds /\ task.kind \notin {"none", "duplicate"}
  BY Zenon DEF WriteMeta, At, TaskFits, RestoreHeld, MemoryTypes, MemoryTasks
<1>3. reg
  BY <1>2 DEF RunsFit
<1>4. PICK named \in BOOLEAN :
        snaps' = {IF s.id = made THEN [s EXCEPT !.meta = TRUE, !.named = named] ELSE s : s \in snaps}
  BY Zenon DEF WriteMeta
<1>5. \A s \in snaps : LET t == IF s.id = made THEN [s EXCEPT !.meta = TRUE, !.named = named] ELSE s
                       IN t \in SnapshotRecs /\ t.id = s.id /\ (s.meta => t.meta)
  BY Zenon DEF SnapshotsFit, SnapshotRecs
<1>6. SnapshotsFit'
  BY <1>4, <1>5, Zenon DEF SnapshotsFit
<1>7. \A s \in Listed : \E t \in Listed' : t.id = s.id
  BY <1>4, <1>5, Zenon DEF Listed
<1>8. /\ task' \in MemoryTasks /\ task'.kind = task.kind /\ task'.at = "prune"
      /\ task'.moved = task.moved /\ task'.sid = task.sid /\ task'.staged = task.staged
  BY GoMoves, Zenon DEF WriteMeta, MemoryPlaces, MemoryTypes
<1>9. MemoryTypes'
  BY <1>1, <1>8 DEF MemoryTypes, MemoryContents, Torn
<1>10. RestoreFits'
  BY <1>1, <1>2, <1>7, <1>8 DEF RestoreFits
<1>11. TaskFits' /\ StagedFits' /\ SwapFits' /\ DeletedFits'
  BY <1>1, <1>2, <1>3, <1>8 DEF TaskFits, StagedFits, SwapFits, DeletedFits, RestoreHeld,
     RecoveredMemory, Torn
<1>12. RunsFit'
  BY <1>1, <1>2, <1>8 DEF RunsFit, RestoreHeld, NoRuns
<1> QED
  BY <1>6, <1>9, <1>10, <1>11, <1>12 DEF MemoryInv

LEMMA PruneInv ==
  ASSUME MemoryAssumption, MemoryInv, Prune
  PROVE  MemoryInv'
<1> USE DEF MemoryInv
<1>1. /\ UNCHANGED <<mem, tmp, old, made, twin, up, reg, owed, written, expect>>
      /\ snaps' = {s \in snaps : Spared(s)}
  BY DEF Prune
<1>2. up /\ task.at = "prune" /\ RestoreHeld
  BY DEF Prune, At, RestoreHeld
<1>3. reg
  BY <1>2 DEF RunsFit
<1>4. CASE task.kind = "pre-restore"
  <2>1. runs' = runs
    BY <1>4 DEF Prune
  <2>2. /\ task' \in MemoryTasks /\ task'.kind = task.kind /\ task'.at = "aside"
        /\ task'.moved = task.moved /\ task'.sid = task.sid /\ task'.staged = task.staged
    BY <1>4, GoMoves DEF Prune, MemoryPlaces, MemoryTypes
  <2>3. MemoryTypes'
    BY <1>1, <2>1, <2>2 DEF MemoryTypes, MemoryContents, Torn
  <2>4. PICK s \in Listed : s.id = task.sid
    BY <1>3, <1>4 DEF RestoreFits
  <2>5. s \in Listed'
    BY <1>1, <1>4, <2>4 DEF Listed, Spared, Exempt
  <2>6. RestoreFits'
    BY <1>1, <1>2, <2>2, <2>4, <2>5 DEF RestoreFits
  <2>7. SnapshotsFit' /\ TaskFits' /\ StagedFits' /\ SwapFits' /\ DeletedFits'
    BY <1>1, <1>2, <1>3, <1>4, <2>2 DEF SnapshotsFit, TaskFits, StagedFits, SwapFits, DeletedFits,
       RestoreHeld, RecoveredMemory, Torn
  <2>8. RunsFit'
    BY <1>1, <1>2, <2>1, <2>2 DEF RunsFit, RestoreHeld, NoRuns
  <2> QED
    BY <2>3, <2>6, <2>7, <2>8 DEF MemoryInv
<1>5. CASE task.kind # "pre-restore"
  <2>1. Ends
    BY <1>5 DEF Prune
  <2> QED
    BY <1>1, <1>2, <2>1, EndsInv
<1> QED
  BY <1>4, <1>5

LEMMA MoveAsideInv ==
  ASSUME MemoryAssumption, MemoryInv, MoveAside
  PROVE  MemoryInv'
<1> USE DEF MemoryInv
<1>1. /\ UNCHANGED <<tmp, snaps, made, twin, up, reg, owed, written, runs>>
      /\ old' = IF mem = Absent THEN old ELSE mem
      /\ mem' = Absent /\ expect' = expect \cup {tmp}
  BY DEF MoveAside
<1>2. up /\ task.at = "aside" /\ RestoreHeld /\ task.kind = "pre-restore"
  BY DEF MoveAside, At, RestoreHeld, TaskFits
<1>3. reg /\ old = Absent
  BY <1>2 DEF RunsFit, SwapFits
<1>4. /\ task' \in MemoryTasks /\ task'.kind = task.kind /\ task'.at = "swap"
      /\ task'.moved = task.moved /\ task'.sid = task.sid /\ task'.staged = task.staged
  BY GoMoves DEF MoveAside, MemoryPlaces, MemoryTypes
<1>5. mem' \in 0..MaxContent /\ old' \in 0..MaxContent
  BY <1>1 DEF MemoryTypes, Absent, MemoryAssumption
<1>6. MemoryTypes'
  BY <1>1, <1>4, <1>5 DEF MemoryTypes, MemoryContents, Torn
<1>7. RecoveredMemory' = mem /\ RecoveredMemory = mem
  BY <1>1, <1>3 DEF RecoveredMemory
<1>8. SwapFits'
  BY <1>1, <1>3, <1>4, <1>7 DEF SwapFits
<1>9. SnapshotsFit' /\ TaskFits' /\ StagedFits' /\ DeletedFits' /\ RestoreFits'
  BY <1>1, <1>2, <1>3, <1>4 DEF SnapshotsFit, TaskFits, StagedFits, DeletedFits, RestoreFits,
     RestoreHeld, Torn, Listed
<1>10. RunsFit'
  BY <1>1, <1>2, <1>4 DEF RunsFit, RestoreHeld, NoRuns
<1> QED
  BY <1>6, <1>8, <1>9, <1>10 DEF MemoryInv

LEMMA MoveInInv ==
  ASSUME MemoryAssumption, MemoryInv, MoveIn
  PROVE  MemoryInv'
<1> USE DEF MemoryInv
<1>1. /\ UNCHANGED <<old, snaps, made, twin, up, reg, owed, written, runs>>
      /\ mem' = tmp /\ tmp' = Absent /\ expect' = {tmp}
  BY DEF MoveIn
<1>2. up /\ task.at = "swap" /\ RestoreHeld /\ task.kind = "pre-restore"
  BY DEF MoveIn, At, RestoreHeld, TaskFits
<1>3. reg /\ tmp \in WholeContents
  BY <1>2 DEF RunsFit, RestoreFits
<1>4. /\ task' \in MemoryTasks /\ task'.kind = task.kind /\ task'.at = "sweep"
      /\ task'.moved = task.moved /\ task'.sid = task.sid /\ task'.staged = task.staged
  BY GoMoves DEF MoveIn, MemoryPlaces, MemoryTypes
<1>5. mem' \in 0..MaxContent /\ tmp' \in MemoryContents /\ mem' # Absent
  BY <1>1, <1>3 DEF Absent, WholeContents, MemoryContents, Torn, MemoryAssumption
<1>6. MemoryTypes'
  BY <1>1, <1>4, <1>5 DEF MemoryTypes
<1>7. SwapFits'
  BY <1>1, <1>4, <1>5 DEF SwapFits, RecoveredMemory
<1>8. SnapshotsFit' /\ TaskFits' /\ StagedFits' /\ DeletedFits' /\ RestoreFits'
  BY <1>1, <1>2, <1>3, <1>4 DEF SnapshotsFit, TaskFits, StagedFits, DeletedFits, RestoreFits,
     RestoreHeld, Torn, Listed
<1>9. RunsFit'
  BY <1>1, <1>2, <1>4 DEF RunsFit, RestoreHeld, NoRuns
<1> QED
  BY <1>6, <1>7, <1>8, <1>9 DEF MemoryInv

LEMMA SweepMovedInv ==
  ASSUME MemoryAssumption, MemoryInv, SweepMoved
  PROVE  MemoryInv'
<1> USE DEF MemoryInv
<1>1. /\ UNCHANGED <<mem, tmp, snaps, made, twin, up, reg, owed, written, expect, runs>>
      /\ old' = Absent /\ task' = NoTask
  BY DEF SweepMoved
<1>2. up /\ task.at = "sweep" /\ RestoreHeld /\ task.kind = "pre-restore"
  BY DEF SweepMoved, At, RestoreHeld, TaskFits
<1>3. /\ task' \in MemoryTasks
      /\ task'.kind = "none" /\ task'.at = "none" /\ task'.staged = Absent
  BY <1>1, <1>2, EndsFrees DEF Ends
<1>4. old' \in 0..MaxContent
  BY <1>1 DEF Absent, MemoryAssumption
<1>5. MemoryTypes'
  BY <1>1, <1>3, <1>4 DEF MemoryTypes, MemoryContents, Torn
<1> QED
  BY <1>1, <1>2, <1>3, <1>5 DEF SnapshotsFit, TaskFits, StagedFits, RestoreFits,
     SwapFits, DeletedFits, RestoreHeld, RecoveredMemory, Absent, Empty, Torn, RunsFit, NoRuns,
     MemoryAssumption

LEMMA DeleteInv ==
  ASSUME MemoryAssumption, MemoryInv, DeleteAutomation
  PROVE  MemoryInv'
<1> USE DEF MemoryInv
<1>1. /\ UNCHANGED <<made, twin, up, runs, owed, written, task, expect>>
      /\ up /\ reg' = FALSE /\ snaps' = {}
      /\ mem' = Absent /\ tmp' = Absent /\ old' = Absent
  BY DEF DeleteAutomation
<1>2. NoRuns /\ ~RestoreHeld
  BY QuietIsNoRuns DEF DeleteAutomation
<1>3. mem' \in 0..MaxContent /\ old' \in 0..MaxContent /\ tmp' \in MemoryContents
  BY <1>1 DEF MemoryContents, Torn, Absent, MemoryAssumption
<1>4. reg' \in BOOLEAN
  BY <1>1, Zenon
<1>5. MemoryTypes'
  BY <1>1, <1>3, <1>4 DEF MemoryTypes, MemoryContents, Torn
<1> QED
  BY <1>1, <1>2, <1>5 DEF SnapshotsFit, TaskFits, StagedFits, RestoreFits,
     SwapFits, DeletedFits, RestoreHeld, RecoveredMemory, Torn, RunsFit, NoRuns

LEMMA DieInv ==
  ASSUME MemoryAssumption, MemoryInv, Die
  PROVE  MemoryInv'
<1> USE DEF MemoryInv
<1>1. /\ UNCHANGED <<mem, tmp, old, snaps, made, twin, reg, written, expect>>
      /\ up' = FALSE /\ task' = NoTask /\ runs' = [r \in DOMAIN runs |-> "none"]
  BY DEF Die, memoryDisk
<1>2. Absent \in MemoryContents
  BY DEF MemoryContents, Torn, Absent, MemoryAssumption
<1>3. /\ task' \in MemoryTasks
      /\ task'.kind = "none" /\ task'.at = "none" /\ task'.staged = Absent
  BY <1>1, <1>2 DEF MemoryTasks, MemoryPlaces, MemoryKinds, NoTask
<1>4. runs' \in [1..MaxParallel -> {"none", "pre", "work"}] /\ NoRuns'
  BY <1>1 DEF MemoryTypes, NoRuns
<1>5. owed' \in BOOLEAN /\ up' \in BOOLEAN
  BY Zenon DEF Die, MemoryTypes
<1>6. MemoryTypes'
  BY <1>1, <1>3, <1>4, <1>5 DEF MemoryTypes, MemoryContents, Torn
<1> QED
  BY <1>1, <1>3, <1>4, <1>6 DEF SnapshotsFit, TaskFits, StagedFits, RestoreFits,
     SwapFits, DeletedFits, RestoreHeld, RecoveredMemory, Absent, Empty, Torn, RunsFit,
     MemoryAssumption

LEMMA MemoryLoadsInv ==
  ASSUME MemoryAssumption, MemoryInv, MemoryLoads
  PROVE  MemoryInv'
<1> USE DEF MemoryInv
<1>1. /\ UNCHANGED <<snaps, made, twin, reg, runs, owed, written, task>>
      /\ ~up /\ up' = TRUE
      /\ mem' = RecoveredMemory /\ tmp' = Absent /\ old' = Absent
      /\ expect' = IF RecoveredMemory \in expect THEN {RecoveredMemory} ELSE expect
  BY DEF MemoryLoads
<1>2. task.kind = "none" /\ task.at = "none"
  BY <1>1 DEF RunsFit, TaskFits
<1>3. mem' \in 0..MaxContent /\ old' \in 0..MaxContent /\ tmp' \in MemoryContents
  BY <1>1 DEF MemoryTypes, MemoryContents, Torn, Absent, MemoryAssumption, RecoveredMemory
<1>4. up' \in BOOLEAN
  BY <1>1
<1>5. MemoryTypes'
  BY <1>1, <1>3, <1>4 DEF MemoryTypes
<1>6. RecoveredMemory' = RecoveredMemory
  BY <1>1 DEF RecoveredMemory
<1>7. SwapFits'
  BY <1>1, <1>2, <1>6 DEF SwapFits
<1>8. DeletedFits'
  BY <1>1 DEF DeletedFits, RecoveredMemory
<1> QED
  BY <1>1, <1>2, <1>5, <1>7, <1>8 DEF SnapshotsFit, TaskFits, StagedFits, RestoreFits,
     RestoreHeld, RunsFit, NoRuns

LEMMA MemoryStep ==
  ASSUME MemoryAssumption, CopiesAlone, MemoryInv, SnapNext
  PROVE  MemoryInv'
<1>1. CASE Executions
  <2>1. PICK r \in DOMAIN runs :
          RunStarts(r) \/ RunWrites(r) \/ RunEnds(r) \/ RunStopsEarly(r) \/ BeginVersion(r)
    BY <1>1 DEF Executions
  <2> QED
    BY <2>1, RunStartsInv, RunWritesInv, RunEndsInv, BeginVersionInv
<1>2. CASE Operations
  <2>1. CASE \E kind \in Reasons \cup {"duplicate"} : BeginTask(kind)
    BY <2>1, BeginTaskInv
  <2>2. CASE \E s \in snaps : BeginRestore(s) \/ NameSnapshot(s) \/ DropSnapshot(s)
    BY <2>2, BeginRestoreInv, NameOrDropInv
  <2>3. CASE StageBegins \/ StageEnds \/ ImageBegins \/ ImageEnds
    BY <2>3, StageBeginsInv, StageEndsInv, ImageBeginsInv, ImageEndsInv
  <2> QED
    BY <1>2, <2>1, <2>2, <2>3 DEF Operations
<1>3. CASE CommitTask
  BY <1>3, CommitBeginsInv, ClearMemoryInv, PlaceSnapshotInv, WriteMetaInv, PruneInv,
     MoveAsideInv, MoveInInv, SweepMovedInv DEF CommitTask
<1>4. CASE NewVersion \/ DeleteAutomation \/ Die \/ MemoryLoads
  BY <1>4, NewVersionInv, DeleteInv, DieInv, MemoryLoadsInv
<1> QED
  BY <1>1, <1>2, <1>3, <1>4 DEF SnapNext

LEMMA MemoryStarts ==
  ASSUME MemoryAssumption, SnapInit
  PROVE  MemoryInv
<1> USE DEF SnapInit
<1>1. Absent \in MemoryContents /\ Absent \in 0..MaxContent
  BY DEF MemoryContents, Torn, Absent, MemoryAssumption
<1>2. NoTask \in MemoryTasks
  BY <1>1 DEF MemoryTasks, MemoryPlaces, MemoryKinds, NoTask
<1>3. up \in BOOLEAN /\ reg \in BOOLEAN /\ owed \in BOOLEAN
  OBVIOUS
<1>4. written \in 1..MaxContent /\ runs \in [1..MaxParallel -> {"none", "pre", "work"}]
  BY DEF Empty, MemoryAssumption
<1>5. MemoryTypes
  BY <1>1, <1>2, <1>3, <1>4 DEF MemoryTypes
<1> QED
  BY <1>5 DEF MemoryInv, SnapshotsFit, TaskFits, StagedFits, RestoreFits, SwapFits, DeletedFits,
     RestoreHeld, RecoveredMemory, Absent, Empty, Torn, RunsFit, NoRuns, NoTask, MemoryAssumption

LEMMA MemoryStays ==
  ASSUME MemoryInv, UNCHANGED snapVars
  PROVE  MemoryInv'
  BY DEF snapVars, memoryDisk, MemoryInv, MemoryTypes, SnapshotsFit, TaskFits, StagedFits,
     RestoreFits, SwapFits, DeletedFits, RestoreHeld, RecoveredMemory, RunsFit, NoRuns, Listed

MemoryPart == part = "memory" => MemoryInv

LEMMA MemoryInvariance == CopiesAlone /\ Spec => []MemoryPart
<1> SUFFICES ASSUME CopiesAlone PROVE Spec => []MemoryPart
  OBVIOUS
<1>1. Init => MemoryPart
  BY MemoryStarts, MemoryAssumption DEF Init, MemoryPart
<1>2. MemoryPart /\ [Next]_allVars => MemoryPart'
  <2> SUFFICES ASSUME MemoryPart, [Next]_allVars, part' = "memory"
               PROVE  MemoryInv'
    BY DEF MemoryPart
  <2>1. part' = part
    BY DEF Next, Still, allVars
  <2>2. MemoryInv
    BY <2>1 DEF MemoryPart
  <2>3. SnapNext \/ UNCHANGED snapVars
    BY <2>1 DEF Next, allVars
  <2> QED
    BY <2>2, <2>3, MemoryStep, MemoryStays, MemoryAssumption
<1> QED
  BY <1>1, <1>2, PTL DEF Spec

-----------------------------------------------------------------------------
(***************************************************************************)
(* The theorems.                                                           *)
(***************************************************************************)

\* Whatever executions start, write and end beside them, no copy of a memory is
\* kept that was written under; a restore or a death in it leaves the memory its
\* user was told of; a restore can be repeated; and a deleted automation's
\* directory is not made again (storage.py:3662-3855, api.py:2009-2100).
THEOREM MemoryAlwaysKept == CopiesAlone /\ Spec => []MemoryIsKept
<1>1. MemoryPart => MemoryIsKept
  <2> SUFFICES ASSUME MemoryInv
               PROVE  CopiesAreWhole /\ MemorySurvives /\ RestoreIsRepeatable /\ DeletedStaysEmpty
    BY DEF MemoryPart, MemoryIsKept
  <2> USE DEF MemoryInv
  <2>1. CopiesAreWhole
    BY MemoryAssumption DEF CopiesAreWhole, MemoryTypes, SnapshotsFit, SnapshotRecs, WholeContents, Torn,
                            MemoryAssumption
  <2>2. MemorySurvives
    BY DEF MemorySurvives, SwapFits, RecoveredMemory, RestoreHeld
  <2>3. RestoreIsRepeatable
    BY DEF RestoreIsRepeatable, RestoreFits
  <2>4. DeletedStaysEmpty
    BY DEF DeletedStaysEmpty, DeletedFits
  <2> QED
    BY <2>1, <2>2, <2>3, <2>4
<1> QED
  BY <1>1, MemoryInvariance, PTL

\* A snapshot is a record of its five fields.
IsSnapshot(s) ==
    DOMAIN s = {"id", "reason", "named", "content", "meta"} /\ s = [f \in DOMAIN s |-> s[f]]
SnapshotsAreRecords == part = "memory" => \A s \in snaps : IsSnapshot(s)

\* What WriteMeta makes of one.
LEMMA MetaKeepsRecord ==
  ASSUME NEW s, IsSnapshot(s), NEW n
  PROVE  /\ IsSnapshot([s EXCEPT !.meta = TRUE, !.named = n])
         /\ [s EXCEPT !.meta = TRUE, !.named = n].id = s.id
  BY Zenon DEF IsSnapshot

LEMMA RecordsInvariance == Spec => []SnapshotsAreRecords
<1>1. Init => SnapshotsAreRecords
  BY DEF Init, SnapInit, SnapshotsAreRecords
<1>2. ASSUME SnapNext, \A s \in snaps : IsSnapshot(s)
      PROVE  \A s \in snaps' : IsSnapshot(s)
  <2>1. CASE snaps' \subseteq snaps
    BY <1>2, <2>1
  <2>2. CASE \E s \in snaps : NameSnapshot(s)
    <3>1. PICK s \in snaps : NameSnapshot(s)
      BY <2>2
    <3>2. IsSnapshot([s EXCEPT !.named = ~s.named])
      BY <1>2 DEF IsSnapshot
    <3> QED
      BY <1>2, <3>1, <3>2 DEF NameSnapshot
  <2>3. CASE PlaceSnapshot
    <3> DEFINE new == [id |-> made', reason |-> task.kind, named |-> FALSE,
                       content |-> task.staged, meta |-> FALSE]
    <3>1. snaps' = Listed \cup {new}
      BY <2>3 DEF PlaceSnapshot
    <3>2. IsSnapshot(new)
      BY DEF IsSnapshot
    <3> QED
      BY <1>2, <3>1, <3>2, Zenon DEF Listed
  <2>4. CASE WriteMeta
    <3>1. PICK n \in BOOLEAN :
            snaps' = {IF s.id = made THEN [s EXCEPT !.meta = TRUE, !.named = n] ELSE s : s \in snaps}
      BY <2>4, Zenon DEF WriteMeta
    <3> QED
      BY <1>2, <3>1, MetaKeepsRecord, Zenon
  <2>5. CASE UNCHANGED snaps \/ Prune \/ DeleteAutomation \/ \E s \in snaps : DropSnapshot(s)
    BY <2>1, <2>5 DEF Prune, DeleteAutomation, DropSnapshot
  <2> QED
    BY <1>2, <2>2, <2>3, <2>4, <2>5, Zenon
       DEF SnapNext, Executions, Operations, CommitTask, RunStarts, RunWrites, RunEnds, RunStopsEarly,
           BeginVersion, BeginTask, BeginRestore, StageBegins, StageEnds, ImageBegins, ImageEnds,
           CommitBegins, ClearMemory, MoveAside, MoveIn, SweepMoved, NewVersion, Die, MemoryLoads,
           memoryDisk
<1>3. SnapshotsAreRecords /\ [Next]_allVars => SnapshotsAreRecords'
  BY <1>2 DEF Next, Still, allVars, snapVars, memoryDisk, SnapshotsAreRecords
<1> QED
  BY <1>1, <1>3, PTL DEF Spec

\* A named snapshot goes only with a request to delete it, or with its
\* automation: no prune takes it (storage.py:3727-3742).
THEOREM NamedAlwaysSpared == Spec => [][part = "memory" => NamedAreSpared]_allVars
<1>1. ASSUME SnapNext, \A s \in snaps : IsSnapshot(s)
      PROVE  NamedAreSpared
  <2> USE DEF NamedAreSpared
  <2>1. CASE UNCHANGED snaps
    BY <2>1 DEF Listed
  <2>2. CASE \E s \in snaps : NameSnapshot(s) \/ DropSnapshot(s)
    BY <2>2, Zenon DEF NameSnapshot, DropSnapshot
  <2>3. CASE PlaceSnapshot
    BY <2>3 DEF PlaceSnapshot
  <2>4. CASE WriteMeta
    <3>1. PICK n \in BOOLEAN :
            snaps' = {IF s.id = made THEN [s EXCEPT !.meta = TRUE, !.named = n] ELSE s : s \in snaps}
      BY <2>4, Zenon DEF WriteMeta
    <3>2. ASSUME NEW s \in snaps PROVE \E t \in snaps' : t.id = s.id
      <4> DEFINE t == IF s.id = made THEN [s EXCEPT !.meta = TRUE, !.named = n] ELSE s
      <4>1. t \in snaps'
        BY <3>1, Zenon
      <4>2. t.id = s.id
        BY <1>1, MetaKeepsRecord, Zenon
      <4> QED
        BY <4>1, <4>2, Zenon
    <3> QED
      BY <3>2 DEF Listed
  <2>5. CASE Prune
    BY <2>5 DEF Prune, Spared, Listed
  <2>6. CASE DeleteAutomation
    BY <2>6 DEF DeleteAutomation
  <2> QED
    BY <1>1, <2>1, <2>2, <2>3, <2>4, <2>5, <2>6, Zenon
       DEF SnapNext, Executions, Operations, CommitTask, RunStarts, RunWrites, RunEnds, RunStopsEarly,
           BeginVersion, BeginTask, BeginRestore, StageBegins, StageEnds, ImageBegins, ImageEnds,
           CommitBegins, ClearMemory, MoveAside, MoveIn, SweepMoved, NewVersion, Die, MemoryLoads,
           memoryDisk
<1>2. SnapshotsAreRecords /\ [Next]_allVars => [part = "memory" => NamedAreSpared]_allVars
  BY <1>1 DEF Next, SnapshotsAreRecords
<1> QED
  BY <1>2, RecordsInvariance, PTL DEF Spec

-----------------------------------------------------------------------------
(***************************************************************************)
(* The draft's swap: the inductive invariant.                              *)
(***************************************************************************)
SwapInv ==
    /\ owner \in {"automation", "pending"} /\ saved \in Nat
    /\ dd # Part /\ asideCopy # Part
    /\ swap \in {"none", "write", "manifest", "aside", "move", "reap", "empty"}
    /\ swap = "empty" => owner = "pending"
    /\ swap \in {"write", "manifest", "aside", "move", "reap"} => saved \in doubtful /\ saved # Gone
    /\ swap \in {"write", "manifest", "aside"} => asideCopy = Gone
    /\ swap \in {"aside", "move"} => staged = saved
    /\ swap = "move" => dd = Gone
    /\ swap = "reap" => dd = saved
    /\ RecoveredDraft \in {answered} \cup doubtful
    /\ asideCopy \in {Gone, answered} \cup doubtful
    /\ owner = "automation" => draft \in {answered} \cup doubtful

LEMMA SwapStep ==
  ASSUME SwapInv, SwapNext
  PROVE  SwapInv'
<1> USE DEF SwapInv, RecoveredDraft, Recover, Gone, Part
<1>1. CASE SaveDraft
  <2>1. saved' \in Nat /\ saved' \in doubtful' /\ saved' # Gone
    BY <1>1 DEF SaveDraft
  <2> QED
    BY <1>1, <2>1 DEF SaveDraft
<1>2. CASE WriteNew
  BY <1>2 DEF WriteNew
<1>3. CASE WholeNew
  BY <1>3 DEF WholeNew
<1>4. CASE SetOldAside
  BY <1>4 DEF SetOldAside
<1>5. CASE MoveNewIn
  BY <1>5 DEF MoveNewIn
<1>6. CASE ReapOld
  BY <1>6 DEF ReapOld
<1>7. CASE DeleteContainer
  BY <1>7 DEF DeleteContainer
<1>8. CASE DeleteStarts
  BY <1>8 DEF DeleteStarts
<1>9. CASE DeleteChild
  BY <1>9 DEF DeleteChild
<1>10. CASE DeleteEnds
  BY <1>10 DEF DeleteEnds
<1>11. CASE ReadPending
  BY <1>11 DEF ReadPending
<1>12. CASE SwapFails
  BY <1>12 DEF SwapFails
<1>13. CASE SwapCrash
  BY <1>13 DEF SwapCrash
<1> QED
  BY <1>1, <1>2, <1>3, <1>4, <1>5, <1>6, <1>7, <1>8, <1>9, <1>10, <1>11, <1>12, <1>13 DEF SwapNext

DraftPart == part = "draft" => SwapInv

LEMMA SwapInvariance == Spec => []DraftPart
<1>1. Init => DraftPart
  BY DEF Init, SwapInit, DraftPart, SwapInv, RecoveredDraft, Gone, Part
<1>2. DraftPart /\ [Next]_allVars => DraftPart'
  <2> SUFFICES ASSUME DraftPart, [Next]_allVars, part' = "draft"
               PROVE  SwapInv'
    BY DEF DraftPart
  <2>1. part' = part
    BY DEF Next, Still, allVars
  <2>2. SwapInv
    BY <2>1 DEF DraftPart
  <2>3. SwapNext \/ UNCHANGED swapVars
    BY <2>1 DEF Next, allVars
  <2>4. CASE UNCHANGED swapVars
    BY <2>2, <2>4 DEF SwapInv, swapVars, RecoveredDraft
  <2> QED
    BY <2>2, <2>3, <2>4, SwapStep
<1> QED
  BY <1>1, <1>2, PTL DEF Spec

-----------------------------------------------------------------------------
(***************************************************************************)
(* Versions: the inductive invariant.                                      *)
(***************************************************************************)
WriteSteps == {"none", "files", "manifest", "pointer"}
VersionWrites ==
    [n : Numbers \cup {NoVersion}, content : Contents \cup {NoVersion}, good : BOOLEAN,
     step : WriteSteps]

VersionTypes ==
    /\ folder \in [Numbers -> VersionFolders] /\ copied \in VersionFolders
    /\ pointer \in Numbers /\ current \in Numbers \cup {NoVersion}
    /\ versions \in [Numbers -> Loaded]
    /\ writing \in VersionWrites
    /\ saves \in Contents /\ promised \in [Numbers -> Contents \cup {NoVersion}]
    /\ hands \in Nat

\* What is loaded is what the pointer names and nothing above it.
LoadedFits ==
    /\ Up => current = pointer
    /\ \A n \in Numbers : Held(n) => Up /\ n =< pointer

\* A write is of the number after the pointer; from its manifest on, its files
\* are in its folder.
WriteFits ==
    /\ writing.step = "none" <=> writing = NoWrite
    /\ writing # NoWrite =>
          /\ Up /\ writing.n \in Numbers /\ writing.n = pointer + 1
          /\ writing.content \in Contents /\ writing.good
    /\ writing.step \in {"manifest", "pointer"} =>
          /\ folder[writing.n].content = writing.content
          /\ folder[writing.n].whole <=> writing.step = "pointer"

\* The numbers up to the pointer are those that were answered, each with its
\* content in its folder, and in memory where it is loaded.
PromisesFit ==
    /\ \A n \in Numbers : promised[n] # NoVersion <=> n =< pointer
    /\ \A n \in Numbers : n =< pointer => folder[n].content = promised[n]
    /\ \A n \in Numbers : Held(n) => versions[n].content = promised[n]

WholeFits == hands = 0 => folder[pointer].whole

GoodFits ==
    /\ \A n \in Numbers : folder[n] = NoFolder \/ (folder[n].good /\ folder[n].content # NoVersion)
    /\ copied = NoFolder \/ copied.good

VersionsInv ==
    VersionTypes /\ LoadedFits /\ WriteFits /\ PromisesFit /\ WholeFits /\ GoodFits

-----------------------------------------------------------------------------
(***************************************************************************)
(* The steps of a version's write.                                         *)
(***************************************************************************)
LEMMA NoFolderTyped == NoFolder \in VersionFolders /\ NotLoaded \in Loaded /\ NoWrite \in VersionWrites
  BY DEF NoFolder, VersionFolders, NotLoaded, Loaded, NoWrite, VersionWrites, Texts, WriteSteps

\* Setting aside takes nothing that was answered, ...
LEMMA SetAsideKeeps ==
  ASSUME VersionsInv, Up, SetAside
  PROVE  /\ folder' \in [Numbers -> VersionFolders]
         /\ \A n \in Numbers : n =< pointer => folder'[n] = folder[n]
         /\ \A n \in Numbers : folder'[n] = NoFolder \/ folder'[n] = folder[n]
<1> USE DEF VersionsInv, SetAside
<1>1. \A n \in Numbers : n \in Orphans => n > pointer
  BY DEF Orphans, LoadedFits, VersionTypes, Numbers
<1>2. folder' = [n \in Numbers |-> IF n \in Orphans THEN NoFolder ELSE folder[n]]
  OBVIOUS
<1>3. folder' \in [Numbers -> VersionFolders]
  BY <1>2, NoFolderTyped DEF VersionTypes
<1>4. \A n \in Numbers : n =< pointer => n \notin Orphans
  BY <1>1 DEF VersionTypes, Numbers
<1> QED
  BY <1>2, <1>3, <1>4

\* ... and the next number is the one after the pointer.
LEMMA NextIsNext ==
  ASSUME VersionsInv, Up, NEW n \in Numbers, NextNumber(n)
  PROVE  n = pointer + 1
<1> USE DEF VersionsInv
<1>1. \A m \in Numbers : m > pointer => Free(m)
  BY DEF Free, Orphans, LoadedFits, VersionTypes, Numbers
<1>2. n > pointer
  BY DEF NextNumber, Free, LoadedFits
<1>3. pointer + 1 \in Numbers /\ pointer + 1 > pointer
  BY <1>2, VersionsAssumption DEF VersionTypes, Numbers, VersionsAssumption
<1>4. n =< pointer + 1
  BY <1>1, <1>3 DEF NextNumber
<1> QED
  BY <1>2, <1>4 DEF VersionTypes, Numbers

LEMMA SaveBeginsInv ==
  ASSUME VersionsInv, SaveBegins
  PROVE  VersionsInv'
<1> USE DEF VersionsInv
<1>1. /\ Up /\ SetAside /\ saves < MaxVersions /\ saves' = saves + 1 /\ writing = NoWrite
      /\ UNCHANGED <<pointer, copied, versions, current, promised, hands>>
  BY DEF SaveBegins, NotWriting
<1>2. PICK n \in Numbers : NextNumber(n) /\
        writing' = [n |-> n, content |-> saves + 1, good |-> TRUE, step |-> "files"]
  BY Zenon DEF SaveBegins
<1>3. n = pointer + 1
  BY <1>1, <1>2, NextIsNext
<1>4. /\ folder' \in [Numbers -> VersionFolders]
      /\ \A m \in Numbers : m =< pointer => folder'[m] = folder[m]
      /\ \A m \in Numbers : folder'[m] = NoFolder \/ folder'[m] = folder[m]
  BY <1>1, SetAsideKeeps
<1>5. saves + 1 \in Contents
  BY <1>1, VersionsAssumption DEF VersionTypes, Contents, VersionsAssumption
<1>6. /\ writing' \in VersionWrites /\ writing' # NoWrite
      /\ writing'.n = n /\ writing'.content = saves + 1 /\ writing'.step = "files"
  BY <1>2, <1>5 DEF VersionWrites, WriteSteps, NoWrite
<1>7. writing'.good
  BY <1>2
<1>8. VersionTypes'
  BY <1>1, <1>4, <1>5, <1>6 DEF VersionTypes
<1>9. WriteFits'
  BY <1>1, <1>3, <1>5, <1>6, <1>7 DEF WriteFits, Up
<1>10. LoadedFits' /\ PromisesFit' /\ WholeFits'
  BY <1>1, <1>4 DEF LoadedFits, PromisesFit, WholeFits, Up, Held, VersionTypes, Numbers
<1>11. GoodFits'
  BY <1>1, <1>4 DEF GoodFits
<1> QED
  BY <1>8, <1>9, <1>10, <1>11 DEF VersionsInv

\* Reading a version's scripts again changes what is said of its text only.
LEMMA RereadKeeps ==
  ASSUME VersionsInv, NEW v \in Numbers
  PROVE  /\ Reread(v) \in [Numbers -> Loaded]
         /\ \A n \in Numbers : Reread(v)[n].content = versions[n].content
         /\ Reread(v)[v].text = IF folder[v].text = "gone" THEN versions[v].text ELSE folder[v].text
<1> USE DEF VersionsInv
<1>1. folder[v].text \in Texts /\ versions[v] \in Loaded
  BY DEF VersionTypes, VersionFolders
<1> DEFINE t == IF folder[v].text = "gone" THEN versions[v].text ELSE folder[v].text
<1>2. t \in {"written", "edited"}
  BY <1>1 DEF Loaded, Texts
<1>3. Reread(v) = [versions EXCEPT ![v] = [@ EXCEPT !.text = t]]
  BY DEF Reread
<1>4. /\ [versions[v] EXCEPT !.text = t] \in Loaded
      /\ [versions[v] EXCEPT !.text = t].content = versions[v].content
      /\ [versions[v] EXCEPT !.text = t].text = t
  BY <1>1, <1>2 DEF Loaded
<1> HIDE DEF t
<1> QED
  BY <1>3, <1>4 DEF VersionTypes, t

\* ... so a refusal, and a duplicate's reading, leave the invariant.
LEMMA RereadInv ==
  ASSUME VersionsInv, Up, NEW v \in Numbers, versions' = Reread(v),
         UNCHANGED <<folder, pointer, current, writing, saves, promised, hands>>,
         copied' \in VersionFolders, copied' = NoFolder \/ copied'.good
  PROVE  VersionsInv'
<1> USE DEF VersionsInv
<1>1. /\ versions' \in [Numbers -> Loaded]
      /\ \A n \in Numbers : versions'[n].content = versions[n].content
  BY RereadKeeps
<1>2. VersionTypes'
  BY <1>1 DEF VersionTypes
<1> QED
  BY <1>1, <1>2 DEF LoadedFits, PromisesFit, WholeFits, GoodFits, WriteFits, Up, Held

LEMMA RestoreBeginsInv ==
  ASSUME VersionsInv, NEW v \in Numbers, RestoreBegins(v)
  PROVE  VersionsInv'
<1> USE DEF VersionsInv
<1>1. /\ Up /\ SetAside /\ writing = NoWrite /\ Held(v) /\ folder[v].text = "written"
      /\ versions' = Reread(v)
      /\ UNCHANGED <<pointer, copied, saves, current, promised, hands>>
  BY DEF RestoreBegins, NotWriting, RestoreAllowed
<1>2. PICK n \in Numbers : NextNumber(n) /\
        writing' = [n |-> n, content |-> versions[v].content,
                    good |-> Reread(v)[v].text = "written" /\ folder[v].good, step |-> "files"]
  BY DEF RestoreBegins
<1>3. n = pointer + 1
  BY <1>1, <1>2, NextIsNext
<1>4. /\ folder' \in [Numbers -> VersionFolders]
      /\ \A m \in Numbers : m =< pointer => folder'[m] = folder[m]
      /\ \A m \in Numbers : folder'[m] = NoFolder \/ folder'[m] = folder[m]
  BY <1>1, SetAsideKeeps
<1>5. /\ versions' \in [Numbers -> Loaded]
      /\ \A m \in Numbers : versions'[m].content = versions[m].content
      /\ Reread(v)[v].text = "written"
  BY <1>1, RereadKeeps
<1>6. versions[v].content \in Contents
  BY <1>1 DEF VersionTypes, Loaded, Held
<1>7. folder[v].good = TRUE
  <2>1. v =< pointer /\ folder[v].content # NoVersion
    BY <1>1 DEF LoadedFits, PromisesFit
  <2>2. folder[v] # NoFolder
    BY <2>1 DEF NoFolder
  <2>3. folder[v].good \in BOOLEAN
    BY DEF VersionTypes, VersionFolders
  <2> QED
    BY <2>2, <2>3 DEF GoodFits
<1>8. writing' = [n |-> n, content |-> versions[v].content, good |-> TRUE, step |-> "files"]
  BY <1>2, <1>5, <1>7, Zenon
<1>9. /\ writing' \in VersionWrites /\ writing' # NoWrite /\ writing'.good
      /\ writing'.n = n /\ writing'.content = versions[v].content /\ writing'.step = "files"
  BY <1>6, <1>8 DEF VersionWrites, WriteSteps, NoWrite
<1>10. VersionTypes'
  BY <1>1, <1>4, <1>5, <1>9 DEF VersionTypes
<1>11. WriteFits'
  BY <1>1, <1>3, <1>6, <1>9 DEF WriteFits, Up
<1>12. LoadedFits' /\ PromisesFit' /\ WholeFits'
  BY <1>1, <1>4, <1>5 DEF LoadedFits, PromisesFit, WholeFits, Up, Held, VersionTypes, Numbers
<1>13. GoodFits'
  BY <1>1, <1>4 DEF GoodFits
<1> QED
  BY <1>10, <1>11, <1>12, <1>13 DEF VersionsInv

LEMMA ReadersInv ==
  ASSUME VersionsInv,
         \/ \E v \in Numbers : RestoreRefused(v)
         \/ Duplicate \/ DuplicateRefused
  PROVE  VersionsInv'
<1> USE DEF VersionsInv
<1>1. CASE \E v \in Numbers : RestoreRefused(v)
  BY <1>1, RereadInv DEF RestoreRefused, VersionTypes, GoodFits
<1>2. ASSUME Up PROVE current \in Numbers /\ current = pointer
  BY <1>2 DEF LoadedFits, VersionTypes
<1>3. CASE DuplicateRefused
  BY <1>2, <1>3, RereadInv DEF DuplicateRefused, VersionTypes, GoodFits
<1>4. CASE Duplicate
  <2>1. Up /\ folder[current].text = "written"
    BY <1>4 DEF Duplicate, Duplicable, Modified
  <2>2. folder[current] \in VersionFolders /\ folder[current].good = TRUE
    <3>1. folder[current].content # NoVersion
      BY <1>2, <2>1 DEF PromisesFit, VersionTypes, Numbers
    <3>2. folder[current] # NoFolder
      BY <3>1 DEF NoFolder
    <3>3. folder[current] \in VersionFolders
      BY <1>2, <2>1 DEF VersionTypes
    <3> QED
      BY <1>2, <2>1, <3>2, <3>3 DEF GoodFits, VersionFolders
  <2>3. copied' = [folder[current] EXCEPT !.text = "written",
                                          !.good = @ /\ folder[current].text = "written"]
    BY <1>4 DEF Duplicate
  <2>4. (folder[current].good /\ folder[current].text = "written") = TRUE
    BY <2>1, <2>2
  <2>5. copied' = [folder[current] EXCEPT !.text = "written", !.good = TRUE]
    BY <2>3, <2>4, Zenon
  <2>6. copied' \in VersionFolders /\ copied'.good = TRUE
    BY <2>2, <2>5, Zenon DEF VersionFolders, Texts
  <2> QED
    BY <1>2, <1>4, <2>1, <2>6, RereadInv DEF Duplicate
<1> QED
  BY <1>1, <1>3, <1>4

LEMMA FilesLandInv ==
  ASSUME VersionsInv, FilesLand
  PROVE  VersionsInv'
<1> USE DEF VersionsInv
<1> DEFINE new == [content |-> writing.content, whole |-> FALSE, text |-> "written",
                   good |-> writing.good]
<1>1. /\ UNCHANGED <<pointer, copied, versions, current, saves, promised, hands>>
      /\ folder' = [folder EXCEPT ![writing.n] = new]
      /\ writing' = [writing EXCEPT !.step = "manifest"]
      /\ writing.step = "files"
  BY DEF FilesLand
<1>2. /\ writing # NoWrite /\ Up /\ writing.n \in Numbers /\ writing.n = pointer + 1
      /\ writing.content \in Contents /\ writing.good = TRUE
  BY <1>1 DEF WriteFits, NoWrite, VersionTypes, VersionWrites
<1>3. new \in VersionFolders /\ new.content = writing.content /\ new.good = TRUE /\ new.whole = FALSE
  BY <1>2, Zenon DEF VersionFolders, Texts
<1> HIDE DEF new
<1>4. /\ folder' \in [Numbers -> VersionFolders] /\ folder'[writing.n] = new
      /\ \A m \in Numbers : m # writing.n => folder'[m] = folder[m]
  BY <1>1, <1>2, <1>3 DEF VersionTypes
<1>5. /\ writing' \in VersionWrites /\ writing'.step = "manifest" /\ writing'.n = writing.n
      /\ writing'.content = writing.content /\ writing'.good = writing.good
  BY <1>1 DEF VersionTypes, VersionWrites, WriteSteps
<1>6. VersionTypes'
  BY <1>1, <1>4, <1>5 DEF VersionTypes
<1>7. WriteFits'
  BY <1>1, <1>2, <1>3, <1>4, <1>5 DEF WriteFits, Up, NoWrite
<1>8. pointer # writing.n /\ \A m \in Numbers : m =< pointer => m # writing.n
  BY <1>2 DEF VersionTypes, Numbers
<1>9. LoadedFits' /\ PromisesFit' /\ WholeFits'
  BY <1>1, <1>4, <1>8 DEF LoadedFits, PromisesFit, WholeFits, Up, Held, VersionTypes
<1>10. GoodFits'
  BY <1>1, <1>2, <1>3, <1>4 DEF GoodFits, Contents, NoVersion
<1> QED
  BY <1>6, <1>7, <1>9, <1>10 DEF VersionsInv

LEMMA ManifestLandsInv ==
  ASSUME VersionsInv, ManifestLands
  PROVE  VersionsInv'
<1> USE DEF VersionsInv
<1> DEFINE new == [folder[writing.n] EXCEPT !.whole = TRUE]
<1>1. /\ UNCHANGED <<pointer, copied, versions, current, saves, promised, hands>>
      /\ folder' = [folder EXCEPT ![writing.n] = new]
      /\ writing' = [writing EXCEPT !.step = "pointer"]
      /\ writing.step = "manifest"
  BY DEF ManifestLands
<1>2. /\ writing # NoWrite /\ Up /\ writing.n \in Numbers /\ writing.n = pointer + 1
      /\ writing.content \in Contents /\ writing.good = TRUE
      /\ folder[writing.n].content = writing.content
  BY <1>1 DEF WriteFits, NoWrite, VersionTypes, VersionWrites
<1>3. folder[writing.n] \in VersionFolders /\ folder[writing.n].good = TRUE
  <2>1. folder[writing.n] \in VersionFolders /\ folder[writing.n] # NoFolder
    BY <1>2 DEF VersionTypes, NoFolder, Contents, NoVersion
  <2> QED
    BY <1>2, <2>1 DEF GoodFits, VersionFolders
<1>4. new \in VersionFolders /\ new.content = writing.content /\ new.good = TRUE /\ new.whole = TRUE
  BY <1>2, <1>3, Zenon DEF VersionFolders, Texts
<1> HIDE DEF new
<1>5. /\ folder' \in [Numbers -> VersionFolders] /\ folder'[writing.n] = new
      /\ \A m \in Numbers : m # writing.n => folder'[m] = folder[m]
  BY <1>1, <1>2, <1>4 DEF VersionTypes
<1>6. /\ writing' \in VersionWrites /\ writing'.step = "pointer" /\ writing'.n = writing.n
      /\ writing'.content = writing.content /\ writing'.good = writing.good
  BY <1>1 DEF VersionTypes, VersionWrites, WriteSteps
<1>7. VersionTypes'
  BY <1>1, <1>5, <1>6 DEF VersionTypes
<1>8. WriteFits'
  BY <1>1, <1>2, <1>4, <1>5, <1>6 DEF WriteFits, Up, NoWrite
<1>9. pointer # writing.n /\ \A m \in Numbers : m =< pointer => m # writing.n
  BY <1>2 DEF VersionTypes, Numbers
<1>10. LoadedFits' /\ PromisesFit' /\ WholeFits'
  BY <1>1, <1>5, <1>9 DEF LoadedFits, PromisesFit, WholeFits, Up, Held, VersionTypes
<1>11. GoodFits'
  BY <1>1, <1>2, <1>4, <1>5 DEF GoodFits, Contents, NoVersion
<1> QED
  BY <1>7, <1>8, <1>10, <1>11 DEF VersionsInv

LEMMA PointerFlipsInv ==
  ASSUME VersionsInv, PointerFlips
  PROVE  VersionsInv'
<1> USE DEF VersionsInv
<1> DEFINE new == [content |-> writing.content, text |-> "written"]
<1>1. /\ UNCHANGED <<folder, copied, saves, hands>>
      /\ pointer' = writing.n /\ current' = writing.n /\ writing' = NoWrite
      /\ versions' = [versions EXCEPT ![writing.n] = new]
      /\ promised' = [promised EXCEPT ![writing.n] = writing.content]
      /\ writing.step = "pointer"
  BY DEF PointerFlips
<1>2. /\ writing # NoWrite /\ Up /\ writing.n \in Numbers /\ writing.n = pointer + 1
      /\ writing.content \in Contents
      /\ folder[writing.n].content = writing.content /\ folder[writing.n].whole
  BY <1>1 DEF WriteFits, NoWrite
<1>3. new \in Loaded /\ new.content = writing.content
  BY <1>2 DEF Loaded
<1> HIDE DEF new
<1>4. /\ versions' \in [Numbers -> Loaded] /\ versions'[writing.n] = new
      /\ \A m \in Numbers : m # writing.n => versions'[m] = versions[m]
      /\ promised' \in [Numbers -> Contents \cup {NoVersion}]
      /\ promised'[writing.n] = writing.content
      /\ \A m \in Numbers : m # writing.n => promised'[m] = promised[m]
  BY <1>1, <1>2, <1>3 DEF VersionTypes
<1>5. VersionTypes'
  BY <1>1, <1>2, <1>4, NoFolderTyped DEF VersionTypes
<1>6. WriteFits'
  BY <1>1 DEF WriteFits, NoWrite
<1>7. writing.content # NoVersion /\ writing.n # NoVersion
  BY <1>2 DEF Contents, NoVersion, Numbers
<1>8. \A m \in Numbers : m # writing.n => (m =< writing.n <=> m =< pointer)
  BY <1>2 DEF VersionTypes, Numbers
<1>9. LoadedFits'
  BY <1>1, <1>2, <1>4, <1>7, <1>8 DEF LoadedFits, Up, Held, Numbers
<1>10. PromisesFit'
  BY <1>1, <1>2, <1>3, <1>4, <1>7, <1>8 DEF PromisesFit, Held, Numbers
<1>11. WholeFits' /\ GoodFits'
  BY <1>1, <1>2 DEF WholeFits, GoodFits
<1> QED
  BY <1>5, <1>6, <1>9, <1>10, <1>11 DEF VersionsInv

LEMMA FileFailsInv ==
  ASSUME VersionsInv, FileFails
  PROVE  VersionsInv'
<1> USE DEF VersionsInv
<1> DEFINE broken == [folder[writing.n] EXCEPT !.whole = FALSE]
<1>1. /\ UNCHANGED <<pointer, copied, versions, current, saves, promised, hands>>
      /\ writing' = NoWrite
      /\ writing.step \in {"files", "manifest", "pointer"}
  BY DEF FileFails
<1>2. PICK left \in {NoFolder, folder[writing.n], broken} :
        folder' = [folder EXCEPT ![writing.n] = left]
  BY Zenon DEF FileFails
<1>3. writing # NoWrite /\ Up /\ writing.n \in Numbers /\ writing.n = pointer + 1
  BY <1>1 DEF WriteFits, NoWrite
<1>4. folder[writing.n] \in VersionFolders
  BY <1>3 DEF VersionTypes
<1>5. broken \in VersionFolders /\ broken.good = folder[writing.n].good
      /\ broken.content = folder[writing.n].content
  BY <1>4, Zenon DEF VersionFolders
<1>6. folder[writing.n] = NoFolder => broken = NoFolder
  <2> DEFINE none == [NoFolder EXCEPT !.whole = FALSE]
  <2>1. NoFolder \in VersionFolders /\ NoFolder.whole = FALSE
    BY NoFolderTyped DEF NoFolder
  <2>2. /\ none \in VersionFolders
        /\ none.content = NoFolder.content /\ none.text = NoFolder.text
        /\ none.good = NoFolder.good /\ none.whole = NoFolder.whole
    BY <2>1, Zenon DEF VersionFolders
  <2>3. \A f, g \in VersionFolders :
          /\ f.content = g.content /\ f.text = g.text
          /\ f.good = g.good /\ f.whole = g.whole
          => f = g
    BY DEF VersionFolders
  <2> QED
    BY <2>1, <2>2, <2>3, Zenon
<1>7. left \in VersionFolders /\ (left = NoFolder \/ (left.good /\ left.content # NoVersion))
  <2>1. CASE left = NoFolder
    BY <2>1, NoFolderTyped
  <2>2. CASE left = folder[writing.n]
    BY <1>3, <1>4, <2>2 DEF GoodFits
  <2>3. CASE left = broken
    BY <1>3, <1>5, <1>6, <2>3 DEF GoodFits
  <2> QED
    BY <1>2, <2>1, <2>2, <2>3
<1> HIDE DEF broken
<1>8. /\ folder' \in [Numbers -> VersionFolders] /\ folder'[writing.n] = left
      /\ \A m \in Numbers : m # writing.n => folder'[m] = folder[m]
  BY <1>2, <1>3, <1>7 DEF VersionTypes
<1>9. VersionTypes'
  BY <1>1, <1>8, NoFolderTyped DEF VersionTypes
<1>10. pointer # writing.n /\ \A m \in Numbers : m =< pointer => m # writing.n
  BY <1>3 DEF VersionTypes, Numbers
<1>11. LoadedFits' /\ PromisesFit' /\ WholeFits' /\ WriteFits'
  BY <1>1, <1>8, <1>10 DEF LoadedFits, PromisesFit, WholeFits, WriteFits, Up, Held, VersionTypes, NoWrite
<1>12. GoodFits'
  BY <1>1, <1>7, <1>8 DEF GoodFits
<1> QED
  BY <1>9, <1>11, <1>12 DEF VersionsInv

LEMMA HandsInv ==
  ASSUME VersionsInv, NEW n \in Numbers, HandEdit(n) \/ HandBreaks(n) \/ HandMends(n)
  PROVE  VersionsInv'
<1> USE DEF VersionsInv
<1>1. /\ UNCHANGED <<pointer, copied, versions, current, writing, saves, promised>>
      /\ writing = NoWrite
      /\ hands' \in Nat /\ (hands' = 0 => hands = 0)
  <2>1. CASE HandEdit(n) \/ HandBreaks(n)
    BY <2>1 DEF HandEdit, HandBreaks, NotWriting, VersionTypes
  <2>2. CASE HandMends(n)
    BY <2>2 DEF HandMends, VersionTypes, WriteFits
  <2> QED
    BY <2>1, <2>2
<1>2. folder[n] \in VersionFolders /\ folder[n] # NoFolder
  <2>1. folder[n] \in VersionFolders
    BY DEF VersionTypes
  <2> QED
    BY <2>1 DEF HandEdit, HandBreaks, HandMends, OnDisk, NoFolder
<1>3. PICK new \in VersionFolders :
        /\ folder' = [folder EXCEPT ![n] = new]
        /\ new.content = folder[n].content /\ new.good = folder[n].good
        /\ hands' = 0 => (folder[n].whole => new.whole)
  <2>1. CASE HandEdit(n)
    <3>1. PICK t \in Texts : folder' = [folder EXCEPT ![n].text = t]
      BY <2>1, Zenon DEF HandEdit
    <3>2. [folder[n] EXCEPT !.text = t] \in VersionFolders
      BY <1>2 DEF VersionFolders
    <3> QED
      BY <1>2, <3>1, <3>2, Zenon DEF VersionFolders
  <2>2. CASE HandBreaks(n)
    <3>1. folder' = [folder EXCEPT ![n] = [folder[n] EXCEPT !.whole = FALSE]] /\ hands' # 0
      BY <2>2 DEF HandBreaks, VersionTypes
    <3>2. [folder[n] EXCEPT !.whole = FALSE] \in VersionFolders
      BY <1>2, Zenon DEF VersionFolders
    <3> QED
      BY <1>2, <3>1, <3>2, Zenon DEF VersionFolders
  <2>3. CASE HandMends(n)
    <3>1. folder' = [folder EXCEPT ![n] = [folder[n] EXCEPT !.whole = TRUE]]
      BY <2>3 DEF HandMends
    <3>2. [folder[n] EXCEPT !.whole = TRUE] \in VersionFolders
      BY <1>2, Zenon DEF VersionFolders
    <3> QED
      BY <1>2, <3>1, <3>2, Zenon DEF VersionFolders
  <2> QED
    BY <2>1, <2>2, <2>3
<1>4. /\ folder' \in [Numbers -> VersionFolders] /\ folder'[n] = new
      /\ \A m \in Numbers : m # n => folder'[m] = folder[m]
  BY <1>3 DEF VersionTypes
<1>5. VersionTypes'
  BY <1>1, <1>4 DEF VersionTypes
<1>6. LoadedFits' /\ WriteFits'
  BY <1>1 DEF LoadedFits, WriteFits, Up, Held, NoWrite
<1>7. PromisesFit'
  BY <1>1, <1>3, <1>4 DEF PromisesFit, Held
<1>8. WholeFits'
  BY <1>1, <1>3, <1>4 DEF WholeFits, VersionTypes
<1>9. GoodFits'
  BY <1>1, <1>2, <1>3, <1>4 DEF GoodFits
<1> QED
  BY <1>5, <1>6, <1>7, <1>8, <1>9 DEF VersionsInv

LEMMA VersionsCrashInv ==
  ASSUME VersionsInv, VersionsCrash
  PROVE  VersionsInv'
<1> USE DEF VersionsInv
<1>1. /\ UNCHANGED <<folder, pointer, copied, saves, promised, hands>>
      /\ current' = NoVersion /\ versions' = [n \in Numbers |-> NotLoaded] /\ writing' = NoWrite
  BY DEF VersionsCrash
<1>2. \A n \in Numbers : versions'[n].content = NoVersion
  BY <1>1 DEF NotLoaded
<1>3. VersionTypes'
  BY <1>1, NoFolderTyped DEF VersionTypes
<1> QED
  BY <1>1, <1>2, <1>3 DEF LoadedFits, WriteFits, PromisesFit, WholeFits, GoodFits, Up, Held, NoWrite

LEMMA VersionsLoadInv ==
  ASSUME VersionsInv, VersionsLoad
  PROVE  VersionsInv'
<1> USE DEF VersionsInv
<1> DEFINE found(n) == [content |-> folder[n].content,
                        text |-> IF folder[n].text = "edited" THEN "edited" ELSE "written"]
<1>1. /\ UNCHANGED <<folder, pointer, copied, saves, promised, hands, writing>>
      /\ ~Up /\ current' = pointer
      /\ versions' = [n \in Numbers |-> IF Adopted(n) THEN found(n) ELSE NotLoaded]
  BY DEF VersionsLoad
<1>2. \A n \in Numbers : found(n) \in Loaded /\ found(n).content = folder[n].content
  BY DEF VersionTypes, VersionFolders, Loaded
<1> HIDE DEF found
<1>3. versions' \in [Numbers -> Loaded]
  BY <1>1, <1>2, NoFolderTyped
<1>4. \A n \in Numbers :
        versions'[n].content # NoVersion => n =< pointer /\ versions'[n].content = folder[n].content
  BY <1>1, <1>2 DEF Adopted, NotLoaded
<1>5. VersionTypes'
  BY <1>1, <1>3 DEF VersionTypes
<1>6. LoadedFits'
  BY <1>1, <1>4 DEF LoadedFits, Up, Held, VersionTypes, Numbers, NoVersion
<1>7. PromisesFit'
  BY <1>1, <1>4 DEF PromisesFit, Held
<1> QED
  BY <1>1, <1>5, <1>6, <1>7 DEF WriteFits, WholeFits, GoodFits, Up

LEMMA VersionsStep ==
  ASSUME VersionsInv, VersionsNext
  PROVE  VersionsInv'
<1>1. CASE SaveBegins \/ SetAsideFails
  <2>1. CASE SetAsideFails
    BY <2>1 DEF SetAsideFails, VersionsInv, VersionTypes, LoadedFits, WriteFits, PromisesFit,
                WholeFits, GoodFits, Up, Held
  <2> QED
    BY <1>1, <2>1, SaveBeginsInv
<1>2. CASE FilesLand \/ ManifestLands \/ PointerFlips \/ FileFails
  BY <1>2, FilesLandInv, ManifestLandsInv, PointerFlipsInv, FileFailsInv
<1>3. CASE \E v \in Numbers : RestoreBegins(v) \/ RestoreRefused(v)
  BY <1>3, RestoreBeginsInv, ReadersInv
<1>4. CASE Duplicate \/ DuplicateRefused
  BY <1>4, ReadersInv
<1>5. CASE \E n \in Numbers : HandEdit(n) \/ HandBreaks(n) \/ HandMends(n)
  BY <1>5, HandsInv
<1>6. CASE VersionsCrash \/ VersionsLoad
  BY <1>6, VersionsCrashInv, VersionsLoadInv
<1> QED
  BY <1>1, <1>2, <1>3, <1>4, <1>5, <1>6 DEF VersionsNext

LEMMA VersionsStart ==
  ASSUME VersionsInit
  PROVE  VersionsInv
<1> USE DEF VersionsInit
<1> DEFINE first == [content |-> 1, whole |-> TRUE, text |-> "written", good |-> TRUE]
           one == [content |-> 1, text |-> "written"]
<1>1. 1 \in Numbers /\ 1 \in Contents /\ \A n \in Numbers : n =< 1 <=> n = 1
  BY VersionsAssumption DEF Numbers, Contents, VersionsAssumption
<1>2. /\ first \in VersionFolders /\ first.content = 1 /\ first.whole = TRUE /\ first.good = TRUE
      /\ one \in Loaded /\ one.content = 1
  BY <1>1 DEF VersionFolders, Loaded, Texts
<1>3. /\ folder = [n \in Numbers |-> IF n = 1 THEN first ELSE NoFolder]
      /\ versions = [n \in Numbers |-> IF n = 1 THEN one ELSE NotLoaded]
  OBVIOUS
<1> HIDE DEF first, one
<1>4. NoFolder.content = NoVersion /\ NotLoaded.content = NoVersion
  BY DEF NoFolder, NotLoaded
<1>5. VersionTypes
  <2>1. folder \in [Numbers -> VersionFolders] /\ versions \in [Numbers -> Loaded]
    <3>1. \A n \in Numbers : (IF n = 1 THEN first ELSE NoFolder) \in VersionFolders
      BY <1>2, NoFolderTyped
    <3>2. \A n \in Numbers : (IF n = 1 THEN one ELSE NotLoaded) \in Loaded
      BY <1>2, NoFolderTyped
    <3>3. folder \in [Numbers -> VersionFolders]
      BY <1>3, <3>1, Zenon
    <3>4. versions \in [Numbers -> Loaded]
      BY <1>3, <3>2, Zenon
    <3> QED
      BY <3>3, <3>4
  <2>2. promised \in [Numbers -> Contents \cup {NoVersion}]
    BY <1>1
  <2> QED
    BY <1>1, <2>1, <2>2, NoFolderTyped DEF VersionTypes
<1>6. LoadedFits /\ PromisesFit
  BY <1>1, <1>2, <1>3, <1>4 DEF LoadedFits, PromisesFit, Up, Held, NoVersion
<1>7. WriteFits /\ WholeFits /\ GoodFits
  BY <1>1, <1>2, <1>3 DEF WriteFits, WholeFits, GoodFits, NoWrite, NoVersion
<1> QED
  BY <1>5, <1>6, <1>7 DEF VersionsInv

VersionsPart == part = "versions" => VersionsInv

LEMMA VersionsInvariance == Spec => []VersionsPart
<1>1. Init => VersionsPart
  BY VersionsStart DEF Init, VersionsPart
<1>2. VersionsPart /\ [Next]_allVars => VersionsPart'
  <2> SUFFICES ASSUME VersionsPart, [Next]_allVars, part' = "versions"
               PROVE  VersionsInv'
    BY DEF VersionsPart
  <2>1. part' = part
    BY DEF Next, Still, allVars
  <2>2. VersionsInv
    BY <2>1 DEF VersionsPart
  <2>3. VersionsNext \/ UNCHANGED versionVars
    BY <2>1 DEF Next, allVars
  <2>4. CASE UNCHANGED versionVars
    BY <2>2, <2>4 DEF versionVars, VersionsInv, VersionTypes, LoadedFits, WriteFits, PromisesFit,
                      WholeFits, GoodFits, Up, Held
  <2> QED
    BY <2>2, <2>3, <2>4, VersionsStep
<1> QED
  BY <1>1, <1>2, PTL DEF Spec

\* The history is what was answered, whatever failed half-way or was edited on
\* disk; the pointer resolves; a seal names text the app validated; and the draft
\* survives a failure or a death at any rename (storage.py:1670-2355, 2468-2511).
THEOREM VersionsAlwaysKept == Spec => []VersionsAreKept
<1>1. ASSUME VersionsInv
      PROVE  HistoryIsWhatWasAnswered /\ AnsweredIsKept /\ PointerResolves /\ SealsAreHonest
  <2> USE <1>1 DEF VersionsInv
  <2>1. HistoryIsWhatWasAnswered
    BY DEF HistoryIsWhatWasAnswered, PromisesFit, LoadedFits
  <2>2. AnsweredIsKept
    BY DEF AnsweredIsKept, PromisesFit
  <2>3. PointerResolves
    BY DEF PointerResolves, PromisesFit, WholeFits, VersionTypes, Numbers
  <2>4. SealsAreHonest
    BY DEF SealsAreHonest, GoodFits, OnDisk
  <2> QED
    BY <2>1, <2>2, <2>3, <2>4
<1>2. SwapInv => DraftSurvives
  BY DEF SwapInv, DraftSurvives, RecoveredDraft
<1>3. VersionsPart /\ DraftPart => VersionsAreKept
  BY <1>1, <1>2 DEF VersionsPart, DraftPart, VersionsAreKept
<1> QED
  BY <1>3, VersionsInvariance, SwapInvariance, PTL

-----------------------------------------------------------------------------
(***************************************************************************)
(* The catalogs.  The table in memory may be ahead of the one on disk by what *)
(* a load seeded and could not save; a row that was read, and is not the       *)
(* built-in one, has a copy, and what a worker has read is of the place it     *)
(* says; a directory is cleared once, by the worker whose row it was.          *)
(***************************************************************************)
RowFields == {"loc", "fresh", "auto", "builtin"}

RowsFit(t) ==
    /\ DOMAIN t = Rows /\ \A i \in Rows : DOMAIN t[i] = RowFields
    /\ \A i \in Shown(t) : t[i].loc \in Places \cup {Own}
    /\ \A i, k \in Shown(t) : t[i].loc = t[k].loc /\ t[i].loc # Own => i = k
    /\ \A i, k \in Shown(t) : t[i].builtin /\ t[k].builtin => i = k

CopiesFit(t, c) ==
    \A i \in Shown(t) : /\ t[i].fresh # "never" => c[i].src = t[i].loc
                        /\ ~ t[i].builtin => c[i] # Nothing

HasBuiltin(t) == \E i \in Shown(t) : t[i].builtin

\* What is on disk is shown, at its place and as fresh as there.
Covers(t, d) ==
    \A i \in Shown(d) : /\ t[i] # NoRow /\ t[i].loc = d[i].loc
                        /\ d[i].fresh # "never" => t[i].fresh # "never"

PlacesFit ==
    /\ DOMAIN place = Places /\ DOMAIN copy = Rows /\ DOMAIN job = Workers
    /\ \A p \in Places : place[p] # Nothing => place[p].src = p

TablesFit ==
    /\ RowsFit(rows) /\ CopiesFit(rows, copy) /\ Covers(rows, table) /\ HasBuiltin(rows)
    /\ ~ unsaved => rows = table

SessionFits ==
    /\ opened => (readOnly <=> garbled)
    /\ ~ Changeable => \A w \in Workers : job[w] = Resting
    /\ opened /\ readOnly => Shown(rows) = {}
    /\ Changeable => TablesFit

IsRead(g) == g = <<g[1], g[2], g[3]>> /\ g[3] # Nothing /\ g[3].src = g[2]

WorkOf(j) ==
    /\ DOMAIN j = DOMAIN Resting
    /\ \A x \in j.todo : x = <<x[1], x[2]>> /\ x[2] \in Places
    /\ \A g \in j.got : IsRead(g) /\ (j.op = "add" => g[2] = j.loc)
    /\ j.op = "add" => j.loc \in Places
    /\ j.op \in {"save", "create"} => j.loc \in Places \cup {Own}
    /\ j.op = "save" => j.row \in Rows
    /\ j.todo # {} => j.op \in {"one", "all", "due"}

Clearing(w) == job[w].op = "clear"
ClearingFits(w) ==
    Clearing(w) => /\ job[w].row \in Rows \ Shown(rows) /\ copy[job[w].row] # Nothing
                   /\ \A v \in Workers : Clearing(v) /\ job[v].row = job[w].row => v = w

WorkFits == \A w \in Workers : WorkOf(job[w]) /\ ClearingFits(w)

MarketInv == /\ RowsFit(table) /\ CopiesFit(table, copy) /\ PlacesFit /\ SessionFits /\ WorkFits
             /\ ReadMeansItsOwnPlace

LEMMA MarketGives == MarketInv => ReadMeansItsOwnPlace /\ TableIsShown
<1> SUFFICES ASSUME MarketInv, opened, ~ readOnly
             PROVE  /\ ~ unsaved => rows = table
                    /\ \A i, k \in Shown(rows) : (rows[i].loc = rows[k].loc /\ rows[i].loc # Own) => i = k
                    /\ Cardinality({i \in Shown(rows) : rows[i].builtin}) = 1
  BY DEF MarketInv, TableIsShown
<1>1. TablesFit
  BY DEF MarketInv, SessionFits, Changeable
<1>2. PICK b \in Shown(rows) : {i \in Shown(rows) : rows[i].builtin} = {b}
  BY <1>1 DEF TablesFit, RowsFit, HasBuiltin
<1> QED
  BY <1>1, <1>2, FS_Singleton, Zenon DEF TablesFit, RowsFit

LEMMA MarketStarts == MarketInit => MarketInv
<1> SUFFICES ASSUME MarketInit PROVE MarketInv OBVIOUS
<1>1. Shown(rows) = {} /\ Shown(table) = {}
  BY DEF MarketInit, Shown
<1>2. RowsFit(table) /\ CopiesFit(table, copy) /\ ReadMeansItsOwnPlace
  BY <1>1, Zenon DEF MarketInit, RowsFit, CopiesFit, ReadMeansItsOwnPlace, NoRow, RowFields
<1>3. PlacesFit
  BY DEF MarketInit, PlacesFit, Places, Nothing
<1>4. SessionFits
  BY DEF MarketInit, SessionFits, Changeable
<1>5. WorkFits
  BY DEF MarketInit, WorkFits, WorkOf, ClearingFits, Clearing, Resting
<1> QED
  BY <1>2, <1>3, <1>4, <1>5 DEF MarketInv

LEMMA MarketNames == Own \notin Places /\ "nowhere" \notin Places /\ Own # "nowhere"
                     /\ Nothing.src = "nowhere" /\ NoRow.loc = "nowhere"
BY MarketAssumption DEF MarketAssumption, Own, Places, Hub, Nothing, NoRow

\* Who works does so in a session that may change the table.
LEMMA WorkMeansChangeable ==
  ASSUME MarketInv, NEW w \in Workers, job[w] # Resting \/ job[w].op # "rest"
  PROVE  Changeable /\ TablesFit
BY DEF MarketInv, SessionFits, Resting

\* Copies that land are of the place the row names.
Landed(c) == \A i \in Shown(rows) : c[i] = copy[i] \/ (c[i] # Nothing /\ c[i].src = rows[i].loc)

LEMMA CopiesLand ==
  ASSUME NEW t, NEW c, CopiesFit(t, copy), Covers(rows, t), DOMAIN t = Rows, DOMAIN rows = Rows,
         Landed(c)
  PROVE  CopiesFit(t, c)
BY DEF CopiesFit, Covers, Landed, Shown

LEMMA SavesKeep ==
  ASSUME MarketInv, Changeable, NEW t, Saves(t) \/ SaveFails(t), Landed(copy'),
         RowsFit(t), CopiesFit(t, copy'), HasBuiltin(t), unsaved' = unsaved
  PROVE  /\ RowsFit(table') /\ CopiesFit(table', copy') /\ ReadMeansItsOwnPlace'
         /\ RowsFit(rows') /\ CopiesFit(rows', copy') /\ Covers(rows', table')
         /\ HasBuiltin(rows') /\ (~ unsaved' => rows' = table')
<1>0. TablesFit
  BY DEF MarketInv, SessionFits
<1>1. CASE rows' = t /\ table' = t
  BY <1>1 DEF Covers, CopiesFit, ReadMeansItsOwnPlace, Shown
<1>2. CASE rows' = rows /\ table' = table
  <2>1. CopiesFit(table, copy')
    BY <1>0, CopiesLand DEF MarketInv, TablesFit, RowsFit
  <2>2. CopiesFit(rows, copy')
    BY <1>0, CopiesLand DEF TablesFit, RowsFit, Covers, Shown
  <2> QED
    BY <1>0, <1>2, <2>1, <2>2 DEF MarketInv, TablesFit, CopiesFit, ReadMeansItsOwnPlace, Shown
<1> QED
  BY <1>1, <1>2 DEF Saves, SaveFails, Undone

\* One worker goes on; the directories that others clear stay theirs.
LEMMA WorkKeeps ==
  ASSUME MarketInv, NEW w \in Workers, NEW j, job' = [job EXCEPT ![w] = j], WorkOf(j),
         j.op = "clear" => /\ j.row \in Rows \ Shown(rows') /\ copy'[j.row] # Nothing
                           /\ \A v \in Workers \ {w} : Clearing(v) => job[v].row # j.row,
         \A v \in Workers \ {w} : Clearing(v) =>
             job[v].row \notin Shown(rows') /\ copy'[job[v].row] # Nothing
  PROVE  WorkFits' /\ DOMAIN job' = Workers
<1>1. DOMAIN job = Workers
  BY DEF MarketInv, PlacesFit
<1>2. \A v \in Workers : job'[v] = IF v = w THEN j ELSE job[v]
  BY <1>1
<1>3. \A v \in Workers : WorkOf(job'[v])
  BY <1>2 DEF MarketInv, WorkFits
<1>4. \A v \in Workers : ClearingFits(v)'
  BY <1>2 DEF MarketInv, WorkFits, ClearingFits, Clearing
<1> QED
  BY <1>1, <1>3, <1>4 DEF WorkFits

\* The tables and the files are as they were, a worker takes up or goes on with
\* something other than clearing.
LEMMA JobKeeps ==
  ASSUME MarketInv, Changeable, NEW w \in Workers, NEW j, job' = [job EXCEPT ![w] = j],
         WorkOf(j), j.op # "clear",
         UNCHANGED <<rows, table, copy, place, garbled, readOnly, unsaved, opened>>
  PROVE  MarketInv'
<1>1. WorkFits' /\ DOMAIN job' = Workers
  BY WorkKeeps, Zenon DEF MarketInv, WorkFits, ClearingFits
<1>2. SessionFits'
  BY DEF MarketInv, SessionFits, Changeable, TablesFit
<1> QED
  BY <1>1, <1>2 DEF MarketInv, PlacesFit, ReadMeansItsOwnPlace

RowAt(loc, fresh) == [NoRow EXCEPT !.loc = loc, !.fresh = fresh]

LEMMA RowMade ==
  ASSUME NEW loc \in Places \cup {Own}, NEW fresh
  PROVE  /\ DOMAIN RowAt(loc, fresh) = RowFields /\ RowAt(loc, fresh) # NoRow
         /\ RowAt(loc, fresh).loc = loc /\ RowAt(loc, fresh).fresh = fresh
         /\ RowAt(loc, fresh).builtin = FALSE
BY MarketNames, Zenon DEF NoRow, RowFields, RowAt

LEMMA RestIsWork == WorkOf(Resting) /\ Resting.op = "rest"
                    /\ \A i \in Rows : WorkOf([Resting EXCEPT !.op = "clear", !.row = i])
BY DEF WorkOf, Resting

\* A new row, at a place of its own, not built in.
LEMMA RowAdded ==
  ASSUME TablesFit, NEW i \in Rows \ Shown(rows), NEW loc \in Places \cup {Own}, NEW fresh, NEW c,
         loc # Own => ~ TakenIn(rows, loc, 0), Landed(c), c[i] # Nothing, c[i].src = loc
  PROVE  LET t == [rows EXCEPT ![i] = RowAt(loc, fresh)]
         IN RowsFit(t) /\ CopiesFit(t, c) /\ HasBuiltin(t) /\ Shown(t) = Shown(rows) \cup {i}
<1> DEFINE new == RowAt(loc, fresh)
           t == [rows EXCEPT ![i] = new]
<1>1. /\ DOMAIN new = RowFields /\ new # NoRow
      /\ new.loc = loc /\ new.fresh = fresh /\ new.builtin = FALSE
  BY RowMade, Zenon
<1> HIDE DEF new
<1>2. /\ DOMAIN t = Rows /\ t[i] = new /\ \A k \in Rows \ {i} : t[k] = rows[k]
      /\ Shown(t) = Shown(rows) \cup {i}
  BY <1>1 DEF TablesFit, RowsFit, Shown
<1>3. \A k \in Shown(rows) : k # 0 /\ (loc # Own => rows[k].loc # loc)
  BY MarketAssumption DEF MarketAssumption, TakenIn, Shown
<1> HIDE DEF t
<1>4. RowsFit(t)
  <2>1. \A k \in Rows : DOMAIN t[k] = RowFields
    BY <1>1, <1>2 DEF TablesFit, RowsFit
  <2>2. \A k \in Shown(t) : t[k].loc \in Places \cup {Own}
    BY <1>1, <1>2 DEF TablesFit, RowsFit, Shown
  <2>3. \A k, m \in Shown(t) : t[k].loc = t[m].loc /\ t[k].loc # Own => k = m
    BY <1>1, <1>2, <1>3 DEF TablesFit, RowsFit, Shown
  <2>4. \A k, m \in Shown(t) : t[k].builtin /\ t[m].builtin => k = m
    BY <1>1, <1>2 DEF TablesFit, RowsFit, Shown
  <2> QED
    BY <1>2, <2>1, <2>2, <2>3, <2>4 DEF RowsFit
<1>5. CopiesFit(t, c)
  BY <1>1, <1>2 DEF TablesFit, CopiesFit, Landed, Shown
<1>6. HasBuiltin(t)
  BY <1>2 DEF TablesFit, HasBuiltin, Shown
<1> QED
  BY <1>2, <1>4, <1>5, <1>6, Zenon DEF t, new

LEMMA MarketWhole ==
  ASSUME RowsFit(table'), CopiesFit(table', copy'), ReadMeansItsOwnPlace', TablesFit', WorkFits',
         PlacesFit', Changeable, UNCHANGED <<garbled, readOnly, opened>>, MarketInv
  PROVE  MarketInv'
BY DEF MarketInv, SessionFits, Changeable

LEMMA AddsKeep == ASSUME MarketInv, NEW w \in Workers, NEW i \in Rows, AddCommits(w, i) PROVE MarketInv'
<1>1. /\ job[w].op = "add" /\ i \notin Shown(rows) /\ copy[i] = Nothing
      /\ UNCHANGED <<place, garbled, readOnly, unsaved, opened>>
  BY DEF AddCommits
<1>2. Changeable /\ TablesFit /\ job[w].loc \in Places
  BY <1>1, WorkMeansChangeable DEF MarketInv, WorkFits, WorkOf
<1>3. CASE TakenIn(rows, job[w].loc, 0)
  BY <1>1, <1>2, <1>3, RestIsWork, JobKeeps, Zenon DEF AddCommits, Rest, Becomes
<1>4. CASE ~ TakenIn(rows, job[w].loc, 0)
  <2> DEFINE new == [rows EXCEPT ![i] = RowAt(job[w].loc, "today")]
  <2>1. PICK g \in job[w].got : copy' = [copy EXCEPT ![i] = g[3]]
    BY <1>4 DEF AddCommits
  <2>2. /\ DOMAIN copy' = Rows /\ copy'[i] # Nothing /\ copy'[i].src = job[w].loc
        /\ \A k \in Rows \ {i} : copy'[k] = copy[k]
    BY <1>1, <2>1 DEF MarketInv, PlacesFit, WorkFits, WorkOf, IsRead
  <2>3. Landed(copy')
    BY <1>1, <2>2 DEF Landed, Shown
  <2>4. /\ RowsFit(new) /\ CopiesFit(new, copy') /\ HasBuiltin(new)
        /\ Shown(new) = Shown(rows) \cup {i}
    BY <1>1, <1>2, <1>4, <2>2, <2>3, RowAdded, Zenon
  <2> HIDE DEF new
  <2>5. \/ Saves(new) /\ Rest(w)
        \/ SaveFails(new) /\ Clears(w, i)
    BY <1>4 DEF AddCommits, new, RowAt
  <2>6. /\ RowsFit(table') /\ CopiesFit(table', copy') /\ ReadMeansItsOwnPlace'
        /\ RowsFit(rows') /\ CopiesFit(rows', copy') /\ Covers(rows', table')
        /\ HasBuiltin(rows') /\ (~ unsaved' => rows' = table')
    BY <1>1, <1>2, <2>3, <2>4, <2>5, SavesKeep
  <2>7. \A v \in Workers : Clearing(v) => job[v].row # i /\ job[v].row \in Rows \ Shown(rows)
                                         /\ copy[job[v].row] # Nothing
    BY <1>1 DEF MarketInv, WorkFits, ClearingFits
  <2>8. WorkFits' /\ DOMAIN job' = Workers
    <3>1. CASE Saves(new) /\ Rest(w)
      BY <2>2, <2>4, <2>7, <3>1, WorkKeeps, RestIsWork, Zenon DEF Saves, Rest, Becomes
    <3>2. CASE SaveFails(new) /\ Clears(w, i)
      <4> DEFINE j == [Resting EXCEPT !.op = "clear", !.row = i]
      <4>1. rows' = rows /\ job' = [job EXCEPT ![w] = j]
        BY <3>2 DEF SaveFails, Undone, Clears, Becomes
      <4>2. j.row = i
        BY DEF Resting
      <4>3. WorkOf(j)
        BY RestIsWork, Zenon
      <4> HIDE DEF j
      <4>4. \A v \in Workers \ {w} : Clearing(v) =>
                job[v].row # i /\ job[v].row \notin Shown(rows') /\ copy'[job[v].row] # Nothing
        BY <2>2, <2>7, <4>1
      <4>5. i \in Rows \ Shown(rows') /\ copy'[i] # Nothing
        BY <1>1, <2>2, <4>1
      <4> QED
        BY <4>1, <4>2, <4>3, <4>4, <4>5, WorkKeeps, Zenon
    <3> QED
      BY <2>5, <3>1, <3>2
  <2>9. PlacesFit'
    BY <1>1, <2>2, <2>8 DEF MarketInv, PlacesFit
  <2> QED
    BY <1>1, <1>2, <2>6, <2>8, <2>9, MarketWhole DEF TablesFit
<1> QED
  BY <1>3, <1>4

LEMMA ClearKeeps == ASSUME MarketInv, NEW w \in Workers, ClearEnds(w) PROVE MarketInv'
<1>1. /\ Clearing(w) /\ copy' = [copy EXCEPT ![job[w].row] = Nothing]
      /\ job' = [job EXCEPT ![w] = Resting]
      /\ UNCHANGED <<rows, table, place, garbled, readOnly, unsaved, opened>>
  BY DEF ClearEnds, Clearing, Rest, Becomes
<1>2. Changeable /\ TablesFit
  BY <1>1, WorkMeansChangeable DEF Clearing
<1>3. job[w].row \in Rows \ Shown(rows)
      /\ \A v \in Workers \ {w} : Clearing(v) => job[v].row # job[w].row
  BY <1>1 DEF MarketInv, WorkFits, ClearingFits
<1>4. DOMAIN copy' = Rows /\ Landed(copy')
      /\ \A k \in Rows \ {job[w].row} : copy'[k] = copy[k]
  BY <1>1, <1>3 DEF MarketInv, PlacesFit, Landed, Shown
<1>5. CopiesFit(table, copy') /\ CopiesFit(rows, copy')
  BY <1>2, <1>4, CopiesLand DEF MarketInv, TablesFit, RowsFit, Covers, Shown
<1>6. WorkFits' /\ DOMAIN job' = Workers
  BY <1>1, <1>3, <1>4, WorkKeeps, RestIsWork, Zenon DEF MarketInv, WorkFits, ClearingFits
<1>7. ReadMeansItsOwnPlace' /\ PlacesFit'
  BY <1>1, <1>4, <1>5, <1>6 DEF CopiesFit, ReadMeansItsOwnPlace, MarketInv, PlacesFit
<1> QED
  BY <1>1, <1>2, <1>5, <1>6, <1>7, MarketWhole DEF MarketInv, TablesFit

LEMMA RefreshKeeps == ASSUME MarketInv, NEW w \in Workers, RefreshCommits(w) PROVE MarketInv'
<1> DEFINE land == IF job[w].op = "due" /\ halting THEN {} ELSE {g \in job[w].got : StillThere(g)}
           hit(i) == \E g \in land : g[1] = i
           new == [i \in Rows |-> IF hit(i) THEN [rows[i] EXCEPT !.fresh = "today"] ELSE rows[i]]
<1>1. /\ job[w].op \in {"one", "all", "due"} /\ job' = [job EXCEPT ![w] = Resting]
      /\ copy' = [i \in Rows |-> IF hit(i) THEN (CHOOSE g \in land : g[1] = i)[3] ELSE copy[i]]
      /\ (UNCHANGED <<rows, table>> \/ Saves(new) \/ SaveFails(new))
      /\ UNCHANGED <<place, garbled, readOnly, unsaved, opened>>
  BY DEF RefreshCommits, Rest, Becomes
<1>2. Changeable /\ TablesFit
  BY <1>1, WorkMeansChangeable
<1>3. \A g \in land : IsRead(g) /\ rows[g[1]] # NoRow /\ rows[g[1]].loc = g[2]
  BY DEF StillThere, MarketInv, WorkFits, WorkOf
<1> HIDE DEF land
<1>4. \A i \in Rows : IF hit(i) THEN copy'[i] # Nothing /\ copy'[i].src = rows[i].loc /\ rows[i] # NoRow
                      ELSE copy'[i] = copy[i]
  <2> SUFFICES ASSUME NEW i \in Rows, hit(i)
               PROVE  copy'[i] # Nothing /\ copy'[i].src = rows[i].loc /\ rows[i] # NoRow
    BY <1>1
  <2> DEFINE g == CHOOSE g \in land : g[1] = i
  <2>1. g \in land /\ g[1] = i
    OBVIOUS
  <2>2. copy'[i] = g[3]
    BY <1>1
  <2> HIDE DEF g
  <2> QED
    BY <1>3, <2>1, <2>2 DEF IsRead
<1>5. DOMAIN copy' = Rows /\ Landed(copy')
  BY <1>1, <1>4 DEF Landed, Shown
<1>6. /\ DOMAIN new = Rows /\ Shown(new) = Shown(rows)
      /\ \A i \in Rows : /\ DOMAIN new[i] = RowFields /\ new[i].loc = rows[i].loc
                         /\ new[i].builtin = rows[i].builtin
                         /\ new[i].fresh = IF hit(i) THEN "today" ELSE rows[i].fresh
  <2>1. \A i \in Rows : /\ DOMAIN new[i] = RowFields /\ new[i].loc = rows[i].loc
                        /\ new[i].builtin = rows[i].builtin
                        /\ new[i].fresh = IF hit(i) THEN "today" ELSE rows[i].fresh
    BY <1>2 DEF TablesFit, RowsFit, RowFields
  <2>2. \A i \in Rows : rows[i] # NoRow => rows[i].loc # "nowhere"
    BY <1>2, MarketNames DEF TablesFit, RowsFit, Shown
  <2>3. \A i \in Rows : new[i] # NoRow <=> rows[i] # NoRow
    <3> TAKE i \in Rows
    <3>1. CASE hit(i)
      <4>1. rows[i] # NoRow
        BY <1>4, <3>1
      <4>2. new[i].loc # "nowhere"
        BY <2>1, <2>2, <4>1
      <4> QED
        BY <4>1, <4>2, MarketNames, Zenon
    <3>2. CASE ~ hit(i)
      BY <3>2
    <3> QED
      BY <3>1, <3>2
  <2> QED
    BY <2>1, <2>3 DEF Shown
<1> HIDE DEF new
<1>7. RowsFit(new) /\ HasBuiltin(new) /\ CopiesFit(new, copy')
  <2>1. RowsFit(new) /\ HasBuiltin(new)
    BY <1>2, <1>6 DEF TablesFit, RowsFit, HasBuiltin, Shown
  <2>2. CopiesFit(new, copy')
    BY <1>2, <1>4, <1>6 DEF TablesFit, CopiesFit, Shown
  <2> QED
    BY <2>1, <2>2
<1>8. /\ RowsFit(table') /\ CopiesFit(table', copy') /\ ReadMeansItsOwnPlace' /\ TablesFit'
      /\ Shown(rows') = Shown(rows)
  <2>1. CASE Saves(new) \/ SaveFails(new)
    BY <1>1, <1>2, <1>5, <1>6, <1>7, <2>1, SavesKeep DEF TablesFit, Saves, SaveFails, Undone
  <2>2. CASE UNCHANGED <<rows, table>>
    <3>1. CopiesFit(table, copy') /\ CopiesFit(rows, copy')
      BY <1>2, <1>5, CopiesLand DEF MarketInv, TablesFit, RowsFit, Covers, Shown
    <3>2. Shown(rows') = Shown(rows) /\ Shown(table') = Shown(table)
      BY <2>2 DEF Shown
    <3>3. RowsFit(table') /\ CopiesFit(table', copy')
      BY <2>2, <3>1 DEF MarketInv
    <3>4. ReadMeansItsOwnPlace'
      BY <2>2, <3>1, <3>2 DEF CopiesFit, ReadMeansItsOwnPlace
    <3>5. RowsFit(rows') /\ CopiesFit(rows', copy') /\ Covers(rows', table') /\ HasBuiltin(rows')
      BY <1>2, <2>2, <3>1 DEF TablesFit
    <3>6. ~ unsaved' => rows' = table'
      BY <1>1, <1>2, <2>2 DEF TablesFit
    <3> QED
      BY <3>2, <3>3, <3>4, <3>5, <3>6 DEF TablesFit
  <2> QED
    BY <1>1, <2>1, <2>2
<1>9. \A v \in Workers \ {w} : Clearing(v) =>
          job[v].row \notin Shown(rows') /\ copy'[job[v].row] # Nothing
  BY <1>4, <1>8 DEF MarketInv, WorkFits, ClearingFits, Shown
<1>10. WorkFits' /\ DOMAIN job' = Workers
  BY <1>1, <1>9, WorkKeeps, RestIsWork, Zenon
<1>11. PlacesFit'
  BY <1>1, <1>5, <1>10 DEF MarketInv, PlacesFit
<1> QED
  BY <1>1, <1>2, <1>8, <1>10, <1>11, MarketWhole

\* Work that only begins, or goes on off the lock.
LEMMA AddBegins == ASSUME MarketInv, NEW w \in Workers, NEW loc \in Places, AddReads(w, loc) PROVE MarketInv'
<1> DEFINE j == [Resting EXCEPT !.op = "add", !.loc = loc, !.got = {<<0, loc, place[loc]>>}]
<1>1. /\ Changeable /\ job' = [job EXCEPT ![w] = j] /\ place[loc] # Nothing
      /\ UNCHANGED <<rows, table, copy, place, garbled, readOnly, unsaved, opened>>
  BY DEF AddReads, Begins
<1>2. place[loc].src = loc
  BY <1>1 DEF MarketInv, PlacesFit
<1>3. /\ DOMAIN j = DOMAIN Resting /\ j.op = "add" /\ j.loc = loc /\ j.todo = {}
      /\ j.got = {<<0, loc, place[loc]>>}
  BY DEF Resting
<1> HIDE DEF j
<1>4. WorkOf(j)
  BY <1>1, <1>2, <1>3 DEF WorkOf, IsRead
<1> QED
  BY <1>1, <1>3, <1>4, JobKeeps, Zenon

LEMMA RefreshStarts ==
  ASSUME MarketInv, NEW w \in Workers, NEW whose \in {"one", "all", "due"}, NEW i \in Rows, RefreshBegins(w, whose, i)
  PROVE  MarketInv'
<1> DEFINE j == [Resting EXCEPT !.op = whose, !.todo = {<<k, rows[k].loc>> : k \in Targets(whose, i)}]
<1>1. /\ Changeable /\ job' = [job EXCEPT ![w] = j]
      /\ UNCHANGED <<rows, table, copy, place, garbled, readOnly, unsaved, opened>>
  BY DEF RefreshBegins, Begins
<1>2. \A k \in Targets(whose, i) : rows[k].loc \in Places
  <2>1. \A k \in Targets(whose, i) : k \in Shown(rows) /\ rows[k].loc # Own
    BY DEF Targets, Due
  <2> QED
    BY <1>1, <2>1 DEF MarketInv, SessionFits, TablesFit, RowsFit
<1>3. /\ DOMAIN j = DOMAIN Resting /\ j.op = whose /\ j.got = {}
      /\ j.todo = {<<k, rows[k].loc>> : k \in Targets(whose, i)}
  BY DEF Resting
<1> HIDE DEF j
<1>4. \A x \in j.todo : x = <<x[1], x[2]>> /\ x[2] \in Places
  BY <1>2, <1>3
<1>5. WorkOf(j)
  BY <1>3, <1>4 DEF WorkOf
<1> QED
  BY <1>1, <1>3, <1>5, JobKeeps, Zenon

LEMMA FetchKeeps ==
  ASSUME MarketInv, NEW w \in Workers, NEW x \in job[w].todo, NEW read, FetchOne(w, x, read)
  PROVE  MarketInv'
<1> DEFINE more == IF read /\ place[x[2]] # Nothing
                   THEN job[w].got \cup {<<x[1], x[2], place[x[2]]>>} ELSE job[w].got
           j == [job[w] EXCEPT !.todo = job[w].todo \ {x}, !.got = more]
<1>1. /\ job' = [job EXCEPT ![w] = j]
      /\ UNCHANGED <<rows, table, copy, place, garbled, readOnly, unsaved, opened>>
  BY DEF FetchOne, Becomes
<1>2. WorkOf(job[w]) /\ x[2] \in Places /\ job[w].op \in {"one", "all", "due"}
  BY DEF MarketInv, WorkFits, WorkOf
<1>3. Changeable
  BY <1>2, WorkMeansChangeable
<1>4. \A g \in more : IsRead(g)
  BY <1>2 DEF MarketInv, PlacesFit, WorkOf, IsRead
<1> HIDE DEF more
<1>5. /\ DOMAIN j = DOMAIN Resting /\ j.op = job[w].op /\ j.got = more
      /\ j.todo = job[w].todo \ {x}
  BY <1>2 DEF WorkOf, Resting
<1> HIDE DEF j
<1>6. WorkOf(j)
  BY <1>2, <1>4, <1>5 DEF WorkOf
<1> QED
  BY <1>1, <1>2, <1>3, <1>5, <1>6, JobKeeps, Zenon

LEMMA ExportKeeps == ASSUME MarketInv, NEW w \in Workers, Exports(w) PROVE MarketInv'
<1> DEFINE j == [job[w] EXCEPT !.arch = {Fresh}]
<1>1. /\ job[w].op \in {"save", "create"} /\ job' = [job EXCEPT ![w] = j]
      /\ UNCHANGED <<rows, table, copy, place, garbled, readOnly, unsaved, opened>>
  BY DEF Exports, Becomes
<1>2. Changeable /\ WorkOf(job[w])
  BY <1>1, WorkMeansChangeable DEF MarketInv, WorkFits
<1>3. /\ DOMAIN j = DOMAIN Resting /\ j.op = job[w].op /\ j.got = job[w].got
      /\ j.todo = job[w].todo /\ j.loc = job[w].loc /\ j.row = job[w].row
  BY <1>2 DEF WorkOf, Resting
<1> HIDE DEF j
<1> QED
  BY <1>1, <1>2, <1>3, JobKeeps, Zenon DEF WorkOf

LEMMA SaveStarts == ASSUME MarketInv, NEW w \in Workers, NEW i \in Rows, CatalogSaveBegins(w, i) PROVE MarketInv'
<1> DEFINE j == [Resting EXCEPT !.op = "save", !.row = i, !.loc = rows[i].loc]
<1>1. /\ Changeable /\ job' = [job EXCEPT ![w] = j] /\ i \in Shown(rows)
      /\ UNCHANGED <<rows, table, copy, place, garbled, readOnly, unsaved, opened>>
  BY DEF CatalogSaveBegins, Begins
<1>2. rows[i].loc \in Places \cup {Own}
  BY <1>1 DEF MarketInv, SessionFits, TablesFit, RowsFit
<1>3. /\ DOMAIN j = DOMAIN Resting /\ j.op = "save" /\ j.row = i /\ j.loc = rows[i].loc
      /\ j.todo = {} /\ j.got = {}
  BY DEF Resting
<1> HIDE DEF j
<1>4. WorkOf(j)
  BY <1>2, <1>3 DEF WorkOf
<1> QED
  BY <1>1, <1>3, <1>4, JobKeeps, Zenon

LEMMA CreateStarts ==
  ASSUME MarketInv, NEW w \in Workers, NEW loc \in Folders \cup {Own}, CreateBegins(w, loc)
  PROVE  MarketInv'
<1> DEFINE j == [Resting EXCEPT !.op = "create", !.loc = loc]
<1>1. /\ Changeable /\ job' = [job EXCEPT ![w] = j]
      /\ UNCHANGED <<rows, table, copy, place, garbled, readOnly, unsaved, opened>>
  BY DEF CreateBegins, Begins
<1>2. DOMAIN j = DOMAIN Resting /\ j.op = "create" /\ j.loc = loc /\ j.todo = {} /\ j.got = {}
  BY DEF Resting
<1> HIDE DEF j
<1>3. WorkOf(j)
  BY <1>2 DEF WorkOf, Places
<1> QED
  BY <1>1, <1>2, <1>3, JobKeeps, Zenon

\* Rows that stay where they are shown, moved, read or grown old.
LEMMA RowsMoved ==
  ASSUME RowsFit(rows), CopiesFit(rows, copy), NEW t, NEW c, Landed(c),
         DOMAIN t = Rows, \A i \in Rows : DOMAIN t[i] = RowFields,
         \A i \in Rows : t[i] # NoRow <=> rows[i] # NoRow,
         \A i \in Shown(rows) :
            /\ t[i].loc \in Places \cup {Own}
            /\ t[i].builtin = rows[i].builtin
            /\ t[i].fresh # "never" =>
                 t[i].loc = rows[i].loc /\ (rows[i].fresh # "never" \/ c[i].src = rows[i].loc),
         \A i, k \in Shown(rows) : t[i].loc = t[k].loc /\ t[i].loc # Own => i = k
  PROVE  /\ Shown(t) = Shown(rows) /\ RowsFit(t) /\ CopiesFit(t, c)
         /\ HasBuiltin(rows) => HasBuiltin(t)
<1>1. Shown(t) = Shown(rows)
  BY DEF Shown
<1>2. RowsFit(t)
  BY <1>1 DEF RowsFit
<1>3. HasBuiltin(rows) => HasBuiltin(t)
  BY <1>1 DEF HasBuiltin
<1>4. \A i \in Shown(rows) : t[i].fresh # "never" => c[i].src = t[i].loc
  BY DEF CopiesFit, Landed
<1>5. \A i \in Shown(rows) : ~ t[i].builtin => c[i] # Nothing
  BY DEF CopiesFit, Landed
<1> QED
  BY <1>1, <1>2, <1>3, <1>4, <1>5 DEF CopiesFit

LEMMA SettingsKeep ==
  ASSUME MarketInv, NEW i \in Rows, NEW loc \in Places \cup {Own}, NEW updates, Settings(i, loc, updates)
  PROVE  MarketInv'
<1> DEFINE row == [Moved(rows[i], loc) EXCEPT !.auto = updates]
           new == [rows EXCEPT ![i] = row]
<1>1. /\ Changeable /\ i \in Shown(rows) /\ (loc # rows[i].loc => MaySettle(i, loc))
      /\ Saves(new) \/ SaveFails(new)
      /\ UNCHANGED <<copy, place, job, garbled, readOnly, unsaved, opened>>
  BY DEF Settings
<1>2. TablesFit /\ DOMAIN rows = Rows /\ DOMAIN rows[i] = RowFields
  BY <1>1 DEF MarketInv, SessionFits, TablesFit, RowsFit
<1>3. /\ DOMAIN row = RowFields /\ row.loc = loc /\ row.builtin = rows[i].builtin
      /\ row.fresh # "never" => loc = rows[i].loc /\ row.fresh = rows[i].fresh
  BY <1>2 DEF Moved, RowFields
<1> HIDE DEF row
<1>4. row # NoRow
  BY <1>3, MarketNames
<1>5. DOMAIN new = Rows /\ new[i] = row /\ \A k \in Rows \ {i} : new[k] = rows[k]
  BY <1>2
<1> HIDE DEF new
<1>6. Landed(copy')
  BY <1>1 DEF Landed
<1>7. \A k, m \in Shown(rows) : new[k].loc = new[m].loc /\ new[k].loc # Own => k = m
  <2>1. loc # rows[i].loc /\ loc # Own => \A k \in Shown(rows) \ {i} : rows[k].loc # loc
    BY <1>1 DEF MaySettle, TakenIn
  <2>2. \A k \in Shown(rows) \ {i} : rows[k].loc = rows[i].loc => rows[i].loc = Own
    BY <1>1, <1>2 DEF TablesFit, RowsFit
  <2>3. \A k \in Shown(rows) \ {i} : new[k].loc = loc => loc = Own
    BY <1>5, <2>1, <2>2 DEF Shown
  <2> QED
    BY <1>2, <1>3, <1>5, <2>3 DEF TablesFit, RowsFit, Shown
<1>8. /\ Shown(new) = Shown(rows) /\ RowsFit(new) /\ CopiesFit(new, copy') /\ HasBuiltin(new)
  <2>1. \A k \in Rows : DOMAIN new[k] = RowFields
    BY <1>2, <1>3, <1>5 DEF TablesFit, RowsFit
  <2>2. \A k \in Rows : new[k] # NoRow <=> rows[k] # NoRow
    BY <1>1, <1>4, <1>5 DEF Shown
  <2>3. \A k \in Shown(rows) :
            /\ new[k].loc \in Places \cup {Own}
            /\ new[k].builtin = rows[k].builtin
            /\ new[k].fresh # "never" =>
                 new[k].loc = rows[k].loc /\ (rows[k].fresh # "never" \/ copy'[k].src = rows[k].loc)
    BY <1>2, <1>3, <1>5 DEF TablesFit, RowsFit, Shown
  <2> QED
    BY <1>2, <1>5, <1>6, <1>7, <2>1, <2>2, <2>3, RowsMoved DEF TablesFit
<1>9. /\ RowsFit(table') /\ CopiesFit(table', copy') /\ ReadMeansItsOwnPlace' /\ TablesFit'
  BY <1>1, <1>6, <1>8, SavesKeep DEF TablesFit
<1>10. Shown(rows') = Shown(rows)
  BY <1>1, <1>8 DEF Saves, SaveFails, Undone
<1>11. WorkFits' /\ PlacesFit'
  BY <1>1, <1>10 DEF MarketInv, PlacesFit, WorkFits, ClearingFits, Clearing
<1> QED
  BY <1>1, <1>9, <1>11, MarketWhole

LEMMA RemovesKeep == ASSUME MarketInv, NEW w \in Workers, NEW i \in Rows, RemoveEntry(w, i) PROVE MarketInv'
<1> DEFINE new == [rows EXCEPT ![i] = NoRow]
           j == [Resting EXCEPT !.op = "clear", !.row = i]
<1>1. /\ Changeable /\ i \in Shown(rows) /\ ~ rows[i].builtin
      /\ \/ job' = [job EXCEPT ![w] = j] /\ Saves(new)
         \/ job' = [job EXCEPT ![w] = Resting] /\ SaveFails(new)
      /\ UNCHANGED <<copy, place, garbled, readOnly, unsaved, opened>>
  BY DEF RemoveEntry, Begins
<1>2. TablesFit
  BY <1>1 DEF MarketInv, SessionFits
<1>3. j.row = i /\ WorkOf(j)
  BY RestIsWork, Zenon DEF Resting
<1> HIDE DEF j
<1>4. CASE job' = [job EXCEPT ![w] = Resting] /\ SaveFails(new)
  BY <1>1, <1>4, RestIsWork, JobKeeps, Zenon DEF SaveFails, Undone
<1>5. CASE job' = [job EXCEPT ![w] = j] /\ Saves(new)
  <2>1. /\ DOMAIN new = Rows /\ \A k \in Rows : new[k] = IF k = i THEN NoRow ELSE rows[k]
        /\ Shown(new) = Shown(rows) \ {i}
    BY <1>2 DEF TablesFit, RowsFit, Shown
  <2> HIDE DEF new
  <2>2. RowsFit(new) /\ HasBuiltin(new)
    <3>1. DOMAIN NoRow = RowFields
      BY DEF NoRow, RowFields
    <3>2. RowsFit(new)
      BY <1>2, <2>1, <3>1 DEF TablesFit, RowsFit, Shown
    <3>3. HasBuiltin(new)
      BY <1>1, <1>2, <2>1 DEF TablesFit, HasBuiltin, Shown
    <3> QED
      BY <3>2, <3>3
  <2>3. Landed(copy') /\ CopiesFit(new, copy')
    BY <1>1, <1>2, <2>1 DEF Landed, TablesFit, CopiesFit, Shown
  <2>4. /\ RowsFit(table') /\ CopiesFit(table', copy') /\ ReadMeansItsOwnPlace' /\ TablesFit'
    BY <1>1, <1>5, <2>2, <2>3, SavesKeep DEF TablesFit
  <2>5. copy[i] # Nothing /\ Shown(rows') = Shown(rows) \ {i}
    BY <1>1, <1>2, <1>5, <2>1 DEF TablesFit, CopiesFit, Saves
  <2>6. \A v \in Workers : Clearing(v) => job[v].row # i /\ job[v].row \in Rows \ Shown(rows)
                                          /\ copy[job[v].row] # Nothing
    BY <1>1 DEF MarketInv, WorkFits, ClearingFits
  <2>7. WorkFits' /\ DOMAIN job' = Workers
    BY <1>1, <1>3, <1>5, <2>5, <2>6, WorkKeeps, Zenon
  <2> QED
    BY <1>1, <2>4, <2>7, MarketWhole DEF MarketInv, PlacesFit
<1> QED
  BY <1>1, <1>4, <1>5

\* What a worker writes is of the place it writes to.
LEMMA PutsFit ==
  ASSUME MarketInv, NEW w \in Workers, NEW i \in Rows, job[w].loc \in Places \cup {Own}, Puts(w, i)
  PROVE  /\ DOMAIN copy' = Rows /\ copy'[i] # Nothing /\ copy'[i].src = job[w].loc
         /\ \A k \in Rows \ {i} : copy'[k] = copy[k]
         /\ DOMAIN place' = Places
         /\ \A p \in Places : place'[p] # Nothing => place'[p].src = p
<1>1. Written(w).src = job[w].loc /\ Written(w) # Nothing
  BY MarketNames DEF Written
<1>2. DOMAIN copy = Rows /\ DOMAIN place = Places /\ \A p \in Places : place[p] # Nothing => place[p].src = p
  BY DEF MarketInv, PlacesFit
<1>3. copy' = [copy EXCEPT ![i] = Written(w)]
  BY DEF Puts
<1>4. place' = IF job[w].loc = Own THEN place ELSE [place EXCEPT ![job[w].loc] = Written(w)]
  BY DEF Puts
<1>5. DOMAIN place' = Places /\ \A p \in Places : place'[p] # Nothing => place'[p].src = p
  BY <1>1, <1>2, <1>4
<1> QED
  BY <1>1, <1>2, <1>3, <1>5

\* A worker that is done, whatever landed where a row was.
LEMMA DoneKeeps ==
  ASSUME MarketInv, NEW w \in Workers, job' = [job EXCEPT ![w] = Resting],
         NEW i \in Rows, Shown(rows') \subseteq Shown(rows) \cup {i},
         i \in Shown(rows) \/ copy[i] = Nothing,
         \A k \in Rows \ {i} : copy'[k] = copy[k]
  PROVE  WorkFits' /\ DOMAIN job' = Workers
<1>1. \A v \in Workers : Clearing(v) => job[v].row \in (Rows \ Shown(rows)) \ {i} /\ copy[job[v].row] # Nothing
  BY DEF MarketInv, WorkFits, ClearingFits
<1> QED
  BY <1>1, WorkKeeps, RestIsWork, Zenon

LEMMA SavesLand == ASSUME MarketInv, NEW w \in Workers, SaveCommits(w) PROVE MarketInv'
<1> DEFINE i == job[w].row
           new == [rows EXCEPT ![i].fresh = IF rows[i].loc = Own THEN rows[i].fresh ELSE "today"]
<1>1. /\ job[w].op = "save" /\ job' = [job EXCEPT ![w] = Resting]
      /\ UNCHANGED <<garbled, readOnly, unsaved, opened>>
      /\ IF rows[i] # NoRow /\ rows[i].loc = job[w].loc
         THEN Puts(w, i) /\ (Saves(new) \/ SaveFails(new))
         ELSE UNCHANGED <<rows, table, copy, place>>
  BY DEF SaveCommits, Rest, Becomes
<1>2. Changeable /\ TablesFit /\ i \in Rows /\ job[w].loc \in Places \cup {Own}
  BY <1>1, WorkMeansChangeable DEF MarketInv, WorkFits, WorkOf
<1>3. CASE ~ (rows[i] # NoRow /\ rows[i].loc = job[w].loc)
  <2>1. UNCHANGED <<rows, table, copy, place>>
    BY <1>1, <1>3
  <2> QED
    BY <1>1, <1>2, <2>1, RestIsWork, JobKeeps, Zenon
<1>4. CASE rows[i] # NoRow /\ rows[i].loc = job[w].loc
  <2>1. Puts(w, i) /\ (Saves(new) \/ SaveFails(new))
    BY <1>1, <1>4
  <2>2. /\ DOMAIN copy' = Rows /\ copy'[i] # Nothing /\ copy'[i].src = job[w].loc
        /\ \A k \in Rows \ {i} : copy'[k] = copy[k]
        /\ DOMAIN place' = Places
        /\ \A p \in Places : place'[p] # Nothing => place'[p].src = p
    BY <1>2, <2>1, PutsFit
  <2> HIDE DEF i
  <2>3. Landed(copy')
    BY <1>2, <1>4, <2>2 DEF Landed, Shown
  <2>4. /\ DOMAIN new = Rows
        /\ \A k \in Rows : /\ DOMAIN new[k] = RowFields /\ new[k].loc = rows[k].loc
                           /\ new[k].builtin = rows[k].builtin
                           /\ k # i => new[k] = rows[k]
    BY <1>2 DEF TablesFit, RowsFit, RowFields
  <2> HIDE DEF new
  <2>5. \A k \in Rows : new[k] # NoRow <=> rows[k] # NoRow
    <3>1. new[i].loc # "nowhere" /\ rows[i] # NoRow
      BY <1>2, <1>4, <2>4, MarketNames
    <3> QED
      BY <1>2, <2>4, <3>1, MarketNames
  <2>6. \A k \in Shown(rows) :
            /\ new[k].loc \in Places \cup {Own}
            /\ new[k].builtin = rows[k].builtin
            /\ new[k].fresh # "never" =>
                 new[k].loc = rows[k].loc /\ (rows[k].fresh # "never" \/ copy'[k].src = rows[k].loc)
    BY <1>2, <1>4, <2>2, <2>4 DEF TablesFit, RowsFit, Shown
  <2>7. \A k, m \in Shown(rows) : new[k].loc = new[m].loc /\ new[k].loc # Own => k = m
    BY <1>2, <2>4 DEF TablesFit, RowsFit, Shown
  <2>8. Shown(new) = Shown(rows) /\ RowsFit(new) /\ CopiesFit(new, copy') /\ HasBuiltin(new)
    BY <1>2, <2>3, <2>4, <2>5, <2>6, <2>7, RowsMoved DEF TablesFit
  <2>9. RowsFit(table') /\ CopiesFit(table', copy') /\ ReadMeansItsOwnPlace' /\ TablesFit'
    BY <1>1, <1>2, <2>1, <2>3, <2>8, SavesKeep DEF TablesFit
  <2>10. Shown(rows') = Shown(rows)
    BY <2>1, <2>8 DEF Saves, SaveFails, Undone
  <2>11. WorkFits' /\ DOMAIN job' = Workers
    BY <1>1, <1>2, <1>4, <2>2, <2>10, DoneKeeps, Zenon DEF Shown
  <2> QED
    BY <1>1, <1>2, <2>2, <2>9, <2>11, MarketWhole DEF PlacesFit
<1> QED
  BY <1>3, <1>4

LEMMA CreatesLand ==
  ASSUME MarketInv, NEW w \in Workers, NEW i \in Rows, CreateCommits(w, i)
  PROVE  MarketInv'
<1> DEFINE fresh == IF job[w].loc = Own THEN "never" ELSE "today"
           new == [rows EXCEPT ![i] = RowAt(job[w].loc, fresh)]
<1>1. /\ job[w].op = "create" /\ job' = [job EXCEPT ![w] = Resting]
      /\ i \notin Shown(rows) /\ copy[i] = Nothing
      /\ UNCHANGED <<garbled, readOnly, unsaved, opened>>
      /\ \/ FolderFree(job[w].loc) /\ Puts(w, i) /\ Saves(new)
         \/ SaveFails(new) /\ UNCHANGED <<copy, place>>
         \/ UNCHANGED <<rows, table, copy, place>>
  BY DEF CreateCommits, Rest, Becomes, RowAt
<1>2. Changeable /\ TablesFit /\ job[w].loc \in Places \cup {Own}
  BY <1>1, WorkMeansChangeable DEF MarketInv, WorkFits, WorkOf
<1> HIDE DEF new
<1>3. CASE (SaveFails(new) \/ UNCHANGED <<rows, table>>) /\ UNCHANGED <<copy, place>>
  BY <1>1, <1>2, <1>3, RestIsWork, JobKeeps, Zenon DEF SaveFails, Undone
<1>4. CASE FolderFree(job[w].loc) /\ Puts(w, i) /\ Saves(new)
  <2>1. /\ DOMAIN copy' = Rows /\ copy'[i] # Nothing /\ copy'[i].src = job[w].loc
        /\ \A k \in Rows \ {i} : copy'[k] = copy[k]
        /\ DOMAIN place' = Places
        /\ \A p \in Places : place'[p] # Nothing => place'[p].src = p
    BY <1>2, <1>4, PutsFit
  <2>2. Landed(copy')
    BY <1>1, <2>1 DEF Landed, Shown
  <2>3. job[w].loc # Own => ~ TakenIn(rows, job[w].loc, 0)
    BY <1>4 DEF FolderFree
  <2>4. RowsFit(new) /\ CopiesFit(new, copy') /\ HasBuiltin(new) /\ Shown(new) = Shown(rows) \cup {i}
    BY <1>1, <1>2, <2>1, <2>2, <2>3, RowAdded, Zenon DEF new
  <2>5. RowsFit(table') /\ CopiesFit(table', copy') /\ ReadMeansItsOwnPlace' /\ TablesFit'
    BY <1>1, <1>2, <1>4, <2>2, <2>4, SavesKeep DEF TablesFit
  <2>6. WorkFits' /\ DOMAIN job' = Workers
    BY <1>1, <1>4, <2>1, <2>4, DoneKeeps, Zenon DEF Saves
  <2> QED
    BY <1>1, <1>2, <2>1, <2>5, <2>6, MarketWhole DEF PlacesFit
<1> QED
  BY <1>1, <1>3, <1>4

\* The table a clean load shows: the one on disk, and one row of it built in.
LEMMA SeededFits ==
  ASSUME RowsFit(table), CopiesFit(table, copy), NEW t \in Seeded(table)
  PROVE  RowsFit(t) /\ CopiesFit(t, copy) /\ HasBuiltin(t) /\ Covers(t, table)
<1>1. DOMAIN table = Rows /\ \A i \in Rows : DOMAIN table[i] = RowFields
  BY DEF RowsFit
<1>2. \A i \in Rows : table[i] = NoRow => table[i].loc = "nowhere"
  BY MarketNames
<1>3. TakenIn(table, Hub, 0) <=> \E k \in Shown(table) : table[k].loc = Hub
  BY MarketAssumption DEF MarketAssumption, TakenIn, Shown
<1>4. Hub \in Places /\ Hub # Own
  BY DEF Places, Hub, Own
<1>5. CASE HasBuiltin(table)
  <2>1. t = table
    BY <1>5 DEF Seeded, HasBuiltin
  <2> QED
    BY <1>5, <2>1 DEF Covers, Shown
<1>6. CASE ~ HasBuiltin(table) /\ TakenIn(table, Hub, 0)
  <2> DEFINE at(i) == IF table[i].loc = Hub THEN [table[i] EXCEPT !.builtin = TRUE] ELSE table[i]
  <2>1. t = [i \in Rows |-> at(i)]
    BY <1>6 DEF Seeded, HasBuiltin
  <2>2. \A i \in Rows : /\ DOMAIN t[i] = RowFields /\ t[i].loc = table[i].loc
                        /\ t[i].fresh = table[i].fresh
    BY <1>1, <2>1 DEF RowFields
  <2>3. \A i \in Rows : IF table[i].loc = Hub THEN t[i].builtin = TRUE ELSE t[i] = table[i]
    BY <1>1, <2>1 DEF RowFields
  <2>4. \A i \in Rows : t[i] # NoRow <=> table[i] # NoRow
    <3> TAKE i \in Rows
    <3>1. CASE table[i].loc = Hub
      <4>1. t[i].loc # "nowhere" /\ table[i].loc # "nowhere"
        BY <1>4, <2>2, <3>1, MarketNames
      <4> QED
        BY <4>1, MarketNames
    <3>2. CASE table[i].loc # Hub
      BY <2>3, <3>2
    <3> QED
      BY <3>1, <3>2
  <2>5. DOMAIN t = Rows
    BY <2>1
  <2> HIDE DEF at
  <2>6. Shown(t) = Shown(table)
    BY <2>4 DEF Shown
  <2>7. \A i \in Shown(t) : t[i].builtin => table[i].loc = Hub
    BY <1>6, <2>3, <2>6 DEF HasBuiltin, Shown
  <2>8. RowsFit(t)
    BY <1>4, <2>2, <2>5, <2>6, <2>7 DEF RowsFit, Shown
  <2>9. CopiesFit(t, copy)
    BY <2>2, <2>3, <2>6 DEF CopiesFit, Shown
  <2>10. HasBuiltin(t)
    BY <1>3, <1>6, <2>3, <2>6 DEF HasBuiltin, Shown
  <2>11. Covers(t, table)
    BY <2>2, <2>4 DEF Covers, Shown
  <2> QED
    BY <2>8, <2>9, <2>10, <2>11
<1>7. CASE ~ HasBuiltin(table) /\ ~ TakenIn(table, Hub, 0)
  <2> DEFINE new == [NoRow EXCEPT !.loc = Hub, !.auto = TRUE, !.builtin = TRUE]
  <2>1. PICK k \in Rows \ Shown(table) : t = [table EXCEPT ![k] = new]
    BY <1>7 DEF Seeded, HasBuiltin
  <2>2. DOMAIN new = RowFields /\ new.loc = Hub /\ new.builtin = TRUE /\ new.fresh = "never"
    BY DEF NoRow, RowFields
  <2>3. new # NoRow
    BY <1>4, <2>2, MarketNames, Zenon
  <2> HIDE DEF new
  <2>4. DOMAIN t = Rows /\ t[k] = new /\ \A i \in Rows \ {k} : t[i] = table[i]
    BY <1>1, <2>1
  <2>5. Shown(t) = Shown(table) \cup {k}
    BY <2>3, <2>4 DEF Shown
  <2>6. \A i \in Shown(table) : i # k /\ table[i].loc # Hub /\ ~ table[i].builtin
    BY <1>3, <1>7 DEF HasBuiltin
  <2>7. RowsFit(t)
    <3>1. \A i \in Rows : DOMAIN t[i] = RowFields
      BY <1>1, <2>2, <2>4
    <3>2. \A i \in Shown(t) : t[i].loc \in Places \cup {Own}
      BY <1>4, <2>2, <2>4, <2>5 DEF RowsFit, Shown
    <3>3. \A i, m \in Shown(t) : t[i].loc = t[m].loc /\ t[i].loc # Own => i = m
      BY <2>2, <2>4, <2>5, <2>6 DEF RowsFit, Shown
    <3>4. \A i, m \in Shown(t) : t[i].builtin /\ t[m].builtin => i = m
      BY <2>4, <2>5, <2>6 DEF Shown
    <3> QED
      BY <2>4, <3>1, <3>2, <3>3, <3>4 DEF RowsFit
  <2>8. CopiesFit(t, copy)
    BY <2>2, <2>4, <2>5 DEF CopiesFit, Shown
  <2>9. HasBuiltin(t)
    BY <2>2, <2>4, <2>5 DEF HasBuiltin
  <2>10. Covers(t, table)
    BY <2>1, <2>4 DEF Covers, Shown
  <2> QED
    BY <2>7, <2>8, <2>9, <2>10
<1> QED
  BY <1>5, <1>6, <1>7

\* Nobody works while the app is down, or in a session that may change nothing.
LEMMA IdleFits ==
  ASSUME PlacesFit', \A w \in Workers : job'[w] = Resting
  PROVE  WorkFits'
BY RestIsWork, Zenon DEF WorkFits, ClearingFits, Clearing, Resting

LEMMA LoadsKeep ==
  ASSUME MarketInv, NEW t, Loads(t), garbled \/ t \in Seeded(table)
  PROVE  MarketInv'
<1>1. /\ ~ opened /\ opened' = TRUE /\ readOnly' = garbled /\ garbled' = garbled
      /\ UNCHANGED <<place, job>>
      /\ copy' = [i \in Rows |-> IF i \in CopiesSpared(t) THEN copy[i] ELSE Nothing]
  BY DEF Loads
<1>2. \A w \in Workers : job'[w] = Resting
  BY <1>1 DEF MarketInv, SessionFits, Changeable
<1>3. PlacesFit'
  BY <1>1 DEF MarketInv, PlacesFit
<1>4. WorkFits'
  BY <1>2, <1>3, IdleFits
<1>5. CASE garbled
  <2>1. rows' = [i \in Rows |-> NoRow] /\ table' = table /\ \A i \in Rows : copy'[i] = copy[i]
    BY <1>1, <1>5 DEF Loads, CopiesSpared
  <2>2. Shown(rows') = {}
    BY <2>1 DEF Shown
  <2>3. RowsFit(table') /\ CopiesFit(table', copy') /\ ReadMeansItsOwnPlace'
    BY <2>1, <2>2 DEF MarketInv, CopiesFit, Shown, ReadMeansItsOwnPlace
  <2>4. SessionFits'
    BY <1>1, <1>2, <1>5, <2>2 DEF SessionFits, Changeable
  <2> QED
    BY <1>3, <1>4, <2>3, <2>4 DEF MarketInv
<1>6. CASE ~ garbled
  <2>1. t \in Seeded(table) /\ rows' = t
    BY <1>6 DEF Loads
  <2>2. \/ table' = t /\ unsaved' = FALSE
        \/ table' = table /\ unsaved' = TRUE
    BY <1>6 DEF Loads
  <2>3. \A i \in Shown(t) : copy'[i] = copy[i]
    BY <1>1, <1>6 DEF CopiesSpared, Shown
  <2>4. RowsFit(t) /\ CopiesFit(t, copy) /\ HasBuiltin(t) /\ Covers(t, table)
    BY <2>1, SeededFits DEF MarketInv
  <2>5. CopiesFit(t, copy') /\ Shown(table) \subseteq Shown(t)
    BY <2>3, <2>4 DEF CopiesFit, Covers, Shown
  <2>6. RowsFit(table') /\ CopiesFit(table', copy') /\ Covers(t, table')
    <3>1. CASE table' = t
      BY <2>4, <2>5, <3>1 DEF Covers, Shown
    <3>2. CASE table' = table
      BY <2>3, <2>4, <2>5, <3>2 DEF MarketInv, CopiesFit
    <3> QED
      BY <2>2, <3>1, <3>2
  <2>7. ReadMeansItsOwnPlace'
    BY <2>1, <2>5 DEF CopiesFit, ReadMeansItsOwnPlace
  <2>8. ~ unsaved' => rows' = table'
    BY <2>1, <2>2
  <2>9. TablesFit'
    BY <2>1, <2>4, <2>5, <2>6, <2>8 DEF TablesFit
  <2>10. SessionFits'
    BY <1>1, <1>2, <1>6, <2>9 DEF SessionFits, Changeable
  <2> QED
    BY <1>3, <1>4, <2>6, <2>7, <2>10 DEF MarketInv
<1> QED
  BY <1>5, <1>6

LEMMA OutsideKeeps == ASSUME MarketInv, Crashes \/ Garbles \/ StopsSweeping PROVE MarketInv'
<1>1. UNCHANGED <<rows, table, copy, place, unsaved>>
  BY DEF Crashes, Garbles, StopsSweeping
<1>2. RowsFit(table') /\ CopiesFit(table', copy') /\ ReadMeansItsOwnPlace'
  BY <1>1 DEF MarketInv, ReadMeansItsOwnPlace
<1>3. CASE Crashes
  <2>1. opened' = FALSE /\ job' = [w \in Workers |-> Resting]
    BY <1>3 DEF Crashes
  <2>2. PlacesFit' /\ SessionFits'
    BY <1>1, <2>1 DEF MarketInv, PlacesFit, SessionFits, Changeable
  <2> QED
    BY <1>2, <2>1, <2>2, IdleFits DEF MarketInv
<1>4. CASE Garbles
  <2>1. ~ opened /\ ~ opened' /\ job' = job
    BY <1>4 DEF Garbles
  <2>2. PlacesFit' /\ SessionFits' /\ \A w \in Workers : job'[w] = Resting
    BY <1>1, <2>1 DEF MarketInv, PlacesFit, SessionFits, Changeable
  <2> QED
    BY <1>2, <2>2, IdleFits DEF MarketInv
<1>5. CASE StopsSweeping
  <2>1. UNCHANGED <<job, garbled, readOnly, opened>>
    BY <1>5 DEF StopsSweeping
  <2> QED
    BY <1>1, <1>2, <2>1 DEF MarketInv, PlacesFit, SessionFits, Changeable, TablesFit, WorkFits,
                            ClearingFits, Clearing
<1> QED
  BY <1>3, <1>4, <1>5

LEMMA DatesAge == ASSUME MarketInv, DayPasses PROVE MarketInv'
<1> DEFINE aged(i) == IF rows[i].fresh = "today" THEN [rows[i] EXCEPT !.fresh = "old"] ELSE rows[i]
<1>1. /\ rows = table /\ ~ unsaved /\ ~ garbled
      /\ rows' = [i \in Rows |-> aged(i)] /\ table' = rows'
      /\ UNCHANGED <<copy, place, job, garbled, readOnly, unsaved, opened>>
  BY DEF DayPasses
<1>2. RowsFit(rows) /\ CopiesFit(rows, copy)
  BY <1>1 DEF MarketInv
<1>3. /\ DOMAIN rows' = Rows
      /\ \A i \in Rows : /\ DOMAIN rows'[i] = RowFields /\ rows'[i].loc = rows[i].loc
                         /\ rows'[i].builtin = rows[i].builtin
                         /\ rows'[i].fresh = IF rows[i].fresh = "today" THEN "old" ELSE rows[i].fresh
                         /\ rows[i].fresh # "today" => rows'[i] = rows[i]
  BY <1>1, <1>2 DEF RowsFit, RowFields
<1> HIDE DEF aged
<1>4. \A i \in Rows : rows'[i] # NoRow <=> rows[i] # NoRow
  <2> TAKE i \in Rows
  <2>1. CASE rows[i].fresh # "today"
    BY <1>3, <2>1
  <2>2. CASE rows[i].fresh = "today"
    <3>1. NoRow.fresh = "never"
      BY DEF NoRow
    <3> QED
      BY <1>3, <2>2, <3>1
  <2> QED
    BY <2>1, <2>2
<1>5. \A i \in Shown(rows) :
         /\ rows'[i].loc \in Places \cup {Own}
         /\ rows'[i].builtin = rows[i].builtin
         /\ rows'[i].fresh # "never" =>
              rows'[i].loc = rows[i].loc /\ (rows[i].fresh # "never" \/ copy'[i].src = rows[i].loc)
  BY <1>2, <1>3 DEF RowsFit, Shown
<1>6. \A i, k \in Shown(rows) : rows'[i].loc = rows'[k].loc /\ rows'[i].loc # Own => i = k
  BY <1>2, <1>3 DEF RowsFit, Shown
<1>7. Landed(copy')
  BY <1>1 DEF Landed
<1>8. /\ Shown(rows') = Shown(rows) /\ RowsFit(rows') /\ CopiesFit(rows', copy')
      /\ HasBuiltin(rows) => HasBuiltin(rows')
  BY <1>2, <1>3, <1>4, <1>5, <1>6, <1>7, RowsMoved
<1>9. Covers(rows', table') /\ ReadMeansItsOwnPlace'
  BY <1>1, <1>8 DEF Covers, CopiesFit, ReadMeansItsOwnPlace, Shown
<1>10. PlacesFit' /\ WorkFits'
  BY <1>1, <1>8 DEF MarketInv, PlacesFit, WorkFits, ClearingFits, Clearing
<1>11. Changeable => TablesFit'
  BY <1>1, <1>8, <1>9 DEF MarketInv, SessionFits, TablesFit
<1>12. SessionFits'
  BY <1>1, <1>8, <1>11 DEF MarketInv, SessionFits, Changeable
<1> QED
  BY <1>1, <1>8, <1>9, <1>10, <1>12 DEF MarketInv

LEMMA MarketStep == ASSUME MarketInv, MarketNext PROVE MarketInv'
<1>1. CASE StopsSweeping \/ Crashes \/ Garbles \/ DayPasses
  BY <1>1, OutsideKeeps, DatesAge
<1>2. CASE IF garbled THEN Loads(table) ELSE \E t \in Seeded(table) : Loads(t)
  BY <1>2, LoadsKeep
<1>3. CASE \E w \in Workers : ClearEnds(w) \/ RefreshCommits(w) \/ Exports(w) \/ SaveCommits(w)
  BY <1>3, ClearKeeps, RefreshKeeps, ExportKeeps, SavesLand
<1>4. CASE \E w \in Workers : \/ \E loc \in Places : AddReads(w, loc)
                              \/ \E loc \in Folders \cup {Own} : CreateBegins(w, loc)
                              \/ \E x \in job[w].todo, b \in BOOLEAN : FetchOne(w, x, b)
  BY <1>4, AddBegins, CreateStarts, FetchKeeps
<1>5. CASE \E w \in Workers, i \in Rows :
             AddCommits(w, i) \/ RemoveEntry(w, i) \/ CatalogSaveBegins(w, i) \/ CreateCommits(w, i)
  BY <1>5, AddsKeep, RemovesKeep, SaveStarts, CreatesLand
<1>6. CASE \E w \in Workers, i \in Rows, whose \in {"one", "all", "due"} : RefreshBegins(w, whose, i)
  BY <1>6, RefreshStarts
<1>7. CASE \E i \in Rows, loc \in Places \cup {Own}, updates \in BOOLEAN : Settings(i, loc, updates)
  BY <1>7, SettingsKeep
<1> QED
  BY <1>1, <1>2, <1>3, <1>4, <1>5, <1>6, <1>7 DEF MarketNext

CatalogsPart == part = "catalogs" => MarketInv

LEMMA CatalogsInvariance == Spec => []CatalogsPart
<1>1. Init => CatalogsPart
  BY MarketStarts DEF Init, CatalogsPart
<1>2. CatalogsPart /\ [Next]_allVars => CatalogsPart'
  <2> SUFFICES ASSUME CatalogsPart, [Next]_allVars, part' = "catalogs"
               PROVE  MarketInv'
    BY DEF CatalogsPart
  <2>1. part' = part
    BY DEF Next, Still, allVars
  <2>2. MarketInv
    BY <2>1 DEF CatalogsPart
  <2>3. MarketNext \/ UNCHANGED marketVars
    BY <2>1 DEF Next, allVars
  <2>4. CASE UNCHANGED marketVars
    BY <2>2, <2>4 DEF marketVars, MarketInv, PlacesFit, SessionFits, TablesFit, Changeable, WorkFits,
                      ClearingFits, Clearing, ReadMeansItsOwnPlace
  <2> QED
    BY <2>2, <2>3, <2>4, MarketStep
<1> QED
  BY <1>1, <1>2, PTL DEF Spec

\* A table that cannot be read is not written over, and no copy it names is taken
\* away, until somebody repairs it (marketplace.py:830-878).
THEOREM GarbledAlwaysSpared == Spec => [][part = "catalogs" => GarbledLosesNothing]_allVars
<1>1. ASSUME MarketInv, MarketNext PROVE GarbledLosesNothing
  <2> SUFFICES ASSUME garbled
               PROVE  table' = table /\ \A i \in Shown(table) : copy'[i] = copy[i]
    BY DEF GarbledLosesNothing
  <2>1. ~ Changeable /\ \A w \in Workers : job[w].op = "rest"
    BY <1>1 DEF MarketInv, SessionFits, Changeable, Resting
  <2>2. CASE StopsSweeping \/ Crashes \/ Garbles \/ DayPasses
    BY <2>2, Zenon DEF StopsSweeping, Crashes, Garbles, DayPasses
  <2>3. CASE IF garbled THEN Loads(table) ELSE \E t \in Seeded(table) : Loads(t)
    BY <2>3 DEF Loads, CopiesSpared, Shown
  <2>4. CASE \E w \in Workers : ClearEnds(w) \/ RefreshCommits(w) \/ Exports(w) \/ SaveCommits(w)
    BY <2>1, <2>4, Zenon DEF ClearEnds, RefreshCommits, Exports, SaveCommits
  <2>5. CASE \E w \in Workers : \/ \E loc \in Places : AddReads(w, loc)
                                \/ \E loc \in Folders \cup {Own} : CreateBegins(w, loc)
                                \/ \E x \in job[w].todo, b \in BOOLEAN : FetchOne(w, x, b)
    BY <2>5, Zenon DEF AddReads, CreateBegins, FetchOne
  <2>6. CASE \E w \in Workers, i \in Rows :
               AddCommits(w, i) \/ RemoveEntry(w, i) \/ CatalogSaveBegins(w, i) \/ CreateCommits(w, i)
    BY <2>1, <2>6, Zenon DEF AddCommits, RemoveEntry, CatalogSaveBegins, CreateCommits, Begins
  <2>7. CASE \E w \in Workers, i \in Rows, whose \in {"one", "all", "due"} : RefreshBegins(w, whose, i)
    BY <2>7 DEF RefreshBegins
  <2>8. CASE \E i \in Rows, loc \in Places \cup {Own}, updates \in BOOLEAN : Settings(i, loc, updates)
    BY <2>1, <2>8 DEF Settings
  <2> QED
    BY <1>1, <2>2, <2>3, <2>4, <2>5, <2>6, <2>7, <2>8 DEF MarketNext
<1>2. CatalogsPart /\ [Next]_allVars => [part = "catalogs" => GarbledLosesNothing]_allVars
  BY <1>1 DEF Next, CatalogsPart
<1> QED
  BY <1>2, CatalogsInvariance, PTL DEF Spec

-----------------------------------------------------------------------------
(***************************************************************************)
(* Execution records: the inductive invariant.  An index row may be behind   *)
(* its yaml only where the file that holds it is older too (`recent`), or     *)
(* where a write of the row failed and nothing was told of the record since.  *)
(***************************************************************************)
RowsLand == {"index_at_start", "late_checkpoint"} \cap Faults = {}
EveryRowLands == RowsLand /\ "index" \notin Faults

Looking == phase \in {"repair", "interrupt", "serving"}

RowsEver(r) == {base[r]} \cup {wal[i][2] : i \in {i \in 1..Len(wal) : wal[i][1] = r}}

\* What the row of a record has to say: an outcome that was told, an execution
\* whose step group runs, a change that is about to be remembered.
Firm(r) == \/ "index" \notin Faults
           \/ told[r] # Unset
           \/ group[r] # Unset /\ op.rec # r
           \/ op.rec = r /\ op.at = "memory"
Matched(r) == r \in dir /\ yaml[r] # Unset /\ Firm(r) /\ ~ (op.rec = r /\ op.at = "index")

StoreTypes ==
    /\ {dir, thread, live, kept, gone, aside, stale} \subseteq SUBSET Recs
    /\ {yaml, base, execs, told} \subseteq [Recs -> Statuses \cup {Unset}]
    /\ group \in [Recs -> {Unset, "waiting", "running"}]
    /\ wal \in Seq(Recs \X (Statuses \cup {Unset}))
    /\ order \in Seq(Recs) /\ {order[i] : i \in 1..Len(order)} = 1..Len(order)
    /\ phase \in {"down", "reconcile", "repair", "interrupt", "serving"}

\* A directory is in place or was taken away for good.
PlacesKept ==
    /\ dir \cup gone \subseteq 1..Len(order) /\ dir \cap gone = {} /\ aside \subseteq gone
    /\ \A r \in Recs : yaml[r] # Unset => r \in dir \cup aside
    /\ \A r \in kept : r \in dir /\ yaml[r] # Unset

Writing == {"create", "promote", "finish", "retry", "skip", "spawn", "adopt", "repair"}
ChangeFits ==
    LET r == op.rec IN
    /\ DOMAIN op = DOMAIN Idle /\ (op.kind = "idle" => op = Idle)
    /\ op.kind # "idle" => r \in Recs /\ told[r] = Unset
    /\ op.kind \in Writing => /\ op.at \in {"yaml", "index", "memory"} /\ r \in dir
                              /\ op.to \in Statuses
                              /\ IF op.kind = "create" THEN execs[r] = Unset ELSE yaml[r] # Unset
                              /\ r \in thread <=> op.kind \in {"finish", "spawn"}
                              /\ op.at # "yaml" => yaml[r] = op.to
                              /\ op.at = "index" => r \in recent
    /\ op.kind \in {"delete", "sweep"} =>
         execs[r] \in Ended /\ ((op.at = "rename" /\ r \in dir) \/ (op.at = "row" /\ r \in gone))
    /\ op.kind \in Writing \cup {"delete", "sweep", "idle"}
    /\ op.kind = "adopt" => phase = "repair" /\ op.to # "executing"
    /\ op.kind = "repair" => phase = "interrupt" /\ op.to = "interrupted"
    /\ op.kind \notin {"idle", "adopt", "repair"} => phase = "serving"
    /\ op.kind = "spawn" => /\ op.to = "executing" /\ op.pg = TRUE
                            /\ op.at # "yaml" => r \in pgid
    /\ op.kind # "idle" /\ group[r] # Unset => op.kind = "spawn" /\ group[r] = "waiting"

\* A step group is that of a record that is executing and has a thread, or of one
\* the start has still to look at.
GroupsFit ==
    /\ \A r \in Recs : group[r] # Unset =>
         /\ r \in dir /\ yaml[r] = "executing"
         /\ op.rec # r => r \in pgid
         /\ phase = "serving" => r \in thread
         /\ phase # "serving" => group[r] = "running"
         /\ phase = "repair" => r \in stale
         /\ phase # "interrupt"
    /\ phase # "serving" => thread = {}
    /\ \A r \in thread : /\ r \in live /\ execs[r] = "executing"
                         /\ op.rec # r => yaml[r] = "executing"

RowsFollow ==
    /\ Looking => \A r \in Recs : Matched(r) => Row(r) = yaml[r]
    /\ \A r \in Recs \ recent : Matched(r) => RowsEver(r) \subseteq {Unset, yaml[r]}

\* The start has looked at every record that is not stale.
StartFits ==
    phase = "reconcile" =>
        \A r \in Recs :
            /\ execs[r] = Row(r)
            /\ r \in dir \ stale => /\ yaml[r] # Unset /\ execs[r] # Unset
                                    /\ Firm(r) => execs[r] = yaml[r]
            /\ r \in stale \ newer => (Matched(r) => execs[r] \in {Unset, yaml[r]})

TableFits ==
    /\ Looking => \A r \in Recs : /\ execs[r] # Unset /\ op.rec # r => r \in dir /\ yaml[r] # Unset
                                  /\ r \in kept => execs[r] # Unset
                                  /\ told[r] # Unset => execs[r] = told[r]
    /\ phase \in {"repair", "interrupt"} => \A r \in stale : execs[r] \in Live
    /\ phase = "interrupt" => \A r \in stale : op.rec # r => yaml[r] = "executing"
    /\ \A r \in Recs : told[r] # Unset => r \in dir /\ told[r] \in Ended /\ yaml[r] = told[r]

StoreInv == /\ StoreTypes /\ PlacesKept /\ ChangeFits /\ GroupsFit
            /\ RowsFollow /\ StartFits /\ TableFits

LEMMA HasLast ==
  ASSUME NEW n \in Nat, NEW S, S \subseteq 1..n, S # {}
  PROVE  \E i \in S : \A j \in S : j =< i
<1> DEFINE T == {i..n : i \in S}
<1>1. IsWellFoundedOn(StrictSubsetOrdering(Nat), FiniteSubsetsOf(Nat))
  BY FS_StrictSubsetOrderingWellFounded
<1>2. T \subseteq FiniteSubsetsOf(Nat)
  <2> SUFFICES ASSUME NEW i \in S PROVE i..n \in FiniteSubsetsOf(Nat) OBVIOUS
  <2>1. i \in Int /\ n \in Int /\ i..n \subseteq Nat
    OBVIOUS
  <2>2. IsFiniteSet(i..n)
    BY <2>1, FS_Interval
  <2> QED BY <2>1, <2>2 DEF FiniteSubsetsOf
<1>3. T # {}
  BY Zenon
<1>4. PICK x \in T : \A y \in T : ~(<<y, x>> \in StrictSubsetOrdering(Nat))
  <2> HIDE DEF T
  <2> QED BY <1>1, <1>2, <1>3, WFMin
<1>5. PICK i \in S : x = i..n
  BY <1>4
<1>6. ASSUME NEW j \in S, j > i PROVE FALSE
  <2>1. j..n \subseteq i..n /\ j..n # i..n /\ j..n \subseteq Nat /\ i..n \subseteq Nat
    BY <1>6
  <2>2. <<j..n, i..n>> \in StrictSubsetOrdering(Nat)
    BY <2>1 DEF StrictSubsetOrdering
  <2> QED BY <1>4, <1>5, <1>6, <2>2, Zenon
<1> QED
  BY <1>6

\* The row of a record is one of those the index ever had for it.
LEMMA RowIsOneOf ==
  ASSUME StoreTypes, NEW r \in Recs
  PROVE  Row(r) \in RowsEver(r)
<1> DEFINE those == {i \in 1..Len(wal) : wal[i][1] = r}
<1>1. Len(wal) \in Nat
  BY DEF StoreTypes
<1>2. CASE those = {}
  BY <1>2 DEF Row, RowIn, RowsEver
<1>3. CASE those # {}
  <2>1. \E i \in those : \A j \in those : j =< i
    BY <1>1, <1>3, HasLast, Zenon
  <2>2. (CHOOSE i \in those : \A j \in those : j =< i) \in those
    BY <2>1
  <2>3. Row(r) = wal[CHOOSE i \in those : \A j \in those : j =< i][2]
    BY <1>3 DEF Row, RowIn
  <2> QED
    BY <2>2, <2>3, Zenon DEF RowsEver
<1> QED
  BY <1>2, <1>3

\* A commit changes the row of its record and no other; the index file may take in
\* what was committed, and is the newest then.
LEMMA CommitLands ==
  ASSUME StoreTypes, NEW r \in Recs, NEW s, Commit(r, s)
  PROVE  /\ Row(r)' = s /\ \A q \in Recs \ {r} : Row(q)' = Row(q)
         /\ \/ /\ recent' = recent
               /\ RowsEver(r)' \subseteq RowsEver(r) \cup {s}
               /\ \A q \in Recs \ {r} : RowsEver(q)' = RowsEver(q)
            \/ /\ phase # "reconcile" \/ "late_checkpoint" \in Faults
               /\ \A q \in Recs : RowsEver(q)' = {Row(q)'}
<1>1. CASE wal' = Append(wal, <<r, s>>) /\ UNCHANGED <<base, recent>>
  <2>1. /\ Len(wal) \in Nat /\ Len(wal') = Len(wal) + 1 /\ wal'[Len(wal) + 1] = <<r, s>>
        /\ \A i \in 1..Len(wal) : wal'[i] = wal[i]
    BY <1>1 DEF StoreTypes
  <2>2. ASSUME NEW q \in Recs \ {r} PROVE Row(q)' = Row(q) /\ RowsEver(q)' = RowsEver(q)
    <3> DEFINE those == {i \in 1..Len(wal) : wal[i][1] = q}
               now2 == {i \in 1..Len(wal') : wal'[i][1] = q}
    <3>1. now2 = those
      BY <2>1
    <3>2. Row(q)' = IF now2 = {} THEN base'[q] ELSE wal'[CHOOSE i \in now2 : \A j \in now2 : j =< i][2]
      BY DEF Row, RowIn
    <3>3. Row(q) = IF those = {} THEN base[q] ELSE wal[CHOOSE i \in those : \A j \in those : j =< i][2]
      BY DEF Row, RowIn
    <3>4. those # {} => (CHOOSE i \in those : \A j \in those : j =< i) \in those
      BY <2>1, HasLast, Zenon
    <3>5. RowsEver(q)' = {base'[q]} \cup {wal'[i][2] : i \in now2} /\ RowsEver(q) = {base[q]} \cup {wal[i][2] : i \in those}
      BY DEF RowsEver
    <3>6. \A i \in those : i \in 1..Len(wal)
      OBVIOUS
    <3> HIDE DEF those, now2
    <3> DEFINE last == CHOOSE i \in those : \A j \in those : j =< i
    <3>7. Row(q)' = (IF those = {} THEN base[q] ELSE wal'[last][2])
      BY <1>1, <3>1, <3>2
    <3>8. Row(q)' = Row(q)
      <4> HIDE DEF last
      <4>1. those # {} => wal'[last] = wal[last]
        BY <2>1, <3>4, <3>6 DEF last
      <4>2. Row(q) = (IF those = {} THEN base[q] ELSE wal[last][2])
        BY <3>3 DEF last
      <4> QED
        BY <3>7, <4>1, <4>2
    <3>9. RowsEver(q)' = RowsEver(q)
      BY <1>1, <2>1, <3>1, <3>5, <3>6
    <3> QED
      BY <3>8, <3>9
  <2>3. Row(r)' = s
    <3> DEFINE now2 == {i \in 1..Len(wal') : wal'[i][1] = r}
    <3>1. Len(wal) + 1 \in now2 /\ \A i \in now2 : i =< Len(wal) + 1 /\ i \in Int
      BY <2>1
    <3>2. (CHOOSE i \in now2 : \A j \in now2 : j =< i) = Len(wal) + 1
      BY <2>1, <3>1
    <3>3. Row(r)' = wal'[Len(wal) + 1][2]
      BY <3>1, <3>2, Zenon DEF Row, RowIn
    <3> QED
      BY <2>1, <3>3
  <2>4. RowsEver(r)' \subseteq RowsEver(r) \cup {s}
    BY <1>1, <2>1 DEF RowsEver
  <2> QED
    BY <1>1, <2>2, <2>3, <2>4
<1>2. CASE /\ phase # "reconcile" \/ "late_checkpoint" \in Faults
           /\ base' = [q \in Recs |-> IF q = r THEN s ELSE Row(q)]
           /\ wal' = <<>> /\ recent' = {}
  <2>1. Len(wal') = 0
    BY <1>2
  <2>2. \A q \in Recs : Row(q)' = base'[q] /\ RowsEver(q)' = {base'[q]}
    BY <2>1 DEF Row, RowIn, RowsEver
  <2> QED
    BY <1>2, <2>2
<1> QED
  BY <1>1, <1>2 DEF Commit

LEMMA RowsStay ==
  ASSUME UNCHANGED <<base, wal>>
  PROVE  \A r \in Recs : Row(r)' = Row(r) /\ RowsEver(r)' = RowsEver(r)
BY DEF Row, RowIn, RowsEver

LEMMA IdleIs ==
  /\ DOMAIN Idle = {"kind", "rec", "to", "pg", "at"}
  /\ Idle.rec = 0 /\ Idle.at = "none" /\ Idle.kind = "idle" /\ 0 \notin Recs
BY DEF Idle, Recs

\* The index is as it was, and no more is expected of it.
LEMMA RowsKept ==
  ASSUME StoreInv, UNCHANGED <<base, wal, recent, yaml>>, Looking' => Looking,
         \A r \in Recs : Matched(r)' => Matched(r)
  PROVE  RowsFollow'
BY RowsStay DEF StoreInv, RowsFollow

\* A change begins, with nothing written yet.
LEMMA BeginInv ==
  ASSUME StoreInv, Serving, NEW r \in Recs, r \in dir, yaml[r] # Unset, NEW kind, NEW to, NEW pg, NEW at,
         Begin(kind, r, to, pg, at),
         UNCHANGED <<disk, phase, execs, live, thread, stale, kept, gone>>,
         \/ kind \in {"finish", "retry", "skip"} /\ group[r] = Unset /\ group' = group
              /\ (r \in thread <=> kind = "finish")
         \/ kind = "spawn" /\ to = "executing" /\ pg = TRUE /\ r \in thread
              /\ group' = [group EXCEPT ![r] = "waiting"]
         \/ kind \in {"delete", "sweep"} /\ at = "rename" /\ execs[r] \in Ended
              /\ group[r] = Unset /\ group' = group,
         kind \in {"finish", "retry", "skip", "spawn"} => at = "yaml" /\ to \in Statuses
  PROVE  StoreInv'
<1>1. /\ op = Idle /\ op.rec = 0 /\ phase = "serving" /\ phase' = "serving"
      /\ UNCHANGED <<dir, yaml, pgid, aside, recent, base, wal, order>>
  BY IdleIs DEF Serving, StoreInv, ChangeFits, disk
<1>2. /\ DOMAIN op' = DOMAIN Idle /\ op'.kind = kind /\ op'.rec = r /\ op'.to = to /\ op'.pg = pg
      /\ op'.at = at
  BY IdleIs DEF Begin
<1>3. told' = [told EXCEPT ![r] = Unset]
  BY DEF Begin
<1>4. StoreTypes'
  BY <1>1, <1>3, Zenon DEF StoreInv, StoreTypes
<1>5. PlacesKept'
  BY <1>1 DEF StoreInv, PlacesKept
<1>6. ChangeFits'
  BY <1>1, <1>2, <1>3 DEF StoreInv, ChangeFits, StoreTypes, Writing
<1>7. GroupsFit'
  BY <1>1, <1>2, IdleIs DEF StoreInv, GroupsFit, StoreTypes
<1>8. RowsFollow'
  <2>1. \A q \in Recs : Matched(q)' => Matched(q)
    BY <1>1, <1>2, <1>3, IdleIs DEF Matched, Firm, StoreInv, StoreTypes
  <2> QED
    BY <1>1, <2>1, RowsKept DEF Looking
<1>9. StartFits'
  BY <1>1 DEF StartFits
<1>10. TableFits'
  BY <1>1, <1>2, <1>3, IdleIs DEF StoreInv, TableFits, StoreTypes, Looking
<1> QED
  BY <1>4, <1>5, <1>6, <1>7, <1>8, <1>9, <1>10 DEF StoreInv

\* What is true of a record while nothing else is going on.
LEMMA ServingFacts ==
  ASSUME StoreInv, Serving
  PROVE  /\ op = Idle /\ op.rec = 0 /\ phase = "serving"
         /\ \A r \in Recs : execs[r] # Unset => r \in dir /\ yaml[r] # Unset
         /\ \A r \in Recs : r \in thread => r \in dir /\ execs[r] = "executing"
         /\ \A r \in Recs : group[r] # Unset => r \in thread
BY IdleIs DEF StoreInv, Serving, ChangeFits, TableFits, GroupsFit, Looking, Unset

LEMMA RequestsBegin ==
  ASSUME StoreInv, NEW r \in Recs,
         \/ \E s \in Ended : Finish(r, s)
         \/ Retry(r) \/ Skip(r) \/ Spawn(r) \/ Delete(r)
  PROVE  StoreInv'
<1> USE DEF Live, Ended, Statuses, Unset
<1>0. Serving
  BY Zenon DEF Finish, Retry, Skip, Spawn, Delete
<1>1. CASE \E s \in Ended : Finish(r, s)
  BY <1>0, <1>1, BeginInv, ServingFacts, Zenon DEF Finish, Change
<1>2. CASE Retry(r)
  BY <1>0, <1>2, BeginInv, ServingFacts, Zenon DEF Retry, Change
<1>3. CASE Skip(r)
  BY <1>0, <1>3, BeginInv, ServingFacts, Zenon DEF Skip, Change
<1>4. CASE Spawn(r)
  BY <1>0, <1>4, BeginInv, ServingFacts, Zenon DEF Spawn
<1>5. CASE Delete(r)
  BY <1>0, <1>5, BeginInv, ServingFacts, Zenon DEF Delete
<1> QED
  BY <1>1, <1>2, <1>3, <1>4, <1>5

LEMMA CreateInv == ASSUME StoreInv, NEW r \in Recs, NEW s, Create(r, s) PROVE StoreInv'
<1>1. /\ op = Idle /\ op.rec = 0 /\ phase = "serving" /\ phase' = "serving" /\ s \in Live
      /\ r = Len(order) + 1 /\ dir' = dir \cup {r} /\ order' = Append(order, r)
      /\ told' = [told EXCEPT ![r] = Unset]
      /\ UNCHANGED <<yaml, pgid, aside, recent, base, wal, execs, live, thread, group, stale, kept, gone>>
  BY ServingFacts DEF Create, Serving, Begin
<1>2. /\ DOMAIN op' = DOMAIN Idle /\ op'.kind = "create" /\ op'.rec = r /\ op'.to = s
      /\ op'.at = "yaml"
  BY IdleIs DEF Create, Begin
<1>3. /\ Len(order) \in Nat /\ Len(order') = Len(order) + 1
      /\ order' \in Seq(Recs) /\ {order'[i] : i \in 1..Len(order')} = 1..Len(order')
  <2>1. order \in Seq(Recs) /\ {order[i] : i \in 1..Len(order)} = 1..Len(order)
    BY DEF StoreInv, StoreTypes
  <2>2. /\ Len(order) \in Nat /\ Len(order') = Len(order) + 1 /\ order'[Len(order) + 1] = r
        /\ \A i \in 1..Len(order) : order'[i] = order[i]
    BY <1>1, <2>1
  <2>3. {order'[i] : i \in 1..Len(order')} = {order[i] : i \in 1..Len(order)} \cup {r}
    BY <2>2
  <2>4. 1..Len(order') = 1..Len(order) \cup {r}
    BY <1>1, <2>2
  <2>5. order' \in Seq(Recs)
    BY <1>1, <2>1
  <2> QED
    BY <2>1, <2>2, <2>3, <2>4, <2>5, Zenon
<1>4. /\ r \notin dir /\ r \notin gone /\ r \notin aside /\ yaml[r] = Unset /\ group[r] = Unset
      /\ execs[r] = Unset /\ r \notin thread
  BY <1>1, <1>3, ServingFacts DEF StoreInv, PlacesKept, GroupsFit, Create
<1>5. StoreTypes'
  <2>1. {dir', thread', live', kept', gone', aside', stale'} \subseteq SUBSET Recs
    BY <1>1 DEF StoreInv, StoreTypes
  <2>2. told' \in [Recs -> Statuses \cup {Unset}]
    BY <1>1 DEF StoreInv, StoreTypes
  <2>3. wal' \in Seq(Recs \X (Statuses \cup {Unset}))
    BY <1>1 DEF StoreInv, StoreTypes
  <2>4. /\ {yaml', base', execs'} \subseteq [Recs -> Statuses \cup {Unset}]
        /\ group' \in [Recs -> {Unset, "waiting", "running"}]
        /\ phase' \in {"down", "reconcile", "repair", "interrupt", "serving"}
    BY <1>1 DEF StoreInv, StoreTypes
  <2> QED
    BY <1>3, <2>1, <2>2, <2>3, <2>4 DEF StoreTypes
<1>6. PlacesKept'
  BY <1>1, <1>3, <1>4 DEF StoreInv, PlacesKept
<1>7. ChangeFits'
  BY <1>1, <1>2, <1>4 DEF StoreInv, ChangeFits, StoreTypes, Writing, Live, Statuses
<1>8. GroupsFit'
  BY <1>1, <1>2, <1>4, IdleIs DEF StoreInv, GroupsFit, StoreTypes
<1>9. RowsFollow'
  <2>1. \A q \in Recs : Matched(q)' => Matched(q)
    BY <1>1, <1>2, <1>4, IdleIs DEF Matched, Firm, StoreInv, StoreTypes
  <2> QED
    BY <1>1, <2>1, RowsKept DEF Looking
<1>10. StartFits'
  BY <1>1 DEF StartFits
<1>11. TableFits'
  BY <1>1, <1>2, <1>4, IdleIs DEF StoreInv, TableFits, StoreTypes, Looking
<1> QED
  BY <1>5, <1>6, <1>7, <1>8, <1>9, <1>10, <1>11 DEF StoreInv

LEMMA NewestKeeps ==
  ASSUME StoreTypes, NEW r \in 1..Len(order)
  PROVE  /\ Newest(r) \in Seq(Recs) /\ Len(Newest(r)) = Len(order)
         /\ {Newest(r)[i] : i \in 1..Len(order)} = 1..Len(order)
<1> DEFINE n == Len(order)
           at == CHOOSE i \in 1..n : order[i] = r
           new == [i \in 1..n |-> IF i = n THEN r ELSE IF i < at THEN order[i] ELSE order[i + 1]]
<1>1. /\ n \in Nat /\ \A i \in 1..n : order[i] \in Recs
      /\ {order[i] : i \in 1..n} = 1..n
  <2>1. order \in Seq(Recs) /\ {order[i] : i \in 1..n} = 1..n
    BY DEF StoreTypes
  <2> QED
    BY <2>1, LenProperties, ElementOfSeq
<1>2. Newest(r) = new
  BY DEF Newest
<1>3. at \in 1..n /\ order[at] = r
  BY <1>1
<1> HIDE DEF at
<1>4. new \in [1..n -> Recs]
  BY <1>1, <1>3
<1>5. new \in Seq(Recs) /\ Len(new) = n
  BY <1>1, <1>4
<1>6. \A i \in 1..n : \E k \in 1..n : order[i] = new[k]
  <2> TAKE i \in 1..n
  <2>1. CASE i < at
    BY <1>1, <1>3, <2>1
  <2>2. CASE i = at
    BY <1>1, <1>3, <2>2
  <2>3. CASE i > at
    <3>1. i - 1 \in 1..n /\ new[i - 1] = order[i]
      BY <1>1, <1>3, <2>3
    <3> QED
      BY <3>1
  <2> QED
    BY <1>1, <1>3, <2>1, <2>2, <2>3
<1>7. \A k \in 1..n : \E i \in 1..n : new[k] = order[i]
  <2> TAKE k \in 1..n
  <2>1. CASE k = n
    BY <1>3, <2>1
  <2>2. CASE k # n /\ k < at
    BY <1>1, <1>3, <2>2
  <2>3. CASE k # n /\ ~ (k < at)
    BY <1>1, <1>3, <2>3
  <2> QED
    BY <2>1, <2>2, <2>3
<1> HIDE DEF new
<1>8. {new[i] : i \in 1..n} = {order[i] : i \in 1..n}
  <2>1. \A x \in {new[i] : i \in 1..n} : x \in {order[i] : i \in 1..n}
    BY <1>7, Zenon
  <2>2. \A x \in {order[i] : i \in 1..n} : x \in {new[i] : i \in 1..n}
    BY <1>6, Zenon
  <2> QED
    BY <2>1, <2>2, Zenon
<1> QED
  BY <1>1, <1>2, <1>5, <1>8, Zenon

LEMMA PromoteInv == ASSUME StoreInv, NEW r \in Recs, Promote(r) PROVE StoreInv'
<1>1. /\ op = Idle /\ op.rec = 0 /\ phase = "serving" /\ phase' = "serving" /\ execs[r] = "queued"
      /\ execs' = [execs EXCEPT ![r] = "executing"] /\ order' = Newest(r)
      /\ told' = [told EXCEPT ![r] = Unset]
      /\ UNCHANGED <<dir, yaml, pgid, aside, recent, base, wal, live, thread, group, stale, kept, gone>>
  BY ServingFacts DEF Promote, Serving, Begin
<1>2. /\ DOMAIN op' = DOMAIN Idle /\ op'.kind = "promote" /\ op'.rec = r /\ op'.to = "executing"
      /\ op'.at = "yaml"
  BY IdleIs DEF Promote, Begin
<1>3. r \in dir /\ yaml[r] # Unset /\ r \notin thread /\ group[r] = Unset
  BY <1>1, ServingFacts DEF Promote, Unset
<1>4. /\ order' \in Seq(Recs) /\ Len(order') = Len(order)
      /\ {order'[i] : i \in 1..Len(order')} = 1..Len(order')
  <2>1. StoreTypes /\ r \in 1..Len(order)
    BY <1>3 DEF StoreInv, PlacesKept
  <2>2. /\ Newest(r) \in Seq(Recs) /\ Len(Newest(r)) = Len(order)
        /\ {Newest(r)[i] : i \in 1..Len(order)} = 1..Len(order)
    BY <2>1, NewestKeeps
  <2> HIDE DEF Newest
  <2> QED
    BY <1>1, <2>2
<1>5. StoreTypes'
  BY <1>1, <1>4 DEF StoreInv, StoreTypes, Statuses, Live
<1>6. PlacesKept'
  BY <1>1, <1>3, <1>4 DEF StoreInv, PlacesKept
<1>7. ChangeFits'
  BY <1>1, <1>2, <1>3 DEF StoreInv, ChangeFits, StoreTypes, Writing, Live, Statuses
<1>8. GroupsFit'
  BY <1>1, <1>2, <1>3, IdleIs DEF StoreInv, GroupsFit, StoreTypes
<1>9. RowsFollow'
  <2>1. \A q \in Recs : Matched(q)' => Matched(q)
    BY <1>1, <1>2, <1>3, IdleIs DEF Matched, Firm, StoreInv, StoreTypes
  <2> QED
    BY <1>1, <2>1, RowsKept DEF Looking
<1>10. StartFits'
  BY <1>1 DEF StartFits
<1>11. TableFits'
  BY <1>1, <1>2, <1>3, IdleIs DEF StoreInv, TableFits, StoreTypes, Looking, Unset
<1> QED
  BY <1>5, <1>6, <1>7, <1>8, <1>9, <1>10, <1>11 DEF StoreInv

\* A queue entry that cannot be written ends in memory alone.
LEMMA EndStrandedInv == ASSUME StoreInv, NEW r \in Recs, EndStranded(r) PROVE StoreInv'
<1>1. /\ op = Idle /\ op.rec = 0 /\ phase = "serving" /\ execs[r] = "queued"
      /\ execs' = [execs EXCEPT ![r] = "skipped"]
      /\ UNCHANGED <<dir, yaml, pgid, aside, recent, base, wal, order, phase, live, thread, op, stale,
                     group, told, kept, gone>>
  BY ServingFacts DEF EndStranded, Serving, disk, ghost
<1>2. StoreTypes' /\ PlacesKept'
  <2>1. execs \in [Recs -> Statuses \cup {Unset}] /\ "skipped" \in Statuses
    BY DEF StoreInv, StoreTypes, Statuses, Ended
  <2>2. execs' \in [Recs -> Statuses \cup {Unset}]
    BY <1>1, <2>1
  <2>3. StoreTypes'
    BY <1>1, <2>2 DEF StoreInv, StoreTypes
  <2>4. PlacesKept'
    BY <1>1, Zenon DEF StoreInv, PlacesKept
  <2> QED
    BY <2>3, <2>4
<1>3. ChangeFits'
  BY <1>1, IdleIs DEF StoreInv, ChangeFits, Writing
<1>4. GroupsFit'
  BY <1>1 DEF StoreInv, StoreTypes, GroupsFit
<1>5. RowsFollow'
  BY <1>1, RowsKept DEF Matched, Firm, Looking
<1>6. StartFits'
  BY <1>1 DEF StartFits
<1>7. TableFits'
  BY <1>1 DEF StoreInv, TableFits, StoreTypes, Looking, Ended, Unset
<1> QED
  BY <1>2, <1>3, <1>4, <1>5, <1>6, <1>7 DEF StoreInv

\* A step group takes its context, or ends.
LEMMA GroupInv == ASSUME StoreInv, NEW r \in Recs, HandContext(r) \/ StepEnds(r) PROVE StoreInv'
<1>1. /\ op = Idle /\ op.rec = 0 /\ phase = "serving" /\ group[r] # Unset
      /\ \E g \in {Unset, "running"} : group' = [group EXCEPT ![r] = g]
      /\ UNCHANGED <<dir, yaml, pgid, aside, recent, base, wal, order, phase, execs, live, thread, op,
                     stale, newer, told, kept, gone>>
  BY ServingFacts DEF HandContext, StepEnds, Serving, disk, memory, ghost, Unset
<1>2. StoreTypes' /\ PlacesKept'
  BY <1>1 DEF StoreInv, StoreTypes, PlacesKept
<1>3. ChangeFits'
  BY <1>1, IdleIs DEF StoreInv, ChangeFits, Writing
<1>4. GroupsFit'
  BY <1>1 DEF StoreInv, StoreTypes, GroupsFit
<1>5. RowsFollow'
  <2>1. \A q \in Recs : Matched(q)' => Matched(q)
    BY <1>1, IdleIs DEF Matched, Firm, StoreInv, StoreTypes
  <2> QED
    BY <1>1, <2>1, RowsKept DEF Looking
<1>6. StartFits'
  BY <1>1 DEF StartFits
<1>7. TableFits'
  BY <1>1 DEF StoreInv, TableFits, Looking
<1> QED
  BY <1>2, <1>3, <1>4, <1>5, <1>6, <1>7 DEF StoreInv

\* Nothing changes that the invariant speaks of.
LEMMA StoreStays ==
  ASSUME StoreInv, UNCHANGED <<disk, phase, execs, live, thread, op, stale, newer, group, ghost>>
  PROVE  StoreInv'
<1>1. UNCHANGED <<dir, yaml, pgid, aside, recent, base, wal, order, told, kept, gone>>
  BY DEF disk, ghost
<1>2. \A r \in Recs : Matched(r)' = Matched(r) /\ Firm(r)' = Firm(r)
  BY <1>1 DEF Matched, Firm
<1>3. RowsFollow' /\ StartFits'
  BY <1>1, <1>2, RowsStay DEF StoreInv, RowsFollow, StartFits, Looking
<1> QED
  BY <1>1, <1>3 DEF StoreInv, StoreTypes, PlacesKept, ChangeFits, GroupsFit, TableFits, Looking

LEMMA SweepInv == ASSUME StoreInv, (\E n \in 1..Len(order) : SelectOld(n)) \/ (\E r \in Recs : SweepOld(r)) PROVE StoreInv'
<1>1. CASE \E n \in 1..Len(order) : SelectOld(n)
  BY <1>1, StoreStays DEF SelectOld
<1>2. ASSUME NEW r \in Recs, SweepOld(r) PROVE StoreInv'
  <2>1. CASE StillSettled(r)
    BY <1>2, <2>1, BeginInv, ServingFacts, Zenon DEF SweepOld, StillSettled, Ended, Unset
  <2>2. CASE ~ StillSettled(r)
    BY <1>2, <2>2, StoreStays DEF SweepOld, ghost
  <2> QED
    BY <2>1, <2>2
<1> QED
  BY <1>1, <1>2

LEMMA WriteYamlInv == ASSUME StoreInv, WriteYaml PROVE StoreInv'
<1>1. /\ op.at = "yaml" /\ yaml' = [yaml EXCEPT ![op.rec] = op.to]
      /\ pgid' = IF op.pg THEN pgid \cup {op.rec} ELSE pgid \ {op.rec}
      /\ recent' = recent \cup {op.rec} /\ op' = [op EXCEPT !.at = "index"]
      /\ UNCHANGED <<dir, aside, base, wal, order, phase, execs, live, thread, group, stale, newer,
                     told, kept, gone>>
  BY DEF WriteYaml, ghost
<1>2. /\ op.kind \in Writing /\ op.rec \in Recs /\ op.rec \in dir /\ told[op.rec] = Unset
      /\ op.to \in Statuses /\ op.to # Unset
  BY <1>1, IdleIs DEF StoreInv, ChangeFits, Writing, Statuses, Live, Ended, Unset
<1>3. /\ DOMAIN op' = DOMAIN Idle /\ op'.kind = op.kind /\ op'.rec = op.rec /\ op'.to = op.to
      /\ op'.pg = op.pg /\ op'.at = "index"
  BY <1>1, IdleIs DEF StoreInv, ChangeFits
<1>4. StoreTypes'
  BY <1>1, <1>2 DEF StoreInv, StoreTypes
<1>5. PlacesKept'
  BY <1>1, <1>2 DEF StoreInv, StoreTypes, PlacesKept
<1>6. ChangeFits'
  BY <1>1, <1>2, <1>3, IdleIs DEF StoreInv, StoreTypes, ChangeFits, Writing
<1>7. GroupsFit'
  <2>1. \A r \in Recs : r # op.rec => (r \in pgid' <=> r \in pgid) /\ yaml'[r] = yaml[r]
    BY <1>1
  <2>2. group[op.rec] # Unset => op.to = "executing"
    BY <1>2, IdleIs DEF StoreInv, ChangeFits, Writing
  <2>3. yaml'[op.rec] = op.to
    BY <1>1, <1>2 DEF StoreInv, StoreTypes
  <2>4. \A r \in Recs : group[r] # Unset =>
         /\ r \in dir' /\ yaml'[r] = "executing"
         /\ op'.rec # r => r \in pgid'
    BY <1>1, <1>2, <1>3, <2>1, <2>2, <2>3 DEF StoreInv, GroupsFit
  <2>5. \A r \in thread' : op'.rec # r => yaml'[r] = "executing"
    BY <1>1, <1>3, <2>1 DEF StoreInv, GroupsFit, StoreTypes
  <2> QED
    BY <1>1, <2>4, <2>5 DEF StoreInv, GroupsFit
<1>8. RowsFollow'
  <2>1. \A r \in Recs : Matched(r)' => r # op.rec /\ Matched(r) /\ yaml'[r] = yaml[r]
    BY <1>1, <1>2, <1>3 DEF Matched, Firm, StoreInv, StoreTypes
  <2> QED
    BY <1>1, <2>1, RowsStay DEF StoreInv, RowsFollow, Looking
<1>9. StartFits'
  BY <1>1, <1>2, IdleIs DEF StoreInv, ChangeFits, StartFits, Writing
<1>10. TableFits'
  BY <1>1, <1>2, <1>3 DEF StoreInv, StoreTypes, TableFits, Looking
<1> QED
  BY <1>4, <1>5, <1>6, <1>7, <1>8, <1>9, <1>10 DEF StoreInv

LEMMA AppendKeeps ==
  ASSUME NEW S, NEW s \in Seq(S), NEW e \in S
  PROVE  Append(s, e) \in Seq(S) /\ <<>> \in Seq(S)
OBVIOUS

LEMMA UpsertInv == ASSUME StoreInv, RowsLand, Upsert PROVE StoreInv'
<1>1. /\ op.at = "index" /\ Commit(op.rec, op.to) /\ op' = [op EXCEPT !.at = "memory"]
      /\ UNCHANGED <<dir, yaml, pgid, aside, order, phase, execs, live, thread, group, stale, newer,
                     told, kept, gone>>
  BY DEF Upsert, ghost
<1>2. /\ op.kind \in Writing /\ op.rec \in Recs /\ op.rec \in dir /\ told[op.rec] = Unset
      /\ op.to \in Statuses /\ yaml[op.rec] = op.to /\ op.rec \in recent
  BY <1>1, IdleIs DEF StoreInv, ChangeFits, Writing
<1>3. /\ DOMAIN op' = DOMAIN Idle /\ op'.kind = op.kind /\ op'.rec = op.rec /\ op'.to = op.to
      /\ op'.pg = op.pg /\ op'.at = "memory"
  BY <1>1, IdleIs DEF StoreInv, ChangeFits
<1>4. Looking
  BY <1>2 DEF StoreInv, ChangeFits, Writing, Looking
<1>5. StoreTypes'
  <2>1. wal' \in Seq(Recs \X (Statuses \cup {Unset}))
    <3>1. wal' = Append(wal, <<op.rec, op.to>>) \/ wal' = <<>>
      BY <1>1 DEF Commit
    <3>2. <<op.rec, op.to>> \in Recs \X (Statuses \cup {Unset})
      BY <1>2
    <3>3. wal \in Seq(Recs \X (Statuses \cup {Unset}))
      BY DEF StoreInv, StoreTypes
    <3> DEFINE commits == Recs \X (Statuses \cup {Unset})
               commit == <<op.rec, op.to>>
    <3> HIDE DEF commits, commit
    <3>4. wal \in Seq(commits) /\ commit \in commits
      BY <3>2, <3>3 DEF commits, commit
    <3>5. wal' = Append(wal, commit) \/ wal' = <<>>
      BY <3>1 DEF commit
    <3>6. wal' \in Seq(commits)
      BY <3>4, <3>5, AppendKeeps, Zenon
    <3> QED
      BY <3>6 DEF commits
  <2>2. base' \in [Recs -> Statuses \cup {Unset}]
    <3>1. \A q \in Recs : Row(q) \in Statuses \cup {Unset}
      BY RowIsOneOf DEF StoreInv, StoreTypes, RowsEver
    <3> QED
      BY <1>1, <1>2, <3>1 DEF Commit, StoreInv, StoreTypes
  <2> QED
    BY <1>1, <2>1, <2>2 DEF StoreInv, StoreTypes
<1>6. PlacesKept'
  BY <1>1 DEF StoreInv, PlacesKept
<1>7. ChangeFits'
  BY <1>1, <1>2, <1>3, IdleIs DEF StoreInv, ChangeFits, Writing
<1>8. GroupsFit'
  BY <1>1, <1>3 DEF StoreInv, GroupsFit
<1>9. RowsFollow'
  <2>1. /\ Row(op.rec)' = op.to /\ \A q \in Recs \ {op.rec} : Row(q)' = Row(q)
        /\ \/ /\ recent' = recent
              /\ \A q \in Recs \ {op.rec} : RowsEver(q)' = RowsEver(q)
           \/ \A q \in Recs : RowsEver(q)' = {Row(q)'}
    BY <1>1, <1>2, CommitLands DEF StoreInv
  <2>2. \A r \in Recs : Matched(r)' => r = op.rec \/ Matched(r)
    BY <1>1, <1>2, <1>3 DEF Matched, Firm
  <2>3. \A r \in Recs : Matched(r)' => Row(r)' = yaml'[r]
    BY <1>1, <1>2, <1>4, <2>1, <2>2 DEF StoreInv, RowsFollow
  <2>4. \A r \in Recs \ recent' : Matched(r)' => RowsEver(r)' \subseteq {Unset, yaml'[r]}
    BY <1>1, <1>2, <2>1, <2>2, <2>3 DEF StoreInv, RowsFollow
  <2> QED
    BY <2>3, <2>4 DEF RowsFollow
<1>10. StartFits'
  BY <1>1, <1>4 DEF StartFits, Looking
<1>11. TableFits'
  BY <1>1, <1>3 DEF StoreInv, TableFits, Looking
<1> QED
  BY <1>5, <1>6, <1>7, <1>8, <1>9, <1>10, <1>11 DEF StoreInv

LEMMA RememberInv == ASSUME StoreInv, Remember PROVE StoreInv'
<1> DEFINE r == op.rec
<1>1. /\ op.at = "memory" /\ op' = Idle
      /\ UNCHANGED <<dir, yaml, pgid, aside, recent, base, wal, order, phase, group, newer, gone>>
      /\ execs' = [execs EXCEPT ![r] = op.to]
      /\ live' = IF op.to = "executing" THEN live \cup {r} ELSE live \ {r}
      /\ thread' = IF op.to = "executing" /\ phase = "serving" THEN thread \cup {r} ELSE thread \ {r}
      /\ told' = IF op.to \in Ended THEN [told EXCEPT ![r] = op.to] ELSE told
      /\ kept' = kept \cup {r} /\ stale' = stale \ {r}
  BY DEF Remember, disk
<1>2. /\ op.kind \in Writing /\ r \in Recs /\ r \in dir /\ told[r] = Unset
      /\ op.to \in Statuses /\ yaml[r] = op.to /\ yaml[r] # Unset
  BY <1>1, IdleIs DEF StoreInv, ChangeFits, Writing, Statuses, Live, Ended, Unset
<1>3. Looking
  BY <1>2 DEF StoreInv, ChangeFits, Writing, Looking
<1>4. Matched(r)
  BY <1>1, <1>2 DEF Matched, Firm
<1>5. group[r] # Unset => op.to = "executing" /\ phase = "serving" /\ r \in pgid
  BY <1>1, <1>2 DEF StoreInv, ChangeFits, Writing
<1>6. op'.rec = 0 /\ op'.kind = "idle" /\ op'.at = "none" /\ \A q \in Recs : op'.rec # q
  BY <1>1, IdleIs
<1> HIDE DEF r
<1>7. StoreTypes'
  BY <1>1, <1>2 DEF StoreInv, StoreTypes
<1>8. PlacesKept'
  BY <1>1, <1>2 DEF StoreInv, PlacesKept
<1>9. ChangeFits'
  BY <1>1, <1>6 DEF ChangeFits, Writing
<1>10. GroupsFit'
  <2>1. \A q \in Recs : group[q] # Unset => q \in pgid
    BY <1>5 DEF StoreInv, GroupsFit, r
  <2>2. \A q \in Recs : group[q] # Unset /\ phase = "serving" => q \in thread'
    BY <1>1, <1>5 DEF StoreInv, GroupsFit
  <2>3. \A q \in Recs : group[q] # Unset /\ phase = "repair" => q \in stale'
    BY <1>1, <1>5 DEF StoreInv, GroupsFit
  <2>4. phase # "serving" => thread' = {}
    BY <1>1 DEF StoreInv, GroupsFit
  <2>5. \A q \in thread' : q \in live' /\ execs'[q] = "executing" /\ yaml'[q] = "executing"
    BY <1>1, <1>2 DEF StoreInv, GroupsFit, StoreTypes, r
  <2> QED
    BY <1>1, <2>1, <2>2, <2>3, <2>4, <2>5 DEF StoreInv, GroupsFit
<1>11. RowsFollow'
  <2>1. \A q \in Recs : Matched(q)' => Matched(q)
    BY <1>1, <1>2, <1>4, <1>6 DEF Matched, Firm, StoreInv, StoreTypes, r
  <2> QED
    BY <1>1, <2>1, RowsKept DEF Looking
<1>12. StartFits'
  BY <1>1, <1>3 DEF StartFits, Looking
<1>13. TableFits'
  <2>1. execs'[r] = op.to /\ \A q \in Recs : q # r => execs'[q] = execs[q]
    BY <1>1, <1>2 DEF StoreInv, StoreTypes
  <2>2. \A q \in Recs : told'[q] # Unset => told'[q] = told[q] \/ (q = r /\ told'[q] = op.to /\ op.to \in Ended)
    BY <1>1, <1>2 DEF StoreInv, StoreTypes
  <2>3. \A q \in Recs : execs'[q] # Unset => q \in dir /\ yaml[q] # Unset
    BY <1>2, <1>3, <2>1 DEF StoreInv, TableFits, r
  <2>4. \A q \in Recs : q \in kept' => execs'[q] # Unset
    BY <1>1, <1>2, <1>3, <2>1 DEF StoreInv, TableFits
  <2>5. \A q \in Recs : told'[q] # Unset => execs'[q] = told'[q] /\ q \in dir /\ told'[q] \in Ended
                                            /\ yaml[q] = told'[q]
    BY <1>2, <1>3, <2>1, <2>2 DEF StoreInv, TableFits
  <2>6. phase \in {"repair", "interrupt"} => \A q \in stale' : execs'[q] \in Live
    BY <1>1, <2>1 DEF StoreInv, TableFits, StoreTypes
  <2>7. phase = "interrupt" => \A q \in stale' : yaml[q] = "executing"
    BY <1>1 DEF StoreInv, TableFits, r
  <2> QED
    BY <1>1, <2>3, <2>4, <2>5, <2>6, <2>7 DEF TableFits, Looking
<1> QED
  BY <1>7, <1>8, <1>9, <1>10, <1>11, <1>12, <1>13 DEF StoreInv

\* A write that fails leaves the disk as it was; what is tried instead begins, or
\* the record is given up.
LEMMA WriteFailsInv == ASSUME StoreInv, WriteFails PROVE StoreInv'
<1> DEFINE r == op.rec
           again(kind, s) == op' = [op EXCEPT !.kind = kind, !.to = s, !.pg = FALSE, !.at = "yaml"]
           givesUp(s) == /\ op' = Idle /\ execs' = [execs EXCEPT ![r] = s]
                         /\ live' = live \ {r} /\ thread' = thread \ {r}
<1>1. /\ op.at \in {"yaml", "index"} /\ (op.at = "index" => "index" \in Faults)
      /\ UNCHANGED <<dir, yaml, pgid, aside, recent, base, wal, order, phase, newer, told, kept, gone>>
  BY DEF WriteFails, CanFail, disk, ghost
<1>2. /\ op.kind \in Writing /\ r \in Recs /\ r \in dir /\ told[r] = Unset /\ Looking
  BY <1>1, IdleIs DEF StoreInv, ChangeFits, Writing, Looking
<1>3. \/ /\ op.kind = "promote" /\ again("skip", "skipped")
         /\ execs' = [execs EXCEPT ![r] = "skipped"] /\ UNCHANGED <<live, thread, group, stale>>
      \/ /\ op.kind \in {"finish", "spawn"} /\ group' = [group EXCEPT ![r] = Unset] /\ stale' = stale
         /\ \/ givesUp("failed")
            \/ again("finish", "failed") /\ UNCHANGED <<execs, live, thread>>
      \/ /\ op.kind \in {"create", "retry", "skip"} /\ UNCHANGED <<group, stale>>
         /\ givesUp(IF op.kind = "skip" THEN "skipped" ELSE execs[r])
      \/ /\ op.kind \in {"adopt", "repair"} /\ stale' = stale \ {r} /\ UNCHANGED group
         /\ givesUp(execs[r])
  BY DEF WriteFails
<1>4. group'[r] = Unset /\ \A q \in Recs : q # r => group'[q] = group[q]
  BY <1>2, <1>3 DEF StoreInv, ChangeFits, StoreTypes
<1>5. /\ group' \in [Recs -> {Unset, "waiting", "running"}]
      /\ \A q \in Recs : q # r => execs'[q] = execs[q] /\ (q \in thread' <=> q \in thread)
                                  /\ (q \in stale' <=> q \in stale) /\ (q \in live' <=> q \in live)
  BY <1>2, <1>3 DEF StoreInv, StoreTypes
<1>6. execs' \in [Recs -> Statuses \cup {Unset}]
  BY <1>2, <1>3 DEF StoreInv, StoreTypes, Statuses, Ended
<1>7. StoreTypes'
  BY <1>1, <1>3, <1>5, <1>6 DEF StoreInv, StoreTypes
<1>8. PlacesKept'
  BY <1>1 DEF StoreInv, PlacesKept
<1>9. \A q \in Recs : Matched(q)' => Matched(q) /\ (q = r => op'.rec = 0 \/ op.at = "yaml")
  <2>1. CASE op' = Idle
    BY <1>1, <1>2, <1>4, <2>1, IdleIs DEF Matched, Firm
  <2>2. CASE op'.rec = r /\ op'.at = "yaml"
    BY <1>1, <1>2, <1>4, <2>2 DEF Matched, Firm
  <2> QED
    BY <1>1, <1>3, <2>1, <2>2, IdleIs, Zenon DEF StoreInv, ChangeFits
<1>10. RowsFollow'
  BY <1>1, <1>9, RowsKept DEF Looking
<1>11. StartFits'
  BY <1>1, <1>2 DEF StartFits, Looking
<1> USE DEF Statuses, Live, Ended, Unset
<1>12. CASE /\ DOMAIN op' = DOMAIN Idle /\ op'.rec = r /\ op'.at = "yaml"
            /\ phase = "serving" /\ op'.kind \in {"skip", "finish"} /\ op'.to \in {"skipped", "failed"}
            /\ UNCHANGED <<live, thread, stale>> /\ execs'[r] # Unset
            /\ (r \in thread => execs'[r] = "executing") /\ yaml[r] # Unset
            /\ (r \in thread <=> op'.kind = "finish")
  <2>1. /\ DOMAIN op' = DOMAIN Idle /\ op'.rec = r /\ op'.at = "yaml"
    BY <1>12
  <2>2. ChangeFits'
    BY <1>1, <1>2, <1>4, <1>12, <2>1 DEF ChangeFits, Writing
  <2>3. GroupsFit'
    <3>1. \A q \in Recs : group'[q] # Unset =>
            /\ q \in dir' /\ yaml'[q] = "executing" /\ (op'.rec # q => q \in pgid') /\ q \in thread'
      BY <1>1, <1>2, <1>4, <1>12, <2>1 DEF StoreInv, GroupsFit
    <3>2. \A q \in thread' : /\ q \in live' /\ execs'[q] = "executing"
                             /\ op'.rec # q => yaml'[q] = "executing"
      BY <1>1, <1>2, <1>5, <1>12, <2>1 DEF StoreInv, GroupsFit, StoreTypes
    <3> QED
      BY <1>1, <1>12, <3>1, <3>2 DEF GroupsFit
  <2>4. TableFits'
    BY <1>1, <1>2, <1>5, <1>12, <2>1 DEF StoreInv, TableFits, Looking
  <2> QED
    BY <1>7, <1>8, <1>10, <1>11, <2>2, <2>3, <2>4 DEF StoreInv
<1>13. CASE op' = Idle /\ r \notin thread' /\ (r \in stale' => phase = "serving")
            /\ (execs'[r] = execs[r] \/ (op.kind \in {"finish", "spawn", "skip"} /\ execs'[r] # Unset))
  <2>1. ChangeFits'
    BY <1>13, IdleIs DEF ChangeFits, Writing
  <2>2. GroupsFit'
    <3>1. \A q \in Recs : group'[q] # Unset =>
            /\ q # r /\ group'[q] = group[q] /\ q \in dir' /\ yaml'[q] = "executing" /\ q \in pgid'
      BY <1>1, <1>2, <1>4 DEF StoreInv, GroupsFit
    <3>2. \A q \in Recs : q # r => /\ (q \in thread' <=> q \in thread)
                                   /\ (q \in stale' <=> q \in stale)
      BY <1>5
    <3>3. \A q \in thread' : /\ q \in live' /\ execs'[q] = "executing" /\ yaml'[q] = "executing"
      <4> TAKE q \in thread'
      <4>1. q \in Recs /\ q # r
        BY <1>7, <1>13 DEF StoreTypes
      <4>2. q \in thread /\ execs'[q] = execs[q] /\ (q \in live' <=> q \in live)
        BY <1>5, <4>1
      <4> QED
        BY <1>1, <4>1, <4>2 DEF StoreInv, GroupsFit
    <3>4. phase' # "serving" => thread' = {}
      <4>1. thread \subseteq Recs /\ thread' \subseteq Recs
        BY <1>7 DEF StoreInv, StoreTypes
      <4> QED
        BY <1>1, <1>13, <3>2, <4>1 DEF StoreInv, GroupsFit
    <3> QED
      BY <1>1, <3>1, <3>2, <3>3, <3>4 DEF StoreInv, GroupsFit
  <2>3. TableFits'
    <3>1. \A q \in Recs : q # r => execs'[q] = execs[q] /\ (q \in stale' <=> q \in stale)
      BY <1>5
    <3>2. execs'[r] # Unset => r \in dir /\ yaml[r] # Unset
      BY <1>2, <1>13 DEF StoreInv, TableFits, ChangeFits, Writing, Looking, PlacesKept
    <3>3. r \in kept => execs'[r] # Unset
      BY <1>2, <1>13 DEF StoreInv, TableFits
    <3>4. phase # "serving" => \A q \in stale' : q # r /\ q \in Recs
      BY <1>7, <1>13 DEF StoreTypes
    <3> QED
      BY <1>1, <1>2, <1>13, <3>1, <3>2, <3>3, <3>4 DEF StoreInv, TableFits, Looking
  <2> QED
    BY <1>7, <1>8, <1>10, <1>11, <2>1, <2>2, <2>3 DEF StoreInv
<1>14. CASE op' = Idle
  <2>1. r \notin thread' /\ (execs'[r] = execs[r] \/ (op.kind \in {"finish", "spawn", "skip"} /\ execs'[r] # Unset))
    BY <1>2, <1>3, <1>14, IdleIs, Zenon DEF StoreInv, StoreTypes, ChangeFits
  <2>2. r \in stale' => phase = "serving"
    BY <1>2, <1>3, <1>14, IdleIs DEF StoreInv, ChangeFits
  <2> QED
    BY <1>13, <1>14, <2>1, <2>2
<1>15. CASE op' # Idle
  <2>1. /\ DOMAIN op' = DOMAIN Idle /\ op'.rec = r /\ op'.at = "yaml"
        /\ op'.kind \in {"skip", "finish"} /\ op'.to \in {"skipped", "failed"}
    BY <1>3, <1>15, IdleIs, Zenon DEF StoreInv, ChangeFits
  <2>2. CASE /\ op.kind = "promote" /\ again("skip", "skipped")
             /\ execs' = [execs EXCEPT ![r] = "skipped"] /\ UNCHANGED <<live, thread, group, stale>>
    <3>1. phase = "serving" /\ r \notin thread /\ yaml[r] # Unset /\ execs'[r] = "skipped"
      BY <1>2, <2>2 DEF StoreInv, StoreTypes, ChangeFits
    <3> QED
      BY <1>12, <2>1, <2>2, <3>1
  <2>3. CASE /\ op.kind \in {"finish", "spawn"} /\ stale' = stale
             /\ again("finish", "failed") /\ UNCHANGED <<execs, live, thread>>
    <3>1. phase = "serving" /\ yaml[r] # Unset /\ op'.kind # "skip"
      BY <1>2, <2>3, IdleIs DEF StoreInv, ChangeFits
    <3>2. execs[r] # Unset /\ r \in thread /\ execs[r] = "executing"
      BY <1>2, <2>3 DEF StoreInv, ChangeFits, GroupsFit
    <3> QED
      BY <1>12, <2>1, <2>3, <3>1, <3>2
  <2> QED
    BY <1>3, <1>15, <2>2, <2>3
<1> QED
  BY <1>14, <1>15

LEMMA RenameAsideInv == ASSUME StoreInv, RenameAside PROVE StoreInv'
<1> DEFINE r == op.rec
<1>1. /\ op.at = "rename" /\ dir' = dir \ {r} /\ aside' = aside \cup {r}
      /\ kept' = kept \ {r} /\ gone' = gone \cup {r} /\ op' = [op EXCEPT !.at = "row"]
      /\ UNCHANGED <<yaml, pgid, recent, base, wal, order, phase, execs, live, thread, group, stale,
                     newer, told>>
  BY DEF RenameAside
<1>2. /\ op.kind \in {"delete", "sweep"} /\ r \in Recs /\ r \in dir /\ execs[r] \in Ended
      /\ phase = "serving" /\ told[r] = Unset /\ group[r] = Unset
  BY <1>1, IdleIs DEF StoreInv, ChangeFits, Writing
<1>3. /\ DOMAIN op' = DOMAIN Idle /\ op'.kind = op.kind /\ op'.rec = r /\ op'.at = "row"
  BY <1>1, IdleIs DEF StoreInv, ChangeFits
<1> HIDE DEF r
<1>4. StoreTypes' /\ PlacesKept'
  <2>1. StoreTypes'
    BY <1>1, <1>2 DEF StoreInv, StoreTypes, PlacesKept
  <2>2. PlacesKept'
    BY <1>1, <1>2 DEF StoreInv, PlacesKept
  <2> QED
    BY <2>1, <2>2
<1>5. ChangeFits'
  BY <1>1, <1>2, <1>3 DEF ChangeFits, Writing
<1>6. GroupsFit'
  BY <1>1, <1>2, <1>3 DEF StoreInv, GroupsFit, r
<1>7. RowsFollow'
  <2>1. \A q \in Recs : Matched(q)' => Matched(q)
    BY <1>1, <1>2, <1>3 DEF Matched, Firm, r
  <2> QED
    BY <1>1, <2>1, RowsKept DEF Looking
<1>8. StartFits'
  BY <1>1, <1>2 DEF StartFits
<1>9. TableFits'
  BY <1>1, <1>2, <1>3 DEF StoreInv, TableFits, Looking, r
<1> QED
  BY <1>4, <1>5, <1>6, <1>7, <1>8, <1>9 DEF StoreInv

\* The types of what a commit writes.
LEMMA CommitTyped ==
  ASSUME StoreTypes, NEW r \in Recs, NEW s \in Statuses \cup {Unset}, Commit(r, s)
  PROVE  /\ wal' \in Seq(Recs \X (Statuses \cup {Unset})) /\ base' \in [Recs -> Statuses \cup {Unset}]
         /\ recent' \subseteq recent
<1>1. wal' \in Seq(Recs \X (Statuses \cup {Unset}))
  <2> DEFINE commits == Recs \X (Statuses \cup {Unset})
             commit == <<r, s>>
  <2>1. wal' = Append(wal, commit) \/ wal' = <<>>
    BY DEF Commit
  <2>2. wal \in Seq(commits) /\ commit \in commits
    BY DEF StoreTypes
  <2> HIDE DEF commits, commit
  <2>3. wal' \in Seq(commits)
    BY <2>1, <2>2, AppendKeeps, Zenon
  <2> QED
    BY <2>3 DEF commits
<1>2. base' \in [Recs -> Statuses \cup {Unset}]
  <2>1. \A q \in Recs : Row(q) \in Statuses \cup {Unset}
    BY RowIsOneOf DEF StoreTypes, RowsEver
  <2> QED
    BY <2>1 DEF Commit, StoreTypes
<1> QED
  BY <1>1, <1>2 DEF Commit

LEMMA DropRowInv == ASSUME StoreInv, RowsLand, DropRow PROVE StoreInv'
<1> DEFINE r == op.rec
<1>1. /\ op.at = "row" /\ (Commit(r, Unset) \/ UNCHANGED <<wal, base, recent>>)
      /\ execs' = [execs EXCEPT ![r] = Unset] /\ op' = Idle
      /\ UNCHANGED <<dir, yaml, pgid, aside, order, phase, live, thread, group, stale, newer, told, kept, gone>>
  BY DEF DropRow, ghost
<1>2. /\ op.kind \in {"delete", "sweep"} /\ r \in Recs /\ r \in gone /\ phase = "serving"
      /\ group[r] = Unset /\ r \notin dir /\ r \notin kept /\ told[r] = Unset
  BY <1>1, IdleIs DEF StoreInv, ChangeFits, Writing, PlacesKept
<1>3. r \notin thread
  BY <1>2 DEF StoreInv, GroupsFit, ChangeFits, Ended
<1> HIDE DEF r
<1>4. StoreTypes'
  BY <1>1, <1>2, CommitTyped DEF StoreInv, StoreTypes
<1>5. PlacesKept'
  BY <1>1 DEF StoreInv, PlacesKept
<1>6. ChangeFits'
  BY <1>1, IdleIs DEF ChangeFits, Writing
<1>7. GroupsFit'
  BY <1>1, <1>2, <1>3, IdleIs DEF StoreInv, GroupsFit, StoreTypes, r
<1>8. RowsFollow'
  <2>1. \A q \in Recs : Matched(q)' => q # r /\ Matched(q)
    BY <1>1, <1>2, IdleIs DEF Matched, Firm, r
  <2>2. CASE Commit(r, Unset)
    <3>1. /\ \A q \in Recs \ {r} : Row(q)' = Row(q)
          /\ \/ /\ recent' = recent
                /\ \A q \in Recs \ {r} : RowsEver(q)' = RowsEver(q)
             \/ \A q \in Recs : RowsEver(q)' = {Row(q)'}
      BY <1>2, <2>2, CommitLands DEF StoreInv
    <3>2. \A q \in Recs : Matched(q)' => Row(q)' = yaml'[q]
      BY <1>1, <1>2, <2>1, <3>1 DEF StoreInv, RowsFollow, Looking
    <3>3. \A q \in Recs \ recent' : Matched(q)' => RowsEver(q)' \subseteq {Unset, yaml'[q]}
      BY <1>1, <2>1, <3>1, <3>2 DEF StoreInv, RowsFollow
    <3> QED
      BY <3>2, <3>3 DEF RowsFollow
  <2>3. CASE UNCHANGED <<wal, base, recent>>
    BY <1>1, <2>1, <2>3, RowsKept DEF Looking
  <2> QED
    BY <1>1, <2>2, <2>3
<1>9. StartFits'
  BY <1>1, <1>2 DEF StartFits
<1>10. TableFits'
  BY <1>1, <1>2, IdleIs DEF StoreInv, TableFits, Looking, StoreTypes, r
<1> QED
  BY <1>4, <1>5, <1>6, <1>7, <1>8, <1>9, <1>10 DEF StoreInv

LEMMA ReapInv == ASSUME StoreInv, NEW r \in Recs, Reap(r) PROVE StoreInv'
<1>1. /\ r \in aside /\ aside' = aside \ {r} /\ yaml' = [yaml EXCEPT ![r] = Unset]
      /\ pgid' = pgid \ {r} /\ recent' = recent \ {r}
      /\ UNCHANGED <<dir, base, wal, order, phase, execs, live, thread, op, stale, newer, group,
                     told, kept, gone>>
  BY DEF Reap, memory, ghost
<1>2. r \notin dir /\ group[r] = Unset /\ r \notin kept /\ told[r] = Unset
  BY <1>1 DEF StoreInv, PlacesKept, GroupsFit, TableFits
<1>3. \A q \in dir : q # r /\ yaml'[q] = yaml[q] /\ (q \in recent' <=> q \in recent)
                     /\ (q \in pgid' <=> q \in pgid)
  BY <1>1, <1>2 DEF StoreInv, StoreTypes
<1>4. StoreTypes' /\ PlacesKept'
  BY <1>1, <1>2, <1>3 DEF StoreInv, StoreTypes, PlacesKept
<1>5. ChangeFits'
  BY <1>1, <1>3 DEF StoreInv, ChangeFits, Writing
<1>6. GroupsFit'
  <2>1. \A q \in thread : op.rec # q => q \in dir
    BY DEF StoreInv, StoreTypes, GroupsFit, TableFits, Looking, Unset
  <2> QED
    BY <1>1, <1>2, <1>3, <2>1 DEF StoreInv, GroupsFit, StoreTypes
<1>7. \A q \in Recs : (Matched(q)' <=> Matched(q)) /\ (Firm(q)' <=> Firm(q))
  BY <1>1, <1>3 DEF Matched, Firm
<1>8. RowsFollow'
  BY <1>1, <1>3, <1>7, RowsStay DEF StoreInv, RowsFollow, Looking, Matched
<1>9. StartFits'
  BY <1>1, <1>3, <1>7, RowsStay DEF StoreInv, StartFits, Matched
<1>10. TableFits'
  <2>1. phase = "interrupt" => \A q \in stale : op.rec # q => q \in dir
    BY DEF StoreInv, StoreTypes, TableFits, Looking, Live, Unset
  <2> QED
    BY <1>1, <1>2, <1>3, <2>1 DEF StoreInv, TableFits, Looking
<1> QED
  BY <1>4, <1>5, <1>6, <1>8, <1>9, <1>10 DEF StoreInv

LEMMA DiesInv == ASSUME StoreInv, Crash \/ PowerLoss PROVE StoreInv'
<1>1. /\ phase' = "down" /\ op' = Idle /\ execs' = [r \in Recs |-> Unset]
      /\ live' = {} /\ thread' = {} /\ stale' = {}
      /\ UNCHANGED <<dir, yaml, pgid, aside, recent, base, order, told, kept, gone>>
  BY DEF Crash, PowerLoss, Dies, ghost
<1>2. /\ group' \in [Recs -> {Unset, "running"}]
      /\ \A r \in Recs : group'[r] # Unset => group[r] = "running" /\ group'[r] = "running"
  BY DEF Crash, PowerLoss, Dies, Unset
<1>3. /\ wal' \in Seq(Recs \X (Statuses \cup {Unset}))
      /\ \A r \in Recs : RowsEver(r)' \subseteq RowsEver(r)
  <2>1. CASE wal' = wal
    BY <1>1, <2>1 DEF StoreInv, StoreTypes, RowsEver
  <2>2. CASE \E n \in 0..Len(wal) : wal' = SubSeq(wal, 1, n)
    <3> DEFINE commits == Recs \X (Statuses \cup {Unset})
    <3>1. wal \in Seq(commits)
      BY DEF StoreInv, StoreTypes
    <3> HIDE DEF commits
    <3>2. PICK n \in 0..Len(wal) : wal' = SubSeq(wal, 1, n)
      BY <2>2
    <3>3. /\ wal' \in Seq(commits) /\ 1..Len(wal') \subseteq 1..Len(wal)
          /\ \A i \in 1..Len(wal') : wal'[i] = wal[i]
      BY <3>1, <3>2
    <3> QED
      BY <1>1, <3>3 DEF commits, RowsEver
  <2> QED
    BY <2>1, <2>2 DEF Crash, PowerLoss
<1>4. StoreTypes'
  BY <1>1, <1>2, <1>3 DEF StoreInv, StoreTypes
<1>5. PlacesKept'
  BY <1>1 DEF StoreInv, PlacesKept
<1>6. ChangeFits'
  BY <1>1, IdleIs DEF ChangeFits, Writing
<1>7. \A r \in Recs : group'[r] # Unset => op.rec # r
  BY <1>2, IdleIs DEF StoreInv, ChangeFits
<1>8. GroupsFit'
  BY <1>1, <1>2, <1>7 DEF StoreInv, GroupsFit
<1>9. RowsFollow'
  <2>1. ASSUME NEW r \in Recs, r \notin recent, Matched(r)' PROVE Matched(r)
    <3>1. r \in dir /\ yaml[r] # Unset /\ ~ (op.rec = r /\ op.at = "index")
      BY <1>1, <2>1, IdleIs DEF Matched, StoreInv, ChangeFits, Writing
    <3>2. Firm(r)
      BY <1>1, <1>2, <1>7, <2>1, IdleIs DEF Matched, Firm
    <3> QED
      BY <3>1, <3>2 DEF Matched
  <2> QED
    BY <1>1, <1>3, <2>1 DEF StoreInv, RowsFollow, Looking
<1>10. StartFits'
  BY <1>1 DEF StartFits
<1>11. TableFits'
  BY <1>1 DEF StoreInv, TableFits, Looking
<1> QED
  BY <1>4, <1>5, <1>6, <1>8, <1>9, <1>10, <1>11 DEF StoreInv

LEMMA LoadInv == ASSUME StoreInv, Load PROVE StoreInv'
<1>1. /\ phase = "down" /\ phase' = "reconcile" /\ newer' = recent /\ stale' = dir \cup aside
      /\ execs' = [r \in Recs |-> IF wal' = wal /\ base' = base THEN Row(r) ELSE Unset]
      /\ \/ UNCHANGED <<base, wal, recent>>
         \/ base' = [r \in Recs |-> Unset] /\ wal' = <<>> /\ recent' = {}
      /\ UNCHANGED <<dir, yaml, pgid, aside, order, live, thread, group, op, told, kept, gone>>
  BY DEF Load, ghost
<1>2. op = Idle /\ \A r \in Recs : op.rec # r
  BY <1>1, IdleIs DEF StoreInv, ChangeFits, Writing
<1>3. \A r \in Recs : Row(r) \in RowsEver(r) /\ Row(r) \in Statuses \cup {Unset}
  <2>1. \A r \in Recs : Row(r) \in RowsEver(r)
    BY RowIsOneOf DEF StoreInv
  <2>2. \A r \in Recs : RowsEver(r) \subseteq Statuses \cup {Unset}
    BY DEF StoreInv, StoreTypes, RowsEver
  <2> QED
    BY <2>1, <2>2
<1>4. \A r \in Recs : /\ execs'[r] = Row(r)'
                      /\ execs'[r] \in {Unset, Row(r)}
                      /\ RowsEver(r)' = RowsEver(r) \/ RowsEver(r)' = {Unset}
  <2>1. CASE UNCHANGED <<base, wal>>
    BY <1>1, <2>1, RowsStay
  <2>2. CASE base' = [r \in Recs |-> Unset] /\ wal' = <<>>
    <3>1. \A r \in Recs : Row(r)' = Unset /\ RowsEver(r)' = {Unset}
      <4>1. Len(wal') = 0
        BY <2>2
      <4> QED
        BY <2>2, <4>1 DEF Row, RowIn, RowsEver
    <3>2. wal' = wal /\ base' = base => \A r \in Recs : Row(r)' = Row(r)
      BY RowsStay
    <3> QED
      BY <1>1, <3>1, <3>2
  <2> QED
    BY <1>1, <2>1, <2>2
<1>5. StoreTypes'
  <2>1. wal' \in Seq(Recs \X (Statuses \cup {Unset}))
    <3>1. wal \in Seq(Recs \X (Statuses \cup {Unset}))
      BY DEF StoreInv, StoreTypes
    <3> DEFINE commits == Recs \X (Statuses \cup {Unset})
    <3>2. wal \in Seq(commits)
      BY <3>1
    <3>3. wal' = wal \/ wal' = <<>>
      BY <1>1
    <3> HIDE DEF commits
    <3>4. <<>> \in Seq(commits)
      OBVIOUS
    <3>5. wal' \in Seq(commits)
      BY <3>2, <3>3, <3>4, Zenon
    <3> QED
      BY <3>5 DEF commits
  <2>2. execs' \in [Recs -> Statuses \cup {Unset}]
    BY <1>1, <1>3
  <2>3. stale' \in SUBSET Recs /\ base' \in [Recs -> Statuses \cup {Unset}]
    BY <1>1 DEF StoreInv, StoreTypes
  <2> QED
    BY <1>1, <2>1, <2>2, <2>3 DEF StoreInv, StoreTypes
<1>6. PlacesKept'
  BY <1>1 DEF StoreInv, PlacesKept
<1>7. ChangeFits'
  BY <1>1, <1>2, IdleIs DEF ChangeFits, Writing
<1>8. GroupsFit'
  <2>1. thread = {}
    BY <1>1 DEF StoreInv, GroupsFit
  <2> QED
    BY <1>1, <2>1 DEF StoreInv, GroupsFit
<1>9. \A r \in Recs : Matched(r)' <=> Matched(r)
  BY <1>1 DEF Matched, Firm
<1>10. RowsFollow'
  <2>1. ~ Looking'
    BY <1>1 DEF Looking
  <2>2. \A r \in Recs \ recent : Matched(r) => RowsEver(r) \subseteq {Unset, yaml[r]}
    BY DEF StoreInv, RowsFollow
  <2>3. recent' = recent \/ \A r \in Recs : RowsEver(r)' = {Unset}
    <3>1. CASE base' = [r \in Recs |-> Unset] /\ wal' = <<>>
      <4>1. Len(wal') = 0
        BY <3>1
      <4> QED
        BY <3>1, <4>1 DEF RowsEver
    <3> QED
      BY <1>1, <3>1
  <2> QED
    BY <1>1, <1>4, <1>9, <2>1, <2>2, <2>3 DEF RowsFollow
<1>11. StartFits'
  <2>1. \A r \in Recs \ recent : Matched(r) => Row(r) \in {Unset, yaml[r]}
    BY <1>3 DEF StoreInv, RowsFollow
  <2> QED
    BY <1>1, <1>4, <1>9, <2>1 DEF StartFits
<1>12. TableFits'
  BY <1>1 DEF StoreInv, TableFits, Looking
<1> QED
  BY <1>5, <1>6, <1>7, <1>8, <1>10, <1>11, <1>12 DEF StoreInv

LEMMA ReconcileInv == ASSUME StoreInv, RowsLand, NEW r \in Recs, Reconcile(r) PROVE StoreInv'
<1>1. /\ phase = "reconcile" /\ r \in stale /\ stale' = stale \ {r} /\ aside' = aside \ {r}
      /\ dir' = IF r \in dir /\ yaml[r] = Unset THEN dir \ {r} ELSE dir
      /\ yaml' = IF r \in aside THEN [yaml EXCEPT ![r] = Unset] ELSE yaml
      /\ \/ NeedsUpsert(r) /\ Commit(r, yaml[r]) /\ execs' = [execs EXCEPT ![r] = yaml[r]]
         \/ ~ NeedsUpsert(r) /\ UNCHANGED <<wal, base, recent, execs>>
      /\ UNCHANGED <<pgid, order, phase, live, thread, group, op, newer, told, kept, gone>>
  BY DEF Reconcile, RowsLand, ghost
<1>2. op = Idle /\ \A q \in Recs : op.rec # q
  BY <1>1, IdleIs DEF StoreInv, ChangeFits, Writing
<1>3. \A q \in dir' : q \in dir /\ yaml'[q] = yaml[q] /\ (q = r => yaml[r] # Unset)
  BY <1>1 DEF StoreInv, PlacesKept, StoreTypes
<1>4. \A q \in dir : q \notin dir' => q = r /\ yaml[q] = Unset
  BY <1>1
<1>5. /\ wal' \in Seq(Recs \X (Statuses \cup {Unset})) /\ base' \in [Recs -> Statuses \cup {Unset}]
      /\ recent' = recent /\ execs' \in [Recs -> Statuses \cup {Unset}]
      /\ \A q \in Recs : /\ execs'[q] = IF NeedsUpsert(r) /\ q = r THEN yaml[r] ELSE execs[q]
                         /\ Row(q)' = IF NeedsUpsert(r) /\ q = r THEN yaml[r] ELSE Row(q)
                         /\ RowsEver(q)' \subseteq RowsEver(q) \cup (IF q = r THEN {yaml[r]} ELSE {})
  <2>1. CASE NeedsUpsert(r) /\ Commit(r, yaml[r]) /\ execs' = [execs EXCEPT ![r] = yaml[r]]
    <3>1. yaml[r] \in Statuses \cup {Unset}
      BY DEF StoreInv, StoreTypes
    <3>2. /\ wal' \in Seq(Recs \X (Statuses \cup {Unset})) /\ base' \in [Recs -> Statuses \cup {Unset}]
      BY <2>1, <3>1, CommitTyped DEF StoreInv
    <3>3. recent' = recent
      BY <1>1, <2>1 DEF Commit, RowsLand
    <3>4. /\ Row(r)' = yaml[r] /\ \A q \in Recs \ {r} : Row(q)' = Row(q)
          /\ RowsEver(r)' \subseteq RowsEver(r) \cup {yaml[r]}
          /\ \A q \in Recs \ {r} : RowsEver(q)' = RowsEver(q)
      BY <1>1, <2>1, CommitLands DEF StoreInv, RowsLand
    <3>5. \A q \in Recs : execs'[q] = IF q = r THEN yaml[r] ELSE execs[q]
      BY <2>1 DEF StoreInv, StoreTypes
    <3>6. execs' \in [Recs -> Statuses \cup {Unset}]
      BY <2>1, <3>1 DEF StoreInv, StoreTypes
    <3> QED
      BY <2>1, <3>2, <3>3, <3>4, <3>5, <3>6
  <2>2. CASE ~ NeedsUpsert(r) /\ UNCHANGED <<wal, base, recent, execs>>
    BY <2>2, RowsStay DEF StoreInv, StoreTypes
  <2> QED
    BY <1>1, <2>1, <2>2
<1>6. StoreTypes'
  <2>1. yaml' \in [Recs -> Statuses \cup {Unset}]
    <3>1. yaml \in [Recs -> Statuses \cup {Unset}]
      BY DEF StoreInv, StoreTypes
    <3>2. CASE r \in aside
      BY <1>1, <3>1, <3>2
    <3>3. CASE r \notin aside
      BY <1>1, <3>1, <3>3
    <3> QED
      BY <3>2, <3>3
  <2>2. dir' \subseteq dir /\ aside' \subseteq aside /\ stale' \subseteq stale
    BY <1>1
  <2> QED
    BY <1>1, <1>5, <2>1, <2>2 DEF StoreInv, StoreTypes
<1>7. PlacesKept'
  BY <1>1 DEF StoreInv, PlacesKept, StoreTypes
<1>8. ChangeFits'
  BY <1>1, <1>2, IdleIs DEF ChangeFits, Writing
<1>9. GroupsFit'
  <2>1. thread = {}
    BY <1>1 DEF StoreInv, GroupsFit
  <2>2. \A q \in Recs : group[q] # Unset => q \in dir' /\ yaml'[q] = "executing"
    BY <1>3, <1>4 DEF StoreInv, GroupsFit, Unset
  <2> QED
    BY <1>1, <1>2, <2>1, <2>2 DEF StoreInv, GroupsFit
<1>10. \A q \in Recs : /\ Firm(q)' <=> Firm(q)
                       /\ Matched(q)' => Matched(q) /\ q \in dir' /\ yaml'[q] = yaml[q]
  BY <1>1, <1>3 DEF Matched, Firm
<1>11. RowsFollow'
  <2>1. ~ Looking'
    BY <1>1 DEF Looking
  <2> QED
    BY <1>5, <1>10, <2>1 DEF StoreInv, RowsFollow
<1>12. StartFits'
  <2>1. \A q \in Recs : execs'[q] = Row(q)'
    BY <1>1, <1>5 DEF StoreInv, StartFits
  <2>2. ASSUME NEW q \in dir' \ stale', q \in Recs
        PROVE  yaml'[q] # Unset /\ execs'[q] # Unset /\ (Firm(q)' => execs'[q] = yaml'[q])
    <3>1. CASE q # r
      BY <1>1, <1>3, <1>5, <1>10, <2>2, <3>1 DEF StoreInv, StartFits
    <3>2. CASE q = r /\ NeedsUpsert(r)
      BY <1>3, <1>5, <2>2, <3>2
    <3>3. CASE q = r /\ ~ NeedsUpsert(r)
      <4>1. r \in dir /\ yaml[r] # Unset /\ execs[r] # Unset /\ (r \notin newer \/ execs[r] = yaml[r])
        BY <1>3, <2>2, <3>3 DEF NeedsUpsert
      <4>2. Firm(r) => Matched(r)
        BY <1>2, <4>1 DEF Matched
      <4>3. Firm(r) => execs[r] = yaml[r]
        BY <1>1, <4>1, <4>2 DEF StoreInv, StartFits
      <4> QED
        BY <1>3, <1>5, <1>10, <2>2, <3>3, <4>1, <4>3
    <3> QED
      BY <3>1, <3>2, <3>3
  <2>3. \A q \in Recs : q \in stale' \ newer' => (Matched(q)' => execs'[q] \in {Unset, yaml'[q]})
    BY <1>1, <1>5, <1>10 DEF StoreInv, StartFits
  <2> QED
    BY <2>1, <2>2, <2>3 DEF StartFits
<1>13. TableFits'
  BY <1>1, <1>3, <1>4, <1>5 DEF StoreInv, TableFits, Looking
<1> QED
  BY <1>6, <1>7, <1>8, <1>9, <1>11, <1>12, <1>13 DEF StoreInv

\* A row without a directory goes.
LEMMA DropGhostInv == ASSUME StoreInv, RowsLand, NEW r \in Recs, DropGhost(r) PROVE StoreInv'
<1>1. /\ phase = "reconcile" /\ stale = {} /\ r \notin dir /\ Commit(r, Unset)
      /\ execs' = [execs EXCEPT ![r] = Unset]
      /\ UNCHANGED <<dir, yaml, pgid, aside, order, phase, live, thread, group, op, stale, newer,
                     told, kept, gone>>
  BY DEF DropGhost, Ghosts, ghost
<1>2. /\ wal' \in Seq(Recs \X (Statuses \cup {Unset})) /\ base' \in [Recs -> Statuses \cup {Unset}]
  BY <1>1, CommitTyped DEF StoreInv
<1>3. recent' = recent
  BY <1>1 DEF Commit, RowsLand
<1>4. /\ Row(r)' = Unset /\ \A q \in Recs \ {r} : Row(q)' = Row(q)
      /\ \A q \in Recs \ {r} : RowsEver(q)' = RowsEver(q)
  BY <1>1, CommitLands DEF StoreInv, RowsLand
<1>5. /\ execs' \in [Recs -> Statuses \cup {Unset}]
      /\ \A q \in Recs : execs'[q] = IF q = r THEN Unset ELSE execs[q]
  BY <1>1 DEF StoreInv, StoreTypes
<1>6. StoreTypes'
  BY <1>1, <1>2, <1>3, <1>5 DEF StoreInv, StoreTypes
<1>7. PlacesKept' /\ ChangeFits'
  <2>1. op = Idle /\ op' = Idle
    BY <1>1, IdleIs DEF StoreInv, ChangeFits, Writing
  <2>2. ChangeFits'
    BY <2>1, IdleIs DEF ChangeFits, Writing
  <2> QED
    BY <1>1, <2>2 DEF StoreInv, PlacesKept
<1>8. GroupsFit'
  <2>1. thread = {}
    BY <1>1 DEF StoreInv, GroupsFit
  <2> QED
    BY <1>1, <2>1 DEF StoreInv, GroupsFit
<1>9. \A q \in Recs : (Matched(q)' <=> Matched(q)) /\ (Firm(q)' <=> Firm(q)) /\ (Matched(q) => q # r)
  BY <1>1 DEF Matched, Firm
<1>10. RowsFollow'
  BY <1>1, <1>3, <1>4, <1>9 DEF StoreInv, RowsFollow, Looking
<1>11. StartFits'
  BY <1>1, <1>4, <1>5, <1>9 DEF StoreInv, StartFits
<1>12. TableFits'
  BY <1>1 DEF StoreInv, TableFits, Looking
<1> QED
  BY <1>6, <1>7, <1>8, <1>10, <1>11, <1>12 DEF StoreInv

\* The reconcile ends: the table says what every firm row says.
LEMMA ReconcileEndsInv == ASSUME StoreInv, ReconcileEnds PROVE StoreInv'
<1>1. /\ phase = "reconcile" /\ phase' = "repair" /\ stale = {}
      /\ stale' = {r \in Recs : execs[r] \in Live}
      /\ live' = {r \in Recs : execs[r] = "executing"}
      /\ \A r \in Recs : execs[r] # Unset => r \in dir
      /\ UNCHANGED <<dir, yaml, pgid, aside, recent, base, wal, order, execs, thread, group, op, newer,
                     told, kept, gone>>
  BY DEF ReconcileEnds, Ghosts, Derived, disk, ghost
<1>2. op = Idle /\ op' = Idle /\ \A r \in Recs : op.rec # r
  BY <1>1, IdleIs DEF StoreInv, ChangeFits, Writing
<1>3. \A r \in Recs : /\ execs[r] = Row(r)
                      /\ r \in dir => yaml[r] # Unset /\ execs[r] # Unset
                      /\ r \in dir /\ Firm(r) => execs[r] = yaml[r]
  BY <1>1 DEF StoreInv, StartFits
<1>4. \A r \in Recs : (Matched(r)' <=> Matched(r)) /\ (Firm(r)' <=> Firm(r))
  BY <1>1 DEF Matched, Firm
<1>5. thread = {}
  BY <1>1 DEF StoreInv, GroupsFit
<1>6. StoreTypes' /\ PlacesKept'
  <2>1. StoreTypes'
    BY <1>1 DEF StoreInv, StoreTypes
  <2>2. PlacesKept'
    BY <1>1 DEF StoreInv, PlacesKept
  <2> QED
    BY <2>1, <2>2
<1>7. ChangeFits'
  BY <1>2, IdleIs DEF ChangeFits, Writing
<1>8. GroupsFit'
  <2>1. \A r \in Recs : group[r] # Unset => r \in stale'
    BY <1>1, <1>2, <1>3 DEF StoreInv, GroupsFit, Firm, Live
  <2> QED
    BY <1>1, <1>2, <1>5, <2>1 DEF StoreInv, GroupsFit
<1>9. RowsFollow'
  <2>1. \A r \in Recs : Matched(r) => Row(r) = yaml[r]
    BY <1>3 DEF Matched
  <2>2. \A r \in Recs : Row(r)' = Row(r) /\ RowsEver(r)' = RowsEver(r)
    BY <1>1, RowsStay
  <2> QED
    BY <1>1, <1>4, <2>1, <2>2 DEF StoreInv, RowsFollow
<1>10. StartFits'
  BY <1>1 DEF StartFits
<1>11. TableFits'
  <2>1. \A r \in Recs : told[r] # Unset => execs[r] = told[r]
    BY <1>3 DEF StoreInv, TableFits, Firm
  <2>2. \A r \in Recs : r \in kept => execs[r] # Unset
    BY <1>3 DEF StoreInv, PlacesKept
  <2> QED
    BY <1>1, <1>3, <2>1, <2>2 DEF StoreInv, TableFits, Looking
<1> QED
  BY <1>6, <1>7, <1>8, <1>9, <1>10, <1>11 DEF StoreInv

\* A stale record that is taken over, or interrupted, has not been told of.
LEMMA RepairsInv == ASSUME StoreInv, NEW r \in Recs, RepairRow(r) \/ Interrupt(r) PROVE StoreInv'
<1>1. /\ op.kind = "idle" /\ r \in stale /\ DOMAIN op' = DOMAIN Idle /\ op'.rec = r /\ op'.at = "yaml"
      /\ \/ /\ phase = "repair" /\ op'.kind = "adopt" /\ yaml[r] # "executing"
            /\ op'.to = IF yaml[r] = "queued" THEN "skipped" ELSE yaml[r]
         \/ phase = "interrupt" /\ op'.kind = "repair" /\ op'.to = "interrupted"
      /\ UNCHANGED <<dir, yaml, pgid, aside, recent, base, wal, order, phase, execs, live, thread, group,
                     stale, newer, told, kept, gone>>
  BY IdleIs DEF RepairRow, Interrupt, FullStatus, disk, ghost
<1>2. op = Idle /\ \A q \in Recs : op.rec # q
  BY <1>1, IdleIs DEF StoreInv, ChangeFits
<1>3. execs[r] \in Live /\ execs[r] # Unset /\ told[r] = Unset
  BY <1>1 DEF StoreInv, TableFits, Looking, Live, Ended, Unset
<1>4. r \in dir /\ yaml[r] # Unset /\ yaml[r] \in Statuses
  <2>1. r \in dir /\ yaml[r] # Unset
    BY <1>1, <1>2, <1>3 DEF StoreInv, TableFits, Looking
  <2> QED
    BY <2>1 DEF StoreInv, StoreTypes
<1>5. group[r] = Unset /\ thread = {}
  BY <1>1 DEF StoreInv, GroupsFit
<1>6. StoreTypes' /\ PlacesKept'
  BY <1>1 DEF StoreInv, StoreTypes, PlacesKept
<1>7. ChangeFits'
  <2>1. op'.to \in Statuses /\ op'.to # "executing" /\ (phase = "interrupt" => op'.to = "interrupted")
    BY <1>1, <1>4 DEF Statuses, Ended
  <2> QED
    BY <1>1, <1>3, <1>4, <1>5, <2>1 DEF ChangeFits, Writing
<1>8. GroupsFit'
  BY <1>1, <1>2, <1>5 DEF StoreInv, GroupsFit
<1>9. RowsFollow'
  <2>1. \A q \in Recs : Matched(q)' => Matched(q)
    BY <1>1, <1>2, <1>3, <1>5, IdleIs DEF Matched, Firm
  <2> QED
    BY <1>1, <2>1, RowsKept DEF Looking
<1>10. StartFits'
  BY <1>1 DEF StartFits
<1>11. TableFits'
  <2>1. \A q \in Recs : execs[q] # Unset => q \in dir /\ yaml[q] # Unset
    BY <1>1, <1>2 DEF StoreInv, TableFits, Looking
  <2>2. phase = "interrupt" => \A q \in stale : q \in Recs /\ yaml[q] = "executing"
    BY <1>1, <1>2 DEF StoreInv, StoreTypes, TableFits
  <2>3. /\ \A q \in Recs : (q \in kept => execs[q] # Unset) /\ (told[q] # Unset => execs[q] = told[q])
        /\ \A q \in stale : execs[q] \in Live
        /\ \A q \in Recs : told[q] # Unset => q \in dir /\ told[q] \in Ended /\ yaml[q] = told[q]
    BY <1>1 DEF StoreInv, TableFits, Looking
  <2> QED
    BY <1>1, <2>1, <2>2, <2>3 DEF TableFits
<1> QED
  BY <1>6, <1>7, <1>8, <1>9, <1>10, <1>11 DEF StoreInv

\* What the dead backend left running is killed before anything is called interrupted.
LEMMA KillOrphansInv == ASSUME StoreInv, KillOrphans PROVE StoreInv'
<1>1. /\ phase = "repair" /\ phase' = "interrupt" /\ op.kind = "idle"
      /\ \A r \in stale : yaml[r] = "executing"
      /\ group' = [r \in Recs |-> IF r \in stale \cap pgid THEN Unset ELSE group[r]]
      /\ UNCHANGED <<dir, yaml, pgid, aside, recent, base, wal, order, execs, live, thread, op, stale,
                     newer, told, kept, gone>>
  BY DEF KillOrphans, FullStatus, disk, ghost
<1>2. op = Idle /\ \A q \in Recs : op.rec # q
  BY <1>1, IdleIs DEF StoreInv, ChangeFits
<1>3. \A r \in Recs : group'[r] = Unset
  BY <1>1, <1>2 DEF StoreInv, GroupsFit
<1>4. StoreTypes'
  <2>1. group' \in [Recs -> {Unset, "waiting", "running"}]
    BY <1>1 DEF StoreInv, StoreTypes
  <2> QED
    BY <1>1, <2>1 DEF StoreInv, StoreTypes
<1>5. PlacesKept'
  BY <1>1 DEF StoreInv, PlacesKept
<1>6. ChangeFits'
  BY <1>1, <1>2, IdleIs DEF ChangeFits, Writing
<1>7. GroupsFit'
  BY <1>1, <1>3 DEF StoreInv, GroupsFit
<1>8. RowsFollow'
  <2>1. \A q \in Recs : Matched(q)' => Matched(q)
    BY <1>1, <1>3 DEF Matched, Firm
  <2> QED
    BY <1>1, <2>1, RowsKept DEF Looking
<1>9. StartFits'
  BY <1>1 DEF StartFits
<1>10. TableFits'
  BY <1>1 DEF StoreInv, TableFits, Looking
<1> QED
  BY <1>4, <1>5, <1>6, <1>7, <1>8, <1>9, <1>10 DEF StoreInv

LEMMA ServeInv == ASSUME StoreInv, Serve PROVE StoreInv'
<1>1. /\ phase = "interrupt" /\ phase' = "serving" /\ op.kind = "idle" /\ stale = {}
      /\ UNCHANGED <<dir, yaml, pgid, aside, recent, base, wal, order, execs, live, thread, group, op, stale,
                     newer, told, kept, gone>>
  BY DEF Serve, disk, ghost
<1>2. op = Idle
  BY <1>1 DEF StoreInv, ChangeFits
<1>3. thread = {} /\ \A r \in Recs : group[r] = Unset
  BY <1>1 DEF StoreInv, GroupsFit
<1>4. StoreTypes' /\ PlacesKept'
  BY <1>1 DEF StoreInv, StoreTypes, PlacesKept
<1>5. ChangeFits'
  BY <1>1, <1>2, IdleIs DEF ChangeFits, Writing
<1>6. GroupsFit'
  BY <1>1, <1>3 DEF GroupsFit
<1>7. RowsFollow'
  <2>1. \A q \in Recs : Matched(q)' => Matched(q)
    BY <1>1 DEF Matched, Firm
  <2> QED
    BY <1>1, <2>1, RowsKept DEF Looking
<1>8. StartFits' /\ TableFits'
  BY <1>1 DEF StoreInv, StartFits, TableFits, Looking
<1> QED
  BY <1>4, <1>5, <1>6, <1>7, <1>8 DEF StoreInv

LEMMA StoreStep == ASSUME StoreInv, RowsLand, StoreNext PROVE StoreInv'
<1>1. CASE Requests
  <2>1. CASE \E r \in Recs : Promote(r) \/ Retry(r) \/ Skip(r) \/ EndStranded(r) \/ Delete(r) \/ SweepOld(r)
    BY <2>1, PromoteInv, RequestsBegin, EndStrandedInv, SweepInv
  <2>2. CASE \E r \in Recs, s \in Live : Create(r, s)
    BY <2>2, CreateInv
  <2>3. CASE \E n \in 1..Len(order) : SelectOld(n)
    BY <2>3, SweepInv
  <2> QED
    BY <1>1, <2>1, <2>2, <2>3 DEF Requests
<1>2. CASE EngineThread
  BY <1>2, RequestsBegin, GroupInv DEF EngineThread
<1>3. CASE Writes
  BY <1>3, WriteYamlInv, UpsertInv, RememberInv, RenameAsideInv, DropRowInv DEF Writes
<1>4. CASE WriteFails
  BY <1>4, WriteFailsInv
<1>5. CASE Restart
  BY <1>5, LoadInv, ReconcileEndsInv, KillOrphansInv, ServeInv, ReconcileInv, DropGhostInv, RepairsInv
     DEF Restart
<1>6. CASE Crash \/ PowerLoss
  BY <1>6, DiesInv
<1>7. CASE \E r \in Recs : Reap(r)
  BY <1>7, ReapInv
<1> QED
  BY <1>1, <1>2, <1>3, <1>4, <1>5, <1>6, <1>7 DEF StoreNext

LEMMA StoreStarts == StoreInit => StoreInv
<1> SUFFICES ASSUME StoreInit PROVE StoreInv
  OBVIOUS
<1>1. /\ dir = {} /\ pgid = {} /\ aside = {} /\ recent = {} /\ wal = <<>> /\ order = <<>>
      /\ yaml = [r \in Recs |-> Unset] /\ base = [r \in Recs |-> Unset] /\ execs = [r \in Recs |-> Unset]
      /\ told = [r \in Recs |-> Unset] /\ group = [r \in Recs |-> Unset]
      /\ phase = "serving" /\ op = Idle /\ live = {} /\ thread = {} /\ stale = {} /\ kept = {} /\ gone = {}
  BY DEF StoreInit
<1>2. StoreTypes
  BY <1>1 DEF StoreTypes
<1>3. PlacesKept /\ GroupsFit /\ StartFits
  BY <1>1 DEF PlacesKept, GroupsFit, StartFits
<1>4. ChangeFits
  BY <1>1, IdleIs DEF ChangeFits, Writing
<1>5. RowsFollow
  BY <1>1 DEF RowsFollow, Matched
<1>6. TableFits
  BY <1>1 DEF TableFits, Looking
<1> QED
  BY <1>2, <1>3, <1>4, <1>5, <1>6 DEF StoreInv

\* What the invariant says of the records a backend serves.
LEMMA StoreGives ==
  ASSUME StoreInv
  PROVE  NothingLost /\ DeletedStaysGone /\ OutcomeIsKept /\ FreeSlotMeansDead /\ SweepSparesLive
<1>1. NothingLost /\ OutcomeIsKept
  <2>1. phase = "serving" => Looking
    BY DEF Looking
  <2>2. kept \subseteq Recs
    BY DEF StoreInv, StoreTypes
  <2> QED
    BY <2>1, <2>2 DEF StoreInv, TableFits, NothingLost, OutcomeIsKept, Serving
<1>2. DeletedStaysGone
  <2> SUFFICES ASSUME Serving, NEW r \in gone, execs[r] # Unset PROVE FALSE
    BY DEF DeletedStaysGone
  <2>1. r \in Recs
    BY DEF StoreInv, StoreTypes
  <2>2. r \in dir
    BY <2>1, ServingFacts
  <2> QED
    BY <2>2 DEF StoreInv, PlacesKept
<1>3. FreeSlotMeansDead
  BY DEF StoreInv, GroupsFit, FreeSlotMeansDead
<1>4. SweepSparesLive
  BY DEF StoreInv, GroupsFit, ChangeFits, SweepSparesLive, Ended
<1> QED
  BY <1>1, <1>2, <1>3, <1>4

\* Where every row lands, the reconcile leaves nothing behind its yaml.
LEMMA YamlRules == ASSUME StoreInv, EveryRowLands, StoreNext PROVE YamlIsAuthoritative
<1> SUFFICES ASSUME phase = "reconcile", phase' = "repair"
             PROVE  \A r \in Recs : execs[r] = IF r \in dir THEN yaml[r] ELSE Unset
  BY DEF YamlIsAuthoritative
<1>1. op = Idle
  BY DEF StoreInv, ChangeFits, Writing
<1>2. ~ Requests /\ ~ EngineThread
  BY DEF Requests, EngineThread, Promote, Retry, Skip, EndStranded, Delete, SweepOld, Create, SelectOld,
         Spawn, HandContext, StepEnds, Finish, Serving
<1>3. ~ Writes /\ ~ WriteFails
  BY <1>1, IdleIs DEF Writes, WriteYaml, Upsert, Remember, RenameAside, DropRow, WriteFails, CanFail
<1>4. ~ Crash /\ ~ PowerLoss /\ ~ Load /\ ~ KillOrphans /\ ~ Serve
  BY DEF Crash, PowerLoss, Dies, Load, KillOrphans, Serve
<1>5. \A r \in Recs : ~ Reap(r) /\ ~ Reconcile(r) /\ ~ DropGhost(r) /\ ~ RepairRow(r) /\ ~ Interrupt(r)
  BY DEF Reap, memory, Reconcile, DropGhost, RepairRow, Interrupt
<1>6. stale = {} /\ Ghosts = {}
  BY <1>2, <1>3, <1>4, <1>5 DEF StoreNext, Restart, ReconcileEnds
<1>7. \A r \in Recs : Firm(r)
  BY DEF Firm, EveryRowLands
<1> QED
  BY <1>6, <1>7 DEF StoreInv, StartFits, Ghosts

RecordsPart == part = "executions" => StoreInv

LEMMA ExecutionsInvariance == ASSUME RowsLand PROVE Spec => []RecordsPart
<1>1. Init => RecordsPart
  BY StoreStarts DEF Init, RecordsPart
<1>2. RecordsPart /\ [Next]_allVars => RecordsPart'
  <2> SUFFICES ASSUME RecordsPart, [Next]_allVars, part' = "executions"
               PROVE  StoreInv'
    BY DEF RecordsPart
  <2>1. part' = part
    BY DEF Next, Still, allVars
  <2>2. StoreInv
    BY <2>1 DEF RecordsPart
  <2>3. StoreNext \/ UNCHANGED storeVars
    BY <2>1 DEF Next, allVars
  <2>4. CASE UNCHANGED storeVars
    BY <2>2, <2>4, StoreStays DEF storeVars, memory
  <2> QED
    BY <2>2, <2>3, <2>4, StoreStep
<1> QED
  BY <1>1, <1>2, PTL DEF Spec

\* No record is lost or brought back, no outcome changes and no slot is free while
\* its step runs, across crashes, power losses, failed writes and a lost index,
\* where a start's own index writes succeed (storage.py:1043-1154, 2701-2848,
\* api.py:3605-3712).
THEOREM RecordsAlwaysSurvive == RowsLand /\ Spec => []RecordsSurvive
<1> SUFFICES ASSUME RowsLand PROVE Spec => []RecordsSurvive
  OBVIOUS
<1>1. RecordsPart => RecordsSurvive
  BY StoreGives DEF RecordsPart, RecordsSurvive
<1>2. Spec => []RecordsPart
  BY ExecutionsInvariance
<1> QED
  BY <1>1, <1>2, PTL

\* A start overrides no yaml by the index, a sweep deletes no live execution, a
\* prune no named snapshot, and no copy goes that an unreadable table still names
\* (storage.py:1043-1154, 3269-3352, 3727-3742, marketplace.py:830-878).
THEOREM RepairsAlwaysSpare == EveryRowLands /\ Spec => RepairsSpare
<1> SUFFICES ASSUME EveryRowLands PROVE Spec => RepairsSpare
  OBVIOUS
<1>1. RowsLand
  BY DEF EveryRowLands
<1>2. Spec => []RecordsPart
  BY <1>1, ExecutionsInvariance
<1>3. RecordsPart /\ [Next]_allVars
        => [part = "executions" => YamlIsAuthoritative /\ SweepSparesLive]_allVars
  BY StoreGives, YamlRules DEF RecordsPart, Next
<1>4. /\ [part = "executions" => YamlIsAuthoritative /\ SweepSparesLive]_allVars
      /\ [part = "memory" => NamedAreSpared]_allVars
      /\ [part = "catalogs" => GarbledLosesNothing]_allVars
      => [/\ part = "executions" => YamlIsAuthoritative /\ SweepSparesLive
          /\ part = "memory" => NamedAreSpared
          /\ part = "catalogs" => GarbledLosesNothing]_allVars
  OBVIOUS
<1> QED
  BY <1>2, <1>3, <1>4, NamedAlwaysSpared, GarbledAlwaysSpared, PTL DEF Spec, RepairsSpare

-----------------------------------------------------------------------------
(***************************************************************************)
(* Archives parked between their preview and their confirm.                *)
(***************************************************************************)
ParkStages == {"none", "writing", "written", "swept", "over"}
ConfirmStages == {"idle", "swept", "taken", "read", "refused"}
Stamps == FreeSlot..MaxNow

ParkTypes ==
    /\ now \in 0..MaxNow
    /\ slot \in [Previews -> Stamps] /\ timer \in [Previews -> FreeSlot..(MaxNow + Ttl)]
    /\ firing \subseteq Previews /\ spool \subseteq Previews
    /\ parking \in [Previews -> [st : ParkStages, stamp : Stamps]]
    /\ confirm \in [Confirms -> [st : ConfirmStages, token : Previews \cup {0}, stamp : Stamps,
                                 late : BOOLEAN]]
    /\ imported \in [Previews -> 0..1]

Holds(c) == confirm[c].st \in {"taken", "read", "refused"}

\* An archive has a slot only between its preview and its first confirm, and
\* keeps the stamp of its preview.
ParksFit ==
    \A t \in Previews :
        /\ parking[t].st # "none" => parking[t].stamp # FreeSlot
        /\ parking[t].st # "over" => slot[t] = FreeSlot /\ imported[t] = 0
        /\ slot[t] # FreeSlot => /\ slot[t] = parking[t].stamp /\ imported[t] = 0
                                 /\ timer[t] # FreeSlot \/ t \in firing

\* A confirm that came too late finds no slot; one that holds an archive holds
\* it alone, and before it ever landed.
ConfirmsFit ==
    \A c \in Confirms :
        /\ confirm[c].st # "idle" => /\ confirm[c].token \in Previews
                                     /\ parking[confirm[c].token].st = "over"
        /\ confirm[c].st = "swept" /\ confirm[c].late => slot[confirm[c].token] = FreeSlot
        /\ Holds(c) => /\ ~confirm[c].late /\ slot[confirm[c].token] = FreeSlot
                       /\ imported[confirm[c].token] = 0
        /\ \A d \in Confirms \ {c} : Holds(c) /\ Holds(d) => confirm[c].token # confirm[d].token

SpoolFits ==
    \A t \in spool : \/ slot[t] # FreeSlot \/ parking[t].st \in {"writing", "written", "swept"}
                     \/ \E c \in Confirms : Holds(c) /\ confirm[c].token = t
                     \/ t \in leftover \/ ~running

SlotsFit == Cardinality(Parked) <= Slots

ParkInv == ParkTypes /\ ParksFit /\ ConfirmsFit /\ SpoolFits /\ SlotsFit

-----------------------------------------------------------------------------
(***************************************************************************)
(* Downloads: what is waited for, and until when.                          *)
(***************************************************************************)
FetchTypes ==
    /\ step \in {"resolving", "opening", "reading", "done", "refused"}
    /\ asking \in {"archive", "latest", "contents"}
    /\ spent \in Nat /\ limit = Deadline /\ patience \in Nat
    /\ got \in 0..SizeCap /\ declared \in {NoLength} \cup (1..SizeCap)
    /\ came \in {NotCome} \cup Nat

\* A body is read while the deadline has not passed, or its response came after it
\* and nothing was read yet; only the read that is on may end later.
FetchFits ==
    /\ step = "resolving" => got = 0
    /\ step = "opening" => got = 0
    /\ step \in {"resolving", "opening"} => came = NotCome
    /\ step = "reading" => came # NotCome /\ (spent <= Deadline \/ spent = came)
    /\ came # NotCome => spent <= Most(came, Deadline) + ReadTimeout
    /\ step = "done" => declared = NoLength \/ got >= declared
    /\ ~plain

FetchInv == FetchTypes /\ FetchFits

\* The slot that was taken first is one of those there are.
LEMMA OldestIsParked ==
  ASSUME ParkTypes, Parked # {}
  PROVE  Oldest(Parked) \in Parked
<1> DEFINE ages == {MaxNow + 1 - slot[t] : t \in Parked}
<1>1. \A t \in Parked : slot[t] \in 0..MaxNow
  BY ParkAssumption DEF Parked, ParkTypes, Stamps, FreeSlot
<1>2. ages \subseteq 1..(MaxNow + 1) /\ ages # {} /\ MaxNow + 1 \in Nat
  BY <1>1, ParkAssumption
<1>3. PICK a \in ages : \A b \in ages : b =< a
  <2> HIDE DEF ages
  <2> QED
    BY <1>2, HasLast, Zenon
<1>4. PICK t \in Parked : a = MaxNow + 1 - slot[t]
  BY <1>3
<1>5. \A u \in Parked : slot[t] <= slot[u]
  <2> SUFFICES ASSUME NEW u \in Parked PROVE slot[t] <= slot[u]
    OBVIOUS
  <2>1. MaxNow + 1 - slot[u] =< MaxNow + 1 - slot[t]
    BY <1>3, <1>4
  <2>2. slot[t] \in Int /\ slot[u] \in Int /\ MaxNow \in Int
    BY <1>1, ParkAssumption
  <2> QED
    BY <2>1, <2>2
<1> QED
  BY <1>5 DEF Oldest

\* A preview that is through with its sweep gets a slot, and there is room for it.
LEMMA RoomForOne ==
  ASSUME ParkInv, NEW t \in Previews, slot[t] = FreeSlot,
         slot' = [u \in Previews |-> IF u = t THEN parking[t].stamp
                                     ELSE IF u \in Evicted THEN FreeSlot ELSE slot[u]]
  PROVE  Cardinality(Parked') <= Slots
<1>1. /\ IsFiniteSet(Parked) /\ Cardinality(Parked) \in Nat /\ Cardinality(Parked) <= Slots
  BY ParkAssumption, FS_Subset, FS_CardinalityType DEF Parked, ParkInv, SlotsFit
<1>2. /\ IsFiniteSet(Parked \ Evicted) /\ Cardinality(Parked \ Evicted) \in Nat
      /\ Cardinality(Parked \ Evicted) + 1 <= Slots
  <2>1. CASE Cardinality(Parked) < Slots
    <3>1. Parked \ Evicted = Parked
      BY <1>1, <2>1, ParkAssumption DEF Evicted
    <3> QED
      BY <1>1, <2>1, <3>1, ParkAssumption
  <2>2. CASE Cardinality(Parked) = Slots
    <3>1. Parked # {}
      BY <2>2, FS_EmptySet, ParkAssumption
    <3>2. Evicted = {Oldest(Parked)} /\ Oldest(Parked) \in Parked
      BY <2>2, <3>1, OldestIsParked, ParkAssumption DEF Evicted, ParkInv
    <3>3. /\ IsFiniteSet(Parked \ {Oldest(Parked)})
          /\ Cardinality(Parked \ {Oldest(Parked)}) = Cardinality(Parked) - 1
      BY <1>1, <3>2, FS_RemoveElement
    <3> QED
      BY <1>1, <2>2, <3>2, <3>3, ParkAssumption
  <2> QED
    BY <1>1, <2>1, <2>2, ParkAssumption
<1>3. Parked' \subseteq (Parked \ Evicted) \cup {t}
  BY DEF Parked
<1>4. /\ IsFiniteSet((Parked \ Evicted) \cup {t})
      /\ Cardinality((Parked \ Evicted) \cup {t}) \in Nat
      /\ Cardinality((Parked \ Evicted) \cup {t}) <= Cardinality(Parked \ Evicted) + 1
  <2> DEFINE rest == Parked \ Evicted
  <2> HIDE DEF rest
  <2>1. IsFiniteSet(rest) /\ Cardinality(rest) \in Nat
    BY <1>2 DEF rest
  <2>2. /\ IsFiniteSet(rest \cup {t})
        /\ Cardinality(rest \cup {t}) = IF t \in rest THEN Cardinality(rest) ELSE Cardinality(rest) + 1
    BY <2>1, FS_AddElement, Zenon
  <2> QED
    BY <2>1, <2>2 DEF rest
<1>5. Cardinality(Parked') <= Cardinality((Parked \ Evicted) \cup {t}) /\ Cardinality(Parked') \in Nat
  BY <1>3, <1>4, FS_Subset, FS_CardinalityType
<1> QED
  BY <1>2, <1>4, <1>5, ParkAssumption

\* Slots that are only given up leave room.
LEMMA FewerSlots ==
  ASSUME ParkInv, slot' \in [Previews -> Stamps],
         \A t \in Previews : slot'[t] # FreeSlot => slot'[t] = slot[t]
  PROVE  SlotsFit'
<1>1. IsFiniteSet(Parked)
  BY ParkAssumption, FS_Subset DEF Parked
<1>2. Parked' \subseteq Parked
  BY DEF Parked
<1>3. Cardinality(Parked') <= Cardinality(Parked) /\ Cardinality(Parked') \in Nat /\ Cardinality(Parked) \in Nat
  BY <1>1, <1>2, FS_Subset, FS_CardinalityType
<1> QED
  BY <1>3, ParkAssumption DEF ParkInv, SlotsFit

\* What dropping the slots of some tokens comes to.
LEMMA DropDoes ==
  ASSUME ParkTypes, NEW ts, Dropped(ts)
  PROVE  /\ slot' \in [Previews -> Stamps] /\ timer' \in [Previews -> FreeSlot..(MaxNow + Ttl)]
         /\ \A t \in Previews : /\ slot'[t] = IF t \in ts THEN FreeSlot ELSE slot[t]
                                /\ timer'[t] = IF t \in ts THEN FreeSlot ELSE timer[t]
         /\ spool' \subseteq spool
         /\ \A t \in spool' : ~(t \in ts /\ slot[t] # FreeSlot)
<1>1. FreeSlot \in Stamps /\ FreeSlot \in FreeSlot..(MaxNow + Ttl)
  BY ParkAssumption DEF Stamps, FreeSlot
<1> QED
  BY <1>1 DEF ParkTypes, Dropped, Forgotten, Parked

\* A step that only drops slots, and lets what it works on go on.
LEMMA DropKeeps ==
  ASSUME ParkInv, NEW ts, Dropped(ts), firing \ ts \subseteq firing', firing' \subseteq Previews,
         UNCHANGED <<now, parking, confirm, imported, leftover, running>>
  PROVE  ParkInv'
<1> USE DEF ParkInv
<1>1. ParkTypes'
  BY DropDoes DEF ParkTypes, Stamps
<1>2. ParksFit'
  BY DropDoes DEF ParksFit
<1>3. ConfirmsFit'
  BY DropDoes DEF ConfirmsFit, Holds
<1>4. SpoolFits'
  BY DropDoes DEF SpoolFits, Holds, ParkTypes
<1>5. SlotsFit'
  BY DropDoes, FewerSlots
<1> QED
  BY <1>1, <1>2, <1>3, <1>4, <1>5

\* The steps of a preview.
LEMMA PreviewsKeep ==
  ASSUME ParkInv, NEW t \in Previews,
         \/ ParkBegins(t) \/ ParkWrites(t) \/ ParkFails(t) \/ ParkSweeps(t) \/ ParkInserts(t)
         \/ \E e \in Previews : ParkSweepFails(t, e)
  PROVE  ParkInv'
<1> USE DEF ParkInv
<1>1. now \in Stamps /\ now # FreeSlot /\ FreeSlot \in Stamps
  BY ParkAssumption DEF ParkTypes, Stamps, FreeSlot
<1>2. CASE ParkBegins(t) \/ ParkWrites(t) \/ ParkFails(t)
  <2>1. /\ parking[t].st # "over" /\ parking' \in [Previews -> [st : ParkStages, stamp : Stamps]]
        /\ \A u \in Previews \ {t} : parking'[u] = parking[u]
        /\ parking'[t].st # "none" => parking'[t].stamp # FreeSlot
        /\ slot[t] = FreeSlot /\ imported[t] = 0
        /\ UNCHANGED <<now, slot, timer, firing, confirm, imported, leftover, running>>
    <3>1. parking[t].st # "over" /\ slot[t] = FreeSlot /\ imported[t] = 0
      BY <1>2 DEF ParkBegins, ParkWrites, ParkFails, ParksFit
    <3>2. UNCHANGED <<now, slot, timer, firing, confirm, imported, leftover, running>>
      BY <1>2 DEF ParkBegins, ParkWrites, ParkFails
    <3>3. CASE ParkBegins(t)
      <4>1. parking' = [parking EXCEPT ![t] = [st |-> "writing", stamp |-> now]]
        BY <3>3 DEF ParkBegins
      <4>2. [st |-> "writing", stamp |-> now] \in [st : ParkStages, stamp : Stamps]
        BY <1>1 DEF ParkStages
      <4> QED
        BY <1>1, <3>1, <3>2, <4>1, <4>2 DEF ParkTypes
    <3>4. CASE ParkWrites(t) \/ ParkFails(t)
      <4>1. PICK st \in {"written", "over"} : parking' = [parking EXCEPT ![t].st = st]
        BY <3>4 DEF ParkWrites, ParkFails, Goes
      <4>2. parking[t].st # "none"
        BY <3>4 DEF ParkWrites, ParkFails
      <4> QED
        BY <3>1, <3>2, <4>1, <4>2 DEF ParkTypes, ParkStages, ParksFit
    <3> QED
      BY <1>2, <3>3, <3>4
  <2>2. /\ spool' \subseteq Previews /\ spool' \subseteq spool \cup {t}
        /\ t \in spool' => parking'[t].st \in {"writing", "written"}
    BY <1>2 DEF ParkBegins, ParkWrites, ParkFails, Goes, ParkTypes
  <2>3. ParkTypes'
    BY <2>1, <2>2 DEF ParkTypes, Stamps
  <2>4. ParksFit'
    BY <2>1 DEF ParksFit
  <2>5. ConfirmsFit'
    BY <2>1 DEF ConfirmsFit, Holds
  <2>6. SpoolFits'
    BY <2>1, <2>2 DEF SpoolFits, Holds
  <2>7. SlotsFit'
    BY <2>1 DEF SlotsFit, Parked
  <2> QED
    BY <2>3, <2>4, <2>5, <2>6, <2>7
<1>3. CASE ParkSweeps(t)
  <2>1. /\ Dropped(Expired) /\ parking[t].st = "written"
        /\ parking' \in [Previews -> [st : ParkStages, stamp : Stamps]]
        /\ \A u \in Previews \ {t} : parking'[u] = parking[u]
        /\ parking'[t].st = "swept" /\ parking'[t].stamp = parking[t].stamp
        /\ UNCHANGED <<now, firing, confirm, imported, leftover, running>>
    BY <1>3 DEF ParkSweeps, Goes, ParkTypes, ParkStages
  <2>2. ParkTypes'
    BY <2>1, DropDoes DEF ParkTypes, Stamps
  <2>3. ParksFit'
    BY <2>1, DropDoes DEF ParksFit
  <2>4. ConfirmsFit'
    BY <2>1, DropDoes DEF ConfirmsFit, Holds
  <2>5. SpoolFits'
    BY <2>1, DropDoes, Zenon DEF SpoolFits, Holds, ParkTypes
  <2>6. SlotsFit'
    BY <2>1, DropDoes, FewerSlots
  <2> QED
    BY <2>2, <2>3, <2>4, <2>5, <2>6
<1>4. CASE ParkInserts(t)
  <2>1. /\ parking[t].st = "swept" /\ slot[t] = FreeSlot /\ imported[t] = 0
        /\ parking[t].stamp \in Stamps /\ parking[t].stamp # FreeSlot
        /\ parking' \in [Previews -> [st : ParkStages, stamp : Stamps]]
        /\ \A u \in Previews \ {t} : parking'[u] = parking[u]
        /\ parking'[t].st = "over" /\ parking'[t].stamp = parking[t].stamp
        /\ UNCHANGED <<now, firing, confirm, imported, leftover, running>>
    BY <1>4 DEF ParkInserts, Goes, ParkTypes, ParkStages, ParksFit
  <2>2. /\ slot' \in [Previews -> Stamps] /\ slot'[t] = parking[t].stamp
        /\ \A u \in Previews \ {t} : slot'[u] = IF u \in Evicted THEN FreeSlot ELSE slot[u]
    BY <1>1, <1>4, <2>1 DEF ParkInserts, ParkTypes
  <2>3. now + Ttl \in FreeSlot..(MaxNow + Ttl) /\ now + Ttl # FreeSlot
        /\ FreeSlot \in FreeSlot..(MaxNow + Ttl)
    BY ParkAssumption DEF ParkTypes, FreeSlot
  <2>4. /\ timer' \in [Previews -> FreeSlot..(MaxNow + Ttl)] /\ timer'[t] # FreeSlot
        /\ \A u \in Previews \ {t} : timer'[u] = IF u \in Evicted THEN FreeSlot ELSE timer[u]
    BY <1>4, <2>3 DEF ParkInserts, ParkTypes, Forgotten
  <2>5. spool' = spool \ Evicted
    BY <1>4 DEF ParkInserts
  <2>6. ParkTypes'
    BY <2>1, <2>2, <2>4, <2>5 DEF ParkTypes, Stamps
  <2>7. ParksFit'
    BY <2>1, <2>2, <2>4 DEF ParksFit
  <2>8. ConfirmsFit'
    BY <2>1, <2>2 DEF ConfirmsFit, Holds
  <2>9. SpoolFits'
    BY <2>1, <2>2, <2>5 DEF SpoolFits, Holds, ParkTypes
  <2>10. SlotsFit'
    BY <1>4, <2>1, RoomForOne DEF ParkInserts, SlotsFit
  <2> QED
    BY <2>6, <2>7, <2>8, <2>9, <2>10
<1>5. CASE \E e \in Previews : ParkSweepFails(t, e)
  <2>1. PICK e \in Previews : ParkSweepFails(t, e)
    BY <1>5
  <2>2. /\ parking[t].st = "written"
        /\ parking' \in [Previews -> [st : ParkStages, stamp : Stamps]]
        /\ \A u \in Previews \ {t} : parking'[u] = parking[u]
        /\ parking'[t].st = "over" /\ parking'[t].stamp = parking[t].stamp
        /\ leftover' = leftover \cup {e, t}
        /\ UNCHANGED <<now, firing, spool, confirm, imported, running>>
    BY <2>1 DEF ParkSweepFails, Goes, ParkTypes, ParkStages
  <2>3. FreeSlot \in FreeSlot..(MaxNow + Ttl)
    BY ParkAssumption DEF FreeSlot
  <2>4. /\ slot' \in [Previews -> Stamps] /\ timer' \in [Previews -> FreeSlot..(MaxNow + Ttl)]
        /\ \A u \in Previews : /\ slot'[u] = IF u = e THEN FreeSlot ELSE slot[u]
                               /\ timer'[u] = IF u = e THEN FreeSlot ELSE timer[u]
    BY <1>1, <2>1, <2>3 DEF ParkSweepFails, ParkTypes
  <2>5. ParkTypes'
    BY <2>2, <2>4 DEF ParkTypes, Stamps
  <2>6. ParksFit'
    BY <2>2, <2>4 DEF ParksFit
  <2>7. ConfirmsFit'
    BY <2>2, <2>4 DEF ConfirmsFit, Holds
  <2>8. SpoolFits'
    BY <2>2, <2>4 DEF SpoolFits, Holds, ParkTypes
  <2>9. SlotsFit'
    BY <2>4, FewerSlots
  <2> QED
    BY <2>5, <2>6, <2>7, <2>8, <2>9
<1> QED
  BY <1>2, <1>3, <1>4, <1>5

\* The steps of a confirm: it takes the slot, reads what it took, and lands it.
LEMMA ConfirmsKeep ==
  ASSUME ParkInv, NEW c \in Confirms,
         \/ ConfirmPops(c) \/ ConfirmGone(c) \/ ConfirmReads(c) \/ ConfirmEnds(c)
         \/ \E t \in Previews : ConfirmBegins(c, t)
  PROVE  ParkInv'
<1> USE DEF ParkInv
<1> DEFINE ConfirmRecs == [st : ConfirmStages, token : Previews \cup {0}, stamp : Stamps, late : BOOLEAN]
<1>1. FreeSlot \in Stamps /\ FreeSlot \in FreeSlot..(MaxNow + Ttl)
  BY ParkAssumption DEF Stamps, FreeSlot
<1>2. NoConfirm \in ConfirmRecs
  BY <1>1 DEF NoConfirm, ConfirmStages
<1>3. CASE \E t \in Previews : ConfirmBegins(c, t)
  <2>1. PICK t \in Previews : ConfirmBegins(c, t)
    BY <1>3
  <2> DEFINE rec == [st |-> "swept", token |-> t, stamp |-> FreeSlot, late |-> Stale(parking[t].stamp)]
  <2>2. rec \in ConfirmRecs
    BY <1>1 DEF ConfirmStages, Stale
  <2>3. /\ confirm' = [confirm EXCEPT ![c] = rec] /\ Dropped(Expired) /\ parking[t].st = "over"
        /\ UNCHANGED <<now, firing, parking, imported, leftover, running>>
    BY <2>1 DEF ConfirmBegins, Answers
  <2>4. /\ confirm' \in [Confirms -> ConfirmRecs]
        /\ confirm'[c] = rec /\ \A d \in Confirms \ {c} : confirm'[d] = confirm[d]
    BY <2>2, <2>3 DEF ParkTypes
  <2>5. confirm[c].st = "idle" /\ confirm'[c].st = "swept" /\ confirm'[c].token = t
    BY <2>1, <2>4 DEF ConfirmBegins
  <2>6. confirm'[c].late => slot'[t] = FreeSlot
    <3>1. ASSUME confirm'[c].late, slot[t] # FreeSlot PROVE t \in Expired
      BY <2>4, <3>1 DEF ParksFit, Expired, Parked
    <3> QED
      BY <2>3, <3>1, DropDoes
  <2> HIDE DEF rec
  <2>7. ParkTypes'
    BY <2>3, <2>4, DropDoes DEF ParkTypes, Stamps
  <2>8. ParksFit'
    BY <2>3, DropDoes DEF ParksFit
  <2>9. ConfirmsFit'
    BY <2>3, <2>4, <2>5, <2>6, DropDoes DEF ConfirmsFit, Holds
  <2>10. SpoolFits'
    BY <2>3, <2>4, <2>5, DropDoes, Zenon DEF SpoolFits, Holds, ParkTypes
  <2>11. SlotsFit'
    BY <2>3, DropDoes, FewerSlots
  <2> QED
    BY <2>7, <2>8, <2>9, <2>10, <2>11
<1>4. CASE ConfirmPops(c)
  <2> DEFINE t == confirm[c].token
             rec == [confirm[c] EXCEPT !.st = "taken", !.stamp = slot[t]]
  <2>1. confirm[c].st = "swept" /\ slot[t] # FreeSlot /\ t \in Previews
    BY <1>4 DEF ConfirmPops, ConfirmFinds, ConfirmsFit
  <2>2. rec \in ConfirmRecs
    BY <2>1, Zenon DEF ParkTypes, ConfirmStages
  <2>3. /\ confirm' = [confirm EXCEPT ![c] = rec] /\ slot' = [slot EXCEPT ![t] = FreeSlot]
        /\ timer' = Forgotten({t})
        /\ UNCHANGED <<now, firing, spool, parking, imported, leftover, running>>
    BY <1>4 DEF ConfirmPops, Answers, Taken
  <2>4. /\ confirm' \in [Confirms -> ConfirmRecs]
        /\ confirm'[c] = rec /\ \A d \in Confirms \ {c} : confirm'[d] = confirm[d]
    BY <2>2, <2>3 DEF ParkTypes
  <2>5. confirm'[c].st = "taken" /\ confirm'[c].token = t /\ confirm'[c].late = confirm[c].late
    BY <2>4 DEF ParkTypes
  <2>6. /\ slot' \in [Previews -> Stamps] /\ timer' \in [Previews -> FreeSlot..(MaxNow + Ttl)]
        /\ \A u \in Previews : /\ slot'[u] = IF u = t THEN FreeSlot ELSE slot[u]
                               /\ timer'[u] = IF u = t THEN FreeSlot ELSE timer[u]
    BY <1>1, <2>1, <2>3 DEF ParkTypes, Forgotten
  <2>7. ~confirm[c].late /\ imported[t] = 0 /\ \A d \in Confirms : Holds(d) => confirm[d].token # t
    BY <2>1 DEF ConfirmsFit, ParksFit
  <2> HIDE DEF rec, t
  <2>8. ParkTypes'
    BY <2>3, <2>4, <2>6, Zenon DEF ParkTypes, Stamps
  <2>9. ParksFit'
    BY <2>3, <2>6, Zenon DEF ParksFit
  <2>10. ConfirmsFit'
    BY <2>1, <2>3, <2>4, <2>5, <2>6, <2>7 DEF ConfirmsFit, Holds, t
  <2>11. SpoolFits'
    BY <2>1, <2>3, <2>4, <2>5, <2>6 DEF SpoolFits, Holds, ParkTypes
  <2>12. SlotsFit'
    BY <2>6, FewerSlots
  <2> QED
    BY <2>8, <2>9, <2>10, <2>11, <2>12
<1>5. CASE ConfirmGone(c)
  <2>1. /\ confirm[c].st = "swept" /\ confirm' = [confirm EXCEPT ![c] = NoConfirm]
        /\ UNCHANGED <<now, slot, timer, firing, spool, parking, imported, leftover, running>>
    BY <1>5 DEF ConfirmGone, Answers
  <2>2. /\ confirm' \in [Confirms -> ConfirmRecs]
        /\ confirm'[c].st = "idle" /\ \A d \in Confirms \ {c} : confirm'[d] = confirm[d]
    BY <1>2, <2>1 DEF ParkTypes, NoConfirm
  <2>3. ParkTypes'
    BY <2>1, <2>2 DEF ParkTypes, Stamps
  <2>4. ParksFit' /\ SlotsFit'
    BY <2>1 DEF ParksFit, SlotsFit, Parked
  <2>5. ConfirmsFit'
    BY <2>1, <2>2 DEF ConfirmsFit, Holds
  <2>6. SpoolFits'
    BY <2>1, <2>2 DEF SpoolFits, Holds, ParkTypes
  <2> QED
    BY <2>3, <2>4, <2>5, <2>6
<1>6. CASE ConfirmReads(c)
  <2>1. PICK st \in {"read", "refused"} : confirm' = [confirm EXCEPT ![c] = [confirm[c] EXCEPT !.st = st]]
    BY <1>6, Zenon DEF ConfirmReads, Answers
  <2>2. /\ confirm[c].st = "taken"
        /\ UNCHANGED <<now, slot, timer, firing, spool, parking, imported, leftover, running>>
    BY <1>6 DEF ConfirmReads
  <2>3. /\ confirm' \in [Confirms -> ConfirmRecs] /\ confirm'[c].st \in {"read", "refused"}
        /\ confirm'[c].token = confirm[c].token /\ confirm'[c].late = confirm[c].late
        /\ \A d \in Confirms \ {c} : confirm'[d] = confirm[d]
    BY <2>1, Zenon DEF ParkTypes, ConfirmStages
  <2>4. ParkTypes'
    BY <2>2, <2>3 DEF ParkTypes, Stamps
  <2>5. ParksFit' /\ SlotsFit'
    BY <2>2 DEF ParksFit, SlotsFit, Parked
  <2>6. ConfirmsFit'
    BY <2>2, <2>3 DEF ConfirmsFit, Holds
  <2>7. SpoolFits'
    BY <2>2, <2>3 DEF SpoolFits, Holds, ParkTypes
  <2> QED
    BY <2>4, <2>5, <2>6, <2>7
<1>7. CASE ConfirmEnds(c)
  <2> DEFINE t == confirm[c].token
  <2>1. /\ confirm[c].st \in {"read", "refused"} /\ t \in Previews
        /\ confirm' = [confirm EXCEPT ![c] = NoConfirm] /\ spool' = spool \ {t}
        /\ UNCHANGED <<now, slot, timer, firing, parking, leftover, running>>
    BY <1>7 DEF ConfirmEnds, Answers, ConfirmsFit
  <2>2. /\ parking[t].st = "over" /\ slot[t] = FreeSlot /\ imported[t] = 0
        /\ \A d \in Confirms \ {c} : Holds(d) => confirm[d].token # t
    BY <2>1 DEF ConfirmsFit, Holds
  <2>3. /\ imported' \in [Previews -> 0..1]
        /\ \A u \in Previews \ {t} : imported'[u] = imported[u]
    BY <1>7, <2>1, <2>2 DEF ConfirmEnds, ParkTypes
  <2>4. /\ confirm' \in [Confirms -> ConfirmRecs]
        /\ confirm'[c].st = "idle" /\ \A d \in Confirms \ {c} : confirm'[d] = confirm[d]
    BY <1>2, <2>1 DEF ParkTypes, NoConfirm
  <2> HIDE DEF t
  <2>5. ParkTypes'
    BY <2>1, <2>3, <2>4 DEF ParkTypes, Stamps
  <2>6. ParksFit' /\ SlotsFit'
    BY <2>1, <2>2, <2>3 DEF ParksFit, SlotsFit, Parked
  <2>7. ConfirmsFit'
    BY <2>1, <2>2, <2>3, <2>4 DEF ConfirmsFit, Holds
  <2>8. SpoolFits'
    BY <2>1, <2>4 DEF SpoolFits, Holds, ParkTypes, t
  <2> QED
    BY <2>5, <2>6, <2>7, <2>8
<1> QED
  BY <1>3, <1>4, <1>5, <1>6, <1>7

\* Time, the expiry timers, and what happens to the backend and its files.
LEMMA TimersKeep ==
  ASSUME ParkInv,
         \/ TimePasses \/ Resweeps
         \/ \E t \in Previews : TimerFires(t) \/ Expires(t) \/ CleanedOutside(t)
  PROVE  ParkInv'
<1>1. CASE TimePasses
  <2>1. /\ now' \in 0..MaxNow
        /\ UNCHANGED <<slot, timer, firing, spool, parking, confirm, imported, leftover, running>>
    BY <1>1, ParkAssumption DEF TimePasses, ParkInv, ParkTypes
  <2> QED
    BY <2>1 DEF ParkInv, ParkTypes, ParksFit, ConfirmsFit, SpoolFits, SlotsFit, Holds, Parked, Stamps
<1>2. CASE Resweeps
  BY <1>2, DropKeeps DEF Resweeps, ParkInv, ParkTypes
<1>3. CASE \E t \in Previews : Expires(t)
  <2>1. PICK t \in Previews : Expires(t)
    BY <1>3
  <2>2. /\ Dropped({t}) /\ firing' = firing \ {t}
        /\ UNCHANGED <<now, parking, confirm, imported, leftover, running>>
    BY <2>1 DEF Expires
  <2> QED
    BY <2>2, DropKeeps DEF ParkInv, ParkTypes
<1>4. CASE \E t \in Previews : TimerFires(t)
  <2>1. /\ firing \subseteq firing' /\ firing' \subseteq Previews
        /\ UNCHANGED <<now, slot, timer, spool, parking, confirm, imported, leftover, running>>
    BY <1>4 DEF TimerFires, ParkInv, ParkTypes
  <2> QED
    BY <2>1 DEF ParkInv, ParkTypes, ParksFit, ConfirmsFit, SpoolFits, SlotsFit, Holds, Parked, Stamps
<1>5. CASE \E t \in Previews : CleanedOutside(t)
  <2>1. /\ spool' \subseteq spool
        /\ UNCHANGED <<now, slot, timer, firing, parking, confirm, imported, leftover, running>>
    BY <1>5 DEF CleanedOutside
  <2> QED
    BY <2>1 DEF ParkInv, ParkTypes, ParksFit, ConfirmsFit, SpoolFits, SlotsFit, Holds, Parked, Stamps
<1> QED
  BY <1>1, <1>2, <1>3, <1>4, <1>5

LEMMA RestartsKeep ==
  ASSUME ParkInv, BackendDies \/ \E stuck \in SUBSET spool : Starts(stuck)
  PROVE  ParkInv'
<1> USE DEF ParkInv
<1>1. FreeSlot \in Stamps /\ FreeSlot \in FreeSlot..(MaxNow + Ttl)
  BY ParkAssumption DEF Stamps, FreeSlot
<1>2. CASE BackendDies
  <2>1. /\ running' = FALSE /\ firing' = {}
        /\ slot' = [t \in Previews |-> FreeSlot] /\ timer' = [t \in Previews |-> FreeSlot]
        /\ confirm' = [c \in Confirms |-> NoConfirm]
        /\ UNCHANGED <<now, spool, imported, leftover>>
    BY <1>2 DEF BackendDies
  <2>2. /\ parking' \in [Previews -> [st : ParkStages, stamp : Stamps]]
        /\ \A t \in Previews : /\ parking'[t].st # "none" => parking'[t].stamp # FreeSlot
                               /\ parking'[t].st # "over" => imported[t] = 0
    BY <1>2 DEF BackendDies, ParkTypes, ParkStages, ParksFit
  <2>3. NoConfirm \in [st : ConfirmStages, token : Previews \cup {0}, stamp : Stamps, late : BOOLEAN]
    BY <1>1 DEF NoConfirm, ConfirmStages
  <2>4. ParkTypes'
    BY <1>1, <2>1, <2>2, <2>3 DEF ParkTypes, Stamps
  <2>5. ParksFit'
    BY <2>1, <2>2 DEF ParksFit
  <2>6. ConfirmsFit'
    BY <2>1 DEF ConfirmsFit, Holds, NoConfirm
  <2>7. SpoolFits'
    BY <2>1 DEF SpoolFits
  <2>8. SlotsFit'
    BY <1>1, <2>1, FewerSlots
  <2> QED
    BY <2>4, <2>5, <2>6, <2>7, <2>8
<1>3. CASE \E stuck \in SUBSET spool : Starts(stuck)
  <2>1. PICK stuck \in SUBSET spool : Starts(stuck)
    BY <1>3
  <2>2. /\ spool' = stuck /\ leftover' = stuck
        /\ UNCHANGED <<now, slot, timer, firing, parking, confirm, imported>>
    BY <2>1 DEF Starts, ClearedSpool
  <2> QED
    BY <2>2 DEF ParkTypes, ParksFit, ConfirmsFit, SpoolFits, SlotsFit, Holds, Parked, Stamps
<1> QED
  BY <1>2, <1>3

LEMMA ParkStep == ASSUME ParkInv, ParkNext PROVE ParkInv'
<1>1. CASE TimePasses \/ Resweeps
  BY <1>1, TimersKeep
<1>2. CASE BackendDies \/ \E stuck \in SUBSET spool : Cardinality(stuck) <= 1 /\ Starts(stuck)
  BY <1>2, RestartsKeep
<1>3. ASSUME NEW t \in Previews, TimerFires(t) \/ Expires(t) \/ CleanedOutside(t)
      PROVE  ParkInv'
  BY <1>3, TimersKeep
<1>4. ASSUME NEW t \in Previews,
             \/ ParkBegins(t) \/ ParkWrites(t) \/ ParkFails(t) \/ ParkSweeps(t) \/ ParkInserts(t)
             \/ \E e \in Previews : ParkSweepFails(t, e)
      PROVE  ParkInv'
  BY <1>4, PreviewsKeep
<1>5. ASSUME NEW c \in Confirms,
             \/ ConfirmPops(c) \/ ConfirmGone(c) \/ ConfirmReads(c) \/ ConfirmEnds(c)
             \/ \E t \in Previews : ConfirmBegins(c, t)
      PROVE  ParkInv'
  BY <1>5, ConfirmsKeep
<1> QED
  BY <1>1, <1>2, <1>3, <1>4, <1>5 DEF ParkNext

LEMMA ParkStarts == ASSUME ParkInit PROVE ParkInv
<1>1. FreeSlot \in Stamps /\ FreeSlot \in FreeSlot..(MaxNow + Ttl) /\ 0 \in 0..MaxNow
  BY ParkAssumption DEF Stamps, FreeSlot
<1>2. NoConfirm \in [st : ConfirmStages, token : Previews \cup {0}, stamp : Stamps, late : BOOLEAN]
  BY <1>1 DEF NoConfirm, ConfirmStages
<1>3. ParkTypes
  BY <1>1, <1>2 DEF ParkInit, ParkTypes, ParkStages
<1>4. ParksFit /\ ConfirmsFit /\ SpoolFits
  BY DEF ParkInit, ParksFit, ConfirmsFit, SpoolFits, Holds, NoConfirm
<1>5. Parked = {}
  BY DEF ParkInit, Parked
<1>6. SlotsFit
  BY <1>5, FS_EmptySet, ParkAssumption DEF SlotsFit
<1> QED
  BY <1>3, <1>4, <1>6 DEF ParkInv

LEMMA ParkStays == ASSUME ParkInv, UNCHANGED parkVars PROVE ParkInv'
  BY DEF parkVars, ParkInv, ParkTypes, ParksFit, ConfirmsFit, SpoolFits, SlotsFit, Holds, Parked, Stamps

ParkingPart == part = "parking" => ParkInv

LEMMA ParkingInvariance == Spec => []ParkingPart
<1>1. Init => ParkingPart
  BY ParkStarts DEF Init, ParkingPart
<1>2. ParkingPart /\ [Next]_allVars => ParkingPart'
  <2> SUFFICES ASSUME ParkingPart, [Next]_allVars, part' = "parking"
               PROVE  ParkInv'
    BY DEF ParkingPart
  <2>1. part' = part
    BY DEF Next, Still, allVars
  <2>2. ParkInv
    BY <2>1 DEF ParkingPart
  <2>3. ParkNext \/ UNCHANGED parkVars
    BY <2>1 DEF Next, allVars
  <2> QED
    BY <2>2, <2>3, ParkStep, ParkStays
<1> QED
  BY <1>1, <1>2, PTL DEF Spec

LEMMA ParkGives == ASSUME ParkInv PROVE ParkTypeOK /\ LandsOnceInTime /\ SpoolIsAccounted
<1> USE DEF ParkInv
<1>1. ParkTypeOK
  BY DEF ParkTypeOK, ParkTypes, Stamps, ParkStages
<1>2. LandsOnceInTime
  BY DEF LandsOnceInTime, ParkTypes, ConfirmsFit, Holds
<1>3. SpoolIsAccounted
  BY DEF SpoolIsAccounted, SpoolFits, ParksFit, SlotsFit, ParkTypes, Holds, Parked
<1> QED
  BY <1>1, <1>2, <1>3

-----------------------------------------------------------------------------
(***************************************************************************)
(* Downloads.                                                              *)
(***************************************************************************)
\* A request is sent with a patience of its own, and nothing has come yet.
LEMMA AsksKeep ==
  ASSUME FetchInv, NEW what \in {"archive", "latest", "contents"}, NEW t \in Nat, Asks(what, t),
         spent' = t, plain' = plain
  PROVE  FetchInv'
<1>1. Patience(t) \in Nat
  BY FetchAssumption DEF Patience, Most, Least, Floor, FetchInv, FetchTypes
<1>2. /\ step' = "opening" /\ asking' = what /\ patience' = Patience(t) /\ got' = 0
      /\ declared' \in {NoLength} \cup (1..SizeCap) /\ limit' = limit /\ came' = NotCome
  BY DEF Asks, NextLimit
<1>3. FetchTypes'
  BY <1>1, <1>2, FetchAssumption DEF FetchInv, FetchTypes
<1>4. FetchFits'
  BY <1>2 DEF FetchInv, FetchFits
<1> QED
  BY <1>3, <1>4 DEF FetchInv

\* The read that is on ends at most one timeout after the body should have.
LEMMA ReadsEnd ==
  ASSUME FetchInv, step = "reading", NEW d \in 0..ReadTimeout
  PROVE  spent + d \in Nat /\ spent + d <= Most(came, Deadline) + ReadTimeout
<1>1. /\ spent \in Nat /\ d \in Nat /\ d <= ReadTimeout /\ Deadline \in Nat /\ ReadTimeout \in Nat
      /\ came \in Nat /\ (spent <= Deadline \/ spent = came)
  BY FetchAssumption DEF FetchInv, FetchTypes, FetchFits
<1> QED
  BY <1>1 DEF Most

LEMMA FetchStep == ASSUME FetchInv, FetchNext PROVE FetchInv'
<1> USE DEF FetchInv
<1>1. spent \in Nat /\ patience \in Nat /\ Deadline \in Nat /\ ReadTimeout \in Nat /\ NotCome \notin Nat
  BY FetchAssumption DEF FetchTypes, NotCome
<1>2. CASE Resolves
  <2>1. step = "resolving" /\ spent' = spent /\ plain' = plain
    BY <1>2 DEF Resolves
  <2>2. \/ Asks("archive", spent) \/ Asks("latest", spent)
        \/ step' = "refused" /\ UNCHANGED <<asking, limit, patience, got, declared, hops, came>>
    BY <1>2 DEF Resolves
  <2>3. CASE step' = "refused" /\ UNCHANGED <<asking, limit, patience, got, declared, hops, came>>
    BY <1>1, <2>1, <2>3 DEF FetchTypes, FetchFits
  <2> QED
    BY <1>1, <2>1, <2>2, <2>3, AsksKeep
<1>3. CASE \E https \in BOOLEAN : Redirected(https)
  <2>1. step = "opening" /\ UNCHANGED <<spent, asking, limit, patience, got, declared, came>>
    BY <1>3 DEF Redirected, Refused
  <2>2. step' \in {"opening", "refused"}
    BY <1>3 DEF Redirected, Refused
  <2>3. ~plain'
    BY <1>3, Zenon DEF Redirected, Refused, MayFollow, FetchFits
  <2> QED
    BY <2>1, <2>2, <2>3 DEF FetchTypes, FetchFits
<1>4. CASE \E d \in 0..ReadTimeout : Waits(d)
  <2>1. PICK d \in 0..ReadTimeout : Waits(d)
    BY <1>4
  <2>2. /\ step = "opening" /\ spent' = spent + d /\ d \in Nat
        /\ UNCHANGED <<step, asking, limit, patience, got, declared, came, plain>>
    BY <2>1 DEF Waits
  <2> QED
    BY <1>1, <2>2 DEF FetchTypes, FetchFits
<1>5. CASE \E d \in 0..ReadTimeout : Opens(d)
  <2>1. PICK d \in 0..ReadTimeout : Opens(d)
    BY <1>5
  <2>2. /\ step = "opening" /\ step' = "reading" /\ spent' = spent + d /\ came' = spent + d
        /\ d \in Nat /\ UNCHANGED <<asking, limit, patience, got, declared, plain>>
    BY <2>1 DEF Opens
  <2>3. FetchTypes'
    BY <1>1, <2>2 DEF FetchTypes
  <2>4. came' # NotCome /\ spent' <= Most(came', Deadline) + ReadTimeout
    BY <1>1, <2>2 DEF Most
  <2> QED
    BY <2>2, <2>3, <2>4 DEF FetchFits
<1>6. CASE \E d \in 0..ReadTimeout : Fails(d)
  <2>1. PICK d \in 0..ReadTimeout : Fails(d)
    BY <1>6
  <2>2. /\ step \in {"opening", "reading"} /\ step' = "refused" /\ spent' = spent + d /\ d \in Nat
        /\ UNCHANGED <<asking, limit, patience, got, declared, came, plain>>
    BY <2>1 DEF Fails, Refused
  <2>3. came # NotCome => spent' <= Most(came, Deadline) + ReadTimeout
    BY <2>2, ReadsEnd DEF FetchFits
  <2> QED
    BY <1>1, <2>2, <2>3 DEF FetchTypes, FetchFits
<1>7. CASE \E d \in 0..ReadTimeout : ReadsSome(d)
  <2>1. PICK d \in 0..ReadTimeout : ReadsSome(d)
    BY <1>7
  <2>2. /\ step = "reading" /\ spent' = spent + d
        /\ UNCHANGED <<asking, limit, patience, declared, came, plain>>
    BY <2>1 DEF ReadsSome, Refused
  <2>3. spent' \in Nat /\ spent' <= Most(came, Deadline) + ReadTimeout
    BY <2>2, ReadsEnd
  <2>4. CASE TooMuch(d)
    <3>1. step' = "refused" /\ got' = got
      BY <2>1, <2>4 DEF ReadsSome, Refused
    <3> QED
      BY <2>2, <2>3, <3>1 DEF FetchTypes, FetchFits
  <2>5. CASE ~TooMuch(d)
    <3>1. step' = step /\ got' = got + 1
      BY <2>1, <2>5 DEF ReadsSome
    <3>2. got' \in 0..SizeCap /\ spent' <= Deadline
      BY <1>1, <2>2, <2>5, <3>1, FetchAssumption DEF TooMuch, FetchTypes
    <3> QED
      BY <2>2, <2>3, <3>1, <3>2 DEF FetchTypes, FetchFits
  <2> QED
    BY <2>4, <2>5
<1>8. CASE \E d \in 0..ReadTimeout : EndOfArchive(d)
  <2>1. PICK d \in 0..ReadTimeout : EndOfArchive(d)
    BY <1>8
  <2>2. /\ step = "reading" /\ spent' = spent + d
        /\ step' \in {"refused", "done"} /\ (step' = "done" => ~Short)
        /\ UNCHANGED <<asking, limit, patience, got, declared, came, plain>>
    BY <2>1 DEF EndOfArchive
  <2>3. step' = "done" => declared = NoLength \/ got >= declared
    BY <2>2 DEF Short, FetchTypes, NoLength
  <2> QED
    BY <2>2, <2>3, ReadsEnd DEF FetchTypes, FetchFits
<1>9. CASE \E d \in 0..ReadTimeout, f, https \in BOOLEAN : EndOfListing(d, f, https)
  <2>1. PICK d \in 0..ReadTimeout, f \in BOOLEAN, https \in BOOLEAN : EndOfListing(d, f, https)
    BY <1>9
  <2>2. step = "reading" /\ spent' = spent + d
    BY <2>1 DEF EndOfListing
  <2>3. \/ Refused
        \/ Asks("archive", spent + d) /\ UNCHANGED plain
        \/ Asks("contents", spent + d) /\ UNCHANGED plain
    BY <2>1 DEF EndOfListing
  <2>4. CASE Refused
    BY <2>2, <2>4, ReadsEnd DEF Refused, FetchTypes, FetchFits
  <2> QED
    BY <2>2, <2>3, <2>4, ReadsEnd, AsksKeep
<1> QED
  BY <1>2, <1>3, <1>4, <1>5, <1>6, <1>7, <1>8, <1>9 DEF FetchNext

LEMMA FetchStarts == ASSUME FetchInit PROVE FetchInv
  BY FetchAssumption DEF FetchInit, FetchInv, FetchTypes, FetchFits, NoLength, NotCome

LEMMA FetchStays == ASSUME FetchInv, UNCHANGED fetchVars PROVE FetchInv'
  BY DEF fetchVars, FetchInv, FetchTypes, FetchFits

FetchPart == part = "fetch" => FetchInv

LEMMA FetchInvariance == Spec => []FetchPart
<1>1. Init => FetchPart
  BY FetchStarts DEF Init, FetchPart
<1>2. FetchPart /\ [Next]_allVars => FetchPart'
  <2> SUFFICES ASSUME FetchPart, [Next]_allVars, part' = "fetch"
               PROVE  FetchInv'
    BY DEF FetchPart
  <2>1. part' = part
    BY DEF Next, Still, allVars
  <2>2. FetchInv
    BY <2>1 DEF FetchPart
  <2>3. FetchNext \/ UNCHANGED fetchVars
    BY <2>1 DEF Next, allVars
  <2> QED
    BY <2>2, <2>3, FetchStep, FetchStays
<1> QED
  BY <1>1, <1>2, PTL DEF Spec

LEMMA FetchGives == ASSUME FetchInv PROVE FetchTypeOK /\ BodiesEndByTheDeadline /\ AcceptedIsWhole
<1> USE DEF FetchInv
<1>1. FetchTypeOK
  BY DEF FetchTypeOK, FetchTypes
<1>2. BodiesEndByTheDeadline
  BY DEF BodiesEndByTheDeadline, FetchFits
<1>3. AcceptedIsWhole
  BY FetchAssumption DEF AcceptedIsWhole, FetchTypes, FetchFits
<1> QED
  BY <1>1, <1>2, <1>3

\* Whatever is fetched or uploaded, restarted or raced, an import lands once, in
\* time and with its file, the body of a download ends by the deadline of the import
\* and is whole; a row said to be read shows a copy of its own place and the page the table of the next
\* launch (api.py:1566-1722, marketplace.py:858-1268).
THEOREM FetchedAlwaysTrue == Spec => []FetchedStaysTrue
<1>1. ParkingPart /\ FetchPart /\ CatalogsPart => FetchedStaysTrue
  BY ParkGives, FetchGives, MarketGives DEF ParkingPart, FetchPart, CatalogsPart, FetchedStaysTrue
<1> QED
  BY <1>1, ParkingInvariance, FetchInvariance, CatalogsInvariance, PTL

-----------------------------------------------------------------------------
(***************************************************************************)
(* Archives: what an export lists, what matching finds, what lands.         *)
(***************************************************************************)
\* A strict order in which any two members of a set are ordered.
Orders(R, S) ==
    /\ \A x \in S : <<x, x>> \notin R
    /\ \A x, y, z \in S : <<x, y>> \in R /\ <<y, z>> \in R => <<x, z>> \in R
    /\ \A x, y \in S : x = y \/ <<x, y>> \in R \/ <<y, x>> \in R

\* A sequence that has every member of a set once.
ListOf(q, S) ==
    /\ q \in [1..Cardinality(S) -> S]
    /\ \A x \in S : \E n \in 1..Cardinality(S) : q[n] = x
    /\ \A m, n \in 1..Cardinality(S) : q[m] = q[n] => m = n

\* Listing a set in an order misses none and repeats none.
LEMMA OrderedIs ==
  ASSUME NEW S, IsFiniteSet(S), NEW R, Orders(R, S)
  PROVE  ListOf(Ordered(S, R), S)
<1> DEFINE N == Cardinality(S)
           Before(x) == {y \in S : <<y, x>> \in R}
           at == [x \in S |-> Cardinality(Before(x))]
<1>1. N \in Nat
  BY FS_CardinalityType
<1>2. ASSUME NEW x \in S PROVE /\ IsFiniteSet(Before(x)) /\ at[x] \in 0..(N - 1)
  <2>1. Before(x) \subseteq S \ {x}
    BY DEF Orders
  <2>2. IsFiniteSet(S \ {x}) /\ Cardinality(S \ {x}) = N - 1
    BY FS_RemoveElement
  <2>3. IsFiniteSet(Before(x)) /\ Cardinality(Before(x)) <= N - 1
    <3> HIDE DEF Before
    <3> QED BY <2>1, <2>2, FS_Subset
  <2>4. Cardinality(Before(x)) \in Nat
    BY <2>3, FS_CardinalityType
  <2> QED
    BY <1>1, <2>3, <2>4
<1>3. ASSUME NEW x \in S, NEW y \in S, <<x, y>> \in R PROVE at[x] < at[y]
  <2>1. Before(x) \subseteq Before(y) \ {x}
    BY <1>3 DEF Orders
  <2>2. x \in Before(y)
    BY <1>3
  <2>3. IsFiniteSet(Before(y))
    BY <1>2
  <2>4. IsFiniteSet(Before(y) \ {x}) /\ Cardinality(Before(y) \ {x}) = Cardinality(Before(y)) - 1
    BY <2>2, <2>3, FS_RemoveElement, Zenon
  <2>5. Cardinality(Before(x)) <= Cardinality(Before(y) \ {x})
    BY <2>1, <2>4, FS_Subset, Zenon
  <2>6. Cardinality(Before(x)) \in Nat /\ Cardinality(Before(y)) \in Nat
    BY <1>2, FS_CardinalityType
  <2> HIDE DEF Before
  <2> QED
    BY <2>4, <2>5, <2>6
<1>4. ASSUME NEW x \in S, NEW y \in S, at[x] = at[y] PROVE x = y
  <2>1. at[x] \in Int /\ at[y] \in Int
    <3>1. at[x] \in 0..(N - 1) /\ at[y] \in 0..(N - 1)
      BY <1>2, Zenon
    <3> HIDE DEF at, N
    <3> QED BY <1>1, <3>1
  <2>2. ~(at[x] < at[y]) /\ ~(at[y] < at[x])
    <3> HIDE DEF at
    <3> QED BY <2>1, <1>4
  <2> HIDE DEF at
  <2> QED
    BY <1>3, <2>2, Zenon DEF Orders
<1>5. at \in Injection(S, 0..(N - 1))
  <2>1. at \in [S -> 0..(N - 1)]
    BY <1>2
  <2> HIDE DEF at
  <2> QED
    BY <1>4, <2>1 DEF Injection, IsInjective
<1>6. IsFiniteSet(0..(N - 1)) /\ Cardinality(0..(N - 1)) = N
  BY <1>1, FS_Interval
<1>7. \A n \in 1..N : \E x \in S : at[x] = n - 1
  <2>1. at \in Surjection(S, 0..(N - 1))
    BY <1>5, <1>6, FS_Injection
  <2> HIDE DEF at
  <2>2. ASSUME NEW n \in 1..N PROVE \E x \in S : at[x] = n - 1
    <3>1. n - 1 \in 0..(N - 1)
      BY <1>1
    <3> QED
      BY <2>1, <3>1 DEF Surjection
  <2> QED BY <2>2
<1> DEFINE q == Ordered(S, R)
<1>8. q = [n \in 1..N |-> CHOOSE x \in S : at[x] = n - 1]
  <2>1. ASSUME NEW n \in 1..N
        PROVE (CHOOSE x \in S : Cardinality({y \in S : <<y, x>> \in R}) = n - 1)
                = (CHOOSE x \in S : at[x] = n - 1)
    <3>1. \A x \in S : at[x] = Cardinality({y \in S : <<y, x>> \in R})
      OBVIOUS
    <3> HIDE DEF at
    <3> QED BY <3>1
  <2>2. Ordered(S, R) = [n \in 1..N |-> CHOOSE x \in S : Cardinality({y \in S : <<y, x>> \in R}) = n - 1]
    BY DEF Ordered
  <2> HIDE DEF at
  <2> QED BY <2>1, <2>2, Zenon
<1> HIDE DEF q, at, N
<1>9. ASSUME NEW n \in 1..N PROVE q[n] \in S /\ at[q[n]] = n - 1
  BY <1>7, <1>8
<1>10. q \in [1..N -> S]
  BY <1>8, <1>9
<1>11. ASSUME NEW x \in S PROVE \E n \in 1..N : q[n] = x
  <2>1. at[x] \in 0..(N - 1)
    BY <1>2 DEF at, N
  <2>2. at[x] + 1 \in 1..N
    BY <1>1, <2>1 DEF N
  <2>3. at[q[at[x] + 1]] = at[x]
    BY <1>9, <2>1, <2>2
  <2>4. q[at[x] + 1] = x
    BY <1>4, <1>9, <2>2, <2>3
  <2> QED BY <2>2, <2>4
<1>12. ASSUME NEW m \in 1..N, NEW n \in 1..N, q[m] = q[n] PROVE m = n
  BY <1>9, <1>12
<1> QED
  BY <1>10, <1>11, <1>12 DEF ListOf, N, q

\* Of a nonempty set of naturals one is the least: the finite sets of naturals
\* are well founded under inclusion.
LEMMA LeastNat == ASSUME NEW S, S \subseteq Nat, S # {} PROVE \E n \in S : \A j \in S : n <= j
<1> DEFINE T == {0..n : n \in S}
<1>1. IsWellFoundedOn(StrictSubsetOrdering(Nat), FiniteSubsetsOf(Nat))
  BY FS_StrictSubsetOrderingWellFounded
<1>2. T \subseteq FiniteSubsetsOf(Nat)
  <2> SUFFICES ASSUME NEW n \in S PROVE 0..n \in FiniteSubsetsOf(Nat)
    OBVIOUS
  <2>1. n \in Int /\ 0 \in Int /\ 0..n \subseteq Nat
    OBVIOUS
  <2>2. IsFiniteSet(0..n)
    BY <2>1, FS_Interval
  <2> QED
    BY <2>1, <2>2 DEF FiniteSubsetsOf
<1>3. T # {}
  BY Zenon
<1>4. PICK x \in T : \A y \in T : ~(<<y, x>> \in StrictSubsetOrdering(Nat))
  <2> HIDE DEF T
  <2> QED
    BY <1>1, <1>2, <1>3, WFMin
<1>5. PICK n \in S : x = 0..n
  BY <1>4
<1>6. ASSUME NEW j \in S, j < n PROVE FALSE
  <2>1. 0..j \subseteq 0..n /\ 0..j # 0..n /\ 0..j \subseteq Nat /\ 0..n \subseteq Nat
    BY <1>6
  <2>2. <<0..j, 0..n>> \in StrictSubsetOrdering(Nat)
    BY <2>1 DEF StrictSubsetOrdering
  <2> QED
    BY <1>4, <1>5, <2>2, Zenon
<1> QED
  BY <1>6

\* A walk of N steps, each given by what the one before it left.
Walk(f, N, g, start) == f[0] = start /\ \A n \in 1..N : f[n] = g[<<n, f[n - 1]>>]

LEMMA WalkExists ==
  ASSUME NEW N \in Nat, NEW T, NEW start \in T, NEW g \in [(1..N) \X T -> T]
  PROVE  \E f \in [0..N -> T] : Walk(f, N, g, start)
<1> DEFINE Bad == {k \in 0..N : ~ \E f \in [0..k -> T] : Walk(f, k, g, start)}
<1> SUFFICES ASSUME Bad # {} PROVE FALSE
  <2>1. N \in 0..N
    OBVIOUS
  <2> QED
    BY <2>1
<1>1. Bad \subseteq Nat
  OBVIOUS
<1>2. PICK k \in Bad : \A j \in Bad : k <= j
  <2> HIDE DEF Bad
  <2> QED
    BY <1>1, LeastNat, Zenon
<1>3. k # 0
  <2> SUFFICES ASSUME k = 0 PROVE FALSE
    OBVIOUS
  <2> DEFINE f == [n \in 0..0 |-> start]
  <2>1. f \in [0..0 -> T] /\ f[0] = start /\ 1..0 = {}
    OBVIOUS
  <2>2. Walk(f, 0, g, start)
    <3> HIDE DEF f
    <3> QED BY <2>1 DEF Walk
  <2> HIDE DEF f
  <2> QED
    BY <2>1, <2>2
<1>4. k - 1 \in 0..N /\ k \in 1..N /\ k - 1 < k
  BY <1>3
<1>5. k - 1 \notin Bad
  <2>1. k \in Nat
    BY <1>1
  <2> HIDE DEF Bad
  <2> QED
    BY <1>2, <1>4, <2>1
<1>6. PICK f \in [0..(k - 1) -> T] : Walk(f, k - 1, g, start)
  BY <1>4, <1>5
<1> DEFINE h == [n \in 0..k |-> IF n = k THEN g[<<k, f[k - 1]>>] ELSE f[n]]
<1>7. f[k - 1] \in T
  BY <1>4
<1>8. h \in [0..k -> T]
  BY <1>4, <1>7
<1>9. h[0] = start
  BY <1>4, <1>6 DEF Walk
<1>10. ASSUME NEW n \in 1..k PROVE h[n] = g[<<n, h[n - 1]>>]
  <2>1. CASE n = k
    <3>1. h[k] = g[<<k, f[k - 1]>>]
      BY <1>4
    <3>2. h[k - 1] = f[k - 1]
      <4>1. k - 1 \in 0..k /\ k - 1 # k
        BY <1>4
      <4> QED BY <4>1
    <3> HIDE DEF h
    <3> QED
      BY <2>1, <3>1, <3>2
  <2>2. CASE n # k
    <3>1. n \in 1..(k - 1) /\ n - 1 \in 0..(k - 1)
      BY <1>4, <2>2
    <3>2. h[n] = f[n] /\ h[n - 1] = f[n - 1]
      BY <1>4, <3>1
    <3>3. f[n] = g[<<n, f[n - 1]>>]
      BY <1>6, <3>1 DEF Walk
    <3> HIDE DEF h
    <3> QED
      BY <3>2, <3>3
  <2> QED
    BY <2>1, <2>2
<1>11. Walk(h, k, g, start)
  <2> HIDE DEF h
  <2> QED
    BY <1>9, <1>10 DEF Walk
<1> QED
  <2> HIDE DEF h
  <2>1. ~ \E e \in [0..k -> T] : Walk(e, k, g, start)
    OBVIOUS
  <2> QED
    BY <1>8, <1>11, <2>1

-----------------------------------------------------------------------------
\* What matching knows at any time: the records found, and those still free.
States(refs, ids) == [res : [refs -> ids \cup {NoRef}], free : SUBSET ids]
Entries(q, ids) == q \in Seq([ref : Nat \ {0}, name : Nat, desc : Nat])
Rungs == {"name", "alike", "config", "likeness"}

\* No record stands for two references, and one that was found is not free.
OneEach(s) ==
    /\ \A q, r \in DOMAIN s.res : s.res[q] = s.res[r] /\ s.res[q] # NoRef => q = r
    /\ \A r \in DOMAIN s.res : s.res[r] \notin s.free

LEMMA OfferIsFree ==
  ASSUME NEW rung \in Rungs, NEW e, NEW recs, NEW free
  PROVE  Offer(rung, e, recs, free) \subseteq free
<1>1. CASE rung = "name" BY <1>1 DEF Offer, Named
<1>2. CASE rung = "alike" BY <1>2 DEF Offer, NamedAlike
<1>3. CASE rung = "config" BY <1>3 DEF Offer, Configured
<1>4. CASE rung = "likeness" BY <1>4 DEF Offer, Best
<1> QED BY <1>1, <1>2, <1>3, <1>4 DEF Rungs

\* One step of a pass finds at most one record more.
LEMMA ClaimedIs ==
  ASSUME NEW refs, NEW ids, NoRef \notin ids, NEW s \in States(refs, ids), NEW e, e.ref \in refs,
         NEW offer, offer \subseteq s.free
  PROVE  /\ Claimed(e, offer, s) \in States(refs, ids)
         /\ OneEach(s) => OneEach(Claimed(e, offer, s))
         /\ \A r \in refs : s.res[r] # NoRef => Claimed(e, offer, s).res[r] = s.res[r]
<1>1. CASE s.res[e.ref] # NoRef \/ offer = {}
  BY <1>1 DEF Claimed
<1>2. CASE s.res[e.ref] = NoRef /\ offer # {}
  <2>1. PICK i \in offer : Claimed(e, offer, s) = [res |-> [s.res EXCEPT ![e.ref] = i], free |-> s.free \ {i}]
    BY <1>2, Zenon DEF Claimed, Claims
  <2> DEFINE t == [res |-> [s.res EXCEPT ![e.ref] = i], free |-> s.free \ {i}]
  <2>2. i \in ids /\ i # NoRef /\ i \in s.free
    BY DEF States
  <2>3. t \in States(refs, ids)
    BY <2>2 DEF States
  <2>4. DOMAIN s.res = refs /\ DOMAIN t.res = refs
    BY DEF States
  <2>5. \A r \in refs : t.res[r] = IF r = e.ref THEN i ELSE s.res[r]
    BY <2>4
  <2>6. OneEach(s) => OneEach(t)
    <3>1. t.free = s.free \ {i}
      OBVIOUS
    <3> HIDE DEF t
    <3> QED
      BY <2>2, <2>4, <2>5, <3>1 DEF OneEach
  <2>7. \A r \in refs : s.res[r] # NoRef => t.res[r] = s.res[r]
    BY <1>2, <2>5
  <2> HIDE DEF t
  <2> QED
    BY <2>1, <2>3, <2>6, <2>7 DEF t
<1> QED
  BY <1>1, <1>2

LEMMA ClaimedOne ==
  ASSUME NEW s, NEW e, s.res[e.ref] = NoRef, NEW i
  PROVE  Claimed(e, {i}, s) = [res |-> [s.res EXCEPT ![e.ref] = i], free |-> s.free \ {i}]
  BY DEF Claimed, Claims

\* A pass is a walk along the listing.
Steps(f, rung, entries, recs, start) ==
    /\ f[0] = start
    /\ \A n \in 1..Len(entries) :
         f[n] = Claimed(entries[n], Offer(rung, entries[n], recs, f[n - 1].free), f[n - 1])

LEMMA PassIs ==
  ASSUME NEW rung \in Rungs, NEW ids, NoRef \notin ids, NEW entries, NEW recs,
         Len(entries) \in Nat, DOMAIN entries = 1..Len(entries),
         NEW start \in States(Refs(entries), ids)
  PROVE  \E f \in [0..Len(entries) -> States(Refs(entries), ids)] :
            Steps(f, rung, entries, recs, start) /\ Pass(rung, entries, recs, start) = f[Len(entries)]
<1> DEFINE N == Len(entries)
           T == States(Refs(entries), ids)
           Onward(n, s) == Claimed(entries[n], Offer(rung, entries[n], recs, s.free), s)
           g == [p \in (1..N) \X T |-> Onward(p[1], p[2])]
<1>1. ASSUME NEW n \in 1..N, NEW s \in T PROVE Onward(n, s) \in T
  <2>1. entries[n].ref \in Refs(entries)
    BY DEF Refs
  <2>2. Offer(rung, entries[n], recs, s.free) \subseteq s.free
    BY OfferIsFree
  <2> QED
    BY <2>1, <2>2, ClaimedIs
<1>2. g \in [(1..N) \X T -> T]
  <2> HIDE DEF T, Onward
  <2> QED
    BY <1>1
<1>3. PICK f \in [0..N -> T] : Walk(f, N, g, start)
  <2> HIDE DEF g, T
  <2>1. start \in T
    BY DEF T
  <2> QED
    BY <1>2, <2>1, WalkExists, Zenon
<1>4. f[0] = start /\ \A n \in 1..N : f[n] = Onward(n, f[n - 1])
  <2>1. ASSUME NEW n \in 1..N PROVE f[n - 1] \in T
    BY <1>3
  <2>2. ASSUME NEW n \in 1..N PROVE g[<<n, f[n - 1]>>] = Onward(n, f[n - 1])
    <3> HIDE DEF T, Onward
    <3>1. <<n, f[n - 1]>> \in (1..N) \X T
      BY <2>1
    <3> QED
      BY <3>1
  <2> HIDE DEF g, Onward, T
  <2> QED
    BY <1>3, <2>2, Zenon DEF Walk
<1> DEFINE Fn(h) == h = [n \in 0..N |-> IF n = 0 THEN start ELSE Onward(n, h[n - 1])]
<1>5. Fn(f)
  <2> HIDE DEF Onward, T
  <2> QED
    BY <1>3, <1>4
<1> DEFINE state == CHOOSE h : Fn(h)
<1>6. Fn(state)
  <2> HIDE DEF Fn
  <2> QED
    BY <1>5
<1>7. Pass(rung, entries, recs, start) = state[N]
  BY DEF Pass
<1> HIDE DEF state
<1>8. \A n \in 0..N : state[n] = f[n]
  <2> DEFINE Bad == {n \in 0..N : state[n] # f[n]}
  <2> SUFFICES ASSUME Bad # {} PROVE FALSE
    OBVIOUS
  <2>1. PICK k \in Bad : \A j \in Bad : k <= j
    <3>1. Bad \subseteq Nat
      OBVIOUS
    <3> HIDE DEF Bad
    <3> QED
      BY <3>1, LeastNat
  <2>2. state[0] = start
    <3> HIDE DEF Onward
    <3> QED BY <1>6
  <2>3. k \in 1..N /\ k - 1 \in 0..N /\ k - 1 < k
    BY <1>4, <2>2
  <2>4. state[k - 1] = f[k - 1]
    <3>1. k - 1 \notin Bad
      <4> HIDE DEF Bad
      <4> QED
        BY <2>1, <2>3
    <3> QED
      BY <2>3, <3>1
  <2>5. state[k] = Onward(k, state[k - 1])
    <3> HIDE DEF Onward
    <3> QED BY <1>6, <2>3
  <2>6. state[k] = f[k]
    <3> HIDE DEF Onward
    <3> QED BY <1>4, <2>3, <2>4, <2>5
  <2> QED
    BY <2>6
<1> HIDE DEF Onward, T
<1>9. Steps(f, rung, entries, recs, start)
  BY <1>4 DEF Steps, Onward
<1> QED
  BY <1>3, <1>7, <1>8, <1>9 DEF T

\* A pass leaves what was matched, and never gives a record away twice.
LEMMA PassKeeps ==
  ASSUME NEW rung \in Rungs, NEW ids, NoRef \notin ids, NEW entries, NEW recs,
         Len(entries) \in Nat, DOMAIN entries = 1..Len(entries),
         NEW start \in States(Refs(entries), ids), OneEach(start)
  PROVE  /\ Pass(rung, entries, recs, start) \in States(Refs(entries), ids)
         /\ OneEach(Pass(rung, entries, recs, start))
         /\ \A r \in Refs(entries) :
              start.res[r] # NoRef => Pass(rung, entries, recs, start).res[r] = start.res[r]
<1> DEFINE N == Len(entries)
           T == States(Refs(entries), ids)
<1>1. PICK f \in [0..N -> T] :
         Steps(f, rung, entries, recs, start) /\ Pass(rung, entries, recs, start) = f[N]
  BY PassIs
<1> DEFINE Fine(n) == /\ OneEach(f[n])
                      /\ \A r \in Refs(entries) : start.res[r] # NoRef => f[n].res[r] = start.res[r]
           Bad == {n \in 0..N : ~Fine(n)}
<1>2. ASSUME NEW n \in 1..N, Fine(n - 1) PROVE Fine(n)
  <2> DEFINE offer == Offer(rung, entries[n], recs, f[n - 1].free)
  <2>1. f[n - 1] \in T /\ entries[n].ref \in Refs(entries)
    BY <1>1 DEF Refs
  <2>2. offer \subseteq f[n - 1].free
    BY OfferIsFree
  <2>3. f[n] = Claimed(entries[n], offer, f[n - 1])
    BY <1>1 DEF Steps
  <2> HIDE DEF offer
  <2>4. /\ OneEach(f[n - 1]) => OneEach(f[n])
        /\ \A r \in Refs(entries) : f[n - 1].res[r] # NoRef => f[n].res[r] = f[n - 1].res[r]
    BY <2>1, <2>2, <2>3, ClaimedIs
  <2> QED
    BY <1>2, <2>4
<1>3. Fine(0)
  BY <1>1 DEF Steps
<1>4. Bad = {}
  <2> SUFFICES ASSUME Bad # {} PROVE FALSE
    OBVIOUS
  <2>1. PICK k \in Bad : \A j \in Bad : k <= j
    <3>1. Bad \subseteq Nat
      OBVIOUS
    <3> HIDE DEF Bad
    <3> QED
      BY <3>1, LeastNat
  <2> HIDE DEF Fine
  <2>2. k \in 1..N /\ k - 1 \in 0..N /\ k - 1 < k
    BY <1>3
  <2>3. k - 1 \notin Bad
    <3> HIDE DEF Bad
    <3> QED
      BY <2>1, <2>2
  <2> QED
    BY <1>2, <2>2, <2>3
<1>5. Fine(N)
  <2> HIDE DEF Fine
  <2> QED BY <1>4
<1> QED
  BY <1>1, <1>5

\* Each reference is offered one record, its own.
OneOffer(rung, ids, entries, recs, start, own) ==
    /\ rung \in Rungs /\ NoRef \notin ids
    /\ Len(entries) \in Nat /\ DOMAIN entries = 1..Len(entries)
    /\ \A m, n \in DOMAIN entries : entries[m].ref = entries[n].ref => m = n
    /\ start \in States(Refs(entries), ids)
    /\ \A r \in Refs(entries) : start.res[r] = NoRef
    /\ own \in [Refs(entries) -> ids]
    /\ \A q, r \in Refs(entries) : own[q] = own[r] => q = r
    /\ \A r \in Refs(entries) : own[r] \in start.free
    /\ \A n \in DOMAIN entries : \A free \in SUBSET start.free :
         own[entries[n].ref] \in free =>
           Offer(rung, entries[n], recs, free) = {own[entries[n].ref]}

\* A pass in which each reference is offered its own record finds it.
LEMMA PassFinds ==
  ASSUME NEW rung, NEW ids, NEW entries, NEW recs, NEW start, NEW own,
         OneOffer(rung, ids, entries, recs, start, own)
  PROVE  Pass(rung, entries, recs, start).res = own
<1>0. /\ rung \in Rungs /\ NoRef \notin ids
      /\ Len(entries) \in Nat /\ DOMAIN entries = 1..Len(entries)
      /\ \A m, n \in DOMAIN entries : entries[m].ref = entries[n].ref => m = n
      /\ start \in States(Refs(entries), ids)
      /\ \A r \in Refs(entries) : start.res[r] = NoRef
      /\ own \in [Refs(entries) -> ids]
      /\ \A q, r \in Refs(entries) : own[q] = own[r] => q = r
      /\ \A r \in Refs(entries) : own[r] \in start.free
      /\ \A n \in DOMAIN entries : \A free \in SUBSET start.free :
           own[entries[n].ref] \in free =>
             Offer(rung, entries[n], recs, free) = {own[entries[n].ref]}
  BY DEF OneOffer
<1> USE <1>0
<1> DEFINE N == Len(entries)
           T == States(Refs(entries), ids)
<1>1. PICK f \in [0..N -> T] :
         Steps(f, rung, entries, recs, start) /\ Pass(rung, entries, recs, start) = f[N]
  BY PassIs
<1> DEFINE ref(n) == entries[n].ref
           Fine(n) == /\ f[n].free \subseteq start.free
                      /\ \A m \in 1..N : IF m <= n THEN f[n].res[ref(m)] = own[ref(m)]
                                         ELSE f[n].res[ref(m)] = NoRef /\ own[ref(m)] \in f[n].free
           Bad == {n \in 0..N : ~Fine(n)}
<1>2. ASSUME NEW n \in 1..N, Fine(n - 1) PROVE Fine(n)
  <2> DEFINE offer == Offer(rung, entries[n], recs, f[n - 1].free)
             i == own[ref(n)]
  <2>1. f[n - 1] \in T /\ ref(n) \in Refs(entries) /\ \A m \in 1..N : ref(m) \in Refs(entries)
    BY <1>1 DEF Refs
  <2>2. f[n] = Claimed(entries[n], offer, f[n - 1])
    BY <1>1 DEF Steps
  <2>3. f[n - 1].res[ref(n)] = NoRef /\ i \in f[n - 1].free /\ f[n - 1].free \subseteq start.free
    BY <1>2
  <2>4. offer = {i}
    BY <2>3
  <2>5. f[n] = [res |-> [f[n - 1].res EXCEPT ![ref(n)] = i], free |-> f[n - 1].free \ {i}]
    <3>1. f[n - 1].res[entries[n].ref] = NoRef
      BY <2>3
    <3>2. f[n] = Claimed(entries[n], {i}, f[n - 1])
      BY <2>2, <2>4
    <3> HIDE <1>0
    <3> HIDE DEF offer, i
    <3> QED
      BY <3>1, <3>2, ClaimedOne, Zenon
  <2>6. DOMAIN f[n - 1].res = Refs(entries)
    BY <2>1 DEF States
  <2>7. f[n].free = f[n - 1].free \ {i}
        /\ \A r \in Refs(entries) : f[n].res[r] = IF r = ref(n) THEN i ELSE f[n - 1].res[r]
    <3> HIDE DEF i
    <3> QED BY <2>1, <2>5, <2>6
  <2>8. ASSUME NEW m \in 1..N
        PROVE IF m <= n THEN f[n].res[ref(m)] = own[ref(m)]
              ELSE f[n].res[ref(m)] = NoRef /\ own[ref(m)] \in f[n].free
    <3>1. CASE m = n
      BY <2>1, <2>7, <3>1
    <3>2. CASE m # n
      <4>1. ref(m) # ref(n) /\ own[ref(m)] # i
        BY <2>1, <3>2
      <4>2. IF m <= n - 1 THEN f[n - 1].res[ref(m)] = own[ref(m)]
            ELSE f[n - 1].res[ref(m)] = NoRef /\ own[ref(m)] \in f[n - 1].free
        BY <1>2
      <4>3. m <= n <=> m <= n - 1
        BY <3>2
      <4> HIDE DEF i, ref
      <4> QED
        BY <2>1, <2>7, <4>1, <4>2, <4>3
    <3> QED
      BY <3>1, <3>2
  <2> QED
    BY <2>3, <2>7, <2>8
<1>3. Fine(0)
  <2>1. f[0] = start
    BY <1>1 DEF Steps
  <2>2. \A m \in 1..N : ref(m) \in Refs(entries) /\ ~(m <= 0)
    BY DEF Refs
  <2> HIDE DEF ref
  <2> QED
    BY <2>1, <2>2
<1>4. Bad = {}
  <2> SUFFICES ASSUME Bad # {} PROVE FALSE
    OBVIOUS
  <2>1. PICK k \in Bad : \A j \in Bad : k <= j
    <3>1. Bad \subseteq Nat
      OBVIOUS
    <3> HIDE DEF Bad
    <3> QED
      BY <3>1, LeastNat, Zenon
  <2> HIDE DEF Fine
  <2>2. k \in 1..N /\ k - 1 \in 0..N /\ k - 1 < k
    BY <1>3
  <2>3. k - 1 \notin Bad
    <3> HIDE DEF Bad
    <3> QED
      BY <2>1, <2>2
  <2> QED
    BY <1>2, <2>2, <2>3
<1>5. Fine(N)
  <2> HIDE DEF Fine
  <2> QED BY <1>4
<1>6. \A r \in Refs(entries) : \E m \in 1..N : r = ref(m)
  BY DEF Refs
<1>7. f[N].res \in [Refs(entries) -> ids \cup {NoRef}]
  BY <1>1 DEF States
<1>8. \A r \in Refs(entries) : f[N].res[r] = own[r]
  <2> HIDE DEF ref
  <2> QED BY <1>5, <1>6
<1> QED
  BY <1>1, <1>7, <1>8

-----------------------------------------------------------------------------
\* What an archive holds, whoever wrote it.
SecretEntry == [ref : Nat \ {0}, name : Nat, desc : Nat]
Configs == STRING \cup {"c", "d"}
AgentEntry == [ref : Nat \ {0}, name : Nat, desc : Nat, config : Configs]
RefStep == [name : Nat, agent : BOOLEAN, agents : SUBSET Int, secrets : SUBSET Int,
            codeS : SUBSET Int, codeA : SUBSET Int, script : STRING, timeout : Int,
            noTimeout : BOOLEAN]
ArchiveFits(arch) ==
    /\ arch = [steps |-> arch.steps, agent |-> arch.agent, tokens |-> arch.tokens,
               secrets |-> arch.secrets, agents |-> arch.agents,
               params |-> arch.params, values |-> arch.values]
    /\ arch.steps \in Seq(RefStep)
    /\ arch.secrets \in Seq(SecretEntry) /\ arch.agents \in Seq(AgentEntry)

EachOnce(entries) == \A m, n \in DOMAIN entries : entries[m].ref = entries[n].ref => m = n

\* What is short of a listing are the entries in use, as they were.
LEMMA OnlyUsedIs ==
  ASSUME NEW E, NEW entries \in Seq(E), NEW used
  PROVE  LET short == OnlyUsed(entries, used)
         IN /\ short \in Seq(E) /\ Len(short) \in Nat /\ DOMAIN short = 1..Len(short)
            /\ Refs(short) = Refs(entries) \cap used
            /\ \A n \in DOMAIN short : \E m \in DOMAIN entries : short[n] = entries[m]
            /\ EachOnce(entries) => EachOnce(short)
<1> DEFINE at == {i \in DOMAIN entries : entries[i].ref \in used}
           less == {p \in at \X at : p[1] < p[2]}
           places == Ordered(at, less)
           short == [n \in DOMAIN places |-> entries[places[n]]]
<1>1. Len(entries) \in Nat /\ DOMAIN entries = 1..Len(entries) /\ \A i \in DOMAIN entries : entries[i] \in E
  BY ElementOfSeq, LenProperties
<1>2. at \in SUBSET (1..Len(entries)) /\ at \subseteq Int
  BY <1>1
<1>3. IsFiniteSet(at) /\ Cardinality(at) \in Nat
  <2> HIDE DEF at
  <2>1. IsFiniteSet(1..Len(entries))
    BY <1>1, FS_Interval
  <2> QED
    BY <1>2, <2>1, FS_Subset, FS_CardinalityType, Zenon
<1>4. Orders(less, at)
  <2> HIDE DEF at
  <2>1. \A x, y \in at : <<x, y>> \in less <=> x < y
    OBVIOUS
  <2> HIDE DEF less
  <2> QED
    BY <1>2, <2>1 DEF Orders
<1>5. ListOf(places, at)
  <2> HIDE DEF at, less
  <2> QED
    BY <1>3, <1>4, OrderedIs
<1>6. OnlyUsed(entries, used) = short
  BY DEF OnlyUsed
<1> DEFINE N == Cardinality(at)
<1>7. /\ DOMAIN places = 1..N /\ N \in Nat
      /\ \A n \in 1..N : places[n] \in at
      /\ \A x \in at : \E n \in 1..N : places[n] = x
      /\ \A m, n \in 1..N : places[m] = places[n] => m = n
  <2> HIDE DEF at, places
  <2> QED
    BY <1>3, <1>5 DEF ListOf
<1>8. \A i \in at : i \in DOMAIN entries /\ entries[i].ref \in used
  OBVIOUS
<1>9. \A i \in DOMAIN entries : entries[i].ref \in used => i \in at
  OBVIOUS
<1> HIDE DEF at, places, N
<1>10. short \in [1..N -> E] /\ \A n \in 1..N : short[n] = entries[places[n]]
  BY <1>1, <1>7, <1>8
<1>11. short \in Seq(E) /\ Len(short) = N /\ DOMAIN short = 1..N
  <2>1. short \in Seq(E)
    <3> HIDE DEF short
    <3> QED BY <1>7, <1>10
  <2>2. DOMAIN short = 1..N
    BY <1>10
  <2> HIDE DEF short
  <2> QED
    BY <1>7, <2>1, <2>2, LenProperties
<1> HIDE DEF short
<1>12. Refs(short) = Refs(entries) \cap used
  <2>1. ASSUME NEW r \in Refs(short) PROVE r \in Refs(entries) \cap used
    <3>1. PICK n \in 1..N : r = short[n].ref
      BY <1>11, <2>1 DEF Refs
    <3> QED
      BY <1>7, <1>8, <1>10, <3>1 DEF Refs
  <2>2. ASSUME NEW r \in Refs(entries) \cap used PROVE r \in Refs(short)
    <3>1. PICK i \in DOMAIN entries : r = entries[i].ref
      BY DEF Refs
    <3>2. PICK n \in 1..N : places[n] = i
      BY <1>7, <1>9, <3>1
    <3> QED
      BY <1>10, <1>11, <3>1, <3>2 DEF Refs
  <2> QED
    BY <2>1, <2>2
<1>13. \A n \in DOMAIN short : \E m \in DOMAIN entries : short[n] = entries[m]
  BY <1>7, <1>8, <1>10, <1>11
<1>14. ASSUME EachOnce(entries) PROVE EachOnce(short)
  <2> SUFFICES ASSUME NEW m \in 1..N, NEW n \in 1..N, short[m].ref = short[n].ref PROVE m = n
    BY <1>11 DEF EachOnce
  <2>1. places[m] = places[n]
    BY <1>7, <1>8, <1>10, <1>14 DEF EachOnce
  <2> QED
    BY <1>7, <2>1
<1> QED
  BY <1>6, <1>7, <1>11, <1>12, <1>13, <1>14

\* What each reference of a listing is matched with, if with anything.
Finds(res, refs, ids) ==
    /\ res \in [refs -> ids \cup {NoRef}]
    /\ \A q, r \in refs : res[q] = res[r] /\ res[q] # NoRef => q = r

LEMMA MatchIs ==
  ASSUME store \in Stores, NEW arch,
         arch.secrets \in Seq(SecretEntry), arch.agents \in Seq(AgentEntry)
  PROVE  /\ Finds(MatchSecrets(arch), Refs(arch.secrets), SecretIds)
         /\ Finds(MatchAgents(arch), Refs(arch.agents), AgentIds)
<1>1. NoRef \notin SecretIds /\ NoRef \notin AgentIds
  BY TransferAssumption DEF NoRef
<1>2. /\ Len(arch.secrets) \in Nat /\ DOMAIN arch.secrets = 1..Len(arch.secrets)
      /\ Len(arch.agents) \in Nat /\ DOMAIN arch.agents = 1..Len(arch.agents)
  BY LenProperties
<1>3. Here(store.secrets) \subseteq SecretIds /\ Here(store.agents) \subseteq AgentIds
  BY TransferAssumption DEF Here
<1>4. ASSUME NEW entries, NEW recs, NEW ids, Here(recs) \subseteq ids, NoRef \notin ids
      PROVE Unmatched(entries, recs) \in States(Refs(entries), ids) /\ OneEach(Unmatched(entries, recs))
  BY <1>4 DEF Unmatched, States, OneEach, Here
<1>5. ASSUME NEW refs, NEW ids, NEW s \in States(refs, ids), OneEach(s) PROVE Finds(s.res, refs, ids)
  BY <1>5 DEF Finds, States, OneEach
<1>6. Finds(MatchSecrets(arch), Refs(arch.secrets), SecretIds)
  <2> DEFINE zero == Unmatched(arch.secrets, store.secrets)
             named == Pass("name", arch.secrets, store.secrets, zero)
             last == Pass("likeness", arch.secrets, store.secrets, named)
  <2>1. zero \in States(Refs(arch.secrets), SecretIds) /\ OneEach(zero)
    BY <1>1, <1>3, <1>4
  <2>2. named \in States(Refs(arch.secrets), SecretIds) /\ OneEach(named)
    <3> HIDE DEF zero
    <3> QED BY <1>1, <1>2, <2>1, PassKeeps, Zenon DEF Rungs
  <2>3. last \in States(Refs(arch.secrets), SecretIds) /\ OneEach(last)
    <3> HIDE DEF named
    <3> QED BY <1>1, <1>2, <2>2, PassKeeps, Zenon DEF Rungs
  <2>4. MatchSecrets(arch) = last.res
    BY DEF MatchSecrets
  <2> HIDE DEF last
  <2> QED
    BY <1>5, <2>3, <2>4
<1>7. Finds(MatchAgents(arch), Refs(arch.agents), AgentIds)
  <2> DEFINE zero == Unmatched(arch.agents, store.agents)
             named == Pass("alike", arch.agents, store.agents, zero)
             configured == Pass("config", arch.agents, store.agents, named)
             last == Pass("likeness", arch.agents, store.agents, configured)
  <2>1. zero \in States(Refs(arch.agents), AgentIds) /\ OneEach(zero)
    BY <1>1, <1>3, <1>4
  <2>2. named \in States(Refs(arch.agents), AgentIds) /\ OneEach(named)
    <3> HIDE DEF zero
    <3> QED BY <1>1, <1>2, <2>1, PassKeeps, Zenon DEF Rungs
  <2>3. configured \in States(Refs(arch.agents), AgentIds) /\ OneEach(configured)
    <3> HIDE DEF named
    <3> QED BY <1>1, <1>2, <2>2, PassKeeps, Zenon DEF Rungs
  <2>4. last \in States(Refs(arch.agents), AgentIds) /\ OneEach(last)
    <3> HIDE DEF configured
    <3> QED BY <1>1, <1>2, <2>3, PassKeeps, Zenon DEF Rungs
  <2>5. MatchAgents(arch) = last.res
    BY DEF MatchAgents
  <2> HIDE DEF last
  <2> QED
    BY <1>5, <2>4, <2>5
<1> QED
  BY <1>6, <1>7

\* A trimmed archive lists exactly what it refers to.
LEMMA TrimmedIs ==
  ASSUME NEW arch, ArchiveFits(arch), Valid(arch)
  PROVE  LET A == Trimmed(arch)
         IN /\ ArchiveFits(A)
            /\ A.agent = arch.agent /\ A.tokens = arch.tokens
            /\ DOMAIN A.steps = DOMAIN arch.steps
            /\ \A i \in DOMAIN arch.steps :
                 /\ A.steps[i] = [arch.steps[i] EXCEPT !.agents = AgentsOf(arch.steps[i])]
                 /\ A.steps[i].codeA \subseteq AgentsOf(A.steps[i])
            /\ A.secrets = OnlyUsed(arch.secrets, UsedSecrets(arch))
            /\ A.agents = OnlyUsed(arch.agents, UsedAgents(arch))
            /\ Refs(A.secrets) = UsedSecrets(arch)
            /\ Refs(A.agents) = UsedAgents(arch)
<1> DEFINE A == Trimmed(arch)
           secs == OnlyUsed(arch.secrets, UsedSecrets(arch))
           ags == OnlyUsed(arch.agents, UsedAgents(arch))
           sts == [i \in DOMAIN arch.steps |-> [arch.steps[i] EXCEPT !.agents = AgentsOf(arch.steps[i])]]
<1>1. /\ secs \in Seq(SecretEntry) /\ Refs(secs) = Refs(arch.secrets) \cap UsedSecrets(arch)
      /\ ags \in Seq(AgentEntry) /\ Refs(ags) = Refs(arch.agents) \cap UsedAgents(arch)
  BY OnlyUsedIs DEF ArchiveFits
<1>2. /\ Len(arch.steps) \in Nat /\ DOMAIN arch.steps = 1..Len(arch.steps)
      /\ \A i \in DOMAIN arch.steps : arch.steps[i] \in RefStep
  BY LenProperties, ElementOfSeq DEF ArchiveFits
<1>3. \A i \in DOMAIN arch.steps : AgentsOf(arch.steps[i]) \subseteq Int
  BY <1>2 DEF AgentsOf, RefStep
<1>4. \A i \in DOMAIN arch.steps :
         /\ [arch.steps[i] EXCEPT !.agents = AgentsOf(arch.steps[i])] \in RefStep
         /\ AgentsOf([arch.steps[i] EXCEPT !.agents = AgentsOf(arch.steps[i])]) = AgentsOf(arch.steps[i])
  BY <1>2, <1>3 DEF RefStep, AgentsOf
<1>5. sts \in Seq(RefStep)
  <2>1. sts \in [1..Len(arch.steps) -> RefStep]
    BY <1>2, <1>4
  <2> HIDE DEF sts
  <2> QED BY <1>2, <2>1
<1>6. A = [steps |-> sts, agent |-> arch.agent, tokens |-> arch.tokens, secrets |-> secs,
           agents |-> ags, params |-> arch.params, values |-> arch.values]
  <2> HIDE DEF secs, ags
  <2>1. A = [arch EXCEPT !.secrets = secs, !.agents = ags, !.steps = sts]
    BY DEF Trimmed, secs, ags
  <2> HIDE DEF A, sts
  <2> QED
    BY <2>1, Zenon DEF ArchiveFits
<1> HIDE DEF A, secs, ags
<1>7. /\ UsedSecrets(arch) \subseteq Refs(arch.secrets)
      /\ UsedAgents(arch) \subseteq Refs(arch.agents)
  BY DEF Valid, ManifestOk, RefsResolve, UsedSecrets, UsedAgents
<1>8. ArchiveFits(A)
  <2> HIDE DEF sts
  <2> QED BY <1>1, <1>5, <1>6 DEF ArchiveFits
<1>9. \A i \in DOMAIN arch.steps : A.steps[i].codeA \subseteq AgentsOf(A.steps[i])
  <2> SUFFICES ASSUME NEW i \in DOMAIN arch.steps PROVE A.steps[i].codeA \subseteq AgentsOf(A.steps[i])
    OBVIOUS
  <2>1. A.steps[i] = [arch.steps[i] EXCEPT !.agents = AgentsOf(arch.steps[i])]
    BY <1>6
  <2>2. A.steps[i].codeA = arch.steps[i].codeA
    BY <1>2, <2>1 DEF RefStep
  <2>3. arch.steps[i].codeA \subseteq AgentsOf(arch.steps[i])
    BY DEF Valid, RefsResolve
  <2> QED
    BY <1>4, <2>1, <2>2, <2>3
<1>10. /\ A.agent = arch.agent /\ A.tokens = arch.tokens /\ A.steps = sts
       /\ A.secrets = secs /\ A.agents = ags
  <2> HIDE DEF sts
  <2> QED BY <1>6
<1> QED
  BY <1>1, <1>7, <1>8, <1>9, <1>10, Zenon DEF A, secs, ags

\* What a step refers to once it has landed.
LEMMA SubstitutedIs ==
  ASSUME NEW s \in RefStep, NEW m
  PROVE  LET t == Substituted(s, m)
         IN /\ t.secrets = {Resolved("secret", m.secrets, r) : r \in s.secrets}
            /\ t.codeS = {Resolved("secret", m.secrets, r) : r \in s.codeS}
            /\ t.agents = {Resolved("agent", m.agents, r) : r \in s.agents}
            /\ t.codeA = {Resolved("agent", m.agents, r) : r \in s.codeA}
            /\ t.agent = s.agent /\ t.script = "sealed"
            /\ t.name = s.name /\ t.timeout = s.timeout /\ t.noTimeout = s.noTimeout
            /\ DOMAIN t = DOMAIN s
  BY DEF Substituted, RefStep

\* A reference lands as the record it was matched with, or as a new id.
LEMMA ResolvedIs ==
  ASSUME NEW kind, NEW res, NEW r \in DOMAIN res, r \in Nat \ {0},
         res[r] # NoRef => res[r] \in Int /\ res[r] < NoRef
  PROVE  /\ Resolved(kind, res, r) # Junk
         /\ Resolved(kind, res, r) \in Granted(res) \cup Unresolved(kind, res)
         /\ res[r] # NoRef => Resolved(kind, res, r) = res[r]
<1>1. NewId(kind, r) \in Int /\ NewId(kind, r) > 0
  BY DEF NewId
<1>2. CASE res[r] = NoRef
  BY <1>1, <1>2 DEF Resolved, Unresolved, Junk
<1>3. CASE res[r] # NoRef
  BY <1>3 DEF Resolved, Granted, Junk, NoRef
<1> QED
  BY <1>2, <1>3

\* EveryReferenceIsAccounted and GrantsAreReferred, of what one import created.
SecretsIn(l) == l.tokens \cup UNION {StepSecrets(l.steps[i]) : i \in DOMAIN l.steps}
AgentsIn(l) == UNION {StepAgents(l.steps[i]) : i \in DOMAIN l.steps}
AccountedIn(l) ==
    /\ SecretsIn(l) \subseteq l.allowed \cup l.unresolved
    /\ AgentsIn(l) \subseteq l.enabled \cup l.unresolved
    /\ l.unresolved \cap (SecretIds \cup AgentIds) = {}
    /\ \A i \in DOMAIN l.steps : LET s == l.steps[i] IN Junk \notin s.codeS /\ s.codeA \subseteq AgentsOf(s)
ReferredIn(l) ==
    /\ l.allowed \subseteq SecretsIn(l) /\ l.enabled \subseteq AgentsIn(l) \cup {l.agent}
    /\ \A res \in {l.match.secrets, l.match.agents} :
         \A q, r \in DOMAIN res : (res[q] = res[r] /\ res[q] # NoRef) => q = r

LEMMA LandingIsWhole ==
  ASSUME store \in Stores, NEW arch, ArchiveFits(arch), Valid(arch), NEW b
  PROVE  AccountedIn(Landing(Trimmed(arch), b)) /\ ReferredIn(Landing(Trimmed(arch), b))
<1> DEFINE A == Trimmed(arch)
           m == MatchArchive(A)
           l == Landing(A, b)
           sec(r) == Resolved("secret", m.secrets, r)
           ag(r) == Resolved("agent", m.agents, r)
           SU == UsedSecrets(arch)
           AU == UsedAgents(arch)
<1>1. /\ ArchiveFits(A) /\ A.agent = arch.agent /\ A.tokens = arch.tokens
      /\ DOMAIN A.steps = DOMAIN arch.steps
      /\ \A i \in DOMAIN arch.steps :
           /\ A.steps[i] = [arch.steps[i] EXCEPT !.agents = AgentsOf(arch.steps[i])]
           /\ A.steps[i].codeA \subseteq AgentsOf(A.steps[i])
      /\ Refs(A.secrets) = SU /\ Refs(A.agents) = AU
  BY TrimmedIs
<1>2. m.secrets = MatchSecrets(A) /\ m.agents = MatchAgents(A)
      /\ m.author = IF A.agent # NoRef /\ m.agents[A.agent] # NoRef THEN m.agents[A.agent] ELSE store.default
  BY DEF MatchArchive
<1>3. Finds(m.secrets, SU, SecretIds) /\ Finds(m.agents, AU, AgentIds)
  <2> HIDE DEF A, m, SU, AU
  <2> QED
    BY <1>1, <1>2, MatchIs DEF ArchiveFits
<1>4. SU \subseteq Nat \ {0} /\ AU \subseteq Nat \ {0}
  <2> HIDE DEF A, SU, AU
  <2>1. \A i \in DOMAIN A.secrets : A.secrets[i] \in SecretEntry
    BY <1>1, ElementOfSeq, LenProperties DEF ArchiveFits
  <2>2. \A i \in DOMAIN A.agents : A.agents[i] \in AgentEntry
    BY <1>1, ElementOfSeq, LenProperties DEF ArchiveFits
  <2> QED
    BY <1>1, <2>1, <2>2 DEF Refs, SecretEntry, AgentEntry
<1>5. /\ \A i \in SecretIds : i \in Int /\ i < NoRef
      /\ \A i \in AgentIds : i \in Int /\ i < NoRef
  BY TransferAssumption
<1>6. \A r \in SU : /\ sec(r) # Junk /\ sec(r) \in Granted(m.secrets) \cup Unresolved("secret", m.secrets)
                    /\ m.secrets[r] # NoRef => sec(r) = m.secrets[r]
  <2> DEFINE res == m.secrets
  <2>1. res \in [SU -> SecretIds \cup {NoRef}]
    BY <1>3 DEF Finds
  <2> HIDE DEF res, SU
  <2>3. \A r \in SU : /\ Resolved("secret", res, r) # Junk
                      /\ Resolved("secret", res, r) \in Granted(res) \cup Unresolved("secret", res)
                      /\ res[r] # NoRef => Resolved("secret", res, r) = res[r]
    <3> SUFFICES ASSUME NEW r \in SU
                 PROVE  /\ Resolved("secret", res, r) # Junk
                        /\ Resolved("secret", res, r) \in Granted(res) \cup Unresolved("secret", res)
                        /\ res[r] # NoRef => Resolved("secret", res, r) = res[r]
      OBVIOUS
    <3>1. r \in Nat \ {0} /\ r \in DOMAIN res
      BY <1>4, <2>1
    <3>2. res[r] # NoRef => res[r] \in Int /\ res[r] < NoRef
      BY <1>5, <2>1
    <3> QED
      BY <3>1, <3>2, ResolvedIs
  <2> QED
    BY <2>3 DEF res
<1>7. \A r \in AU : /\ ag(r) # Junk /\ ag(r) \in Granted(m.agents) \cup Unresolved("agent", m.agents)
                    /\ m.agents[r] # NoRef => ag(r) = m.agents[r]
  <2> DEFINE res == m.agents
  <2>1. res \in [AU -> AgentIds \cup {NoRef}]
    BY <1>3 DEF Finds
  <2> HIDE DEF res, AU
  <2>3. \A r \in AU : /\ Resolved("agent", res, r) # Junk
                      /\ Resolved("agent", res, r) \in Granted(res) \cup Unresolved("agent", res)
                      /\ res[r] # NoRef => Resolved("agent", res, r) = res[r]
    <3> SUFFICES ASSUME NEW r \in AU
                 PROVE  /\ Resolved("agent", res, r) # Junk
                        /\ Resolved("agent", res, r) \in Granted(res) \cup Unresolved("agent", res)
                        /\ res[r] # NoRef => Resolved("agent", res, r) = res[r]
      OBVIOUS
    <3>1. r \in Nat \ {0} /\ r \in DOMAIN res
      BY <1>4, <2>1
    <3>2. res[r] # NoRef => res[r] \in Int /\ res[r] < NoRef
      BY <1>5, <2>1
    <3> QED
      BY <3>1, <3>2, ResolvedIs
  <2> QED
    BY <2>3 DEF res
<1>8. /\ DOMAIN l.steps = DOMAIN A.steps /\ \A i \in DOMAIN A.steps : l.steps[i] = Substituted(A.steps[i], m)
      /\ l.agent = m.author /\ l.match = m /\ l.tokens = {sec(r) : r \in A.tokens}
      /\ l.allowed = Granted(m.secrets) /\ l.enabled = Granted(m.agents) \cup ({m.author} \ {NoRef})
      /\ l.unresolved = Unresolved("secret", m.secrets) \cup Unresolved("agent", m.agents)
  <2> HIDE DEF A
  <2> QED BY DEF Landing
<1>9. \A i \in DOMAIN A.steps : A.steps[i] \in RefStep
  <2> HIDE DEF A
  <2> QED BY <1>1, ElementOfSeq, LenProperties DEF ArchiveFits
<1>10. \A i \in DOMAIN A.steps :
         /\ A.steps[i].secrets = arch.steps[i].secrets /\ A.steps[i].codeS = arch.steps[i].codeS
         /\ A.steps[i].agents = AgentsOf(arch.steps[i]) /\ A.steps[i].codeA = arch.steps[i].codeA
         /\ A.steps[i].agent = arch.steps[i].agent
  <2>1. \A i \in DOMAIN arch.steps : arch.steps[i] \in RefStep
    BY ElementOfSeq, LenProperties DEF ArchiveFits
  <2>2. ASSUME NEW s \in RefStep, NEW g PROVE LET t == [s EXCEPT !.agents = g]
                                             IN /\ t.secrets = s.secrets /\ t.codeS = s.codeS /\ t.agents = g
                                                /\ t.codeA = s.codeA /\ t.agent = s.agent
    BY DEF RefStep
  <2> SUFFICES ASSUME NEW i \in DOMAIN A.steps
               PROVE  /\ A.steps[i].secrets = arch.steps[i].secrets /\ A.steps[i].codeS = arch.steps[i].codeS
                      /\ A.steps[i].agents = AgentsOf(arch.steps[i]) /\ A.steps[i].codeA = arch.steps[i].codeA
                      /\ A.steps[i].agent = arch.steps[i].agent
    OBVIOUS
  <2> HIDE DEF A
  <2>3. arch.steps[i] \in RefStep /\ A.steps[i] = [arch.steps[i] EXCEPT !.agents = AgentsOf(arch.steps[i])]
    BY <1>1, <2>1
  <2> QED BY <2>2, <2>3
<1>11. \A i \in DOMAIN A.steps :
         /\ l.steps[i].secrets = {sec(r) : r \in A.steps[i].secrets}
         /\ l.steps[i].codeS = {sec(r) : r \in A.steps[i].codeS}
         /\ l.steps[i].agents = {ag(r) : r \in A.steps[i].agents}
         /\ l.steps[i].codeA = {ag(r) : r \in A.steps[i].codeA}
         /\ l.steps[i].agent = A.steps[i].agent
  <2> HIDE DEF A, m, l
  <2> QED BY <1>8, <1>9, SubstitutedIs
<1>12. SU = A.tokens \cup UNION {A.steps[i].secrets \cup A.steps[i].codeS : i \in DOMAIN A.steps}
  <2> HIDE DEF A
  <2> QED BY <1>1, <1>10 DEF UsedSecrets
<1>13. AU = ({A.agent} \ {NoRef}) \cup UNION {A.steps[i].agents \cup A.steps[i].codeA : i \in DOMAIN A.steps}
  <2> HIDE DEF A
  <2> QED BY <1>1, <1>10 DEF UsedAgents
<1> HIDE DEF A, m, l, SU, AU
<1>14. SecretsIn(l) = {sec(r) : r \in SU}
  <2> HIDE DEF sec
  <2>1. ASSUME NEW x \in SecretsIn(l) PROVE x \in {sec(r) : r \in SU}
    <3>1. CASE x \in l.tokens
      BY <1>8, <1>12, <3>1
    <3>2. CASE x \notin l.tokens
      <4>1. PICK i \in DOMAIN A.steps : x \in l.steps[i].secrets \cup l.steps[i].codeS
        BY <1>8, <2>1, <3>2 DEF SecretsIn, StepSecrets, IdsIn
      <4> QED BY <1>11, <1>12, <4>1
    <3> QED BY <3>1, <3>2
  <2>2. ASSUME NEW r \in SU PROVE sec(r) \in SecretsIn(l)
    <3>1. CASE r \in A.tokens
      BY <1>8, <3>1 DEF SecretsIn
    <3>2. CASE r \notin A.tokens
      <4>1. PICK i \in DOMAIN A.steps : r \in A.steps[i].secrets \cup A.steps[i].codeS
        BY <1>12, <3>2
      <4>2. sec(r) \in StepSecrets(l.steps[i])
        BY <1>6, <1>11, <4>1 DEF StepSecrets, IdsIn
      <4> QED BY <1>8, <4>1, <4>2 DEF SecretsIn
    <3> QED BY <3>1, <3>2
  <2> QED BY <2>1, <2>2
<1>15. ASSUME NEW r \in AU PROVE ag(r) \in AgentsIn(l) \/ (r = A.agent /\ A.agent # NoRef)
  <2> HIDE DEF ag
  <2>1. CASE \E i \in DOMAIN A.steps : r \in A.steps[i].agents \cup A.steps[i].codeA
    <3>1. PICK i \in DOMAIN A.steps : r \in A.steps[i].agents \cup A.steps[i].codeA
      BY <2>1
    <3>2. ag(r) \in StepAgents(l.steps[i])
      BY <1>7, <1>11, <3>1 DEF StepAgents, IdsIn
    <3> QED BY <1>8, <3>1, <3>2 DEF AgentsIn
  <2> QED
    BY <1>13, <2>1
<1>16. ASSUME NEW x \in AgentsIn(l) PROVE \E r \in AU : x = ag(r)
  <2> HIDE DEF ag
  <2>1. PICK i \in DOMAIN A.steps : x \in l.steps[i].agents \cup l.steps[i].codeA
    BY <1>8, <1>16 DEF AgentsIn, StepAgents, IdsIn
  <2> QED BY <1>11, <1>13, <2>1
<1> HIDE DEF sec, ag
<1>17. AccountedIn(l)
  <2>1. SecretsIn(l) \subseteq l.allowed \cup l.unresolved
    BY <1>6, <1>8, <1>14
  <2>2. AgentsIn(l) \subseteq l.enabled \cup l.unresolved
    BY <1>7, <1>8, <1>16
  <2>3. l.unresolved \cap (SecretIds \cup AgentIds) = {}
    <3>1. \A r \in SU \cup AU : NewId("secret", r) > 0 /\ NewId("agent", r) > 0
      BY <1>4 DEF NewId
    <3>2. \A x \in l.unresolved : x > 0
      BY <1>3, <1>8, <3>1 DEF Unresolved, Finds
    <3> QED
      BY <1>5, <3>2 DEF NoRef
  <2>4. \A i \in DOMAIN l.steps : Junk \notin l.steps[i].codeS
    <3> SUFFICES ASSUME NEW i \in DOMAIN A.steps PROVE Junk \notin l.steps[i].codeS
      BY <1>8
    <3>1. A.steps[i].codeS \subseteq SU
      BY <1>12
    <3> QED
      BY <1>6, <1>11, <3>1
  <2>5. \A i \in DOMAIN l.steps : l.steps[i].codeA \subseteq AgentsOf(l.steps[i])
    <3> SUFFICES ASSUME NEW i \in DOMAIN A.steps PROVE l.steps[i].codeA \subseteq AgentsOf(l.steps[i])
      BY <1>8
    <3>1. A.steps[i].codeA \subseteq AgentsOf(A.steps[i])
      BY <1>1, Zenon
    <3> QED
      BY <1>11, <3>1 DEF AgentsOf
  <2> QED
    BY <2>1, <2>2, <2>3, <2>4, <2>5 DEF AccountedIn
<1>18. ReferredIn(l)
  <2>1. l.allowed \subseteq SecretsIn(l)
    BY <1>3, <1>6, <1>8, <1>14 DEF Granted, Finds
  <2>2. l.enabled \subseteq AgentsIn(l) \cup {l.agent}
    <3> SUFFICES ASSUME NEW x \in Granted(m.agents) PROVE x \in AgentsIn(l) \cup {l.agent}
      BY <1>8
    <3>1. PICK r \in AU : x = m.agents[r] /\ m.agents[r] # NoRef
      BY <1>3 DEF Granted, Finds
    <3>2. x = ag(r)
      BY <1>7, <3>1
    <3>3. CASE r = A.agent /\ A.agent # NoRef
      BY <1>2, <1>8, <3>1, <3>3
    <3> QED
      BY <1>15, <3>2, <3>3
  <2>3. \A res \in {l.match.secrets, l.match.agents} :
          \A q, r \in DOMAIN res : (res[q] = res[r] /\ res[q] # NoRef) => q = r
    BY <1>3, <1>8 DEF Finds
  <2> QED
    BY <2>1, <2>2, <2>3 DEF ReferredIn
<1> QED
  BY <1>17, <1>18 DEF l, A

-----------------------------------------------------------------------------
\* What a plan is, and what its export lists.
PlanStep == [name : Nat, agent : BOOLEAN, agents : SUBSET AgentIds, secrets : SUBSET SecretIds,
             codeS : SUBSET (SecretIds \cup {Junk}), codeA : SUBSET (AgentIds \cup {Junk}),
             script : STRING, timeout : Int, noTimeout : BOOLEAN]

LEMMA PlanIs ==
  ASSUME NEW a \in Plans
  PROVE  /\ a.agent \in AgentIds /\ a.tokens \subseteq SecretIds /\ a.steps \in Seq(PlanStep)
         /\ Len(a.steps) \in Nat /\ DOMAIN a.steps = 1..Len(a.steps)
         /\ \A i \in DOMAIN a.steps : a.steps[i] \in PlanStep
<1>1. a.agent \in AgentIds /\ a.tokens \subseteq SecretIds /\ a.steps \in Seq(PlanStep)
  BY TransferAssumption, Zenon DEF PlanStep
<1> QED
  BY <1>1, LenProperties, ElementOfSeq

LEMMA SecretsListed ==
  ASSUME store \in Stores, NEW a \in Plans, ~Dangles(a)
  PROVE  /\ SecretsOf(a) \subseteq Here(store.secrets)
         /\ ListOf(ReferencedSecrets(a), SecretsOf(a))
<1> DEFINE S == SecretsOf(a)
           less == {p \in S \X S : store.secrets[p[1]].name < store.secrets[p[2]].name}
<1>1. S \subseteq Here(store.secrets)
  BY DEF SecretsOf, Dangles
<1>2. /\ Here(store.secrets) \subseteq SecretIds /\ IsFiniteSet(SecretIds)
      /\ \A i \in SecretIds : store.secrets[i].name \in Nat
      /\ NamedApart(store.secrets)
  BY TransferAssumption DEF Here
<1> HIDE DEF S
<1>3. IsFiniteSet(S)
  BY <1>1, <1>2, FS_Subset
<1>4. \A x, y \in S : <<x, y>> \in less <=> store.secrets[x].name < store.secrets[y].name
  OBVIOUS
<1>5. \A x \in S : store.secrets[x].name \in Nat
  BY <1>1, <1>2
<1>6. \A x, y \in S : store.secrets[x].name = store.secrets[y].name => x = y
  BY <1>1, <1>2 DEF NamedApart
<1>7. Orders(less, S)
  <2> HIDE DEF less
  <2> QED
    BY <1>4, <1>5, <1>6 DEF Orders
<1>8. ListOf(Ordered(S, less), S)
  <2> HIDE DEF less
  <2> QED BY <1>3, <1>7, OrderedIs
<1> QED
  BY <1>1, <1>8 DEF ReferencedSecrets, S

\* The agents a plan refers to, the authoring one first.
AgentsNamed(a) == UNION {AgentsAt(a, n) : n \in 0..Len(a.steps)}

LEMMA AgentsListed ==
  ASSUME store \in Stores, NEW a \in Plans, ~Dangles(a)
  PROVE  /\ AgentsNamed(a) \subseteq Here(store.agents)
         /\ ListOf(ReferencedAgents(a), AgentsNamed(a))
<1> DEFINE S == AgentsNamed(a)
           N == Len(a.steps)
           Of(n) == AgentsAt(a, n)
           Sooner(x, y) == \E n \in 0..N : x \in Of(n) /\ \A m \in 0..n : y \notin Of(m)
           less == {p \in S \X S : Sooner(p[1], p[2]) \/ (p[1] < p[2] /\ ~Sooner(p[2], p[1]))}
<1>1. N \in Nat /\ DOMAIN a.steps = 1..N
  BY PlanIs
<1>2. S \subseteq Here(store.agents)
  <2> SUFFICES ASSUME NEW n \in 0..N PROVE Of(n) \subseteq Here(store.agents)
    BY DEF AgentsNamed
  <2>1. CASE n = 0
    BY <2>1 DEF AgentsAt, Authoring
  <2>2. CASE n # 0
    BY <1>1, <2>2 DEF AgentsAt, Dangles
  <2> QED
    BY <2>1, <2>2
<1>3. Here(store.agents) \subseteq AgentIds /\ IsFiniteSet(AgentIds) /\ AgentIds \subseteq Int
  BY TransferAssumption DEF Here
<1>4. S = UNION {Of(n) : n \in 0..N}
  BY DEF AgentsNamed
<1> HIDE DEF S, Of, N
<1>5. IsFiniteSet(S) /\ S \subseteq Int
  BY <1>2, <1>3, FS_Subset, Zenon
<1> DEFINE Stages(x) == {n \in 0..N : x \in Of(n)}
           first == [x \in S |-> CHOOSE n \in Stages(x) : \A k \in Stages(x) : n <= k]
<1>6. ASSUME NEW x \in S PROVE first[x] \in 0..N /\ x \in Of(first[x]) /\ \A k \in 0..N : x \in Of(k) => first[x] <= k
  <2>1. Stages(x) \subseteq Nat /\ Stages(x) # {}
    BY <1>1, <1>4
  <2>2. \E n \in Stages(x) : \A k \in Stages(x) : n <= k
    <3> HIDE DEF Stages
    <3> QED BY <2>1, LeastNat
  <2>3. first[x] \in Stages(x) /\ \A k \in Stages(x) : first[x] <= k
    <3> HIDE DEF Stages
    <3> QED BY <2>2
  <2> HIDE DEF first
  <2> QED BY <2>3
<1> HIDE DEF first
<1>7. \A x, y \in S : Sooner(x, y) <=> first[x] < first[y]
  <2> SUFFICES ASSUME NEW x \in S, NEW y \in S PROVE Sooner(x, y) <=> first[x] < first[y]
    OBVIOUS
  <2>1. first[x] \in 0..N /\ first[y] \in 0..N
    BY <1>6
  <2>2. ASSUME Sooner(x, y) PROVE first[x] < first[y]
    <3>1. PICK n \in 0..N : x \in Of(n) /\ \A m \in 0..n : y \notin Of(m)
      BY <2>2
    <3>2. first[x] <= n
      BY <1>6, <3>1
    <3>3. ~(first[y] <= n)
      BY <1>1, <1>6, <2>1, <3>1
    <3> QED
      BY <1>1, <2>1, <3>2, <3>3
  <2>3. ASSUME first[x] < first[y] PROVE Sooner(x, y)
    <3>1. \A m \in 0..first[x] : y \notin Of(m)
      <4> SUFFICES ASSUME NEW m \in 0..first[x], y \in Of(m) PROVE FALSE
        OBVIOUS
      <4>1. m \in 0..N
        BY <1>1, <2>1
      <4>2. first[y] <= m
        BY <1>6, <4>1
      <4> QED BY <1>1, <2>1, <2>3, <4>1, <4>2
    <3> QED
      BY <1>6, <3>1
  <2> QED
    BY <2>2, <2>3
<1>8. \A x, y \in S : <<x, y>> \in less <=> first[x] < first[y] \/ (x < y /\ ~(first[y] < first[x]))
  <2>1. \A x, y \in S : <<x, y>> \in less <=> Sooner(x, y) \/ (x < y /\ ~Sooner(y, x))
    <3> HIDE DEF Sooner
    <3> QED OBVIOUS
  <2> HIDE DEF Sooner, less
  <2> QED
    BY <1>7, <2>1, Zenon
<1>9. \A x \in S : first[x] \in Int /\ x \in Int
  BY <1>1, <1>5, <1>6
<1>10. Orders(less, S)
  <2> HIDE DEF less
  <2> QED BY <1>8, <1>9 DEF Orders
<1>11. ListOf(Ordered(S, less), S)
  <2> HIDE DEF less
  <2> QED BY <1>5, <1>10, OrderedIs
<1> QED
  BY <1>2, <1>11 DEF ReferencedAgents, AgentsNamed, S, Of, N

\* Where a record stands in a listing.
LEMMA PositionIs ==
  ASSUME NEW q, NEW S, ListOf(q, S), NEW x \in S
  PROVE  Position(q, x) \in 1..Cardinality(S) /\ q[Position(q, x)] = x
<1>1. DOMAIN q = 1..Cardinality(S) /\ \E n \in 1..Cardinality(S) : q[n] = x
  BY DEF ListOf
<1> QED
  BY <1>1 DEF Position, Ref

\* A listing made of records, and trimmed, is matched with those records.
LEMMA ListingsMatch ==
  ASSUME store \in Stores, NEW arch, ArchiveFits(arch),
         NEW secs \in [Refs(arch.secrets) -> Here(store.secrets)],
         NEW ags \in [Refs(arch.agents) -> Here(store.agents)],
         EachOnce(arch.secrets), EachOnce(arch.agents),
         \A q, r \in Refs(arch.secrets) : secs[q] = secs[r] => q = r,
         \A q, r \in Refs(arch.agents) : ags[q] = ags[r] => q = r,
         \A n \in DOMAIN arch.secrets :
            arch.secrets[n].name = store.secrets[secs[arch.secrets[n].ref]].name,
         \A n \in DOMAIN arch.agents :
            /\ arch.agents[n].name = store.agents[ags[arch.agents[n].ref]].name
            /\ arch.agents[n].config = store.agents[ags[arch.agents[n].ref]].config
  PROVE  MatchSecrets(arch) = secs /\ MatchAgents(arch) = ags
<1>1. NoRef \notin SecretIds /\ NoRef \notin AgentIds
  BY TransferAssumption DEF NoRef
<1>2. /\ Len(arch.secrets) \in Nat /\ DOMAIN arch.secrets = 1..Len(arch.secrets)
      /\ Len(arch.agents) \in Nat /\ DOMAIN arch.agents = 1..Len(arch.agents)
      /\ arch.secrets \in Seq(SecretEntry) /\ arch.agents \in Seq(AgentEntry)
  BY LenProperties DEF ArchiveFits
<1>3. /\ Here(store.secrets) \subseteq SecretIds /\ Here(store.agents) \subseteq AgentIds
      /\ NamedApart(store.secrets) /\ NamedApart(store.agents)
  BY TransferAssumption DEF Here
<1>4. ASSUME NEW entries, NEW recs, NEW ids, Here(recs) \subseteq ids, NoRef \notin ids
      PROVE /\ Unmatched(entries, recs) \in States(Refs(entries), ids) /\ OneEach(Unmatched(entries, recs))
            /\ Unmatched(entries, recs).free = Here(recs)
            /\ \A r \in Refs(entries) : Unmatched(entries, recs).res[r] = NoRef
  BY <1>4 DEF Unmatched, States, OneEach, Here
<1>5. MatchSecrets(arch) = secs
  <2> DEFINE R == Refs(arch.secrets)
             zero == Unmatched(arch.secrets, store.secrets)
             named == Pass("name", arch.secrets, store.secrets, zero)
             last == Pass("likeness", arch.secrets, store.secrets, named)
  <2>1. /\ zero \in States(R, SecretIds) /\ OneEach(zero)
        /\ zero.free = Here(store.secrets) /\ \A r \in R : zero.res[r] = NoRef
    BY <1>1, <1>3, <1>4
  <2>2. named \in States(R, SecretIds) /\ OneEach(named)
    <3> HIDE DEF zero
    <3> QED BY <1>1, <1>2, <2>1, PassKeeps, Zenon DEF Rungs
  <2>3. \A n \in DOMAIN arch.secrets : arch.secrets[n].ref \in R
    BY DEF Refs
  <2>4. ASSUME NEW n \in DOMAIN arch.secrets, NEW free \in SUBSET Here(store.secrets),
               secs[arch.secrets[n].ref] \in free
        PROVE  Offer("name", arch.secrets[n], store.secrets, free) = {secs[arch.secrets[n].ref]}
    <3>1. Offer("name", arch.secrets[n], store.secrets, free)
            = {i \in free : store.secrets[i].name = arch.secrets[n].name}
      BY DEF Offer, Named
    <3>2. \A i \in free : store.secrets[i].name = arch.secrets[n].name => i = secs[arch.secrets[n].ref]
      BY <1>3, <2>3, <2>4 DEF NamedApart
    <3> QED
      BY <2>4, <3>1, <3>2
  <2>5. named.res = secs
    <3>1. secs \in [R -> SecretIds] /\ \A r \in R : secs[r] \in zero.free
      BY <1>3, <2>1
    <3>2. \A n \in DOMAIN arch.secrets : \A free \in SUBSET zero.free :
            secs[arch.secrets[n].ref] \in free =>
              Offer("name", arch.secrets[n], store.secrets, free) = {secs[arch.secrets[n].ref]}
      BY <2>1, <2>4, Zenon
    <3>3. \A m, n \in DOMAIN arch.secrets : arch.secrets[m].ref = arch.secrets[n].ref => m = n
      BY DEF EachOnce
    <3>4. "name" \in Rungs
      BY DEF Rungs
    <3>5. OneOffer("name", SecretIds, arch.secrets, store.secrets, zero, secs)
      <4> HIDE DEF zero
      <4> QED BY <1>1, <1>2, <2>1, <3>1, <3>2, <3>3, <3>4, Zenon DEF OneOffer
    <3> HIDE DEF zero
    <3> QED
      BY <3>5, PassFinds
  <2>6. \A r \in R : last.res[r] = named.res[r]
    <3>1. \A r \in R : named.res[r] # NoRef
      <4> HIDE DEF named
      <4> QED BY <1>1, <1>3, <2>5
    <3>2. \A r \in R : named.res[r] # NoRef => last.res[r] = named.res[r]
      <4> HIDE DEF named
      <4> QED BY <1>1, <1>2, <2>2, PassKeeps DEF Rungs
    <3> QED BY <3>1, <3>2
  <2>7. last \in States(R, SecretIds)
    <3> HIDE DEF named
    <3> QED BY <1>1, <1>2, <2>2, PassKeeps, Zenon DEF Rungs
  <2>8. MatchSecrets(arch) = last.res
    BY DEF MatchSecrets
  <2> HIDE DEF named, last
  <2>9. last.res \in [R -> SecretIds \cup {NoRef}]
    BY <2>7 DEF States
  <2> QED
    BY <2>5, <2>6, <2>8, <2>9
<1>6. MatchAgents(arch) = ags
  <2> DEFINE R == Refs(arch.agents)
             zero == Unmatched(arch.agents, store.agents)
             named == Pass("alike", arch.agents, store.agents, zero)
             configured == Pass("config", arch.agents, store.agents, named)
             last == Pass("likeness", arch.agents, store.agents, configured)
  <2>1. /\ zero \in States(R, AgentIds) /\ OneEach(zero)
        /\ zero.free = Here(store.agents) /\ \A r \in R : zero.res[r] = NoRef
    BY <1>1, <1>3, <1>4
  <2>2. named \in States(R, AgentIds) /\ OneEach(named)
    <3> HIDE DEF zero
    <3> QED BY <1>1, <1>2, <2>1, PassKeeps, Zenon DEF Rungs
  <2>3. \A n \in DOMAIN arch.agents : arch.agents[n].ref \in R
    BY DEF Refs
  <2>4. ASSUME NEW n \in DOMAIN arch.agents, NEW free \in SUBSET Here(store.agents),
               ags[arch.agents[n].ref] \in free
        PROVE  Offer("alike", arch.agents[n], store.agents, free) = {ags[arch.agents[n].ref]}
    <3>1. Offer("alike", arch.agents[n], store.agents, free)
            = {i \in free : /\ store.agents[i].name = arch.agents[n].name
                            /\ store.agents[i].config = arch.agents[n].config}
      BY DEF Offer, NamedAlike
    <3>2. \A i \in free : store.agents[i].name = arch.agents[n].name => i = ags[arch.agents[n].ref]
      BY <1>3, <2>3, <2>4 DEF NamedApart
    <3> QED
      BY <2>4, <3>1, <3>2
  <2>5. named.res = ags
    <3>1. ags \in [R -> AgentIds] /\ \A r \in R : ags[r] \in zero.free
      BY <1>3, <2>1
    <3>2. \A n \in DOMAIN arch.agents : \A free \in SUBSET zero.free :
            ags[arch.agents[n].ref] \in free =>
              Offer("alike", arch.agents[n], store.agents, free) = {ags[arch.agents[n].ref]}
      BY <2>1, <2>4, Zenon
    <3>3. \A m, n \in DOMAIN arch.agents : arch.agents[m].ref = arch.agents[n].ref => m = n
      BY DEF EachOnce
    <3>4. "alike" \in Rungs
      BY DEF Rungs
    <3>5. OneOffer("alike", AgentIds, arch.agents, store.agents, zero, ags)
      <4> HIDE DEF zero
      <4> QED BY <1>1, <1>2, <2>1, <3>1, <3>2, <3>3, <3>4, Zenon DEF OneOffer
    <3> HIDE DEF zero
    <3> QED
      BY <3>5, PassFinds
  <2>6. \A r \in R : configured.res[r] = named.res[r] /\ named.res[r] # NoRef
    <3>1. \A r \in R : named.res[r] # NoRef
      <4> HIDE DEF named
      <4> QED BY <1>1, <1>3, <2>5
    <3>2. \A r \in R : named.res[r] # NoRef => configured.res[r] = named.res[r]
      <4> HIDE DEF named
      <4> QED BY <1>1, <1>2, <2>2, PassKeeps DEF Rungs
    <3> QED BY <3>1, <3>2
  <2>7. configured \in States(R, AgentIds) /\ OneEach(configured)
    <3> HIDE DEF named
    <3> QED BY <1>1, <1>2, <2>2, PassKeeps, Zenon DEF Rungs
  <2>8. last \in States(R, AgentIds) /\ \A r \in R : configured.res[r] # NoRef => last.res[r] = configured.res[r]
    <3> HIDE DEF configured
    <3> QED BY <1>1, <1>2, <2>7, PassKeeps DEF Rungs
  <2>9. MatchAgents(arch) = last.res
    BY DEF MatchAgents
  <2> HIDE DEF named, configured, last
  <2>10. last.res \in [R -> AgentIds \cup {NoRef}]
    BY <2>8 DEF States
  <2>11. \A r \in R : last.res[r] = ags[r]
    BY <2>5, <2>6, <2>8
  <2> QED
    BY <2>9, <2>10, <2>11
<1> QED
  BY <1>5, <1>6

-----------------------------------------------------------------------------
\* What an export writes.
LEMMA PackedIs ==
  ASSUME NEW a, NEW w
  PROVE  LET arch == Packed(a, w)
             secs == ReferencedSecrets(a)
             ags == ReferencedAgents(a)
         IN /\ arch.steps = [i \in DOMAIN a.steps |-> Carried(a.steps[i], secs, ags)]
            /\ arch.agent = IF Authoring(a) = {} THEN NoRef ELSE Position(ags, a.agent)
            /\ arch.tokens = {Position(secs, i) : i \in a.tokens}
            /\ arch.secrets = [i \in DOMAIN secs |-> [ref |-> Ref(i), name |-> store.secrets[secs[i]].name,
                                                      desc |-> store.secrets[secs[i]].desc]]
            /\ arch.agents = [i \in DOMAIN ags |-> [ref |-> Ref(i), name |-> store.agents[ags[i]].name,
                                                    desc |-> store.agents[ags[i]].desc,
                                                    config |-> store.agents[ags[i]].config]]
            /\ arch = [steps |-> arch.steps, agent |-> arch.agent, tokens |-> arch.tokens,
                       secrets |-> arch.secrets, agents |-> arch.agents,
                       params |-> arch.params, values |-> arch.values]
  BY DEF Packed

\* The fields of a step in an archive.
LEMMA CarriedIs ==
  ASSUME NEW s \in PlanStep, NEW secs, NEW ags
  PROVE  LET t == Carried(s, secs, ags)
         IN /\ t.name = s.name /\ t.agent = s.agent /\ t.script = s.script
            /\ t.timeout = s.timeout /\ t.noTimeout = s.noTimeout
            /\ t.agents = IF s.agent THEN {Position(ags, i) : i \in s.agents} ELSE {}
            /\ t.secrets = {Position(secs, i) : i \in s.secrets}
            /\ t.codeS = {Position(secs, i) : i \in s.codeS}
            /\ t.codeA = {Position(ags, i) : i \in s.codeA}
            /\ t = [name |-> t.name, agent |-> t.agent, agents |-> t.agents, secrets |-> t.secrets,
                    codeS |-> t.codeS, codeA |-> t.codeA, script |-> t.script,
                    timeout |-> t.timeout, noTimeout |-> t.noTimeout]
<1> DEFINE t == Carried(s, secs, ags)
<1>1. t = [s EXCEPT !.agents = IF s.agent THEN {Position(ags, i) : i \in s.agents} ELSE {},
                    !.secrets = {Position(secs, i) : i \in s.secrets},
                    !.codeS = {Position(secs, i) : i \in s.codeS},
                    !.codeA = {Position(ags, i) : i \in s.codeA}]
  BY DEF Carried, PlanStep
<1>2. s = [name |-> s.name, agent |-> s.agent, agents |-> s.agents, secrets |-> s.secrets,
           codeS |-> s.codeS, codeA |-> s.codeA, script |-> s.script,
           timeout |-> s.timeout, noTimeout |-> s.noTimeout]
  BY DEF PlanStep
<1> HIDE DEF t
<1>3. t = [name |-> s.name, agent |-> s.agent,
           agents |-> IF s.agent THEN {Position(ags, i) : i \in s.agents} ELSE {},
           secrets |-> {Position(secs, i) : i \in s.secrets},
           codeS |-> {Position(secs, i) : i \in s.codeS},
           codeA |-> {Position(ags, i) : i \in s.codeA}, script |-> s.script,
           timeout |-> s.timeout, noTimeout |-> s.noTimeout]
  BY <1>1, <1>2, Zenon
<1> QED
  BY <1>3 DEF t

\* A listed record, found again where it stands.
LEMMA ThereAndBack ==
  ASSUME NEW q, NEW S, ListOf(q, S), NEW X, X \subseteq S, NEW kind, NEW res,
         \A x \in X : Resolved(kind, res, Position(q, x)) = q[Position(q, x)]
  PROVE  {Resolved(kind, res, r) : r \in {Position(q, x) : x \in X}} = X
<1>1. \A x \in X : Resolved(kind, res, Position(q, x)) = x
  BY PositionIs
<1> QED
  BY <1>1

\* What the steps of an exportable plan refer to is what its export lists.
LEMMA ReferencesListed ==
  ASSUME store \in Stores, NEW a \in Plans, Exportable(a)
  PROVE  /\ a.tokens \subseteq SecretsOf(a)
         /\ \A i \in DOMAIN a.steps :
              /\ a.steps[i].secrets \subseteq SecretsOf(a) /\ a.steps[i].codeS \subseteq SecretsOf(a)
              /\ a.steps[i].agents \subseteq AgentsNamed(a) /\ a.steps[i].codeA \subseteq AgentsNamed(a)
              /\ a.steps[i].script = "sealed"
         /\ a.agent \in Here(store.agents) => a.agent \in AgentsNamed(a) /\ Authoring(a) # {}
         /\ a.agent \notin Here(store.agents) => Authoring(a) = {}
         /\ IsFiniteSet(SecretsOf(a)) /\ IsFiniteSet(AgentsNamed(a))
         /\ SecretsOf(a) \subseteq Here(store.secrets) /\ AgentsNamed(a) \subseteq Here(store.agents)
         /\ ListOf(ReferencedSecrets(a), SecretsOf(a)) /\ ListOf(ReferencedAgents(a), AgentsNamed(a))
<1>1. ~Dangles(a) /\ ~UnknownSubscript(a) /\ \A i \in DOMAIN a.steps : a.steps[i].script = "sealed"
  BY DEF Exportable
<1>2. DOMAIN a.steps = 1..Len(a.steps) /\ Len(a.steps) \in Nat
  BY PlanIs
<1>3. a.tokens \subseteq SecretsOf(a)
  BY DEF SecretsOf
<1>4. ASSUME NEW i \in DOMAIN a.steps
      PROVE  /\ a.steps[i].secrets \subseteq SecretsOf(a) /\ a.steps[i].codeS \subseteq SecretsOf(a)
             /\ a.steps[i].agents \subseteq AgentsNamed(a) /\ a.steps[i].codeA \subseteq AgentsNamed(a)
  <2>1. Junk \notin a.steps[i].codeS /\ Junk \notin a.steps[i].codeA
    BY <1>1 DEF UnknownSubscript
  <2>2. StepSecrets(a.steps[i]) = a.steps[i].secrets \cup a.steps[i].codeS
        /\ StepAgents(a.steps[i]) = a.steps[i].agents \cup a.steps[i].codeA
    BY <2>1 DEF StepSecrets, StepAgents, IdsIn
  <2>3. StepSecrets(a.steps[i]) \subseteq SecretsOf(a)
    BY DEF SecretsOf
  <2>4. AgentsAt(a, i) = StepAgents(a.steps[i]) /\ i \in 0..Len(a.steps)
    BY <1>2 DEF AgentsAt
  <2>5. StepAgents(a.steps[i]) \subseteq AgentsNamed(a)
    BY <2>4 DEF AgentsNamed
  <2> QED
    BY <2>2, <2>3, <2>5
<1>5. a.agent \in Here(store.agents) => a.agent \in AgentsNamed(a) /\ Authoring(a) # {}
  <2>1. AgentsAt(a, 0) = Authoring(a) /\ 0 \in 0..Len(a.steps)
    BY <1>2 DEF AgentsAt
  <2>2. Authoring(a) \subseteq AgentsNamed(a)
    BY <2>1 DEF AgentsNamed
  <2> QED
    BY <2>2 DEF Authoring
<1>6. a.agent \notin Here(store.agents) => Authoring(a) = {}
  BY DEF Authoring
<1>7. /\ SecretsOf(a) \subseteq Here(store.secrets) /\ ListOf(ReferencedSecrets(a), SecretsOf(a))
      /\ AgentsNamed(a) \subseteq Here(store.agents) /\ ListOf(ReferencedAgents(a), AgentsNamed(a))
  BY <1>1, SecretsListed, AgentsListed
<1>8. IsFiniteSet(SecretsOf(a)) /\ IsFiniteSet(AgentsNamed(a))
  <2>1. Here(store.secrets) \subseteq SecretIds /\ Here(store.agents) \subseteq AgentIds
        /\ IsFiniteSet(SecretIds) /\ IsFiniteSet(AgentIds)
    BY TransferAssumption DEF Here
  <2> QED
    BY <1>7, <2>1, FS_Subset
<1> QED
  BY <1>1, <1>3, <1>4, <1>5, <1>6, <1>7, <1>8

LEMMA PackedFits ==
  ASSUME store \in Stores, NEW a \in Plans, Exportable(a), NEW w
  PROVE  ArchiveFits(Packed(a, w))
<1> DEFINE arch == Packed(a, w)
           secs == ReferencedSecrets(a)
           ags == ReferencedAgents(a)
           S == SecretsOf(a)
           G == AgentsNamed(a)
<1>1. /\ ListOf(secs, S) /\ ListOf(ags, G) /\ S \subseteq Here(store.secrets) /\ G \subseteq Here(store.agents)
      /\ Cardinality(S) \in Nat /\ Cardinality(G) \in Nat
  BY ReferencesListed, FS_CardinalityType
<1>2. \A i \in DOMAIN a.steps :
         /\ a.steps[i].secrets \subseteq S /\ a.steps[i].codeS \subseteq S
         /\ a.steps[i].agents \subseteq G /\ a.steps[i].codeA \subseteq G
  BY ReferencesListed
<1> HIDE DEF S, G, secs, ags
<1>3. (\A x \in S : Position(secs, x) \in Int) /\ (\A x \in G : Position(ags, x) \in Int)
  BY <1>1, PositionIs
<1>4. DOMAIN a.steps = 1..Len(a.steps) /\ Len(a.steps) \in Nat /\ \A i \in DOMAIN a.steps : a.steps[i] \in PlanStep
  BY PlanIs
<1>5. ASSUME NEW i \in DOMAIN a.steps PROVE Carried(a.steps[i], secs, ags) \in RefStep
  <2> DEFINE s == a.steps[i]
             t == Carried(s, secs, ags)
  <2>1. s \in PlanStep
    BY <1>4
  <2> HIDE DEF t
  <2>2. /\ t.name = s.name /\ t.agent = s.agent /\ t.script = s.script
        /\ t.timeout = s.timeout /\ t.noTimeout = s.noTimeout
        /\ t.agents = IF s.agent THEN {Position(ags, x) : x \in s.agents} ELSE {}
        /\ t.secrets = {Position(secs, x) : x \in s.secrets}
        /\ t.codeS = {Position(secs, x) : x \in s.codeS}
        /\ t.codeA = {Position(ags, x) : x \in s.codeA}
        /\ t = [name |-> t.name, agent |-> t.agent, agents |-> t.agents, secrets |-> t.secrets,
                codeS |-> t.codeS, codeA |-> t.codeA, script |-> t.script,
                timeout |-> t.timeout, noTimeout |-> t.noTimeout]
    BY <2>1, CarriedIs, Zenon DEF t
  <2>3. s.secrets \subseteq S /\ s.codeS \subseteq S /\ s.agents \subseteq G /\ s.codeA \subseteq G
    BY <1>2
  <2> HIDE DEF s
  <2>4. t.agents \subseteq Int /\ t.secrets \subseteq Int /\ t.codeS \subseteq Int /\ t.codeA \subseteq Int
    BY <1>3, <2>2, <2>3
  <2>5. s.name \in Nat /\ s.agent \in BOOLEAN /\ s.script \in STRING /\ s.timeout \in Int /\ s.noTimeout \in BOOLEAN
    BY <2>1 DEF PlanStep
  <2>6. t.name \in Nat /\ t.agent \in BOOLEAN /\ t.script \in STRING /\ t.timeout \in Int /\ t.noTimeout \in BOOLEAN
    BY <2>2, <2>5
  <2>7. t \in RefStep
    BY <2>2, <2>4, <2>6 DEF RefStep
  <2> QED
    BY <2>7 DEF t, s
<1>6. /\ arch.steps = [i \in DOMAIN a.steps |-> Carried(a.steps[i], secs, ags)]
      /\ arch.secrets = [i \in DOMAIN secs |-> [ref |-> Ref(i), name |-> store.secrets[secs[i]].name,
                                                desc |-> store.secrets[secs[i]].desc]]
      /\ arch.agents = [i \in DOMAIN ags |-> [ref |-> Ref(i), name |-> store.agents[ags[i]].name,
                                              desc |-> store.agents[ags[i]].desc,
                                              config |-> store.agents[ags[i]].config]]
      /\ arch = [steps |-> arch.steps, agent |-> arch.agent, tokens |-> arch.tokens,
                 secrets |-> arch.secrets, agents |-> arch.agents,
                 params |-> arch.params, values |-> arch.values]
  BY PackedIs DEF secs, ags
<1> HIDE DEF arch
<1>7. arch.steps \in Seq(RefStep)
  <2>1. arch.steps \in [1..Len(a.steps) -> RefStep]
    BY <1>4, <1>5, <1>6
  <2> QED BY <1>4, <2>1
<1>8. /\ DOMAIN secs = 1..Cardinality(S) /\ DOMAIN ags = 1..Cardinality(G)
      /\ \A n \in DOMAIN secs : secs[n] \in SecretIds
      /\ \A n \in DOMAIN ags : ags[n] \in AgentIds
  <2>1. Here(store.secrets) \subseteq SecretIds /\ Here(store.agents) \subseteq AgentIds
    BY TransferAssumption DEF Here
  <2> QED BY <1>1, <2>1 DEF ListOf
<1>9. /\ \A i \in SecretIds : store.secrets[i].name \in Nat /\ store.secrets[i].desc \in Nat
      /\ \A i \in AgentIds : store.agents[i].name \in Nat /\ store.agents[i].desc \in Nat
                             /\ store.agents[i].config \in STRING
  BY TransferAssumption
<1>10. arch.secrets \in Seq(SecretEntry)
  <2>1. arch.secrets \in [1..Cardinality(S) -> SecretEntry]
    BY <1>6, <1>8, <1>9 DEF Ref, SecretEntry
  <2> QED BY <1>1, <2>1
<1>11. arch.agents \in Seq(AgentEntry)
  <2>1. arch.agents \in [1..Cardinality(G) -> AgentEntry]
    BY <1>6, <1>8, <1>9 DEF Ref, AgentEntry, Configs
  <2> QED BY <1>1, <2>1
<1> QED
  BY <1>6, <1>7, <1>10, <1>11 DEF ArchiveFits, arch

\* RoundTrip, of what one import created.
CameBack(l) ==
    /\ l.steps = [i \in DOMAIN auto.steps |-> Recovered(auto.steps[i])]
    /\ l.tokens = auto.tokens /\ l.unresolved = {}
    /\ auto.agent \in Here(store.agents) => l.agent = auto.agent

\* What a plan's own export lists is matched with the records it was made of.
LEMMA OwnMatches ==
  ASSUME store \in Stores, NEW a \in Plans, Exportable(a), NEW w, Valid(Packed(a, w))
  PROVE  LET A == Trimmed(Packed(a, w))
         IN /\ \A r \in Refs(A.secrets) : /\ MatchSecrets(A)[r] = ReferencedSecrets(a)[r]
                                          /\ ReferencedSecrets(a)[r] \in SecretIds
            /\ \A r \in Refs(A.agents) : /\ MatchAgents(A)[r] = ReferencedAgents(a)[r]
                                         /\ ReferencedAgents(a)[r] \in AgentIds
            /\ DOMAIN MatchSecrets(A) = Refs(A.secrets) /\ DOMAIN MatchAgents(A) = Refs(A.agents)
<1> DEFINE arch == Packed(a, w)
           A == Trimmed(arch)
           secs == ReferencedSecrets(a)
           ags == ReferencedAgents(a)
           S == SecretsOf(a)
           G == AgentsNamed(a)
           hisSecrets == [r \in Refs(A.secrets) |-> secs[r]]
           hisAgents == [r \in Refs(A.agents) |-> ags[r]]
<1>1. /\ ListOf(secs, S) /\ ListOf(ags, G) /\ S \subseteq Here(store.secrets) /\ G \subseteq Here(store.agents)
      /\ Cardinality(S) \in Nat /\ Cardinality(G) \in Nat
  BY ReferencesListed, FS_CardinalityType
<1>2. ArchiveFits(arch)
  BY PackedFits
<1>3. /\ ArchiveFits(A)
      /\ A.secrets = OnlyUsed(arch.secrets, UsedSecrets(arch))
      /\ A.agents = OnlyUsed(arch.agents, UsedAgents(arch))
  BY <1>2, TrimmedIs
<1>4. /\ arch.secrets = [i \in DOMAIN secs |-> [ref |-> Ref(i), name |-> store.secrets[secs[i]].name,
                                                desc |-> store.secrets[secs[i]].desc]]
      /\ arch.agents = [i \in DOMAIN ags |-> [ref |-> Ref(i), name |-> store.agents[ags[i]].name,
                                              desc |-> store.agents[ags[i]].desc,
                                              config |-> store.agents[ags[i]].config]]
  BY PackedIs, Zenon
<1> HIDE DEF arch, A, S, G, secs, ags
<1>5. /\ DOMAIN secs = 1..Cardinality(S) /\ DOMAIN ags = 1..Cardinality(G)
      /\ \A r \in DOMAIN secs : secs[r] \in Here(store.secrets)
      /\ \A r \in DOMAIN ags : ags[r] \in Here(store.agents)
      /\ \A q, r \in DOMAIN secs : secs[q] = secs[r] => q = r
      /\ \A q, r \in DOMAIN ags : ags[q] = ags[r] => q = r
  BY <1>1 DEF ListOf
<1>6. /\ DOMAIN arch.secrets = DOMAIN secs /\ DOMAIN arch.agents = DOMAIN ags
      /\ \A m \in DOMAIN secs : arch.secrets[m].ref = m /\ arch.secrets[m].name = store.secrets[secs[m]].name
      /\ \A m \in DOMAIN ags : /\ arch.agents[m].ref = m /\ arch.agents[m].name = store.agents[ags[m]].name
                               /\ arch.agents[m].config = store.agents[ags[m]].config
  BY <1>4 DEF Ref
<1>7. EachOnce(arch.secrets) /\ EachOnce(arch.agents)
  BY <1>6 DEF EachOnce
<1>8. /\ arch.secrets \in Seq(SecretEntry) /\ arch.agents \in Seq(AgentEntry)
  BY <1>2 DEF ArchiveFits
<1>9. /\ \A n \in DOMAIN A.secrets : \E m \in DOMAIN arch.secrets : A.secrets[n] = arch.secrets[m]
      /\ EachOnce(A.secrets)
  BY <1>3, <1>7, <1>8, OnlyUsedIs
<1>10. /\ \A n \in DOMAIN A.agents : \E m \in DOMAIN arch.agents : A.agents[n] = arch.agents[m]
       /\ EachOnce(A.agents)
  BY <1>3, <1>7, <1>8, OnlyUsedIs
<1>11. /\ \A n \in DOMAIN A.secrets : /\ A.secrets[n].ref \in DOMAIN secs
                                      /\ A.secrets[n].name = store.secrets[secs[A.secrets[n].ref]].name
       /\ \A n \in DOMAIN A.agents : /\ A.agents[n].ref \in DOMAIN ags
                                     /\ A.agents[n].name = store.agents[ags[A.agents[n].ref]].name
                                     /\ A.agents[n].config = store.agents[ags[A.agents[n].ref]].config
  BY <1>6, <1>9, <1>10
<1>12. /\ Refs(A.secrets) \subseteq DOMAIN secs /\ Refs(A.agents) \subseteq DOMAIN ags
       /\ \A n \in DOMAIN A.secrets : A.secrets[n].ref \in Refs(A.secrets)
       /\ \A n \in DOMAIN A.agents : A.agents[n].ref \in Refs(A.agents)
  BY <1>11 DEF Refs
<1>13. /\ hisSecrets \in [Refs(A.secrets) -> Here(store.secrets)]
       /\ hisAgents \in [Refs(A.agents) -> Here(store.agents)]
       /\ \A q, r \in Refs(A.secrets) : hisSecrets[q] = hisSecrets[r] => q = r
       /\ \A q, r \in Refs(A.agents) : hisAgents[q] = hisAgents[r] => q = r
  BY <1>5, <1>12
<1>14. /\ \A n \in DOMAIN A.secrets : A.secrets[n].name = store.secrets[hisSecrets[A.secrets[n].ref]].name
       /\ \A n \in DOMAIN A.agents :
             /\ A.agents[n].name = store.agents[hisAgents[A.agents[n].ref]].name
             /\ A.agents[n].config = store.agents[hisAgents[A.agents[n].ref]].config
  BY <1>11, <1>12
<1>15. MatchSecrets(A) = hisSecrets /\ MatchAgents(A) = hisAgents
  <2> HIDE DEF hisSecrets, hisAgents
  <2> QED BY <1>3, <1>9, <1>10, <1>13, <1>14, ListingsMatch
<1>16. Here(store.secrets) \subseteq SecretIds /\ Here(store.agents) \subseteq AgentIds
  BY TransferAssumption DEF Here
<1> QED
  BY <1>5, <1>12, <1>15, <1>16 DEF arch, A, secs, ags

LEMMA LandingComesBack ==
  ASSUME store \in Stores, auto \in Plans, Exportable(auto), NEW w, Valid(Packed(auto, w)), NEW b
  PROVE  CameBack(Landing(Trimmed(Packed(auto, w)), b))
<1> DEFINE arch == Packed(auto, w)
           A == Trimmed(arch)
           m == MatchArchive(A)
           l == Landing(A, b)
           secs == ReferencedSecrets(auto)
           ags == ReferencedAgents(auto)
           S == SecretsOf(auto)
           G == AgentsNamed(auto)
           sec(r) == Resolved("secret", m.secrets, r)
           ag(r) == Resolved("agent", m.agents, r)
<1>1. /\ ListOf(secs, S) /\ ListOf(ags, G)
      /\ auto.tokens \subseteq S
      /\ \A i \in DOMAIN auto.steps :
           /\ auto.steps[i].secrets \subseteq S /\ auto.steps[i].codeS \subseteq S
           /\ auto.steps[i].agents \subseteq G /\ auto.steps[i].codeA \subseteq G
           /\ auto.steps[i].script = "sealed"
      /\ auto.agent \in Here(store.agents) => auto.agent \in G /\ Authoring(auto) # {}
  BY ReferencesListed
<1>2. ArchiveFits(arch)
  BY PackedFits
<1>3. /\ A.agent = arch.agent /\ A.tokens = arch.tokens
      /\ DOMAIN A.steps = DOMAIN arch.steps
      /\ \A i \in DOMAIN arch.steps :
           A.steps[i] = [arch.steps[i] EXCEPT !.agents = AgentsOf(arch.steps[i])]
      /\ Refs(A.secrets) = UsedSecrets(arch) /\ Refs(A.agents) = UsedAgents(arch)
      /\ ArchiveFits(A)
  BY <1>2, TrimmedIs
<1>4. /\ arch.steps = [i \in DOMAIN auto.steps |-> Carried(auto.steps[i], secs, ags)]
      /\ arch.agent = IF Authoring(auto) = {} THEN NoRef ELSE Position(ags, auto.agent)
      /\ arch.tokens = {Position(secs, i) : i \in auto.tokens}
  BY DEF Packed
<1>5. m.secrets = MatchSecrets(A) /\ m.agents = MatchAgents(A)
      /\ m.author = IF A.agent # NoRef /\ m.agents[A.agent] # NoRef THEN m.agents[A.agent] ELSE store.default
  BY DEF MatchArchive
<1>6. /\ l.steps = [i \in DOMAIN A.steps |-> Substituted(A.steps[i], m)]
      /\ l.agent = m.author /\ l.tokens = {sec(r) : r \in A.tokens}
      /\ l.unresolved = Unresolved("secret", m.secrets) \cup Unresolved("agent", m.agents)
  BY DEF Landing
<1>7. /\ \A r \in Refs(A.secrets) : m.secrets[r] = secs[r] /\ secs[r] \in SecretIds
      /\ \A r \in Refs(A.agents) : m.agents[r] = ags[r] /\ ags[r] \in AgentIds
      /\ DOMAIN m.secrets = Refs(A.secrets) /\ DOMAIN m.agents = Refs(A.agents)
  BY <1>5, OwnMatches
<1>8. NoRef \notin SecretIds /\ NoRef \notin AgentIds
  BY TransferAssumption DEF NoRef
<1> HIDE DEF arch, A, m, l, secs, ags, S, G
<1>9. l.unresolved = {}
  BY <1>6, <1>7, <1>8 DEF Unresolved
<1>10. /\ \A r \in UsedSecrets(arch) : sec(r) = secs[r]
       /\ \A r \in UsedAgents(arch) : ag(r) = ags[r]
  BY <1>3, <1>7, <1>8 DEF Resolved
<1>11. \A X \in SUBSET S : {Position(secs, x) : x \in X} \subseteq UsedSecrets(arch)
         => {sec(r) : r \in {Position(secs, x) : x \in X}} = X
  <2> SUFFICES ASSUME NEW X \in SUBSET S, {Position(secs, x) : x \in X} \subseteq UsedSecrets(arch)
               PROVE {sec(r) : r \in {Position(secs, x) : x \in X}} = X
    OBVIOUS
  <2>1. \A x \in X : sec(Position(secs, x)) = secs[Position(secs, x)]
    BY <1>10
  <2> QED
    BY <1>1, <2>1, ThereAndBack
<1>12. \A X \in SUBSET G : {Position(ags, x) : x \in X} \subseteq UsedAgents(arch)
         => {ag(r) : r \in {Position(ags, x) : x \in X}} = X
  <2> SUFFICES ASSUME NEW X \in SUBSET G, {Position(ags, x) : x \in X} \subseteq UsedAgents(arch)
               PROVE {ag(r) : r \in {Position(ags, x) : x \in X}} = X
    OBVIOUS
  <2>1. \A x \in X : ag(Position(ags, x)) = ags[Position(ags, x)]
    BY <1>10
  <2> QED
    BY <1>1, <2>1, ThereAndBack
<1>13. DOMAIN arch.steps = DOMAIN auto.steps /\ \A i \in DOMAIN auto.steps : auto.steps[i] \in PlanStep
  BY <1>4, PlanIs
<1>14. ASSUME NEW i \in DOMAIN auto.steps PROVE l.steps[i] = Recovered(auto.steps[i])
  <2> DEFINE s == auto.steps[i]
             c == arch.steps[i]
             t == A.steps[i]
             u == Substituted(t, m)
  <2>1. s \in PlanStep /\ c = Carried(s, secs, ags) /\ t = [c EXCEPT !.agents = AgentsOf(c)]
        /\ l.steps[i] = u
    BY <1>3, <1>4, <1>6, <1>13, Zenon
  <2>2. /\ c.name = s.name /\ c.agent = s.agent /\ c.script = s.script
        /\ c.timeout = s.timeout /\ c.noTimeout = s.noTimeout
        /\ c.agents = IF s.agent THEN {Position(ags, x) : x \in s.agents} ELSE {}
        /\ c.secrets = {Position(secs, x) : x \in s.secrets}
        /\ c.codeS = {Position(secs, x) : x \in s.codeS}
        /\ c.codeA = {Position(ags, x) : x \in s.codeA}
    <3> DEFINE d == Carried(s, secs, ags)
    <3>1. /\ d.name = s.name /\ d.agent = s.agent /\ d.script = s.script
          /\ d.timeout = s.timeout /\ d.noTimeout = s.noTimeout
          /\ d.agents = IF s.agent THEN {Position(ags, x) : x \in s.agents} ELSE {}
          /\ d.secrets = {Position(secs, x) : x \in s.secrets}
          /\ d.codeS = {Position(secs, x) : x \in s.codeS}
          /\ d.codeA = {Position(ags, x) : x \in s.codeA}
          /\ d = [name |-> d.name, agent |-> d.agent, agents |-> d.agents, secrets |-> d.secrets,
                  codeS |-> d.codeS, codeA |-> d.codeA, script |-> d.script,
                  timeout |-> d.timeout, noTimeout |-> d.noTimeout]
      <4>1. s \in PlanStep
        BY <1>13
      <4> HIDE DEF d
      <4> QED BY <4>1, CarriedIs, Zenon DEF d
    <3>2. c = d
      BY <2>1
    <3> HIDE DEF d, s, c
    <3> QED BY <3>1, <3>2
  <2>3. c \in RefStep /\ t \in RefStep
    <3>1. arch.steps \in Seq(RefStep) /\ A.steps \in Seq(RefStep) /\ i \in DOMAIN arch.steps /\ i \in DOMAIN A.steps
      BY <1>2, <1>3, <1>13 DEF ArchiveFits
    <3> QED BY <3>1, ElementOfSeq, LenProperties
  <2> HIDE DEF s, c, t
  <2>4. /\ t.name = c.name /\ t.agent = c.agent /\ t.timeout = c.timeout /\ t.noTimeout = c.noTimeout
        /\ t.agents = AgentsOf(c) /\ t.secrets = c.secrets /\ t.codeS = c.codeS /\ t.codeA = c.codeA
    BY <2>1, <2>3 DEF RefStep
  <2>5. t.agents = {Position(ags, x) : x \in AgentsOf(s)}
    BY <2>2, <2>4 DEF AgentsOf
  <2>6. t.secrets \cup t.codeS \subseteq UsedSecrets(arch) /\ t.agents \cup t.codeA \subseteq UsedAgents(arch)
    <3>1. c.secrets \cup c.codeS \subseteq UsedSecrets(arch) /\ AgentsOf(c) \cup c.codeA \subseteq UsedAgents(arch)
      BY <1>13 DEF UsedSecrets, UsedAgents, c
    <3> QED BY <2>4, <3>1
  <2>7. s.secrets \subseteq S /\ s.codeS \subseteq S /\ AgentsOf(s) \subseteq G /\ s.codeA \subseteq G
        /\ s.script = "sealed"
    BY <1>1 DEF AgentsOf, s
  <2>8. /\ {sec(r) : r \in t.secrets} = s.secrets /\ {sec(r) : r \in t.codeS} = s.codeS
        /\ {ag(r) : r \in t.agents} = AgentsOf(s) /\ {ag(r) : r \in t.codeA} = s.codeA
    <3> HIDE DEF sec, ag
    <3>1. {sec(r) : r \in {Position(secs, x) : x \in s.secrets}} = s.secrets
      BY <1>11, <2>2, <2>4, <2>6, <2>7, Zenon
    <3>2. {sec(r) : r \in {Position(secs, x) : x \in s.codeS}} = s.codeS
      BY <1>11, <2>2, <2>4, <2>6, <2>7, Zenon
    <3>3. {ag(r) : r \in {Position(ags, x) : x \in AgentsOf(s)}} = AgentsOf(s)
      BY <1>12, <2>5, <2>6, <2>7
    <3>4. {ag(r) : r \in {Position(ags, x) : x \in s.codeA}} = s.codeA
      BY <1>12, <2>2, <2>4, <2>6, <2>7, Zenon
    <3> QED BY <2>2, <2>4, <2>5, <3>1, <3>2, <3>3, <3>4
  <2>9. /\ u.secrets = {sec(r) : r \in t.secrets} /\ u.codeS = {sec(r) : r \in t.codeS}
        /\ u.agents = {ag(r) : r \in t.agents} /\ u.codeA = {ag(r) : r \in t.codeA}
        /\ u.agent = t.agent /\ u.script = "sealed"
        /\ u.name = t.name /\ u.timeout = t.timeout /\ u.noTimeout = t.noTimeout
        /\ DOMAIN u = DOMAIN t
    BY <2>3, SubstitutedIs
  <2>10. u = [t EXCEPT !.secrets = s.secrets, !.codeS = s.codeS, !.agents = AgentsOf(s),
                       !.codeA = s.codeA, !.script = "sealed"]
    BY <2>8, Zenon DEF Substituted
  <2> HIDE DEF u
  <2>11. u = [name |-> s.name, agent |-> s.agent, agents |-> AgentsOf(s), secrets |-> s.secrets,
              codeS |-> s.codeS, codeA |-> s.codeA, script |-> "sealed",
              timeout |-> s.timeout, noTimeout |-> s.noTimeout]
    <3>1. u = [name |-> t.name, agent |-> t.agent, agents |-> AgentsOf(s), secrets |-> s.secrets,
               codeS |-> s.codeS, codeA |-> s.codeA, script |-> "sealed",
               timeout |-> t.timeout, noTimeout |-> t.noTimeout]
      BY <2>3, <2>10, Zenon DEF RefStep
    <3> QED BY <2>2, <2>4, <3>1
  <2>12. s = [name |-> s.name, agent |-> s.agent, agents |-> s.agents, secrets |-> s.secrets,
              codeS |-> s.codeS, codeA |-> s.codeA, script |-> "sealed",
              timeout |-> s.timeout, noTimeout |-> s.noTimeout]
    BY <2>1, <2>7 DEF PlanStep
  <2>13. Recovered(s) = u
    <3>1. Recovered(s) = [s EXCEPT !.agents = AgentsOf(s)]
      BY DEF Recovered
    <3> QED BY <2>11, <2>12, <3>1
  <2> QED
    BY <2>1, <2>13 DEF s
<1>15. l.steps = [i \in DOMAIN auto.steps |-> Recovered(auto.steps[i])]
  BY <1>3, <1>6, <1>13, <1>14, Zenon
<1>16. l.tokens = auto.tokens
  <2>1. arch.tokens \subseteq UsedSecrets(arch)
    BY DEF UsedSecrets
  <2> HIDE DEF sec
  <2> QED BY <1>1, <1>3, <1>4, <1>6, <1>11, <2>1, Zenon
<1>17. ASSUME auto.agent \in Here(store.agents) PROVE l.agent = auto.agent
  <2> DEFINE p == Position(ags, auto.agent)
  <2>1. auto.agent \in G /\ arch.agent = p
    BY <1>1, <1>4, <1>17
  <2>2. p \in 1..Cardinality(G) /\ ags[p] = auto.agent
    BY <1>1, <2>1, PositionIs
  <2>3. p # NoRef
    BY <2>2 DEF NoRef
  <2> HIDE DEF p
  <2>4. p \in UsedAgents(arch)
    BY <2>1, <2>3 DEF UsedAgents
  <2>5. m.agents[p] = auto.agent /\ auto.agent # NoRef
    <3>1. auto.agent \in AgentIds
      BY PlanIs
    <3> QED BY <1>3, <1>7, <1>8, <2>2, <2>4, <3>1
  <2> QED
    BY <1>3, <1>5, <1>6, <2>1, <2>3, <2>5
<1> QED
  BY <1>9, <1>15, <1>16, <1>17 DEF CameBack, l, A, arch

-----------------------------------------------------------------------------
\* Whatever an edit by hand makes of an archive is still one.
LEMMA EditsFit ==
  ASSUME NEW T, NEW q \in Seq(T), NEW i \in DOMAIN q, NEW x \in T
  PROVE  [q EXCEPT ![i] = x] \in Seq(T)
<1>1. Len(q) \in Nat /\ DOMAIN q = 1..Len(q) /\ q \in [1..Len(q) -> T]
  BY LenProperties
<1>2. [q EXCEPT ![i] = x] \in [1..Len(q) -> T]
  BY <1>1
<1> QED
  BY <1>1, <1>2

LEMMA RemovalFits ==
  ASSUME NEW T, NEW q \in Seq(T), NEW i \in DOMAIN q
  PROVE  RemoveAt(q, i) \in Seq(T)
<1>1. Len(q) \in Nat /\ DOMAIN q = 1..Len(q) /\ i \in 1..Len(q)
  BY LenProperties
<1>2. \A j \in 1..Len(q) : q[j] \in T
  BY <1>1, ElementOfSeq
<1>3. SubSeq(q, 1, i - 1) \in Seq(T)
  BY <1>1, <1>2, SubSeqProperties
<1>4. SubSeq(q, i + 1, Len(q)) \in Seq(T)
  BY <1>1, <1>2, SubSeqProperties
<1> QED
  BY <1>3, <1>4, ConcatProperties DEF RemoveAt

LEMMA ForgedFits ==
  ASSUME NEW arch, ArchiveFits(arch), NEW x \in Forged(arch)
  PROVE  ArchiveFits(x)
<1>1. /\ arch.steps \in Seq(RefStep) /\ arch.secrets \in Seq(SecretEntry) /\ arch.agents \in Seq(AgentEntry)
      /\ arch = [steps |-> arch.steps, agent |-> arch.agent, tokens |-> arch.tokens,
                 secrets |-> arch.secrets, agents |-> arch.agents,
                 params |-> arch.params, values |-> arch.values]
  BY DEF ArchiveFits
<1>2. ASSUME NEW y \in Seq(SecretEntry), x = [arch EXCEPT !.secrets = y] PROVE ArchiveFits(x)
  <2>1. x = [steps |-> arch.steps, agent |-> arch.agent, tokens |-> arch.tokens, secrets |-> y,
             agents |-> arch.agents, params |-> arch.params, values |-> arch.values]
    BY <1>1, <1>2, Zenon
  <2> QED BY <1>1, <2>1 DEF ArchiveFits
<1>3. ASSUME NEW y \in Seq(AgentEntry), x = [arch EXCEPT !.agents = y] PROVE ArchiveFits(x)
  <2>1. x = [steps |-> arch.steps, agent |-> arch.agent, tokens |-> arch.tokens, secrets |-> arch.secrets,
             agents |-> y, params |-> arch.params, values |-> arch.values]
    BY <1>1, <1>3, Zenon
  <2> QED BY <1>1, <2>1 DEF ArchiveFits
<1>4. ASSUME NEW y \in Seq(RefStep), x = [arch EXCEPT !.steps = y] PROVE ArchiveFits(x)
  <2>1. x = [steps |-> y, agent |-> arch.agent, tokens |-> arch.tokens, secrets |-> arch.secrets,
             agents |-> arch.agents, params |-> arch.params, values |-> arch.values]
    BY <1>1, <1>4, Zenon
  <2> QED BY <1>1, <2>1 DEF ArchiveFits
<1>5. ASSUME NEW y, x = [arch EXCEPT !.agent = y] PROVE ArchiveFits(x)
  <2>1. x = [steps |-> arch.steps, agent |-> y, tokens |-> arch.tokens, secrets |-> arch.secrets,
             agents |-> arch.agents, params |-> arch.params, values |-> arch.values]
    BY <1>1, <1>5
  <2> QED BY <1>1, <2>1 DEF ArchiveFits
<1>6. /\ \A i \in DOMAIN arch.secrets : arch.secrets[i] \in SecretEntry
      /\ \A i \in DOMAIN arch.agents : arch.agents[i] \in AgentEntry
      /\ \A i \in DOMAIN arch.steps : arch.steps[i] \in RefStep
  BY <1>1, ElementOfSeq, LenProperties
<1>7. SecretIds \subseteq Int
  BY TransferAssumption
<1>8. CASE x \in {[arch EXCEPT !.secrets = y] :
                    y \in {RemoveAt(arch.secrets, i) : i \in DOMAIN arch.secrets}
                          \cup {Append(arch.secrets, [ref |-> r, name |-> 1, desc |-> 0]) : r \in 1..3}
                          \cup Edits(arch.secrets, LAMBDA e : [e EXCEPT !.name = 3])}
  <2>1. \A i \in DOMAIN arch.secrets : RemoveAt(arch.secrets, i) \in Seq(SecretEntry)
    BY <1>1, RemovalFits
  <2>2. \A r \in 1..3 : Append(arch.secrets, [ref |-> r, name |-> 1, desc |-> 0]) \in Seq(SecretEntry)
    <3>1. \A r \in 1..3 : [ref |-> r, name |-> 1, desc |-> 0] \in SecretEntry
      BY DEF SecretEntry
    <3> QED BY <1>1, <3>1, AppendProperties
  <2>3. Edits(arch.secrets, LAMBDA e : [e EXCEPT !.name = 3]) \subseteq Seq(SecretEntry)
    <3>1. \A i \in DOMAIN arch.secrets : [arch.secrets[i] EXCEPT !.name = 3] \in SecretEntry
      BY <1>6 DEF SecretEntry
    <3>2. \A i \in DOMAIN arch.secrets :
            [arch.secrets EXCEPT ![i] = [arch.secrets[i] EXCEPT !.name = 3]] \in Seq(SecretEntry)
      BY <1>1, <3>1, EditsFit
    <3> QED BY <3>2 DEF Edits
  <2> QED
    BY <1>2, <1>8, <2>1, <2>2, <2>3, Zenon
<1>9. CASE x \in {[arch EXCEPT !.agents = y] :
                    y \in {Append(arch.agents, [ref |-> r, name |-> 1, desc |-> 0, config |-> "c"]) : r \in 1..3}
                          \cup Edits(arch.agents, LAMBDA e : [e EXCEPT !.config = "d"])}
  <2>1. \A r \in 1..3 : Append(arch.agents, [ref |-> r, name |-> 1, desc |-> 0, config |-> "c"]) \in Seq(AgentEntry)
    <3>1. \A r \in 1..3 : [ref |-> r, name |-> 1, desc |-> 0, config |-> "c"] \in AgentEntry
      BY DEF AgentEntry, Configs
    <3> QED BY <1>1, <3>1, AppendProperties
  <2>2. Edits(arch.agents, LAMBDA e : [e EXCEPT !.config = "d"]) \subseteq Seq(AgentEntry)
    <3>1. \A i \in DOMAIN arch.agents : [arch.agents[i] EXCEPT !.config = "d"] \in AgentEntry
      BY <1>6 DEF AgentEntry, Configs
    <3>2. \A i \in DOMAIN arch.agents :
            [arch.agents EXCEPT ![i] = [arch.agents[i] EXCEPT !.config = "d"]] \in Seq(AgentEntry)
      BY <1>1, <3>1, EditsFit
    <3> QED BY <3>2, Zenon DEF Edits
  <2> QED
    BY <1>3, <1>9, <2>1, <2>2, Zenon
<1>10. CASE x \in {[arch EXCEPT !.steps = y] :
                    y \in Edits(arch.steps, LAMBDA s : [s EXCEPT !.codeS = @ \cup {2}])
                          \cup Edits(arch.steps, LAMBDA s : [s EXCEPT !.codeA = @ \cup {2}])
                          \cup Edits(arch.steps, LAMBDA s : [s EXCEPT !.agent = ~@])
                          \cup Edits(arch.steps, LAMBDA s : [s EXCEPT !.secrets = @ \cup SecretIds])}
  <2>1. ASSUME NEW i \in DOMAIN arch.steps
        PROVE  /\ [arch.steps EXCEPT ![i] = [arch.steps[i] EXCEPT !.codeS = @ \cup {2}]] \in Seq(RefStep)
               /\ [arch.steps EXCEPT ![i] = [arch.steps[i] EXCEPT !.codeA = @ \cup {2}]] \in Seq(RefStep)
               /\ [arch.steps EXCEPT ![i] = [arch.steps[i] EXCEPT !.agent = ~@]] \in Seq(RefStep)
               /\ [arch.steps EXCEPT ![i] = [arch.steps[i] EXCEPT !.secrets = @ \cup SecretIds]] \in Seq(RefStep)
    <3>1. [arch.steps[i] EXCEPT !.codeS = @ \cup {2}] \in RefStep
      BY <1>6 DEF RefStep
    <3>2. [arch.steps[i] EXCEPT !.codeA = @ \cup {2}] \in RefStep
      BY <1>6 DEF RefStep
    <3>3. [arch.steps[i] EXCEPT !.agent = ~@] \in RefStep
      BY <1>6, Zenon DEF RefStep
    <3>4. [arch.steps[i] EXCEPT !.secrets = @ \cup SecretIds] \in RefStep
      BY <1>6, <1>7 DEF RefStep
    <3> QED BY <1>1, <3>1, <3>2, <3>3, <3>4, EditsFit
  <2>2. Edits(arch.steps, LAMBDA s : [s EXCEPT !.codeS = @ \cup {2}]) \subseteq Seq(RefStep)
    BY <2>1, Zenon DEF Edits
  <2>3. Edits(arch.steps, LAMBDA s : [s EXCEPT !.codeA = @ \cup {2}]) \subseteq Seq(RefStep)
    BY <2>1, Zenon DEF Edits
  <2>4. Edits(arch.steps, LAMBDA s : [s EXCEPT !.agent = ~@]) \subseteq Seq(RefStep)
    BY <2>1, Zenon DEF Edits
  <2>5. Edits(arch.steps, LAMBDA s : [s EXCEPT !.secrets = @ \cup SecretIds]) \subseteq Seq(RefStep)
    BY <2>1, Zenon DEF Edits
  <2> QED
    BY <1>4, <1>10, <2>2, <2>3, <2>4, <2>5, Zenon
<1>11. CASE x \in {[arch EXCEPT !.agent = NoRef], [arch EXCEPT !.agent = 3]}
  BY <1>5, <1>11
<1> QED
  BY <1>8, <1>9, <1>10, <1>11, Zenon DEF Forged

-----------------------------------------------------------------------------
\* What a file and a landing are at any time: a file is an archive, and one that
\* was not touched is what the plan's export wrote on this machine.
ArchiveInv ==
    /\ store \in Stores /\ auto \in Plans /\ handled \in 0..MaxTampers
    /\ archive = <<>> \/ (archive = <<archive[1]>> /\ ArchiveFits(archive[1]))
    /\ landed = <<>> \/ (landed = <<landed[1]>> /\ AccountedIn(landed[1]) /\ ReferredIn(landed[1]))
    /\ archive = <<>> => landed = <<>>
    /\ (pristine /\ archive # <<>>) =>
         Exportable(auto) /\ \E w \in BOOLEAN : archive[1] = Packed(auto, w)
    /\ (pristine /\ landed # <<>>) => CameBack(landed[1])

LEMMA ArchiveStarts == ASSUME TransferInit PROVE ArchiveInv
  BY TransferAssumption DEF TransferInit, ArchiveInv

\* The same records and plan, the same export.
LEMMA ArchiveFrame ==
  ASSUME store' = store, auto' = auto
  PROVE  /\ \A w : Packed(auto, w)' = Packed(auto, w)
         /\ Exportable(auto)' <=> Exportable(auto)
         /\ \A l : CameBack(l)' <=> CameBack(l)
<1>1. \A w : Packed(auto, w)' = Packed(auto, w)
  BY DEF Packed, Authoring, ReferencedSecrets, ReferencedAgents, AgentsAt
<1>2. Dangles(auto)' <=> Dangles(auto)
  BY DEF Dangles
<1>3. Valid(Packed(auto, TRUE))' <=> Valid(Packed(auto, TRUE))
  BY <1>1, Zenon
<1>4. Exportable(auto)' <=> Exportable(auto)
  BY <1>2, <1>3, Zenon DEF Exportable
<1> QED
  BY <1>1, <1>4 DEF CameBack

LEMMA ArchiveStays == ASSUME ArchiveInv, UNCHANGED transferVars PROVE ArchiveInv'
<1>1. /\ store' = store /\ auto' = auto /\ archive' = archive /\ landed' = landed
      /\ pristine' = pristine /\ handled' = handled
  BY DEF transferVars
<1> QED
  BY <1>1, ArchiveFrame DEF ArchiveInv

LEMMA ArchiveStep == ASSUME ArchiveInv, TransferNext PROVE ArchiveInv'
<1> USE DEF ArchiveInv
<1>1. ASSUME NEW w \in BOOLEAN, Export(w) PROVE ArchiveInv'
  <2>1. /\ archive = <<>> /\ Exportable(auto) /\ archive' = <<Packed(auto, w)>>
        /\ store' = store /\ auto' = auto /\ landed' = landed /\ handled' = handled
    BY <1>1 DEF Export
  <2>2. ArchiveFits(Packed(auto, w))
    BY <2>1, PackedFits
  <2>3. Exportable(auto)' /\ Packed(auto, w)' = Packed(auto, w)
    BY <2>1, ArchiveFrame
  <2> QED
    BY <2>1, <2>2, <2>3
<1>2. ASSUME NEW st \in Stores, Moves(st) PROVE ArchiveInv'
  BY <1>2, TransferAssumption DEF Moves
<1>3. ASSUME Tamper PROVE ArchiveInv'
  <2>1. PICK x \in Forged(archive[1]) : archive' = <<x>>
    BY <1>3 DEF Tamper
  <2>2. ArchiveFits(x)
    BY <1>3, <2>1, ForgedFits DEF Tamper
  <2> QED
    BY <1>3, <2>1, <2>2, TransferAssumption DEF Tamper
<1>4. ASSUME NEW b \in BOOLEAN, Import(b) PROVE ArchiveInv'
  <2> DEFINE l == Landing(Trimmed(archive[1]), b)
  <2>1. /\ archive # <<>> /\ landed = <<>> /\ Valid(archive[1]) /\ landed' = <<l>>
        /\ store' = store /\ auto' = auto /\ archive' = archive
        /\ pristine' = pristine /\ handled' = handled
    BY <1>4 DEF Import
  <2>2. AccountedIn(l) /\ ReferredIn(l)
    BY <2>1, LandingIsWhole
  <2>3. pristine => CameBack(l)
    BY <2>1, LandingComesBack
  <2> HIDE DEF l
  <2> QED
    BY <2>1, <2>2, <2>3, ArchiveFrame
<1> QED
  BY <1>1, <1>2, <1>3, <1>4 DEF TransferNext

TransferPart == part = "transfer" => ArchiveInv

LEMMA TransferInvariance == Spec => []TransferPart
<1>1. Init => TransferPart
  BY ArchiveStarts DEF Init, TransferPart
<1>2. TransferPart /\ [Next]_allVars => TransferPart'
  <2> SUFFICES ASSUME TransferPart, [Next]_allVars, part' = "transfer"
               PROVE  ArchiveInv'
    BY DEF TransferPart
  <2>1. part' = part
    BY DEF Next, Still, allVars
  <2>2. ArchiveInv
    BY <2>1 DEF TransferPart
  <2>3. TransferNext \/ UNCHANGED transferVars
    BY <2>1 DEF Next, allVars
  <2> QED
    BY <2>2, <2>3, ArchiveStep, ArchiveStays
<1> QED
  BY <1>1, <1>2, PTL DEF Spec

LEMMA TransferGives ==
  ASSUME ArchiveInv
  PROVE  TransferTypeOK /\ RoundTrip /\ EveryReferenceIsAccounted /\ GrantsAreReferred
<1> USE DEF ArchiveInv
<1>1. TransferTypeOK
  BY DEF TransferTypeOK
<1>2. RoundTrip
  BY DEF RoundTrip, CameBack
<1>3. EveryReferenceIsAccounted
  BY DEF EveryReferenceIsAccounted, AccountedIn, SecretsIn, AgentsIn, LandedSecrets, LandedAgents
<1>4. GrantsAreReferred
  BY DEF GrantsAreReferred, ReferredIn, SecretsIn, AgentsIn, LandedSecrets, LandedAgents
<1> QED
  BY <1>1, <1>2, <1>3, <1>4

\* However a machine's records and an archive were handled between export and
\* import, what lands refers to nothing that is neither granted nor reported, is
\* granted nothing it does not refer to, and untouched is what was exported
\* (transfer.py:1159-1480).
THEOREM ArchivesAlwaysLandWhole == Spec => []ArchivesLandWhole
<1>1. TransferPart => ArchivesLandWhole
  BY TransferGives DEF TransferPart, ArchivesLandWhole
<1> QED
  BY <1>1, TransferInvariance, PTL

-----------------------------------------------------------------------------
(***************************************************************************)
(* The types of the records, whatever the index writes of a start do.        *)
(***************************************************************************)
StoreRows == Statuses \cup {Unset}
Progress == {Unset, "waiting", "running"}
StoreSteps == {"none", "yaml", "index", "memory", "rename", "row"}

RecordSets ==
    /\ dir \subseteq Recs /\ pgid \subseteq Recs /\ aside \subseteq Recs /\ recent \subseteq Recs
    /\ live \subseteq Recs /\ thread \subseteq Recs /\ stale \subseteq Recs /\ newer \subseteq Recs
    /\ doomed \subseteq Recs /\ stranded \subseteq Recs /\ kept \subseteq Recs /\ gone \subseteq Recs

RecordMaps ==
    /\ yaml \in [Recs -> StoreRows] /\ base \in [Recs -> StoreRows]
    /\ execs \in [Recs -> StoreRows] /\ told \in [Recs -> StoreRows]
    /\ group \in [Recs -> Progress]

RecordLists == wal \in Seq(Recs \X StoreRows) /\ order \in Seq(Recs)

PhaseTyped == phase \in {"down", "reconcile", "repair", "interrupt", "serving"}

ChangeTyped ==
    /\ op \in [kind : Kinds, rec : Recs \cup {0}, to : StoreRows, pg : BOOLEAN, at : StoreSteps]
    /\ op.at # "none" => op.rec \in Recs

CrashesTyped == crashes \in 0..MaxCrashes

RecordTyped == /\ RecordSets /\ RecordMaps /\ RecordLists /\ PhaseTyped /\ ChangeTyped
               /\ CrashesTyped

LEMMA RecordTypedGives == RecordTyped => StoreTypeOK
<1> SUFFICES ASSUME RecordTyped PROVE StoreTypeOK
  OBVIOUS
<1>1. {dir, pgid, aside, recent, live, thread, stale, newer, doomed, stranded, kept, gone} \subseteq SUBSET Recs
  BY Zenon DEF RecordTyped, RecordSets
<1>2. {yaml, base, execs, told} \subseteq [Recs -> Statuses \cup {Unset}] /\ group \in [Recs -> {Unset, "waiting", "running"}]
  BY Zenon DEF RecordTyped, RecordMaps, StoreRows, Progress
<1> QED
  BY <1>1, <1>2, Zenon
     DEF StoreTypeOK, RecordTyped, RecordLists, PhaseTyped, ChangeTyped, CrashesTyped, StoreRows, StoreSteps

LEMMA StatusNames ==
  /\ Unset \in StoreRows /\ Statuses \subseteq StoreRows /\ Live \subseteq StoreRows /\ Ended \subseteq StoreRows
  /\ "queued" \in StoreRows /\ "executing" \in StoreRows /\ "failed" \in StoreRows
  /\ "skipped" \in StoreRows /\ "interrupted" \in StoreRows
  /\ Unset \in Progress /\ "waiting" \in Progress /\ "running" \in Progress
BY DEF StoreRows, Statuses, Live, Ended, Progress

LEMMA IdleTyped ==
  Idle \in [kind : Kinds, rec : Recs \cup {0}, to : StoreRows, pg : BOOLEAN, at : StoreSteps] /\ Idle.at = "none"
BY StatusNames DEF Idle, Kinds, StoreSteps

LEMMA RecordTypedFirst == StoreInit => RecordTyped
<1> SUFFICES ASSUME StoreInit PROVE RecordTyped
  OBVIOUS
<1>1. RecordSets
  BY DEF StoreInit, RecordSets
<1>2. RecordMaps
  BY StatusNames DEF StoreInit, RecordMaps
<1>3. RecordLists
  BY EmptySeq, Zenon DEF StoreInit, RecordLists
<1>4. PhaseTyped
  BY DEF StoreInit, PhaseTyped
<1>5. ChangeTyped
  BY IdleTyped, Zenon DEF StoreInit, ChangeTyped
<1>6. CrashesTyped
  BY RecordsAssumption DEF StoreInit, CrashesTyped
<1> QED
  BY <1>1, <1>2, <1>3, <1>4, <1>5, <1>6 DEF RecordTyped

\* A row of the index is that of a commit, or of the file.
LEMMA RowTyped ==
  ASSUME RecordMaps, RecordLists, NEW r \in Recs
  PROVE  Row(r) \in StoreRows
<1> DEFINE those == {i \in 1..Len(wal) : wal[i][1] = r}
<1>1. Len(wal) \in Nat
  BY LenProperties, Zenon DEF RecordLists
<1>2. CASE those = {}
  BY <1>2, Zenon DEF Row, RowIn, RecordMaps
<1>3. CASE those # {}
  <2>1. \E i \in those : \A j \in those : j =< i
    BY <1>1, <1>3, HasLast, Zenon
  <2>2. (CHOOSE i \in those : \A j \in those : j =< i) \in those
    BY <2>1
  <2>3. Row(r) = wal[CHOOSE i \in those : \A j \in those : j =< i][2]
    BY <1>3 DEF Row, RowIn
  <2>4. \A i \in 1..Len(wal) : wal[i] \in Recs \X StoreRows
    BY ElementOfSeq, Zenon DEF RecordLists
  <2>5. \A i \in those : wal[i][2] \in StoreRows
    BY <2>4
  <2> QED
    BY <2>2, <2>3, <2>5, Zenon
<1> QED
  BY <1>2, <1>3

LEMMA CommitKeepsTypes ==
  ASSUME RecordMaps, RecordLists, NEW r \in Recs, NEW s \in StoreRows, Commit(r, s)
  PROVE  /\ base' \in [Recs -> StoreRows] /\ wal' \in Seq(Recs \X StoreRows)
         /\ recent' = recent \/ recent' = {}
<1> DEFINE commits == Recs \X StoreRows
           commit == <<r, s>>
<1>1. wal \in Seq(commits) /\ commit \in commits
  BY DEF RecordLists
<1>2. [q \in Recs |-> IF q = r THEN s ELSE Row(q)] \in [Recs -> StoreRows]
  BY RowTyped
<1>3. \/ wal' = Append(wal, commit) /\ base' = base /\ recent' = recent
      \/ wal' = <<>> /\ recent' = {} /\ base' = [q \in Recs |-> IF q = r THEN s ELSE Row(q)]
  BY DEF Commit
<1> HIDE DEF commit, commits
<1>4. wal' \in Seq(commits)
  <2>1. Append(wal, commit) \in Seq(commits) /\ <<>> \in Seq(commits)
    BY <1>1
  <2> QED
    BY <1>3, <2>1, Zenon
<1> USE DEF commits
<1> QED
  BY <1>2, <1>3, <1>4, Zenon DEF RecordMaps

-----------------------------------------------------------------------------
\* A commit of a change is of a record and a row.
LEMMA CommitsTyped ==
  ASSUME RecordTyped, NEW r, NEW s, Commit(r, s), r \in Recs, s \in StoreRows
  PROVE  /\ base' \in [Recs -> StoreRows] /\ wal' \in Seq(Recs \X StoreRows) /\ recent' \subseteq Recs
<1>1. recent \subseteq Recs
  BY DEF RecordTyped, RecordSets
<1> QED
  BY <1>1, CommitKeepsTypes, Zenon DEF RecordTyped

LEMMA SetsStep == ASSUME RecordTyped, StoreNext PROVE RecordSets'
<1> USE DEF RecordSets
<1>0. RecordSets /\ (op.at # "none" => op.rec \in Recs)
  BY DEF RecordTyped, ChangeTyped
<1>1. CASE Requests \/ EngineThread
  <2>1. ASSUME NEW r \in Recs, NEW s, Create(r, s) PROVE RecordSets'
    BY <1>0, <2>1 DEF Create
  <2>2. ASSUME NEW r \in Recs, SweepOld(r) PROVE RecordSets'
    BY <1>0, <2>2 DEF SweepOld, disk
  <2>3. ASSUME NEW n \in 1..Len(order), SelectOld(n) PROVE RecordSets'
    <3>1. \A i \in 1..Len(order) : order[i] \in Recs
      BY ElementOfSeq, Zenon DEF RecordTyped, RecordLists
    <3>2. \A i \in 1..n : i \in 1..Len(order)
      BY LenProperties DEF RecordTyped, RecordLists
    <3> QED
      BY <1>0, <2>3, <3>1, <3>2 DEF SelectOld, disk, ghost
  <2>4. ASSUME UNCHANGED <<dir, pgid, aside, recent, live, thread, stale, newer, doomed, stranded, kept, gone>>
        PROVE  RecordSets'
    BY <1>0, <2>4
  <2> QED
    BY <1>1, <2>1, <2>2, <2>3, <2>4, Zenon
       DEF Requests, EngineThread, Promote, Retry, Skip, EndStranded, Delete, Finish, Change, Spawn,
           HandContext, StepEnds, disk, memory, ghost
<1>2. CASE Writes
  <2>1. CASE WriteYaml
    BY <1>0, <2>1 DEF WriteYaml, ghost
  <2>2. CASE Upsert
    <3>1. op.rec \in Recs /\ op.to \in StoreRows
      BY <1>0, <2>2 DEF Upsert, RecordTyped, ChangeTyped
    <3>2. recent' \subseteq Recs
      BY <2>2, <3>1, CommitsTyped DEF Upsert
    <3> QED
      BY <1>0, <2>2, <3>2 DEF Upsert, ghost
  <2>3. CASE Remember
    BY <1>0, <2>3 DEF Remember, disk
  <2>4. CASE RenameAside
    BY <1>0, <2>4 DEF RenameAside
  <2>5. CASE DropRow
    <3>1. op.rec \in Recs
      BY <1>0, <2>5 DEF DropRow
    <3>2. recent' \subseteq Recs
      BY <1>0, <2>5, <3>1, CommitsTyped, StatusNames DEF DropRow
    <3> QED
      BY <1>0, <2>5, <3>2 DEF DropRow, ghost
  <2> QED
    BY <1>2, <2>1, <2>2, <2>3, <2>4, <2>5 DEF Writes
<1>3. CASE WriteFails
  <2>1. op.rec \in Recs
    BY <1>0, <1>3 DEF WriteFails, CanFail
  <2>2. live' \subseteq live /\ thread' \subseteq thread /\ stale' \subseteq stale
    BY <1>3 DEF WriteFails
  <2> QED
    BY <1>0, <1>3, <2>1, <2>2 DEF WriteFails, disk, ghost
<1>4. CASE Restart
  <2>1. CASE Load
    BY <1>0, <2>1 DEF Load, ghost
  <2>2. CASE ReconcileEnds \/ KillOrphans \/ Serve
    BY <1>0, <2>2 DEF ReconcileEnds, KillOrphans, Serve, Derived, disk, ghost
  <2>3. ASSUME NEW r \in Recs, Reconcile(r) PROVE RecordSets'
    <3>1. yaml[r] \in StoreRows
      BY Zenon DEF RecordTyped, RecordMaps
    <3>2. recent' \subseteq Recs
      BY <1>0, <2>3, <3>1, CommitsTyped DEF Reconcile
    <3> QED
      BY <1>0, <2>3, <3>2 DEF Reconcile, ghost
  <2>4. ASSUME NEW r \in Recs, DropGhost(r) PROVE RecordSets'
    <3>1. recent' \subseteq Recs
      BY <1>0, <2>4, CommitsTyped, StatusNames DEF DropGhost
    <3> QED
      BY <1>0, <2>4, <3>1 DEF DropGhost, ghost
  <2>5. ASSUME NEW r \in Recs, RepairRow(r) \/ Interrupt(r) PROVE RecordSets'
    BY <1>0, <2>5 DEF RepairRow, Interrupt, disk, ghost
  <2> QED
    BY <1>4, <2>1, <2>2, <2>3, <2>4, <2>5 DEF Restart
<1>5. CASE Crash \/ PowerLoss
  BY <1>0, <1>5 DEF Crash, PowerLoss, Dies, ghost
<1>6. CASE \E r \in Recs : Reap(r)
  BY <1>0, <1>6 DEF Reap, memory, ghost
<1> QED
  BY <1>1, <1>2, <1>3, <1>4, <1>5, <1>6 DEF StoreNext

LEMMA ListsStep == ASSUME RecordTyped, StoreNext PROVE RecordLists' /\ base' \in [Recs -> StoreRows]
<1>0. RecordLists /\ base \in [Recs -> StoreRows] /\ (op.at # "none" => op.rec \in Recs) /\ op.to \in StoreRows
  BY DEF RecordTyped, ChangeTyped, RecordMaps
<1>1. order' \in Seq(Recs)
  <2>1. ASSUME NEW r \in Recs, Promote(r) PROVE order' \in Seq(Recs)
    <3>1. Len(order) \in Nat /\ \A i \in 1..Len(order) : order[i] \in Recs
      BY <1>0, LenProperties, ElementOfSeq, Zenon DEF RecordLists
    <3>2. order' \in [1..Len(order) -> Recs]
      BY <2>1, <3>1 DEF Promote, Newest
    <3> QED
      BY <3>1, <3>2
  <2>2. ASSUME NEW r \in Recs, NEW s, Create(r, s) PROVE order' \in Seq(Recs)
    BY <1>0, <2>2, AppendProperties, Zenon DEF Create, RecordLists
  <2>3. CASE UNCHANGED order
    BY <1>0, <2>3, Zenon DEF RecordLists
  <2> QED
    BY <2>1, <2>2, <2>3, Zenon
       DEF StoreNext, Requests, EngineThread, Writes, WriteFails, Restart, Retry, Skip, EndStranded, Delete,
           SweepOld, SelectOld, Finish, Change, Spawn, HandContext, StepEnds, WriteYaml, Upsert, Remember,
           RenameAside, DropRow, Load, ReconcileEnds, KillOrphans, Serve, Reconcile, DropGhost, RepairRow,
           Interrupt, Crash, PowerLoss, Dies, Reap, disk
<1>2. wal' \in Seq(Recs \X StoreRows) /\ base' \in [Recs -> StoreRows]
  <2>1. CASE Upsert
    BY <1>0, <2>1, CommitsTyped DEF Upsert
  <2>2. CASE DropRow
    BY <1>0, <2>2, CommitsTyped, StatusNames, Zenon DEF DropRow, RecordLists
  <2>3. ASSUME NEW r \in Recs, Reconcile(r) PROVE wal' \in Seq(Recs \X StoreRows) /\ base' \in [Recs -> StoreRows]
    <3>1. yaml[r] \in StoreRows
      BY Zenon DEF RecordTyped, RecordMaps
    <3> QED
      BY <1>0, <2>3, <3>1, CommitsTyped, Zenon DEF Reconcile, RecordLists
  <2>4. CASE \E r \in Recs : DropGhost(r)
    BY <2>4, CommitsTyped, StatusNames, Zenon DEF DropGhost
  <2>5. CASE Load
    BY <1>0, <2>5, EmptySeq, StatusNames, Zenon DEF Load, RecordLists
  <2>6. CASE PowerLoss
    <3>1. PICK n \in 0..Len(wal) : wal' = SubSeq(wal, 1, n)
      BY <2>6 DEF PowerLoss
    <3> DEFINE commits == Recs \X StoreRows
    <3>2. wal \in Seq(commits)
      BY <1>0 DEF RecordLists
    <3> HIDE DEF commits
    <3>3. SubSeq(wal, 1, n) \in Seq(commits)
      BY <3>1, <3>2
    <3> USE DEF commits
    <3> QED
      BY <1>0, <2>6, <3>1, <3>3, Zenon DEF PowerLoss, Dies
  <2>7. CASE UNCHANGED <<wal, base>>
    BY <1>0, <2>7, Zenon DEF RecordLists
  <2> QED
    BY <2>1, <2>2, <2>3, <2>4, <2>5, <2>6, <2>7, Zenon
       DEF StoreNext, Requests, EngineThread, Writes, WriteFails, Restart, Retry, Skip, EndStranded, Delete,
           SweepOld, SelectOld, Finish, Change, Spawn, HandContext, StepEnds, WriteYaml, Remember,
           RenameAside, ReconcileEnds, KillOrphans, Serve, RepairRow, Promote, Create,
           Interrupt, Crash, Dies, Reap, disk
<1> QED
  BY <1>1, <1>2, Zenon DEF RecordLists

\* A map of the records keeps its type where a record's entry is replaced.
LEMMA MapChanged ==
  ASSUME NEW f, NEW S, f \in [Recs -> S], NEW r, NEW x \in S
  PROVE  [f EXCEPT ![r] = x] \in [Recs -> S]
OBVIOUS

LEMMA MapsStep ==
  ASSUME RecordTyped, StoreNext
  PROVE  /\ yaml' \in [Recs -> StoreRows] /\ execs' \in [Recs -> StoreRows]
         /\ told' \in [Recs -> StoreRows] /\ group' \in [Recs -> Progress]
<1>0. /\ yaml \in [Recs -> StoreRows] /\ execs \in [Recs -> StoreRows]
      /\ told \in [Recs -> StoreRows] /\ group \in [Recs -> Progress]
      /\ op.to \in StoreRows
  BY DEF RecordTyped, RecordMaps, ChangeTyped
<1>1. yaml' \in [Recs -> StoreRows]
  <2>1. CASE WriteYaml
    BY <1>0, <2>1, MapChanged DEF WriteYaml
  <2>2. CASE \E r \in Recs : Reconcile(r) \/ Reap(r)
    BY <1>0, <2>2, MapChanged, StatusNames DEF Reconcile, Reap
  <2>3. CASE UNCHANGED yaml
    BY <1>0, <2>3, Zenon
  <2> QED
    BY <2>1, <2>2, <2>3, Zenon
       DEF StoreNext, Requests, EngineThread, Writes, WriteFails, Restart, Retry, Skip, EndStranded, Delete,
           SweepOld, SelectOld, Finish, Change, Spawn, HandContext, StepEnds, Upsert, Remember,
           RenameAside, DropRow, Load, ReconcileEnds, KillOrphans, Serve, DropGhost, RepairRow,
           Interrupt, Crash, PowerLoss, Dies, Promote, Create, disk
<1>2. execs' \in [Recs -> StoreRows]
  <2>1. CASE \E r \in Recs : Promote(r) \/ EndStranded(r) \/ DropGhost(r)
    BY <1>0, <2>1, MapChanged, StatusNames DEF Promote, EndStranded, DropGhost
  <2>2. CASE Remember
    BY <1>0, <2>2, MapChanged DEF Remember
  <2>3. CASE DropRow
    BY <1>0, <2>3, MapChanged, StatusNames DEF DropRow
  <2>4. ASSUME NEW r \in Recs, Reconcile(r) PROVE execs' \in [Recs -> StoreRows]
    <3>1. yaml[r] \in StoreRows
      BY <1>0
    <3> QED
      BY <1>0, <2>4, <3>1, MapChanged DEF Reconcile
  <2>5. CASE Load
    <3>1. \A r \in Recs : Row(r) \in StoreRows
      BY RowTyped DEF RecordTyped
    <3>2. execs' = [r \in Recs |-> IF wal' = wal /\ base' = base THEN Row(r) ELSE Unset]
      BY <2>5 DEF Load
    <3> QED
      BY <3>1, <3>2, StatusNames, Zenon
  <2>6. CASE WriteFails
    <3>1. op.rec \in Recs
      BY <2>6 DEF WriteFails, CanFail, RecordTyped, ChangeTyped
    <3>2. execs' = execs \/ \E s \in {"skipped", "failed", execs[op.rec]} : execs' = [execs EXCEPT ![op.rec] = s]
      BY <2>6 DEF WriteFails
    <3>3. {"skipped", "failed", execs[op.rec]} \subseteq StoreRows
      BY <1>0, <3>1, StatusNames
    <3> QED
      BY <1>0, <3>2, <3>3, MapChanged
  <2>7. CASE Crash \/ PowerLoss
    BY <2>7, StatusNames DEF Crash, PowerLoss, Dies
  <2>8. CASE UNCHANGED execs
    BY <1>0, <2>8, Zenon
  <2> QED
    BY <2>1, <2>2, <2>3, <2>4, <2>5, <2>6, <2>7, <2>8, Zenon
       DEF StoreNext, Requests, EngineThread, Writes, Restart, Retry, Skip, Delete,
           SweepOld, SelectOld, Finish, Change, Spawn, HandContext, StepEnds, WriteYaml, Upsert,
           RenameAside, ReconcileEnds, KillOrphans, Serve, RepairRow, Interrupt, Create, Reap,
           memory
<1>3. told' \in [Recs -> StoreRows]
  <2>1. CASE \E r : told' = [told EXCEPT ![r] = Unset]
    BY <1>0, <2>1, MapChanged, StatusNames
  <2>2. CASE Remember
    BY <1>0, <2>2, MapChanged DEF Remember
  <2>3. CASE UNCHANGED told
    BY <1>0, <2>3, Zenon
  <2> QED
    BY <2>1, <2>2, <2>3, Zenon
       DEF StoreNext, Requests, EngineThread, Writes, WriteFails, Restart, Retry, Skip, EndStranded, Delete,
           SweepOld, SelectOld, Finish, Change, Spawn, HandContext, StepEnds, WriteYaml, Upsert,
           RenameAside, DropRow, Load, ReconcileEnds, KillOrphans, Serve, Reconcile, DropGhost, RepairRow,
           Interrupt, Crash, PowerLoss, Dies, Reap, Promote, Create, Begin, ghost
<1>4. group' \in [Recs -> Progress]
  <2>1. CASE \E r \in Recs : Spawn(r) \/ HandContext(r) \/ StepEnds(r)
    BY <1>0, <2>1, MapChanged, StatusNames DEF Spawn, HandContext, StepEnds
  <2>2. CASE WriteFails
    <3>1. group' = group \/ group' = [group EXCEPT ![op.rec] = Unset]
      BY <2>2 DEF WriteFails
    <3> QED
      BY <1>0, <3>1, MapChanged, StatusNames
  <2>3. CASE KillOrphans
    BY <1>0, <2>3, StatusNames DEF KillOrphans
  <2>4. CASE Crash
    BY <2>4, StatusNames DEF Crash, Dies
  <2>5. CASE PowerLoss
    BY <2>5, StatusNames DEF PowerLoss, Dies
  <2>6. CASE UNCHANGED group
    BY <1>0, <2>6, Zenon
  <2> QED
    BY <2>1, <2>2, <2>3, <2>4, <2>5, <2>6, Zenon
       DEF StoreNext, Requests, EngineThread, Writes, Restart, Retry, Skip, EndStranded, Delete,
           SweepOld, SelectOld, Finish, Change, WriteYaml, Upsert, Remember,
           RenameAside, DropRow, Load, ReconcileEnds, Serve, Reconcile, DropGhost, RepairRow,
           Interrupt, Reap, Promote, Create
<1> QED
  BY <1>1, <1>2, <1>3, <1>4

\* The change the holder of the lock is making, and how often the process died.
LEMMA ChangeStep == ASSUME RecordTyped, StoreNext PROVE ChangeTyped' /\ PhaseTyped' /\ CrashesTyped'
<1> DEFINE heldChanges == [kind : Kinds, rec : Recs \cup {0}, to : StoreRows, pg : BOOLEAN, at : StoreSteps]
<1>0. op \in heldChanges /\ (op.at # "none" => op.rec \in Recs)
  BY DEF RecordTyped, ChangeTyped
<1>1. op' \in heldChanges /\ (op'.at # "none" => op'.rec \in Recs)
  <2>1. CASE op' = Idle
    BY <2>1, IdleTyped, Zenon
  <2>2. CASE op' = op
    BY <1>0, <2>2, Zenon
  <2>3. ASSUME NEW kind \in Kinds, NEW r \in Recs, NEW to \in StoreRows, NEW pg \in BOOLEAN,
               NEW at \in StoreSteps, op' = [kind |-> kind, rec |-> r, to |-> to, pg |-> pg, at |-> at]
        PROVE  op' \in heldChanges /\ op'.rec \in Recs
    BY <2>3
  <2>4. ASSUME NEW at \in StoreSteps, op' = [op EXCEPT !.at = at], op.at # "none"
        PROVE  op' \in heldChanges /\ op'.rec \in Recs
    BY <1>0, <2>4
  <2>5. ASSUME NEW kind \in Kinds, NEW to \in StoreRows, op.at # "none",
               op' = [op EXCEPT !.kind = kind, !.to = to, !.pg = FALSE, !.at = "yaml"]
        PROVE  op' \in heldChanges /\ op'.rec \in Recs
    BY <1>0, <2>5 DEF StoreSteps
  <2>6. Kinds = {"idle", "create", "promote", "finish", "retry", "skip", "spawn", "adopt", "repair", "delete", "sweep"}
        /\ "yaml" \in StoreSteps /\ "index" \in StoreSteps /\ "memory" \in StoreSteps
        /\ "rename" \in StoreSteps /\ "row" \in StoreSteps
    BY DEF Kinds, StoreSteps
  <2> HIDE DEF heldChanges
  <2>7. CASE Requests \/ EngineThread
    <3>1. \/ op' = op
          \/ \E r \in Recs : \/ \E s \in Live : Begin("create", r, s, FALSE, "yaml")
                             \/ Begin("promote", r, "executing", FALSE, "yaml")
                             \/ Begin("retry", r, "executing", FALSE, "yaml")
                             \/ Begin("skip", r, "skipped", FALSE, "yaml")
                             \/ Begin("delete", r, Unset, FALSE, "rename")
                             \/ Begin("sweep", r, Unset, FALSE, "rename")
                             \/ Begin("spawn", r, "executing", TRUE, "yaml")
                             \/ \E s \in Ended : Begin("finish", r, s, FALSE, "yaml")
      BY <2>7, Zenon
         DEF Requests, EngineThread, Promote, Retry, Skip, EndStranded, Delete, SweepOld, Create, SelectOld,
             Spawn, HandContext, StepEnds, Finish, Change, memory
    <3>2. ASSUME NEW r \in Recs, NEW kind \in Kinds, NEW to \in StoreRows, NEW pg \in BOOLEAN,
                 NEW at \in StoreSteps, Begin(kind, r, to, pg, at)
          PROVE  op' \in heldChanges /\ op'.rec \in Recs
      BY <2>3, <3>2, Zenon DEF Begin
    <3>3. TRUE \in BOOLEAN /\ FALSE \in BOOLEAN
      OBVIOUS
    <3>4. ASSUME NEW r \in Recs, \E s \in Live : Begin("create", r, s, FALSE, "yaml")
          PROVE  op' \in heldChanges /\ op'.rec \in Recs
      BY <2>6, <3>2, <3>3, <3>4, StatusNames
    <3>5. ASSUME NEW r \in Recs, \E s \in Ended : Begin("finish", r, s, FALSE, "yaml")
          PROVE  op' \in heldChanges /\ op'.rec \in Recs
      BY <2>6, <3>2, <3>3, <3>5, StatusNames
    <3>6. ASSUME NEW r \in Recs, \/ Begin("promote", r, "executing", FALSE, "yaml")
                                 \/ Begin("retry", r, "executing", FALSE, "yaml")
                                 \/ Begin("skip", r, "skipped", FALSE, "yaml")
          PROVE  op' \in heldChanges /\ op'.rec \in Recs
      BY <2>6, <3>2, <3>3, <3>6, StatusNames
    <3>7. ASSUME NEW r \in Recs, \/ Begin("delete", r, Unset, FALSE, "rename")
                                 \/ Begin("sweep", r, Unset, FALSE, "rename")
                                 \/ Begin("spawn", r, "executing", TRUE, "yaml")
          PROVE  op' \in heldChanges /\ op'.rec \in Recs
      BY <2>6, <3>2, <3>3, <3>7, StatusNames
    <3> QED
      BY <2>2, <3>1, <3>4, <3>5, <3>6, <3>7, Zenon
  <2>8. CASE Writes
    <3>1. \/ op' = Idle
          \/ /\ op.at # "none"
             /\ \E at \in {"index", "memory", "row"} : op' = [op EXCEPT !.at = at]
      BY <2>8 DEF Writes, WriteYaml, Upsert, Remember, RenameAside, DropRow
    <3> QED
      BY <2>1, <2>4, <2>6, <3>1
  <2>9. CASE WriteFails
    <3>1. \/ op' = Idle
          \/ /\ op.at # "none"
             /\ \/ op' = [op EXCEPT !.kind = "skip", !.to = "skipped", !.pg = FALSE, !.at = "yaml"]
                \/ op' = [op EXCEPT !.kind = "finish", !.to = "failed", !.pg = FALSE, !.at = "yaml"]
      BY <2>9 DEF WriteFails, CanFail
    <3> QED
      BY <2>1, <2>5, <2>6, <3>1, StatusNames
  <2>10. CASE Restart
    <3>1. \/ op' = op
          \/ \E r \in Recs :
                \/ op' = [kind |-> "adopt", rec |-> r, pg |-> FALSE, at |-> "yaml",
                          to |-> IF yaml[r] = "queued" THEN "skipped" ELSE yaml[r]]
                \/ op' = [kind |-> "repair", rec |-> r, pg |-> FALSE, at |-> "yaml", to |-> "interrupted"]
      BY <2>10, Zenon
         DEF Restart, Load, ReconcileEnds, KillOrphans, Serve, Reconcile, DropGhost, RepairRow, Interrupt, FullStatus
    <3>2. \A r \in Recs : (IF yaml[r] = "queued" THEN "skipped" ELSE yaml[r]) \in StoreRows
      BY StatusNames DEF RecordTyped, RecordMaps
    <3> QED
      BY <2>2, <2>3, <2>6, <3>1, <3>2, StatusNames
  <2>11. CASE Crash \/ PowerLoss \/ \E r \in Recs : Reap(r)
    BY <2>1, <2>2, <2>11, Zenon DEF Crash, PowerLoss, Dies, Reap, memory
  <2> QED
    BY <2>7, <2>8, <2>9, <2>10, <2>11 DEF StoreNext
<1>2. PhaseTyped'
  <2>1. PhaseTyped
    BY DEF RecordTyped
  <2>2. phase' = phase \/ phase' \in {"down", "reconcile", "repair", "interrupt", "serving"}
    BY Zenon
       DEF StoreNext, Requests, EngineThread, Writes, WriteFails, Restart, Retry, Skip, EndStranded, Delete,
           SweepOld, SelectOld, Finish, Change, Spawn, HandContext, StepEnds, WriteYaml, Upsert, Remember,
           RenameAside, DropRow, Load, ReconcileEnds, KillOrphans, Serve, Reconcile, DropGhost, RepairRow,
           Interrupt, Crash, PowerLoss, Dies, Reap, Promote, Create, memory
  <2> QED
    BY <2>1, <2>2, Zenon DEF PhaseTyped
<1>3. CrashesTyped'
  <2>1. crashes \in 0..MaxCrashes
    BY DEF RecordTyped, CrashesTyped
  <2>2. crashes' = crashes \/ (crashes < MaxCrashes /\ crashes' = crashes + 1)
    BY Zenon
       DEF StoreNext, Requests, EngineThread, Writes, WriteFails, Restart, Retry, Skip, EndStranded, Delete,
           SweepOld, SelectOld, Finish, Change, Spawn, HandContext, StepEnds, WriteYaml, Upsert, Remember,
           RenameAside, DropRow, Load, ReconcileEnds, KillOrphans, Serve, Reconcile, DropGhost, RepairRow,
           Interrupt, Crash, PowerLoss, Dies, Reap, Promote, Create
  <2> QED
    BY <2>1, <2>2, RecordsAssumption DEF CrashesTyped
<1> QED
  BY <1>1, <1>2, <1>3, Zenon DEF ChangeTyped

LEMMA RecordTypedStep == ASSUME RecordTyped, StoreNext PROVE RecordTyped'
  BY SetsStep, ListsStep, MapsStep, ChangeStep, Zenon DEF RecordTyped, RecordMaps

-----------------------------------------------------------------------------
(***************************************************************************)
(* The types of memory and its snapshots, whatever runs beside them: what a *)
(* restore stages is the content of a snapshot there is, and what is placed *)
(* was made by an operation that keeps one.                                 *)
(***************************************************************************)
PlacesTyped ==
    /\ mem \in MemoryContents /\ tmp \in MemoryContents
    /\ old \in MemoryContents /\ twin \in MemoryContents
    /\ written \in 1..MaxContent

FlagsTyped == up \in BOOLEAN /\ reg \in BOOLEAN /\ owed \in BOOLEAN

RunsTyped == runs \in [1..MaxParallel -> {"none", "pre", "work"}]

SnapshotsTyped ==
    /\ made \in Nat
    /\ \A s \in snaps : s.id \in 1..made /\ s.reason \in Reasons /\ s.content \in MemoryContents

TaskTyped ==
    /\ DOMAIN task = DOMAIN NoTask
    /\ task.staged \in MemoryContents
    /\ task.kind = "none" <=> task.at = "none"
    /\ task.kind \in MemoryKinds
    /\ task.at \in {"clear", "place"} => task.kind \in Reasons
    /\ task.at \in {"image", "imaging"} => task.kind = "pre-restore"
    /\ task.kind = "pre-restore" /\ task.at \in {"stage", "copying", "image", "imaging"} /\ reg =>
         \E s \in snaps : s.id = task.sid

MemoryTyped == PlacesTyped /\ FlagsTyped /\ RunsTyped /\ SnapshotsTyped /\ TaskTyped

LEMMA MemoryTypedGives == MemoryTyped => SnapTypeOK
  BY DEF MemoryTyped, PlacesTyped, FlagsTyped, RunsTyped, SnapshotsTyped, TaskTyped, SnapTypeOK

LEMMA MemoryTypedFirst == SnapInit => MemoryTyped
<1> SUFFICES ASSUME SnapInit PROVE MemoryTyped
  OBVIOUS
<1>1. PlacesTyped
  BY MemoryAssumption DEF SnapInit, PlacesTyped, MemoryContents, Torn, Absent, Empty
<1>2. FlagsTyped /\ RunsTyped /\ SnapshotsTyped
  BY DEF SnapInit, FlagsTyped, RunsTyped, SnapshotsTyped
<1>3. TaskTyped
  BY MemoryAssumption DEF SnapInit, TaskTyped, NoTask, MemoryKinds, MemoryContents, Torn, Absent
<1> QED
  BY <1>1, <1>2, <1>3 DEF MemoryTyped

LEMMA NoTaskTyped == NoTask.kind = "none" /\ NoTask.at = "none" /\ NoTask.staged = Absent
  BY DEF NoTask

LEMMA ContentNames == Absent \in MemoryContents /\ Empty \in MemoryContents /\ Torn \in MemoryContents
                      /\ 1..MaxContent \subseteq MemoryContents
  BY MemoryAssumption DEF MemoryContents, Torn, Absent, Empty

LEMMA PlacesStep == ASSUME MemoryTyped, SnapNext PROVE PlacesTyped'
<1> USE ContentNames DEF MemoryTyped, PlacesTyped, TaskTyped
<1>1. RecoveredMemory \in MemoryContents
  BY DEF RecoveredMemory
<1>2. ASSUME NEW r, RunStarts(r) \/ RunEnds(r) \/ RunStopsEarly(r) \/ BeginVersion(r) PROVE PlacesTyped'
  BY <1>2 DEF RunStarts, RunEnds, RunStopsEarly, BeginVersion, memoryDisk
<1>3. ASSUME NEW r, RunWrites(r) PROVE PlacesTyped'
  <2>1. written' \in 1..MaxContent
    BY <1>3, MemoryAssumption DEF RunWrites
  <2> QED
    BY <1>3, <2>1 DEF RunWrites
<1>4. CASE Operations
  <2>1. CASE ImageEnds
    <3>1. CASE reg
      <4>1. PICK s \in snaps : s.id = task.sid
        BY <2>1, <3>1 DEF ImageEnds, At
      <4>2. Snapshot(task.sid) \in snaps
        BY <4>1 DEF Snapshot
      <4>3. tmp' \in MemoryContents
        BY <2>1, <3>1, <4>2 DEF ImageEnds, SnapshotsTyped
      <4> QED
        BY <2>1, <4>3 DEF ImageEnds
    <3> QED
      BY <2>1, <3>1 DEF ImageEnds
  <2>2. CASE \E s \in snaps : BeginRestore(s)
    BY <1>1, <2>2 DEF BeginRestore
  <2>3. CASE ImageBegins
    BY <2>3 DEF ImageBegins
  <2> QED
    BY <1>4, <2>1, <2>2, <2>3
       DEF Operations, BeginTask, NameSnapshot, DropSnapshot, StageBegins, StageEnds, memoryDisk
<1>5. CASE CommitTask
  <2>1. CASE CommitBegins
    BY <2>1 DEF CommitBegins
  <2>2. CASE ClearMemory \/ MoveAside \/ MoveIn \/ SweepMoved
    BY <2>2 DEF ClearMemory, MoveAside, MoveIn, SweepMoved
  <2> QED
    BY <1>5, <2>1, <2>2 DEF CommitTask, PlaceSnapshot, WriteMeta, Prune
<1>6. CASE NewVersion \/ DeleteAutomation \/ Die \/ MemoryLoads
  BY <1>1, <1>6 DEF NewVersion, DeleteAutomation, Die, MemoryLoads, memoryDisk
<1> QED
  BY <1>2, <1>3, <1>4, <1>5, <1>6 DEF SnapNext, Executions

LEMMA FlagsStep == ASSUME MemoryTyped, SnapNext PROVE FlagsTyped' /\ RunsTyped'
<1> USE DEF MemoryTyped, FlagsTyped, RunsTyped
<1>1. up' \in BOOLEAN /\ reg' \in BOOLEAN /\ owed' \in BOOLEAN
  BY Zenon DEF SnapNext, Executions, Operations, CommitTask, RunStarts, RunWrites, RunEnds, RunStopsEarly,
         BeginVersion, BeginTask, BeginRestore, StageBegins, StageEnds, ImageBegins, ImageEnds,
         CommitBegins, ClearMemory, MoveAside, MoveIn, SweepMoved, NewVersion, Die, MemoryLoads,
         PlaceSnapshot, WriteMeta, Prune, NameSnapshot, DropSnapshot, DeleteAutomation
<1>2. \/ runs' = runs \/ runs' = [r \in DOMAIN runs |-> "none"]
      \/ \E r, x : x \in {"none", "pre", "work"} /\ runs' = [runs EXCEPT ![r] = x]
  <2>1. CASE \E r \in DOMAIN runs : RunStarts(r)
    BY <2>1 DEF RunStarts
  <2>2. CASE \E r \in DOMAIN runs : RunEnds(r) \/ RunStopsEarly(r)
    BY <2>2 DEF RunEnds, RunStopsEarly
  <2>3. CASE StageBegins \/ CommitBegins \/ Prune
    BY <2>3 DEF StageBegins, CommitBegins, Prune, Ends
  <2> QED
    BY <2>1, <2>2, <2>3, Zenon
       DEF SnapNext, Executions, Operations, CommitTask, RunWrites,
         BeginVersion, BeginTask, BeginRestore, StageEnds, ImageBegins, ImageEnds,
         ClearMemory, MoveAside, MoveIn, SweepMoved, NewVersion, Die, MemoryLoads,
         PlaceSnapshot, WriteMeta, NameSnapshot, DropSnapshot, DeleteAutomation
<1> QED
  BY <1>1, <1>2

LEMMA SnapshotsStep ==
  ASSUME MemoryTyped, \A s \in snaps : IsSnapshot(s), SnapNext
  PROVE  SnapshotsTyped'
<1> USE DEF MemoryTyped, SnapshotsTyped
<1>1. CASE snaps' \subseteq snaps /\ made' = made
  BY <1>1
<1>2. ASSUME NEW s \in snaps, NameSnapshot(s) PROVE SnapshotsTyped'
  <2> DEFINE t == [s EXCEPT !.named = ~s.named]
  <2>1. t.id = s.id /\ t.reason = s.reason /\ t.content = s.content
    BY Zenon DEF IsSnapshot
  <2> HIDE DEF t
  <2>2. snaps' = (snaps \ {s}) \cup {t} /\ made' = made
    BY <1>2 DEF NameSnapshot, t
  <2> QED
    BY <2>1, <2>2
<1>3. CASE PlaceSnapshot
  <2> DEFINE new == [id |-> made', reason |-> task.kind, named |-> FALSE,
                     content |-> task.staged, meta |-> FALSE]
  <2>1. snaps' = Listed \cup {new} /\ made' = made + 1
    BY <1>3 DEF PlaceSnapshot
  <2>2. new.id = made + 1 /\ new.reason \in Reasons /\ new.content \in MemoryContents
    BY <1>3, <2>1 DEF PlaceSnapshot, At, TaskTyped
  <2> HIDE DEF new
  <2> QED
    BY <2>1, <2>2 DEF Listed
<1>4. CASE WriteMeta
  <2>1. PICK n \in BOOLEAN :
          snaps' = {IF s.id = made THEN [s EXCEPT !.meta = TRUE, !.named = n] ELSE s : s \in snaps}
    BY <1>4, Zenon DEF WriteMeta
  <2>2. ASSUME NEW s \in snaps
        PROVE  LET t == [s EXCEPT !.meta = TRUE, !.named = n]
               IN t.id = s.id /\ t.reason = s.reason /\ t.content = s.content
    BY Zenon DEF IsSnapshot
  <2>3. made' = made
    BY <1>4 DEF WriteMeta
  <2> QED
    BY <2>1, <2>2, <2>3
<1>5. CASE Prune \/ DeleteAutomation \/ \E s \in snaps : DropSnapshot(s)
  BY <1>1, <1>5 DEF Prune, DeleteAutomation, DropSnapshot
<1> QED
  BY <1>1, <1>2, <1>3, <1>4, <1>5, Zenon
     DEF SnapNext, Executions, Operations, CommitTask, RunStarts, RunWrites, RunEnds, RunStopsEarly,
         BeginVersion, BeginTask, BeginRestore, StageBegins, StageEnds, ImageBegins, ImageEnds,
         CommitBegins, ClearMemory, MoveAside, MoveIn, SweepMoved, NewVersion, Die, MemoryLoads,
         memoryDisk

LEMMA TaskStep == ASSUME MemoryTyped, SnapNext PROVE TaskTyped'
<1> USE ContentNames DEF MemoryTyped, TaskTyped
<1>1. ASSUME task' = task, snaps' = snaps, reg' => reg PROVE TaskTyped'
  BY <1>1
<1>2. ASSUME task' = NoTask PROVE TaskTyped'
  BY <1>2, NoTaskTyped DEF MemoryKinds
<1>3. ASSUME NEW at, task' = [task EXCEPT !.at = at], at # "none", task.kind # "none",
             at \in {"clear", "place"} => task.kind \in Reasons,
             at \in {"image", "imaging"} => task.kind = "pre-restore",
             at \in {"copying", "image", "imaging"} => task.at \in {"stage", "copying", "image", "imaging"},
             at # "stage", snaps' = snaps \/ at \notin {"copying", "image", "imaging"}, reg' = reg
      PROVE  TaskTyped'
  <2>1. /\ DOMAIN task' = DOMAIN NoTask /\ task'.kind = task.kind /\ task'.at = at
        /\ task'.staged = task.staged /\ task'.sid = task.sid
    BY <1>3, Zenon DEF NoTask
  <2> QED
    BY <1>3, <2>1
<1>4. CASE Ends /\ snaps' = snaps
  BY <1>2, <1>4 DEF Ends
<1>5. ASSUME NEW r, RunStarts(r) PROVE TaskTyped'
  <2>1. task' = [task EXCEPT !.moved = (task.kind # "none")] /\ snaps' = snaps /\ reg' = reg
    BY <1>5 DEF RunStarts
  <2>2. /\ DOMAIN task' = DOMAIN NoTask /\ task'.kind = task.kind /\ task'.at = task.at
        /\ task'.staged = task.staged /\ task'.sid = task.sid
    BY <2>1, Zenon DEF NoTask
  <2> QED
    BY <2>1, <2>2
<1>6. ASSUME NEW r, RunWrites(r) PROVE TaskTyped'
  <2>1. task' = [task EXCEPT !.staged = Torn] \/ task' = task
    BY <1>6 DEF RunWrites
  <2>2. snaps' = snaps /\ reg' = reg
    BY <1>6 DEF RunWrites
  <2>3. CASE task' = [task EXCEPT !.staged = Torn]
    <3>1. /\ DOMAIN task' = DOMAIN NoTask /\ task'.kind = task.kind /\ task'.at = task.at
          /\ task'.staged = Torn /\ task'.sid = task.sid
      BY <2>3, Zenon DEF NoTask
    <3> QED
      BY <2>2, <3>1
  <2> QED
    BY <1>1, <2>1, <2>2, <2>3
<1>7. ASSUME NEW kind \in MemoryKinds \ {"none"}, NEW sid, Takes(kind, sid, "stage"), snaps' = snaps,
             kind = "pre-restore" => \E s \in snaps : s.id = sid
      PROVE  TaskTyped'
  <2>1. /\ DOMAIN task' = DOMAIN NoTask /\ task'.kind = kind /\ task'.at = "stage"
        /\ task'.staged = Absent /\ task'.sid = sid
    BY <1>7 DEF Takes, NoTask
  <2> QED
    BY <1>7, <2>1
<1>8. CASE Operations
  <2>1. CASE \E kind \in Reasons \cup {"duplicate"} : BeginTask(kind)
    BY <1>7, <2>1 DEF BeginTask, memoryDisk, MemoryKinds, Reasons
  <2>2. CASE \E s \in snaps : BeginRestore(s)
    BY <1>7, <2>2 DEF BeginRestore, Listed, MemoryKinds, Reasons
  <2>3. CASE \E s \in snaps : NameSnapshot(s) \/ DropSnapshot(s)
    BY <2>3 DEF NameSnapshot, DropSnapshot
  <2>4. CASE StageBegins
    <3>1. task.at = "stage" /\ task.kind # "none" /\ snaps' = snaps /\ reg' = reg
      BY <2>4 DEF StageBegins, At, memoryDisk
    <3>2. AfterStage \in {"image", "commit"} /\ (AfterStage = "image" => task.kind = "pre-restore")
      BY DEF AfterStage
    <3>3. \/ Ends \/ task' = [task EXCEPT !.at = AfterStage]
          \/ task' = [task EXCEPT !.at = "copying", !.staged = mem]
      BY <2>4 DEF StageBegins
    <3>4. CASE task' = [task EXCEPT !.at = "copying", !.staged = mem]
      <4>1. /\ DOMAIN task' = DOMAIN NoTask /\ task'.kind = task.kind /\ task'.at = "copying"
            /\ task'.staged = mem /\ task'.sid = task.sid
        BY <3>4, Zenon DEF NoTask
      <4> QED
        BY <3>1, <4>1 DEF PlacesTyped
    <3> QED
      BY <1>3, <1>4, <3>1, <3>2, <3>3, <3>4
  <2>5. CASE StageEnds
    <3>1. AfterStage \in {"image", "commit"} /\ (AfterStage = "image" => task.kind = "pre-restore")
      BY DEF AfterStage
    <3> QED
      BY <1>3, <2>5, <3>1 DEF StageEnds, At, Go, memoryDisk
  <2>6. CASE ImageBegins \/ ImageEnds
    BY <1>2, <1>3, <2>6 DEF ImageBegins, ImageEnds, At, Go
  <2> QED
    BY <1>8, <2>1, <2>2, <2>3, <2>4, <2>5, <2>6 DEF Operations
<1>9. CASE CommitTask
  <2>1. CASE CommitBegins
    <3>1. task.at = "commit" /\ task.kind # "none" /\ snaps' = snaps /\ reg' = reg
      BY <2>1 DEF CommitBegins, At
    <3>2. task.kind \in Reasons => FirstOf \in {"clear", "place", "aside"}
      BY DEF FirstOf, Reasons
    <3>3. Ends \/ task' = NoTask \/ (task.kind # "duplicate" /\ Go(FirstOf))
      BY <2>1 DEF CommitBegins
    <3>4. CASE task.kind # "duplicate" /\ Go(FirstOf)
      <4>1. task.kind \in Reasons
        BY <3>1, <3>4 DEF MemoryKinds
      <4> QED
        BY <1>3, <3>1, <3>2, <3>4, <4>1 DEF Go
    <3> QED
      BY <1>2, <1>4, <3>1, <3>3, <3>4
  <2>2. CASE ClearMemory
    BY <1>2, <1>3, <2>2 DEF ClearMemory, At, Go
  <2>3. CASE PlaceSnapshot \/ WriteMeta \/ MoveAside \/ MoveIn
    BY <1>3, <2>3 DEF PlaceSnapshot, WriteMeta, MoveAside, MoveIn, At, Go
  <2>4. CASE Prune
    BY <1>2, <1>3, <2>4 DEF Prune, Ends, At, Go
  <2>5. CASE SweepMoved
    BY <1>2, <2>5 DEF SweepMoved
  <2> QED
    BY <1>9, <2>1, <2>2, <2>3, <2>4, <2>5 DEF CommitTask
<1>10. CASE NewVersion \/ Die \/ MemoryLoads
  BY <1>1, <1>2, <1>10 DEF NewVersion, Die, MemoryLoads, memoryDisk
<1>11. CASE DeleteAutomation
  BY <1>11 DEF DeleteAutomation
<1>12. ASSUME NEW r \in DOMAIN runs, RunEnds(r) \/ RunStopsEarly(r) PROVE TaskTyped'
  BY <1>1, <1>12 DEF RunEnds, RunStopsEarly, memoryDisk
<1>13. ASSUME NEW r \in DOMAIN runs, BeginVersion(r) PROVE TaskTyped'
  BY <1>7, <1>13 DEF BeginVersion, memoryDisk, MemoryKinds, Reasons
<1> QED
  BY <1>5, <1>6, <1>8, <1>9, <1>10, <1>11, <1>12, <1>13 DEF SnapNext, Executions

-----------------------------------------------------------------------------
(***************************************************************************)
(* The types of the versions and of the draft's swap.                       *)
(***************************************************************************)
VersionsTyped == /\ asideVersion \subseteq Contents \cup {NoVersion}
                 /\ upsets \in 0..MaxUpsets /\ hands \in 0..MaxHands

LEMMA VersionsTypedGives == VersionsInv /\ VersionsTyped => VersionsTypeOK
  BY DEF VersionsInv, VersionTypes, VersionsTyped, VersionsTypeOK, VersionWrites, WriteSteps

LEMMA VersionsTypedFirst == VersionsInit => VersionsTyped
  BY VersionsAssumption DEF VersionsInit, VersionsTyped

LEMMA VersionsTypedStep == ASSUME VersionsInv, VersionsTyped, VersionsNext PROVE VersionsTyped'
<1>1. asideVersion' \subseteq Contents \cup {NoVersion}
  <2>1. CASE asideVersion' = asideVersion
    BY <2>1 DEF VersionsTyped, Contents
  <2>2. CASE SetAside
    <3>1. \A n \in Numbers : folder[n].content \in Contents \cup {NoVersion}
      BY DEF VersionsInv, VersionTypes, VersionFolders
    <3> QED
      BY <2>2, <3>1 DEF SetAside, Orphans, VersionsTyped, Contents
  <2> QED
    BY <2>1, <2>2, Zenon
       DEF VersionsNext, SaveBegins, SetAsideFails, FilesLand, ManifestLands, PointerFlips, FileFails,
           RestoreBegins, RestoreRefused, Duplicate, DuplicateRefused, HandEdit, HandBreaks, HandMends,
           VersionsCrash, VersionsLoad
<1>2. upsets' = upsets \/ Upset
  BY Zenon
     DEF VersionsNext, SaveBegins, SetAsideFails, FilesLand, ManifestLands, PointerFlips, FileFails,
         RestoreBegins, RestoreRefused, Duplicate, DuplicateRefused, HandEdit, HandBreaks, HandMends,
         VersionsCrash, VersionsLoad
<1>3. hands' = hands \/ (hands < MaxHands /\ hands' = hands + 1)
  BY Zenon
     DEF VersionsNext, SaveBegins, SetAsideFails, FilesLand, ManifestLands, PointerFlips, FileFails,
         RestoreBegins, RestoreRefused, Duplicate, DuplicateRefused, HandEdit, HandBreaks, HandMends,
         VersionsCrash, VersionsLoad
<1> QED
  BY <1>1, <1>2, <1>3, VersionsAssumption DEF VersionsTyped, Upset, Contents

SwapTyped ==
    /\ dd \in Copies /\ asideCopy \in Copies /\ staged \in Copies
    /\ draft \in Copies /\ answered \in Copies /\ doubtful \subseteq Copies
    /\ saved \in 0..MaxSaves /\ swapUpsets \in 0..MaxSwapUpsets

LEMMA SwapTypedGives == SwapInv /\ SwapTyped => SwapTypeOK
  BY DEF SwapInv, SwapTyped, SwapTypeOK

LEMMA SwapTypedFirst == SwapInit => SwapTyped
  BY SwapAssumption DEF SwapInit, SwapTyped, Copies

LEMMA SwapTypedStep == ASSUME SwapInv, SwapTyped, SwapNext PROVE SwapTyped'
<1> USE DEF SwapTyped
<1>1. Gone \in Copies /\ Part \in Copies /\ RecoveredDraft \in Copies
  BY DEF Copies, RecoveredDraft
<1>2. saved # Gone => saved \in Copies
  BY DEF Copies, Gone
<1>3. swap # "none" /\ swap # "empty" => saved \in Copies
  BY <1>2 DEF SwapInv
<1>4. CASE SaveDraft
  <2>1. saved' \in 0..MaxSaves /\ saved' \in Copies
    BY <1>4, SwapAssumption DEF SaveDraft, Copies
  <2> QED
    BY <1>1, <1>4, <2>1 DEF SaveDraft, Recover
<1>5. CASE WriteNew \/ WholeNew \/ SetOldAside \/ MoveNewIn
  BY <1>1, <1>3, <1>5 DEF WriteNew, WholeNew, SetOldAside, MoveNewIn
<1>6. CASE ReapOld
  BY <1>1, <1>3, <1>6 DEF ReapOld
<1>7. CASE DeleteContainer \/ DeleteStarts \/ DeleteChild \/ DeleteEnds \/ ReadPending
  BY <1>1, <1>7 DEF DeleteContainer, DeleteStarts, DeleteChild, DeleteEnds, ReadPending, Recover
<1>8. CASE SwapFails \/ SwapCrash
  <2>1. swapUpsets' \in 0..MaxSwapUpsets
    BY <1>8, SwapAssumption DEF SwapFails, SwapCrash
  <2> QED
    BY <1>1, <1>8, <2>1 DEF SwapFails, SwapCrash, Recover
<1> QED
  BY <1>4, <1>5, <1>6, <1>7, <1>8 DEF SwapNext

-----------------------------------------------------------------------------
(***************************************************************************)
(* The types of the catalogs.                                               *)
(***************************************************************************)
Locations == Places \cup {Own, "nowhere"}
Ages == {"never", "today", "old"}
LineTyped(r) == DOMAIN r = RowFields /\ r.loc \in Locations /\ r.fresh \in Ages
TableTyped(t) == DOMAIN t = Rows /\ \A i \in Rows : LineTyped(t[i])
CopiesTyped(c) == DOMAIN c = Rows /\ \A i \in Rows : c[i].src \in Locations

MarketTyped == TableTyped(rows) /\ TableTyped(table) /\ CopiesTyped(copy)

LEMMA MarketTypedGives == MarketTyped => MarketTypeOK
  BY DEF MarketTyped, MarketTypeOK, TableTyped, LineTyped, CopiesTyped, Locations, Ages

LEMMA NoRowTyped == LineTyped(NoRow) /\ Nothing.src \in Locations
  BY DEF LineTyped, NoRow, Nothing, Locations, Ages, RowFields

LEMMA MarketTypedFirst == MarketInit => MarketTyped
  BY NoRowTyped, Zenon DEF MarketInit, MarketTyped, TableTyped, CopiesTyped

\* What changes a row makes a row of it.
LEMMA LineEdited ==
  ASSUME NEW r, LineTyped(r)
  PROVE  /\ \A l \in Locations : LineTyped([r EXCEPT !.loc = l])
         /\ \A f \in Ages : LineTyped([r EXCEPT !.fresh = f])
         /\ \A b : LineTyped([r EXCEPT !.auto = b]) /\ LineTyped([r EXCEPT !.builtin = b])
  BY Zenon DEF LineTyped, RowFields

LEMMA LineReplaced ==
  ASSUME NEW t, TableTyped(t), NEW i, NEW r, i \in Rows => LineTyped(r)
  PROVE  TableTyped([t EXCEPT ![i] = r])
  BY Zenon DEF TableTyped

LEMMA CopyReplaced ==
  ASSUME NEW c, CopiesTyped(c), NEW i, NEW x, i \in Rows => x.src \in Locations
  PROVE  CopiesTyped([c EXCEPT ![i] = x])
  BY Zenon DEF CopiesTyped

\* A write of the table, done or failed.
LEMMA SavesTyped ==
  ASSUME TableTyped(rows), TableTyped(table), NEW t, TableTyped(t), Saves(t) \/ SaveFails(t)
  PROVE  TableTyped(rows') /\ TableTyped(table')
  BY DEF Saves, SaveFails, Undone, TableTyped, LineTyped

\* A table a load may seed.
LEMMA SeededTyped == ASSUME TableTyped(table), NEW t \in Seeded(table) PROVE TableTyped(t)
<1>1. Hub \in Locations /\ NoRow.loc \in Locations
  BY NoRowTyped DEF Locations, Places, LineTyped
<1>2. LineTyped([NoRow EXCEPT !.loc = Hub, !.auto = TRUE, !.builtin = TRUE])
  BY <1>1, Zenon DEF LineTyped, NoRow, RowFields, Ages
<1>3. \A k : TableTyped([table EXCEPT ![k] = [NoRow EXCEPT !.loc = Hub, !.auto = TRUE, !.builtin = TRUE]])
  BY <1>2, LineReplaced, Zenon
<1>4. TableTyped([i \in Rows |-> IF table[i].loc = Hub THEN [table[i] EXCEPT !.builtin = TRUE] ELSE table[i]])
  <2>1. \A i \in Rows : LineTyped(table[i]) /\ LineTyped([table[i] EXCEPT !.builtin = TRUE])
    BY LineEdited, Zenon DEF TableTyped
  <2> QED
    BY <2>1, Zenon DEF TableTyped
<1>5. \/ t = table
      \/ t = [i \in Rows |-> IF table[i].loc = Hub THEN [table[i] EXCEPT !.builtin = TRUE] ELSE table[i]]
      \/ \E k \in Rows : t = [table EXCEPT ![k] = [NoRow EXCEPT !.loc = Hub, !.auto = TRUE, !.builtin = TRUE]]
  BY Zenon DEF Seeded
<1> QED
  BY <1>3, <1>4, <1>5, Zenon

LEMMA WorkersTyped ==
  ASSUME MarketInv, MarketTyped, NEW w \in Workers,
         \/ \E i \in Rows : AddCommits(w, i) \/ CreateCommits(w, i) \/ RemoveEntry(w, i)
         \/ ClearEnds(w) \/ RefreshCommits(w) \/ SaveCommits(w)
  PROVE  MarketTyped'
<1> USE DEF MarketTyped
<1>0. WorkOf(job[w])
  BY DEF MarketInv, WorkFits
<1>1. ASSUME NEW i \in Rows, AddCommits(w, i) PROVE MarketTyped'
  <2>1. job[w].loc \in Locations
    BY <1>0, <1>1 DEF AddCommits, WorkOf, Locations
  <2>2. \A g \in job[w].got : g[3].src \in Locations
    BY <1>0, <1>1, <2>1 DEF AddCommits, WorkOf, IsRead
  <2>3. TableTyped([rows EXCEPT ![i] = [NoRow EXCEPT !.loc = job[w].loc, !.fresh = "today"]])
    <3>1. LineTyped([NoRow EXCEPT !.loc = job[w].loc, !.fresh = "today"])
      BY <2>1, Zenon DEF LineTyped, NoRow, RowFields, Ages
    <3> QED
      BY <3>1, LineReplaced, Zenon
  <2>4. CASE UNCHANGED <<rows, table, copy>>
    BY <2>4 DEF TableTyped, LineTyped, CopiesTyped
  <2>5. CASE \E g \in job[w].got : copy' = [copy EXCEPT ![i] = g[3]]
    <3>1. CopiesTyped(copy')
      <4>1. PICK g \in job[w].got : copy' = [copy EXCEPT ![i] = g[3]]
        BY <2>5, Zenon
      <4> QED
        BY <2>2, <4>1, CopyReplaced, Zenon
    <3>2. UNCHANGED <<rows, table, copy>>
          \/ Saves([rows EXCEPT ![i] = [NoRow EXCEPT !.loc = job[w].loc, !.fresh = "today"]])
          \/ SaveFails([rows EXCEPT ![i] = [NoRow EXCEPT !.loc = job[w].loc, !.fresh = "today"]])
      BY <1>1, Zenon DEF AddCommits
    <3> QED
      BY <2>3, <2>4, <3>1, <3>2, SavesTyped DEF TableTyped, LineTyped, CopiesTyped
  <2> QED
    BY <1>1, <2>4, <2>5, Zenon DEF AddCommits
<1>2. ASSUME NEW i \in Rows, RemoveEntry(w, i) PROVE MarketTyped'
  <2>1. TableTyped([rows EXCEPT ![i] = NoRow])
    BY NoRowTyped, LineReplaced, Zenon
  <2> QED
    BY <1>2, <2>1, SavesTyped DEF RemoveEntry, TableTyped, LineTyped, CopiesTyped
<1>3. CASE ClearEnds(w)
  <2>1. CopiesTyped(copy')
    BY <1>3, NoRowTyped, CopyReplaced, Zenon DEF ClearEnds
  <2> QED
    BY <1>3, <2>1 DEF ClearEnds, TableTyped, LineTyped, CopiesTyped
<1>4. ASSUME NEW i, Puts(w, i), job[w].op \in {"save", "create"} PROVE CopiesTyped(copy')
  <2>1. Written(w).src \in Locations
    BY <1>0, <1>4 DEF Written, WorkOf, Locations
  <2> QED
    BY <1>4, <2>1, CopyReplaced, Zenon DEF Puts
<1>5. ASSUME NEW i \in Rows, CreateCommits(w, i) PROVE MarketTyped'
  <2> DEFINE age == IF job[w].loc = Own THEN "never" ELSE "today"
             new == [rows EXCEPT ![i] = [NoRow EXCEPT !.loc = job[w].loc, !.fresh = age]]
  <2>1. LineTyped([NoRow EXCEPT !.loc = job[w].loc, !.fresh = age])
    <3>1. job[w].loc \in Locations
      BY <1>0, <1>5 DEF CreateCommits, WorkOf, Locations
    <3>2. age \in Ages
      BY DEF Ages
    <3> HIDE DEF age
    <3> QED
      BY <3>1, <3>2, Zenon DEF LineTyped, NoRow, RowFields
  <2>2. TableTyped(new)
    BY <2>1, LineReplaced, Zenon
  <2>3. \/ Puts(w, i) /\ Saves(new)
        \/ SaveFails(new) /\ copy' = copy
        \/ UNCHANGED <<rows, table, copy>>
    BY <1>5, Zenon DEF CreateCommits
  <2>4. job[w].op = "create"
    BY <1>5 DEF CreateCommits
  <2> HIDE DEF new
  <2> QED
    BY <1>4, <2>2, <2>3, <2>4, SavesTyped DEF TableTyped, LineTyped, CopiesTyped
<1>6. CASE SaveCommits(w)
  <2> DEFINE i == job[w].row
             new == [rows EXCEPT ![i].fresh = IF rows[i].loc = Own THEN rows[i].fresh ELSE "today"]
  <2>1. i \in Rows => LineTyped(rows[i])
    BY DEF TableTyped
  <2>2. i \in Rows => LineTyped([rows[i] EXCEPT !.fresh = IF rows[i].loc = Own THEN rows[i].fresh ELSE "today"])
    <3>1. i \in Rows => (IF rows[i].loc = Own THEN rows[i].fresh ELSE "today") \in Ages
      BY <2>1 DEF LineTyped, Ages
    <3> QED
      BY <2>1, <3>1, LineEdited, Zenon
  <2>3. TableTyped(new)
    BY <2>2, LineReplaced, Zenon
  <2>4. \/ Puts(w, i) /\ (Saves(new) \/ SaveFails(new))
        \/ UNCHANGED <<rows, table, copy>>
    BY <1>6, Zenon DEF SaveCommits
  <2>5. job[w].op = "save"
    BY <1>6 DEF SaveCommits
  <2> HIDE DEF new, i
  <2> QED
    BY <1>4, <2>3, <2>4, <2>5, SavesTyped DEF TableTyped, LineTyped, CopiesTyped
<1>7. CASE RefreshCommits(w)
  <2> DEFINE land == IF job[w].op = "due" /\ halting THEN {} ELSE {g \in job[w].got : StillThere(g)}
             hit(i) == \E g \in land : g[1] = i
             new == [i \in Rows |-> IF hit(i) THEN [rows[i] EXCEPT !.fresh = "today"] ELSE rows[i]]
  <2>1. TableTyped(new)
    <3>1. \A i \in Rows : LineTyped(rows[i]) /\ LineTyped([rows[i] EXCEPT !.fresh = "today"])
      BY LineEdited, Zenon DEF TableTyped, Ages
    <3> HIDE DEF hit
    <3> QED
      BY <3>1, Zenon DEF TableTyped
  <2>2. copy' = [i \in Rows |-> IF hit(i) THEN (CHOOSE g \in land : g[1] = i)[3] ELSE copy[i]]
    BY <1>7, Zenon DEF RefreshCommits
  <2>3. \A i \in Rows : \A g \in land : g[1] = i => g[3].src \in Locations
    <3> SUFFICES ASSUME NEW i \in Rows, NEW g \in land, g[1] = i PROVE g[3].src \in Locations
      OBVIOUS
    <3>1. g \in job[w].got /\ StillThere(g)
      OBVIOUS
    <3>2. IsRead(g)
      BY <1>0, <3>1 DEF WorkOf
    <3> QED
      BY <3>1, <3>2 DEF IsRead, StillThere, TableTyped, LineTyped
  <2>4. \A i \in Rows : hit(i) => (CHOOSE g \in land : g[1] = i)[3].src \in Locations
    <3> HIDE DEF land
    <3> QED BY <2>3
  <2>5. CopiesTyped(copy')
    <3> HIDE DEF hit, land
    <3> QED BY <2>2, <2>4, Zenon DEF CopiesTyped
  <2>6. UNCHANGED <<rows, table>> \/ Saves(new) \/ SaveFails(new)
    BY <1>7, Zenon DEF RefreshCommits
  <2> HIDE DEF new
  <2> QED
    BY <2>1, <2>5, <2>6, SavesTyped DEF TableTyped, LineTyped, CopiesTyped
<1> QED
  BY <1>1, <1>2, <1>3, <1>5, <1>6, <1>7

LEMMA MarketTypedStep == ASSUME MarketInv, MarketTyped, MarketNext PROVE MarketTyped'
<1> USE DEF MarketTyped
<1>1. ASSUME NEW i \in Rows, NEW loc \in Places \cup {Own}, NEW updates, Settings(i, loc, updates)
      PROVE  MarketTyped'
  <2> DEFINE new == [rows EXCEPT ![i] = [Moved(rows[i], loc) EXCEPT !.auto = updates]]
  <2>1. LineTyped(rows[i]) /\ loc \in Locations
    BY DEF TableTyped, Locations
  <2>2. LineTyped(Moved(rows[i], loc))
    BY <2>1, Zenon DEF Moved, LineTyped, RowFields, Ages
  <2>3. TableTyped(new)
    BY <2>2, LineEdited, LineReplaced, Zenon
  <2>4. copy' = copy /\ (Saves(new) \/ SaveFails(new))
    BY <1>1, Zenon DEF Settings
  <2> HIDE DEF new
  <2> QED
    BY <2>3, <2>4, SavesTyped
<1>2. ASSUME NEW t, Loads(t), garbled \/ t \in Seeded(table) PROVE MarketTyped'
  <2>1. CopiesTyped(copy')
    BY <1>2, NoRowTyped, Zenon DEF Loads, CopiesTyped
  <2>2. CASE garbled
    BY <1>2, <2>1, <2>2, NoRowTyped, Zenon DEF Loads, TableTyped
  <2>3. CASE ~ garbled
    <3>1. TableTyped(t)
      BY <1>2, <2>3, SeededTyped
    <3>2. rows' = t /\ (table' = t \/ table' = table)
      BY <1>2, <2>3 DEF Loads
    <3> QED
      BY <2>1, <3>1, <3>2
  <2> QED
    BY <2>2, <2>3
<1>3. CASE DayPasses
  <2>1. \A i \in Rows : LineTyped(rows[i]) /\ LineTyped([rows[i] EXCEPT !.fresh = "old"])
    BY LineEdited, Zenon DEF TableTyped, Ages
  <2>2. TableTyped(rows')
    BY <1>3, <2>1, Zenon DEF DayPasses, TableTyped
  <2> QED
    BY <1>3, <2>2 DEF DayPasses
<1>4. CASE UNCHANGED <<rows, table, copy>>
  BY <1>4
<1>5. CASE StopsSweeping \/ Crashes \/ Garbles
  BY <1>4, <1>5 DEF StopsSweeping, Crashes, Garbles
<1>6. ASSUME NEW w \in Workers,
             \/ Exports(w) \/ \E loc \in Places : AddReads(w, loc)
             \/ \E loc \in Folders \cup {Own} : CreateBegins(w, loc)
             \/ \E x \in job[w].todo, b \in BOOLEAN : FetchOne(w, x, b)
             \/ \E i \in Rows : \/ CatalogSaveBegins(w, i)
                                \/ \E whose \in {"one", "all", "due"} : RefreshBegins(w, whose, i)
      PROVE  MarketTyped'
  <2>1. UNCHANGED <<rows, table, copy>>
    BY <1>6, Zenon DEF Exports, AddReads, CreateBegins, FetchOne, CatalogSaveBegins, RefreshBegins
  <2> QED
    BY <1>4, <2>1
<1> QED
  BY <1>1, <1>2, <1>3, <1>5, <1>6, WorkersTyped, Zenon DEF MarketNext

LEMMA MemoryTypedStep ==
  ASSUME MemoryTyped, \A s \in snaps : IsSnapshot(s), SnapNext
  PROVE  MemoryTyped'
  BY PlacesStep, FlagsStep, SnapshotsStep, TaskStep, Zenon DEF MemoryTyped

-----------------------------------------------------------------------------
(***************************************************************************)
(* The types of all parts.                                                   *)
(***************************************************************************)
Parts == {"executions", "memory", "versions", "draft", "transfer", "parking", "fetch", "catalogs"}

PartsTyped ==
    /\ part \in Parts
    /\ part = "executions" => RecordTyped
    /\ part = "memory" => MemoryTyped
    /\ part = "versions" => VersionsTyped
    /\ part = "draft" => SwapTyped
    /\ part = "catalogs" => MarketTyped

LEMMA TypesStay ==
  /\ RecordTyped /\ UNCHANGED storeVars => RecordTyped'
  /\ MemoryTyped /\ UNCHANGED snapVars => MemoryTyped'
  /\ VersionsTyped /\ UNCHANGED versionVars => VersionsTyped'
  /\ SwapTyped /\ UNCHANGED swapVars => SwapTyped'
  /\ MarketTyped /\ UNCHANGED marketVars => MarketTyped'
<1>1. RecordTyped /\ UNCHANGED storeVars => RecordTyped'
  BY Zenon DEF RecordTyped, RecordSets, RecordMaps, RecordLists, PhaseTyped, ChangeTyped, CrashesTyped,
               storeVars, disk, memory, ghost
<1>2. MemoryTyped /\ UNCHANGED snapVars => MemoryTyped'
  <2> SUFFICES ASSUME MemoryTyped, UNCHANGED snapVars PROVE MemoryTyped'
    OBVIOUS
  <2>1. /\ mem' = mem /\ tmp' = tmp /\ old' = old /\ snaps' = snaps /\ made' = made /\ twin' = twin
        /\ up' = up /\ reg' = reg /\ runs' = runs /\ owed' = owed /\ written' = written /\ task' = task
    BY DEF snapVars, memoryDisk
  <2>2. PlacesTyped' /\ FlagsTyped' /\ RunsTyped' /\ SnapshotsTyped'
    BY <2>1, Zenon DEF MemoryTyped, PlacesTyped, FlagsTyped, RunsTyped, SnapshotsTyped
  <2>3. TaskTyped'
    BY <2>1 DEF MemoryTyped, TaskTyped
  <2> QED
    BY <2>2, <2>3 DEF MemoryTyped
<1>3. VersionsTyped /\ UNCHANGED versionVars => VersionsTyped'
  BY Zenon DEF VersionsTyped, versionVars
<1>4. SwapTyped /\ UNCHANGED swapVars => SwapTyped'
  BY Zenon DEF SwapTyped, swapVars
<1>5. MarketTyped /\ UNCHANGED marketVars => MarketTyped'
  BY Zenon DEF MarketTyped, TableTyped, LineTyped, CopiesTyped, marketVars
<1> QED
  BY <1>1, <1>2, <1>3, <1>4, <1>5

LEMMA TypesInvariance == Spec => []PartsTyped
<1>1. Init => PartsTyped
  <2> SUFFICES ASSUME Init PROVE PartsTyped
    OBVIOUS
  <2>1. part \in Parts
    BY DEF Init, Parts
  <2>2. /\ part = "executions" => StoreInit
        /\ part = "memory" => SnapInit
        /\ part = "versions" => VersionsInit
        /\ part = "draft" => SwapInit
        /\ part = "catalogs" => MarketInit
    BY DEF Init
  <2> QED
    BY <2>1, <2>2, RecordTypedFirst, MemoryTypedFirst, VersionsTypedFirst, SwapTypedFirst,
       MarketTypedFirst, Zenon DEF PartsTyped
<1>2. PartsTyped /\ VersionsPart /\ DraftPart /\ CatalogsPart /\ SnapshotsAreRecords /\ [Next]_allVars
        => PartsTyped'
  <2> SUFFICES ASSUME PartsTyped, VersionsPart, DraftPart, CatalogsPart, SnapshotsAreRecords,
                      [Next]_allVars
               PROVE  PartsTyped'
    OBVIOUS
  <2>1. part' = part
    BY DEF Next, Still, allVars
  <2>2. part = "executions" => RecordTyped'
    <3> SUFFICES ASSUME part = "executions" PROVE RecordTyped'
      OBVIOUS
    <3>1. StoreNext \/ UNCHANGED storeVars
      BY DEF Next, allVars
    <3> QED
      BY <3>1, RecordTypedStep, TypesStay, Zenon DEF PartsTyped
  <2>3. part = "memory" => MemoryTyped'
    <3> SUFFICES ASSUME part = "memory" PROVE MemoryTyped'
      OBVIOUS
    <3>1. SnapNext \/ UNCHANGED snapVars
      BY DEF Next, allVars
    <3> QED
      BY <3>1, MemoryTypedStep, TypesStay, Zenon DEF PartsTyped, SnapshotsAreRecords
  <2>4. part = "versions" => VersionsTyped'
    <3> SUFFICES ASSUME part = "versions" PROVE VersionsTyped'
      OBVIOUS
    <3>1. VersionsNext \/ UNCHANGED versionVars
      BY DEF Next, allVars
    <3> QED
      BY <3>1, VersionsTypedStep, TypesStay, Zenon DEF PartsTyped, VersionsPart
  <2>5. part = "draft" => SwapTyped'
    <3> SUFFICES ASSUME part = "draft" PROVE SwapTyped'
      OBVIOUS
    <3>1. SwapNext \/ UNCHANGED swapVars
      BY DEF Next, allVars
    <3> QED
      BY <3>1, SwapTypedStep, TypesStay, Zenon DEF PartsTyped, DraftPart
  <2>6. part = "catalogs" => MarketTyped'
    <3> SUFFICES ASSUME part = "catalogs" PROVE MarketTyped'
      OBVIOUS
    <3>1. MarketNext \/ UNCHANGED marketVars
      BY DEF Next, allVars
    <3> QED
      BY <3>1, MarketTypedStep, TypesStay, Zenon DEF PartsTyped, CatalogsPart
  <2> QED
    BY <2>1, <2>2, <2>3, <2>4, <2>5, <2>6, Zenon DEF PartsTyped
<1> QED
  BY <1>1, <1>2, VersionsInvariance, SwapInvariance, CatalogsInvariance, RecordsInvariance, PTL DEF Spec

\* Every file, table, slot and counter of the stored state keeps its type, under
\* any crashes, failures and races (storage.py, execdb.py, transfer.py,
\* marketplace.py, api.py:3605-3712).
THEOREM StorageAlwaysTyped == Spec => []StorageTypeOK
<1>1. PartsTyped /\ VersionsPart /\ DraftPart /\ TransferPart /\ ParkingPart /\ FetchPart /\ CatalogsPart
        => StorageTypeOK
  <2> SUFFICES ASSUME PartsTyped, VersionsPart, DraftPart, TransferPart, ParkingPart, FetchPart, CatalogsPart
               PROVE  StorageTypeOK
    OBVIOUS
  <2>1. CASE part = "executions"
    <3>1. StoreTypeOK
      BY <2>1, RecordTypedGives, Zenon DEF PartsTyped
    <3> QED
      BY <2>1, <3>1 DEF StorageTypeOK
  <2>2. CASE part = "memory"
    <3>1. SnapTypeOK
      BY <2>2, MemoryTypedGives, Zenon DEF PartsTyped
    <3> QED
      BY <2>2, <3>1 DEF StorageTypeOK
  <2>3. CASE part = "versions"
    <3>1. VersionsTypeOK
      BY <2>3, VersionsTypedGives, Zenon DEF PartsTyped, VersionsPart
    <3> QED
      BY <2>3, <3>1 DEF StorageTypeOK
  <2>4. CASE part = "draft"
    <3>1. SwapTypeOK
      BY <2>4, SwapTypedGives, Zenon DEF PartsTyped, DraftPart
    <3> QED
      BY <2>4, <3>1 DEF StorageTypeOK
  <2>5. CASE part = "transfer"
    <3>1. TransferTypeOK
      BY <2>5, TransferGives, Zenon DEF TransferPart
    <3> QED
      BY <2>5, <3>1 DEF StorageTypeOK
  <2>6. CASE part = "parking"
    <3>1. ParkTypeOK
      BY <2>6, ParkGives, Zenon DEF ParkingPart
    <3> QED
      BY <2>6, <3>1 DEF StorageTypeOK
  <2>7. CASE part = "fetch"
    <3>1. FetchTypeOK
      BY <2>7, FetchGives, Zenon DEF FetchPart
    <3> QED
      BY <2>7, <3>1 DEF StorageTypeOK
  <2>8. CASE part = "catalogs"
    <3>1. MarketTypeOK
      BY <2>8, MarketTypedGives, Zenon DEF PartsTyped
    <3> QED
      BY <2>8, <3>1 DEF StorageTypeOK
  <2> QED
    BY <2>1, <2>2, <2>3, <2>4, <2>5, <2>6, <2>7, <2>8 DEF PartsTyped, Parts
<1> QED
  BY <1>1, TypesInvariance, VersionsInvariance, SwapInvariance, TransferInvariance, ParkingInvariance,
     FetchInvariance, CatalogsInvariance, PTL

=============================================================================
