----------------------------- MODULE ExecStore -----------------------------
(***************************************************************************)
(* The execution records of one automation on disk (storage.py, execdb.py, *)
(* api.py): a directory per record whose execution.yaml is the truth, an   *)
(* SQLite index beside them, and the table in memory.  Every change is     *)
(* made in that order - yaml, index, memory - under store.lock, and the    *)
(* process may be killed, or the power lost, between any two of them.  The *)
(* next start reads the index, reconciles it with the directories, and     *)
(* repairs what the crash left executing or queued.                        *)
(*                                                                         *)
(* A power loss keeps what was fsynced (every yaml) and a prefix of the    *)
(* index commits made since the last checkpoint; renames survive in order. *)
(***************************************************************************)
EXTENDS Naturals, Sequences, FiniteSets

CONSTANTS
    NumRecs,        \* records 1..NumRecs may be created
    MaxCrashes,     \* how many times the process dies
    MaxWrites,      \* commits a serving backend makes between two checkpoints
    Faults          \* what may fail: subset of AllFaults

\* "write": an OSError writing a yaml; "index": an SQLite error on an upsert or
\* a delete, "index_at_start": the same while a start reconciles; "corrupt": the
\* index file is unusable; "late_checkpoint": SQLite checkpoints while a start
\* reconciles.
AllFaults == {"write", "index", "index_at_start", "corrupt", "late_checkpoint"}

ASSUME RecordsAssumption ==
    NumRecs \in Nat /\ MaxCrashes \in Nat /\ Faults \subseteq AllFaults

Recs == 1..NumRecs
Unset == "none"
Live == {"queued", "executing"}
Ended == {"failed", "succeeded", "skipped", "interrupted"}
Statuses == Live \cup Ended

VARIABLES
    dir,        \* records whose directory is in place
    yaml,       \* record -> the status in its execution.yaml, or None
    pgid,       \* records whose yaml names a step group
    aside,      \* records whose directory was renamed aside and not reaped yet
    recent,     \* records whose yaml is newer than the index file
    base,       \* record -> its index row as of the last checkpoint
    wal,        \* the index commits since: <<record, row>>
    order,      \* the records in the order of their started_at
    phase,      \* what the process is doing, "down" when there is none
    execs,      \* store.execs: record -> status, or None
    live,       \* the automation's _live
    thread,     \* records an engine thread of this process runs
    group,      \* record -> its step group: None, "waiting" for context, "running"
    op,         \* the change the holder of store.lock is making
    stale,      \* records the start still has to look at in this phase
    newer,      \* recent, as it was before the index was opened
    doomed,     \* what a retention sweep selected and has not deleted yet
    crashes,
    told,       \* record -> the outcome last written and not reopened since
    stranded,   \* queue entries the start could not end: headers without a body
    kept,       \* records whose creation returned and that nothing deleted
    gone        \* records whose directory a delete has moved aside

disk == <<dir, yaml, pgid, aside, recent, base, wal, order>>
memory == <<phase, execs, live, thread, op, stale, newer, doomed, stranded>>
ghost == <<told, kept, gone>>
storeVars == <<disk, memory, group, crashes, ghost>>

Idle == [kind |-> "idle", rec |-> 0, to |-> Unset, pg |-> FALSE, at |-> "none"]
Kinds == {"idle", "create", "promote", "finish", "retry", "skip", "spawn", "adopt", "repair", "delete", "sweep"}

\* The row the index holds for a record now.
RowIn(n, r) ==
    LET of == {i \in 1..n : wal[i][1] = r}
    IN IF of = {} THEN base[r] ELSE wal[CHOOSE i \in of : \A j \in of : j <= i][2]
Row(r) == RowIn(Len(wal), r)

\* A commit to the index.  Now and then SQLite moves what was committed so far
\* into the index file, which is newer than every yaml then.
Commit(r, s) ==
    \/ /\ phase = "serving" => Len(wal) < MaxWrites
       /\ wal' = Append(wal, <<r, s>>)
       /\ UNCHANGED <<base, recent>>
    \/ /\ phase # "reconcile" \/ "late_checkpoint" \in Faults
       /\ base' = [q \in Recs |-> IF q = r THEN s ELSE Row(q)]
       /\ wal' = <<>> /\ recent' = {}

\* store.never_ran: such a record is never the latest.
NeverRan(s) == s \in {"skipped", "queued", Unset}

\* store._latest_exec, as a set of at most one record.
Latest ==
    LET ran == {i \in 1..Len(order) : ~NeverRan(execs[order[i]])}
    IN {order[i] : i \in {j \in ran : \A k \in ran : k <= j}}

Serving == phase = "serving" /\ op.kind = "idle"

StoreInit ==
    /\ dir = {} /\ pgid = {} /\ aside = {} /\ recent = {}
    /\ yaml = [r \in Recs |-> Unset] /\ base = [r \in Recs |-> Unset]
    /\ wal = <<>> /\ order = <<>>
    /\ phase = "serving" /\ op = Idle
    /\ execs = [r \in Recs |-> Unset]
    /\ live = {} /\ thread = {} /\ stale = {} /\ newer = {} /\ doomed = {}
    /\ group = [r \in Recs |-> Unset]
    /\ crashes = 0
    /\ told = [r \in Recs |-> Unset] /\ kept = {} /\ gone = {} /\ stranded = {}

----------------------------------------------------------------------------
(* One change of a record: yaml first, the index row second, memory last.  *)

Begin(kind, r, to, pg, at) ==
    /\ op' = [kind |-> kind, rec |-> r, to |-> to, pg |-> pg, at |-> at]
    /\ told' = [told EXCEPT ![r] = Unset]

\* create_execution, as a run or as a queue entry: the directory comes first.
Create(r, s) ==
    /\ Serving
    /\ r = Len(order) + 1
    /\ s \in Live
    /\ dir' = dir \cup {r}
    /\ order' = Append(order, r)
    /\ Begin("create", r, s, FALSE, "yaml")
    /\ UNCHANGED <<yaml, pgid, aside, recent, base, wal, phase, execs, live, thread, group, stale,
                   newer, doomed, stranded, crashes, kept, gone>>

\* The record becomes the newest one.
Newest(r) ==
    LET at == CHOOSE i \in 1..Len(order) : order[i] = r
    IN [i \in 1..Len(order) |->
          IF i = Len(order) THEN r ELSE IF i < at THEN order[i] ELSE order[i + 1]]

\* promote_execution: the registered record changes before anything is written.
Promote(r) ==
    /\ Serving
    /\ execs[r] = "queued" /\ r \notin stranded
    /\ execs' = [execs EXCEPT ![r] = "executing"]
    /\ order' = Newest(r)
    /\ Begin("promote", r, "executing", FALSE, "yaml")
    /\ UNCHANGED <<dir, yaml, pgid, aside, recent, base, wal, phase, live, thread, group, stale,
                   newer, doomed, stranded, crashes, kept, gone>>

\* The other changes leave the disk alone until they write.
Change(kind, r, to, pg) ==
    /\ Begin(kind, r, to, pg, "yaml")
    /\ UNCHANGED <<disk, phase, execs, live, thread, group, stale, newer, doomed, stranded, crashes, kept, gone>>

\* _execute ends: its step group is gone by then.
Finish(r, s) ==
    /\ Serving
    /\ r \in thread /\ group[r] = Unset
    /\ s \in {"failed", "succeeded"}
    /\ Change("finish", r, s, FALSE)

\* Engine.retry writes a copy; the registered record stays failed meanwhile.
Retry(r) ==
    /\ Serving
    /\ execs[r] = "failed"
    /\ Change("retry", r, "executing", FALSE)

\* finish_never_ran: cancelled in the queue, or too old.
Skip(r) ==
    /\ Serving
    /\ execs[r] = "queued" /\ r \notin stranded
    /\ Change("skip", r, "skipped", FALSE)

\* An entry a failed repair left queued is a header: writing it raises before the
\* disk changes, and the drain or the cancel leaves it skipped in memory.
EndStranded(r) ==
    /\ Serving
    /\ execs[r] = "queued" /\ r \in stranded
    /\ execs' = [execs EXCEPT ![r] = "skipped"]
    /\ UNCHANGED <<disk, phase, live, thread, op, stale, newer, doomed, stranded, group, crashes, ghost>>

\* The executor is started and waits for its context; on_spawn persists its group.
Spawn(r) ==
    /\ Serving
    /\ r \in thread /\ group[r] = Unset
    /\ group' = [group EXCEPT ![r] = "waiting"]
    /\ Begin("spawn", r, "executing", TRUE, "yaml")
    /\ UNCHANGED <<disk, phase, execs, live, thread, stale, newer, doomed, stranded, crashes, kept, gone>>

\* Only then is it handed the context it runs with.
HandContext(r) ==
    /\ Serving
    /\ group[r] = "waiting" /\ r \in thread
    /\ group' = [group EXCEPT ![r] = "running"]
    /\ UNCHANGED <<disk, memory, crashes, ghost>>

\* The step ends, or is killed.
StepEnds(r) ==
    /\ r \in thread
    /\ Serving
    /\ group[r] = "running"
    /\ group' = [group EXCEPT ![r] = Unset]
    /\ UNCHANGED <<disk, memory, crashes, ghost>>

\* write_exec_yaml: the new file is fsynced and takes the place of the old one.
WriteYaml ==
    /\ op.at = "yaml"
    /\ yaml' = [yaml EXCEPT ![op.rec] = op.to]
    /\ pgid' = IF op.pg THEN pgid \cup {op.rec} ELSE pgid \ {op.rec}
    /\ recent' = recent \cup {op.rec}
    /\ op' = [op EXCEPT !.at = "index"]
    /\ UNCHANGED <<dir, aside, base, wal, order, phase, execs, live, thread, group, stale, newer,
                   doomed, stranded, crashes, ghost>>

\* execdb.upsert, a commit of its own.
Upsert ==
    /\ op.at = "index"
    /\ Commit(op.rec, op.to)
    /\ op' = [op EXCEPT !.at = "memory"]
    /\ UNCHANGED <<dir, yaml, pgid, aside, order, phase, execs, live, thread, group,
                   stale, newer, doomed, stranded, crashes, ghost>>

\* What update_execution and create_execution do to memory; the engine thread is
\* launched with the record, and ends with it.
Remember ==
    /\ op.at = "memory"
    /\ LET r == op.rec
           ours == phase = "serving"
       IN /\ execs' = [execs EXCEPT ![r] = op.to]
          /\ live' = IF op.to = "executing" THEN live \cup {r} ELSE live \ {r}
          /\ thread' = IF op.to = "executing" /\ ours THEN thread \cup {r} ELSE thread \ {r}
          /\ told' = IF op.to \in Ended THEN [told EXCEPT ![r] = op.to] ELSE told
          /\ kept' = kept \cup {r}
          /\ stale' = stale \ {r}
    /\ op' = Idle
    /\ UNCHANGED <<disk, phase, group, newer, doomed, stranded, crashes, gone>>

CanFail ==
    \/ op.at = "yaml" /\ "write" \in Faults
    \/ op.at = "index" /\ "index" \in Faults

\* A change that raises.  A promotion that failed ends skipped (drain_queue); an
\* ending that failed is tried once more as failed (_execute), and given up; a
\* spawn that failed kills its group and fails the pass; a stale record is left
\* as it was, without a slot (_release_stranded).
WriteFails ==
    /\ CanFail
    /\ LET r == op.rec
           again(kind, s) == op' = [op EXCEPT !.kind = kind, !.to = s, !.pg = FALSE, !.at = "yaml"]
           givesUp(s) ==
               /\ op' = Idle
               /\ execs' = [execs EXCEPT ![r] = s]
               /\ live' = live \ {r}
               /\ thread' = thread \ {r}
       IN \/ /\ op.kind = "promote" /\ again("skip", "skipped")
             /\ execs' = [execs EXCEPT ![r] = "skipped"]
             /\ UNCHANGED <<live, thread, group, stale>>
          \/ /\ op.kind \in {"finish", "spawn"}
             /\ group' = [group EXCEPT ![r] = Unset]
             /\ UNCHANGED stale
             /\ IF op.to = "failed"
                THEN givesUp("failed")
                ELSE again("finish", "failed") /\ UNCHANGED <<execs, live, thread>>
          \/ /\ op.kind \in {"create", "retry", "skip"}
             /\ givesUp(IF op.kind = "skip" THEN "skipped" ELSE execs[r])
             /\ UNCHANGED <<group, stale>>
          \/ /\ op.kind \in {"adopt", "repair"}
             /\ op.at = "yaml"
             /\ givesUp(execs[r])
             /\ stale' = stale \ {r}
             /\ UNCHANGED group
    /\ stranded' = IF op.kind = "adopt" THEN stranded \cup {op.rec} ELSE stranded
    /\ UNCHANGED <<disk, phase, newer, doomed, crashes, ghost>>

----------------------------------------------------------------------------
(* Deletes: renamed aside under the lock, then the row, then the walk.     *)

\* delete_execution of a settled record, by a request.
Delete(r) ==
    /\ Serving
    /\ execs[r] \in Ended
    /\ Begin("delete", r, Unset, FALSE, "rename")
    /\ UNCHANGED <<disk, phase, execs, live, thread, group, stale, newer, doomed, stranded, crashes, kept, gone>>

\* retention_cleanup selects: old records, never live ones, never the latest.
SelectOld(n) ==
    /\ Serving
    /\ doomed = {}
    /\ LET old == {order[i] : i \in 1..n}
       IN doomed' = {r \in old \ Latest : execs[r] \in Ended}
    /\ doomed' # {}
    /\ UNCHANGED <<disk, phase, execs, live, thread, group, op, stale, newer, stranded, crashes, ghost>>

\* The status is looked at again inside the hold that moves the directory.
StillSettled(r) == execs[r] \in Ended

\* Each of them is deleted in a lock hold of its own.
SweepOld(r) ==
    /\ Serving
    /\ r \in doomed
    /\ doomed' = doomed \ {r}
    /\ IF StillSettled(r)
       THEN Begin("sweep", r, Unset, FALSE, "rename")
       ELSE UNCHANGED <<op, told>>
    /\ UNCHANGED <<disk, phase, execs, live, thread, group, stale, newer, stranded, crashes, kept, gone>>

\* From the rename on the record is gone for good.
RenameAside ==
    /\ op.at = "rename"
    /\ dir' = dir \ {op.rec}
    /\ aside' = aside \cup {op.rec}
    /\ kept' = kept \ {op.rec}
    /\ gone' = gone \cup {op.rec}
    /\ op' = [op EXCEPT !.at = "row"]
    /\ UNCHANGED <<yaml, pgid, recent, base, wal, order, phase, execs, live, thread, group, stale,
                   newer, doomed, stranded, crashes, told>>

\* The row goes; a database error still forgets the record.
DropRow ==
    /\ op.at = "row"
    /\ \/ Commit(op.rec, Unset)
       \/ "index" \in Faults /\ UNCHANGED <<wal, base, recent>>
    /\ execs' = [execs EXCEPT ![op.rec] = Unset]
    /\ op' = Idle
    /\ UNCHANGED <<dir, yaml, pgid, aside, order, phase, live, thread, group, stale, newer, doomed,
                   stranded, crashes, ghost>>

\* The reaper thread, outside the lock.
Reap(r) ==
    /\ phase # "down"
    /\ r \in aside
    /\ aside' = aside \ {r}
    /\ yaml' = [yaml EXCEPT ![r] = Unset]
    /\ pgid' = pgid \ {r} /\ recent' = recent \ {r}
    /\ UNCHANGED <<dir, base, wal, order, memory, group, crashes, ghost>>

----------------------------------------------------------------------------
(* Crashes, and the start after one.                                       *)

\* Memory is lost; a group that still waits for its context reads the end of its
\* input and exits.
Dies(left) ==
    /\ phase # "down"
    /\ crashes < MaxCrashes
    /\ crashes' = crashes + 1
    /\ phase' = "down" /\ op' = Idle
    /\ execs' = [r \in Recs |-> Unset]
    /\ live' = {} /\ thread' = {} /\ stale' = {} /\ newer' = {} /\ doomed' = {} /\ stranded' = {}
    /\ group' = left
    /\ UNCHANGED <<dir, yaml, pgid, aside, recent, base, order, ghost>>

Crash ==
    /\ Dies([r \in Recs |-> IF group[r] = "running" THEN "running" ELSE Unset])
    /\ UNCHANGED wal

PowerLoss ==
    /\ Dies([r \in Recs |-> Unset])
    /\ \E n \in 0..Len(wal) : wal' = SubSeq(wal, 1, n)

\* reopen_exec_index: the file's mtime is read before it is opened; an unusable
\* file is deleted, and every row with it.
Load ==
    /\ phase = "down"
    /\ newer' = recent
    /\ \/ UNCHANGED <<base, wal, recent>>
       \/ /\ "corrupt" \in Faults
          /\ base' = [r \in Recs |-> Unset] /\ wal' = <<>> /\ recent' = {}
    /\ execs' = [r \in Recs |-> IF wal' = wal /\ base' = base THEN Row(r) ELSE Unset]
    /\ stale' = dir \cup aside
    /\ phase' = "reconcile"
    /\ UNCHANGED <<dir, yaml, pgid, aside, order, live, thread, group, op, doomed, stranded, crashes, ghost>>

\* Mutation: a directory without a row is left alone.
MutNeverAdopts(r) == r \in dir /\ yaml[r] # Unset /\ execs[r] # Unset /\ r \in newer /\ execs[r] # yaml[r]

\* Mutation: a known row is never refreshed.
MutNeverRefreshes(r) == r \in dir /\ yaml[r] # Unset /\ execs[r] = Unset

\* _refresh_stale_row, or the adoption of a directory the index does not know.
NeedsUpsert(r) ==
    /\ r \in dir /\ yaml[r] # Unset
    /\ IF execs[r] # Unset THEN r \in newer /\ execs[r] # yaml[r] ELSE TRUE

\* _reconcile_exec_index looks at one entry of the directory.
Reconcile(r) ==
    /\ phase = "reconcile"
    /\ r \in stale
    /\ stale' = stale \ {r}
    /\ aside' = aside \ {r}
    /\ dir' = IF r \in dir /\ yaml[r] = Unset THEN dir \ {r} ELSE dir
    /\ yaml' = IF r \in aside THEN [yaml EXCEPT ![r] = Unset] ELSE yaml
    /\ \/ /\ NeedsUpsert(r)
          /\ Commit(r, yaml[r])
          /\ execs' = [execs EXCEPT ![r] = yaml[r]]
       \/ /\ ~NeedsUpsert(r) \/ "index_at_start" \in Faults
          /\ UNCHANGED <<wal, base, recent, execs>>
    /\ UNCHANGED <<pgid, order, phase, live, thread, group, op, newer, doomed, stranded,
                   crashes, ghost>>

Ghosts == {r \in Recs : execs[r] # Unset /\ r \notin dir}

\* The reverse repair: a row without a directory goes.
DropGhost(r) ==
    /\ phase = "reconcile" /\ stale = {}
    /\ r \in Ghosts
    /\ Commit(r, Unset)
    /\ execs' = [execs EXCEPT ![r] = Unset]
    /\ UNCHANGED <<dir, yaml, pgid, aside, order, phase, live, thread, group, op, stale,
                   newer, doomed, stranded, crashes, ghost>>

\* _refresh_exec_derived: every executing record holds a slot.
Derived == {r \in Recs : execs[r] = "executing"}

ReconcileEnds ==
    /\ phase = "reconcile" /\ stale = {} /\ Ghosts = {}
    /\ phase' = "repair"
    /\ stale' = {r \in Recs : execs[r] \in Live}
    /\ live' = Derived
    /\ UNCHANGED <<disk, execs, thread, group, op, newer, doomed, stranded, crashes, ghost>>

\* exec_full: the yaml overrides the row.
FullStatus(r) == yaml[r]

\* The first pass of _repair_stale_executing: a record that ended after all is
\* taken over from its yaml, a queue entry ends skipped.
RepairRow(r) ==
    /\ phase = "repair" /\ op.kind = "idle"
    /\ r \in stale
    /\ FullStatus(r) # "executing"
    /\ op' = [kind |-> "adopt", rec |-> r, pg |-> FALSE, at |-> "yaml",
              to |-> IF FullStatus(r) = "queued" THEN "skipped" ELSE FullStatus(r)]
    /\ UNCHANGED <<disk, phase, execs, live, thread, group, stale, newer, doomed, stranded, crashes, ghost>>

\* The second pass, outside the lock: the groups the dead backend left.
KillOrphans ==
    /\ phase = "repair" /\ op.kind = "idle"
    /\ \A r \in stale : FullStatus(r) = "executing"
    /\ group' = [r \in Recs |-> IF r \in stale \cap pgid THEN Unset ELSE group[r]]
    /\ phase' = "interrupt"
    /\ UNCHANGED <<disk, execs, live, thread, op, stale, newer, doomed, stranded, crashes, ghost>>

\* The third pass: what is still executing was interrupted.
Interrupt(r) ==
    /\ phase = "interrupt" /\ op.kind = "idle"
    /\ r \in stale
    /\ execs[r] = "executing"
    /\ op' = [kind |-> "repair", rec |-> r, pg |-> FALSE, at |-> "yaml", to |-> "interrupted"]
    /\ UNCHANGED <<disk, phase, execs, live, thread, group, stale, newer, doomed, stranded, crashes, ghost>>

Serve ==
    /\ phase = "interrupt" /\ op.kind = "idle"
    /\ stale = {}
    /\ phase' = "serving"
    /\ UNCHANGED <<disk, execs, live, thread, group, op, stale, newer, doomed, stranded, crashes, ghost>>

----------------------------------------------------------------------------

Restart ==
    \/ Load \/ ReconcileEnds \/ KillOrphans \/ Serve
    \/ \E r \in Recs : Reconcile(r) \/ DropGhost(r) \/ RepairRow(r) \/ Interrupt(r)

Requests ==
    \/ \E r \in Recs : Promote(r) \/ Retry(r) \/ Skip(r) \/ EndStranded(r) \/ Delete(r) \/ SweepOld(r)
    \/ \E r \in Recs, s \in Live : Create(r, s)
    \/ \E n \in 1..Len(order) : SelectOld(n)

EngineThread == \E r \in Recs :
    Spawn(r) \/ HandContext(r) \/ StepEnds(r) \/ \E s \in Ended : Finish(r, s)

Writes == WriteYaml \/ Upsert \/ Remember \/ RenameAside \/ DropRow

StoreNext ==
    \/ Requests \/ EngineThread \/ Writes \/ WriteFails \/ Restart
    \/ Crash \/ PowerLoss
    \/ \E r \in Recs : Reap(r)

StoreSpec == StoreInit /\ [][StoreNext]_storeVars

----------------------------------------------------------------------------
(* Properties.                                                             *)

StoreTypeOK ==
    /\ {dir, pgid, aside, recent, live, thread, stale, newer, doomed, stranded, kept, gone} \subseteq SUBSET Recs
    /\ {yaml, base, execs, told} \subseteq [Recs -> Statuses \cup {Unset}]
    /\ wal \in Seq(Recs \X (Statuses \cup {Unset}))
    /\ order \in Seq(Recs)
    /\ phase \in {"down", "reconcile", "repair", "interrupt", "serving"}
    /\ group \in [Recs -> {Unset, "waiting", "running"}]
    /\ op \in [kind : Kinds, rec : Recs \cup {0}, to : Statuses \cup {Unset}, pg : BOOLEAN,
               at : {"none", "yaml", "index", "memory", "rename", "row"}]
    /\ crashes \in 0..MaxCrashes

\* In any step: when the reconcile is over, memory says what the yamls say: no record is
\* missing, none has a row without a directory, none shows an older status
\* (_reconcile_exec_index: "execution.yaml is authoritative; the DB is only an
\* index").
YamlIsAuthoritative ==
    phase = "reconcile" /\ phase' = "repair" =>
        \A r \in Recs : execs[r] = IF r \in dir THEN yaml[r] ELSE Unset

\* A record whose creation returned is in the table of every backend that serves
\* afterwards, whatever died in between, until it is deleted (the aside rename
\* of delete_execution).
NothingLost == phase = "serving" => \A r \in kept : execs[r] # Unset \/ op.rec = r

\* A deleted record never comes back, however early after the rename the process
\* dies and whatever rows survive (DELETED_PREFIX sweep, ghost rows).
DeletedStaysGone ==
    Serving => \A r \in gone : execs[r] = Unset

\* An outcome that was written is the outcome for good: the repair of a later
\* start never rewrites a finished record as interrupted or skipped because its
\* index row was behind (_repair_stale_executing, pass 1).
OutcomeIsKept ==
    Serving => \A r \in Recs \ gone : told[r] # Unset => execs[r] = told[r]

\* A free slot means a dead step: a backend that serves has no step group of a
\* record it does not count as live, whenever the one before it died
\* (on_spawn before the context, kill_orphan_group before interrupted).
FreeSlotMeansDead ==
    phase = "serving" => \A r \in Recs : group[r] # Unset => r \in live

\* The retention sweep deletes no record that was reopened, or is live, by the
\* time its directory is moved (delete_execution, finished_only).
SweepSparesLive ==
    op.kind = "sweep" /\ op.at = "rename" => execs[op.rec] \in Ended /\ op.rec \notin thread

=============================================================================
