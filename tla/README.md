# Verification of the autowright backend

autowright runs user automations: small step scripts, started by hand, by a
schedule or by a chat message, on the user's own machine.  The Python backend
(`src/backend/autowright`) is one process with many threads and one lock
(`store.lock`); this directory models the parts of it where order, failure and
interleaving decide whether it is right.  File and line references are to the
repository under `src/`.

## 1. The system

| Component | Source | State it keeps | Modules |
|---|---|---|---|
| Firing queue and admission | `firing.py` | records with status `queued` in `store.execs`; per automation `maxParallel`, `maxQueued`, `_live`, `_deleting` | ExecQueue, FiringQueue |
| Execution engine | `engine.py` | `engine._live` (execution -> process, flags, thread), `_stopping` | ExecQueue, StepLoop, StepPass |
| Step processes | `engine.py` `run_step_process`, `executor.py`, `platform/` | one process group per step, its timers and watcher threads | StepProcess |
| Execution store | `storage.py`, `execdb.py`, `yamlio.py` | `store.execs`; on disk one `execution.yaml` per record and an SQLite index | ExecStore |
| Memory and its snapshots | `storage.py`, `engine.py`, `api.py` | `memory/`, the snapshot directories, `_starts`, the walked size | MemorySnapshots, MemoryStats |
| Versions and the draft on disk | `storage.py`, `api.py` | `versions/vN`, `current_version`, the draft's working copy | Versions, DraftSwap |
| Scheduler | `scheduler.py`, `triggers.py` | baselines and last firing per trigger, time of the last tick, the hourly gates | Scheduler, TriggerTimes, TriggerTexts, Sweeps |
| Message listeners | `listeners.py`, `imessage.py` | one connection per bot token, message ids seen, a ROWID cursor | Gateway, ChatWatcher |
| HTTP API | `api.py`, `models.py` | launches served, parked imports, models being pulled | ExecQueue, Launches, ImportPark, DraftSettle, DraftJobs, OllamaPull |
| Event hub | `events.py`, `api.py` | one bounded queue per subscriber | EventHub |
| Drafting, chat, test executions | `drafting.py`, `testexec.py`, `harness.py` | jobs, draft generations, the agent's process, test records | DraftJobs, DraftSettle, ChatRounds, AgentCall, AgentReply |
| Agent providers, local model server | `harness.py`, `api.py` | `opencode.json`, sign-in cache, pulls | ProviderConfig, OllamaPull |
| Transfer and marketplace | `transfer.py`, `marketplace.py` | archives, the catalog table and a copy of each catalog | Transfer, ImportPark, Fetch, Market |
| Packages, installer, service, main | `packages.py`, `installer.py`, `service.py`, `main.py`, `paths.py` | files of the installation | not modelled |
| Command line, desktop app, scripts | `cli.py`, `app/`, `scripts/` | none that the backend depends on | not modelled |

How they interact.  The scheduler thread and the listener threads collect
firings and hand them to `fire_trigger`; API threads call `start`, `retry`,
`cancel`, `queue_manual` and the firing queue directly.  Every one of them
reads and writes the same records under `store.lock` and lets go of it between
two steps (to send a busy notice, to wait for a process, to look at the next
entry).  `start` registers the record, takes a slot in the automation's `_live`
set and creates a worker thread; the worker executes the steps, writes the
final status, gives the slot back and then itself drains the queue.  What the
records, versions, snapshots and drafts are on disk is written beside all this,
yaml before index before memory, and read back by the next start.  Drafting
jobs and tests are threads of their own that call an agent's program and look
at the lock only now and then.  Every change is told to the event hub, whose
queues the event loop drains.

What is hard here, and what makes each part correct:

* *Admission.*  Capacity is judged and the record created in one lock hold, but
  what is being admitted was looked up in an earlier one.  Correct: limits bind
  at every admission, nothing jumps the queue, nothing is admitted to an
  automation that is going away, nothing starts after shutdown has begun.
* *Leaving the queue.*  Five paths end a waiting entry and one promotes it, all
  from snapshots.  Correct: one of them wins, a cancel never ends with neither
  effect, an edit never kills a running execution, every dropped message is
  answered once.
* *Failure in the middle.*  A record is registered before its thread exists,
  and its status is flipped before it is written.  Correct: no record stays
  executing without a thread, no slot leaks.
* *Ending.*  The final status, the slot and the engine entry are given back in
  three steps; a step's processes, timers and handles are shared without a
  lock.  Correct: slots match threads, whatever ends a step ends all of it.
* *Disk.*  The process may die, a write may fail and another program may edit
  between any two writes.  Correct: what was answered is what the next start
  loads; a repair never removes what is still named.
* *Time and messages.*  Clocks sleep, step and repeat hours; gateways drop
  sessions and deliver twice.  Correct: each occurrence and each message starts
  what it asks for once.
* *Authoring.*  A save takes two lock holds around the kill of the draft's
  tests; a job, its canceller and the agent's program race.  Correct: nothing
  settles over what it has not seen, no process outlives its call, what the
  agent wrote is read back whole.

## 2. Modules and runs

Each component is a module with its own variables, `Init`, `Next` and `Spec`
under names of its own (`GateInit`, `GateNext`, ...), so that several can be
extended together.  Components that share state in the code are one module
(`ExecQueue` holds queue, engine and teardown).  Those that share none are
checked side by side: `MCStorage`, `MCIntake`, `MCAuthoring` and `MCFair` choose
in their initial state which `part` a behaviour is about, so that a run's states
are the sum and not the product of its parts, and each of their properties says
for which parts it speaks.  `MCExecQueue` chooses between
instances of one module in the same way, and so does `Fits` of StepProcess.

| Run | Module | What it shows |
|---|---|---|
| `ExecQueue_core` | MCExecQueue | FIFO, slots match threads, one answer per dropped message, cancels take effect, nothing escapes a delete or a shutdown, refinement of `FiringQueue` |
| `ExecQueue_edits` | MCExecQueue | limits bind at admission, switched-off entries are found, edits kill nothing, slots match threads across a reload; no execution without a thread, with every fault at every point |
| `StepLoop` | StepLoop | statuses tell the truth, signals and skips land where they were meant, stops end what is retried for ever, refinement of `StepPass` |
| `StepProcess_core` | StepProcess | processes, timers and handles go with their step; no late kill reaches the next step |
| `Storage` | MCStorage | executions, memory, versions, draft, archives, parked imports, downloads, catalogs: nothing answered is lost, nothing named is swept |
| `Intake` | MCIntake | schedule, hourly sweeps, gateways, chat database, launches, trigger texts: each occurrence and message fires once |
| `Authoring` | MCAuthoring | draft settling, drafting jobs, agent calls, replies, streams, chat rounds, pulls, the provider's file |
| `Fair` | MCFair | liveness: queue, steps, gateways, event feed, memory size, agent call |
| `ExecQueue_reload_start` | MCExecQueue | **violated**: finding 1 |
| `StepProcess_timers` | StepProcess | **violated**: finding 2 |
| `OllamaPull_cap` | OllamaPull | **violated**: finding 3 |
| `Intake_stale` | MCIntake | **violated**: finding 4 |

`CHECK_DEADLOCK FALSE` everywhere: a system comes to rest once its bounded
requests are used up.  A property that speaks for several parts is a
conjunction of named ones, each with its own comment in the module it is about.
Mutations of the code stand beside what they mutate; one of them is registered
for each property of a run, the others break the further conjuncts of that
property (for instance `MutForgetsAside` of MemorySnapshots breaks
`MemorySurvives`, `AdoptsAnyFolder` of Versions breaks
`HistoryIsWhatWasAnswered`, `NoProbeLock` of ProviderConfig breaks
`OneProbeRuns`).

The proof modules are `ExecQueueProofs` and `ExecQueueAccounts` (which extends it),
`StepLoopProofs`, `StepProcessProofs`, `StorageProofs`, `FairProofs`, `IntakeProofs`
and `AuthoringProofs`; section 11 says what they prove, and under "Only
model-checked" what is left.

## 3. ExecQueue

### State

| Variable | In the code |
|---|---|
| `made`, `status`, `owner`, `payload`, `stamp`, `note` | the records of `store.execs`, in the order made: `status`, `automation_id`, whether there is a `trigger_payload`, `queued_at`, `note` |
| `stale` | message entries past `QUEUE_TTL_S` |
| `told` | busy notices handed to the delivery worker |
| `registered`, `gen` | `store.autos`, and which object the automation's dict is: a reload replaces it |
| `slots`, `deleting` | `_live` and `_deleting` of an automation dict |
| `parallel`, `depth`, `enabled` | `max_parallel`, `max_queued`, the enabled trigger kinds |
| `thread`, `flags` | the engine thread of a record (`engine._live`) and the cancel and shutdown flags of its state |
| `stopping`, `unreachable` | `engine._stopping`, `store.exec_dir_unreachable` |
| `op`, `on`, `ref`, `doomed`, `waits`, `tell` | where each thread is in its handler and the local variables it holds across two lock holds |

One action is one hold of `store.lock` or one effect made outside it.  Threads
are the API and listener threads (`Handlers`), the scheduler (`Ticker`) and the
worker thread of every record.

### Actions

| Code | Actions |
|---|---|
| `dispatch`, scheduler tick; `fire_trigger` | `CollectFiring`; `FireVoid`, `FireJoins`, `FireSkips`, `FireStarts`, `FireRaises` |
| `POST execute`, `queue_manual` | `RequestStart`; `ManualStarts`, `ManualRefused`, `ManualJoins` |
| `Engine.retry` | `RequestRetry`; `RetryStarts`, `RetryRefused` |
| `Engine.cancel` | `RequestCancel`; `CancelLooks`, then `FinishQueued` or, lost to a promotion, `FinishQueuedLost` and again `CancelLooks` |
| `queue/clear`, `cancel_unmatched_queue` | `RequestClear`, `PatchTriggers`, `CancelUnmatched`; `FinishQueued*`, `FinishedAll` |
| `drain_queue`, `expire_stale` | `TickDrains`, `PatchLimits`, `Release`; `ExpireStale`, `DrainEnds`, `DrainPromotes`, `DrainDooms`, `DrainWriteFails`, `DrainLaunchFails` |
| `notify_busy` | `Tell` |
| end of `_execute` | `Decide`, `Settle`, `SettleFails`, `Release` |
| `DELETE automation` | `RequestDelete`, `StopLive`, `SnapshotQueue`, `StopPromoted`, `FinishQueued`, `RemoveAutomation`, `RemoveFails` |
| shutdown | `KillAllLive`, `SweepKills`, `SweepEnds` |
| `settings/data-path` | `SetDataPath` |

### Abstractions

* `ended` stands for succeeded, cancelled and interrupted; only `failed` matters
  to the queue, because it can be retried.
* The steps of an execution are one action, `Decide`.
* A record is stamped with its own number, the order of creation, except when
  `ClockSteps` lets the wall clock be set back.
* `cancel` reads the engine state in one lock hold and raises the flag a moment
  later; the two are one action because only the record's own thread can come in
  between, and to it a flag raised after its last look is no flag.
* Limits, triggers and version numbers survive a data-path switch; of the
  automation dict only its identity, `_live` and `_deleting` are replaced.  The
  records stay known: the new location may hold the same ones.
* A Draft that may not be queued, a version that does not resolve and a write that fails are
  choices of the action that meets them, enabled by `Faults`.
* A trigger is one of two kinds, a message or a timer; an entry matches the
  message kind.

### Bounds

`ExecQueue_core` has three scenarios, with maxParallel 1 in each: four records,
one busy handler and maxQueued 2, so that two entries wait behind an execution,
in stamp order, while one of them expires or a third firing comes; three
records, one busy handler, the scheduler, firings, cancels and clears, maxQueued 1;
and two records with two handlers that fire, start, queue, cancel, delete and shut down.
`ExecQueue_edits` has two: two handlers that change limits (two values of `maxParallel`),
triggers and, once, the data path under firings, with two records; and one handler with
two records that fires, starts, queues, retries, cancels, clears and deletes while every
write, launch and look-up may fail and a step may outlive the kill grace.  Only there does
anything fail (`Calm` is ExecQueue without faults).
The wall clock is set back in no run: `FiringQueue` and the order are claimed for a
clock that is not, and the other proofs hold for any.

Four records are the least with which two entries can wait behind a running
execution, so that the order of promotion shows, while another is admitted; two handlers and the scheduler are
the least with which a stale snapshot meets a promotion and an edit.  `Requests`
and `Faults` choose per run which requests and failures occur, so that each run
is small and its subject is reached.  Every property is paired with a mutation
of the code (the `Mut...` operators) that the same run detects.

Fairness (`FairSpec`, used by `Fair`): weak fairness of every thread, of the end of
every execution and of the scheduler's drain.  Executions end because a step is
under a watchdog or is stopped by its user; the scheduler's loop survives any
exception.  A step without a timeout that never ends is outside that assumption.

### Finding in ExecQueue

1. `start`, `queue_manual` and `retry` do not check that the automation dict
   their route looked up is still the registered one.  After a data-path switch
   the old dict has an empty `_live` of its own, and a start goes past
   `maxParallel`.  `fire_trigger` has the check.

## 4. StepLoop

One execution: its engine thread (`_execute`) and the threads that reach into it.
`StepPass` says what running the steps promises: they run one at a time and in
order, what is done stays done, the record's verdict fits what became of them,
and only a failed record is opened again.  `ImplementsStepPass` is checked with
the variables of the same name.  ExecQueue has all of this as its one step
`Decide`.

| Variable | In the code |
|---|---|
| `record`, `step`, `attempt` | `h["status"]`, the status of each step and of its latest attempt |
| `words` | what the latest attempt said through result and notify: not yet, held back (`retried`), or folded into the execution by `fold_attempt` |
| `pc`, `at`, `cur`, `tries`, `failed` | the place of the thread, `i`, `h["_cur"]`, `pass_tries`, `failed` |
| `passes` | how often the record was run; bounded by `MaxPasses` |
| `cancel`, `shutdown`, `signalled`, `skip` | the keys of the engine state (`cancel_signalled`) |
| `proc`, `code`, `signal` | the process of the latest attempt, how it exited, the strongest signal sent to it |
| `canceller`, `skipper`, `sweeper`, `stopping` | the threads inside `cancel`, `skip_step`, `kill_all_live`; `engine._stopping` |
| `asked` | history: the steps a skip was accepted for |

| Code | Actions |
|---|---|
| `_execute`, before the loop | `Prologue` |
| head of the loop | `HeadPasses`, `HeadCloses`, `HeadBegins` |
| a retry is due | `GivesUpRetry`, `TriesAgain` |
| `_execute_step`, `run_step_process` | `Spawn`, `NothingToRun`, `Recheck`, `Reap` |
| status of the attempt | `JudgeRetries`, `JudgeEnds`, `Leave` |
| finalize, except, finally | `Finalize`, `WritesVerdict`, `Notify`, `EngineError`, `GoesOver` |
| `retry` | `Retry` |
| `cancel` / `skip_step` / `kill_all_live` | `CancelFlags`, `CancelLooks`, `CancelSignals` / `SkipAccepts`, `SkipSignals` / `SweepLists`, `SweepFlags`, `SweepKills` |

Abstractions.  The prologue is one action that may fail the execution (a missing
secret, a package that does not install).  The retry wait is one look at the
flags.  A process is alive or exited; its reading and teardown are StepProcess.
A verdict is an exit that no retry would change.  A cancel that read the handle
before the process was reaped is `missed`: it still raises `cancel_signalled`,
and signals nobody.  The log, durations and events are left out.
`Finalize` decides the status and the steps that were cut short, in memory; `WritesVerdict`
is the log line and the record's write after it.  Whoever reads the record between
the two sees the status, and if the write raises, `EngineError` replaces it by
`failed`: of a cancelled or interrupted execution too.  Inside `Finalize` the status and
the statuses of the steps are set by statements of which none may raise, and are one action.

The run has two steps, the first with one retry, the second retried for ever, two
passes, failing gates, missing scripts and exceptions anywhere, and fairness.
Two steps are the least with which a signal or a skip meant for one can meet the
next; one retry is the least with which a step has a latest attempt that is not
its only one; two passes are the least with which a record is run again.

Fairness: the threads run, a grace timer fires, and a process that was sent
SIGKILL exits.  Nothing is assumed of a step that nobody stops.

## 5. StepProcess

The processes of an execution's steps, one after another, each with a reader (the
engine thread), an exit watcher and perhaps a timeout timer; the callers of
`_term_then_kill` with their grace timers; and the shutdown kill.  They share
the engine state of the execution and take no lock around it, so each read and
write of it is an action.

| Variable | In the code |
|---|---|
| `pc`, `cur`, `raised` | the place of the engine thread, the step it runs, whether an exception is ending the execution |
| `proc`, `hardKill`, `grace`, `groups`, `cancel`, `shutdown`, `skip` | the keys of the engine state (`hard_kill`, `grace_timer`, `agent_pgids`) |
| `exe`, `kids`, `agent` | the executor of each step, what it left running (in its group, or escaped from it), and its agent call, whose CLI has a session of its own |
| `timedOut`, `defused`, `readDone`, `watcher`, `watchdog` | `timed_out`, whether the reader was released, `read_done`, the exit watcher and the timeout timer of each run |
| `caller`, `aim`, `hook`, `timer` | where each caller is, the process and the `hard_kill` it read, its grace timer |
| `sweeper`, `swept` | the shutdown kill and what it read |

| Code | Actions |
|---|---|
| up to the read loop | `Spawn`, `Hook`, `StartWatcher`, `Recheck`, `Arm`; `Raises` |
| read loop, reap | `ReadGroup`, `ReadEnds`, `AwaitExit` |
| finally clause | `SettleStep`, `Join` or `JoinRaises`, `CancelTimers`, `DropProc`, `DropHook`, `PopGrace`, `SweepGroups` |
| `_watch_exit`, `_on_timeout` | `WatcherSees`, `WatcherKills`, `WatchdogFires` |
| `cancel`, `skip_step` | `CancelFlags`, `CancelTakesProc`, `SkipFlags` |
| `_term_then_kill` | `Terms`, `ReadsHook`, `ChecksOwner`, `StoresTimer`, `StartsTimer`, `TimerFires` |
| `kill_all_live` | `SweepFlags`, `SweepReads`, `SweepHits` |
| the step itself | `Leaves`, `Exits`, `CallsAgent`, `AgentReturns` |

Abstractions.  The executor runs none of the step's code before it has read its
context.  Starting an agent CLI and announcing it on the pipe are one action.
`_hard_kill` is one action: between its test of who owns the state and the kill
that follows, a whole spawn of the next step and of its agent call would have to
fit.  SIGKILL always ends what it reaches, so the teardown's bounded waits never
give up.  The lengths of the graces are left out: a timer may fire at any time.
A caller does not call again while its timer may still fire.

`StepProcess_core` has two instances of two steps each: with a time limit, one
caller, a shutdown, failing writes and every kind of leftover; and without a
limit, two callers that race and a thread that may not start.  The second caller
comes when the first is at work or its timer is set; an exception is not
combined with a shutdown.
Two steps are the least with which anything left of one can reach the next; two
callers are the least with which one grace timer replaces another.  The shutdown
is left out of the race, where it would only stop the second step.  With one
caller `TimerDiesWithStep` holds; with two it does not: `StepProcess_timers`.

Fairness: the threads run and timers fire.  Nothing is assumed of the step, its
children, or whoever holds the pipe.

### Finding in StepProcess

2. Two cancels or skips of one step store their grace timers in the same slot.
   The teardown cancels the second, and the first fires after the step is over,
   on a process group whose id may have been reused.

## 6. What is kept on disk (MCStorage)

**ExecStore** - one automation's execution records.  `dir`, `yaml`, `pgid`,
`aside` are the directories (a deleted one is renamed before it is removed),
`base` and `wal` the index as checkpointed and as committed since, `execs` and
`live` the table in memory, `group` the step group that may outlive a crash;
`phase` is the start of the backend, `op` the change under way and the write it
is at.  `Begin` ... `Remember` are the yaml, index and memory writes of create,
promote, retry, finish, skip and delete; `SelectOld`, `StillSettled`, `SweepOld`
the retention sweep; `Crash` and `PowerLoss` strike between any two (a power
loss keeps a prefix of the commits since the checkpoint); `Load`, `Reconcile`,
`DropGhost`, `RepairRow`, `KillOrphans`, `Interrupt`, `Serve` are the next start.
`RecordsSurvive`: nothing created is lost, nothing deleted returns, an outcome
stays, a free slot means a dead step group.  `RepairsSpare`: when a reconcile is
over memory says what the yamls say; a sweep deletes nothing reopened.
Two records, two crashes: a second crash is needed to strike the repair of the
first.

**MemorySnapshots** - contents are numbers, and a copy an execution wrote under
is `Torn`.  One memory operation (`task`) copies outside the lock and commits
under it; executions start, write and end around it; `Die` may strike between
the renames of a swap, and `MemoryLoads` repairs.  `MemoryIsKept`: no torn copy is
kept, memory is always one its user was told of, a restore can be repeated, a
delete leaves nothing.  **MemoryStats** - the size walked behind it: `FeedsAreTrue`
says a size that counts as fresh is the size of what is there.

**Versions** and **DraftSwap** - version folders whose manifest lands before the
pointer that adopts them, scripts that another program edits, a load that adopts
folders; a draft written beside the old copy and swapped by two renames.
`VersionsAreKept`: the history is what was answered, the pointer resolves, a seal
names text the app itself validated, a draft survives a crash at any rename.
Three versions are the least with which a failed number is reused
after a successful one.

**Transfer** - records and references of an archive: `Packed` (export), `Valid`,
`Trimmed`, `MatchSecrets` and `MatchAgents` (by name, by name and configuration, by
configuration, then by likeness), `Landing`; between export and import the
machine's records may differ and a file may be edited by hand (`Forged`).
**ImportPark** - the parked archive between preview and confirm: file, slot and
timer, with expiry, eviction, double confirms, failing unlinks and a death.
**Fetch** - listing calls and download from a server that answers as it likes.  One
deadline is handed through, but the code looks at it only when an open begins and
between the chunks of a body.  An open is therefore any number of `Waits` (connect,
TLS handshake, a read of the headers, the body of a redirect, and the same again on
the next hop), each with the whole socket timeout; `Horizon` bounds their sum, and is
any number in the proof.  What does hold is said of bodies: the reading
of one ends by the deadline of the whole import, or with its first chunk when the
response came later (`BodiesEndByTheDeadline`).  That an open ends by it too is
not so (section 10).  `ArchivesLandWhole` is about Transfer: a round trip gives
back what was exported, every reference is granted or reported.
`FetchedStaysTrue` is about what comes from outside: an import lands
once and in time with its file, a body ends by the deadline and is whole, and a
catalog is what its place holds.

**Market** - catalogs: table, rows in memory, a copy per row, places on disk.
Reads happen outside the lock, and rows move or go meanwhile; the table write may
fail and rolls memory back; a damaged table makes the store read-only.
In `FetchedStaysTrue`: a row said to be read shows its own place, the page shows the
table the next launch will have.  Two rows, two workers, three reads.

## 7. What starts executions (MCIntake)

**TriggerTimes** - the arithmetic of triggers as operators: a zone is a function
from instants to offsets, so that a fall-back repeats readings and a gap erases
some; `CronNext`, `OnceAt`, `IntervalNext`, `NextOccurrence`, `Overdue`, and the field
and duration texts.  **TriggerTexts** drives them over all small texts and compares
them with what released versions or the documented rules make of them
(`TextsMeanWhatTheySay`).  **Scheduler** - the tick in its steps (drain, scan of each
trigger, firing in order, settling) with edits, deletes, sleeps, backward steps,
zone changes, shutdown and restart between them.  A firing takes two lock holds, `_fire`'s
look (`NotAttempted`, `LooksFresh`) and `fire_trigger`'s own (`CalledOff`, `Refused`, `Attempted`,
`StartFails`, `SkipFails`), and an edit or a delete may come between them.  Every write
of a tick may fail: the consumption of a spent one-shot or the record of a skip raises and ends
the automation's share of the tick (`Abandons`), a failed start and a failed drop record
are logged and nothing more, a one-shot that fired stays on the list.
`OccurrencesFireOnce`: an
occurrence that passed while its trigger was on and watched is answered, none
fires twice, one-shots are not lost, only what was slept through is dropped.  Two losses are excused
and named (`voided`): what a tick had taken on when a write failed, and what
`fire_trigger` called off after `_fire` had looked, which is finding 4.  What becomes of a
firing refused by a shutdown in the next session is told in section 10.
Instants are small integers; the two zones have one transition of one hour each, a
fall-back and a spring-forward.  A behaviour has at most two of the things that may
befall the clock, the user's list or the disk (an edit and a step, or two steps: clock steps, zone
changes, shutdowns, failed writes), and a failed write meets no clock step and no zone change.
The interval trigger, which reads no zone, begins in one of the two.
The data path is in reach for a whole session or not at all.  Two steps back count together: once the clock is behind a firing
by more than the hold, `FiresOnce` says nothing more.
**Sweeps** - the hourly gates under a clock stepped back.

**Gateway** - one connection per token secret: asking for the token, session,
ready, waiting to retry; `reconcile` starts, drops and replaces connections in its
steps, and `stop` takes its snapshot between any two.  Every ready session hears
every message, so two connections deliver one message twice.  A dispatch holds the
store's lock and looks its automations up one at a time, in any order (two of them in
the run); each lookup finds the pair of message and automation remembered, or
remembers it and fires.  **ChatWatcher** - the
ROWID cursor over a database that is denied, fails half-way, or is replaced by an
older copy.  **Launches** - launch reports retried until answered.  `MessagesFireOnce`
and `ListenersStop` speak for the three.  `SeenLimit` and `LaunchMemory` are 1, so that
what the memories forget is reached: a message may fire again for an automation only
after at least `SeenLimit` other pairs were looked up (the ghosts `lookups`, `looked` and
`outOfReach` count them), a launch only after its entry is gone.

## 8. Authoring (MCAuthoring)

**DraftSettle** - two editors save or discard one draft while tests and draft
executions run and the automation is removed: the first lock hold checks, the
second changes, and between them tests are cancelled.  **DraftJobs** - two requests
for a drafting job, cancels, settles, removal and shutdown around the job's
thread, its program and the guard of locked scripts.  Whoever cancels (a later start, a
user, `cancel_for`, the shutdown) marks the job under the registry's lock and
signals its program after it: in between the signal is `owed`, and `_kill_harness`
signals what the holder names by the time it looks, nothing if the program has
not been registered yet.  `cancel_for` notes the building jobs in one hold (`noted`)
and cancels them one by one in others.  So `CancelReachesTheProgram` says of a
cancelled job with a live program that its holder names it and a signal is owed, or that
the thread has yet to take its second look at the flag.  That second case is one the
process may not live to see: `Exits` ends it with its threads wherever they are
once the shutdown has sent its signals, and section 10 is about what is left.
In the run a program that rewrites the locked script meets no settle, removal or shutdown
(`TampersAlone`; none of them looks at the script).
`DraftsSettle`, `JobsStayInTheirDraft`, `WorkNeverGoesBack`.

**AgentCall** - one call: the invoking thread, the watchdog (silent window and
hard cap), the prompt writer, the scratch watcher, a cancel at any moment, and
a child that is silent, endless, lingers after closing its output, or leaves a
helper behind that holds its pipes.  **ProviderConfig** - two threads of the backend
and one executor merge into `opencode.json`; the sign-in probe.  **OllamaPull** -
two pulls of two models over either path.  `AgentsAreReleased` joins them.

**AgentReply** (with the stream's scanner), **ChatRounds** - the text side: a reply grows a line
at a time, so every bounded reply is reached; chunks cut a stream anywhere; each
repair round keeps the good blocks of the ones before.  `RepliesAreReadBack`: documents
come back whole, the marks the scanner hands out are those of the text so far, each
once and in order, and what a chat settles on was validated.  Lines are of the few
kinds the parsers tell apart, in a document too.  That matters because `_recombine` frames a
document's text as it stands, without escaping: a document that holds an `===END===` line is
cut there (the property says so: it comes back up to that line); one with a `===FILE:` line is
split into two blocks, and one with a `===BLOCKED===` line outside its fences is taken for a blocker.
Of these last two the property says nothing (`Unmarked` leaves them out), and nothing in the code
rules them out; `agent-pipeline.md:808-816` describes how a block ends, and promises no more.
The scanner has the file markers: the 64 KiB cap on the retained tail, and the scan for
the blocked marker, which follows the same rules for a label of the progress feed, are not modelled.

## 9. Liveness (MCFair)

The parts start side by side and a behaviour runs one of them.  Fairness is
weak and asked only of the backend's own threads, which wait for nothing but locks
that are never held across a wait: every handler, worker and scheduler thread
of ExecQueue, executions that end; reader, watcher, watchdog and signalling
threads of a step; the connection threads and the reconcile loop; the event
loop's fan-out and each client's handler; the memory walk; reader, watchdog and
clock of an agent call.  Nothing is assumed of a step, an agent, a server or a
network.

`ExecutionsMoveOn`: an entry leaves the queue, an accepted delete ends, a step ends
after its exit, a stop or its limit.  `FeedsCatchUp`: a wanted bot is heard again, an
event reaches every client that stays or its socket closes, a size catches up,
an agent call returns.  `FeedsAreTrue` is the safety side of the feed and of the
size.  A step with a time limit meets no shutdown here (`NoSweepWithLimit`, a bound
on the run's size; StepProcess_core has both together).

### Finding in OllamaPull

3. `api.py:2814` and `spec/backend-api.md:878` cap a pull's time on both paths.
   On the command-line path the clock is looked at when a line arrives and only
   then: a child that prints nothing more is waited for without end, and its
   model stays in `_pulling`, so that every later pull of it is refused.
   `OllamaPull_cap` checks `PullsEnd` with fairness for every thread of the backend.

### Finding in Scheduler

4. Several triggers of one automation may be due in a tick, and one execution answers them
   all.  `scheduler.py:351` says that one whose snapshot turned stale "is never attempted - the
   next due one in order is, rather than abandoning the whole group", and
   `spec/data-model.md:487` that a one-shot is consumed only when an execution started
   or a skipped record was written.  `_fire` looks for staleness in one lock hold
   (`scheduler.py:418`) and fires in another.  If the trigger is switched off
   between them, `fire_trigger` starts nothing, records nothing
   and answers `False` (`firing.py:121`), which `_fire` does not look at: the group counts as
   fired, and every other due trigger, a one-shot among them, is given up with no
   record.  `Intake_stale` checks `NextDueIsTried`.  The same answer is given while a delete is
   under way (`firing.py:109`); a delete that then fails has cost the automation its due one-shots.

## 10. Narrower divergences

Each is a behaviour of the models that departs from a comment or a document, in
a narrow window or after a failure that is rare.  No run is kept for them; where
a definition states what the text says, it is named.

* `queued_execs` sorts by a wall-clock stamp, so a clock set back lets a later
  entry go first (`firing.py:32`, "nothing jumps the queue").  `QueueIsFIFO`
  therefore assumes `ClockSteps = FALSE`.
* The slot of an ending execution is freed by the final `update_execution`,
  before the lock hold that is said to free it together with the engine entry
  (`engine.py:1950`): `Settle` comes before `Release`.
* `skip_step` answers from `h["_cur"]`, which still names a step for a moment
  after its process was judged; such a skip is accepted and forgotten, where
  `spec/execution.md` has it refused: `SkipAccepts` after `JudgeEnds`.
* The thread that posts the end notification is started inside the `try`; if it
  cannot be started, the handler rewrites a succeeded record to failed
  (`engine.py:1897`): `EngineError` at `written`.  Likewise a failing write of the verdict
  turns a status that was already visible (succeeded, cancelled or interrupted) into failed
  (`engine.py:1847`, 1881, 1907): `EngineError` at `decided`.  Both are `Overrule` in `StepPass`.
* If the exit watcher's thread cannot be started, the teardown raises where it
  joins it, and skips the rest of its clean-up (`engine.py:690`): `JoinRaises`.
* A read loop that has timed out does not look at the lines left in the pipe, so
  an agent call announced just before the limit is never known, and its CLI
  outlives the step (`engine.py:569`): `PipeOver`.  `GroupDiesWithStep` speaks
  only of calls the engine knew of.
* A write error while the head of the queue is promoted was meant to leave it
  waiting (`firing.py:374`).  `promote_execution` has by then changed its status
  (`storage.py:2771`), and the head ends `skipped`: `WriteErrorKeepsHead`.
* An occurrence repeated by a fall-back fires twice when its first pass was slept
  through and a tick between the two passes caught up for it
  (`spec/data-model.md:668`, `triggers.py:319`): `RepeatedFiresOnce`.
* A trigger first seen counts from the previous tick; after a backward step, or a
  move to another zone, that instant may lie after an occurrence that is still to
  come (`scheduler.py:225`).
* A step back across a fall-back may leave a wall reading no earlier than the
  baseline's, and the baseline is then kept although its instant is ahead
  (`scheduler.py:244`).  It does no harm until the system zone changes too: the next tick
  finds the baseline ahead, moves it to now, and an occurrence since the last tick
  passes unanswered.  The model keeps a step back and a zone change apart (`MayStep`).
* Of several times of one cron that the same spring-forward gap erases, or of one it erases
  and one just after it, the earlier is computed first and shifted; the baseline its
  firing leaves then reads past the later one, which never fires (`20,40 2 * * *` fires at 3:20
  only, where `spec/data-model.md:666` has an erased time fire shifted;
  `triggers.py:286`, `triggers.py:773`).  A trigger that does not catch up judges its grace
  by the same computation and may drop a fresh occurrence (`scheduler.py:319`).  The run's
  crons have no two times so close.
* A settle lists the jobs that are building and drops the held outcomes in one
  lock hold and cancels afterwards; a job that ends in between is held in its turn
  (`drafting.py:2370`): `NothingHeldOver`.
* Two jobs of one owner, the first cancelled with its program still running: what
  that program writes to a locked script is what the second job's guard takes for
  the owner's (`drafting.py:2140`): `LockedScriptSurvives`.
* A poll that has passed its look at `_dead` emits a `file` event after the call
  is over (`harness.py:1128`): `FeedEndsWithTheCall`.
* When the table write of a catalog's save fails, the row is put back and the
  archives are removed, but the catalog text already written still lists them
  (`marketplace.py:1459`): `ListedArchivesExist`.
* The comment of `open_timeout` has "a slow connect and header read" not outlast the
  deadline of an import.  The timeout bounds each socket operation and not their sum: a
  server that sends a byte of its headers at a time, or one redirect after another,
  is waited for past the deadline, which is looked at again only after the first chunk
  of the body (`transfer.py:1525`): `OpensEndByTheDeadline`.
* "A stopping backend must never leave an agent harness session group running with nobody
  to collect it" (`api.py:170`).  `kill_all_building` kills what the holders of the building
  jobs name; a program is named only some statements after it was spawned
  (`harness.py:1327`, 1359), and the look at the cancel flag that is to catch it (1392) is
  the spawning thread's, a daemon that ends with the process: `HarnessesDieWithTheBackend`.
* A firing that the stopping engine refused leaves its one-shot on the list, which "fires
  at the next start's wake catch-up instead of vanishing with no record"
  (`scheduler.py:435`).  The next start knows no earlier tick and counts from its own, and the
  one-shot's moment has passed: its first tick consumes it unfired (`scheduler.py:339`),
  with no record, as `spec/data-model.md:489` says: `RefusedOneShotFires`.
* A sweep of the catalogs that is told to stop between its last look and the
  table lock still commits (`marketplace.py:1071`).
* An import's spool file whose unlink fails in a sweep is left until the next
  start (`api.py:1593`): `leftover`.
* The reconcile reads again only what is newer than the index file.  If SQLite
  checkpoints while a start reconciles and the power is lost before it is done,
  the file is newer than a yaml it had yet to read, and the next start passes
  over it (`storage.py:1077`; the fault `late_checkpoint` of ExecStore).
* The same for a row whose write failed (`storage.py:2791`): once another commit has made the
  index file newer than its yaml, a start keeps the old row, and a start whose own
  upsert fails keeps it too (the faults `index` and `index_at_start`).
* In the pending slot, a copy set aside by one failed save outlives a delete cut
  off by a second failure, and the next start recovers it (`storage.py:2487`).  It
  is a draft whose save was answered or left in doubt, and the delete was never
  answered, so `DraftSurvives` allows it; but the user had asked for it to go.
* A block of two fenced pieces loses the line that opens the first and the line
  that closes the second (`drafting.py:782`); the notes beside a blocker are lost
  when the prose before it leaves a fence open (`drafting.py:889`).
* If the directory of `opencode.json` cannot be written to, merges are not
  serialised, on the ground that their writes fail too (`harness.py:1648`); the
  write succeeds where the file is a link to a writable place.

## 11. Proofs

Every theorem holds for all values of the constants that satisfy the `ASSUME`s of
the modules: any number of records, threads, steps, clients, rows or versions.
Each rests on an inductive invariant whose parts are named in the proof module;
the lemmas that a step keeps it have one case per action.  Where a theorem has a
hypothesis of its own, it is a condition on the constants which the run of that
property meets, except where said.

### The queue: ExecQueueProofs, ExecQueueAccounts

* `TypeCorrect`.  One lemma per operator the actions are built from
  (`CreateType`, `LaunchType`, `RestsType`, ...), then one case per action.
* `ExecutingAlwaysHasThread`.  Not inductive alone: a new record could take a
  number whose thread is running.  `ThreadInv` adds that unused numbers name no
  record and that what does not exist has no thread.
* `QueueIsFIFO`, for `ClockSteps = FALSE`.  `OrderInv` adds that stamps follow the
  order of creation and that a retry judges the queue of its own record's
  automation; `StartsInOrder` then goes through every way to start.  A
  clock set back does let a later entry go first (section 10).
* `SweepNeverMisses`.  Inductive with the types; the frame lemma says that a step
  which starts nothing and leaves the sweeps their lists cannot break it.
* `DroppedAnsweredOnce`.  `HoldInv` says what a thread holds between two lock holds
  (the automation it admits to, the one record a cancel is about, that nothing
  with a thread waits), `TellInv` that an answer owed is owed by one thread, which
  is still at the drop.
* `SlotsAlwaysMatch`.  A slot stands in the dict a thread looked up, so the
  invariant needs that a dict not yet registered has no slots (`FutureSlotsFree`)
  and that what frees a slot frees it in the dict it was taken from.  Its
  hypothesis `StartsAreCurrent` leaves finding 1 out: either no data-path switch, or no
  start by hand.  `ExecQueue_edits` runs with a switch.
* `QueueAlwaysAccounted`, for no data-path switch and `GraceExpires = FALSE`.
  `DeleteInv`: while a delete is at work its automation is closed, what executes is
  among what it waits for, what waits is among what it has yet to end, and no
  second delete is at it.  A step that outlives the kill grace does remain after
  a delete; the code says so.
* `EditsAlwaysReach` from `UnmatchedEnds` (an entry no trigger would admit is on the
  list of a thread that ends it; a failing write ends that thread, hence the
  hypothesis `"write" \notin Faults`), `OnlyCancelsEver` and `SlotsAlwaysMatch`.
* `StopsAlwaysHold`.  `CancelDone` is the step with which a cancel lets go of its
  record; a record that waits, executes or has ended is in each case stopped.
* `LimitsAlwaysBind`.  `AdmitInv` lets a starter compare the slots of the dict it holds with the
  executions there are (`SlotsMatchThreads`), which bounds one cardinality by
  the other; the moves of one record change a cardinality by at most one.
* `QueueKeepsPromise`, the refinement `Spec => FiringQueue!Spec`.  Every action is first
  sorted into a few `Moves` (admit, start, promote the head, leave, end, set limits,
  stutter), then each move is matched with the action of `FiringQueue`.  Hypotheses:
  `ClockSteps = FALSE`, and no start from a replaced dict.

### One execution: StepLoopProofs

* `TypeCorrect`.  One lemma for each of the three parts of the type invariant.
* `VerdictFits`.  The final status is computed from flags and steps long after
  the loop decided, so the invariant must know what the loop leaves behind it:
  `HeadInv` and `StepInv` say that a step behind the loop is done, or the flag
  that explains why it is not is up (`Settled`), that a step ahead is neither
  executing nor failed (`Ahead`), and what the step under the loop reads at each
  place; `RecordInv` ties the record to the place.  Callers only raise flags, so
  one frame lemma (`RestsLoop`) covers all they do.
* `PromiseKept`, the refinement `Spec => StepPass!Spec`.  From the same invariant:
  each action is a `Start`, `End`, `Close`, `Finish`, `Overrule` or `Reopen`, or
  leaves record and steps alone.  The order in which steps run is not visible in
  the actions; it follows from `Settled` with no flag up.
* `SkipsFitRequests`.  `AskedInv` adds that a pending skip was accepted.
* `SignalsArrive`.  `MissedInv` adds that a canceller whose process was reaped
  under it is never at a place where another process is alive: the cancel it
  raised keeps the loop from starting one, and a retry forgets it.
* `AttemptsTell`.  `ProcInv` ties the process to the place of the thread and a signal
  that was sent to the flag it was sent for, so that an attempt judged after a signal
  cannot read failed.

### The processes of its steps: StepProcessProofs

`StepInv` says, for each place of the engine thread, which process the shared state
names (`EngineFits`), which processes and exit watchers there are (`RunsFit`: a step runs only
with a watcher, and a watcher that is through leaves no group), that every agent call
known to run is listed with the groups of its run (`AgentsFit`), and that by the time a
caller stores its timer, the `hard_kill` it read is that of the process it signalled
(`CallersFit`).

* `GroupsDieTimersAim`: a step's group dies with it, and a kill timer never fires at
  another run's group.
* `AgentsDieWithTheirStep`, an action property (`OnlyOwnAgents`).
* `OneCallerLeavesNothing`, for one caller and where no thread fails to start: a step that
  is over leaves no handle and no armed timer.  With two callers that race, the timer
  stored last is the one that is named, and the other outlives the step: finding 2.
* `StepsAlwaysEndClean`: the property as `StepProcess_core` checks it, for any callers, which
  race only in executions without a step limit.

### What is on disk: StorageProofs

* `MemoryAlwaysKept`.  `MemoryInv`: which executions run beside an operation on
  memory (`RunsFit`: none that started unseen, since the start token has not
  moved), what it has staged (`StagedFits`: a copy that was written under is never
  committed), where a swap stands (`SwapFits`: memory is what its user was told, or the
  directory set aside is).  Hypothesis `CopiesAlone`: executions run one at a time, or
  no copy is taken before a version's first run.  Beside a sibling that copy is
  best effort (`spec/engine.md:815`), and the token does not speak for it.
* `NamedAlwaysSpared`, an action property: no prune takes a named snapshot.
* `VersionsAlwaysKept`.  `VersionsInv`: the numbers up to the pointer are those that
  were answered, each with its content in its folder (`PromisesFit`); a write in
  progress is of the number after the pointer, and from its manifest on its files
  are in place (`WriteFits`); what is loaded is what the pointer names
  (`LoadedFits`).  For the draft, `SwapInv` says at each rename which of the three
  places holds a whole copy.
* `FetchedAlwaysTrue` and `GarbledAlwaysSpared`.  For a parked import, `ParkInv`: an archive has
  a slot only between its preview and its first confirm, and a timer with it (`ParksFit`);
  a confirm that holds an archive holds it alone and before it ever landed
  (`ConfirmsFit`); a file outside the slots is one somebody is at or one a failed unlink left
  (`SpoolFits`).  For a download, `FetchFits`: a body is being read while the
  deadline has not passed, or its response came after it and nothing was read yet.  For catalogs,
  `MarketInv`: the table in memory covers
  the one on disk, also while a write of it is rolled back; a row said to be read
  has a copy of its own place; what a worker has read outside the lock is of the
  place it says, which its commit compares with the row's; one worker clears a
  given directory; while the table is garbled nobody is at a change.
* `ArchivesAlwaysLandWhole`, of any archive, landed on any records the constants allow.
  A listing has every member of its set once (`OrderedIs`), so an id is found again at
  its reference (`ThereAndBack`).  A pass of the matching is a walk along the listing
  (`PassIs`; the walk exists because no shortest listing can lack one), which never takes back
  a match nor gives one record to two references (`PassKeeps`); where every reference is
  offered its own record the pass finds it (`PassFinds`), which holds of the first pass over
  a plan's own export (`OwnMatches`).  `ArchiveInv` then carries two facts through edits and
  moves: any file is an archive (`ForgedFits`), and one that was not touched is what the
  plan's export wrote on this machine.  Assumed (`TransferAssumption`): no two secrets,
  and no two agents, of a machine have one name, as the API enforces it when they are
  written (`api.py:493`, `api.py:3001`); names made equal by an edit of the files are left out.
* `StorageAlwaysTyped`, the types of the eight parts, with no hypothesis on faults or on
  executions that run beside each other.  What a restore stages is the content of a
  snapshot that is still there, and what is placed belongs to an operation that keeps one
  (`TaskTyped`); a row of the index is that of a commit or of the file (`RowTyped`); what a
  worker lands in a catalog is of a known place (`MarketTyped`).
* `RecordsAlwaysSurvive`.  `StoreInv`: every record's directory is in place or was taken
  away for good (`PlacesKept`); a step group that is left is of a record whose yaml says
  executing and names the group, so the start that finds it kills it (`GroupsFit`); of
  a record whose row must be right (`Firm`: an outcome was told of it, or a group runs),
  the row is the yaml's, or the yaml is newer than the index file (`RowsFollow`), so what
  the reconcile passes over it may pass over (`StartFits`).  `RowsEver` is what a power
  loss may leave of the commits.  The invariant allows for index writes of a serving
  backend that fail: the yaml is ahead then, and nothing has been told.  Hypothesis
  `RowsLand`: a start's own index writes succeed, and SQLite does not checkpoint
  while it reconciles.
* `RepairsAlwaysSpare`, an action property, joins what `StoreInv`, `NamedAlwaysSpared` and
  `GarbledAlwaysSpared` give.  Hypothesis `EveryRowLands`: in addition no index write
  of a serving backend fails.  Section 10 has the behaviours that both leave out;
  without the hypotheses TLC finds them.

### The feed, the sizes, and what starts executions: FairProofs, IntakeProofs

* `FeedsAlwaysTrue`.  `HubInv`: what a subscribed client has seen, what is in its queue
  and what the loop has yet to hand out are together all that was published, in
  order; a client no longer subscribed has the overflow marker at the end of its queue.
  `StatsInv`: the generation counts the contents there have been, so a walk
  of the current one saw what is there.
* `SweepsAlwaysGo`.  The time waited is what the clock shows since the last sweep and at
  most an hour and a tick more for each step back; a notification is out exactly
  while its automation is in `_overdue_notified`.
* `ListenersAlwaysStop`.  `GateInv`: a connection that means to stay is in the table under
  its secret, hence at most one of each, and the snapshot `stop` takes of the table
  misses none.  `ChatInv`: the same for the one watcher and its notice.
* `MessagesAlwaysOnce`.  `RecallInv`, for the gateway: a pair of message and automation that
  fired is in the memory unless `SeenLimit` others were looked up since, because the
  memory is the latest lookups in their order.  For the Messages
  database, every row is at or before the cursor or will be read, and what fired is at or before it
  (`CursorFits`, `FiredFits`); for launches, a launch that is remembered has at
  most one request at work, and what that request has yet to fire has not fired.
* `TextsAlwaysMean`: facts about operators, for every field, length and trigger
  the constants may hold; the ones about cron steps and units need division.
* `IntakeAlwaysTyped`, the type invariant, part by part.

### How an automation is written: AuthoringProofs

A behaviour of `MCAuthoring` is about one part, so `AuthoringInv` is one invariant
for each of its eight parts (`OnePartMoves` takes a step of the composition
to a step of the part).

* `DraftsAlwaysSettle`.  `DraftInv`: a test's record is of the draft that is there, or
  the test was live when that draft was settled; then it carries the mark that makes its
  thread delete the record, and has been told (`OldTestsFit`).  Between the two halves
  of a removal every live test has both (`RemovalFits`), and the draft's test summary
  is of a test of this draft that is over (`SummaryFits`).
* `JobsAlwaysStay`.  `JobInv`: a building job that is of an older draft, or of an
  automation being removed, is before the scan of a settle or noted by one
  (`StaleAreListed`), and none builds once the shutdown has begun (`NoneBuilds`); what a
  program's holder names and where its thread is fit (`JobsFit`); while one job
  alone has made calls, what its guard will write back is the owner's script, and the
  script differs from it only inside a call (`ScriptFits`).  A mark adds the signal to
  what is owed (`MarkedAre`), and only sending it takes it away (`SignalKeeps`), which
  leaves no live program that its holder named.  Steps of the registry
  and steps of a thread have one frame lemma each (`RegistryKeeps`, `ThreadKeeps`).
  What `JobInv` says of threads and programs it says while the backend runs.
* `WorkNeverBack`, action properties of the jobs and the pulls, from `JobInv` and
  `PullInv`: only a start cancels beside starting, and it starts a job of the
  current draft; the figure of a pull is raised within 0..100.
* `AgentsAlwaysReleased`.  `CallInv`: the holder shows the whole process before the reading
  begins, so a cancel that comes later releases the pipes, and the second look at
  the flag sees one that came earlier (`CancelReleases`); the child is reaped on each
  way out (`ChildIsReaped`), and from there on the verdict and the
  document stand (`VerdictIsDue`).  `ProviderInv`: a call between the lock and the write holds the
  lock file wherever the directory can be written, so what it read is what is there.
* `RepliesAlwaysReadBack`.  For the repair rounds, `CarriesTheNewest`: what
  is carried forward is the newest block of its name, and every block that came
  last in good form is carried.  For a stream, `ScanInv`: every match but the last is
  settled by what has arrived, and the window that is searched again reaches back to the
  start of any line that has not ended, so no match is missed or handed out twice.  For a
  reply, `ReplyInv`: what the parser keeps as prose has its marker lines fenced and
  leaves no fence open, so that the first marker read back in an envelope is that of
  the first document (`KeptProse`, `BesideEnvelope`, `EnvelopeReads`); a document's block is what stands
  before its own end line, if it has one (`CutIs`, `BlockIs`).

* `AuthoringAlwaysTyped`, the types of the eight parts.  Not inductive as they stand: the
  epoch and the settles still open are together at most the settles there were, and no
  version is more than one above the epoch (`SettlesFit`, `VersionsFit`); a pull has one
  terminal event (`OneTerminal`), so its figures stay in range (`PullTyped`).

### Only model-checked

* Liveness (`ExecutionsMoveOn`, `FeedsCatchUp`, `StopsAndSkipsLand`) and `ENABLED`: out of
  the prover's reach.
* `OccurrencesFireOnce`: it holds in the run and is not a theorem.  Of two times of one cron
  that a spring-forward gap shifts together the later may never fire (section 10);
  the run's crons have no two such times.

## 12. Not modelled

`PROJECT.json` lists every component with its status.

* *Text.*  Prompts, diagnoses, previews of archives, listing texts, log lines and
  notifications are data, except where sections 7 and 8 say otherwise.
* *Formats.*  Zip and YAML parsing with their limits (`untrusted_yaml.py`,
  `textsafe.py`), the serialisation of records, version diffs.
* *The host.*  Packages, installer, service registration, keychain and vault,
  notifications, the Windows process control (which has no process groups), the
  discovery of programs and models: one call of an operating-system tool after
  another.  A secret that fails to be read is a failing gate of StepLoop.
* *The data-path switch* beyond what it replaces in memory: the reload is
  ExecStore's start, the rest of the switch copies files.
* *Clients.*  The command line keeps no state.  The desktop app shows what the API
  answers; its launch reports and its end of the event feed are in Launches and
  EventHub.
* *Routes* that read, or that edit one record in one lock hold.
