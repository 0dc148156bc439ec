# Formal model of the claw_v2 daemon

`src/claw_v2` is a personal agent that runs as one long-lived daemon process:
it talks to its owner over Telegram, plans and executes tasks with several
language-model providers, and does most of its work in background threads.
What the threads share is one SQLite file behind one lock, and the table that
decides which thread works on what, after which crash, is `agent_jobs`.  This
project models that table, the protocols built on it, the connection under it,
the event stream, the approvals beside it, the life of an autonomous task
across all of them and the phases in which the coordinator carries a task out;
it checks them with TLC and proves the central properties with TLAPS.

    tla/
      JobService.tla          the durable job registry (jobs.py)
      JobQueue.tla            what the registry promises: an abstract queue
      JobServiceProofs.tla    theorems about JobService
      JobRunner.tla           threads that execute jobs, and the recovery lanes
      JobRunnerProofs.tla     theorems about JobRunner
      OwnerNotification.tla   the outbox of notices to the owner
      OwnerNotificationProofs.tla  a theorem about OwnerNotification
      ResearchLane.tla        the durable NotebookLM research lane
      ResearchLaneProofs.tla  theorems about ResearchLane
      RuntimeDb.tla           the shared, self-healing SQLite connection
      EventStream.tla         the event stream and its spill file, over RuntimeDb
      EventLog.tla            what the event stream promises
      EventStreamProofs.tla   theorems about EventStream and RuntimeDb
      ApprovalManager.tla     requests for approval: files, locks, cache
      Decision.tla            what a request for approval promises
      ApprovalManagerProofs.tla  theorems about ApprovalManager
      TaskLedger.tla          one row of agent_tasks and what writes it
      AutonomousTask.tla      a task across ledger, job, session and threads
      AutonomousTaskProofs.tla   theorems about AutonomousTask
      Coordinator.tla         the phases of a task, its files and checkpoints
      CoordinatorProofs.tla   theorems about Coordinator
      MC*.tla, *.cfg          instances for TLC

Run a check with `tlc -config JobService_formal.cfg MCJobService.tla`, the
proofs of a module with `tlapm JobServiceProofs.tla`.

## 1. Inventory

| component | source | state it keeps | operations | what is hard |
|---|---|---|---|---|
| **Job registry** | `jobs.py`, `maintenance.py` | rows of `agent_jobs`: status, attempts, lease owner / expiry / generation, next_run_at, resume_key; a safe-mode latch | enqueue, reserve, claim, claim_next, complete, fail, reschedule, park, heartbeat, release, checkpoint, three cancels, two reapers, prune | late calls of superseded threads, crash recovery, racing enqueues, a sampled clock, two regimes |
| **Runners and lanes** | `scheduled_background_jobs.py`, `daemon.py`, `main.py` | the claimed record; a timed-out handler's future | run_available, run_once, reclaim, stale lanes | handlers that outlive their timeout or their lease; truthful events |
| **Owner notices** | `daemon.py`, `lifecycle.py` | `owner_notification` jobs | enqueue, drain | crash between claim, send and close |
| **Research lane** | `notebooklm_research_runner.py`, `external_effect_executor.py`, `notebooklm_research_effect.py`, `f2_durability_store.py`, `notebooklm_cdp.py` | `external_effect_records` | record intent, apply, recover, verify | an irreversible effect outside the database, known only by a source count |
| **Approvals** | `approval.py` | one JSON file per approval, a directory of resolved ones, a cache of the pending | create, approve, confirm, reject, archive, reissue, expire_due, reap_resolved, list_pending | a lock on an inode and an atomic replace of the name, a reaper without a lock, a cache filled by readers |
| **Task ledger** | `task_ledger.py` | rows of `agent_tasks`: status, verification | create (upsert), mark_running_checkpoint, mark_terminal, mark_stale_running_lost, reconcile_false_successes | three of five writers do not look at the status they overwrite |
| **Autonomous task handler** | `task_handler.py`, `f4_delegation.py`, `daemon.py` | session counters, the task ↔ job link, `_task_threads`, `_cancelled_tasks` | start, run, judge, resume, cancel, materialise; watchdog and orphan pass | three stores written one after the other by four actors |
| **Event stream** | `observe.py` | `observe_stream`, drain markers, a spill file | emit, spill, drain, compact | no event lost or doubled around crashes, busy locks and a healing connection |
| **Shared SQLite runtime** | `sqlite_runtime.py` | one connection, one lock, health, the degraded latch | transactions, drift check, reconnects | heals itself under the feet of every store |
| **F2 checkpoints and planner** | `f2_recovery.py`, `f2_durability_store.py` | writes, phase checkpoints, recovery cursors | record, classify, plan | a write and its checkpoint are two transactions, the files a third |
| **Coordinator** | `coordinator.py`, `task_handler.py`, `langgraph_coordinator.py` | a scratch directory per task (files of each phase, the implementation marker), an armed re-drive | run, dispatch in parallel, self-heal, detect, resume, re-drive, prune | a run may end anywhere; the next one decides by files and checkpoints what was done |
| Cron | `cron.py` | last run per job | run_due, restore | daily slot, bounded retry |
| NotebookLM threads | `notebooklm.py` | orchestration jobs | start, poll, complete | polls that are claims, closes from request threads |
| Capability grants | `capability_grants.py` | grants with expiry | grant, revoke, list | clock only |
| Brain, providers, bot, Telegram, memory, wiki, computer, tools, skills, configuration | the rest | conversation, text, plug-ins | | data and I/O, no shared protocol |

How they interact.  Everything durable goes through the registry: cron jobs,
the task handler and the bot *enqueue*; runner loops in threads of the daemon
*claim*, execute and *close*; two lanes of the daemon (`main.py:1771-1824`) and
each scheduled runner *recover* rows whose thread is gone; the daemon's tick
*cancels* jobs of finished tasks; a retention pass *deletes* terminal rows.
A thread keeps, between claim and close, only the `JobRecord` its claim
returned.  The research lane adds a second table, written ahead of an external
effect.  The one global switch is `formal_leases_enabled`
(`CLAW_FORMAL_JOB_LEASES_ENABLED`): with it the registry asks every close for
the owner and generation of the current lease; without it any non-terminal row
may be closed by anyone.

What makes each part correct is listed under "hazards" in `PROJECT.json`, each
at the line where it bites, with the properties that would catch it.

## 2. The modules and the code

### JobService — `jobs.py`

*State.* `jobs` is the table: each row has the columns the code decides on
(`owner`, `gen`, `lease` are `lease_owner`, `lease_generation`,
`lease_expires_at`; `wait` is `next_run_at`; `age` is the time since
`updated_at`, for terminal rows since `completed_at`).  `formal` and `blocked`
are the flag and the claim gate; `held` maps a thread to the record its claim
returned; `passed` holds threads that have read the gate and wait for the lock;
`callers` the enqueues between lookup and INSERT.

*Ghost information.* `result` and `checkpoint` hold, instead of a JSON text,
the attempt whose claim wrote it; `held.att` the attempt a claim was.  No guard
reads them.

*Atomicity.* Each method's `BEGIN IMMEDIATE` … `COMMIT` under the lock is one
action.  What the code does outside is a step of its own: reading the gate
(`ReadGate`), looking a key up before inserting (`LookupKey`, `Insert`),
sampling `now` (the parameter `lag` of every action: the sample may be
`MaxLag` ticks old when the transaction runs).  The reapers' list of candidates
is not kept: the code reads each candidate again under the lock and repeats the
guard of the action.

*Actions.* One per method; `Accepts` is the guard shared by complete, fail,
reschedule and wait_for_approval, `Unleased` the clearing of the lease columns,
`RetriedOrFailed` the retry decision, `BareClose` a close without credentials.
`WorkerDies` and `Restart` are crashes; `Restart` picks any flag in `Modes`.

*Time.* Relative and saturating: deadlines count down and stop at
`-MaxLag`, ages count up and stop at the largest threshold.  This keeps the
instance finite and loses nothing a guard can tell apart.

### JobQueue — the promise

State, claim count and author per job; eight operations.  No lease, clock,
credential or retry limit.  `ImplementsQueue` states that under formal leases
every step of the registry is one of these or a stutter: only the newest claim
counts, only it can finish the job, and what is recorded is its work.

### JobRunner — `scheduled_background_jobs.py`, `daemon.py`, `main.py`

Extends the registry with what a runner adds: waiting for a handler, a handler
given up after `timeout_seconds` that runs on (`straggler`,
`_timed_handler_future`), refusing to start while it does, and announcing
`*_completed` when `close_landed` says so (`reported`).  Composes registry
actions: `HandlerReturns` is `Complete` plus the announcement, and so on.
`LaneRecovers` are the recovery lanes, `OthersClose` cancels, the age reapers of
the runners and the retention pass.  `HandlerPolls` is the runner of NotebookLM
orchestrations (`notebooklm.py:1014`), which ends a run that found its notebook
not ready with `reschedule`; `polls` counts these runs per job, and
`PolledKinds` are the kinds that have them.

### OwnerNotification — `daemon.py`, `lifecycle.py`

Claim, staleness test, send and close are four steps, with crashes between any
two; closes are `BareClose`, as the drain passes no credentials.  There is no
recovery action: no lane covers the kind.

### ResearchLane — the runner, the executor, the adapter and the verifier

`stage` is the program counter of the lane's one thread; every commit to
`external_effect_records` and every call to NotebookLM is a step of its own.
`effect` is the row (status, attempt count, baseline of the first intent,
whether a positive result is stored), `notebook` the world outside: landed
imports, one accepted import that has not landed, sources of other people.
`Backends` selects how a call decides the number it returns: the browser
backend takes sources it finds for its own, the command-line backend returns
the growth of the count.

### RuntimeDb — `sqlite_runtime.py`

One connection, one lock.  `conn` and `disk` are generations of the write-ahead
log: the one the connection writes to and the one on disk; an outsider that
replaces the log (`SwapLog`) moves `disk` on, and from then on commits succeed
and are gone.  `stamp` and `pending` are the generation joined last and
`_wal_swap_reconnect_pending`; `DriftCheck` arms the reconnect after a write,
`ReconnectAfterSwap` runs it at the entry of an operation and never inside a
transaction.  `blind` is the case in which the counter of changes of a new
connection happens to equal the remembered one, so that a write is taken for a
read.  `latch` is the degraded latch, `errors` and `healed` the budget of
persistent lock errors.  `SinkBound` says whether the event sink emits through
this database, as `main.py` wires it; `depth` counts the reconnects that are
then inside one another, up to the interpreter's `RecursionLimit`.
`StatementFails` is a failed statement or commit and what `_handle_error` makes
of it; what becomes of the open transaction is the caller's business.  Ghosts:
`swaps`, `voids`, `voidWrites`, `missed`.  `voidWrites` has each lost write with
the log it went into: while the connection still writes to that log, and only
then, it reads the write back (`Sees`), as a drain does that looks for a marker.

### EventStream and EventLog — `observe.py`

Emitters, other stores and the drain share the lock of RuntimeDb.  `emit` tries
the lock `MaxTries` times, else or on any error appends the event to `spill`
(which may fail too).  `DrainReads`, `Looks`, `Inserts`, `Marks`, `Commits` and
`Compacts` are `drain_spill`: one line after the other in one transaction each,
then the file is written anew: the kept lines in their order, numbered afresh
(`InOrder`).  A line is its event: `spill_id` names it.

`GivesUp` is the end of a call that failed.  `emit`, the drain and the stores
that write within `RuntimeDb.transaction()` roll back.  The task ledger executes
and commits with no handler (`task_ledger.py:240-264`, `482-504`, `513-555`,
`572-637`), so what it had written may stay in the open transaction of the
shared connection after the lock is released.  The next owner of the lock, an
emitter, the drain or another store, then joins that transaction and commits it
or rolls it back with its own; and while it is open no reconnect runs and no
lock error is healed.
`EventLog` is what that amounts to: an event goes from nowhere into the stream,
at once or after a wait, once; only a replaced log can take it.

### ApprovalManager and Decision — `approval.py`

One request.  `root` is the file under its name, an inode number and a record;
`archive` the record moved to `resolved/`.  A thread opens the name
(`Open`, `Look`), waits for the lock of the inode it has (`Lock`, `Read`),
compares inodes and starts over on an orphan, writes a new file under the name
(`Replace`) and releases the lock as it returns (`Return`).  `Verdict` is what
each modifier makes of an undecided record.  Inode numbers are given out again
as soon as nothing uses them.  `Rename` is the reaper, which takes no lock.
`Store` fills the cache with a listing dated when its scan began.  `Crash` loses
everything but the files.  Ghosts: `issued`, `handed` and `used` tokens,
decisions `told` to callers, the time of the last change (`changed`).
`Decision` is a register: asked once, decided once, told once.

### TaskLedger and AutonomousTask — `task_ledger.py`, `task_handler.py`, `f4_delegation.py`, `daemon.py`

TaskLedger is one row and what each method makes of it; AutonomousTask is the
life of one task.  `run[w]` is where a worker thread is in
`_run_autonomous_task` and which job record it remembers; `errand[a]` where the
watchdog or the caller (owner or delegation runner, one at a time) is in
starting, resuming or cancelling, with what it has read.  Every call into the
ledger, the job registry or the session is a step, so that the others come in
between.  Merged are: an enqueue, a requeue and the read of the row that follows
(`Enqueues`); the flag, the upsert and the session update of a resume
(`Reopens`); the flag and the row of a cancel (`AsksToCancel`).  The job is its
newest row, with the outcomes of JobService's calls under both regimes.  Time is
left out: leases lapse and rows grow old at any moment.

### Coordinator — `coordinator.py`, `f2_recovery.py`, `task_handler.py`

One task.  `run` is the run in progress: its stage, the phase it started at,
what it has read of research, and `due`, the checkpoint events it has to record
before the stage goes on.  `scratch` is the scratch directory: a result (or its
absence) per research file, the synthesis, the result and the started-marker of
implementation.  `ledger` is the newest checkpoint of each phase and whether a
write is newer than it (`torn`).  Every file, every recorded event and every
dispatch is a step, and between any two the process may die (`Restarts`), a call
may raise (`Raises`) or the store may fail (`Records`, which writes the write
and then the checkpoint in two transactions; either may be missing).  What the
`except` clause of `run` still records is `Closing`.

`Detected` is `detect_resume_phase`, `Classified` and `Planned` are the recovery
plan; `Chosen` is what `_f2_recovery_result_or_start_phase` makes of both: with the F2 store
the phase both name, without it the detected one, or none when detection fails.
`Answers` is what a parallel dispatch may return, `BeginsHealing` and `Heals` the
self-healing synthesis after a critical error.  The marker of a critical error may
stand in the content of an answer (`critical`) or in its error (`fatal`), which
`_phase_all_workers_failed` counts as a failure too.  `IsPruned` is the retention
pass of another task's run.

A file that is there may be unreadable, at any moment and for any one reader:
`_load_scratch_results` skips it and returns the rest (`Loads`), and so
`detect_resume_phase` may name any phase up to the one the files would give
(`Detected` is a set).

Ghosts: in `run`, the files of research it skipped (`unread`); in `past`, the
number of runs and dispatches, the newest answers of research (`verdict`),
whether the directory was ever removed (`pruned`), whether a run began after
that, or without reading it (`blind`), whether one began without the F2 store
(`unlogged`), and whether one found files of research and could read none
(`missed`).

## 3. The runs

| run | instance | what it shows |
|---|---|---|
| `JobService_formal` | 1 job, 2 threads, one worker_id, 3 claims, TTL 2, lag 1, administrator | fencing (`FencingTokens`, `NoLateWrite`, `LateCloseIsNoOp`), leases (`LeaseColumns`, `FreedOnlyAfterExpiry`), recovery (`StrandedRecovered`), refinement (`ImplementsQueue`) |
| `JobService_legacy` | 2 jobs, 1 key, 2 callers, 2 threads, no leases | `OneActivePerKey` through racing enqueues; `TerminalAbsorbing` |
| `JobRunner_steady` | timed and untimed runner, 3 attempts, 1 pending poll, both regimes, each restart with the flag of the first | no attempts beyond the limit but those of polls (`WithinBudget`), `NoOverlap`, `OneReportPerJob`, `EverythingSettles` |
| `JobRunner_truthful` | a lane that retires (notebooklm.*) | **violated**: `TruthfulReport` |
| `OwnerNotification_drain` | 1 notice, 3 attempts | `OwedIsKept`, `NoticesSettle` |
| `OwnerNotification_crash` | the same | **violated**: `AtLeastOnce` |
| `ResearchLane_effect` | both backends, one edit by others, 3 attempts | `NeverDuplicate`, `WriteAhead`, `ResearchSettles` |
| `ResearchLane_imported` | browser backend, nobody else edits | **violated**: `CompletedIsImported` |
| `EventStream_drain` | 2 events, 1 emitter, 1 other store that may leave its transaction open, 1 replaced log, bound sink | no row or marker uncommitted without the lock (`StreamTypeOK`), no event twice (`AtMostOnce`), no marker without its row (`MarkedIsStored`), a replaced log costs a bounded number of transactions (`VoidsBounded`), `emit` returns (`EmitReturns`), the spill file drains (`SpillConverges`), refinement (`ImplementsLog`) |
| `ApprovalManager_race` | owner and tick threads with split duties, 3 inodes, 2 tokens | no lost update (`OneWriter`), one verdict (`OneVerdict`), old tokens are dead (`NewestToken`), the cache ages (`StaleSinceScan`), `PendingSettles`, refinement (`ImplementsDecision`) |
| `AutonomousTask_life` | 2 worker threads, 1 attempt, 1 deferral, 1 fault | one run at a time (`OneRun`), what may change an ended row (`EndedRows`), no orphaned job (`OrphansEnd`), `TaskSettles` |
| `Coordinator_resume` | 2 research workers and browser evidence, 2 runs, 1 re-drive, every start with or without the F2 store, any file unreadable at any time | implementation is dispatched once (`ImplementedOnce`), what a synthesis lacks of the answers is what could not be read, never what a crash left unwritten (`SynthesisSeesAll`), nothing goes on from failed research it could read (`NothingPastFailure`), what is recorded is there (`CheckpointsVouch`) and is not begun again (`NeverRedone`) |

The runs marked *violated* check a sentence of the code's own documentation
against the code; each is a finding in `PROJECT.json`.  Type invariants are
proved (section 4) instead of run; that of EventStream, which says more than
types, is both.

1. `close_landed` (`jobs.py:2064`): the lease reaper fails a row without
   advancing its generation, so the late runner announces it as completed.
2. `OwnerNotificationDrainRunner` (`daemon.py:1094`): "at-least-once" does not
   survive a crash between claim and close.
3. `deep_research` (`notebooklm_cdp.py:559`): on a notebook that already has
   sources a research completes having imported nothing.

### What the passing models show beside their properties

These are facts about the code that had to be modelled as they are; the
properties above hold around them.

* *Self-healing recurses.*  `_ensure_operational` clears
  `_wal_swap_reconnect_pending` only after the reconnect has told the sink
  (`sqlite_runtime.py:940-952`).  The sink that `main.py` binds emits through the
  same database, enters `_ensure_operational` again and reconnects again, until
  `RecursionError`; depending on where it is raised the call ends well after
  all or leaves a closed connection and the latch (`SinkEnds`).  The unit tests
  of the reconnect use a sink that only appends to a list.
* *A cached listing outlives a mutation.*  The comment at `approval.py:28-30` says
  that every mutation invalidates the cache at once; a scan that began before
  the mutation may still store its result after it.  `StaleSinceScan` is what
  remains true: the listing is never older than the cache's own TTL.
* *The ledger is not write-once.*  `mark_running_checkpoint`, the upsert of
  `create` and `_update_task_job_metadata` write a status over whatever there
  is; the verification of an ended row is lost with it.  `EndedRows` names every
  step that does so, and `TaskSettles` that the task ends again all the same.
* *Two caps are soft.*  The deferral cap lives in the session's `active_task`,
  and is forgotten when another task of the session takes its place; interrupted
  streams are deferred without a count.  The faults that do this are bounded
  (`FaultCap`).
* *Polls are attempts.*  A pending NotebookLM orchestration is rescheduled every
  minute or so without a look at its attempts, and every claim counts one.  The
  job has 120 (`notebooklm.py:854`): after as many polls it goes on polling, but
  an error that would have been retried (`notebooklm.py:936`) is then final.
  `WithinBudget` says that polls are the only way past the limit, and
  `EverythingSettles` supposes that they stop.
* *A failed write may still be committed.*  The task ledger has no rollback: a
  row it reported as failed to write is committed by the next store that writes,
  or dropped by the next `emit` that fails.  What the event stream depends on is
  that this never happens to a row without its marker: `StreamTypeOK`,
  `MarkedIsStored`.  The other modules take a write that raised as not done.
* *The orphan pass* reads the row and cancels the job later: it may cancel the
  job of a task that was resumed in between.  Under formal leases its `cancel()`
  raises and ends the pass, and a cancelled task's job runs on.
* *Switching formal leases on strands rows.*  `recover_stale_running` then goes
  by expired leases only (`jobs.py:1570`, `jobs.py:1424`), and a row that the
  legacy regime left running has none: no lane takes it.  The docstring
  (`jobs.py:1565-1566`) knows no exception.  `StrandedRecovered` is therefore
  checked with `Modes = {TRUE}`.
* *Presence is not completion.*  `detect_resume_phase` takes the presence of any
  readable file for the end of a phase (`coordinator.py:1626-1627`), while the
  files of a phase are written one after the other: after a crash in between, a
  run without the F2 store synthesises from half of the answers.  With the store
  the plan and the directory disagree and nothing is resumed:
  `SynthesisSeesAll` says so.
* *An unreadable file is no file.*  `_load_scratch_results` skips it
  (`coordinator.py:1657-1662`), with either store.  A resumed run then
  synthesises from the other answers, and when the one it skips holds the
  critical error it goes on past it, although the comment at the loading
  (`coordinator.py:273-276`) says that a resume never does.  A run that can read
  none of them does research again over a recorded success.  `SynthesisSeesAll`,
  `NothingPastFailure` and `NeverRedone` make exactly these exceptions: the file
  that was skipped, and the run that could read nothing.
* *Two safeguards against a second implementation*, the marker in the directory
  and the recovery plan.  The first fails when the directory was pruned, or when
  a failing detection starts a run from nothing, as `start_phase is None` skips
  the gate of `coordinator.py:500`; the second without the F2 store, or when no
  file of research could be read and research began anew.  `ImplementedOnce` says
  that both must have failed (`Unguarded`).
* *The plan wedges easily.*  With the F2 store most points at which a run can
  die leave the plan and the directory in disagreement, or a phase torn, and
  such a task is not resumed by itself.  Safe, and why no liveness is stated
  for the coordinator.
* *Checkpoints of an abandoned synthesis.*  An exception within the self-healing
  synthesis leaves its checkpoint `started`, as that path does not make it the
  active phase; and research with a critical error among its answers is recorded
  as `succeeded` before the error is looked at.  `NothingPastFailure` holds all
  the same, because a later run looks at the files again.

### Bounds, and why they are enough

* *Jobs.* Rows interact only through `resume_key` and the order of `claim_next`;
  two jobs on one key (`JobService_legacy`) cover the first.  Lease, attempt and
  runner properties concern one row, so one job is used, with two threads: a
  late one and a current one.  Proofs cover all numbers.
* *Claims.* `ClaimCap` is `MaxAttempts + 1` or more: a claim after the limit would
  be possible and would be seen.  It bounds only claims that park, release and
  reschedule make possible without end.
* *Time.* `TTL = 2`, `MaxLag = 1`: a lease can be live, expired for everyone,
  or expired for one and live for another.  `StaleAfter = 1`, `Retention = 0`
  let reapers and the retention pass act at the first chance.
* *World.* `OthersCap = 1` change of a notebook by others and `SendCap = 2` sends
  are enough to disturb a count and to double a notice.
* *Events.* Two events: one is in the file while the other is appended, replayed
  or compacted away; one emitter suffices because the lock makes emitters
  alternate.  `LockThreshold = 2`: one locked error that is not the last, one
  that is.  `RecursionLimit = 2`: a reconnect inside a reconnect.  `SwapCap = 1`:
  the loss bound counts per replacement.  `MaxTries = 2`, `MaxLines = 2`: a
  refused attempt that is not the last, a pass that is not the whole file.  The
  proofs cover all numbers of all these.
* *Approvals.* Two threads whose duties cover every pair of operations that can
  disagree; three inodes: the file, an orphan one thread still holds, and a new
  one.  `TTL = CacheTTL = 0`, `Horizon = 1`: at time 1 what was made at time 0
  is overdue and what was listed is out of date.  `TokenCap = 2`: one reissue.
  The proofs cover all numbers of all these.
* *Tasks.* Two threads can run one task twice if anything lets them; one
  attempt, one deferral and one fault already reach the state after each cap.
* *Polls.* `PollCap = 1`: a poll of a row below its limit, and one that takes it
  past the limit, are both reached with three attempts.
* *Coordinator.* Two workers: one may fail, be critical or be unreadable beside
  another, and a crash may come between their files; the evidence is a file no
  worker writes.  Two runs: one to begin and be cut off, one that has to make
  sense of what is left; one re-drive.  Three runs, without the evidence, were
  checked once too.  The proofs cover all numbers.

### Fairness, and why the code justifies it

* `Tick`: time passes.
* Recovery lanes: the daemon runs each lane every 300 s in a loop that catches
  every exception (`daemon.py:702-722`).
* Runner threads: likewise; and a handler returns, raises, or is given up by
  its timeout.  A straggler is *not* assumed to end.
* Liveness of runners, notices and research is conditional: from some point on
  the daemon is neither restarted nor in safe mode.  `StrandedRecovered` is not.
  `EverythingSettles` supposes besides that what a job polls for comes to an end.
* Event stream: a thread inside `emit` runs on, and so does the drain, which its
  maintenance loop calls again and again.  Another store may keep the lock for
  ever.  `SpillConverges` is conditional on `Calm`: the database is usable from
  some point on.
* Approvals: an operation that has begun runs to its end; the `approval_sweep`
  job of the daemon comes round (strong fairness: it is disabled while the
  thread does something else); time passes.  `PendingSettles` supposes that
  crashes stop.
* Tasks: worker threads run and the coordinator returns (it has timeouts of its
  own), the watchdog and the passes of the daemon come round.  The owner and the
  delegation runner may do nothing.
* Nothing is assumed of enqueuers, administrators, or the success of any send
  or call.  Deadlock is checked in every run but `AutonomousTask_life`, where a
  task that has ended for good may rest, and `Coordinator_resume`, where a task
  without runs left does.  No fairness is assumed of the coordinator.

## 4. What is proved

`JobServiceProofs` proves, for every set of jobs, keys, threads and worker ids,
every number of attempts, TTL and lag, in both regimes unless noted:

* `TypeCorrect`, `LeasesSound`, `UniqueActiveKeys` from `Inductive`;
* `TerminalIsForever`: an action property, from the type invariant;
* `Fencing` (formal leases): no two outstanding claims of a job have one
  generation, and no claim is ahead of the table;
* `LateCallsDoNothing` (formal): a close by a superseded claim changes nothing;
* `LateWritesNothing` (formal): a superseded claim never becomes the author of
  a result or a checkpoint;
* `RunsEndInTime` (formal): nobody but its claim ends a run before the lease
  has expired, administrators apart;
* `Refinement` (formal): `Spec => Queue!QueueSpec`.

*Argument.* The inductive invariant `IInv` is `MemoryOK` (types of what a
process keeps) and `RowsOK`: every row satisfies `GoodRow`, that is, it has its
type, its lease columns are set and cleared together (`LeaseOK`), and, if every
start runs formal leases, a running row has an owner and `gen = attempts`
(`FormalOK`).  Init establishes it; `StepLemma` proves that every action
preserves it and moves at most one row, in one of five ways: `Granted`, `Left`,
`Done`, `Gone`, `Born`.  `TerminalIsForever` and `UniqueActiveKeys` follow from
this summary of a step instead of from the twenty actions again.

`FencingTokens` is not inductive: nothing in it stops a claim in memory from
being ahead of its row, and then the next claim would repeat its generation.
`FInv` adds that, under formal leases, a claim's generation is its attempt and
is at most its row's, and `GenerationsGrow` that a row's generation never
shrinks.  Then credentials that match are those of the newest claim
(`CurrentIsNewest`), which gives `LateCallsDoNothing`, `LateWritesNothing`,
`RunsEndInTime` and, one way of moving a row after another, `Refinement`.

`JobRunnerProofs` proves first that the runners, sweeps and lanes together take
only steps of the registry (`RunnersUseTheRegistry`: `RunnerSpec => Spec`), so
that every theorem above holds of them too; then `RunnerTypeCorrect`,
`BudgetKept`, `HandlersDoNotOverlap` and, for formal leases, `AnnouncedOnce`.

*Argument.* `WithinBudget` alone is not inductive: a row at its limit must not
become claimable again.  `Affordable` says that a claimable row has an attempt
left, counting one more for each of its polls, whoever made it claimable.  A
runner executes only what it holds, and keeps a straggler only if it is timed.  For `AnnouncedOnce`, an announcement is
made by the claim whose attempt is the result of a completed row, and terminal
rows do not move.

`OwnerNotificationProofs` proves `OwedNoticesKept` under both regimes.  The
drain's closes without credentials are no steps of JobService, so the invariant
of the registry is first shown to survive them (`BareCloseStep`); then
`Delivered` adds that a thread about to mark a notice has sent it.

`ResearchLaneProofs` proves `TypeCorrect`, `AttemptsAreCounted` and `ImportsOnce`
for any number of jobs, attempts and changes by others.

*Argument.* `NeverDuplicate` depends on what the one loop knows at each of its
fifteen stages about a notebook it cannot see: `Knows` says it, stage by stage.
What has to be known while nobody holds a job is `Recorded`: every import was
counted before it could happen, the baseline is not above what others put
there, and a verdict of absence is right unless the notebook was disturbed: by
others who removed sources, or by the job's own import landing after its verdict.
So `NeverDuplicate` leaves the second import of a late landing open: a job may
import twice with nobody else involved, and only then.

`ApprovalManagerProofs` proves, for every set of threads with any duties, every
set of inodes and every TTL: `TypeCorrect`, `OneWriterAlways`,
`OneVerdictAlways`, `NewestTokenAlways`, `ListingsAge` and the refinement
`DecidesOnce`, all from one `Inductive`.

*Argument.* `OneWriter` alone is not inductive: that a thread holds *a* lock says
nothing when the name may point elsewhere.  `Writing` adds that a writer holds
the file under the name, unless the reaper has moved it, and that its draft is
a rewriting of the record that stands, or that very record.  A second thread
passes the comparison of the inodes only on the file under the name, whose lock
is then taken (`LockIsExclusive`); a new file has a number nobody holds
(`FreshIsFree`), and a moved file is met again by nobody.  So what stands
changes in two actions only: `Create`, when nobody deals with the request
(`CreateMoves`), and `Replace` of a pending record by its rewriting
(`ReplaceMoves`); everything else leaves it (`StandingStays`).  `Verdicts`,
`Tokens` and `Listings` follow these three lemmas, and so does the refinement.

`AutonomousTaskProofs` proves, for every finite set of threads and all caps:
`TypeCorrect` (with the caps of deferrals and attempts), `OneRunAlways` and the
action property `EndedRowsStay`.

*Argument.* A thread starts only where none lives, and the calls that enqueue
never start one (`EnqueueMoves`).  For `EndedRows` one thing must be known of the
past: the delegation runner that found no row writes one without looking again,
so nobody else may have made one meanwhile.  `Unwritten` says why: a task
without a row has no thread and no errand but that one.

`CoordinatorProofs` proves all five properties of `Coordinator_resume` for any
number of research workers, runs and re-drives, with any values of the F2 flag:
`TypeCorrect`, `DispatchedOnce`, `NothingHalfWritten`, `FailureStops`,
`SuccessIsThere` and the action property `SuccessIsFinal`.

*Argument.* The properties need each other: the plan may be trusted because
checkpoints vouch for files (`Vouched`), which holds because an event is only
pending while what it says is true (`Pending`), which holds because of where a
run with the F2 store can be at all (`Recorded`).  `Answered` is about the files
of research: they are always the first answers of the newest ones
(`Part`), so a directory that is cut off has failed if the whole has
(`PartsFail`; this is where the cancelling of siblings is needed).  `Read` says
what a run that skips files has in hand: of each file its newest answer, or
nothing and the file in `unread`.  `Once` is about implementation: a dispatch
leaves its marker, and if every run had the store and could read some of the
research, a plan that no longer begins with it.  The invariant is preserved
by one lemma per action; stages in which nothing depends on what a run has read
share one (`QuietStep`).

`EventStreamProofs` proves, for any number of threads, events and replaced logs,
both kinds of sink and every depth of the stack, all that `EventStream_drain`
checks but liveness: `LossIsBounded`, `MarkersVouch`, `TypeCorrect`, `StoredOnce`
and `LogRefinement`, that the stream implements `EventLog`.

*Argument.* First the database, whoever uses it (`DbStep`): the stamp is always
that of the log the connection writes to (`Joined`), and a reconnect runs between
transactions (`Nested`).  `VoidsBounded` is not inductive: the reconnect clears
its flag at the end, although the log may have been replaced again while the sink
was told, and the transaction that notices it afterwards was not foreseen.
`Owed` counts it from the replacement on, so a replacement adds two to the debt
at most and no other step adds more than it pays for.  Then the stream: who is
between taking the lock and giving it back holds it (`Locking`), so the row and
the marker that follows it are written with nobody in between, and they are lost
or committed together (`Whole`), with what a failed store may have left in the
same transaction.  Such a leftover is why `Owed` asks whether a thread is about to
commit (`Committing`) and not whether a transaction is open.

`AtMostOnce` and the refinement need a second invariant, `FileInv`, on top of
that one.  It follows an event through the threads and the file: of the rows
and markers the open transaction has exactly those its owner has written so far,
and none when the lock is free (`Drafts`); an event is
in the hands of one emitter (`Hands`) or in one line, never in both (`Singly`);
what the drain has read is still the beginning of the file, with the lines it
means to remove inside (`Pass`).  `Ledger` ties this to the database: of an event
in an emitter's hands nothing was ever written, not even into a log that is gone
(`Untouched`); the row and the marker of a line are committed equally often; while
the drain is between its look and its commit the marker is not there; and a line
marked for removal was committed (`Settled`).  So a commit takes one event from
"nowhere" or "waiting" to "stored", or to "lost" when the log was replaced, and the
compaction only takes lines that are stored or were in that log; every other step
leaves the places of all events alone (`StepMoves`).  Each conjunct has a lemma
(`DraftsKept` ... `TriesKept`) with a case per action.  The invariant was run
with TLC first, with two replaced logs and with two emitters as well.

*Assumptions.* Those of `RuntimeDb` and `EventStream` (`RuntimeDbAssumption`,
`EventAssumption`: ranges; the rows and markers are the writes whose fate is
followed, emitters, other stores and the drain are different threads); those of
`ApprovalManager`, `AutonomousTask` and `Coordinator`
(`ApprovalAssumption`, `TaskAssumption`, `NothingAssumption`,
`CoordinatorAssumption`: ranges of the constants; the values for "nothing"
differ from real ones); `RunnerAssumption` (timed runners are runners, kinds
that are not retried are kinds) and `NoticeAssumption` (ranges);
`ResearchAssumption`, which says that the lane is one loop, as the daemon starts
it, and `NoneAssumption`.  Those of `JobService`: `ConstantsAssumption` (ranges of the
constants; `NULL` values differ from real ones), `FiniteJobs`, and
`NoClaimAssumption`.  The theorems restricted to formal leases assume
`Modes = {TRUE}`: every process that ever opened the table ran with the flag.

*Only model-checked.* The liveness properties: `StrandedRecovered`,
`EverythingSettles`, `NoticesSettle`, `ResearchSettles`, `EmitReturns`,
`SpillConverges`, `PendingSettles`, `OrphansEnd` and `TaskSettles`.  Liveness
under fairness and ENABLED are beyond the prover, as are inductions over data:
no module used in a proof has a RECURSIVE operator, and what the compaction
leaves of the file is stated by a numbering of the kept lines instead.  Every
safety invariant, action property and refinement of a passing run has a theorem.

## 5. Not modelled, and why

* Of JobService: payloads, errors and metadata other than the cancel request;
  `kind LIKE prefix` (lanes take any kind set); the 100-row limit of a sweep
  (the next sweep goes on); different `max_attempts` per job; the retry after a
  disk error, whose visible outcomes (a claim nobody holds, a close that finds
  its own result) are those of `WorkerDies` and of a late close; schema
  migrations; an identity of a row other than its fresh id.
* Of ResearchLane: the text of a search, the count a command-line run prints
  (taken as the growth of the source count), and the resumption of a search the
  page shows as running, which imports at most what a fresh one would.
* Of RuntimeDb and the event stream: the legacy connection each store had before
  the shared one, with its heal registry; schema migrations and health probes;
  retention, VACUUM, queries and subscribers of the stream; lines of a spill file
  that are torn, and those without a `spill_id` (written by older versions), which
  the drain names after their content and place (`observe.py:702-704`).
* Of ApprovalManager: several daemon processes (the cache and the sweeps are
  those of one; the file protocol is the same), requests of other types than a
  tool call, the wording of confirmations, how long a decided record stays
  before it is moved.
* Of the task ledger and handler: the drain lanes of `completed_unverified`
  rows, `prune_terminal`, P0 goals, evidence files and notifications; which
  redrive is vetoed is left open.  The coordinator is a single step of
  AutonomousTask (it returns or raises) and a module of its own.
* Of the coordinator: prompts, compaction and the retries and timeouts inside a
  worker (a dispatch returns some answers); the records of the orchestration
  store (it may raise, and no resume reads it); the LangGraph shadow run, which
  only compares; recovery cursors and their conflicts (the daemon asks for a
  plan with `persist_cursor=False`); external effects linked to a phase (the
  coordinator records none); `evidence.md` beyond the result it becomes.
* The components marked `not_modelled` in `PROJECT.json`: those in the plan
  below, and those that are I/O, text or model calls.

## 6. Plan

Done: the registry with its abstract queue, runners, notices, the research lane,
approvals with their abstract decision, the life of an autonomous task and the
coordinator with its recovery plan, the shared connection and the event stream
with their abstract log, all with proofs.  Next, in order:

1. **Coordinator in AutonomousTask**: the one step that stands for a run replaced
   by what Coordinator says a run may leave behind, so that a deferral and a
   resume are about the same directory.
2. **Cron**: due test, daily slot, bounded retry, persisted last run.
3. **Connections before the shared one**: the heal registry of the per-store
   connections in `sqlite_runtime.py`.
