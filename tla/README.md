# GoNavi: specifications of its concurrent core

GoNavi is a desktop database client (Go backend, React frontend, Wails between
them).  This directory holds TLA+ specifications of the parts of it where several
processes, goroutines or callbacks work on the same thing:

* saved data-sync jobs, the runs they are executed by, the schedule that enqueues them
  and the rows that failed, over the SQLite store that desktop, background worker and
  one-shot commands share;
* the managed transaction of a SQL editor tab, between an asynchronous editor and a
  concurrent backend;
* the chat panel that follows an AI run over announcements that may be lost.

Check a module with TLC (`tlc -config SyncRuns_safety.cfg MCSyncRuns`) and the
proofs with TLAPS (`tlapm M.tla` for `SyncRunsProofs`, `SyncRunsCapacityProofs`, `FencedCheckpoint`,
`ErrorRowRetryProofs`, `SyncScheduleProofs`, `SqlTransactionProofs` and `AIRunEventsProofs`).

## 1. Inventory of the system

| Component | Source | State it keeps | Operations |
|---|---|---|---|
| Run store | `internal/syncjob/store.go`, `model.go` | SQLite tables for jobs, runs (status, owner token, heartbeat), checkpoints, events, error rows, scheduler leases | one SQL statement or one immediate transaction per method: put/pause/archive/purge a job, create/claim/touch/complete/cancel/recover/delete a run, put/delete/reset a checkpoint, claim/renew/finish/recover an error-row retry, acquire/release the lease |
| Manager | `internal/syncjob/manager*.go`, `permanent_error.go` | the map of active executions with their cancel functions, the closing flag | user calls (StartRun, ResumeRun, RetryRun, CancelRun, PauseJob, DeleteJob, PurgeJob, DeleteRun, ...), `dispatchLoop`, `schedulerLoop`, `execute` and `heartbeat` goroutines, `recoverInterrupted`, `Shutdown` |
| Scheduling | `manager.go`, `manager_oneshot.go`, `validation.go`, `continuous_backoff.go`, `schedule_triggers.go` | next and last slot of a job, the scheduler lease | find due jobs, enqueue with an id derived from the slot, advance or delay the schedule, translate schedules into OS triggers, back off after failures |
| Executors | `internal/app/data_sync_job_executor*.go` | position inside a job: mapping index, watermark, CDC position | copy mappings, stream change events, save checkpoints, acknowledge the source |
| Error rows | `store.go`, `manager.go`, `internal/app/data_sync_job_error_rows.go` | rows that failed, a retry lease per row | append, retry, resolve, discard, recover |
| Job service of the app | `internal/app/methods_sync_jobs.go`, `data_sync_jobs_lifecycle.go`, `data_sync_worker.go` | approvals, the manager of this process, maintenance gate | open and close the manager around a data-root move, approve and run jobs |
| Background worker | `internal/syncworker/runtime.go` | a kernel lock, a state file with address and token | Ensure, Stop, Run |
| Managed SQL transactions: backend | `internal/app/methods_db_transaction.go` | open editor transactions by id, a mutex and a finished flag per transaction | begin, run statements, commit, roll back, roll back at shutdown, reload and driver removal |
| Managed SQL transactions: editor | `frontend/src/components/QueryEditor.tsx`, `useSqlEditorTransactionController.ts` | the current run, the pending transaction, the automatic-commit timer, the open production dialog | run, cancel, commit and roll back by button, timer or dialog, close the tab |
| AI run harness | `internal/ai/runharness` | a ledger of AI runs, tools and approvals | run, approve, resume, recover |
| AI chat panel | `frontend/src/components/ai/useAIChatRunEventSubscription.ts`, `aiRunEventProjection.ts`, `aiRunHarnessClient.ts` | sequence tracker, gap buffer, projected rows, sending flag, reads and timers in flight | project an announcement, repair a gap, poll, bootstrap, replay, hydrate |
| Others | `internal/importjob`, `internal/sqlaudit`, `internal/nativewindow`, `internal/mcpserver`, `internal/webserver`, `internal/db`, `internal/sync`, `frontend` | | |

How they interact.  Every process that opens the data root has a `Manager` over the
same database file.  The background worker's manager dispatches, executes, schedules
and recovers; the desktop's manager is passive (`ManagerOptions.Passive`) and only
serves the user's calls.  Processes do not send each other messages: a cancellation is a
status in the run's row that the executing process finds at its next heartbeat; a lost
process is noticed by a heartbeat that has grown old.  The fence between an executor and
the one that replaces it is the run's *owner token*, a fresh UUID written by `ClaimRun`
and compared in the WHERE clause of every later statement of that execution.

What is hard here:

* claims, cancellations, completions, recovery, purges and restarts commit in any order,
  and everything a manager does in more than one statement (`StartRun`, `ResumeRun`,
  `PauseJob`, the life of an execution) can be overtaken between them;
* an executor whose run was recovered goes on running (a zombie) and still reports;
* a process can die between a claim and the launch, between committing a pause and
  cancelling the runs, between the end of the executor and the completion of the row;
* an executor may never return, and its run has to end all the same;
* checkpoints outlive the runs that wrote them and decide where the next one starts;
* whoever enqueues a scheduled run has read the definition and the clock some statements
  earlier, and its lease may have run out since;
* in the frontend every `await` lets timers, clicks, closing tabs and other answers in; what
  was checked before it may not hold after it;
* an announcement may be lost, an answer of the ledger may be older than what is on the
  screen, and the same event may come from three sources.

What makes each component correct.  *Runs*: at most one active run per job; a token that
was taken away never works again; a checkpoint only moves under its owner; terminal
history stays as it is; cancelled and orphaned runs end; queued runs start; nothing of a
purged job comes back.  *Scheduling*: one run per slot whoever enqueues it; no slot left
behind that nobody dealt with; the schedule moves forward.  *Error rows*: one retry at a time by lease;
a stale retry cannot resolve a row another one holds; attempts only grow.  *Executors*: no
mapping is skipped and no change acknowledged before it is durable.  *Worker*: one per
data root; Stop returns only when it is gone.  *Transactions*: each is finished exactly
once, by commit or rollback, never committed without approval or after its tab has gone, and
nothing runs in it afterwards.  *Chat panel*: every finished turn is shown whole, a failure with
its cause, a gap is filled, the end of a run arrives.

`PROJECT.json` lists the hazards one by one with their lines and the properties that
watch them.

## 2. Modules

| Module | Models | Status |
|---|---|---|
| `SyncRuns` | the run store and the managers over it | written, checked, proved |
| `FencedCheckpoint` | the abstract promise: a lock with growing tokens and a value stamped by its holder | written, proved |
| `SyncRunsProofs` | theorems of `SyncRuns`, the refinement included | proved |
| `SyncRunsCapacityProofs` | the theorem about the manager's capacity, which needs finite sets | proved |
| `MCSyncRuns` | small instances of `SyncRuns` | written |
| `ErrorRowRetry` | claim, renew, replay, finish, recover and discard of one error row by leases | written, checked, proved |
| `FencedTask` | the abstract promise: a task claimed with growing tokens, completed by its last claimant only | written |
| `ErrorRowRetryProofs` | theorems of `ErrorRowRetry`, the refinement of `FencedTask` included | proved |
| `SyncSchedule` | the schedule of one job, the schedulers and commands that enqueue its runs | written, checked, proved |
| `MCSyncSchedule` | the schedules of its instance | written |
| `SyncScheduleProofs` | theorems of `SyncSchedule` | proved |
| `SqlTransaction` | the managed transaction of one editor tab, editor and backend | written, checked, proved |
| `SqlTransactionProofs` | theorems of `SqlTransaction` | proved |
| `AIRunEvents` | how the chat panel follows one AI run | written, checked, proved |
| `AIRunEventsProofs` | theorems of `AIRunEvents` | proved |

Left of the plan: `SyncExecutor` (snapshot, watermark and CDC order of apply, checkpoint and
acknowledge, composed with the checkpoint guard) and `SyncWorker` (single instance, Ensure and Stop
from several desktops, crash).  After those the ledger of the AI harness, import jobs and the audit
log's hash chain are candidates.

### 2.1 `SyncRuns` and the code

State of the store (survives crashes):

| Variable | Column or table |
|---|---|
| `job[j]` | lifecycle ("ready" stands for ready and enabled, "gone" for no row) and execution plan (`plan_hash.go`) as a number |
| `status[r]`, `owner[r]`, `age[r]`, `resumable[r]` | `data_sync_runs.status`, `.owner_token` (0 is ''), the age of `.heartbeat_at`, `.resumable` |
| `info[r]` | job, plan snapshot, parent: written once |
| `ckpt[j]` | `data_sync_checkpoints`: which run saved it and its batch number |
| `lastToken` | UUIDs handed out; a counter so that they are fresh and can be ordered |

State of the processes (lost in a crash): `mgr` (up, closing, down), `call` (what a
multi-statement call has read and still has to do), `todo` (recovered runs still to be
resumed), `exec` (the goroutine of each claimed run: program counter, host, token, cancel
cause, half-done heartbeat, checkpoint it has seen, result), `stops`.

One action per statement or transaction.  `StartRun` reads the definition and `CreateRun`
inserts; `ResumeRun`, `CheckLineage`, `CreateRun` are the three steps of a resume;
`StopJob` and `StopRuns` are the two statements of `PauseJob`, `DeleteJob` and `PutJob`
with an inactive lifecycle.  An execution goes `ClaimRun`, `Launch` (or `LaunchRefused`),
`LoadCheckpoint`, `TouchBeforeExecution`, then `HeartbeatRead`/`HeartbeatTouch` interleaved
with what the executor does (`ReportProgress`, `SaveCheckpoint`, `ExecutorReturns`), then
`ClearCheckpoint` for a completed snapshot, `Finish`, and for a permanent failure
`PauseOwnJob` and `StopOwnRuns`.  `InterruptStaleRuns` is recovery; `Tick` lets heartbeats
age; `Shutdown`, `Exit`, `Crash`, `Restart` are the life of a process.

Decisions a reader should know:

* The executor is free: it may report, save or return with any result at any time, and it
  may ignore its cancellation for ever.
* A partial outcome is an "error" result: it changes the label only.  No code writes the
  run status "paused".
* `CancelLocal`: after the cancelling statement commits, executions of the same process
  are cancelled one by one, and some may have moved on before; the model lets any subset
  be reached.
* A heartbeat tick that starts although the context is already cancelled is left out: it
  would only cancel again or refresh the heartbeat once more.
* One user call at a time per manager; several clients model concurrent calls.
* A job's concurrency policy, resume policy and snapshot mode are fixed.  `PutJob` that
  recreates a purged id, and drafts, are left out.
* The unowned `UpdateRun`, `TouchRun`, `CompleteRun`, `PutCheckpoint`, `DeleteCheckpoint`
  and `AdvanceSchedule` have no callers outside tests and are left out, as are errors of
  SQLite itself (disk full, locked) and run events.  So an event that cannot be appended does not end the loop of
  `recoverInterrupted` (manager.go:150-152) before the remaining runs; a crash there does, and is modelled.  Schedules are in `SyncSchedule`; here
  the "sched" thread may start a run of any ready job at any time.

### 2.2 `FencedCheckpoint`

A lock per job.  `Grant` gives a free lock a new, larger token; `Write` stamps the
checkpoint with the holder's token; `Clear` removes it; `Release` frees locks.
`SyncRuns` implements it with: tokens issued = `lastToken`; holder of a job = the token in
its active row; stamp = the token of the execution that saved the checkpoint.  `FencedSpec`
states the refinement; TLC checks it and `StoreImplementsFencedLock` proves it.

### 2.3 `ErrorRowRetry` and the code

One row of `data_sync_error_rows`: `row.status` ("none" before the insert, "deleted" after),
`row.owner` (`retry_owner`, 0 is ''), `row.attempts`, and `row.left`, the ticks until
`retry_lease_expires_at`.  `caller[c]` is one call of `RetryErrorRow` in some process: where it
is, the token it was given, and its renewing goroutine (`beat`: off, on, or failed, which cancels
the replay).  `applied` holds the tokens whose replay has reached the target.

A call goes `CheckErrorRow` (`retryDataSyncErrorRow` reads the row and refuses one that is not
pending), `ClaimErrorRowRetry`, `ReadClaim` (the `GetErrorRow` after the UPDATE), then
`ApplyChange` and `ReplayReturns` race with `RenewErrorRowRetry` and `ShutdownDuringReplay`;
`JoinHeartbeat` awaits the goroutine, whose error turns success into failure;
`FinishErrorRowRetry` resolves or releases the row with the call's token.  `CallerDies` stands for
a crash and for any statement of the call that fails.

* Time is relative: `Tick` takes a tick off the lease.  A statement's `nowMillis` is read before the
  statement runs, so a new lease may already be up to `Lag` ticks old.  Jumps of the wall clock are
  left out; the processes share one machine and its clock.
* `Prompt = TRUE` bounds how long a caller goes between extensions of its lease: no tick passes that
  would take a replaying caller beyond `RenewInterval`.  With the code's 10 s ticker and 30 s lease this
  is `RenewInterval + Lag < LeaseTTL`.  `Prompt = FALSE` drops it: processes are suspended at will.
* A cancelled replay may still reach the target; that `OneReplayAtATime` leaves cancelled replays
  aside is a fact about the code, which cannot take back a statement it has sent.
* The approvals and plan checks of `retryDataSyncErrorRow` only refuse a call and are not modelled.
  `ResolveErrorRow` and `RecordErrorRowRetryFailure` have no callers outside tests.

`FencedTask` is what remains for somebody who only sees the row and the target: a task that is claimed with
growing tokens, given back or taken over any number of times, each claim counted once, and completed by the last
claimant after its own attempt took effect, while attempts of lost claims may still reach the target.  `TaskSpec` states
that `ErrorRowRetry` implements it, with `row.status`, `lastOwner`, `row.attempts` and `applied` for its variables;
TLC checks it and `RetryImplementsFencedTask` proves it.

### 2.4 `SyncSchedule` and the code

One job and everybody who enqueues its runs.  `SyncRuns` has the life of a run; here a run is
pending and then ended.

| Variable | In the code |
|---|---|
| `now` | the clock the processes of one machine share, in ticks |
| `lease` | the row of `data_sync_scheduler_leases`: owner, and the ticks left until `expires_at` |
| `job` | `data_sync_jobs`: enabled, revision, the schedule in `definition_json`, `next_run_at` (0 is NULL) |
| `pending`, `ended` | scheduled runs that are queued, running or cancelling; that are in the history.  A run is named by its slot, as `scheduledRunID` does |
| `notBefore` | what `continuousFailureNotBefore` computes from the history |
| `proc[p]` | the locals of one scheduler cycle or command: the time it read, the slot it listed, the policy it read, the next slot it computed |
| `handled` | history variable: slots a run was created for, or that a pending run suppressed |

A cycle goes `AcquireSchedulerLease`, `ListDueJobs`, then for a continuous job `CheckFailures` (and
`DelayScheduleIfDue` while it waits after failures), `CreateRun`, `ReadForAdvance` and
`AdvanceScheduleIfDue`; a command (`StartCommand`) does the same without a lease and without
continuous jobs.  `CreateRunFails` looks for the run the failed statement may have left
(`CreatedBefore`) and gives up otherwise; `StatementFails` is any other error.  `PutJob` stands for saves, pauses and
resumptions by users, `Stop` for crashes and shutdowns, `RunEnds` and `DeleteRun` for what
happens to the runs.

* A member of both `Loops` and `Commands` is a place where one process after the other runs, now a
  loop and now a command.
* A slot is the time it is due.  An interval is an anchored grid, which the stored definition always is.
  A cron expression is a grid with irregular steps and time zones, and `NextRunAt` on it is left to unit tests.
* The clock is read with the acquisition of the lease, and carried through the cycle (`proc[p].at`);
  the cycle may take any time after that.  `PutJob`'s clock may be `SaveLag` ticks old when its row is stored.
* The lease is not consulted after the acquisition, as in the code: that the properties hold all the
  same is the point.
* Recovery and purge are in `SyncRuns` and left out here.

### 2.5 `SqlTransaction` and the code

One editor tab and the transactions its managed runs open, each named after its run.

| Variables | In the code |
|---|---|
| `mounted`, `current`, `queryId`, `run` | `queryEditorUnmountedRef`, `runSeqRef`, `currentQueryIdRef`, and where each `handleRun` stands between its awaits |
| `pending`, `timer`, `dialog` | `pendingSqlTransactionRef`, `autoCommitTimerRef`, the open production confirmation with the transaction it captured |
| `conn` | the connection in the store: plain, production, or deleted |
| `tx`, `mu` | the transactions map, the finished flag and the mutex of `managedSQLTransaction` |
| `rpc`, `req` | query calls on their way, and commit and rollback calls |
| `consent`, `released` | history: what the user approved; what a closed tab or a reload is bound to end |

A run goes `StartRun`, `CancelPrevious`, `CheckPending`, `Send`; every await may be followed by
`Superseded`.  The backend serves a writing run by `BeginManaged`, `ExecuteManaged`, `Register`, a
reading run in the transaction by `FindTransaction`, `LockTransaction`, `ExecuteInTransaction`, and
both by `Leave`.  The answer is taken by `Answer`, `AnswerDropped` (superseded) or `AnswerAfterClose`.
The transaction is ended by `ClickCommit`, `ClickRollback`, `TimerFires`, and `Approve` or `Decline` in
the dialog; in the backend by `TakeTransaction` (out of the map, only once) and `EndTransaction` (under
its mutex).  `CloseTab`, `Reload` and `ReinstallDriver` release what is open.

* Cancelling the context of a query usually fails its statements; the model lets `ExecuteManaged` end
  either way.
* The end of a transaction may fail at the driver: its result is then unknown, and it has left the map.
* The shutdown of the application is the sweep of `Reload` with nobody left to look.

### 2.6 `AIRunEvents` and the code

One run, one panel.  The backend appends events to a ledger (`log`) and announces them over the Wails
runtime; `sent` holds the announcements under way, and `Deliver` or `Lose` takes any of them.  `ui` is what the frontend holds: the sequence
tracker (`cursor`, `over`), the projected run (`row`, `done`, `turn`, `handled`, `lastError`, `error`), the
chat rows, the gap buffer (`pending`), the recovery timer and read, the replay of a bootstrap, and the
sending flag.  `boot` and `ui.hydrating` are questions to the session that are not answered yet.

`Accept` is `accept` with the tracker's `observe`; `ApplyEvent` is `applyAIRunEvent`, `ApplyReplay`
is `applyAIRunReplayEvent`; `Recover`, `Page` and `PageDone` are `recover`, with the terminal event it
synthesises from a snapshot (`SnapshotEnds`); `TrackRun`, `ReopenPanel` and `ReloadPage` run the
subscription effect again, whose clean-up abandons what was in flight.

* A text is the sequence of the numbers of the deltas it is made of: repetition, loss and reordering show.
* The loops of the code (the deltas of a flush, the events of a page, the gap buffer, the turns of a durable message)
  are all `Steps`: one step for each of the numbers 1 to n, in order.
* An answer shows the ledger as it was at any moment between the question and the answer.
* The announcement of an event comes after its commit, outside of any lock.  What the run's own loop announces is
  at most `MaxLag` events late; the two events of a cancellation (`finishCanceledForControlCommand`) may be committed
  while the loop is behind, and overtake what it has still to announce (`Lag`).
* An error is named by its event.  `failRun` writes one message into an error event, the terminal event and the
  snapshot's `terminalReason`, so the reason of a failure stands for that error event (`Cause`); an exhausted run and one
  whose recovery is aborted end with a reason of their own.  `Fail` shows the last error event the panel has
  seen, else the reason: this is `applyTerminal`.
* `After` is what the harness appends after what: errors a run gets over (`emitError`), tools and turns in any
  number, a cancellation at any time in two events.  Left out are the silent retries of a model call
  (harness.go:1988-1994), turns without text, usage and checkpoint events of a run at work, and an error event whose
  append fails while that of the end succeeds.
* Not modelled: several runs at once, approvals, tools and usage of a run.  "wait" and "tool" stand for all
  events that leave a run waiting for its user, or at work.

## 3. Runs

| Run | Instance | What it shows |
|---|---|---|
| `SyncRuns_safety` | 1 job (snapshot, automatic resume), 2 runs, a desktop and a worker, 1 crash or shutdown, 1 checkpoint per execution; about 2.3 million states | the invariants and action properties of ownership, checkpoints, history, purge and recovery, and the refinement |
| `SyncRuns_policy` | 2 jobs, one with the forbid policy, 2 runs, 2 plans, 1 worker that also serves calls; about 3.6 million states | racing creations respect the policy, the dispatcher its capacity |
| `SyncRuns_live` | 1 job, 2 runs, 1 worker, 1 crash or shutdown; about 140 thousand states | cancelled and orphaned runs end, queued runs start, even when executors hang |
| `ErrorRowRetry_main` | 2 callers, 3 claims, a lease of 2 ticks with lag 1, processes suspended at will; about 20 thousand states | attempts and resolution follow the latest claim, settled rows stay, a caller that lost the row is cancelled, a row does not stay in retry, all of it is an implementation of `FencedTask` |
| `ErrorRowRetry_prompt` | 3 callers, 3 claims, a lease of 3 ticks, renewal every tick, lag 1; about 900 thousand states | renewal in time excludes two replays at once |
| `SyncSchedule_main` | 2 places for loops, one of which also runs commands; 4 schedules (a grid that skips and forbids, one that catches up and queues, a single slot, a stream); a lease of 1 tick, 2 ticks of time, 1 edit, 1 fault; about 1 million states | no slot runs twice, none is left behind, the schedule moves forward, a due slot is dealt with |
| `SqlTransaction_main` | 2 runs, 1 reload or reinstallation; about 84 thousand states | nothing is committed unapproved or after its release, nothing runs in an ended transaction, what a closed tab leaves behind is ended |
| `AIRunEvents_main` | runs of up to 4 events, pages of 2, 1 event committed ahead of its announcement (2 by a cancellation), 1 reopening or reload; about 1.8 million states | a finished turn is shown or left to what is shown already, failures show their cause, gaps are filled, the end is projected |
| `SqlTransaction_orphan`, `SqlTransaction_stuck`, `AIRunEvents_sending` | the same without reloads and reopenings | divergences of section 5 |
| `SyncRuns_pause` | 1 job, 1 run, a desktop and a worker, no crash | the divergence of section 5 |

Properties, with the code behaviour each is about, are stated in comments in their modules.
Each has a mutant in `PROJECT.json`: a plausible bug in one operator (a dropped WHERE
condition, a token that stays, an off-by-one) under which TLC finds it violated.

Bounds and why they suffice.  Two runs of one job are enough for every conflict over a
job's active slot and its checkpoint: each property relates at most two runs.  A parent and
its resumed child are those two runs.  One stop allows one zombie or one orphan and its
replacement; the proofs cover any number.  `StaleAfter = 1` means that a heartbeat can
become stale between any two steps, which is more than the code's timeouts allow, so
recovery of a live execution is included.  `MaxBatch = 1` distinguishes "no checkpoint",
"mine" and "the other run's".  Two plans in `SyncRuns_policy` make plan changes between a
run and its retry possible.  `MaxConcurrentRuns = 1` with two runs makes the dispatcher's
limit bite.  In `ErrorRowRetry` three claims let a row
be lost, taken over and taken over again; a lease of two ticks with lag one can be extended by
one or two; the prompt instance takes the smallest lease that renewal every tick and lag one
allow.  In `SyncSchedule` a lease of one tick can run out between any two steps of a cycle; two ticks hold
two slots of each grid, so a cycle can be late by a slot and catch up; a place that runs commands after loops
gives two schedulers, or a scheduler and a command, at once; safety was also explored with three ticks
(4.5 million states).  In `SqlTransaction` one transaction and a second run that supersedes it, joins it or opens
another is every conflict of a tab.  In `AIRunEvents` four events make a turn of two deltas, a turn followed by a wait, a
failure after an error, a failure after an earlier error the run got over, and a cancellation in the middle of a turn; a page of
two is shorter than all of these, so that an end may be projected from the snapshot before an error or a turn was read, and
longer than the others, so that the exemptions for long runs do not swallow the property (the inductive invariant was
also explored with five events on pages of two, 8.6 million states); the lag of one lets a read see what is announced
later, and a cancellation overtake.  Runs are interchangeable, so the safety runs use symmetry; the liveness runs do
not.  `CHECK_DEADLOCK FALSE`: when all `Runs` are used up and nothing is pending, the bounded
instance stops; so does a system whose users stop calling, and an AI run that is over.  `SyncSchedule` is checked
for deadlock.

Fairness (`Fairness`): loops tick for ever (`dispatchLoop` every 100 ms, `schedulerLoop`),
a started call goes on to its next statement, an execution takes its own steps, time
passes, a closing process exits, a dead worker is started again.  Recovery has weak
fairness only: a run that stays stale is recovered, one that is stale for a moment because its
heartbeat was late may be missed.  So a cancelled run with a live executor ends because its heartbeat
notices the cancellation, not because recovery happens to see it.
In `ErrorRowRetry` time passes, the
renewing ticker ticks, the worker recovers expired leases at every `RecoveryInterval` and a call's
goroutines go on; a replay need not return, and a call that dies takes no more steps.
In `SyncSchedule` time passes and a place that only runs loops takes the steps of its cycle (`schedulerLoop`
ticks until it is shut down); creations and other statements may fail as often as `MaxFaults` lets them.
In `SqlTransaction` the backend works on and its answers are delivered.  In `AIRunEvents` the
receipt, the bootstrap and the reads are answered and reads from some time on no longer fail, timers fire, the effect runs when its key
has changed, and an announcement is delivered or lost.  This is weak fairness of those actions.  For the timer, the bootstrap, the reads and the
announcements the module states it by the states their steps lead to (`[]<>(ui.read = None)` and so on), which TLC
evaluates much faster than ENABLED of actions with large primed records.  Neither the run nor the user owes a step.
Nothing is assumed of users or of executors; in particular an executor need not return.

## 4. Proofs

`SyncRunsProofs` proves, for any jobs, runs, managers and bounds that satisfy
`SyncRunsAssumption` (subset relations between the constants, positive capacity and
staleness, `None` is not an element):

| Theorem | States |
|---|---|
| `TypeCorrect` | `TypeOK` |
| `MutualExclusion` | `OneActiveRunPerJob` |
| `TokensFenceRuns` | `OwnerTokens` |
| `HistoryIsFinal` | `RunHistoryIsFinal` |
| `CheckpointsAreFenced` | `CheckpointFenced` |
| `SeenIsStored` | `SeenCheckpointIsStored` |
| `PausesOnlyOwnFailure` | `PauseOnlyAfterOwnFailure` |
| `ForbidIsExclusive` | `ForbidAllowsOnePendingRun` |
| `PurgeIsFinal` | `PurgedJobLeavesNothing` |
| `AutoResumeIsHarmless` | `AutoResumeRespectsCancel` |
| `CapacityIsKept` (in `SyncRunsCapacityProofs`) | `WithinCapacity` |
| `StoreImplementsFencedLock` | `Spec => FencedSpec` |
| `CheckpointsAreNeverAhead` | through the refinement: no checkpoint is stamped with a token newer than the owner's |

and `FencedCheckpoint` proves `StampsAreNeverAhead` of the abstract lock itself.

`ErrorRowRetryProofs` proves, for any callers and any lease, interval and lag that satisfy
`ErrorRowRetryAssumption`:

| Theorem | States |
|---|---|
| `TypeCorrect` | `TypeOK` |
| `ClaimsAreCounted` | `AttemptsCountClaims` |
| `LastClaimResolves` | `ResolvedByLastClaim` |
| `SettledStays` | `SettledRowsStay` |
| `ReplaysExclude` | `OneReplayAtATime` |
| `RetryImplementsFencedTask` | `Spec => TaskSpec` |

Its invariant says that a row in retry carries the last token given out, that no two callers
have the same token, and that a call only reports success of a change that reached the target;
settling a row then implies holding the last claim.  For `ReplaysExclude` it adds `Timely`: what is
left of the lease and the time since its last extension together make at least `LeaseTTL - Lag`.  As
the caller never waits longer than `RenewInterval`, its lease cannot run out, so nobody can claim the row.
For the refinement, claiming and taking over map to `Claim`, recovery and a failed finish to `GiveBack`, a successful
finish to `Complete` (the holder has the last token, and what it reports took effect), a replay to `TakeEffect`; renewals,
waiting, deaths and calls that come too late are stutters.

The argument for `SyncRuns`.  `TypeOK` is strengthened by `References` (a row names a job; only a run that
left the queue has an execution; a pending call names a job) to become inductive.  Most steps
do not touch the owner columns at all; frame lemmas say so once per group of actions (steps
of an execution, steps that only move rows to an ended state, steps that claim nothing), so
that the proof of an invariant only deals with `ClaimRun`, completion and recovery.  The token
invariant adds to `OwnerTokens` that tokens of executions are distinct and already issued, which
makes a new token fresh.  `OneActiveRunPerJob` follows from the condition in `ClaimRun`.  For
checkpoints the strengthening says that the checkpoint of a job was written by a run of the job
that has an execution, and that its token is at most the holder's; only the holder's guard
(`owner = token` and `status = "running"`) writes, hence `CheckpointFenced`,
`SeenCheckpointIsStored` and the refinement: `ClaimRun` maps to `Grant`, `SaveCheckpoint` to
`Write`, clearing, resetting and purging to `Clear`, completion and recovery to `Release`, all
else to stuttering.  For the capacity, `Roomy` says that the active map is finite, that a manager has claimed at
most one run it has not launched, and that there is room for it; no step but a launch adds to the map.

`SyncScheduleProofs` proves, for any schedulers and commands, any set of schedules, lease and bounds that
satisfy `SyncScheduleAssumption`:

| Theorem | States |
|---|---|
| `TypeCorrect` | `TypeOK` |
| `OneRunPerSlot` | `SlotRunsOnce` |
| `NoneSkipped` | `NoSlotSkipped` |
| `MovesForward` | `ScheduleMovesForward` |
| `CatchUpComplete` | `CatchUpMissesNothing` |

Its invariant adds what a process knows: the slot it listed was due when it read the clock and what it computed
comes later (`ReadDue`), whoever is about to advance has dealt with its slot (`CreatedFirst`), every run on record
belongs to a slot that was dealt with, and before the first edit a job that catches up is advanced from its slot
(`AdvancedFromSlot`).  Apart from its type nothing is said of the lease: the proofs hold for a lease that excludes nobody.  Two lemmas about
`NextRunAt`, that it goes forward and that it is monotonic, carry the argument that no slot of a grid lies
between one and the next.

`SqlTransactionProofs` proves, for any number of runs and reloads:

| Theorem | States |
|---|---|
| `TypeCorrect` | `TypeOK` |
| `StatementsBeforeEnd` | `NoStatementAfterEnd` |
| `TimerBelongsToPending` | `TimerOfPending` |
| `ReleasedStaysUncommitted` | `ReleasedNeverCommits` |
| `ShownIsNeverReplaced` | `PendingNeverReplaced` |
| `NoCommitUnapproved` | `NoUnapprovedCommit` |

Its invariant says that what the editor shows or asks about was named by the answer to a finished run (`Named`), that an automatic
commit that asks has spent its timer (`AskingSpentTimer`), that a current run about to open a transaction finds none
pending (`OneManaged`), where a query is when its transaction is in which state and who holds the mutex (`Calls`), that a
commit is the last the editor does with a transaction (`CommitIsLast`), and that a released one is out of reach of a commit
(`ReleasedOutOfReach`).

`AIRunEventsProofs` proves, for any number of events, page size, lag and number of reopenings:

| Theorem | States |
|---|---|
| `Types` | `TypeOK` |
| `Causes` | `CauseShown` |
| `Turns` | `TurnsShown` |

The panel's state is one record that each handler replaces by a function of it, so the proofs are about functions:
what each leaves alone (`SameReads`, `Alike`), what it keeps on the screen (`Keeps`), what an event does (`Applied`),
what `accept` does (`Accepted`) and what a sequence of accepted events does (`Run`); `Steps` carries these
through the loops, by induction over the number of steps.  The invariant (`Inv`) says of the ledger what may
follow what (`LogOK`: a terminal event is the last one, a turn follows one of its deltas) and of the panel (`Sound`):

* `EndSeen`: a cursor that has reached a terminal event is over, and while the run fits in one page the panel is over only at a
  terminal event, because a page read to its end leaves nothing for a terminal snapshot to make up;
* `ErrorSeen`: `lastError` names an error event before the cursor, in a run that fits in a page the last one;
* `Caused`: an end is handled only when the run has ended, and a failure with its cause or with an outlived error.  The
  terminal event itself has the error event of its failure before it, the snapshot has the reason: what is shown is `lastError`
  or the cause, and an older `lastError` with a cause of its own needs a run longer than a page.  `CauseShown` follows at once;
* `ReadSound`, with `Tallied`: a replay has counted every turn before the page it reads next, unless the projection was
  live since or is over.

For `TurnsShown`, `Showing` says that the turn's text is in the run's row and in what later turns are appended to; applying the
turn establishes it (`completedValue` and `appendModelTurn` keep or add the text) and every later event of the same page
keeps it.  A replay that leaves out turn n compares two counts, of the turns it has met and of the ledger's at the bootstrap.
By `ReadSound` it has met all turns up to n, so the comparison says that the ledger's message had the n-th event among its turns:
this is `LeftToShown`, and a replay that started late or skipped a page would break it.


Updates of several fields of one record of a function are written `![p] = [@ EXCEPT !.a = x, !.b = y]` throughout the
modules with proofs: tlapm 1.4.5 translates the equivalent `![p].a = x, ![p].b = y` wrongly for SMT (FALSE can be
derived from it).

Only model-checked: the liveness properties `CancelledOrOrphanedRunEnds`, `QueuedRunStarts`, `LostReplayIsCancelled`,
`RetryEnds`, `ReleasedEnds`, `DueSlotHandled`, `GapFills`, `EndProjected`, and everything under fairness: TLAPS as installed proves no
property with ENABLED or fairness.  Induction over data and RECURSIVE operators are out of
its reach too; `Lineage` is a recursive function and no theorem depends on what it computes.  What `Steps` computes is
proved only as far as a property that every step keeps; the text of `DurableText` is only shown to be a text.

## 5. Where code and documentation disagree

`DATA_SYNC_TASKS.md` line 31 says that pausing or archiving a task stops its scheduling and ends
its active runs.  `StoppedJobDrains` states that, and `SyncRuns_pause` finds the counterexample:
`StartRun` (or `enqueueScheduled`) reads a ready definition, the user pauses the job and its runs
are cancelled, then the insert commits: `insertRun` checks the policy and, by foreign key, the
row of the job, but not its lifecycle.  The queued run is never claimed, because `ClaimRun` wants a
runnable job, and nothing cancels it; until a user does, or resumes the job, the job cannot be
purged nor its checkpoint reset.  A crash between the two statements of `PutJob`, `PauseJob` or
`DeleteJob` leaves the same state behind.

`QueryEditor.tsx` (11245-11248) says that a transaction whose answer arrives after its tab was closed is rolled back "instead
of leaving an orphaned lock".  `SqlTransaction_orphan` finds the orphan the next line leaves: when the tab is open but the run
was superseded by another or cancelled, `if (!isCurrentRun()) return` drops the answer with its transaction id.  The
transaction keeps its connection and locks until a reload or the end of the application.

`useSqlEditorTransactionController.ts` (84-85) rules out a toolbar that goes on counting down to a commit that never comes.
`SqlTransaction_stuck` finds it: the timer fires while the connection is gone, or while the confirmation of a manual commit is open
that the user then declines, and neither path leaves automatic mode.

`useAIChatRunEventSubscription.ts` (1060-1062) says that polling keeps a dropped terminal event from leaving the chat permanently
sending.  `AIRunEvents_sending` finds a run after which it stays so: the answer of the bootstrap, older than the terminal event that
was projected meanwhile, sets sending again, and its replay is dropped because a recovery read is in flight.

Met while modelling, stated by no document and checked by no run:

* *Chat panel.*  A bootstrap that finds the run over does not clear sending unless this panel submitted the run.  A stale "waiting"
  snapshot clears the poll a live event has just armed.  In a run of more than a page of events the terminal event made of a
  snapshot can take the number of an unread turn, which the projection then never shows: only the hydration that
  the end asks for brings its text (hence the exemption in `TurnsShown`).  `lastError` is never forgotten: an exhausted or aborted
  run, or a failed one whose end is projected before the page with its own error event, is shown with the message of an
  earlier error that it got over (hence the second disjunct of `CauseShown`).  Once a bootstrap has answered for an active run, every
  later read of that subscription is a replay (`replayByRun` is only cleared with the effect).  A live delta or turn
  makes it leave out the text of all turns to come (lines 1051 and 775-801), also of one whose
  `model_completed` was lost; and it leaves out as durable the turns the bootstrap counted, even if an older hydration has since
  replaced the rows that showed them.  Their text is missing until the next hydration (`LeftToShown` names both cases).
  The comment of lines 823-826, that a terminal event carries only a stable reason or error code, is contradicted by
  harness.go:2813-2816, which puts the provider's full message there.  Deltas drained after the flush
  of a replay are held and flushed after a "canceled" terminal, whose row then goes on loading.  A hydration that overtakes
  announcements repeats text until the turn ends, and out-of-order answers of hydrations overwrite a final text
  (`TurnsShown` speaks of the moment a turn ends).  Reopening the panel or reloading hands a loading row to a fresh tracker, so deltas can be
  appended twice.  Buffered events that the cursor has passed stay in the buffer and keep a waiting run polled (`Gap`
  counts only those ahead).  `notifyRunSnapshot` may take the state of a run backwards.
* *Editor.*  A reload while the statement of a managed run executes leaves its transaction registered with nobody knowing it.
  A reading answer after the tab closed sends a rollback that may overtake a commit the user sent before.
* *Schedules.*  A job that catches up and forbids concurrent runs drops the slots that come due while a run is pending.  Deleting a run from
  the history between a late scheduler's read and its insert lets its slot run again (`SlotRunsOnce` speaks of runs on record).
  A slot that one process suppressed may still be run by another that listed it earlier.  `AdvanceScheduleIfDue` compares
  the slot and not the revision: an advance computed from the old definition can be stored over a save with the same next slot.

## 6. Not modelled

Executors and the background worker are planned above: an executor of `SyncRuns` may do anything its reporter
lets it, so what is shown holds for all of them, but not that a mapping is skipped or acknowledged
early.  Of schedules: cron expressions and time zones, the size of the failure backoff (only that there is one), the
translation to OS triggers, and the purge of a job under a scheduler.  Of AI runs: the harness itself (approvals, tools,
recovery, resumption), usage, several runs and tabs at once.  Of editor transactions: several tabs (each has its own state and
transactions) and what the drivers do.  Drivers, connections, MCP and web server, native windows and
the rest of the frontend are input and output or view state, with no protocol between GoNavi's own processes
that a model checker would say much about; they are by far the largest part of the source.  Validation of single
fields is left to unit tests.
