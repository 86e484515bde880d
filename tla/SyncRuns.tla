------------------------------ MODULE SyncRuns ------------------------------
(***************************************************************************)
(* Durable data-sync runs over one SQLite store shared by several          *)
(* processes (internal/syncjob).  Every Store method is one SQL statement  *)
(* or one immediate transaction and is one atomic step here; everything    *)
(* made of several statements (StartRun, ResumeRun, PauseJob, the life of  *)
(* an execution) is several steps, between which the other processes and   *)
(* threads act and the process may crash.                                  *)
(*                                                                         *)
(* A Manager process serves the user's calls on its "api" thread.  A       *)
(* manager that is not Passive (a Worker) also dispatches, executes, and   *)
(* on its "sched" thread schedules and recovers.                           *)
(***************************************************************************)
EXTENDS Naturals, FiniteSets

CONSTANTS
    Jobs, Runs, Managers,
    Workers,            \* managers with Passive = FALSE
    Clients,            \* managers users call; a headless worker gets no calls
    Forbid,             \* jobs whose ConcurrencyPolicy is "forbid" (others: "queue")
    Snapshot,           \* jobs whose IncrementalMode is snapshot
    AutoResume,         \* jobs whose ResumePolicy is "auto" (others: "manual")
    MaxConcurrentRuns,  \* ManagerOptions.MaxConcurrentRuns
    StaleAfter,         \* RecoveryStaleAfter, in clock ticks
    MaxPlan,            \* bound: distinct execution plans a job is given
    MaxBatch,           \* bound: checkpoints one execution saves
    MaxStops,           \* bound: crashes and shutdowns
    None                \* no run, no manager

ASSUME SyncRunsAssumption ==
    /\ Workers \subseteq Managers /\ Clients \subseteq Managers
    /\ Forbid \subseteq Jobs /\ Snapshot \subseteq Jobs /\ AutoResume \subseteq Jobs
    /\ MaxConcurrentRuns \in Nat \ {0}
    /\ StaleAfter \in Nat \ {0}
    /\ MaxPlan \in Nat \ {0} /\ MaxBatch \in Nat /\ MaxStops \in Nat
    /\ None \notin Runs /\ None \notin Managers /\ None \notin Jobs

VARIABLES
    job,        \* data_sync_jobs: lifecycle and execution plan
    status,     \* data_sync_runs.status; "none" before the row, "deleted" after it
    info,       \* the columns of a run that are written once, at its creation
    owner,      \* data_sync_runs.owner_token, 0 standing for ''
    age,        \* clock ticks since heartbeat_at, capped at StaleAfter
    resumable,  \* data_sync_runs.resumable
    ckpt,       \* data_sync_checkpoints
    lastToken,  \* owner tokens handed out so far (uuid.NewString)
    mgr,        \* manager processes
    call,       \* the multi-statement call each thread is in the middle of
    todo,       \* runs recoverInterrupted has still to resume automatically
    exec,       \* the goroutine executing a run (a run is claimed at most once)
    stops       \* crashes and shutdowns so far

store == <<job, status, info, owner, age, resumable, ckpt, lastToken>>
procs == <<mgr, call, todo, exec, stops>>
vars == <<job, status, info, owner, age, resumable, ckpt, lastToken, mgr, call,
          todo, exec, stops>>

Kinds     == {"api", "sched"}
Threads   == Managers \X Kinds
Lifecycle == {"ready", "paused", "archived", "gone"}
Terminal  == {"succeeded", "failed", "canceled", "interrupted"}
Active    == {"running", "cancelling"}
Pending   == Active \cup {"queued"}
Status    == Pending \cup Terminal \cup {"none", "deleted"}
Causes    == {"none", "canceled", "lost", "shutdown"}
\* "error" stands for a partial outcome too, which only carries another label.
Results   == {"none", "ok", "error", "permanent"}

\* What an execution is about to do.  "claimed": ClaimRun committed, not launched
\* yet; "pause"/"stop": the two statements of PauseJob after a permanent failure.
ExecPC == {"none", "claimed", "start", "touch", "run", "returned", "finish",
           "pause", "stop", "done"}
\* The executions a manager counts in its active map.
InActiveMap == {"start", "touch", "run", "returned", "finish", "pause", "stop"}

NoCheckpoint == [run |-> None, batch |-> 0]
Checkpoint   == [run : Runs \cup {None}, batch : 0..MaxBatch]
NoExec == [pc |-> "none", host |-> None, token |-> 0, cause |-> "none",
           beat |-> FALSE, seen |-> NoCheckpoint, result |-> "none"]
Exec   == [pc : ExecPC, host : Managers \cup {None}, token : Nat, cause : Causes,
           beat : BOOLEAN, seen : Checkpoint, result : Results]
\* A goroutine that has ended: only its token is remembered, to relate it to its row.
Ended(e) == [NoExec EXCEPT !.pc = "done", !.token = e.token]
NoInfo == [job |-> None, plan |-> 0, parent |-> None, auto |-> FALSE]
Info   == [job : Jobs \cup {None}, plan : 0..MaxPlan, parent : Runs \cup {None},
           auto : BOOLEAN]      \* auto: queued by recoverInterrupted, not by a user
NoCall == [pc |-> "idle", info |-> NoInfo]
Call   == [pc : {"idle", "resume", "create", "stop"}, info : Info]

TypeOK ==
    /\ job \in [Jobs -> [lc : Lifecycle, plan : 1..MaxPlan]]
    /\ status \in [Runs -> Status]
    /\ info \in [Runs -> Info]
    /\ owner \in [Runs -> Nat]
    /\ age \in [Runs -> 0..StaleAfter]
    /\ resumable \in [Runs -> BOOLEAN]
    /\ ckpt \in [Jobs -> Checkpoint]
    /\ lastToken \in Nat
    /\ mgr \in [Managers -> {"up", "closing", "down"}]
    /\ call \in [Threads -> Call]
    /\ todo \in [Managers -> SUBSET Runs]
    /\ exec \in [Runs -> Exec]
    /\ stops \in 0..MaxStops

\* A row names its job, and only a run that has a row has an execution.
References ==
    /\ \A r \in Runs : status[r] = "none" <=> info[r].job = None
    /\ \A r \in Runs : exec[r].pc # "none" => status[r] \notin {"none", "queued"}
    /\ \A t \in Threads : call[t].pc # "idle" => call[t].info.job \in Jobs

Init ==
    /\ job = [j \in Jobs |-> [lc |-> "ready", plan |-> 1]]
    /\ status = [r \in Runs |-> "none"]
    /\ info = [r \in Runs |-> NoInfo]
    /\ owner = [r \in Runs |-> 0]
    /\ age = [r \in Runs |-> 0]
    /\ resumable = [r \in Runs |-> FALSE]
    /\ ckpt = [j \in Jobs |-> NoCheckpoint]
    /\ lastToken = 0
    /\ mgr = [m \in Managers |-> "up"]
    /\ call = [t \in Threads |-> NoCall]
    /\ todo = [m \in Managers |-> {}]
    /\ exec = [r \in Runs |-> NoExec]
    /\ stops = 0

-----------------------------------------------------------------------------
(* Reading the store.                                                      *)

RunsOf(j)   == {r \in Runs : info[r].job = j}
Runnable(j) == job[j].lc = "ready"
Owns(r)     == owner[r] = exec[r].token /\ status[r] \in Active
OwnsRunning(r) == owner[r] = exec[r].token /\ status[r] = "running"
NoPending(j) == \A r \in RunsOf(j) : status[r] \notin Pending
Hosted(m)   == {r \in Runs : exec[r].host = m /\ exec[r].pc \notin {"none", "done"}}
ActiveMap(m) == {r \in Hosted(m) : exec[r].pc \in InActiveMap}

\* A thread that may start a new call: the manager is open (ensureOpen).
Free(m, k) == /\ mgr[m] = "up"
              /\ m \in IF k = "sched" THEN Workers ELSE Clients
              /\ call[<<m, k>>] = NoCall

\* Bound: a call that may create a run starts only when Runs has one for it.
Creating == {t \in Threads : call[t].pc \in {"resume", "create"}}
RunLeft  == Cardinality(Creating) < Cardinality({r \in Runs : status[r] = "none"})

\* context.CancelCauseFunc keeps the first cause; after finish nobody reads it.
Cancelled(e, why) == IF e.cause = "none" /\ e.pc \notin {"pause", "stop"}
                     THEN [e EXCEPT !.cause = why] ELSE e

\* An execution on its way to finish, which has no more use for the checkpoint.
ToFinish(e) == [e EXCEPT !.pc = "finish", !.seen = NoCheckpoint]

\* The chain of parents GetRun can still read, from p upwards.
Lineage(p) ==
    LET Up[r \in Runs] ==
            {r} \cup IF info[r].parent \in Runs /\ status[info[r].parent] # "deleted"
                     THEN Up[info[r].parent] ELSE {}
    IN  Up[p]

-----------------------------------------------------------------------------
(* Creating runs.                                                          *)

\* StartRun and the head of enqueueScheduled: the definition is read here and
\* the row is inserted by CreateRun, from this snapshot, one step later.
StartRun(m, k, j) ==
    /\ Free(m, k) /\ RunLeft
    /\ k = "sched" => todo[m] = {}
    /\ Runnable(j)
    /\ call' = [call EXCEPT ![<<m, k>>] =
                  [pc |-> "create",
                   info |-> [NoInfo EXCEPT !.job = j, !.plan = job[j].plan]]]
    /\ UNCHANGED <<store, mgr, todo, exec, stops>>

\* A terminal run whose job is runnable and still has the run's execution plan
\* (requireCurrentRunnableDefinition) may be repeated.
MayRetry(p)  == /\ status[p] \in Terminal \ {"succeeded"}
                /\ Runnable(info[p].job) /\ job[info[p].job].plan = info[p].plan
MayResume(p) == MayRetry(p) /\ resumable[p]

\* ResumeRun up to requireCurrentRunnableDefinition: the parent run and the
\* current definition.  The sched thread works through what it recovered.
ResumeRun(m, k, p) ==
    /\ Free(m, k)
    /\ k = "sched" => p \in todo[m]
    /\ todo' = IF k = "sched" THEN [todo EXCEPT ![m] = @ \ {p}] ELSE todo
    /\ \/ /\ MayResume(p) /\ RunLeft
          /\ call' = [call EXCEPT ![<<m, k>>] =
                        [pc |-> "resume",
                         info |-> [job |-> info[p].job, plan |-> info[p].plan, parent |-> p,
                                   auto |-> k = "sched"]]]
       \/ /\ k = "sched"
          /\ ~(MayResume(p) /\ RunLeft)
          /\ UNCHANGED call
    /\ UNCHANGED <<store, mgr, exec, stops>>

\* The rest of ResumeRun: the job's checkpoint must come from the parent's
\* lineage and from the same plan, otherwise ErrRunNotResumable.
CheckLineage(m, k) ==
    LET c == call[<<m, k>>]
        cp == ckpt[c.info.job].run
        inLineage == /\ cp # None
                     /\ cp \in Lineage(c.info.parent)
                     /\ info[cp].plan = c.info.plan
    IN  /\ mgr[m] # "down" /\ c.pc = "resume"
        /\ call' = [call EXCEPT ![<<m, k>>] =
                      IF inLineage THEN [c EXCEPT !.pc = "create"] ELSE NoCall]
        /\ UNCHANGED <<store, mgr, todo, exec, stops>>

\* RetryRun up to createRun.
RetryRun(m, p) ==
    /\ Free(m, "api") /\ RunLeft
    /\ MayRetry(p)
    /\ call' = [call EXCEPT ![<<m, "api">>] =
                  [pc |-> "create",
                   info |-> [job |-> info[p].job, plan |-> info[p].plan, parent |-> p,
                             auto |-> FALSE]]]
    /\ UNCHANGED <<store, mgr, todo, exec, stops>>

\* Mutants of MayInsert: foreign keys are off; "forbid" overlooks queued runs.
MayInsertOrphan(j) == j \in Forbid => NoPending(j)
MayInsertBehindQueued(j) ==
    job[j].lc # "gone" /\ (j \in Forbid => \A r \in RunsOf(j) : status[r] \notin Active)

\* insertRun: the job row must exist (foreign key) and, under "forbid", no run
\* of the job may be pending.  The job's lifecycle is not read again.
MayInsert(j) == job[j].lc # "gone" /\ (j \in Forbid => NoPending(j))

\* CreateRunWithPolicyAndQueuedEvent: one transaction that inserts a fresh run
\* or fails, which ends the call either way.
CreateRun(m, k) ==
    LET c == call[<<m, k>>]
    IN  /\ mgr[m] # "down" /\ c.pc = "create"
        /\ call' = [call EXCEPT ![<<m, k>>] = NoCall]
        /\ \/ /\ MayInsert(c.info.job)
              /\ \E r \in Runs :
                    /\ status[r] = "none"
                    /\ status' = [status EXCEPT ![r] = "queued"]
                    /\ info' = [info EXCEPT ![r] = c.info]
           \/ /\ ~MayInsert(c.info.job)
              /\ UNCHANGED <<status, info>>
        /\ UNCHANGED <<job, owner, age, resumable, ckpt, lastToken, mgr, todo, exec, stops>>

-----------------------------------------------------------------------------
(* Jobs, cancellation and history.                                         *)

\* The UPDATE shared by RequestCancelRun and requestCancelRunsForJob.
CancelRuns(S) ==
    status' = [r \in Runs |-> IF r \in S /\ status[r] = "queued" THEN "canceled"
                              ELSE IF r \in S /\ status[r] \in Active THEN "cancelling"
                              ELSE status[r]]

\* cancelLocalRun / cancelLocalJobRuns, after the statement has committed: only
\* executions of this process, and some of them have moved on when it comes.
CancelLocal(S, m) ==
    \E T \in SUBSET (S \cap ActiveMap(m)) :
        exec' = [r \in Runs |-> IF r \in T THEN Cancelled(exec[r], "canceled") ELSE exec[r]]

CancelRun(m, r) ==
    /\ Free(m, "api")
    /\ status[r] \in Pending
    /\ CancelRuns({r})
    /\ CancelLocal(IF status[r] \in Active THEN {r} ELSE {}, m)
    /\ UNCHANGED <<job, info, owner, age, resumable, ckpt, lastToken, mgr, call, todo, stops>>

\* PauseJob, DeleteJob (archive) and PutJob with an inactive lifecycle.  putJob
\* compares revisions in its transaction, so reading and saving the definition
\* are one step; the runs are cancelled by a second statement.
StopJob(m, j, lc) ==
    /\ Free(m, "api")
    /\ job[j].lc # "gone"
    /\ job' = [job EXCEPT ![j].lc = lc]
    /\ call' = [call EXCEPT ![<<m, "api">>] = [pc |-> "stop", info |-> [NoInfo EXCEPT !.job = j]]]
    /\ UNCHANGED <<status, info, owner, age, resumable, ckpt, lastToken, mgr, todo, exec, stops>>

\* requestCancelRunsForJob and cancelLocalJobRuns.
StopRuns(m) ==
    LET c == call[<<m, "api">>]
    IN  /\ mgr[m] # "down" /\ c.pc = "stop"
        /\ CancelRuns(RunsOf(c.info.job))
        /\ CancelLocal(RunsOf(c.info.job), m)
        /\ call' = [call EXCEPT ![<<m, "api">>] = NoCall]
        /\ UNCHANGED <<job, info, owner, age, resumable, ckpt, lastToken, mgr, todo, stops>>

\* PutJob with a runnable lifecycle: an edit, or a job put back into service.
PutJob(m, j, plan) ==
    /\ Free(m, "api")
    /\ job[j].lc # "gone"
    /\ job' = [job EXCEPT ![j] = [lc |-> "ready", plan |-> plan]]
    /\ UNCHANGED <<status, info, owner, age, resumable, ckpt, lastToken, procs>>

\* PurgeJob: ON DELETE CASCADE removes the runs and the checkpoint.
PurgeJob(m, j) ==
    /\ Free(m, "api")
    /\ job[j].lc # "gone"
    /\ NoPending(j)
    /\ job' = [job EXCEPT ![j].lc = "gone"]
    /\ status' = [r \in Runs |-> IF r \in RunsOf(j) THEN "deleted" ELSE status[r]]
    /\ ckpt' = [ckpt EXCEPT ![j] = NoCheckpoint]
    /\ UNCHANGED <<info, owner, age, resumable, lastToken, procs>>

ResetCheckpoint(m, j) ==
    /\ Free(m, "api")
    /\ ckpt[j] # NoCheckpoint
    /\ NoPending(j)
    /\ ckpt' = [ckpt EXCEPT ![j] = NoCheckpoint]
    /\ UNCHANGED <<job, status, info, owner, age, resumable, lastToken, procs>>

\* DeleteRun and ClearTerminalRuns.
DeleteRuns(m, S) ==
    /\ Free(m, "api")
    /\ S # {} /\ \A r \in S : status[r] \in Terminal
    /\ status' = [r \in Runs |-> IF r \in S THEN "deleted" ELSE status[r]]
    /\ UNCHANGED <<job, info, owner, age, resumable, ckpt, lastToken, procs>>

DeleteRun(m, r) == DeleteRuns(m, {r})
ClearTerminalRuns(m, j) == DeleteRuns(m, {r \in RunsOf(j) : status[r] \in Terminal})

-----------------------------------------------------------------------------
(* Dispatching and executing.                                              *)

\* Mutant: off by one.
HasRoomForOneMore(m) == Cardinality(ActiveMap(m)) <= MaxConcurrentRuns
HasDispatchCapacity(m) == Cardinality(ActiveMap(m)) < MaxConcurrentRuns

\* Mutant: the job's other runs are not looked at.
MayClaimAny(r) == status[r] = "queued" /\ Runnable(info[r].job)
\* The conditions of ClaimRun's UPDATE.
MayClaim(r) == /\ status[r] = "queued"
               /\ Runnable(info[r].job)
               /\ \A s \in RunsOf(info[r].job) \ {r} : status[s] \notin Active

\* dispatchQueued claims one run at a time, and launches it before the next.
ClaimRun(m, r) ==
    /\ m \in Workers /\ mgr[m] = "up"
    /\ HasDispatchCapacity(m)
    /\ \A s \in Hosted(m) : exec[s].pc # "claimed"
    /\ MayClaim(r)
    /\ lastToken' = lastToken + 1
    /\ status' = [status EXCEPT ![r] = "running"]
    /\ owner' = [owner EXCEPT ![r] = lastToken + 1]
    /\ age' = [age EXCEPT ![r] = 0]
    /\ exec' = [exec EXCEPT ![r] = [NoExec EXCEPT !.pc = "claimed", !.host = m,
                                                 !.token = lastToken + 1]]
    /\ UNCHANGED <<job, info, resumable, ckpt, mgr, call, todo, stops>>

\* Mutant: the owner token stays in the row.
CompleteRunKeepingToken(r, st, res) ==
    /\ status' = [status EXCEPT ![r] = st]
    /\ age' = [age EXCEPT ![r] = 0]
    /\ resumable' = [resumable EXCEPT ![r] = res \/ st = "interrupted"]
    /\ UNCHANGED owner

\* CompleteRunOwnedWithTerminalEvent.
CompleteRun(r, st, res) ==
    /\ status' = [status EXCEPT ![r] = st]
    /\ owner' = [owner EXCEPT ![r] = 0]
    /\ age' = [age EXCEPT ![r] = 0]
    /\ resumable' = [resumable EXCEPT ![r] = res \/ st = "interrupted"]

\* Mutant: a cancellation in the row is not noticed.
OwnershipInStore(r) == IF Owns(r) THEN "none" ELSE "lost"
\* What the row tells its execution, in launch and at each heartbeat.
CauseInStore(r) == IF ~Owns(r) THEN "lost"
                   ELSE IF status[r] = "cancelling" THEN "canceled" ELSE "none"

\* launch: the run is read again and its context cancelled when the claim was
\* lost or a cancellation came in between.
Launch(r) ==
    LET e == exec[r]
    IN  /\ e.pc = "claimed" /\ mgr[e.host] = "up"
        /\ exec' = [exec EXCEPT ![r] = [e EXCEPT !.pc = "start", !.cause = CauseInStore(r)]]
        /\ UNCHANGED <<store, mgr, call, todo, stops>>

\* A claim that meets a closing manager: launch refuses it and the run is
\* finished, or reading the claimed run failed with the manager's context and
\* the run is left to recovery.
LaunchRefused(r) ==
    LET e == exec[r]
    IN  /\ e.pc = "claimed" /\ mgr[e.host] = "closing"
        /\ exec' = [exec EXCEPT ![r] = Ended(e)]
        /\ \/ Owns(r) /\ CompleteRun(r, "interrupted", TRUE)
           \/ UNCHANGED <<status, owner, age, resumable>>
        /\ UNCHANGED <<job, info, ckpt, lastToken, mgr, call, todo, stops>>

Alive(r) == mgr[exec[r].host] # "down"

\* execute: a cancelled context ends it, otherwise GetCheckpoint.
LoadCheckpoint(r) ==
    LET e == exec[r]
    IN  /\ e.pc = "start" /\ Alive(r)
        /\ exec' = [exec EXCEPT ![r] =
                      IF e.cause # "none" THEN ToFinish(e)
                      ELSE [e EXCEPT !.pc = "touch", !.seen = ckpt[info[r].job]]]
        /\ UNCHANGED <<store, mgr, call, todo, stops>>

\* TouchRunOwned before the executor starts.
TouchBeforeExecution(r) ==
    LET e == exec[r]
    IN  /\ e.pc = "touch" /\ Alive(r)
        /\ IF e.cause = "none" /\ Owns(r)
           THEN /\ age' = [age EXCEPT ![r] = 0]
                /\ exec' = [exec EXCEPT ![r] = [e EXCEPT !.pc = "run"]]
           ELSE /\ exec' = [exec EXCEPT ![r] = ToFinish(Cancelled(e, "lost"))]
                /\ UNCHANGED age
        /\ UNCHANGED <<job, status, info, owner, resumable, ckpt, lastToken, mgr, call, todo, stops>>

\* One tick of heartbeat: GetRun, then TouchRunOwned.
HeartbeatRead(r) ==
    LET e == exec[r]
    IN  /\ e.pc = "run" /\ Alive(r) /\ e.cause = "none" /\ ~e.beat
        /\ exec' = [exec EXCEPT ![r] =
                      [e EXCEPT !.cause = CauseInStore(r), !.beat = CauseInStore(r) = "none"]]
        /\ UNCHANGED <<store, mgr, call, todo, stops>>

HeartbeatTouch(r) ==
    LET e == exec[r]
    IN  /\ e.pc = "run" /\ Alive(r) /\ e.beat
        /\ IF Owns(r)
           THEN /\ age' = [age EXCEPT ![r] = 0]
                /\ exec' = [exec EXCEPT ![r].beat = FALSE]
           ELSE /\ exec' = [exec EXCEPT ![r] = [Cancelled(e, "lost") EXCEPT !.beat = FALSE]]
                /\ UNCHANGED age
        /\ UNCHANGED <<job, status, info, owner, resumable, ckpt, lastToken, mgr, call, todo, stops>>

\* The executor's reports, with its context still live; one that does not own
\* the running row changes nothing and fails.
ReportProgress(r) ==
    /\ exec[r].pc = "run" /\ Alive(r) /\ exec[r].cause = "none"
    /\ OwnsRunning(r)
    /\ age' = [age EXCEPT ![r] = 0]
    /\ UNCHANGED <<job, status, info, owner, resumable, ckpt, lastToken, procs>>

\* Mutants: the statement does not look at the owner; it accepts a cancelling run.
CheckpointUnguarded(r) == TRUE
CheckpointOwned(r) == Owns(r)
\* The WHERE clause of PutCheckpointOwned and DeleteCheckpointOwned.
CheckpointGuard(r) == OwnsRunning(r)

SaveCheckpoint(r) ==
    LET e == exec[r]
        mine == IF e.seen.run = r THEN e.seen.batch ELSE 0
        cp == [run |-> r, batch |-> mine + 1]
    IN  /\ e.pc = "run" /\ Alive(r) /\ e.cause = "none" /\ mine < MaxBatch
        /\ CheckpointGuard(r)
        /\ ckpt' = [ckpt EXCEPT ![info[r].job] = cp]
        /\ exec' = [exec EXCEPT ![r].seen = cp]
        /\ UNCHANGED <<job, status, info, owner, age, resumable, lastToken, mgr, call, todo, stops>>

\* The executor returns; it may do so at any time and with any result.  The
\* heartbeat goroutine is stopped and awaited.
ExecutorReturns(r, res) ==
    LET e == [exec[r] EXCEPT !.result = res]
    IN  /\ e.pc = "run" /\ Alive(r) /\ ~e.beat
        /\ exec' = [exec EXCEPT ![r] = IF res = "ok" /\ info[r].job \in Snapshot
                                       THEN [e EXCEPT !.pc = "returned"] ELSE ToFinish(e)]
        /\ UNCHANGED <<store, mgr, call, todo, stops>>

\* DeleteCheckpointOwned after a complete snapshot.
ClearCheckpoint(r) ==
    LET e == exec[r]
        clear == e.cause = "none"
    IN  /\ e.pc = "returned" /\ Alive(r)
        /\ ckpt' = IF clear /\ CheckpointGuard(r)
                   THEN [ckpt EXCEPT ![info[r].job] = NoCheckpoint] ELSE ckpt
        /\ exec' = [exec EXCEPT ![r] =
                      ToFinish(IF clear /\ ~CheckpointGuard(r) THEN [e EXCEPT !.result = "error"] ELSE e)]
        /\ UNCHANGED <<job, status, info, owner, age, resumable, lastToken, mgr, call, todo, stops>>

\* Mutant: the cause itself is stored.
StatusOfCause(e) == IF e.cause = "none" THEN "succeeded" ELSE e.cause
\* The terminal status: the context's cause decides before the result does.
TerminalStatus(e) ==
    CASE e.cause = "shutdown" -> "interrupted"
      [] e.cause = "canceled" -> "canceled"
      [] e.cause = "lost" -> "failed"
      [] e.cause = "none" /\ e.result = "ok" -> "succeeded"
      [] OTHER -> "failed"

\* Mutant: whoever executed the run may complete it, owner or not.
MayCompleteAny(r) == status[r] \notin {"queued", "deleted"}
MayComplete(r) == Owns(r)

\* Mutant: a permanent failure pauses the job although finish was refused.
PausesJobAnyway(r) == TerminalStatus(exec[r]) = "failed" /\ exec[r].result = "permanent"
PausesJob(r) == /\ MayComplete(r)
                /\ TerminalStatus(exec[r]) = "failed" /\ exec[r].result = "permanent"

\* finish; a permanent failure goes on to pause the job, but only when this
\* execution itself committed the failed status.
Finish(r, res) ==
    LET e == exec[r]
    IN  /\ e.pc = "finish" /\ Alive(r)
        /\ res => e.result \in {"error", "permanent"}
        /\ IF MayComplete(r) THEN CompleteRun(r, TerminalStatus(e), res)
           ELSE UNCHANGED <<status, owner, age, resumable>>
        /\ exec' = [exec EXCEPT ![r] = IF PausesJob(r)
                                       THEN [Ended(e) EXCEPT !.pc = "pause", !.host = e.host]
                                       ELSE Ended(e)]
        /\ UNCHANGED <<job, info, ckpt, lastToken, mgr, call, todo, stops>>

\* PauseJob after a permanent failure: its first statement, or its error.
PauseOwnJob(r) ==
    LET e == exec[r]
        j == info[r].job
        ok == mgr[e.host] = "up" /\ job[j].lc \notin {"archived", "gone"}
    IN  /\ e.pc = "pause" /\ Alive(r)
        /\ job' = IF ok THEN [job EXCEPT ![j].lc = "paused"] ELSE job
        /\ exec' = [exec EXCEPT ![r] = IF ok THEN [e EXCEPT !.pc = "stop"] ELSE Ended(e)]
        /\ UNCHANGED <<status, info, owner, age, resumable, ckpt, lastToken, mgr, call, todo, stops>>

StopOwnRuns(r) ==
    LET S == RunsOf(info[r].job)
        m == exec[r].host
    IN  /\ exec[r].pc = "stop" /\ Alive(r)
        /\ CancelRuns(S)
        /\ \E T \in SUBSET ((S \cap ActiveMap(m)) \ {r}) :
              exec' = [s \in Runs |-> IF s = r THEN Ended(exec[r])
                                      ELSE IF s \in T THEN Cancelled(exec[s], "canceled")
                                      ELSE exec[s]]
        /\ UNCHANGED <<job, info, owner, age, resumable, ckpt, lastToken, mgr, call, todo, stops>>

-----------------------------------------------------------------------------
(* Time, recovery, and the life of a process.                              *)

\* Heartbeats grow old; nothing forces a heartbeat to be on time.
Tick ==
    /\ \E r \in Runs : status[r] \in Active /\ age[r] < StaleAfter
    /\ age' = [r \in Runs |-> IF status[r] \in Active /\ age[r] < StaleAfter
                              THEN age[r] + 1 ELSE age[r]]
    /\ UNCHANGED <<job, status, info, owner, resumable, ckpt, lastToken, procs>>

\* Mutant: only running runs are recovered.
StaleRunning(r) == status[r] = "running" /\ age[r] = StaleAfter
Stale(r) == status[r] \in Active /\ age[r] = StaleAfter
\* Mutant: a cancelling run is interrupted like a running one.
InterruptedAlways(st) == "interrupted"
RecoveredStatus(st) == IF st = "running" THEN "interrupted" ELSE "canceled"

\* InterruptStaleRuns and what recoverInterrupted makes of the runs it returns.
\* The scheduler lease is a separate statement before it and may be lost in
\* between, so any worker may be here at any time.
InterruptStaleRuns(m) ==
    LET S == {r \in Runs : Stale(r)}
    IN  /\ Free(m, "sched") /\ todo[m] = {}
        /\ S # {}
        /\ status' = [r \in Runs |-> IF r \in S THEN RecoveredStatus(status[r]) ELSE status[r]]
        /\ resumable' = [r \in Runs |-> IF r \in S THEN RecoveredStatus(status[r]) = "interrupted"
                                        ELSE resumable[r]]
        /\ owner' = [r \in Runs |-> IF r \in S THEN 0 ELSE owner[r]]
        /\ age' = [r \in Runs |-> IF r \in S THEN 0 ELSE age[r]]
        /\ todo' = [todo EXCEPT ![m] = {r \in S : RecoveredStatus(status[r]) = "interrupted"
                                                  /\ info[r].job \in AutoResume}]
        /\ UNCHANGED <<job, info, ckpt, lastToken, mgr, call, exec, stops>>

\* Shutdown: the manager's context is cancelled, and with it every execution's;
\* the scheduler stops where it stands.  (A passive manager's shutdown only ends
\* its calls, which Crash covers.)
Shutdown(m) ==
    /\ m \in Workers
    /\ mgr[m] = "up" /\ stops < MaxStops
    /\ stops' = stops + 1
    /\ mgr' = [mgr EXCEPT ![m] = "closing"]
    /\ exec' = [r \in Runs |-> IF r \in ActiveMap(m) THEN Cancelled(exec[r], "shutdown")
                               ELSE exec[r]]
    /\ call' = [call EXCEPT ![<<m, "sched">>] = NoCall]
    /\ todo' = [todo EXCEPT ![m] = {}]
    /\ UNCHANGED store

\* The process ends, losing what it had in memory.
Dies(m) ==
    /\ mgr' = [mgr EXCEPT ![m] = "down"]
    /\ exec' = [r \in Runs |-> IF r \in Hosted(m) THEN Ended(exec[r]) ELSE exec[r]]
    /\ call' = [t \in Threads |-> IF t[1] = m THEN NoCall ELSE call[t]]
    /\ todo' = [todo EXCEPT ![m] = {}]
    /\ UNCHANGED store

\* Shutdown waits for its goroutines, up to a timeout; then the process exits.
Exit(m)  == mgr[m] = "closing" /\ Dies(m) /\ UNCHANGED stops
Crash(m) == mgr[m] # "down" /\ stops < MaxStops /\ Dies(m) /\ stops' = stops + 1

\* NewManager.
Restart(m) ==
    /\ mgr[m] = "down"
    /\ mgr' = [mgr EXCEPT ![m] = "up"]
    /\ UNCHANGED <<store, call, todo, exec, stops>>

-----------------------------------------------------------------------------
ApiStep(m) ==
    \/ \E j \in Jobs : StartRun(m, "api", j)
    \/ \E r \in Runs : ResumeRun(m, "api", r)
    \/ \E r \in Runs : RetryRun(m, r)
    \/ \E r \in Runs : CancelRun(m, r)
    \/ \E j \in Jobs, lc \in {"paused", "archived"} : StopJob(m, j, lc)
    \/ \E j \in Jobs, p \in 1..MaxPlan : PutJob(m, j, p)
    \/ \E j \in Jobs : PurgeJob(m, j)
    \/ \E j \in Jobs : ResetCheckpoint(m, j)
    \/ \E r \in Runs : DeleteRun(m, r)
    \/ \E j \in Jobs : ClearTerminalRuns(m, j)

\* The statements a call still owes.
CallStep(m, k) ==
    \/ CheckLineage(m, k)
    \/ CreateRun(m, k)
    \/ k = "api" /\ StopRuns(m)

SchedStep(m) ==
    \/ \E j \in Jobs : StartRun(m, "sched", j)
    \/ \E r \in Runs : ResumeRun(m, "sched", r)
    \/ InterruptStaleRuns(m)

\* What an execution does by itself, apart from the executor inside it.
RunStep(r) ==
    \/ Launch(r) \/ LaunchRefused(r)
    \/ LoadCheckpoint(r) \/ TouchBeforeExecution(r)
    \/ HeartbeatRead(r) \/ HeartbeatTouch(r)
    \/ ClearCheckpoint(r)
    \/ \E res \in BOOLEAN : Finish(r, res)
    \/ PauseOwnJob(r) \/ StopOwnRuns(r)

ExecutorStep(r) ==
    \/ ReportProgress(r)
    \/ SaveCheckpoint(r)
    \/ \E res \in Results \ {"none"} : ExecutorReturns(r, res)

Next ==
    \/ \E m \in Managers : ApiStep(m) \/ SchedStep(m)
    \/ \E m \in Managers, k \in Kinds : CallStep(m, k)
    \/ \E m \in Managers, r \in Runs : ClaimRun(m, r)
    \/ \E r \in Runs : RunStep(r) \/ ExecutorStep(r)
    \/ Tick
    \/ \E m \in Managers : Shutdown(m) \/ Exit(m) \/ Crash(m) \/ Restart(m)

Spec == Init /\ [][Next]_vars

\* The process and its goroutines keep running: dispatchLoop and schedulerLoop
\* tick for ever, and recover before they enqueue; a statement is eventually
\* executed; a dead worker is started again (KeepAlive, login item, the desktop's
\* Ensure).  Recovery may miss a run that is stale only for a moment.  Nothing is assumed of
\* the user, of the executor, or of how often processes stop (MaxStops bounds it).
Fairness ==
    /\ WF_vars(Tick)
    /\ \A m \in Managers : /\ \A k \in Kinds : WF_vars(CallStep(m, k))
                           /\ WF_vars(\E r \in Runs : ClaimRun(m, r))
                           /\ WF_vars(InterruptStaleRuns(m))
                           /\ WF_vars(\E r \in Runs : ResumeRun(m, "sched", r))
                           /\ WF_vars(Exit(m)) /\ WF_vars(Restart(m))
    /\ \A r \in Runs : WF_vars(RunStep(r))

FairSpec == Spec /\ Fairness

-----------------------------------------------------------------------------
(* Properties.                                                             *)

\* Two runs of one job are never both running or cancelling in the store,
\* whatever claims, crashes, recoveries and restarts interleave (ClaimRun).
OneActiveRunPerJob ==
    \A r, s \in Runs : /\ r # s /\ info[r].job = info[s].job
                       /\ status[r] \in Active /\ status[s] \in Active
                       => FALSE

\* Exactly the active runs carry an owner token, no two runs carry the same
\* one, and the token in the row is the one its only execution was given: a
\* token that was cleared never comes back to life.
OwnerTokens ==
    /\ \A r \in Runs : owner[r] # 0 <=> status[r] \in Active
    /\ \A r \in Runs : owner[r] # 0 => owner[r] = exec[r].token /\ owner[r] <= lastToken
    /\ \A r, s \in Runs : r # s /\ owner[r] # 0 => owner[r] # owner[s]

\* While an execution still owns its running row, the job's checkpoint is the
\* one it loaded or last saved itself: no other run, reset, purge or executor
\* that lost its run has moved it underneath (GetCheckpoint in execute,
\* PutCheckpointOwned, DeleteCheckpointOwned, ResetCheckpoint).
SeenCheckpointIsStored ==
    \A r \in Runs : /\ exec[r].pc \in {"touch", "run", "returned"}
                    /\ OwnsRunning(r)
                    => ckpt[info[r].job] = exec[r].seen

\* A job is paused for a permanent failure only by the execution that itself
\* committed the failed status (permanent_error.go): an executor that lost its
\* run to recovery cannot stop the job under the run that replaced it.
PauseOnlyAfterOwnFailure ==
    \A r \in Runs : exec[r].pc \in {"pause", "stop"} => status[r] \in {"failed", "deleted"}

\* The manager never runs more than MaxConcurrentRuns executions, executions
\* that lost their run included, and a claim never finds the map full.
WithinCapacity ==
    \A m \in Managers :
        /\ Cardinality(ActiveMap(m)) <= MaxConcurrentRuns
        /\ \A r \in Hosted(m) : exec[r].pc = "claimed" =>
                Cardinality(ActiveMap(m)) < MaxConcurrentRuns

\* Under the "forbid" policy a job never has two pending runs, however manual,
\* scheduled, retried and resumed runs race to be created (insertRun checks the
\* pending runs in the statement that inserts).
ForbidAllowsOnePendingRun ==
    \A r, s \in Runs : /\ r # s /\ info[r].job = info[s].job
                       /\ status[r] \in Pending /\ status[s] \in Pending
                       => info[r].job \notin Forbid

\* Nothing of a purged job is left in, or comes back to, the store, although
\* calls that read the job before and executions of its runs are still around.
PurgedJobLeavesNothing ==
    \A j \in Jobs : job[j].lc = "gone" =>
        /\ \A r \in RunsOf(j) : status[r] = "deleted"
        /\ ckpt[j] = NoCheckpoint

\* Recovery never resumes by itself a run somebody asked to cancel, even when
\* the process died before it could honour the request (recoverInterrupted).
AutoResumeRespectsCancel ==
    [][\A m \in Managers : \A r \in todo'[m] \ todo[m] : status[r] # "cancelling"]_vars

\* A job's checkpoint is moved only by the execution that owns the job's running
\* row at that moment, or removed while no run of the job is pending.
CheckpointFenced ==
    [][\A j \in Jobs : ckpt'[j] # ckpt[j] =>
          \/ \E r \in RunsOf(j) : OwnsRunning(r) /\ exec[r].pc \in {"run", "returned"}
          \/ ckpt'[j] = NoCheckpoint /\ NoPending(j)]_vars

\* A terminal run stays as it ended until its row is deleted, a cancellation is
\* never withdrawn, and only a queued run ever starts.
RunHistoryIsFinal ==
    [][\A r \in Runs : status'[r] # status[r] =>
          /\ status[r] \in Terminal => status'[r] = "deleted"
          /\ status[r] = "cancelling" => status'[r] \in Terminal
          /\ status'[r] = "running" => status[r] = "queued"]_vars

\* A cancelled run, and a run whose execution is gone, reaches a terminal state
\* even if the executor never returns: its heartbeat stops with its context and
\* recovery ends the run.
CancelledOrOrphanedRunEnds ==
    \A r \in Runs : (status[r] = "cancelling" \/ (status[r] \in Active /\ exec[r].pc = "done"))
                    ~> status[r] \notin Active

\* A queued run of a job in service leaves the queue, unless an executor that
\* does not return keeps the manager busy (dispatchQueued, recovery of the
\* orphaned run that blocks the job).
QueuedRunStarts ==
    \A r \in Runs : status[r] = "queued"
        ~> \/ status[r] # "queued"
           \/ ~Runnable(info[r].job)
           \/ \E s \in Runs : exec[s].pc = "run"

\* DATA_SYNC_TASKS.md: pausing or archiving a job ends its active runs.
StoppedJobDrains ==
    \A j \in Jobs : job[j].lc \in {"paused", "archived"}
        ~> \/ job[j].lc \notin {"paused", "archived"}
           \/ NoPending(j)
-----------------------------------------------------------------------------
(* The promise of FencedCheckpoint, with the owner tokens as fencing tokens. *)

\* The token of the execution that holds job j, 0 when no run of j is active.
JobHolder(j) == IF \E r \in RunsOf(j) : status[r] \in Active
                THEN owner[CHOOSE r \in RunsOf(j) : status[r] \in Active] ELSE 0
CheckpointStamp(j) == IF ckpt[j] = NoCheckpoint THEN 0 ELSE exec[ckpt[j].run].token

Fenced == INSTANCE FencedCheckpoint WITH issued <- lastToken,
              holder <- [j \in Jobs |-> JobHolder(j)],
              stamp  <- [j \in Jobs |-> CheckpointStamp(j)]

\* The store implements the abstract fenced lock: owner tokens are granted to a
\* free job only, in increasing order, and a checkpoint carries the token of the
\* execution that held its job when it was saved (ClaimRun, PutCheckpointOwned,
\* completeRunOwned, InterruptStaleRuns).
FencedSpec == Fenced!Spec

=============================================================================
