---------------------------- MODULE SyncSchedule ----------------------------
(***************************************************************************)
(* The schedule of one data-sync job and the processes that enqueue its    *)
(* runs: the scheduler loop of every active manager, under a lease that    *)
(* may run out in the middle of its cycle, and one-shot run-sync-job       *)
(* commands, which enqueue without a lease.  Both read the due definition  *)
(* first, then create the run and advance the schedule in statements of    *)
(* their own, while users edit, pause and enable the job.  A scheduled run *)
(* is named after its job and its slot: whoever comes second finds the     *)
(* name taken.                                                             *)
(*                                                                         *)
(* Times are counted in ticks and a slot is the time it is due.  SyncRuns  *)
(* models the life of a run; here it is pending and then ended.            *)
(***************************************************************************)
EXTENDS Integers

CONSTANTS
    Loops,      \* places for processes that run a schedulerLoop
    Commands,   \* places for run-sync-job processes, one after the other
    None,       \* no process holds the lease, or one that is gone
    Schedules,  \* the schedules and policies users choose from
    LeaseTTL,
    Backoff,    \* how long a continuous job waits after a failure
    SaveLag,    \* how late a definition is stored after its clock was read
    MaxTime,    \* bound: ticks
    MaxEdits,   \* bound: edits of the job by users
    MaxFaults   \* bound: crashes, shutdowns and failing statements

Procs == Loops \cup Commands
Slots == Nat \ {0}
Kinds == {"interval", "once", "continuous", "manual"}
Schedule ==
    [kind : Kinds, start : Nat, every : Nat \ {0}, catchUp : BOOLEAN, forbid : BOOLEAN]

ASSUME SyncScheduleAssumption ==
    /\ None \notin Procs
    /\ Schedules \subseteq Schedule
    /\ {LeaseTTL, Backoff} \subseteq Nat \ {0}
    /\ {SaveLag, MaxTime, MaxEdits, MaxFaults} \subseteq Nat

VARIABLES
    now,
    lease,      \* data_sync_scheduler_leases: the owner and the ticks left
    job,        \* data_sync_jobs: enabled, revision, definition_json, next_run_at
    pending,    \* slots whose run is queued, running or cancelling
    ended,      \* slots whose run is in the history
    notBefore,  \* what the failures in the history make a continuous job wait for
    proc,       \* where each process is and what it has read
    handled,    \* history: slots a run was created for, or suppressed by a pending run
    faults

vars == <<now, lease, job, pending, ended, notBefore, proc, handled, faults>>
store == <<job, pending, ended, notBefore, handled>>

PCs  == {"idle", "listing", "checking", "delaying", "creating", "reading", "advancing"}
Job  == [enabled : BOOLEAN, rev : Nat, sched : Schedule, next : Nat]
Proc == [pc : PCs, at : Nat, slot : Nat, command : BOOLEAN, forbid : BOOLEAN, next : Nat]

TypeOK ==
    /\ now \in 0..MaxTime
    /\ lease \in [owner : Procs \cup {None}, left : 0..LeaseTTL]
    /\ job \in Job
    /\ {pending, ended, handled} \subseteq SUBSET Slots
    /\ notBefore \in Nat
    /\ proc \in [Procs -> Proc]
    /\ faults \in 0..MaxFaults

\* NextRunAt: the first slot after a time, 0 for none.  A cron expression is a grid too;
\* a stored interval always has an anchor, where it starts.
NextRunAt(enabled, s, after) ==
    IF ~enabled THEN 0
    ELSE CASE s.kind = "interval" ->
                  IF after < s.start THEN s.start
                  ELSE s.start + ((after - s.start) \div s.every + 1) * s.every
           [] s.kind = "once"       -> IF s.start > after THEN s.start ELSE 0
           [] s.kind = "continuous" -> after + s.every
           [] OTHER                 -> 0

Definition(enabled, rev, s, t) ==
    [enabled |-> enabled, rev |-> rev, sched |-> s, next |-> NextRunAt(enabled, s, t)]

\* What a process has read is of no use after its cycle.
Idle == [pc |-> "idle", at |-> 0, slot |-> 0, command |-> FALSE, forbid |-> FALSE, next |-> 0]

Init ==
    /\ now = 0
    /\ lease = [owner |-> None, left |-> 0]
    /\ \E s \in Schedules : job = Definition(TRUE, 1, s, 0)
    /\ pending = {} /\ ended = {} /\ notBefore = 0
    /\ proc = [p \in Procs |-> Idle]
    /\ handled = {}
    /\ faults = 0

-----------------------------------------------------------------------------
(* One cycle of a scheduler loop, or one command.                          *)

Goto(p, pc) == proc' = [proc EXCEPT ![p].pc = pc]
Return(p)   == proc' = [proc EXCEPT ![p] = Idle]

\* Mutant: a lease does not run out.
AvailableWhenReleased(p) == lease.owner = p \/ lease = [owner |-> None, left |-> 0]
Available(p) == lease.owner = p \/ lease.left = 0

\* runSchedulerCycle: "now" is read once, for the lease and for all that follows.
AcquireSchedulerLease(p) ==
    /\ proc[p].pc = "idle"
    /\ Available(p)
    /\ lease' = [owner |-> p, left |-> LeaseTTL]
    /\ proc' = [proc EXCEPT ![p] = [@ EXCEPT !.pc = "listing", !.at = now]]
    /\ UNCHANGED <<now, store, faults>>

\* EnqueueDueJobRun
StartCommand(p) ==
    /\ proc[p].pc = "idle"
    /\ proc' = [proc EXCEPT ![p] = [@ EXCEPT !.pc = "listing", !.at = now, !.command = TRUE]]
    /\ UNCHANGED <<now, lease, store, faults>>

\* Mutant: a job that has no next slot is due.
IsDueOrNever(p) ==
    /\ job.enabled /\ job.next <= proc[p].at
    /\ proc[p].command => job.sched.kind # "continuous"

\* A command leaves continuous jobs to the loops.
IsDue(p) ==
    /\ job.enabled /\ job.next \in 1..proc[p].at
    /\ proc[p].command => job.sched.kind # "continuous"

ListDueJobs(p) ==
    /\ proc[p].pc = "listing"
    /\ IF IsDue(p)
       THEN proc' = [proc EXCEPT ![p] =
                        [@ EXCEPT !.pc = IF job.sched.kind = "continuous" THEN "checking"
                                         ELSE "creating",
                                  !.slot = job.next, !.command = FALSE,
                                  !.forbid = job.sched.forbid]]
       ELSE Return(p)
    /\ UNCHANGED <<now, lease, store, faults>>

\* Mutant: whoever comes last advances the schedule.
StillEnabled(p) == job.enabled
StillDue(p) == job.enabled /\ job.next = proc[p].slot

\* continuousFailureNotBefore reads the history ...
CheckFailures(p) ==
    /\ proc[p].pc = "checking"
    /\ IF notBefore <= proc[p].at
       THEN Goto(p, "creating")
       ELSE proc' = [proc EXCEPT ![p] = [@ EXCEPT !.pc = "delaying", !.at = 0, !.forbid = FALSE,
                                                  !.next = notBefore]]
    /\ UNCHANGED <<now, lease, store, faults>>

\* Both updates move the schedule on unless it is due at another time now.
MoveOn(p) ==
    /\ Return(p)
    /\ job' = IF StillDue(p) THEN [job EXCEPT !.next = proc[p].next] ELSE job
    /\ UNCHANGED <<now, lease, pending, ended, notBefore, handled, faults>>

DelayScheduleIfDue(p) == proc[p].pc = "delaying" /\ MoveOn(p)

\* Mutant: a scheduled run gets an id of its own.
NameIsFresh(slot) == FALSE
NameTaken(slot) == slot \in pending \cup ended

Suppressed(p) == proc[p].forbid /\ pending # {}

\* createRunWithID: one statement looks for a pending run and inserts; the primary
\* key refuses a name that is taken.  In both cases the slot has been dealt with.
CreateRun(p) ==
    LET slot == proc[p].slot
    IN  /\ proc[p].pc = "creating"
        /\ proc' = [proc EXCEPT ![p] = [@ EXCEPT !.pc = "reading", !.forbid = FALSE]]
        /\ handled' = handled \cup {slot}
        /\ IF Suppressed(p) \/ NameTaken(slot)
           THEN UNCHANGED pending
           ELSE pending' = pending \cup {slot}
        /\ UNCHANGED <<now, lease, job, ended, notBefore, faults>>

\* Mutant: any error is taken for a name that is taken.
CreationMayHaveSucceeded(slot) == TRUE
CreatedBefore(slot) == slot \in pending \cup ended

\* Any other error: go on only if the run is there.
CreateRunFails(p) ==
    /\ proc[p].pc = "creating"
    /\ faults < MaxFaults
    /\ faults' = faults + 1
    /\ IF CreatedBefore(proc[p].slot)
       THEN proc' = [proc EXCEPT ![p] = [@ EXCEPT !.pc = "reading", !.forbid = FALSE]]
       ELSE Return(p)
    /\ UNCHANGED <<now, lease, store>>

\* Mutant: slots missed while the clock ran on are dropped whatever the job says.
AdvanceFromNow(p) == proc[p].at
AdvanceBase(p) == IF job.sched.catchUp THEN proc[p].slot ELSE proc[p].at

\* AdvanceScheduleIfDue reads the definition first.
ReadForAdvance(p) ==
    /\ proc[p].pc = "reading"
    /\ IF job.next = proc[p].slot
       THEN proc' = [proc EXCEPT ![p] =
                        [@ EXCEPT !.pc = "advancing", !.at = 0,
                                  !.next = NextRunAt(job.enabled, job.sched, AdvanceBase(p))]]
       ELSE Return(p)
    /\ UNCHANGED <<now, lease, store, faults>>

AdvanceScheduleIfDue(p) == proc[p].pc = "advancing" /\ MoveOn(p)

\* Any other statement that fails ends the cycle.
StatementFails(p) ==
    /\ proc[p].pc \notin {"idle", "creating"}
    /\ faults < MaxFaults
    /\ faults' = faults + 1
    /\ Return(p)
    /\ UNCHANGED <<now, lease, store>>

-----------------------------------------------------------------------------
(* Users, runs, time and failures.                                         *)

\* PutJob and PauseJob; a save of a revision that is not the current one is refused.
PutJob ==
    /\ job.rev <= MaxEdits
    /\ \E enabled \in BOOLEAN, s \in Schedules, t \in 0..now :
          /\ now <= t + SaveLag
          /\ job' = Definition(enabled, job.rev + 1, s, t)
    /\ UNCHANGED <<now, lease, pending, ended, notBefore, proc, handled, faults>>

\* A failure adds to the streak of failures, other ends may break it.
RunEnds(slot) ==
    /\ slot \in pending
    /\ pending' = pending \ {slot}
    /\ ended' = ended \cup {slot}
    /\ notBefore' \in {0, now + Backoff}
    /\ UNCHANGED <<now, lease, job, proc, handled, faults>>

\* DeleteRun, ClearTerminalRuns: the streak is counted anew from the ends that are left.
DeleteRun(slot) ==
    /\ slot \in ended
    /\ ended' = ended \ {slot}
    /\ notBefore' \in {0} \cup {at + Backoff : at \in 0..now}
    /\ UNCHANGED <<now, lease, job, pending, proc, handled, faults>>

\* Time stops at the bound, leases go on running out.
Tick ==
    /\ now < MaxTime \/ lease.left > 0
    /\ now' = IF now < MaxTime THEN now + 1 ELSE now
    /\ lease' = [lease EXCEPT !.left = IF @ > 0 THEN @ - 1 ELSE 0]
    /\ UNCHANGED <<store, proc, faults>>

\* A crash, or Shutdown, which releases the lease.  What starts again is another owner.
Stop(p) ==
    /\ proc[p].pc # "idle" \/ lease.owner = p
    /\ faults < MaxFaults
    /\ faults' = faults + 1
    /\ Return(p)
    /\ IF lease.owner = p
       THEN lease' \in [owner : {None}, left : {0, lease.left}]
       ELSE UNCHANGED lease
    /\ UNCHANGED <<now, store>>

-----------------------------------------------------------------------------
Cycle(p) ==
    \/ ListDueJobs(p) \/ CheckFailures(p) \/ DelayScheduleIfDue(p)
    \/ CreateRun(p) \/ ReadForAdvance(p) \/ AdvanceScheduleIfDue(p)

Next ==
    \/ \E p \in Loops : AcquireSchedulerLease(p)
    \/ \E p \in Commands : StartCommand(p)
    \/ \E p \in Procs : Cycle(p) \/ CreateRunFails(p) \/ StatementFails(p) \/ Stop(p)
    \/ PutJob
    \/ \E slot \in pending : RunEnds(slot)
    \/ \E slot \in ended : DeleteRun(slot)
    \/ Tick

Spec == Init /\ [][Next]_vars

\* Time passes and a place with nothing but loops goes on.
Fairness ==
    /\ WF_vars(Tick)
    /\ \A p \in Loops \ Commands : WF_vars(AcquireSchedulerLease(p) \/ Cycle(p))

FairSpec == Spec /\ Fairness

-----------------------------------------------------------------------------
(* Properties.                                                             *)

(***************************************************************************)
(* However two schedulers, commands, saves, crashes between the creation   *)
(* and the advance and lapses of the lease interleave, a slot gets no      *)
(* second run while its first is on record (scheduledRunID).               *)
(***************************************************************************)
SlotRunsOnce == pending \cap ended = {}

\* The schedule is changed by a process, not by a user.
Edited == job'.rev # job.rev

(***************************************************************************)
(* The schedule leaves no slot behind that nobody looked at: it moves on   *)
(* only after its run was created, or suppressed by a pending one, or the  *)
(* failures of a continuous job delayed it (enqueueScheduled).             *)
(***************************************************************************)
NoSlotSkipped ==
    [][~Edited /\ job'.next # job.next =>
           \/ job.next \in handled
           \/ \E p \in Procs : proc[p].pc = "delaying" /\ job'.next = proc[p].next]_vars

(***************************************************************************)
(* Between edits the schedule only moves forward, or ends, although those  *)
(* who advance it have read the clock and the definition at different      *)
(* times (the condition on next_run_at in the updates).                    *)
(***************************************************************************)
ScheduleMovesForward ==
    [][~Edited => job'.next >= job.next \/ job'.next = 0]_vars

(***************************************************************************)
(* A job that catches up runs, or suppresses, every slot of its interval   *)
(* in turn, however late the schedulers are (AdvanceScheduleIfDue).        *)
(***************************************************************************)
CatchUpMissesNothing ==
    job.enabled /\ job.rev = 1 /\ job.sched.kind = "interval" /\ job.sched.catchUp =>
        \A s \in 1..(job.next - 1) : NextRunAt(TRUE, job.sched, s - 1) = s => s \in handled

(***************************************************************************)
(* A due slot is dealt with, although the process that holds the lease     *)
(* crashes and creations fail, as long as some loop goes on.               *)
(***************************************************************************)
DueSlotHandled ==
    \A s \in 1..MaxTime :
        (job.enabled /\ job.next = s /\ s <= now) ~> ~(job.enabled /\ job.next = s)
=============================================================================
