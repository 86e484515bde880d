------------------------- MODULE SyncScheduleProofs -------------------------
(***************************************************************************)
(* Proofs about SyncSchedule, for any number of schedulers and commands,   *)
(* any schedules, lease and bounds.                                        *)
(***************************************************************************)
EXTENDS SyncSchedule, TLAPS

-----------------------------------------------------------------------------
(* The inductive invariant.                                                *)

\* What a process has read was due when it read it, and its update moves on.
Due(e) ==
    /\ e.pc \in {"checking", "creating", "reading"} => e.slot \in 1..e.at
    /\ e.pc \in {"delaying", "advancing"} =>
           e.slot \in Slots /\ (e.next = 0 \/ e.next > e.slot)

ReadDue == \A p \in Procs : Due(proc[p])

\* Whoever is about to advance the schedule has dealt with the slot.
CreatedFirst ==
    \A p \in Procs : proc[p].pc \in {"reading", "advancing"} => proc[p].slot \in handled

RunsHandled == pending \cup ended \subseteq handled

CatchesUp == job.rev = 1 /\ job.sched.kind = "interval" /\ job.sched.catchUp

\* Before the first edit, a job that catches up is advanced from its slot.
AdvancedFromSlot ==
    CatchesUp =>
        /\ job.enabled
        /\ \A p \in Procs :
               /\ proc[p].pc \notin {"checking", "delaying"}
               /\ proc[p].pc = "advancing" =>
                      proc[p].next = NextRunAt(TRUE, job.sched, proc[p].slot)

Inv ==
    /\ TypeOK
    /\ job.rev >= 1
    /\ ReadDue
    /\ CreatedFirst
    /\ RunsHandled
    /\ SlotRunsOnce
    /\ AdvancedFromSlot
    /\ CatchUpMissesNothing

-----------------------------------------------------------------------------
(* The next slot.                                                          *)

(***************************************************************************)
(* NextRunAt gives a time later than the one it starts from, or none.      *)
(***************************************************************************)
LEMMA NextRunAtForward ==
    ASSUME NEW s \in Schedule, NEW enabled \in BOOLEAN, NEW t \in Nat
    PROVE  /\ NextRunAt(enabled, s, t) \in Nat
           /\ NextRunAt(enabled, s, t) = 0 \/ NextRunAt(enabled, s, t) > t
<1>1. s.start \in Nat /\ s.every \in Nat \ {0} /\ s.kind \in Kinds
  BY DEF Schedule
<1>2. CASE enabled /\ s.kind = "interval" /\ t >= s.start
  <2> DEFINE a == t - s.start
             b == s.every
  <2>1. a \in Nat /\ b \in Nat \ {0}
    BY <1>1, <1>2
  <2>2. a \div b \in Nat /\ a < (a \div b + 1) * b
    BY <2>1, SMT
  <2>3. (a \div b + 1) * b \in Nat
    BY <2>1, <2>2, SMT
  <2>4. NextRunAt(enabled, s, t) = s.start + (a \div b + 1) * b
    BY <1>1, <1>2 DEF NextRunAt
  <2> HIDE DEF a, b
  <2>5. t = s.start + a
    BY <1>1, <1>2 DEF a
  <2> QED
    BY <1>1, <2>1, <2>2, <2>3, <2>4, <2>5, SMT
<1>3. CASE ~(enabled /\ s.kind = "interval" /\ t >= s.start)
  BY <1>1, <1>3 DEF NextRunAt, Kinds
<1> QED
  BY <1>2, <1>3

(***************************************************************************)
(* The next slot of an interval comes no earlier for a later time.         *)
(***************************************************************************)
LEMMA NextRunAtMonotonic ==
    ASSUME NEW s \in Schedule, s.kind = "interval", NEW t \in Nat, NEW u \in Nat, t <= u
    PROVE  NextRunAt(TRUE, s, t) <= NextRunAt(TRUE, s, u)
<1> DEFINE b == s.every
           x == ((t - s.start) \div b + 1) * b
           y == ((u - s.start) \div b + 1) * b
<1>1. s.start \in Nat /\ b \in Nat \ {0}
  BY DEF Schedule
<1>2. u >= s.start => y \in Nat
  <2>1. SUFFICES ASSUME u >= s.start PROVE y \in Nat
    OBVIOUS
  <2>2. u - s.start \in Nat
    BY <1>1, <2>1
  <2> QED
    BY <1>1, <2>2, SMT
<1>3. t >= s.start => x \in Nat /\ x <= y
  <2>1. SUFFICES ASSUME t >= s.start PROVE x \in Nat /\ x <= y
    OBVIOUS
  <2>2. /\ t - s.start \in Nat /\ u - s.start \in Nat
        /\ t - s.start <= u - s.start
    BY <1>1, <2>1
  <2>3. /\ (t - s.start) \div b \in Nat
        /\ (u - s.start) \div b \in Nat
        /\ (t - s.start) \div b <= (u - s.start) \div b
    BY <1>1, <2>2, SMT
  <2> QED
    BY <1>1, <2>3, SMT
<1> HIDE DEF b, x, y
<1>4. (IF t < s.start THEN s.start ELSE s.start + x)
        <= (IF u < s.start THEN s.start ELSE s.start + y)
  BY <1>1, <1>2, <1>3
<1> QED
  BY <1>4 DEF NextRunAt, b, x, y

-----------------------------------------------------------------------------
(* What a step leaves in the place of its process.                         *)

Becomes(p, e) == e \in Proc /\ proc' = [proc EXCEPT ![p] = e]

SlotAfter(p) == NextRunAt(job.enabled, job.sched, AdvanceBase(p))

\* The record of a process may become e.
Stepped(p, e) ==
    \/ e.pc \in {"idle", "listing"}
    \/ /\ e.pc \in {"checking", "creating"} /\ e.slot \in 1..e.at
       /\ e.pc = "checking" => job.sched.kind = "continuous"
    \/ /\ proc[p].pc = "checking" /\ e.pc \in {"creating", "delaying"}
       /\ e.slot = proc[p].slot
       /\ IF e.pc = "creating" THEN e.at = proc[p].at ELSE e.next > proc[p].at
    \/ /\ proc[p].pc = "creating" /\ e.pc = "reading"
       /\ e.slot = proc[p].slot /\ e.at = proc[p].at
       /\ proc[p].slot \in handled' \cup pending \cup ended
    \/ /\ proc[p].pc = "reading" /\ e.pc = "advancing"
       /\ e.slot = proc[p].slot /\ e.slot = job.next
       /\ e.next = SlotAfter(p)

(***************************************************************************)
(* The start of a cycle or of a command.                                   *)
(***************************************************************************)
LEMMA StartRecord ==
    ASSUME TypeOK, NEW p \in Procs, AcquireSchedulerLease(p) \/ StartCommand(p)
    PROVE  \E e \in Proc : Becomes(p, e) /\ Stepped(p, e)
<1>1. proc[p] \in Proc /\ now \in Nat
  BY SyncScheduleAssumption DEF TypeOK
<1>2. CASE AcquireSchedulerLease(p)
  <2> DEFINE e == [proc[p] EXCEPT !.pc = "listing", !.at = now]
  <2>1. e \in Proc /\ e.pc = "listing"
    BY <1>1 DEF Proc, PCs
  <2>2. proc' = [proc EXCEPT ![p] = e]
    BY <1>2 DEF AcquireSchedulerLease
  <2> QED
    BY <2>1, <2>2 DEF Becomes, Stepped
<1>3. CASE StartCommand(p)
  <2> DEFINE e == [proc[p] EXCEPT !.pc = "listing", !.at = now, !.command = TRUE]
  <2>1. e \in Proc /\ e.pc = "listing"
    BY <1>1 DEF Proc, PCs
  <2>2. proc' = [proc EXCEPT ![p] = e]
    BY <1>3 DEF StartCommand
  <2> QED
    BY <2>1, <2>2 DEF Becomes, Stepped
<1> QED
  BY <1>2, <1>3

(***************************************************************************)
(* The end of a cycle.                                                     *)
(***************************************************************************)
LEMMA ReturnRecord ==
    ASSUME NEW p \in Procs, Return(p)
    PROVE  Becomes(p, Idle) /\ Stepped(p, Idle)
BY DEF Return, Idle, Proc, PCs, Becomes, Stepped

(***************************************************************************)
(* The list of due jobs.                                                   *)
(***************************************************************************)
LEMMA ListRecord ==
    ASSUME TypeOK, NEW p \in Procs, ListDueJobs(p)
    PROVE  \E e \in Proc : Becomes(p, e) /\ Stepped(p, e)
<1>1. proc[p] \in Proc /\ job.next \in Nat /\ job.sched.forbid \in BOOLEAN
  BY DEF TypeOK, Job, Schedule
<1>2. CASE ~IsDue(p)
  BY <1>2, ReturnRecord DEF ListDueJobs, Becomes
<1>3. CASE IsDue(p)
  <2> DEFINE to == IF job.sched.kind = "continuous" THEN "checking" ELSE "creating"
             e == [proc[p] EXCEPT !.pc = to, !.slot = job.next, !.command = FALSE,
                                  !.forbid = job.sched.forbid]
  <2>1. /\ e \in Proc /\ e.pc = to /\ e.slot = job.next /\ e.at = proc[p].at
    BY <1>1 DEF Proc, PCs
  <2>2. proc' = [proc EXCEPT ![p] = e]
    BY <1>3 DEF ListDueJobs
  <2>3. job.next \in 1..proc[p].at
    BY <1>3 DEF IsDue
  <2> HIDE DEF e
  <2>4. /\ e.pc \in {"checking", "creating"} /\ e.slot \in 1..e.at
        /\ e.pc = "checking" => job.sched.kind = "continuous"
    BY <2>1, <2>3
  <2> QED
    BY <2>1, <2>2, <2>4 DEF Becomes, Stepped
<1> QED
  BY <1>2, <1>3

(***************************************************************************)
(* The look at the failures of a continuous job.                           *)
(***************************************************************************)
LEMMA CheckRecord ==
    ASSUME TypeOK, NEW p \in Procs, CheckFailures(p)
    PROVE  \E e \in Proc : Becomes(p, e) /\ Stepped(p, e)
<1>1. proc[p] \in Proc /\ notBefore \in Nat /\ proc[p].pc = "checking"
  BY DEF TypeOK, CheckFailures
<1>2. CASE notBefore <= proc[p].at
  <2> DEFINE e == [proc[p] EXCEPT !.pc = "creating"]
  <2>1. e \in Proc /\ e.pc = "creating" /\ e.slot = proc[p].slot /\ e.at = proc[p].at
    BY <1>1 DEF Proc, PCs
  <2>2. proc' = [proc EXCEPT ![p] = e]
    BY <1>2 DEF CheckFailures, Goto
  <2> QED
    BY <1>1, <2>1, <2>2 DEF Becomes, Stepped
<1>3. CASE ~(notBefore <= proc[p].at)
  <2> DEFINE e == [proc[p] EXCEPT !.pc = "delaying", !.at = 0, !.forbid = FALSE, !.next = notBefore]
  <2>1. e \in Proc /\ e.pc = "delaying" /\ e.slot = proc[p].slot /\ e.next = notBefore
    BY <1>1 DEF Proc, PCs
  <2>2. proc' = [proc EXCEPT ![p] = e]
    BY <1>3 DEF CheckFailures
  <2>3. e.next > proc[p].at
    BY <1>1, <1>3, <2>1 DEF Proc
  <2> QED
    BY <1>1, <2>1, <2>2, <2>3 DEF Becomes, Stepped
<1> QED
  BY <1>2, <1>3

(***************************************************************************)
(* The creation of the run, also one that failed after it was there.       *)
(***************************************************************************)
LEMMA CreateRecord ==
    ASSUME TypeOK, NEW p \in Procs, CreateRun(p) \/ CreateRunFails(p)
    PROVE  \E e \in Proc : Becomes(p, e) /\ Stepped(p, e)
<1>1. proc[p] \in Proc /\ proc[p].pc = "creating"
  BY DEF TypeOK, CreateRun, CreateRunFails
<1> DEFINE e == [proc[p] EXCEPT !.pc = "reading", !.forbid = FALSE]
<1>2. e \in Proc /\ e.pc = "reading" /\ e.slot = proc[p].slot /\ e.at = proc[p].at
  BY <1>1 DEF Proc, PCs
<1>3. \/ Return(p)
      \/ proc' = [proc EXCEPT ![p] = e] /\ proc[p].slot \in handled' \cup pending \cup ended
  BY DEF CreateRun, CreateRunFails, CreatedBefore
<1> QED
  BY <1>1, <1>2, <1>3, ReturnRecord DEF Becomes, Stepped

(***************************************************************************)
(* The read that precedes the advance.                                     *)
(***************************************************************************)
LEMMA ReadRecord ==
    ASSUME TypeOK, NEW p \in Procs, ReadForAdvance(p)
    PROVE  \E e \in Proc : Becomes(p, e) /\ Stepped(p, e)
<1>1. /\ proc[p] \in Proc /\ proc[p].pc = "reading"
      /\ job.enabled \in BOOLEAN /\ job.sched \in Schedule
  BY DEF TypeOK, Job, ReadForAdvance
<1>2. AdvanceBase(p) \in Nat
  BY <1>1 DEF AdvanceBase, Proc
<1>3. SlotAfter(p) \in Nat
  BY <1>1, <1>2, NextRunAtForward DEF SlotAfter
<1> DEFINE e == [proc[p] EXCEPT !.pc = "advancing", !.at = 0, !.next = SlotAfter(p)]
<1>4. CASE job.next = proc[p].slot
  <2>1. proc' = [proc EXCEPT ![p] = e]
    BY <1>4 DEF ReadForAdvance, SlotAfter
  <2>2. e \in Proc /\ e.pc = "advancing" /\ e.slot = proc[p].slot /\ e.next = SlotAfter(p)
    BY <1>1, <1>3 DEF Proc, PCs
  <2> QED
    BY <1>1, <1>4, <2>1, <2>2 DEF Becomes, Stepped
<1>5. CASE job.next # proc[p].slot
  BY <1>5, ReturnRecord DEF ReadForAdvance, Becomes
<1> QED
  BY <1>4, <1>5

(***************************************************************************)
(* At most one process moves in a step, and only so.                       *)
(***************************************************************************)
LEMMA RecordStep ==
    ASSUME TypeOK, [Next]_vars
    PROVE  \/ UNCHANGED proc
           \/ \E p \in Procs : \E e \in Proc : Becomes(p, e) /\ Stepped(p, e)
<1>1. CASE UNCHANGED vars
  BY <1>1 DEF vars
<1>2. ASSUME NEW p \in Procs, AcquireSchedulerLease(p) \/ StartCommand(p)
      PROVE  \E e \in Proc : Becomes(p, e) /\ Stepped(p, e)
  BY <1>2, StartRecord
<1>3. ASSUME NEW p \in Procs, Cycle(p)
      PROVE  \E e \in Proc : Becomes(p, e) /\ Stepped(p, e)
  <2>1. CASE DelayScheduleIfDue(p) \/ AdvanceScheduleIfDue(p)
    BY <2>1, ReturnRecord DEF DelayScheduleIfDue, AdvanceScheduleIfDue, MoveOn, Becomes
  <2> QED
    BY <1>3, <2>1, ListRecord, CheckRecord, CreateRecord, ReadRecord DEF Cycle
<1>4. ASSUME NEW p \in Procs, CreateRunFails(p)
      PROVE  \E e \in Proc : Becomes(p, e) /\ Stepped(p, e)
  BY <1>4, CreateRecord
<1>5. ASSUME NEW p \in Procs, StatementFails(p) \/ Stop(p)
      PROVE  \E e \in Proc : Becomes(p, e) /\ Stepped(p, e)
  BY <1>5, ReturnRecord DEF StatementFails, Stop, Becomes
<1>6. CASE PutJob
  BY <1>6 DEF PutJob
<1>7. ASSUME NEW slot, RunEnds(slot) \/ DeleteRun(slot)
      PROVE  UNCHANGED proc
  BY <1>7 DEF RunEnds, DeleteRun
<1>8. CASE Tick
  BY <1>8 DEF Tick
<1> QED
  BY <1>1, <1>2, <1>3, <1>4, <1>5, <1>6, <1>7, <1>8 DEF Next, Procs

-----------------------------------------------------------------------------
(* What a step does to the definition and to the history.                  *)

Saved ==
    \E enabled \in BOOLEAN, s \in Schedules, t \in Nat :
        job' = Definition(enabled, job.rev + 1, s, t)

MovedOn(p) ==
    /\ proc[p].pc \in {"delaying", "advancing"}
    /\ StillDue(p)
    /\ job' = [job EXCEPT !.next = proc[p].next]

(***************************************************************************)
(* A definition is saved, or moved on by the process that holds its next   *)
(* slot.                                                                   *)
(***************************************************************************)
LEMMA JobStep ==
    ASSUME TypeOK, [Next]_vars
    PROVE  UNCHANGED job \/ Saved \/ \E p \in Procs : MovedOn(p)
<1>1. CASE UNCHANGED vars
  BY <1>1 DEF vars
<1>2. ASSUME NEW p \in Procs, AcquireSchedulerLease(p) \/ StartCommand(p)
      PROVE  UNCHANGED job
  BY <1>2 DEF AcquireSchedulerLease, StartCommand, store
<1>3. ASSUME NEW p \in Procs, Cycle(p)
      PROVE  UNCHANGED job \/ MovedOn(p)
  <2>1. CASE DelayScheduleIfDue(p) \/ AdvanceScheduleIfDue(p)
    BY <2>1 DEF DelayScheduleIfDue, AdvanceScheduleIfDue, MoveOn, MovedOn
  <2>2. CASE ListDueJobs(p) \/ CheckFailures(p) \/ CreateRun(p) \/ ReadForAdvance(p)
    BY <2>2 DEF ListDueJobs, CheckFailures, CreateRun, ReadForAdvance, store
  <2> QED
    BY <1>3, <2>1, <2>2 DEF Cycle
<1>4. ASSUME NEW p \in Procs, CreateRunFails(p) \/ StatementFails(p) \/ Stop(p)
      PROVE  UNCHANGED job
  BY <1>4 DEF CreateRunFails, StatementFails, Stop, store
<1>5. CASE PutJob
  BY <1>5 DEF PutJob, Saved, TypeOK
<1>6. ASSUME NEW slot, RunEnds(slot) \/ DeleteRun(slot)
      PROVE  UNCHANGED job
  BY <1>6 DEF RunEnds, DeleteRun
<1>7. CASE Tick
  BY <1>7 DEF Tick, store
<1> QED
  BY <1>1, <1>2, <1>3, <1>4, <1>5, <1>6, <1>7 DEF Next, Procs

Created(p) ==
    /\ proc[p].pc = "creating"
    /\ handled' = handled \cup {proc[p].slot}
    /\ ended' = ended
    /\ \/ pending' = pending
       \/ ~NameTaken(proc[p].slot) /\ pending' = pending \cup {proc[p].slot}

Finished(slot) ==
    /\ slot \in pending
    /\ pending' = pending \ {slot} /\ ended' = ended \cup {slot} /\ handled' = handled

Deleted(slot) ==
    slot \in ended /\ ended' = ended \ {slot} /\ pending' = pending /\ handled' = handled

(***************************************************************************)
(* A run is created, ends or is deleted.                                   *)
(***************************************************************************)
LEMMA HistoryStep ==
    ASSUME [Next]_vars
    PROVE  \/ UNCHANGED <<pending, ended, handled>>
           \/ \E p \in Procs : Created(p)
           \/ \E slot \in pending : Finished(slot)
           \/ \E slot \in ended : Deleted(slot)
<1>1. CASE UNCHANGED vars
  BY <1>1 DEF vars
<1>2. ASSUME NEW p \in Procs, AcquireSchedulerLease(p) \/ StartCommand(p)
      PROVE  UNCHANGED <<pending, ended, handled>>
  BY <1>2 DEF AcquireSchedulerLease, StartCommand, store
<1>3. ASSUME NEW p \in Procs, Cycle(p)
      PROVE  UNCHANGED <<pending, ended, handled>> \/ Created(p)
  <2>1. CASE CreateRun(p)
    BY <2>1 DEF CreateRun, Created
  <2>2. CASE DelayScheduleIfDue(p) \/ AdvanceScheduleIfDue(p)
    BY <2>2 DEF DelayScheduleIfDue, AdvanceScheduleIfDue, MoveOn
  <2>3. CASE ListDueJobs(p) \/ CheckFailures(p) \/ ReadForAdvance(p)
    BY <2>3 DEF ListDueJobs, CheckFailures, ReadForAdvance, store
  <2> QED
    BY <1>3, <2>1, <2>2, <2>3 DEF Cycle
<1>4. ASSUME NEW p \in Procs, CreateRunFails(p) \/ StatementFails(p) \/ Stop(p)
      PROVE  UNCHANGED <<pending, ended, handled>>
  BY <1>4 DEF CreateRunFails, StatementFails, Stop, store
<1>5. CASE PutJob \/ Tick
  BY <1>5 DEF PutJob, Tick, store
<1>6. ASSUME NEW slot, RunEnds(slot)
      PROVE  Finished(slot)
  BY <1>6 DEF RunEnds, Finished
<1>7. ASSUME NEW slot, DeleteRun(slot)
      PROVE  Deleted(slot)
  BY <1>7 DEF DeleteRun, Deleted
<1> QED
  BY <1>1, <1>2, <1>3, <1>4, <1>5, <1>6, <1>7 DEF Next, Procs

(***************************************************************************)
(* The clock, the lease, the counters and what failures make a job wait.   *)
(***************************************************************************)
LEMMA ClockStep ==
    ASSUME TypeOK, [Next]_vars
    PROVE  /\ now' \in 0..MaxTime
           /\ lease' \in [owner : Procs \cup {None}, left : 0..LeaseTTL]
           /\ notBefore' \in Nat
           /\ faults' \in 0..MaxFaults
<1> DEFINE Lease == [owner : Procs \cup {None}, left : 0..LeaseTTL]
           Typed == now' \in 0..MaxTime /\ lease' \in Lease /\ notBefore' \in Nat
                    /\ faults' \in 0..MaxFaults
<1>1. /\ now \in 0..MaxTime /\ lease \in Lease /\ notBefore \in Nat /\ faults \in 0..MaxFaults
      /\ LeaseTTL \in Nat \ {0} /\ Backoff \in Nat \ {0} /\ MaxTime \in Nat /\ MaxFaults \in Nat
  BY SyncScheduleAssumption DEF TypeOK
<1>2. CASE UNCHANGED vars
  BY <1>1, <1>2 DEF vars
<1>3. ASSUME NEW p \in Procs, AcquireSchedulerLease(p)
      PROVE  Typed
  BY <1>1, <1>3 DEF AcquireSchedulerLease, store
<1>4. ASSUME NEW p \in Procs, StartCommand(p)
      PROVE  Typed
  BY <1>1, <1>4 DEF StartCommand, store
<1>5. ASSUME NEW p \in Procs, Cycle(p)
      PROVE  Typed
  BY <1>1, <1>5 DEF Cycle, ListDueJobs, CheckFailures, DelayScheduleIfDue, CreateRun,
                    ReadForAdvance, AdvanceScheduleIfDue, MoveOn, store
<1>6. ASSUME NEW p \in Procs, CreateRunFails(p) \/ StatementFails(p)
      PROVE  Typed
  BY <1>1, <1>6 DEF CreateRunFails, StatementFails, store
<1>7. ASSUME NEW p \in Procs, Stop(p)
      PROVE  Typed
  BY <1>1, <1>7 DEF Stop, store
<1>8. CASE PutJob
  BY <1>1, <1>8 DEF PutJob
<1>9. ASSUME NEW slot, RunEnds(slot)
      PROVE  Typed
  <2>1. notBefore' \in {0, now + Backoff} /\ UNCHANGED <<now, lease, faults>>
    BY <1>9 DEF RunEnds
  <2> QED
    BY <1>1, <2>1
<1>10. ASSUME NEW slot, DeleteRun(slot)
       PROVE  Typed
  BY <1>1, <1>10 DEF DeleteRun
<1>11. CASE Tick
  <2>1. /\ now < MaxTime \/ lease.left > 0
        /\ now' = (IF now < MaxTime THEN now + 1 ELSE now)
        /\ lease' = [lease EXCEPT !.left = IF @ > 0 THEN @ - 1 ELSE 0]
        /\ UNCHANGED <<notBefore, faults>>
    BY <1>11 DEF Tick, store
  <2> QED
    BY <1>1, <2>1
<1>12. Typed
  BY <1>2, <1>3, <1>4, <1>5, <1>6, <1>7, <1>8, <1>9, <1>10, <1>11 DEF Next, Procs
<1> QED
  BY <1>12

(***************************************************************************)
(* A saved definition is one.                                              *)
(***************************************************************************)
LEMMA DefinitionIsJob ==
    ASSUME NEW enabled \in BOOLEAN, NEW rev \in Nat, NEW s \in Schedules, NEW t \in Nat
    PROVE  /\ Definition(enabled, rev, s, t) \in Job
           /\ Definition(enabled, rev, s, t).rev = rev
<1>1. s \in Schedule
  BY SyncScheduleAssumption
<1>2. NextRunAt(enabled, s, t) \in Nat
  BY <1>1, NextRunAtForward
<1> QED
  BY <1>1, <1>2 DEF Definition, Job

(***************************************************************************)
(* Every step keeps the types.                                             *)
(***************************************************************************)
LEMMA TypeStep ==
    ASSUME TypeOK, ReadDue, [Next]_vars
    PROVE  TypeOK'
<1>1. proc \in [Procs -> Proc] /\ job \in Job
  BY DEF TypeOK
<1>2. proc' \in [Procs -> Proc]
  BY <1>1, RecordStep DEF Becomes
<1>3. job' \in Job
  <2>1. CASE Saved
    BY <1>1, <2>1, DefinitionIsJob DEF Saved, Job
  <2>2. ASSUME NEW p \in Procs, MovedOn(p)
        PROVE  job' \in Job
    <3>1. proc[p].next \in Nat /\ job' = [job EXCEPT !.next = proc[p].next]
      BY <1>1, <2>2 DEF MovedOn, Proc
    <3> QED
      BY <1>1, <3>1 DEF Job
  <2> QED
    BY <1>1, <2>1, <2>2, JobStep
<1>4. ASSUME NEW p \in Procs, Created(p)
      PROVE  proc[p].slot \in Slots
  <2>1. proc[p] \in Proc /\ Due(proc[p]) /\ proc[p].pc = "creating"
    BY <1>1, <1>4 DEF ReadDue, Created
  <2> QED
    BY <2>1 DEF Due, Proc, Slots
<1>5. {pending', ended', handled'} \subseteq SUBSET Slots
  <2>1. {pending, ended, handled} \subseteq SUBSET Slots
    BY DEF TypeOK
  <2> QED
    BY <1>4, <2>1, HistoryStep DEF Created, Finished, Deleted
<1> QED
  BY <1>2, <1>3, <1>5, ClockStep DEF TypeOK

-----------------------------------------------------------------------------
(* Every step keeps the invariant.                                         *)

(***************************************************************************)
(* The revision grows, or the definition keeps all but its next slot.      *)
(***************************************************************************)
LEMMA RevisionStep ==
    ASSUME TypeOK, [Next]_vars
    PROVE  \/ Saved /\ job'.rev = job.rev + 1
           \/ /\ job'.rev = job.rev /\ job'.sched = job.sched /\ job'.enabled = job.enabled
              /\ job'.next = job.next \/ \E p \in Procs : MovedOn(p)
<1>1. job \in Job /\ job.rev \in Nat
  BY DEF TypeOK, Job
<1>2. CASE Saved
  BY <1>1, <1>2, DefinitionIsJob DEF Saved
<1>3. ASSUME NEW p \in Procs, MovedOn(p)
      PROVE  job'.rev = job.rev /\ job'.sched = job.sched /\ job'.enabled = job.enabled
  BY <1>1, <1>3 DEF MovedOn, Job
<1> QED
  BY <1>2, <1>3, JobStep

(***************************************************************************)
(* What is read was due, and what is computed from it comes later.         *)
(***************************************************************************)
LEMMA ReadDueStep ==
    ASSUME TypeOK, ReadDue, [Next]_vars
    PROVE  ReadDue'
<1>1. proc \in [Procs -> Proc] /\ job.enabled \in BOOLEAN /\ job.sched \in Schedule
  BY DEF TypeOK, Job
<1>2. CASE UNCHANGED proc
  BY <1>2 DEF ReadDue
<1>3. ASSUME NEW p \in Procs, NEW e \in Proc, Becomes(p, e), Stepped(p, e)
      PROVE  ReadDue'
  <2>1. /\ proc[p] \in Proc /\ Due(proc[p])
        /\ proc[p].slot \in Nat /\ proc[p].at \in Nat /\ e.slot \in Nat /\ e.at \in Nat
        /\ e.next \in Nat
    BY <1>1 DEF ReadDue, Proc
  <2>2. ASSUME e.pc = "advancing"
        PROVE  Due(e)
    <3>1. /\ proc[p].pc = "reading" /\ e.slot = proc[p].slot /\ e.next = SlotAfter(p)
      BY <1>3, <2>2 DEF Stepped
    <3>2. proc[p].slot \in 1..proc[p].at
      BY <2>1, <3>1 DEF Due
    <3>3. AdvanceBase(p) \in Nat /\ AdvanceBase(p) >= proc[p].slot
      BY <2>1, <3>2 DEF AdvanceBase
    <3>4. SlotAfter(p) = 0 \/ SlotAfter(p) > AdvanceBase(p)
      BY <1>1, <3>3, NextRunAtForward DEF SlotAfter
    <3> QED
      BY <2>1, <2>2, <3>1, <3>2, <3>3, <3>4 DEF Due, Slots
  <2>3. ASSUME e.pc # "advancing"
        PROVE  Due(e)
    BY <1>3, <2>1, <2>3 DEF Stepped, Due, Slots
  <2>4. Due(e)
    BY <2>2, <2>3
  <2>5. ASSUME NEW q \in Procs
        PROVE  proc'[q] = IF q = p THEN e ELSE proc[q]
    BY <1>1, <1>3 DEF Becomes
  <2>6. ASSUME NEW q \in Procs
        PROVE  Due(proc[q])'
    <3>1. CASE q = p
      <4>1. proc'[q] = e
        BY <2>5, <3>1
      <4> QED
        BY <2>4, <4>1 DEF Due
    <3>2. CASE q # p
      <4>1. proc'[q] = proc[q] /\ Due(proc[q])
        BY <2>5, <3>2 DEF ReadDue
      <4> QED
        BY <4>1 DEF Due
    <3> QED
      BY <3>1, <3>2
  <2> QED
    BY <2>6 DEF ReadDue
<1> QED
  BY <1>2, <1>3, RecordStep

(***************************************************************************)
(* The history of what was dealt with only grows, and covers every run.    *)
(***************************************************************************)
LEMMA RunsHandledStep ==
    ASSUME RunsHandled, SlotRunsOnce, [Next]_vars
    PROVE  RunsHandled' /\ SlotRunsOnce' /\ handled \subseteq handled'
BY HistoryStep DEF RunsHandled, SlotRunsOnce, Created, Finished, Deleted, NameTaken

(***************************************************************************)
(* A process gets past the creation only when the slot was dealt with.     *)
(***************************************************************************)
LEMMA CreatedFirstStep ==
    ASSUME TypeOK, RunsHandled, SlotRunsOnce, CreatedFirst, [Next]_vars
    PROVE  CreatedFirst'
<1>1. proc \in [Procs -> Proc] /\ handled \subseteq handled' /\ pending \cup ended \subseteq handled
  BY RunsHandledStep DEF TypeOK, RunsHandled
<1>2. CASE UNCHANGED proc
  BY <1>1, <1>2 DEF CreatedFirst
<1>3. ASSUME NEW p \in Procs, NEW e \in Proc, Becomes(p, e), Stepped(p, e)
      PROVE  CreatedFirst'
  <2>1. ASSUME e.pc \in {"reading", "advancing"}
        PROVE  e.slot \in handled'
    BY <1>1, <1>3, <2>1 DEF Stepped, CreatedFirst
  <2>2. ASSUME NEW q \in Procs
        PROVE  proc'[q] = IF q = p THEN e ELSE proc[q]
    BY <1>1, <1>3 DEF Becomes
  <2> QED
    BY <1>1, <2>1, <2>2 DEF CreatedFirst
<1> QED
  BY <1>2, <1>3, RecordStep

(***************************************************************************)
(* Before the first edit, a job that catches up goes from slot to slot.    *)
(***************************************************************************)
LEMMA AdvancedFromSlotStep ==
    ASSUME TypeOK, job.rev >= 1, AdvancedFromSlot, [Next]_vars
    PROVE  AdvancedFromSlot'
<1> SUFFICES ASSUME CatchesUp'
             PROVE  AdvancedFromSlot'
  BY DEF AdvancedFromSlot
<1>1. proc \in [Procs -> Proc] /\ job \in Job /\ job.rev \in Nat
  BY DEF TypeOK, Job
<1>2. job'.rev = job.rev /\ job'.sched = job.sched /\ job'.enabled = job.enabled
  BY <1>1, RevisionStep DEF CatchesUp
<1>3. CatchesUp /\ job.enabled
  BY <1>2 DEF CatchesUp, AdvancedFromSlot
<1>4. ASSUME NEW q \in Procs
      PROVE  /\ proc[q].pc \notin {"checking", "delaying"}
             /\ proc[q].pc = "advancing" => proc[q].next = NextRunAt(TRUE, job.sched, proc[q].slot)
  BY <1>3 DEF AdvancedFromSlot
<1>5. CASE UNCHANGED proc
  BY <1>2, <1>3, <1>4, <1>5 DEF AdvancedFromSlot
<1>6. ASSUME NEW p \in Procs, NEW e \in Proc, Becomes(p, e), Stepped(p, e)
      PROVE  AdvancedFromSlot'
  <2>1. e.pc \notin {"checking", "delaying"}
    BY <1>3, <1>4, <1>6 DEF Stepped, CatchesUp
  <2>2. ASSUME e.pc = "advancing"
        PROVE  e.next = NextRunAt(TRUE, job.sched, e.slot)
    <3>1. e.slot = proc[p].slot /\ e.next = SlotAfter(p)
      BY <1>6, <2>2 DEF Stepped
    <3>2. AdvanceBase(p) = proc[p].slot
      BY <1>3 DEF AdvanceBase, CatchesUp
    <3> QED
      BY <1>3, <3>1, <3>2, Zenon DEF SlotAfter, NextRunAt
  <2>3. ASSUME NEW q \in Procs
        PROVE  proc'[q] = IF q = p THEN e ELSE proc[q]
    BY <1>1, <1>6 DEF Becomes
  <2>4. ASSUME NEW q \in Procs
        PROVE  /\ proc'[q].pc \notin {"checking", "delaying"}
               /\ proc'[q].pc = "advancing" =>
                      proc'[q].next = NextRunAt(TRUE, job.sched, proc'[q].slot)
    BY <1>4, <2>1, <2>2, <2>3
  <2> QED
    BY <1>2, <1>3, <2>4 DEF AdvancedFromSlot
<1> QED
  BY <1>5, <1>6, RecordStep

(***************************************************************************)
(* No slot lies between one of an interval and the next.                   *)
(***************************************************************************)
LEMMA NoSlotBetween ==
    ASSUME NEW s \in Schedule, s.kind = "interval", NEW from \in Nat,
           NEW slot \in Nat, from < slot, slot < NextRunAt(TRUE, s, from)
    PROVE  NextRunAt(TRUE, s, slot - 1) # slot
<1> DEFINE next(t) == NextRunAt(TRUE, s, t)
<1>1. next(from) \in Nat
  BY NextRunAtForward
<1>2. slot - 1 \in Nat /\ from <= slot - 1
  OBVIOUS
<1>3. slot < next(from)
  BY Zenon
<1>4. next(slot - 1) \in Nat /\ next(from) <= next(slot - 1)
  BY <1>2, NextRunAtForward, NextRunAtMonotonic
<1> HIDE DEF next
<1>5. next(slot - 1) # slot
  BY <1>1, <1>3, <1>4
<1> QED
  BY <1>5 DEF next

(***************************************************************************)
(* Hence it misses no slot.                                                *)
(***************************************************************************)
LEMMA CatchUpStep ==
    ASSUME Inv, [Next]_vars
    PROVE  CatchUpMissesNothing'
<1> SUFFICES ASSUME CatchesUp',
                    NEW s \in 1..(job'.next - 1), NextRunAt(TRUE, job'.sched, s - 1) = s
             PROVE  s \in handled'
  BY DEF CatchUpMissesNothing, CatchesUp
<1>1. /\ TypeOK /\ AdvancedFromSlot /\ CreatedFirst /\ job.rev >= 1
      /\ proc \in [Procs -> Proc] /\ job.rev \in Nat /\ job.next \in Nat /\ job.sched \in Schedule
      /\ handled \subseteq handled'
  BY RunsHandledStep DEF Inv, TypeOK, Job
<1>2. /\ job'.rev = job.rev /\ job'.sched = job.sched
      /\ job'.next = job.next \/ \E p \in Procs : MovedOn(p)
  BY <1>1, RevisionStep DEF CatchesUp
<1>3. CatchesUp /\ job.enabled
  BY <1>1, <1>2 DEF CatchesUp, AdvancedFromSlot
<1>4. ASSUME s <= job.next - 1
      PROVE  s \in handled'
  <2>1. s \in 1..(job.next - 1)
    BY <1>1, <1>2, <1>4
  <2>2. \A r \in 1..(job.next - 1) : NextRunAt(TRUE, job.sched, r - 1) = r => r \in handled
    BY <1>3 DEF Inv, CatchUpMissesNothing, CatchesUp
  <2>3. NextRunAt(TRUE, job.sched, s - 1) = s
    BY <1>2, Zenon
  <2> QED
    BY <1>1, <2>1, <2>2, <2>3
<1>5. ASSUME NEW p \in Procs, MovedOn(p)
      PROVE  s \in handled'
  <2>1. proc[p].pc = "advancing" /\ proc[p].next = NextRunAt(TRUE, job.sched, proc[p].slot)
    BY <1>1, <1>3, <1>5 DEF AdvancedFromSlot, MovedOn
  <2>2. proc[p].slot = job.next /\ proc[p].slot \in handled /\ job'.next = proc[p].next
    BY <1>1, <1>5, <2>1 DEF CreatedFirst, MovedOn, StillDue, TypeOK, Job
  <2>3. s # job.next => s <= job.next - 1
    <3>1. SUFFICES ASSUME s > job.next
                   PROVE  FALSE
      BY <1>1
    <3>2. job'.next = NextRunAt(TRUE, job.sched, job.next)
      BY <2>1, <2>2
    <3>3. s \in Nat /\ s < job'.next /\ job.next < s
      <4>1. job'.next \in Nat
        BY <1>1, TypeStep DEF Inv, TypeOK, Job
      <4> QED
        BY <1>1, <3>1, <4>1
    <3>4. NextRunAt(TRUE, job.sched, s - 1) # s
      BY <1>1, <1>3, <3>2, <3>3, NoSlotBetween DEF CatchesUp
    <3> QED
      BY <1>2, <3>4, Zenon
  <2> QED
    BY <1>1, <1>4, <2>2, <2>3
<1> QED
  BY <1>1, <1>2, <1>4, <1>5

(***************************************************************************)
(* The invariant holds at first ...                                        *)
(***************************************************************************)
LEMMA InvInit ==
    ASSUME Init
    PROVE  Inv
<1>1. PICK s \in Schedules : job = Definition(TRUE, 1, s, 0)
  BY DEF Init
<1>2. /\ s \in Schedule
      /\ job \in Job /\ job.next \in Nat /\ job.rev = 1 /\ job.sched = s /\ job.enabled
      /\ job.next = NextRunAt(TRUE, s, 0)
  BY <1>1, SyncScheduleAssumption, DefinitionIsJob DEF Definition, Job
<1>3. Idle \in Proc
  BY DEF Idle, Proc, PCs
<1>4. ASSUME NEW p \in Procs
      PROVE  proc[p] = Idle
  BY DEF Init
<1>5. TypeOK
  <2>1. now = 0 /\ lease = [owner |-> None, left |-> 0] /\ faults = 0 /\ notBefore = 0
    BY DEF Init
  <2>2. now \in 0..MaxTime /\ faults \in 0..MaxFaults /\ notBefore \in Nat
    BY <2>1, SyncScheduleAssumption
  <2>3. lease \in [owner : Procs \cup {None}, left : 0..LeaseTTL]
    BY <2>1, SyncScheduleAssumption
  <2>4. proc \in [Procs -> Proc]
    BY <1>3 DEF Init
  <2>5. {pending, ended, handled} \subseteq SUBSET Slots
    BY DEF Init
  <2> QED
    BY <1>2, <2>2, <2>3, <2>4, <2>5 DEF TypeOK
<1>6. ReadDue /\ CreatedFirst /\ RunsHandled /\ SlotRunsOnce /\ AdvancedFromSlot
  BY <1>2, <1>4 DEF ReadDue, Due, CreatedFirst, RunsHandled, SlotRunsOnce, AdvancedFromSlot,
                    Idle, Init
<1>7. CatchUpMissesNothing
  <2>1. SUFFICES ASSUME s.kind = "interval", NEW slot \in 1..(job.next - 1)
                 PROVE  NextRunAt(TRUE, job.sched, slot - 1) # slot
    BY <1>2 DEF CatchUpMissesNothing
  <2>2. slot \in Nat /\ 0 < slot /\ slot < job.next
    <3>1. job.next \in Nat /\ slot \in 1..(job.next - 1)
      BY <1>2, <2>1, Zenon
    <3> QED
      BY <3>1
  <2>3. NextRunAt(TRUE, s, slot - 1) # slot
    BY <1>2, <2>1, <2>2, NoSlotBetween
  <2> QED
    BY <1>2, <2>3, Zenon
<1> QED
  BY <1>2, <1>5, <1>6, <1>7 DEF Inv

(***************************************************************************)
(* ... and ever after.                                                     *)
(***************************************************************************)
LEMMA InvStep ==
    ASSUME Inv, [Next]_vars
    PROVE  Inv'
<1>1. /\ TypeOK /\ job.rev >= 1 /\ ReadDue /\ CreatedFirst /\ RunsHandled /\ SlotRunsOnce
      /\ AdvancedFromSlot /\ job.rev \in Nat
  BY DEF Inv, TypeOK, Job
<1>2. TypeOK' /\ ReadDue'
  BY <1>1, TypeStep, ReadDueStep
<1>3. job'.rev >= 1
  BY <1>1, RevisionStep
<1>4. CreatedFirst' /\ RunsHandled' /\ SlotRunsOnce'
  BY <1>1, CreatedFirstStep, RunsHandledStep
<1>5. AdvancedFromSlot' /\ CatchUpMissesNothing'
  BY <1>1, AdvancedFromSlotStep, CatchUpStep
<1> QED
  BY <1>2, <1>3, <1>4, <1>5 DEF Inv

(***************************************************************************)
(* The invariant, for every number of schedulers and commands, all         *)
(* schedules and all bounds.                                               *)
(***************************************************************************)
THEOREM Invariance == Spec => []Inv
<1>1. Init => Inv
  BY InvInit
<1>2. Inv /\ [Next]_vars => Inv'
  BY InvStep
<1> QED
  BY <1>1, <1>2, PTL DEF Spec

-----------------------------------------------------------------------------
(* The properties.                                                         *)

(***************************************************************************)
(* The variables keep their types.                                         *)
(***************************************************************************)
THEOREM TypeCorrect == Spec => []TypeOK
<1>1. Inv => TypeOK
  BY DEF Inv
<1> QED
  BY <1>1, Invariance, PTL

(***************************************************************************)
(* No slot gets a second run while its first is on record: two schedulers, *)
(* commands, lapses of the lease and crashes do not matter, for the name   *)
(* of the run is made of the slot.                                         *)
(***************************************************************************)
THEOREM OneRunPerSlot == Spec => []SlotRunsOnce
<1>1. Inv => SlotRunsOnce
  BY DEF Inv
<1> QED
  BY <1>1, Invariance, PTL

(***************************************************************************)
(* A job that catches up deals with every slot of its interval, however    *)
(* late the schedulers come.                                               *)
(***************************************************************************)
THEOREM CatchUpComplete == Spec => []CatchUpMissesNothing
<1>1. Inv => CatchUpMissesNothing
  BY DEF Inv
<1> QED
  BY <1>1, Invariance, PTL

(***************************************************************************)
(* No slot is left behind that was neither run, nor suppressed, nor        *)
(* delayed.                                                                *)
(***************************************************************************)
THEOREM NoneSkipped == Spec => NoSlotSkipped
<1>1. ASSUME Inv, [Next]_vars, ~Edited, job'.next # job.next
      PROVE  \/ job.next \in handled
             \/ \E p \in Procs : proc[p].pc = "delaying" /\ job'.next = proc[p].next
  <2>1. job \in Job /\ job.rev \in Nat /\ TypeOK /\ CreatedFirst
    BY <1>1 DEF Inv, TypeOK, Job
  <2>2. PICK p \in Procs : MovedOn(p)
    BY <1>1, <2>1, RevisionStep DEF Edited
  <2>3. job'.next = proc[p].next /\ job.next = proc[p].slot
    BY <2>1, <2>2 DEF MovedOn, StillDue, Job
  <2> QED
    BY <2>1, <2>2, <2>3 DEF MovedOn, CreatedFirst
<1>2. Inv /\ [Next]_vars =>
          [~Edited /\ job'.next # job.next =>
               \/ job.next \in handled
               \/ \E p \in Procs : proc[p].pc = "delaying" /\ job'.next = proc[p].next]_vars
  BY <1>1
<1> QED
  BY <1>2, Invariance, PTL DEF Spec, NoSlotSkipped

(***************************************************************************)
(* Between edits the schedule only moves forward.                          *)
(***************************************************************************)
THEOREM MovesForward == Spec => ScheduleMovesForward
<1>1. ASSUME Inv, [Next]_vars, ~Edited
      PROVE  job'.next >= job.next \/ job'.next = 0
  <2>1. job \in Job /\ job.rev \in Nat /\ job.next \in Nat /\ TypeOK /\ ReadDue
    BY <1>1 DEF Inv, TypeOK, Job
  <2>2. CASE job'.next = job.next
    BY <2>1, <2>2
  <2>3. ASSUME NEW p \in Procs, MovedOn(p)
        PROVE  job'.next >= job.next \/ job'.next = 0
    <3>1. /\ job'.next = proc[p].next /\ job.next = proc[p].slot
          /\ proc[p].pc \in {"delaying", "advancing"} /\ Due(proc[p])
      BY <2>1, <2>3 DEF MovedOn, StillDue, Job, ReadDue
    <3>2. proc[p].next \in Nat
      BY <2>1 DEF TypeOK, Proc
    <3> QED
      BY <2>1, <3>1, <3>2 DEF Due
  <2> QED
    BY <1>1, <2>1, <2>2, <2>3, RevisionStep DEF Edited
<1>2. Inv /\ [Next]_vars => [~Edited => job'.next >= job.next \/ job'.next = 0]_vars
  BY <1>1
<1> QED
  BY <1>2, Invariance, PTL DEF Spec, ScheduleMovesForward

=============================================================================
