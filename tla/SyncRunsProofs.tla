--------------------------- MODULE SyncRunsProofs ---------------------------
(* Theorems about SyncRuns, for every value of its constants.              *)
EXTENDS SyncRuns, TLAPS

-----------------------------------------------------------------------------
(* Types.                                                                  *)

LEMMA NoCheckpointType == NoCheckpoint \in Checkpoint
  BY SyncRunsAssumption DEF NoCheckpoint, Checkpoint

LEMMA NoExecType == NoExec \in Exec
  BY NoCheckpointType, 0 \in Nat DEF NoExec, Exec, ExecPC, Causes, Results

\* What a field of an execution is, and what may be put in it.
LEMMA ExecFields ==
    ASSUME NEW e \in Exec
    PROVE  /\ e.pc \in ExecPC /\ e.cause \in Causes /\ e.beat \in BOOLEAN
           /\ e.seen \in Checkpoint /\ e.result \in Results /\ e.token \in Nat
           /\ e.host \in Managers \cup {None}
           /\ \A v \in ExecPC : [e EXCEPT !.pc = v] \in Exec
           /\ \A v \in Causes : [e EXCEPT !.cause = v] \in Exec
           /\ \A v \in BOOLEAN : [e EXCEPT !.beat = v] \in Exec
           /\ \A v \in Checkpoint : [e EXCEPT !.seen = v] \in Exec
           /\ \A v \in Results : [e EXCEPT !.result = v] \in Exec
           /\ \A v \in Nat : [e EXCEPT !.token = v] \in Exec
           /\ \A v \in Managers \cup {None} : [e EXCEPT !.host = v] \in Exec
  BY DEF Exec

LEMMA Words ==
    /\ {"none", "claimed", "start", "touch", "run", "returned", "finish", "pause", "stop",
        "done"} \subseteq ExecPC
    /\ {"none", "canceled", "lost", "shutdown"} \subseteq Causes
    /\ {"none", "ok", "error", "permanent"} \subseteq Results
    /\ {"none", "queued", "running", "cancelling", "succeeded", "failed", "canceled",
        "interrupted", "deleted"} \subseteq Status
  BY DEF ExecPC, Causes, Results, Status, Pending, Active, Terminal

LEMMA ExecRecords ==
    ASSUME NEW e \in Exec
    PROVE  /\ \A why \in Causes : Cancelled(e, why) \in Exec
           /\ ToFinish(e) \in Exec
           /\ Ended(e) \in Exec
  <1>1. \A why \in Causes : Cancelled(e, why) \in Exec
    BY ExecFields DEF Cancelled
  <1>2. ToFinish(e) \in Exec
    <2>1. [e EXCEPT !.pc = "finish"] \in Exec
      BY ExecFields, Words
    <2> QED
      BY <2>1, ExecFields, NoCheckpointType DEF ToFinish
  <1>3. Ended(e) \in Exec
    <2>1. [NoExec EXCEPT !.pc = "done"] \in Exec
      BY NoExecType, ExecFields, Words
    <2> QED
      BY <2>1, ExecFields DEF Ended
  <1> QED
    BY <1>1, <1>2, <1>3

LEMMA InfoRecords ==
    /\ NoInfo \in Info
    /\ NoCall \in Call
    /\ \A i \in Info : i.job \in Jobs \cup {None} /\ i.plan \in 0..MaxPlan
                      /\ i.parent \in Runs \cup {None}
    /\ \A j \in Jobs \cup {None}, p \in 0..MaxPlan, q \in Runs \cup {None}, a \in BOOLEAN :
          [job |-> j, plan |-> p, parent |-> q, auto |-> a] \in Info
    /\ \A c \in Call : c.info \in Info /\ [c EXCEPT !.pc = "create"] \in Call
    /\ \A pc \in {"idle", "resume", "create", "stop"}, i \in Info : [pc |-> pc, info |-> i] \in Call
  BY SyncRunsAssumption DEF NoInfo, Info, NoCall, Call

LEMMA CompleteRunTypes ==
    ASSUME TypeOK, NEW r \in Runs, NEW st \in Status, NEW res \in BOOLEAN, CompleteRun(r, st, res)
    PROVE  /\ status' \in [Runs -> Status]
           /\ owner' \in [Runs -> Nat]
           /\ age' \in [Runs -> 0..StaleAfter]
           /\ resumable' \in [Runs -> BOOLEAN]
  BY SyncRunsAssumption DEF TypeOK, CompleteRun

\* Every variable keeps its type.
LEMMA CancelTypes ==
    ASSUME TypeOK, NEW S
    PROVE  /\ CancelRuns(S) => status' \in [Runs -> Status]
           /\ \A m : CancelLocal(S, m) => exec' \in [Runs -> Exec]
<1>1. CancelRuns(S) => status' \in [Runs -> Status]
  BY Words DEF CancelRuns, TypeOK
<1>2. ASSUME NEW T, exec' = [r \in Runs |-> IF r \in T THEN Cancelled(exec[r], "canceled")
                                            ELSE exec[r]]
      PROVE  exec' \in [Runs -> Exec]
  BY <1>2, ExecRecords, Words DEF TypeOK
<1> QED
  BY <1>1, <1>2 DEF CancelLocal

LEMMA TypeStep ==
    ASSUME TypeOK, References, [Next]_vars
    PROVE  TypeOK'
<1> USE SyncRunsAssumption DEF TypeOK, store, procs
<1>1. ASSUME NEW m \in Managers, NEW k \in Kinds, NEW j \in Jobs, StartRun(m, k, j)
      PROVE  TypeOK'
  <2>1. job[j].plan \in 0..MaxPlan
    OBVIOUS
  <2>2. [NoInfo EXCEPT !.job = j, !.plan = job[j].plan] \in Info
    BY <2>1 DEF NoInfo, Info
  <2>3. [pc |-> "create", info |-> [NoInfo EXCEPT !.job = j, !.plan = job[j].plan]] \in Call
    BY <2>2, InfoRecords
  <2> QED
    BY <1>1, <2>3 DEF StartRun, Threads
<1>2. ASSUME NEW m \in Managers, NEW k \in Kinds, NEW r \in Runs, ResumeRun(m, k, r)
      PROVE  TypeOK'
  <2>1. info[r] \in Info /\ (k = "sched") \in BOOLEAN
    OBVIOUS
  <2>2. [job |-> info[r].job, plan |-> info[r].plan, parent |-> r, auto |-> k = "sched"] \in Info
    BY <1>2, <2>1, InfoRecords
  <2>3. [pc |-> "resume",
         info |-> [job |-> info[r].job, plan |-> info[r].plan, parent |-> r, auto |-> k = "sched"]]
        \in Call
    BY <2>2, InfoRecords
  <2>4. \/ call' = call
        \/ call' = [call EXCEPT ![<<m, k>>] =
              [pc |-> "resume",
               info |-> [job |-> info[r].job, plan |-> info[r].plan, parent |-> r, auto |-> k = "sched"]]]
    BY <1>2, Zenon DEF ResumeRun
  <2>5. \A c \in Call : [call EXCEPT ![<<m, k>>] = c] \in [Threads -> Call]
    BY <1>2 DEF Threads
  <2>6. call' \in [Threads -> Call]
    BY <2>3, <2>4, <2>5, Zenon
  <2>7. todo' \in [Managers -> SUBSET Runs]
    BY <1>2 DEF ResumeRun
  <2> QED
    BY <1>2, <2>6, <2>7 DEF ResumeRun
<1>3. ASSUME NEW m \in Managers, NEW r \in Runs, RetryRun(m, r)
      PROVE  TypeOK'
  <2>1. info[r] \in Info
    OBVIOUS
  <2>2. [job |-> info[r].job, plan |-> info[r].plan, parent |-> r, auto |-> FALSE] \in Info
    BY <1>3, <2>1, InfoRecords
  <2> QED
    BY <1>3, <2>1, <2>2, InfoRecords DEF RetryRun, Threads, Kinds
<1>4. ASSUME NEW m \in Managers, NEW r \in Runs, CancelRun(m, r)
      PROVE  TypeOK'
  BY <1>4, CancelTypes DEF CancelRun
<1>5. ASSUME NEW m \in Managers, NEW j \in Jobs, NEW lc \in {"paused", "archived"}, StopJob(m, j, lc)
      PROVE  TypeOK'
  <2>1. [NoInfo EXCEPT !.job = j] \in Info
    BY <1>5, InfoRecords DEF Info
  <2>2. [pc |-> "stop", info |-> [NoInfo EXCEPT !.job = j]] \in Call
    BY <1>5, <2>1, InfoRecords
  <2> QED
    BY <1>5, <2>1, <2>2, InfoRecords DEF StopJob, Threads, Kinds, Lifecycle
<1>6. ASSUME NEW m \in Managers, StopRuns(m)
      PROVE  TypeOK'
  BY <1>6, CancelTypes, InfoRecords DEF StopRuns, Threads, Kinds
<1>7. ASSUME NEW m \in Managers, NEW j \in Jobs, NEW p \in 1..MaxPlan, PutJob(m, j, p)
      PROVE  TypeOK'
  BY <1>7 DEF PutJob, Lifecycle
<1>8. ASSUME NEW m \in Managers, NEW j \in Jobs, PurgeJob(m, j)
      PROVE  TypeOK'
  BY <1>8, Words, NoCheckpointType DEF PurgeJob, Lifecycle
<1>9. ASSUME NEW m \in Managers, NEW j \in Jobs, ResetCheckpoint(m, j)
      PROVE  TypeOK'
  BY <1>9, NoCheckpointType DEF ResetCheckpoint
<1>10. ASSUME NEW m \in Managers, NEW S \in SUBSET Runs, DeleteRuns(m, S)
      PROVE  TypeOK'
  BY <1>10, Words DEF DeleteRuns
<1>11. ASSUME NEW m \in Managers, NEW k \in Kinds, CheckLineage(m, k)
      PROVE  TypeOK'
  BY <1>11, InfoRecords DEF CheckLineage, Threads
<1>12. ASSUME NEW m \in Managers, NEW k \in Kinds, CreateRun(m, k)
      PROVE  TypeOK'
  <2>1. call[<<m, k>>].info \in Info
    BY <1>12, InfoRecords DEF Threads
  <2>2. call' \in [Threads -> Call]
    BY <1>12, InfoRecords DEF CreateRun
  <2>3. status' \in [Runs -> Status]
    BY <1>12, Words DEF CreateRun
  <2>4. info' \in [Runs -> Info]
    BY <1>12, <2>1 DEF CreateRun
  <2> QED
    BY <1>12, <2>2, <2>3, <2>4 DEF CreateRun
<1>13. ASSUME NEW m \in Managers, InterruptStaleRuns(m)
      PROVE  TypeOK'
  <2>1. \A st \in Status : RecoveredStatus(st) \in Status /\ (RecoveredStatus(st) = "interrupted") \in BOOLEAN
    BY <1>13, Words DEF RecoveredStatus
  <2>2. status' \in [Runs -> Status]
    BY <1>13, <2>1 DEF InterruptStaleRuns
  <2>3. resumable' \in [Runs -> BOOLEAN]
    BY <1>13, <2>1 DEF InterruptStaleRuns
  <2> QED
    BY <1>13, <2>1, <2>2, <2>3 DEF InterruptStaleRuns
<1>14. ASSUME NEW m \in Managers, Shutdown(m)
      PROVE  TypeOK'
  <2>1. exec' \in [Runs -> Exec]
    BY <1>14, ExecRecords, Words DEF Shutdown
  <2>2. call' \in [Threads -> Call]
    BY <1>14, InfoRecords DEF Shutdown
  <2> QED
    BY <1>14, <2>1, <2>2 DEF Shutdown
<1>15. ASSUME NEW m \in Managers, Dies(m), stops' \in 0..MaxStops
      PROVE  TypeOK'
  BY <1>15, ExecRecords, InfoRecords DEF Dies
<1>16. ASSUME NEW m \in Managers, Restart(m)
      PROVE  TypeOK'
  BY <1>16 DEF Restart
<1>17. ASSUME NEW m \in Managers, NEW r \in Runs, ClaimRun(m, r)
      PROVE  TypeOK'
  <2>1. [NoExec EXCEPT !.pc = "claimed"] \in Exec
    BY <1>17, NoExecType, ExecFields, Words
  <2>2. [NoExec EXCEPT !.pc = "claimed", !.host = m] \in Exec
    BY <1>17, <2>1, ExecFields
  <2>3. [NoExec EXCEPT !.pc = "claimed", !.host = m, !.token = lastToken + 1] \in Exec
    BY <2>2, ExecFields, lastToken + 1 \in Nat
  <2> QED
    BY <1>17, <2>3, Words DEF ClaimRun
<1>18. ASSUME NEW r \in Runs, Launch(r)
      PROVE  TypeOK'
  <2>1. exec[r] \in Exec /\ CauseInStore(r) \in Causes
    BY <1>18, Words DEF CauseInStore
  <2>2. [exec[r] EXCEPT !.pc = "start"] \in Exec
    BY <1>18, <2>1, ExecFields, Words
  <2>3. [exec[r] EXCEPT !.pc = "start", !.cause = CauseInStore(r)] \in Exec
    BY <1>18, <2>1, <2>2, ExecFields
  <2> QED
    BY <1>18, <2>3 DEF Launch
<1>19. ASSUME NEW r \in Runs, LaunchRefused(r)
      PROVE  TypeOK'
  BY <1>19, ExecRecords, CompleteRunTypes, Words DEF LaunchRefused
<1>20. ASSUME NEW r \in Runs, LoadCheckpoint(r)
      PROVE  TypeOK'
  <2>1. exec[r] \in Exec /\ info[r].job \in Jobs
    BY <1>20, InfoRecords DEF LoadCheckpoint, References
  <2>2. [exec[r] EXCEPT !.pc = "touch"] \in Exec
    BY <1>20, <2>1, ExecFields, Words
  <2>3. /\ ToFinish(exec[r]) \in Exec
            /\ [exec[r] EXCEPT !.pc = "touch", !.seen = ckpt[info[r].job]] \in Exec
    BY <1>20, <2>1, <2>2, ExecFields, ExecRecords
  <2> QED
    BY <1>20, <2>2, <2>3 DEF LoadCheckpoint
<1>21. ASSUME NEW r \in Runs, TouchBeforeExecution(r)
      PROVE  TypeOK'
  <2>1. [exec[r] EXCEPT !.pc = "run"] \in Exec
    BY <1>21, ExecFields, Words
  <2>2. ToFinish(Cancelled(exec[r], "lost")) \in Exec
    BY <1>21, ExecRecords, Words
  <2> QED
    BY <1>21, <2>1, <2>2 DEF TouchBeforeExecution
<1>22. ASSUME NEW r \in Runs, HeartbeatRead(r)
      PROVE  TypeOK'
  <2>1. exec[r] \in Exec /\ CauseInStore(r) \in Causes /\ (CauseInStore(r) = "none") \in BOOLEAN
    BY <1>22, Words DEF CauseInStore
  <2>2. [exec[r] EXCEPT !.cause = CauseInStore(r)] \in Exec
    BY <1>22, <2>1, ExecFields
  <2>3. [exec[r] EXCEPT !.cause = CauseInStore(r), !.beat = CauseInStore(r) = "none"] \in Exec
    BY <1>22, <2>1, <2>2, ExecFields
  <2> QED
    BY <1>22, <2>3 DEF HeartbeatRead
<1>23. ASSUME NEW r \in Runs, HeartbeatTouch(r)
      PROVE  TypeOK'
  <2>1. [exec[r] EXCEPT !.beat = FALSE] \in Exec
    BY <1>23, ExecFields
  <2>2. Cancelled(exec[r], "lost") \in Exec
    BY <1>23, ExecRecords, Words
  <2>3. [Cancelled(exec[r], "lost") EXCEPT !.beat = FALSE] \in Exec
    BY <1>23, <2>2, ExecFields
  <2>4. exec' \in [Runs -> Exec]
    BY <1>23, <2>1, <2>3 DEF HeartbeatTouch
  <2>5. age' \in [Runs -> 0..StaleAfter]
    BY <1>23 DEF HeartbeatTouch
  <2> QED
    BY <1>23, <2>4, <2>5 DEF HeartbeatTouch
<1>24. ASSUME NEW r \in Runs, ReportProgress(r)
      PROVE  TypeOK'
  BY <1>24 DEF ReportProgress
<1>25. ASSUME NEW r \in Runs, SaveCheckpoint(r)
      PROVE  TypeOK'
  <2>1. exec[r].seen.batch \in 0..MaxBatch
    BY <1>25, ExecFields DEF Checkpoint
  <2>2. LET mine == IF exec[r].seen.run = r THEN exec[r].seen.batch ELSE 0
            IN  mine < MaxBatch => [run |-> r, batch |-> mine + 1] \in Checkpoint
    BY <1>25, <2>1 DEF Checkpoint
  <2>3. \A c \in Checkpoint : [exec[r] EXCEPT !.seen = c] \in Exec
    BY <1>25, ExecFields
  <2> QED
    BY <1>25, <2>2, <2>3 DEF SaveCheckpoint
<1>26. ASSUME NEW r \in Runs, ClearCheckpoint(r)
      PROVE  TypeOK'
  <2>1. [exec[r] EXCEPT !.result = "error"] \in Exec
    BY ExecFields, Words
  <2>2. exec' \in [Runs -> Exec]
    BY <1>26, <2>1, ExecRecords DEF ClearCheckpoint
  <2> QED
    BY <1>26, <2>2, NoCheckpointType DEF ClearCheckpoint
<1>27. ASSUME NEW r \in Runs, PauseOwnJob(r)
      PROVE  TypeOK'
  <2>1. [exec[r] EXCEPT !.pc = "stop"] \in Exec
    BY <1>27, ExecFields, Words
  <2> QED
    BY <1>27, <2>1, ExecRecords DEF PauseOwnJob, Lifecycle
<1>28. ASSUME NEW r \in Runs, StopOwnRuns(r)
      PROVE  TypeOK'
  <2>1. status' \in [Runs -> Status]
    BY <1>28, CancelTypes DEF StopOwnRuns
  <2>2. PICK T : exec' = [s \in Runs |-> IF s = r THEN Ended(exec[r])
                                         ELSE IF s \in T THEN Cancelled(exec[s], "canceled")
                                         ELSE exec[s]]
    BY <1>28 DEF StopOwnRuns
  <2>3. exec' \in [Runs -> Exec]
    BY <2>2, ExecRecords, Words
  <2> QED
    BY <1>28, <2>1, <2>3 DEF StopOwnRuns
<1>29. ASSUME NEW r \in Runs, NEW res \in Results, ExecutorReturns(r, res)
      PROVE  TypeOK'
  BY <1>29, ExecRecords, ExecFields, Words DEF ExecutorReturns
<1>30. ASSUME NEW r \in Runs, NEW res \in BOOLEAN, Finish(r, res)
      PROVE  TypeOK'
  <2>1. TerminalStatus(exec[r]) \in Status
    BY <1>30, Words DEF TerminalStatus
  <2>2. [Ended(exec[r]) EXCEPT !.pc = "pause"] \in Exec /\ exec[r].host \in Managers \cup {None}
    BY <1>30, ExecRecords, ExecFields, Words
  <2>3. [Ended(exec[r]) EXCEPT !.pc = "pause", !.host = exec[r].host] \in Exec
    BY <1>30, <2>2, ExecFields
  <2>4. MayComplete(r) \in BOOLEAN
    BY <1>30 DEF MayComplete, Owns
  <2> QED
    BY <1>30, <2>1, <2>3, <2>4, ExecRecords, CompleteRunTypes DEF Finish
<1>31. ASSUME Tick
      PROVE  TypeOK'
  BY <1>31 DEF Tick
<1>32. ASSUME UNCHANGED vars PROVE TypeOK'
  BY <1>32 DEF vars
<1>33. CASE UNCHANGED vars
  BY <1>32, <1>33
<1>34. ASSUME NEW m \in Managers, Exit(m) \/ Crash(m) PROVE TypeOK'
  <2>1. Dies(m) /\ stops' \in 0..MaxStops
    BY <1>34 DEF Exit, Crash
  <2> QED
    BY <2>1, <1>15
<1>35. ASSUME NEW m \in Managers, NEW r \in Runs, DeleteRun(m, r) PROVE TypeOK'
  BY <1>35, <1>10 DEF DeleteRun
<1>36. ASSUME NEW m \in Managers, NEW j \in Jobs, ClearTerminalRuns(m, j) PROVE TypeOK'
  <2>1. {r \in RunsOf(j) : status[r] \in Terminal} \in SUBSET Runs
    BY DEF RunsOf
  <2> QED
    BY <1>36, <1>10, <2>1 DEF ClearTerminalRuns
<1> HIDE DEF TypeOK, store, procs
<1>41. ASSUME NEW m \in Managers, ApiStep(m) PROVE TypeOK'
  BY <1>41, <1>1, <1>2, <1>3, <1>4, <1>5, <1>7, <1>8, <1>9, <1>35, <1>36 DEF ApiStep, Kinds
<1>42. ASSUME NEW m \in Managers, NEW k \in Kinds, CallStep(m, k) PROVE TypeOK'
  BY <1>42, <1>6, <1>11, <1>12 DEF CallStep
<1>43. ASSUME NEW m \in Managers, SchedStep(m) PROVE TypeOK'
  BY <1>43, <1>1, <1>2, <1>13 DEF SchedStep, Kinds
<1>44. ASSUME NEW r \in Runs, RunStep(r) PROVE TypeOK'
  BY <1>44, <1>18, <1>19, <1>20, <1>21, <1>22, <1>23, <1>26, <1>27, <1>28, <1>30 DEF RunStep
<1>45. ASSUME NEW r \in Runs, ExecutorStep(r) PROVE TypeOK'
  BY <1>45, <1>24, <1>25, <1>29 DEF ExecutorStep
<1> QED
  BY <1>14, <1>16, <1>17, <1>31, <1>33, <1>34, <1>41, <1>42, <1>43, <1>44, <1>45 DEF Next

-----------------------------------------------------------------------------
(* What every step other than a claim does to runs, owners and tokens.      *)

LEMMA ExecMoves ==
    ASSUME NEW e \in Exec
    PROVE  /\ \A why : Cancelled(e, why).token = e.token /\ Cancelled(e, why).pc = e.pc
           /\ \A v : \A why : [Cancelled(e, why) EXCEPT !.beat = v].token = e.token
           /\ ToFinish(e).token = e.token /\ ToFinish(e).pc = "finish"
           /\ Ended(e).token = e.token /\ Ended(e).pc = "done"
  BY DEF Exec, Cancelled, ToFinish, Ended, NoExec

StatusMove(r) ==
    \/ status'[r] = status[r]
    \/ status[r] = "none" /\ status'[r] = "queued"
    \/ status[r] = "queued" /\ status'[r] = "canceled"
    \/ status[r] = "running" /\ status'[r] = "cancelling"
    \/ status[r] \in Active /\ status'[r] \in Terminal
    \/ status[r] \in Terminal /\ status'[r] = "deleted"

\* Nothing becomes active, no token is handed out, and an owner is at most cleared.
NoClaim ==
    /\ lastToken' = lastToken
    /\ \A r \in Runs : exec'[r].token = exec[r].token
    /\ \A r \in Runs : exec'[r].pc = "none" <=> exec[r].pc = "none"
    /\ \A r \in Runs : StatusMove(r)
    /\ \A r \in Runs : \/ owner'[r] = owner[r] /\ (status'[r] \in Active <=> status[r] \in Active)
                       \/ owner'[r] = 0 /\ status[r] \in Active /\ status'[r] \notin Active
    /\ \A r \in Runs : \/ info'[r] = info[r] /\ (status'[r] = "none" <=> status[r] = "none")
                       \/ status[r] = "none" /\ status'[r] = "queued" /\ info'[r].job \in Jobs
    /\ \A t \in Threads : call'[t].pc # "idle" => call'[t].info.job \in Jobs

LEMMA NoClaimStep ==
    ASSUME TypeOK, References, [Next]_vars
    PROVE  NoClaim \/ \E m \in Managers, r \in Runs : ClaimRun(m, r)
<1> USE SyncRunsAssumption DEF TypeOK, References, NoClaim, StatusMove, Active, Terminal, store, procs
<1>1. ASSUME NEW m \in Managers, NEW k \in Kinds, NEW j \in Jobs, StartRun(m, k, j)
      PROVE  NoClaim
  BY <1>1, InfoRecords DEF StartRun
<1>2. ASSUME NEW m \in Managers, NEW k \in Kinds, NEW r \in Runs, ResumeRun(m, k, r)
      PROVE  NoClaim
  <2>1. k = "sched" \/ MayResume(r)
    BY <1>2, Zenon DEF ResumeRun
  <2>2. info[r].job \in Jobs \/ ~MayResume(r)
    BY InfoRecords DEF MayResume, MayRetry
  <2>3. \/ call' = call
        \/ /\ MayResume(r)
           /\ \E i : i.job = info[r].job /\ call' = [call EXCEPT ![<<m, k>>] = [pc |-> "resume", info |-> i]]
    <3>1. CASE call' = call
      BY <3>1
    <3>2. CASE MayResume(r) /\ call' = [call EXCEPT ![<<m, k>>] =
              [pc |-> "resume",
               info |-> [job |-> info[r].job, plan |-> info[r].plan, parent |-> r, auto |-> k = "sched"]]]
      <4>1. [job |-> info[r].job, plan |-> info[r].plan, parent |-> r, auto |-> k = "sched"].job = info[r].job
        OBVIOUS
      <4> QED
        BY <3>2, <4>1, Zenon
    <3> QED
      BY <1>2, <3>1, <3>2, Zenon DEF ResumeRun
  <2>4. \A t \in Threads : call'[t].pc # "idle" => call'[t].info.job \in Jobs
    <3>1. CASE call' = call
      BY <3>1
    <3>2. ASSUME MayResume(r), NEW i, i.job = info[r].job,
                 call' = [call EXCEPT ![<<m, k>>] = [pc |-> "resume", info |-> i]]
          PROVE  \A t \in Threads : call'[t].pc # "idle" => call'[t].info.job \in Jobs
      BY <2>2, <3>2
    <3> QED
      BY <2>3, <3>1, <3>2, Zenon
  <2> QED
    BY <1>2, <2>4 DEF ResumeRun
<1>3. ASSUME NEW m \in Managers, NEW r \in Runs, RetryRun(m, r)
      PROVE  NoClaim
  BY <1>3, InfoRecords DEF RetryRun, MayRetry, Terminal
<1>4. ASSUME NEW m \in Managers, NEW r \in Runs, CancelRun(m, r)
      PROVE  NoClaim
  BY <1>4, ExecMoves DEF CancelRun, CancelRuns, CancelLocal
<1>5. ASSUME NEW m \in Managers, NEW j \in Jobs, NEW lc \in {"paused", "archived"}, StopJob(m, j, lc)
      PROVE  NoClaim
  BY <1>5, InfoRecords DEF StopJob
<1>6. ASSUME NEW m \in Managers, StopRuns(m)
      PROVE  NoClaim
  BY <1>6, ExecMoves, InfoRecords DEF StopRuns, CancelRuns, CancelLocal, NoCall
<1>7. ASSUME NEW m \in Managers, NEW j \in Jobs, NEW p \in 1..MaxPlan, PutJob(m, j, p)
      PROVE  NoClaim
  BY <1>7 DEF PutJob
<1>8. ASSUME NEW m \in Managers, NEW j \in Jobs, PurgeJob(m, j)
      PROVE  NoClaim
  <2>1. \A r \in RunsOf(j) : status[r] \in Terminal \cup {"deleted"}
    BY <1>8, j # None DEF PurgeJob, NoPending, RunsOf, Pending, Status
  <2> QED
    BY <1>8, <2>1 DEF PurgeJob, RunsOf
<1>9. ASSUME NEW m \in Managers, NEW j \in Jobs, ResetCheckpoint(m, j)
      PROVE  NoClaim
  BY <1>9 DEF ResetCheckpoint
<1>10. ASSUME NEW m \in Managers, NEW S \in SUBSET Runs, DeleteRuns(m, S)
      PROVE  NoClaim
  BY <1>10 DEF DeleteRuns
<1>11. ASSUME NEW m \in Managers, NEW k \in Kinds, CheckLineage(m, k)
      PROVE  NoClaim
  <2>1. call[<<m, k>>].pc # "idle" /\ call[<<m, k>>].info.job \in Jobs
    BY <1>11 DEF CheckLineage, Threads
  <2>2. call[<<m, k>>] \in Call
    BY <1>11 DEF Threads
  <2>3. [call[<<m, k>>] EXCEPT !.pc = "create"].info = call[<<m, k>>].info
    BY <2>2 DEF Call
  <2>4. \A t \in Threads : call'[t].pc # "idle" => call'[t].info.job \in Jobs
    BY <1>11, <2>1, <2>3 DEF CheckLineage, NoCall
  <2> QED
    BY <1>11, <2>4 DEF CheckLineage
<1>12. ASSUME NEW m \in Managers, NEW k \in Kinds, CreateRun(m, k)
      PROVE  NoClaim
  <2>1. call[<<m, k>>].pc # "idle" /\ call[<<m, k>>].info.job \in Jobs
    BY <1>12 DEF CreateRun, Threads
  <2>2. \A t \in Threads : call'[t].pc # "idle" => call'[t].info.job \in Jobs
    BY <1>12 DEF CreateRun, NoCall
  <2>3. \A r \in Runs : \/ status'[r] = status[r] /\ info'[r] = info[r]
                       \/ /\ status[r] = "none" /\ status'[r] = "queued"
                          /\ info'[r] = call[<<m, k>>].info
    <3>1. CASE status' = status /\ info' = info
      BY <3>1
    <3>2. ASSUME NEW s \in Runs, status[s] = "none", status' = [status EXCEPT ![s] = "queued"],
                 info' = [info EXCEPT ![s] = call[<<m, k>>].info]
          PROVE  \A r \in Runs : \/ status'[r] = status[r] /\ info'[r] = info[r]
                                \/ /\ status[r] = "none" /\ status'[r] = "queued"
                                   /\ info'[r] = call[<<m, k>>].info
      BY <3>2
    <3>3. \/ status' = status /\ info' = info
          \/ \E s \in Runs : /\ status[s] = "none" /\ status' = [status EXCEPT ![s] = "queued"]
                             /\ info' = [info EXCEPT ![s] = call[<<m, k>>].info]
      BY <1>12 DEF CreateRun
    <3> QED
      BY <3>1, <3>2, <3>3
  <2> QED
    BY <1>12, <2>1, <2>2, <2>3 DEF CreateRun
<1>13. ASSUME NEW m \in Managers, InterruptStaleRuns(m)
      PROVE  NoClaim
  BY <1>13 DEF InterruptStaleRuns, Stale, RecoveredStatus
<1>14. ASSUME NEW m \in Managers, Shutdown(m)
      PROVE  NoClaim
  BY <1>14, ExecMoves DEF Shutdown, NoCall
<1>15. ASSUME NEW m \in Managers, Dies(m)
      PROVE  NoClaim
  BY <1>15, ExecMoves DEF Dies, Hosted, NoCall
<1>16. ASSUME NEW m \in Managers, Restart(m)
      PROVE  NoClaim
  BY <1>16 DEF Restart
<1>17. ASSUME NEW r \in Runs, Launch(r)
      PROVE  NoClaim
  BY <1>17, ExecMoves DEF Launch
<1>18. ASSUME NEW r \in Runs, LaunchRefused(r)
      PROVE  NoClaim
  BY <1>18, ExecMoves DEF LaunchRefused, CompleteRun, Owns
<1>19. ASSUME NEW r \in Runs, LoadCheckpoint(r)
      PROVE  NoClaim
  BY <1>19, ExecMoves DEF LoadCheckpoint
<1>20. ASSUME NEW r \in Runs, TouchBeforeExecution(r)
      PROVE  NoClaim
  <2>1. Cancelled(exec[r], "lost") \in Exec
    BY ExecRecords, Words
  <2>2. /\ ToFinish(Cancelled(exec[r], "lost")).token = exec[r].token
        /\ ToFinish(Cancelled(exec[r], "lost")).pc = "finish"
    BY <2>1, ExecMoves
  <2>3. /\ [exec[r] EXCEPT !.pc = "run"].token = exec[r].token
        /\ [exec[r] EXCEPT !.pc = "run"].pc = "run"
    BY DEF Exec
  <2>4. exec'[r].token = exec[r].token /\ exec'[r].pc # "none" /\ exec[r].pc # "none"
    BY <1>20, <2>2, <2>3 DEF TouchBeforeExecution
  <2> QED
    BY <1>20, <2>4 DEF TouchBeforeExecution
<1>21. ASSUME NEW r \in Runs, HeartbeatRead(r)
      PROVE  NoClaim
  BY <1>21, ExecMoves DEF HeartbeatRead
<1>22. ASSUME NEW r \in Runs, HeartbeatTouch(r)
      PROVE  NoClaim
  <2>1. Cancelled(exec[r], "lost") \in Exec
    BY ExecRecords, Words
  <2>2. /\ [Cancelled(exec[r], "lost") EXCEPT !.beat = FALSE].token = exec[r].token
        /\ [Cancelled(exec[r], "lost") EXCEPT !.beat = FALSE].pc = exec[r].pc
    BY <2>1, ExecMoves DEF Exec
  <2>3. exec'[r].token = exec[r].token /\ exec'[r].pc = exec[r].pc
    <3>1. CASE Owns(r)
      BY <1>22, <3>1 DEF HeartbeatTouch, Exec
    <3>2. CASE ~Owns(r)
      BY <1>22, <2>2, <3>2 DEF HeartbeatTouch
    <3> QED
      BY <3>1, <3>2
  <2> QED
    BY <1>22, <2>3 DEF HeartbeatTouch
<1>23. ASSUME NEW r \in Runs, ReportProgress(r)
      PROVE  NoClaim
  BY <1>23 DEF ReportProgress
<1>24. ASSUME NEW r \in Runs, SaveCheckpoint(r)
      PROVE  NoClaim
  BY <1>24, ExecMoves DEF SaveCheckpoint
<1>25. ASSUME NEW r \in Runs, ClearCheckpoint(r)
      PROVE  NoClaim
  <2>1. /\ [exec[r] EXCEPT !.result = "error"] \in Exec
        /\ [exec[r] EXCEPT !.result = "error"].token = exec[r].token
    BY ExecFields, Words DEF Exec
  <2>2. exec'[r].token = exec[r].token /\ exec'[r].pc = "finish"
    BY <1>25, <2>1, ExecMoves DEF ClearCheckpoint
  <2> QED
    BY <1>25, <2>2 DEF ClearCheckpoint
<1>26. ASSUME NEW r \in Runs, PauseOwnJob(r)
      PROVE  NoClaim
  BY <1>26, ExecMoves DEF PauseOwnJob
<1>27. ASSUME NEW r \in Runs, StopOwnRuns(r)
      PROVE  NoClaim
  BY <1>27, ExecMoves DEF StopOwnRuns, CancelRuns
<1>28. ASSUME NEW r \in Runs, NEW res \in Results, ExecutorReturns(r, res)
      PROVE  NoClaim
  <2> DEFINE e == [exec[r] EXCEPT !.result = res]
  <2>1. e \in Exec /\ e.token = exec[r].token /\ e.pc = exec[r].pc
    BY <1>28, ExecFields DEF Exec
  <2>4. exec[r].pc = "run" /\ UNCHANGED <<job, status, info, owner, lastToken, call>>
    BY <1>28, <2>1 DEF ExecutorReturns
  <2>2. exec'[r].token = exec[r].token /\ exec'[r].pc # "none"
    <3>1. [e EXCEPT !.pc = "returned"].token = e.token /\ [e EXCEPT !.pc = "returned"].pc = "returned"
      BY <2>1 DEF Exec
    <3>2. ToFinish(e).token = e.token /\ ToFinish(e).pc = "finish"
      BY <2>1, ExecMoves
    <3>3. exec'[r] \in {[e EXCEPT !.pc = "returned"], ToFinish(e)}
      BY <1>28 DEF ExecutorReturns
    <3> HIDE DEF e
    <3> QED
      BY <2>1, <3>1, <3>2, <3>3
  <2>3. \A s \in Runs \ {r} : exec'[s] = exec[s]
    BY <1>28 DEF ExecutorReturns
  <2> HIDE DEF e
  <2> QED
    BY <2>4, <2>2, <2>3
<1>29. ASSUME NEW r \in Runs, NEW res \in BOOLEAN, Finish(r, res)
      PROVE  NoClaim
  BY <1>29, ExecMoves DEF Finish, MayComplete, Owns, CompleteRun, TerminalStatus
<1>30. ASSUME Tick
      PROVE  NoClaim
  BY <1>30 DEF Tick
<1>31. ASSUME UNCHANGED vars
      PROVE  NoClaim
  BY <1>31 DEF vars
<1>32. ASSUME NEW m \in Managers, NEW r \in Runs, DeleteRun(m, r) PROVE NoClaim
  BY <1>32, <1>10 DEF DeleteRun
<1>33. ASSUME NEW m \in Managers, NEW j \in Jobs, ClearTerminalRuns(m, j) PROVE NoClaim
  <2>1. {r \in RunsOf(j) : status[r] \in Terminal} \in SUBSET Runs
    BY DEF RunsOf
  <2> QED
    BY <1>33, <1>10, <2>1 DEF ClearTerminalRuns
<1> HIDE DEF TypeOK, References, NoClaim, StatusMove, Active, Terminal, store, procs
<1>41. ASSUME NEW m \in Managers, ApiStep(m) PROVE NoClaim
  BY <1>41, <1>1, <1>2, <1>3, <1>4, <1>5, <1>7, <1>8, <1>9, <1>32, <1>33 DEF ApiStep, Kinds
<1>42. ASSUME NEW m \in Managers, NEW k \in Kinds, CallStep(m, k) PROVE NoClaim
  BY <1>42, <1>6, <1>11, <1>12 DEF CallStep
<1>43. ASSUME NEW m \in Managers, SchedStep(m) PROVE NoClaim
  BY <1>43, <1>1, <1>2, <1>13 DEF SchedStep, Kinds
<1>44. ASSUME NEW r \in Runs, RunStep(r) PROVE NoClaim
  BY <1>44, <1>17, <1>18, <1>19, <1>20, <1>21, <1>22, <1>25, <1>26, <1>27, <1>29 DEF RunStep
<1>45. ASSUME NEW r \in Runs, ExecutorStep(r) PROVE NoClaim
  BY <1>45, <1>23, <1>24, <1>28 DEF ExecutorStep
<1>46. ASSUME NEW m \in Managers, Shutdown(m) \/ Exit(m) \/ Crash(m) \/ Restart(m) PROVE NoClaim
  BY <1>46, <1>14, <1>15, <1>16 DEF Exit, Crash
<1> QED
  BY <1>30, <1>31, <1>41, <1>42, <1>43, <1>44, <1>45, <1>46 DEF Next

-----------------------------------------------------------------------------
(* Type correctness.                                                       *)

LEMMA TypeInit == Init => TypeOK /\ References
<1> SUFFICES ASSUME Init PROVE TypeOK /\ References
  OBVIOUS
<1> USE SyncRunsAssumption DEF Init
<1>1. job \in [Jobs -> [lc : Lifecycle, plan : 1..MaxPlan]]
  BY DEF Lifecycle
<1>2. status \in [Runs -> Status] /\ \A r \in Runs : status[r] = "none"
  BY Words
<1>3. info \in [Runs -> Info] /\ \A r \in Runs : info[r].job = None
  BY InfoRecords DEF NoInfo
<1>4. call \in [Threads -> Call] /\ \A t \in Threads : call[t].pc = "idle"
  BY InfoRecords DEF NoCall
<1>5. exec \in [Runs -> Exec] /\ \A r \in Runs : exec[r].pc = "none"
  BY NoExecType DEF NoExec
<1>6. ckpt \in [Jobs -> Checkpoint]
  BY NoCheckpointType
<1>7. TypeOK
  BY <1>1, <1>2, <1>3, <1>4, <1>5, <1>6 DEF TypeOK
<1>8. References
  BY <1>2, <1>3, <1>4, <1>5 DEF References
<1> QED
  BY <1>7, <1>8

\* A claim, seen like NoClaim.
LEMMA ClaimStep ==
    ASSUME TypeOK, References, NEW m \in Managers, NEW r \in Runs, ClaimRun(m, r)
    PROVE  /\ status[r] = "queued" /\ status' = [status EXCEPT ![r] = "running"]
           /\ MayClaim(r)
           /\ lastToken' = lastToken + 1
           /\ owner' = [owner EXCEPT ![r] = lastToken + 1]
           /\ exec'[r].token = lastToken + 1 /\ exec'[r].pc = "claimed"
           /\ exec'[r].host = m
           /\ \A s \in Runs \ {r} : exec'[s] = exec[s]
           /\ UNCHANGED <<job, info, ckpt, call>>
<1>1. exec' = [exec EXCEPT ![r] = [NoExec EXCEPT !.pc = "claimed", !.host = m,
                                                 !.token = lastToken + 1]]
  BY DEF ClaimRun
<1>3. exec'[r].token = lastToken + 1 /\ exec'[r].pc = "claimed" /\ exec'[r].host = m
  BY <1>1 DEF TypeOK, NoExec
<1>4. \A s \in Runs \ {r} : exec'[s] = exec[s]
  BY <1>1 DEF TypeOK
<1>2. /\ MayClaim(r) /\ status' = [status EXCEPT ![r] = "running"] /\ lastToken' = lastToken + 1
      /\ owner' = [owner EXCEPT ![r] = lastToken + 1] /\ UNCHANGED <<job, info, ckpt, call>>
  BY DEF ClaimRun
<1>5. status[r] = "queued"
  BY <1>2 DEF MayClaim
<1> QED
  BY <1>2, <1>3, <1>4, <1>5

LEMMA ReferencesStep ==
    ASSUME TypeOK, References, [Next]_vars
    PROVE  References'
<1>1. CASE NoClaim
  <2>1. \A r \in Runs : status'[r] = "none" <=> info'[r].job = None
    BY <1>1, SyncRunsAssumption DEF NoClaim, References
  <2>2. \A r \in Runs : exec'[r].pc # "none" => status'[r] \notin {"none", "queued"}
    BY <1>1 DEF NoClaim, StatusMove, References, Active, Terminal
  <2> QED
    BY <1>1, <2>1, <2>2 DEF NoClaim, References
<1>2. ASSUME NEW m \in Managers, NEW r \in Runs, ClaimRun(m, r)
      PROVE  References'
  BY <1>2, ClaimStep DEF References, TypeOK
<1> QED
  BY <1>1, <1>2, NoClaimStep

LEMMA Grounded == Spec => [](TypeOK /\ References)
<1>1. TypeOK /\ References /\ [Next]_vars => TypeOK' /\ References'
  BY TypeStep, ReferencesStep
<1> QED
  BY TypeInit, <1>1, PTL DEF Spec

\* Every variable keeps its type: no step builds a record, a status or a token
\* outside the sets the code knows.
THEOREM TypeCorrect == Spec => []TypeOK
  BY Grounded, PTL

-----------------------------------------------------------------------------
(* One active run per job.                                                 *)

\* Two runs of a job are never both running or cancelling: only ClaimRun makes a
\* run active, and its UPDATE reads the job's other runs.
THEOREM MutualExclusion == Spec => []OneActiveRunPerJob
<1>1. TypeOK /\ Init => OneActiveRunPerJob
  BY DEF Init, OneActiveRunPerJob, Active
<1>2. ASSUME TypeOK, References, OneActiveRunPerJob, [Next]_vars
      PROVE  OneActiveRunPerJob'
  <2>1. CASE NoClaim
    <3>1. \A r \in Runs : status'[r] \in Active => status[r] \in Active /\ info'[r] = info[r]
      BY <1>2, <2>1 DEF NoClaim, Active
    <3> QED
      BY <1>2, <3>1 DEF OneActiveRunPerJob
  <2>2. ASSUME NEW m \in Managers, NEW r \in Runs, ClaimRun(m, r)
        PROVE  OneActiveRunPerJob'
    <3>1. \A s \in Runs : s # r /\ info[s].job = info[r].job => status[s] \notin Active
      BY <1>2, <2>2, ClaimStep DEF MayClaim, RunsOf
    <3> QED
      BY <1>2, <2>2, <3>1, ClaimStep DEF OneActiveRunPerJob, TypeOK
  <2> QED
    BY <1>2, <2>1, <2>2, NoClaimStep
<1> QED
  BY <1>1, <1>2, TypeInit, Grounded, PTL DEF Spec

-----------------------------------------------------------------------------
(* Owner tokens.                                                           *)

\* OwnerTokens strengthened: tokens are never issued twice, to whatever execution,
\* ended ones included.
TokenInv ==
    /\ \A r \in Runs : exec[r].token <= lastToken
    /\ \A r, s \in Runs : r # s /\ exec[r].token # 0 => exec[r].token # exec[s].token
    /\ \A r \in Runs : owner[r] # 0 <=> status[r] \in Active
    /\ \A r \in Runs : owner[r] # 0 => owner[r] = exec[r].token

LEMMA TokenInit == Init => TokenInv
  BY DEF Init, TokenInv, Active, NoExec

LEMMA TokenStep ==
    ASSUME TypeOK, References, TokenInv, [Next]_vars
    PROVE  TokenInv'
<1>1. CASE NoClaim
  BY <1>1 DEF TokenInv, NoClaim
<1>2. ASSUME NEW m \in Managers, NEW r \in Runs, ClaimRun(m, r)
      PROVE  TokenInv'
  <2> DEFINE n == lastToken + 1
  <2>1. lastToken \in Nat /\ \A s \in Runs : exec[s].token \in Nat
    BY ExecFields DEF TypeOK
  <2>2. n # 0 /\ \A s \in Runs : exec[s].token <= n /\ exec[s].token # n
    BY <2>1 DEF TokenInv
  <2>3. /\ exec'[r].token = n /\ owner'[r] = n /\ status'[r] = "running" /\ lastToken' = n
        /\ \A s \in Runs \ {r} : /\ exec'[s] = exec[s] /\ owner'[s] = owner[s]
                                 /\ status'[s] = status[s]
    BY <1>2, ClaimStep DEF TypeOK
  <2>4. n <= n
    BY <2>1
  <2> HIDE DEF n
  <2> QED
    BY <2>2, <2>3, <2>4 DEF TokenInv, Active
<1> QED
  BY <1>1, <1>2, NoClaimStep

LEMMA Tokens == Spec => []TokenInv
<1>1. TypeOK /\ References /\ TokenInv /\ [Next]_vars => TokenInv'
  BY TokenStep
<1> QED
  BY TokenInit, <1>1, Grounded, PTL DEF Spec

\* Exactly the active runs carry a token, it is the one their execution was given,
\* and no two runs carry the same one.
THEOREM TokensFenceRuns == Spec => []OwnerTokens
<1>1. TypeOK /\ TokenInv => OwnerTokens
  BY DEF TokenInv, OwnerTokens
<1> QED
  BY <1>1, Tokens, Grounded, PTL

-----------------------------------------------------------------------------
(* What a step may never do.                                               *)

\* The history of a run only moves forward.
THEOREM HistoryIsFinal == Spec => RunHistoryIsFinal
<1> DEFINE Final == \A r \in Runs : status'[r] # status[r] =>
          /\ status[r] \in Terminal => status'[r] = "deleted"
          /\ status[r] = "cancelling" => status'[r] \in Terminal
          /\ status'[r] = "running" => status[r] = "queued"
<1>1. TypeOK /\ References /\ [Next]_vars => Final
  <2> SUFFICES ASSUME TypeOK, References, [Next]_vars PROVE Final
    OBVIOUS
  <2>1. CASE NoClaim
    BY <2>1 DEF NoClaim, StatusMove, Active, Terminal
  <2>2. ASSUME NEW m \in Managers, NEW r \in Runs, ClaimRun(m, r) PROVE Final
    BY <2>2, ClaimStep DEF TypeOK, Terminal
  <2> QED
    BY <2>1, <2>2, NoClaimStep
<1>2. TypeOK /\ References /\ [Next]_vars => [Final]_vars
  BY <1>1
<1> HIDE DEF Final
<1>3. Spec => [][Final]_vars
  BY <1>2, Grounded, PTL DEF Spec
<1> QED
  BY <1>3 DEF RunHistoryIsFinal, Final

-----------------------------------------------------------------------------
(* Checkpoints.                                                            *)

\* The four statements that write data_sync_checkpoints.
LEMMA CheckpointWriters ==
    ASSUME [Next]_vars
    PROVE  \/ ckpt' = ckpt
           \/ \E m \in Managers, j \in Jobs : PurgeJob(m, j) \/ ResetCheckpoint(m, j)
           \/ \E r \in Runs : SaveCheckpoint(r) \/ ClearCheckpoint(r)
<1> USE DEF store, procs
<1>1. ASSUME NEW m \in Managers, ApiStep(m)
      PROVE  ckpt' = ckpt \/ \E j \in Jobs : PurgeJob(m, j) \/ ResetCheckpoint(m, j)
  BY <1>1 DEF ApiStep, StartRun, ResumeRun, RetryRun, CancelRun, StopJob, PutJob, DeleteRun,
              ClearTerminalRuns, DeleteRuns
<1>2. ASSUME NEW m \in Managers, NEW k \in Kinds, CallStep(m, k) PROVE ckpt' = ckpt
  BY <1>2 DEF CallStep, CheckLineage, CreateRun, StopRuns
<1>3. ASSUME NEW m \in Managers, SchedStep(m) PROVE ckpt' = ckpt
  BY <1>3 DEF SchedStep, StartRun, ResumeRun, InterruptStaleRuns
<1>4. ASSUME NEW m \in Managers, NEW r \in Runs, ClaimRun(m, r) PROVE ckpt' = ckpt
  BY <1>4 DEF ClaimRun
<1>5. ASSUME NEW r \in Runs, RunStep(r) PROVE ckpt' = ckpt \/ ClearCheckpoint(r)
  BY <1>5 DEF RunStep, Launch, LaunchRefused, LoadCheckpoint, TouchBeforeExecution,
              HeartbeatRead, HeartbeatTouch, Finish, PauseOwnJob, StopOwnRuns
<1>6. ASSUME NEW r \in Runs, ExecutorStep(r) PROVE ckpt' = ckpt \/ SaveCheckpoint(r)
  BY <1>6 DEF ExecutorStep, ReportProgress, ExecutorReturns
<1>7. ASSUME NEW m \in Managers, Shutdown(m) \/ Exit(m) \/ Crash(m) \/ Restart(m)
      PROVE  ckpt' = ckpt
  BY <1>7 DEF Shutdown, Exit, Crash, Restart, Dies
<1>8. CASE Tick
  BY <1>8 DEF Tick
<1>9. CASE UNCHANGED vars
  BY <1>9 DEF vars
<1> QED
  BY <1>1, <1>2, <1>3, <1>4, <1>5, <1>6, <1>7, <1>8, <1>9 DEF Next

\* A checkpoint is moved only by the execution that owns the job's running row, or
\* removed while no run of the job is pending.
THEOREM CheckpointsAreFenced == Spec => CheckpointFenced
<1> DEFINE MovedByOwner == \A j \in Jobs : ckpt'[j] # ckpt[j] =>
          \/ \E r \in RunsOf(j) : OwnsRunning(r) /\ exec[r].pc \in {"run", "returned"}
          \/ ckpt'[j] = NoCheckpoint /\ NoPending(j)
<1>1. TypeOK /\ [Next]_vars => MovedByOwner
  <2> SUFFICES ASSUME TypeOK, [Next]_vars PROVE MovedByOwner
    OBVIOUS
  <2>1. CASE ckpt' = ckpt
    BY <2>1
  <2>2. ASSUME NEW m \in Managers, NEW j \in Jobs, PurgeJob(m, j) \/ ResetCheckpoint(m, j)
        PROVE  MovedByOwner
    <3>1. NoPending(j) /\ ckpt' = [ckpt EXCEPT ![j] = NoCheckpoint]
      BY <2>2 DEF PurgeJob, ResetCheckpoint
    <3> QED
      BY <3>1 DEF TypeOK
  <2>3. ASSUME NEW r \in Runs, SaveCheckpoint(r) \/ ClearCheckpoint(r) PROVE MovedByOwner
    <3>1. \A j \in Jobs : ckpt'[j] # ckpt[j] =>
             j = info[r].job /\ OwnsRunning(r) /\ exec[r].pc \in {"run", "returned"}
      BY <2>3 DEF SaveCheckpoint, ClearCheckpoint, CheckpointGuard, TypeOK
    <3> QED
      BY <3>1 DEF RunsOf
  <2> QED
    BY <2>1, <2>2, <2>3, CheckpointWriters
<1>2. TypeOK /\ [Next]_vars => [MovedByOwner]_vars
  BY <1>1
<1> HIDE DEF MovedByOwner
<1>3. Spec => [][MovedByOwner]_vars
  BY <1>2, TypeCorrect, PTL DEF Spec
<1> QED
  BY <1>3 DEF CheckpointFenced, MovedByOwner

-----------------------------------------------------------------------------
(* The store implements FencedCheckpoint.                                  *)

\* The run a checkpoint names was claimed, so its token is settled.
WriterClaimed == \A j \in Jobs : ckpt[j] # NoCheckpoint =>
                    ckpt[j].run \in Runs /\ exec[ckpt[j].run].pc # "none"

LEMMA WriterStep ==
    ASSUME TypeOK, References, WriterClaimed, [Next]_vars
    PROVE  WriterClaimed'
<1>1. \A r \in Runs : exec[r].pc # "none" => exec'[r].pc # "none"
  <2>1. CASE NoClaim
    BY <2>1 DEF NoClaim
  <2>2. ASSUME NEW m \in Managers, NEW r \in Runs, ClaimRun(m, r)
        PROVE  \A s \in Runs : exec[s].pc # "none" => exec'[s].pc # "none"
    BY <2>2, ClaimStep
  <2> QED
    BY <2>1, <2>2, NoClaimStep
<1>2. ASSUME ckpt' = ckpt PROVE WriterClaimed'
  BY <1>1, <1>2 DEF WriterClaimed
<1>3. ASSUME NEW j \in Jobs, ckpt' = [ckpt EXCEPT ![j] = NoCheckpoint] PROVE WriterClaimed'
  BY <1>1, <1>3 DEF WriterClaimed, TypeOK
<1>4. ASSUME NEW m \in Managers, NEW j \in Jobs, PurgeJob(m, j) \/ ResetCheckpoint(m, j)
      PROVE  WriterClaimed'
  BY <1>3, <1>4 DEF PurgeJob, ResetCheckpoint
<1>5. ASSUME NEW r \in Runs, SaveCheckpoint(r) PROVE WriterClaimed'
  <2>1. PICK b : ckpt' = [ckpt EXCEPT ![info[r].job] = [run |-> r, batch |-> b]]
    BY <1>5 DEF SaveCheckpoint
  <2>2. exec[r].pc # "none"
    BY <1>5 DEF SaveCheckpoint
  <2> QED
    BY <1>1, <2>1, <2>2 DEF WriterClaimed, TypeOK
<1>6. ASSUME NEW r \in Runs, ClearCheckpoint(r) PROVE WriterClaimed'
  <2>1. ckpt' = ckpt \/ ckpt' = [ckpt EXCEPT ![info[r].job] = NoCheckpoint]
    BY <1>6 DEF ClearCheckpoint
  <2>2. info[r].job \in Jobs
    BY <1>6, InfoRecords DEF References, TypeOK, ClearCheckpoint
  <2> QED
    BY <1>2, <1>3, <2>1, <2>2
<1> QED
  BY <1>2, <1>4, <1>5, <1>6, CheckpointWriters

\* The invariant under which the refinement mapping is well defined.
Anchored == /\ TypeOK /\ References
            /\ OneActiveRunPerJob
            /\ TokenInv
            /\ WriterClaimed

LEMMA AnchoredAlways == Spec => []Anchored
<1>1. Init => WriterClaimed
  BY DEF Init, WriterClaimed
<1>2. TypeOK /\ References /\ WriterClaimed /\ [Next]_vars => WriterClaimed'
  BY WriterStep
<1>3. Spec => []WriterClaimed
  BY <1>1, <1>2, Grounded, PTL DEF Spec
<1> QED
  BY <1>3, Grounded, MutualExclusion, Tokens, PTL DEF Anchored

\* The holder of a job is the owner of its one active run.
LEMMA HolderOfActive ==
    OneActiveRunPerJob =>
        \A j \in Jobs : /\ \A r \in RunsOf(j) : status[r] \in Active => JobHolder(j) = owner[r]
                        /\ (\A r \in RunsOf(j) : status[r] \notin Active) => JobHolder(j) = 0
<1> SUFFICES ASSUME OneActiveRunPerJob, NEW j \in Jobs
             PROVE  /\ \A r \in RunsOf(j) : status[r] \in Active => JobHolder(j) = owner[r]
                    /\ (\A r \in RunsOf(j) : status[r] \notin Active) => JobHolder(j) = 0
  OBVIOUS
<1>1. ASSUME NEW r \in RunsOf(j), status[r] \in Active PROVE JobHolder(j) = owner[r]
  <2> DEFINE c == CHOOSE s \in RunsOf(j) : status[s] \in Active
  <2>1. c \in RunsOf(j) /\ status[c] \in Active
    BY <1>1
  <2>2. c = r
    BY <1>1, <2>1 DEF OneActiveRunPerJob, RunsOf
  <2> QED
    BY <1>1, <2>2 DEF JobHolder
<1> QED
  BY <1>1 DEF JobHolder

LEMMA HolderOfActiveNext ==
    (OneActiveRunPerJob =>
        \A j \in Jobs : /\ \A r \in RunsOf(j) : status[r] \in Active => JobHolder(j) = owner[r]
                        /\ (\A r \in RunsOf(j) : status[r] \notin Active) => JobHolder(j) = 0)'
  BY HolderOfActive, PTL

\* A step that leaves the active runs and their owners alone moves no holder.
LEMMA HolderKept ==
    ASSUME OneActiveRunPerJob, OneActiveRunPerJob',
           \A r \in Runs : /\ info'[r].job = info[r].job /\ owner'[r] = owner[r]
                           /\ status'[r] \in Active <=> status[r] \in Active
    PROVE  \A j \in Jobs : JobHolder(j)' = JobHolder(j)
<1> TAKE j \in Jobs
<1>1. RunsOf(j)' = RunsOf(j)
  BY DEF RunsOf
<1>2. CASE \E r \in RunsOf(j) : status[r] \in Active
  <2>1. PICK r \in RunsOf(j) : status[r] \in Active
    BY <1>2
  <2>2. JobHolder(j) = owner[r]
    BY <2>1, HolderOfActive
  <2>3. status'[r] \in Active /\ owner'[r] = owner[r]
    BY <2>1 DEF RunsOf
  <2>4. JobHolder(j)' = owner'[r]
    BY <1>1, <2>1, <2>3, HolderOfActiveNext DEF Active
  <2> QED
    BY <2>2, <2>3, <2>4
<1>3. CASE \A r \in RunsOf(j) : status[r] \notin Active
  <2>1. \A r \in RunsOf(j)' : status'[r] \notin Active'
    BY <1>1, <1>3 DEF RunsOf, Active
  <2> QED
    BY <1>3, <2>1, HolderOfActive, HolderOfActiveNext
<1> QED
  BY <1>2, <1>3

LEMMA StampKept ==
    ASSUME WriterClaimed, ckpt' = ckpt,
           \A r \in Runs : exec[r].pc # "none" => exec'[r].token = exec[r].token
    PROVE  \A j \in Jobs : CheckpointStamp(j)' = CheckpointStamp(j)
  BY DEF WriterClaimed, CheckpointStamp

\* Ending runs, and everything else that is not about a claim or a checkpoint.
LEMMA ReleaseStep ==
    ASSUME Anchored, OneActiveRunPerJob', NoClaim, ckpt' = ckpt
    PROVE  Fenced!Next
<1> DEFINE S == {j \in Jobs : JobHolder(j)' # JobHolder(j)}
<1>1. \A j \in Jobs : JobHolder(j)' \in {JobHolder(j), 0}
  <2> TAKE j \in Jobs
  <2>1. CASE \E r \in RunsOf(j)' : status'[r] \in Active
    <3>1. PICK r \in Runs : info'[r].job = j /\ status'[r] \in Active
      BY <2>1 DEF RunsOf
    <3>2. status[r] \in Active /\ owner'[r] = owner[r] /\ info'[r] = info[r]
      BY <3>1 DEF NoClaim, Active
    <3>3. JobHolder(j) = owner[r]
      BY <3>1, <3>2, HolderOfActive DEF Anchored, RunsOf
    <3>4. r \in RunsOf(j)' /\ status'[r] \in Active'
      BY <3>1 DEF RunsOf, Active
    <3>5. JobHolder(j)' = owner'[r]
      BY <3>4, HolderOfActiveNext
    <3> QED
      BY <3>2, <3>3, <3>5
  <2>2. CASE \A r \in RunsOf(j)' : status'[r] \notin Active
    <3>1. \A r \in RunsOf(j)' : status'[r] \notin Active'
      BY <2>2 DEF Active
    <3> QED
      BY <3>1, HolderOfActiveNext
  <2> QED
    BY <2>1, <2>2
<1>2. \A j \in Jobs : CheckpointStamp(j)' = CheckpointStamp(j)
  BY StampKept DEF Anchored, NoClaim
<1>3. lastToken' = lastToken
  BY DEF NoClaim
<1>4. [j \in Jobs |-> JobHolder(j)]'
        = [j \in Jobs |-> IF j \in S THEN 0 ELSE [i \in Jobs |-> JobHolder(i)][j]]
  BY <1>1
<1>5. [j \in Jobs |-> CheckpointStamp(j)]' = [j \in Jobs |-> CheckpointStamp(j)]
  BY <1>2
<1>6. Fenced!Release(S)
  BY <1>3, <1>4, <1>5 DEF Fenced!Release
<1>7. S \in SUBSET Jobs
  OBVIOUS
<1> HIDE DEF S
<1> QED
  BY <1>6, <1>7 DEF Fenced!Next

LEMMA GrantStep ==
    ASSUME Anchored, OneActiveRunPerJob', NEW m \in Managers, NEW r \in Runs, ClaimRun(m, r)
    PROVE  Fenced!Next
<1> USE DEF Anchored
<1>1. PICK j \in Jobs : j = info[r].job /\ status[r] = "queued" /\ exec[r].pc = "none"
  BY ClaimStep, InfoRecords DEF References, TypeOK
<1>2. JobHolder(j) = 0
  <2>1. \A s \in RunsOf(j) : status[s] \notin Active
    BY <1>1, ClaimStep DEF MayClaim, Active
  <2> QED
    BY <1>1, <2>1, HolderOfActive
<1>3. \A i \in Jobs : RunsOf(i)' = RunsOf(i)
  BY ClaimStep DEF RunsOf
<1>4. JobHolder(j)' = lastToken + 1
  <2>1. r \in RunsOf(j)' /\ status'[r] \in Active' /\ owner'[r] = lastToken + 1
    BY <1>1, ClaimStep DEF TypeOK, RunsOf, Active
  <2> QED
    BY <1>1, <2>1, HolderOfActiveNext
<1>5. \A i \in Jobs \ {j} : JobHolder(i)' = JobHolder(i)
  <2> TAKE i \in Jobs \ {j}
  <2>1. \A s \in RunsOf(i) : s \in Runs /\ s # r
    BY <1>1 DEF RunsOf
  <2>2. \A s \in RunsOf(i) : status'[s] = status[s] /\ owner'[s] = owner[s]
    BY <2>1, ClaimStep DEF TypeOK
  <2>3. CASE \E s \in RunsOf(i) : status[s] \in Active
    <3>1. PICK s \in RunsOf(i) : status[s] \in Active
      BY <2>3
    <3>2. s \in RunsOf(i)' /\ status'[s] \in Active'
      BY <1>3, <2>2, <3>1 DEF Active
    <3> QED
      BY <2>2, <3>1, <3>2, HolderOfActive, HolderOfActiveNext
  <2>4. CASE \A s \in RunsOf(i) : status[s] \notin Active
    <3>1. \A s \in RunsOf(i)' : status'[s] \notin Active'
      BY <1>3, <2>2, <2>4 DEF Active
    <3> QED
      BY <2>4, <3>1, HolderOfActive, HolderOfActiveNext
  <2> QED
    BY <2>3, <2>4
<1>6. \A i \in Jobs : CheckpointStamp(i)' = CheckpointStamp(i)
  <2>1. \A s \in Runs : exec[s].pc # "none" => exec'[s].token = exec[s].token
    BY <1>1, ClaimStep
  <2> QED
    BY <2>1, ClaimStep, StampKept
<1>7. lastToken' = lastToken + 1
  BY ClaimStep
<1> HIDE DEF Anchored
<1>8. [i \in Jobs |-> JobHolder(i)][j] = 0
  BY <1>1, <1>2
<1>9. [i \in Jobs |-> JobHolder(i)]' = [[i \in Jobs |-> JobHolder(i)] EXCEPT ![j] = lastToken + 1]
  BY <1>1, <1>4, <1>5
<1>10. Fenced!Grant(j)
  BY <1>6, <1>7, <1>8, <1>9 DEF Fenced!Grant
<1> QED
  BY <1>1, <1>10 DEF Fenced!Next

\* A statement that writes a checkpoint leaves runs, owners and tokens alone.
LEMMA StampStep ==
    ASSUME Anchored, OneActiveRunPerJob', NoClaim, info' = info, owner' = owner,
           NEW j \in Jobs, NEW c \in Checkpoint, ckpt' = [ckpt EXCEPT ![j] = c],
           c # NoCheckpoint => c.run \in Runs
    PROVE  /\ \A i \in Jobs : JobHolder(i)' = JobHolder(i)
           /\ lastToken' = lastToken
           /\ \A i \in Jobs \ {j} : CheckpointStamp(i)' = CheckpointStamp(i)
           /\ CheckpointStamp(j)' = IF c = NoCheckpoint THEN 0 ELSE exec[c.run].token
<1>1. \A i \in Jobs : JobHolder(i)' = JobHolder(i)
  <2>1. \A r \in Runs : status'[r] \in Active <=> status[r] \in Active
    BY DEF NoClaim, Anchored, TokenInv
  <2> QED
    BY <2>1, HolderKept DEF Anchored
<1>2. \A i \in Jobs \ {j} : CheckpointStamp(i)' = CheckpointStamp(i)
  BY DEF Anchored, TypeOK, WriterClaimed, NoClaim, CheckpointStamp
<1>3. CheckpointStamp(j)' = IF c = NoCheckpoint THEN 0 ELSE exec[c.run].token
  BY DEF Anchored, TypeOK, NoClaim, CheckpointStamp
<1> QED
  BY <1>1, <1>2, <1>3 DEF NoClaim

LEMMA ClearStep ==
    ASSUME Anchored, OneActiveRunPerJob', NoClaim, info' = info, owner' = owner,
           NEW j \in Jobs, ckpt' = [ckpt EXCEPT ![j] = NoCheckpoint]
    PROVE  Fenced!Next
<1>1. /\ [i \in Jobs |-> JobHolder(i)]' = [i \in Jobs |-> JobHolder(i)]
      /\ lastToken' = lastToken
      /\ [i \in Jobs |-> CheckpointStamp(i)]'
            = [[i \in Jobs |-> CheckpointStamp(i)] EXCEPT ![j] = 0]
  BY StampStep, NoCheckpointType
<1>2. Fenced!Clear(j)
  BY <1>1 DEF Fenced!Clear
<1> QED
  BY <1>2 DEF Fenced!Next

LEMMA WriteStep ==
    ASSUME Anchored, OneActiveRunPerJob', NoClaim, NEW r \in Runs, SaveCheckpoint(r),
           TypeOK'
    PROVE  Fenced!Next
<1>1. PICK j \in Jobs : j = info[r].job
  BY InfoRecords DEF Anchored, References, TypeOK, SaveCheckpoint
<1>2. PICK c : /\ c.run = r /\ ckpt' = [ckpt EXCEPT ![j] = c]
  BY <1>1 DEF SaveCheckpoint
<1>3. c \in Checkpoint /\ c # NoCheckpoint
  <2>1. c = ckpt'[j]
    BY <1>2 DEF Anchored, TypeOK
  <2> QED
    BY <1>2, <2>1, SyncRunsAssumption DEF TypeOK, NoCheckpoint
<1>4. UNCHANGED <<status, info, owner>> /\ OwnsRunning(r)
  BY DEF SaveCheckpoint, CheckpointGuard
<1>5. JobHolder(j) = exec[r].token /\ JobHolder(j) # 0
  <2>1. r \in RunsOf(j) /\ status[r] \in Active
    BY <1>1, <1>4 DEF RunsOf, OwnsRunning, Active
  <2>2. JobHolder(j) = owner[r] /\ owner[r] # 0
    BY <2>1, HolderOfActive DEF Anchored, TokenInv
  <2> QED
    BY <1>4, <2>2 DEF OwnsRunning
<1>6. /\ [i \in Jobs |-> JobHolder(i)]' = [i \in Jobs |-> JobHolder(i)]
      /\ lastToken' = lastToken
      /\ [i \in Jobs |-> CheckpointStamp(i)]'
            = [[i \in Jobs |-> CheckpointStamp(i)] EXCEPT ![j] = [i \in Jobs |-> JobHolder(i)][j]]
  BY <1>2, <1>3, <1>4, <1>5, StampStep
<1>7. Fenced!Write(j)
  BY <1>5, <1>6 DEF Fenced!Write
<1> QED
  BY <1>7 DEF Fenced!Next

LEMMA FencedStep ==
    ASSUME Anchored, Anchored', [Next]_vars
    PROVE  [Fenced!Next]_(Fenced!fvars)
<1> OneActiveRunPerJob' /\ TypeOK'
  BY DEF Anchored
<1>1. ASSUME NEW m \in Managers, NEW r \in Runs, ClaimRun(m, r) PROVE Fenced!Next
  BY <1>1, GrantStep
<1>2. CASE NoClaim
  <2>1. CASE ckpt' = ckpt
    BY <1>2, <2>1, ReleaseStep
  <2>2. ASSUME NEW m \in Managers, NEW j \in Jobs, PurgeJob(m, j) \/ ResetCheckpoint(m, j)
        PROVE  Fenced!Next
    <3>1. info' = info /\ owner' = owner /\ ckpt' = [ckpt EXCEPT ![j] = NoCheckpoint]
      BY <2>2 DEF PurgeJob, ResetCheckpoint
    <3> QED
      BY <1>2, <3>1, ClearStep
  <2>3. ASSUME NEW r \in Runs, SaveCheckpoint(r) PROVE Fenced!Next
    BY <1>2, <2>3, WriteStep
  <2>4. ASSUME NEW r \in Runs, ClearCheckpoint(r), ckpt' # ckpt PROVE Fenced!Next
    <3>1. PICK j \in Jobs : j = info[r].job
      BY <2>4, InfoRecords DEF Anchored, References, TypeOK, ClearCheckpoint
    <3>2. info' = info /\ owner' = owner /\ ckpt' = [ckpt EXCEPT ![j] = NoCheckpoint]
      BY <2>4, <3>1 DEF ClearCheckpoint
    <3> QED
      BY <1>2, <3>2, ClearStep
  <2> QED
    BY <2>1, <2>2, <2>3, <2>4, CheckpointWriters
<1> QED
  BY <1>1, <1>2, NoClaimStep DEF Anchored

LEMMA FencedInit == Init => Fenced!Init
<1> SUFFICES ASSUME Init PROVE Fenced!Init
  OBVIOUS
<1>1. \A j \in Jobs : JobHolder(j) = 0
  BY DEF Init, JobHolder, RunsOf, Active
<1>2. \A j \in Jobs : CheckpointStamp(j) = 0
  BY DEF Init, CheckpointStamp
<1> QED
  BY <1>1, <1>2 DEF Init, Fenced!Init

\* The store implements the abstract fenced lock.
THEOREM StoreImplementsFencedLock == Spec => FencedSpec
<1>1. Anchored /\ Anchored' /\ [Next]_vars => [Fenced!Next]_(Fenced!fvars)
  BY FencedStep
<1> QED
  BY <1>1, FencedInit, AnchoredAlways, PTL DEF Spec, FencedSpec, Fenced!Spec

\* So no job's checkpoint ever carries the token of an execution that came after the
\* job's current owner: a late writer never overtakes the run that replaced it.
THEOREM CheckpointsAreNeverAhead == Spec => []Fenced!StampNotFromFuture
  BY StoreImplementsFencedLock, Fenced!StampsAreNeverAhead, PTL DEF FencedSpec

-----------------------------------------------------------------------------
(* What an execution knows, and what it may do after it has ended its run.  *)

Seeing  == {"touch", "run", "returned"}
Pausing == {"pause", "stop"}

\* An execution learns of a checkpoint only by reading or writing the stored one,
\* and pauses its job only once its run is stored as failed.
ExecFrame(r) ==
    /\ exec'[r].pc \in Seeing => \/ exec[r].pc \in Seeing /\ exec'[r].seen = exec[r].seen
                                 \/ exec'[r].seen = ckpt'[info[r].job]
    /\ exec'[r].pc \in Pausing => exec[r].pc \in Pausing \/ status'[r] = "failed"

Framed == \A r \in Runs : ExecFrame(r)

LEMMA CancelledFrame ==
    ASSUME NEW e \in Exec, NEW why
    PROVE  Cancelled(e, why).pc = e.pc /\ Cancelled(e, why).seen = e.seen
  BY DEF Exec, Cancelled

LEMMA EndFrame ==
    ASSUME NEW e \in Exec
    PROVE  /\ ToFinish(e).pc = "finish" /\ Ended(e).pc = "done"
           /\ \A h : [Ended(e) EXCEPT !.pc = "pause", !.host = h].pc = "pause"
  BY DEF Exec, ToFinish, Ended, NoExec

LEMMA ExecFrameStep ==
    ASSUME TypeOK, References, [Next]_vars
    PROVE  Framed
<1> USE DEF Framed, ExecFrame, Seeing, Pausing, procs
<1>0. \A r \in Runs : exec[r] \in Exec
  BY DEF TypeOK
<1>1. ASSUME \A r \in Runs : exec'[r] = exec[r] PROVE Framed
  BY <1>1
<1>2. ASSUME \A r \in Runs : \/ exec'[r] = exec[r]
                             \/ \E why : exec'[r] = Cancelled(exec[r], why)
                             \/ exec'[r] = Ended(exec[r])
      PROVE  Framed
  BY <1>0, <1>2, CancelledFrame, EndFrame
<1>3. ASSUME NEW m \in Managers, ApiStep(m) PROVE Framed
  <2>1. exec' = exec \/ \E r \in Runs : CancelRun(m, r)
    BY <1>3 DEF ApiStep, StartRun, ResumeRun, RetryRun, StopJob, PutJob, PurgeJob,
                ResetCheckpoint, DeleteRun, ClearTerminalRuns, DeleteRuns
  <2>2. ASSUME NEW r \in Runs, CancelRun(m, r) PROVE Framed
    BY <1>2, <2>2 DEF CancelRun, CancelLocal
  <2> QED
    BY <1>1, <2>1, <2>2
<1>4. ASSUME NEW m \in Managers, NEW k \in Kinds, CallStep(m, k) PROVE Framed
  <2>1. exec' = exec \/ StopRuns(m)
    BY <1>4 DEF CallStep, CheckLineage, CreateRun
  <2>2. CASE StopRuns(m)
    BY <1>2, <2>2 DEF StopRuns, CancelLocal
  <2> QED
    BY <1>1, <2>1, <2>2
<1>5. ASSUME NEW m \in Managers, SchedStep(m) PROVE Framed
  BY <1>1, <1>5 DEF SchedStep, StartRun, ResumeRun, InterruptStaleRuns
<1>6. ASSUME NEW m \in Managers, NEW r \in Runs, ClaimRun(m, r) PROVE Framed
  BY <1>6, ClaimStep
<1>7. ASSUME NEW m \in Managers, Shutdown(m) \/ Exit(m) \/ Crash(m) \/ Restart(m) PROVE Framed
  BY <1>2, <1>7 DEF Shutdown, Exit, Crash, Restart, Dies
<1>8. CASE Tick
  BY <1>1, <1>8 DEF Tick
<1>26. CASE UNCHANGED vars
  BY <1>1, <1>26 DEF vars
<1>9. ASSUME NEW r \in Runs, \A s \in Runs \ {r} : exec'[s] = exec[s], ExecFrame(r) PROVE Framed
  BY <1>9
<1>10. ASSUME NEW r \in Runs, Launch(r) PROVE Framed
  BY <1>10 DEF Launch, TypeOK, Exec
<1>11. ASSUME NEW r \in Runs, LaunchRefused(r) PROVE Framed
  BY <1>2, <1>11 DEF LaunchRefused, TypeOK
<1>12. ASSUME NEW r \in Runs, LoadCheckpoint(r) PROVE Framed
  <2>1. \/ exec'[r].pc = "finish"
        \/ exec'[r].seen = ckpt'[info[r].job] /\ exec'[r].pc = "touch"
    BY <1>0, <1>12, EndFrame DEF LoadCheckpoint, TypeOK, Exec, store
  <2>2. \A s \in Runs \ {r} : exec'[s] = exec[s]
    BY <1>12 DEF LoadCheckpoint, TypeOK
  <2> QED
    BY <2>1, <2>2, <1>9
<1>13. ASSUME NEW r \in Runs, TouchBeforeExecution(r) PROVE Framed
  <2>1. \/ exec'[r].pc = "finish"
        \/ exec[r].pc = "touch" /\ exec'[r].seen = exec[r].seen /\ exec'[r].pc = "run"
    <3>1. Cancelled(exec[r], "lost") \in Exec
      BY <1>0, ExecRecords, Words
    <3> QED
      BY <1>0, <1>13, <3>1, EndFrame DEF TouchBeforeExecution, TypeOK, Exec
  <2>2. \A s \in Runs \ {r} : exec'[s] = exec[s]
    BY <1>13 DEF TouchBeforeExecution, TypeOK
  <2> QED
    BY <2>1, <2>2, <1>9
<1>14. ASSUME NEW r \in Runs, HeartbeatRead(r) PROVE Framed
  BY <1>14 DEF HeartbeatRead, TypeOK, Exec
<1>15. ASSUME NEW r \in Runs, HeartbeatTouch(r) PROVE Framed
  <2>1. Cancelled(exec[r], "lost") \in Exec
    BY <1>0, ExecRecords, Words
  <2>2. /\ [Cancelled(exec[r], "lost") EXCEPT !.beat = FALSE].pc = exec[r].pc
        /\ [Cancelled(exec[r], "lost") EXCEPT !.beat = FALSE].seen = exec[r].seen
    BY <1>0, <2>1, CancelledFrame DEF Exec
  <2>3. exec'[r].pc = exec[r].pc /\ exec'[r].seen = exec[r].seen
    <3>1. CASE Owns(r)
      BY <1>0, <1>15, <3>1 DEF HeartbeatTouch, TypeOK, Exec
    <3>2. CASE ~Owns(r)
      BY <1>15, <2>2, <3>2 DEF HeartbeatTouch, TypeOK
    <3> QED
      BY <3>1, <3>2
  <2>4. \A s \in Runs \ {r} : exec'[s] = exec[s]
    BY <1>15 DEF HeartbeatTouch, TypeOK
  <2> QED
    BY <2>3, <2>4, <1>9
<1>16. ASSUME NEW r \in Runs, ClearCheckpoint(r) PROVE Framed
  <2>1. [exec[r] EXCEPT !.result = "error"] \in Exec
    BY <1>0, ExecFields, Words
  <2>2. exec'[r].pc = "finish"
    BY <1>0, <1>16, <2>1, EndFrame DEF ClearCheckpoint, TypeOK
  <2>3. \A s \in Runs \ {r} : exec'[s] = exec[s]
    BY <1>16 DEF ClearCheckpoint, TypeOK
  <2> QED
    BY <2>2, <2>3, <1>9
<1>17. ASSUME NEW r \in Runs, NEW res \in BOOLEAN, Finish(r, res) PROVE Framed
  <2>1. PausesJob(r) => status'[r] = "failed"
    BY <1>17 DEF Finish, PausesJob, CompleteRun, TypeOK
  <2>2. \/ exec'[r].pc = "done"
        \/ PausesJob(r) /\ exec'[r].pc = "pause"
    BY <1>0, <1>17, EndFrame DEF Finish, TypeOK
  <2>3. \A s \in Runs \ {r} : exec'[s] = exec[s]
    BY <1>17 DEF Finish, TypeOK
  <2> QED
    BY <2>1, <2>2, <2>3, <1>9
<1>18. ASSUME NEW r \in Runs, PauseOwnJob(r) PROVE Framed
  <2>1. exec[r].pc = "pause" /\ exec'[r].pc \in {"stop", "done"}
    BY <1>0, <1>18, EndFrame DEF PauseOwnJob, TypeOK, Exec
  <2>2. \A s \in Runs \ {r} : exec'[s] = exec[s]
    BY <1>18 DEF PauseOwnJob, TypeOK
  <2> QED
    BY <2>1, <2>2, <1>9
<1>19. ASSUME NEW r \in Runs, StopOwnRuns(r) PROVE Framed
  BY <1>2, <1>19 DEF StopOwnRuns
<1>20. ASSUME NEW r \in Runs, ReportProgress(r) PROVE Framed
  BY <1>1, <1>20 DEF ReportProgress
<1>21. ASSUME NEW r \in Runs, SaveCheckpoint(r) PROVE Framed
  <2>1. PICK cp : /\ ckpt' = [ckpt EXCEPT ![info[r].job] = cp]
                  /\ exec' = [exec EXCEPT ![r].seen = cp]
    BY <1>21 DEF SaveCheckpoint
  <2>2. info[r].job \in Jobs
    BY <1>21, InfoRecords DEF References, TypeOK, SaveCheckpoint
  <2>3. exec'[r].seen = ckpt'[info[r].job] /\ exec'[r].pc = exec[r].pc
    BY <1>0, <2>1, <2>2 DEF TypeOK, Exec
  <2>4. \A s \in Runs \ {r} : exec'[s] = exec[s]
    BY <2>1 DEF TypeOK
  <2> QED
    BY <2>3, <2>4, <1>9
<1>22. ASSUME NEW r \in Runs, NEW res \in Results, ExecutorReturns(r, res) PROVE Framed
  <2> DEFINE e == [exec[r] EXCEPT !.result = res]
  <2>1. e \in Exec /\ e.pc = exec[r].pc /\ e.seen = exec[r].seen
    BY <1>0, ExecFields DEF Exec
  <2>2. exec[r].pc = "run" /\ exec'[r] \in {[e EXCEPT !.pc = "returned"], ToFinish(e)}
    BY <1>22, <2>1 DEF ExecutorReturns, TypeOK
  <2>3. \A s \in Runs \ {r} : exec'[s] = exec[s]
    BY <1>22 DEF ExecutorReturns, TypeOK
  <2> HIDE DEF e
  <2>4. [e EXCEPT !.pc = "returned"].seen = e.seen /\ [e EXCEPT !.pc = "returned"].pc = "returned"
    BY <2>1 DEF Exec
  <2>5. \/ exec'[r].pc = "finish"
        \/ exec[r].pc = "run" /\ exec'[r].seen = exec[r].seen /\ exec'[r].pc = "returned"
    BY <2>1, <2>2, <2>4, EndFrame
  <2> QED
    BY <2>3, <2>5, <1>9
<1> HIDE DEF Framed, ExecFrame
<1>23. ASSUME NEW r \in Runs, RunStep(r) PROVE Framed
  BY <1>23, <1>10, <1>11, <1>12, <1>13, <1>14, <1>15, <1>16, <1>17, <1>18, <1>19 DEF RunStep
<1>24. ASSUME NEW r \in Runs, ExecutorStep(r) PROVE Framed
  BY <1>24, <1>20, <1>21, <1>22 DEF ExecutorStep
<1> QED
  BY <1>3, <1>4, <1>5, <1>6, <1>7, <1>8, <1>23, <1>24, <1>26 DEF Next

\* An execution pauses its job only when its own run is stored as failed.
THEOREM PausesOnlyOwnFailure == Spec => []PauseOnlyAfterOwnFailure
<1>1. Init => PauseOnlyAfterOwnFailure
  BY DEF Init, PauseOnlyAfterOwnFailure, NoExec
<1>2. TypeOK /\ References /\ PauseOnlyAfterOwnFailure /\ [Next]_vars
        => PauseOnlyAfterOwnFailure'
  <2> SUFFICES ASSUME TypeOK, References, PauseOnlyAfterOwnFailure, [Next]_vars,
                      NEW r \in Runs, exec'[r].pc \in Pausing
               PROVE  status'[r] \in {"failed", "deleted"}
    BY DEF PauseOnlyAfterOwnFailure, Pausing
  <2>1. exec[r].pc \in Pausing \/ status'[r] = "failed"
    BY ExecFrameStep DEF Framed, ExecFrame
  <2>2. ASSUME exec[r].pc \in Pausing PROVE status'[r] \in {"failed", "deleted"}
    <3>1. status[r] \in {"failed", "deleted"}
      BY <2>2 DEF PauseOnlyAfterOwnFailure, Pausing
    <3>2. CASE NoClaim
      BY <3>1, <3>2 DEF NoClaim, StatusMove, Active
    <3>3. ASSUME NEW m \in Managers, NEW s \in Runs, ClaimRun(m, s)
          PROVE  status'[r] \in {"failed", "deleted"}
      BY <3>1, <3>3, ClaimStep DEF TypeOK
    <3> QED
      BY <3>2, <3>3, NoClaimStep
  <2> QED
    BY <2>1, <2>2
<1> QED
  BY <1>1, <1>2, Grounded, PTL DEF Spec

LEMMA SeenStep ==
    ASSUME Anchored, SeenCheckpointIsStored, [Next]_vars
    PROVE  SeenCheckpointIsStored'
<1> USE DEF Anchored
<1> SUFFICES ASSUME NEW r \in Runs, exec'[r].pc \in Seeing, OwnsRunning(r)',
                    exec'[r].seen # ckpt'[info[r].job]
             PROVE  FALSE
  <2>1. ASSUME NEW m \in Managers, NEW s \in Runs, ClaimRun(m, s) PROVE info' = info
    BY <2>1, ClaimStep
  <2>2. ASSUME NoClaim, NEW r \in Runs, OwnsRunning(r)' PROVE info'[r] = info[r]
    BY <2>2 DEF NoClaim, OwnsRunning
  <2> QED
    BY <2>1, <2>2, NoClaimStep DEF SeenCheckpointIsStored, Seeing
<1>1. exec[r].pc \in Seeing /\ exec'[r].seen = exec[r].seen
  BY ExecFrameStep DEF Framed, ExecFrame
<1>2. OwnsRunning(r)
  <2>1. CASE NoClaim
    <3>1. status[r] = "running"
      BY <2>1 DEF NoClaim, StatusMove, OwnsRunning, Active, Terminal
    <3>2. owner'[r] = owner[r] /\ exec'[r].token = exec[r].token
      BY <2>1, <3>1 DEF NoClaim, OwnsRunning, Active
    <3> QED
      BY <3>1, <3>2 DEF OwnsRunning
  <2>2. ASSUME NEW m \in Managers, NEW s \in Runs, ClaimRun(m, s) PROVE OwnsRunning(r)
    <3>1. s # r
      BY <2>2, ClaimStep DEF Seeing
    <3> QED
      BY <2>2, <3>1, ClaimStep DEF OwnsRunning, TypeOK
  <2> QED
    BY <2>1, <2>2, NoClaimStep
<1>3. ckpt[info[r].job] = exec[r].seen
  BY <1>1, <1>2 DEF SeenCheckpointIsStored, Seeing
<1>4. ckpt' # ckpt
  BY <1>1, <1>3
<1>5. ASSUME NEW m \in Managers, NEW j \in Jobs, PurgeJob(m, j) \/ ResetCheckpoint(m, j)
      PROVE  FALSE
  <2>1. NoPending(j) /\ ckpt' = [ckpt EXCEPT ![j] = NoCheckpoint]
    BY <1>5 DEF PurgeJob, ResetCheckpoint
  <2>2. info[r].job # j
    BY <1>2, <2>1 DEF NoPending, RunsOf, OwnsRunning, Pending, Active
  <2> QED
    BY <1>1, <1>3, <2>1, <2>2 DEF TypeOK
<1>6. ASSUME NEW s \in Runs, SaveCheckpoint(s) \/ ClearCheckpoint(s) PROVE FALSE
  <2>1. \A j \in Jobs : ckpt'[j] # ckpt[j] => j = info[s].job /\ OwnsRunning(s)
    BY <1>6 DEF SaveCheckpoint, ClearCheckpoint, CheckpointGuard, TypeOK
  <2>2. info[r].job \in Jobs
    BY <1>2, InfoRecords DEF References, TypeOK, OwnsRunning
  <2>3. s = r
    BY <1>1, <1>2, <1>3, <2>1, <2>2 DEF OneActiveRunPerJob, OwnsRunning, Active
  <2>4. CASE SaveCheckpoint(s)
    <3>1. PICK cp : /\ ckpt' = [ckpt EXCEPT ![info[r].job] = cp]
                    /\ exec' = [exec EXCEPT ![r].seen = cp]
      BY <2>3, <2>4 DEF SaveCheckpoint
    <3>2. exec'[r].seen = cp
      BY <3>1 DEF TypeOK, Exec
    <3> QED
      BY <2>2, <3>1, <3>2 DEF TypeOK
  <2>5. CASE ClearCheckpoint(s)
    <3>1. [exec[r] EXCEPT !.result = "error"] \in Exec /\ exec[r] \in Exec
      BY ExecFields, Words DEF TypeOK
    <3>2. exec'[r].pc = "finish"
      BY <2>3, <2>5, <3>1, EndFrame DEF ClearCheckpoint, TypeOK
    <3> QED
      BY <3>2 DEF Seeing
  <2> QED
    BY <1>6, <2>4, <2>5
<1> QED
  BY <1>4, <1>5, <1>6, CheckpointWriters

\* While an execution owns its running row, the stored checkpoint is the one it
\* loaded or saved itself.
THEOREM SeenIsStored == Spec => []SeenCheckpointIsStored
<1>1. Init => SeenCheckpointIsStored
  BY DEF Init, SeenCheckpointIsStored, NoExec
<1>2. Anchored /\ SeenCheckpointIsStored /\ [Next]_vars => SeenCheckpointIsStored'
  BY SeenStep
<1> QED
  BY <1>1, <1>2, AnchoredAlways, PTL DEF Spec

-----------------------------------------------------------------------------
(* What inserting a run is held to.                                        *)

\* A row appears only through CreateRun, alone, and under MayInsert.
Inserted(r, j) ==
    /\ MayInsert(j) /\ job' = job
    /\ info'[r].job = j /\ status' = [status EXCEPT ![r] = "queued"]
    /\ \A s \in Runs \ {r} : info'[s] = info[s]

RowsMove == \/ \A r \in Runs : status[r] = "none" => status'[r] = "none"
            \/ \E r \in Runs, j \in Jobs : status[r] = "none" /\ Inserted(r, j)

LEMMA RowsStep ==
    ASSUME TypeOK, References, [Next]_vars
    PROVE  RowsMove
<1> USE SyncRunsAssumption DEF store, procs
<1> DEFINE Kept == \A r \in Runs : status[r] = "none" => status'[r] = "none"
<1>0. \A j \in Jobs : \A r \in RunsOf(j) : status[r] # "none"
  BY DEF References, RunsOf
<1>1. Kept => RowsMove
  BY DEF RowsMove
<1>2. ASSUME NEW S \in SUBSET Runs, CancelRuns(S) PROVE Kept
  BY <1>2 DEF CancelRuns, Active
<1>3. ASSUME NEW r \in Runs, status[r] # "none", NEW st, status' = [status EXCEPT ![r] = st]
      PROVE  Kept
  BY <1>3 DEF TypeOK
<1>4. ASSUME NEW m \in Managers, ApiStep(m) PROVE Kept
  <2>1. \/ status' = status
        \/ \E r \in Runs : CancelRun(m, r)
        \/ \E j \in Jobs : PurgeJob(m, j)
        \/ \E S \in SUBSET Runs : DeleteRuns(m, S)
    BY <1>4 DEF ApiStep, StartRun, ResumeRun, RetryRun, StopJob, PutJob, ResetCheckpoint,
                DeleteRun, ClearTerminalRuns, RunsOf
  <2>2. ASSUME NEW r \in Runs, CancelRun(m, r) PROVE Kept
    BY <1>2, <2>2 DEF CancelRun
  <2>3. ASSUME NEW j \in Jobs, PurgeJob(m, j) PROVE Kept
    BY <1>0, <2>3 DEF PurgeJob
  <2>4. ASSUME NEW S \in SUBSET Runs, DeleteRuns(m, S) PROVE Kept
    BY <2>4 DEF DeleteRuns, Terminal
  <2> QED
    BY <2>1, <2>2, <2>3, <2>4
<1>5. ASSUME NEW m \in Managers, NEW k \in Kinds, CallStep(m, k) PROVE RowsMove
  <2>1. CASE CheckLineage(m, k)
    BY <1>1, <2>1 DEF CheckLineage
  <2>2. CASE StopRuns(m)
    <3>1. RunsOf(call[<<m, "api">>].info.job) \in SUBSET Runs
      BY DEF RunsOf
    <3> QED
      BY <1>1, <1>2, <2>2, <3>1 DEF StopRuns
  <2>3. CASE CreateRun(m, k)
    <3>1. call[<<m, k>>].info.job \in Jobs
      BY <2>3 DEF CreateRun, References, Threads
    <3>2. \/ status' = status
          \/ /\ MayInsert(call[<<m, k>>].info.job) /\ job' = job
             /\ \E r \in Runs : /\ status[r] = "none"
                                /\ status' = [status EXCEPT ![r] = "queued"]
                                /\ info' = [info EXCEPT ![r] = call[<<m, k>>].info]
      BY <2>3 DEF CreateRun
    <3>3. ASSUME MayInsert(call[<<m, k>>].info.job), job' = job, NEW r \in Runs, status[r] = "none",
                 status' = [status EXCEPT ![r] = "queued"],
                 info' = [info EXCEPT ![r] = call[<<m, k>>].info]
          PROVE  Inserted(r, call[<<m, k>>].info.job)
      BY <3>3 DEF Inserted, TypeOK
    <3> QED
      BY <1>1, <3>1, <3>2, <3>3 DEF RowsMove
  <2> QED
    BY <1>5, <2>1, <2>2, <2>3 DEF CallStep
<1>6. ASSUME NEW m \in Managers, SchedStep(m) PROVE Kept
  BY <1>6 DEF SchedStep, StartRun, ResumeRun, InterruptStaleRuns, Stale, Active
<1>7. ASSUME NEW m \in Managers, NEW r \in Runs, ClaimRun(m, r) PROVE Kept
  BY <1>3, <1>7, ClaimStep
<1>8. ASSUME NEW r \in Runs, RunStep(r) PROVE Kept
  <2>1. CASE status' = status
    BY <2>1
  <2>2. ASSUME MayComplete(r), NEW st, NEW res, CompleteRun(r, st, res) PROVE Kept
    BY <1>3, <2>2 DEF CompleteRun, MayComplete, Owns, Active
  <2>3. CASE LaunchRefused(r)
    BY <2>1, <2>2, <2>3 DEF LaunchRefused, MayComplete
  <2>4. ASSUME NEW res \in BOOLEAN, Finish(r, res) PROVE Kept
    BY <2>1, <2>2, <2>4 DEF Finish
  <2>5. CASE StopOwnRuns(r)
    <3>1. RunsOf(info[r].job) \in SUBSET Runs
      BY DEF RunsOf
    <3> QED
      BY <1>2, <2>5, <3>1 DEF StopOwnRuns
  <2>6. \/ status' = status \/ LaunchRefused(r) \/ StopOwnRuns(r)
        \/ \E res \in BOOLEAN : Finish(r, res)
    BY <1>8 DEF RunStep, Launch, LoadCheckpoint, TouchBeforeExecution, HeartbeatRead,
                HeartbeatTouch, ClearCheckpoint, PauseOwnJob
  <2> QED
    BY <2>1, <2>3, <2>4, <2>5, <2>6
<1>9. ASSUME NEW r \in Runs, ExecutorStep(r) PROVE Kept
  BY <1>9 DEF ExecutorStep, ReportProgress, SaveCheckpoint, ExecutorReturns
<1>10. ASSUME NEW m \in Managers, Shutdown(m) \/ Exit(m) \/ Crash(m) \/ Restart(m) PROVE Kept
  BY <1>10 DEF Shutdown, Exit, Crash, Restart, Dies
<1>11. CASE Tick
  BY <1>1, <1>11 DEF Tick
<1>12. CASE UNCHANGED vars
  BY <1>1, <1>12 DEF vars
<1> HIDE DEF Kept
<1>13. ASSUME Next PROVE RowsMove
  BY <1>13, <1>1, <1>4, <1>5, <1>6, <1>7, <1>8, <1>9, <1>10, <1>11 DEF Next
<1> QED
  BY <1>1, <1>12, <1>13

\* A job with ConcurrencyPolicy "forbid" never has two pending runs.
THEOREM ForbidIsExclusive == Spec => []ForbidAllowsOnePendingRun
<1>1. Init => ForbidAllowsOnePendingRun
  BY DEF Init, ForbidAllowsOnePendingRun, Pending, Active
<1>2. ASSUME TypeOK, References, ForbidAllowsOnePendingRun, [Next]_vars
      PROVE  ForbidAllowsOnePendingRun'
  <2>1. ASSUME NEW r \in Runs, status[r] # "none", status'[r] \in Pending
        PROVE  status[r] \in Pending /\ info'[r] = info[r]
    <3>1. CASE NoClaim
      BY <2>1, <3>1 DEF NoClaim, StatusMove, Pending, Active, Terminal
    <3>2. ASSUME NEW m \in Managers, NEW s \in Runs, ClaimRun(m, s)
          PROVE  status[r] \in Pending /\ info'[r] = info[r]
      <4>1. info' = info /\ status[s] = "queued" /\ status' = [status EXCEPT ![s] = "running"]
        BY <1>2, <3>2, ClaimStep
      <4>2. r # s => status'[r] = status[r]
        BY <1>2, <4>1 DEF TypeOK
      <4> QED
        BY <2>1, <4>1, <4>2 DEF Pending
    <3> QED
      BY <1>2, <3>1, <3>2, NoClaimStep
  <2>2. CASE \A r \in Runs : status[r] = "none" => status'[r] = "none"
    <3>1. \A r \in Runs : status'[r] \in Pending => status[r] \in Pending /\ info'[r] = info[r]
      BY <2>1, <2>2 DEF Pending, Active
    <3> QED
      BY <1>2, <3>1 DEF ForbidAllowsOnePendingRun, Pending, Active
  <2>3. ASSUME NEW r \in Runs, NEW j \in Jobs, status[r] = "none", Inserted(r, j)
        PROVE  ForbidAllowsOnePendingRun'
    <3>1. \A s \in Runs \ {r} : status'[s] = status[s] /\ info'[s] = info[s]
      BY <1>2, <2>3 DEF Inserted, TypeOK
    <3>2. j \in Forbid => \A s \in Runs : info[s].job = j => status[s] \notin Pending
      BY <2>3 DEF Inserted, MayInsert, NoPending, RunsOf
    <3>3. info'[r].job = j
      BY <2>3 DEF Inserted
    <3> QED
      BY <1>2, <3>1, <3>2, <3>3 DEF ForbidAllowsOnePendingRun, Pending, Active
  <2> QED
    BY <1>2, <2>2, <2>3, RowsStep DEF RowsMove
<1> QED
  BY <1>1, <1>2, Grounded, PTL DEF Spec

\* Only PurgeJob takes a job away.
LEMMA GoneByPurge ==
    ASSUME TypeOK, References, [Next]_vars,
           NEW j \in Jobs, job[j].lc # "gone", job'[j].lc = "gone"
    PROVE  \E m \in Managers : PurgeJob(m, j)
<1> USE DEF store, procs
<1>1. job' # job
  OBVIOUS
<1>2. ASSUME NEW i \in Jobs, NEW lc, lc # "gone", job' = [job EXCEPT ![i].lc = lc] PROVE FALSE
  BY <1>2 DEF TypeOK
<1>3. ASSUME NEW m \in Managers, ApiStep(m) PROVE PurgeJob(m, j)
  <2>1. \/ \E i \in Jobs, lc \in {"paused", "archived"} : StopJob(m, i, lc)
        \/ \E i \in Jobs, p \in 1..MaxPlan : PutJob(m, i, p)
        \/ \E i \in Jobs : PurgeJob(m, i)
    BY <1>1, <1>3 DEF ApiStep, StartRun, ResumeRun, RetryRun, CancelRun, ResetCheckpoint,
                      DeleteRun, ClearTerminalRuns, DeleteRuns
  <2>2. ASSUME NEW i \in Jobs, NEW lc \in {"paused", "archived"}, StopJob(m, i, lc) PROVE FALSE
    BY <1>2, <2>2 DEF StopJob
  <2>3. ASSUME NEW i \in Jobs, NEW p \in 1..MaxPlan, PutJob(m, i, p) PROVE FALSE
    BY <2>3 DEF PutJob, TypeOK
  <2>4. ASSUME NEW i \in Jobs, PurgeJob(m, i) PROVE i = j
    BY <2>4 DEF PurgeJob, TypeOK
  <2> QED
    BY <2>1, <2>2, <2>3, <2>4
<1>4. ASSUME NEW m \in Managers, NEW k \in Kinds, CallStep(m, k) PROVE FALSE
  BY <1>1, <1>4 DEF CallStep, CheckLineage, CreateRun, StopRuns
<1>5. ASSUME NEW m \in Managers, SchedStep(m) PROVE FALSE
  BY <1>1, <1>5 DEF SchedStep, StartRun, ResumeRun, InterruptStaleRuns
<1>6. ASSUME NEW m \in Managers, NEW r \in Runs, ClaimRun(m, r) PROVE FALSE
  BY <1>1, <1>6 DEF ClaimRun
<1>7. ASSUME NEW r \in Runs, RunStep(r) PROVE FALSE
  <2>1. PauseOwnJob(r)
    BY <1>1, <1>7 DEF RunStep, Launch, LaunchRefused, LoadCheckpoint, TouchBeforeExecution,
                      HeartbeatRead, HeartbeatTouch, ClearCheckpoint, Finish, StopOwnRuns
  <2>2. info[r].job \in Jobs
    BY <2>1, InfoRecords DEF PauseOwnJob, References, TypeOK
  <2> QED
    BY <1>1, <1>2, <2>1, <2>2 DEF PauseOwnJob
<1>8. ASSUME NEW r \in Runs, ExecutorStep(r) PROVE FALSE
  BY <1>1, <1>8 DEF ExecutorStep, ReportProgress, SaveCheckpoint, ExecutorReturns
<1>9. ASSUME NEW m \in Managers, Shutdown(m) \/ Exit(m) \/ Crash(m) \/ Restart(m) PROVE FALSE
  BY <1>1, <1>9 DEF Shutdown, Exit, Crash, Restart, Dies
<1>10. ~Tick /\ ~UNCHANGED vars
  BY <1>1 DEF Tick, vars
<1> QED
  BY <1>3, <1>4, <1>5, <1>6, <1>7, <1>8, <1>9, <1>10 DEF Next

\* A purged job leaves no run and no checkpoint, and nothing brings them back.
THEOREM PurgeIsFinal == Spec => []PurgedJobLeavesNothing
<1>1. Init => PurgedJobLeavesNothing
  BY DEF Init, PurgedJobLeavesNothing
<1>2. ASSUME TypeOK, References, PurgedJobLeavesNothing, [Next]_vars
      PROVE  PurgedJobLeavesNothing'
  <2> SUFFICES ASSUME NEW j \in Jobs, job'[j].lc = "gone"
               PROVE  /\ \A r \in Runs : info'[r].job = j => status'[r] = "deleted"
                      /\ ckpt'[j] = NoCheckpoint
    BY DEF PurgedJobLeavesNothing, RunsOf
  <2>1. ASSUME NEW m \in Managers, PurgeJob(m, j)
        PROVE  /\ \A r \in Runs : info'[r].job = j => status'[r] = "deleted"
               /\ ckpt'[j] = NoCheckpoint
    BY <1>2, <2>1 DEF PurgeJob, RunsOf, TypeOK
  <2>2. CASE job[j].lc = "gone"
    <3>1. \A r \in Runs : info[r].job = j => status[r] = "deleted"
      BY <1>2, <2>2 DEF PurgedJobLeavesNothing, RunsOf
    <3>2. ASSUME NEW r \in Runs, info'[r].job = j PROVE info[r].job = j
      <4>1. CASE status[r] = "none"
        <5>1. status'[r] # "none"
          BY <1>2, <3>2, ReferencesStep, SyncRunsAssumption DEF References
        <5>2. PICK s \in Runs, i \in Jobs : Inserted(s, i)
          BY <1>2, <4>1, <5>1, RowsStep DEF RowsMove
        <5>3. i # j
          BY <2>2, <5>2 DEF Inserted, MayInsert
        <5> QED
          BY <3>2, <5>2, <5>3 DEF Inserted
      <4>2. CASE status[r] # "none"
        <5>1. CASE NoClaim
          BY <3>2, <4>2, <5>1 DEF NoClaim
        <5>2. ASSUME NEW m \in Managers, NEW s \in Runs, ClaimRun(m, s) PROVE info' = info
          BY <1>2, <5>2, ClaimStep
        <5> QED
          BY <1>2, <3>2, <5>1, <5>2, NoClaimStep
      <4> QED
        BY <4>1, <4>2
    <3>3. ASSUME NEW r \in Runs, status[r] = "deleted" PROVE status'[r] = "deleted"
      <4>1. CASE NoClaim
        BY <3>3, <4>1 DEF NoClaim, StatusMove, Active, Terminal
      <4>2. ASSUME NEW m \in Managers, NEW s \in Runs, ClaimRun(m, s) PROVE status'[r] = "deleted"
        BY <1>2, <3>3, <4>2, ClaimStep DEF TypeOK
      <4> QED
        BY <1>2, <4>1, <4>2, NoClaimStep
    <3>4. ckpt[j] = NoCheckpoint
      BY <1>2, <2>2 DEF PurgedJobLeavesNothing
    <3>5. ASSUME NEW m \in Managers, NEW i \in Jobs, PurgeJob(m, i) \/ ResetCheckpoint(m, i)
          PROVE  ckpt'[j] = NoCheckpoint
      BY <1>2, <3>4, <3>5 DEF PurgeJob, ResetCheckpoint, TypeOK
    <3>6. ASSUME NEW r \in Runs, SaveCheckpoint(r) \/ ClearCheckpoint(r)
          PROVE  ckpt'[j] = NoCheckpoint
      <4>1. ckpt'[j] # ckpt[j] => j = info[r].job /\ OwnsRunning(r)
        BY <1>2, <3>6 DEF SaveCheckpoint, ClearCheckpoint, CheckpointGuard, TypeOK
      <4> QED
        BY <3>1, <3>4, <4>1 DEF OwnsRunning
    <3>7. ckpt'[j] = NoCheckpoint
      BY <1>2, <3>4, <3>5, <3>6, CheckpointWriters
    <3> QED
      BY <3>1, <3>2, <3>3, <3>7
  <2> QED
    BY <1>2, <2>1, <2>2, GoneByPurge
<1> QED
  BY <1>1, <1>2, Grounded, PTL DEF Spec

-----------------------------------------------------------------------------
(* Recovery and cancellation.                                              *)

\* Recovery never puts a run somebody asked to cancel on its list of runs to resume.
THEOREM AutoResumeIsHarmless == Spec => AutoResumeRespectsCancel
<1> DEFINE Respects == \A m \in Managers : \A r \in todo'[m] \ todo[m] : status[r] # "cancelling"
<1>1. TypeOK /\ [Next]_vars => Respects
  <2> SUFFICES ASSUME TypeOK, [Next]_vars PROVE Respects
    OBVIOUS
  <2> USE DEF store, procs
  <2>1. CASE todo' = todo
    BY <2>1
  <2>2. ASSUME NEW m \in Managers, NEW S, S \subseteq todo[m], todo' = [todo EXCEPT ![m] = S]
        PROVE  Respects
    BY <2>2 DEF TypeOK
  <2>3. ASSUME NEW m \in Managers, NEW k \in Kinds, NEW r \in Runs, ResumeRun(m, k, r)
        PROVE  Respects
    BY <2>1, <2>2, <2>3 DEF ResumeRun
  <2>4. ASSUME NEW m \in Managers, ApiStep(m) PROVE Respects
    <3>1. todo' = todo \/ \E r \in Runs : ResumeRun(m, "api", r)
      BY <2>4 DEF ApiStep, StartRun, RetryRun, CancelRun, StopJob, PutJob, PurgeJob,
                  ResetCheckpoint, DeleteRun, ClearTerminalRuns, DeleteRuns
    <3> QED
      BY <2>1, <2>3, <3>1 DEF Kinds
  <2>5. ASSUME NEW m \in Managers, NEW k \in Kinds, CallStep(m, k) PROVE Respects
    BY <2>1, <2>5 DEF CallStep, CheckLineage, CreateRun, StopRuns
  <2>6. ASSUME NEW m \in Managers, InterruptStaleRuns(m) PROVE Respects
    BY <2>6 DEF InterruptStaleRuns, RecoveredStatus, TypeOK
  <2>7. ASSUME NEW m \in Managers, SchedStep(m) PROVE Respects
    <3>1. todo' = todo \/ (\E r \in Runs : ResumeRun(m, "sched", r)) \/ InterruptStaleRuns(m)
      BY <2>7 DEF SchedStep, StartRun
    <3> QED
      BY <2>1, <2>3, <2>6, <3>1 DEF Kinds
  <2>8. ASSUME NEW m \in Managers, NEW r \in Runs, ClaimRun(m, r) PROVE Respects
    BY <2>1, <2>8 DEF ClaimRun
  <2>9. ASSUME NEW r \in Runs, RunStep(r) PROVE Respects
    BY <2>1, <2>9 DEF RunStep, Launch, LaunchRefused, LoadCheckpoint, TouchBeforeExecution,
                      HeartbeatRead, HeartbeatTouch, ClearCheckpoint, Finish, PauseOwnJob,
                      StopOwnRuns
  <2>10. ASSUME NEW r \in Runs, ExecutorStep(r) PROVE Respects
    BY <2>1, <2>10 DEF ExecutorStep, ReportProgress, SaveCheckpoint, ExecutorReturns
  <2>11. ASSUME NEW m \in Managers, Shutdown(m) \/ Exit(m) \/ Crash(m) \/ Restart(m)
         PROVE  Respects
    BY <2>1, <2>2, <2>11 DEF Shutdown, Exit, Crash, Restart, Dies
  <2>12. CASE Tick
    BY <2>1, <2>12 DEF Tick
  <2>13. CASE UNCHANGED vars
    BY <2>1, <2>13 DEF vars
  <2> HIDE DEF Respects
  <2> QED
    BY <2>4, <2>5, <2>7, <2>8, <2>9, <2>10, <2>11, <2>12, <2>13 DEF Next
<1>2. TypeOK /\ [Next]_vars => [Respects]_vars
  BY <1>1
<1> HIDE DEF Respects
<1>3. Spec => [][Respects]_vars
  BY <1>2, TypeCorrect, PTL DEF Spec
<1> QED
  BY <1>3 DEF AutoResumeRespectsCancel, Respects
=============================================================================
