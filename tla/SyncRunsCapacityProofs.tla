----------------------- MODULE SyncRunsCapacityProofs -----------------------
(***************************************************************************)
(* The capacity of a manager, for any number of runs: its active map is    *)
(* finite because it starts empty and every launch adds one execution.     *)
(***************************************************************************)
EXTENDS SyncRunsProofs, FiniteSetTheorems

-----------------------------------------------------------------------------
(* What a step other than a claim or a launch does to an execution.        *)

\* It ends, or stays where its manager counts it.
Stays(r) ==
    \/ exec'[r].pc = "done"
    \/ /\ exec'[r].host = exec[r].host
       /\ exec'[r].pc = exec[r].pc \/ {exec[r].pc, exec'[r].pc} \subseteq InActiveMap

AllStay == \A r \in Runs : Stays(r)

(***************************************************************************)
(* The host and place of an execution that is cancelled, goes to its end   *)
(* or has ended.                                                           *)
(***************************************************************************)
LEMMA PlacesOf ==
    ASSUME NEW e \in Exec
    PROVE  /\ \A why : Cancelled(e, why).pc = e.pc /\ Cancelled(e, why).host = e.host
           /\ ToFinish(e).pc = "finish" /\ ToFinish(e).host = e.host
           /\ Ended(e).pc = "done"
           /\ \A h : /\ [Ended(e) EXCEPT !.pc = "pause", !.host = h].pc = "pause"
                     /\ [Ended(e) EXCEPT !.pc = "pause", !.host = h].host = h
  BY DEF Exec, Cancelled, ToFinish, Ended, NoExec

(***************************************************************************)
(* Only a claim makes an execution, and only a launch puts it into the     *)
(* active map (dispatchQueued, launch).                                    *)
(***************************************************************************)
LEMMA PlaceStep ==
    ASSUME TypeOK, References, [Next]_vars
    PROVE  \/ AllStay
           \/ \E r \in Runs : Launch(r)
           \/ \E m \in Managers, r \in Runs : ClaimRun(m, r)
<1> USE DEF AllStay, Stays, InActiveMap, procs
<1>0. \A r \in Runs : exec[r] \in Exec
  BY DEF TypeOK
<1>1. ASSUME \A r \in Runs : exec'[r] = exec[r] PROVE AllStay
  BY <1>1
<1>2. ASSUME \A r \in Runs : \/ exec'[r] = exec[r]
                             \/ \E why : exec'[r] = Cancelled(exec[r], why)
                             \/ exec'[r] = Ended(exec[r])
      PROVE  AllStay
  BY <1>0, <1>2, PlacesOf
<1>3. ASSUME NEW m \in Managers, ApiStep(m) PROVE AllStay
  <2>1. exec' = exec \/ \E r \in Runs : CancelRun(m, r)
    BY <1>3 DEF ApiStep, StartRun, ResumeRun, RetryRun, StopJob, PutJob, PurgeJob,
                ResetCheckpoint, DeleteRun, ClearTerminalRuns, DeleteRuns
  <2>2. ASSUME NEW r \in Runs, CancelRun(m, r) PROVE AllStay
    BY <1>2, <2>2 DEF CancelRun, CancelLocal
  <2> QED
    BY <1>1, <2>1, <2>2
<1>4. ASSUME NEW m \in Managers, NEW k \in Kinds, CallStep(m, k) PROVE AllStay
  <2>1. exec' = exec \/ StopRuns(m)
    BY <1>4 DEF CallStep, CheckLineage, CreateRun
  <2>2. CASE StopRuns(m)
    BY <1>2, <2>2 DEF StopRuns, CancelLocal
  <2> QED
    BY <1>1, <2>1, <2>2
<1>5. ASSUME NEW m \in Managers, SchedStep(m) PROVE AllStay
  BY <1>1, <1>5 DEF SchedStep, StartRun, ResumeRun, InterruptStaleRuns
<1>6. ASSUME NEW m \in Managers, Shutdown(m) \/ Exit(m) \/ Crash(m) \/ Restart(m) PROVE AllStay
  BY <1>2, <1>6 DEF Shutdown, Exit, Crash, Restart, Dies
<1>7. CASE Tick \/ UNCHANGED vars
  BY <1>1, <1>7 DEF Tick, vars
<1>8. ASSUME NEW r \in Runs, \A s \in Runs \ {r} : exec'[s] = exec[s], Stays(r) PROVE AllStay
  BY <1>8
<1>9. ASSUME NEW r \in Runs, LaunchRefused(r) PROVE AllStay
  BY <1>2, <1>9 DEF LaunchRefused, TypeOK
<1>10. ASSUME NEW r \in Runs, LoadCheckpoint(r) PROVE AllStay
  <2>1. exec[r].pc = "start" /\ exec'[r].pc \in {"finish", "touch"} /\ exec'[r].host = exec[r].host
    BY <1>0, <1>10, PlacesOf DEF LoadCheckpoint, TypeOK, Exec
  <2>2. \A s \in Runs \ {r} : exec'[s] = exec[s]
    BY <1>10 DEF LoadCheckpoint, TypeOK
  <2> QED
    BY <2>1, <2>2, <1>8
<1>11. ASSUME NEW r \in Runs, TouchBeforeExecution(r) PROVE AllStay
  <2>1. Cancelled(exec[r], "lost") \in Exec
    BY <1>0, ExecRecords, Words
  <2>2. exec[r].pc = "touch" /\ exec'[r].pc \in {"finish", "run"} /\ exec'[r].host = exec[r].host
    BY <1>0, <1>11, <2>1, PlacesOf DEF TouchBeforeExecution, TypeOK, Exec
  <2>3. \A s \in Runs \ {r} : exec'[s] = exec[s]
    BY <1>11 DEF TouchBeforeExecution, TypeOK
  <2> QED
    BY <2>2, <2>3, <1>8
<1>12. ASSUME NEW r \in Runs, HeartbeatRead(r) PROVE AllStay
  BY <1>12 DEF HeartbeatRead, TypeOK, Exec
<1>13. ASSUME NEW r \in Runs, HeartbeatTouch(r) PROVE AllStay
  <2>1. Cancelled(exec[r], "lost") \in Exec
    BY <1>0, ExecRecords, Words
  <2>2. /\ [Cancelled(exec[r], "lost") EXCEPT !.beat = FALSE].pc = exec[r].pc
        /\ [Cancelled(exec[r], "lost") EXCEPT !.beat = FALSE].host = exec[r].host
    BY <1>0, <2>1, PlacesOf DEF Exec
  <2>3. exec'[r].pc = exec[r].pc /\ exec'[r].host = exec[r].host
    <3>1. CASE Owns(r)
      BY <1>0, <1>13, <3>1 DEF HeartbeatTouch, TypeOK, Exec
    <3>2. CASE ~Owns(r)
      BY <1>13, <2>2, <3>2 DEF HeartbeatTouch, TypeOK
    <3> QED
      BY <3>1, <3>2
  <2>4. \A s \in Runs \ {r} : exec'[s] = exec[s]
    BY <1>13 DEF HeartbeatTouch, TypeOK
  <2> QED
    BY <2>3, <2>4, <1>8
<1>14. ASSUME NEW r \in Runs, ClearCheckpoint(r) PROVE AllStay
  <2>1. /\ [exec[r] EXCEPT !.result = "error"] \in Exec
        /\ [exec[r] EXCEPT !.result = "error"].host = exec[r].host
    BY <1>0, ExecFields, Words DEF Exec
  <2>2. exec[r].pc = "returned" /\ exec'[r].pc = "finish" /\ exec'[r].host = exec[r].host
    BY <1>0, <1>14, <2>1, PlacesOf DEF ClearCheckpoint, TypeOK
  <2>3. \A s \in Runs \ {r} : exec'[s] = exec[s]
    BY <1>14 DEF ClearCheckpoint, TypeOK
  <2> QED
    BY <2>2, <2>3, <1>8
<1>15. ASSUME NEW r \in Runs, NEW res \in BOOLEAN, Finish(r, res) PROVE AllStay
  <2>1. /\ exec[r].pc = "finish"
        /\ exec'[r].pc = "done" \/ (exec'[r].pc = "pause" /\ exec'[r].host = exec[r].host)
    BY <1>0, <1>15, PlacesOf DEF Finish, TypeOK
  <2>2. \A s \in Runs \ {r} : exec'[s] = exec[s]
    BY <1>15 DEF Finish, TypeOK
  <2> QED
    BY <2>1, <2>2, <1>8
<1>16. ASSUME NEW r \in Runs, PauseOwnJob(r) PROVE AllStay
  <2>1. /\ exec[r].pc = "pause"
        /\ exec'[r].pc = "done" \/ (exec'[r].pc = "stop" /\ exec'[r].host = exec[r].host)
    BY <1>0, <1>16, PlacesOf DEF PauseOwnJob, TypeOK, Exec
  <2>2. \A s \in Runs \ {r} : exec'[s] = exec[s]
    BY <1>16 DEF PauseOwnJob, TypeOK
  <2> QED
    BY <2>1, <2>2, <1>8
<1>17. ASSUME NEW r \in Runs, StopOwnRuns(r) PROVE AllStay
  BY <1>2, <1>17 DEF StopOwnRuns
<1>18. ASSUME NEW r \in Runs, ReportProgress(r) PROVE AllStay
  BY <1>1, <1>18 DEF ReportProgress
<1>19. ASSUME NEW r \in Runs, SaveCheckpoint(r) PROVE AllStay
  <2>1. PICK cp : exec' = [exec EXCEPT ![r].seen = cp]
    BY <1>19 DEF SaveCheckpoint
  <2>2. exec'[r].host = exec[r].host /\ exec'[r].pc = exec[r].pc
    BY <1>0, <2>1 DEF TypeOK, Exec
  <2>3. \A s \in Runs \ {r} : exec'[s] = exec[s]
    BY <2>1 DEF TypeOK
  <2> QED
    BY <2>2, <2>3, <1>8
<1>20. ASSUME NEW r \in Runs, NEW res \in Results, ExecutorReturns(r, res) PROVE AllStay
  <2> DEFINE e == [exec[r] EXCEPT !.result = res]
  <2>1. e \in Exec /\ e.pc = exec[r].pc /\ e.host = exec[r].host
    BY <1>0, ExecFields DEF Exec
  <2>2. exec[r].pc = "run" /\ exec'[r] \in {[e EXCEPT !.pc = "returned"], ToFinish(e)}
    BY <1>20, <2>1 DEF ExecutorReturns, TypeOK
  <2>3. \A s \in Runs \ {r} : exec'[s] = exec[s]
    BY <1>20 DEF ExecutorReturns, TypeOK
  <2> HIDE DEF e
  <2>4. [e EXCEPT !.pc = "returned"].host = e.host /\ [e EXCEPT !.pc = "returned"].pc = "returned"
    BY <2>1 DEF Exec
  <2>5. exec'[r].pc \in {"finish", "returned"} /\ exec'[r].host = exec[r].host
    BY <2>1, <2>2, <2>4, PlacesOf
  <2> QED
    BY <2>2, <2>3, <2>5, <1>8
<1> HIDE DEF AllStay, Stays
<1>21. ASSUME NEW r \in Runs, RunStep(r) PROVE AllStay \/ Launch(r)
  BY <1>21, <1>9, <1>10, <1>11, <1>12, <1>13, <1>14, <1>15, <1>16, <1>17 DEF RunStep
<1>22. ASSUME NEW r \in Runs, ExecutorStep(r) PROVE AllStay
  BY <1>22, <1>18, <1>19, <1>20 DEF ExecutorStep
<1> QED
  BY <1>3, <1>4, <1>5, <1>6, <1>7, <1>21, <1>22 DEF Next

-----------------------------------------------------------------------------
(* The invariant: there is room for what has been claimed, once.           *)

Claimed(m) == {r \in Hosted(m) : exec[r].pc = "claimed"}

Roomy(m) ==
    /\ IsFiniteSet(ActiveMap(m)) /\ Cardinality(ActiveMap(m)) <= MaxConcurrentRuns
    /\ Claimed(m) # {} => Cardinality(ActiveMap(m)) < MaxConcurrentRuns
    /\ \A r, s \in Claimed(m) : r = s

(***************************************************************************)
(* A map that does not grow stays within its capacity.                     *)
(***************************************************************************)
LEMMA NoGrowth ==
    ASSUME NEW m \in Managers, Roomy(m),
           ActiveMap(m)' \subseteq ActiveMap(m), Claimed(m)' \subseteq Claimed(m)
    PROVE  Roomy(m)'
<1>1. /\ IsFiniteSet(ActiveMap(m)')
      /\ Cardinality(ActiveMap(m)') <= Cardinality(ActiveMap(m))
      /\ Cardinality(ActiveMap(m)) \in Nat /\ Cardinality(ActiveMap(m)') \in Nat
  BY FS_Subset, FS_CardinalityType DEF Roomy
<1> QED
  BY <1>1, SyncRunsAssumption DEF Roomy

(***************************************************************************)
(* Every step leaves room: a claim finds room and no other claim, and its  *)
(* launch is what fills it.                                                *)
(***************************************************************************)
LEMMA RoomyStep ==
    ASSUME TypeOK, References, [Next]_vars, NEW m \in Managers, Roomy(m)
    PROVE  Roomy(m)'
<1>1. CASE AllStay
  <2>1. ActiveMap(m)' \subseteq ActiveMap(m)
    BY <1>1 DEF AllStay, Stays, ActiveMap, Hosted, InActiveMap
  <2>2. Claimed(m)' \subseteq Claimed(m)
    BY <1>1 DEF AllStay, Stays, Claimed, Hosted, InActiveMap
  <2> QED
    BY <2>1, <2>2, NoGrowth
<1>2. ASSUME NEW r \in Runs, Launch(r)
      PROVE  Roomy(m)'
  <2>1. /\ exec[r].pc = "claimed" /\ exec'[r].pc = "start" /\ exec'[r].host = exec[r].host
        /\ \A s \in Runs \ {r} : exec'[s] = exec[s]
    BY <1>2 DEF Launch, TypeOK, Exec
  <2>2. CASE exec[r].host # m
    BY <2>1, <2>2, NoGrowth DEF ActiveMap, Claimed, Hosted
  <2>3. CASE exec[r].host = m
    <3>1. /\ r \in Claimed(m) /\ Claimed(m)' = Claimed(m) \ {r}
          /\ ActiveMap(m)' = ActiveMap(m) \cup {r}
      BY <2>1, <2>3 DEF ActiveMap, Claimed, Hosted, InActiveMap
    <3>2. /\ IsFiniteSet(ActiveMap(m)')
          /\ Cardinality(ActiveMap(m)') <= Cardinality(ActiveMap(m)) + 1
          /\ Cardinality(ActiveMap(m)) \in Nat /\ Cardinality(ActiveMap(m)') \in Nat
      <4> DEFINE A == ActiveMap(m)
                 B == ActiveMap(m)'
      <4>1. IsFiniteSet(A) /\ B = A \cup {r}
        BY <3>1 DEF Roomy
      <4> HIDE DEF A, B
      <4>2. /\ IsFiniteSet(B)
            /\ Cardinality(B) = IF r \in A THEN Cardinality(A) ELSE Cardinality(A) + 1
        BY <4>1, FS_AddElement
      <4>3. Cardinality(A) \in Nat /\ Cardinality(B) \in Nat
        BY <4>1, <4>2, FS_CardinalityType
      <4>4. IsFiniteSet(B) /\ Cardinality(B) <= Cardinality(A) + 1
        BY <4>2, <4>3
      <4> QED
        BY <4>3, <4>4 DEF A, B
    <3>3. Cardinality(ActiveMap(m)) < MaxConcurrentRuns /\ Claimed(m)' = {}
      BY <3>1 DEF Roomy
    <3> QED
      BY <3>2, <3>3, SyncRunsAssumption DEF Roomy
  <2> QED
    BY <2>2, <2>3
<1>3. ASSUME NEW n \in Managers, NEW r \in Runs, ClaimRun(n, r)
      PROVE  Roomy(m)'
  <2>1. /\ exec'[r].pc = "claimed" /\ exec'[r].host = n
        /\ \A s \in Runs \ {r} : exec'[s] = exec[s]
    BY <1>3, ClaimStep
  <2>2. ActiveMap(m)' \subseteq ActiveMap(m)
    BY <2>1 DEF ActiveMap, Hosted, InActiveMap
  <2>3. CASE n # m
    BY <2>1, <2>2, <2>3, NoGrowth DEF Claimed, Hosted
  <2>4. CASE n = m
    <3>1. Cardinality(ActiveMap(m)) < MaxConcurrentRuns /\ Claimed(m) = {}
      BY <1>3, <2>4 DEF ClaimRun, HasDispatchCapacity, Claimed
    <3>2. Claimed(m)' \subseteq {r}
      BY <2>1, <3>1 DEF Claimed, Hosted
    <3>3. /\ IsFiniteSet(ActiveMap(m)')
          /\ Cardinality(ActiveMap(m)') <= Cardinality(ActiveMap(m))
          /\ Cardinality(ActiveMap(m)) \in Nat /\ Cardinality(ActiveMap(m)') \in Nat
      BY <2>2, FS_Subset, FS_CardinalityType DEF Roomy
    <3> QED
      BY <3>1, <3>2, <3>3, SyncRunsAssumption DEF Roomy
  <2> QED
    BY <2>3, <2>4
<1> QED
  BY <1>1, <1>2, <1>3, PlaceStep

(***************************************************************************)
(* A manager never runs more executions than MaxConcurrentRuns, those that *)
(* lost their run to recovery included, and what it has claimed still      *)
(* finds room when it is launched (dispatchQueued).                        *)
(***************************************************************************)
THEOREM CapacityIsKept == Spec => []WithinCapacity
<1> DEFINE Room == \A m \in Managers : Roomy(m)
<1>1. Init => Room
  <2>1. ASSUME Init, NEW m \in Managers PROVE ActiveMap(m) = {} /\ Claimed(m) = {}
    BY <2>1 DEF Init, ActiveMap, Claimed, Hosted, NoExec
  <2> QED
    BY <2>1, FS_EmptySet, SyncRunsAssumption DEF Roomy
<1>2. TypeOK /\ References /\ Room /\ [Next]_vars => Room'
  BY RoomyStep
<1>3. Room => WithinCapacity
  BY DEF Roomy, WithinCapacity, Claimed
<1> HIDE DEF Room
<1> QED
  BY <1>1, <1>2, <1>3, Grounded, PTL DEF Spec
=============================================================================
