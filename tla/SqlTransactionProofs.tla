------------------------ MODULE SqlTransactionProofs ------------------------
(***************************************************************************)
(* Proofs about SqlTransaction, for any number of runs and reloads.        *)
(*                                                                         *)
(* The inductive invariant Inv says which runs the editor's state names    *)
(* (Named), that a run about to open a transaction finds none pending      *)
(* (OneManaged), where a query is when its transaction is in which state   *)
(* (Calls), that a commit is the last the editor does with a transaction   *)
(* (CommitIsLast), and that a released transaction is out of its reach     *)
(* (OutOfReach).                                                           *)
(***************************************************************************)
EXTENDS SqlTransaction, TLAPS

Done(t) == run[t].pc = "done"
Shown(t) == pending # None /\ pending.id = t

\* What the editor shows or asks about was named by the answer to a finished run.
Named ==
    /\ pending # None => Done(pending.id)
    /\ dialog # None => Done(dialog.of.id)

\* An automatic commit that asks has spent its timer.
AskingSpentTimer == dialog # None /\ dialog.source = "auto" /\ StillPending(dialog) => timer = None

OneManaged ==
    \A r \in Runs :
        run[r].kind = "write" /\ run[r].pc \in {"ready", "rpc"} /\ current = r => pending = None

\* A query and the transaction it opens, or reads in.
Opening(r) ==
    /\ rpc[r].at # "none" => run[r].pc \in {"rpc", "done"} /\ run[r].in \in Runs
    /\ run[r].kind = "read" \/ rpc[r].at \in {"none", "called"} => tx[r] = "none"
    /\ rpc[r].at = "executing" /\ run[r].kind = "write" => tx[r] = "open"
    /\ rpc[r].at = "executed" => run[r].kind = "write" /\ tx[r] = "open"
Reading(r) ==
    /\ rpc[r].at = "waiting" => run[r].kind = "read"
    /\ rpc[r].at \in {"waiting", "executing"} /\ run[r].kind = "read" => tx[run[r].in] \notin {"none", "open"}
    /\ rpc[r].at = "executing" /\ run[r].kind = "read" =>
           mu[run[r].in] = r /\ tx[run[r].in] \notin Ended
Calls == \A r \in Runs : Opening(r) /\ Reading(r)

CommitIsLast ==
    \A t \in Runs : "commit" \in req[t] \/ tx[t] \in {"commit", "committed"} => Done(t) /\ ~Shown(t)

OutOfReach(t) ==
    \/ tx[t] \in {"rollback", "rolledback", "unknown"}
    \/ /\ "commit" \notin req[t] /\ tx[t] \notin {"commit", "committed"}
       /\ ~Shown(t)
       /\ Done(t) \/ (run[t].pc = "rpc" /\ ~mounted)
ReleasedOutOfReach == \A t \in released : OutOfReach(t)

Inv ==
    /\ TypeOK
    /\ Named /\ TimerOfPending /\ AskingSpentTimer /\ OneManaged
    /\ Calls /\ CommitIsLast /\ ReleasedOutOfReach

\* The two action properties, of one step.
KeepsShown == pending # None /\ pending' # None => pending'.id = pending.id
Approved ==
    \A t \in Runs : "commit" \in req'[t] \ req[t] =>
        t \in consent' \/ (conn = "plain" /\ ~Finishing(t))

-----------------------------------------------------------------------------
\* The backend changes nothing of the editor: they meet through RPCs only.
LEMMA BackendKeepsEditor ==
    ASSUME NEW r \in Runs, BackendRun(r) \/ BackendEnd(r)
    PROVE  UNCHANGED <<editor, history>>
BY DEF BackendRun, BackendEnd, BeginManaged, ExecuteManaged, Register, FindTransaction,
       LockTransaction, ExecuteInTransaction, Leave, TakeTransaction, EndTransaction

\* Every step keeps the types.
LEMMA TypeStep == TypeOK /\ [Next]_vars => TypeOK'
<1> SUFFICES ASSUME TypeOK, [Next]_vars PROVE TypeOK'
  OBVIOUS
<1> USE SqlTransactionAssumption DEF TypeOK, RunRec, RunPC, Pending, Modes, Dialog, TxState,
        Open, Ended, RpcState, Answers, Actions, editor, backend, history
<1>1. ASSUME NEW r \in Runs, NEW kind \in {"write", "read"}, StartRun(r, kind) PROVE TypeOK'
  BY <1>1 DEF StartRun
<1>2. ASSUME NEW r \in Runs, Superseded(r) PROVE TypeOK'
  BY <1>2 DEF Superseded, RunAt
<1>3. ASSUME NEW r \in Runs, CancelPrevious(r) PROVE TypeOK'
  BY <1>3 DEF CancelPrevious, RunAt
<1>4. ASSUME NEW r \in Runs, StopEarly(r) PROVE TypeOK'
  BY <1>4 DEF StopEarly, RunAt
<1>5. ASSUME NEW r \in Runs, CheckPending(r) PROVE TypeOK'
  BY <1>5 DEF CheckPending, RunAt, MayRun
<1>6. ASSUME NEW r \in Runs, Send(r) PROVE TypeOK'
  BY <1>6 DEF Send, RpcAt
<1>7. ASSUME NEW r \in Runs, AnswerAfterClose(r) PROVE TypeOK'
  BY <1>7 DEF AnswerAfterClose, RunAt, SendRollback, NamesTransaction
<1>8. ASSUME NEW r \in Runs, AnswerDropped(r) PROVE TypeOK'
  BY <1>8 DEF AnswerDropped, RunAt, ForgetQueryId
<1>9. ASSUME NEW r \in Runs, Answer(r) PROVE TypeOK'
  BY <1>9 DEF Answer, RunAt, ForgetQueryId, Activate, AppendExecution
<1>10. CASE CancelRun
  BY <1>10 DEF CancelRun
<1>11. CASE ClickCommit
  BY <1>11 DEF ClickCommit, Commit, Asks, SendFinish, Finishing
<1>12. CASE ClickRollback
  BY <1>12 DEF ClickRollback, SendFinish
<1>13. CASE TimerFires
  BY <1>13 DEF TimerFires, Commit, Asks, SendFinish, Finishing
<1>14. CASE Approve
  BY <1>14 DEF Approve, StillPending, SendFinish
<1>15. CASE Decline
  BY <1>15 DEF Decline, StillPending, Downgraded
<1>16. CASE EditConnection
  BY <1>16 DEF EditConnection
<1>17. CASE CloseTab
  <2>1. req' \in [Runs -> SUBSET Actions]
    BY <1>17 DEF CloseTab, SendRollback
  <2>2. released' \in SUBSET Runs
    BY <1>17 DEF CloseTab, InFlight
  <2> QED
    BY <1>17, <2>1, <2>2 DEF CloseTab
<1>18. CASE Reload
  BY <1>18 DEF Reload, TakeAll, InMap, NewRun
<1>19. CASE ReinstallDriver
  BY <1>19 DEF ReinstallDriver, TakeAll, InMap
<1>20. ASSUME NEW r \in Runs, BeginManaged(r) PROVE TypeOK'
  <2>1. rpc' \in [Runs -> [at : RpcState, answer : Answers]]
    BY <1>20 DEF BeginManaged, RpcAt
  <2>2. tx' \in [Runs -> TxState]
    BY <1>20 DEF BeginManaged
  <2> QED
    BY <1>20, <2>1, <2>2 DEF BeginManaged
<1>21. ASSUME NEW r \in Runs, ExecuteManaged(r) PROVE TypeOK'
  <2>1. rpc' \in [Runs -> [at : RpcState, answer : Answers]]
    BY <1>21 DEF ExecuteManaged, RpcAt
  <2>2. tx' \in [Runs -> TxState]
    BY <1>21 DEF ExecuteManaged
  <2> QED
    BY <1>21, <2>1, <2>2 DEF ExecuteManaged
<1>22. ASSUME NEW r \in Runs, Register(r) PROVE TypeOK'
  BY <1>22 DEF Register, RpcAt
<1>23. ASSUME NEW r \in Runs, FindTransaction(r) PROVE TypeOK'
  BY <1>23 DEF FindTransaction, RpcAt
<1>24. ASSUME NEW r \in Runs, LockTransaction(r) PROVE TypeOK'
  <2>1. rpc' \in [Runs -> [at : RpcState, answer : Answers]]
    BY <1>24 DEF LockTransaction, RpcAt
  <2>2. mu' \in [Runs -> Runs \cup {None}]
    BY <1>24 DEF LockTransaction
  <2> QED
    BY <1>24, <2>1, <2>2 DEF LockTransaction
<1>25. ASSUME NEW r \in Runs, ExecuteInTransaction(r) PROVE TypeOK'
  <2>1. rpc' \in [Runs -> [at : RpcState, answer : Answers]]
    BY <1>25 DEF ExecuteInTransaction, RpcAt
  <2>2. mu' \in [Runs -> Runs \cup {None}]
    BY <1>25 DEF ExecuteInTransaction
  <2> QED
    BY <1>25, <2>1, <2>2 DEF ExecuteInTransaction
<1>26. ASSUME NEW r \in Runs, Leave(r) PROVE TypeOK'
  BY <1>26 DEF Leave, RpcAt
<1>27. ASSUME NEW t \in Runs, NEW action \in Actions, TakeTransaction(t, action) PROVE TypeOK'
  BY <1>27 DEF TakeTransaction
<1>28. ASSUME NEW t \in Runs, EndTransaction(t) PROVE TypeOK'
  BY <1>28 DEF EndTransaction
<1>29. CASE UNCHANGED vars
  BY <1>29 DEF vars
<1> QED
  BY <1>1, <1>2, <1>3, <1>4, <1>5, <1>6, <1>7, <1>8, <1>9, <1>10, <1>11, <1>12, <1>13, <1>14,
     <1>15, <1>16, <1>17, <1>18, <1>19, <1>20, <1>21, <1>22, <1>23, <1>24, <1>25, <1>26, <1>27,
     <1>28, <1>29 DEF Next, Editor, BackendRun, BackendEnd

\* Named: only Answer shows a transaction, that of the run it finishes; dialogs copy it.
LEMMA NamedStep == Inv /\ [Next]_vars => Named'
<1> SUFFICES ASSUME Inv, [Next]_vars PROVE Named'
  OBVIOUS
<1> USE SqlTransactionAssumption DEF Inv, TypeOK, Pending, Dialog, RunRec, Modes, editor,
        backend, history, Named, Done
<1>1. ASSUME NEW r \in Runs, NEW kind \in {"write", "read"}, StartRun(r, kind) PROVE Named'
  BY <1>1 DEF StartRun
<1>2. ASSUME NEW r \in Runs, Superseded(r) PROVE Named'
  BY <1>2 DEF Superseded, RunAt
<1>3. ASSUME NEW r \in Runs, CancelPrevious(r) PROVE Named'
  BY <1>3 DEF CancelPrevious, RunAt
<1>4. ASSUME NEW r \in Runs, StopEarly(r) PROVE Named'
  BY <1>4 DEF StopEarly, RunAt
<1>5. ASSUME NEW r \in Runs, CheckPending(r) PROVE Named'
  BY <1>5 DEF CheckPending, RunAt, MayRun
<1>6. ASSUME NEW r \in Runs, Send(r) PROVE Named'
  BY <1>6 DEF Send, RpcAt
<1>7. ASSUME NEW r \in Runs, AnswerAfterClose(r) PROVE Named'
  BY <1>7 DEF AnswerAfterClose, RunAt, SendRollback, NamesTransaction
<1>8. ASSUME NEW r \in Runs, AnswerDropped(r) PROVE Named'
  BY <1>8 DEF AnswerDropped, RunAt, ForgetQueryId
<1>9. ASSUME NEW r \in Runs, Answer(r) PROVE Named'
  BY <1>9 DEF Answer, RunAt, ForgetQueryId, Activate, AppendExecution
<1>10. CASE CancelRun
  BY <1>10 DEF CancelRun
<1>11. CASE ClickCommit
  BY <1>11 DEF ClickCommit, Commit, Asks, SendFinish, Finishing
<1>12. CASE ClickRollback
  BY <1>12 DEF ClickRollback, SendFinish
<1>13. CASE TimerFires
  BY <1>13 DEF TimerFires, Commit, Asks, SendFinish, Finishing
<1>14. CASE Approve
  BY <1>14 DEF Approve, StillPending, SendFinish
<1>15. CASE Decline
  BY <1>15 DEF Decline, StillPending, Downgraded
<1>16. CASE EditConnection
  BY <1>16 DEF EditConnection
<1>17. CASE CloseTab
  BY <1>17 DEF CloseTab, SendRollback, InFlight
<1>18. CASE Reload
  BY <1>18 DEF Reload, TakeAll, InMap, NewRun
<1>19. CASE UNCHANGED editor
  BY <1>19 DEF editor
<1> QED
  BY <1>1, <1>2, <1>3, <1>4, <1>5, <1>6, <1>7, <1>8, <1>9, <1>10, <1>11, <1>12, <1>13, <1>14,
     <1>15, <1>16, <1>17, <1>18, <1>19, BackendKeepsEditor DEF Next, Editor, ReinstallDriver, vars

\* TimerOfPending: Decline writes manual mode back, when AskingSpentTimer rules out a timer.
LEMMA TimerStep == Inv /\ [Next]_vars => TimerOfPending'
<1> SUFFICES ASSUME Inv, [Next]_vars PROVE TimerOfPending'
  OBVIOUS
<1> USE SqlTransactionAssumption DEF Inv, TypeOK, Pending, Dialog, RunRec, Modes, editor,
        backend, history, TimerOfPending, AskingSpentTimer, Named
<1>1. ASSUME NEW r \in Runs, NEW kind \in {"write", "read"}, StartRun(r, kind) PROVE TimerOfPending'
  BY <1>1 DEF StartRun
<1>2. ASSUME NEW r \in Runs, Superseded(r) PROVE TimerOfPending'
  BY <1>2 DEF Superseded, RunAt
<1>3. ASSUME NEW r \in Runs, CancelPrevious(r) PROVE TimerOfPending'
  BY <1>3 DEF CancelPrevious, RunAt
<1>4. ASSUME NEW r \in Runs, StopEarly(r) PROVE TimerOfPending'
  BY <1>4 DEF StopEarly, RunAt
<1>5. ASSUME NEW r \in Runs, CheckPending(r) PROVE TimerOfPending'
  BY <1>5 DEF CheckPending, RunAt, MayRun
<1>6. ASSUME NEW r \in Runs, Send(r) PROVE TimerOfPending'
  BY <1>6 DEF Send, RpcAt
<1>7. ASSUME NEW r \in Runs, AnswerAfterClose(r) PROVE TimerOfPending'
  BY <1>7 DEF AnswerAfterClose, RunAt, SendRollback, NamesTransaction
<1>8. ASSUME NEW r \in Runs, AnswerDropped(r) PROVE TimerOfPending'
  BY <1>8 DEF AnswerDropped, RunAt, ForgetQueryId
<1>9. ASSUME NEW r \in Runs, Answer(r) PROVE TimerOfPending'
  <2>1. CASE \E mode \in Modes : Activate(r, mode)
    BY <2>1 DEF Activate
  <2>2. CASE AppendExecution(r, run[r].in)
    BY <2>2 DEF AppendExecution
  <2>3. CASE UNCHANGED <<pending, timer>>
    BY <2>3
  <2> QED
    BY <1>9, <2>1, <2>2, <2>3 DEF Answer
<1>10. CASE CancelRun
  BY <1>10 DEF CancelRun
<1>11. CASE ClickCommit
  BY <1>11 DEF ClickCommit, Commit, Asks, SendFinish, Finishing
<1>12. CASE ClickRollback
  BY <1>12 DEF ClickRollback, SendFinish
<1>13. CASE TimerFires
  BY <1>13 DEF TimerFires, Commit, Asks, SendFinish, Finishing
<1>14. CASE Approve
  BY <1>14 DEF Approve, StillPending, SendFinish
<1>15. CASE Decline
  BY <1>15 DEF Decline, StillPending, Downgraded
<1>16. CASE EditConnection
  BY <1>16 DEF EditConnection
<1>17. CASE CloseTab
  BY <1>17 DEF CloseTab, SendRollback, InFlight
<1>18. CASE Reload
  BY <1>18 DEF Reload, TakeAll, InMap, NewRun
<1>19. CASE UNCHANGED editor
  BY <1>19 DEF editor
<1> QED
  BY <1>1, <1>2, <1>3, <1>4, <1>5, <1>6, <1>7, <1>8, <1>9, <1>10, <1>11, <1>12, <1>13, <1>14,
     <1>15, <1>16, <1>17, <1>18, <1>19, BackendKeepsEditor DEF Next, Editor, ReinstallDriver, vars

\* AskingSpentTimer: Activate arms a timer for a run that no dialog can be about yet (Named).
LEMMA AskingStep == Inv /\ [Next]_vars => AskingSpentTimer'
<1> SUFFICES ASSUME Inv, [Next]_vars PROVE AskingSpentTimer'
  OBVIOUS
<1> USE SqlTransactionAssumption DEF Inv, TypeOK, Pending, Dialog, RunRec, Modes, editor,
        backend, history, AskingSpentTimer, StillPending, Named, Done, TimerOfPending
<1>1. ASSUME NEW r \in Runs, NEW kind \in {"write", "read"}, StartRun(r, kind) PROVE AskingSpentTimer'
  BY <1>1 DEF StartRun
<1>2. ASSUME NEW r \in Runs, Superseded(r) PROVE AskingSpentTimer'
  BY <1>2 DEF Superseded, RunAt
<1>3. ASSUME NEW r \in Runs, CancelPrevious(r) PROVE AskingSpentTimer'
  BY <1>3 DEF CancelPrevious, RunAt
<1>4. ASSUME NEW r \in Runs, StopEarly(r) PROVE AskingSpentTimer'
  BY <1>4 DEF StopEarly, RunAt
<1>5. ASSUME NEW r \in Runs, CheckPending(r) PROVE AskingSpentTimer'
  BY <1>5 DEF CheckPending, RunAt, MayRun
<1>6. ASSUME NEW r \in Runs, Send(r) PROVE AskingSpentTimer'
  BY <1>6 DEF Send, RpcAt
<1>7. ASSUME NEW r \in Runs, AnswerAfterClose(r) PROVE AskingSpentTimer'
  BY <1>7 DEF AnswerAfterClose, RunAt, SendRollback, NamesTransaction
<1>8. ASSUME NEW r \in Runs, AnswerDropped(r) PROVE AskingSpentTimer'
  BY <1>8 DEF AnswerDropped, RunAt, ForgetQueryId
<1>9. ASSUME NEW r \in Runs, Answer(r) PROVE AskingSpentTimer'
  BY <1>9 DEF Answer, RunAt, ForgetQueryId, Activate, AppendExecution
<1>10. CASE CancelRun
  BY <1>10 DEF CancelRun
<1>11. CASE ClickCommit
  BY <1>11 DEF ClickCommit, Commit, Asks, SendFinish, Finishing
<1>12. CASE ClickRollback
  BY <1>12 DEF ClickRollback, SendFinish
<1>13. CASE TimerFires
  BY <1>13 DEF TimerFires, Commit, Asks, SendFinish, Finishing
<1>14. CASE Approve
  BY <1>14 DEF Approve, StillPending, SendFinish
<1>15. CASE Decline
  BY <1>15 DEF Decline, StillPending, Downgraded
<1>16. CASE EditConnection
  BY <1>16 DEF EditConnection
<1>17. CASE CloseTab
  BY <1>17 DEF CloseTab, SendRollback, InFlight
<1>18. CASE Reload
  BY <1>18 DEF Reload, TakeAll, InMap, NewRun
<1>19. CASE UNCHANGED editor
  BY <1>19 DEF editor
<1> QED
  BY <1>1, <1>2, <1>3, <1>4, <1>5, <1>6, <1>7, <1>8, <1>9, <1>10, <1>11, <1>12, <1>13, <1>14,
     <1>15, <1>16, <1>17, <1>18, <1>19, BackendKeepsEditor DEF Next, Editor, ReinstallDriver, vars

\* OneManaged: between CheckPending and its answer only this run is current, and no other shows.
LEMMA OneStep == Inv /\ [Next]_vars => OneManaged'
<1> SUFFICES ASSUME Inv, [Next]_vars PROVE OneManaged'
  OBVIOUS
<1> USE SqlTransactionAssumption DEF Inv, TypeOK, Pending, Dialog, RunRec, Modes, editor,
        backend, history, OneManaged, Named, Done
<1>1. ASSUME NEW r \in Runs, NEW kind \in {"write", "read"}, StartRun(r, kind) PROVE OneManaged'
  BY <1>1 DEF StartRun
<1>2. ASSUME NEW r \in Runs, Superseded(r) PROVE OneManaged'
  BY <1>2 DEF Superseded, RunAt
<1>3. ASSUME NEW r \in Runs, CancelPrevious(r) PROVE OneManaged'
  BY <1>3 DEF CancelPrevious, RunAt
<1>4. ASSUME NEW r \in Runs, StopEarly(r) PROVE OneManaged'
  BY <1>4 DEF StopEarly, RunAt
<1>5. ASSUME NEW r \in Runs, CheckPending(r) PROVE OneManaged'
  BY <1>5 DEF CheckPending, RunAt, MayRun
<1>6. ASSUME NEW r \in Runs, Send(r) PROVE OneManaged'
  BY <1>6 DEF Send, RpcAt
<1>7. ASSUME NEW r \in Runs, AnswerAfterClose(r) PROVE OneManaged'
  BY <1>7 DEF AnswerAfterClose, RunAt, SendRollback, NamesTransaction
<1>8. ASSUME NEW r \in Runs, AnswerDropped(r) PROVE OneManaged'
  BY <1>8 DEF AnswerDropped, RunAt, ForgetQueryId
<1>9. ASSUME NEW r \in Runs, Answer(r) PROVE OneManaged'
  BY <1>9 DEF Answer, RunAt, ForgetQueryId, Activate, AppendExecution
<1>10. CASE CancelRun
  BY <1>10 DEF CancelRun
<1>11. CASE ClickCommit
  BY <1>11 DEF ClickCommit, Commit, Asks, SendFinish, Finishing
<1>12. CASE ClickRollback
  BY <1>12 DEF ClickRollback, SendFinish
<1>13. CASE TimerFires
  BY <1>13 DEF TimerFires, Commit, Asks, SendFinish, Finishing
<1>14. CASE Approve
  BY <1>14 DEF Approve, StillPending, SendFinish
<1>15. CASE Decline
  BY <1>15 DEF Decline, StillPending, Downgraded
<1>16. CASE EditConnection
  BY <1>16 DEF EditConnection
<1>17. CASE CloseTab
  BY <1>17 DEF CloseTab, SendRollback, InFlight
<1>18. CASE Reload
  BY <1>18 DEF Reload, TakeAll, InMap, NewRun
<1>19. CASE UNCHANGED editor
  BY <1>19 DEF editor
<1> QED
  BY <1>1, <1>2, <1>3, <1>4, <1>5, <1>6, <1>7, <1>8, <1>9, <1>10, <1>11, <1>12, <1>13, <1>14,
     <1>15, <1>16, <1>17, <1>18, <1>19, BackendKeepsEditor DEF Next, Editor, ReinstallDriver, vars

\* Calls: a query RPC is in step with the transaction it opens or reads in, and its mutex.
LEMMA CallsStep == Inv /\ [Next]_vars => Calls'
<1> SUFFICES ASSUME Inv, [Next]_vars PROVE Calls'
  OBVIOUS
<1> USE SqlTransactionAssumption DEF Inv, TypeOK, RunRec, RunPC, Pending, Modes, Dialog,
        TxState, Open, Ended, RpcState, Answers, Actions, editor, backend, history, Calls,
        Opening, Reading, Named, Done
<1>1. ASSUME NEW r \in Runs, NEW kind \in {"write", "read"}, StartRun(r, kind) PROVE Calls'
  BY <1>1 DEF StartRun
<1>2. ASSUME NEW r \in Runs, Superseded(r) PROVE Calls'
  BY <1>2 DEF Superseded, RunAt
<1>3. ASSUME NEW r \in Runs, CancelPrevious(r) PROVE Calls'
  BY <1>3 DEF CancelPrevious, RunAt
<1>4. ASSUME NEW r \in Runs, StopEarly(r) PROVE Calls'
  BY <1>4 DEF StopEarly, RunAt
<1>5. ASSUME NEW r \in Runs, CheckPending(r) PROVE Calls'
  BY <1>5 DEF CheckPending, RunAt, MayRun
<1>6. ASSUME NEW r \in Runs, Send(r) PROVE Calls'
  BY <1>6 DEF Send, RpcAt
<1>7. ASSUME NEW r \in Runs, AnswerAfterClose(r) PROVE Calls'
  BY <1>7 DEF AnswerAfterClose, RunAt, SendRollback, NamesTransaction
<1>8. ASSUME NEW r \in Runs, AnswerDropped(r) PROVE Calls'
  BY <1>8 DEF AnswerDropped, RunAt, ForgetQueryId
<1>9. ASSUME NEW r \in Runs, Answer(r) PROVE Calls'
  BY <1>9 DEF Answer, RunAt, ForgetQueryId, Activate, AppendExecution
<1>10. CASE CancelRun
  BY <1>10 DEF CancelRun
<1>11. CASE ClickCommit
  BY <1>11 DEF ClickCommit, Commit, Asks, SendFinish, Finishing
<1>12. CASE ClickRollback
  BY <1>12 DEF ClickRollback, SendFinish
<1>13. CASE TimerFires
  BY <1>13 DEF TimerFires, Commit, Asks, SendFinish, Finishing
<1>14. CASE Approve
  BY <1>14 DEF Approve, StillPending, SendFinish
<1>15. CASE Decline
  BY <1>15 DEF Decline, StillPending, Downgraded
<1>16. CASE EditConnection
  BY <1>16 DEF EditConnection
<1>17. CASE CloseTab
  BY <1>17 DEF CloseTab, SendRollback, InFlight
<1>18. CASE Reload
  BY <1>18 DEF Reload, TakeAll, InMap, NewRun
<1>19. CASE ReinstallDriver
  BY <1>19 DEF ReinstallDriver, TakeAll, InMap
<1>20. ASSUME NEW r \in Runs, BeginManaged(r) PROVE Calls'
  BY <1>20 DEF BeginManaged, RpcAt
<1>21. ASSUME NEW r \in Runs, ExecuteManaged(r) PROVE Calls'
  BY <1>21 DEF ExecuteManaged, RpcAt
<1>22. ASSUME NEW r \in Runs, Register(r) PROVE Calls'
  BY <1>22 DEF Register, RpcAt
<1>23. ASSUME NEW r \in Runs, FindTransaction(r) PROVE Calls'
  <2>1. \/ /\ rpc' = [rpc EXCEPT ![r] = [at |-> "waiting", answer |-> "none"]]
           /\ tx[run[r].in] = "registered"
        \/ rpc' = [rpc EXCEPT ![r] = [at |-> "answered", answer |-> "plain"]]
    BY <1>23 DEF FindTransaction, RpcAt
  <2>2. rpc[r].at = "called" /\ run[r].kind = "read" /\ UNCHANGED <<run, tx, mu>>
    BY <1>23 DEF FindTransaction
  <2> QED
    BY <2>1, <2>2
<1>24. ASSUME NEW r \in Runs, LockTransaction(r) PROVE Calls'
  <2>1. rpc[r].at = "waiting" /\ run[r].kind = "read" /\ run[r].in \in Runs
        /\ mu[run[r].in] = None /\ UNCHANGED <<run, tx>>
    BY <1>24 DEF LockTransaction
  <2>2. CASE Finished(run[r].in)
    <3>1. rpc' = [rpc EXCEPT ![r] = [at |-> "leaving", answer |-> "plain"]] /\ mu' = mu
      BY <1>24, <2>2 DEF LockTransaction, RpcAt
    <3> QED
      BY <2>1, <3>1
  <2>3. CASE ~Finished(run[r].in)
    <3>1. rpc' = [rpc EXCEPT ![r] = [at |-> "executing", answer |-> "none"]]
          /\ mu' = [mu EXCEPT ![run[r].in] = r] /\ tx[run[r].in] \notin Ended
      BY <1>24, <2>3 DEF LockTransaction, RpcAt, Finished
    <3> QED
      BY <2>1, <3>1
  <2> QED
    BY <2>2, <2>3
<1>25. ASSUME NEW r \in Runs, ExecuteInTransaction(r) PROVE Calls'
  BY <1>25 DEF ExecuteInTransaction, RpcAt
<1>26. ASSUME NEW r \in Runs, Leave(r) PROVE Calls'
  BY <1>26 DEF Leave, RpcAt
<1>27. ASSUME NEW t \in Runs, NEW action \in Actions, TakeTransaction(t, action) PROVE Calls'
  BY <1>27 DEF TakeTransaction
<1>28. ASSUME NEW t \in Runs, EndTransaction(t) PROVE Calls'
  BY <1>28 DEF EndTransaction
<1>29. CASE UNCHANGED vars
  BY <1>29 DEF vars
<1> QED
  BY <1>1, <1>2, <1>3, <1>4, <1>5, <1>6, <1>7, <1>8, <1>9, <1>10, <1>11, <1>12, <1>13, <1>14,
     <1>15, <1>16, <1>17, <1>18, <1>19, <1>20, <1>21, <1>22, <1>23, <1>24, <1>25, <1>26, <1>27,
     <1>28, <1>29 DEF Next, Editor, BackendRun, BackendEnd

\* CommitIsLast: a commit is sent for what is shown, which is not shown again (Named).
LEMMA CommitIsLastStep == Inv /\ [Next]_vars => CommitIsLast'
<1> SUFFICES ASSUME Inv, [Next]_vars PROVE CommitIsLast'
  OBVIOUS
<1> USE SqlTransactionAssumption DEF Inv, TypeOK, RunRec, RunPC, Pending, Modes, Dialog,
        TxState, Open, Ended, RpcState, Answers, Actions, editor, backend, history,
        CommitIsLast, Calls, Opening, Named, Done, Shown
<1>1. ASSUME NEW r \in Runs, NEW kind \in {"write", "read"}, StartRun(r, kind) PROVE CommitIsLast'
  BY <1>1 DEF StartRun
<1>2. ASSUME NEW r \in Runs, Superseded(r) PROVE CommitIsLast'
  BY <1>2 DEF Superseded, RunAt
<1>3. ASSUME NEW r \in Runs, CancelPrevious(r) PROVE CommitIsLast'
  BY <1>3 DEF CancelPrevious, RunAt
<1>4. ASSUME NEW r \in Runs, StopEarly(r) PROVE CommitIsLast'
  BY <1>4 DEF StopEarly, RunAt
<1>5. ASSUME NEW r \in Runs, CheckPending(r) PROVE CommitIsLast'
  BY <1>5 DEF CheckPending, RunAt, MayRun
<1>6. ASSUME NEW r \in Runs, Send(r) PROVE CommitIsLast'
  BY <1>6 DEF Send, RpcAt
<1>7. ASSUME NEW r \in Runs, AnswerAfterClose(r) PROVE CommitIsLast'
  BY <1>7 DEF AnswerAfterClose, RunAt, SendRollback, NamesTransaction
<1>8. ASSUME NEW r \in Runs, AnswerDropped(r) PROVE CommitIsLast'
  BY <1>8 DEF AnswerDropped, RunAt, ForgetQueryId
<1>9. ASSUME NEW r \in Runs, Answer(r) PROVE CommitIsLast'
  BY <1>9 DEF Answer, RunAt, ForgetQueryId, Activate, AppendExecution
<1>10. CASE CancelRun
  BY <1>10 DEF CancelRun
<1>11. CASE ClickCommit
  BY <1>11 DEF ClickCommit, Commit, Asks, SendFinish, Finishing
<1>12. CASE ClickRollback
  BY <1>12 DEF ClickRollback, SendFinish
<1>13. CASE TimerFires
  BY <1>13 DEF TimerFires, Commit, Asks, SendFinish, Finishing
<1>14. CASE Approve
  BY <1>14 DEF Approve, StillPending, SendFinish
<1>15. CASE Decline
  BY <1>15 DEF Decline, StillPending, Downgraded
<1>16. CASE EditConnection
  BY <1>16 DEF EditConnection
<1>17. CASE CloseTab
  BY <1>17 DEF CloseTab, SendRollback, InFlight
<1>18. CASE Reload
  BY <1>18 DEF Reload, TakeAll, InMap, NewRun
<1>19. CASE ReinstallDriver
  BY <1>19 DEF ReinstallDriver, TakeAll, InMap
<1>20. ASSUME NEW r \in Runs, BeginManaged(r) PROVE CommitIsLast'
  BY <1>20 DEF BeginManaged, RpcAt
<1>21. ASSUME NEW r \in Runs, ExecuteManaged(r) PROVE CommitIsLast'
  BY <1>21 DEF ExecuteManaged, RpcAt
<1>22. ASSUME NEW r \in Runs, Register(r) PROVE CommitIsLast'
  BY <1>22 DEF Register, RpcAt
<1>23. ASSUME NEW r \in Runs, FindTransaction(r) PROVE CommitIsLast'
  BY <1>23 DEF FindTransaction, RpcAt
<1>24. ASSUME NEW r \in Runs, LockTransaction(r) PROVE CommitIsLast'
  BY <1>24 DEF LockTransaction, RpcAt, Finished
<1>25. ASSUME NEW r \in Runs, ExecuteInTransaction(r) PROVE CommitIsLast'
  BY <1>25 DEF ExecuteInTransaction, RpcAt
<1>26. ASSUME NEW r \in Runs, Leave(r) PROVE CommitIsLast'
  BY <1>26 DEF Leave, RpcAt
<1>27. ASSUME NEW t \in Runs, NEW action \in Actions, TakeTransaction(t, action) PROVE CommitIsLast'
  BY <1>27 DEF TakeTransaction
<1>28. ASSUME NEW t \in Runs, EndTransaction(t) PROVE CommitIsLast'
  BY <1>28 DEF EndTransaction
<1>29. CASE UNCHANGED vars
  BY <1>29 DEF vars
<1> QED
  BY <1>1, <1>2, <1>3, <1>4, <1>5, <1>6, <1>7, <1>8, <1>9, <1>10, <1>11, <1>12, <1>13, <1>14,
     <1>15, <1>16, <1>17, <1>18, <1>19, <1>20, <1>21, <1>22, <1>23, <1>24, <1>25, <1>26, <1>27,
     <1>28, <1>29 DEF Next, Editor, BackendRun, BackendEnd

\* ReleasedOutOfReach: what is released is being rolled back, or its answer will find no tab.
LEMMA OutOfReachStep == Inv /\ [Next]_vars => ReleasedOutOfReach'
<1> SUFFICES ASSUME Inv, [Next]_vars PROVE ReleasedOutOfReach'
  OBVIOUS
<1> USE SqlTransactionAssumption DEF Inv, TypeOK, RunRec, RunPC, Pending, Modes, Dialog,
        TxState, Open, Ended, RpcState, Answers, Actions, editor, backend, history,
        ReleasedOutOfReach, OutOfReach, CommitIsLast, Calls, Opening, Named, Done, Shown
<1>1. ASSUME NEW r \in Runs, NEW kind \in {"write", "read"}, StartRun(r, kind) PROVE ReleasedOutOfReach'
  BY <1>1 DEF StartRun
<1>2. ASSUME NEW r \in Runs, Superseded(r) PROVE ReleasedOutOfReach'
  BY <1>2 DEF Superseded, RunAt
<1>3. ASSUME NEW r \in Runs, CancelPrevious(r) PROVE ReleasedOutOfReach'
  BY <1>3 DEF CancelPrevious, RunAt
<1>4. ASSUME NEW r \in Runs, StopEarly(r) PROVE ReleasedOutOfReach'
  BY <1>4 DEF StopEarly, RunAt
<1>5. ASSUME NEW r \in Runs, CheckPending(r) PROVE ReleasedOutOfReach'
  BY <1>5 DEF CheckPending, RunAt, MayRun
<1>6. ASSUME NEW r \in Runs, Send(r) PROVE ReleasedOutOfReach'
  BY <1>6 DEF Send, RpcAt
<1>7. ASSUME NEW r \in Runs, AnswerAfterClose(r) PROVE ReleasedOutOfReach'
  BY <1>7 DEF AnswerAfterClose, RunAt, SendRollback, NamesTransaction
<1>8. ASSUME NEW r \in Runs, AnswerDropped(r) PROVE ReleasedOutOfReach'
  BY <1>8 DEF AnswerDropped, RunAt, ForgetQueryId
<1>9. ASSUME NEW r \in Runs, Answer(r) PROVE ReleasedOutOfReach'
  BY <1>9 DEF Answer, RunAt, ForgetQueryId, Activate, AppendExecution
<1>10. CASE CancelRun
  BY <1>10 DEF CancelRun
<1>11. CASE ClickCommit
  BY <1>11 DEF ClickCommit, Commit, Asks, SendFinish, Finishing
<1>12. CASE ClickRollback
  BY <1>12 DEF ClickRollback, SendFinish
<1>13. CASE TimerFires
  BY <1>13 DEF TimerFires, Commit, Asks, SendFinish, Finishing
<1>14. CASE Approve
  BY <1>14 DEF Approve, StillPending, SendFinish
<1>15. CASE Decline
  BY <1>15 DEF Decline, StillPending, Downgraded
<1>16. CASE EditConnection
  BY <1>16 DEF EditConnection
<1>17. CASE CloseTab
  BY <1>17 DEF CloseTab, SendRollback, InFlight
<1>18. CASE Reload
  BY <1>18 DEF Reload, TakeAll, InMap, NewRun
<1>19. CASE ReinstallDriver
  BY <1>19 DEF ReinstallDriver, TakeAll, InMap
<1>20. ASSUME NEW r \in Runs, BeginManaged(r) PROVE ReleasedOutOfReach'
  BY <1>20 DEF BeginManaged, RpcAt
<1>21. ASSUME NEW r \in Runs, ExecuteManaged(r) PROVE ReleasedOutOfReach'
  BY <1>21 DEF ExecuteManaged, RpcAt
<1>22. ASSUME NEW r \in Runs, Register(r) PROVE ReleasedOutOfReach'
  BY <1>22 DEF Register, RpcAt
<1>23. ASSUME NEW r \in Runs, FindTransaction(r) PROVE ReleasedOutOfReach'
  BY <1>23 DEF FindTransaction, RpcAt
<1>24. ASSUME NEW r \in Runs, LockTransaction(r) PROVE ReleasedOutOfReach'
  BY <1>24 DEF LockTransaction, RpcAt, Finished
<1>25. ASSUME NEW r \in Runs, ExecuteInTransaction(r) PROVE ReleasedOutOfReach'
  BY <1>25 DEF ExecuteInTransaction, RpcAt
<1>26. ASSUME NEW r \in Runs, Leave(r) PROVE ReleasedOutOfReach'
  BY <1>26 DEF Leave, RpcAt
<1>27. ASSUME NEW t \in Runs, NEW action \in Actions, TakeTransaction(t, action) PROVE ReleasedOutOfReach'
  BY <1>27 DEF TakeTransaction
<1>28. ASSUME NEW t \in Runs, EndTransaction(t) PROVE ReleasedOutOfReach'
  BY <1>28 DEF EndTransaction
<1>29. CASE UNCHANGED vars
  BY <1>29 DEF vars
<1> QED
  BY <1>1, <1>2, <1>3, <1>4, <1>5, <1>6, <1>7, <1>8, <1>9, <1>10, <1>11, <1>12, <1>13, <1>14,
     <1>15, <1>16, <1>17, <1>18, <1>19, <1>20, <1>21, <1>22, <1>23, <1>24, <1>25, <1>26, <1>27,
     <1>28, <1>29 DEF Next, Editor, BackendRun, BackendEnd

\* PendingNeverReplaced, of one step: OneManaged leaves an answering run nothing to replace.
LEMMA ShownIsKept == Inv /\ [Next]_vars => KeepsShown
<1> SUFFICES ASSUME Inv, [Next]_vars PROVE KeepsShown
  OBVIOUS
<1> USE SqlTransactionAssumption DEF Inv, TypeOK, Pending, Dialog, RunRec, Modes, editor,
        backend, history, KeepsShown, OneManaged
<1>1. ASSUME NEW r \in Runs, NEW kind \in {"write", "read"}, StartRun(r, kind) PROVE KeepsShown
  BY <1>1 DEF StartRun
<1>2. ASSUME NEW r \in Runs, Superseded(r) PROVE KeepsShown
  BY <1>2 DEF Superseded, RunAt
<1>3. ASSUME NEW r \in Runs, CancelPrevious(r) PROVE KeepsShown
  BY <1>3 DEF CancelPrevious, RunAt
<1>4. ASSUME NEW r \in Runs, StopEarly(r) PROVE KeepsShown
  BY <1>4 DEF StopEarly, RunAt
<1>5. ASSUME NEW r \in Runs, CheckPending(r) PROVE KeepsShown
  BY <1>5 DEF CheckPending, RunAt, MayRun
<1>6. ASSUME NEW r \in Runs, Send(r) PROVE KeepsShown
  BY <1>6 DEF Send, RpcAt
<1>7. ASSUME NEW r \in Runs, AnswerAfterClose(r) PROVE KeepsShown
  BY <1>7 DEF AnswerAfterClose, RunAt, SendRollback, NamesTransaction
<1>8. ASSUME NEW r \in Runs, AnswerDropped(r) PROVE KeepsShown
  BY <1>8 DEF AnswerDropped, RunAt, ForgetQueryId
<1>9. ASSUME NEW r \in Runs, Answer(r) PROVE KeepsShown
  BY <1>9 DEF Answer, RunAt, ForgetQueryId, Activate, AppendExecution
<1>10. CASE CancelRun
  BY <1>10 DEF CancelRun
<1>11. CASE ClickCommit
  BY <1>11 DEF ClickCommit, Commit, Asks, SendFinish, Finishing
<1>12. CASE ClickRollback
  BY <1>12 DEF ClickRollback, SendFinish
<1>13. CASE TimerFires
  BY <1>13 DEF TimerFires, Commit, Asks, SendFinish, Finishing
<1>14. CASE Approve
  BY <1>14 DEF Approve, StillPending, SendFinish
<1>15. CASE Decline
  BY <1>15 DEF Decline, StillPending, Downgraded
<1>16. CASE EditConnection
  BY <1>16 DEF EditConnection
<1>17. CASE CloseTab
  BY <1>17 DEF CloseTab, SendRollback, InFlight
<1>18. CASE Reload
  BY <1>18 DEF Reload, TakeAll, InMap, NewRun
<1>19. CASE UNCHANGED editor
  BY <1>19 DEF editor
<1> QED
  BY <1>1, <1>2, <1>3, <1>4, <1>5, <1>6, <1>7, <1>8, <1>9, <1>10, <1>11, <1>12, <1>13, <1>14,
     <1>15, <1>16, <1>17, <1>18, <1>19, BackendKeepsEditor DEF Next, Editor, ReinstallDriver, vars

\* NoUnapprovedCommit, of one step: only Commit and Approve send one.
LEMMA CommitsAreApproved == Inv /\ [Next]_vars => Approved
<1> SUFFICES ASSUME Inv, [Next]_vars PROVE Approved
  OBVIOUS
<1> USE SqlTransactionAssumption DEF Inv, TypeOK, Pending, Dialog, Actions, editor, backend,
        history, Approved
<1>1. ASSUME NEW r \in Runs, NEW kind \in {"write", "read"}, StartRun(r, kind) PROVE Approved
  BY <1>1 DEF StartRun
<1>2. ASSUME NEW r \in Runs, Superseded(r) PROVE Approved
  BY <1>2 DEF Superseded, RunAt
<1>3. ASSUME NEW r \in Runs, CancelPrevious(r) PROVE Approved
  BY <1>3 DEF CancelPrevious, RunAt
<1>4. ASSUME NEW r \in Runs, StopEarly(r) PROVE Approved
  BY <1>4 DEF StopEarly, RunAt
<1>5. ASSUME NEW r \in Runs, CheckPending(r) PROVE Approved
  BY <1>5 DEF CheckPending, RunAt, MayRun
<1>6. ASSUME NEW r \in Runs, Send(r) PROVE Approved
  BY <1>6 DEF Send, RpcAt
<1>7. ASSUME NEW r \in Runs, AnswerAfterClose(r) PROVE Approved
  <2>1. CASE NamesTransaction(r)
    <3>1. req' = [req EXCEPT ![run[r].in] = @ \cup {"rollback"}]
      BY <1>7, <2>1 DEF AnswerAfterClose, SendRollback
    <3> QED
      BY <3>1
  <2>2. CASE ~NamesTransaction(r)
    BY <1>7, <2>2 DEF AnswerAfterClose
  <2> QED
    BY <2>1, <2>2
<1>8. ASSUME NEW r \in Runs, AnswerDropped(r) PROVE Approved
  BY <1>8 DEF AnswerDropped, RunAt, ForgetQueryId
<1>9. ASSUME NEW r \in Runs, Answer(r) PROVE Approved
  BY <1>9 DEF Answer, RunAt, ForgetQueryId, Activate, AppendExecution
<1>10. CASE CancelRun
  BY <1>10 DEF CancelRun
<1>11. CASE ClickCommit
  BY <1>11 DEF ClickCommit, Commit, Asks, SendFinish, Finishing
<1>12. CASE ClickRollback
  BY <1>12 DEF ClickRollback, SendFinish
<1>13. CASE TimerFires
  BY <1>13 DEF TimerFires, Commit, Asks, SendFinish, Finishing
<1>14. CASE Approve
  BY <1>14 DEF Approve, StillPending, SendFinish
<1>15. CASE Decline
  BY <1>15 DEF Decline, StillPending, Downgraded
<1>16. CASE EditConnection
  BY <1>16 DEF EditConnection
<1>17. CASE CloseTab
  BY <1>17 DEF CloseTab, SendRollback, InFlight
<1>18. CASE Reload
  BY <1>18 DEF Reload, TakeAll, InMap, NewRun
<1>19. CASE ReinstallDriver
  BY <1>19 DEF ReinstallDriver, TakeAll, InMap
<1>20. ASSUME NEW r \in Runs, BeginManaged(r) PROVE Approved
  BY <1>20 DEF BeginManaged, RpcAt
<1>21. ASSUME NEW r \in Runs, ExecuteManaged(r) PROVE Approved
  BY <1>21 DEF ExecuteManaged, RpcAt
<1>22. ASSUME NEW r \in Runs, Register(r) PROVE Approved
  BY <1>22 DEF Register, RpcAt
<1>23. ASSUME NEW r \in Runs, FindTransaction(r) PROVE Approved
  BY <1>23 DEF FindTransaction, RpcAt
<1>24. ASSUME NEW r \in Runs, LockTransaction(r) PROVE Approved
  BY <1>24 DEF LockTransaction, RpcAt, Finished
<1>25. ASSUME NEW r \in Runs, ExecuteInTransaction(r) PROVE Approved
  BY <1>25 DEF ExecuteInTransaction, RpcAt
<1>26. ASSUME NEW r \in Runs, Leave(r) PROVE Approved
  BY <1>26 DEF Leave, RpcAt
<1>27. ASSUME NEW t \in Runs, NEW action \in Actions, TakeTransaction(t, action) PROVE Approved
  BY <1>27 DEF TakeTransaction
<1>28. ASSUME NEW t \in Runs, EndTransaction(t) PROVE Approved
  BY <1>28 DEF EndTransaction
<1>29. CASE UNCHANGED vars
  BY <1>29 DEF vars
<1> QED
  BY <1>1, <1>2, <1>3, <1>4, <1>5, <1>6, <1>7, <1>8, <1>9, <1>10, <1>11, <1>12, <1>13, <1>14,
     <1>15, <1>16, <1>17, <1>18, <1>19, <1>20, <1>21, <1>22, <1>23, <1>24, <1>25, <1>26, <1>27,
     <1>28, <1>29 DEF Next, Editor, BackendRun, BackendEnd

-----------------------------------------------------------------------------
\* The initial states satisfy the invariant ...
LEMMA Initially == Init => Inv
BY SqlTransactionAssumption
   DEF Init, Inv, TypeOK, RunRec, RunPC, TxState, Open, Ended, RpcState, Answers, NewRun,
       Named, TimerOfPending, AskingSpentTimer, OneManaged, Calls, Opening, Reading,
       CommitIsLast, ReleasedOutOfReach

\* ... every step preserves it ...
LEMMA Inductive == Inv /\ [Next]_vars => Inv'
BY TypeStep, NamedStep, TimerStep, AskingStep, OneStep, CallsStep, CommitIsLastStep,
   OutOfReachStep DEF Inv

\* ... and so it always holds.
LEMMA Invariance == Spec => []Inv
BY Initially, Inductive, PTL DEF Spec

(***************************************************************************)
(* What each variable may hold, however many runs share the editor: in     *)
(* particular every transaction id an RPC of methods_db_transaction.go is  *)
(* asked to end is one a run opened.                                       *)
(***************************************************************************)
THEOREM TypeCorrect == Spec => []TypeOK
<1>1. Inv => TypeOK
  BY DEF Inv
<1> QED
  BY Invariance, <1>1, PTL

(***************************************************************************)
(* DBQueryMultiInTransaction never executes in a transaction that has been *)
(* ended: it looks at finished again once it holds the mutex under which   *)
(* finishManagedSQLTransaction ends it.                                    *)
(***************************************************************************)
THEOREM StatementsBeforeEnd == Spec => []NoStatementAfterEnd
<1>1. Inv => NoStatementAfterEnd
  BY DEF Inv, Calls, Reading, NoStatementAfterEnd
<1> QED
  BY Invariance, <1>1, PTL

(***************************************************************************)
(* autoCommitTimerRef is armed for the transaction that is shown, and only *)
(* while that is in automatic mode.  Declining the production dialog of a  *)
(* timer writes manual mode back; AskingSpentTimer is why no timer is      *)
(* armed then.                                                             *)
(***************************************************************************)
THEOREM TimerBelongsToPending == Spec => []TimerOfPending
<1>1. Inv => TimerOfPending
  BY DEF Inv
<1> QED
  BY Invariance, <1>1, PTL

(***************************************************************************)
(* A transaction that a closed tab or a reload has released is never       *)
(* committed afterwards, however its commit, its answer, its dialog and    *)
(* the clean-up of the tab overtake each other.                            *)
(***************************************************************************)
THEOREM ReleasedStaysUncommitted == Spec => []ReleasedNeverCommits
<1>1. Inv => ReleasedNeverCommits
  BY DEF Inv, ReleasedOutOfReach, OutOfReach, ReleasedNeverCommits
<1> QED
  BY Invariance, <1>1, PTL

(***************************************************************************)
(* No answer replaces a transaction that is shown by another one, although *)
(* handleRun looks for a pending transaction several awaits before the RPC *)
(* that opens the next: the runs in between are superseded (OneManaged).   *)
(***************************************************************************)
THEOREM ShownIsNeverReplaced == Spec => PendingNeverReplaced
<1>1. Inv /\ [Next]_vars => [KeepsShown]_vars
  BY ShownIsKept
<1> QED
  BY Invariance, <1>1, PTL DEF Spec, PendingNeverReplaced, KeepsShown

(***************************************************************************)
(* finishPendingSqlTransaction sends no commit for a production connection *)
(* without the user's approval of that transaction, from the button or the *)
(* timer, and none at all while the dialog about it is open.               *)
(***************************************************************************)
THEOREM NoCommitUnapproved == Spec => NoUnapprovedCommit
<1>1. Inv /\ [Next]_vars => [Approved]_vars
  BY CommitsAreApproved
<1> QED
  BY Invariance, <1>1, PTL DEF Spec, NoUnapprovedCommit, Approved
=============================================================================
