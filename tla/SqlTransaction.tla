--------------------------- MODULE SqlTransaction ---------------------------
(***************************************************************************)
(* The managed transaction of one SQL editor tab.  A run of DML opens a    *)
(* database transaction in the backend and leaves it open; later runs of   *)
(* reading SQL are executed inside it; the editor ends it on a button, on  *)
(* the automatic-commit timer, or when its tab closes.                     *)
(*                                                                         *)
(* Two halves run concurrently and meet only through RPCs.  The editor     *)
(* (QueryEditor.tsx, useSqlEditorTransactionController.ts) is single-      *)
(* threaded, but every await lets timers, clicks, the closing of the tab   *)
(* and other runs in.  The backend (methods_db_transaction.go) serves each *)
(* RPC on a goroutine of its own, with a map of open transactions and one  *)
(* mutex per transaction.                                                  *)
(***************************************************************************)
EXTENDS Naturals, FiniteSets

CONSTANTS
    Runs,        \* executions of the Run command; bounds how many there are
    None,        \* no run, no transaction, no dialog
    MaxReloads   \* bound: reloads of the frontend and driver reinstallations

VARIABLES
    \* the editor
    mounted,     \* ~ queryEditorUnmountedRef
    current,     \* the run whose number is runSeqRef, None after a cancel
    queryId,     \* currentQueryIdRef: the run the tab would cancel
    run,         \* where each handleRun is, and what it runs
    pending,     \* pendingSqlTransactionRef
    timer,       \* the transaction autoCommitTimerRef is armed for
    dialog,      \* the open production confirmation and what it captured
    conn,        \* the connection of the transaction, as the store has it now
    \* the backend
    tx,          \* the transaction a managed run opens, named after the run
    mu,          \* managedSQLTransaction.mu: the run executing inside it
    rpc,         \* the query RPC of each run
    req,         \* DBCommit/DBRollbackTransactionWithTrigger calls on their way
    \* history
    consent,     \* transactions whose commit the user approved in a dialog
    released,    \* transactions a closed tab or a reload is bound to end
    reloads

editor  == <<mounted, current, queryId, run, pending, timer, dialog, conn>>
backend == <<tx, mu, rpc, req>>
history == <<consent, released, reloads>>
vars == <<mounted, current, queryId, run, pending, timer, dialog, conn,
          tx, mu, rpc, req, consent, released, reloads>>

RunPC    == {"new", "started", "preparing", "ready", "rpc", "done"}
RunRec   == [pc : RunPC, kind : {"write", "read"}, in : Runs \cup {None}]
\* "commit" and "rollback": taken out of the map by a call that is to end it.
Open     == {"open", "registered", "commit", "rollback"}
Ended    == {"committed", "rolledback", "unknown"}
TxState  == Open \cup Ended \cup {"none"}
RpcState == {"none", "called", "waiting", "executing", "executed", "leaving", "answered"}
Answers  == {"none", "pending", "failed", "plain"}
Actions  == {"commit", "rollback"}
Modes    == {"manual", "auto"}
Pending  == [id : Runs, mode : Modes, listed : SUBSET Runs]
Dialog   == [of : Pending, source : {"manual", "auto"}]

ASSUME SqlTransactionAssumption ==
    None \notin Runs /\ None \notin Pending /\ None \notin Dialog /\ MaxReloads \in Nat

TypeOK ==
    /\ mounted \in BOOLEAN
    /\ current \in Runs \cup {None}
    /\ queryId \in Runs \cup {None}
    /\ run \in [Runs -> RunRec]
    /\ pending \in Pending \cup {None}
    /\ timer \in Runs \cup {None}
    /\ dialog \in Dialog \cup {None}
    /\ conn \in {"plain", "production", "missing"}
    /\ tx \in [Runs -> TxState]
    /\ mu \in [Runs -> Runs \cup {None}]
    /\ rpc \in [Runs -> [at : RpcState, answer : Answers]]
    /\ req \in [Runs -> SUBSET Actions]
    /\ consent \in SUBSET Runs
    /\ released \in SUBSET Runs
    /\ reloads \in 0..MaxReloads

NewRun == [pc |-> "new", kind |-> "write", in |-> None]

Init ==
    /\ mounted = TRUE
    /\ current = None /\ queryId = None
    /\ run = [r \in Runs |-> NewRun]
    /\ pending = None /\ timer = None /\ dialog = None
    /\ conn \in {"plain", "production"}
    /\ tx = [r \in Runs |-> "none"]
    /\ mu = [r \in Runs |-> None]
    /\ rpc = [r \in Runs |-> [at |-> "none", answer |-> "none"]]
    /\ req = [r \in Runs |-> {}]
    /\ consent = {} /\ released = {} /\ reloads = 0

-----------------------------------------------------------------------------
(* Running SQL: handleRun between two of its awaits.                       *)

RunAt(r, pc)    == run' = [run EXCEPT ![r] = [pc |-> pc, kind |-> @.kind, in |-> @.in]]
RpcAt(r, at, a) == rpc' = [rpc EXCEPT ![r] = [at |-> at, answer |-> a]]

\* A run may be started while another is in flight: it takes over runSeqRef.
StartRun(r, kind) ==
    /\ mounted
    /\ run[r].pc = "new"
    /\ current' = r
    /\ run' = [run EXCEPT ![r] = [pc |-> "started", kind |-> kind, in |-> None]]
    /\ UNCHANGED <<mounted, queryId, pending, timer, dialog, conn, backend, history>>

\* Every await is followed by "if (!isCurrentRun()) return".
Superseded(r) ==
    /\ run[r].pc \in {"started", "preparing", "ready"}
    /\ current # r
    /\ RunAt(r, "done")
    /\ UNCHANGED <<mounted, current, queryId, pending, timer, dialog, conn, backend, history>>

\* CancelQuery cancels the context of the previous query.  Whether its statements
\* then fail is open (ExecuteManaged), so the cancellation itself is no state.
CancelPrevious(r) ==
    /\ run[r].pc = "started"
    /\ current = r
    /\ queryId' = None
    /\ RunAt(r, "preparing")
    /\ UNCHANGED <<mounted, current, pending, timer, dialog, conn, backend, history>>

\* The user declines, a parameter is missing, nothing is executable.
StopEarly(r) ==
    /\ run[r].pc \in {"preparing", "ready"}
    /\ current = r
    /\ RunAt(r, "done")
    /\ UNCHANGED <<mounted, current, queryId, pending, timer, dialog, conn, backend, history>>

\* One managed transaction per editor: checked here, several awaits before the RPC.
MayRunAnyway(kind) == TRUE
MayRun(kind) == kind = "write" => pending = None

CheckPending(r) ==
    /\ run[r].pc = "preparing"
    /\ current = r
    /\ MayRun(run[r].kind)
    /\ RunAt(r, "ready")
    /\ UNCHANGED <<mounted, current, queryId, pending, timer, dialog, conn, backend, history>>

\* executeSqlEditorMultiQuery: reading SQL joins the transaction pending now, if
\* there is one; otherwise it runs on its own and concerns no transaction.
Send(r) ==
    /\ run[r].pc = "ready"
    /\ current = r
    /\ run[r].kind = "read" => pending # None
    /\ queryId' = r
    /\ run' = [run EXCEPT ![r] = [pc |-> "rpc", kind |-> @.kind,
                                  in |-> IF @.kind = "write" THEN r ELSE pending.id]]
    /\ RpcAt(r, "called", "none")
    /\ UNCHANGED <<mounted, current, pending, timer, dialog, conn, tx, mu, req, history>>

SendTrigger(t)  == req' = [req EXCEPT ![t] = @ \cup {"tab_close"}]
SendRollback(t) == req' = [req EXCEPT ![t] = @ \cup {"rollback"}]

ForgetQueryId(r) == queryId' = IF queryId = r THEN None ELSE queryId

\* "res?.transactionPending && res?.transactionId"
NamesJoinedTransaction(r) == rpc[r].answer \in {"pending", "failed"} /\ run[r].kind = "read"
NamesTransaction(r) ==
    rpc[r].answer = "pending" \/ (rpc[r].answer = "failed" /\ run[r].kind = "read")

\* The tab is gone: whatever transaction the answer names is rolled back directly.
AnswerAfterClose(r) ==
    /\ run[r].pc = "rpc" /\ rpc[r].at = "answered"
    /\ ~mounted
    /\ IF NamesTransaction(r) THEN SendRollback(run[r].in) ELSE UNCHANGED req
    /\ RunAt(r, "done")
    /\ UNCHANGED <<mounted, current, queryId, pending, timer, dialog, conn,
                   tx, mu, rpc, history>>

\* "if (!isCurrentRun()) return": nobody reads the transaction id in the answer.
AnswerDropped(r) ==
    /\ run[r].pc = "rpc" /\ rpc[r].at = "answered"
    /\ mounted /\ current # r
    /\ RunAt(r, "done")
    /\ ForgetQueryId(r)
    /\ UNCHANGED <<mounted, current, pending, timer, dialog, conn, backend, history>>

\* activatePendingSqlTransaction
Activate(t, mode) ==
    /\ pending' = [id |-> t, mode |-> mode, listed |-> {t}]
    /\ timer' = IF mode = "auto" THEN t ELSE None

\* appendPendingSqlTransactionExecution
AppendExecution(r, t) ==
    /\ pending' = IF pending # None /\ pending.id = t
                  THEN [id |-> t, mode |-> pending.mode, listed |-> pending.listed \cup {r}]
                  ELSE pending
    /\ UNCHANGED timer

Answer(r) ==
    /\ run[r].pc = "rpc" /\ rpc[r].at = "answered"
    /\ mounted /\ current = r
    /\ \/ /\ rpc[r].answer = "pending" /\ run[r].kind = "write"
          /\ \E mode \in Modes : Activate(r, mode)
       \/ /\ rpc[r].answer = "pending" /\ run[r].kind = "read"
          /\ AppendExecution(r, run[r].in)
       \/ /\ rpc[r].answer # "pending"
          /\ UNCHANGED <<pending, timer>>
    /\ RunAt(r, "done")
    /\ ForgetQueryId(r)
    /\ UNCHANGED <<mounted, current, dialog, conn, backend, history>>

\* handleCancel.  Whether the backend still knew the query or not, the editor
\* ends the run it shows as loading.
CancelRun ==
    /\ mounted
    /\ current # None /\ run[current].pc # "done"
    /\ current' = None
    /\ queryId' = None
    /\ UNCHANGED <<mounted, run, pending, timer, dialog, conn, tx, mu, rpc, req, history>>

-----------------------------------------------------------------------------
(* Ending the transaction: finishPendingSqlTransaction.                    *)

\* From clearAutoCommitTimer() to the RPC there is no await.
SendFinishKeepingTimer(t, action) ==
    /\ UNCHANGED timer
    /\ pending' = None
    /\ req' = [req EXCEPT ![t] = @ \cup {action}]
SendFinish(t, action) ==
    /\ timer' = None
    /\ pending' = None
    /\ req' = [req EXCEPT ![t] = @ \cup {action}]

\* finishingTransactionIdsRef holds the transaction of the open dialog.
Finishing(t) == dialog # None /\ dialog.of.id = t

AsksOnClick(source) == conn = "production" /\ source = "manual"
Asks(source) == conn = "production"

\* A commit wants the connection found, and an answer when it is a production one.
Commit(source) ==
    \/ /\ conn = "missing"
       /\ UNCHANGED <<pending, dialog, req>>
       /\ timer' = IF source = "auto" THEN None ELSE timer
    \/ /\ Asks(source)
       /\ dialog' = [of |-> pending, source |-> source]
       /\ timer' = IF source = "auto" THEN None ELSE timer
       /\ UNCHANGED <<pending, req>>
    \/ /\ conn # "missing" /\ ~Asks(source)
       /\ SendFinish(pending.id, "commit")
       /\ UNCHANGED dialog

ClickCommit ==
    /\ mounted /\ pending # None /\ ~Finishing(pending.id)
    /\ Commit("manual")
    /\ UNCHANGED <<mounted, current, queryId, run, conn, tx, mu, rpc, history>>

ClickRollback ==
    /\ mounted /\ pending # None /\ ~Finishing(pending.id)
    /\ SendFinish(pending.id, "rollback")
    /\ UNCHANGED <<mounted, current, queryId, run, dialog, conn, tx, mu, rpc, history>>

TimerFires ==
    /\ timer # None
    /\ \/ /\ pending # None /\ pending.id = timer /\ ~Finishing(timer)
          /\ Commit("auto")
       \/ /\ pending = None \/ pending.id # timer \/ Finishing(timer)
          /\ timer' = None
          /\ UNCHANGED <<pending, dialog, req>>
    /\ UNCHANGED <<mounted, current, queryId, run, conn, tx, mu, rpc, history>>

\* The transaction may have been ended while the dialog was open.
StillWanted(d)  == TRUE
StillPending(d) == pending # None /\ pending.id = d.of.id

Approve ==
    /\ dialog # None
    /\ dialog' = None
    /\ IF StillPending(dialog)
       THEN SendFinish(dialog.of.id, "commit") /\ consent' = consent \cup {dialog.of.id}
       ELSE UNCHANGED <<pending, timer, req, consent>>
    /\ UNCHANGED <<mounted, current, queryId, run, conn, tx, mu, rpc, released, reloads>>

\* downgradeToManualTransaction writes back what the dialog captured.
Downgraded(d) == [id |-> d.of.id, mode |-> "manual", listed |-> d.of.listed]

Decline ==
    /\ dialog # None
    /\ dialog' = None
    /\ pending' = IF StillPending(dialog) /\ dialog.source = "auto"
                  THEN Downgraded(dialog) ELSE pending
    /\ UNCHANGED <<mounted, current, queryId, run, timer, conn, backend, history>>

\* The user edits or deletes the connection while the tab is open.
EditConnection ==
    /\ mounted /\ pending # None
    /\ conn' \in {"plain", "production", "missing"} \ {conn}
    /\ UNCHANGED <<mounted, current, queryId, run, pending, timer, dialog, backend, history>>

-----------------------------------------------------------------------------
(* The tab closes, the frontend reloads, a driver is reinstalled.          *)

InFlight == {r \in Runs : run[r].pc = "rpc"}

\* The clean-up effects of the editor and of its transaction controller.
CloseTab ==
    /\ mounted
    /\ mounted' = FALSE
    /\ current' = None
    /\ queryId' = None
    /\ timer' = None
    /\ pending' = None
    /\ IF pending # None THEN SendRollback(pending.id) ELSE UNCHANGED req
    /\ released' = released \cup {r \in InFlight : run[r].kind = "write"}
                            \cup (IF pending # None THEN {pending.id} ELSE {})
    /\ UNCHANGED <<run, dialog, conn, tx, mu, rpc, consent, reloads>>

\* rollbackPendingSQLTransactionsMatching: under one lock all leave the map.
InMap == {t \in Runs : tx[t] = "registered"}
TakeAll == tx' = [t \in Runs |-> IF t \in InMap THEN "rollback" ELSE tx[t]]

\* All the editor knew is gone.  HandleFrontendDomReady rolls back what the map holds.
Reload ==
    /\ reloads < MaxReloads
    /\ reloads' = reloads + 1
    /\ mounted' = TRUE
    /\ current' = None /\ queryId' = None
    /\ pending' = None /\ timer' = None /\ dialog' = None
    /\ run' = [r \in Runs |-> IF run[r].pc = "new" THEN NewRun
                              ELSE [pc |-> "done", kind |-> run[r].kind, in |-> run[r].in]]
    /\ TakeAll
    /\ released' = InMap \cup {t \in released : tx[t] \notin {"none", "open"}}
    /\ UNCHANGED <<conn, mu, rpc, req, consent>>

\* beginOptionalDriverReplacement: cancel the running queries, roll back the rest.
ReinstallDriver ==
    /\ reloads < MaxReloads
    /\ reloads' = reloads + 1
    /\ TakeAll
    /\ released' = released \cup InMap
    /\ UNCHANGED <<editor, mu, rpc, req, consent>>

-----------------------------------------------------------------------------
(* The backend.                                                            *)

\* DBQueryMultiTransactional: "plain" when its stricter test runs the SQL in
\* autocommit, an error when the transaction cannot be opened.
BeginManaged(r) ==
    /\ rpc[r].at = "called" /\ run[r].kind = "write"
    /\ \/ /\ tx' = [tx EXCEPT ![r] = "open"]
          /\ RpcAt(r, "executing", "none")
       \/ /\ \E a \in {"plain", "failed"} : RpcAt(r, "answered", a)
          /\ UNCHANGED tx
    /\ UNCHANGED <<editor, mu, req, history>>

\* A cancelled context usually fails the statements, but may come too late to.
ExecuteManaged(r) ==
    /\ rpc[r].at = "executing" /\ run[r].kind = "write"
    /\ \/ /\ RpcAt(r, "executed", "none")
          /\ UNCHANGED tx
       \/ /\ RpcAt(r, "leaving", "failed")
          /\ tx' = [tx EXCEPT ![r] = "rolledback"]
    /\ UNCHANGED <<editor, mu, req, history>>

Register(r) ==
    /\ rpc[r].at = "executed"
    /\ tx' = [tx EXCEPT ![r] = "registered"]
    /\ RpcAt(r, "leaving", "pending")
    /\ UNCHANGED <<editor, mu, req, history>>

\* DBQueryMultiInTransaction: find the transaction in the map ...
FindTransaction(r) ==
    /\ rpc[r].at = "called" /\ run[r].kind = "read"
    /\ IF tx[run[r].in] = "registered" THEN RpcAt(r, "waiting", "none")
                                       ELSE RpcAt(r, "answered", "plain")
    /\ UNCHANGED <<editor, tx, mu, req, history>>

\* ... and look again at its finished flag once its mutex is held.
FoundEarlier(t) == FALSE
Finished(t) == tx[t] \in Ended

LockTransaction(r) ==
    /\ rpc[r].at = "waiting"
    /\ mu[run[r].in] = None
    /\ IF Finished(run[r].in)
       THEN /\ RpcAt(r, "leaving", "plain")
            /\ UNCHANGED mu
       ELSE /\ RpcAt(r, "executing", "none")
            /\ mu' = [mu EXCEPT ![run[r].in] = r]
    /\ UNCHANGED <<editor, tx, req, history>>

ExecuteInTransaction(r) ==
    /\ rpc[r].at = "executing" /\ run[r].kind = "read"
    /\ \E a \in {"pending", "failed"} : RpcAt(r, "leaving", a)
    /\ mu' = [mu EXCEPT ![run[r].in] = None]
    /\ UNCHANGED <<editor, tx, req, history>>

\* The deferred clean-up: the query leaves runningQueries, the RPC answers.
Leave(r) ==
    /\ rpc[r].at = "leaving"
    /\ RpcAt(r, "answered", rpc[r].answer)
    /\ UNCHANGED <<editor, tx, mu, req, history>>

\* finishManagedSQLTransaction: the first call to find the transaction removes it ...
TakeTransaction(t, action) ==
    /\ action \in req[t]
    /\ req' = [req EXCEPT ![t] = @ \ {action}]
    /\ tx' = IF tx[t] = "registered" THEN [tx EXCEPT ![t] = action] ELSE tx
    /\ UNCHANGED <<editor, mu, rpc, history>>

\* ... and ends it under its mutex.
EndTransaction(t) ==
    /\ tx[t] \in Actions
    /\ mu[t] = None
    /\ \E result \in {IF tx[t] = "commit" THEN "committed" ELSE "rolledback", "unknown"} :
           tx' = [tx EXCEPT ![t] = result]
    /\ UNCHANGED <<editor, mu, rpc, req, history>>

-----------------------------------------------------------------------------
Editor ==
    \/ \E r \in Runs :
           \/ \E kind \in {"write", "read"} : StartRun(r, kind)
           \/ Superseded(r) \/ CancelPrevious(r) \/ StopEarly(r)
           \/ CheckPending(r) \/ Send(r)
           \/ AnswerAfterClose(r) \/ AnswerDropped(r) \/ Answer(r)
    \/ CancelRun
    \/ ClickCommit \/ ClickRollback \/ TimerFires \/ Approve \/ Decline
    \/ EditConnection \/ CloseTab \/ Reload

BackendRun(r) ==
    \/ BeginManaged(r) \/ ExecuteManaged(r) \/ Register(r)
    \/ FindTransaction(r) \/ LockTransaction(r) \/ ExecuteInTransaction(r)
    \/ Leave(r)

BackendEnd(t) == EndTransaction(t) \/ \E action \in Actions : TakeTransaction(t, action)

Next ==
    \/ Editor
    \/ ReinstallDriver
    \/ \E r \in Runs : BackendRun(r) \/ BackendEnd(r)

Spec == Init /\ [][Next]_vars

\* The backend works on and its answers are delivered; users owe nothing.
Fairness ==
    \A r \in Runs : /\ WF_vars(BackendRun(r)) /\ WF_vars(BackendEnd(r))
                     /\ WF_vars(AnswerAfterClose(r))

FairSpec == Spec /\ Fairness
-----------------------------------------------------------------------------
(* Properties.                                                             *)

\* No statement of the editor runs in a transaction that has been ended: the
\* mutex and the finished flag keep a follow-up query out (DBQueryMultiInTransaction).
NoStatementAfterEnd ==
    \A r \in Runs : (rpc[r].at = "executing" /\ run[r].kind = "read")
                       => tx[run[r].in] \notin Ended

\* A transaction the editor shows is not replaced by another one: nobody could
\* end it then.  The check in handleRun is several awaits older than the answer.
PendingNeverReplaced ==
    [][pending # None /\ pending' # None => pending'.id = pending.id]_vars

\* The automatic commit is only ever armed for the transaction that is shown and
\* in automatic mode, whatever ended, declined or closed it in between.
TimerOfPending ==
    timer # None => pending # None /\ pending.id = timer /\ pending.mode = "auto"

\* By no route, button, timer or dialog, is a commit sent without the user's
\* approval unless the connection needs none, and never while the question is open.
NoUnapprovedCommit ==
    [][\A t \in Runs : "commit" \in req'[t] \ req[t] =>
           t \in consent' \/ (conn = "plain" /\ ~Finishing(t))]_vars

\* A transaction whose tab was closed before its commit was sent, or which a
\* reload found in the map, is not committed any more.
ReleasedNeverCommits ==
    \A t \in released : tx[t] \notin {"commit", "committed"}

\* Such a transaction does not keep its locks: it is ended, also when the tab was
\* closed before the answer that names it had arrived.
ReleasedEnds ==
    \A t \in Runs : []<>(t \in released => tx[t] \in Ended \cup {"none"})

\* No orphaned lock: an open transaction is shown by the editor, named by an answer
\* still on its way, or being ended.
NoOrphan ==
    \A t \in InMap :
        \/ req[t] # {}
        \/ pending # None /\ pending.id = t
        \/ run[t].pc = "rpc"

\* No false progress: while the toolbar says the commit is automatic, the timer
\* runs or the production confirmation is open.
AutoIsProgressing ==
    pending # None /\ pending.mode = "auto" => timer = pending.id \/ Finishing(pending.id)
=============================================================================
