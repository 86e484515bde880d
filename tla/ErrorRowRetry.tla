--------------------------- MODULE ErrorRowRetry ---------------------------
(***************************************************************************)
(* Retrying one failed row of a data-sync run (RetryErrorRow and the store *)
(* methods under it).  A caller claims the row with a fresh owner token    *)
(* and a lease, replays the change against the target while a second       *)
(* goroutine renews the lease, and finishes with the token it was given.   *)
(* The callers belong to several processes, any of which may be suspended  *)
(* or die; the worker's recovery takes back expired leases.                *)
(***************************************************************************)
EXTENDS Naturals

CONSTANTS
    Callers,        \* calls of RetryErrorRow, over all processes
    LeaseTTL,       \* errorRowRetryLeaseTTL, in clock ticks
    RenewInterval,  \* errorRowRetryRenewInterval, in clock ticks
    Lag,            \* ticks by which a statement's nowMillis may be old when it runs
    Prompt,         \* TRUE: no process is suspended for longer than RenewInterval
    MaxClaims       \* bound: owner tokens handed out

ASSUME ErrorRowRetryAssumption ==
    /\ LeaseTTL \in Nat \ {0} /\ RenewInterval \in Nat \ {0} /\ MaxClaims \in Nat
    /\ Lag \in Nat /\ Lag < LeaseTTL
    /\ Prompt \in BOOLEAN
    /\ Prompt => RenewInterval + Lag < LeaseTTL

VARIABLES
    row,        \* the row of data_sync_error_rows
    lastOwner,  \* owner tokens handed out so far (uuid.NewString)
    caller,     \* the calls of RetryErrorRow
    applied     \* the owners whose replay has reached the target

vars == <<row, lastOwner, caller, applied>>

Statuses == {"none", "pending", "retrying", "resolved", "discarded", "deleted"}
\* owner: retry_owner, 0 standing for ''; left: ticks until retry_lease_expires_at.
Row == [status : Statuses, owner : Nat, left : 0..LeaseTTL, attempts : Nat]

\* "checked": the row was read as pending; "claimed": the claim has committed;
\* "returned": the replay is over, the renewing goroutine not yet.
CallerPC == {"idle", "checked", "claimed", "replay", "returned", "finish"}
\* beat: the renewing goroutine; when it fails it cancels the replay.
\* wait: ticks since the lease was last extended, counted when Prompt.
Caller == [pc : CallerPC, owner : Nat, beat : {"off", "on", "failed"},
           ok : BOOLEAN, wait : 0..RenewInterval]
Idle == [pc |-> "idle", owner |-> 0, beat |-> "off", ok |-> FALSE, wait |-> 0]
Claimed(owner) ==
    [pc |-> "claimed", owner |-> owner, beat |-> "off", ok |-> FALSE, wait |-> 0]

TypeOK ==
    /\ row \in Row
    /\ lastOwner \in Nat
    /\ caller \in [Callers -> Caller]
    /\ applied \in SUBSET Nat

Init ==
    /\ row = [status |-> "none", owner |-> 0, left |-> 0, attempts |-> 0]
    /\ lastOwner = 0
    /\ caller = [c \in Callers |-> Idle]
    /\ applied = {}

-----------------------------------------------------------------------------
(* The row's own life.                                                     *)

AppendErrorRow ==
    /\ row.status = "none"
    /\ row' = [row EXCEPT !.status = "pending"]
    /\ UNCHANGED <<lastOwner, caller, applied>>

\* Mutant: a row that is being retried may be discarded.
MayDiscardRetrying == row.status \in {"pending", "retrying"}
MayDiscard == row.status = "pending"

DiscardErrorRow ==
    /\ MayDiscard
    /\ row' = [row EXCEPT !.status = "discarded"]
    /\ UNCHANGED <<lastOwner, caller, applied>>

\* ON DELETE CASCADE, when the run is deleted or its job purged.
DeleteRow ==
    /\ row.status \notin {"none", "deleted"}
    /\ row' = [row EXCEPT !.status = "deleted", !.owner = 0, !.left = 0]
    /\ UNCHANGED <<lastOwner, caller, applied>>

\* Mutant: giving a lease back does not count the attempt.
ReleasedUncounted(st) ==
    [row EXCEPT !.status = st, !.owner = 0, !.left = 0]
\* The UPDATE shared by finishing a retry and by recovery.
Released(st) ==
    [row EXCEPT !.status = st, !.owner = 0, !.left = 0, !.attempts = @ + 1]

Expired == row.status = "retrying" /\ row.left = 0

RecoverExpiredErrorRowRetries ==
    /\ Expired
    /\ row' = Released("pending")
    /\ UNCHANGED <<lastOwner, caller, applied>>

-----------------------------------------------------------------------------
(* One call of RetryErrorRow.                                              *)

\* retryDataSyncErrorRow reads the row, and checks it against the job, first.
CheckErrorRow(c) ==
    /\ caller[c].pc = "idle"
    /\ row.status = "pending"
    /\ caller' = [caller EXCEPT ![c].pc = "checked"]
    /\ UNCHANGED <<row, lastOwner, applied>>

\* Mutant: any row in retry is taken over, its lease running or not.
MayClaimRetrying == row.status \in {"pending", "retrying"}
MayClaim == row.status = "pending" \/ Expired

\* The UPDATE of ClaimErrorRowRetry; taking over an expired claim counts it as an
\* attempt.  When nothing matches, the call ends with a conflict.
ClaimErrorRowRetry(c) ==
    /\ caller[c].pc = "checked"
    /\ \/ /\ MayClaim
          /\ lastOwner < MaxClaims
          /\ lastOwner' = lastOwner + 1
          /\ \E lag \in 0..Lag :
                row' = [status |-> "retrying", owner |-> lastOwner + 1, left |-> LeaseTTL - lag,
                        attempts |-> IF row.status = "retrying" THEN row.attempts + 1
                                     ELSE row.attempts]
          /\ caller' = [caller EXCEPT ![c] = Claimed(lastOwner + 1)]
       \/ /\ ~MayClaim
          /\ caller' = [caller EXCEPT ![c] = Idle]
          /\ UNCHANGED <<row, lastOwner>>
    /\ UNCHANGED applied

Holds(c) == row.status = "retrying" /\ row.owner = caller[c].owner

\* GetErrorRow after the claim: lost already, or the replay starts.
ReadClaim(c) ==
    /\ caller[c].pc = "claimed"
    /\ caller' = [caller EXCEPT ![c] = IF Holds(c) THEN [@ EXCEPT !.pc = "replay", !.beat = "on"]
                                       ELSE Idle]
    /\ UNCHANGED <<row, lastOwner, applied>>

\* Mutant: a renewal does not ask who holds the row.
MayRenewAny(c) == row.status = "retrying"
MayRenew(c) == Holds(c)

\* Mutants: a renewal leaves the lease as it is; it dates it from the future.
NotExtended(lag) == row.left
ExtendedPastTTL(lag) == LeaseTTL + lag
Extended(lag) == LeaseTTL - lag

\* One tick of maintainErrorRowRetryLease.  It does not ask whether the lease has run out
\* meanwhile: as long as nobody took the row, the holder has it.
RenewErrorRowRetry(c) ==
    /\ caller[c].pc \in {"replay", "returned"} /\ caller[c].beat = "on"
    /\ IF MayRenew(c)
       THEN /\ \E lag \in 0..Lag : row' = [row EXCEPT !.left = Extended(lag)]
            /\ caller' = [caller EXCEPT ![c].wait = 0]
       ELSE /\ caller' = [caller EXCEPT ![c].beat = "failed"]
            /\ UNCHANGED row
    /\ UNCHANGED <<lastOwner, applied>>

\* The manager shuts down: the renewing goroutine cancels the replay.
ShutdownDuringReplay(c) ==
    /\ caller[c].pc \in {"replay", "returned"} /\ caller[c].beat = "on"
    /\ caller' = [caller EXCEPT ![c].beat = "failed"]
    /\ UNCHANGED <<row, lastOwner, applied>>

\* The change reaches the target database; the call has not returned yet.
ApplyChange(c) ==
    /\ caller[c].pc = "replay"
    /\ applied' = applied \cup {caller[c].owner}
    /\ UNCHANGED <<row, lastOwner, caller>>

\* The replay returns, with an error even though the change may have been applied, or
\* without one because it was.  It may return although it was cancelled.
ReplayReturns(c, ok) ==
    /\ caller[c].pc = "replay"
    /\ ok => caller[c].owner \in applied
    /\ caller' = [caller EXCEPT ![c] = [@ EXCEPT !.pc = "returned", !.ok = ok]]
    /\ UNCHANGED <<row, lastOwner, applied>>

\* The renewing goroutine is stopped and awaited; its error makes the retry fail.
JoinHeartbeat(c) ==
    /\ caller[c].pc = "returned"
    /\ caller' = [caller EXCEPT ![c] = [@ EXCEPT !.pc = "finish", !.beat = "off",
                                                 !.ok = caller[c].ok /\ caller[c].beat = "on"]]
    /\ UNCHANGED <<row, lastOwner, applied>>

\* Mutant: the token is not compared.
MayFinishAny(c) == row.status = "retrying"
MayFinish(c) == Holds(c)

\* ResolveErrorRowRetry or FailErrorRowRetry.
FinishErrorRowRetry(c) ==
    /\ caller[c].pc = "finish"
    /\ row' = IF MayFinish(c) THEN Released(IF caller[c].ok THEN "resolved" ELSE "pending")
              ELSE row
    /\ caller' = [caller EXCEPT ![c] = Idle]
    /\ UNCHANGED <<lastOwner, applied>>

\* The process dies, or its last statement fails or times out (errorRowRetryFinalizeTTL):
\* the row is left to recovery.
CallerDies(c) ==
    /\ caller[c].pc # "idle"
    /\ caller' = [caller EXCEPT ![c] = Idle]
    /\ UNCHANGED <<row, lastOwner, applied>>

\* A call that holds, or believes to hold, the lease.
Renewing(c) == caller[c].pc = "claimed" \/ (caller[c].pc = "replay" /\ caller[c].beat = "on")

Tick ==
    /\ row.left > 0 \/ (Prompt /\ \E c \in Callers : Renewing(c))
    /\ Prompt => \A c \in Callers : Renewing(c) => caller[c].wait < RenewInterval
    /\ row' = [row EXCEPT !.left = IF @ > 0 THEN @ - 1 ELSE 0]
    /\ caller' = [c \in Callers |-> IF Prompt /\ Renewing(c)
                                    THEN [caller[c] EXCEPT !.wait = @ + 1] ELSE caller[c]]
    /\ UNCHANGED <<lastOwner, applied>>

-----------------------------------------------------------------------------
\* What a caller's goroutines do by themselves, the replay itself left aside.
CallStep(c) == ReadClaim(c) \/ JoinHeartbeat(c) \/ FinishErrorRowRetry(c)

Next ==
    \/ AppendErrorRow \/ DiscardErrorRow \/ DeleteRow
    \/ RecoverExpiredErrorRowRetries
    \/ Tick
    \/ \E c \in Callers :
          \/ CheckErrorRow(c) \/ ClaimErrorRowRetry(c)
          \/ CallStep(c)
          \/ RenewErrorRowRetry(c) \/ ShutdownDuringReplay(c)
          \/ ApplyChange(c)
          \/ \E ok \in BOOLEAN : ReplayReturns(c, ok)
          \/ CallerDies(c)

Spec == Init /\ [][Next]_vars

\* Time passes, goroutines run, the renewing ticker ticks, and the worker recovers
\* at every RecoveryInterval.  The replay need not return.
Fairness ==
    /\ WF_vars(Tick) /\ WF_vars(RecoverExpiredErrorRowRetries)
    /\ \A c \in Callers : WF_vars(CallStep(c)) /\ WF_vars(RenewErrorRowRetry(c))

FairSpec == Spec /\ Fairness

-----------------------------------------------------------------------------
(* Properties.                                                             *)

\* Every claim is counted as one attempt, exactly once, whichever way it ends: finished
\* by its holder, taken back by recovery, or taken over (attempts in ClaimErrorRowRetry,
\* finishErrorRowRetry and RecoverExpiredErrorRowRetries).
AttemptsCountClaims ==
    row.status # "deleted" =>
        row.attempts + (IF row.status = "retrying" THEN 1 ELSE 0) = lastOwner

\* A row is resolved only by the claim that was given out last, and after that claim's own
\* replay reached the target: a caller that lost the row cannot settle it under the one
\* that is replaying it now (finishErrorRowRetry compares retry_owner).
ResolvedByLastClaim == row.status = "resolved" => lastOwner \in applied

\* A settled row stays settled until it is deleted, and a row that is being retried is not
\* discarded (the status conditions of finishErrorRowRetry and UpdateErrorRowStatus).
SettledRowsStay ==
    [][/\ row.status \in {"resolved", "discarded"} => row' = row \/ row'.status = "deleted"
       /\ row.status = "retrying" => row'.status # "discarded"]_vars

\* As long as no process is suspended for longer than the renewal interval, the change is
\* never replayed by two callers at once, cancelled replays aside
\* (maintainErrorRowRetryLease, ClaimErrorRowRetry, RecoverExpiredErrorRowRetries).
OneReplayAtATime ==
    Prompt => \A c, d \in Callers : Renewing(c) /\ Renewing(d) => c = d

\* A caller that replays a row it has lost finds out by its next renewal and is cancelled,
\* or its replay returns.
LostReplayIsCancelled ==
    \A c \in Callers : (caller[c].pc = "replay" /\ ~Holds(c))
        ~> (caller[c].pc # "replay" \/ caller[c].beat = "failed")

\* A row leaves "retrying", even when its process died, unless its holder's replay hangs.
RetryEnds ==
    row.status = "retrying"
        ~> \/ row.status # "retrying"
           \/ \E c \in Callers : caller[c].pc = "replay" /\ Holds(c)

-----------------------------------------------------------------------------
(* The promise of FencedTask, with the owner tokens as fencing tokens.     *)

Task == INSTANCE FencedTask WITH state <- row.status, token <- lastOwner,
            tried <- row.attempts, effects <- applied

\* The callers, their leases and the recovery implement the abstract task: whichever
\* way a claim is lost, it is counted, and no caller but the last to claim the row settles
\* it (ClaimErrorRowRetry, finishErrorRowRetry, RecoverExpiredErrorRowRetries).
TaskSpec == Task!Spec
=============================================================================
