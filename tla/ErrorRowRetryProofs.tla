------------------------- MODULE ErrorRowRetryProofs -------------------------
(***************************************************************************)
(* Theorems of ErrorRowRetry, for any number of callers, any lease and any *)
(* number of claims.                                                       *)
(***************************************************************************)
EXTENDS ErrorRowRetry, TLAPS

USE ErrorRowRetryAssumption

\* A row in retry carries the last token given out.
RowToken == row.status = "retrying" => row.owner = lastOwner /\ lastOwner > 0

\* A caller's token is one that was given out, and nobody else's.
CallerTokens ==
    /\ \A c \in Callers : caller[c].owner <= lastOwner
    /\ \A c \in Callers : caller[c].pc \notin {"idle", "checked"} => caller[c].owner > 0
    /\ \A c, d \in Callers : caller[c].owner > 0 /\ caller[c].owner = caller[d].owner => c = d

\* Success is only reported of a change that reached the target.
HonestReplay ==
    \A c \in Callers : caller[c].ok => /\ caller[c].owner \in applied
                                       /\ caller[c].pc \in {"returned", "finish"}

IInv ==
    /\ TypeOK /\ RowToken /\ CallerTokens /\ HonestReplay
    /\ AttemptsCountClaims /\ ResolvedByLastClaim

\* While nobody is suspended, a caller that renews has the row, unless it was deleted,
\* and enough of its lease is left.
Timely ==
    Prompt => \A c \in Callers : Renewing(c) =>
        /\ row.status # "deleted" => Holds(c)
        /\ Holds(c) => row.left + caller[c].wait >= LeaseTTL - Lag

-----------------------------------------------------------------------------
(* Type correctness and the accounting of claims.                          *)

LEMMA IInvInit == Init => IInv
  BY DEF Init, IInv, TypeOK, RowToken, CallerTokens, HonestReplay, AttemptsCountClaims,
         ResolvedByLastClaim, Row, Statuses, Caller, CallerPC, Idle

LEMMA IdleIsCaller == /\ Idle \in Caller /\ Idle.owner = 0 /\ Idle.pc = "idle"
                      /\ Idle.ok = FALSE
  BY DEF Idle, Caller, CallerPC

LEMMA CallerFields ==
    ASSUME IInv, NEW c \in Callers
    PROVE  /\ caller[c] \in Caller /\ caller[c].pc \in CallerPC /\ caller[c].owner \in Nat
           /\ caller[c].ok \in BOOLEAN
  BY DEF IInv, TypeOK, Caller

LEMMA RowFields ==
    ASSUME IInv
    PROVE  /\ row.status \in Statuses /\ row.owner \in Nat /\ row.left \in 0..LeaseTTL
           /\ row.attempts \in Nat /\ lastOwner \in Nat
  BY DEF IInv, TypeOK, Row

\* A step of one caller keeps the callers' part of the invariant.
LEMMA CallerStepKeeps ==
    ASSUME IInv, NEW c \in Callers, NEW e \in Caller,
           caller' = [caller EXCEPT ![c] = e],
           lastOwner' = lastOwner, applied \subseteq applied',
           e.owner = 0 \/ e.owner = caller[c].owner,
           e.pc \notin {"idle", "checked"} => e.owner > 0,
           e.ok => e.owner \in applied /\ e.pc \in {"returned", "finish"}
    PROVE  caller' \in [Callers -> Caller] /\ CallerTokens' /\ HonestReplay'
<1>1. caller' \in [Callers -> Caller]
  BY DEF IInv, TypeOK
<1>2. \A d \in Callers : caller'[d] = IF d = c THEN e ELSE caller[d]
  BY DEF IInv, TypeOK
<1>3. \A d \in Callers : caller[d].owner \in Nat
  BY CallerFields
<1>4. CallerTokens'
  BY <1>2, <1>3, RowFields DEF IInv, CallerTokens
<1>5. HonestReplay'
  BY <1>2 DEF IInv, HonestReplay
<1> QED
  BY <1>1, <1>4, <1>5

\* A step that leaves the row alone keeps the row's part.
LEMMA RowKept ==
    ASSUME IInv, row' = row, lastOwner' = lastOwner, applied \subseteq applied'
    PROVE  RowToken' /\ AttemptsCountClaims' /\ ResolvedByLastClaim'
  BY DEF IInv, RowToken, AttemptsCountClaims, ResolvedByLastClaim

\* A step that leaves the callers alone keeps theirs.
LEMMA CallersKept ==
    ASSUME IInv, caller' = caller, lastOwner' = lastOwner, applied \subseteq applied'
    PROVE  caller' \in [Callers -> Caller] /\ CallerTokens' /\ HonestReplay'
  BY DEF IInv, TypeOK, CallerTokens, HonestReplay

\* Giving a lease back: the claim becomes an attempt.
LEMMA ReleaseKeeps ==
    ASSUME IInv, row.status = "retrying", NEW st \in {"pending", "resolved"},
           row' = Released(st), lastOwner' = lastOwner, applied' = applied,
           st = "resolved" => lastOwner \in applied
    PROVE  row' \in Row /\ RowToken' /\ AttemptsCountClaims' /\ ResolvedByLastClaim'
<1>0. row' = [status |-> st, owner |-> 0, left |-> 0, attempts |-> row.attempts + 1]
  BY DEF Released, IInv, TypeOK, Row
<1>1. row'.status = st /\ row'.attempts = row.attempts + 1 /\ row' \in Row
  BY <1>0, RowFields DEF Row, Statuses
<1>2. RowToken' /\ ResolvedByLastClaim'
  BY <1>1 DEF RowToken, ResolvedByLastClaim
<1>3. row.attempts + 1 = lastOwner
  BY RowFields DEF IInv, AttemptsCountClaims
<1>4. AttemptsCountClaims'
  BY <1>1, <1>3, RowFields DEF AttemptsCountClaims
<1> QED
  BY <1>1, <1>2, <1>4

LEMMA IInvRowSteps ==
    ASSUME IInv, AppendErrorRow \/ DiscardErrorRow \/ DeleteRow \/ RecoverExpiredErrorRowRetries
    PROVE  IInv'
<1>1. UNCHANGED <<lastOwner, caller, applied>>
  BY DEF AppendErrorRow, DiscardErrorRow, DeleteRow, RecoverExpiredErrorRowRetries
<1>2. caller' \in [Callers -> Caller] /\ CallerTokens' /\ HonestReplay'
  BY <1>1, CallersKept
<1>3. row' \in Row /\ RowToken' /\ AttemptsCountClaims' /\ ResolvedByLastClaim'
  <2>1. CASE AppendErrorRow
    BY <2>1, <1>1 DEF AppendErrorRow, IInv, TypeOK, Row, Statuses, RowToken,
                      AttemptsCountClaims, ResolvedByLastClaim
  <2>2. CASE DiscardErrorRow
    BY <2>2, <1>1 DEF DiscardErrorRow, MayDiscard, IInv, TypeOK, Row, Statuses, RowToken,
                      AttemptsCountClaims, ResolvedByLastClaim
  <2>3. CASE DeleteRow
    <3>0. row' = [status |-> "deleted", owner |-> 0, left |-> 0, attempts |-> row.attempts]
      BY <2>3 DEF DeleteRow, IInv, TypeOK, Row
    <3>1. row' \in Row /\ row'.status = "deleted"
      BY <3>0, RowFields DEF Row, Statuses
    <3> QED
      BY <3>1 DEF RowToken, AttemptsCountClaims, ResolvedByLastClaim
  <2>4. CASE RecoverExpiredErrorRowRetries
    <3>1. row.status = "retrying" /\ row' = Released("pending")
      BY <2>4 DEF RecoverExpiredErrorRowRetries, Expired
    <3> QED
      BY <3>1, <1>1, ReleaseKeeps
  <2> QED
    BY <2>1, <2>2, <2>3, <2>4
<1>4. TypeOK'
  BY <1>1, <1>2, <1>3 DEF IInv, TypeOK
<1> QED
  BY <1>2, <1>3, <1>4 DEF IInv

LEMMA IInvTick ==
    ASSUME IInv, Tick
    PROVE  IInv'
<1>1. /\ row' = [row EXCEPT !.left = IF @ > 0 THEN @ - 1 ELSE 0]
      /\ lastOwner' = lastOwner /\ applied' = applied
  BY DEF Tick
<1>2. \A c \in Callers : Prompt /\ Renewing(c) => caller[c].wait < RenewInterval
  BY DEF Tick
<1>3. caller' = [c \in Callers |-> IF Prompt /\ Renewing(c)
                                  THEN [caller[c] EXCEPT !.wait = @ + 1] ELSE caller[c]]
  BY DEF Tick
<1>4. \A c \in Callers : /\ caller'[c].owner = caller[c].owner /\ caller'[c].pc = caller[c].pc
                         /\ caller'[c].ok = caller[c].ok
  BY <1>3 DEF IInv, TypeOK, Caller
<1>5. TypeOK'
  <2>1. row' \in Row
    BY <1>1 DEF IInv, TypeOK, Row
  <2>2. \A c \in Callers : caller'[c] \in Caller
    <3> SUFFICES ASSUME NEW c \in Callers PROVE caller'[c] \in Caller
      OBVIOUS
    <3>1. CASE Prompt /\ Renewing(c)
      BY <1>2, <1>3, <3>1 DEF IInv, TypeOK, Caller
    <3>2. CASE ~(Prompt /\ Renewing(c))
      BY <1>3, <3>2 DEF IInv, TypeOK
    <3> QED
      BY <3>1, <3>2
  <2> QED
    BY <1>1, <1>3, <2>1, <2>2 DEF IInv, TypeOK
<1>6. row'.status = row.status /\ row'.owner = row.owner /\ row'.attempts = row.attempts
  BY <1>1 DEF IInv, TypeOK, Row
<1>7. RowToken' /\ CallerTokens' /\ HonestReplay' /\ AttemptsCountClaims' /\ ResolvedByLastClaim'
  BY <1>1, <1>4, <1>6 DEF IInv, RowToken, CallerTokens, HonestReplay, AttemptsCountClaims,
                          ResolvedByLastClaim
<1> QED
  BY <1>5, <1>7 DEF IInv

LEMMA IInvClaim ==
    ASSUME IInv, NEW c \in Callers, ClaimErrorRowRetry(c)
    PROVE  IInv'
<1>0. applied' = applied /\ caller[c].pc = "checked"
  BY DEF ClaimErrorRowRetry
<1>1. ASSUME MayClaim, lastOwner' = lastOwner + 1,
             caller' = [caller EXCEPT ![c] = Claimed(lastOwner + 1)],
             NEW lag \in 0..Lag,
             row' = [status |-> "retrying", owner |-> lastOwner + 1, left |-> LeaseTTL - lag,
                     attempts |-> IF row.status = "retrying" THEN row.attempts + 1
                                  ELSE row.attempts]
      PROVE  IInv'
  <2>1. /\ \A d \in Callers \ {c} : caller'[d] = caller[d]
        /\ caller'[c].pc = "claimed" /\ caller'[c].owner = lastOwner + 1
        /\ caller'[c].ok = FALSE
        /\ caller' \in [Callers -> Caller]
    <3>1. /\ Claimed(lastOwner + 1) \in Caller
          /\ Claimed(lastOwner + 1).owner = lastOwner + 1
          /\ Claimed(lastOwner + 1).pc = "claimed" /\ Claimed(lastOwner + 1).ok = FALSE
      BY RowFields DEF Claimed, Caller, CallerPC
    <3> QED
      BY <1>1, <3>1 DEF IInv, TypeOK
  <2>2. /\ row' \in Row /\ row'.status = "retrying" /\ row'.owner = lastOwner + 1
        /\ row'.attempts = IF row.status = "retrying" THEN row.attempts + 1 ELSE row.attempts
    BY <1>1, RowFields DEF Row, Statuses
  <2>3. TypeOK'
    BY <1>0, <1>1, <2>1, <2>2, RowFields DEF IInv, TypeOK
  <2>4. RowToken' /\ ResolvedByLastClaim'
    BY <1>1, <2>2, RowFields DEF RowToken, ResolvedByLastClaim
  <2>5. AttemptsCountClaims'
    <3>1. row.status # "deleted"
      BY <1>1 DEF MayClaim, Expired
    <3> QED
      BY <1>1, <2>2, <3>1, RowFields DEF IInv, AttemptsCountClaims
  <2>6. CallerTokens'
    <3>1. \A d \in Callers : caller[d].owner \in Nat /\ caller[d].owner <= lastOwner
      BY CallerFields DEF IInv, CallerTokens
    <3> QED
      BY <1>1, <2>1, <3>1, RowFields DEF IInv, CallerTokens
  <2>7. HonestReplay'
    BY <1>0, <2>1 DEF IInv, HonestReplay
  <2> QED
    BY <2>3, <2>4, <2>5, <2>6, <2>7 DEF IInv
<1>2. ASSUME caller' = [caller EXCEPT ![c] = Idle], row' = row, lastOwner' = lastOwner
      PROVE  IInv'
  BY <1>0, <1>2, IdleIsCaller, CallerStepKeeps, RowKept DEF IInv, TypeOK
<1> QED
  BY <1>1, <1>2 DEF ClaimErrorRowRetry

\* The caller's step gives caller[c] the value e and leaves the row alone.
LEMMA IInvCallerTo ==
    ASSUME IInv, NEW c \in Callers, NEW e \in Caller,
           caller' = [caller EXCEPT ![c] = e],
           row' = row, lastOwner' = lastOwner, applied' = applied,
           e.owner = 0 \/ e.owner = caller[c].owner,
           e.pc \notin {"idle", "checked"} => e.owner > 0,
           e.ok => e.owner \in applied /\ e.pc \in {"returned", "finish"}
    PROVE  IInv'
  BY CallerStepKeeps, RowKept DEF IInv, TypeOK

LEMMA IInvCallerSteps ==
    ASSUME IInv, NEW c \in Callers, NEW ok \in BOOLEAN,
           \/ CheckErrorRow(c) \/ ReadClaim(c) \/ JoinHeartbeat(c)
           \/ ShutdownDuringReplay(c) \/ ApplyChange(c) \/ ReplayReturns(c, ok) \/ CallerDies(c)
    PROVE  IInv'
<1>0. /\ caller[c] \in Caller /\ caller[c].ok \in BOOLEAN
      /\ caller[c].pc \notin {"idle", "checked"} => caller[c].owner > 0
      /\ caller[c].ok => /\ caller[c].owner \in applied
                         /\ caller[c].pc \in {"returned", "finish"}
  BY CallerFields DEF IInv, CallerTokens, HonestReplay
<1>1. CASE CheckErrorRow(c)
  <2> DEFINE e == [caller[c] EXCEPT !.pc = "checked"]
  <2>1. /\ e \in Caller /\ e.owner = caller[c].owner /\ e.pc = "checked" /\ e.ok = FALSE
    BY <1>0, <1>1 DEF CheckErrorRow, Caller, CallerPC
  <2>2. /\ caller' = [caller EXCEPT ![c] = e]
        /\ row' = row /\ lastOwner' = lastOwner /\ applied' = applied
    BY <1>1 DEF CheckErrorRow
  <2> QED
    BY <2>1, <2>2, IInvCallerTo
<1>2. CASE ReadClaim(c)
  <2>0. row' = row /\ lastOwner' = lastOwner /\ applied' = applied /\ caller[c].pc = "claimed"
    BY <1>2 DEF ReadClaim
  <2> DEFINE e == [caller[c] EXCEPT !.pc = "replay", !.beat = "on"]
  <2>1. /\ e \in Caller /\ e.owner = caller[c].owner /\ e.pc = "replay" /\ e.ok = FALSE
    BY <1>0, <2>0 DEF Caller, CallerPC
  <2>2. caller' = [caller EXCEPT ![c] = e] \/ caller' = [caller EXCEPT ![c] = Idle]
    BY <1>2 DEF ReadClaim
  <2>3. e.owner > 0
    BY <1>0, <2>0, <2>1
  <2>4. CASE caller' = [caller EXCEPT ![c] = e]
    BY <2>0, <2>1, <2>3, <2>4, IInvCallerTo
  <2>5. CASE caller' = [caller EXCEPT ![c] = Idle]
    BY <2>0, <2>5, IdleIsCaller, IInvCallerTo
  <2> QED
    BY <2>2, <2>4, <2>5
<1>3. CASE JoinHeartbeat(c)
  <2> DEFINE e == [caller[c] EXCEPT !.pc = "finish", !.beat = "off",
                                    !.ok = caller[c].ok /\ caller[c].beat = "on"]
  <2>1. /\ e \in Caller /\ e.owner = caller[c].owner /\ e.pc = "finish"
        /\ e.ok = (caller[c].ok /\ caller[c].beat = "on")
    BY <1>0 DEF Caller, CallerPC
  <2>2. /\ caller' = [caller EXCEPT ![c] = e] /\ caller[c].pc = "returned"
        /\ row' = row /\ lastOwner' = lastOwner /\ applied' = applied
    BY <1>3 DEF JoinHeartbeat
  <2>3. /\ e.owner > 0
        /\ e.ok => e.owner \in applied
    BY <1>0, <2>1, <2>2
  <2> HIDE DEF e
  <2> QED
    BY <2>1, <2>2, <2>3, IInvCallerTo
<1>4. CASE ShutdownDuringReplay(c)
  <2> DEFINE e == [caller[c] EXCEPT !.beat = "failed"]
  <2>1. /\ e \in Caller /\ e.owner = caller[c].owner /\ e.pc = caller[c].pc
        /\ e.ok = caller[c].ok
    BY <1>0 DEF Caller, CallerPC
  <2>2. /\ caller' = [caller EXCEPT ![c] = e]
        /\ row' = row /\ lastOwner' = lastOwner /\ applied' = applied
    BY <1>4 DEF ShutdownDuringReplay
  <2> HIDE DEF e
  <2> QED
    BY <1>0, <2>1, <2>2, IInvCallerTo
<1>5. CASE ApplyChange(c)
  <2>1. /\ caller' = caller /\ row' = row /\ lastOwner' = lastOwner
        /\ applied' = applied \cup {caller[c].owner}
    BY <1>5 DEF ApplyChange
  <2>2. applied' \in SUBSET Nat /\ applied \subseteq applied'
    BY <2>1, CallerFields DEF IInv, TypeOK
  <2> QED
    BY <2>1, <2>2, CallersKept, RowKept DEF IInv, TypeOK
<1>6. CASE ReplayReturns(c, ok)
  <2> DEFINE e == [caller[c] EXCEPT !.pc = "returned", !.ok = ok]
  <2>1. /\ e \in Caller /\ e.owner = caller[c].owner /\ e.pc = "returned" /\ e.ok = ok
    BY <1>0 DEF Caller, CallerPC
  <2>2. /\ caller' = [caller EXCEPT ![c] = e] /\ caller[c].pc = "replay"
        /\ row' = row /\ lastOwner' = lastOwner /\ applied' = applied
        /\ ok => caller[c].owner \in applied
    BY <1>6 DEF ReplayReturns
  <2>3. e.owner > 0
    BY <1>0, <2>1, <2>2
  <2> HIDE DEF e
  <2> QED
    BY <2>1, <2>2, <2>3, IInvCallerTo
<1>7. CASE CallerDies(c)
  <2>1. /\ caller' = [caller EXCEPT ![c] = Idle]
        /\ row' = row /\ lastOwner' = lastOwner /\ applied' = applied
    BY <1>7 DEF CallerDies
  <2> QED
    BY <2>1, IdleIsCaller, IInvCallerTo
<1> QED
  BY <1>1, <1>2, <1>3, <1>4, <1>5, <1>6, <1>7

LEMMA IInvRenew ==
    ASSUME IInv, NEW c \in Callers, RenewErrorRowRetry(c)
    PROVE  IInv'
<1>0. /\ caller[c] \in Caller /\ lastOwner' = lastOwner /\ applied' = applied
      /\ caller[c].pc \notin {"idle", "checked"} => caller[c].owner > 0
      /\ caller[c].ok => /\ caller[c].owner \in applied
                         /\ caller[c].pc \in {"returned", "finish"}
  BY CallerFields DEF RenewErrorRowRetry, IInv, CallerTokens, HonestReplay
<1>1. CASE MayRenew(c)
  <2>1. PICK lag \in 0..Lag : row' = [row EXCEPT !.left = LeaseTTL - lag]
    BY <1>1 DEF RenewErrorRowRetry, Extended
  <2>2. /\ row' \in Row /\ row'.status = row.status /\ row'.owner = row.owner
        /\ row'.attempts = row.attempts
    BY <2>1 DEF IInv, TypeOK, Row
  <2> DEFINE e == [caller[c] EXCEPT !.wait = 0]
  <2>3. /\ e \in Caller /\ e.owner = caller[c].owner /\ e.pc = caller[c].pc
        /\ e.ok = caller[c].ok
    BY <1>0 DEF Caller
  <2>4. caller' = [caller EXCEPT ![c] = e]
    BY <1>1 DEF RenewErrorRowRetry
  <2> HIDE DEF e
  <2>5. caller' \in [Callers -> Caller] /\ CallerTokens' /\ HonestReplay'
    BY <1>0, <2>3, <2>4, CallerStepKeeps
  <2>6. RowToken' /\ AttemptsCountClaims' /\ ResolvedByLastClaim'
    BY <1>0, <2>2 DEF IInv, RowToken, AttemptsCountClaims, ResolvedByLastClaim
  <2> QED
    BY <1>0, <2>2, <2>5, <2>6 DEF IInv, TypeOK
<1>2. CASE ~MayRenew(c)
  <2> DEFINE e == [caller[c] EXCEPT !.beat = "failed"]
  <2>1. /\ e \in Caller /\ e.owner = caller[c].owner /\ e.pc = caller[c].pc
        /\ e.ok = caller[c].ok
    BY <1>0 DEF Caller
  <2>2. caller' = [caller EXCEPT ![c] = e] /\ row' = row
    BY <1>2 DEF RenewErrorRowRetry
  <2> HIDE DEF e
  <2> QED
    BY <1>0, <2>1, <2>2, IInvCallerTo
<1> QED
  BY <1>1, <1>2

LEMMA IInvFinish ==
    ASSUME IInv, NEW c \in Callers, FinishErrorRowRetry(c)
    PROVE  IInv'
<1>1. /\ caller' = [caller EXCEPT ![c] = Idle] /\ lastOwner' = lastOwner /\ applied' = applied
  BY DEF FinishErrorRowRetry
<1>2. CASE MayFinish(c)
  <2>1. row.status = "retrying" /\ caller[c].owner = lastOwner
    BY <1>2 DEF MayFinish, Holds, IInv, RowToken
  <2>2. PICK st \in {"pending", "resolved"} : /\ row' = Released(st)
                                              /\ st = "resolved" => caller[c].ok
    BY <1>2 DEF FinishErrorRowRetry
  <2>3. st = "resolved" => lastOwner \in applied
    BY <2>1, <2>2 DEF IInv, HonestReplay
  <2>4. row' \in Row /\ RowToken' /\ AttemptsCountClaims' /\ ResolvedByLastClaim'
    BY <1>1, <2>1, <2>2, <2>3, ReleaseKeeps
  <2>5. caller' \in [Callers -> Caller] /\ CallerTokens' /\ HonestReplay'
    BY <1>1, IdleIsCaller, CallerStepKeeps
  <2> QED
    BY <1>1, <2>4, <2>5 DEF IInv, TypeOK
<1>3. CASE ~MayFinish(c)
  <2>1. row' = row
    BY <1>3 DEF FinishErrorRowRetry
  <2> QED
    BY <1>1, <2>1, IdleIsCaller, IInvCallerTo
<1> QED
  BY <1>2, <1>3

LEMMA IInvStep == IInv /\ [Next]_vars => IInv'
<1> SUFFICES ASSUME IInv, [Next]_vars PROVE IInv'
  OBVIOUS
<1>1. CASE UNCHANGED vars
  BY <1>1, CallersKept, RowKept DEF vars, IInv, TypeOK
<1>2. CASE Next
  BY <1>2, IInvRowSteps, IInvTick, IInvClaim, IInvCallerSteps, IInvRenew, IInvFinish
     DEF Next, CallStep
<1> QED
  BY <1>1, <1>2

LEMMA Invariance == Spec => []IInv
  BY IInvInit, IInvStep, PTL DEF Spec

\* Every variable keeps its type, for any number of callers and claims.
THEOREM TypeCorrect == Spec => []TypeOK
<1>1. IInv => TypeOK
  BY DEF IInv
<1> QED
  BY <1>1, Invariance, PTL

\* Each claim of the row is counted as exactly one attempt (ClaimErrorRowRetry,
\* finishErrorRowRetry, RecoverExpiredErrorRowRetries).
THEOREM ClaimsAreCounted == Spec => []AttemptsCountClaims
<1>1. IInv => AttemptsCountClaims
  BY DEF IInv
<1> QED
  BY <1>1, Invariance, PTL

\* Only the latest claim resolves the row, once its replay reached the target
\* (finishErrorRowRetry).
THEOREM LastClaimResolves == Spec => []ResolvedByLastClaim
<1>1. IInv => ResolvedByLastClaim
  BY DEF IInv
<1> QED
  BY <1>1, Invariance, PTL

-----------------------------------------------------------------------------
(* One replay at a time.                                                   *)

TInv == IInv /\ Timely /\ OneReplayAtATime

\* While its holder renews in time, the lease does not run out.
LEMMA RenewedLeaseRuns ==
    ASSUME TInv, Prompt, NEW c \in Callers, Renewing(c), row.status # "deleted"
    PROVE  row.status = "retrying" /\ row.owner = caller[c].owner /\ row.left > 0
<1>1. Holds(c) /\ row.left + caller[c].wait >= LeaseTTL - Lag
  BY DEF TInv, Timely
<1>2. caller[c].wait \in 0..RenewInterval
  BY DEF TInv, IInv, TypeOK, Caller
<1>3. row.left \in 0..LeaseTTL
  BY RowFields DEF TInv
<1>4. row.left > 0
  BY <1>1, <1>2, <1>3
<1> QED
  BY <1>1, <1>4 DEF Holds

\* Two callers that hold the row are one.
LEMMA OneHolder ==
    ASSUME TInv, NEW c \in Callers, NEW d \in Callers, Holds(c), Holds(d)
    PROVE  c = d
  BY RowFields DEF TInv, IInv, RowToken, CallerTokens, Holds

\* A step that leaves the row alone and makes nobody renew.
LEMMA TimelyKept ==
    ASSUME TInv, row' = row,
           \A d \in Callers : Renewing(d)' => /\ Renewing(d)
                                              /\ caller'[d].owner = caller[d].owner
                                              /\ caller'[d].wait = caller[d].wait
    PROVE  Timely' /\ OneReplayAtATime'
<1>1. OneReplayAtATime'
  BY DEF TInv, OneReplayAtATime
<1>2. Timely'
  BY DEF TInv, Timely, Holds
<1> QED
  BY <1>1, <1>2

\* The step of a caller that does not renew after it.
LEMMA TimelyKeptBy ==
    ASSUME TInv, NEW c \in Callers, NEW e \in Caller, row' = row,
           caller' = [caller EXCEPT ![c] = e],
           e.pc # "claimed", e.pc = "replay" => e.beat # "on"
    PROVE  Timely' /\ OneReplayAtATime'
<1>1. \A d \in Callers : caller'[d] = IF d = c THEN e ELSE caller[d]
  BY DEF TInv, IInv, TypeOK
<1>2. \A d \in Callers : Renewing(d)' => d # c /\ caller'[d] = caller[d]
  BY <1>1 DEF Renewing
<1>3. \A d \in Callers : Renewing(d)' => Renewing(d)
  BY <1>2 DEF Renewing
<1> QED
  BY <1>2, <1>3, TimelyKept

LEMMA TimelyInit == Init => Timely /\ OneReplayAtATime
  BY DEF Init, Idle, Timely, OneReplayAtATime, Renewing

LEMMA TimelyRowSteps ==
    ASSUME TInv, AppendErrorRow \/ DiscardErrorRow \/ DeleteRow \/ RecoverExpiredErrorRowRetries
    PROVE  Timely' /\ OneReplayAtATime'
<1>1. caller' = caller
  BY DEF AppendErrorRow, DiscardErrorRow, DeleteRow, RecoverExpiredErrorRowRetries
<1>2. \A d \in Callers : Renewing(d)' <=> Renewing(d)
  BY <1>1 DEF Renewing
<1>3. OneReplayAtATime'
  BY <1>2 DEF TInv, OneReplayAtATime
<1>4. CASE DeleteRow
  <2>1. row' = [status |-> "deleted", owner |-> 0, left |-> 0, attempts |-> row.attempts]
    BY <1>4 DEF DeleteRow, TInv, IInv, TypeOK, Row
  <2>2. row'.status = "deleted"
    BY <2>1
  <2> QED
    BY <2>2, <1>3 DEF Timely, Holds
<1>5. CASE AppendErrorRow \/ DiscardErrorRow \/ RecoverExpiredErrorRowRetries
  <2>1. row.status # "deleted" /\ ~(row.status = "retrying" /\ row.left > 0)
    BY <1>5, RowFields DEF TInv, AppendErrorRow, DiscardErrorRow, RecoverExpiredErrorRowRetries,
                           Expired, MayDiscard
  <2>2. Prompt => \A d \in Callers : ~Renewing(d)
    BY <2>1, RenewedLeaseRuns
  <2> QED
    BY <1>2, <1>3, <2>2 DEF Timely
<1> QED
  BY <1>4, <1>5

LEMMA TimelyTick ==
    ASSUME TInv, Tick
    PROVE  Timely' /\ OneReplayAtATime'
<1>1. row' = [row EXCEPT !.left = IF @ > 0 THEN @ - 1 ELSE 0]
  BY DEF Tick
<1>2. row'.status = row.status /\ row'.owner = row.owner
  BY <1>1 DEF TInv, IInv, TypeOK, Row
<1>3. row'.left = IF row.left > 0 THEN row.left - 1 ELSE 0
  BY <1>1 DEF TInv, IInv, TypeOK, Row
<1>4. caller' = [c \in Callers |-> IF Prompt /\ Renewing(c)
                                  THEN [caller[c] EXCEPT !.wait = @ + 1] ELSE caller[c]]
  BY DEF Tick
<1>5. \A c \in Callers : /\ caller'[c].pc = caller[c].pc /\ caller'[c].beat = caller[c].beat
                         /\ caller'[c].owner = caller[c].owner
  BY <1>4 DEF TInv, IInv, TypeOK, Caller
<1>6. \A c \in Callers : Renewing(c)' <=> Renewing(c)
  BY <1>5 DEF Renewing
<1>7. OneReplayAtATime'
  BY <1>6 DEF TInv, OneReplayAtATime
<1>8. Timely'
  <2> SUFFICES ASSUME Prompt, NEW c \in Callers, Renewing(c)'
               PROVE  /\ row'.status # "deleted" => Holds(c)'
                      /\ Holds(c)' => row'.left + caller'[c].wait >= LeaseTTL - Lag
    BY DEF Timely
  <2>1. Renewing(c)
    BY <1>6
  <2>2. caller'[c].wait = caller[c].wait + 1
    BY <1>4, <2>1 DEF TInv, IInv, TypeOK, Caller
  <2>3. caller[c].wait \in Nat /\ row.left \in Nat
    BY RowFields DEF TInv, IInv, TypeOK, Caller
  <2>4. Holds(c)' <=> Holds(c)
    BY <1>2, <1>5 DEF Holds
  <2>5. CASE row.status = "deleted"
    BY <1>2, <2>4, <2>5 DEF Holds
  <2>6. CASE row.status # "deleted"
    <3>1. row.left > 0
      BY <2>1, <2>6, RenewedLeaseRuns
    <3>2. row'.left = row.left - 1
      BY <1>3, <3>1
    <3>3. Holds(c) /\ row.left + caller[c].wait >= LeaseTTL - Lag
      BY <2>1, <2>6 DEF TInv, Timely
    <3>4. row'.left + caller'[c].wait = row.left + caller[c].wait
      BY <2>2, <2>3, <3>2
    <3> QED
      BY <2>4, <3>3, <3>4
  <2> QED
    BY <2>5, <2>6
<1> QED
  BY <1>7, <1>8

LEMMA TimelyClaim ==
    ASSUME TInv, NEW c \in Callers, ClaimErrorRowRetry(c)
    PROVE  Timely' /\ OneReplayAtATime'
<1>1. ASSUME MayClaim, caller' = [caller EXCEPT ![c] = Claimed(lastOwner + 1)],
             NEW lag \in 0..Lag,
             row' = [status |-> "retrying", owner |-> lastOwner + 1, left |-> LeaseTTL - lag,
                     attempts |-> IF row.status = "retrying" THEN row.attempts + 1
                                  ELSE row.attempts]
      PROVE  Timely' /\ OneReplayAtATime'
  <2>1. row.status # "deleted" /\ ~(row.status = "retrying" /\ row.left > 0)
    BY <1>1, RowFields DEF MayClaim, Expired, TInv
  <2>2. Prompt => \A d \in Callers : ~Renewing(d)
    BY <2>1, RenewedLeaseRuns
  <2>3. /\ \A d \in Callers \ {c} : caller'[d] = caller[d]
        /\ caller'[c].owner = lastOwner + 1 /\ caller'[c].wait = 0
    BY <1>1 DEF TInv, IInv, TypeOK, Claimed
  <2>4. \A d \in Callers \ {c} : Renewing(d)' <=> Renewing(d)
    BY <2>3 DEF Renewing
  <2>5. Prompt => \A d \in Callers : Renewing(d)' => d = c
    BY <2>2, <2>4
  <2>6. OneReplayAtATime'
    BY <2>5 DEF OneReplayAtATime
  <2>7. row'.status = "retrying" /\ row'.owner = lastOwner + 1 /\ row'.left = LeaseTTL - lag
    BY <1>1
  <2>8. Holds(c)' /\ row'.left + caller'[c].wait >= LeaseTTL - Lag
    BY <2>3, <2>7 DEF Holds
  <2> QED
    BY <2>5, <2>6, <2>8 DEF Timely
<1>2. ASSUME caller' = [caller EXCEPT ![c] = Idle], row' = row
      PROVE  Timely' /\ OneReplayAtATime'
  BY <1>2, IdleIsCaller, TimelyKeptBy
<1> QED
  BY <1>1, <1>2 DEF ClaimErrorRowRetry

LEMMA TimelyReadClaim ==
    ASSUME TInv, NEW c \in Callers, ReadClaim(c)
    PROVE  Timely' /\ OneReplayAtATime'
<1>1. row' = row /\ caller[c].pc = "claimed" /\ Renewing(c)
  BY DEF ReadClaim, Renewing
<1>2. CASE caller' = [caller EXCEPT ![c] = Idle]
  BY <1>1, <1>2, IdleIsCaller, TimelyKeptBy
<1>3. CASE caller' = [caller EXCEPT ![c] = [@ EXCEPT !.pc = "replay", !.beat = "on"]]
  <2>1. \A d \in Callers : /\ d # c => caller'[d] = caller[d]
                           /\ caller'[d].owner = caller[d].owner
                           /\ caller'[d].wait = caller[d].wait
    BY <1>3 DEF TInv, IInv, TypeOK, Caller
  <2>2. \A d \in Callers : Renewing(d)' => Renewing(d)
    BY <1>1, <2>1 DEF Renewing
  <2> QED
    BY <1>1, <2>1, <2>2, TimelyKept
<1> QED
  BY <1>2, <1>3 DEF ReadClaim

LEMMA TimelyRenew ==
    ASSUME TInv, NEW c \in Callers, RenewErrorRowRetry(c)
    PROVE  Timely' /\ OneReplayAtATime'
<1>0. caller[c] \in Caller
  BY CallerFields DEF TInv
<1>1. CASE MayRenew(c)
  <2>1. PICK lag \in 0..Lag : row' = [row EXCEPT !.left = LeaseTTL - lag]
    BY <1>1 DEF RenewErrorRowRetry, Extended
  <2>2. row'.status = row.status /\ row'.owner = row.owner /\ row'.left = LeaseTTL - lag
    BY <2>1 DEF TInv, IInv, TypeOK, Row
  <2>3. \A d \in Callers : /\ d # c => caller'[d] = caller[d]
                           /\ caller'[d].pc = caller[d].pc /\ caller'[d].beat = caller[d].beat
                           /\ caller'[d].owner = caller[d].owner
    BY <1>1 DEF RenewErrorRowRetry, TInv, IInv, TypeOK, Caller
  <2>4. caller'[c].wait = 0
    BY <1>0, <1>1 DEF RenewErrorRowRetry, TInv, IInv, TypeOK, Caller
  <2>5. \A d \in Callers : (Renewing(d)' <=> Renewing(d)) /\ (Holds(d)' <=> Holds(d))
    BY <2>2, <2>3 DEF Renewing, Holds
  <2>6. OneReplayAtATime'
    BY <2>5 DEF TInv, OneReplayAtATime
  <2>7. \A d \in Callers : Holds(d) => d = c
    BY <1>1, OneHolder DEF MayRenew
  <2>8. Timely'
    <3> SUFFICES ASSUME Prompt, NEW d \in Callers, Renewing(d)'
                 PROVE  /\ row'.status # "deleted" => Holds(d)'
                        /\ Holds(d)' => row'.left + caller'[d].wait >= LeaseTTL - Lag
      BY DEF Timely
    <3>1. row'.status # "deleted" => Holds(d)'
      BY <2>2, <2>5 DEF TInv, Timely
    <3>2. Holds(d)' => d = c
      BY <2>5, <2>7
    <3>3. LeaseTTL - lag + 0 >= LeaseTTL - Lag
      OBVIOUS
    <3> QED
      BY <2>2, <2>4, <3>1, <3>2, <3>3
  <2> QED
    BY <2>6, <2>8
<1>2. CASE ~MayRenew(c)
  <2> DEFINE e == [caller[c] EXCEPT !.beat = "failed"]
  <2>1. e \in Caller /\ e.pc \in {"replay", "returned"} /\ e.beat = "failed"
    BY <1>0 DEF RenewErrorRowRetry, Caller
  <2>2. caller' = [caller EXCEPT ![c] = e] /\ row' = row
    BY <1>2 DEF RenewErrorRowRetry
  <2> HIDE DEF e
  <2> QED
    BY <2>1, <2>2, TimelyKeptBy
<1> QED
  BY <1>1, <1>2

LEMMA TimelyFinish ==
    ASSUME TInv, NEW c \in Callers, FinishErrorRowRetry(c)
    PROVE  Timely' /\ OneReplayAtATime'
<1>1. caller' = [caller EXCEPT ![c] = Idle] /\ caller[c].pc = "finish"
  BY DEF FinishErrorRowRetry
<1>2. CASE MayFinish(c)
  <2>1. row.status # "deleted"
    BY <1>2 DEF MayFinish, Holds
  <2>2. Prompt => \A d \in Callers : ~Renewing(d)
    <3> SUFFICES ASSUME Prompt, NEW d \in Callers, Renewing(d) PROVE FALSE
      OBVIOUS
    <3>1. Holds(d)
      BY <2>1, RenewedLeaseRuns DEF Holds
    <3>2. d = c
      BY <1>2, <3>1, OneHolder DEF MayFinish
    <3> QED
      BY <1>1, <3>2 DEF Renewing
  <2>3. \A d \in Callers : caller'[d] = IF d = c THEN Idle ELSE caller[d]
    BY <1>1 DEF TInv, IInv, TypeOK
  <2>4. \A d \in Callers : Renewing(d)' => Renewing(d)
    BY <2>3, IdleIsCaller DEF Renewing
  <2> QED
    BY <2>2, <2>4 DEF Timely, OneReplayAtATime
<1>3. CASE ~MayFinish(c)
  <2>1. row' = row
    BY <1>3 DEF FinishErrorRowRetry
  <2> QED
    BY <1>1, <2>1, IdleIsCaller, TimelyKeptBy
<1> QED
  BY <1>2, <1>3

LEMMA TimelyCallerSteps ==
    ASSUME TInv, NEW c \in Callers, NEW ok \in BOOLEAN,
           \/ CheckErrorRow(c) \/ JoinHeartbeat(c) \/ ShutdownDuringReplay(c)
           \/ ApplyChange(c) \/ ReplayReturns(c, ok) \/ CallerDies(c)
    PROVE  Timely' /\ OneReplayAtATime'
<1>0. caller[c] \in Caller /\ caller[c].ok \in BOOLEAN
  BY CallerFields DEF TInv
<1>1. CASE CheckErrorRow(c)
  <2> DEFINE e == [caller[c] EXCEPT !.pc = "checked"]
  <2>1. e \in Caller /\ e.pc = "checked"
    BY <1>0 DEF Caller, CallerPC
  <2>2. caller' = [caller EXCEPT ![c] = e] /\ row' = row
    BY <1>1 DEF CheckErrorRow
  <2> HIDE DEF e
  <2> QED
    BY <2>1, <2>2, TimelyKeptBy
<1>2. CASE JoinHeartbeat(c)
  <2> DEFINE e == [caller[c] EXCEPT !.pc = "finish", !.beat = "off",
                                    !.ok = caller[c].ok /\ caller[c].beat = "on"]
  <2>1. e \in Caller /\ e.pc = "finish"
    BY <1>0 DEF Caller, CallerPC
  <2>2. caller' = [caller EXCEPT ![c] = e] /\ row' = row
    BY <1>2 DEF JoinHeartbeat
  <2> HIDE DEF e
  <2> QED
    BY <2>1, <2>2, TimelyKeptBy
<1>3. CASE ShutdownDuringReplay(c)
  <2> DEFINE e == [caller[c] EXCEPT !.beat = "failed"]
  <2>1. e \in Caller /\ e.pc \in {"replay", "returned"} /\ e.beat = "failed"
    BY <1>0, <1>3 DEF ShutdownDuringReplay, Caller
  <2>2. caller' = [caller EXCEPT ![c] = e] /\ row' = row
    BY <1>3 DEF ShutdownDuringReplay
  <2> HIDE DEF e
  <2> QED
    BY <2>1, <2>2, TimelyKeptBy
<1>4. CASE ApplyChange(c)
  <2>1. caller' = caller /\ row' = row
    BY <1>4 DEF ApplyChange
  <2>2. \A d \in Callers : Renewing(d)' <=> Renewing(d)
    BY <2>1 DEF Renewing
  <2> QED
    BY <2>1, <2>2, TimelyKept
<1>5. CASE ReplayReturns(c, ok)
  <2> DEFINE e == [caller[c] EXCEPT !.pc = "returned", !.ok = ok]
  <2>1. e \in Caller /\ e.pc = "returned"
    BY <1>0 DEF Caller, CallerPC
  <2>2. caller' = [caller EXCEPT ![c] = e] /\ row' = row
    BY <1>5 DEF ReplayReturns
  <2> HIDE DEF e
  <2> QED
    BY <2>1, <2>2, TimelyKeptBy
<1>6. CASE CallerDies(c)
  BY <1>6, IdleIsCaller, TimelyKeptBy DEF CallerDies
<1> QED
  BY <1>1, <1>2, <1>3, <1>4, <1>5, <1>6

LEMMA TInvStep == TInv /\ [Next]_vars => TInv'
<1> SUFFICES ASSUME TInv, [Next]_vars PROVE TInv'
  OBVIOUS
<1>1. IInv'
  BY IInvStep DEF TInv
<1>2. CASE UNCHANGED vars
  <2>1. row' = row /\ caller' = caller
    BY <1>2 DEF vars
  <2>2. \A d \in Callers : Renewing(d)' <=> Renewing(d)
    BY <2>1 DEF Renewing
  <2> QED
    BY <1>1, <2>1, <2>2, TimelyKept DEF TInv
<1>3. CASE Next
  <2>1. Timely' /\ OneReplayAtATime'
    BY <1>3, TimelyRowSteps, TimelyTick, TimelyClaim, TimelyReadClaim, TimelyRenew,
       TimelyFinish, TimelyCallerSteps DEF Next, CallStep
  <2> QED
    BY <1>1, <2>1 DEF TInv
<1> QED
  BY <1>2, <1>3

\* As long as no process is suspended for longer than the renewal interval, which together
\* with the age of a statement's nowMillis is shorter than the lease, two callers never
\* replay the row at once (maintainErrorRowRetryLease, ClaimErrorRowRetry).
THEOREM ReplaysExclude == Spec => []OneReplayAtATime
<1>1. Init => TInv
  BY IInvInit, TimelyInit DEF TInv
<1>2. TInv => OneReplayAtATime
  BY DEF TInv
<1> QED
  BY <1>1, <1>2, TInvStep, PTL DEF Spec

-----------------------------------------------------------------------------
(* Settled rows.                                                           *)

\* Only a row in retry has a lease.
LeaseOfRetry == row.status # "retrying" => row.left = 0

SInv == IInv /\ LeaseOfRetry

\* What a step of the program does to the row.
RowStep ==
    \/ row' = row
    \/ row.status \in {"none", "pending", "retrying"} /\ row'.status = "retrying"
    \/ /\ row.status \in {"none", "pending"}
       /\ row'.status \in {"pending", "discarded"} /\ row'.left = 0
    \/ row.status = "retrying" /\ row'.status \in {"pending", "resolved"} /\ row'.left = 0
    \/ row'.status = "deleted" /\ row'.left = 0

LEMMA EveryRowStep == SInv /\ [Next]_vars => RowStep
<1> SUFFICES ASSUME SInv, [Next]_vars PROVE RowStep
  OBVIOUS
<1>0. row \in Row
  BY DEF SInv, IInv, TypeOK
<1>1. CASE AppendErrorRow \/ DiscardErrorRow
  BY <1>0, <1>1 DEF AppendErrorRow, DiscardErrorRow, MayDiscard, RowStep, SInv, LeaseOfRetry, Row
<1>2. CASE DeleteRow
  <2>1. row' = [status |-> "deleted", owner |-> 0, left |-> 0, attempts |-> row.attempts]
    BY <1>0, <1>2 DEF DeleteRow, Row
  <2> QED
    BY <2>1 DEF RowStep
<1>3. ASSUME NEW st \in {"pending", "resolved"}, row.status = "retrying", row' = Released(st)
      PROVE  RowStep
  <2>1. row' = [status |-> st, owner |-> 0, left |-> 0, attempts |-> row.attempts + 1]
    BY <1>0, <1>3 DEF Released, Row
  <2> QED
    BY <1>3, <2>1 DEF RowStep
<1>4. CASE RecoverExpiredErrorRowRetries
  BY <1>3, <1>4 DEF RecoverExpiredErrorRowRetries, Expired
<1>5. CASE Tick
  <2>1. row' = [row EXCEPT !.left = IF row.left > 0 THEN row.left - 1 ELSE 0]
    BY <1>5 DEF Tick
  <2>2. CASE row.status = "retrying"
    BY <1>0, <2>1, <2>2 DEF RowStep, Row
  <2>3. CASE row.status # "retrying"
    <3>1. row.left = 0
      BY <2>3 DEF SInv, LeaseOfRetry
    <3> QED
      BY <1>0, <2>1, <3>1 DEF RowStep, Row
  <2> QED
    BY <2>2, <2>3
<1>6. ASSUME NEW c \in Callers, ClaimErrorRowRetry(c) PROVE RowStep
  BY <1>6 DEF ClaimErrorRowRetry, MayClaim, Expired, RowStep
<1>7. ASSUME NEW c \in Callers, RenewErrorRowRetry(c) PROVE RowStep
  BY <1>0, <1>7 DEF RenewErrorRowRetry, MayRenew, Holds, RowStep, Row
<1>8. ASSUME NEW c \in Callers, FinishErrorRowRetry(c) PROVE RowStep
  <2>1. CASE MayFinish(c)
    BY <1>3, <1>8, <2>1 DEF FinishErrorRowRetry, MayFinish, Holds
  <2>2. CASE ~MayFinish(c)
    BY <1>8, <2>2 DEF FinishErrorRowRetry, RowStep
  <2> QED
    BY <2>1, <2>2
<1>9. ASSUME NEW c \in Callers, NEW ok \in BOOLEAN,
             \/ CheckErrorRow(c) \/ ReadClaim(c) \/ JoinHeartbeat(c) \/ ShutdownDuringReplay(c)
             \/ ApplyChange(c) \/ ReplayReturns(c, ok) \/ CallerDies(c)
      PROVE  RowStep
  BY <1>9 DEF CheckErrorRow, ReadClaim, JoinHeartbeat, ShutdownDuringReplay, ApplyChange,
              ReplayReturns, CallerDies, RowStep
<1>10. CASE UNCHANGED vars
  BY <1>10 DEF vars, RowStep
<1> QED
  BY <1>1, <1>2, <1>4, <1>5, <1>6, <1>7, <1>8, <1>9, <1>10 DEF Next, CallStep

LEMMA SInvStep == SInv /\ [Next]_vars => SInv'
<1> SUFFICES ASSUME SInv, [Next]_vars PROVE SInv'
  OBVIOUS
<1>1. IInv'
  BY IInvStep DEF SInv
<1>2. RowStep
  BY EveryRowStep
<1>3. LeaseOfRetry'
  BY <1>2 DEF RowStep, SInv, LeaseOfRetry
<1> QED
  BY <1>1, <1>3 DEF SInv

\* A settled row stays settled until it is deleted, and nobody discards a row that is being
\* retried (finishErrorRowRetry, UpdateErrorRowStatus).
THEOREM SettledStays == Spec => SettledRowsStay
<1>1. Init => SInv
  BY IInvInit DEF SInv, Init, LeaseOfRetry
<1>2. SInv /\ [Next]_vars =>
         [/\ row.status \in {"resolved", "discarded"} => row' = row \/ row'.status = "deleted"
          /\ row.status = "retrying" => row'.status # "discarded"]_vars
  BY EveryRowStep DEF RowStep
<1> QED
  BY <1>1, <1>2, SInvStep, PTL DEF Spec, SettledRowsStay

-----------------------------------------------------------------------------
(* The refinement.                                                         *)

\* A step of the row, or of the target, is a step of the abstract task; a call that finds
\* itself too late, renews, or only waits is a stutter of it.
LEMMA TaskStep ==
    ASSUME IInv, [Next]_vars
    PROVE  [Task!Next]_(Task!tvars)
<1> USE DEF Task!Next, Task!tvars
<1>0. /\ row \in Row /\ lastOwner \in Nat /\ row.attempts \in Nat
      /\ row.status \in Statuses
  BY RowFields DEF IInv, TypeOK
<1>1. CASE AppendErrorRow
  BY <1>0, <1>1 DEF AppendErrorRow, Row, Task!Open
<1>2. CASE DiscardErrorRow
  BY <1>0, <1>2 DEF DiscardErrorRow, MayDiscard, Row, Task!Discard
<1>3. CASE DeleteRow
  BY <1>0, <1>3 DEF DeleteRow, Row, Task!Delete
<1>4. CASE RecoverExpiredErrorRowRetries
  <2>1. /\ row.status = "retrying" /\ row'.status = "pending"
        /\ row'.attempts = row.attempts + 1
    BY <1>0, <1>4 DEF RecoverExpiredErrorRowRetries, Expired, Released, Row
  <2> QED
    BY <1>4, <2>1 DEF RecoverExpiredErrorRowRetries, Task!GiveBack
<1>5. CASE Tick
  BY <1>0, <1>5 DEF Tick, Row
<1>6. ASSUME NEW c \in Callers, ClaimErrorRowRetry(c)
      PROVE  Task!Claim \/ UNCHANGED Task!tvars
  BY <1>0, <1>6 DEF ClaimErrorRowRetry, MayClaim, Expired, Task!Claim
<1>7. ASSUME NEW c \in Callers, RenewErrorRowRetry(c) PROVE UNCHANGED Task!tvars
  BY <1>0, <1>7 DEF RenewErrorRowRetry, Row
<1>8. ASSUME NEW c \in Callers, FinishErrorRowRetry(c)
      PROVE  Task!GiveBack \/ Task!Complete \/ UNCHANGED Task!tvars
  <2>1. CASE MayFinish(c)
    <3>1. row.status = "retrying" /\ caller[c].owner = lastOwner
      BY <2>1 DEF MayFinish, Holds, IInv, RowToken
    <3>2. PICK st \in {"pending", "resolved"} : /\ row' = Released(st)
                                                /\ st = "resolved" => caller[c].ok
      BY <1>8, <2>1 DEF FinishErrorRowRetry
    <3>3. row'.status = st /\ row'.attempts = row.attempts + 1
      BY <1>0, <3>2 DEF Released, Row
    <3>4. st = "resolved" => lastOwner \in applied
      BY <3>1, <3>2 DEF IInv, HonestReplay
    <3>5. lastOwner' = lastOwner /\ applied' = applied
      BY <1>8 DEF FinishErrorRowRetry
    <3> QED
      BY <3>1, <3>2, <3>3, <3>4, <3>5 DEF Task!GiveBack, Task!Complete
  <2>2. CASE ~MayFinish(c)
    BY <1>8, <2>2 DEF FinishErrorRowRetry
  <2> QED
    BY <2>1, <2>2
<1>9. ASSUME NEW c \in Callers, ApplyChange(c) PROVE \E t \in 1..lastOwner : Task!TakeEffect(t)
  <2>1. caller[c].owner \in 1..lastOwner
    BY <1>0, <1>9, CallerFields DEF ApplyChange, IInv, CallerTokens
  <2> QED
    BY <1>9, <2>1 DEF ApplyChange, Task!TakeEffect
<1>10. ASSUME NEW c \in Callers, NEW ok \in BOOLEAN,
              \/ CheckErrorRow(c) \/ ReadClaim(c) \/ JoinHeartbeat(c) \/ ShutdownDuringReplay(c)
              \/ ReplayReturns(c, ok) \/ CallerDies(c)
       PROVE  UNCHANGED Task!tvars
  BY <1>10 DEF CheckErrorRow, ReadClaim, JoinHeartbeat, ShutdownDuringReplay, ReplayReturns,
               CallerDies
<1>11. CASE UNCHANGED vars
  BY <1>11 DEF vars
<1> QED
  BY <1>1, <1>2, <1>3, <1>4, <1>5, <1>6, <1>7, <1>8, <1>9, <1>10, <1>11 DEF Next, CallStep

\* The store, the callers and the recovery implement a task with fenced claims, for any
\* number of callers and whatever becomes of their leases.
THEOREM RetryImplementsFencedTask == Spec => TaskSpec
<1>1. Init => Task!Init
  BY DEF Init, Task!Init
<1>2. IInv /\ [Next]_vars => [Task!Next]_(Task!tvars)
  BY TaskStep
<1> QED
  BY <1>1, <1>2, Invariance, PTL DEF Spec, TaskSpec, Task!Spec
=============================================================================
