-------------------------- MODULE FencedCheckpoint --------------------------
(***************************************************************************)
(* What the run store promises about a job's checkpoint: a lock per job    *)
(* whose every grant has a new, larger fencing token, and a value that     *)
(* only the current holder of the lock stamps.  SyncRuns implements it with*)
(* the owner tokens of the job's runs.                                     *)
(***************************************************************************)
EXTENDS Naturals, TLAPS

CONSTANT Jobs

VARIABLES
    issued,     \* tokens granted so far, over all jobs
    holder,     \* the token that holds the job's lock, 0 when it is free
    stamp       \* the token that last wrote the job's checkpoint, 0 when there is none

fvars == <<issued, holder, stamp>>

Init == /\ issued = 0
        /\ holder = [j \in Jobs |-> 0]
        /\ stamp = [j \in Jobs |-> 0]

Grant(j) ==
    /\ holder[j] = 0
    /\ issued' = issued + 1
    /\ holder' = [holder EXCEPT ![j] = issued + 1]
    /\ UNCHANGED stamp

\* One statement may end the runs of several jobs.
Release(S) ==
    /\ holder' = [j \in Jobs |-> IF j \in S THEN 0 ELSE holder[j]]
    /\ UNCHANGED <<issued, stamp>>

\* The holder writes the checkpoint.
Write(j) ==
    /\ holder[j] # 0
    /\ stamp' = [stamp EXCEPT ![j] = holder[j]]
    /\ UNCHANGED <<issued, holder>>

\* It is removed by the holder, or by a user while the lock is free.  Who acts is
\* not part of this state, so either case is the same step.
Clear(j) ==
    /\ stamp' = [stamp EXCEPT ![j] = 0]
    /\ UNCHANGED <<issued, holder>>

Next ==
    \/ \E j \in Jobs : Grant(j) \/ Write(j) \/ Clear(j)
    \/ \E S \in SUBSET Jobs : Release(S)

Spec == Init /\ [][Next]_fvars

\* Tokens order the writers: no checkpoint carries a token newer than the one that
\* holds the job's lock, or than any granted so far.
StampNotFromFuture ==
    \A j \in Jobs : /\ stamp[j] <= issued
                    /\ holder[j] # 0 => stamp[j] <= holder[j]

\* StampNotFromFuture is inductive once holders are known to have been issued.
StampInv ==
    /\ issued \in Nat /\ holder \in [Jobs -> Nat] /\ stamp \in [Jobs -> Nat]
    /\ \A j \in Jobs : holder[j] <= issued
    /\ StampNotFromFuture

LEMMA StampInvStep == StampInv /\ [Next]_fvars => StampInv'
<1> SUFFICES ASSUME StampInv, [Next]_fvars PROVE StampInv'
  OBVIOUS
<1> USE DEF StampInv, StampNotFromFuture
<1>1. ASSUME NEW j \in Jobs, Grant(j) PROVE StampInv'
  <2>1. holder' \in [Jobs -> Nat] /\ issued' \in Nat /\ stamp' \in [Jobs -> Nat]
    BY <1>1 DEF Grant
  <2>2. \A i \in Jobs : stamp'[i] <= issued' /\ (holder'[i] # 0 => stamp'[i] <= holder'[i])
    BY <1>1 DEF Grant
  <2>3. \A i \in Jobs : holder'[i] <= issued'
    BY <1>1 DEF Grant
  <2> QED
    BY <2>1, <2>2, <2>3
<1>2. ASSUME NEW j \in Jobs, Write(j) PROVE StampInv'
  BY <1>2 DEF Write
<1>3. ASSUME NEW j \in Jobs, Clear(j) PROVE StampInv'
  BY <1>3 DEF Clear
<1>4. ASSUME NEW S \in SUBSET Jobs, Release(S) PROVE StampInv'
  BY <1>4 DEF Release
<1>5. CASE UNCHANGED fvars
  BY <1>5 DEF fvars
<1> QED
  BY <1>1, <1>2, <1>3, <1>4, <1>5 DEF Next

\* Whatever grants, releases, writes and clears interleave, the token a checkpoint
\* carries is at most the current holder's.
THEOREM StampsAreNeverAhead == Spec => []StampNotFromFuture
<1>1. Init => StampInv
  BY DEF Init, StampInv, StampNotFromFuture
<1>2. StampInv => StampNotFromFuture
  BY DEF StampInv
<1> QED
  BY <1>1, <1>2, StampInvStep, PTL DEF Spec
=============================================================================
