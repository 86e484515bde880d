----------------------------- MODULE FencedTask -----------------------------
(***************************************************************************)
(* What the store promises about a failed row that callers in several      *)
(* processes retry: a task that is claimed again and again, each time with *)
(* a new, larger token.  Every claim of the past may still act on the      *)
(* target, but only the last one completes the task, and not before its    *)
(* own attempt took effect.  Who the claimants are, and by what lease or   *)
(* clock they lose a claim, is not part of the promise.  ErrorRowRetry     *)
(* implements it.                                                          *)
(***************************************************************************)
EXTENDS Naturals

VARIABLES
    state,      \* the row's status
    token,      \* the last token given out
    tried,      \* claims that are over, as the row counts them
    effects     \* the tokens whose attempt took effect

tvars == <<state, token, tried, effects>>

Init == state = "none" /\ token = 0 /\ tried = 0 /\ effects = {}

Open ==
    /\ state = "none"
    /\ state' = "pending"
    /\ UNCHANGED <<token, tried, effects>>

\* A task is claimed while it is open, or taken over from its claimant.
Claim ==
    /\ \/ state = "pending" /\ tried' = tried
       \/ state = "retrying" /\ tried' = tried + 1
    /\ state' = "retrying"
    /\ token' = token + 1
    /\ UNCHANGED effects

\* A claimant gives up, or its claim is taken away.
GiveBack ==
    /\ state = "retrying"
    /\ state' = "pending" /\ tried' = tried + 1
    /\ UNCHANGED <<token, effects>>

\* Fencing does not reach the target: a claim that was lost may take effect.
TakeEffect(t) ==
    /\ effects' = effects \cup {t}
    /\ UNCHANGED <<state, token, tried>>

Complete ==
    /\ state = "retrying" /\ token \in effects
    /\ state' = "resolved" /\ tried' = tried + 1
    /\ UNCHANGED <<token, effects>>

Discard ==
    /\ state = "pending"
    /\ state' = "discarded"
    /\ UNCHANGED <<token, tried, effects>>

Delete ==
    /\ state \notin {"none", "deleted"}
    /\ state' = "deleted"
    /\ UNCHANGED <<token, tried, effects>>

Next ==
    \/ Open \/ Claim \/ GiveBack \/ Complete \/ Discard \/ Delete
    \/ \E t \in 1..token : TakeEffect(t)

Spec == Init /\ [][Next]_tvars
=============================================================================
