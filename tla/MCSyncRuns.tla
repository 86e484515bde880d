----------------------------- MODULE MCSyncRuns -----------------------------
(* Small instances of SyncRuns.                                            *)
EXTENDS SyncRuns, TLC

\* Run ids are only compared for equality, so runs are interchangeable.  The runs
\* that check liveness do not use it.
Symmetry == Permutations(Runs)
=============================================================================
