SPECIFICATION Spec
CONSTANTS
    Jobs = {j1}
    Runs = {r1, r2}
    Managers = {app, w1}
    Workers = {w1}
    Clients = {app}
    Forbid = {}
    Snapshot = {j1}
    AutoResume = {j1}
    MaxConcurrentRuns = 2
    StaleAfter = 1
    MaxPlan = 1
    MaxBatch = 1
    MaxStops = 1
    None = None
SYMMETRY Symmetry
INVARIANTS
    TypeOK
    OneActiveRunPerJob
    OwnerTokens
    SeenCheckpointIsStored
    PauseOnlyAfterOwnFailure
    PurgedJobLeavesNothing
PROPERTIES
    FencedSpec
    AutoResumeRespectsCancel
    CheckpointFenced
    RunHistoryIsFinal
CHECK_DEADLOCK FALSE
