SPECIFICATION FairSpec
CONSTANTS
    Jobs = {j1}
    Runs = {r1, r2}
    Managers = {w1}
    Workers = {w1}
    Clients = {w1}
    Forbid = {}
    Snapshot = {}
    AutoResume = {j1}
    MaxConcurrentRuns = 1
    StaleAfter = 1
    MaxPlan = 1
    MaxBatch = 0
    MaxStops = 1
    None = None
PROPERTIES
    CancelledOrOrphanedRunEnds
    QueuedRunStarts
CHECK_DEADLOCK FALSE
