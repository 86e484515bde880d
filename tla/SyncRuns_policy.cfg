SPECIFICATION Spec
CONSTANTS
    Jobs = {j1, j2}
    Runs = {r1, r2}
    Managers = {w1}
    Workers = {w1}
    Clients = {w1}
    Forbid = {j1}
    Snapshot = {}
    AutoResume = {}
    MaxConcurrentRuns = 1
    StaleAfter = 1
    MaxPlan = 2
    MaxBatch = 0
    MaxStops = 0
    None = None
SYMMETRY Symmetry
INVARIANTS
    ForbidAllowsOnePendingRun
    WithinCapacity
CHECK_DEADLOCK FALSE
