SPECIFICATION FairSpec
CONSTANTS
    Jobs = {j1}
    Runs = {r1}
    Managers = {app, w1}
    Workers = {w1}
    Clients = {app}
    Forbid = {}
    Snapshot = {}
    AutoResume = {}
    MaxConcurrentRuns = 1
    StaleAfter = 1
    MaxPlan = 1
    MaxBatch = 0
    MaxStops = 0
    None = None
PROPERTIES
    StoppedJobDrains
CHECK_DEADLOCK FALSE
