SPECIFICATION FairSpec
CONSTANTS
    Loops = {l1, l2}
    Commands = {l2}
    None = None
    Schedules <- MCSchedules
    LeaseTTL = 1
    Backoff = 1
    SaveLag = 1
    MaxTime = 2
    MaxEdits = 1
    MaxFaults = 1
INVARIANTS
    TypeOK
    SlotRunsOnce
    CatchUpMissesNothing
PROPERTIES
    NoSlotSkipped
    ScheduleMovesForward
    DueSlotHandled
