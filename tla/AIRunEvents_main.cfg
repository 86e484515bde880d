SPECIFICATION FairSpec
CONSTANTS
    None = None
    MaxEvents = 4
    PageSize = 2
    MaxOpens = 1
    MaxLag = 1
INVARIANTS
    TypeOK
    CauseShown
PROPERTIES
    TurnsShown
    GapFills
    EndProjected
CHECK_DEADLOCK FALSE
