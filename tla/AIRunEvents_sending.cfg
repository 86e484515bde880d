SPECIFICATION FairSpec
CONSTANTS
    None = None
    MaxEvents = 4
    PageSize = 2
    MaxOpens = 0
    MaxLag = 1
PROPERTIES
    SendingEnds
CHECK_DEADLOCK FALSE
