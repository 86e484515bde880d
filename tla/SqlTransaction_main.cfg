SPECIFICATION FairSpec
CONSTANTS
    Runs = {r1, r2}
    None = None
    MaxReloads = 1
INVARIANTS
    TypeOK
    NoStatementAfterEnd
    TimerOfPending
    ReleasedNeverCommits
PROPERTIES
    PendingNeverReplaced
    NoUnapprovedCommit
    ReleasedEnds
CHECK_DEADLOCK FALSE
