SPECIFICATION FairSpec
CONSTANTS
    Callers = {c1, c2}
    LeaseTTL = 2
    RenewInterval = 1
    Lag = 1
    Prompt = FALSE
    MaxClaims = 3
INVARIANTS
    TypeOK
    AttemptsCountClaims
    ResolvedByLastClaim
PROPERTIES
    SettledRowsStay
    TaskSpec
    LostReplayIsCancelled
    RetryEnds
CHECK_DEADLOCK FALSE
