SPECIFICATION Spec
CONSTANTS
    Callers = {c1, c2, c3}
    LeaseTTL = 3
    RenewInterval = 1
    Lag = 1
    Prompt = TRUE
    MaxClaims = 3
INVARIANTS
    OneReplayAtATime
CHECK_DEADLOCK FALSE
