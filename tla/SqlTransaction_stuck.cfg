SPECIFICATION Spec
CONSTANTS
    Runs = {r1, r2}
    None = None
    MaxReloads = 0
INVARIANT AutoIsProgressing
CHECK_DEADLOCK FALSE
