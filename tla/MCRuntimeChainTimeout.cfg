SPECIFICATION Spec
CONSTANTS
    Call = c
    Run = {c}
    None = none
    Concurrent = FALSE
    MaxDeltas = 1
INVARIANTS
    TimeoutTearsDown
CHECK_DEADLOCK FALSE
