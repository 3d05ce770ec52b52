SPECIFICATION AdapterSpec
CONSTANTS
    Run = {r1, r2}
    None = none
    Concurrent = TRUE
    MaxDeltas = 0
INVARIANTS
    RunsAreIndependent
CHECK_DEADLOCK FALSE
