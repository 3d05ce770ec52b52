SPECIFICATION Spec
CONSTANTS
    Call = c
    Run = {c}
    None = none
    Concurrent = FALSE
    MaxDeltas = 2
INVARIANTS
    NothingMissed
    NoProcessLeft
    SnapshotIsFinal
    ResultIsWitnessed
PROPERTIES
    TimeoutEndsAll
CHECK_DEADLOCK FALSE
