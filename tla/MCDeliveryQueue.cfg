SPECIFICATION Spec
CONSTANTS
    Id = {a, b}
    MaxRetries = 2
    Overlap = FALSE
    MaxFails = 2
    MaxMishaps = 2
INVARIANTS
    AckSticks
    NothingLost
    RecoverIsCurrent
PROPERTIES
    ImplementsLog
CHECK_DEADLOCK FALSE
