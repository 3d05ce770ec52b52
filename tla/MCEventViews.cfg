SPECIFICATION ViewsSpec
CONSTANTS
    CallId = {c1, c2}
    NoId = NoId
    MaxLog = 5
INVARIANTS
    CallsCountOnce
    TimelineIsComplete
    DisplayIsFaithful
SYMMETRY CallSymmetry
CHECK_DEADLOCK FALSE
