SPECIFICATION Spec
CONSTANTS
    Job = {j1, j2}
    Saver = {s1, s2}
    MaxVersions = 2
    MaxEdits = 3
    MaxRuns = 1
    MaxMishaps = 1
SYMMETRY Interchangeable
INVARIANTS
    TimerMatchesJob
    FileFollowsMap
    RemovalSticks
PROPERTIES
    SavesAreAtomic
CHECK_DEADLOCK FALSE
