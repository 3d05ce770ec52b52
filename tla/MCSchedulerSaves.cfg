SPECIFICATION Spec
CONSTANTS
    Job = {j1, j2}
    Saver = {s1, s2}
    MaxVersions = 2
    MaxEdits = 3
    MaxRuns = 2
    MaxMishaps = 2
INVARIANTS
    JobsFileIsWhole
CHECK_DEADLOCK FALSE
