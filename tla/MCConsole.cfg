SPECIFICATION Spec
CONSTANTS
    Task = {t1, t2}
    None = None
    MaxConcurrent = 1
    MaxInFlight = 2
    MaxDrops = 1
    MaxClicks = 2
INVARIANTS
    SelectedReplayIsPure
    LiveLogIsOfOneRun
    BubblesAreOfOneRun
    StreamingWillEnd
SYMMETRY TaskSymmetry
CHECK_DEADLOCK FALSE
