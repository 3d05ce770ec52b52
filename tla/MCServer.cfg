SPECIFICATION ResponsiveSpec
CONSTANTS
    Task = {t1, t2}
    Stored = {t1}
    Drainer = {shutdown}
    MaxConcurrent = 1
    MaxQueueSize = 0
    MaxEvents = 3
    MaxFaults = 1
    MaxHistory = 1
INVARIANTS
    SlotFollowsRun
    LogFollowsBroadcast
    OutcomeIsDurable
    ExitCutsOffNoOwner
PROPERTIES
    KeepsQueueContract
    RunsAreRecorded
CHECK_DEADLOCK FALSE
