SPECIFICATION FairSpec
CONSTANTS
    Task = {t1, t2, t3, t4, t5}
    Drainer = {d1}
    MaxConcurrent = 2
    MaxQueueSize = 2
INVARIANTS
    NoStrandedCaller
    NoOvertaking
    DrainedMeansIdle
PROPERTIES
    EveryCallSettles
    DrainResolves
    ImplementsSlotPool
CHECK_DEADLOCK FALSE
