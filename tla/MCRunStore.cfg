SPECIFICATION Spec
CONSTANTS
    Run = {r1}
    Reader = {v1, v2}
    MaxEvents = 3
    MaxMishaps = 2
INVARIANTS
    StaleIsFinal
    PassLeavesNoOrphan
    OutcomeStandsForLaterPasses
    TornHasAWriter
SYMMETRY ReaderSymmetry
CHECK_DEADLOCK FALSE
