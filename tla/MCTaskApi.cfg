CONSTANTS
    s = s
    t = t
    None = None
    Skill = {s, t}
    ConfigRoots <- MCConfigRoots
    RequestRoots <- MCRequestRoots
    Disks <- MCDisks
    MaxCandidates = 3
    MaxSkills = 2
    MaxChanges = 1
    Input = {"need", "may", "other"}
    Required = {"need"}
    Defaulted = {"may"}
    Declared = {"need", "may"}
SPECIFICATION Spec
INVARIANTS
    NothingUnfitRuns
    ScopeHoldsOnEveryPath
    MissingRootIsNamed
    ResolutionIsExact
CHECK_DEADLOCK FALSE
