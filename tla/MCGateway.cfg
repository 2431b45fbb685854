CONSTANTS
    t1 = t1
    t2 = t2
    Threads = {t1, t2}
    Names <- MCNames
    Tool <- MCTool
    Results <- MCResults
    Requests <- MCRequests
    Configurations <- MCConfigurations
    Limit = 2
    Period = 2
    MaxTime = 5
SPECIFICATION Spec
SYMMETRY MCSymmetry
INVARIANTS
    LimitsAreKept
    EveryCallIsAccounted
    WritesAreAnswered
    HiddenIsAbsent
