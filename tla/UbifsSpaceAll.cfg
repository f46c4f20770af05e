CONSTANTS
    LEBs = {1, 2, 3, 4, 5, 6, 7, 8}
    LebSize = 8
    Heads = {"gc", "data"}
    GCHD = "gc"
    HeadOf <- MCHeadOf
    Threads = {t1, t2}
    Requests = {"new", "change", "del"}
    Growth <- MCGrowth
    Privileged = {t1, t2}
    RpSize = 0
    Sizes = {1, 2}
    DeadWm = 1
    DarkWm = 2
    MinWrite = 1
    MinIdxNode = 1
    MinIndexLebs = 2
    HeapSize = 2
    MaxMkspcRetries = 0
    MaxRetries = 1
    SoftLimit = 1
    HardLimit = 2
    Mounts <- MCMounts
    MaxOps = 2
    MaxEvents = 1
SYMMETRY MCSymmetry
SPECIFICATION Spec
CHECK_DEADLOCK FALSE
INVARIANTS
    SpaceInv
    NothingLost
    CommitSucceeds
    BudgetedIsWritten
