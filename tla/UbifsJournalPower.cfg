SPECIFICATION Spec
CONSTANTS
    Inos = {i1, i2}
    Names = {a, b}
    MaxSize = 3
    LebCnt = 4
    LebSize = 6
    MaxWrite = 2
    MinIo = 1
    MaxOps = 2
    MaxDirty = 1
    MaxCommits = 1
    MaxCuts = 2
INVARIANTS
    MountSucceeds
    OperationsAtomic
    SyncedSurvives
    IndexInOrder
CHECK_DEADLOCK FALSE
