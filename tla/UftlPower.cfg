SPECIFICATION Spec
CONSTANTS
    NBlocks = 3
    NPages = 2
    NVirt = 2
    NSecs = 1
    NBufs = 1
    LowBlocks = 2
    GcBlocks = 2
    Vals = {a, b}
    Junk = Junk
    None = None
    Empty = Empty
    Torn = Torn
    MaxId = 3
    Faults = {"cut", "unmap_undone"}
SYMMETRY Symm
CONSTRAINT NoReads
CHECK_DEADLOCK FALSE
INVARIANTS FlushedSurvives RecyclingEnds
