SPECIFICATION Spec
CONSTANTS
    NBlocks = 2
    NPages = 2
    NVirt = 2
    NSecs = 2
    NBufs = 2
    LowBlocks = 1
    GcBlocks = 1
    Vals = {a}
    Junk = Junk
    None = None
    Empty = Empty
    Torn = Torn
    MaxId = 4
    Faults = {"read_error", "restart"}
CONSTRAINT AllRead
CHECK_DEADLOCK FALSE
INVARIANTS UftlInv ReadsLatest
