SPECIFICATION Spec
CONSTANTS
    Slots = 2
    Exact = TRUE
    Inos = {i1, i2, i3}
    OrphLebs = 2
    LebWords = 3
    MinIo = 1
    Hdr = 1
    MaxCommits = 4
    MaxCuts = 2
    MaxMounts = 2
SYMMETRY Symmetry
INVARIANTS
    MasterReadable
    OpenAreKilled
    OrphansInOrder
PROPERTY Atomic
CHECK_DEADLOCK FALSE
