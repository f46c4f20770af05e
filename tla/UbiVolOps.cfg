SPECIFICATION Spec
CONSTANTS
    Clients = {c1, c2}
    Vols = {0, 1}
    Names = {a, b}
    None = None
    MaxSize = 2
    DataLebs <- McLebs
    GoodPebs = 7
    MaxBad = 2
    Fixed = 4
    BebLevel = 1
    Ops = {"open", "create", "remove", "resize", "rename", "update", "show", "cut"}
    Faults = TRUE
SYMMETRY Symm
INVARIANTS VolInv TableDurable TablesMatch NoStaleData
