SPECIFICATION Spec
CONSTANTS
    PEBs = {p1, p2, p3}
    LEBs = {l1, l2}
    None = None
    Torn = Torn
    Vals = {a}
    MaxPages = 1
    MaxSq = 4
    IoRetries = 1
    Faults = {"first_write", "append", "copy_target", "copy_readback", "put_nomem", "erase", "fatal", "last_try", "ec_header", "get_error"}
SYMMETRY Symm
CHECK_DEADLOCK FALSE
INVARIANTS TablesExclusive ReadsCurrent
