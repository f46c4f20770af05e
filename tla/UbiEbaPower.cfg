SPECIFICATION Spec
CONSTANTS
    PEBs = {p1, p2, p3}
    LEBs = {l1}
    None = None
    Torn = Torn
    Vals = {a, b}
    MaxPages = 2
    MaxSq = 4
    IoRetries = 1
    Faults = {"power_cut", "copy_target", "first_write"}
SYMMETRY Symm
CHECK_DEADLOCK FALSE
INVARIANTS EbaInv ReadsCurrent Durable ChangeAtomic
