SPECIFICATION Spec
CONSTANTS
    PEBs = {p1, p2, p3}
    Clients = {c1}
    Bgt = bgt
    None = None
    PqLen = 1
    MaxHeld = 2
    BebRsvd = 1
    MaxErroneous = 0
    Faults = {"erase_eio", "erase_transient", "erase_other", "write_eio", "copy_target", "copy_source", "copy_error", "nomem", "bitflip"}
    Flushers = {c1}
SYMMETRY Symm
INVARIANTS WlInv
PROPERTIES KeepsPromise
