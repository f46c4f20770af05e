SPECIFICATION FairSpec
CONSTANTS
    PEBs = {p1, p2, p3}
    Clients = {c1, c2}
    Flushers = {c1}
    Bgt = bgt
    None = None
    PqLen = 1
    MaxHeld = 2
    BebRsvd = 0
    MaxErroneous = 0
    Faults = {}
PROPERTIES ErasedEventually GetReturns PutReturns
