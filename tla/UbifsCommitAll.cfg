SPECIFICATION FairSpec
CONSTANTS
    Clients = {c1}
    Bgt = bgt
    None = None
    JHeads = {j}
    LebSize = 2
    Starts = {0}
    Lens = {1, 2}
    LogRefs = 2
    CsRefs = 1
    LogLebs = 3
    SbMaxBud = 7
    Faults = TRUE
INVARIANTS CommitInv BudBytesExact
PROPERTIES LogInOrder BrokenIsFinal RequestServed
