CONSTANTS
    Entries <- MCEntries
    HashKeys = {2, 3}
    DataKeys = {4, 5}
    Seeds <- MCSeeds
    Fanout = 3
    LebCnt = 3
    Slots = 2
    MaxOps = 2
    MaxCommits = 2
    MaxCuts = 1
    MaxBackground = 1
SPECIFICATION Spec
INVARIANTS
    IndexIsMap
    TncInv
    ReaddirResumes
PROPERTIES
    SavesSnapshots
CHECK_DEADLOCK FALSE
