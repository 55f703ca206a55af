SPECIFICATION FairSpec
CONSTANTS
    MemLimit = 1
    TotalLimit = 2
    BatchLimit = 2
    Scripts <- MCScripts
    MaxConns = 3
    MaxWork = 7
    DiskFaults = TRUE
CHECK_DEADLOCK FALSE
INVARIANTS
    BufferInv
    GapIsShown
PROPERTIES
    InOrderOnce
    ShownOnce
    ResyncEnds
