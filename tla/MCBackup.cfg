CONSTANTS
    MaxTopo = 3
    Txs = {1}
    day_of_blocks = 1
    Goroutines = {g1, g2}
    MaxCrashes = 1
    Errors = TRUE
SPECIFICATION Spec
INVARIANTS
    TypeOK
    BackupCovers
    ProtectedCopy
PROPERTY
    BackupReturns
