CONSTANTS
    MaxTopo = 3
    Txs = {2}
    day_of_blocks = 1
    Goroutines = {g1}
    MaxCrashes = 0
    Errors = FALSE
SPECIFICATION Spec
INVARIANT IncrementalsKept
