SPECIFICATION Spec
CONSTANTS
    Top = 2
    Block <- ShortChain
    Counted = {11}
    Ignored = {}
    Valid = {1, 2}
    Installs = {1}
    parallel_blocks = 2
    GOMAXPROCS = 4
    batch_size = 2
    QueueSize = 2
    MaxStops = 1
    MaxFaults = 0
INVARIANT AllIndexed
