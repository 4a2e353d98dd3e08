SPECIFICATION FairSpec
CONSTANTS
    Top = 3
    Block <- Chain
    Counted = {11}
    Ignored = {31}
    Valid = {1, 2}
    Installs = {1, 21}
    parallel_blocks = 2
    GOMAXPROCS = 4
    batch_size = 2
    QueueSize = 1
    MaxStops = 1
    MaxFaults = 1
INVARIANT TypeOK
INVARIANT Conservation
INVARIANT AllAccounted
PROPERTY EventuallyIndexed
PROPERTY ImplementsIndex
