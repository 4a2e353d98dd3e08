CONSTANTS
    Contracts <- MCContracts
    ListedAt <- MCListedAt
    Registered <- MCRegistered
    Block_Height <- MCBlock_Height
    Skipped = {"s"}
    Outcome <- MCOutcome
    starting_height = 1
    FirstTopo = 6
    MaxTopo = 7
    Quarter = 3
    Workers = {w1, w2}
    Retries = 0
    ImportSize = 1
    QueueSize = 1
    StagedSize = 1
    MaxStops = 1
    MaxBad = 1
SPECIFICATION Spec
INVARIANTS
    TypeOK
    ImportsHandedOn
    ResumesComplete
PROPERTIES
    InvalidKept
    FastSyncEnds
CHECK_DEADLOCK FALSE
