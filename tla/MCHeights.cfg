SPECIFICATION FairSpec
CONSTANTS
    Workers = {w1, w2}
    InitialTopo = 3
    MaxTopo = 5
    StoredHeight = 0
    starting_height = 1
    ending_height = 0
    ZeroAnswers = FALSE
INVARIANT TypeOK
INVARIANT OneOwner
INVARIANT PassHandsOver
INVARIANT NoPanic
PROPERTY InitialRangeHandled
PROPERTY CatchesUp
CHECK_DEADLOCK FALSE
