SPECIFICATION Spec
CONSTANTS
    Workers = {w1, w2}
    InitialTopo = 2
    MaxTopo = 3
    StoredHeight = 0
    starting_height = 0
    ending_height = 0
    ZeroAnswers = FALSE
SYMMETRY WorkerSymmetry
INVARIANT NoBlockSkipped
CHECK_DEADLOCK FALSE
