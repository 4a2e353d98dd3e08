SPECIFICATION Spec
CONSTANTS
    Blocks = {"b1", "b2", "b3"}
    Miners = {"x", "y"}
    MinersOf <- ThreeBlocks
    MaxStops = 2
INVARIANT TypeOK
INVARIANT TotalsMatchDetails
INVARIANT CountNeverAhead
CHECK_DEADLOCK FALSE
