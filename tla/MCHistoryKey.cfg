SPECIFICATION Spec
CONSTANTS
    Keys = {1, 2}
    Values = {1, 2}
    MaxNumber = 2
    Mantissa = 2
    Flags = {FALSE}
    InstallHeight = 1
    MaxHeight = 4
    NameService = FALSE
INVARIANT ValuesByKeyAtHeight
