SPECIFICATION Spec
CONSTANTS
    Keys = {3, 4, 5}
    Values = {1, 7}
    MaxNumber = 7
    Mantissa = 2
    Flags = {TRUE, FALSE}
    InstallHeight = 1
    MaxHeight = 3
    NameService = TRUE
INVARIANT TypeOK
INVARIANT NoFutureValues
INVARIANT ExistingVariablesExact
INVARIANT NewestQueryExact
