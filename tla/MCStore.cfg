SPECIFICATION FairSpec
CONSTANTS
    Callers = {c1, c2}
    SCIDs = {"x"}
    Stages <- OneContract
INVARIANT TypeOK
INVARIANT CrashConsistent
INVARIANT NoRepeatedHeight
INVARIANT DoneRecorded
INVARIANT HeightKept
PROPERTY AddReturns
