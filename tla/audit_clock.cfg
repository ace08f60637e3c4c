SPECIFICATION Spec
CONSTANTS
    c1 = c1
    c2 = c2
    NoCase = NoCase
    Sessions = {s1, s2}
    Cases <- MCCases
    Scripts <- MCScripts
    LockKeys = {1, 2}
    LockKey <- OwnKey
    Ids = {1, 2, 3, 4, 5}
    ClockSteps <- Unsteady
    ChainEnabled = TRUE
    MaxAppends = 4
INVARIANT ChainVerifies
