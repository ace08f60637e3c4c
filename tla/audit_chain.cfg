SPECIFICATION FairSpec
CONSTANTS
    c1 = c1
    c2 = c2
    NoCase = NoCase
    Sessions = {s1, s2}
    Cases <- MCCases
    Scripts <- MCScripts
    LockKeys = {1, 2}
    LockKey <- SharedKey
    Ids = {1, 2, 3, 4, 5}
    ClockSteps <- Forward
    ChainEnabled = TRUE
    MaxAppends = 4
INVARIANTS
    TypeOK
    OneWriterPerChain
    ChainVerifies
    GapLocated
PROPERTIES
    AppendsAtTheEnd
    ImplementsTrail
    LockServed
