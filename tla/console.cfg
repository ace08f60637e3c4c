SPECIFICATION Spec
CONSTANTS
    Threads = {t1, t2}
    NoThread = NoThread
    Slots = {1, 2}
    MaxVersion = 3
    MaxFaults = 1
INVARIANTS
    TypeOK
    ClearedIsUnfollowed
    OneThread
PROPERTIES
    CatchesUp
