SPECIFICATION Spec
CONSTANTS
    c1 = c1
    c2 = c2
    new = new
    e1 = e1
    e2 = e2
    NoEvidence = NoEvidence
    Requests = {r1, r2, r3}
    Menu <- MCMenu
    Cases <- MCCases
    Columns = {"name", "status"}
    Values = {1, 2}
    Stored <- MCStored
    LockKey <- SharedKey
    PoolSize = 2
INVARIANTS
    TypeOK
    NoDeadlock
    ColumnsAsAudited
    NumbersNeverClash
PROPERTIES
    RequestsEnd
