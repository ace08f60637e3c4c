SPECIFICATION Spec
CONSTANTS
    Uploads = {u1, u2}
    Deletes = {x1, x2}
    Cases = {c1}
    Digests = {d1, d2}
    NoEvidence = NoEvidence
    Unknown = FALSE
    MaxFaults = 2
    MaxCrashes = 1
INVARIANTS
    TypeOK
    UniqueFile
    RowHasObject
    OrphansAccounted
    RefusedForCause
PROPERTIES
    ImplementsLifecycle
    UploadsSettled
