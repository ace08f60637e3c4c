SPECIFICATION Spec
CONSTANTS
    Uploads = {u1, u2}
    Deletes = {}
    Cases = {c1}
    Digests = {d1, d2}
    NoEvidence = NoEvidence
    Unknown = TRUE
    MaxFaults = 1
    MaxCrashes = 0
INVARIANT FileReallyExists
