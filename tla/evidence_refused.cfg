SPECIFICATION Spec
CONSTANTS
    Uploads = {u1, u2}
    Deletes = {}
    Cases = {c1}
    Digests = {d1, d2}
    NoEvidence = NoEvidence
    Unknown = FALSE
    MaxFaults = 0
    MaxCrashes = 0
INVARIANT RefusedOnlyAsDuplicate
