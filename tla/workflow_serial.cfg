SPECIFICATION Spec
CONSTANTS
    Requests = {r1}
    MaxRounds = 3
    MaxResumes = 6
    MaxEvidence = 1
    MaxCrashes = 1
    MaxFailures = 1
INVARIANTS
    AcceptedIsRecorded
PROPERTIES
    ImplementsReview
    DecisionsCarriedOut
