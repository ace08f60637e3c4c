SPECIFICATION Spec
CONSTANTS
    Requests = {r1, r2}
    MaxRounds = 2
    MaxResumes = 3
    MaxEvidence = 1
    MaxCrashes = 1
    MaxFailures = 1
INVARIANTS
    TypeOK
    RoundsMatchHistory
    EndsAsDecided
    SummaryIsCurrent
    StrandedOnlyMidRun
