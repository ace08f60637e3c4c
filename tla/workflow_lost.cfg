SPECIFICATION Spec
CONSTANTS
    Requests = {r1, r2}
    MaxRounds = 2
    MaxResumes = 3
    MaxEvidence = 1
    MaxCrashes = 0
    MaxFailures = 0
INVARIANT AcceptedIsRecorded
