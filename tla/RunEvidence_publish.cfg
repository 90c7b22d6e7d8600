\* Instance for MCRunEvidence; the README says what the run shows.
CONSTANTS
    w1 = w1
    w2 = w2
    None = None
    Workers = {w1, w2}
    MaxAttempts = 2
    MaxRepairs = 1
    MaxEdits = 3
    MaxBase = 1

SPECIFICATION Spec
SYMMETRY WorkerSymmetry
CHECK_DEADLOCK FALSE
INVARIANT TypeOK
INVARIANT PushedIsRecorded
INVARIANT EvidenceNeverStrands
INVARIANT SuccessIsEarned
PROPERTY StaleWorkersRecordNothing
PROPERTY ReplanOrphansNothing
