\* Instance for MCGraphRunner; the README says what the run shows.
CONSTANTS
    a = a
    b = b
    c = c
    d = d
    Order <- AnalysisOrder
    Deps <- AnalysisDeps
    Tolerant = {c}
    Reviewers = {d}
    Gated = {a}
    Lifecycle = FALSE
    Attempts = 2
    MaxNodes = 5
    MaxConcurrent = 2
    MaxRetries = 4
    MaxDiscovery = 1
    Meters = {"tokens"}

SPECIFICATION Spec
CHECK_DEADLOCK FALSE
INVARIANT TypeOK
INVARIANT DependentsRunOnRecordedWork
INVARIANT EngineAgreesWithRows
INVARIANT OverspendIsOneWave
PROPERTY KeepsOwnersPromise
