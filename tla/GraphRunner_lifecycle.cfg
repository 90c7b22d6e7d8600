\* Instance for MCGraphRunner; the README says what the run shows.
CONSTANTS
    a = a
    b = b
    c = c
    d = d
    Order <- ChainOrder
    Deps <- ChainDeps
    Tolerant = {}
    Reviewers = {}
    Gated = {b}
    Lifecycle = TRUE
    Attempts = 2
    MaxNodes = 5
    MaxConcurrent = 2
    MaxRetries = 2
    MaxDiscovery = 1
    Meters = {}

SPECIFICATION FairSpec
CHECK_DEADLOCK FALSE
INVARIANT FailuresAreContained
INVARIANT GatesHoldTheRun
INVARIANT ClosedRunsAccount
PROPERTY EngineEnds
PROPERTY RunEnds
