\* Instance for MCRunLease; the README says what the run shows.
CONSTANTS
    r1 = r1
    r2 = r2
    a1 = a1
    a2 = a2
    w1 = w1
    w2 = w2
    Nobody = Nobody
    Runs = {r1}
    Workers = {w1, w2}
    Agents = {a1}
    AgentOf <- OneRun
    Prerequisites <- NoPrerequisites
    Bridged = {}
    MaxAttempts = 2
    Duration = 4
    LeaseTime = 2
    Capacity = 1

SPECIFICATION FairSpec
PROPERTY StartedRunsSettle
PROPERTY CancellationsComplete
