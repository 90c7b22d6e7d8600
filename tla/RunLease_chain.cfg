\* Instance for MCRunLease; the README says what the run shows.
CONSTANTS
    r1 = r1
    r2 = r2
    a1 = a1
    a2 = a2
    w1 = w1
    w2 = w2
    Nobody = Nobody
    Runs = {r1, r2}
    Workers = {w1, w2}
    Agents = {a1, a2}
    AgentOf <- TwoAgents
    Prerequisites <- Chain
    Bridged = {}
    MaxAttempts = 2
    Duration = 3
    LeaseTime = 1
    Capacity = 1

SPECIFICATION Spec
SYMMETRY WorkerSymmetry
INVARIANT PrerequisitesHold
PROPERTY KeepsPromise
