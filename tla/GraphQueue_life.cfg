\* Instance for MCGraphQueue; the README says what the run shows.
CONSTANTS
    w1 = w1
    w2 = w2
    Workers = {w1, w2}
    Gates = {1, 2, 3}
    Kind <- EveryKind
    Design = {1}
    MaxRuns = 4
    MaxFailed = 2

SPECIFICATION FairSpec
CHECK_DEADLOCK FALSE
INVARIANT OneRunAtATime
INVARIANT AnswersAdvance
INVARIANT ApprovedOnStandingEvidence
INVARIANT CompletedPastEveryGate
INVARIANT NeverLostOtherwise
PROPERTY ApprovalsAreAnswered
