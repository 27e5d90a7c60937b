SPECIFICATION FairSpec
CONSTANTS
    d1 = d1
    d2 = d2
    e1 = e1
    e2 = e2
    Deciders <- TwoDeciders
    Executions <- TwoExecutions
    MaxDecisions = 3
    MaxFaults = 1
INVARIANTS
    TypeOK
    GateMatchesRequests
    ExecutionNeedsApproval
    GateFollowsLastDecision
    WorkIsApprovedOnce
PROPERTIES
    ApprovedPlanSettles
CHECK_DEADLOCK FALSE
