SPECIFICATION FairSpec
CONSTANTS
    d1 = d1
    d2 = d2
    e1 = e1
    e2 = e2
    Deciders <- TwoDeciders
    Executions <- TwoExecutions
    MaxDecisions = 2
    MaxFaults = 0
PROPERTIES
    OnlyPendingPlanIsDecided
CHECK_DEADLOCK FALSE
