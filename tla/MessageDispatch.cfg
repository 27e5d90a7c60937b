SPECIFICATION DispatchSpec
CONSTANTS
    a1 = a1
    a2 = a2
    q1 = q1
    Questions <- TheQuestions
    Agents <- TheAgents
    Kinds = {}
    Produces <- NoKinds
    Consumes <- NoKinds
    MaxRounds = 2
    MaxSteps = 3
    MaxFaults = 1
    MaxAgents = 4
    MaxRemovals = 2
    MaxDirectFaults = 2
INVARIANTS
    
    ModeMatchesMembers
PROPERTIES
    MessagesAreAnswered
CHECK_DEADLOCK FALSE
