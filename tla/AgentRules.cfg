SPECIFICATION RulesSpec
CONSTANTS
    a1 = a1
    a2 = a2
    Agents <- TheAgents
    Profiles <- TheProfiles
    Messages <- TheMessages
    Outputs <- TheOutputs
    Memories <- TheMemories
    ConfirmAbove = 1
    MaxTurns = 2
    MaxAgentTurns = 1
    MaxRefs = 6
    MaxChars = 5
    MaxHuman = 1
    MaxChanges = 1
    LogBound = 14
    Policies <- ThePolicies
    Posts <- ThePosts
    Answers <- TheAnswers
    Arrivals <- TheArrivals
    Hour = 2
    Day = 4
    MaxTime = 2
    MaxArrivals = 1
    MaxCommands = 1
    TalkSlack = 3

    
PROPERTIES
    AgentTalkEnds
CHECK_DEADLOCK FALSE
