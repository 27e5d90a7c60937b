SPECIFICATION ConversationSpec
CONSTANTS
    p1 = p1
    p2 = p2
    Pages <- TwoPages
    NoPage = NoPage
    MaxRepairCycles = 2
    Owner = owner
    Colleague = colleague
    Agent = assistant
    MaxMessages = 2
    MaxCalls = 3
    Overlap = 2
INVARIANTS
    WorkIsChecked
    ChannelIsSound
PROPERTIES
    ImplementsExecution
    WorkEnds
CHECK_DEADLOCK FALSE
