SPECIFICATION OwnerSpec
CONSTANTS
    p1 = p1
    n1 = n1
    c1 = c1
    c2 = c2
    v1 = v1
    o1 = o1
    o2 = o2
    People <- OnePerson
    Networks <- OneNetwork
    Calls <- TwoCalls
    Nobody = Nobody
    EmailLimit = 1
    IpLimit = 2
    Window = 1
    MaxCalls = 3
    MaxResets = 1
    MaxClock = 1
    MaxDeaths = 1
    Vendors <- OneVendor
    Ops <- TwoOps
    Providers <- OpenRuntimes
    Platform <- OpenCode
    Nothing = Nothing
    NameTries = 1
    QuotaLimit = 1
    MaxOps = 3
    MaxUnits = 1
    MaxPeriod = 1
    MaxLosses = 1
    r1 = r1
    Runs <- OneRun
    AgentVendors <- ThreeVendors
    Ports <- TwoPorts
    Hosts <- FourHosts
    Replies <- TwoReplies
    MaxAttempts = 2
    MaxDrafts = 1
    Whole = 1
    MaxFaults = 1
INVARIANTS
    AccountsAreSound
    ConnectionsAreSound
    
PROPERTIES
    AgentRunsEnd
CHECK_DEADLOCK FALSE
