SPECIFICATION StartFairSpec
CONSTANTS
    u1 = u1
    q1 = q1
    q2 = q2
    None = None
    Users <- OneUser
    Requests <- TwoRequests
    InvitedRoles <- Member
    NextRoles <- MemberOrAdmin
    MaxRequests = 4
    MaxInvitations = 5
    MaxFaults = 1
INVARIANTS
    
    SeatsAreSound
PROPERTIES
    AnswersAreFinal
    RequestsEnd
CHECK_DEADLOCK FALSE
