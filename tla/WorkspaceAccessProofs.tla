-------------------------- MODULE WorkspaceAccessProofs --------------------------
(***************************************************************************)
(* The invariants of WorkspaceAccess, for any number of invited people and *)
(* of requests at a time.                                                  *)
(***************************************************************************)
EXTENDS WorkspaceAccess, FiniteSetTheorems, SequenceTheorems, TLAPS

Request == [at : Steps, who : Users \cup {None}, role : Roles \cup {None},
            previous : Roles \cup {None}, invitation : Ids \cup {0}, prev : Nat, op : Operations]

\* What a request at each of its steps has read, and what the row locks keep true of it.
StepFits(q) ==
    /\ req[q].at = "accept" =>
          /\ req[q].op = "accept"
          /\ req[q].invitation \in DOMAIN invitations
          /\ invitations[req[q].invitation].email = req[q].who
          /\ invitations[req[q].invitation].status = "pending"
    /\ req[q].at = "changeRole" =>
          /\ req[q].op = "role" /\ req[q].who \in Users
          /\ req[q].role \in Roles /\ req[q].previous \in Roles
          /\ member[req[q].who] = req[q].previous
    /\ req[q].op = "role" => req[q].at \in {"changeRole", "readChain", "appendEvent"}
    /\ req[q].at \in {"checkPending", "insertInvitation"} =>
          req[q].who \in Users /\ req[q].role \in Roles /\ req[q].op \in {"invite", "email"}
    /\ req[q].at \in {"takeSeat", "findPending", "checkMember", "link", "insertSeat"} =>
          req[q].op = "email"

StepsFit == \A q \in Requests : StepFits(q)

LocksExclude ==
    \A p, q \in Requests :
        /\ req[p].at = "accept" /\ req[q].at = "accept" /\ req[p].invitation = req[q].invitation
              => p = q
        /\ req[p].at = "changeRole" /\ req[q].at = "changeRole" /\ req[p].who = req[q].who
              => p = q

\* An addition of an address that saw no member is overtaken by an acceptance at most visibly.
AdditionFits(q) ==
    req[q].op = "email" =>
        /\ req[q].who \in Users /\ req[q].role = "member"
        /\ req[q].at = "takeSeat" => member[req[q].who] # None
        /\ req[q].at # "takeSeat" /\ req[q].who \notin raced => member[req[q].who] = None
        /\ req[q].at \in {"link", "insertSeat", "readChain", "appendEvent"} =>
              /\ req[q].invitation \in DOMAIN invitations
              /\ invitations[req[q].invitation].email = req[q].who

AdditionsFit == \A q \in Requests : AdditionFits(q)

AcceptedAreMembers ==
    \A i \in DOMAIN invitations :
        invitations[i].status = "accepted" => member[invitations[i].email] # None

RequestInv == StepsFit /\ LocksExclude /\ AdditionsFit /\ MembersAccepted /\ AcceptedAreMembers

-----------------------------------------------------------------------------
\* An unlocked check lets in no more invitations than requests can overlap.
Inserting(u) == {q \in Requests : req[q].at = "insertInvitation" /\ req[q].who = u}

FewPending ==
    \A u \in Users :
        Cardinality(PendingOf(u)) + Cardinality(Inserting(u)) <= Cardinality(Requests)

-----------------------------------------------------------------------------
SeatFits(s) ==
    /\ s.user # None => member[s.user] # None
    /\ s.status = "active" => s.user # None
    /\ s.email = None => s.status = "active" /\ s.invitation = 0
    /\ s.email # None =>
          /\ s.user \in {None, s.email}
          /\ s.invitation \in DOMAIN invitations
          /\ invitations[s.invitation].email = s.email

\* AcceptanceSettlesSeats of one seat.
Settles(s) ==
    s.status = "pending" /\ s.email \notin raced =>
        s.user = None /\ invitations[s.invitation].status # "accepted"

SeatsFit == \A s \in seats : SeatFits(s) /\ Settles(s)

SeatInv == SeatsFit /\ SeatsAreUnique

-----------------------------------------------------------------------------
\* As long as no two appends have overlapped, the one that is on its way has read the last event.
ChainInv ==
    ~forked =>
        /\ VerifyChain
        /\ \A q \in Requests : req[q].at = "appendEvent" => req[q].prev = Len(audit)
        /\ \A p, q \in Requests : req[p].at = "appendEvent" /\ req[q].at = "appendEvent" => p = q

\* Nobody's role changes before they are a member.
RoleInv ==
    /\ RolesAreExplained
    /\ \A u \in Users : AcceptedBy(u) = {} => ChangesOf(u, Len(roleLog)) = {}

Inv ==
    /\ TypeOK /\ RequestInv /\ FewPending /\ SeatInv
    /\ ChainInv /\ RoleChangesAreAudited /\ RoleInv

-----------------------------------------------------------------------------
(***************************************************************************)
(* Types.                                                                  *)
(***************************************************************************)
LEMMA IdleFacts ==
    /\ Idle \in Request
    /\ Idle.at = "idle" /\ Idle.op = "none" /\ Idle.who = None
BY DEF Idle, Request, Steps, Operations

\* The actions, for the steps that only ask which of them write a variable.
Actions(q) ==
    \/ \E u \in Users, role \in InvitedRoles : InviteChecksMember(q, u, role)
    \/ \E u \in Users, role \in NextRoles : RoleLocks(q, u, role)
    \/ \E u \in Users : AddColleague(q, u) \/ AddEmail(q, u)
    \/ \E i \in DOMAIN invitations : AcceptLocks(q, i) \/ Revoke(q, i)
    \/ \E s \in seats : RemoveSeat(q, s)
    \/ Continue(q) \/ Dies(q)

LEMMA NextIsAnAction == Next => \E q \in Requests : Actions(q)
BY DEF Next, Actions

LEMMA TypeInit == AccessAssumption /\ Init => TypeOK
<1> SUFFICES ASSUME AccessAssumption, Init PROVE TypeOK  OBVIOUS
<1>1. Idle \in Request  BY IdleFacts
<1>2. req \in [Requests -> Request]  BY <1>1 DEF Init
<1>3. made \in 0..MaxRequests /\ faults \in 0..MaxFaults
  BY DEF Init, AccessAssumption
<1>7. forked \in BOOLEAN
  BY DEF Init
<1>4. /\ invitations \in Seq(Invitation) /\ Len(invitations) <= MaxInvitations
      /\ roleLog \in Seq([who : Users, previous : Roles, next : Roles])
      /\ audit \in Seq([op : Operations, prev : Nat])
  BY DEF Init, AccessAssumption
<1>5. member \in [Users -> Roles \cup {None}] /\ seats \subseteq Seat /\ raced \subseteq Users
  BY DEF Init
<1>6. QED  BY <1>2, <1>3, <1>4, <1>5, <1>7 DEF TypeOK, Request

\* What steps make of a request.
LEMMA RequestsRewritten ==
    ASSUME req \in [Requests -> Request], NEW q \in Requests, NEW a \in Steps
    PROVE  /\ [req EXCEPT ![q].at = a] \in [Requests -> Request]
           /\ \A o \in Operations :
                 [req EXCEPT ![q].at = a, ![q].op = o] \in [Requests -> Request]
           /\ \A i \in Ids \cup {0} :
                 [req EXCEPT ![q].at = a, ![q].invitation = i] \in [Requests -> Request]
           /\ \A n \in Nat : [req EXCEPT ![q].at = a, ![q].prev = n] \in [Requests -> Request]
<1>1. [req EXCEPT ![q].at = a] \in [Requests -> Request]
  BY DEF Request
<1>2. ASSUME NEW o \in Operations
      PROVE  [req EXCEPT ![q].at = a, ![q].op = o] \in [Requests -> Request]
  BY ZenonT(60) DEF Request
<1>3. ASSUME NEW i \in Ids \cup {0}
      PROVE  [req EXCEPT ![q].at = a, ![q].invitation = i] \in [Requests -> Request]
  BY ZenonT(60) DEF Request
<1>4. ASSUME NEW n \in Nat
      PROVE  [req EXCEPT ![q].at = a, ![q].prev = n] \in [Requests -> Request]
  BY ZenonT(60) DEF Request
<1>5. QED  BY <1>1, <1>2, <1>3, <1>4

LEMMA StepNames ==
    /\ {"readChain", "appendEvent", "insertInvitation", "checkPending", "findPending",
        "link", "insertSeat", "takeSeat", "accept", "changeRole", "checkMember"} \subseteq Steps
    /\ {"seat", "email", "invite", "accept", "role"} \subseteq Operations
BY DEF Steps, Operations

\* What a step puts in the place of a request.
LEMMA RequestsKeepTheirType ==
    ASSUME AccessAssumption, TypeOK, RequestInv, NEW q \in Requests, Actions(q)
    PROVE  req' \in [Requests -> Request]
<1> USE DEF Goto, Done, Unmade, Arrive
<1>1. req \in [Requests -> Request]  BY DEF TypeOK, Request
<1>2. Idle \in Request  BY IdleFacts
<1>3. Len(invitations) \in Nat /\ DOMAIN invitations = 1..Len(invitations)
      /\ \A i \in DOMAIN invitations : invitations[i] \in Invitation /\ i \in Ids
      /\ Len(audit) \in Nat /\ MaxInvitations \in Nat
  BY DEF TypeOK, Ids, AccessAssumption
<1>4. ASSUME NEW u \in Users, NEW role \in InvitedRoles, InviteChecksMember(q, u, role)
      PROVE  req' \in [Requests -> Request]
  <2>1. role \in Roles  BY DEF AccessAssumption, Roles
  <2>2. QED
    BY <1>1, <1>2, <1>4, <2>1 DEF InviteChecksMember, Request, Steps, Operations
<1>5. ASSUME NEW u \in Users, NEW role \in NextRoles, RoleLocks(q, u, role)
      PROVE  req' \in [Requests -> Request]
  <2>1. role \in Roles  BY DEF AccessAssumption, Roles
  <2>2. member[u] \in Roles \cup {None}  BY DEF TypeOK
  <2>3. QED
    BY <1>1, <1>2, <1>5, <2>1, <2>2 DEF RoleLocks, Request, Steps, Operations
<1>6. ASSUME NEW u \in Users, AddColleague(q, u) PROVE req' \in [Requests -> Request]
  BY <1>1, <1>2, <1>6 DEF AddColleague, Request, Steps, Operations
<1>7. ASSUME NEW u \in Users, AddEmail(q, u) PROVE req' \in [Requests -> Request]
  <2>1. "member" \in Roles  BY DEF Roles
  <2>2. QED  BY <1>1, <1>2, <1>7, <2>1 DEF AddEmail, Request, Steps, Operations
<1>8. ASSUME NEW i \in DOMAIN invitations, AcceptLocks(q, i)
      PROVE  req' \in [Requests -> Request]
  <2>1. i \in Ids /\ invitations[i].email \in Users  BY <1>3 DEF Invitation
  <2>2. QED  BY <1>1, <1>2, <1>8, <2>1, ZenonT(60) DEF AcceptLocks, Request, Steps, Operations
<1>9. ASSUME NEW i \in DOMAIN invitations, Revoke(q, i) PROVE req' \in [Requests -> Request]
  BY <1>1, <1>2, <1>9 DEF Revoke
<1>10. ASSUME NEW s \in seats, RemoveSeat(q, s) PROVE req' \in [Requests -> Request]
  BY <1>1, <1>2, <1>10 DEF RemoveSeat, Request, Steps, Operations
<1>11. CASE InviteChecksPending(q)
  BY <1>1, <1>2, <1>11 DEF InviteChecksPending, Request, Steps
<1>12. CASE CheckMember(q)
  BY <1>1, <1>2, <1>12 DEF CheckMember, Request, Steps
<1>13. CASE RoleCommits(q)
  BY <1>1, <1>13, RequestsRewritten, StepNames DEF RoleCommits
<1>14. CASE AcceptCommits(q)
  BY <1>1, <1>14 DEF AcceptCommits, Request, Steps
<1>15. CASE Dies(q)
  BY <1>1, <1>2, <1>15 DEF Dies
<1>16. CASE InsertInvitation(q)
  <2>1. Len(invitations) + 1 \in Ids  BY <1>3, <1>16 DEF InsertInvitation, Ids
  <2>2. QED  BY <1>1, <1>16, <2>1, RequestsRewritten, StepNames DEF InsertInvitation
<1>17. CASE TakeSeat(q)
  BY <1>1, <1>17, RequestsRewritten, StepNames DEF TakeSeat
<1>18. CASE LinkSeat(q)
  <2>1. \/ req' = [req EXCEPT ![q].at = "readChain", ![q].op = "seat"]
        \/ req' = [req EXCEPT ![q].at = "insertSeat"]
    BY <1>18 DEF LinkSeat
  <2>2. {"readChain", "insertSeat"} \subseteq Steps /\ "seat" \in Operations  BY StepNames
  <2>3. /\ [req EXCEPT ![q].at = "readChain", ![q].op = "seat"] \in [Requests -> Request]
        /\ [req EXCEPT ![q].at = "insertSeat"] \in [Requests -> Request]
    BY <1>1, <2>2, RequestsRewritten
  <2>4. QED  BY <2>1, <2>3
<1>19. CASE InsertSeat(q)
  BY <1>1, <1>2, <1>19 DEF InsertSeat, Request, Steps, Operations
<1>20. CASE FindPending(q)
  <2>1. \A i \in PendingOf(req[q].who) : i \in Ids  BY <1>3 DEF PendingOf
  <2>2. QED  BY <1>1, <1>20, <2>1 DEF FindPending, Request, Steps
<1>21. CASE ReadChain(q)
  <2>1. req' = [req EXCEPT ![q].at = "appendEvent", ![q].prev = Len(audit)]
    BY <1>21 DEF ReadChain
  <2>2. "appendEvent" \in Steps /\ Len(audit) \in Nat  BY <1>3, StepNames
  <2>3. [req EXCEPT ![q].at = "appendEvent", ![q].prev = Len(audit)] \in [Requests -> Request]
    BY <1>1, <2>2, RequestsRewritten
  <2>4. QED  BY <2>1, <2>3
<1>22. CASE AppendEvent(q)
  <2>1. req' = [req EXCEPT ![q].at = "link"] \/ req' = [req EXCEPT ![q] = Idle]
    BY <1>22 DEF AppendEvent
  <2>2. "link" \in Steps  BY StepNames
  <2>3. [req EXCEPT ![q].at = "link"] \in [Requests -> Request]
    BY <1>1, <2>2, RequestsRewritten
  <2>4. QED  BY <1>1, <1>2, <2>1, <2>3
<1>23. QED
  BY <1>4, <1>5, <1>6, <1>7, <1>8, <1>9, <1>10, <1>11, <1>12, <1>13, <1>14, <1>15, <1>16, <1>17,
     <1>18, <1>19, <1>20, <1>21, <1>22 DEF Actions, Continue

\* Who writes what, but for req.
LEMMA Writers ==
    ASSUME NEW q \in Requests, Actions(q)
    PROVE  /\ invitations' = invitations \/ InsertInvitation(q) \/ AcceptCommits(q)
                \/ \E i \in DOMAIN invitations : Revoke(q, i)
           /\ member' = member \/ AcceptCommits(q) \/ RoleCommits(q)
           /\ raced' = raced \/ AcceptCommits(q)
           /\ seats' = seats \/ AcceptCommits(q) \/ TakeSeat(q) \/ LinkSeat(q) \/ InsertSeat(q)
                \/ (\E u \in Users : AddColleague(q, u)) \/ (\E s \in seats : RemoveSeat(q, s))
           /\ roleLog' = roleLog \/ RoleCommits(q)
           /\ audit' = audit \/ AppendEvent(q)
           /\ forked' = forked \/ ReadChain(q)
           /\ made' = made \/ (made < MaxRequests /\ made' = made + 1)
           /\ faults' = faults \/ Dies(q)
BY DEF Actions, Continue, InviteChecksMember, RoleLocks, AddColleague, AddEmail, AcceptLocks,
   Revoke, RemoveSeat, InviteChecksPending, InsertInvitation, AcceptCommits, RoleCommits,
   TakeSeat, FindPending, CheckMember, LinkSeat, InsertSeat, ReadChain, AppendEvent, Dies,
   Arrive, Goto, Done, Unmade

\* The invitations after a step: one more, or another status of one.
LEMMA InvitationsWritten ==
    ASSUME AccessAssumption, TypeOK, RequestInv, NEW q \in Requests, Actions(q)
    PROVE  /\ invitations' \in Seq(Invitation) /\ Len(invitations') <= MaxInvitations
           /\ DOMAIN invitations \subseteq DOMAIN invitations'
           /\ DOMAIN invitations' \subseteq Ids
           /\ \A i \in DOMAIN invitations :
                 /\ invitations'[i].email = invitations[i].email
                 /\ invitations'[i].role = invitations[i].role
                 /\ invitations'[i].status = invitations[i].status
                      \/ Revoke(q, i) \/ (AcceptCommits(q) /\ req[q].invitation = i)
           /\ \A i \in DOMAIN invitations' \ DOMAIN invitations :
                 /\ InsertInvitation(q)
                 /\ i = Len(invitations) + 1
                 /\ invitations'[i].email = req[q].who
                 /\ invitations'[i].status = "pending"
<1>1. /\ invitations \in Seq(Invitation) /\ Len(invitations) <= MaxInvitations
      /\ MaxInvitations \in Nat /\ Len(invitations) \in Nat
      /\ DOMAIN invitations = 1..Len(invitations)
      /\ DOMAIN invitations \subseteq Ids
  BY DEF TypeOK, AccessAssumption, Ids
<1>2. \A i \in DOMAIN invitations : invitations[i] \in Invitation
  BY <1>1
<1>3. CASE invitations' = invitations
  BY <1>1, <1>3
<1>4. CASE InsertInvitation(q)
  <2> DEFINE e == [email |-> req[q].who, role |-> req[q].role, status |-> "pending",
                   token |-> req[q].op = "invite"]
  <2>1. /\ req[q].who \in Users /\ req[q].role \in Roles
    BY <1>4 DEF InsertInvitation, RequestInv, StepsFit, StepFits
  <2>2. e \in Invitation /\ e.email = req[q].who /\ e.status = "pending"
    BY <2>1 DEF Invitation, InvitationStatuses
  <2>3. invitations' = Append(invitations, e) /\ Len(invitations) < MaxInvitations
    BY <1>4 DEF InsertInvitation
  <2> HIDE DEF e
  <2>4. /\ invitations' \in Seq(Invitation) /\ Len(invitations') = Len(invitations) + 1
        /\ DOMAIN invitations' = 1..Len(invitations) + 1
        /\ \A i \in 1..Len(invitations) : invitations'[i] = invitations[i]
        /\ invitations'[Len(invitations) + 1] = e
    BY <1>1, <2>2, <2>3
  <2>5. QED  BY <1>1, <1>4, <2>2, <2>3, <2>4 DEF Ids
<1>5. ASSUME NEW i \in DOMAIN invitations, NEW s \in InvitationStatuses,
             invitations' = [invitations EXCEPT ![i].status = s]
      PROVE  /\ invitations' \in Seq(Invitation) /\ Len(invitations') = Len(invitations)
             /\ DOMAIN invitations' = DOMAIN invitations
             /\ \A j \in DOMAIN invitations :
                   /\ invitations'[j].email = invitations[j].email
                   /\ invitations'[j].role = invitations[j].role
                   /\ j # i => invitations'[j].status = invitations[j].status
  <2>1. [invitations[i] EXCEPT !.status = s] \in Invitation
    BY <1>2 DEF Invitation
  <2>2. invitations' = [invitations EXCEPT ![i] = [invitations[i] EXCEPT !.status = s]]
    BY <1>5
  <2>3. invitations' \in Seq(Invitation) /\ Len(invitations') = Len(invitations)
        /\ DOMAIN invitations' = DOMAIN invitations
    BY <1>1, <2>1, <2>2, ExceptSeq
  <2>4. QED  BY <1>2, <2>2, <2>3 DEF Invitation
<1>6. CASE AcceptCommits(q)
  <2>1. /\ req[q].invitation \in DOMAIN invitations
        /\ invitations' = [invitations EXCEPT ![req[q].invitation].status = "accepted"]
    BY <1>6 DEF AcceptCommits, RequestInv, StepsFit, StepFits
  <2>2. QED  BY <1>1, <1>5, <1>6, <2>1 DEF InvitationStatuses
<1>7. CASE \E i \in DOMAIN invitations : Revoke(q, i)
  <2>1. PICK i \in DOMAIN invitations : Revoke(q, i)  BY <1>7
  <2>2. invitations' = [invitations EXCEPT ![i].status = "revoked"]  BY <2>1 DEF Revoke
  <2>3. QED  BY <1>1, <1>5, <2>1, <2>2 DEF InvitationStatuses
<1>8. QED  BY <1>3, <1>4, <1>6, <1>7, Writers

\* What a request knows of the people and the invitations that it is about to write.
LEMMA WhoIsWritten ==
    ASSUME TypeOK, RequestInv, NEW q \in Requests
    PROVE  /\ req[q] \in Request
           /\ AcceptCommits(q) =>
                 /\ req[q].invitation \in DOMAIN invitations
                 /\ invitations[req[q].invitation].email = req[q].who /\ req[q].who \in Users
                 /\ invitations[req[q].invitation].role \in Roles
                 /\ invitations[req[q].invitation].status = "pending"
           /\ RoleCommits(q) => req[q].who \in Users /\ req[q].role \in Roles
           /\ TakeSeat(q) \/ LinkSeat(q) \/ InsertSeat(q) => req[q].who \in Users
<1>1. \A i \in DOMAIN invitations : invitations[i] \in Invitation
  BY DEF TypeOK
<1>2. \A i \in DOMAIN invitations : invitations[i].email \in Users /\ invitations[i].role \in Roles
  BY <1>1 DEF Invitation
<1>3. req[q] \in Request
  BY DEF TypeOK, Request
<1>4. QED
  BY <1>2, <1>3 DEF AcceptCommits, RoleCommits, TakeSeat, LinkSeat, InsertSeat, RequestInv, StepsFit, StepFits,
     AdditionsFit, AdditionFits

LEMMA SeatsKeepTheirType ==
    ASSUME AccessAssumption, TypeOK, RequestInv, NEW q \in Requests, Actions(q)
    PROVE  seats' \subseteq Seat
<1>1. seats \subseteq Seat  BY DEF TypeOK
<1>2. ASSUME NEW u \in Users PROVE Seated(u) \subseteq Seat
  BY <1>1 DEF Seated, SeatOf, Seat
<1>3. ASSUME NEW u \in Users, AddColleague(q, u) PROVE seats' \subseteq Seat
  BY <1>2, <1>3 DEF AddColleague
<1>4. ASSUME TakeSeat(q) PROVE seats' \subseteq Seat
  BY <1>2, <1>4, WhoIsWritten DEF TakeSeat
<1>5. ASSUME NEW s \in seats, RemoveSeat(q, s) PROVE seats' \subseteq Seat
  BY <1>1, <1>5 DEF RemoveSeat
<1>6. ASSUME AcceptCommits(q) PROVE seats' \subseteq Seat
  <2>1. seats' = SeatsAfterAcceptance(req[q].who, req[q].invitation) /\ req[q].who \in Users
    BY <1>6, WhoIsWritten DEF AcceptCommits
  <2>2. \A s \in Seat : [s EXCEPT !.user = req[q].who, !.status = "active"] \in Seat
    BY <2>1 DEF Seat
  <2>3. QED  BY <1>1, <2>1, <2>2 DEF SeatsAfterAcceptance
<1>7. ASSUME LinkSeat(q) PROVE seats' \subseteq Seat
  <2>1. req[q].invitation \in Ids \cup {0}
    BY WhoIsWritten DEF Request
  <2>2. seats' = seats \/ seats' = (seats \ WithEmail(req[q].who)) \cup
              {[s EXCEPT !.status = "pending", !.invitation = req[q].invitation] :
                   s \in WithEmail(req[q].who)}
    BY <1>7 DEF LinkSeat
  <2>3. \A s \in Seat :
           [s EXCEPT !.status = "pending", !.invitation = req[q].invitation] \in Seat
    BY <2>1 DEF Seat
  <2>4. WithEmail(req[q].who) \subseteq Seat
    BY <1>1 DEF WithEmail
  <2>5. ASSUME NEW x \in seats'
        PROVE  x \in seats \/ \E s \in WithEmail(req[q].who) :
                    x = [s EXCEPT !.status = "pending", !.invitation = req[q].invitation]
    BY <2>2
  <2>6. QED  BY <1>1, <2>3, <2>4, <2>5
<1>8. ASSUME InsertSeat(q) PROVE seats' \subseteq Seat
  <2>1. req[q].invitation \in Ids \cup {0} /\ req[q].who \in Users
    BY <1>8, WhoIsWritten DEF Request
  <2>2. \/ seats' = seats
        \/ seats' = seats \cup {[user |-> None, email |-> req[q].who, status |-> "pending",
                                 invitation |-> req[q].invitation]}
    BY <1>8 DEF InsertSeat
  <2>3. QED  BY <1>1, <2>1, <2>2 DEF Seat
<1>9. QED  BY <1>1, <1>3, <1>4, <1>5, <1>6, <1>7, <1>8, Writers

LEMMA TypeStep == AccessAssumption /\ TypeOK /\ RequestInv /\ [Next]_vars => TypeOK'
<1>1. ASSUME UNCHANGED vars, TypeOK PROVE TypeOK'
  BY <1>1 DEF vars, TypeOK
<1>2. ASSUME AccessAssumption, TypeOK, RequestInv, NEW q \in Requests, Actions(q)
      PROVE  TypeOK'
  <2>1. req' \in [Requests -> Request]
    BY <1>2, RequestsKeepTheirType
  <2>2. invitations' \in Seq(Invitation) /\ Len(invitations') <= MaxInvitations
    BY <1>2, InvitationsWritten
  <2>3. seats' \subseteq Seat
    BY <1>2, SeatsKeepTheirType
  <2>4. member' \in [Users -> Roles \cup {None}]
    <3>1. member \in [Users -> Roles \cup {None}]  BY <1>2 DEF TypeOK
    <3>2. ASSUME AcceptCommits(q) PROVE member' \in [Users -> Roles \cup {None}]
      BY <1>2, <3>1, <3>2, WhoIsWritten DEF AcceptCommits
    <3>3. ASSUME RoleCommits(q) PROVE member' \in [Users -> Roles \cup {None}]
      BY <1>2, <3>1, <3>3, WhoIsWritten DEF RoleCommits
    <3>4. QED  BY <1>2, <3>1, <3>2, <3>3, Writers
  <2>5. raced' \subseteq Users
    <3>1. raced \subseteq Users  BY <1>2 DEF TypeOK
    <3>2. ASSUME AcceptCommits(q) PROVE raced' \subseteq Users
      BY <1>2, <3>1, <3>2, WhoIsWritten DEF AcceptCommits
    <3>3. QED  BY <1>2, <3>1, <3>2, Writers
  <2>6. roleLog' \in Seq([who : Users, previous : Roles, next : Roles])
    <3>1. roleLog \in Seq([who : Users, previous : Roles, next : Roles])  BY <1>2 DEF TypeOK
    <3>2. ASSUME RoleCommits(q)
          PROVE  roleLog' \in Seq([who : Users, previous : Roles, next : Roles])
      <4> DEFINE e == [who |-> req[q].who, previous |-> req[q].previous, next |-> req[q].role]
      <4>1. e \in [who : Users, previous : Roles, next : Roles] /\ roleLog' = Append(roleLog, e)
        BY <1>2, <3>2 DEF RoleCommits, RequestInv, StepsFit, StepFits
      <4> HIDE DEF e
      <4>2. QED  BY <3>1, <4>1
    <3>3. QED  BY <1>2, <3>1, <3>2, Writers
  <2>7. audit' \in Seq([op : Operations, prev : Nat])
    <3>1. audit \in Seq([op : Operations, prev : Nat])  BY <1>2 DEF TypeOK
    <3>2. ASSUME AppendEvent(q) PROVE audit' \in Seq([op : Operations, prev : Nat])
      <4> DEFINE e == [op |-> req[q].op, prev |-> req[q].prev]
      <4>1. e \in [op : Operations, prev : Nat] /\ audit' = Append(audit, e)
        BY <1>2, <3>2, WhoIsWritten DEF AppendEvent, Request
      <4> HIDE DEF e
      <4>2. QED  BY <3>1, <4>1
    <3>3. QED  BY <1>2, <3>1, <3>2, Writers
  <2>8. forked' \in BOOLEAN
    BY <1>2, Writers DEF TypeOK, ReadChain
  <2>9. made' \in 0..MaxRequests
    <3>1. made \in 0..MaxRequests /\ MaxRequests \in Nat
      BY <1>2 DEF TypeOK, AccessAssumption
    <3>2. made' = made \/ (made < MaxRequests /\ made' = made + 1)
      BY <1>2, Writers
    <3>3. QED  BY <3>1, <3>2
  <2>10. faults' \in 0..MaxFaults
    BY <1>2, Writers DEF TypeOK, AccessAssumption, Dies
  <2>11. QED
    BY <2>1, <2>2, <2>3, <2>4, <2>5, <2>6, <2>7, <2>8, <2>9, <2>10 DEF TypeOK, Request
<1>3. QED  BY <1>1, <1>2, NextIsAnAction

-----------------------------------------------------------------------------
(***************************************************************************)
(* What requests have read.                                                *)
(***************************************************************************)
\* One step moves one request.
LEMMA OthersWait ==
    ASSUME AccessAssumption, TypeOK, RequestInv, NEW q \in Requests, Actions(q),
           NEW p \in Requests \ {q}
    PROVE  req'[p] = req[p]
<1>1. DOMAIN req = Requests  BY DEF TypeOK
<1>2. QED
  BY <1>1
  DEF Actions, Continue, InviteChecksMember, RoleLocks, AddColleague, AddEmail, AcceptLocks,
      Revoke, RemoveSeat, InviteChecksPending, InsertInvitation, AcceptCommits, RoleCommits,
      TakeSeat, FindPending, CheckMember, LinkSeat, InsertSeat, ReadChain, AppendEvent, Dies,
      Arrive, Goto, Done, Unmade

\* Roles change under a lock, and nobody stops being a member.
LEMMA MembersStay ==
    ASSUME AccessAssumption, TypeOK, RequestInv, NEW q \in Requests, Actions(q), NEW u \in Users
    PROVE  /\ member[u] # None => member'[u] # None
           /\ \/ member'[u] = member[u]
              \/ AcceptCommits(q) /\ req[q].who = u /\ ~MemberLocked(u)
              \/ RoleCommits(q) /\ req[q].who = u
<1>1. member \in [Users -> Roles \cup {None}] /\ None \notin Roles
  BY DEF TypeOK, AccessAssumption, Roles
<1>2. CASE AcceptCommits(q)
  <2>1. /\ member' = [member EXCEPT ![req[q].who] = invitations[req[q].invitation].role]
        /\ ~MemberLocked(req[q].who)
    BY <1>2 DEF AcceptCommits
  <2>2. invitations[req[q].invitation].role \in Roles /\ req[q].who \in Users
    BY <1>2, WhoIsWritten
  <2>3. QED  BY <1>1, <1>2, <2>1, <2>2
<1>3. CASE RoleCommits(q)
  <2>1. member' = [member EXCEPT ![req[q].who] = req[q].role]
    BY <1>3 DEF RoleCommits
  <2>2. req[q].role \in Roles /\ req[q].who \in Users
    BY <1>3, WhoIsWritten
  <2>3. QED  BY <1>1, <1>3, <2>1, <2>2
<1>4. QED  BY <1>2, <1>3, Writers

LEMMA OthersFit ==
    ASSUME AccessAssumption, TypeOK, RequestInv, NEW q \in Requests, Actions(q),
           NEW p \in Requests \ {q}
    PROVE  StepFits(p)' /\ AdditionFits(p)'
<1>1. req'[p] = req[p] /\ StepFits(p) /\ AdditionFits(p)
  BY OthersWait DEF RequestInv, StepsFit, AdditionsFit
<1>2. /\ DOMAIN invitations \subseteq DOMAIN invitations'
      /\ \A i \in DOMAIN invitations : invitations'[i].email = invitations[i].email
  BY InvitationsWritten
<1>3. ASSUME req[p].at = "accept"
      PROVE  invitations'[req[p].invitation].status = "pending"
  <2> DEFINE i == req[p].invitation
  <2>1. i \in DOMAIN invitations /\ invitations[i].status = "pending"
    BY <1>1, <1>3 DEF StepFits
  <2>2. ~Revoke(q, i)
    BY <1>3 DEF Revoke, InvitationLocked
  <2>3. AcceptCommits(q) => req[q].invitation # i
    BY <1>3 DEF AcceptCommits, RequestInv, LocksExclude
  <2>4. QED  BY <2>1, <2>2, <2>3, InvitationsWritten
<1>4. ASSUME req[p].at = "changeRole"
      PROVE  member'[req[p].who] = member[req[p].who]
  <2>1. req[p].who \in Users  BY <1>1, <1>4 DEF StepFits
  <2>2. MemberLocked(req[p].who)  BY <1>4 DEF MemberLocked
  <2>3. ~(RoleCommits(q) /\ req[q].who = req[p].who)
    BY <1>4 DEF RoleCommits, RequestInv, LocksExclude
  <2>4. QED  BY <2>1, <2>2, <2>3, MembersStay
<1>5. StepFits(p)'
  BY <1>1, <1>2, <1>3, <1>4 DEF StepFits
<1>6. ASSUME req[p].op = "email"
      PROVE  /\ req[p].at = "takeSeat" => member'[req[p].who] # None
             /\ req[p].at # "takeSeat" /\ req[p].who \notin raced' => member'[req[p].who] = None
  <2>1. req[p].who \in Users  BY <1>1, <1>6 DEF AdditionFits
  <2>2. req[p].at = "takeSeat" => member'[req[p].who] # None
    BY <1>1, <1>6, <2>1, MembersStay DEF AdditionFits
  <2>3. ASSUME req[p].at # "takeSeat", req[p].who \notin raced'
        PROVE  member'[req[p].who] = None
    <3>1. req[p].who \notin raced /\ ~(AcceptCommits(q) /\ req[q].who = req[p].who)
      <4>1. p \in Inviting(req[p].who)  BY <1>6 DEF Inviting
      <4>2. AcceptCommits(q) => raced' = IF Inviting(req[q].who) # {}
                                         THEN raced \cup {req[q].who} ELSE raced
        BY DEF AcceptCommits
      <4>3. raced' = raced \/ AcceptCommits(q)  BY Writers
      <4>4. QED  BY <2>3, <4>1, <4>2, <4>3
    <3>2. member[req[p].who] = None
      BY <1>1, <1>6, <2>3, <3>1 DEF AdditionFits
    <3>3. ~(RoleCommits(q) /\ req[q].who = req[p].who)
      <4>1. ASSUME RoleCommits(q)
            PROVE  member[req[q].who] \in Roles
        BY <4>1 DEF RoleCommits, RequestInv, StepsFit, StepFits
      <4>2. None \notin Roles  BY DEF AccessAssumption, Roles
      <4>3. QED  BY <3>2, <4>1, <4>2
    <3>4. QED  BY <2>1, <3>1, <3>2, <3>3, MembersStay
  <2>4. QED  BY <2>2, <2>3
<1>7. AdditionFits(p)'
  BY <1>1, <1>2, <1>6 DEF AdditionFits
<1>8. QED  BY <1>5, <1>7

LEMMA OwnFits ==
    ASSUME AccessAssumption, TypeOK, RequestInv, NEW q \in Requests, Actions(q)
    PROVE  StepFits(q)' /\ AdditionFits(q)'
<1> USE DEF Goto, Done, Unmade, Arrive
<1>0. req \in [Requests -> Request] /\ req[q] \in Request /\ StepFits(q) /\ AdditionFits(q)
  BY DEF TypeOK, Request, RequestInv, StepsFit, AdditionsFit
<1>1. Idle \in Request /\ Idle.at = "idle" /\ Idle.op = "none"
  BY IdleFacts
<1>2. CASE req'[q] = Idle
  BY <1>1, <1>2 DEF StepFits, AdditionFits
<1>3. ASSUME NEW u \in Users, NEW role \in InvitedRoles, InviteChecksMember(q, u, role)
      PROVE  StepFits(q)' /\ AdditionFits(q)'
  <2>1. req'[q].at = "checkPending" /\ req'[q].op = "invite" /\ req'[q].who = u /\ req'[q].role = role
    BY <1>0, <1>1, <1>3 DEF InviteChecksMember, Request
  <2>2. role \in Roles  BY DEF AccessAssumption, Roles
  <2>3. QED  BY <2>1, <2>2 DEF StepFits, AdditionFits
<1>4. ASSUME NEW u \in Users, NEW role \in NextRoles, RoleLocks(q, u, role)
      PROVE  StepFits(q)' /\ AdditionFits(q)'
  <2>1. /\ req'[q].at = "changeRole" /\ req'[q].op = "role" /\ req'[q].who = u
        /\ req'[q].role = role /\ req'[q].previous = member[u]
    BY <1>0, <1>1, <1>4 DEF RoleLocks, Request
  <2>2. role \in Roles  BY DEF AccessAssumption, Roles
  <2>3. member[u] \in Roles /\ member' = member
    BY <1>4 DEF RoleLocks, TypeOK
  <2>4. QED  BY <2>1, <2>2, <2>3 DEF StepFits, AdditionFits
<1>5. ASSUME NEW u \in Users, AddColleague(q, u) PROVE StepFits(q)' /\ AdditionFits(q)'
  <2>1. req'[q].at = "readChain" /\ req'[q].op = "seat"
    BY <1>0, <1>1, <1>5 DEF AddColleague, Request
  <2>2. QED  BY <2>1 DEF StepFits, AdditionFits
<1>6. ASSUME NEW u \in Users, AddEmail(q, u) PROVE StepFits(q)' /\ AdditionFits(q)'
  <2>1. /\ req'[q].at = IF member[u] # None THEN "takeSeat" ELSE "findPending"
        /\ req'[q].op = "email" /\ req'[q].who = u /\ req'[q].role = "member"
    BY <1>0, <1>1, <1>6 DEF AddEmail, Request
  <2>2. member' = member  BY <1>6 DEF AddEmail
  <2>3. QED  BY <2>1, <2>2 DEF StepFits, AdditionFits
<1>7. ASSUME NEW i \in DOMAIN invitations, AcceptLocks(q, i)
      PROVE  StepFits(q)' /\ AdditionFits(q)'
  <2>1. /\ req'[q].at = "accept" /\ req'[q].op = "accept" /\ req'[q].invitation = i
        /\ req'[q].who = invitations[i].email
    BY <1>0, <1>1, <1>7 DEF AcceptLocks, Request
  <2>2. invitations' = invitations /\ invitations[i].status = "pending"
    BY <1>7 DEF AcceptLocks
  <2>3. QED  BY <2>1, <2>2 DEF StepFits, AdditionFits
<1>8. ASSUME NEW i \in DOMAIN invitations, Revoke(q, i) PROVE req'[q] = Idle
  BY <1>0, <1>8 DEF Revoke
<1>9. ASSUME NEW s \in seats, RemoveSeat(q, s) PROVE StepFits(q)' /\ AdditionFits(q)'
  <2>1. req'[q].at = "readChain" /\ req'[q].op = "seat"
    BY <1>0, <1>1, <1>9 DEF RemoveSeat, Request
  <2>2. QED  BY <2>1 DEF StepFits, AdditionFits
\* A request goes on to a step that knows what it knew.
<1>10. ASSUME NEW a, req' = [req EXCEPT ![q].at = a]
       PROVE  /\ req'[q].at = a /\ req'[q].op = req[q].op /\ req'[q].who = req[q].who
              /\ req'[q].role = req[q].role /\ req'[q].invitation = req[q].invitation
  BY <1>0, <1>10 DEF Request
<1>11. CASE InviteChecksPending(q)
  <2>1. CASE req'[q] = Idle  BY <1>2, <2>1
  <2>2. CASE req' = [req EXCEPT ![q].at = "insertInvitation"]
    <3>1. member' = member /\ raced' = raced /\ req[q].at = "checkPending"
      BY <1>11 DEF InviteChecksPending
    <3>2. /\ req'[q].at = "insertInvitation" /\ req'[q].op = req[q].op /\ req'[q].who = req[q].who
          /\ req'[q].role = req[q].role
      BY <1>10, <2>2
    <3>3. QED  BY <1>0, <3>1, <3>2 DEF StepFits, AdditionFits
  <2>3. QED  BY <1>0, <1>11, <2>1, <2>2 DEF InviteChecksPending
<1>12. CASE InsertInvitation(q)
  <2>1. /\ req'[q].at = "readChain" /\ req'[q].op = req[q].op /\ req'[q].who = req[q].who
        /\ req'[q].role = req[q].role /\ req'[q].invitation = Len(invitations) + 1
    BY <1>0, <1>12 DEF InsertInvitation, Request
  <2>2. /\ member' = member /\ raced' = raced /\ req[q].at = "insertInvitation"
        /\ invitations' = Append(invitations,
             [email |-> req[q].who, role |-> req[q].role, status |-> "pending",
              token |-> req[q].op = "invite"])
    BY <1>12 DEF InsertInvitation
  <2>3. Len(invitations) + 1 \in DOMAIN invitations' /\ Len(invitations) + 1 \notin DOMAIN invitations
    <3>1. invitations \in Seq(Invitation) /\ invitations' \in Seq(Invitation)
      BY InvitationsWritten DEF TypeOK
    <3>2. Len(invitations') = Len(invitations) + 1
      BY <2>2, <3>1
    <3>3. QED  BY <3>1, <3>2
  <2>4. invitations'[Len(invitations) + 1].email = req[q].who
    BY <2>3, InvitationsWritten
  <2>5. QED  BY <1>0, <2>1, <2>2, <2>3, <2>4 DEF StepFits, AdditionFits
<1>13. CASE AcceptCommits(q)
  <2>1. req'[q].at = "readChain" /\ req'[q].op = "accept"
    BY <1>0, <1>10, <1>13 DEF AcceptCommits, StepFits
  <2>2. QED  BY <2>1 DEF StepFits, AdditionFits
<1>14. CASE RoleCommits(q)
  <2>1. req'[q].at = "readChain" /\ req'[q].op = "role"
    BY <1>0, <1>10, <1>14 DEF RoleCommits, StepFits
  <2>2. QED  BY <2>1 DEF StepFits, AdditionFits
<1>15. CASE TakeSeat(q)
  <2>1. req'[q].at = "readChain" /\ req'[q].op = "seat"
    BY <1>0, <1>15 DEF TakeSeat, Request
  <2>2. QED  BY <2>1 DEF StepFits, AdditionFits
<1>16. CASE FindPending(q)
  <2>1. /\ req[q].at = "findPending" /\ req[q].op = "email"
        /\ UNCHANGED <<invitations, member, raced>>
    BY <1>0, <1>16 DEF FindPending, StepFits
  <2>2. CASE req' = [req EXCEPT ![q].at = "checkMember"]
    <3>1. /\ req'[q].at = "checkMember" /\ req'[q].op = req[q].op /\ req'[q].who = req[q].who
          /\ req'[q].role = req[q].role
      BY <1>10, <2>2
    <3>2. QED  BY <1>0, <2>1, <3>1 DEF StepFits, AdditionFits
  <2>3. ASSUME NEW i \in PendingOf(req[q].who),
               req' = [req EXCEPT ![q].at = "link", ![q].invitation = i]
        PROVE  StepFits(q)' /\ AdditionFits(q)'
    <3>1. /\ req'[q].at = "link" /\ req'[q].op = req[q].op /\ req'[q].who = req[q].who
          /\ req'[q].role = req[q].role /\ req'[q].invitation = i
      BY <1>0, <2>3 DEF Request
    <3>2. i \in DOMAIN invitations /\ invitations[i].email = req[q].who
      BY DEF PendingOf
    <3>3. QED  BY <1>0, <2>1, <3>1, <3>2 DEF StepFits, AdditionFits
  <2>4. QED  BY <1>16, <2>2, <2>3 DEF FindPending
<1>17. CASE CheckMember(q)
  <2>1. CASE req'[q] = Idle  BY <1>2, <2>1
  <2>2. CASE req' = [req EXCEPT ![q].at = "checkPending"]
    <3>1. /\ member' = member /\ raced' = raced /\ req[q].at = "checkMember" /\ req[q].op = "email"
      BY <1>0, <1>17 DEF CheckMember, StepFits
    <3>2. /\ req'[q].at = "checkPending" /\ req'[q].op = req[q].op /\ req'[q].who = req[q].who
          /\ req'[q].role = req[q].role
      BY <1>10, <2>2
    <3>3. "member" \in Roles  BY DEF Roles
    <3>4. QED  BY <1>0, <3>1, <3>2, <3>3 DEF StepFits, AdditionFits
  <2>3. QED  BY <1>0, <1>17, <2>1, <2>2 DEF CheckMember
<1>18. CASE LinkSeat(q)
  <2>1. CASE req' = [req EXCEPT ![q].at = "readChain", ![q].op = "seat"]
    <3>1. req'[q].at = "readChain" /\ req'[q].op = "seat"
      BY <1>0, <2>1 DEF Request
    <3>2. QED  BY <3>1 DEF StepFits, AdditionFits
  <2>2. CASE req' = [req EXCEPT ![q].at = "insertSeat"]
    <3>1. /\ UNCHANGED <<invitations, member, raced>> /\ req[q].at = "link" /\ req[q].op = "email"
      BY <1>0, <1>18 DEF LinkSeat, StepFits
    <3>2. /\ req'[q].at = "insertSeat" /\ req'[q].op = req[q].op /\ req'[q].who = req[q].who
          /\ req'[q].role = req[q].role /\ req'[q].invitation = req[q].invitation
      BY <1>10, <2>2
    <3>3. QED  BY <1>0, <3>1, <3>2 DEF StepFits, AdditionFits
  <2>3. QED  BY <1>18, <2>1, <2>2 DEF LinkSeat
<1>19. CASE InsertSeat(q)
  <2>1. CASE req'[q] = Idle  BY <1>2, <2>1
  <2>2. CASE req' = [req EXCEPT ![q].at = "readChain", ![q].op = "seat"]
    <3>1. req'[q].at = "readChain" /\ req'[q].op = "seat"
      BY <1>0, <2>2 DEF Request
    <3>2. QED  BY <3>1 DEF StepFits, AdditionFits
  <2>3. QED  BY <1>0, <1>19, <2>1, <2>2 DEF InsertSeat
<1>20. CASE ReadChain(q)
  <2>1. /\ req'[q].at = "appendEvent" /\ req'[q].op = req[q].op /\ req'[q].who = req[q].who
        /\ req'[q].role = req[q].role /\ req'[q].invitation = req[q].invitation
    BY <1>0, <1>20 DEF ReadChain, Request
  <2>2. UNCHANGED <<invitations, member, raced>> /\ req[q].at = "readChain"
    BY <1>20 DEF ReadChain
  <2>3. QED  BY <1>0, <2>1, <2>2 DEF StepFits, AdditionFits
<1>21. CASE AppendEvent(q)
  <2>1. CASE req'[q] = Idle  BY <1>2, <2>1
  <2>2. CASE req' = [req EXCEPT ![q].at = "link"] /\ req[q].op = "email"
    <3>1. UNCHANGED <<invitations, member, raced>> /\ req[q].at = "appendEvent"
      BY <1>21 DEF AppendEvent
    <3>2. /\ req'[q].at = "link" /\ req'[q].op = req[q].op /\ req'[q].who = req[q].who
          /\ req'[q].role = req[q].role /\ req'[q].invitation = req[q].invitation
      BY <1>10, <2>2
    <3>3. QED  BY <1>0, <2>2, <3>1, <3>2 DEF StepFits, AdditionFits
  <2>3. QED  BY <1>0, <1>21, <2>1, <2>2 DEF AppendEvent
<1>22. CASE Dies(q)
  BY <1>0, <1>2, <1>22 DEF Dies
<1>23. QED
  BY <1>2, <1>3, <1>4, <1>5, <1>6, <1>7, <1>8, <1>9, <1>11, <1>12, <1>13, <1>14, <1>15, <1>16,
     <1>17, <1>18, <1>19, <1>20, <1>21, <1>22 DEF Actions, Continue

\* Which action takes a request to the steps that locks, counts and the chain are about.
LEMMA StepsTaken ==
    ASSUME AccessAssumption, TypeOK, RequestInv, NEW q \in Requests, Actions(q)
    PROVE  /\ req'[q].at = "accept" =>
                 \E i \in DOMAIN invitations : AcceptLocks(q, i) /\ req'[q].invitation = i
           /\ req'[q].at = "changeRole" =>
                 \E u \in Users, role \in NextRoles :
                    RoleLocks(q, u, role) /\ req'[q].who = u
           /\ req'[q].at = "insertInvitation" =>
                 InviteChecksPending(q) /\ req'[q].who = req[q].who /\ PendingOf(req[q].who) = {}
           /\ req'[q].at = "appendEvent" =>
                 ReadChain(q) /\ req'[q].op = req[q].op /\ req'[q].prev = Len(audit)
           /\ req'[q].at = "readChain" /\ req'[q].op = "role" => RoleCommits(q)
<1> USE DEF Goto, Done, Unmade, Arrive
<1>0. req \in [Requests -> Request] /\ req[q] \in Request /\ StepFits(q)
  BY DEF TypeOK, Request, RequestInv, StepsFit
<1>1. Idle \in Request /\ Idle.at = "idle" /\ Idle.op = "none"
  BY IdleFacts
<1> DEFINE Other == \/ req'[q].at \notin {"accept", "changeRole", "insertInvitation",
                                          "appendEvent", "readChain"}
                    \/ req'[q].at = "readChain" /\ req'[q].op # "role"
<1>2. CASE req'[q] = Idle
  BY <1>1, <1>2
<1>3. ASSUME NEW u \in Users, NEW role \in InvitedRoles, InviteChecksMember(q, u, role)
      PROVE  Other
  BY <1>0, <1>1, <1>3 DEF InviteChecksMember, Request
<1>4. ASSUME NEW u \in Users, NEW role \in NextRoles, RoleLocks(q, u, role)
      PROVE  req'[q].at = "changeRole" /\ req'[q].who = u
  BY <1>0, <1>1, <1>4 DEF RoleLocks, Request
<1>5. ASSUME NEW u \in Users, AddColleague(q, u) PROVE Other
  BY <1>0, <1>1, <1>5 DEF AddColleague, Request
<1>6. ASSUME NEW u \in Users, AddEmail(q, u) PROVE Other
  BY <1>0, <1>1, <1>6 DEF AddEmail, Request
<1>7. ASSUME NEW i \in DOMAIN invitations, AcceptLocks(q, i)
      PROVE  req'[q].at = "accept" /\ req'[q].invitation = i
  BY <1>0, <1>1, <1>7 DEF AcceptLocks, Request
<1>8. ASSUME NEW i \in DOMAIN invitations, Revoke(q, i) PROVE req'[q] = Idle
  BY <1>0, <1>8 DEF Revoke
<1>9. ASSUME NEW s \in seats, RemoveSeat(q, s) PROVE Other
  BY <1>0, <1>1, <1>9 DEF RemoveSeat, Request
<1>10. ASSUME NEW a, req' = [req EXCEPT ![q].at = a]
       PROVE  req'[q].at = a /\ req'[q].op = req[q].op /\ req'[q].who = req[q].who
  BY <1>0, <1>10 DEF Request
<1>11. ASSUME NEW a, NEW o, req' = [req EXCEPT ![q].at = a, ![q].op = o]
       PROVE  req'[q].at = a /\ req'[q].op = o
  BY <1>0, <1>11 DEF Request
<1>12. ASSUME InviteChecksPending(q)
       PROVE  \/ req'[q] = Idle
              \/ /\ req'[q].at = "insertInvitation" /\ req'[q].who = req[q].who
                 /\ PendingOf(req[q].who) = {}
  BY <1>0, <1>10, <1>12 DEF InviteChecksPending
<1>13. ASSUME InsertInvitation(q) PROVE Other
  <2>1. req[q].op # "role"
    BY <1>0, <1>13 DEF InsertInvitation, StepFits
  <2>2. req'[q].at = "readChain" /\ req'[q].op = req[q].op
    BY <1>0, <1>13 DEF InsertInvitation, Request
  <2>3. QED  BY <2>1, <2>2
<1>14. ASSUME AcceptCommits(q) PROVE Other
  <2>1. req[q].op = "accept" /\ req' = [req EXCEPT ![q].at = "readChain"]
    BY <1>0, <1>14 DEF AcceptCommits, StepFits
  <2>2. QED  BY <1>10, <2>1
<1>15. ASSUME TakeSeat(q) PROVE Other
  <2>1. req' = [req EXCEPT ![q].at = "readChain", ![q].op = "seat"]
    BY <1>15 DEF TakeSeat
  <2>2. QED  BY <1>11, <2>1
<1>16. ASSUME FindPending(q) PROVE Other
  <2>1. CASE req' = [req EXCEPT ![q].at = "checkMember"]  BY <1>10, <2>1
  <2>2. ASSUME NEW i, req' = [req EXCEPT ![q].at = "link", ![q].invitation = i]
        PROVE  req'[q].at = "link"
    BY <1>0, <2>2 DEF Request
  <2>3. QED  BY <1>16, <2>1, <2>2 DEF FindPending
<1>17. ASSUME CheckMember(q) PROVE Other \/ req'[q] = Idle
  BY <1>0, <1>10, <1>17 DEF CheckMember
<1>18. ASSUME LinkSeat(q) PROVE Other
  <2>1. \/ req' = [req EXCEPT ![q].at = "readChain", ![q].op = "seat"]
        \/ req' = [req EXCEPT ![q].at = "insertSeat"]
    BY <1>18 DEF LinkSeat
  <2>2. QED  BY <1>10, <1>11, <2>1
<1>19. ASSUME InsertSeat(q) PROVE Other \/ req'[q] = Idle
  <2>1. \/ req' = [req EXCEPT ![q].at = "readChain", ![q].op = "seat"]
        \/ req' = [req EXCEPT ![q] = Idle]
    BY <1>19 DEF InsertSeat
  <2>2. CASE req' = [req EXCEPT ![q].at = "readChain", ![q].op = "seat"]
    BY <1>11, <2>2
  <2>3. CASE req' = [req EXCEPT ![q] = Idle]
    BY <1>0, <2>3
  <2>4. QED  BY <2>1, <2>2, <2>3
<1>20. ASSUME ReadChain(q)
       PROVE  req'[q].at = "appendEvent" /\ req'[q].op = req[q].op /\ req'[q].prev = Len(audit)
  BY <1>0, <1>20 DEF ReadChain, Request
<1>21. ASSUME AppendEvent(q) PROVE Other \/ req'[q] = Idle
  <2>1. req' = [req EXCEPT ![q].at = "link"] \/ req' = [req EXCEPT ![q] = Idle]
    BY <1>21 DEF AppendEvent
  <2>2. QED  BY <1>0, <1>10, <2>1
<1>22. ASSUME Dies(q) PROVE req'[q] = Idle
  BY <1>0, <1>22 DEF Dies
<1>23. ASSUME RoleCommits(q) PROVE req'[q].at = "readChain"
  BY <1>10, <1>23 DEF RoleCommits
<1>24. \/ Other \/ req'[q] = Idle \/ RoleCommits(q)
       \/ \E i \in DOMAIN invitations : AcceptLocks(q, i)
       \/ \E u \in Users, role \in NextRoles : RoleLocks(q, u, role)
       \/ InviteChecksPending(q) \/ ReadChain(q)
  BY <1>3, <1>5, <1>6, <1>8, <1>9, <1>13, <1>14, <1>15, <1>16, <1>17, <1>18, <1>19, <1>21, <1>22
  DEF Actions, Continue
<1>25. QED
  BY <1>2, <1>4, <1>7, <1>12, <1>20, <1>23, <1>24

LEMMA OnlyAcceptingAccepts ==
    ASSUME AccessAssumption, TypeOK, RequestInv, NEW q \in Requests, Actions(q),
           NEW i \in DOMAIN invitations, invitations'[i].status = "accepted"
    PROVE  invitations[i].status = "accepted" \/ (AcceptCommits(q) /\ req[q].invitation = i)
<1>1. ASSUME Revoke(q, i) PROVE FALSE
  <2>1. invitations' = [invitations EXCEPT ![i].status = "revoked"]
    BY <1>1 DEF Revoke
  <2>2. invitations[i] \in Invitation  BY DEF TypeOK
  <2>3. invitations'[i].status = "revoked"  BY <2>1, <2>2 DEF Invitation
  <2>4. QED  BY <2>3
<1>2. QED  BY <1>1, InvitationsWritten

LEMMA RequestInvStep ==
    ASSUME AccessAssumption, TypeOK, RequestInv, NEW q \in Requests, Actions(q)
    PROVE  RequestInv'
<1>1. StepsFit' /\ AdditionsFit'
  BY OwnFits, OthersFit DEF StepsFit, AdditionsFit
<1>2. LocksExclude'
  <2>1. \A p \in Requests \ {q} : req'[p] = req[p]
    BY OthersWait
  <2>2. ASSUME NEW p \in Requests \ {q}, req'[p].at = "accept", req'[q].at = "accept"
        PROVE  req'[p].invitation # req'[q].invitation
    <3>1. PICK i \in DOMAIN invitations : AcceptLocks(q, i) /\ req'[q].invitation = i
      BY <2>2, StepsTaken
    <3>2. ~InvitationLocked(i)  BY <3>1 DEF AcceptLocks
    <3>3. QED  BY <2>1, <2>2, <3>1, <3>2 DEF InvitationLocked
  <2>3. ASSUME NEW p \in Requests \ {q}, req'[p].at = "changeRole", req'[q].at = "changeRole"
        PROVE  req'[p].who # req'[q].who
    <3>1. PICK u \in Users, role \in NextRoles : RoleLocks(q, u, role) /\ req'[q].who = u
      BY <2>3, StepsTaken
    <3>2. ~MemberLocked(u)  BY <3>1 DEF RoleLocks
    <3>3. QED  BY <2>1, <2>3, <3>1, <3>2 DEF MemberLocked
  <2>4. QED  BY <2>1, <2>2, <2>3 DEF RequestInv, LocksExclude
<1>3. MembersAccepted'
  <2> SUFFICES ASSUME NEW u \in Users, member'[u] # None
               PROVE  \E i \in DOMAIN invitations' :
                         invitations'[i].email = u /\ invitations'[i].status = "accepted"
    BY DEF MembersAccepted
  <2>1. CASE member[u] # None
    <3>1. PICK i \in DOMAIN invitations :
             invitations[i].email = u /\ invitations[i].status = "accepted"
      BY <2>1 DEF RequestInv, MembersAccepted
    <3>2. ~Revoke(q, i) /\ ~(AcceptCommits(q) /\ req[q].invitation = i)
      BY <3>1, WhoIsWritten DEF Revoke
    <3>3. QED  BY <3>1, <3>2, InvitationsWritten
  <2>2. CASE member[u] = None
    <3>1. ~(RoleCommits(q) /\ req[q].who = u)
      <4>1. RoleCommits(q) => member[req[q].who] \in Roles
        BY DEF RoleCommits, RequestInv, StepsFit, StepFits
      <4>2. None \notin Roles  BY DEF AccessAssumption, Roles
      <4>3. QED  BY <2>2, <4>1, <4>2
    <3>2. AcceptCommits(q) /\ req[q].who = u
      BY <2>2, <3>1, MembersStay
    <3>3. /\ req[q].invitation \in DOMAIN invitations
          /\ invitations[req[q].invitation].email = u
      BY <3>2, WhoIsWritten
    <3>4. invitations' = [invitations EXCEPT ![req[q].invitation].status = "accepted"]
      BY <3>2 DEF AcceptCommits
    <3>5. invitations[req[q].invitation] \in Invitation
      BY <3>3 DEF TypeOK
    <3>6. invitations'[req[q].invitation].status = "accepted"
      BY <3>3, <3>4, <3>5 DEF Invitation
    <3>7. QED  BY <3>3, <3>6, InvitationsWritten
  <2>3. QED  BY <2>1, <2>2
<1>4. AcceptedAreMembers'
  <2> SUFFICES ASSUME NEW i \in DOMAIN invitations', invitations'[i].status = "accepted"
               PROVE  member'[invitations'[i].email] # None
    BY DEF AcceptedAreMembers
  <2>1. i \in DOMAIN invitations /\ invitations'[i].email = invitations[i].email
    BY InvitationsWritten
  <2>2. invitations[i].email \in Users
    <3>1. invitations[i] \in Invitation  BY <2>1 DEF TypeOK
    <3>2. QED  BY <3>1 DEF Invitation
  <2>3. CASE invitations[i].status = "accepted"
    BY <2>1, <2>2, <2>3, MembersStay DEF RequestInv, AcceptedAreMembers
  <2>4. CASE invitations[i].status # "accepted"
    <3>2. AcceptCommits(q) /\ req[q].invitation = i
      BY <2>1, <2>4, OnlyAcceptingAccepts
    <3>3. req[q].who = invitations[i].email
      BY <3>2, WhoIsWritten
    <3>4. member' = [member EXCEPT ![req[q].who] = invitations[i].role]
      BY <3>2 DEF AcceptCommits
    <3>5. invitations[i].role \in Roles /\ None \notin Roles
      BY <3>2, WhoIsWritten DEF AccessAssumption, Roles
    <3>6. QED  BY <2>1, <2>2, <3>3, <3>4, <3>5 DEF TypeOK
  <2>5. QED  BY <2>3, <2>4
<1>5. QED  BY <1>1, <1>2, <1>3, <1>4 DEF RequestInv

-----------------------------------------------------------------------------
(***************************************************************************)
(* Pending invitations.                                                    *)
(***************************************************************************)
LEMMA OneMore ==
    ASSUME NEW S, NEW x, IsFiniteSet(S)
    PROVE  /\ IsFiniteSet(S \cup {x}) /\ Cardinality(S) \in Nat /\ Cardinality(S \cup {x}) \in Nat
           /\ Cardinality(S \cup {x}) <= Cardinality(S) + 1
           /\ x \notin S => Cardinality(S \cup {x}) = Cardinality(S) + 1
<1>1. Cardinality(S) \in Nat  BY FS_CardinalityType
<1>2. /\ IsFiniteSet(S \cup {x})
      /\ Cardinality(S \cup {x}) = IF x \in S THEN Cardinality(S) ELSE Cardinality(S) + 1
  BY FS_AddElement
<1>3. QED  BY <1>1, <1>2

LEMMA FewPendingStep ==
    ASSUME AccessAssumption, TypeOK, RequestInv, FewPending, NEW q \in Requests, Actions(q)
    PROVE  FewPending'
<1> SUFFICES ASSUME NEW u \in Users
             PROVE  Cardinality(PendingOf(u)') + Cardinality(Inserting(u)')
                       <= Cardinality(Requests)
  BY DEF FewPending
<1> DEFINE P == PendingOf(u)
           I == Inserting(u)
           n == Len(invitations) + 1
<1>1. /\ IsFiniteSet(P) /\ IsFiniteSet(I) /\ IsFiniteSet(Requests)
      /\ I \subseteq Requests /\ I' \subseteq Requests
  <2>1. DOMAIN invitations = 1..Len(invitations) /\ Len(invitations) \in Nat
    BY DEF TypeOK
  <2>2. IsFiniteSet(1..Len(invitations))  BY <2>1, FS_Interval
  <2>3. P \subseteq 1..Len(invitations)  BY <2>1 DEF PendingOf
  <2>4. IsFiniteSet(P)  BY <2>2, <2>3, FS_Subset
  <2>5. I \subseteq Requests /\ I' \subseteq Requests  BY DEF Inserting
  <2>6. IsFiniteSet(Requests)  BY DEF AccessAssumption
  <2>7. IsFiniteSet(I)  BY <2>5, <2>6, FS_Subset
  <2>8. QED  BY <2>4, <2>5, <2>6, <2>7
<1>2. Cardinality(P) + Cardinality(I) <= Cardinality(Requests)
  BY DEF FewPending
<1>3. Cardinality(P) \in Nat /\ Cardinality(I) \in Nat /\ Cardinality(Requests) \in Nat
  BY <1>1, FS_CardinalityType
<1>4. P' \subseteq P \cup {n} /\ (n \in P' => InsertInvitation(q) /\ req[q].who = u)
  <2>1. ASSUME NEW i \in P', i \in DOMAIN invitations PROVE i \in P
    <3>1. invitations'[i].email = u /\ invitations'[i].status = "pending"
      BY DEF PendingOf
    <3>2. invitations[i].email = u
      BY <2>1, <3>1, InvitationsWritten
    <3>3. ASSUME NEW s \in {"accepted", "revoked"},
                 invitations' = [invitations EXCEPT ![i].status = s]
          PROVE  FALSE
      <4>1. invitations[i] \in Invitation  BY <2>1 DEF TypeOK
      <4>2. QED  BY <2>1, <3>1, <3>3, <4>1 DEF Invitation
    <3>4. ~Revoke(q, i) /\ ~(AcceptCommits(q) /\ req[q].invitation = i)
      BY <3>3 DEF Revoke, AcceptCommits
    <3>5. invitations[i].status = "pending"
      BY <2>1, <3>1, <3>4, InvitationsWritten
    <3>6. QED  BY <2>1, <3>2, <3>5 DEF PendingOf
  <2>2. ASSUME NEW i \in P', i \notin DOMAIN invitations
        PROVE  i = n /\ InsertInvitation(q) /\ req[q].who = u
    <3>1. i \in DOMAIN invitations' /\ invitations'[i].email = u
      BY DEF PendingOf
    <3>2. QED  BY <2>2, <3>1, InvitationsWritten
  <2>3. n \notin DOMAIN invitations
    BY DEF TypeOK
  <2>4. QED  BY <2>1, <2>2, <2>3
<1>5. \A p \in Requests \ {q} : req'[p] = req[p]
  BY OthersWait
<1>6. CASE InsertInvitation(q) /\ req[q].who = u
  <2>1. q \in I  BY <1>6 DEF InsertInvitation, Inserting
  <2>2. q \notin I'
    <3>1. ~InviteChecksPending(q)  BY <1>6 DEF InsertInvitation, InviteChecksPending
    <3>2. QED  BY <3>1, StepsTaken DEF Inserting
  <2>3. I' \subseteq I \ {q}
    BY <1>5, <2>2 DEF Inserting
  <2>4. IsFiniteSet(I \ {q}) /\ Cardinality(I \ {q}) = Cardinality(I) - 1
    BY <1>1, <2>1, FS_RemoveElement
  <2>5. Cardinality(I') <= Cardinality(I) - 1 /\ Cardinality(I') \in Nat
    BY <2>3, <2>4, FS_Subset, FS_CardinalityType
  <2>6. /\ IsFiniteSet(P \cup {n}) /\ Cardinality(P \cup {n}) \in Nat
        /\ Cardinality(P \cup {n}) <= Cardinality(P) + 1
    <3>1. IsFiniteSet(P)  BY <1>1
    <3> HIDE DEF P, n
    <3>2. QED  BY <3>1, OneMore
  <2>7. Cardinality(P') <= Cardinality(P \cup {n}) /\ Cardinality(P') \in Nat
    BY <1>4, <2>6, FS_Subset, FS_CardinalityType
  <2>8. QED  BY <1>2, <1>3, <2>5, <2>6, <2>7
<1>7. CASE q \in I' /\ ~(InsertInvitation(q) /\ req[q].who = u)
  <2>1. req'[q].at = "insertInvitation" /\ req'[q].who = u
    BY <1>7 DEF Inserting
  <2>2. P = {}  BY <2>1, StepsTaken
  <2>3. P' = {}  BY <1>4, <1>7, <2>2
  <2>4. Cardinality(P') = 0  BY <2>3, FS_EmptySet
  <2>5. Cardinality(I') <= Cardinality(Requests) /\ Cardinality(I') \in Nat
    BY <1>1, FS_Subset, FS_CardinalityType
  <2>6. QED  BY <2>4, <2>5
<1>8. CASE q \notin I' /\ ~(InsertInvitation(q) /\ req[q].who = u)
  <2>1. I' \subseteq I  BY <1>5, <1>8 DEF Inserting
  <2>2. P' \subseteq P  BY <1>4, <1>8
  <2>3. /\ Cardinality(I') <= Cardinality(I) /\ Cardinality(I') \in Nat
        /\ Cardinality(P') <= Cardinality(P) /\ Cardinality(P') \in Nat
    BY <1>1, <2>1, <2>2, FS_Subset, FS_CardinalityType
  <2>4. QED  BY <1>2, <1>3, <2>3
<1>9. QED  BY <1>6, <1>7, <1>8

-----------------------------------------------------------------------------
(***************************************************************************)
(* Seats.                                                                  *)
(***************************************************************************)
\* A seat that a step leaves alone.
LEMMA SeatsKept ==
    ASSUME AccessAssumption, TypeOK, RequestInv, SeatInv, NEW q \in Requests, Actions(q),
           NEW s \in seats
    PROVE  SeatFits(s)' /\ (~(AcceptCommits(q) /\ s.invitation = req[q].invitation) => Settles(s)')
<1>1. SeatFits(s) /\ Settles(s) /\ s \in Seat
  BY DEF SeatInv, SeatsFit, TypeOK
<1>2. s.user # None => member'[s.user] # None
  BY <1>1, MembersStay DEF SeatFits, Seat
<1>3. SeatFits(s)'
  BY <1>1, <1>2, InvitationsWritten DEF SeatFits
<1>4. raced \subseteq raced'
  BY Writers DEF AcceptCommits
<1>5. ASSUME ~(AcceptCommits(q) /\ s.invitation = req[q].invitation),
             s.status = "pending", s.email \notin raced'
      PROVE  s.user = None /\ invitations'[s.invitation].status # "accepted"
  <2>1. s.user = None /\ invitations[s.invitation].status # "accepted"
    BY <1>1, <1>4, <1>5 DEF Settles
  <2>2. s.invitation \in DOMAIN invitations
    BY <1>1, <1>5 DEF SeatFits
  <2>3. QED  BY <1>5, <2>1, <2>2, OnlyAcceptingAccepts
<1>6. QED  BY <1>3, <1>5 DEF Settles

\* A colleague takes the seat they have, or a new one.
LEMMA ColleagueSits ==
    ASSUME AccessAssumption, TypeOK, RequestInv, SeatInv, NEW q \in Requests, Actions(q),
           ~AcceptCommits(q), NEW u \in Users, member[u] # None, seats' = Seated(u)
    PROVE  SeatInv'
<1>1. \A s \in seats : SeatFits(s)' /\ Settles(s)' /\ SeatFits(s) /\ s \in Seat
  BY SeatsKept DEF SeatInv, SeatsFit, TypeOK
<1>2. member'[u] # None /\ u # None
  BY MembersStay DEF AccessAssumption
<1>3. CASE SeatOf(u) = {}
  <2> DEFINE x == [user |-> u, email |-> None, invitation |-> 0, status |-> "active"]
  <2>1. seats' = seats \cup {x} /\ \A s \in seats : s.user # u
    BY <1>3 DEF Seated, SeatOf
  <2>2. SeatFits(x)' /\ Settles(x)'
    BY <1>2 DEF SeatFits, Settles
  <2>3. SeatsAreUnique'
    BY <2>1 DEF SeatInv, SeatsAreUnique
  <2>4. QED  BY <1>1, <2>1, <2>2, <2>3 DEF SeatInv, SeatsFit
<1>4. CASE SeatOf(u) # {}
  <2>1. \A x \in seats' : \/ x \in seats /\ x.user # u
                          \/ \E s \in seats : s.user = u /\ x = [s EXCEPT !.status = "active"]
    BY <1>4 DEF Seated, SeatOf
  <2>2. ASSUME NEW s \in seats, s.user = u, NEW x, x = [s EXCEPT !.status = "active"]
        PROVE  /\ SeatFits(x)' /\ Settles(x)'
               /\ x.user = u /\ x.email = s.email
    <3>1. s \in Seat /\ SeatFits(s)'  BY <1>1
    <3>2. x.user = u /\ x.email = s.email /\ x.status = "active" /\ x.invitation = s.invitation
      BY <2>2, <3>1 DEF Seat
    <3>3. QED  BY <1>2, <2>2, <3>1, <3>2 DEF SeatFits, Settles
  <2>3. SeatsAreUnique'
    <3>1. ASSUME NEW x \in seats', NEW y \in seats',
                 (x.user = y.user /\ x.user # None) \/ (x.email = y.email /\ x.email # None)
          PROVE  x = y
      <4>1. CASE x.user = u /\ y.user = u
        <5>1. PICK s \in seats : s.user = u /\ x = [s EXCEPT !.status = "active"]
          BY <2>1, <4>1
        <5>2. PICK t \in seats : t.user = u /\ y = [t EXCEPT !.status = "active"]
          BY <2>1, <4>1
        <5>3. s = t  BY <1>2, <5>1, <5>2 DEF SeatInv, SeatsAreUnique
        <5>4. QED  BY <5>1, <5>2, <5>3
      <4>2. CASE x.user # u /\ y.user # u
        BY <2>1, <2>2, <3>1, <4>2 DEF SeatInv, SeatsAreUnique
      <4>3. ASSUME NEW v \in seats', NEW w \in seats', v.user = u, w.user # u,
                   v.email = w.email, v.email # None
            PROVE  FALSE
        <5>1. PICK s \in seats : s.user = u /\ v = [s EXCEPT !.status = "active"]
          BY <2>1, <4>3
        <5>2. w \in seats  BY <2>1, <2>2, <4>3
        <5>3. s.email = v.email  BY <2>2, <5>1
        <5>4. s = w  BY <4>3, <5>1, <5>2, <5>3 DEF SeatInv, SeatsAreUnique
        <5>5. QED  BY <4>3, <5>1, <5>4
      <4>4. QED  BY <3>1, <4>1, <4>2, <4>3
    <3>2. QED  BY <3>1 DEF SeatsAreUnique
  <2>4. QED  BY <1>1, <2>1, <2>2, <2>3 DEF SeatInv, SeatsFit
<1>5. QED  BY <1>3, <1>4

\* Accepting settles the one seat that waits for the invitation.
LEMMA AcceptanceSeats ==
    ASSUME AccessAssumption, TypeOK, RequestInv, SeatInv, NEW q \in Requests, Actions(q),
           AcceptCommits(q)
    PROVE  SeatInv'
<1> DEFINE u == req[q].who
           i == req[q].invitation
           W == {s \in seats : s.invitation = i /\ s.status = "pending"}
<1>1. \A s \in seats : SeatFits(s) /\ Settles(s) /\ s \in Seat
  BY DEF SeatInv, SeatsFit, TypeOK
<1>2. u \in Users /\ u # None /\ i \in DOMAIN invitations /\ invitations[i].email = u
  BY WhoIsWritten DEF AccessAssumption
<1>3. \A s \in W : s.email = u /\ s.user \in {None, u}
  BY <1>1, <1>2 DEF SeatFits
<1>4. \A s \in seats : SeatFits(s)' /\ (s.invitation # i => Settles(s)')
  BY SeatsKept
<1>5. raced \subseteq raced' /\ seats' = SeatsAfterAcceptance(u, i)
  BY DEF AcceptCommits
<1>6. CASE Taken(u)
  <2>1. seats' = (seats \ W) \cup {s \in W : s.user # None}
    BY <1>5, <1>6 DEF SeatsAfterAcceptance
  <2>2. seats' \subseteq seats /\ \A s \in seats' : s \in W => s.user # None
    BY <2>1
  <2>3. ASSUME NEW s \in seats' PROVE Settles(s)'
    <3>1. CASE s \in W
      <4>1. s.user # None /\ Settles(s) /\ s.status = "pending"
        BY <1>1, <2>2, <3>1
      <4>2. s.email \in raced  BY <4>1 DEF Settles
      <4>3. QED  BY <1>5, <4>2 DEF Settles
    <3>2. CASE s \notin W
      <4>1. s.invitation # i \/ s.status # "pending"  BY <2>2, <3>2
      <4>2. QED  BY <1>4, <2>2, <4>1 DEF Settles
    <3>3. QED  BY <3>1, <3>2
  <2>4. SeatsAreUnique'
    BY <2>2 DEF SeatInv, SeatsAreUnique
  <2>5. QED  BY <1>4, <2>2, <2>3, <2>4 DEF SeatInv, SeatsFit
<1>7. CASE ~Taken(u)
  <2>1. seats' = (seats \ W) \cup {[s EXCEPT !.user = u, !.status = "active"] : s \in W}
    BY <1>5, <1>7 DEF SeatsAfterAcceptance
  <2>2. \A x \in seats' : \/ x \in seats \ W
                          \/ \E s \in W : x = [s EXCEPT !.user = u, !.status = "active"]
    BY <2>1
  <2>3. \A s \in seats : s.user # u
    BY <1>7 DEF Taken
  <2>4. ASSUME NEW s \in W, NEW x, x = [s EXCEPT !.user = u, !.status = "active"]
        PROVE  x.user = u /\ x.email = u /\ SeatFits(x)' /\ Settles(x)'
    <3>1. s \in Seat /\ s.email = u /\ SeatFits(s)'
      BY <1>1, <1>3, <1>4
    <3>2. x.user = u /\ x.email = u /\ x.status = "active" /\ x.invitation = s.invitation
      BY <2>4, <3>1 DEF Seat
    <3>3. member'[u] # None
      <4>1. member' = [member EXCEPT ![u] = invitations[i].role]
        BY DEF AcceptCommits
      <4>2. invitations[i].role \in Roles /\ None \notin Roles
        BY WhoIsWritten DEF AccessAssumption, Roles
      <4>3. QED  BY <1>2, <4>1, <4>2 DEF TypeOK
    <3>4. SeatFits(x)'
      BY <1>2, <3>1, <3>2, <3>3 DEF SeatFits
    <3>5. QED  BY <3>2, <3>4 DEF Settles
  <2>5. \A s, t \in W : s = t
    BY <1>2, <1>3 DEF SeatInv, SeatsAreUnique
  <2>6. SeatsAreUnique'
    <3>1. ASSUME NEW x \in seats', NEW y \in seats',
                 (x.user = y.user /\ x.user # None) \/ (x.email = y.email /\ x.email # None)
          PROVE  x = y
      <4>1. CASE x \in seats \ W /\ y \in seats \ W
        BY <3>1, <4>1 DEF SeatInv, SeatsAreUnique
      <4>2. CASE x \notin seats \ W /\ y \notin seats \ W
        <5>1. PICK s \in W : x = [s EXCEPT !.user = u, !.status = "active"]  BY <2>2, <4>2
        <5>2. PICK t \in W : y = [t EXCEPT !.user = u, !.status = "active"]  BY <2>2, <4>2
        <5>3. QED  BY <2>5, <5>1, <5>2
      <4>3. ASSUME NEW v \in seats \ W, NEW w \in seats', w \notin seats \ W,
                   (v.user = w.user /\ v.user # None) \/ (v.email = w.email /\ v.email # None)
            PROVE  FALSE
        <5>1. PICK s \in W : w = [s EXCEPT !.user = u, !.status = "active"]  BY <2>2, <4>3
        <5>2. w.user = u /\ w.email = u  BY <2>4, <5>1
        <5>3. v.email = u  BY <2>3, <4>3, <5>2
        <5>4. v = s  BY <1>2, <1>3, <5>3 DEF SeatInv, SeatsAreUnique
        <5>5. QED  BY <5>4
      <4>4. QED  BY <3>1, <4>1, <4>2, <4>3
    <3>2. QED  BY <3>1 DEF SeatsAreUnique
  <2>7. ASSUME NEW s \in seats \ W PROVE SeatFits(s)' /\ Settles(s)'
    <3>1. s.invitation # i \/ s.status # "pending"  BY <2>7
    <3>2. QED  BY <1>4, <3>1 DEF Settles
  <2>8. QED  BY <2>2, <2>4, <2>6, <2>7 DEF SeatInv, SeatsFit
<1>8. QED  BY <1>6, <1>7

\* What an addition knows when it writes a pending seat: the user is no member and has not
\* accepted the invitation, unless they did so meanwhile.
LEMMA AdditionSeats ==
    ASSUME AccessAssumption, TypeOK, RequestInv, NEW q \in Requests,
           LinkSeat(q) \/ InsertSeat(q)
    PROVE  /\ req[q].who \in Users /\ req[q].who # None
           /\ req[q].invitation \in DOMAIN invitations
           /\ invitations[req[q].invitation].email = req[q].who
           /\ req[q].who \notin raced =>
                 /\ member[req[q].who] = None
                 /\ invitations[req[q].invitation].status # "accepted"
           /\ UNCHANGED <<invitations, member, raced>>
<1>1. req[q].at \in {"link", "insertSeat"} /\ req[q].op = "email"
  BY DEF LinkSeat, InsertSeat, RequestInv, StepsFit, StepFits
<1>2. /\ req[q].who \in Users /\ req[q].invitation \in DOMAIN invitations
      /\ invitations[req[q].invitation].email = req[q].who
      /\ req[q].who \notin raced => member[req[q].who] = None
  BY <1>1 DEF RequestInv, AdditionsFit, AdditionFits
<1>3. req[q].who \notin raced => invitations[req[q].invitation].status # "accepted"
  BY <1>2 DEF RequestInv, AcceptedAreMembers
<1>4. UNCHANGED <<invitations, member, raced>>
  BY DEF LinkSeat, InsertSeat
<1>5. QED  BY <1>2, <1>3, <1>4 DEF AccessAssumption

LEMMA LinkedSeats ==
    ASSUME AccessAssumption, TypeOK, RequestInv, SeatInv, NEW q \in Requests, Actions(q),
           LinkSeat(q), seats' # seats
    PROVE  SeatInv'
<1> DEFINE u == req[q].who
           k == req[q].invitation
           E == WithEmail(u)
<1>1. /\ u \in Users /\ u # None /\ k \in DOMAIN invitations /\ invitations[k].email = u
      /\ u \notin raced => member[u] = None /\ invitations[k].status # "accepted"
      /\ UNCHANGED <<invitations, member, raced>>
  BY AdditionSeats
<1>2. ~AcceptCommits(q)  BY DEF LinkSeat, AcceptCommits
<1>3. \A s \in seats : SeatFits(s) /\ s \in Seat /\ SeatFits(s)' /\ Settles(s)'
  BY <1>2, SeatsKept DEF SeatInv, SeatsFit, TypeOK
<1>4. seats' = (seats \ E) \cup {[s EXCEPT !.status = "pending", !.invitation = k] : s \in E}
  BY DEF LinkSeat
<1>5. \A x \in seats' : \/ x \in seats
                        \/ \E s \in E : x = [s EXCEPT !.status = "pending", !.invitation = k]
  BY <1>4
<1>6. \A x \in seats' : x \in seats \ E
                        \/ \E s \in E : x = [s EXCEPT !.status = "pending", !.invitation = k]
  BY <1>4
<1>7. ASSUME NEW s \in E, NEW x, x = [s EXCEPT !.status = "pending", !.invitation = k]
      PROVE  x.user = s.user /\ x.email = u /\ SeatFits(x)' /\ Settles(x)'
  <2>1. s \in seats /\ s \in Seat /\ s.email = u /\ SeatFits(s)
    BY <1>3 DEF WithEmail
  <2>2. x.user = s.user /\ x.email = u /\ x.status = "pending" /\ x.invitation = k
    BY <1>7, <2>1 DEF Seat
  <2>3. SeatFits(x)'
    BY <1>1, <2>1, <2>2 DEF SeatFits
  <2>4. Settles(x)'
    BY <1>1, <2>1, <2>2 DEF SeatFits, Settles
  <2>5. QED  BY <2>2, <2>3, <2>4
<1>8. \A s, t \in E : s = t
  BY <1>1 DEF WithEmail, SeatInv, SeatsAreUnique
<1>9. SeatsAreUnique'
  <2>1. ASSUME NEW x \in seats', NEW y \in seats',
               (x.user = y.user /\ x.user # None) \/ (x.email = y.email /\ x.email # None)
        PROVE  x = y
    <3>1. CASE x \in seats \ E /\ y \in seats \ E
      BY <2>1, <3>1 DEF SeatInv, SeatsAreUnique
    <3>2. CASE x \notin seats \ E /\ y \notin seats \ E
      <4>1. PICK s \in E : x = [s EXCEPT !.status = "pending", !.invitation = k]
        BY <1>6, <3>2
      <4>2. PICK t \in E : y = [t EXCEPT !.status = "pending", !.invitation = k]
        BY <1>6, <3>2
      <4>3. QED  BY <1>8, <4>1, <4>2
    <3>3. ASSUME NEW v \in seats \ E, NEW w \in seats', w \notin seats \ E,
                 (v.user = w.user /\ v.user # None) \/ (v.email = w.email /\ v.email # None)
          PROVE  FALSE
      <4>1. PICK s \in E : w = [s EXCEPT !.status = "pending", !.invitation = k]
        BY <1>6, <3>3
      <4>2. s \in seats /\ w.user = s.user /\ w.email = u /\ s.email = u
        BY <1>7, <4>1 DEF WithEmail
      <4>3. v.email # u  BY <3>3 DEF WithEmail
      <4>4. v = s  BY <3>3, <4>2, <4>3 DEF SeatInv, SeatsAreUnique
      <4>5. QED  BY <4>2, <4>3, <4>4
    <3>4. QED  BY <2>1, <3>1, <3>2, <3>3
  <2>2. QED  BY <2>1 DEF SeatsAreUnique
<1>10. QED  BY <1>3, <1>5, <1>7, <1>9 DEF SeatInv, SeatsFit

LEMMA InsertedSeats ==
    ASSUME AccessAssumption, TypeOK, RequestInv, SeatInv, NEW q \in Requests, Actions(q),
           InsertSeat(q), seats' # seats
    PROVE  SeatInv'
<1> DEFINE u == req[q].who
           k == req[q].invitation
<1>1. /\ u \in Users /\ u # None /\ k \in DOMAIN invitations /\ invitations[k].email = u
      /\ u \notin raced => member[u] = None /\ invitations[k].status # "accepted"
      /\ UNCHANGED <<invitations, member, raced>>
  BY AdditionSeats
<1>2. ~AcceptCommits(q)  BY DEF InsertSeat, AcceptCommits
<1>3. \A s \in seats : SeatFits(s)' /\ Settles(s)'
  BY <1>2, SeatsKept
<1>4. PICK x : /\ x = [user |-> None, email |-> u, status |-> "pending", invitation |-> k]
               /\ seats' = seats \cup {x} /\ WithEmail(u) = {}
  BY DEF InsertSeat
<1>9. x.user = None /\ x.email = u /\ x.status = "pending" /\ x.invitation = k
  BY <1>4
<1>5. SeatFits(x)' /\ Settles(x)'
  BY <1>1, <1>9 DEF SeatFits, Settles
<1>6. \A s \in seats : s.email # u
  BY <1>4 DEF WithEmail
<1>7. SeatsAreUnique'
  BY <1>4, <1>6, <1>9 DEF SeatInv, SeatsAreUnique
<1>8. QED  BY <1>3, <1>4, <1>5, <1>7 DEF SeatInv, SeatsFit

LEMMA SeatInvStep ==
    ASSUME AccessAssumption, TypeOK, RequestInv, SeatInv, NEW q \in Requests, Actions(q)
    PROVE  SeatInv'
<1>1. ASSUME ~AcceptCommits(q), seats' \subseteq seats PROVE SeatInv'
  <2>1. \A s \in seats : SeatFits(s)' /\ Settles(s)'
    BY <1>1, SeatsKept
  <2>2. SeatsAreUnique'
    BY <1>1 DEF SeatInv, SeatsAreUnique
  <2>3. QED  BY <1>1, <2>1, <2>2 DEF SeatInv, SeatsFit
<1>2. CASE AcceptCommits(q)  BY <1>2, AcceptanceSeats
<1>3. ASSUME NEW u \in Users, AddColleague(q, u), ~AcceptCommits(q) PROVE SeatInv'
  BY <1>3, ColleagueSits DEF AddColleague
<1>4. ASSUME TakeSeat(q), ~AcceptCommits(q) PROVE SeatInv'
  <2>1. req[q].op = "email" /\ req[q].at = "takeSeat"
    BY <1>4 DEF TakeSeat, RequestInv, StepsFit, StepFits
  <2>2. req[q].who \in Users /\ member[req[q].who] # None
    BY <2>1 DEF RequestInv, AdditionsFit, AdditionFits
  <2>3. seats' = Seated(req[q].who)  BY <1>4 DEF TakeSeat
  <2>4. QED  BY <1>4, <2>2, <2>3, ColleagueSits
<1>5. ASSUME LinkSeat(q), ~AcceptCommits(q) PROVE SeatInv'
  BY <1>1, <1>5, LinkedSeats
<1>6. ASSUME InsertSeat(q), ~AcceptCommits(q) PROVE SeatInv'
  BY <1>1, <1>6, InsertedSeats
<1>7. ASSUME NEW s \in seats, RemoveSeat(q, s), ~AcceptCommits(q) PROVE SeatInv'
  BY <1>1, <1>7 DEF RemoveSeat
<1>8. QED  BY <1>1, <1>2, <1>3, <1>4, <1>5, <1>6, <1>7, Writers

-----------------------------------------------------------------------------
(***************************************************************************)
(* The chain.                                                              *)
(***************************************************************************)
LEMMA ChainInvStep ==
    ASSUME AccessAssumption, TypeOK, RequestInv, ChainInv, NEW q \in Requests, Actions(q)
    PROVE  ChainInv'
<1> SUFFICES ASSUME ~forked'
             PROVE  /\ VerifyChain'
                    /\ \A p \in Requests : req'[p].at = "appendEvent" => req'[p].prev = Len(audit')
                    /\ \A p, r \in Requests :
                          req'[p].at = "appendEvent" /\ req'[r].at = "appendEvent" => p = r
  BY DEF ChainInv
<1>1. audit \in Seq([op : Operations, prev : Nat]) /\ Len(audit) \in Nat
  BY DEF TypeOK
<1>2. ~forked
  BY Writers DEF ReadChain
<1>3. /\ VerifyChain
      /\ \A p \in Requests : req[p].at = "appendEvent" => req[p].prev = Len(audit)
      /\ \A p, r \in Requests : req[p].at = "appendEvent" /\ req[r].at = "appendEvent" => p = r
  BY <1>2 DEF ChainInv
<1>4. \A p \in Requests \ {q} : req'[p] = req[p]
  BY OthersWait
<1>5. CASE AppendEvent(q)
  <2> DEFINE e == [op |-> req[q].op, prev |-> req[q].prev]
  <2>1. /\ audit' = Append(audit, e) /\ req[q].at = "appendEvent"
        /\ e.prev = Len(audit) /\ e \in [op : Operations, prev : Nat]
    BY <1>3, <1>5, WhoIsWritten DEF AppendEvent, Request
  <2>2. req'[q].at # "appendEvent"
    BY <2>1, StepsTaken DEF ReadChain
  <2>3. \A p \in Requests : req'[p].at # "appendEvent"
    BY <1>3, <1>4, <2>1, <2>2
  <2> HIDE DEF e
  <2>4. /\ DOMAIN audit' = 1..Len(audit) + 1 /\ audit'[Len(audit) + 1] = e
        /\ \A k \in 1..Len(audit) : audit'[k] = audit[k] /\ k \in DOMAIN audit
    BY <1>1, <2>1
  <2>5. VerifyChain'
    BY <1>1, <1>3, <2>1, <2>4 DEF VerifyChain
  <2>6. QED  BY <2>3, <2>5
<1>6. CASE ReadChain(q)
  <2>1. \A p \in Requests : req[p].at # "appendEvent"
    BY <1>6 DEF ReadChain
  <2>2. audit' = audit  BY <1>6 DEF ReadChain
  <2>3. req'[q].prev = Len(audit)
    <3>1. req' = [req EXCEPT ![q].at = "appendEvent", ![q].prev = Len(audit)]
      BY <1>6 DEF ReadChain
    <3>2. req \in [Requests -> Request]  BY DEF TypeOK, Request
    <3>3. QED  BY <3>1, <3>2 DEF Request
  <2>4. QED  BY <1>3, <1>4, <2>1, <2>2, <2>3 DEF VerifyChain
<1>7. CASE ~AppendEvent(q) /\ ~ReadChain(q)
  <2>1. audit' = audit  BY <1>7, Writers
  <2>2. req'[q].at # "appendEvent"  BY <1>7, StepsTaken
  <2>3. QED  BY <1>3, <1>4, <2>1, <2>2 DEF VerifyChain
<1>8. QED  BY <1>5, <1>6, <1>7

-----------------------------------------------------------------------------
(***************************************************************************)
(* Changes of roles in the chain, on their way there, and lost.            *)
(***************************************************************************)
Recorded == {k \in DOMAIN audit : audit[k].op = "role"}
OnTheWay == {p \in Requests : req[p].op = "role" /\ req[p].at \in {"readChain", "appendEvent"}}

\* RoleChangesAreAudited in these words.
LEMMA AuditCounts ==
    RoleChangesAreAudited <=>
        /\ Cardinality(Recorded) + Cardinality(OnTheWay) <= Len(roleLog)
        /\ Len(roleLog) <= Cardinality(Recorded) + Cardinality(OnTheWay) + faults
BY DEF RoleChangesAreAudited, Recorded, OnTheWay

LEMMA FiniteRecords ==
    ASSUME AccessAssumption, TypeOK
    PROVE  /\ IsFiniteSet(Recorded) /\ Cardinality(Recorded) \in Nat
           /\ IsFiniteSet(OnTheWay) /\ Cardinality(OnTheWay) \in Nat
           /\ Len(roleLog) \in Nat /\ faults \in Nat /\ Len(audit) \in Nat
<1>1. DOMAIN audit = 1..Len(audit) /\ Len(audit) \in Nat  BY DEF TypeOK
<1>2. IsFiniteSet(1..Len(audit))  BY <1>1, FS_Interval
<1>3. Recorded \subseteq 1..Len(audit)  BY <1>1 DEF Recorded
<1>4. OnTheWay \subseteq Requests /\ IsFiniteSet(Requests)  BY DEF OnTheWay, AccessAssumption
<1>5. IsFiniteSet(Recorded) /\ IsFiniteSet(OnTheWay)
  BY <1>2, <1>3, <1>4, FS_Subset
<1>6. Cardinality(Recorded) \in Nat /\ Cardinality(OnTheWay) \in Nat
  BY <1>5, FS_CardinalityType
<1>7. Len(roleLog) \in Nat /\ faults \in Nat
  BY DEF TypeOK, AccessAssumption
<1>8. QED  BY <1>1, <1>5, <1>6, <1>7

\* A request on its way to the chain reads it, appends to it or dies.
LEMMA OnlyTheChainIsLeft ==
    ASSUME AccessAssumption, TypeOK, RequestInv, NEW q \in Requests, Actions(q),
           req[q].at \in {"readChain", "appendEvent"}
    PROVE  ReadChain(q) \/ AppendEvent(q) \/ Dies(q)
<1>1. req[q] # Idle  BY DEF Idle
<1>2. QED
  BY <1>1 DEF Actions, Continue, InviteChecksMember, RoleLocks, AddColleague, AddEmail,
      AcceptLocks, Revoke, RemoveSeat, InviteChecksPending, InsertInvitation, AcceptCommits,
      RoleCommits, TakeSeat, FindPending, CheckMember, LinkSeat, InsertSeat, Arrive

LEMMA RoleChangesStep ==
    ASSUME AccessAssumption, TypeOK, RequestInv, RoleChangesAreAudited,
           NEW q \in Requests, Actions(q)
    PROVE  RoleChangesAreAudited'
<1>1. /\ IsFiniteSet(Recorded) /\ Cardinality(Recorded) \in Nat
      /\ IsFiniteSet(OnTheWay) /\ Cardinality(OnTheWay) \in Nat
      /\ Len(roleLog) \in Nat /\ faults \in Nat /\ Len(audit) \in Nat
  BY FiniteRecords
<1>2. /\ Cardinality(Recorded) + Cardinality(OnTheWay) <= Len(roleLog)
      /\ Len(roleLog) <= Cardinality(Recorded) + Cardinality(OnTheWay) + faults
  BY AuditCounts
<1>3. SUFFICES /\ Cardinality(Recorded') + Cardinality(OnTheWay') <= Len(roleLog')
               /\ Len(roleLog') <= Cardinality(Recorded') + Cardinality(OnTheWay') + faults'
  BY DEF RoleChangesAreAudited, Recorded, OnTheWay
<1>4. \A p \in Requests \ {q} : p \in OnTheWay' <=> p \in OnTheWay
  BY OthersWait DEF OnTheWay
<1>5. q \in OnTheWay' => RoleCommits(q) \/ (ReadChain(q) /\ q \in OnTheWay)
  BY StepsTaken DEF OnTheWay, ReadChain
<1>6. OnTheWay \subseteq Requests /\ OnTheWay' \subseteq Requests
  BY DEF OnTheWay
<1>7. CASE RoleCommits(q)
  <2>1. Recorded' = Recorded /\ faults' = faults
    BY <1>7 DEF RoleCommits, Recorded, Goto, Unmade
  <2>2. Len(roleLog') = Len(roleLog) + 1
    BY <1>7 DEF RoleCommits, TypeOK
  <2>3. q \notin OnTheWay  BY <1>7 DEF RoleCommits, OnTheWay
  <2>4. q \in OnTheWay'
    <3>1. req[q].op = "role" /\ req' = [req EXCEPT ![q].at = "readChain"]
      BY <1>7 DEF RoleCommits, Goto, RequestInv, StepsFit, StepFits
    <3>2. req \in [Requests -> Request]  BY DEF TypeOK, Request
    <3>3. req'[q].op = "role" /\ req'[q].at = "readChain"
      BY <3>1, <3>2 DEF Request
    <3>4. QED  BY <3>3 DEF OnTheWay
  <2>5. OnTheWay' = OnTheWay \cup {q}
    BY <1>4, <1>6, <2>4
  <2>6. Cardinality(OnTheWay') = Cardinality(OnTheWay) + 1
    BY <1>1, <2>3, <2>5, OneMore
  <2>7. QED  BY <1>1, <1>2, <2>1, <2>2, <2>6
<1>8. ASSUME q \in OnTheWay, q \notin OnTheWay'
      PROVE  Cardinality(OnTheWay') = Cardinality(OnTheWay) - 1
  <2>1. OnTheWay' = OnTheWay \ {q}  BY <1>4, <1>6, <1>8
  <2>2. QED  BY <1>1, <1>8, <2>1, FS_RemoveElement
<1>9. ASSUME ~(q \in OnTheWay /\ q \notin OnTheWay'), ~RoleCommits(q)
      PROVE  OnTheWay' = OnTheWay
  BY <1>4, <1>5, <1>6, <1>9
<1>10. CASE AppendEvent(q)
  <2> DEFINE e == [op |-> req[q].op, prev |-> req[q].prev]
             n == Len(audit) + 1
  <2>1. audit' = Append(audit, e) /\ roleLog' = roleLog /\ req[q].at = "appendEvent" /\ e.op = req[q].op
        /\ faults' = faults /\ ~RoleCommits(q) /\ ~ReadChain(q)
    BY <1>10 DEF AppendEvent, RoleCommits, ReadChain, Goto, Done, Unmade
  <2>2. audit \in Seq([op : Operations, prev : Nat])  BY DEF TypeOK
  <2> HIDE DEF e
  <2>3. /\ DOMAIN audit' = 1..n /\ audit'[n] = e /\ DOMAIN audit = 1..Len(audit)
        /\ \A k \in 1..Len(audit) : audit'[k] = audit[k]
    BY <1>1, <2>1, <2>2
  <2>4. q \notin OnTheWay'  BY <1>5, <2>1
  <2>5. CASE req[q].op = "role"
    <3>1. q \in OnTheWay  BY <2>1, <2>5 DEF OnTheWay
    <3>2. Cardinality(OnTheWay') = Cardinality(OnTheWay) - 1
      BY <1>8, <2>4, <3>1
    <3>3. Recorded' = Recorded \cup {n} /\ n \notin Recorded
      BY <1>1, <2>1, <2>3, <2>5 DEF Recorded
    <3>4. Cardinality(Recorded') = Cardinality(Recorded) + 1
      <4> HIDE DEF n
      <4>1. QED  BY <1>1, <3>3, OneMore
    <3>5. QED  BY <1>1, <1>2, <2>1, <3>2, <3>4
  <2>6. CASE req[q].op # "role"
    <3>1. q \notin OnTheWay  BY <2>6 DEF OnTheWay
    <3>2. OnTheWay' = OnTheWay  BY <1>9, <2>1, <3>1
    <3>3. Recorded' = Recorded
      BY <1>1, <2>1, <2>3, <2>6 DEF Recorded
    <3>4. QED  BY <1>2, <2>1, <3>2, <3>3
  <2>7. QED  BY <2>5, <2>6
<1>11. CASE ~RoleCommits(q) /\ ~AppendEvent(q)
  <2>1. Recorded' = Recorded /\ roleLog' = roleLog
    BY <1>11, Writers DEF Recorded
  <2>2. CASE Dies(q)
    <3>1. faults' = faults + 1  BY <2>2 DEF Dies
    <3>2. QED  BY <1>1, <1>2, <1>8, <1>9, <1>11, <2>1, <3>1
  <2>3. CASE ~Dies(q)
    <3>1. faults' = faults  BY <2>3, Writers
    <3>2. ASSUME q \in OnTheWay PROVE q \in OnTheWay'
      <4>1. ReadChain(q) /\ req[q].op = "role"
        BY <1>11, <2>3, <3>2, OnlyTheChainIsLeft DEF OnTheWay
      <4>2. req' = [req EXCEPT ![q].at = "appendEvent", ![q].prev = Len(audit)]
        BY <4>1 DEF ReadChain
      <4>3. req \in [Requests -> Request]  BY DEF TypeOK, Request
      <4>4. req'[q].at = "appendEvent" /\ req'[q].op = req[q].op
        BY <4>2, <4>3 DEF Request
      <4>5. QED  BY <4>1, <4>4 DEF OnTheWay
    <3>3. QED  BY <1>2, <1>9, <1>11, <2>1, <3>1, <3>2
  <2>4. QED  BY <2>2, <2>3
<1>12. QED  BY <1>7, <1>10, <1>11

-----------------------------------------------------------------------------
(***************************************************************************)
(* Roles.                                                                  *)
(***************************************************************************)
\* What the log says of its first n changes stays as it is.
LEMMA PastRolesStay ==
    ASSUME NEW u, NEW i, NEW n \in Int, n <= Len(roleLog), NEW role,
           TypeOK, TypeOK', Len(roleLog) <= Len(roleLog'),
           \A k \in DOMAIN roleLog : roleLog'[k] = roleLog[k],
           invitations'[i].role = invitations[i].role
    PROVE  /\ ChangesOf(u, n)' = ChangesOf(u, n)
           /\ IsRoleAfter(u, i, n, role)' <=> IsRoleAfter(u, i, n, role)
<1>1. /\ DOMAIN roleLog = 1..Len(roleLog) /\ DOMAIN roleLog' = 1..Len(roleLog')
      /\ Len(roleLog) \in Nat /\ Len(roleLog') \in Nat
  BY DEF TypeOK
<1>2. ChangesOf(u, n)' = ChangesOf(u, n)
  BY <1>1 DEF ChangesOf
<1>3. \A k \in ChangesOf(u, n) : roleLog'[k] = roleLog[k]
  BY DEF ChangesOf
<1>4. QED  BY <1>2, <1>3 DEF IsRoleAfter

\* Acceptances are for good.
LEMMA AcceptedStay ==
    ASSUME AccessAssumption, TypeOK, RequestInv, NEW q \in Requests, Actions(q), NEW u \in Users
    PROVE  /\ AcceptedBy(u) \subseteq AcceptedBy(u)'
           /\ \A i \in AcceptedBy(u)' \ AcceptedBy(u) :
                 /\ AcceptCommits(q) /\ req[q].invitation = i /\ req[q].who = u
           /\ \A i \in AcceptedBy(u)' : i \in DOMAIN invitations
<1>1. ASSUME NEW i \in AcceptedBy(u) PROVE i \in AcceptedBy(u)'
  <2>1. i \in DOMAIN invitations /\ invitations[i].email = u /\ invitations[i].status = "accepted"
    BY DEF AcceptedBy
  <2>2. ~Revoke(q, i) /\ ~(AcceptCommits(q) /\ req[q].invitation = i)
    BY <2>1, WhoIsWritten DEF Revoke
  <2>3. QED  BY <2>1, <2>2, InvitationsWritten DEF AcceptedBy
<1>2. ASSUME NEW i \in AcceptedBy(u)'
      PROVE  /\ i \in DOMAIN invitations
             /\ i \notin AcceptedBy(u) =>
                   AcceptCommits(q) /\ req[q].invitation = i /\ req[q].who = u
  <2>1. i \in DOMAIN invitations' /\ invitations'[i].email = u /\ invitations'[i].status = "accepted"
    BY DEF AcceptedBy
  <2>2. i \in DOMAIN invitations /\ invitations[i].email = u
    BY <2>1, InvitationsWritten
  <2>3. CASE invitations[i].status = "accepted"
    BY <2>2, <2>3 DEF AcceptedBy
  <2>4. CASE invitations[i].status # "accepted"
    BY <2>1, <2>2, <2>4, OnlyAcceptingAccepts, WhoIsWritten
  <2>5. QED  BY <2>2, <2>3, <2>4
<1>3. QED  BY <1>1, <1>2

LEMMA RoleInvStep ==
    ASSUME AccessAssumption, TypeOK, TypeOK', RequestInv, RoleInv, NEW q \in Requests, Actions(q)
    PROVE  RoleInv'
<1> DEFINE n == Len(roleLog)
<1>1. /\ roleLog \in Seq([who : Users, previous : Roles, next : Roles])
      /\ DOMAIN roleLog = 1..n /\ n \in Nat
      /\ DOMAIN roleLog' = 1..Len(roleLog') /\ Len(roleLog') \in Nat
  BY DEF TypeOK
<1>2. /\ n <= Len(roleLog') /\ \A k \in DOMAIN roleLog : roleLog'[k] = roleLog[k]
      /\ RoleCommits(q) =>
            /\ Len(roleLog') = n + 1
            /\ roleLog'[n + 1].who = req[q].who
            /\ roleLog'[n + 1].previous = req[q].previous
            /\ roleLog'[n + 1].next = req[q].role
  <2>1. CASE RoleCommits(q)
    <3> DEFINE e == [who |-> req[q].who, previous |-> req[q].previous, next |-> req[q].role]
    <3>1. roleLog' = Append(roleLog, e) /\ e.who = req[q].who /\ e.previous = req[q].previous
          /\ e.next = req[q].role
      BY <2>1 DEF RoleCommits
    <3> HIDE DEF e
    <3>2. QED  BY <1>1, <3>1
  <2>2. CASE ~RoleCommits(q)
    <3>1. roleLog' = roleLog  BY <2>2, Writers
    <3>2. n <= Len(roleLog')  BY <1>1, <3>1
    <3>3. \A k \in DOMAIN roleLog : roleLog'[k] = roleLog[k]  BY <3>1
    <3>4. QED  BY <2>2, <3>2, <3>3
  <2>3. QED  BY <2>1, <2>2
<1>3. \A i \in DOMAIN invitations : invitations'[i].role = invitations[i].role
  BY InvitationsWritten
<1>4. ASSUME NEW u \in Users, NEW m \in Int, m <= n, NEW i \in DOMAIN invitations, NEW role
      PROVE  /\ ChangesOf(u, m)' = ChangesOf(u, m)
             /\ IsRoleAfter(u, i, m, role)' <=> IsRoleAfter(u, i, m, role)
  BY <1>2, <1>3, <1>4, PastRolesStay
\* What was explained before the step still is.
<1>5. ASSUME NEW u \in Users, NEW i \in DOMAIN invitations, AcceptedBy(u) = {i}
      PROVE  /\ \A k \in ChangesOf(u, n) : IsRoleAfter(u, i, k - 1, roleLog[k].previous)'
             /\ \A r : r = member[u] => IsRoleAfter(u, i, n, r)
  <2>1. /\ \A k \in ChangesOf(u, n) : IsRoleAfter(u, i, k - 1, roleLog[k].previous)
        /\ IsRoleAfter(u, i, n, member[u])
    BY <1>5 DEF RoleInv, RolesAreExplained
  <2>2. ASSUME NEW k \in ChangesOf(u, n)
        PROVE  IsRoleAfter(u, i, k - 1, roleLog[k].previous)'
    <3>1. k \in DOMAIN roleLog  BY DEF ChangesOf
    <3>2. k - 1 \in Int /\ k - 1 <= n  BY <1>1, <3>1
    <3>3. roleLog'[k] = roleLog[k]  BY <1>2, <3>1
    <3>4. PICK r : r = roleLog[k].previous  OBVIOUS
    <3>5. IsRoleAfter(u, i, k - 1, r)  BY <2>1, <3>4
    <3>6. IsRoleAfter(u, i, k - 1, r)'  BY <1>4, <3>2, <3>5
    <3>7. QED  BY <3>3, <3>4, <3>6 DEF IsRoleAfter
  <2>3. QED  BY <2>1, <2>2
<1>6. SUFFICES ASSUME NEW u \in Users
               PROVE  /\ \A i \in DOMAIN invitations' : AcceptedBy(u)' = {i} =>
                            /\ \A k \in ChangesOf(u, Len(roleLog))' :
                                  IsRoleAfter(u, i, k - 1, roleLog[k].previous)'
                            /\ IsRoleAfter(u, i, Len(roleLog), member[u])'
                      /\ AcceptedBy(u)' = {} => ChangesOf(u, Len(roleLog))' = {}
  BY DEF RoleInv, RolesAreExplained
<1>7. CASE roleLog' = roleLog /\ AcceptedBy(u)' = AcceptedBy(u) /\ member'[u] = member[u]
  <2>1. ChangesOf(u, Len(roleLog))' = ChangesOf(u, n)
    BY <1>7 DEF ChangesOf
  <2>2. ASSUME NEW i \in DOMAIN invitations', AcceptedBy(u)' = {i}
        PROVE  /\ \A k \in ChangesOf(u, n) : IsRoleAfter(u, i, k - 1, roleLog[k].previous)'
               /\ IsRoleAfter(u, i, Len(roleLog), member[u])'
    <3>1. i \in DOMAIN invitations /\ AcceptedBy(u) = {i}
      BY <1>7, <2>2 DEF AcceptedBy
    <3>2. PICK r : r = member[u]  OBVIOUS
    <3>3. PICK m : m = n  OBVIOUS
    <3>4. IsRoleAfter(u, i, m, r)  BY <1>5, <3>1, <3>2, <3>3
    <3>5. IsRoleAfter(u, i, m, r)'  BY <1>1, <1>4, <3>1, <3>3, <3>4
    <3>6. IsRoleAfter(u, i, Len(roleLog), member[u])'
      BY <1>7, <3>2, <3>3, <3>5 DEF IsRoleAfter
    <3>7. QED  BY <1>5, <3>1, <3>6
  <2>3. AcceptedBy(u) = {} => ChangesOf(u, n) = {}
    BY DEF RoleInv
  <2>4. QED  BY <1>7, <2>1, <2>2, <2>3
<1>8. CASE AcceptCommits(q)
  <2> DEFINE j == req[q].invitation
  <2>1. /\ roleLog' = roleLog /\ req[q].who \in Users /\ j \in DOMAIN invitations
        /\ invitations[j].email = req[q].who /\ invitations[j].status = "pending"
        /\ member' = [member EXCEPT ![req[q].who] = invitations[j].role]
    BY <1>8, WhoIsWritten DEF AcceptCommits
  <2>2. CASE u # req[q].who
    <3>1. AcceptedBy(u)' = AcceptedBy(u)  BY <2>2, AcceptedStay
    <3>2. member'[u] = member[u]  BY <2>1, <2>2 DEF TypeOK
    <3>3. QED  BY <1>7, <2>1, <3>1, <3>2
  <2>3. CASE u = req[q].who
    <3>1. ASSUME NEW i \in DOMAIN invitations', AcceptedBy(u)' = {i}
          PROVE  i = j /\ AcceptedBy(u) = {}
      <4>1. j \in AcceptedBy(u)'
        <5>1. invitations[j] \in Invitation  BY <2>1 DEF TypeOK
        <5>2. invitations' = [invitations EXCEPT ![j].status = "accepted"]
          BY <1>8 DEF AcceptCommits
        <5>3. invitations'[j].status = "accepted" /\ invitations'[j].email = u
          BY <2>1, <2>3, <5>1, <5>2 DEF Invitation
        <5>4. j \in DOMAIN invitations'  BY <2>1, InvitationsWritten
        <5>5. QED  BY <5>3, <5>4 DEF AcceptedBy
      <4>2. j \notin AcceptedBy(u)  BY <2>1 DEF AcceptedBy
      <4>3. QED  BY <3>1, <4>1, <4>2, AcceptedStay
    <3>2. j \in AcceptedBy(u)' => AcceptedBy(u)' # {}  OBVIOUS
    <3>3. ChangesOf(u, Len(roleLog))' = ChangesOf(u, n)
      BY <2>1 DEF ChangesOf
    <3>4. AcceptedBy(u) = {} => ChangesOf(u, n) = {}
      BY DEF RoleInv
    <3>5. member'[u] = invitations'[j].role
      BY <1>3, <2>1, <2>3 DEF TypeOK
    <3>6. ASSUME NEW i \in DOMAIN invitations', AcceptedBy(u)' = {i}
          PROVE  IsRoleAfter(u, i, Len(roleLog), member[u])'
      BY <3>1, <3>3, <3>4, <3>5, <3>6 DEF IsRoleAfter
    <3>7. AcceptedBy(u)' = {} => AcceptedBy(u) = {}  BY AcceptedStay
    <3>8. QED  BY <3>1, <3>3, <3>4, <3>6, <3>7
  <2>4. QED  BY <2>2, <2>3
<1>9. CASE RoleCommits(q)
  <2>1. /\ req[q].at = "changeRole" /\ req[q].who \in Users
        /\ member[req[q].who] = req[q].previous /\ req[q].previous \in Roles
        /\ member' = [member EXCEPT ![req[q].who] = req[q].role]
    BY <1>9 DEF RoleCommits, RequestInv, StepsFit, StepFits
  <2>2. AcceptedBy(u)' = AcceptedBy(u)
    <3>1. ~AcceptCommits(q)  BY <2>1 DEF AcceptCommits
    <3>2. QED  BY <3>1, AcceptedStay
  <2>3. Len(roleLog') = n + 1 /\ DOMAIN roleLog' = 1..n + 1
    BY <1>1, <1>2, <1>9
  <2>4. CASE u # req[q].who
    <3>1. ChangesOf(u, Len(roleLog))' = ChangesOf(u, n)
      BY <1>1, <1>2, <1>9, <2>3, <2>4 DEF ChangesOf
    <3>2. member'[u] = member[u]  BY <2>1, <2>4 DEF TypeOK
    <3>3. ASSUME NEW i \in DOMAIN invitations', AcceptedBy(u)' = {i}
          PROVE  /\ \A k \in ChangesOf(u, n) : IsRoleAfter(u, i, k - 1, roleLog[k].previous)'
                 /\ IsRoleAfter(u, i, Len(roleLog), member[u])'
      <4>1. i \in DOMAIN invitations /\ AcceptedBy(u) = {i}
        BY <2>2, <3>3 DEF AcceptedBy
      <4>2. PICK r : r = member[u]  OBVIOUS
      <4>3. IsRoleAfter(u, i, n, r)  BY <1>5, <4>1, <4>2
      <4>4. \A k \in ChangesOf(u, n) : roleLog'[k] = roleLog[k]
        BY <1>1, <1>2 DEF ChangesOf
      <4>5. invitations'[i].role = invitations[i].role  BY <1>3, <4>1
      <4>6. IsRoleAfter(u, i, Len(roleLog), member[u])'
        BY <3>1, <3>2, <4>2, <4>3, <4>4, <4>5 DEF IsRoleAfter
      <4>7. QED  BY <1>5, <4>1, <4>6
    <3>4. AcceptedBy(u) = {} => ChangesOf(u, n) = {}
      BY DEF RoleInv
    <3>5. QED  BY <2>2, <3>1, <3>3, <3>4
  <2>5. CASE u = req[q].who
    <3>1. ChangesOf(u, Len(roleLog))' = ChangesOf(u, n) \cup {n + 1}
      BY <1>1, <1>2, <1>9, <2>3, <2>5 DEF ChangesOf
    <3>2. member'[u] = req[q].role  BY <2>1, <2>5 DEF TypeOK
    <3>3. ASSUME NEW i \in DOMAIN invitations', AcceptedBy(u)' = {i}
          PROVE  /\ \A k \in ChangesOf(u, Len(roleLog))' :
                       IsRoleAfter(u, i, k - 1, roleLog[k].previous)'
                 /\ IsRoleAfter(u, i, Len(roleLog), member[u])'
      <4>1. i \in DOMAIN invitations /\ AcceptedBy(u) = {i}
        BY <2>2, <3>3 DEF AcceptedBy
      <4>2. PICK r : r = member[u]  OBVIOUS
      <4>3. PICK m : m = n  OBVIOUS
      <4>4. IsRoleAfter(u, i, m, r)  BY <1>5, <4>1, <4>2, <4>3
      <4>5. IsRoleAfter(u, i, m, r)'  BY <1>1, <1>4, <4>1, <4>3, <4>4
      <4>6. roleLog'[n + 1].previous = r
        BY <1>2, <1>9, <2>1, <2>5, <4>2
      <4>7. ASSUME NEW k, k = m + 1
            PROVE  IsRoleAfter(u, i, k - 1, roleLog[k].previous)'
        <5>1. k - 1 = m  BY <1>1, <4>3, <4>7
        <5>2. roleLog'[k].previous = r  BY <4>3, <4>6, <4>7
        <5>3. QED  BY <4>5, <5>1, <5>2 DEF IsRoleAfter
      <4>8. IsRoleAfter(u, i, Len(roleLog), member[u])'
        <5>1. n + 1 \in ChangesOf(u, Len(roleLog))'  BY <3>1
        <5>2. \A k \in ChangesOf(u, Len(roleLog))' : k <= n + 1
          BY <1>1, <2>3 DEF ChangesOf
        <5>3. roleLog'[n + 1].next = member'[u]  BY <1>2, <1>9, <3>2
        <5>4. QED  BY <5>1, <5>2, <5>3 DEF IsRoleAfter
      <4>9. QED  BY <1>5, <3>1, <4>1, <4>3, <4>7, <4>8
    <3>4. AcceptedBy(u) # {}
      <4>1. member[u] # None
        BY <2>1, <2>5 DEF AccessAssumption, Roles
      <4>2. QED  BY <4>1 DEF RequestInv, MembersAccepted, AcceptedBy
    <3>5. QED  BY <2>2, <3>3, <3>4
  <2>6. QED  BY <2>4, <2>5
<1>10. CASE ~AcceptCommits(q) /\ ~RoleCommits(q)
  <2>1. roleLog' = roleLog /\ member' = member  BY <1>10, Writers
  <2>2. AcceptedBy(u)' = AcceptedBy(u)  BY <1>10, AcceptedStay
  <2>3. QED  BY <1>7, <2>1, <2>2
<1>11. QED  BY <1>8, <1>9, <1>10

-----------------------------------------------------------------------------
(***************************************************************************)
(* The invariant and what follows from it.                                 *)
(***************************************************************************)
LEMMA InvInit == AccessAssumption /\ Init => Inv
<1> SUFFICES ASSUME AccessAssumption, Init PROVE Inv  OBVIOUS
<1>1. TypeOK  BY TypeInit
<1>2. /\ invitations = << >> /\ roleLog = << >> /\ audit = << >> /\ seats = {}
      /\ member = [u \in Users |-> None] /\ faults = 0
      /\ \A q \in Requests : req[q] = Idle
  BY DEF Init
<1>3. /\ DOMAIN invitations = {} /\ DOMAIN roleLog = {} /\ DOMAIN audit = {} /\ Len(roleLog) = 0
  BY <1>2
<1>4. RequestInv
  BY <1>2, <1>3, IdleFacts
  DEF RequestInv, StepsFit, StepFits, LocksExclude, AdditionsFit, AdditionFits, MembersAccepted,
      AcceptedAreMembers
<1>5. FewPending
  <2>1. ASSUME NEW u \in Users PROVE PendingOf(u) = {} /\ Inserting(u) = {}
    BY <1>2, <1>3, IdleFacts DEF PendingOf, Inserting
  <2>2. Cardinality({}) = 0 /\ Cardinality(Requests) \in Nat
    BY FS_EmptySet, FS_CardinalityType DEF AccessAssumption
  <2>3. QED  BY <2>1, <2>2 DEF FewPending
<1>6. SeatInv
  BY <1>2 DEF SeatInv, SeatsFit, SeatsAreUnique
<1>7. ChainInv
  BY <1>2, <1>3, IdleFacts DEF ChainInv, VerifyChain
<1>8. RoleChangesAreAudited
  <2>1. Recorded = {} /\ OnTheWay = {}
    BY <1>2, <1>3, IdleFacts DEF Recorded, OnTheWay
  <2>2. Cardinality({}) = 0  BY FS_EmptySet
  <2>3. QED  BY <1>2, <1>3, <2>1, <2>2, AuditCounts
<1>9. RoleInv
  <2>1. \A u \in Users : AcceptedBy(u) = {} /\ ChangesOf(u, Len(roleLog)) = {}
    BY <1>3 DEF AcceptedBy, ChangesOf
  <2>2. QED  BY <2>1 DEF RoleInv, RolesAreExplained
<1>10. QED  BY <1>1, <1>4, <1>5, <1>6, <1>7, <1>8, <1>9 DEF Inv

LEMMA InvStep == AccessAssumption /\ Inv /\ [Next]_vars => Inv'
<1>1. ASSUME AccessAssumption, Inv, UNCHANGED vars PROVE Inv'
  <2>1. TypeOK'
    BY <1>1 DEF Inv, vars, TypeOK
  <2>2. RequestInv'
    BY <1>1 DEF Inv, vars, RequestInv, StepsFit, StepFits, LocksExclude, AdditionsFit,
       AdditionFits, MembersAccepted, AcceptedAreMembers
  <2>3. FewPending'
    BY <1>1 DEF Inv, vars, FewPending, PendingOf, Inserting
  <2>4. SeatInv' /\ ChainInv' /\ RoleChangesAreAudited'
    BY <1>1 DEF Inv, vars, SeatInv, SeatsFit, SeatFits, Settles, SeatsAreUnique, ChainInv,
       VerifyChain, RoleChangesAreAudited
  <2>5. RoleInv'
    BY <1>1 DEF Inv, vars, RoleInv, RolesAreExplained, AcceptedBy, ChangesOf, IsRoleAfter
  <2>6. QED  BY <2>1, <2>2, <2>3, <2>4, <2>5 DEF Inv
<1>2. ASSUME AccessAssumption, Inv, NEW q \in Requests, Actions(q) PROVE Inv'
  <2>1. TypeOK'
    <3>1. TypeOK /\ RequestInv /\ [Next]_vars
      BY <1>2 DEF Inv, Next, Actions
    <3>2. QED  BY <1>2, <3>1, TypeStep
  <2>2. RequestInv'  BY <1>2, RequestInvStep DEF Inv
  <2>3. FewPending'  BY <1>2, FewPendingStep DEF Inv
  <2>4. SeatInv'  BY <1>2, SeatInvStep DEF Inv
  <2>5. ChainInv'  BY <1>2, ChainInvStep DEF Inv
  <2>6. RoleChangesAreAudited'  BY <1>2, RoleChangesStep DEF Inv
  <2>7. RoleInv'  BY <1>2, <2>1, RoleInvStep DEF Inv
  <2>8. QED  BY <2>1, <2>2, <2>3, <2>4, <2>5, <2>6, <2>7 DEF Inv
<1>3. QED  BY <1>1, <1>2, NextIsAnAction

LEMMA InvIsInvariant == ASSUME AccessAssumption PROVE Spec => []Inv
<1>1. Init => Inv  BY InvInit
<1>2. Inv /\ [Next]_vars => Inv'  BY InvStep
<1>3. QED  BY <1>1, <1>2, PTL DEF Spec

LEMMA InvImpliesSeatsAreSound == AccessAssumption /\ Inv => SeatsAreSound
<1> SUFFICES ASSUME AccessAssumption, Inv PROVE SeatsAreSound  OBVIOUS
<1>1. PendingAreFew
  <2>1. ASSUME NEW u \in Users
        PROVE  Cardinality(PendingOf(u)) <= Cardinality(Requests)
    <3>1. Cardinality(PendingOf(u)) + Cardinality(Inserting(u)) <= Cardinality(Requests)
      BY DEF Inv, FewPending
    <3>2. Inserting(u) \subseteq Requests /\ IsFiniteSet(Requests)
      BY DEF Inserting, AccessAssumption
    <3>3. Cardinality(Inserting(u)) \in Nat /\ Cardinality(Requests) \in Nat
      BY <3>2, FS_Subset, FS_CardinalityType
    <3>4. Cardinality(PendingOf(u)) \in Nat
      <4>1. DOMAIN invitations = 1..Len(invitations) /\ Len(invitations) \in Nat
        BY DEF Inv, TypeOK
      <4>2. IsFiniteSet(1..Len(invitations))  BY <4>1, FS_Interval
      <4>3. PendingOf(u) \subseteq 1..Len(invitations)  BY <4>1 DEF PendingOf
      <4>4. QED  BY <4>2, <4>3, FS_Subset, FS_CardinalityType
    <3>5. QED  BY <3>1, <3>3, <3>4
  <2>2. QED  BY <2>1 DEF PendingAreFew
<1>2. SeatsAreEarned
  BY DEF Inv, SeatInv, SeatsFit, SeatFits, SeatsAreEarned
<1>3. AcceptanceSettlesSeats
  BY DEF Inv, SeatInv, SeatsFit, Settles, AcceptanceSettlesSeats
<1>4. QED
  BY <1>1, <1>2, <1>3 DEF Inv, RequestInv, SeatInv, SeatsAreSound

\* Members, invitations and seats agree, for any number of people and of requests at a time:
\* every member accepted an invitation of theirs, no more invitations of an address are
\* pending than requests overlap, users and addresses have one live seat each, active seats
\* belong to members, and acceptance leaves no pending seat behind.
\* (invite, accept, revoke, addHumanMembers, removeMember)
THEOREM SeatsStaySound == ASSUME AccessAssumption PROVE Spec => []SeatsAreSound
<1>1. Spec => []Inv  BY InvIsInvariant
<1>2. Inv => SeatsAreSound  BY InvImpliesSeatsAreSound
<1>3. QED  BY <1>1, <1>2, PTL

\* The audit chain breaks only where two appends overlapped, holds every committed change of a
\* role but those of requests that died, and the log of changes explains every member's role.
\* (append, verifyChain, updateMemberRole)
THEOREM AuditStaysSound == ASSUME AccessAssumption PROVE Spec => []AuditIsSound
<1>1. Spec => []Inv  BY InvIsInvariant
<1>2. Inv => AuditIsSound
  BY DEF Inv, ChainInv, RoleInv, AuditIsSound, ChainBreaksOnlyByOverlap
<1>3. QED  BY <1>1, <1>2, PTL

\* An invitation that was accepted or revoked is never written again, whatever overlaps: the
\* row lock of accept keeps a revocation out between its check and its commit.  (accept, revoke)
THEOREM AnswersStay == ASSUME AccessAssumption PROVE Spec => AnswersAreFinal
<1> DEFINE Final == \A i \in DOMAIN invitations :
                        invitations[i].status # "pending" => invitations'[i] = invitations[i]
<1>1. ASSUME AccessAssumption, Inv, NEW q \in Requests, Actions(q) PROVE Final
  <2> SUFFICES ASSUME NEW i \in DOMAIN invitations, invitations[i].status # "pending"
               PROVE  invitations'[i] = invitations[i]
    OBVIOUS
  <2>1. CASE invitations' = invitations  BY <2>1
  <2>2. CASE InsertInvitation(q)
    <3>1. PICK e : invitations' = Append(invitations, e)  BY <2>2 DEF InsertInvitation
    <3>2. invitations \in Seq(Invitation)  BY <1>1 DEF Inv, TypeOK
    <3>3. QED  BY <3>1, <3>2
  <2>3. CASE AcceptCommits(q)
    <3>1. i # req[q].invitation  BY <1>1, <2>3, WhoIsWritten DEF Inv
    <3>2. QED  BY <2>3, <3>1 DEF AcceptCommits
  <2>4. ASSUME NEW j \in DOMAIN invitations, Revoke(q, j)
        PROVE  invitations'[i] = invitations[i]
    BY <2>4 DEF Revoke
  <2>5. QED  BY <1>1, <2>1, <2>2, <2>3, <2>4, Writers
<1>2. Inv /\ [Next]_vars => [Final]_vars
  BY <1>1, NextIsAnAction
<1>3. Spec => []Inv  BY InvIsInvariant
<1>4. QED  BY <1>2, <1>3, PTL DEF Spec, AnswersAreFinal
================================================================================
