---------------------------- MODULE WorkspaceAccess ----------------------------
(***************************************************************************)
(* Who belongs to a workspace and to one of its channels: invitations,     *)
(* members and their roles, the seats of channel_user_memberships, and the *)
(* hash chain that records the changes.  Requests of the owner and of the  *)
(* invited people overlap.  Every step is one statement, or one            *)
(* transaction between its row lock and its COMMIT; what a request has     *)
(* read it keeps until it writes.  An address is named by the user who has *)
(* it.  An invitation that nobody accepts in time is one that nobody       *)
(* accepts: the branch of accept that marks it expired is rolled back by   *)
(* its own error and leaves no trace.                                      *)
(***************************************************************************)
EXTENDS Naturals, Sequences, FiniteSets

CONSTANTS
    Users,          \* invited people; the owner is not one of them
    Requests,       \* HTTP requests that can be in progress at the same time
    None,           \* NULL
    InvitedRoles,   \* roles that invitations ask for
    NextRoles,      \* roles that changes of a role ask for
    MaxRequests,    \* bound on requests altogether
    MaxInvitations, \* bound on rows of workspace_invitations
    MaxFaults       \* bound on requests that die half way

ASSUME AccessAssumption ==
    /\ None \notin Users \cup {"owner", "admin", "member"}
    /\ IsFiniteSet(Requests)
    /\ InvitedRoles \cup NextRoles \subseteq {"owner", "admin", "member"}
    /\ MaxRequests \in Nat /\ MaxInvitations \in Nat /\ MaxFaults \in Nat

VARIABLES
    invitations, \* rows of workspace_invitations, oldest first
    member,      \* member[u]: the role of u in workspace_members, None without a row
    seats,       \* rows of channel_user_memberships of one channel with removed_at NULL
    roleLog,     \* rows of workspace_role_audit_events
    audit,       \* workspace_audit_events, oldest first; prev is the event hashed in
    req,         \* req[q]: what request q has still to do
    forked,      \* whether two appends have read the same last event so far
    raced,       \* users whose acceptance overlapped an invitation to the channel
    made,        \* requests made so far
    faults

vars == <<invitations, member, seats, roleLog, audit, req, forked, raced, made, faults>>

Roles == {"owner", "admin", "member"}
InvitationStatuses == {"pending", "accepted", "revoked"}

\* token: whether issuing it returned the token to somebody who can pass it on.
Invitation == [email : Users, role : Roles, status : InvitationStatuses, token : BOOLEAN]
Ids == 1..MaxInvitations

Seat == [user : Users \cup {None}, email : Users \cup {None},
         invitation : Ids \cup {0}, status : {"active", "pending"}]

Idle == [at |-> "idle", who |-> None, role |-> None, previous |-> None,
         invitation |-> 0, prev |-> 0, op |-> "none"]

Steps == {"idle", "checkMember", "checkPending", "insertInvitation", "accept", "changeRole",
          "findPending", "link", "insertSeat", "takeSeat", "readChain", "appendEvent"}
Operations == {"none", "invite", "accept", "role", "seat", "email"}

TypeOK ==
    /\ invitations \in Seq(Invitation) /\ Len(invitations) <= MaxInvitations
    /\ member \in [Users -> Roles \cup {None}]
    /\ seats \subseteq Seat
    /\ roleLog \in Seq([who : Users, previous : Roles, next : Roles])
    /\ audit \in Seq([op : Operations, prev : Nat])
    /\ req \in [Requests -> [at : Steps, who : Users \cup {None}, role : Roles \cup {None},
                             previous : Roles \cup {None}, invitation : Ids \cup {0}, prev : Nat, op : Operations]]
    /\ forked \in BOOLEAN
    /\ raced \subseteq Users
    /\ made \in 0..MaxRequests /\ faults \in 0..MaxFaults

Init ==
    /\ invitations = << >>
    /\ member = [u \in Users |-> None]
    /\ seats = {}
    /\ roleLog = << >>
    /\ audit = << >>
    /\ req = [q \in Requests |-> Idle]
    /\ forked = FALSE
    /\ raced = {}
    /\ made = 0
    /\ faults = 0

Unmade == UNCHANGED <<made, faults>>
Goto(q, at) == req' = [req EXCEPT ![q].at = at] /\ Unmade
Done(q) == req' = [req EXCEPT ![q] = Idle] /\ Unmade

\* A request arrives and takes its first step; a refused one changes nothing and
\* is not shown.
Arrive(q, r) ==
    /\ req[q] = Idle
    /\ made < MaxRequests
    /\ made' = made + 1
    /\ req' = [req EXCEPT ![q] = r]
    /\ UNCHANGED faults

PendingOf(u) ==
    {i \in DOMAIN invitations : invitations[i].email = u /\ invitations[i].status = "pending"}

-----------------------------------------------------------------------------
(***************************************************************************)
(* Invitations                                                             *)
(***************************************************************************)
\* invite refuses members first.
InviteChecksMember(q, u, role) ==
    /\ member[u] = None
    /\ Arrive(q, [Idle EXCEPT !.at = "checkPending", !.who = u, !.role = role, !.op = "invite"])
    /\ UNCHANGED <<invitations, member, seats, roleLog, audit, forked, raced>>

\* Then addresses with a pending invitation; neither check takes a lock.
InviteChecksPending(q) ==
    /\ req[q].at = "checkPending"
    /\ IF PendingOf(req[q].who) = {} THEN Goto(q, "insertInvitation") ELSE Done(q)
    /\ UNCHANGED <<invitations, member, seats, roleLog, audit, forked, raced>>

\* The endpoint of invite returns the token, addHumanMembers drops it.
InsertInvitation(q) ==
    /\ req[q].at = "insertInvitation"
    /\ Len(invitations) < MaxInvitations
    /\ invitations' = Append(invitations,
           [email |-> req[q].who, role |-> req[q].role, status |-> "pending",
            token |-> req[q].op = "invite"])
    /\ req' = [req EXCEPT ![q].at = "readChain", ![q].invitation = Len(invitations) + 1]
    /\ Unmade
    /\ UNCHANGED <<member, seats, roleLog, audit, forked, raced>>

\* Mutant: the row is read without FOR UPDATE.
InvitationLocked_Never(i) == FALSE

\* SELECT ... FOR UPDATE: somebody is between that lock and the COMMIT.
InvitationLocked(i) == \E q \in Requests : req[q].at = "accept" /\ req[q].invitation = i

\* Mutant: updateMemberRole reads the role without FOR UPDATE.
MemberLocked_Never(u) == FALSE

MemberLocked(u) == \E q \in Requests : req[q].at = "changeRole" /\ req[q].who = u

\* accept: the holder of the address brings the token of a pending invitation.
AcceptLocks(q, i) ==
    /\ invitations[i].token /\ invitations[i].status = "pending"
    /\ ~InvitationLocked(i)
    /\ Arrive(q, [Idle EXCEPT !.at = "accept", !.who = invitations[i].email,
                              !.invitation = i, !.op = "accept"])
    /\ UNCHANGED <<invitations, member, seats, roleLog, audit, forked, raced>>

\* The user has a live seat, of whatever status.
Taken(u) == \E s \in seats : s.user = u

\* Mutant: what cannot be activated stays pending.
SeatsAfterAcceptance_KeepsPending(u, i) ==
    LET waiting == {s \in seats : s.invitation = i /\ s.status = "pending"}
    IN  (seats \ waiting)
            \cup IF Taken(u) THEN waiting
                 ELSE {[s EXCEPT !.user = u, !.status = "active"] : s \in waiting}

\* The pending seats of the invitation become seats of the user unless the user has
\* one, and are removed then.
SeatsAfterAcceptance(u, i) ==
    LET waiting == {s \in seats : s.invitation = i /\ s.status = "pending"}
    IN  (seats \ waiting)
            \cup IF Taken(u) THEN {s \in waiting : s.user # None}
                 ELSE {[s EXCEPT !.user = u, !.status = "active"] : s \in waiting}

\* Requests that have looked for the user u, or for an invitation of u, and will
\* write a pending seat from what they saw.
Inviting(u) == {q \in Requests : req[q].op = "email" /\ req[q].who = u}

\* Mutant: the transaction waits for the lock that it holds.
AcceptCommits_LocksAgain(q) ==
    LET u == req[q].who  i == req[q].invitation IN
    /\ req[q].at = "accept"
    /\ ~MemberLocked(u) /\ ~InvitationLocked(i)
    /\ member' = [member EXCEPT ![u] = invitations[i].role]
    /\ invitations' = [invitations EXCEPT ![i].status = "accepted"]
    /\ seats' = SeatsAfterAcceptance(u, i)
    /\ raced' = IF Inviting(u) # {} THEN raced \cup {u} ELSE raced
    /\ Goto(q, "readChain")
    /\ UNCHANGED <<roleLog, audit, forked>>

AcceptCommits(q) ==
    LET u == req[q].who  i == req[q].invitation IN
    /\ req[q].at = "accept"
    /\ ~MemberLocked(u)
    /\ member' = [member EXCEPT ![u] = invitations[i].role]
    /\ invitations' = [invitations EXCEPT ![i].status = "accepted"]
    /\ seats' = SeatsAfterAcceptance(u, i)
    /\ raced' = IF Inviting(u) # {} THEN raced \cup {u} ELSE raced
    /\ Goto(q, "readChain")
    /\ UNCHANGED <<roleLog, audit, forked>>

\* One UPDATE that waits for the row and then looks at its status again.  It leaves
\* pending seats as they are and writes no audit event.
Revoke(q, i) ==
    /\ invitations[i].status = "pending"
    /\ ~InvitationLocked(i)
    /\ invitations' = [invitations EXCEPT ![i].status = "revoked"]
    /\ Arrive(q, Idle)
    /\ UNCHANGED <<member, seats, roleLog, audit, forked, raced>>

-----------------------------------------------------------------------------
(***************************************************************************)
(* Roles                                                                   *)
(***************************************************************************)
RoleLocks(q, u, role) ==
    /\ member[u] # None
    /\ ~MemberLocked(u)
    /\ Arrive(q, [Idle EXCEPT !.at = "changeRole", !.who = u, !.role = role,
                              !.previous = member[u], !.op = "role"])
    /\ UNCHANGED <<invitations, member, seats, roleLog, audit, forked, raced>>

\* Mutant: the event of the change is not appended.
RoleCommits_Unaudited(q) ==
    /\ req[q].at = "changeRole"
    /\ member' = [member EXCEPT ![req[q].who] = req[q].role]
    /\ roleLog' = Append(roleLog, [who |-> req[q].who, previous |-> req[q].previous,
                                   next |-> req[q].role])
    /\ Done(q)
    /\ UNCHANGED <<invitations, seats, audit, forked, raced>>

RoleCommits(q) ==
    /\ req[q].at = "changeRole"
    /\ member' = [member EXCEPT ![req[q].who] = req[q].role]
    /\ roleLog' = Append(roleLog, [who |-> req[q].who, previous |-> req[q].previous,
                                   next |-> req[q].role])
    /\ Goto(q, "readChain")
    /\ UNCHANGED <<invitations, seats, audit, forked, raced>>

-----------------------------------------------------------------------------
(***************************************************************************)
(* Seats of the channel                                                    *)
(***************************************************************************)
SeatOf(u) == {s \in seats : s.user = u}
WithEmail(u) == {s \in seats : s.email = u}

\* upsertActiveHumanMember: ON CONFLICT on the user's live seat.
Seated(u) ==
    IF SeatOf(u) = {}
    THEN seats \cup {[user |-> u, email |-> None, invitation |-> 0, status |-> "active"]}
    ELSE (seats \ SeatOf(u)) \cup {[s EXCEPT !.status = "active"] : s \in SeatOf(u)}

\* addHumanMembers with a colleague: members stay members, so that the check and
\* the upsert are one step.
AddColleague(q, u) ==
    /\ member[u] # None
    /\ seats' = Seated(u)
    /\ Arrive(q, [Idle EXCEPT !.at = "readChain", !.who = u, !.op = "seat"])
    /\ UNCHANGED <<invitations, member, roleLog, audit, forked, raced>>

\* addHumanMembers with an address: is it a colleague?
AddEmail(q, u) ==
    /\ Arrive(q, [Idle EXCEPT !.at = IF member[u] # None THEN "takeSeat" ELSE "findPending",
                              !.who = u, !.role = "member", !.op = "email"])
    /\ UNCHANGED <<invitations, member, seats, roleLog, audit, forked, raced>>

TakeSeat(q) ==
    /\ req[q].at = "takeSeat"
    /\ seats' = Seated(req[q].who)
    /\ req' = [req EXCEPT ![q].at = "readChain", ![q].op = "seat"]
    /\ Unmade
    /\ UNCHANGED <<invitations, member, roleLog, audit, forked, raced>>

\* No: with a pending invitation the seat is linked to it, without one invite is
\* called.
FindPending(q) ==
    LET u == req[q].who IN
    /\ req[q].at = "findPending"
    /\ IF PendingOf(u) # {}
       THEN \E i \in PendingOf(u) :
                req' = [req EXCEPT ![q].at = "link", ![q].invitation = i] /\ Unmade
       ELSE Goto(q, "checkMember")
    /\ UNCHANGED <<invitations, member, seats, roleLog, audit, forked, raced>>

CheckMember(q) ==
    /\ req[q].at = "checkMember"
    /\ IF member[req[q].who] # None THEN Done(q) ELSE Goto(q, "checkPending")
    /\ UNCHANGED <<invitations, member, seats, roleLog, audit, forked, raced>>

\* upsertPendingEmailMember: the UPDATE finds the live seat of the address, also one
\* that a user has taken since ...
LinkSeat(q) ==
    LET u == req[q].who IN
    /\ req[q].at = "link"
    /\ IF WithEmail(u) # {}
       THEN /\ seats' = (seats \ WithEmail(u)) \cup
                   {[s EXCEPT !.status = "pending", !.invitation = req[q].invitation] :
                        s \in WithEmail(u)}
            /\ req' = [req EXCEPT ![q].at = "readChain", ![q].op = "seat"]
            /\ Unmade
       ELSE Goto(q, "insertSeat") /\ UNCHANGED seats
    /\ UNCHANGED <<invitations, member, roleLog, audit, forked, raced>>

\* ... or an INSERT follows, which the unique index on the address may refuse.
InsertSeat(q) ==
    /\ req[q].at = "insertSeat"
    /\ IF WithEmail(req[q].who) # {}
       THEN Done(q) /\ UNCHANGED seats
       ELSE /\ seats' = seats \cup {[user |-> None, email |-> req[q].who, status |-> "pending",
                                     invitation |-> req[q].invitation]}
            /\ req' = [req EXCEPT ![q].at = "readChain", ![q].op = "seat"]
            /\ Unmade
    /\ UNCHANGED <<invitations, member, roleLog, audit, forked, raced>>

\* removeMember, of a user or of a pending seat by its id.
RemoveSeat(q, s) ==
    /\ seats' = seats \ {s}
    /\ Arrive(q, [Idle EXCEPT !.at = "readChain", !.op = "seat"])
    /\ UNCHANGED <<invitations, member, roleLog, audit, forked, raced>>

-----------------------------------------------------------------------------
(***************************************************************************)
(* The audit chain                                                         *)
(***************************************************************************)
\* append: the hash of the newest event is read ...
ReadChain(q) ==
    /\ req[q].at = "readChain"
    /\ req' = [req EXCEPT ![q].at = "appendEvent", ![q].prev = Len(audit)]
    /\ forked' = (forked \/ \E p \in Requests : req[p].at = "appendEvent")
    /\ Unmade
    /\ UNCHANGED <<invitations, member, seats, roleLog, audit, raced>>

\* ... and hashed into the new one.  An address invited by addHumanMembers gets its
\* seat after the event of the invitation.
AppendEvent(q) ==
    /\ req[q].at = "appendEvent"
    /\ audit' = Append(audit, [op |-> req[q].op, prev |-> req[q].prev])
    /\ IF req[q].op = "email" THEN Goto(q, "link") ELSE Done(q)
    /\ UNCHANGED <<invitations, member, seats, roleLog, forked, raced>>

\* A statement fails or the process stops: the open transaction is rolled back, what
\* was committed before stays and has no event.
Dies(q) ==
    /\ faults < MaxFaults
    /\ req[q] # Idle
    /\ faults' = faults + 1
    /\ req' = [req EXCEPT ![q] = Idle]
    /\ UNCHANGED <<invitations, member, seats, roleLog, audit, forked, raced, made>>

Continue(q) ==
    \/ InviteChecksPending(q) \/ InsertInvitation(q) \/ AcceptCommits(q) \/ RoleCommits(q)
    \/ TakeSeat(q) \/ FindPending(q) \/ CheckMember(q) \/ LinkSeat(q) \/ InsertSeat(q)
    \/ ReadChain(q) \/ AppendEvent(q)

Next ==
    \E q \in Requests :
        \/ \E u \in Users, role \in InvitedRoles : InviteChecksMember(q, u, role)
        \/ \E u \in Users, role \in NextRoles : RoleLocks(q, u, role)
        \/ \E u \in Users : AddColleague(q, u) \/ AddEmail(q, u)
        \/ \E i \in DOMAIN invitations : AcceptLocks(q, i) \/ Revoke(q, i)
        \/ \E s \in seats : RemoveSeat(q, s)
        \/ Continue(q) \/ Dies(q)

Spec == Init /\ [][Next]_vars

\* A request in progress goes on; nobody has to make one.
FairSpec == Spec /\ \A q \in Requests : WF_vars(Continue(q))

-----------------------------------------------------------------------------
\* What became of an invitation stays: an accepted one is never revoked and a revoked
\* one never accepted, in any order of the two requests; and nobody is a member who
\* did not accept one of their own.  (accept, revoke)
AnswersAreFinal ==
    [][\A i \in DOMAIN invitations :
          invitations[i].status # "pending" => invitations'[i] = invitations[i]]_vars

MembersAccepted ==
    \A u \in Users : member[u] # None =>
        \E i \in DOMAIN invitations :
            invitations[i].email = u /\ invitations[i].status = "accepted"

\* An address has at most as many pending invitations as requests can overlap, one
\* when they do not: nothing but two overlapping checks lets a second one in.
PendingAreFew == \A u \in Users : Cardinality(PendingOf(u)) <= Cardinality(Requests)

\* However invitations, acceptances and additions overlap, a user and an address have
\* one live seat each, and an active seat belongs to a member of the workspace.
\* (upsertActiveHumanMember, upsertPendingEmailMember, accept)
SeatsAreUnique ==
    /\ \A s, t \in seats : s.user = t.user /\ s.user # None => s = t
    /\ \A s, t \in seats : s.email = t.email /\ s.email # None => s = t
SeatsAreEarned ==
    \A s \in seats :
        /\ s.status = "active" => s.user # None /\ member[s.user] # None
        /\ s.email # None /\ s.user # None => s.email = s.user

\* A seat stays pending only while its invitation is open or revoked: accepting it
\* leaves no pending seat behind and takes none away from a colleague who sits,
\* unless an addition of the same address was on its way.  (accept)
AcceptanceSettlesSeats ==
    \A s \in seats : s.status = "pending" /\ s.email \notin raced =>
        s.user = None /\ invitations[s.invitation].status # "accepted"

\* Members, invitations and seats agree in every order of the requests.
SeatsAreSound ==
    /\ TypeOK /\ MembersAccepted /\ PendingAreFew
    /\ SeatsAreUnique /\ SeatsAreEarned /\ AcceptanceSettlesSeats

\* The role of a member is the one the newest change recorded, and each change starts
\* from the role that the one before it left, as long as the member has accepted one
\* invitation only.  (updateMemberRole, addMember)
AcceptedBy(u) ==
    {i \in DOMAIN invitations : invitations[i].email = u /\ invitations[i].status = "accepted"}
ChangesOf(u, n) == {k \in DOMAIN roleLog : k <= n /\ roleLog[k].who = u}
IsRoleAfter(u, i, n, role) ==
    \/ ChangesOf(u, n) = {} /\ role = invitations[i].role
    \/ \E k \in ChangesOf(u, n) :
          /\ \A j \in ChangesOf(u, n) : j <= k
          /\ role = roleLog[k].next
RolesAreExplained ==
    \A u \in Users : \A i \in DOMAIN invitations : AcceptedBy(u) = {i} =>
        /\ \A k \in ChangesOf(u, Len(roleLog)) : IsRoleAfter(u, i, k - 1, roleLog[k].previous)
        /\ IsRoleAfter(u, i, Len(roleLog), member[u])

VerifyChain == \A k \in DOMAIN audit : audit[k].prev = k - 1

\* verifyChain finds the chain intact unless two appends have read the same event.
ChainBreaksOnlyByOverlap == forked \/ VerifyChain

\* Every change of a role is recorded in the chain or on its way there, but for at
\* most one change for each request that died after its commit.  (updateMemberRole)
RoleChangesAreAudited ==
    LET recorded == {k \in DOMAIN audit : audit[k].op = "role"}
        onTheWay == {q \in Requests : /\ req[q].op = "role"
                                      /\ req[q].at \in {"readChain", "appendEvent"}}
        known == Cardinality(recorded) + Cardinality(onTheWay)
    IN  known <= Len(roleLog) /\ Len(roleLog) <= known + faults

\* The audit trail: an unbroken chain, with every change of a role in it, that explains the roles.
AuditIsSound == ChainBreaksOnlyByOverlap /\ RoleChangesAreAudited /\ RolesAreExplained

\* Every request comes to an end: the locks of accept and updateMemberRole are never
\* waited for in a circle.
RequestsEnd == \A q \in Requests : req[q] # Idle ~> req[q] = Idle
=============================================================================
