--------------------------- MODULE MCWorkspaceAccess ---------------------------
(***************************************************************************)
(* TLC instances of WorkspaceAccess.                                       *)
(***************************************************************************)
EXTENDS WorkspaceAccess

CONSTANTS u1, q1, q2

OneUser == {u1}
TwoRequests == {q1, q2}
Member == {"member"}
MemberOrAdmin == {"member", "admin"}

\* Before the first request, or after two overlapping calls of invite whose events
\* were appended one after the other.
StartInit ==
    /\ invitations \in {<< >>, [i \in 1..2 |->
           [email |-> u1, role |-> "member", status |-> "pending", token |-> TRUE]]}
    /\ audit = [k \in 1..Len(invitations) |-> [op |-> "invite", prev |-> k - 1]]
    /\ member = [u \in Users |-> None]
    /\ seats = {}
    /\ roleLog = << >>
    /\ req = [q \in Requests |-> Idle]
    /\ forked = FALSE
    /\ raced = {}
    /\ made = 0
    /\ faults = 0

StartFairSpec == StartInit /\ [][Next]_vars /\ \A q \in Requests : WF_vars(Continue(q))
=============================================================================
