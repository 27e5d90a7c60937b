-------------------------- MODULE MCMessageDispatch --------------------------
(***************************************************************************)
(* A message whose reply is dispatched, for TLC: send chooses between one  *)
(* teammate, in a conversation whose members change, and the orchestrator  *)
(* of a group, here two agents without declared artifacts.  Dispatches     *)
(* share nothing but the members and the conversation, so that one message *)
(* of each kind is enough.                                                 *)
(***************************************************************************)
EXTENDS GroupDispatch

CONSTANTS a1, a2, q1, Questions, MaxAgents, MaxRemovals, MaxDirectFaults

VARIABLES
    kind,                         \* which of the two dispatches runs
    exists, members, mode, messages, linked, replies, dispatch, target, adding, syncing,
    overlapped, unlogged, untold, created, removals, mishaps

TheQuestions == {q1}

Direct == INSTANCE DirectDispatch WITH
    turns <- replies, faults <- mishaps, MaxFaults <- MaxDirectFaults

ASSUME DirectConstants == Direct!DirectAssumption

TheAgents == {a1, a2}
NoKinds == [a \in TheAgents |-> {}]

directVars == <<exists, members, mode, messages, linked, replies, dispatch, target, adding,
                syncing, overlapped, unlogged, untold, created, removals, mishaps>>
allVars == <<kind, vars, directVars>>

\* What the other kind of dispatch would start with does not matter.
DispatchInit ==
    /\ kind \in {"direct", "group"} /\ Init /\ Direct!Init
    /\ kind = "direct" => plan.locked /\ plan.order = << >>

DispatchNext ==
    \/ kind = "group" /\ Next /\ UNCHANGED <<kind, directVars>>
    \/ kind = "direct" /\ Direct!Next /\ UNCHANGED <<kind, vars>>

DispatchSpec ==
    /\ DispatchInit
    /\ [][DispatchNext]_allVars
    /\ WF_allVars(kind = "group" /\ Progress /\ UNCHANGED <<kind, directVars>>)
    /\ \A q \in Questions :
          WF_allVars(kind = "direct" /\ Direct!Advance(q) /\ UNCHANGED <<kind, vars>>)

(* The ledger of turns agrees with what people see in the conversation:    *)
(* nothing is completed that is not visible, what failed is told, nothing  *)
(* is left running when its dispatch is over.  (recordDirectExecution,     *)
(* recordGroupExecution, recordAgentRunsFailed)                            *)
TurnLedgerIsTrue ==
    IF kind = "group" THEN LedgerIsTrue ELSE Direct!LedgerIsTrue /\ Direct!FailuresAreTold

(* A conversation is a group exactly if it has several teammates, unless   *)
(* two changes of its members overlapped.  (addTeammate, removeMember)     *)
ModeMatchesMembers == kind = "direct" => Direct!ModeMatchesMembers

(* Whoever writes gets a reply or a notice, whatever throws, unless the    *)
(* process dies, the notice itself fails or the conversation is deleted.   *)
MessagesAreAnswered ==
    \A q \in Questions :
        (IF kind = "group" THEN api = "preparing" ELSE dispatch[q] = "context")
            ~> (IF kind = "group" THEN Reacted ELSE Direct!Told(q))
=============================================================================
