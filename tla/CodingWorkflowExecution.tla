------------------------ MODULE CodingWorkflowExecution ------------------------
(***************************************************************************)
(* What an execution of an approved coding workflow may do to the         *)
(* coding_workflows row: CodingWorkflowDispatchService seen from outside.  *)
(* CodingWorkflowDispatch is the detailed executor and implements this     *)
(* specification; CodingWorkflowApproval composes it with the approval     *)
(* gate.                                                                   *)
(***************************************************************************)
EXTENDS Naturals

CONSTANT Executions      \* identities for calls of requestExecution

VARIABLES
    row,        \* the coding_workflows row: state, approval_state, active_plan_version
    exec        \* exec[e]: where execution e stands

execVars == <<row, exec>>

ApprovalStates == {"pending", "approved", "rejected"}

StageStates == {"execution_running", "review_running", "qa_running", "summary_running"}

OutcomeStates == {"completed", "execution_failed"}

WorkflowStates ==
    {"plan_pending_approval", "plan_rejected", "awaiting_user_confirmation"}
        \cup StageStates \cup OutcomeStates

Rows == [state : WorkflowStates, approval : ApprovalStates, version : Nat \ {0}]

(***************************************************************************)
(* free       not used yet                                                 *)
(* requested  requestExecution was called, the row was not read yet        *)
(* running    executeApprovedWorkflow is between its snapshot and the      *)
(*            write of an outcome                                          *)
(* settled    an outcome is written, its announcement is still to come     *)
(* failing    the failure handler threw, recordDispatchFailure is next     *)
(* done       returned                                                     *)
(* lost       ended without a write of its own: the process died, or       *)
(*            recordDispatchFailure failed too                             *)
(***************************************************************************)
ExecStates == {"free", "requested", "running", "settled", "failing", "done", "lost"}

Live(e) == exec[e] \in {"requested", "running", "settled", "failing"}

ExecTypeOK ==
    /\ row \in Rows
    /\ exec \in [Executions -> ExecStates]

\* Mutant: persistWorkflowState also writes back the approval of its snapshot.
SetState_RestoresApproval(s) ==
    row' = [row EXCEPT !.state = s, !.approval = "approved"]

SetState(s) == row' = [row EXCEPT !.state = s]

Goto(e, s) == exec' = [exec EXCEPT ![e] = s]

\* loadWorkflowSnapshot returns null unless the row is approved, and then the
\* execution returns without a trace.
LoadSnapshot(e) ==
    /\ exec[e] = "requested"
    /\ Goto(e, IF row.approval = "approved" THEN "running" ELSE "done")
    /\ UNCHANGED row

\* loadWorkflowSnapshot throws: a query fails or a teammate no longer exists.
LoadFails(e) ==
    /\ exec[e] = "requested"
    /\ Goto(e, "failing")
    /\ UNCHANGED row

\* runStage writes the state of its stage, whatever the row says meanwhile.
EnterStage(e, s) ==
    /\ exec[e] = "running"
    /\ SetState(s)
    /\ UNCHANGED exec

\* persistWorkflowState at the end of the execution or in its failure handler.
WriteOutcome(e, s) ==
    /\ exec[e] = "running"
    /\ SetState(s)
    /\ Goto(e, "settled")

\* The announcement of an outcome failed: the failure handler overwrites it.
RewriteOutcome(e) ==
    /\ exec[e] = "settled"
    /\ SetState("execution_failed")
    /\ UNCHANGED exec

Return(e) ==
    /\ exec[e] = "settled"
    /\ Goto(e, "done")
    /\ UNCHANGED row

\* The failure handler of executeApprovedWorkflow threw.
HandlerFails(e) ==
    /\ exec[e] \in {"running", "settled"}
    /\ Goto(e, "failing")
    /\ UNCHANGED row

\* Mutant: the failure is announced and the row is forgotten.
RecordFailure_Silent(e) ==
    /\ exec[e] = "failing"
    /\ Goto(e, "done")
    /\ UNCHANGED row

\* recordDispatchFailure parks the workflow for the user.
RecordFailure(e) ==
    /\ exec[e] = "failing"
    /\ SetState("awaiting_user_confirmation")
    /\ Goto(e, "done")

Vanish(e) ==
    /\ Live(e)
    /\ Goto(e, "lost")
    /\ UNCHANGED row

ExecStep(e) ==
    \/ LoadSnapshot(e)
    \/ LoadFails(e)
    \/ \E s \in StageStates : EnterStage(e, s)
    \/ \E s \in OutcomeStates : WriteOutcome(e, s)
    \/ RewriteOutcome(e)
    \/ Return(e)
    \/ HandlerFails(e)
    \/ RecordFailure(e)

ExecInit ==
    /\ row = [state |-> "execution_running", approval |-> "approved", version |-> 1]
    /\ exec = [e \in Executions |-> "requested"]

ExecNext == \E e \in Executions : ExecStep(e) \/ Vanish(e)

ExecSpec == ExecInit /\ [][ExecNext]_execVars
=============================================================================
