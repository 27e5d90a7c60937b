----------------------- MODULE MCCodingWorkflowApproval -----------------------
(***************************************************************************)
(* TLC instances of CodingWorkflowApproval.                                *)
(***************************************************************************)
EXTENDS CodingWorkflowApproval

CONSTANTS d1, d2, e1, e2

TwoDeciders == {d1, d2}
TwoExecutions == {e1, e2}
=============================================================================
