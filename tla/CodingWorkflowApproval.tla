------------------------ MODULE CodingWorkflowApproval ------------------------
(***************************************************************************)
(* The approval gate of a coding workflow: CodingWorkflowsService.decide   *)
(* called by any number of concurrent requests, next to the executions     *)
(* that approvals start.  A call reads the workflow, commits one           *)
(* transaction built from what it read, and after the commit reads again   *)
(* and hands an approved workflow to the executor.  The transactions of    *)
(* two calls are serialised by the row lock of UPDATE coding_workflows;    *)
(* nothing serialises a read and the commit that follows it.               *)
(***************************************************************************)
EXTENDS CodingWorkflowExecution, Sequences

CONSTANTS
    Deciders,        \* concurrent calls of decide (tabs, retries, double clicks)
    MaxDecisions,    \* bound on rows of coding_workflow_approvals
    MaxFaults        \* bound on crashes, failed re-reads and vanished executions

ASSUME BoundsAssumption == MaxDecisions \in Nat /\ MaxFaults \in Nat

VARIABLES
    requests,   \* approval_requests of the workflow, oldest first
    decisions,  \* coding_workflow_approvals of the workflow, oldest first
    call,       \* call[d]: the call of decide that decider d is in
    origin,     \* origin[e]: the decision that started execution e, 0 for none
    overlapped, \* whether two calls of decide have worked on one read so far
    faults

gateVars == <<requests, decisions, call, origin, overlapped, faults>>
vars == <<row, exec, gateVars>>

Choices == {"approved", "rejected", "revision_requested"}
Requests == [version : Nat \ {0}, status : Choices \cup {"pending"}]
Decisions == [choice : Choices, version : Nat \ {0}]

(***************************************************************************)
(* A call is idle, has read the workflow and holds the version it saw and  *)
(* the choice it will record, or has committed an approval (index into     *)
(* decisions) that it has not handed to the executor yet.                  *)
(***************************************************************************)
Idle == [at |-> "idle"]
Calls ==
    {Idle}
        \cup [at : {"read"}, choice : Choices, version : Nat \ {0}]
        \cup [at : {"committed"}, approval : Nat \ {0}]

TypeOK ==
    /\ ExecTypeOK
    /\ requests \in Seq(Requests)
    /\ decisions \in Seq(Decisions)
    /\ call \in [Deciders -> Calls]
    /\ origin \in [Executions -> Nat]
    /\ overlapped \in BOOLEAN
    /\ faults \in Nat

-----------------------------------------------------------------------------
\* Mutant: plan versions start at 0.
Init_VersionZero ==
    /\ row = [state |-> "plan_pending_approval", approval |-> "pending", version |-> 0]
    /\ exec = [e \in Executions |-> "free"]
    /\ requests = << [version |-> 0, status |-> "pending"] >>
    /\ decisions = << >>
    /\ call = [d \in Deciders |-> Idle]
    /\ origin = [e \in Executions |-> 0]
    /\ overlapped = FALSE
    /\ faults = 0

\* The row, the request and the plan that CodingWorkflowsService.create writes.
Init ==
    /\ row = [state |-> "plan_pending_approval", approval |-> "pending", version |-> 1]
    /\ exec = [e \in Executions |-> "free"]
    /\ requests = << [version |-> 1, status |-> "pending"] >>
    /\ decisions = << >>
    /\ call = [d \in Deciders |-> Idle]
    /\ origin = [e \in Executions |-> 0]
    /\ overlapped = FALSE
    /\ faults = 0

\* The two refusals of decide: only a plan awaiting confirmation can be approved
\* or revised; a rejected plan can only be rejected again.
MayDecide(choice) ==
    \/ row.state = "plan_pending_approval"
    \/ row.state = "plan_rejected" /\ choice = "rejected"

ReadWorkflow(d, choice) ==
    /\ call[d] = Idle
    /\ MayDecide(choice)
    /\ call' = [call EXCEPT ![d] =
                    [at |-> "read", choice |-> choice, version |-> row.version]]
    /\ overlapped' = (overlapped \/ \E other \in Deciders : call[other].at = "read")
    /\ UNCHANGED <<row, exec, requests, decisions, origin, faults>>

\* completeLatestApprovalRequest: the newest pending request, if there is one.
IsLatestPending(i) ==
    /\ requests[i].status = "pending"
    /\ \A j \in DOMAIN requests : requests[j].status = "pending" => j <= i

CompleteLatest(choice) ==
    [i \in DOMAIN requests |->
        IF IsLatestPending(i) THEN [requests[i] EXCEPT !.status = choice]
                              ELSE requests[i]]

\* The insert into coding_workflow_approvals, with the version read before.
RecordDecision(d, choice) ==
    /\ call[d].at = "read"
    /\ call[d].choice = choice
    /\ Len(decisions) < MaxDecisions
    /\ decisions' = Append(decisions, [choice |-> choice, version |-> call[d].version])

\* Mutant: the request of the old version is left open.
CommitRevision_LeavesRequest(d) ==
    /\ RecordDecision(d, "revision_requested")
    /\ row' = [state |-> "plan_pending_approval", approval |-> "pending",
               version |-> call[d].version + 1]
    /\ requests' = Append(requests, [version |-> call[d].version + 1, status |-> "pending"])
    /\ call' = [call EXCEPT ![d] = Idle]
    /\ UNCHANGED <<exec, origin, overlapped, faults>>

CommitRevision(d) ==
    /\ RecordDecision(d, "revision_requested")
    /\ row' = [state |-> "plan_pending_approval", approval |-> "pending",
               version |-> call[d].version + 1]
    /\ requests' = Append(CompleteLatest("revision_requested"),
                          [version |-> call[d].version + 1, status |-> "pending"])
    /\ call' = [call EXCEPT ![d] = Idle]
    /\ UNCHANGED <<exec, origin, overlapped, faults>>

CommitRejection(d) ==
    /\ RecordDecision(d, "rejected")
    /\ row' = [row EXCEPT !.state = "plan_rejected", !.approval = "rejected"]
    /\ requests' = CompleteLatest("rejected")
    /\ call' = [call EXCEPT ![d] = Idle]
    /\ UNCHANGED <<exec, origin, overlapped, faults>>

\* deriveExecutionRoles puts the software engineer, whom create requires, first.
FirstExecutionState == "execution_running"

\* Mutant: the state is left to the executor's first stage.
CommitApproval_KeepsState(d) ==
    /\ RecordDecision(d, "approved")
    /\ row' = [row EXCEPT !.approval = "approved"]
    /\ requests' = CompleteLatest("approved")
    /\ call' = [call EXCEPT ![d] = [at |-> "committed", approval |-> Len(decisions) + 1]]
    /\ UNCHANGED <<exec, origin, overlapped, faults>>

CommitApproval(d) ==
    /\ RecordDecision(d, "approved")
    /\ row' = [row EXCEPT !.state = FirstExecutionState, !.approval = "approved"]
    /\ requests' = CompleteLatest("approved")
    /\ call' = [call EXCEPT ![d] = [at |-> "committed", approval |-> Len(decisions) + 1]]
    /\ UNCHANGED <<exec, origin, overlapped, faults>>

\* Mutant: a call that got no answer asks the executor again.
RequestExecution_Repeats(d, e) ==
    /\ call[d].at = "committed"
    /\ exec[e] = "free"
    /\ Goto(e, "requested")
    /\ origin' = [origin EXCEPT ![e] = call[d].approval]
    /\ UNCHANGED <<row, requests, decisions, call, overlapped, faults>>

\* After the commit and the second read: the executor is called, not awaited.
RequestExecution(d, e) ==
    /\ call[d].at = "committed"
    /\ exec[e] = "free"
    /\ Goto(e, "requested")
    /\ origin' = [origin EXCEPT ![e] = call[d].approval]
    /\ call' = [call EXCEPT ![d] = Idle]
    /\ UNCHANGED <<row, requests, decisions, overlapped, faults>>

-----------------------------------------------------------------------------
Fault == faults < MaxFaults /\ faults' = faults + 1

\* The read after the commit throws: the caller gets an error for a decision that
\* is in the database, and nobody calls the executor.
RereadFails(d) ==
    /\ Fault
    /\ call[d].at = "committed"
    /\ call' = [call EXCEPT ![d] = Idle]
    /\ UNCHANGED <<row, exec, requests, decisions, origin, overlapped>>

\* The transaction fails and rolls back, or the client goes away before it.
CommitFails(d) ==
    /\ Fault
    /\ call[d].at = "read"
    /\ call' = [call EXCEPT ![d] = Idle]
    /\ UNCHANGED <<row, exec, requests, decisions, origin, overlapped>>

\* Calls and executions live in one API process; the rows survive it and no
\* code looks for unfinished workflows when it starts again.
ApiCrash ==
    /\ Fault
    /\ \/ \E d \in Deciders : call[d] # Idle
       \/ \E e \in Executions : Live(e)
    /\ call' = [d \in Deciders |-> Idle]
    /\ exec' = [e \in Executions |-> IF Live(e) THEN "lost" ELSE exec[e]]
    /\ UNCHANGED <<row, requests, decisions, origin, overlapped>>

\* recordDispatchFailure throws too: only the log knows.
RecordingFails(e) ==
    /\ Fault
    /\ exec[e] = "failing"
    /\ Vanish(e)
    /\ UNCHANGED <<requests, decisions, call, origin, overlapped>>

Execute(e) == ExecStep(e) /\ UNCHANGED gateVars

Decide(d) ==
    \/ CommitRevision(d)
    \/ CommitRejection(d)
    \/ CommitApproval(d)
    \/ \E e \in Executions : RequestExecution(d, e)

Next ==
    \/ \E d \in Deciders, choice \in Choices : ReadWorkflow(d, choice)
    \/ \E d \in Deciders : Decide(d) \/ CommitFails(d) \/ RereadFails(d)
    \/ \E e \in Executions : Execute(e) \/ RecordingFails(e)
    \/ ApiCrash

Spec == Init /\ [][Next]_vars

\* Calls in progress and executions go on; nobody has to start a call.
FairSpec ==
    /\ Spec
    /\ \A d \in Deciders : WF_vars(Decide(d))
    /\ \A e \in Executions : WF_vars(Execute(e) /\ exec'[e] # exec[e])

-----------------------------------------------------------------------------
(***************************************************************************)
(* What holds however calls of decide overlap and whatever fails.          *)
(***************************************************************************)
Pending == {i \in DOMAIN requests : requests[i].status = "pending"}

\* The gate the user sees and the request in the inbox agree: while the row waits
\* for approval exactly one request is pending and it asks about the row's plan
\* version; otherwise none is.  (insertApprovalRequest, completeLatestApprovalRequest)
GateMatchesRequests ==
    /\ \A i, j \in Pending : i = j
    /\ row.approval = "pending" <=> Pending # {}
    /\ \A i \in Pending : requests[i].version = row.version

\* An execution was started by an approval on record, and no approval started two,
\* even when calls overlap and the process crashes in between.  (decide, requestExecution)
ExecutionNeedsApproval ==
    /\ \A e \in Executions : exec[e] # "free" =>
          /\ origin[e] \in DOMAIN decisions
          /\ decisions[origin[e]].choice = "approved"
    /\ \A e, f \in Executions :
          exec[e] # "free" /\ exec[f] # "free" /\ origin[e] = origin[f] => e = f

Last == decisions[Len(decisions)]

\* The gate is what the newest decision on record made it; executions never touch
\* it.  A late revision therefore brings back the version after the one it was
\* about, not the one after the current plan.  (handle*Decision, persistWorkflowState)
GateFollowsLastDecision ==
    decisions # << >> =>
        CASE Last.choice = "approved" -> row.approval = "approved"
          [] Last.choice = "rejected" -> row.approval = "rejected"
          [] OTHER -> row.approval = "pending" /\ row.version = Last.version + 1

(***************************************************************************)
(* What holds as long as no two calls of decide have overlapped.           *)
(***************************************************************************)
\* Without an overlap, work on a plan, and the result of the work, stand only under
\* an approval.  (decide, executeApprovedWorkflow)
WorkMeansApproved ==
    overlapped
        \/ (row.state \in StageStates \cup OutcomeStates => row.approval = "approved")

\* Without an overlap, one plan is never executed twice, so two executors never
\* overwrite each other's row and tasks.  (decide, requestExecution)
AtMostOneExecution ==
    overlapped
        \/ \A e, f \in Executions : exec[e] # "free" /\ exec[f] # "free" => e = f

\* Both together: the work of a workflow is approved, and done once.
WorkIsApprovedOnce == WorkMeansApproved /\ AtMostOneExecution

\* An approval in force reaches an outcome, is parked for the user or is taken back
\* by a stale decision, unless a fault takes the call or the execution away.
Settled ==
    \/ row.state \in OutcomeStates \cup {"awaiting_user_confirmation"}
    \/ row.approval # "approved"
    \/ faults > 0
ApprovedPlanSettles == row.approval = "approved" ~> Settled

\* What decide says of itself: only a plan that awaits confirmation is approved or
\* revised.  Two overlapping calls refute it.
OnlyPendingPlanIsDecided ==
    [][Len(decisions') > Len(decisions) /\ decisions'[Len(decisions')].choice # "rejected"
         => row.state = "plan_pending_approval"]_vars
=============================================================================
