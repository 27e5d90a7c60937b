--------------------- MODULE CodingWorkflowApprovalProofs ---------------------
(***************************************************************************)
(* The invariants of the approval gate, for any number of deciders and     *)
(* executions and any bounds.                                              *)
(***************************************************************************)
EXTENDS CodingWorkflowApproval, SequenceTheorems, TLAPS

\* What every action of an execution does to the state of the gate: nothing but
\* the row's state and the execution's own place changes, and no place becomes free.
LEMMA ExecutionLeavesGateAlone ==
    ASSUME ExecTypeOK, NEW e \in Executions, ExecStep(e) \/ Vanish(e)
    PROVE  /\ ExecTypeOK'
           /\ row'.approval = row.approval
           /\ row'.version = row.version
           /\ \A f \in Executions : exec'[f] = "free" <=> exec[f] = "free"
<1> USE DEF ExecTypeOK, Rows, WorkflowStates, StageStates, OutcomeStates, ExecStates,
            SetState, Goto
<1>1. CASE LoadSnapshot(e)  BY <1>1 DEF LoadSnapshot
<1>2. CASE LoadFails(e)  BY <1>2 DEF LoadFails
<1>3. CASE \E s \in StageStates : EnterStage(e, s)  BY <1>3 DEF EnterStage
<1>4. CASE \E s \in OutcomeStates : WriteOutcome(e, s)  BY <1>4 DEF WriteOutcome
<1>5. CASE RewriteOutcome(e)  BY <1>5 DEF RewriteOutcome
<1>6. CASE Return(e)  BY <1>6 DEF Return
<1>7. CASE HandlerFails(e)  BY <1>7 DEF HandlerFails
<1>8. CASE RecordFailure(e)  BY <1>8 DEF RecordFailure
<1>9. CASE Vanish(e)  BY <1>9 DEF Vanish, Live
<1>10. QED  BY <1>1, <1>2, <1>3, <1>4, <1>5, <1>6, <1>7, <1>8, <1>9 DEF ExecStep

\* Answering the newest pending request keeps the sequence of requests well formed,
\* and answers it if it is the only one.
LEMMA CompleteLatestType ==
    ASSUME requests \in Seq(Requests), NEW choice \in Choices
    PROVE  /\ CompleteLatest(choice) \in Seq(Requests)
           /\ DOMAIN CompleteLatest(choice) = DOMAIN requests
           /\ Len(CompleteLatest(choice)) = Len(requests)
<1>1. \A i \in DOMAIN requests : requests[i] \in Requests  OBVIOUS
<1>2. \A i \in DOMAIN requests : CompleteLatest(choice)[i] \in Requests
  BY <1>1 DEF CompleteLatest, Requests
<1>3. DOMAIN requests = 1 .. Len(requests) /\ Len(requests) \in Nat  OBVIOUS
<1>4. CompleteLatest(choice) \in [1 .. Len(requests) -> Requests]
  BY <1>2, <1>3 DEF CompleteLatest
<1>5. CompleteLatest(choice) \in Seq(Requests)  BY <1>3, <1>4, SeqDef
<1>6. QED  BY <1>3, <1>4, <1>5, LenProperties

LEMMA CompleteLatestAnswers ==
    ASSUME requests \in Seq(Requests), NEW choice \in Choices,
           \A i, j \in Pending : i = j
    PROVE  \A i \in DOMAIN requests : CompleteLatest(choice)[i].status # "pending"
<1> SUFFICES ASSUME NEW i \in DOMAIN requests
             PROVE  CompleteLatest(choice)[i].status # "pending"
  OBVIOUS
<1>1. requests[i] \in Requests  OBVIOUS
<1>2. CASE requests[i].status = "pending"
  <2>1. i \in Nat  OBVIOUS
  <2>2. IsLatestPending(i)  BY <1>2, <2>1 DEF IsLatestPending, Pending
  <2>3. QED  BY <1>1, <2>2 DEF CompleteLatest, Requests, Choices
<1>3. CASE requests[i].status # "pending"
  BY <1>3 DEF CompleteLatest, IsLatestPending
<1>4. QED  BY <1>2, <1>3

-----------------------------------------------------------------------------
LEMMA TypeCorrectInit == Init => TypeOK
<1> SUFFICES ASSUME Init PROVE TypeOK  OBVIOUS
<1>1. ExecTypeOK
  BY DEF Init, ExecTypeOK, Rows, WorkflowStates, ApprovalStates, ExecStates
<1>2. requests \in Seq(Requests) /\ decisions \in Seq(Decisions)
  BY DEF Init, Requests, Decisions
<1>3. call \in [Deciders -> Calls] /\ origin \in [Executions -> Nat]
  BY DEF Init, Calls, Idle
<1>4. overlapped \in BOOLEAN /\ faults \in Nat
  BY DEF Init
<1>5. QED  BY <1>1, <1>2, <1>3, <1>4 DEF TypeOK

LEMMA TypeCorrectStep == TypeOK /\ [Next]_vars => TypeOK'
<1> SUFFICES ASSUME TypeOK, [Next]_vars PROVE TypeOK'  OBVIOUS
<1> USE DEF TypeOK
<1>1. ASSUME NEW d \in Deciders, NEW choice \in Choices, ReadWorkflow(d, choice)
      PROVE TypeOK'
  BY <1>1 DEF ReadWorkflow, Calls, ExecTypeOK, Rows
<1>2. ASSUME NEW d \in Deciders, CommitRevision(d)  PROVE TypeOK'
  <2>1. call[d] \in [at : {"read"}, choice : Choices, version : Nat \ {0}]
    BY <1>2 DEF CommitRevision, RecordDecision, Calls, Idle
  <2>2. [version |-> call[d].version + 1, status |-> "pending"] \in Requests
    BY <2>1 DEF Requests
  <2>3. requests' \in Seq(Requests)
    BY <1>2, <2>2, CompleteLatestType, "revision_requested" \in Choices
    DEF CommitRevision, Choices
  <2>4. decisions' \in Seq(Decisions)
    BY <1>2, <2>1 DEF CommitRevision, RecordDecision, Decisions
  <2>5. ExecTypeOK'
    BY <1>2, <2>1 DEF CommitRevision, ExecTypeOK, Rows, WorkflowStates, ApprovalStates
  <2>6. QED  BY <1>2, <2>3, <2>4, <2>5 DEF CommitRevision, Calls
<1>3. ASSUME NEW d \in Deciders, CommitRejection(d)  PROVE TypeOK'
  <2>1. call[d] \in [at : {"read"}, choice : Choices, version : Nat \ {0}]
    BY <1>3 DEF CommitRejection, RecordDecision, Calls, Idle
  <2>2. requests' \in Seq(Requests)
    BY <1>3, CompleteLatestType DEF CommitRejection, Choices
  <2>3. decisions' \in Seq(Decisions)
    BY <1>3, <2>1 DEF CommitRejection, RecordDecision, Decisions
  <2>4. ExecTypeOK'
    BY <1>3 DEF CommitRejection, ExecTypeOK, Rows, WorkflowStates, ApprovalStates
  <2>5. QED  BY <1>3, <2>2, <2>3, <2>4 DEF CommitRejection, Calls
<1>4. ASSUME NEW d \in Deciders, CommitApproval(d)  PROVE TypeOK'
  <2>1. call[d] \in [at : {"read"}, choice : Choices, version : Nat \ {0}]
    BY <1>4 DEF CommitApproval, RecordDecision, Calls, Idle
  <2>2. requests' \in Seq(Requests)
    BY <1>4, CompleteLatestType DEF CommitApproval, Choices
  <2>3. decisions' \in Seq(Decisions)
    BY <1>4, <2>1 DEF CommitApproval, RecordDecision, Decisions
  <2>4. ExecTypeOK'
    BY <1>4 DEF CommitApproval, ExecTypeOK, Rows, WorkflowStates, ApprovalStates,
                FirstExecutionState, StageStates
  <2>5. [at |-> "committed", approval |-> Len(decisions) + 1] \in Calls
    BY DEF Calls
  <2>6. QED  BY <1>4, <2>2, <2>3, <2>4, <2>5 DEF CommitApproval
<1>5. ASSUME NEW d \in Deciders, NEW e \in Executions, RequestExecution(d, e)
      PROVE TypeOK'
  <2>1. call[d].approval \in Nat
    BY <1>5 DEF RequestExecution, Calls, Idle
  <2>2. QED  BY <1>5, <2>1 DEF RequestExecution, Calls, Goto, ExecTypeOK, ExecStates
<1>6. ASSUME NEW d \in Deciders, CommitFails(d) \/ RereadFails(d)  PROVE TypeOK'
  BY <1>6, SMTT(60) DEF CommitFails, RereadFails, Fault, Calls, ExecTypeOK
<1>7. ASSUME NEW e \in Executions, Execute(e) \/ RecordingFails(e)  PROVE TypeOK'
  <2>1. ExecTypeOK'
    BY <1>7, ExecutionLeavesGateAlone DEF Execute, RecordingFails
  <2>2. QED  BY <1>7, <2>1 DEF Execute, RecordingFails, gateVars, Fault
<1>8. ASSUME ApiCrash  PROVE TypeOK'
  BY <1>8 DEF ApiCrash, Fault, Calls, ExecTypeOK, ExecStates
<1>9. CASE UNCHANGED vars
  BY <1>9 DEF vars, gateVars, ExecTypeOK
<1>10. QED
  BY <1>1, <1>2, <1>3, <1>4, <1>5, <1>6, <1>7, <1>8, <1>9 DEF Next, Decide

\* The state of the gate, of its calls and of the executions keeps its shape
\* through every overlap, fault and crash.
THEOREM TypeCorrect == Spec => []TypeOK
<1>1. QED  BY TypeCorrectInit, TypeCorrectStep, PTL DEF Spec
-----------------------------------------------------------------------------
\* Steps that are not commits leave requests, decisions and the gate alone.
LEMMA OnlyCommitsDecide ==
    ASSUME TypeOK, [Next]_vars,
           ~ \E d \in Deciders : CommitRevision(d) \/ CommitRejection(d) \/ CommitApproval(d)
    PROVE  /\ UNCHANGED <<requests, decisions>>
           /\ row'.approval = row.approval
           /\ row'.version = row.version
<1>1. ASSUME NEW e \in Executions, Execute(e) \/ RecordingFails(e)
      PROVE  /\ UNCHANGED <<requests, decisions>>
             /\ row'.approval = row.approval
             /\ row'.version = row.version
  BY <1>1, ExecutionLeavesGateAlone DEF Execute, RecordingFails, gateVars, TypeOK
<1>2. CASE ~ \E e \in Executions : Execute(e) \/ RecordingFails(e)
  BY <1>2 DEF Next, Decide, ReadWorkflow, RequestExecution, CommitFails, RereadFails,
              ApiCrash, vars, gateVars
<1>3. QED  BY <1>1, <1>2

LEMMA GateMatchesStep == TypeOK /\ GateMatchesRequests /\ [Next]_vars => GateMatchesRequests'
<1> SUFFICES ASSUME TypeOK, GateMatchesRequests, [Next]_vars
             PROVE  GateMatchesRequests'
  OBVIOUS
<1>0. /\ requests \in Seq(Requests)
      /\ \A i, j \in Pending : i = j
  BY DEF TypeOK, GateMatchesRequests
<1>1. ASSUME NEW d \in Deciders, CommitRevision(d)  PROVE GateMatchesRequests'
  <2> DEFINE done == CompleteLatest("revision_requested")
             new == [version |-> call[d].version + 1, status |-> "pending"]
  <2>1. "revision_requested" \in Choices  BY DEF Choices
  <2>2. /\ done \in Seq(Requests)
        /\ Len(done) = Len(requests)
        /\ DOMAIN done = DOMAIN requests
        /\ \A i \in DOMAIN done : done[i].status # "pending"
    BY <1>0, <2>1, CompleteLatestType, CompleteLatestAnswers
  <2>3. call[d] \in [at : {"read"}, choice : Choices, version : Nat \ {0}]
    BY <1>1 DEF CommitRevision, RecordDecision, TypeOK, Calls, Idle
  <2>4. new \in Requests  BY <2>3 DEF Requests
  <2>5. requests' = Append(done, new)  BY <1>1 DEF CommitRevision
  <2> HIDE DEF done, new
  <2>6. /\ Len(requests') = Len(done) + 1
        /\ DOMAIN requests' = 1 .. Len(done) + 1
        /\ \A i \in DOMAIN done : requests'[i] = done[i]
        /\ requests'[Len(done) + 1] = new
        /\ DOMAIN done = 1 .. Len(done)
        /\ Len(done) \in Nat
    BY <2>2, <2>4, <2>5
  <2>7. Pending' = {Len(done) + 1}
    BY <2>2, <2>6 DEF Pending, new
  <2>8. row'.approval = "pending" /\ row'.version = requests'[Len(done) + 1].version
    BY <1>1, <2>6 DEF CommitRevision, new
  <2>9. QED  BY <2>7, <2>8 DEF GateMatchesRequests
<1>2. ASSUME NEW d \in Deciders, CommitRejection(d) \/ CommitApproval(d)
      PROVE  GateMatchesRequests'
  <2>1. PICK c \in {"rejected", "approved"} :
          requests' = CompleteLatest(c) /\ row'.approval = c
    BY <1>2 DEF CommitRejection, CommitApproval, TypeOK, ExecTypeOK, Rows
  <2>2. c \in Choices  BY DEF Choices
  <2>3. /\ DOMAIN requests' = DOMAIN requests
        /\ \A i \in DOMAIN requests : requests'[i].status # "pending"
    BY <1>0, <2>1, <2>2, CompleteLatestType, CompleteLatestAnswers
  <2>4. Pending' = {}  BY <2>3 DEF Pending
  <2>5. QED  BY <2>1, <2>4 DEF GateMatchesRequests
<1>3. CASE ~ \E d \in Deciders : CommitRevision(d) \/ CommitRejection(d) \/ CommitApproval(d)
  <2>1. /\ requests' = requests
        /\ row'.approval = row.approval
        /\ row'.version = row.version
    BY <1>3, OnlyCommitsDecide
  <2>2. Pending' = Pending  BY <2>1 DEF Pending
  <2>3. QED  BY <2>1, <2>2 DEF GateMatchesRequests
<1>4. QED  BY <1>1, <1>2, <1>3

\* Whatever calls overlap, a workflow waits for approval exactly when one request
\* is pending, and that request asks about the version in the row.
THEOREM GateIsConsistent == Spec => []GateMatchesRequests
<1>1. Init => GateMatchesRequests
  <2> SUFFICES ASSUME Init PROVE GateMatchesRequests  OBVIOUS
  <2>1. /\ requests = << [version |-> 1, status |-> "pending"] >>
        /\ row.approval = "pending" /\ row.version = 1
    BY DEF Init
  <2>2. DOMAIN requests = {1} /\ requests[1] = [version |-> 1, status |-> "pending"]
    BY <2>1
  <2>3. Pending = {1}  BY <2>2 DEF Pending
  <2>4. QED  BY <2>1, <2>2, <2>3 DEF GateMatchesRequests
<1>2. QED  BY <1>1, GateMatchesStep, TypeCorrect, PTL DEF Spec
-----------------------------------------------------------------------------
(***************************************************************************)
(* ExecutionNeedsApproval is not inductive: between the commit of an       *)
(* approval and the call of the executor the approval is in the hands of   *)
(* one decider, and that hand-over must happen once.                       *)
(***************************************************************************)
HandOverIsOnce ==
    /\ \A d \in Deciders : call[d].at = "committed" =>
          /\ call[d].approval \in DOMAIN decisions
          /\ decisions[call[d].approval].choice = "approved"
          /\ \A e \in Executions :
                exec[e] # "free" => origin[e] # call[d].approval
    /\ \A c, d \in Deciders :
          /\ call[c].at = "committed"
          /\ call[d].at = "committed"
          /\ call[c].approval = call[d].approval
          => c = d

\* A commit adds one decision and keeps the earlier ones.
LEMMA RecordDecisionAppends ==
    ASSUME TypeOK, NEW d \in Deciders, NEW choice \in Choices, RecordDecision(d, choice)
    PROVE  /\ \A i \in DOMAIN decisions : i \in DOMAIN decisions' /\ decisions'[i] = decisions[i]
           /\ Len(decisions) + 1 \in DOMAIN decisions'
           /\ decisions'[Len(decisions) + 1].choice = choice
           /\ Len(decisions) + 1 \notin DOMAIN decisions
<1> DEFINE new == [choice |-> choice, version |-> call[d].version]
<1>1. call[d] \in [at : {"read"}, choice : Choices, version : Nat \ {0}]
  BY DEF RecordDecision, TypeOK, Calls, Idle
<1>2. decisions \in Seq(Decisions) /\ new \in Decisions /\ decisions' = Append(decisions, new)
  BY <1>1 DEF RecordDecision, TypeOK, Decisions
<1>3. new.choice = choice  OBVIOUS
<1> HIDE DEF new
<1>4. QED  BY <1>2, <1>3

ApprovalInv == TypeOK /\ ExecutionNeedsApproval /\ HandOverIsOnce

LEMMA ApprovalInvStep == ApprovalInv /\ [Next]_vars => ApprovalInv'
<1> SUFFICES ASSUME ApprovalInv, [Next]_vars PROVE ApprovalInv'  OBVIOUS
<1> USE DEF ApprovalInv
<1>0. TypeOK'  BY TypeCorrectStep
<1>1. ASSUME NEW d \in Deciders,
             RecordDecision(d, "revision_requested") \/ RecordDecision(d, "rejected"),
             call' = [call EXCEPT ![d] = Idle],
             UNCHANGED <<exec, origin>>
      PROVE  ExecutionNeedsApproval' /\ HandOverIsOnce'
  <2>1. \A i \in DOMAIN decisions : i \in DOMAIN decisions' /\ decisions'[i] = decisions[i]
    BY <1>1, RecordDecisionAppends, {"revision_requested", "rejected"} \subseteq Choices
    DEF Choices
  <2>2. \A c \in Deciders : call'[c].at = "committed" => c # d /\ call'[c] = call[c]
    BY <1>1 DEF TypeOK, Idle
  <2>3. QED  BY <1>1, <2>1, <2>2 DEF ExecutionNeedsApproval, HandOverIsOnce
<1>2. ASSUME NEW d \in Deciders, CommitRevision(d) \/ CommitRejection(d)
      PROVE  ExecutionNeedsApproval' /\ HandOverIsOnce'
  BY <1>1, <1>2 DEF CommitRevision, CommitRejection
<1>3. ASSUME NEW d \in Deciders, CommitApproval(d)
      PROVE  ExecutionNeedsApproval' /\ HandOverIsOnce'
  <2> DEFINE n == Len(decisions) + 1
  <2>1. /\ \A i \in DOMAIN decisions : i \in DOMAIN decisions' /\ decisions'[i] = decisions[i]
        /\ n \in DOMAIN decisions' /\ decisions'[n].choice = "approved"
        /\ n \notin DOMAIN decisions
    BY <1>3, RecordDecisionAppends, "approved" \in Choices DEF CommitApproval, Choices
  <2>2. call'[d] = [at |-> "committed", approval |-> n]
    BY <1>3 DEF CommitApproval, TypeOK
  <2>3. \A c \in Deciders : c # d => call'[c] = call[c]
    BY <1>3 DEF CommitApproval, TypeOK
  <2>4. exec' = exec /\ origin' = origin  BY <1>3 DEF CommitApproval
  <2> HIDE DEF n
  <2>5. ExecutionNeedsApproval'  BY <2>1, <2>4 DEF ExecutionNeedsApproval
  <2>6. \A e \in Executions : exec[e] # "free" => origin[e] # n
    BY <2>1 DEF ExecutionNeedsApproval
  <2>7. \A c \in Deciders : c # d /\ call[c].at = "committed" => call[c].approval # n
    BY <2>1 DEF HandOverIsOnce
  <2>8. HandOverIsOnce'
    BY <2>1, <2>2, <2>3, <2>4, <2>6, <2>7 DEF HandOverIsOnce
  <2>9. QED  BY <2>5, <2>8
<1>4. ASSUME NEW d \in Deciders, NEW e \in Executions, RequestExecution(d, e)
      PROVE  ExecutionNeedsApproval' /\ HandOverIsOnce'
  <2>1. /\ call[d].at = "committed" /\ exec[e] = "free"
        /\ decisions' = decisions
        /\ call' = [call EXCEPT ![d] = Idle]
        /\ exec' = [exec EXCEPT ![e] = "requested"]
        /\ origin' = [origin EXCEPT ![e] = call[d].approval]
    BY <1>4 DEF RequestExecution, Goto
  <2>2. \A c \in Deciders : call'[c].at = "committed" => c # d /\ call'[c] = call[c]
    BY <2>1 DEF TypeOK, Idle
  <2>3. \A f \in Executions : f # e => exec'[f] = exec[f] /\ origin'[f] = origin[f]
    BY <2>1 DEF TypeOK, ExecTypeOK
  <2>4. exec'[e] = "requested" /\ origin'[e] = call[d].approval
    BY <2>1 DEF TypeOK, ExecTypeOK
  <2>5. ExecutionNeedsApproval'
    BY <2>1, <2>3, <2>4 DEF ExecutionNeedsApproval, HandOverIsOnce
  <2>6. HandOverIsOnce'
    BY <2>1, <2>2, <2>3, <2>4 DEF HandOverIsOnce
  <2>7. QED  BY <2>5, <2>6
<1>5. ASSUME NEW d \in Deciders, NEW choice \in Choices, ReadWorkflow(d, choice)
      PROVE  ExecutionNeedsApproval' /\ HandOverIsOnce'
  <2>1. \A c \in Deciders : call'[c].at = "committed" => call'[c] = call[c]
    BY <1>5 DEF ReadWorkflow, TypeOK
  <2>2. QED
    BY <1>5, <2>1 DEF ReadWorkflow, ExecutionNeedsApproval, HandOverIsOnce
<1>6. ASSUME NEW d \in Deciders, CommitFails(d) \/ RereadFails(d)
      PROVE  ExecutionNeedsApproval' /\ HandOverIsOnce'
  <2>1. \A c \in Deciders : call'[c].at = "committed" => call'[c] = call[c]
    BY <1>6 DEF CommitFails, RereadFails, TypeOK, Idle
  <2>2. QED
    BY <1>6, <2>1 DEF CommitFails, RereadFails, ExecutionNeedsApproval, HandOverIsOnce
<1>7. ASSUME NEW e \in Executions, Execute(e) \/ RecordingFails(e)
      PROVE  ExecutionNeedsApproval' /\ HandOverIsOnce'
  <2>1. \A f \in Executions : exec'[f] = "free" <=> exec[f] = "free"
    BY <1>7, ExecutionLeavesGateAlone DEF Execute, RecordingFails, TypeOK
  <2>2. decisions' = decisions /\ origin' = origin /\ call' = call
    BY <1>7 DEF Execute, RecordingFails, gateVars
  <2>3. QED  BY <2>1, <2>2 DEF ExecutionNeedsApproval, HandOverIsOnce
<1>8. ASSUME ApiCrash  PROVE ExecutionNeedsApproval' /\ HandOverIsOnce'
  <2>1. \A f \in Executions : exec'[f] = "free" <=> exec[f] = "free"
    BY <1>8 DEF ApiCrash, Live
  <2>2. \A c \in Deciders : call'[c].at # "committed"
    BY <1>8 DEF ApiCrash, Idle
  <2>3. QED  BY <1>8, <2>1, <2>2 DEF ApiCrash, ExecutionNeedsApproval, HandOverIsOnce
<1>9. CASE UNCHANGED vars
  <2>1. exec' = exec /\ decisions' = decisions /\ call' = call /\ origin' = origin
    BY <1>9 DEF vars, gateVars
  <2>2. ExecutionNeedsApproval'  BY <2>1 DEF ExecutionNeedsApproval
  <2>3. HandOverIsOnce'  BY <2>1 DEF HandOverIsOnce
  <2>4. QED  BY <1>0, <2>2, <2>3
<1>10. QED
  BY <1>0, <1>2, <1>3, <1>4, <1>5, <1>6, <1>7, <1>8, <1>9 DEF Next, Decide

\* No execution starts without an approval on record and no approval starts two,
\* for any number of overlapping calls, faults and crashes.
THEOREM ExecutionsAreApproved == Spec => []ExecutionNeedsApproval
<1>1. Init => ApprovalInv
  BY TypeCorrectInit DEF Init, ApprovalInv, ExecutionNeedsApproval, HandOverIsOnce, Idle
<1>2. QED  BY <1>1, ApprovalInvStep, PTL DEF Spec, ApprovalInv
-----------------------------------------------------------------------------
\* The last decision on record decides the gate: a commit makes it so, and no other
\* step writes the decisions, the approval or the version.
LEMMA LastDecisionStep ==
    TypeOK /\ GateFollowsLastDecision /\ [Next]_vars => GateFollowsLastDecision'
<1> SUFFICES ASSUME TypeOK, GateFollowsLastDecision, [Next]_vars
             PROVE  GateFollowsLastDecision'
  OBVIOUS
<1>1. ASSUME NEW d \in Deciders, NEW choice \in Choices, RecordDecision(d, choice)
      PROVE  /\ Last'.choice = choice
             /\ Last'.version = call[d].version
  <2>1. call[d] \in [at : {"read"}, choice : Choices, version : Nat \ {0}]
    BY <1>1 DEF RecordDecision, TypeOK, Calls, Idle
  <2>2. decisions \in Seq(Decisions)  BY DEF TypeOK
  <2> DEFINE new == [choice |-> choice, version |-> call[d].version]
  <2>3. new \in Decisions  BY <2>1 DEF Decisions
  <2>4. decisions' = Append(decisions, new)  BY <1>1 DEF RecordDecision
  <2>5. new.choice = choice /\ new.version = call[d].version  OBVIOUS
  <2> HIDE DEF new
  <2>6. Len(decisions') = Len(decisions) + 1 /\ decisions'[Len(decisions) + 1] = new
    BY <2>2, <2>3, <2>4
  <2>7. QED  BY <2>5, <2>6 DEF Last
<1>2. ASSUME NEW d \in Deciders, CommitRevision(d)  PROVE GateFollowsLastDecision'
  <2>1. Last'.choice = "revision_requested" /\ Last'.version = call[d].version
    BY <1>1, <1>2, "revision_requested" \in Choices DEF CommitRevision, Choices
  <2>2. row'.approval = "pending" /\ row'.version = call[d].version + 1
    BY <1>2 DEF CommitRevision
  <2>3. QED  BY <2>1, <2>2 DEF GateFollowsLastDecision
<1>3. ASSUME NEW d \in Deciders, CommitRejection(d)  PROVE GateFollowsLastDecision'
  <2>1. Last'.choice = "rejected"
    BY <1>1, <1>3, "rejected" \in Choices DEF CommitRejection, Choices
  <2>2. row'.approval = "rejected"
    BY <1>3 DEF CommitRejection, TypeOK, ExecTypeOK, Rows
  <2>3. QED  BY <2>1, <2>2 DEF GateFollowsLastDecision
<1>4. ASSUME NEW d \in Deciders, CommitApproval(d)  PROVE GateFollowsLastDecision'
  <2>1. Last'.choice = "approved"
    BY <1>1, <1>4, "approved" \in Choices DEF CommitApproval, Choices
  <2>2. row'.approval = "approved"
    BY <1>4 DEF CommitApproval, TypeOK, ExecTypeOK, Rows
  <2>3. QED  BY <2>1, <2>2 DEF GateFollowsLastDecision
<1>5. CASE ~ \E d \in Deciders : CommitRevision(d) \/ CommitRejection(d) \/ CommitApproval(d)
  <2>1. /\ decisions' = decisions
        /\ row'.approval = row.approval
        /\ row'.version = row.version
    BY <1>5, OnlyCommitsDecide
  <2>2. Last' = Last  BY <2>1 DEF Last
  <2>3. QED  BY <2>1, <2>2 DEF GateFollowsLastDecision
<1>6. QED  BY <1>2, <1>3, <1>4, <1>5

\* Whatever overlaps, the row shows what the newest recorded decision said, so a late
\* revision brings back the version after the one it was about.
THEOREM LastDecisionRules == Spec => []GateFollowsLastDecision
<1>1. Init => GateFollowsLastDecision  BY DEF Init, GateFollowsLastDecision
<1>2. QED  BY <1>1, LastDecisionStep, TypeCorrect, PTL DEF Spec
-----------------------------------------------------------------------------
(***************************************************************************)
(* Without an overlap the calls of decide take turns: whoever holds a read *)
(* holds the plan as it is, and the first approval ends the round, because *)
(* from then on decide refuses.  At most one call or execution carries the *)
(* approval.                                                               *)
(***************************************************************************)
PlanStates == {"plan_pending_approval", "plan_rejected"}

Used(e) == exec[e] # "free"
Reading(d) == call[d].at = "read"
Handing(d) == call[d].at = "committed"

TakingTurns ==
    /\ \A c, d \in Deciders : Reading(c) /\ Reading(d) => c = d
    /\ row.state \notin PlanStates =>
          row.approval = "approved" /\ \A d \in Deciders : ~Reading(d)
    /\ \A d \in Deciders : Handing(d) => row.state \notin PlanStates
    /\ \A e \in Executions : Used(e) => row.state \notin PlanStates
    /\ \A c, d \in Deciders : Handing(c) /\ Handing(d) => c = d
    /\ \A d \in Deciders, e \in Executions : ~(Handing(d) /\ Used(e))
    /\ \A e, f \in Executions : Used(e) /\ Used(f) => e = f

OneAtATime == overlapped \/ TakingTurns

\* An execution does not bring the row back to a state in which the plan is decided.
LEMMA ExecutionLeavesPlanStates ==
    ASSUME ExecTypeOK, NEW e \in Executions, ExecStep(e) \/ Vanish(e)
    PROVE  row'.state = row.state \/ row'.state \notin PlanStates
<1> USE DEF ExecTypeOK, Rows, PlanStates, StageStates, OutcomeStates, SetState, Goto
<1>1. CASE \E s \in StageStates : EnterStage(e, s)  BY <1>1 DEF EnterStage
<1>2. CASE \E s \in OutcomeStates : WriteOutcome(e, s)  BY <1>2 DEF WriteOutcome
<1>3. CASE RewriteOutcome(e)  BY <1>3 DEF RewriteOutcome
<1>4. CASE RecordFailure(e)  BY <1>4 DEF RecordFailure
<1>5. CASE LoadSnapshot(e) \/ LoadFails(e) \/ Return(e) \/ HandlerFails(e) \/ Vanish(e)
  BY <1>5 DEF LoadSnapshot, LoadFails, Return, HandlerFails, Vanish
<1>6. QED  BY <1>1, <1>2, <1>3, <1>4, <1>5 DEF ExecStep

LEMMA TakingTurnsInit == Init => OneAtATime
<1> SUFFICES ASSUME Init PROVE TakingTurns  BY DEF OneAtATime
<1> QED  BY DEF Init, TakingTurns, PlanStates, Reading, Handing, Used, Idle

LEMMA TakingTurnsStep == TypeOK /\ OneAtATime /\ [Next]_vars => OneAtATime'
<1> SUFFICES ASSUME TypeOK, TakingTurns, [Next]_vars, ~overlapped'
             PROVE  TakingTurns'
  BY DEF OneAtATime, Next, Decide, ReadWorkflow, CommitRevision, CommitRejection, CommitApproval,
         RequestExecution, CommitFails, RereadFails, Execute, RecordingFails, ApiCrash, vars,
         gateVars
<1> USE DEF Reading, Handing
<1>0. /\ call \in [Deciders -> Calls]
      /\ exec \in [Executions -> ExecStates]
      /\ row \in Rows
  BY DEF TypeOK, ExecTypeOK
<1>1. ASSUME NEW d \in Deciders, NEW choice \in Choices, ReadWorkflow(d, choice)
      PROVE  TakingTurns'
  <2>1. /\ row.state \in PlanStates
        /\ \A c \in Deciders : ~Reading(c)
        /\ row' = row /\ exec' = exec
    BY <1>1 DEF ReadWorkflow, MayDecide, PlanStates
  <2>2. /\ call'[d].at = "read"
        /\ \A c \in Deciders : c # d => call'[c] = call[c]
    BY <1>0, <1>1 DEF ReadWorkflow
  <2>3. \A c \in Deciders : ~Handing(c)'
    BY <2>1, <2>2 DEF TakingTurns
  <2>4. QED  BY <2>1, <2>2, <2>3 DEF TakingTurns, Used
<1>2. ASSUME NEW d \in Deciders, Reading(d), exec' = exec,
             \A c \in Deciders : c # d => call'[c] = call[c], call'[d].at # "read"
      PROVE  /\ row.state \in PlanStates
             /\ \A c \in Deciders : ~Reading(c)'
             /\ \A c \in Deciders : ~Handing(c)
             /\ \A e \in Executions : ~Used(e) /\ ~Used(e)'
  <2>1. row.state \in PlanStates  BY <1>2 DEF TakingTurns
  <2>2. QED  BY <1>2, <2>1 DEF TakingTurns, Used
<1>3. ASSUME NEW d \in Deciders, CommitRevision(d) \/ CommitRejection(d)
      PROVE  TakingTurns'
  <2>1. /\ Reading(d) /\ exec' = exec
        /\ call'[d].at = "idle"
        /\ \A c \in Deciders : c # d => call'[c] = call[c]
    BY <1>0, <1>3 DEF CommitRevision, CommitRejection, RecordDecision, Idle
  <2>2. row'.state \in PlanStates
    <3>1. CASE CommitRevision(d)  BY <3>1 DEF CommitRevision, PlanStates
    <3>2. CASE CommitRejection(d)  BY <1>0, <3>2 DEF CommitRejection, PlanStates, Rows
    <3>3. QED  BY <1>3, <3>1, <3>2
  <2>3. \A c \in Deciders : ~Handing(c)'
    BY <1>2, <2>1
  <2>4. QED  BY <1>2, <2>1, <2>2, <2>3 DEF TakingTurns
<1>4. ASSUME NEW d \in Deciders, CommitApproval(d)
      PROVE  TakingTurns'
  <2>1. /\ Reading(d) /\ exec' = exec
        /\ call'[d].at = "committed"
        /\ \A c \in Deciders : c # d => call'[c] = call[c]
    BY <1>0, <1>4 DEF CommitApproval, RecordDecision
  <2>2. row'.approval = "approved" /\ row'.state \notin PlanStates
    BY <1>0, <1>4 DEF CommitApproval, FirstExecutionState, PlanStates, Rows
  <2>3. \A c \in Deciders : Handing(c)' => c = d
    BY <1>2, <2>1
  <2>4. QED  BY <1>2, <2>1, <2>2, <2>3 DEF TakingTurns
<1>5. ASSUME NEW d \in Deciders, NEW e \in Executions, RequestExecution(d, e)
      PROVE  TakingTurns'
  <2>1. /\ Handing(d) /\ row' = row
        /\ call'[d].at = "idle"
        /\ \A c \in Deciders : c # d => call'[c] = call[c]
        /\ \A f \in Executions : f # e => exec'[f] = exec[f]
    BY <1>0, <1>5 DEF RequestExecution, Goto, Idle
  <2>2. /\ row.state \notin PlanStates
        /\ \A f \in Executions : ~Used(f)
        /\ \A c \in Deciders : Handing(c) => c = d
    BY <2>1 DEF TakingTurns
  <2>3. \A f \in Executions : Used(f)' => f = e
    BY <2>1, <2>2 DEF Used
  <2>4. \A c \in Deciders : ~Handing(c)'
    BY <2>1, <2>2
  <2>5. QED  BY <2>1, <2>2, <2>3, <2>4 DEF TakingTurns
<1>6. ASSUME \/ \E d \in Deciders : CommitFails(d) \/ RereadFails(d)
             \/ ApiCrash
      PROVE  TakingTurns'
  <2>1. /\ \A c \in Deciders : /\ Reading(c)' => Reading(c)
                               /\ Handing(c)' => Handing(c)
        /\ \A e \in Executions : Used(e)' => Used(e)
        /\ row' = row
    BY <1>0, <1>6 DEF CommitFails, RereadFails, ApiCrash, Idle, Used, Live
  <2>2. QED  BY <2>1 DEF TakingTurns
<1>7. ASSUME NEW e \in Executions, Execute(e) \/ RecordingFails(e)
      PROVE  TakingTurns'
  <2>1. ExecStep(e) \/ Vanish(e)  BY <1>7 DEF Execute, RecordingFails
  <2>2. /\ \A f \in Executions : Used(f)' <=> Used(f)
        /\ row'.approval = row.approval
        /\ row'.state = row.state \/ row'.state \notin PlanStates
        /\ call' = call
    BY <1>7, <2>1, ExecutionLeavesGateAlone, ExecutionLeavesPlanStates
    DEF TypeOK, Used, Execute, RecordingFails, gateVars
  <2>3. Used(e)
    BY <2>1 DEF Used, Live, ExecStep, LoadSnapshot, LoadFails, EnterStage, WriteOutcome,
                RewriteOutcome, Return, HandlerFails, RecordFailure, Vanish
  <2>4. row.state \notin PlanStates /\ row'.state \notin PlanStates
    BY <2>2, <2>3 DEF TakingTurns
  <2>5. QED  BY <2>2, <2>4 DEF TakingTurns
<1>8. CASE UNCHANGED vars
  BY <1>8 DEF vars, gateVars, TakingTurns, Used
<1>9. QED
  BY <1>1, <1>3, <1>4, <1>5, <1>6, <1>7, <1>8 DEF Next, Decide

\* As long as no two calls of decide have worked on one read, work stands only under an
\* approval and one plan is executed once, whatever crashes in between.
THEOREM WorkIsDoneOnce == Spec => []WorkIsApprovedOnce
<1>1. TypeOK /\ OneAtATime => WorkIsApprovedOnce
  BY DEF OneAtATime, TakingTurns, WorkIsApprovedOnce, WorkMeansApproved, AtMostOneExecution,
         PlanStates, StageStates, OutcomeStates, Used
<1>2. QED  BY <1>1, TakingTurnsInit, TakingTurnsStep, TypeCorrect, PTL DEF Spec
=============================================================================
