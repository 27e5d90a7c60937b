------------------------------ MODULE MCWorkflows ------------------------------
(***************************************************************************)
(* The workflows, for TLC: one group request, where a1 and a2 wait for     *)
(* each other's artifacts and a1 waits for what a3 produces too, or two    *)
(* deployments of one artifact, or the runs of one visual workflow.  They  *)
(* share nothing, so that they need not run side by side.                  *)
(***************************************************************************)
EXTENDS GroupOrchestrator

CONSTANTS
    Looked,                       \* the kinds of workflow a run looks at
    a1, a2, a3, k1, k2, k3,
    Dispatches, MaxFaults, MaxRotations,
    Callers, Runs, NodeCount, MaxCrashes

VARIABLES
    workflow,                     \* which of them a behaviour is about
    target, artifact, rows, sites, run, late, call, tokens, undone, retries, rotations, faults,
    pageStatus, runs, execution, worker, published, crashes

Deploy == INSTANCE Deployments

Visual == INSTANCE VisualWorkflows
              WITH MaxFaults <- MaxCrashes, status <- pageStatus, call <- execution, faults <- crashes

WorkflowKinds == {"group", "deploy", "visual"}

ASSUME LookedKinds == Looked \subseteq WorkflowKinds
ASSUME DeployConstants == Deploy!DeploymentsAssumption
ASSUME VisualConstants == Visual!VisualBounds

TheAgents == {a1, a2, a3}
TheKinds == {k1, k2, k3}
TheProduces ==
    [a \in TheAgents |-> IF a = a1 THEN {k2} ELSE IF a = a2 THEN {k1} ELSE {k3}]
TheConsumes ==
    [a \in TheAgents |-> IF a = a1 THEN {k1, k3} ELSE IF a = a2 THEN {k2} ELSE {}]

deployVars == <<target, artifact, rows, sites, run, late, call, tokens, undone, retries,
                rotations, faults>>
visualVars == <<pageStatus, runs, execution, worker, published, crashes>>
allVars == <<workflow, vars, deployVars, visualVars>>

\* Plans of at most three turns, so that the handoffs after them stay few; what the
\* other kinds of workflow would start with does not matter.
WorkflowInit ==
    /\ workflow \in Looked
    /\ Init /\ Deploy!Init /\ Visual!Init
    /\ Total(plan) <= 3
    /\ workflow # "deploy" => target.kind = "page" /\ ~target.provider
    /\ workflow # "group" => plan = [order |-> <<a1>>, rounds |-> 1, steps |-> 0, locked |-> TRUE]

GroupStep == workflow = "group" /\ Next /\ UNCHANGED <<workflow, deployVars, visualVars>>
DeployStep == workflow = "deploy" /\ Deploy!Next /\ UNCHANGED <<workflow, vars, visualVars>>
VisualStep == workflow = "visual" /\ Visual!Next /\ UNCHANGED <<workflow, vars, deployVars>>

WorkflowNext == GroupStep \/ DeployStep \/ VisualStep

WorkflowSpec == WorkflowInit /\ [][WorkflowNext]_allVars

\* The engine keeps running a workflow until it completes or throws, the worker polls
\* its queue and results are delivered; the API goes on when its call returns.  A late
\* attempt need not act.
WorkerSpec ==
    /\ WorkflowSpec
    /\ WF_vars(workflow = "group" /\ Next)
    /\ \A d \in Dispatches :
          /\ WF_deployVars(Deploy!Act(d) \/ Deploy!Report(d))
          /\ WF_deployVars(Deploy!Await(d) \/ Deploy!Provision(d))

\* Calls and runs of a visual workflow that are in progress go on; users need not ask for
\* anything.
VisualSpec ==
    /\ WorkflowSpec
    /\ \A c \in Callers : WF_visualVars(Visual!Execute(c))
    /\ \A r \in Runs : WF_visualVars(Visual!ProcessRun(r))

\* Records of deployments are honest and the address told last is the current one.
\* (deployArtifactWorkflow, dispatch, ensureProvisioned, rotatePreviewUrl)
DeploymentsAreTrue == workflow = "deploy" => Deploy!DeploymentsAreTrue

\* Active runs of a visual workflow are no more than the callers of execute that may
\* overlap.  (execute)
RunsAreFew == workflow = "visual" => Visual!RunsAreFew

\* A run, its node states and its artifact tell one story.  (processRun, updateRunProgress)
RunTellsItsNodes == workflow = "visual" => Visual!RunTellsItsNodes

\* The status of a visual workflow is one that some run has earned.  (processRun)
StatusIsEarned == workflow = "visual" => Visual!StatusIsEarned

\* A visual workflow shown as running has a worker, or lost one to a fault.  (execute)
RunningMeansAWorker == workflow = "visual" => Visual!RunningMeansAWorker

\* A group workflow ends, whatever agents ask of each other and however often they
\* fail; a dispatch of a deployment is answered or dies with the API while attempts fail
\* only now and then.  (groupOrchestratorWorkflow, dispatch)
WorkflowsEnd ==
    \A d \in Dispatches :
        (IF workflow = "group" THEN TRUE ELSE call[d].at = "awaiting")
            ~> (IF workflow = "group" THEN status \in {"aggregated", "thrown"}
                ELSE Deploy!Concluded(d))

\* Every run of a visual workflow ends, unless a crash took its worker.  (processRun)
RunEnds == Visual!RunEnds
=============================================================================
