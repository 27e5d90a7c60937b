---------------------------- MODULE VisualWorkflows ----------------------------
(***************************************************************************)
(* One visual workflow: its row, its runs, the calls of execute, cancel    *)
(* and regenerate, and the processRun that a timer starts for every run.   *)
(* execute asks for an active run, inserts the run and marks the workflow  *)
(* in three statements without a transaction.  A worker walks the nodes of *)
(* the definition in order and writes all node states at once; its catch   *)
(* writes the failure and may itself throw.  Workers live in the API       *)
(* process: they are gone after a crash, their rows are not.               *)
(***************************************************************************)
EXTENDS Naturals, FiniteSets

CONSTANTS
    Callers,     \* concurrent calls of execute
    Runs,        \* ids of visual_workflow_runs, each used once
    NodeCount,   \* nodes of the definition, the last one is its output
    MaxFaults    \* bound on crashes and on failures that nothing handles

VisualBounds ==
    NodeCount \in Nat \ {0} /\ MaxFaults \in Nat /\ IsFiniteSet(Callers)

VARIABLES
    status,      \* visual_workflows.status
    runs,        \* runs[r]: the row of run r, NoRun before its INSERT
    call,        \* call[c]: how far the execute of caller c is
    worker,      \* worker[r]: the processRun of run r
    published,   \* runs whose output artifact was created
    faults

vars == <<status, runs, call, worker, published, faults>>

Nodes == 1..NodeCount
WorkflowStatuses == {"preview", "running", "succeeded", "failed", "canceled"}
RunStatuses == {"queued", "running", "succeeded", "failed"}
ActiveStatuses == {"queued", "running"}
NodeStatuses == {"waiting", "running", "succeeded", "failed"}

NoRun == [status |-> "free"]
RunRows == [status : RunStatuses, nodes : [Nodes -> NodeStatuses], artifact : BOOLEAN]

Calls == [at : {"idle", "checked"}] \cup [at : {"inserted"}, run : Runs]
Idle == [at |-> "idle"]

LiveAt == {"starting", "begins", "works", "writes", "closes", "catches", "marks"}
Workers == [at : LiveAt \cup {"none", "ended", "lost"}, node : Nodes]

Active(r) == runs[r].status \in ActiveStatuses
Live(r) == worker[r].at \in LiveAt

TypeOK ==
    /\ status \in WorkflowStatuses
    /\ runs \in [Runs -> RunRows \cup {NoRun}]
    /\ call \in [Callers -> Calls]
    /\ worker \in [Runs -> Workers]
    /\ published \in SUBSET Runs
    /\ faults \in Nat

\* The node states a worker at node n writes: everything before n succeeded.
NodesAt(n, s) ==
    [i \in Nodes |-> IF i < n THEN "succeeded" ELSE IF i = n THEN s ELSE "waiting"]

Goto(r, at) == worker' = [worker EXCEPT ![r].at = at]

Init ==
    /\ status = "preview"
    /\ runs = [r \in Runs |-> NoRun]
    /\ call = [c \in Callers |-> Idle]
    /\ worker = [r \in Runs |-> [at |-> "none", node |-> 1]]
    /\ published = {}
    /\ faults = 0

-----------------------------------------------------------------------------
\* Mutant: only running runs count as active.
Check_RunningOnly(c) ==
    /\ call[c] = Idle
    /\ \A r \in Runs : runs[r].status # "running"
    /\ call' = [call EXCEPT ![c] = [at |-> "checked"]]
    /\ UNCHANGED <<status, runs, worker, published, faults>>

\* execute refuses while a run is queued or running; the check takes no lock.
Check(c) ==
    /\ call[c] = Idle
    /\ \A r \in Runs : ~Active(r)
    /\ call' = [call EXCEPT ![c] = [at |-> "checked"]]
    /\ UNCHANGED <<status, runs, worker, published, faults>>

Insert(c, r) ==
    /\ call[c].at = "checked"
    /\ runs[r] = NoRun
    /\ runs' = [runs EXCEPT ![r] =
                    [status |-> "queued", artifact |-> FALSE,
                     nodes |-> [n \in Nodes |-> "waiting"]]]
    /\ call' = [call EXCEPT ![c] = [at |-> "inserted", run |-> r]]
    /\ UNCHANGED <<status, worker, published, faults>>

\* Mutant: the row says running, the timer is forgotten.
MarkRunning_NoTimer(c) ==
    /\ call[c].at = "inserted"
    /\ status' = "running"
    /\ call' = [call EXCEPT ![c] = Idle]
    /\ UNCHANGED <<runs, worker, published, faults>>

\* The UPDATE of the workflow, then the timer of processRun.
MarkRunning(c) ==
    /\ call[c].at = "inserted"
    /\ status' = "running"
    /\ Goto(call[c].run, "starting")
    /\ call' = [call EXCEPT ![c] = Idle]
    /\ UNCHANGED <<runs, published, faults>>

\* regenerate and cancel write the status whatever it is and touch no run.
Regenerate ==
    /\ status' = "preview"
    /\ UNCHANGED <<runs, call, worker, published, faults>>

Cancel ==
    /\ status' = "canceled"
    /\ UNCHANGED <<runs, call, worker, published, faults>>

-----------------------------------------------------------------------------
LoadDefinition(r) ==
    /\ worker[r].at = "starting"
    /\ Goto(r, "begins")
    /\ UNCHANGED <<status, runs, call, published, faults>>

WriteRun(r, s, n, state) ==
    runs' = [runs EXCEPT ![r] = [status |-> s, nodes |-> NodesAt(n, state),
                                 artifact |-> runs[r].artifact]]

BeginNode(r) ==
    /\ worker[r].at = "begins"
    /\ WriteRun(r, "running", worker[r].node, "running")
    /\ Goto(r, "works")
    /\ UNCHANGED <<status, call, published, faults>>

\* The output node creates the artifact; the other nodes only wait.
Work(r) ==
    /\ worker[r].at = "works"
    /\ published' = IF worker[r].node = NodeCount THEN published \cup {r} ELSE published
    /\ Goto(r, "writes")
    /\ UNCHANGED <<status, runs, call, faults>>

FinishNode(r) ==
    /\ worker[r].at = "writes"
    /\ worker[r].node < NodeCount
    /\ WriteRun(r, "running", worker[r].node, "succeeded")
    /\ worker' = [worker EXCEPT ![r] = [at |-> "begins", node |-> worker[r].node + 1]]
    /\ UNCHANGED <<status, call, published, faults>>

\* Mutant: the workflow is marked first, the run last.
FinishRun_StatusFirst(r) ==
    /\ worker[r].at = "writes"
    /\ worker[r].node = NodeCount
    /\ status' = "succeeded"
    /\ Goto(r, "closes")
    /\ UNCHANGED <<runs, call, published, faults>>

FinishRun(r) ==
    /\ worker[r].at = "writes"
    /\ worker[r].node = NodeCount
    /\ runs' = [runs EXCEPT ![r] = [status |-> "succeeded", artifact |-> TRUE,
                                    nodes |-> NodesAt(NodeCount, "succeeded")]]
    /\ Goto(r, "closes")
    /\ UNCHANGED <<status, call, published, faults>>

FinishWorkflow(r) ==
    /\ worker[r].at = "closes"
    /\ status' = "succeeded"
    /\ Goto(r, "ended")
    /\ UNCHANGED <<runs, call, published, faults>>

\* Mutant: processRun without its catch.
Throws_Unhandled(r) ==
    /\ worker[r].at \in {"begins", "works", "writes", "closes"}
    /\ Goto(r, "lost")
    /\ UNCHANGED <<status, runs, call, published, faults>>

\* Any await inside the try may reject, the two final updates included.
Throws(r) ==
    /\ worker[r].at \in {"begins", "works", "writes", "closes"}
    /\ Goto(r, "catches")
    /\ UNCHANGED <<status, runs, call, published, faults>>

\* Mutant: the failing node is left as it was.
FailRun_KeepsNodes(r) ==
    /\ worker[r].at = "catches"
    /\ runs' = [runs EXCEPT ![r].status = "failed"]
    /\ Goto(r, "marks")
    /\ UNCHANGED <<status, call, published, faults>>

\* The catch: also when the run was already recorded as succeeded.
FailRun(r) ==
    /\ worker[r].at = "catches"
    /\ WriteRun(r, "failed", worker[r].node, "failed")
    /\ Goto(r, "marks")
    /\ UNCHANGED <<status, call, published, faults>>

FailWorkflow(r) ==
    /\ worker[r].at = "marks"
    /\ status' = "failed"
    /\ Goto(r, "ended")
    /\ UNCHANGED <<runs, call, published, faults>>

-----------------------------------------------------------------------------
Fault == faults < MaxFaults /\ faults' = faults + 1

\* loadWorkflow is outside the try and the catch has no catch of its own: the
\* rejection of processRun reaches only the error monitor.
Vanishes(r) ==
    /\ Fault
    /\ worker[r].at \in {"starting", "catches", "marks"}
    /\ Goto(r, "lost")
    /\ UNCHANGED <<status, runs, call, published>>

\* A statement of execute fails; the INSERT is not undone.
CallFails(c) ==
    /\ Fault
    /\ call[c] # Idle
    /\ call' = [call EXCEPT ![c] = Idle]
    /\ UNCHANGED <<status, runs, worker, published>>

ApiCrash ==
    /\ Fault
    /\ (\E c \in Callers : call[c] # Idle) \/ (\E r \in Runs : Live(r))
    /\ call' = [c \in Callers |-> Idle]
    /\ worker' = [r \in Runs |-> IF Live(r) THEN [worker[r] EXCEPT !.at = "lost"]
                                            ELSE worker[r]]
    /\ UNCHANGED <<status, runs, published>>

ProcessRun(r) ==
    \/ LoadDefinition(r) \/ BeginNode(r) \/ Work(r) \/ FinishNode(r)
    \/ FinishRun(r) \/ FinishWorkflow(r) \/ FailRun(r) \/ FailWorkflow(r)

Execute(c) == MarkRunning(c) \/ \E r \in Runs : Insert(c, r)

Next ==
    \/ \E c \in Callers : Check(c) \/ Execute(c) \/ CallFails(c)
    \/ \E r \in Runs : ProcessRun(r) \/ Throws(r) \/ Vanishes(r)
    \/ Regenerate \/ Cancel \/ ApiCrash

Spec == Init /\ [][Next]_vars

-----------------------------------------------------------------------------
\* Whatever a node does and whenever it throws, a run and its node states tell one
\* story: a succeeded run has only succeeded nodes and a published artifact; a
\* failed run has exactly one failed node and nothing after it was touched; an
\* artifact a run shows exists.  (processRun, updateRunProgress)
RunTellsItsNodes ==
    \A r \in Runs : runs[r] # NoRun =>
        /\ runs[r].status = "succeeded" =>
              runs[r].nodes = NodesAt(NodeCount, "succeeded") /\ runs[r].artifact
        /\ runs[r].status = "failed" => \E n \in Nodes : runs[r].nodes = NodesAt(n, "failed")
        /\ runs[r].artifact => r \in published

\* The status of the workflow is earned: it says succeeded, failed or running only
\* if some run did, although runs, cancel and regenerate overwrite each other's
\* status and never read it.  (the two UPDATEs at the end of processRun and its catch)
StatusIsEarned ==
    /\ status = "succeeded" => \E r \in Runs : runs[r].status = "succeeded"
    /\ status = "failed" => \E r \in Runs : runs[r].status = "failed"
    /\ status = "running" => \E r \in Runs : runs[r] # NoRun

\* The workflow is shown as running only while a worker is about to change that, or
\* after a fault took the worker away: no order of two runs' final updates leaves a
\* finished workflow running.  (execute, processRun)
RunningMeansAWorker ==
    status = "running" => \E r \in Runs : Live(r) \/ worker[r].at = "lost"

\* The check of execute bounds the active runs of a workflow by the callers that may
\* overlap: whoever checks finds no active run, so each caller adds at most the one
\* that it was about to insert.  With one caller, two workers never publish for one
\* workflow at the same time.  (execute)
OneRunPerCaller ==
    Cardinality({r \in Runs : Active(r)}) <= Cardinality(Callers)

\* The rows keep their shape and their number.
RunsAreFew == TypeOK /\ OneRunPerCaller

\* Every run that was inserted ends, so that execute is possible again; a crash
\* breaks this for good, because nothing ever closes an orphaned run.
RunEnds ==
    \A r \in Runs :
        Active(r) ~> runs[r].status \in {"succeeded", "failed"} \/ faults > 0
=============================================================================
