------------------------ MODULE CodingWorkflowDispatch ------------------------
(***************************************************************************)
(* One execution of an approved coding workflow, step by step:             *)
(* CodingWorkflowDispatchService.executeApprovedWorkflow with its stages,   *)
(* the review and QA repair loop, its failure handler and                  *)
(* recordDispatchFailure.  Every database write is a step of its own, and   *)
(* any await may throw.                                                    *)
(***************************************************************************)
EXTENDS Naturals, Sequences, FiniteSets

CONSTANTS
    Pages,              \* normalised HTML of the pages the engineer may deliver
    NoPage,             \* a result without a webpage artifact
    MaxRepairCycles     \* maxCodingWorkflowRepairCycles, 2 in the code

DispatchAssumption ==
    /\ MaxRepairCycles \in Nat
    /\ NoPage \notin Pages

VARIABLES
    plan,       \* roles that execute, and whether the goal asks for a webpage
    row,        \* state, approval and version of the coding_workflows row
    rowTasks,   \* its task_snapshot
    rounds,     \* activity_rounds of the workflow, oldest first
    pc,         \* where the execution stands
    job,        \* the stage being run: its kind and the repair number in its prompt
    out,        \* what the agent returned for it
    tasks,      \* the local variable taskSnapshot
    cycle,      \* repairCycle
    blocked,    \* unresolvedVerdict is set
    latest,     \* latestStageVerdicts
    page,       \* lastEngineerWebpageFingerprint
    settled,    \* an outcome was written to the row
    log         \* stageResults: completed stages, with the verdict of checkers

loopVars == <<cycle, blocked, latest, page>>
vars == <<plan, row, rowTasks, rounds, pc, job, out, tasks, loopVars, settled, log>>

Engineer == "software_engineer"
Reviewer == "code_reviewer"
Tester == "qa_tester"
Lead == "tech_lead"
Roles == {Engineer, Reviewer, Tester}

(***************************************************************************)
(* build    first run of the engineer    repair_review, repair_test        *)
(* review   the reviewer's run             a repair for one of the two     *)
(* test     the tester's run             retry    the repair after a       *)
(* confirm  the tester's run when the             repeated repair          *)
(*          work is blocked before QA    summary  the final summary        *)
(***************************************************************************)
RepairKinds == {"repair_review", "repair_test", "retry"}
EngineerKinds == {"build"} \cup RepairKinds
Kinds == EngineerKinds \cup {"review", "test", "confirm", "summary"}

RoleOf(kind) ==
    CASE kind \in EngineerKinds -> Engineer
      [] kind = "review" -> Reviewer
      [] kind \in {"test", "confirm"} -> Tester
      [] kind = "summary" -> Lead

\* Task ids: the plan, one execution task per executing role, the summary.
TaskOf(kind) == IF kind = "summary" THEN "summary" ELSE RoleOf(kind)
Tasks == {"plan", "summary"} \cup plan.roles

StateOf(kind) ==
    CASE kind = "summary" -> "summary_running"
      [] RoleOf(kind) = Engineer -> "execution_running"
      [] RoleOf(kind) = Reviewer -> "review_running"
      [] RoleOf(kind) = Tester -> "qa_running"

Verdicts == {"pass", "fail"}    \* request_changes and blocked are handled alike

\* What handleApprovedDecision leaves behind; create requires the engineer.
Init ==
    /\ plan \in [roles : {R \cup {Engineer} : R \in SUBSET {Reviewer, Tester}},
                 needsPage : BOOLEAN]
    /\ row = [state |-> "execution_running", approval |-> "approved", version |-> 1]
    /\ rowTasks = [t \in Tasks |-> CASE t = "plan" -> "done"
                                     [] t = Engineer -> "in_progress"
                                     [] OTHER -> "todo"]
    /\ rounds = << [who |-> Lead, status |-> "waiting_for_approval"],
                   [who |-> Engineer, status |-> "succeeded"] >>
    /\ pc = "requested"
    /\ job = [kind |-> "build", nth |-> 0]
    /\ out = [verdict |-> "pass", page |-> NoPage]
    /\ tasks = rowTasks
    /\ cycle = 0
    /\ blocked = FALSE
    /\ latest = [r \in Roles |-> "none"]
    /\ page = NoPage
    /\ settled = FALSE
    /\ log = << >>

-----------------------------------------------------------------------------
StartTask(ts, t) == [ts EXCEPT ![t] = "in_progress"]
CompleteTask(ts, t) == [ts EXCEPT ![t] = "done"]

\* Mutant: only tasks in review are taken back.
MarkRunningTasksFailed_ReviewOnly(ts) ==
    [t \in DOMAIN ts |-> IF ts[t] = "in_review" THEN "todo" ELSE ts[t]]

MarkRunningTasksFailed(ts) ==
    [t \in DOMAIN ts |-> IF ts[t] \in {"in_progress", "in_review"} THEN "todo" ELSE ts[t]]

\* The newest round of a teammate, whatever its status.
CompleteLatestRound(who, status) ==
    rounds' = [i \in DOMAIN rounds |->
                 IF rounds[i].who = who /\ \A j \in DOMAIN rounds : rounds[j].who = who => j <= i
                 THEN [rounds[i] EXCEPT !.status = status]
                 ELSE rounds[i]]

CloseOpenRounds(status) ==
    rounds' = [i \in DOMAIN rounds |->
                 IF rounds[i].status = "running" THEN [rounds[i] EXCEPT !.status = status]
                                                 ELSE rounds[i]]

InsertRound(who, status) == rounds' = Append(rounds, [who |-> who, status |-> status])

PersistWorkflowState(state, ts) ==
    /\ row' = [row EXCEPT !.state = state]
    /\ rowTasks' = ts

At(here) == pc = here
Goto(there) == pc' = there

-----------------------------------------------------------------------------
(***************************************************************************)
(* Loading the snapshot.                                                   *)
(***************************************************************************)
Load ==
    /\ At("requested")
    /\ tasks' = rowTasks
    /\ Goto("start")
    /\ UNCHANGED <<plan, row, rowTasks, rounds, job, out, loopVars, settled, log>>

LoadThrows ==
    /\ At("requested")
    /\ Goto("record")
    /\ UNCHANGED <<plan, row, rowTasks, rounds, job, out, tasks, loopVars, settled, log>>

(***************************************************************************)
(* runStage: persist, announce, run the agent, save its result, remember.  *)
(***************************************************************************)
StartStage ==
    /\ At("start")
    /\ PersistWorkflowState(StateOf(job.kind), StartTask(tasks, TaskOf(job.kind)))
    /\ Goto("announce")
    /\ UNCHANGED <<plan, rounds, job, out, tasks, loopVars, settled, log>>

AnnounceStage ==
    /\ At("announce")
    /\ InsertRound(RoleOf(job.kind), "running")
    /\ Goto("agent")
    /\ UNCHANGED <<plan, row, rowTasks, job, out, tasks, loopVars, settled, log>>

RequiresPage == plan.needsPage /\ job.kind \in EngineerKinds

\* The agent may deliver anything; a required page may come from the second attempt.
AgentReturns(verdict, delivered) ==
    /\ At("agent")
    /\ job.kind \notin EngineerKinds => delivered = NoPage
    /\ job.kind \notin {"review", "test", "confirm"} => verdict = "pass"
    /\ RequiresPage => delivered # NoPage
    /\ out' = [verdict |-> verdict, page |-> delivered]
    /\ Goto("save")
    /\ UNCHANGED <<plan, row, rowTasks, rounds, job, tasks, loopVars, settled, log>>

\* Neither attempt delivered the required page: MissingRequiredArtifactError.
PageMissing ==
    /\ At("agent")
    /\ RequiresPage
    /\ CompleteLatestRound(Engineer, "failed")
    /\ Goto("catch")
    /\ UNCHANGED <<plan, row, rowTasks, job, out, tasks, loopVars, settled, log>>

\* Message, artifacts and, last, the round of the stage.
SaveStage ==
    /\ At("save")
    /\ CompleteLatestRound(RoleOf(job.kind),
                           IF job.kind = "summary" /\ blocked THEN "failed" ELSE "succeeded")
    /\ Goto("remember")
    /\ UNCHANGED <<plan, row, rowTasks, job, out, tasks, loopVars, settled, log>>

StageThrows ==
    /\ pc \in {"start", "announce", "agent", "save", "remember"}
    /\ Goto("catch")
    /\ UNCHANGED <<plan, row, rowTasks, rounds, job, out, tasks, loopVars, settled, log>>

-----------------------------------------------------------------------------
(***************************************************************************)
(* executeApprovedWorkflow between two stages.  Each action ends a stage   *)
(* of some kinds and decides the next one.                                 *)
(***************************************************************************)
StageEnds(kinds) ==
    /\ At("remember")
    /\ job.kind \in kinds
    /\ tasks' = CompleteTask(tasks, TaskOf(job.kind))
    /\ log' = Append(log, [kind |-> job.kind, verdict |-> out.verdict])
    /\ UNCHANGED <<plan, row, rowTasks, rounds, out, settled>>

Begin(kind, nth) ==
    /\ job' = [kind |-> kind, nth |-> nth]
    /\ Goto("start")

\* What follows the repair loop: a tester who was not heard confirms the block.
LeaveLoop ==
    IF blocked' /\ Tester \in plan.roles /\ latest'[Tester] = "none"
    THEN Begin("confirm", 0)
    ELSE Begin("summary", 0)

\* The head of the loop: without a reviewer the review counts as passed.
EnterCycle(c) ==
    /\ cycle' = c
    /\ UNCHANGED <<blocked, latest>>
    /\ IF c > MaxRepairCycles THEN LeaveLoop
       ELSE IF Reviewer \in plan.roles THEN Begin("review", 0) ELSE Begin("test", 0)

\* recordEngineerWebpageResult: keeps the delivered page unless a repair repeats it.
Repeats == out.page # NoPage /\ out.page = page
RecordPage == page' = IF out.page = NoPage THEN page ELSE out.page

BuildEnds ==
    /\ StageEnds({"build"})
    /\ RecordPage
    /\ IF plan.roles = {Engineer}
       THEN Begin("summary", 0) /\ UNCHANGED <<cycle, blocked, latest>>
       ELSE EnterCycle(0)

SetLatest(role, verdict) == latest' = [latest EXCEPT ![role] = verdict]

\* A check failed: another repair while cycles are left, otherwise the work is blocked.
CheckFails(repairKind) ==
    /\ out.verdict = "fail"
    /\ IF cycle >= MaxRepairCycles
       THEN blocked' = TRUE /\ LeaveLoop
       ELSE Begin(repairKind, cycle + 1) /\ UNCHANGED blocked

ReviewEnds ==
    /\ StageEnds({"review"})
    /\ SetLatest(Reviewer, out.verdict)
    /\ \/ CheckFails("repair_review")
       \/ /\ out.verdict = "pass"
          /\ UNCHANGED blocked
          /\ IF Tester \in plan.roles THEN Begin("test", 0) ELSE LeaveLoop
    /\ UNCHANGED <<cycle, page>>

TestEnds ==
    /\ StageEnds({"test"})
    /\ SetLatest(Tester, out.verdict)
    /\ \/ CheckFails("repair_test")
       \/ out.verdict = "pass" /\ UNCHANGED blocked /\ LeaveLoop
    /\ UNCHANGED <<cycle, page>>

\* Mutant: after a repair for the tester only the tester looks again.
RepairEnds_SkipsReview ==
    /\ StageEnds(RepairKinds)
    /\ ~Repeats
    /\ RecordPage
    /\ IF job.kind = "repair_test"
       THEN cycle' = cycle + 1 /\ Begin("test", 0) /\ UNCHANGED <<blocked, latest>>
       ELSE EnterCycle(cycle + 1)

RepairEnds ==
    /\ StageEnds(RepairKinds)
    /\ ~Repeats
    /\ RecordPage
    /\ EnterCycle(cycle + 1)

\* A repair for the reviewer that changed nothing is tried once more ...
RepeatedRepairIsRetried ==
    /\ StageEnds({"repair_review"})
    /\ Repeats
    /\ cycle + 1 < MaxRepairCycles
    /\ SetLatest(Engineer, "fail")
    /\ Begin("retry", cycle + 2)
    /\ UNCHANGED <<cycle, blocked, page>>

\* ... unless no cycle is left; one for the tester, and a retry, never is.
RepeatedRepairBlocks ==
    /\ StageEnds(RepairKinds)
    /\ Repeats
    /\ job.kind = "repair_review" => cycle + 1 >= MaxRepairCycles
    /\ SetLatest(Engineer, "fail")
    /\ blocked' = TRUE
    /\ LeaveLoop
    /\ UNCHANGED <<cycle, page>>

ConfirmEnds ==
    /\ StageEnds({"confirm"})
    /\ SetLatest(Tester, out.verdict)
    /\ Begin("summary", 0)
    /\ UNCHANGED <<cycle, blocked, page>>

SummaryEnds ==
    /\ StageEnds({"summary"})
    /\ Goto("close")
    /\ UNCHANGED <<job, loopVars>>

-----------------------------------------------------------------------------
(***************************************************************************)
(* The outcome: close the rounds, write the row, announce.                 *)
(***************************************************************************)
CloseRounds ==
    /\ At("close")
    /\ CloseOpenRounds(IF blocked THEN "failed" ELSE "succeeded")
    /\ Goto("persist")
    /\ UNCHANGED <<plan, row, rowTasks, job, out, tasks, loopVars, settled, log>>

PersistOutcome ==
    /\ At("persist")
    /\ PersistWorkflowState(IF blocked THEN "execution_failed" ELSE "completed", tasks)
    /\ settled' = TRUE
    /\ Goto("finish")
    /\ UNCHANGED <<plan, rounds, job, out, tasks, loopVars, log>>

AnnounceOutcome ==
    /\ At("finish")
    /\ InsertRound("nobody", IF blocked THEN "failed" ELSE "succeeded")
    /\ Goto("done")
    /\ UNCHANGED <<plan, row, rowTasks, job, out, tasks, loopVars, settled, log>>

OutcomeThrows ==
    /\ pc \in {"close", "persist", "finish"}
    /\ Goto("catch")
    /\ UNCHANGED <<plan, row, rowTasks, rounds, job, out, tasks, loopVars, settled, log>>

(***************************************************************************)
(* The failure handler; if it throws, recordDispatchFailure; if that       *)
(* throws, a line in the log of the process.                               *)
(***************************************************************************)
CatchClosesRounds ==
    /\ At("catch")
    /\ tasks' = MarkRunningTasksFailed(tasks)
    /\ CloseOpenRounds("failed")
    /\ Goto("catch_persist")
    /\ UNCHANGED <<plan, row, rowTasks, job, out, loopVars, settled, log>>

\* Mutant: an outcome that is already written is not written again, and the handler
\* waits for a write that never comes.
CatchPersists_Once ==
    /\ At("catch_persist")
    /\ ~settled
    /\ PersistWorkflowState("execution_failed", tasks)
    /\ settled' = TRUE
    /\ Goto("catch_announce")
    /\ UNCHANGED <<plan, rounds, job, out, tasks, loopVars, log>>

CatchPersists ==
    /\ At("catch_persist")
    /\ PersistWorkflowState("execution_failed", tasks)
    /\ settled' = TRUE
    /\ Goto("catch_announce")
    /\ UNCHANGED <<plan, rounds, job, out, tasks, loopVars, log>>

CatchAnnounces ==
    /\ At("catch_announce")
    /\ InsertRound("nobody", "failed")
    /\ Goto("done")
    /\ UNCHANGED <<plan, row, rowTasks, job, out, tasks, loopVars, settled, log>>

CatchThrows ==
    /\ pc \in {"catch", "catch_persist", "catch_announce"}
    /\ Goto("record")
    /\ UNCHANGED <<plan, row, rowTasks, rounds, job, out, tasks, loopVars, settled, log>>

\* Mutant: the failed dispatch is recorded as a failed stage would be.
RecordPersists_LikeAStage ==
    /\ At("record")
    /\ PersistWorkflowState(StateOf(job.kind), MarkRunningTasksFailed(rowTasks))
    /\ Goto("record_close")
    /\ UNCHANGED <<plan, rounds, job, out, tasks, loopVars, settled, log>>

RecordPersists ==
    /\ At("record")
    /\ PersistWorkflowState("awaiting_user_confirmation", MarkRunningTasksFailed(rowTasks))
    /\ Goto("record_close")
    /\ UNCHANGED <<plan, rounds, job, out, tasks, loopVars, settled, log>>

RecordCloses ==
    /\ At("record_close")
    /\ CloseOpenRounds("failed")
    /\ Goto("done")
    /\ UNCHANGED <<plan, row, rowTasks, job, out, tasks, loopVars, settled, log>>

RecordThrows ==
    /\ \/ At("record") /\ Goto("lost")
       \/ At("record_close") /\ Goto("parked")
    /\ UNCHANGED <<plan, row, rowTasks, rounds, job, out, tasks, loopVars, settled, log>>

-----------------------------------------------------------------------------
BetweenStages ==
    \/ BuildEnds \/ ReviewEnds \/ TestEnds
    \/ RepairEnds \/ RepeatedRepairIsRetried \/ RepeatedRepairBlocks
    \/ ConfirmEnds \/ SummaryEnds

Progress ==
    \/ Load \/ StartStage \/ AnnounceStage \/ SaveStage
    \/ \E v \in Verdicts, p \in Pages \cup {NoPage} : AgentReturns(v, p)
    \/ BetweenStages
    \/ CloseRounds \/ PersistOutcome \/ AnnounceOutcome
    \/ CatchClosesRounds \/ CatchPersists \/ CatchAnnounces
    \/ RecordPersists \/ RecordCloses

Throws ==
    \/ LoadThrows \/ PageMissing \/ StageThrows \/ OutcomeThrows \/ CatchThrows \/ RecordThrows

Next == Progress \/ Throws

Spec == Init /\ [][Next]_vars

\* The process goes on, and the runtime of an agent answers unless it throws.
FairSpec == Spec /\ WF_vars(Progress)

-----------------------------------------------------------------------------
(***************************************************************************)
(* The execution, seen from outside, is one of CodingWorkflowExecution.    *)
(***************************************************************************)
Phase ==
    CASE pc = "requested" -> "requested"
      [] pc \in {"start", "announce", "agent", "save", "remember", "close", "persist"} -> "running"
      [] pc \in {"catch", "catch_persist"} -> IF settled THEN "settled" ELSE "running"
      [] pc \in {"finish", "catch_announce"} -> "settled"
      [] pc = "record" -> "failing"
      [] pc \in {"record_close", "parked", "done"} -> "done"
      [] pc = "lost" -> "lost"

Execution ==
    INSTANCE CodingWorkflowExecution
    WITH Executions <- {"this"}, exec <- [e \in {"this"} |-> Phase]

\* Every step of the execution is one the coarse executor may take, or changes
\* nothing the gate can see.  (executeApprovedWorkflow, recordDispatchFailure)
ImplementsExecution == Execution!ExecSpec

-----------------------------------------------------------------------------
TypeOK ==
    /\ plan.roles \subseteq Roles /\ plan.needsPage \in BOOLEAN
    /\ row.state \in Execution!WorkflowStates
    /\ rowTasks \in [Tasks -> {"todo", "in_progress", "in_review", "done"}]
    /\ tasks \in [Tasks -> {"todo", "in_progress", "in_review", "done"}]
    /\ rounds \in Seq([who : Roles \cup {Lead, "nobody"},
                       status : {"waiting_for_approval", "running", "succeeded", "failed"}])
    /\ job \in [kind : Kinds, nth : 0 .. MaxRepairCycles]
    /\ out \in [verdict : Verdicts, page : Pages \cup {NoPage}]
    /\ cycle \in 0 .. MaxRepairCycles
    /\ blocked \in BOOLEAN /\ settled \in BOOLEAN
    /\ latest \in [Roles -> Verdicts \cup {"none"}]
    /\ page \in Pages \cup {NoPage}
    /\ log \in Seq([kind : Kinds, verdict : Verdicts])

Entries(kinds) == {i \in DOMAIN log : log[i].kind \in kinds}

\* A completed workflow was checked as it is: the last word of every checker taking
\* part is a pass, spoken after the engineer's last change.  (the repair loop)
CompletedIsVerified ==
    row.state = "completed" =>
        /\ Reviewer \in plan.roles =>
             \E i \in Entries({"review"}) :
                /\ log[i].verdict = "pass"
                /\ \A j \in Entries(EngineerKinds \cup {"review"}) : j <= i
        /\ Tester \in plan.roles =>
             \E i \in Entries({"test"}) :
                /\ log[i].verdict = "pass"
                /\ \A j \in Entries(EngineerKinds \cup {"test", "confirm"}) : j <= i

\* An execution that returned, completed or not, leaves no task and no round that
\* looks as if somebody were still working.  (markRunningTasksFailed, closeOpenActivityRounds)
NothingLeftRunning ==
    pc = "done" =>
        /\ \A t \in Tasks : rowTasks[t] \in {"todo", "done"}
        /\ \A i \in DOMAIN rounds : rounds[i].status # "running"
        /\ row.state = "completed" => \A t \in Tasks : rowTasks[t] = "done"

\* The summary is never written before a tester taking part was heard, even when the
\* reviewer blocked the work first.  (buildBlockedQaConfirmationPrompt and its guard)
TesterIsHeard ==
    job.kind = "summary" /\ Tester \in plan.roles => Entries({"test", "confirm"}) # {}

\* However reviews, tests and repeated repairs alternate, the engineer is asked at most
\* twice in every cycle but the last, where a repair that changes nothing is not tried
\* again; with two cycles that is once for the plan and three times for its repair.
EngineerBound == IF MaxRepairCycles = 0 THEN 1 ELSE 2 * MaxRepairCycles

RepairsAreBounded ==
    /\ Cardinality(Entries(EngineerKinds)) <= EngineerBound
    /\ Cardinality(Entries({"review"})) <= MaxRepairCycles + 1
    /\ Cardinality(Entries({"test"})) <= MaxRepairCycles + 1

\* What the repair loop promises of the checks: the last word before a completion, the hearing
\* of the tester before every report, an end to the repairs, and nothing that still looks busy
\* afterwards.  (executeApprovedWorkflow)
WorkIsChecked ==
    /\ TypeOK
    /\ CompletedIsVerified /\ TesterIsHeard /\ RepairsAreBounded
    /\ NothingLeftRunning

Over == pc \in {"done", "parked", "lost"}
=============================================================================
