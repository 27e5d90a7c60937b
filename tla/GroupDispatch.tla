----------------------------- MODULE GroupDispatch -----------------------------
(***************************************************************************)
(* dispatchGroupAssistantReply of the API: one message to a group.  The    *)
(* API records the turns it expects as running, waits for the orchestrator *)
(* workflow, publishes one message per result, records the results and the *)
(* failures in the turn ledger, and tells the user what failed.  Any await *)
(* can throw; the catch records the expected turns as failed and tells the *)
(* user, and swallows its own errors.                                      *)
(*                                                                         *)
(* The orchestrator is composed in: it runs while the API waits for it.    *)
(* Without a mention every agent of the channel is an initial target, with *)
(* mentions exactly the mentioned agents are, and they are locked.         *)
(***************************************************************************)
EXTENDS Naturals, Sequences, FiniteSets

CONSTANTS Agents, Kinds, Produces, Consumes, MaxRounds, MaxSteps,
    MaxFaults      \* bound on crashes and on errors that the catch swallows

ASSUME DispatchAssumption ==
    /\ IsFiniteSet(Agents) /\ Agents # {}
    /\ Produces \in [Agents -> SUBSET Kinds]
    /\ Consumes \in [Agents -> SUBSET Kinds]
    /\ MaxRounds \in Nat /\ MaxRounds >= 2
    /\ MaxSteps \in Nat
    /\ MaxFaults \in Nat

VARIABLES plan, turns, queue, queued, wave, asked, targets, status

Orchestrator == INSTANCE GroupOrchestrator
workflowVars == <<plan, turns, queue, queued, wave, asked, targets, status>>

VARIABLES
    initial,    \* initialTargetAgentIds, in the order of the channel or the mentions
    api,        \* how far the dispatch of the API is
    published,  \* messages created for results, in the order of the results
    ledger,     \* multi_agent_turns by turn key: turnIndex (from 0) and agent
    handoffs,   \* agents that the ledger holds a requested handoff to
    notice,     \* TRUE when a failure message was created
    faults

apiVars == <<initial, api, published, ledger, handoffs, notice, faults>>
vars == <<workflowVars, apiVars>>

ApiStates == {"preparing", "starting", "waiting", "publishing", "closing", "noticing",
              "answered", "catching", "telling", "failed", "down"}
RowStates == {"none", "running", "completed", "failed"}

MaxTurns == IF MaxSteps > MaxRounds * Cardinality(Agents)
            THEN MaxSteps ELSE MaxRounds * Cardinality(Agents)
Keys == (0..(MaxTurns - 1)) \X Agents

Results == Orchestrator!Succeeded
Failures == Orchestrator!Failed

TypeOK ==
    /\ Orchestrator!TypeOK
    /\ initial \in Orchestrator!Orders
    /\ api \in ApiStates
    /\ published \in 0..Cardinality(Results)
    /\ ledger \in [Keys -> RowStates]
    /\ handoffs \in SUBSET Agents
    /\ notice \in BOOLEAN
    /\ faults \in Nat

\* The API passes no maxRounds: two rounds if there is somebody to talk to.
DefaultRounds(order) == IF Len(order) > 1 THEN 2 ELSE 1

Init ==
    /\ Orchestrator!Init
    /\ initial \in Orchestrator!Orders
    /\ Orchestrator!SeqRange(initial) = Orchestrator!SeqRange(plan.order)
    /\ plan.locked => initial = plan.order
    /\ ~plan.locked => /\ Orchestrator!SeqRange(plan.order) = Agents
                       /\ plan.rounds = DefaultRounds(plan.order)
    /\ api = "preparing"
    /\ published = 0
    /\ ledger = [k \in Keys |-> "none"]
    /\ handoffs = {}
    /\ notice = FALSE
    /\ faults = 0

-----------------------------------------------------------------------------
\* buildPlannedGroupRunDescriptors: the same plan that the workflow will make.
PlannedKeys ==
    IF plan.order = << >> THEN {}
    ELSE {<<i, plan.order[(i % Len(plan.order)) + 1]>> : i \in 0..(Orchestrator!Total(plan) - 1)}

KeyOf(i) == <<i - 1, turns[i].agent>>

\* Mutant: failed turns are filed under the agent alone.
FailedKey_AgentOnly(i) == <<0, turns[i].agent>>

\* buildFailedGroupRunDescriptors: a failure carries no turn index, so the place of
\* the agent among the initial targets stands in for it.
FailedKey(i) ==
    <<(CHOOSE n \in DOMAIN initial : initial[n] = turns[i].agent) - 1, turns[i].agent>>

Record(keys, row) == [k \in Keys |-> IF k \in keys THEN row ELSE ledger[k]]

\* The conversation context and the connection to the engine.
Prepare ==
    /\ api = "preparing"
    /\ api' = "starting"
    /\ UNCHANGED <<workflowVars, initial, published, ledger, handoffs, notice, faults>>

RecordStarted ==
    /\ api = "starting"
    /\ ledger' = Record(PlannedKeys, "running")
    /\ api' = "waiting"
    /\ UNCHANGED <<workflowVars, initial, published, handoffs, notice, faults>>

RunWorkflow ==
    /\ api = "waiting"
    /\ Orchestrator!Next
    /\ UNCHANGED apiVars

WorkflowReturns ==
    /\ api = "waiting"
    /\ status = "aggregated"
    /\ api' = "publishing"
    /\ UNCHANGED <<workflowVars, initial, published, ledger, handoffs, notice, faults>>

WorkflowThrows ==
    /\ api = "waiting"
    /\ status = "thrown"
    /\ api' = "catching"
    /\ UNCHANGED <<workflowVars, initial, published, ledger, handoffs, notice, faults>>

\* createAssistantMessage and its artifacts, one result after the other.
PublishResult ==
    /\ api = "publishing"
    /\ published < Cardinality(Results)
    /\ published' = published + 1
    /\ UNCHANGED <<workflowVars, initial, api, ledger, handoffs, notice, faults>>

\* The turns of all results, with their snapshots and runs, in one transaction.
CompletedTurns == Record({KeyOf(i) : i \in Results}, "completed")

\* The handoffs that results asked for, whether or not the workflow followed them; the
\* ones whose target has answered are recorded as completed.
RequestedHandoffs ==
    (UNION {turns[i].asks : i \in Results})
        \ (Orchestrator!SeqRange(initial) \cup {turns[i].agent : i \in Results})

RecordGroup ==
    /\ api = "publishing"
    /\ published = Cardinality(Results)
    /\ ledger' = CompletedTurns
    /\ handoffs' = RequestedHandoffs
    /\ api' = IF Failures = {} THEN "answered" ELSE "closing"
    /\ UNCHANGED <<workflowVars, initial, published, notice, faults>>

RecordFailures ==
    /\ api = "closing"
    /\ ledger' = Record({FailedKey(i) : i \in Failures}, "failed")
    /\ api' = "noticing"
    /\ UNCHANGED <<workflowVars, initial, published, handoffs, notice, faults>>

TellFailures ==
    /\ api = "noticing"
    /\ notice' = TRUE
    /\ api' = "answered"
    /\ UNCHANGED <<workflowVars, initial, published, ledger, handoffs, faults>>

\* Any await before the answer, the wait for the workflow included.
Throws ==
    /\ api \in {"preparing", "starting", "waiting", "publishing", "closing", "noticing"}
    /\ api' = "catching"
    /\ UNCHANGED <<workflowVars, initial, published, ledger, handoffs, notice, faults>>

\* recordAgentRunFailureCheckpoint: every expected turn, finished or not.
CatchRecords ==
    /\ api = "catching"
    /\ ledger' = Record(PlannedKeys, "failed")
    /\ api' = "telling"
    /\ UNCHANGED <<workflowVars, initial, published, handoffs, notice, faults>>

\* Mutant: an error of the workflow is only logged.
CatchTells_LogsOnly ==
    /\ api = "telling"
    /\ api' = "failed"
    /\ UNCHANGED <<workflowVars, initial, published, ledger, handoffs, notice, faults>>

CatchTells ==
    /\ api = "telling"
    /\ notice' = TRUE
    /\ api' = "failed"
    /\ UNCHANGED <<workflowVars, initial, published, ledger, handoffs, faults>>

-----------------------------------------------------------------------------
Fault == faults < MaxFaults /\ faults' = faults + 1

\* Errors of the two steps of the catch are logged and swallowed.
CatchStepFails ==
    /\ Fault
    /\ \/ api = "catching" /\ api' = "telling"
       \/ api = "telling" /\ api' = "failed"
    /\ UNCHANGED <<workflowVars, initial, published, ledger, handoffs, notice>>

\* The dispatch is a promise of the API process; nothing resumes it.
ApiCrash ==
    /\ Fault
    /\ api \notin {"answered", "failed", "down"}
    /\ api' = "down"
    /\ UNCHANGED <<workflowVars, initial, published, ledger, handoffs, notice>>

Progress ==
    \/ Prepare \/ RecordStarted \/ RunWorkflow \/ WorkflowReturns \/ WorkflowThrows
    \/ PublishResult \/ RecordGroup \/ RecordFailures \/ TellFailures
    \/ CatchRecords \/ CatchTells

Next == Progress \/ Throws \/ CatchStepFails \/ ApiCrash

Spec == Init /\ [][Next]_vars
FairSpec == Spec /\ WF_vars(Progress)

-----------------------------------------------------------------------------
\* A turn is recorded as completed only when its message, and every message before
\* it, is in the conversation, whatever throws.  (recordGroupExecution)
CompletedMeansVisible ==
    \A i \in DOMAIN turns : ledger[KeyOf(i)] = "completed" =>
        turns[i].ok /\ Cardinality({j \in Results : j <= i}) <= published

\* A failed dispatch leaves no turn running, unless a fault hit the catch itself.
\* (recordAgentRunFailureCheckpoint)
FailedDispatchIsClosed ==
    api = "failed" /\ faults = 0 => \A k \in Keys : ledger[k] \in {"none", "failed"}

\* An answered dispatch left a ledger that tells every turn's outcome, when agents
\* were mentioned (one round) or nothing failed.
\* (buildPlannedGroupRunDescriptors, recordGroupExecution, recordAgentRunsFailed)
AnsweredIsRecorded ==
    api = "answered" /\ (plan.locked \/ Failures = {}) =>
        ledger = [k \in Keys |->
                    IF \E i \in Results : k = KeyOf(i) THEN "completed"
                    ELSE IF \E i \in Failures : k = KeyOf(i) THEN "failed" ELSE "none"]

\* The user sees every result, and a failure message exactly when something failed.
AnswerIsComplete ==
    api = "answered" => /\ published = Cardinality(Results)
                        /\ notice <=> Failures # {}

\* Only a run on explicit mentions leaves handoffs that nobody will serve.
\* (selectInitialOrchestratorTargets, lockInitialTargets)
OnlyMentionsLeaveHandoffs == handoffs # {} => plan.locked

\* The ledger tells what happened: nothing completed that is not visible, nothing running after a
\* failure, every outcome on record after an answer; and an answer leaves all results, a word about
\* failures, and no request for nobody.
LedgerIsTrue ==
    /\ TypeOK /\ CompletedMeansVisible /\ FailedDispatchIsClosed /\ AnsweredIsRecorded
    /\ AnswerIsComplete /\ OnlyMentionsLeaveHandoffs

\* Every message to a group gets a visible reaction, whatever throws.
Reacted == published > 0 \/ notice \/ faults > 0

GroupIsAnswered == <>Reacted
=============================================================================
