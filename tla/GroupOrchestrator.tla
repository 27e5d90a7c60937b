--------------------------- MODULE GroupOrchestrator ---------------------------
(***************************************************************************)
(* groupOrchestratorWorkflow of the worker: one group request.  The        *)
(* workflow dispatches the planned agents round after round, one activity  *)
(* at a time, then the agents that teammates handed work to, in waves,     *)
(* and reports.  A dispatch that fails after its retries is recorded and   *)
(* the workflow goes on.  The state of the workflow is durable (the engine *)
(* replays it), so a worker crash is not a step of its own.                *)
(*                                                                         *)
(* turns is the log of dispatches in the order of turnIndex; the arrays    *)
(* results and failures of the code are its two halves.                    *)
(***************************************************************************)
EXTENDS Naturals, Sequences, FiniteSets

CONSTANTS
    Agents,       \* agents of the channel (input.targets)
    Kinds,        \* artifact kinds that agents declare
    Produces,     \* [Agents -> SUBSET Kinds], from the capability tags
    Consumes,
    MaxRounds,    \* bound of normalizeMaxRounds, 4 in the code
    MaxSteps      \* bound of normalizeTotalSteps, 8 in the code

ASSUME OrchestratorAssumption ==
    /\ IsFiniteSet(Agents)
    /\ Produces \in [Agents -> SUBSET Kinds]
    /\ Consumes \in [Agents -> SUBSET Kinds]
    /\ MaxRounds \in Nat \ {0}
    /\ MaxSteps \in Nat

VARIABLES
    plan,      \* the collaboration plan; steps = 0 when the message names no number
    turns,     \* dispatches so far
    queue,     \* handoffQueue
    queued,    \* queuedTargetIds: never shrinks
    wave,      \* agents of the current wave still to be dispatched
    asked,     \* agents named by the intents of the wave's successful results
    targets,   \* state.targets, for the counts of the status events
    status     \* status of the orchestrator state; "thrown" when the workflow failed

vars == <<plan, turns, queue, queued, wave, asked, targets, status>>

SeqRange(s) == {s[i] : i \in DOMAIN s}

\* uniqueTargets: an order names no agent twice.
Orders == {s \in UNION {[1..n -> Agents] : n \in 0..Cardinality(Agents)} :
              \A i, j \in DOMAIN s : s[i] = s[j] => i = j}

\* The agent at place j waits, when place i is filled, for a kind that nobody before i
\* produces and somebody from i on does.
Waits(order, i, j) ==
    \E k \in Consumes[order[j]] :
        /\ \A n \in 1..(i - 1) : k \notin Produces[order[n]]
        /\ \E n \in i..Len(order) : k \in Produces[order[n]]

\* Mutant: the ranking is the order of work, whatever agents declare.
IsWorkOrder_Ranked(order) == order \in Orders

\* deriveAgentWorkOrder: whoever is ranked first among those who wait for nothing, and
\* the first of all when everybody waits.  The ranking depends on the words of the
\* message and of the profiles, so every order that can result is possible.
IsWorkOrder(order) ==
    \A i \in DOMAIN order :
        Waits(order, i, i) => \A j \in i..Len(order) : Waits(order, i, j)

\* normalizeMaxRounds and extractExplicitTotalSteps; 0 when no number is named.
RoundCounts == 1..MaxRounds
StepCounts == 0..MaxSteps

\* Explicitly mentioned agents are locked: their own order, one round, no handoffs.
Plans == {p \in [order : Orders, rounds : RoundCounts, steps : StepCounts,
                 locked : BOOLEAN] :
              IF p.locked THEN p.rounds = 1 /\ p.steps = 0 ELSE IsWorkOrder(p.order)}

Total(p) == IF p.steps > 0 THEN p.steps ELSE p.rounds * Len(p.order)

FollowsHandoffs == plan.steps = 0 /\ ~plan.locked

Turns == [agent : Agents, round : 0..(MaxRounds + MaxSteps), ok : BOOLEAN,
          asks : SUBSET Agents]
Statuses == {"running", "partial_failure", "aggregated", "thrown"}

TypeOK ==
    /\ plan \in Plans
    /\ turns \in Seq(Turns)
    /\ queued \in SUBSET Agents
    /\ queue \in SUBSET queued
    /\ wave \in SUBSET queued
    /\ asked \in SUBSET Agents
    /\ targets \in SUBSET Agents
    /\ status \in Statuses

Succeeded == {i \in DOMAIN turns : turns[i].ok}
Failed == {i \in DOMAIN turns : ~turns[i].ok}

Init ==
    /\ plan \in Plans
    /\ turns = << >>
    /\ queue = {}
    /\ queued = SeqRange(plan.order)
    /\ wave = {}
    /\ asked = {}
    /\ targets = SeqRange(plan.order)
    /\ status = "running"

-----------------------------------------------------------------------------
\* No initial target can be resolved: the workflow throws before any dispatch.
NoTargets ==
    /\ status = "running"
    /\ plan.order = << >>
    /\ status' = "thrown"
    /\ UNCHANGED <<plan, turns, queue, queued, wave, asked, targets>>

Planned == status = "running" /\ plan.order # << >> /\ Len(turns) < Total(plan)

PlannedAgent == plan.order[(Len(turns) % Len(plan.order)) + 1]
PlannedRound == Len(turns) \div Len(plan.order)

\* The agents that the intents of an answer name, by id, participant or role; what an
\* agent writes is any set of them.
Requests == SUBSET Agents

Turn(a, round, ok, asks) ==
    [agent |-> a, round |-> round, ok |-> ok, asks |-> asks]

\* Mutant: agents that were queued before are queued again.
Fresh_Repeats(named) == named

\* enqueueHandoffTargets: an agent is queued once, and never if it is in the plan.
Fresh(named) == named \ queued

PlannedSucceeds(asks) ==
    /\ Planned
    /\ turns' = Append(turns, Turn(PlannedAgent, PlannedRound, TRUE, asks))
    /\ IF FollowsHandoffs
       THEN /\ queue' = queue \cup Fresh(asks)
            /\ queued' = queued \cup Fresh(asks)
            /\ targets' = targets \cup queue'
       ELSE UNCHANGED <<queue, queued, targets>>
    /\ UNCHANGED <<plan, wave, asked, status>>

\* The activity gave up after its retries; the plan goes on with the next turn.
PlannedFails ==
    /\ Planned
    /\ turns' = Append(turns, Turn(PlannedAgent, PlannedRound, FALSE, {}))
    /\ UNCHANGED <<plan, queue, queued, wave, asked, targets, status>>

-----------------------------------------------------------------------------
PlanDone == status = "running" /\ plan.order # << >> /\ Len(turns) >= Total(plan)

\* selectNextHandoffWave: whoever waits for nothing that a waiting agent produces;
\* everybody, if the waiting agents wait for each other.
Produced == UNION {Produces[turns[i].agent] : i \in Succeeded}
Ready == {a \in queue : \A k \in Consumes[a] :
             k \in Produced \/ \A b \in queue : k \notin Produces[b]}

\* Mutant: only what is ready, even if nothing is.
NextWave_ReadyOnly == Ready
NextWave == IF Ready = {} THEN queue ELSE Ready

StartWave ==
    /\ PlanDone
    /\ wave = {} /\ asked = {} /\ queue # {}
    /\ wave' = NextWave
    /\ queue' = queue \ NextWave
    /\ UNCHANGED <<plan, turns, queued, asked, targets, status>>

\* A successful turn of the wave names agents; they are queued when the wave ends.
HandoffTurn(a, ok, asks) ==
    /\ PlanDone
    /\ a \in wave
    /\ turns' = Append(turns, Turn(a, plan.rounds, ok, asks))
    /\ wave' = wave \ {a}
    /\ asked' = asked \cup asks
    /\ UNCHANGED <<plan, queue, queued, targets, status>>

\* Mutant: the requests of the last result of a wave are dropped.
EndWave_Drops ==
    /\ PlanDone
    /\ wave = {} /\ asked # {}
    /\ asked' = {}
    /\ UNCHANGED <<plan, turns, queue, queued, wave, targets, status>>

EndWave ==
    /\ PlanDone
    /\ wave = {} /\ asked # {}
    /\ queue' = queue \cup Fresh(asked)
    /\ queued' = queued \cup Fresh(asked)
    /\ targets' = targets \cup queue'
    /\ asked' = {}
    /\ UNCHANGED <<plan, turns, wave, status>>

AllDispatched == PlanDone /\ queue = {} /\ wave = {} /\ asked = {}

ReportFailures ==
    /\ AllDispatched
    /\ Failed # {}
    /\ status' = "partial_failure"
    /\ UNCHANGED <<plan, turns, queue, queued, wave, asked, targets>>

Reported == status = "partial_failure" \/ (AllDispatched /\ Failed = {})

Aggregate ==
    /\ Reported
    /\ status' = "aggregated"
    /\ UNCHANGED <<plan, turns, queue, queued, wave, asked, targets>>

\* aggregateResultsActivity runs only if there is a result; its failure is not caught.
AggregateFails ==
    /\ Reported
    /\ Succeeded # {}
    /\ status' = "thrown"
    /\ UNCHANGED <<plan, turns, queue, queued, wave, asked, targets>>

Dispatch ==
    \/ NoTargets
    \/ \E asks \in Requests : PlannedSucceeds(asks)
    \/ PlannedFails
    \/ StartWave
    \/ \E a \in Agents, asks \in Requests : HandoffTurn(a, TRUE, asks)
    \/ \E a \in Agents : HandoffTurn(a, FALSE, {})
    \/ EndWave
    \/ ReportFailures
    \/ Aggregate
    \/ AggregateFails

Next == Dispatch

Spec == Init /\ [][Next]_vars

-----------------------------------------------------------------------------
Ran(a) == {i \in DOMAIN turns : turns[i].agent = a}

\* An agent outside the plan gets a turn only after a teammate's successful turn
\* named it, never in a locked or counted plan, and never a second one however many
\* teammates name it; so the conversation cannot bounce between agents for ever.
\* (enqueueHandoffTargets, queuedTargetIds)
HandoffsAreAskedForOnce ==
    \A i \in DOMAIN turns : turns[i].agent \notin SeqRange(plan.order) =>
        /\ FollowsHandoffs
        /\ \E j \in 1..(i - 1) : turns[j].ok /\ turns[i].agent \in turns[j].asks
        /\ Ran(turns[i].agent) = {i}

\* Every request that a successful turn made is served before the workflow reports,
\* also when it was made in the last wave or by the last planned turn; the agents of
\* the plan get exactly the turns the plan gives them.  (plannedDispatches, the loop
\* over handoffQueue)
RequestsAreServed ==
    status \in {"partial_failure", "aggregated"} =>
        /\ FollowsHandoffs =>
              \A i \in Succeeded : \A a \in turns[i].asks : Ran(a) # {}
        /\ \A i \in 1..Total(plan) :
              turns[i].agent = plan.order[((i - 1) % Len(plan.order)) + 1]

\* The total of the status events covers everyone who was or will be dispatched.
\* (recordOrchestratorTargets)
TargetsCoverDispatches ==
    targets = SeqRange(plan.order) \cup {turns[i].agent : i \in DOMAIN turns}
                  \cup queue \cup wave

\* If the agents of a plan can be put in an order in which nobody waits for a later one,
\* the plan is such an order, so that a consumer finds the artifacts of its producers in
\* its context; only agents that wait for each other work on a guess.
\* (applyDeclaredHandoffDependencies, against its purpose)
NobodyWaits(order) == \A i \in DOMAIN order : ~Waits(order, i, i)
ProducersGoFirst ==
    /\ ~plan.locked
    /\ \E o \in Orders : SeqRange(o) = SeqRange(plan.order) /\ NobodyWaits(o)
    => NobodyWaits(plan.order)

\* The turns, the requests that led to them, the order of work and the announced total
\* tell one story.
TurnsAreAccountedFor ==
    TypeOK /\ HandoffsAreAskedForOnce /\ TargetsCoverDispatches /\ ProducersGoFirst
=============================================================================
