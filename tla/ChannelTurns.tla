----------------------------- MODULE ChannelTurns -----------------------------
(***************************************************************************)
(* The rules of the multi-agent harness, multi-agent/index.ts: who takes a *)
(* turn on an event of a channel, which guard stops the talk of agents,    *)
(* what the prompt of a turn may contain, what an output asks for, and the *)
(* life of handoffs, tool plans and procedural memories.                   *)
(*                                                                         *)
(* The rules are pure and no service applies them to a channel yet.  The   *)
(* scheduler around them (Schedule, TurnEnds and the people) is external:  *)
(* the pipeline that the rules are written for selects candidates for a    *)
(* new event, guards them all against the same chain, starts a turn for    *)
(* each under its idempotency key and delivers an event at least once.     *)
(***************************************************************************)
EXTENDS Integers, Sequences, FiniteSets, SequencesExt

CONSTANTS
    Agents,
    Profiles,         \* what the participants may be, a sequence of functions on Agents
    Messages,         \* what a human may say
    Outputs,          \* what an agent may answer
    Memories,         \* a sequence of private memories, each with its owner and status
    ConfirmAbove,     \* allAgentsConfirmationThreshold
    MaxTurns, MaxAgentTurns,   \* limits of the causal chain
    MaxRefs, MaxChars,         \* budget of a context; a section has the length 1
    MaxHuman,         \* bound on messages
    MaxChanges,       \* bound on muting, pausing and their opposites, and on redeliveries
    LogBound          \* longer than a log can be; stops a wrong guard, not a right one

ChannelAssumption ==
    /\ IsFiniteSet(Agents) /\ Agents # {}
    /\ MaxTurns \in Nat \ {0} /\ MaxAgentTurns \in Nat \ {0}
    /\ MaxRefs \in Nat /\ MaxChars \in Nat /\ ConfirmAbove \in Nat
    /\ MaxHuman \in Nat /\ MaxChanges \in Nat /\ LogBound \in Nat

VARIABLES
    people,       \* who the participants are: names, roles, trigger and memory policy, permissions
    standing,     \* status of each participant
    log,          \* events of the causal chain, in order
    pending,      \* events that the scheduler has yet to see
    chain,        \* status and counts of the causal chain
    running,      \* turns in progress: candidate and context
    started,      \* candidates of all turns that were started
    resting,      \* agents whose cooldown has not passed
    handoffs, plans, procedures,
    changes

vars == <<people, standing, log, pending, chain, running, started, resting,
          handoffs, plans, procedures, changes>>

Person(a) == Profiles[people][a]

Human == "human"
Scheduler == "multi-agent-scheduler"
Nobody == "nobody"
AllAgents == "all-agents"

EventTypes == {"user_message", "agent_message", "critique_request", "handoff_requested",
               "loop_guard_triggered"}
BotMentions == {"never", "handoff_only", "same_causal_chain", "explicit"}
Standings == {"available", "muted", "offline"}
HandoffStates == {"requested", "accepted", "rejected", "completed", "expired", "cancelled"}
Transitions == {"accept", "reject", "complete", "expire", "cancel"}
Risks == {"low", "medium", "high", "forbidden"}

Event(by, type, text, replyTo, to, role, chained, public) ==
    [by |-> by, type |-> type, text |-> text, replyTo |-> replyTo, to |-> to, role |-> role,
     chained |-> chained, public |-> public]

----------------------------------------------------------------------------
(* Who is asked.                                                           *)

Active == {a \in Agents : standing[a] \notin {"muted", "offline"}}
Named(token) == {a \in Agents : token \in Person(a).names}
Holders(role) == {a \in Agents : role \in Person(a).roles}

Mention(kind, targets, confirm) == [kind |-> kind, targets |-> targets, confirm |-> confirm]

MentionOf(token) ==
    IF token = AllAgents
    THEN Mention("all_agents", Active, Cardinality(Active) > ConfirmAbove)
    ELSE IF Named(token) # {} THEN Mention("agent", Named(token), FALSE)
    ELSE Mention("role", Holders(token), FALSE)

Mentions(e) ==
    {MentionOf(token) : token \in e.text}
        \cup (IF e.replyTo = Nobody THEN {} ELSE {Mention("reply_target", {e.replyTo}, FALSE)})

Reason(kind) ==
    CASE kind = "agent" -> "human_mention"
      [] kind = "role" -> "human_role_mention"
      [] kind = "all_agents" -> "human_all_agents"
      [] kind = "reply_target" -> "reply_to_agent"

Allows(a, reason) ==
    CASE reason = "human_mention" -> Person(a).onHuman
      [] reason = "human_role_mention" -> Person(a).onRole
      [] reason = "human_all_agents" -> Person(a).onAll
      [] reason = "reply_to_agent" -> Person(a).onReply
      [] reason = "agent_mention_allowed" -> Person(a).onAgent
      [] reason = "agent_handoff" -> TRUE

Priority(reason) ==
    CASE reason = "human_mention" -> 100
      [] reason = "reply_to_agent" -> 95
      [] reason = "agent_handoff" -> 90
      [] reason = "human_role_mention" -> 80
      [] reason = "agent_mention_allowed" -> 60
      [] reason = "human_all_agents" -> 50

BotsMayMention(a, e) ==
    \/ Person(a).bots = "explicit"
    \/ Person(a).bots = "same_causal_chain" /\ e.chained

Candidate(i, a, reason, source) ==
    [event |-> i, agent |-> a, reason |-> reason, source |-> source]

HumanCandidates(i, confirmed) ==
    {Candidate(i, a, Reason(m.kind), Nobody) : <<m, a>> \in
        {<<m, a>> \in Mentions(log[i]) \X Agents :
            /\ a \in m.targets
            /\ m.confirm => confirmed
            /\ Allows(a, Reason(m.kind))}}

AgentCandidates(i) ==
    {Candidate(i, a, "agent_mention_allowed", log[i].by) : a \in
        {a \in UNION {m.targets : m \in Mentions(log[i])} :
            /\ log[i].type = "critique_request"
            /\ Person(a).onAgent
            /\ BotsMayMention(a, log[i])}}

HandoffTargets(e) ==
    IF e.to # {} THEN e.to
    ELSE IF e.role # Nobody THEN Holders(e.role)
    ELSE UNION {m.targets : m \in Mentions(e)}

\* A handoff asks nobody's trigger policy.
HandoffCandidates(i) ==
    {Candidate(i, a, "agent_handoff", log[i].by) : a \in HandoffTargets(log[i])}

EventCandidates(i, confirmed) ==
    CASE ~log[i].public -> {}
      [] log[i].type = "handoff_requested" -> HandoffCandidates(i)
      [] log[i].by = Human -> HumanCandidates(i, confirmed)
      [] log[i].by \in Agents -> AgentCandidates(i)
      [] OTHER -> {}

Candidates(i, confirmed) ==
    LET all == EventCandidates(i, confirmed) IN
    {c \in all : \A d \in all : d.agent = c.agent => Priority(d.reason) <= Priority(c.reason)}

----------------------------------------------------------------------------
(* Who is stopped.                                                         *)

SinceHuman ==
    LET last == SelectLastInSeq(log, LAMBDA e : e.by = Human)
    IN SelectSeq(SubSeq(log, last + 1, Len(log)), LAMBDA e : e.by \in Agents)

PairTalk(source, target) ==
    Cardinality({k \in 1..Len(SinceHuman) :
        \A j \in k..Len(SinceHuman) : SinceHuman[j].by \in {source, target}})

\* Mutant: an agent that hands off is not counted among the agents that talk.
Guard_HumansOnly(c) ==
    CASE chain.status = "paused" -> "chain_paused"
      [] standing[c.agent] = "muted" -> "muted_agent"
      [] standing[c.agent] = "offline" -> "offline_agent"
      [] c.source = Nobody /\ chain.turns >= MaxTurns -> "max_turns_per_chain"
      [] c.agent \in resting -> "cooldown"
      [] OTHER -> "allow"

Guard(c) ==
    CASE chain.status = "paused" -> "chain_paused"
      [] standing[c.agent] = "muted" -> "muted_agent"
      [] standing[c.agent] = "offline" -> "offline_agent"
      [] chain.turns >= MaxTurns -> "max_turns_per_chain"
      [] c.source # Nobody /\ chain.agentTurns >= MaxAgentTurns -> "max_agent_to_agent_turns"
      [] c.source # Nobody /\ Len(SinceHuman) >= Person(c.agent).maxAlone ->
            "max_consecutive_without_human"
      [] c.source # Nobody /\ PairTalk(c.source, c.agent) >= Person(c.agent).maxPair ->
            "same_pair_ping_pong"
      [] c.agent \in resting -> "cooldown"
      [] OTHER -> "allow"

----------------------------------------------------------------------------
(* What a prompt contains.  A section that the budget leaves out, and one  *)
(* that the participant may not read, still counts as a reference.         *)

Source(ref, visible) == [ref |-> ref, visible |-> visible]

MayReadMemory(a, m) ==
    m.status = "approved" /\ m.owner = a /\ Person(a).readsOwn

MayReadProcedure(a, p) ==
    /\ p.status = "approved"
    /\ Person(a).readsProcedures
    /\ p.role # Nobody => p.role = Person(a).key

\* Mutant: every private memory is put into the prompt.
Sources_AllMemories(c) ==
    SelectSeq([i \in 1..Len(log) |-> Source(<<"event", i>>, log[i].public)],
              LAMBDA s : s.ref # <<"event", c.event>>)
        \o [k \in 1..Len(Memories) |-> Source(<<"memory", k>>, Memories[k].status = "approved")]

Sources(c) ==
    SelectSeq([i \in 1..Len(log) |-> Source(<<"event", i>>, log[i].public)],
              LAMBDA s : s.ref # <<"event", c.event>>)
        \o [k \in 1..Len(Memories) |-> Source(<<"memory", k>>, MayReadMemory(c.agent, Memories[k]))]
        \o [k \in 1..Len(procedures) |->
                Source(<<"procedure", k>>, MayReadProcedure(c.agent, procedures[k]))]

Include(context, s) ==
    CASE ~s.visible -> [context EXCEPT !.refs = @ + 1, !.hidden = @ \cup {s.ref}]
      [] context.refs >= MaxRefs \/ context.chars + 1 > MaxChars ->
            [context EXCEPT !.refs = @ + 1, !.left = @ \cup {s.ref}]
      [] OTHER -> [context EXCEPT !.refs = @ + 1, !.chars = @ + 1, !.included = @ \cup {s.ref}]

\* The role contract and the triggering event are in every prompt, whatever the budget.
Context(c) ==
    FoldLeft(Include,
             [refs |-> 2, chars |-> 2, included |-> {<<"role">>, <<"event", c.event>>},
              left |-> {}, hidden |-> {}],
             Sources(c))

----------------------------------------------------------------------------
(* What an output asks for.  An output is prose, or an envelope with       *)
(* intents; a tool call of another shape is taken for a tool plan.         *)

Normalised(intent) ==
    IF intent.type = "tool_call" /\ intent.tool
    THEN [intent EXCEPT !.type = "tool_plan",
                        !.risk = IF @ \in {"medium", "high"} THEN @ ELSE "low",
                        !.rollback = FALSE]
    ELSE IF intent.type = "tool_plan"
    THEN [intent EXCEPT !.risk = IF @ \in {"medium", "high"} THEN @ ELSE "low"]
    ELSE intent

IsIntent(intent) ==
    CASE intent.type = "handoff_request" -> intent.to # {} \/ intent.role # Nobody
      [] intent.type \in {"tool_plan", "memory_candidate", "no_action"} -> TRUE
      [] OTHER -> FALSE

\* extractJsonCandidates also finds the objects inside an envelope.  They are tried when it
\* is refused, and the first is a valid envelope without intents: nothing is asked for.
InnerEnvelope == {}

Envelope(output) ==
    LET intents == {Normalised(intent) : intent \in output.intents}
    IN [intents |-> IF \A intent \in intents : IsIntent(intent) THEN intents ELSE InnerEnvelope,
        errors |-> output.prose]

RiskRank(risk) ==
    CASE risk = "low" -> 1 [] risk = "medium" -> 2 [] risk = "high" -> 3 [] risk = "forbidden" -> 4

AllowanceRank(allowance) ==
    CASE allowance = "none" -> 0 [] allowance = "low" -> 1 [] allowance = "medium" -> 2
      [] allowance = "high_with_approval" -> 3

Verdict(a, plan) ==
    CASE ~Person(a).mayPlan \/ plan.risk = "forbidden" -> "deny"
      [] AllowanceRank(Person(a).risk) < RiskRank(plan.risk) ->
            IF plan.risk = "high" THEN "deny" ELSE "needs_human_approval"
      [] plan.risk = "high" -> "needs_human_approval"
      [] OTHER -> "allow"

PlanStatus(verdict) ==
    CASE verdict = "allow" -> "executed" [] verdict = "deny" -> "denied"
      [] verdict = "needs_human_approval" -> "proposed"

\* transitionHandoff; "refused" where it throws.
Transition(status, transition) ==
    CASE transition = "accept" /\ status = "requested" -> "accepted"
      [] transition = "complete" /\ status = "accepted" -> "completed"
      [] transition = "reject" /\ status = "requested" -> "rejected"
      [] transition = "expire" /\ status = "requested" -> "expired"
      [] transition = "cancel" /\ status \in {"requested", "accepted"} -> "cancelled"
      [] OTHER -> "refused"

Metrics ==
    [turnCount |-> Cardinality(started),
     agentToAgentTurnCount |-> Cardinality({c \in started : c.source # Nobody}),
     handoffCount |-> Len(handoffs),
     completedHandoffs |-> Cardinality({h \in DOMAIN handoffs : handoffs[h].status = "completed"}),
     humanInterventionCount |-> Len(SelectSeq(log, LAMBDA e : e.by = Human)),
     loopGuardTriggered |-> \E i \in DOMAIN log : log[i].type = "loop_guard_triggered"]

----------------------------------------------------------------------------
(* The channel.                                                            *)

Init ==
    /\ people \in DOMAIN Profiles
    /\ standing = [a \in Agents |-> "available"]
    /\ log = <<>>
    /\ pending = {}
    /\ chain = [status |-> "open", turns |-> 0, agentTurns |-> 0]
    /\ running = {}
    /\ started = {}
    /\ resting = {}
    /\ handoffs = <<>>
    /\ plans = <<>>
    /\ procedures = <<>>
    /\ changes = 0

HumanSays ==
    /\ Metrics.humanInterventionCount < MaxHuman
    /\ Len(log) < LogBound
    /\ \E m \in Messages :
        log' = Append(log, Event(Human, m.type, m.text, m.replyTo, m.to, Nobody, Len(log) > 0, TRUE))
    /\ pending' = pending \cup {Len(log) + 1}
    /\ UNCHANGED <<people, standing, chain, running, started, resting, handoffs, plans,
                   procedures, changes>>

LoopGuardEvent ==
    Event(Scheduler, "loop_guard_triggered", {}, Nobody, {}, Nobody, TRUE, TRUE)

Start(fresh) ==
    /\ running' = running \cup {[turn |-> c, context |-> Context(c)] : c \in fresh}
    /\ started' = started \cup fresh
    /\ chain' = [chain EXCEPT !.turns = @ + Cardinality(fresh),
                     !.agentTurns = @ + Cardinality({c \in fresh : c.source # Nobody})]
    /\ resting' = resting \cup {c.agent : c \in {c \in fresh : Person(c.agent).cools}}

\* Mutant: an event with a blocked candidate is kept until the guard lets it pass.
Schedule_Keeps(i) ==
    /\ i \in pending
    /\ \E confirmed \in BOOLEAN : \E asked \in {Candidates(i, confirmed)} :
        \E allowed \in {{c \in asked : Guard(c) = "allow"}} :
            /\ Start(allowed \ started)
            /\ pending' = IF allowed = asked THEN pending \ {i} ELSE pending
    /\ UNCHANGED <<people, standing, log, handoffs, plans, procedures, changes>>

Schedule(i) ==
    /\ i \in pending
    /\ pending' = pending \ {i}
    /\ Len(log) < LogBound
    /\ \E confirmed \in BOOLEAN : \E asked \in {Candidates(i, confirmed)} :
        \E allowed \in {{c \in asked : Guard(c) = "allow"}} :
            /\ Start(allowed \ started)
            /\ log' = IF allowed = asked THEN log ELSE Append(log, LoopGuardEvent)
    /\ UNCHANGED <<people, standing, handoffs, plans, procedures, changes>>

\* The pipeline delivers an event again.
Redelivered(i) ==
    /\ changes < MaxChanges
    /\ i \in DOMAIN log \ pending
    /\ pending' = pending \cup {i}
    /\ changes' = changes + 1
    /\ UNCHANGED <<people, standing, log, chain, running, started, resting, handoffs, plans,
                   procedures>>

NewHandoff == [status |-> "requested", accepted |-> FALSE, completed |-> FALSE]

NewPlan(a, intent) ==
    [by |-> a, risk |-> intent.risk, status |-> PlanStatus(Verdict(a, intent)), asked |-> FALSE]

\* createProceduralMemoryCandidate
NewProcedure(intent) == [role |-> intent.role, status |-> "candidate", good |-> 0, bad |-> 0]

\* recordProceduralMemoryUse, for each procedure that the prompt contained.
Used(context, ok) ==
    [k \in DOMAIN procedures |->
        IF <<"procedure", k>> \notin context.included THEN procedures[k]
        ELSE IF ok THEN [procedures[k] EXCEPT !.good = @ + 1]
        ELSE [procedures[k] EXCEPT !.bad = @ + 1]]

OfType(intents, type) == SetToSeq({intent \in intents : intent.type = type})

TurnEnds(r) ==
    /\ r \in running
    /\ running' = running \ {r}
    /\ Len(log) < LogBound
    /\ \E output \in Outputs :
        LET a == r.turn.agent
            intents == Envelope(output).intents
            asks == OfType(intents, "handoff_request")
            says == <<Event(a, output.type, output.text, Nobody, {}, Nobody, TRUE, output.public)>>
                \o [k \in DOMAIN asks |-> Event(a, "handoff_requested", {}, Nobody, asks[k].to,
                                                asks[k].role, TRUE, TRUE)]
        IN /\ log' = log \o says
           /\ pending' = pending \cup {Len(log) + k : k \in DOMAIN says}
           /\ handoffs' = handoffs \o [k \in DOMAIN asks |-> NewHandoff]
           /\ plans' = plans \o [k \in DOMAIN OfType(intents, "tool_plan") |->
                                    NewPlan(a, OfType(intents, "tool_plan")[k])]
           /\ procedures' = Used(r.context, TRUE) \o
                [k \in DOMAIN OfType(intents, "memory_candidate") |->
                    NewProcedure(OfType(intents, "memory_candidate")[k])]
    /\ UNCHANGED <<people, standing, chain, started, resting, changes>>

TurnFails(r) ==
    /\ r \in running
    /\ running' = running \ {r}
    /\ procedures' = Used(r.context, FALSE)
    /\ UNCHANGED <<people, standing, log, pending, chain, started, resting, handoffs, plans,
                   changes>>

CoolsDown(a) ==
    /\ a \in resting
    /\ resting' = resting \ {a}
    /\ UNCHANGED <<people, standing, log, pending, chain, running, started, handoffs, plans,
                   procedures, changes>>

HandoffMoves(k, transition) ==
    /\ k \in DOMAIN handoffs
    /\ LET status == Transition(handoffs[k].status, transition) IN
        /\ status # "refused"
        /\ handoffs' = [handoffs EXCEPT ![k] =
                [status |-> status, accepted |-> @.accepted \/ status = "accepted",
                 completed |-> @.completed \/ status = "completed"]]
    /\ UNCHANGED <<people, standing, log, pending, chain, running, started, resting, plans,
                   procedures, changes>>

PlanDecided(k) ==
    /\ k \in DOMAIN plans
    /\ plans[k].status = "proposed"
    /\ \E status \in {"executed", "denied"} :
        plans' = [plans EXCEPT ![k].status = status, ![k].asked = TRUE]
    /\ UNCHANGED <<people, standing, log, pending, chain, running, started, resting, handoffs,
                   procedures, changes>>

\* approveProceduralMemory
ProcedureApproved(k) ==
    /\ k \in DOMAIN procedures
    /\ procedures[k].status # "approved"
    /\ procedures' = [procedures EXCEPT ![k].status = "approved"]
    /\ UNCHANGED <<people, standing, log, pending, chain, running, started, resting, handoffs,
                   plans, changes>>

Switched ==
    /\ changes < MaxChanges
    /\ changes' = changes + 1
    /\ \/ /\ \E a \in Agents, s \in Standings : s # standing[a] /\ standing' = [standing EXCEPT ![a] = s]
          /\ UNCHANGED chain
       \/ /\ chain' = [chain EXCEPT !.status = IF @ = "open" THEN "paused" ELSE "open"]
          /\ UNCHANGED standing
    /\ UNCHANGED <<people, log, pending, running, started, resting, handoffs, plans, procedures>>

Working ==
    \/ \E i \in pending : Schedule(i)
    \/ \E r \in running : TurnEnds(r) \/ TurnFails(r)

Next ==
    \/ Working
    \/ HumanSays
    \/ \E i \in DOMAIN log : Redelivered(i)
    \/ \E a \in Agents : CoolsDown(a)
    \/ \E k \in DOMAIN handoffs, transition \in Transitions : HandoffMoves(k, transition)
    \/ \E k \in DOMAIN plans : PlanDecided(k)
    \/ \E k \in DOMAIN procedures : ProcedureApproved(k)
    \/ Switched

Fairness == WF_vars(Working)

Spec == Init /\ [][Next]_vars /\ Fairness

----------------------------------------------------------------------------
(* Agents cannot keep each other talking.  All candidates of an event are  *)
(* guarded against the same chain, so that a limit may be passed by as     *)
(* many turns as one event starts, and by no more, whoever mentions whom   *)
(* and however often an event is delivered; an agent answers an event      *)
(* once; and the metrics count what the chain counts.                      *)
TalkIsBounded ==
    /\ chain.turns <= MaxTurns + Cardinality(Agents) - 1
    /\ chain.agentTurns <= MaxAgentTurns + Cardinality(Agents) - 1
    /\ \A c, d \in started : c.event = d.event /\ c.agent = d.agent => c = d
    /\ Metrics.turnCount = chain.turns
    /\ Metrics.agentToAgentTurnCount = chain.agentTurns
    /\ Metrics.completedHandoffs <= Metrics.handoffCount

(* A prompt has the role and the trigger in it, no event that is private,  *)
(* no memory of somebody else and no procedure that nobody approved or     *)
(* that is another role's; each source is in it, hidden or left out, and   *)
(* the budget holds for all but the two required sections.                 *)
ContextsAreScoped ==
    \A r \in running :
        LET in == r.context.included IN
        /\ {<<"role">>, <<"event", r.turn.event>>} \subseteq in
        /\ \A i \in DOMAIN log : <<"event", i>> \in in => log[i].public
        /\ \A k \in DOMAIN Memories : <<"memory", k>> \in in =>
                Memories[k].owner = r.turn.agent /\ Memories[k].status = "approved"
        /\ \A k \in DOMAIN procedures : <<"procedure", k>> \in in =>
                /\ procedures[k].status = "approved"
                /\ procedures[k].role \in {Nobody, Person(r.turn.agent).key}
        /\ Cardinality(in) + Cardinality(r.context.left) + Cardinality(r.context.hidden)
                = r.context.refs
        /\ Cardinality(in) <= IF MaxChars < 2 THEN 2 ELSE MaxChars

(* What an agent asks for happens only with permission: a tool plan that   *)
(* ran without a person has a low or medium risk that the policy of its    *)
(* agent allows; and a handoff is completed only after it was accepted.    *)
WorkIsAuthorised ==
    /\ \A k \in DOMAIN plans : plans[k].status = "executed" =>
        \/ plans[k].asked
        \/ /\ Person(plans[k].by).mayPlan
           /\ plans[k].risk \in {"low", "medium"}
           /\ RiskRank(plans[k].risk) <= AllowanceRank(Person(plans[k].by).risk)
    /\ \A k \in DOMAIN handoffs :
        /\ handoffs[k].completed <=> handoffs[k].status = "completed"
        /\ handoffs[k].completed => handoffs[k].accepted
        /\ handoffs[k].status \in {"requested", "rejected", "expired"} => ~handoffs[k].accepted

TypeOK ==
    /\ standing \in [Agents -> Standings]
    /\ Len(log) < LogBound
    /\ \A i \in DOMAIN log : log[i].type \in EventTypes
    /\ pending \subseteq DOMAIN log
    /\ {r.turn : r \in running} \subseteq started
    /\ resting \subseteq Agents
    /\ \A k \in DOMAIN handoffs : handoffs[k].status \in HandoffStates

(* The talk comes to rest: when people stop writing, the agents stop too,  *)
(* without an event waiting for the scheduler and without a turn.          *)
AtRest == running = {} /\ pending = {}

ChannelComesToRest == <>[]AtRest
=============================================================================
