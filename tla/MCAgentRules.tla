---------------------------- MODULE MCAgentRules ----------------------------
(***************************************************************************)
(* Two sets of rules for the talk of agents, the harness of a channel and  *)
(* the sessions of actors, each with two agents: a behaviour follows one   *)
(* of them.                                                                *)
(***************************************************************************)
EXTENDS ChannelTurns, TLC

CONSTANTS
    a1, a2,
    Policies, Posts, Answers, Arrivals, Hour, Day, MaxTime, MaxArrivals, MaxCommands, TalkSlack

VARIABLES rules, policies, now, mail, session, runs, arrived, commands

Actor == INSTANCE ActorSessions

ASSUME ActorConstants == Actor!ActorAssumption

channelVars == <<people, standing, pending, chain, running, started, resting, handoffs, plans,
                 procedures, changes>>
actorVars == <<policies, now, mail, session, runs, arrived, commands>>
allVars == <<rules, log, channelVars, actorVars>>

TheAgents == {a1, a2}

RulesInit == rules \in {"channel", "actor"} /\ Init /\ Actor!Init
             /\ (rules = "actor" => people = 1) /\ (rules = "channel" => policies = 1)

ChannelNext == rules = "channel" /\ Next /\ UNCHANGED <<rules, actorVars>>
ActorNext == rules = "actor" /\ Actor!Next /\ UNCHANGED <<rules, channelVars>>

RulesSpec ==
    /\ RulesInit
    /\ [][ChannelNext \/ ActorNext]_allVars
    /\ WF_allVars(rules = "channel" /\ Working /\ UNCHANGED <<rules, actorVars>>)
    /\ WF_allVars(rules = "actor" /\ Actor!Working /\ UNCHANGED <<rules, channelVars>>)

----------------------------------------------------------------------------
(* The harness: names, mentions and outputs that reach every rule.         *)

Profile(key, names, bots, risk, cools) ==
    [key |-> key, names |-> names, roles |-> {key}, bots |-> bots,
     onHuman |-> TRUE, onRole |-> TRUE, onAll |-> TRUE, onReply |-> TRUE,
     onAgent |-> bots # "never", maxAlone |-> 4, maxPair |-> 3, cools |-> cools,
     readsOwn |-> TRUE, readsProcedures |-> TRUE, mayPlan |-> risk # "none", risk |-> risk]

Cast(bots) ==
    a1 :> Profile("engineer", {"ada"}, "handoff_only", "high_with_approval", FALSE)
    @@ a2 :> Profile("reviewer", {"bob", "ada2"}, bots, "low", TRUE)

TheProfiles == <<Cast("same_causal_chain")>>

Says(type, text, to) == [type |-> type, text |-> text, replyTo |-> Nobody, to |-> to]

TheMessages == {Says("user_message", {"ada"}, {}), Says("user_message", {"engineer", AllAgents}, {})}

Output(type, text, intents, public) ==
    [type |-> type, text |-> text, intents |-> intents, prose |-> FALSE, public |-> public]

Intent(type, to, role, risk) ==
    [type |-> type, to |-> to, role |-> role, risk |-> risk, tool |-> TRUE, effects |-> TRUE,
     rollback |-> TRUE]

TheOutputs ==
    {Output("critique_request", {"bob"}, {}, TRUE),
     Output("agent_message", {}, {Intent("handoff_request", {}, "engineer", "low")}, TRUE),
     Output("agent_message", {}, {Intent("tool_call", {}, Nobody, "high")}, FALSE),
     Output("agent_message", {}, {Intent("memory_candidate", {}, "reviewer", "low")}, TRUE)}

TheMemories == <<[owner |-> a1, status |-> "approved"], [owner |-> a2, status |-> "approved"]>>

----------------------------------------------------------------------------
(* The actors: one without heartbeats, one with a short day of work.       *)

Policy(role, bots, perHour) ==
    [roles |-> {role}, standing |-> "available", bots |-> bots, onHuman |-> TRUE, onRole |-> TRUE,
     onAll |-> TRUE, onAgent |-> bots # "never", cooldown |-> 0, maxTurns |-> 2, maxAgentTurns |-> 1,
     maxAlone |-> 4, maxPair |-> 3, enabled |-> perHour > 0, skipWhenBusy |-> TRUE, hours |-> <<1, 3>>,
     quiet |-> 2, interval |-> 1, maxPerHour |-> perHour, maxMail |-> 1, ackMax |-> 1, target |-> "channel"]

ThePolicies == <<a1 :> Policy("engineer", "explicit", 0) @@ a2 :> Policy("reviewer", "same_causal_chain", 1)>>

Post(by, type, mentions) ==
    [by |-> by, type |-> type, mentions |-> mentions, chained |-> TRUE, public |-> TRUE]
To(kind, target) == [kind |-> kind, target |-> target]

ThePosts == {Post(Human, "user_message", {To("all_agents", Nobody), To("role", "engineer")})}

TheAnswers ==
    {[ack |-> FALSE, length |-> 2, event |-> Post(Nobody, "agent_message", {To("agent", a1), To("agent", a2)})],
     [ack |-> TRUE, length |-> 1, event |-> Post(Nobody, "handoff", {To("role", "reviewer")})]}

Mail(a, kind, delay, lasts) == [agent |-> a, kind |-> kind, delay |-> delay, lasts |-> lasts]

TheArrivals == {Mail(a1, "manual_wake", 0, 0), Mail(a2, "memory_proposal", 1, 1),
                Mail(a2, "heartbeat_tick", 0, 0)}

----------------------------------------------------------------------------
RulesTypeOK == IF rules = "channel" THEN TypeOK ELSE Actor!TypeOK

(* Agents do not keep each other talking beyond the limits of their chain. *)
AgentTalkIsBounded == RulesTypeOK /\ IF rules = "channel" THEN TalkIsBounded ELSE Actor!TalkIsBounded

(* A turn is given and equipped as its policies allow: a prompt is scoped  *)
(* to its reader and what it asks for is authorised; a session wakes for   *)
(* its most urgent mail or within its budget of heartbeats.                *)
AgentTurnsAreSound ==
    IF rules = "channel" THEN ContextsAreScoped /\ WorkIsAuthorised
    ELSE Actor!HeartbeatsAreBudgeted /\ Actor!WakesAreJustified

AgentRulesHold == AgentTalkIsBounded /\ AgentTurnsAreSound

(* When people stop writing the agents come to rest and no mail is left    *)
(* lying that may wake its session.                                        *)
AgentTalkEnds ==
    <>[](IF rules = "channel" THEN AtRest ELSE Actor!AllServed)
=============================================================================
