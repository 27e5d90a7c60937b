----------------------------- MODULE ActorSessions -----------------------------
(***************************************************************************)
(* The rules of the agent actor runtime, agent-actor-runtime.ts: which     *)
(* agents an event of a channel asks for a turn, which guard skips it, how *)
(* a turn becomes mail, and when a session wakes for its mail or for a     *)
(* heartbeat.                                                              *)
(*                                                                         *)
(* The rules are pure and no workflow calls them yet.  The session loop    *)
(* around them is external, as the rules expect it: it decides when no run *)
(* is active, records a run, claims the selected mail, marks the session   *)
(* running and, when the run has ended, idle; mail is unique by its dedupe *)
(* key.  Time passes in ticks.                                             *)
(***************************************************************************)
EXTENDS Integers, Sequences, FiniteSets, SequencesExt

CONSTANTS
    Agents,
    Policies,      \* trigger and heartbeat policies of the agents, a sequence of what they may be
    Posts,         \* what a human may post
    Answers,       \* what an agent may answer
    Arrivals,      \* other mail: agent, kind, and the ticks until it is available and it expires
    Hour,          \* ticks of an hour
    Day,           \* ticks of a day
    MaxTime,       \* bound on the clock
    MaxHuman,      \* bound on posts of people
    MaxArrivals,   \* bound on other mail
    MaxCommands,   \* bound on commands to sessions and on runs that fail or wait
    TalkSlack,     \* turns that may wait in mailboxes when the budget is used up
    LogBound       \* longer than the log can be; stops a wrong guard, not a right one

ActorAssumption ==
    /\ IsFiniteSet(Agents) /\ Agents # {}
    /\ Hour \in Nat \ {0} /\ Day \in Nat \ {0} /\ MaxTime \in Nat
    /\ MaxHuman \in Nat /\ MaxArrivals \in Nat /\ MaxCommands \in Nat /\ TalkSlack \in Nat /\ LogBound \in Nat

VARIABLES
    policies,   \* which policies the participants have
    now,
    log,        \* authors of the events of the channel, in order
    mail,       \* queued mailbox events of all sessions, in the order they were created
    session,    \* status, lastWakeAt and lastHeartbeatAt of each agent's session
    runs,       \* wake runs: the active ones and those that began in the last hour
    arrived, commands

vars == <<policies, now, log, mail, session, runs, arrived, commands>>

Policy(a) == Policies[policies][a]

Human == "human"
Nobody == "nobody"
Never == -1

SessionStates == {"idle", "running", "waiting", "sleeping", "stopped"}
MailKinds == {"user_message", "agent_message", "handoff_artifact", "tool_receipt",
              "memory_proposal", "heartbeat_tick", "system_notice", "manual_wake"}

----------------------------------------------------------------------------
(* Who is asked.                                                           *)

ReasonRank(reason) ==
    CASE reason = "human_mention" -> 100 [] reason = "handoff" -> 95
      [] reason = "agent_mention" -> 80 [] reason = "role_mention" -> 70
      [] reason = "all_agents_mention" -> 50

ByAgent(e) == e.by \in Agents

\* resolveTurnReasonForMention, "none" where it is null.
TurnReason(e, a, m) ==
    CASE m.kind = "agent" ->
            IF m.target # a THEN "none"
            ELSE IF e.type = "handoff" THEN "handoff"
            ELSE IF e.by = Human /\ Policy(a).onHuman THEN "human_mention"
            ELSE IF ByAgent(e) /\ Policy(a).onAgent THEN "agent_mention"
            ELSE "none"
      [] m.kind = "role" ->
            IF \/ m.target \notin Policy(a).roles
               \/ ~Policy(a).onRole
               \/ (ByAgent(e) /\ ~Policy(a).onAgent)
            THEN "none"
            ELSE IF e.type = "handoff" THEN "handoff" ELSE "role_mention"
      [] m.kind = "all_agents" ->
            IF ~Policy(a).onAll \/ (ByAgent(e) /\ ~Policy(a).onAgent)
            THEN "none" ELSE "all_agents_mention"

BotsMayMention(e, a, reason) ==
    \/ reason = "handoff"
    \/ Policy(a).bots = "explicit"
    \/ Policy(a).bots = "same_causal_chain" /\ e.chained

Reasons(e, a) ==
    {reason \in {TurnReason(e, a, m) : m \in e.mentions} \ {"none"} :
        ByAgent(e) => BotsMayMention(e, a, reason)}

Asked(e) ==
    IF ~e.public THEN {} ELSE {a \in Agents \ {e.by} : Reasons(e, a) # {}}

Reason(e, a) ==
    CHOOSE reason \in Reasons(e, a) :
        \A other \in Reasons(e, a) : ReasonRank(other) <= ReasonRank(reason)

----------------------------------------------------------------------------
(* Who is skipped.                                                         *)

AgentEvents == SelectSeq(log, LAMBDA by : by \in Agents)

SinceHuman ==
    LET last == SelectLastInSeq(log, LAMBDA by : by = Human)
    IN SelectSeq(SubSeq(log, last + 1, Len(log)), LAMBDA by : by \in Agents)

PairTalk(a, b) ==
    Cardinality({k \in 1..Len(SinceHuman) :
        \A j \in k..Len(SinceHuman) : SinceHuman[j] \in {a, b}})

CoolingDown(a) ==
    \E r \in runs : r.agent = a /\ now - r.start < Policy(a).cooldown

Skipped(e, a) ==
    \/ Policy(a).standing \in {"muted", "offline"}
    \/ CoolingDown(a)
    \/ Len(AgentEvents) >= Policy(a).maxTurns
    \/ ByAgent(e) /\ Len(AgentEvents) >= Policy(a).maxAgentTurns
    \/ ByAgent(e) /\ Len(SinceHuman) >= Policy(a).maxAlone
    \/ ByAgent(e) /\ PairTalk(e.by, a) >= Policy(a).maxPair

----------------------------------------------------------------------------
(* Mail.                                                                   *)

KindRank(kind) ==
    CASE kind = "user_message" -> 100 [] kind = "manual_wake" -> 95
      [] kind = "handoff_artifact" -> 90 [] kind = "agent_message" -> 85
      [] kind = "tool_receipt" -> 80 [] kind = "memory_proposal" -> 50
      [] kind = "system_notice" -> 40 [] kind = "heartbeat_tick" -> 10

Letter(a, kind, priority, available, expires) ==
    [agent |-> a, kind |-> kind, priority |-> priority, available |-> available, expires |-> expires]

\* resolveMailboxKindForChannelTurn
TurnKind(e) ==
    IF e.type = "handoff" THEN "handoff_artifact"
    ELSE IF ByAgent(e) THEN "agent_message" ELSE "user_message"

TurnLetter(e, a) == Letter(a, TurnKind(e), ReasonRank(Reason(e, a)), now, Never)

\* A priority of zero is the default of the kind.
Rank(m) == IF m.priority = 0 THEN KindRank(m.kind) ELSE m.priority

\* sortAgentActorMailboxEvents, by the places of the mail.
Before(j, k) ==
    \/ Rank(mail[j]) > Rank(mail[k])
    \/ Rank(mail[j]) = Rank(mail[k]) /\ j < k

Available(a) ==
    {k \in DOMAIN mail :
        /\ mail[k].agent = a
        /\ mail[k].available <= now
        /\ mail[k].expires = Never \/ mail[k].expires > now}

Ticks(a) == {k \in Available(a) : mail[k].kind = "heartbeat_tick"}

Urgent(a) ==
    {k \in Available(a) \ Ticks(a) :
        session[a].status = "sleeping" => mail[k].kind \in {"manual_wake", "user_message"}}

----------------------------------------------------------------------------
(* Waking.                                                                 *)

WakeReason(kind) ==
    CASE kind = "heartbeat_tick" -> "heartbeat_due" [] kind = "memory_proposal" -> "memory_review_due"
      [] OTHER -> kind

First(places, count) ==
    {k \in places : Cardinality({j \in places : Before(j, k)}) < count}

Busy(status) == status \in {"waking", "running", "waiting"}

\* A window that starts at midnight is left out: midnight is hour 0 or hour 24, as the
\* Intl library of the platform has it.
InActiveHours(a) ==
    LET hours == Policy(a).hours
        time == now % Day
    IN \/ hours = <<>>
       \/ hours[1] < hours[2] /\ hours[1] <= time /\ time < hours[2]
       \/ hours[1] >= hours[2] /\ (hours[1] <= time \/ time < hours[2])

HourlyRuns(a) ==
    Cardinality({r \in runs : r.agent = a /\ r.reason = "heartbeat_due" /\ r.start >= now - Hour})

\* Mutant: a heartbeat looks at the last heartbeat, not at the last wake.
HeartbeatDue_NotQuiet(a) ==
    /\ Policy(a).enabled
    /\ ~(Policy(a).skipWhenBusy /\ Busy(session[a].status))
    /\ InActiveHours(a)
    /\ session[a].lastBeat # Never => now - session[a].lastBeat >= Policy(a).interval
    /\ HourlyRuns(a) < Policy(a).maxPerHour

HeartbeatDue(a) ==
    /\ Policy(a).enabled
    /\ ~(Policy(a).skipWhenBusy /\ Busy(session[a].status))
    /\ InActiveHours(a)
    /\ session[a].lastWake # Never => now - session[a].lastWake >= Policy(a).quiet
    /\ session[a].lastBeat # Never => now - session[a].lastBeat >= Policy(a).interval
    /\ HourlyRuns(a) < Policy(a).maxPerHour

Skip == [wake |-> FALSE, reason |-> "none", mail |-> {}, emits |-> FALSE]

MailWake(urgent, count) ==
    LET kind == mail[CHOOSE k \in urgent : \A j \in urgent \ {k} : Before(k, j)].kind
    IN [wake |-> TRUE, reason |-> WakeReason(kind), mail |-> First(urgent, count),
        emits |-> kind # "memory_proposal"]

\* selectAgentActorWakeDecision
Decision(a) ==
    CASE session[a].status = "stopped" -> Skip
      [] Urgent(a) # {} -> MailWake(Urgent(a), Policy(a).maxMail)
      [] session[a].status = "sleeping" -> Skip
      [] HeartbeatDue(a) ->
            [wake |-> TRUE, reason |-> "heartbeat_due", mail |-> Ticks(a),
             emits |-> Policy(a).target # "none"]
      [] OTHER -> Skip

Letters(places) == {mail[k] : k \in places}

\* createAgentActorWakeRun; while it is active it tells what it took and what it left.
WakeRun(a, decision) ==
    [agent |-> a, reason |-> decision.reason, emits |-> decision.emits, start |-> now, active |-> TRUE,
     took |-> Letters(decision.mail), left |-> Letters(Urgent(a) \ decision.mail),
     before |-> session[a].status]

\* interpretAgentActorHeartbeatResponse: a short acknowledgement is not shown.
Shown(run, answer) ==
    run.emits /\ (run.reason = "heartbeat_due" =>
        IF answer.ack THEN answer.length > Policy(run.agent).ackMax ELSE answer.length > 0)

----------------------------------------------------------------------------
(* The channel and the session loops.                                      *)

Init ==
    /\ policies \in DOMAIN Policies
    /\ now = 0
    /\ log = <<>>
    /\ mail = <<>>
    /\ session = [a \in Agents |-> [status |-> "idle", lastWake |-> Never, lastBeat |-> Never]]
    /\ runs = {}
    /\ arrived = 0
    /\ commands = 0

\* An event is posted: candidates, guard and mail.
Deliveries(e) == SetToSeq({TurnLetter(e, a) : a \in {a \in Asked(e) : ~Skipped(e, a)}})

HumanPosts ==
    /\ Len(log) - Len(AgentEvents) < MaxHuman
    /\ \E e \in Posts : log' = Append(log, Human) /\ mail' = mail \o Deliveries(e)
    /\ UNCHANGED <<policies, now, session, runs, arrived, commands>>

\* createAgentActorHeartbeatTickEvent, and the mail of tools, memory and people.
Arrives ==
    /\ arrived < MaxArrivals
    /\ arrived' = arrived + 1
    /\ \E n \in Arrivals :
        mail' = Append(mail, Letter(n.agent, n.kind, IF n.kind = "heartbeat_tick" THEN 10 ELSE 0,
                                    now + n.delay, IF n.lasts = 0 THEN Never ELSE now + n.lasts))
    /\ UNCHANGED <<policies, now, log, session, runs, commands>>

Active(a) == {r \in runs : r.agent = a /\ r.active}

Without(places) ==
    LET kept == SelectSeq([k \in DOMAIN mail |-> k], LAMBDA k : k \notin places)
    IN [k \in DOMAIN kept |-> mail[kept[k]]]

\* markAgentActorRunning
Decide(a) ==
    /\ Active(a) = {}
    /\ session' = [session EXCEPT ![a].status = "running", ![a].lastWake = now]
    /\ \E decision \in {Decision(a)} :
        /\ decision.wake
        /\ runs' = runs \cup {WakeRun(a, decision)}
        /\ mail' = Without(decision.mail)
    /\ UNCHANGED <<policies, now, log, arrived, commands>>

Recent(all) == {r \in all : r.active \/ r.start >= now - Hour}

Ended(run) == Recent((runs \ {run}) \cup {[run EXCEPT !.active = FALSE, !.took = {}, !.left = {}, !.before = "idle"]})

\* markAgentActorHeartbeatObserved and markAgentActorIdle
RunEnds(run) ==
    /\ run.active
    /\ session' = [session EXCEPT
            ![run.agent].status = "idle",
            ![run.agent].lastBeat = IF run.reason = "heartbeat_due" THEN now ELSE @]
    /\ Len(log) < LogBound
    /\ runs' = Ended(run)
    /\ \E answer \in Answers :
        IF Shown(run, answer)
        THEN /\ log' = Append(log, run.agent)
             /\ mail' = mail \o Deliveries([answer.event EXCEPT !.by = run.agent])
        ELSE UNCHANGED <<log, mail>>
    /\ UNCHANGED <<policies, now, arrived, commands>>

\* The run fails, or it waits for a person and the loop goes on deciding.
RunStops(run) ==
    /\ commands < MaxCommands
    /\ commands' = commands + 1
    /\ runs' = Ended(run)
    /\ \E status \in {"idle", "waiting"} : session' = [session EXCEPT ![run.agent].status = status]
    /\ UNCHANGED <<policies, now, log, mail, arrived>>

Command(a) ==
    /\ commands < MaxCommands
    /\ Active(a) = {}
    /\ session[a].status # "stopped"
    /\ \E status \in {"sleeping", "stopped"} : session' = [session EXCEPT ![a].status = status]
    /\ commands' = commands + 1
    /\ UNCHANGED <<policies, now, log, mail, runs, arrived>>

Tick ==
    /\ now < MaxTime
    /\ now' = now + 1
    /\ UNCHANGED <<policies, log, mail, session, runs, arrived, commands>>

Acting(a) == Decide(a) \/ \E run \in Active(a) : RunEnds(run)

Next ==
    \/ HumanPosts
    \/ Arrives
    \/ Tick
    \/ \E a \in Agents : Acting(a) \/ Command(a) \/ \E run \in Active(a) : RunStops(run)

Working == \E a \in Agents : Acting(a)

Fairness == WF_vars(Working)

Spec == Init /\ [][Next]_vars /\ Fairness

----------------------------------------------------------------------------
(* Heartbeats cost at most what the policy grants, whatever mail comes in  *)
(* between: within any hour a session begins at most maxWakeRunsPerHour    *)
(* heartbeat runs, none of them within the quiet window after another run  *)
(* and none where heartbeats are off.                                      *)
HeartbeatsAreBudgeted ==
    \A r \in runs : r.reason = "heartbeat_due" =>
        /\ Cardinality({q \in runs : /\ q.agent = r.agent /\ q.reason = "heartbeat_due"
                                     /\ q.start \in (r.start - Hour)..r.start})
                <= Policy(r.agent).maxPerHour
        /\ \A q \in runs : q.agent = r.agent /\ q.start < r.start =>
                r.start - q.start >= Policy(r.agent).quiet
        /\ Policy(r.agent).enabled

(* A session that wakes takes its most urgent mail: nothing that it leaves *)
(* comes before what it takes, what it takes is available and has not      *)
(* expired, a sleeping session is woken by a person or by hand only, and a *)
(* stopped one by nothing.                                                 *)
WakesAreJustified ==
    \A r \in runs : r.active =>
        /\ r.before # "stopped"
        /\ r.before = "sleeping" => \E m \in r.took : m.kind \in {"manual_wake", "user_message"}
        /\ \A m \in r.took :
            /\ m.agent = r.agent
            /\ m.available <= r.start
            /\ m.expires # Never => m.expires > r.start
            /\ \A other \in r.left : m.kind # "heartbeat_tick" /\ Rank(other) <= Rank(m)

(* Agents cannot keep each other talking: the budget of the chain counts   *)
(* what was posted, so that turns that wait in mailboxes may pass it, at   *)
(* most as many as other mail and the posts of people have asked for.      *)
TalkIsBounded ==
    \A a \in Agents : Len(AgentEvents) <= Policy(a).maxTurns + TalkSlack

TypeOK ==
    /\ now \in 0..MaxTime
    /\ Len(log) < LogBound
    /\ \A k \in DOMAIN mail : mail[k].kind \in MailKinds
    /\ \A a \in Agents : session[a].status \in SessionStates

(* Mail is served: when nothing more is sent, every session that is not    *)
(* stopped has taken all the mail that may wake it, and no run is active.  *)
AllServed ==
    \A a \in Agents : Active(a) = {} /\ (Urgent(a) = {} \/ session[a].status = "stopped")

MailIsServed == <>[]AllServed
=============================================================================
