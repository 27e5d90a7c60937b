----------------------------- MODULE MCOwnerAccess -----------------------------
(***************************************************************************)
(* For TLC: the account of a person and its sessions, or what an owner has *)
(* to run agents with, or one run of an agent on the worker.  The three    *)
(* share nothing but the ids of the owner and of the chosen connection.    *)
(***************************************************************************)
EXTENDS ProviderAccess

CONSTANTS
    p1, n1, c1, c2, v1, o1, o2,
    People, Networks, Calls, Nobody, EmailLimit, IpLimit, Window, MaxCalls, MaxResets, MaxClock, MaxDeaths,
    r1, Runs, AgentVendors, Ports, Hosts, Replies, MaxAttempts, MaxDrafts, Whole, MaxFaults

VARIABLES
    area,                         \* which of the three is looked at
    users, sessions, attempts, buckets, admitted, reset, call, backend, lost, clock,
    calls, resets, deaths,
    host, activity, attempt, roots, trees, servers, touched, unremoved, unclean, faults

OnePerson == {p1}
OneNetwork == {n1}
TwoCalls == {c1, c2}
OneVendor == {v1}
TwoOps == {o1, o2}
OpenRuntimes == {"opencode", "deepseek"}
OpenCode == {"opencode"}

Acc == INSTANCE Accounts

Agent == INSTANCE AgentRuns WITH Vendors <- AgentVendors

OneRun == {r1}
ThreeVendors == {"codex", "opencode", "hermes"}
TwoPorts == {1, 2}

\* In a repository, outside of one, without a sandbox, and where it must be a container.
Host(sandboxed, isolation, repository) ==
    [sandboxed |-> sandboxed, isolation |-> isolation, containers |-> FALSE,
     repository |-> repository]
FourHosts == {Host(TRUE, "off", TRUE), Host(TRUE, "preferred", FALSE),
              Host(FALSE, "off", TRUE), Host(TRUE, "required", TRUE)}

\* No tool plans, or one of low and one of high risk.
Plan(risk, tools) == [type |-> "tool_plan", riskLevel |-> risk, calls |-> tools]
TwoReplies == {<< >>, <<Plan("low", <<"refused", "draft", "draft">>), Plan("high", <<"draft">>)>>}

ASSUME ConnectedConstants == v1 \in Vendors /\ "deepseek" \in Providers
ASSUME AccountConstants == Acc!AccountsAssumption
ASSUME AgentConstants == Agent!AgentRunsAssumption

accountVars == <<users, sessions, attempts, buckets, admitted, reset, call, backend, lost,
                 clock, calls, resets, deaths>>
agentVars == <<host, activity, attempt, roots, trees, servers, touched, unremoved, unclean,
               faults>>
allVars == <<area, vars, accountVars, agentVars>>

\* The owner has nothing yet, or one connection and its contact in the last period.
Connected == [provider |-> "deepseek", vendor |-> v1, valid |-> TRUE, live |-> TRUE, contacted |-> TRUE]
StartConnected ==
    /\ creds \in {<< >>, <<Connected>>}
    /\ agents = IF creds = << >> THEN << >>
                ELSE [n \in {<<v1, 0>>} |-> [provider |-> "opencode", connection |-> 1]]
    /\ period = IF creds = << >> THEN 0 ELSE MaxPeriod
    /\ modes = {} /\ pool = {}
    /\ quota = [k \in 0..MaxPeriod |-> 0]
    /\ granted = [k \in 0..MaxPeriod |-> 0]
    /\ op = [q \in Ops |-> Free]
    /\ crossed = {} /\ run = NoRun
    /\ ops = 0 /\ losses = 0

\* A worker is set up in every way for direct replies of agents that work on files.
SetUpOnce ==
    \A r \in Runs :
        activity[r].kind # "direct" \/ activity[r].vendor = "hermes" => host = Host(TRUE, "off", TRUE)

\* What the other two would start with does not matter.
OwnerInit ==
    /\ area \in {"account", "providers", "agents"}
    /\ Acc!Init /\ StartConnected /\ Agent!Init
    /\ area # "providers" => creds = << >>
    /\ area # "account" => backend = "memory"
    /\ SetUpOnce
    /\ area # "agents" => /\ host = Host(TRUE, "off", TRUE)
                          /\ \A r \in Runs : activity[r].kind = "direct" /\ activity[r].vendor = "codex"

OwnerNext ==
    \/ area = "account" /\ Acc!Next /\ UNCHANGED <<area, vars, agentVars>>
    \/ area = "providers" /\ Next /\ UNCHANGED <<area, accountVars, agentVars>>
    \/ area = "agents" /\ Agent!Next /\ UNCHANGED <<area, vars, accountVars>>

OwnerSpec ==
    /\ OwnerInit
    /\ [][OwnerNext]_allVars
    /\ \A r \in Runs :
          WF_allVars(area = "agents" /\ (Agent!Schedule(r) \/ Agent!TimesOut(r))
                     /\ UNCHANGED <<area, vars, accountVars>>)

\* Sessions, audit rows and admitted attempts agree in every order of overlapping
\* logins.  (login, signup, logout, enforceLoginLimit)
AccountsAreSound == area = "account" => Acc!AccountsAreSound

\* What a run of an agent leaves behind is explained, and its answer is earned.
\* (createAgentRunSandbox, execute, dispatchAgentActivity, executeDirectAgentActivity)
AgentRunsAreSound == area = "agents" => Agent!AgentRunsAreSound

\* Every activity ends, although nothing stops an agent that never does: Temporal gives
\* up its attempts one by one.  (singleAgentWorkflow, internalRuntimeAgentWorkflow)
AgentRunsEnd == \A r \in Runs : area = "agents" ~> Agent!Settled(r)
=============================================================================
