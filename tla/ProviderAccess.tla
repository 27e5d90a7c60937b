----------------------------- MODULE ProviderAccess -----------------------------
(***************************************************************************)
(* What one owner has in one workspace to run agents with: model           *)
(* connections (rows of provider_credentials), the agent contact each of   *)
(* them brings, the agents the owner makes, the platform's own pool and    *)
(* modes, the platform quota, and the credential the worker picks for a    *)
(* run.  Requests overlap; every step is one statement, or one transaction *)
(* from its row lock to its COMMIT, and what a request has read it keeps.  *)
(***************************************************************************)
EXTENDS Naturals, Sequences, FiniteSets, FiniteSetsExt

CONSTANTS
    Ops,          \* requests that can be in progress at the same time
    Nothing,      \* NULL
    Vendors,      \* what contacts and agents are named after
    Providers,    \* providers of the connections asked for
    Platform,     \* those of them the platform's pool and modes are asked for
    NameTries,    \* inserts CustomAgentsService.create tries: 5 in the code
    QuotaLimit,   \* units of one period under the policy of the provider
    MaxOps,       \* bound on requests
    MaxUnits,     \* bound on the units of one request
    MaxPeriod,    \* bound on quota periods
    MaxLosses     \* bound on requests that fail half way

ASSUME ProviderAssumption ==
    /\ NameTries \in Nat \ {0} /\ QuotaLimit \in Nat \ {0}
    /\ MaxOps \in Nat /\ MaxUnits \in Nat /\ MaxPeriod \in Nat /\ MaxLosses \in Nat
    /\ Platform \subseteq Providers
    /\ Providers \subseteq {"opencode", "deepseek", "codex", "claude-code", "hermes", "openclaw"}

VARIABLES
    creds,      \* provider_credentials in the order of their INSERTs
    agents,     \* custom_agents, by name
    modes,      \* providers with a row in workspace_provider_credential_modes
    pool,       \* providers with an active row in credential_pool_entries
    quota,      \* quota[k]: consumed_units of period k, 0 without a row
    granted,    \* history: units that consumePlatformQuota has granted in period k
    op,         \* op[q]: what request q has still to do
    crossed,    \* history: vendors two of whose connections were made at the same time
    run,        \* history: the last credential the worker looked for
    period, ops, losses

vars == <<creds, agents, modes, pool, quota, granted, op, crossed, run, period, ops, losses>>

CredentialIds == Nat \ {0}
Credential == [provider : Providers, vendor : Vendors, valid : BOOLEAN,
               live : BOOLEAN, contacted : BOOLEAN]

\* An agent's name: what was asked for, and the number that makes it a free one.
Names == Vendors \X (0..MaxOps)
\* A deepseek contact runs on opencode, asked for or not.
AgentRow == [provider : Providers \cup {"opencode"}, connection : CredentialIds]

Free == [at |-> "free", provider |-> Nothing, vendor |-> Nothing, connection |-> 0,
         occupied |-> {}, tries |-> 0, nested |-> FALSE, units |-> 0, since |-> 0]

NoRun == [own |-> 0, family |-> {}, chosen |-> 0, had |-> {}]

TypeOK ==
    /\ creds \in Seq(Credential)
    /\ DOMAIN agents \subseteq Names /\ \A n \in DOMAIN agents : agents[n] \in AgentRow
    /\ modes \subseteq Platform /\ pool \subseteq Platform
    /\ quota \in [0..MaxPeriod -> Nat] /\ granted \in [0..MaxPeriod -> Nat]
    /\ \A q \in Ops : op[q].at \in {"free", "validated", "contact", "names", "insert",
                                    "mode", "lock", "consume",
                                    "prefer", "latest", "legacy"}
    /\ crossed \subseteq Vendors
    /\ period \in 0..MaxPeriod

Init ==
    /\ creds = << >> /\ agents = << >>
    /\ modes = {} /\ pool = {}
    /\ quota = [k \in 0..MaxPeriod |-> 0]
    /\ granted = [k \in 0..MaxPeriod |-> 0]
    /\ op = [q \in Ops |-> Free]
    /\ crossed = {} /\ run = NoRun
    /\ period = 0 /\ ops = 0 /\ losses = 0

Ask(q, r) ==
    /\ op[q] = Free /\ ops < MaxOps
    /\ ops' = ops + 1
    /\ op' = [op EXCEPT ![q] = r]
    /\ UNCHANGED <<period, losses>>

Go(q, at) == op' = [op EXCEPT ![q].at = at] /\ UNCHANGED <<period, ops, losses>>
Finish(q) == op' = [op EXCEPT ![q] = Free] /\ UNCHANGED <<period, ops, losses>>

Usable(i) == i \in DOMAIN creds /\ creds[i].live /\ creds[i].valid

\* Only these runtimes become agent contacts.  (resolveRuntimeKindForCredential)
HasRuntime(provider) == provider \in {"codex", "claude-code", "deepseek", "opencode"}

\* A deepseek contact keeps its provider's runtime: it runs on opencode.
RuntimeOf(provider) == IF provider = "deepseek" THEN "opencode" ELSE provider

-----------------------------------------------------------------------------
(***************************************************************************)
(* Model connections                                                       *)
(***************************************************************************)
\* create: the provider accepts the key, or the request is refused and leaves nothing.
AskConnection(q, p, v) ==
    /\ Ask(q, [Free EXCEPT !.at = "validated", !.provider = p, !.vendor = v])
    /\ UNCHANGED <<creds, agents, modes, pool, quota, granted, crossed, run>>

\* CredentialService.create asks the provider once more and stores its answer,
\* whatever it is.  Another connection of the vendor may still be without a contact.
InsertCredential(q, valid) ==
    /\ op[q].at = "validated"
    /\ creds' = Append(creds, [provider |-> op[q].provider, vendor |-> op[q].vendor, valid |-> valid,
                               live |-> TRUE, contacted |-> FALSE])
    /\ op' = [op EXCEPT ![q].at = "contact", ![q].connection = Len(creds) + 1]
    /\ crossed' = crossed \cup
           {op[r].vendor : r \in {x \in Ops \ {q} : op[x].at = "contact" /\ op[x].vendor = op[q].vendor}}
    /\ UNCHANGED <<agents, modes, pool, quota, granted, run, period, ops, losses>>

\* Mutant: an agent that has the name already keeps its connection.
ContactRow_Kept(name, row) == IF name \in DOMAIN agents THEN agents[name] ELSE row

\* ON CONFLICT (owner_user_id, workspace_id, name) DO UPDATE: an agent of that name,
\* the owner's own included, becomes the contact.
ContactRow(name, row) == row

\* upsertAgentContactForCredential, in a statement of its own.
UpsertContact(q) ==
    /\ op[q].at = "contact"
    /\ LET i == op[q].connection
           name == <<op[q].vendor, 0>>
           row == [provider |-> RuntimeOf(op[q].provider), connection |-> i]
       IN  IF creds[i].valid /\ HasRuntime(op[q].provider)
           THEN /\ agents' = [n \in DOMAIN agents \cup {name} |->
                                 IF n = name THEN ContactRow(name, row) ELSE agents[n]]
                /\ creds' = [creds EXCEPT ![i].contacted = TRUE]
           ELSE UNCHANGED <<agents, creds>>
    /\ Finish(q)
    /\ UNCHANGED <<modes, pool, quota, granted, crossed, run>>

\* revoke deletes the row; agents keep the id.
RevokeCredential(i) ==
    /\ i \in DOMAIN creds /\ creds[i].live
    /\ creds' = [creds EXCEPT ![i].live = FALSE]
    /\ UNCHANGED <<agents, modes, pool, quota, granted, op, crossed, run, period, ops, losses>>

-----------------------------------------------------------------------------
(***************************************************************************)
(* Agents of the owner's own                                               *)
(***************************************************************************)
\* The connection runs agents of this provider.
IsCompatible(credentialProvider, agentProvider) ==
    \/ credentialProvider = agentProvider
    \/ agentProvider = "opencode" /\ credentialProvider = "deepseek"

\* assertUsableModelConnection reads the connection and takes no lock.  nested: the
\* agent is made inside the transaction of addTeammate.
AskAgent(q, v, p, i, nested) ==
    /\ Usable(i) /\ IsCompatible(creds[i].provider, p)
    /\ Ask(q, [Free EXCEPT !.at = "names", !.provider = p, !.vendor = v, !.connection = i,
                           !.nested = nested])
    /\ UNCHANGED <<creds, agents, modes, pool, quota, granted, crossed, run>>

ListNames(q) ==
    /\ op[q].at = "names"
    /\ op' = [op EXCEPT ![q].at = "insert", ![q].occupied = DOMAIN agents]
    /\ UNCHANGED <<creds, agents, modes, pool, quota, granted, crossed, run, period, ops, losses>>

\* The name itself, or the name with the smallest number nobody was seen to have.
AvailableName(v, occupied) ==
    <<v, Min({k \in 0..MaxOps : <<v, k>> \notin occupied})>>

\* A duplicate name: one more try with the name marked as taken, and a last one after
\* the loop.  Inside a transaction the duplicate has aborted it: the next statement
\* fails whatever the name.
Refuse(q, name) ==
    IF op[q].nested \/ op[q].tries = NameTries THEN Finish(q)
    ELSE /\ op' = [op EXCEPT ![q].tries = @ + 1, ![q].occupied = @ \cup {name}]
         /\ UNCHANGED <<period, ops, losses>>

InsertAgent(q) ==
    /\ op[q].at = "insert"
    /\ LET name == AvailableName(op[q].vendor, op[q].occupied)
           row == [provider |-> op[q].provider, connection |-> op[q].connection]
       IN  IF name \in DOMAIN agents
           THEN Refuse(q, name) /\ UNCHANGED agents
           ELSE /\ agents' = [n \in DOMAIN agents \cup {name} |-> IF n = name THEN row ELSE agents[n]]
                /\ Finish(q)
    /\ UNCHANGED <<creds, modes, pool, quota, granted, crossed, run>>

-----------------------------------------------------------------------------
(***************************************************************************)
(* The platform's pool, its modes and its quota                            *)
(***************************************************************************)
\* create of the pool: validated, then inserted; nothing takes an entry away.
AddPoolEntry(p) ==
    /\ ops < MaxOps
    /\ ops' = ops + 1
    /\ pool' = pool \cup {p}
    /\ UNCHANGED <<creds, agents, modes, quota, granted, op, crossed, run, period, losses>>

\* Mutant: the mode is taken without looking at the pool.
PlatformAllowed_Always(p) == TRUE

\* assertPlatformManagedModeAllowed; every provider has a quota policy.
PlatformAllowed(p) == p \in pool

AskPlatformMode(q, p) ==
    /\ PlatformAllowed(p)
    /\ Ask(q, [Free EXCEPT !.at = "mode", !.provider = p])
    /\ UNCHANGED <<creds, agents, modes, pool, quota, granted, crossed, run>>

InsertMode(q) ==
    /\ op[q].at = "mode"
    /\ modes' = modes \cup {op[q].provider}
    /\ Finish(q)
    /\ UNCHANGED <<creds, agents, pool, quota, granted, crossed, run>>

DeleteMode(p) ==
    /\ p \in modes
    /\ modes' = modes \ {p}
    /\ UNCHANGED <<creds, agents, pool, quota, granted, op, crossed, run, period, ops, losses>>

\* consumePlatformQuota takes its period from the clock before it begins.
AskQuota(q, units) ==
    /\ Ask(q, [Free EXCEPT !.at = "lock", !.units = units, !.since = period])
    /\ UNCHANGED <<creds, agents, modes, pool, quota, granted, crossed, run>>

\* Mutant: the row is read without FOR UPDATE.
PeriodLocked_Never(k) == FALSE

\* Somebody is between the row of period k, inserted or locked, and the COMMIT.
PeriodLocked(k) == \E q \in Ops : op[q].at = "consume" /\ op[q].since = k

\* INSERT ... ON CONFLICT DO NOTHING, SELECT ... FOR UPDATE and the check; a row this
\* transaction has inserted goes away with its ROLLBACK.
LockPeriod(q) ==
    /\ op[q].at = "lock" /\ ~PeriodLocked(op[q].since)
    /\ IF quota[op[q].since] + op[q].units > QuotaLimit THEN Finish(q) ELSE Go(q, "consume")
    /\ UNCHANGED <<creds, agents, modes, pool, quota, granted, crossed, run>>

ConsumeUnits(q) ==
    /\ op[q].at = "consume"
    /\ quota' = [quota EXCEPT ![op[q].since] = @ + op[q].units]
    /\ granted' = [granted EXCEPT ![op[q].since] = @ + op[q].units]
    /\ Finish(q)
    /\ UNCHANGED <<creds, agents, modes, pool, crossed, run>>

-----------------------------------------------------------------------------
(***************************************************************************)
(* The credential of a run                                                 *)
(***************************************************************************)
\* The worker starts an agent: createPhaseARuntimeExecution.
AskRun(q, n) ==
    /\ n \in DOMAIN agents
    /\ Ask(q, [Free EXCEPT !.at = "prefer", !.provider = RuntimeOf(agents[n].provider),
                           !.connection = agents[n].connection, !.since = Len(creds)])
    /\ UNCHANGED <<creds, agents, modes, pool, quota, granted, crossed, run>>

\* Connections of these providers that can be used now.
UsableOf(providers) == {i \in DOMAIN creds : Usable(i) /\ creds[i].provider \in providers}
Family(provider) == IF provider = "opencode" THEN {"opencode", "deepseek"} ELSE {provider}

\* The run has its credential, 0 for the error that there is none.
Take(q, i) ==
    /\ run' = [own |-> op[q].connection, family |-> Family(op[q].provider), chosen |-> i,
               had |-> {j \in UsableOf(Family(op[q].provider)) : j <= op[q].since}]
    /\ Finish(q)

\* Mutant: the newest connection is taken, whoever the agent's own is.
PreferOwn_Never(q) == Go(q, "latest") /\ UNCHANGED run

\* selectPreferredByokCredential: the agent's own connection while it is there.
PreferOwn(q) ==
    IF op[q].connection \in UsableOf(Family(op[q].provider))
    THEN Take(q, op[q].connection)
    ELSE Go(q, "latest") /\ UNCHANGED run

\* The newest connection of the provider itself.
TakeLatest(q) ==
    LET own == UsableOf({op[q].provider})
    IN  IF own # {} THEN Take(q, Max(own))
        ELSE IF op[q].provider = "opencode" THEN Go(q, "legacy") /\ UNCHANGED run
        ELSE Take(q, 0)

\* selectLatestLegacyDeepSeekCredential
TakeLegacy(q) ==
    LET old == UsableOf({"deepseek"}) IN Take(q, IF old = {} THEN 0 ELSE Max(old))

SelectCredential(q) ==
    /\ \/ op[q].at = "prefer" /\ PreferOwn(q)
       \/ op[q].at = "latest" /\ TakeLatest(q)
       \/ op[q].at = "legacy" /\ TakeLegacy(q)
    /\ UNCHANGED <<creds, agents, modes, pool, quota, granted, crossed>>

-----------------------------------------------------------------------------
\* A statement fails or the process stops; what is committed stays.
OpDies(q) ==
    /\ op[q] # Free /\ losses < MaxLosses
    /\ losses' = losses + 1
    /\ op' = [op EXCEPT ![q] = Free]
    /\ UNCHANGED <<creds, agents, modes, pool, quota, granted, crossed, run, period, ops>>

NextPeriod ==
    /\ period < MaxPeriod
    /\ period' = period + 1
    /\ UNCHANGED <<creds, agents, modes, pool, quota, granted, op, crossed, run, ops, losses>>

Serve(q) ==
    \/ \E valid \in BOOLEAN : InsertCredential(q, valid)
    \/ UpsertContact(q) \/ ListNames(q) \/ InsertAgent(q)
    \/ InsertMode(q) \/ LockPeriod(q) \/ ConsumeUnits(q) \/ SelectCredential(q)

Next ==
    \/ \E q \in Ops :
          \/ \E p \in Providers, v \in Vendors :
                \/ AskConnection(q, p, v)
                \/ \E i \in DOMAIN creds, nested \in BOOLEAN : AskAgent(q, v, p, i, nested)
          \/ \E p \in Platform : AskPlatformMode(q, p)
          \/ \E n \in DOMAIN agents : AskRun(q, n)
          \/ \E units \in 1..MaxUnits : AskQuota(q, units)
          \/ Serve(q) \/ OpDies(q)
    \/ \E i \in DOMAIN creds : RevokeCredential(i)
    \/ \E p \in Platform : AddPoolEntry(p) \/ DeleteMode(p)
    \/ NextPeriod

Spec == Init /\ [][Next]_vars

-----------------------------------------------------------------------------
\* The contact of a vendor is connected to the newest of its connections that got as
\* far as a contact, whatever agents the owner makes meanwhile, unless two connections
\* of that vendor were made at the same time.  (create, upsertAgentContactForCredential)
ContactFollowsNewest ==
    \A v \in Vendors \ crossed :
        LET contacted == {i \in DOMAIN creds : creds[i].vendor = v /\ creds[i].contacted}
        IN  contacted # {} =>
                <<v, 0>> \in DOMAIN agents /\ agents[<<v, 0>>].connection = Max(contacted)

\* Every agent is connected to a connection that was valid and that its runtime can use;
\* it may have been revoked since.  (assertUsableModelConnection)
AgentsAreConnected ==
    \A n \in DOMAIN agents :
        /\ agents[n].connection \in DOMAIN creds
        /\ creds[agents[n].connection].valid
        /\ creds[agents[n].connection].provider \in Family(agents[n].provider)

\* A run whose own connection was there from beginning to end has used it, and a run
\* that found none had no connection of its runtime that was there all the while: the
\* two or three statements of the selection never miss one.  (selectLatestByokCredential)
RunsFindTheirCredential ==
    run # NoRun =>
        /\ run.own \in run.had => run.chosen = run.own
        /\ run.chosen = 0 => run.had = {}

\* Overlapping requests never take more of a period than its limit, and the row says
\* what was granted; a provider is in platform mode only if the pool can serve it.
\* (consumePlatformQuota, setMode)
QuotaIsKept ==
    /\ \A k \in 0..MaxPeriod : quota[k] = granted[k] /\ quota[k] <= QuotaLimit
    /\ modes \subseteq pool

ConnectionsAreSound ==
    /\ TypeOK /\ ContactFollowsNewest /\ AgentsAreConnected
    /\ RunsFindTheirCredential /\ QuotaIsKept
=============================================================================
