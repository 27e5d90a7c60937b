------------------------------- MODULE AgentRuns -------------------------------
(***************************************************************************)
(* Runs of agents on the worker.  A workflow asks for an activity (a reply *)
(* in a direct conversation, one turn of a group, a stage on an internal   *)
(* runtime) and Temporal makes attempts of it.  An attempt looks for a     *)
(* key, gives the agent a copy of the owner's repository to work in, talks *)
(* to the provider, takes the diff of what the agent did, cleans up and    *)
(* reports.  An attempt that has timed out is not stopped: it goes on next *)
(* to the one that replaces it.                                            *)
(*                                                                         *)
(* Every step is what happens up to the next await.  An answer is counted  *)
(* in parts; texts are not modelled.                                       *)
(***************************************************************************)
EXTENDS Integers, Sequences, FiniteSets

CONSTANTS
    Runs,           \* activities asked for
    Vendors,        \* providers of the agents; deepseek runs on opencode
    MaxAttempts,    \* maximumAttempts of the retry policies: 5 in the code
    MaxDrafts,      \* maxDraftsPerResult: 3 in the code
    Ports,          \* ports findFreePort can be given
    Whole,          \* parts of a whole answer
    Hosts,          \* how the worker may be set up: sandbox, containers, repository
    Replies,        \* what agents can ask for in the envelope of an answer
    MaxFaults       \* bound on failures of the worker's own steps

AgentRunsAssumption ==
    /\ Vendors \subseteq {"codex", "claude-code", "opencode", "hermes", "openclaw"}
    /\ Hosts \subseteq [sandboxed : BOOLEAN, isolation : {"off", "preferred", "required"},
                        containers : BOOLEAN, repository : BOOLEAN]
    /\ MaxAttempts \in Nat \ {0} /\ MaxDrafts \in Nat \ {0}
    /\ Whole \in Nat \ {0} /\ MaxFaults \in Nat
    /\ Replies \subseteq Seq([type : STRING, riskLevel : STRING, calls : Seq(STRING)])

VARIABLES
    host,           \* how the worker is set up: constant
    activity,       \* activity[r]: kind, vendor, number of the last attempt and outcome
    attempt,        \* attempt[r][k]: where attempt k of r is
    roots,          \* attempts with a temporary directory
    trees,          \* attempts with a worktree registered in the owner's repository
    servers,        \* servers[a]: the port attempt a's server listens on
    touched,        \* attempts whose agent changed the owner's own files
    unremoved,      \* history: attempts whose `git worktree remove` failed
    unclean,        \* history: attempts that ended before their cleanup did
    faults

vars == <<host, activity, attempt, roots, trees, servers, touched, unremoved, unclean, faults>>

Numbers == 1..MaxAttempts
Attempts == Runs \X Numbers
Kinds == {"direct", "group", "internal"}

\* Agents that work on files.  The other ones only answer over HTTP.
WorksOnFiles(vendor) == vendor \in {"codex", "claude-code", "opencode"}

Unborn == [at |-> "unborn", place |-> "none", port |-> 0, said |-> 0, edited |-> "no",
           diff |-> FALSE, err |-> "none"]

Open == [by |-> 0, said |-> 0, artifacts |-> "none", drafts |-> 0, status |-> "open"]

TypeOK ==
    /\ host \in Hosts
    /\ \A r \in Runs :
        /\ activity[r].kind \in Kinds /\ activity[r].vendor \in Vendors
        /\ activity[r].last \in 0..MaxAttempts
        /\ activity[r].outcome.status \in {"open", "answered", "failed"}
    /\ \A a \in Attempts :
        LET run == attempt[a[1]][a[2]] IN
        /\ run.at \in {"unborn", "key", "isolate", "root", "tree", "copy", "unroot", "port",
                       "serve", "talk", "diff", "close", "untree", "unplace", "report",
                       "done", "dead"}
        /\ run.place \in {"none", "direct", "tree", "copy"}
        /\ run.said \in 0..Whole
        /\ run.err \in {"none", "final", "again"}
    /\ roots \subseteq Attempts /\ trees \subseteq Attempts
    /\ DOMAIN servers \subseteq Attempts

\* Which attempts of an activity Temporal makes: an internal runtime is asked once.
AttemptsOf(r) == IF activity[r].kind = "internal" THEN 1 ELSE MaxAttempts

Running(a) == attempt[a[1]][a[2]].at \notin {"unborn", "done", "dead"}

\* What the runtimes of internal agents run on.
resolveRuntimeBackendProvider == {"opencode", "hermes", "openclaw"}

Init ==
    /\ host \in Hosts
    /\ activity \in [Runs -> [kind : Kinds, vendor : Vendors, last : {0}, outcome : {Open}]]
    /\ \A r \in Runs : activity[r].kind = "internal" =>
                          activity[r].vendor \in resolveRuntimeBackendProvider
    /\ attempt = [r \in Runs |-> [k \in Numbers |-> Unborn]]
    /\ roots = {} /\ trees = {} /\ servers = << >> /\ touched = {}
    /\ unremoved = {} /\ unclean = {} /\ faults = 0

Is(a, at) == attempt[a[1]][a[2]].at = at
Of(a) == attempt[a[1]][a[2]]
Vendor(a) == activity[a[1]].vendor

Set(a, run) == attempt' = [attempt EXCEPT ![a[1]][a[2]] = run]
Go(a, at) == Set(a, [Of(a) EXCEPT !.at = at])
Throw(a, err, at) == Set(a, [Of(a) EXCEPT !.err = err, !.at = at])

MayFail == faults < MaxFaults
Files == <<roots, trees, servers, touched, unremoved, unclean>>

-----------------------------------------------------------------------------
(***************************************************************************)
(* Temporal                                                                *)
(***************************************************************************)
Begin(r, k) ==
    /\ activity' = [activity EXCEPT ![r].last = k]
    /\ attempt' = [attempt EXCEPT ![r][k] = [Unborn EXCEPT !.at = "key"]]

\* The workflow asks for the activity.
Schedule(r) ==
    /\ activity[r].last = 0
    /\ Begin(r, 1)
    /\ UNCHANGED <<host, Files, faults>>

Settle(r, outcome) == activity' = [activity EXCEPT ![r].outcome = outcome]

\* Mutant: every failure is tried again.
TriedAgain_Always(r, err) == activity[r].last < AttemptsOf(r)

\* A non-retryable failure, or the last attempt's, ends the activity.
TriedAgain(r, err) == err = "again" /\ activity[r].last < AttemptsOf(r)

\* Mutant: an agent that talks keeps its attempt alive.
Overdue_UnlessTalking(r) ==
    /\ activity[r].outcome.status = "open" /\ activity[r].last > 0
    /\ attempt[r][activity[r].last].at # "talk"

\* Nothing has been heard of the last attempt for five minutes.
Overdue(r) == activity[r].outcome.status = "open" /\ activity[r].last > 0

\* An attempt that is overdue is given up, not stopped.
TimesOut(r) ==
    /\ Overdue(r)
    /\ IF TriedAgain(r, "again")
       THEN Begin(r, activity[r].last + 1)
       ELSE Settle(r, [Open EXCEPT !.status = "failed"]) /\ UNCHANGED attempt
    /\ UNCHANGED <<host, Files, faults>>

\* The process of the worker dies with all its attempts, and is started again.
WorkerDies ==
    /\ MayFail /\ faults' = faults + 1
    /\ \E a \in Attempts : Running(a)
    /\ attempt' = [r \in Runs |-> [k \in Numbers |->
                      IF Running(<<r, k>>) THEN [Unborn EXCEPT !.at = "dead"]
                                           ELSE attempt[r][k]]]
    /\ unclean' = unclean \cup {a \in Attempts : Running(a)}
    /\ UNCHANGED <<host, activity, roots, trees, servers, touched, unremoved>>

-----------------------------------------------------------------------------
(***************************************************************************)
(* What the activity gives the agent                                       *)
(***************************************************************************)
\* The connection may be gone; an agent of files gets a sandbox, the others talk.
FindKey(a) ==
    /\ Is(a, "key")
    /\ \/ Throw(a, "final", "report")
       \/ Go(a, IF WorksOnFiles(Vendor(a)) THEN "isolate" ELSE "talk")
    /\ UNCHANGED <<host, activity, Files, faults>>

\* "required" fails without a container runtime; what is found is only recorded.
resolveAgentRunOsIsolation ==
    IF host.isolation = "required" /\ ~host.containers THEN "refused" ELSE "allowed"

Isolate(a) ==
    /\ Is(a, "isolate")
    /\ IF resolveAgentRunOsIsolation = "refused"
       THEN Throw(a, "final", "report")
       ELSE IF host.sandboxed THEN Go(a, "root")
            ELSE Set(a, [Of(a) EXCEPT !.place = "direct",
                                      !.at = IF Vendor(a) = "opencode" THEN "port" ELSE "talk"])
    /\ UNCHANGED <<host, activity, Files, faults>>

MakeRoot(a) ==
    /\ Is(a, "root")
    /\ \/ roots' = roots \cup {a} /\ Go(a, "tree") /\ UNCHANGED faults
       \/ /\ MayFail /\ faults' = faults + 1
          /\ Throw(a, "again", "report") /\ UNCHANGED roots
    /\ UNCHANGED <<host, activity, trees, servers, touched, unremoved, unclean>>

Placed(a, place) ==
    Set(a, [Of(a) EXCEPT !.place = place,
                         !.at = IF Vendor(a) = "opencode" THEN "port" ELSE "talk"])

createGitWorktreeSandbox(a) ==
    /\ Is(a, "tree") /\ host.repository
    /\ trees' = trees \cup {a}
    /\ Placed(a, "tree")
    /\ UNCHANGED <<host, activity, roots, servers, touched, unremoved, unclean, faults>>

WorktreeFails(a) ==
    /\ Is(a, "tree") /\ (host.repository => MayFail)
    /\ faults' = IF host.repository THEN faults + 1 ELSE faults
    /\ Go(a, "copy")
    /\ UNCHANGED <<host, activity, Files>>

createFilesystemCopySandbox(a) ==
    /\ Is(a, "copy")
    /\ Placed(a, "copy")
    /\ UNCHANGED <<host, activity, Files, faults>>

CopyFails(a) ==
    /\ Is(a, "copy") /\ MayFail /\ faults' = faults + 1
    /\ Throw(a, "final", "unroot")
    /\ UNCHANGED <<host, activity, Files>>

\* safeRemoveTempRoot: `rm` can throw, and then what it threw is what is reported.
RemoveRoot(a) ==
    /\ \/ roots' = roots \ {a} /\ Go(a, "report") /\ UNCHANGED <<unclean, faults>>
       \/ /\ MayFail /\ faults' = faults + 1
          /\ Throw(a, "again", "report")
          /\ unclean' = unclean \cup {a} /\ UNCHANGED roots
    /\ UNCHANGED <<host, activity, trees, servers, touched, unremoved>>

DropRoot(a) == Is(a, "unroot") /\ RemoveRoot(a)

\* What is left to clean up: nothing, a worktree, or the temporary directory alone.
Cleanup(a) ==
    CASE Of(a).place = "tree" -> "untree"
      [] Of(a).place = "copy" -> "unplace"
      [] OTHER -> "report"

\* The port is free while it is asked for, and is not kept.
Listening == {servers[s] : s \in DOMAIN servers}

findFreePort(a) ==
    /\ Is(a, "port")
    /\ \E p \in Ports \ Listening : Set(a, [Of(a) EXCEPT !.port = p, !.at = "serve"])
    /\ UNCHANGED <<host, activity, Files, faults>>

\* The server starts, or somebody has taken the port meanwhile: whether that error
\* is worth another attempt depends on the digits of the port.
StartServer(a) ==
    /\ Is(a, "serve")
    /\ IF Of(a).port \in Listening
       THEN (\E err \in {"final", "again"} : Throw(a, err, Cleanup(a))) /\ UNCHANGED servers
       ELSE servers' = [s \in DOMAIN servers \cup {a} |-> IF s = a THEN Of(a).port ELSE servers[s]]
            /\ Go(a, "talk")
    /\ UNCHANGED <<host, activity, roots, trees, touched, unremoved, unclean, faults>>

-----------------------------------------------------------------------------
(***************************************************************************)
(* The agent                                                               *)
(***************************************************************************)
\* The next part of the answer; an opencode server answers a prompt as a whole.
Speak(a) ==
    /\ Is(a, "talk") /\ Of(a).said < Whole
    /\ Set(a, [Of(a) EXCEPT !.said = IF Vendor(a) = "opencode" THEN Whole ELSE @ + 1])
    /\ UNCHANGED <<host, activity, Files, faults>>

\* The agent changes a file: of its copy, or of the owner.
Edit(a) ==
    /\ Is(a, "talk") /\ WorksOnFiles(Vendor(a)) /\ Of(a).edited = "no"
    /\ Set(a, [Of(a) EXCEPT !.edited = "yes"])
    /\ touched' = IF Of(a).place = "direct" THEN touched \cup {a} ELSE touched
    /\ UNCHANGED <<host, activity, roots, trees, servers, unremoved, unclean, faults>>

\* Where an agent that has ended leaves the adapter: a server is closed first.
Leave(a) == IF a \in DOMAIN servers THEN "close" ELSE Cleanup(a)

\* How a provider can fail: too many requests, an error of its own, a connection that
\* breaks, a program that is missing, a request it refuses, and an error that says itself
\* whether it is worth another try.
Failures == {"rate", "server", "network", "missing", "denied", "told_again", "told_final"}

\* The Codex adapter goes by the words of the error.
normalizeCodexSdkError == {"rate", "server", "network"}

\* So does that of Claude Code, which knows fewer words.
normalizeClaudeSdkError == {"rate", "server"}

\* OpenCode's errors may say it themselves.
normalizeOpenCodeError == {"rate", "server", "told_again"}

\* By the status of the response or the flag of an error in the stream.  A connection
\* that breaks throws an error of the network's own, which nobody forbids to retry.
HermesRetries == {"server", "network", "told_again"}
OpenClawRetries == {"server", "network", "told_again"}

WorthAnother(vendor) ==
    CASE vendor = "codex" -> normalizeCodexSdkError
      [] vendor = "claude-code" -> normalizeClaudeSdkError
      [] vendor = "opencode" -> normalizeOpenCodeError
      [] vendor = "hermes" -> HermesRetries
      [] vendor = "openclaw" -> OpenClawRetries

ErrorOf(vendor, failure) == IF failure \in WorthAnother(vendor) THEN "again" ELSE "final"

\* Mutant: what a provider refuses in its stream ends the attempt at once.
ProviderFails_Unfinished(a) ==
    /\ Is(a, "talk")
    /\ \E f \in Failures : Throw(a, ErrorOf(Vendor(a), f), "report")
    /\ UNCHANGED <<host, activity, Files, faults>>

\* The provider refuses, breaks off or reports an error in its stream.
ProviderFails(a) ==
    /\ Is(a, "talk")
    /\ \E f \in Failures : Throw(a, ErrorOf(Vendor(a), f), Leave(a))
    /\ UNCHANGED <<host, activity, Files, faults>>

\* Providers whose last record repeats the whole answer; the text of the others is the
\* parts that came.  OpenCode answers in one piece.
RepeatsAnswer(vendor) == vendor \in {"claude-code", "hermes", "openclaw"}

\* The stream is over.  One that ends early without an error passes for a whole one.
AnswerEnds(a) ==
    /\ Is(a, "talk")
    /\ \E repeated \in BOOLEAN :
        LET said == IF repeated THEN Whole ELSE Of(a).said IN
        /\ repeated => RepeatsAnswer(Vendor(a))
        /\ IF said = Whole THEN UNCHANGED faults
           ELSE Vendor(a) # "opencode" /\ MayFail /\ faults' = faults + 1
        /\ Set(a, [Of(a) EXCEPT !.said = said,
                                !.at = IF WorksOnFiles(Vendor(a)) THEN "diff" ELSE "report"])
    /\ UNCHANGED <<host, activity, Files>>

\* What there is to show: the changes of the copy, or without a sandbox those that
\* everybody has made in the owner's repository.
collectWorkspaceDiff(a) ==
    IF Of(a).place = "direct" THEN host.repository /\ touched # {} ELSE Of(a).edited # "no"

\* `git diff` and the files git does not know yet: what an agent has added to the index
\* or committed is in neither.  No error is told.
captureWorkspaceDiff(a) ==
    /\ Is(a, "diff")
    /\ LET changed == collectWorkspaceDiff(a)
       IN \/ \E indexed \in BOOLEAN :
                 /\ indexed => changed
                 /\ Set(a, [Of(a) EXCEPT !.diff = changed /\ ~indexed, !.at = Leave(a),
                                         !.edited = IF indexed THEN "indexed" ELSE @])
             /\ UNCHANGED faults
          \/ /\ changed /\ MayFail /\ faults' = faults + 1
             /\ Go(a, Leave(a))
    /\ UNCHANGED <<host, activity, Files>>

\* If the server cannot be closed the cleanup after it is skipped, and that error is
\* what is reported, even of an agent that had succeeded.
CloseServer(a) ==
    /\ Is(a, "close")
    /\ \/ /\ servers' = [s \in DOMAIN servers \ {a} |-> servers[s]]
          /\ Go(a, Cleanup(a)) /\ UNCHANGED <<unclean, faults>>
       \/ /\ MayFail /\ faults' = faults + 1
          /\ Throw(a, "again", "report")
          /\ unclean' = unclean \cup {a} /\ UNCHANGED servers
    /\ UNCHANGED <<host, activity, roots, trees, touched, unremoved>>

\* Mutant: the worktrees of others are pruned while they are in use.
Stale_All(bs) == bs

\* Worktrees whose directory is gone: `git worktree prune` forgets them.
Stale(bs) == bs \ roots

\* git worktree remove, then prune; both may fail unseen.  A worktree that could not be
\* removed is still there when prune looks, so that only a later run's prune forgets it.
RemoveWorktree(a) ==
    /\ Is(a, "untree")
    /\ \E removed, pruned \in BOOLEAN :
        LET left == IF removed THEN trees \ {a} ELSE trees
            failed == IF removed THEN unremoved ELSE unremoved \cup {a}
        IN /\ removed \/ pruned
           /\ (removed /\ pruned) \/ MayFail
           /\ faults' = IF removed /\ pruned THEN faults ELSE faults + 1
           /\ trees' = IF pruned THEN left \ Stale(left) ELSE left
           /\ unremoved' = IF pruned THEN failed \ Stale(failed) ELSE failed
    /\ Go(a, "unplace")
    /\ UNCHANGED <<host, activity, roots, servers, touched, unclean>>

RemovePlace(a) == Is(a, "unplace") /\ RemoveRoot(a)

-----------------------------------------------------------------------------
(***************************************************************************)
(* The activity's result                                                   *)
(***************************************************************************)
\* The calls of these intents that make a draft.
DraftCalls(intents, planned) ==
    UNION {{i} \X {j \in DOMAIN intents[i].calls : intents[i].calls[j] = "draft"} : i \in planned}

\* Mutant: every draft is kept.
extractRuntimeArtifactDrafts_All(intents) == Cardinality(DraftCalls(intents, DOMAIN intents))

\* How many drafts an answer brings: those of the low-risk tool plans, up to a limit.
extractRuntimeArtifactDrafts(intents) ==
    LET planned == {i \in DOMAIN intents :
                       intents[i].type = "tool_plan" /\ intents[i].riskLevel = "low"}
        made == Cardinality(DraftCalls(intents, planned))
    IN IF made < MaxDrafts THEN made ELSE MaxDrafts

\* Drafts replace the diff of a direct reply; the diff of a group's turn is dropped.
ArtifactsOf(r, run, drafts) ==
    IF drafts > 0 THEN "drafts"
    ELSE IF activity[r].kind # "group" /\ run.diff THEN "diff" ELSE "none"

Answer(r, k, intents) ==
    LET drafts == extractRuntimeArtifactDrafts(intents) IN
    [by |-> k, said |-> attempt[r][k].said, status |-> "answered",
     artifacts |-> ArtifactsOf(r, attempt[r][k], drafts), drafts |-> drafts]

\* Mutant: an attempt that was given up is still heard.
Heard_Late(r, k) == activity[r].outcome.status # "answered"

\* Temporal takes the report of the last attempt it made, and of no other.
Heard(r, k) == activity[r].last = k /\ activity[r].outcome.status = "open"

\* What is kept of an attempt that is over: how it ended, if anybody heard of it.
Done(r, k) ==
    IF Heard(r, k) THEN [attempt[r][k] EXCEPT !.at = "done", !.port = 0, !.diff = FALSE]
    ELSE [Unborn EXCEPT !.at = "done"]

Report(r, k) ==
    LET run == attempt[r][k] IN
    /\ run.at = "report"
    /\ IF Heard(r, k) /\ run.err # "none" /\ TriedAgain(r, run.err)
       THEN /\ activity' = [activity EXCEPT ![r].last = k + 1]
            /\ attempt' = [attempt EXCEPT ![r][k] = Done(r, k),
                                          ![r][k + 1] = [Unborn EXCEPT !.at = "key"]]
       ELSE /\ attempt' = [attempt EXCEPT ![r][k] = Done(r, k)]
            /\ IF Heard(r, k)
               THEN IF run.err = "none"
                    THEN \E intents \in Replies : Settle(r, Answer(r, k, intents))
                    ELSE Settle(r, [Open EXCEPT !.by = k, !.status = "failed"])
               ELSE UNCHANGED activity
    /\ UNCHANGED <<host, Files, faults>>

Adapter(a) ==
    \/ Isolate(a) \/ MakeRoot(a) \/ createGitWorktreeSandbox(a) \/ WorktreeFails(a)
    \/ createFilesystemCopySandbox(a) \/ CopyFails(a) \/ DropRoot(a)
    \/ findFreePort(a) \/ StartServer(a)
    \/ Speak(a) \/ Edit(a) \/ ProviderFails(a) \/ AnswerEnds(a)
    \/ captureWorkspaceDiff(a) \/ CloseServer(a) \/ RemoveWorktree(a) \/ RemovePlace(a)

Next ==
    \/ \E r \in Runs : Schedule(r) \/ TimesOut(r)
    \/ \E a \in Attempts : FindKey(a) \/ Adapter(a) \/ Report(a[1], a[2])
    \/ WorkerDies

\* Temporal schedules what a workflow asks for and gives up attempts that say nothing.
Spec == Init /\ [][Next]_vars /\ \A r \in Runs : WF_vars(Schedule(r) \/ TimesOut(r))

-----------------------------------------------------------------------------
(* What a run leaves behind is explained: a temporary directory or a       *)
(* server without a running attempt belongs to one that died, or whose     *)
(* server could not be closed or whose directory could not be removed; a   *)
(* registered worktree without a directory to one `git worktree remove`    *)
(* failed for, and no later run has pruned; the owner's own files are      *)
(* touched only without a sandbox.  (createAgentRunSandbox, execute)       *)
NothingIsLeftBehind ==
    /\ \A a \in roots \cup DOMAIN servers : Running(a) \/ a \in unclean
    /\ \A a \in trees : a \in roots \cup unremoved
    /\ \A a \in Attempts :
           Of(a).place = "tree" /\ Of(a).at \in {"port", "serve", "talk", "diff"} => a \in trees
    /\ touched # {} => ~host.sandboxed
    /\ faults = 0 => unclean = {} /\ unremoved = {}

(* An answer is the last attempt's, and whole unless a stream ended early; *)
(* it brings at most the allowed drafts; what an agent did to its copy     *)
(* comes back as a diff, unless the agent has added it to the index or     *)
(* committed it, it is a group's turn, or there are drafts;                *)
(* an activity fails only for good or when no attempt is left, and what    *)
(* has failed for good is not tried again.                                 *)
(* (dispatchAgentActivity, executeDirectAgentActivity)                     *)
AnswersAreEarned ==
    \A r \in Runs :
        LET o == activity[r].outcome IN
        /\ o.status = "answered" =>
              /\ o.by = activity[r].last /\ attempt[r][o.by].err = "none"
              /\ o.said = Whole \/ faults > 0
              /\ o.drafts <= MaxDrafts /\ (o.artifacts = "drafts" <=> o.drafts > 0)
              /\ attempt[r][o.by].edited = "yes" /\ attempt[r][o.by].place # "direct"
                  /\ activity[r].kind # "group" /\ faults = 0 => o.artifacts # "none"
        /\ o.status = "failed" =>
              activity[r].last = AttemptsOf(r) \/ attempt[r][o.by].err = "final"
        /\ \A k \in 1..(activity[r].last - 1) :
               attempt[r][k].at = "done" => attempt[r][k].err # "final"

(* Servers that listen do so on ports of their own.  (findFreePort)        *)
PortsAreApart == \A s, t \in DOMAIN servers : servers[s] = servers[t] => s = t

\* TypeOK and the three above.
AgentRunsAreSound == TypeOK /\ NothingIsLeftBehind /\ AnswersAreEarned /\ PortsAreApart

Settled(r) == activity[r].outcome.status # "open"
=============================================================================
