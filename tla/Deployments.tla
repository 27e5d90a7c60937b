------------------------------ MODULE Deployments ------------------------------
(***************************************************************************)
(* Deploying an artifact: the API starts a workflow and awaits its result, *)
(* the workflow runs three activities one after the other, and the API     *)
(* then gives the deployment a preview address that its owner can rotate.  *)
(* The activities name no retry policy: Temporal retries an attempt that   *)
(* fails, or that takes more than a minute, for ever.  An attempt that     *)
(* timed out is not stopped: it is late, its effect may still come, and    *)
(* nobody listens to its result.  So no attempt ever fails for good, and   *)
(* the branch of the workflow that would record a failed deployment is     *)
(* never entered.                                                          *)
(***************************************************************************)
EXTENDS Naturals, Sequences, FiniteSets

CONSTANTS
    Dispatches,   \* calls of dispatch, each with the workflow it starts
    MaxFaults,    \* bound on attempts that fail or time out, and on crashes of the API
    MaxRotations  \* bound on rotations of preview addresses

DeploymentsAssumption == MaxFaults \in Nat /\ MaxRotations \in Nat

VARIABLES
    target,    \* the deploy target: what it publishes to, and whether that ever works
    artifact,  \* whether the artifact exists
    rows,      \* rows of deployments in the order of their INSERTs
    sites,     \* sites[n]: the dispatch that the provider made its n-th deployment for
    run,       \* run[d]: the workflow of d
    late,      \* attempts that timed out before their effect
    call,      \* call[d]: the HTTP request of d
    tokens,    \* preview tokens issued
    undone,    \* rows whose address a late attempt has overwritten
    retries,   \* retries[d]: attempts of d, for each activity, that failed or timed out
    rotations, faults

vars == <<target, artifact, rows, sites, run, late, call, tokens, undone, retries, rotations, faults>>

Activities == {"prepare", "deploy", "finalize"}
Stages == {"idle", "done"} \cup Activities

\* kind: a page (static-site, container) or a source archive.  provider: the target's
\* configuration names a provider; without one the activity publishes nothing.
\* broken: the provider refuses every attempt, or needs more than a minute for it.
Targets == [kind : {"page", "archive"}, provider : BOOLEAN, broken : BOOLEAN]

NoUrl == <<"none", 0>>
SiteUrl(n) == <<"site", n>>       \* the address of the provider's n-th deployment
ObjectUrl == <<"object", 0>>      \* the address of the artifact's own object
TokenUrl(n) == <<"token", n>>     \* an address of the preview router
Urls == {NoUrl, ObjectUrl} \cup ({"site", "token"} \X Nat)

\* attempt: the running attempt of the activity named by stage has not acted yet, or
\* it has and its result is on the way.
Run == [stage : Stages, attempt : {"started", "acted"}, row : Nat, url : Urls, result : Nat, resultUrl : Urls]
Unstarted == [stage |-> "idle", attempt |-> "started", row |-> 0, url |-> NoUrl, result |-> 0, resultUrl |-> NoUrl]

Row == [by : Dispatches, status : {"queued", "succeeded"}, url : Urls, deleted : BOOLEAN]
Call == [at : {"idle", "awaiting", "provision", "answered", "refused", "died"}, url : Urls]

TypeOK ==
    /\ target \in Targets /\ artifact \in BOOLEAN
    /\ rows \in Seq(Row)
    /\ sites \in Seq(Dispatches)
    /\ run \in [Dispatches -> Run]
    /\ late \subseteq [by : Dispatches, activity : Activities, row : Nat, url : Urls]
    /\ call \in [Dispatches -> Call]
    /\ tokens \in Nat /\ undone \subseteq DOMAIN rows
    /\ retries \in [Dispatches -> [Activities -> 0..MaxFaults]]
    /\ rotations \in 0..MaxRotations /\ faults \in 0..MaxFaults

Init ==
    /\ target \in {t \in Targets : t.broken => t.provider}
    /\ artifact = TRUE
    /\ rows = << >> /\ sites = << >>
    /\ run = [d \in Dispatches |-> Unstarted]
    /\ late = {}
    /\ call = [d \in Dispatches |-> [at |-> "idle", url |-> NoUrl]]
    /\ tokens = 0 /\ undone = {}
    /\ retries = [d \in Dispatches |-> [a \in Activities |-> 0]]
    /\ rotations = 0 /\ faults = 0

-----------------------------------------------------------------------------
(***************************************************************************)
(* The effects of the activities                                           *)
(***************************************************************************)
\* prepareDeployActivity inserts a row with an identifier of its own: a second attempt
\* inserts a second row.
Prepare(d) ==
    /\ artifact
    /\ rows' = Append(rows, [by |-> d, status |-> "queued", url |-> NoUrl, deleted |-> FALSE])
    /\ UNCHANGED <<sites, undone>>

\* The deploy activities: every attempt is a new deployment of the provider.
Publish(d) ==
    /\ ~target.broken
    /\ sites' = IF target.provider THEN Append(sites, d) ELSE sites
    /\ UNCHANGED <<rows, undone>>

PublishedUrl ==
    CASE target.provider -> SiteUrl(Len(sites) + 1)
      [] target.kind = "archive" /\ ~target.provider -> ObjectUrl
      [] OTHER -> NoUrl

\* Mutant: finalize completes the deployments that are running; no row ever is.
Completes_Running(i, n) == i = n /\ ~rows[i].deleted /\ rows[i].status = "running"

\* WHERE id = n: finalize looks at no status.
Completes(i, n) == i = n /\ ~rows[i].deleted

\* Mutant: finalize names the deployments of the artifact and the target.
Finalize_All(d, n, url) ==
    /\ \E i \in DOMAIN rows : Completes(i, n)
    /\ rows' = [i \in DOMAIN rows |-> IF rows[i].deleted THEN rows[i]
                                      ELSE [rows[i] EXCEPT !.status = "succeeded", !.url = url]]
    /\ UNCHANGED <<sites, undone>>

\* finalizeDeployActivity writes the result of the workflow over what the row holds,
\* its preview address included; it fails when the row is gone.
Finalize(d, n, url) ==
    /\ \E i \in DOMAIN rows : Completes(i, n)
    /\ rows' = [i \in DOMAIN rows |->
                   IF Completes(i, n) THEN [rows[i] EXCEPT !.status = "succeeded", !.url = url]
                                      ELSE rows[i]]
    /\ UNCHANGED <<sites, undone>>

-----------------------------------------------------------------------------
(***************************************************************************)
(* The workflow                                                            *)
(***************************************************************************)
Outside == UNCHANGED <<target, artifact, call, tokens, rotations>>

\* The running attempt does what its activity does; its result is on the way.  An
\* attempt that cannot act fails and is retried: it changes nothing.
Act(d) ==
    /\ run[d].stage \in Activities /\ run[d].attempt = "started"
    /\ \/ run[d].stage = "prepare" /\ Prepare(d)
       \/ run[d].stage = "deploy" /\ Publish(d)
       \/ run[d].stage = "finalize" /\ Finalize(d, run[d].row, run[d].url)
    /\ run' = [run EXCEPT ![d].attempt = "acted",
                          ![d].result = IF run[d].stage = "prepare" THEN Len(rows') ELSE @,
                          ![d].resultUrl = IF run[d].stage = "deploy" THEN PublishedUrl ELSE @]
    /\ UNCHANGED <<late, retries, faults>> /\ Outside

NextStage(stage) ==
    CASE stage = "prepare" -> "deploy" [] stage = "deploy" -> "finalize" [] stage = "finalize" -> "done"

\* The result reaches the workflow, which starts the next activity.
Report(d) ==
    /\ run[d].attempt = "acted"
    /\ run' = [run EXCEPT ![d].stage = NextStage(run[d].stage), ![d].attempt = "started",
                          ![d].row = IF run[d].stage = "prepare" THEN run[d].result ELSE @,
                          ![d].url = IF run[d].stage = "deploy" THEN run[d].resultUrl ELSE @]
    /\ UNCHANGED <<rows, sites, undone, late, retries, faults>> /\ Outside

\* The attempt fails, before or after its effect, or a minute passes before its result
\* arrives; Temporal starts another one.  Only an attempt that timed out can act later.
Retry(d) ==
    /\ run[d].stage \in Activities
    /\ faults < MaxFaults
    /\ faults' = faults + 1
    /\ retries' = [retries EXCEPT ![d][run[d].stage] = @ + 1]
    /\ \/ UNCHANGED late
       \/ /\ run[d].attempt = "started"
          /\ late' = late \cup {[by |-> d, activity |-> run[d].stage, row |-> run[d].row, url |-> run[d].url]}
    /\ run' = [run EXCEPT ![d].attempt = "started"]
    /\ UNCHANGED <<rows, sites, undone>> /\ Outside

\* A late attempt acts.
ActLate(l) ==
    /\ l \in late
    /\ late' = late \ {l}
    /\ \/ l.activity = "prepare" /\ Prepare(l.by)
       \/ l.activity = "deploy" /\ Publish(l.by)
       \/ /\ l.activity = "finalize"
          /\ \E i \in DOMAIN rows : Completes(i, l.row)
          /\ rows' = [rows EXCEPT ![l.row].status = "succeeded", ![l.row].url = l.url]
          /\ undone' = undone \cup {l.row}
          /\ UNCHANGED sites
    /\ UNCHANGED <<run, retries, faults>> /\ Outside

-----------------------------------------------------------------------------
(***************************************************************************)
(* The API                                                                 *)
(***************************************************************************)
Working == UNCHANGED <<target, artifact, sites, run, late, undone, retries>>

\* dispatch finds the artifact and the target and starts a workflow of its own.
Start(d) ==
    /\ call[d].at = "idle"
    /\ IF artifact THEN /\ call' = [call EXCEPT ![d].at = "awaiting"]
                        /\ run' = [run EXCEPT ![d].stage = "prepare"]
                   ELSE call' = [call EXCEPT ![d].at = "refused"] /\ UNCHANGED run
    /\ UNCHANGED <<target, artifact, rows, sites, late, tokens, undone, retries, rotations, faults>>

\* ensureProvisioned: an archive, or a page the provider gave an address, has it.
Await(d) ==
    /\ call[d].at = "awaiting" /\ run[d].stage = "done"
    /\ call' = [call EXCEPT ![d] =
                   IF target.kind = "archive" \/ run[d].url # NoUrl
                   THEN [at |-> "answered", url |-> run[d].url]
                   ELSE [at |-> "provision", url |-> NoUrl]]
    /\ UNCHANGED <<rows, tokens, rotations, faults>> /\ Working

\* Mutant: the address is answered and not stored.
WithUrl_Unsaved(i, url) == rows

\* persistPreviewUrl: UPDATE deployments SET preview_url.
WithUrl(i, url) == [rows EXCEPT ![i].url = url]

\* The other pages get a token, unless the row has been deleted.
Provision(d) ==
    /\ call[d].at = "provision"
    /\ tokens' = tokens + 1
    /\ IF rows[run[d].row].deleted
       THEN call' = [call EXCEPT ![d].at = "refused"] /\ UNCHANGED rows
       ELSE /\ rows' = WithUrl(run[d].row, TokenUrl(tokens + 1))
            /\ call' = [call EXCEPT ![d] = [at |-> "answered", url |-> TokenUrl(tokens + 1)]]
    /\ UNCHANGED <<rotations, faults>> /\ Working

\* rotatePreviewUrl, by the owner who was told of the deployment.
Rotate(d) ==
    /\ call[d].at = "answered" /\ target.kind = "page"
    /\ rotations < MaxRotations
    /\ ~rows[run[d].row].deleted
    /\ rotations' = rotations + 1
    /\ tokens' = tokens + 1
    /\ rows' = WithUrl(run[d].row, TokenUrl(tokens + 1))
    /\ call' = [call EXCEPT ![d].url = TokenUrl(tokens + 1)]
    /\ UNCHANGED faults /\ Working

\* The API dies while it awaits the workflow, or before it stores the address: the
\* workflow goes on and nobody provisions the preview.
Die(d) ==
    /\ call[d].at \in {"awaiting", "provision"}
    /\ faults < MaxFaults
    /\ faults' = faults + 1
    /\ call' = [call EXCEPT ![d].at = "died"]
    /\ UNCHANGED <<rows, tokens, rotations>> /\ Working

\* The message of the artifact is deleted; the artifact and its deployments go with it.
DeleteArtifact ==
    /\ artifact
    /\ artifact' = FALSE
    /\ rows' = [i \in DOMAIN rows |-> [rows[i] EXCEPT !.deleted = TRUE]]
    /\ UNCHANGED <<target, sites, run, late, call, tokens, undone, retries, rotations, faults>>

Next ==
    \/ \E d \in Dispatches :
           Start(d) \/ Act(d) \/ Report(d) \/ Retry(d) \/ Await(d) \/ Provision(d) \/ Rotate(d) \/ Die(d)
    \/ \E l \in late : ActLate(l)
    \/ DeleteArtifact

Spec == Init /\ [][Next]_vars

-----------------------------------------------------------------------------
(***************************************************************************)
(* Properties                                                              *)
(***************************************************************************)
RowsOf(d) == {i \in DOMAIN rows : rows[i].by = d}
SitesOf(d) == {n \in DOMAIN sites : sites[n] = d}

\* However attempts fail, time out and act late, a workflow completes the one row it
\* was told of, with a site that was made for it, and what is left behind, rows that
\* stay queued and sites nobody refers to, is at most one for each attempt that was
\* retried (prepareDeployActivity, finalizeDeployActivity, deployArtifactWorkflow).
RecordsAreHonest ==
    \A d \in Dispatches :
        /\ \A i \in RowsOf(d) :
               /\ rows[i].status = "succeeded" =>
                      /\ i = run[d].row
                      /\ target.provider => SitesOf(d) # {}
               /\ rows[i].url[1] = "site" => rows[i].url[2] \in SitesOf(d)
        /\ Cardinality(RowsOf(d)) <= retries[d]["prepare"] + 1
        /\ Cardinality(SitesOf(d)) <= retries[d]["deploy"] + 1

\* The address its owner was told last, by dispatch or by a rotation, is the one the
\* row holds, unless a late attempt of finalizeDeployActivity has written over it; and
\* a page that was answered has one.
ToldPreviewIsCurrent ==
    \A d \in Dispatches :
        call[d].at = "answered" /\ ~rows[run[d].row].deleted =>
            /\ target.kind = "page" => call[d].url # NoUrl
            /\ run[d].row \notin undone => rows[run[d].row].url = call[d].url

\* TypeOK, RecordsAreHonest and ToldPreviewIsCurrent.
DeploymentsAreTrue == TypeOK /\ RecordsAreHonest /\ ToldPreviewIsCurrent

\* While attempts fail only now and then, every dispatch is answered or dies with the
\* API.  A target that always fails, or an artifact that is deleted meanwhile, is
\* retried for ever instead and the caller never hears of it.
Concluded(d) ==
    call[d].at \in {"answered", "died", "refused"} \/ ~artifact \/ target.broken
=============================================================================
