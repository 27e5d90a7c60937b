------------------------------- MODULE Artifacts -------------------------------
(***************************************************************************)
(* The artifacts of one message: how an artifact is stored, inserted,      *)
(* given its first revision and announced, and how editors append to and   *)
(* restore its chain of revisions meanwhile.  Every step is one statement, *)
(* one call of the object storage, or the part of a transaction between    *)
(* its row lock and its COMMIT.  An object is named by its text: objects   *)
(* are never overwritten.  Membership of the channel is WorkspaceAccess's; *)
(* access is refused here only when the message is gone.                   *)
(***************************************************************************)
EXTENDS RevisionDiff, FiniteSets

CONSTANTS
    Main, Show,      \* the artifact, and the slides preview that a PPTX also gets
    Editors,         \* sessions of the message's owner that edit revisions
    Edited,          \* the artifacts they edit
    Owner,           \* the author of first revisions
    None, Absent,    \* NULL; no row
    Texts,           \* contents
    RecentRevisions, \* revisions that the conflict detector looks at (50)
    MaxEdits,        \* bound on edits altogether
    MaxFaults        \* bound on failing calls and crashes of the API

ASSUME ArtifactsAssumption ==
    /\ Main # Show /\ Edited \subseteq {Main, Show} /\ Owner \notin Editors /\ {None, Absent} \cap Texts = {} /\ None # Absent
    /\ \A t \in Texts : t \in Seq(UNION {ToSet(u) : u \in Texts})
    /\ RecentRevisions \in Nat \ {0} /\ MaxEdits \in Nat /\ MaxFaults \in Nat

VARIABLES
    message,   \* whether the message exists
    kind,      \* how Main is made
    original,  \* the content that Main and Show are made with
    making,    \* making[a]: how far the calls that make a have come
    stored,    \* artifacts whose object is in the storage
    shown,     \* storage_key of the row in artifacts
    chain,     \* rows of artifact_revisions, in the order of their commits
    told,      \* what the conversation last heard of Main
    req,       \* req[e]: what the edit of e has still to do
    overtaken, \* artifacts that were edited before their first revision was written
    edits, faults

vars == <<message, kind, original, making, stored, shown, chain, told, req, overtaken, edits, faults>>

Artifacts == {Main, Show}
Kinds == {"runtime", "pptx", "upload"}
Steps == {"idle", "allowed", "stored", "inserted", "revised", "done", "failed", "crashed"}
InFlight == {"allowed", "stored", "inserted", "revised"}

\* origin "restore" with of: the summary "Restore revision <of>."
Revision == [id : Nat, index : Nat, parent : Nat, author : Editors \cup {Owner},
             digest : Texts, key : Texts \cup {None},
             origin : {"initial", "edit", "restore"}, of : Nat]

Idle == [at |-> "idle", op |-> "none", artifact |-> None, digest |-> None, key |-> None,
         of |-> 0, parent |-> 0, index |-> 0]

EditSteps == {"idle", "findTarget", "lockLast", "wait", "write"}

TypeOK ==
    /\ message \in BOOLEAN /\ kind \in Kinds /\ original \in Texts
    /\ making \in [Artifacts -> Steps]
    /\ stored \subseteq Artifacts
    /\ shown \in [Artifacts -> Texts \cup {None, Absent}]
    /\ chain \in [Artifacts -> Seq(Revision)]
    /\ told \in {"nothing", "creating", "created", "failed"}
    /\ req \in [Editors -> [at : EditSteps, op : {"none", "append", "restore"},
                            artifact : Artifacts \cup {None}, digest : Texts \cup {None},
                            key : Texts \cup {None}, of : Nat, parent : Nat, index : Nat]]
    /\ overtaken \subseteq Artifacts
    /\ edits \in 0..MaxEdits /\ faults \in 0..MaxFaults

Init ==
    /\ message = TRUE
    /\ kind \in Kinds
    /\ original \in Texts
    /\ making = [a \in Artifacts |-> "idle"]
    /\ stored = {}
    /\ shown = [a \in Artifacts |-> Absent]
    /\ chain = [a \in Artifacts |-> << >>]
    /\ told = "nothing"
    /\ req = [e \in Editors |-> Idle]
    /\ overtaken = {}
    /\ edits = 0 /\ faults = 0

-----------------------------------------------------------------------------
(***************************************************************************)
(* Making an artifact                                                      *)
(***************************************************************************)
Unedited == UNCHANGED <<req, overtaken, edits>>

\* What a failed step leaves: the preview of a PPTX only logs it, whoever makes Main
\* hears of it.
Fails(a) ==
    /\ making' = [making EXCEPT ![a] = "failed"]
    /\ told' = IF a = Main THEN "failed" ELSE told

Reaches(a, step) == making' = [making EXCEPT ![a] = step] /\ UNCHANGED told

\* assertMessageAccess of an upload target or of createRuntime...Artifact.  The
\* preview is made by the same call, once Main has its revision.
Begin(a) ==
    /\ making[a] = "idle"
    /\ a = Show => kind = "pptx" /\ making[Main] = "revised"
    /\ told' = CASE a = Show -> told
                 [] a = Main /\ message -> "creating"
                 [] a = Main /\ ~message -> "failed"
    /\ making' = [making EXCEPT ![a] = IF message THEN "allowed" ELSE "failed"]
    /\ UNCHANGED <<message, kind, original, stored, shown, chain, faults>> /\ Unedited

\* The object is written before the row that names it.
WriteObject(a) ==
    /\ making[a] = "allowed"
    /\ stored' = stored \cup {a}
    /\ Reaches(a, "stored")
    /\ UNCHANGED <<message, kind, original, shown, chain, faults>> /\ Unedited

\* create: the foreign key refuses an artifact of a message that is gone.  An upload
\* ends here, without a revision.
InsertArtifact(a) ==
    /\ making[a] = "stored"
    /\ IF message THEN /\ shown' = [shown EXCEPT ![a] = original]
                       /\ IF kind = "upload"
                          THEN making' = [making EXCEPT ![a] = "done"] /\ told' = "created"
                          ELSE Reaches(a, "inserted")
                  ELSE Fails(a) /\ UNCHANGED shown
    /\ UNCHANGED <<message, kind, original, stored, chain, faults>> /\ Unedited

NextId == 1 + Len(chain[Main]) + Len(chain[Show])

\* appendInitialRevision: index 0, unless the chain has begun.
InitialRevision(a) ==
    /\ making[a] = "inserted"
    /\ IF message
       THEN /\ chain' = [chain EXCEPT ![a] =
                   IF @ = << >> THEN <<[id |-> NextId, index |-> 0, parent |-> 0, author |-> Owner,
                                        digest |-> original, key |-> original,
                                        origin |-> "initial", of |-> 0]>>
                                ELSE @]
            /\ Reaches(a, IF a = Show THEN "done" ELSE "revised")
       ELSE Fails(a) /\ UNCHANGED chain
    /\ UNCHANGED <<message, kind, original, stored, shown, faults>> /\ Unedited

\* Mutant: the announcement does not wait for the slides preview.
Announce_AtOnce ==
    /\ making[Main] = "revised"
    /\ making' = [making EXCEPT ![Main] = "done"]
    /\ told' = "created"
    /\ UNCHANGED <<message, kind, original, stored, shown, chain, faults>> /\ Unedited

\* createRuntime...Artifact returns and persistRuntimeArtifacts publishes "created".
Announce ==
    /\ making[Main] = "revised"
    /\ kind = "pptx" => making[Show] \in {"done", "failed"}
    /\ making' = [making EXCEPT ![Main] = "done"]
    /\ told' = "created"
    /\ UNCHANGED <<message, kind, original, stored, shown, chain, faults>> /\ Unedited

\* A call to the storage or the database fails.
CallFails(a) ==
    /\ making[a] \in {"allowed", "stored", "inserted"}
    /\ faults < MaxFaults
    /\ faults' = faults + 1
    /\ Fails(a)
    /\ UNCHANGED <<message, kind, original, stored, shown, chain>> /\ Unedited

-----------------------------------------------------------------------------
(***************************************************************************)
(* Editing the chain                                                       *)
(***************************************************************************)
Made == UNCHANGED <<message, kind, original, making, stored, told>>
Goto(e, at) == req' = [req EXCEPT ![e].at = at] /\ UNCHANGED <<edits, faults>>
EndEdit(e) == req' = [req EXCEPT ![e] = Idle] /\ UNCHANGED <<edits, faults>>

\* assertArtifactOwnedBy finds the row; a request it refuses changes nothing.
AskAppend(e, a) ==
    /\ req[e] = Idle /\ edits < MaxEdits
    /\ shown[a] # Absent
    /\ \E t \in Texts : \E k \in {t, None} :
           req' = [req EXCEPT ![e] = [Idle EXCEPT !.at = "lockLast", !.op = "append", !.artifact = a,
                                                  !.digest = t, !.key = k]]
    /\ edits' = edits + 1
    /\ Made /\ UNCHANGED <<shown, chain, overtaken, faults>>

AskRestore(e, a) ==
    /\ req[e] = Idle /\ edits < MaxEdits
    /\ shown[a] # Absent
    /\ \E r \in ToSet(chain[a]) :
           req' = [req EXCEPT ![e] = [Idle EXCEPT !.at = "findTarget", !.op = "restore", !.artifact = a,
                                                  !.of = r.index]]
    /\ edits' = edits + 1
    /\ Made /\ UNCHANGED <<shown, chain, overtaken, faults>>

RevisionAt(a, index) == {r \in ToSet(chain[a]) : r.index = index}

\* The transaction of restore reads the revision to restore first.
FindTarget(e) ==
    LET targets == RevisionAt(req[e].artifact, req[e].of)
    IN  /\ req[e].at = "findTarget"
        /\ \/ /\ targets = {} /\ EndEdit(e)
           \/ /\ \E r \in targets :
                     req' = [req EXCEPT ![e].at = "lockLast", ![e].digest = r.digest, ![e].key = r.key]
              /\ UNCHANGED <<edits, faults>>
        /\ Made /\ UNCHANGED <<shown, chain, overtaken>>

Locked(a, id) ==
    \E e \in Editors : req[e].at = "write" /\ req[e].artifact = a /\ req[e].parent = id

\* SELECT ... FOR UPDATE of the last revision.  Who finds the row locked waits for
\* that row, even when a later one has been committed by then.
LockLast(e) ==
    LET a == req[e].artifact
        last == IF chain[a] = << >> THEN [parent |-> 0, index |-> 0]
                ELSE [parent |-> Last(chain[a]).id, index |-> Last(chain[a]).index + 1]
    IN  /\ req[e].at = "lockLast"
        /\ req' = [req EXCEPT ![e].parent = last.parent, ![e].index = last.index,
                              ![e].at = IF last.parent # 0 /\ Locked(a, last.parent)
                                        THEN "wait" ELSE "write"]
        /\ Made /\ UNCHANGED <<shown, chain, overtaken, edits, faults>>

GetLock(e) ==
    /\ req[e].at = "wait"
    /\ ~Locked(req[e].artifact, req[e].parent)
    /\ Goto(e, "write")
    /\ Made /\ UNCHANGED <<shown, chain, overtaken>>

\* Mutant: the table has no UNIQUE (artifact_id, revision_index).
Refused_Never(e) == shown[req[e].artifact] = Absent

\* The foreign key to artifacts, and UNIQUE (artifact_id, revision_index).
Refused(e) ==
    \/ shown[req[e].artifact] = Absent
    \/ RevisionAt(req[e].artifact, req[e].index) # {}

\* Mutant: append repoints the artifact as restore does.
Shows_Appended(e) == req[e].key

\* Only restore repoints the artifact, in the same transaction.
Shows(e) == IF req[e].op = "restore" THEN req[e].key ELSE shown[req[e].artifact]

\* INSERT, for a restore UPDATE artifacts, COMMIT: nothing that another session can
\* see lies between them.
CommitEdit(e) ==
    LET a == req[e].artifact
    IN  /\ req[e].at = "write"
        /\ ~Refused(e)
        /\ chain' = [chain EXCEPT ![a] = Append(@,
               [id |-> NextId, index |-> req[e].index, parent |-> req[e].parent, author |-> e,
                digest |-> req[e].digest, key |-> req[e].key,
                origin |-> IF req[e].op = "restore" THEN "restore" ELSE "edit", of |-> req[e].of])]
        /\ shown' = [shown EXCEPT ![a] = Shows(e)]
        /\ overtaken' = IF making[a] = "inserted" THEN overtaken \cup {a} ELSE overtaken
        /\ EndEdit(e)
        /\ Made

\* The transaction rolls back: a constraint refuses the revision, or the database does.
RollBack(e) ==
    /\ req[e].at = "write" /\ Refused(e)
    /\ EndEdit(e)
    /\ Made /\ UNCHANGED <<shown, chain, overtaken>>

EditFails(e) ==
    /\ req[e] # Idle
    /\ faults < MaxFaults
    /\ faults' = faults + 1
    /\ req' = [req EXCEPT ![e] = Idle]
    /\ Made /\ UNCHANGED <<shown, chain, overtaken, edits>>

-----------------------------------------------------------------------------
\* The conversation is deleted with its messages; their artifacts and revisions go
\* with them, their objects stay.
DeleteMessage ==
    /\ message
    /\ message' = FALSE
    /\ shown' = [a \in Artifacts |-> Absent]
    /\ chain' = [a \in Artifacts |-> << >>]
    /\ UNCHANGED <<kind, original, making, stored, told, req, overtaken, edits, faults>>

\* The API process dies and takes its calls with it; nothing takes them up again.
Crash ==
    /\ faults < MaxFaults
    /\ faults' = faults + 1
    /\ making' = [a \in Artifacts |-> IF making[a] \in InFlight THEN "crashed" ELSE making[a]]
    /\ req' = [e \in Editors |-> Idle]
    /\ UNCHANGED <<message, kind, original, stored, shown, chain, told, overtaken, edits>>

Make(a) == Begin(a) \/ WriteObject(a) \/ InsertArtifact(a) \/ InitialRevision(a)
Continue(e) == FindTarget(e) \/ LockLast(e) \/ GetLock(e) \/ CommitEdit(e) \/ RollBack(e)

Next ==
    \/ \E a \in Artifacts : Make(a) \/ CallFails(a)
    \/ Announce
    \/ \E e \in Editors : \/ \E a \in Edited : AskAppend(e, a) \/ AskRestore(e, a)
                          \/ Continue(e)
                          \/ EditFails(e)
    \/ DeleteMessage
    \/ Crash

Spec == Init /\ [][Next]_vars

-----------------------------------------------------------------------------
(***************************************************************************)
(* Properties                                                              *)
(***************************************************************************)
\* ArtifactConflictDetectorService.detect.
HasConflict(rows) ==
    LET recent == {rows[i] : i \in {j \in DOMAIN rows : j + RecentRevisions > Len(rows)}}
    IN  \E p \in {r.parent : r \in recent} :
            LET branches == {r \in recent : r.parent = p}
            IN  /\ Cardinality(branches) > 1
                /\ Cardinality({r.author : r \in branches}) > 1
                /\ Cardinality({r.digest : r \in branches}) > 1

\* The revisions of an artifact are numbered from 0 without gaps and each descends
\* from the one before it, however edits, restores and the first revision overlap
\* (FOR UPDATE and UNIQUE (artifact_id, revision_index)); so the conflict detector,
\* which looks for two revisions of one parent, never finds a conflict.
ChainIsLinear ==
    \A a \in Artifacts :
        /\ \A i \in DOMAIN chain[a] :
               /\ chain[a][i].index = i - 1
               /\ chain[a][i].parent = IF i = 1 THEN 0 ELSE chain[a][i - 1].id
        /\ ~HasConflict(chain[a])

Restores(a) == {i \in DOMAIN chain[a] : chain[a][i].origin = "restore"}

\* An artifact shows the content of the revision that the last restore named, or the
\* one it was made with: an append alone changes nothing that readers see, and every
\* restore repeats the digest and the object of the revision it names (append,
\* restore and the UPDATE of artifacts).
ShownFollowsRestores ==
    \A a \in Artifacts :
        shown[a] # Absent =>
            /\ \A i \in Restores(a) : \E r \in RevisionAt(a, chain[a][i].of) :
                   r.digest = chain[a][i].digest /\ r.key = chain[a][i].key
            /\ IF Restores(a) = {} THEN shown[a] = original
               ELSE LET i == CHOOSE j \in Restores(a) : \A k \in Restores(a) : k <= j
                    IN  shown[a] = chain[a][i].key

\* What the conversation is told of an artifact is so, while its message exists: one
\* that is announced as created has its row and can be restored to what it was made
\* with, unless it was uploaded or edited before its first revision, and its slides
\* preview has been tried; one is announced as failed only when a call failed.  A row
\* never names an object that is not there (createRuntime...Artifact,
\* appendInitialRevision, persistRuntimeArtifacts).
AnnouncementsAreTrue ==
    /\ \A a \in Artifacts : shown[a] # Absent => a \in stored
    /\ told = "created" /\ message =>
           /\ shown[Main] # Absent
           /\ kind # "upload" => /\ chain[Main] # << >>
                                 /\ Main \notin overtaken => chain[Main][1].key = original
           /\ kind = "pptx" => making[Show] \in {"done", "failed"}
    /\ told = "failed" /\ message => faults > 0

PreviewOf(r) == IF r.key = None THEN NoText ELSE Preview(r.key)
TextAt(r) == IF r.key = None THEN << >> ELSE r.key

\* describeDiff of a revision that exists: the one before it is looked up by number.
DescribeDiff(a, index) ==
    LET after == CHOOSE r \in RevisionAt(a, index) : TRUE
        before == IF index = 0 THEN {} ELSE RevisionAt(a, index - 1)
    IN  BuildUnifiedDiff(IF before = {} THEN NoText ELSE PreviewOf(CHOOSE r \in before : TRUE),
                         PreviewOf(after))

\* The patch shown for a revision turns the text of its parent into its own and keeps
\* as many lines as can be kept; where a preview was truncated or the comparison was
\* given up it shows prefixes of both (describeDiff, buildUnifiedDiff).
DiffsAreTrue ==
    \A a \in Artifacts : \A r \in ToSet(chain[a]) :
        LET diff == DescribeDiff(a, r.index)
            parents == {p \in ToSet(chain[a]) : p.id = r.parent}
            before == IF parents = {} THEN << >> ELSE TextAt(CHOOSE p \in parents : TRUE)
        IN  IF diff.cut \/ diff.truncated
            THEN /\ IsPrefix(TextOf(diff.lines, {Same, Gone}), before)
                 /\ IsPrefix(TextOf(diff.lines, {Same, Added}), TextAt(r))
            ELSE Explains(diff.lines, before, TextAt(r))

\* The revisions and what is shown of them: TypeOK, ChainIsLinear and DiffsAreTrue.
\* (append, restore, describeDiff)
ChainIsSound == TypeOK /\ ChainIsLinear /\ DiffsAreTrue
=============================================================================
