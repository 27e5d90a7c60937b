---------------------------- MODULE ArtifactsProofs ----------------------------
(***************************************************************************)
(* The chain of revisions stays linear, the artifact shows what the last   *)
(* restore named, announcements are true, and the patch shown for a        *)
(* revision turns the text before it into its own with as few changes as   *)
(* can be: for any number of editors, contents, edits and faults.          *)
(***************************************************************************)
EXTENDS Artifacts, FiniteSetTheorems, SequenceTheorems, WellFoundedInduction, TLAPS

\* Rows and ids of one artifact.
ChainsAreOrdered ==
    \A a \in Artifacts : \A i \in DOMAIN chain[a] :
        /\ chain[a][i].index = i - 1
        /\ chain[a][i].parent = IF i = 1 THEN 0 ELSE chain[a][i - 1].id
        /\ chain[a][i].id > 0 /\ chain[a][i].id < NextId
        /\ \A j \in DOMAIN chain[a] : j < i => chain[a][j].id < chain[a][i].id

\* Objects come before rows, rows before revisions, and both go with the message.
RowsComeFirst ==
    \A a \in Artifacts :
        /\ making[a] = "stored" \/ shown[a] # Absent => a \in stored
        /\ making[a] \in {"idle", "allowed", "stored"} => shown[a] = Absent
        /\ shown[a] = Absent => chain[a] = << >>
        /\ ~message => shown[a] = Absent
        /\ message /\ making[a] \in {"inserted", "revised", "done"} => shown[a] # Absent

\* The first revision is the one the artifact was made with, unless an editor was faster.
FirstRevisions ==
    /\ kind = "upload" => making[Show] = "idle"
    /\ \A a \in Artifacts :
           message => /\ making[a] = "inserted" /\ a \notin overtaken => chain[a] = << >>
                      /\ making[a] = "revised" \/ (making[a] = "done" /\ kind # "upload") =>
                            /\ chain[a] # << >>
                            /\ a \notin overtaken => chain[a][1].key = original

ToldIsTrue ==
    /\ told = "created" => /\ making[Main] = "done"
                           /\ kind = "pptx" => making[Show] \in {"done", "failed"}
    /\ told = "failed" /\ message => faults > 0

\* What an edit holds between its statements is still so when it writes: the revision to
\* restore is there, and the row it locked is where its index says.
Holds(q) ==
    /\ q.at # "idle" => q.artifact \in Artifacts /\ q.op \in {"append", "restore"}
    /\ q.at \in {"lockLast", "wait", "write"} =>
           /\ q.digest \in Texts
           /\ message /\ q.op = "restore" =>
                  \E r \in RevisionAt(q.artifact, q.of) : r.digest = q.digest /\ r.key = q.key
    /\ q.at \in {"wait", "write"} /\ message =>
           \/ q.parent = 0 /\ q.index = 0
           \/ \E i \in DOMAIN chain[q.artifact] :
                  q.parent = chain[q.artifact][i].id /\ q.index = i

EditsHold == \A e \in Editors : Holds(req[e])

\* The row of the artifact follows the last restore.
RestoresRepeat ==
    \A a \in Artifacts : \A i \in Restores(a) : \E r \in RevisionAt(a, chain[a][i].of) :
        r.digest = chain[a][i].digest /\ r.key = chain[a][i].key

LastRestoreShows ==
    \A a \in Artifacts :
        shown[a] # Absent =>
            \/ Restores(a) = {} /\ shown[a] = original
            \/ \E i \in Restores(a) : /\ \A k \in Restores(a) : k <= i
                                      /\ shown[a] = chain[a][i].key

Inv ==
    /\ TypeOK /\ ChainsAreOrdered /\ RowsComeFirst /\ FirstRevisions /\ ToldIsTrue
    /\ EditsHold /\ RestoresRepeat /\ LastRestoreShows

-----------------------------------------------------------------------------
(***************************************************************************)
(* Chains that stay and chains that grow.                                  *)
(***************************************************************************)
EditRequests == [at : EditSteps, op : {"none", "append", "restore"},
                 artifact : Artifacts \cup {None}, digest : Texts \cup {None},
                 key : Texts \cup {None}, of : Nat, parent : Nat, index : Nat]

LEMMA TwoArtifacts ==
    ASSUME ArtifactsAssumption
    PROVE  /\ Artifacts = {Main, Show} /\ Main # Show /\ Edited \subseteq Artifacts
           /\ Absent \notin Texts /\ None \notin Texts /\ None # Absent
           /\ MaxEdits \in Nat /\ MaxFaults \in Nat
BY DEF ArtifactsAssumption, Artifacts

LEMMA ChainFacts ==
    ASSUME TypeOK, NEW a \in Artifacts
    PROVE  /\ chain[a] \in Seq(Revision) /\ Len(chain[a]) \in Nat
           /\ DOMAIN chain[a] = 1..Len(chain[a])
           /\ \A i \in DOMAIN chain[a] : chain[a][i] \in Revision
           /\ chain[a] # << >> <=> Len(chain[a]) > 0
<1>1. chain[a] \in Seq(Revision)  BY DEF TypeOK
<1>2. QED  BY <1>1

LEMMA NextIds ==
    ASSUME TypeOK
    PROVE  NextId \in Nat /\ NextId > 0
<1>1. Main \in Artifacts /\ Show \in Artifacts  BY DEF Artifacts
<1>2. PICK m \in Nat : m = Len(chain[Main])  BY <1>1, ChainFacts
<1>3. PICK n \in Nat : n = Len(chain[Show])  BY <1>1, ChainFacts
<1>4. NextId = 1 + m + n  BY <1>2, <1>3 DEF NextId
<1>5. 1 + m + n \in Nat /\ 1 + m + n > 0  OBVIOUS
<1>6. QED  BY <1>4, <1>5

LEMMA ChainsKept ==
    ASSUME Inv, chain' = chain, message' = message
    PROVE  /\ ChainsAreOrdered' /\ RestoresRepeat'
           /\ \A a : Restores(a)' = Restores(a)
           /\ \A q : Holds(q) => Holds(q)'
<1>1. \A a : Restores(a)' = Restores(a)
  BY DEF Restores
<1>2. \A a, i : RevisionAt(a, i)' = RevisionAt(a, i)
  BY DEF RevisionAt
<1>3. ChainsAreOrdered'
  BY DEF Inv, ChainsAreOrdered, NextId
<1>4. RestoresRepeat'
  BY <1>1, <1>2 DEF Inv, RestoresRepeat, RevisionAt
<1>5. \A q : Holds(q) => Holds(q)'
  BY <1>2 DEF Holds
<1>6. QED  BY <1>1, <1>3, <1>4, <1>5

\* The chains when one of them gets a row.
LEMMA RowAdded ==
    ASSUME ArtifactsAssumption, Inv, NEW a \in Artifacts, NEW row \in Revision,
           chain' = [chain EXCEPT ![a] = Append(@, row)]
    PROVE  /\ chain' \in [Artifacts -> Seq(Revision)]
           /\ Len(chain[a]) \in Nat /\ DOMAIN chain[a] = 1..Len(chain[a])
           /\ DOMAIN chain'[a] = 1..(Len(chain[a]) + 1)
           /\ chain'[a][Len(chain[a]) + 1] = row
           /\ \A i \in DOMAIN chain[a] : chain'[a][i] = chain[a][i] /\ i \in DOMAIN chain'[a]
           /\ \A i \in DOMAIN chain'[a] : i \in DOMAIN chain[a] \/ i = Len(chain[a]) + 1
           /\ \A b \in Artifacts : b # a => chain'[b] = chain[b]
           /\ NextId \in Nat /\ NextId' = NextId + 1
           /\ \A b \in Artifacts : \A i : RevisionAt(b, i) \subseteq RevisionAt(b, i)'
           /\ row.origin # "restore" => \A b \in Artifacts : Restores(b)' = Restores(b)
           /\ row.origin = "restore" => Restores(a)' = Restores(a) \cup {Len(chain[a]) + 1}
           /\ \A b \in Artifacts : b # a => Restores(b)' = Restores(b)
<1>1. chain \in [Artifacts -> Seq(Revision)]
  BY DEF Inv, TypeOK
<1>2. chain'[a] = Append(chain[a], row) /\ \A b \in Artifacts : b # a => chain'[b] = chain[b]
  BY <1>1
<1>3. chain[a] \in Seq(Revision) /\ Len(chain[a]) \in Nat /\ DOMAIN chain[a] = 1..Len(chain[a])
  BY <1>1
<1>4. /\ chain'[a] \in Seq(Revision) /\ Len(chain'[a]) = Len(chain[a]) + 1
      /\ DOMAIN chain'[a] = 1..(Len(chain[a]) + 1)
      /\ chain'[a][Len(chain[a]) + 1] = row
      /\ \A i \in DOMAIN chain[a] : chain'[a][i] = chain[a][i] /\ i \in DOMAIN chain'[a]
  BY <1>2, <1>3
<1>5. chain' \in [Artifacts -> Seq(Revision)]
  BY <1>1, <1>2, <1>4
<1>6. \A i \in DOMAIN chain'[a] : i \in DOMAIN chain[a] \/ i = Len(chain[a]) + 1
  BY <1>3, <1>4
<1>7. NextId \in Nat /\ NextId' = NextId + 1
  <2>1. Artifacts = {Main, Show} /\ Main # Show  BY TwoArtifacts
  <2>2. Len(chain[Main]) \in Nat /\ Len(chain[Show]) \in Nat  BY <1>1, <2>1
  <2>3. \/ Len(chain'[Main]) = Len(chain[Main]) + 1 /\ Len(chain'[Show]) = Len(chain[Show])
        \/ Len(chain'[Show]) = Len(chain[Show]) + 1 /\ Len(chain'[Main]) = Len(chain[Main])
    BY <1>2, <1>4, <2>1
  <2>4. PICK m \in Nat : m = Len(chain[Main])  BY <2>2
  <2>5. PICK n \in Nat : n = Len(chain[Show])  BY <2>2
  <2>6. NextId = 1 + m + n
    BY <2>4, <2>5 DEF NextId
  <2>7. NextId' = 1 + (m + 1) + n \/ NextId' = 1 + m + (n + 1)
    BY <2>3, <2>4, <2>5 DEF NextId
  <2>8. QED  BY <2>6, <2>7
<1>8. \A b \in Artifacts : \A i : RevisionAt(b, i) \subseteq RevisionAt(b, i)'
  <2> SUFFICES ASSUME NEW b \in Artifacts, NEW i, NEW r \in RevisionAt(b, i)
               PROVE  r \in RevisionAt(b, i)'
    OBVIOUS
  <2>1. PICK k \in DOMAIN chain[b] : chain[b][k] = r /\ r.index = i
    BY DEF RevisionAt, ToSet
  <2>2. k \in DOMAIN chain'[b] /\ chain'[b][k] = r
    BY <1>2, <1>4, <2>1
  <2>3. QED  BY <2>1, <2>2 DEF RevisionAt, ToSet
<1>9. row.origin # "restore" => Restores(a)' = Restores(a)
  BY <1>4, <1>6 DEF Restores
<1>10. row.origin = "restore" => Restores(a)' = Restores(a) \cup {Len(chain[a]) + 1}
  <2>1. Len(chain[a]) + 1 \in DOMAIN chain'[a]  BY <1>3, <1>4
  <2>2. QED  BY <1>4, <1>6, <2>1 DEF Restores
<1>11. \A b \in Artifacts : b # a => Restores(b)' = Restores(b)
  BY <1>2 DEF Restores
<1>12. QED  BY <1>2, <1>3, <1>4, <1>5, <1>6, <1>7, <1>8, <1>9, <1>10, <1>11

\* What an edit holds is not disturbed when a chain grows.
LEMMA HoldsWhenGrown ==
    ASSUME ArtifactsAssumption, Inv, NEW a \in Artifacts, NEW row \in Revision,
           chain' = [chain EXCEPT ![a] = Append(@, row)], message' = message
    PROVE  \A q : Holds(q) => Holds(q)'
<1>1. \A b \in Artifacts : \A i : RevisionAt(b, i) \subseteq RevisionAt(b, i)'
  BY RowAdded
<1>2. /\ \A i \in DOMAIN chain[a] : chain'[a][i] = chain[a][i] /\ i \in DOMAIN chain'[a]
      /\ \A b \in Artifacts : b # a => chain'[b] = chain[b]
  BY RowAdded
<1> SUFFICES ASSUME NEW q, Holds(q) PROVE Holds(q)'
  OBVIOUS
<1>3. q.at # "idle" => q.artifact \in Artifacts /\ q.op \in {"append", "restore"}
  BY DEF Holds
<1>4. q.at \in {"lockLast", "wait", "write"} =>
           /\ q.digest \in Texts
           /\ message' /\ q.op = "restore" =>
                  \E r \in RevisionAt(q.artifact, q.of)' : r.digest = q.digest /\ r.key = q.key
  BY <1>1, <1>3 DEF Holds
<1>5. ASSUME q.at \in {"wait", "write"}, message', ~(q.parent = 0 /\ q.index = 0)
      PROVE  \E i \in DOMAIN chain'[q.artifact] :
                  q.parent = chain'[q.artifact][i].id /\ q.index = i
  <2>1. PICK i \in DOMAIN chain[q.artifact] : q.parent = chain[q.artifact][i].id /\ q.index = i
    BY <1>5 DEF Holds
  <2>2. q.artifact \in Artifacts  BY <1>3, <1>5
  <2>3. i \in DOMAIN chain'[q.artifact] /\ chain'[q.artifact][i] = chain[q.artifact][i]
    BY <1>2, <2>1, <2>2
  <2>4. QED  BY <2>1, <2>3
<1>6. QED  BY <1>3, <1>4, <1>5 DEF Holds

-----------------------------------------------------------------------------
(***************************************************************************)
(* Steps of an edit that write nothing.                                    *)
(***************************************************************************)
LEMMA OneEdit ==
    ASSUME Inv, NEW e \in Editors, NEW q \in EditRequests, Holds(q),
           req' = [req EXCEPT ![e] = q], chain' = chain, message' = message
    PROVE  req' \in [Editors -> EditRequests] /\ EditsHold'
<1>1. req \in [Editors -> EditRequests]
  BY DEF Inv, TypeOK, EditRequests
<1>2. \A f \in Editors : req'[f] = IF f = e THEN q ELSE req[f]
  BY <1>1
<1>3. \A p : Holds(p) => Holds(p)'
  BY ChainsKept
<1>4. ASSUME NEW f \in Editors PROVE Holds(req[f])'
  <2>1. PICK p : p = req'[f]  OBVIOUS
  <2>2. Holds(p)  BY <1>2, <2>1 DEF Inv, EditsHold
  <2>3. Holds(p)'  BY <1>3, <2>2
  <2>4. QED  BY <2>1, <2>3
<1>5. QED  BY <1>1, <1>4 DEF EditsHold

LEMMA EditOnly ==
    ASSUME Inv, UNCHANGED <<message, kind, original, making, stored, shown, chain, told, overtaken>>,
           edits' \in 0..MaxEdits, faults' \in 0..MaxFaults, faults' >= faults,
           req' \in [Editors -> EditRequests], EditsHold'
    PROVE  Inv'
<1>1. TypeOK'
  BY DEF Inv, TypeOK, EditRequests
<1>2. ChainsAreOrdered' /\ RestoresRepeat' /\ \A a : Restores(a)' = Restores(a)
  BY ChainsKept
<1>3. RowsComeFirst' /\ FirstRevisions'
  BY DEF Inv, RowsComeFirst, FirstRevisions
<1>4. ToldIsTrue'
  <2>1. faults \in Nat /\ faults' \in Nat  BY DEF Inv, TypeOK
  <2>2. QED  BY <2>1 DEF Inv, ToldIsTrue
<1>5. LastRestoreShows'
  BY <1>2 DEF Inv, LastRestoreShows
<1>6. QED  BY <1>1, <1>2, <1>3, <1>4, <1>5 DEF Inv

LEMMA IdleHolds ==
    ASSUME TRUE
    PROVE  Idle \in EditRequests /\ Holds(Idle)
BY DEF Idle, EditRequests, EditSteps, Holds

LEMMA AskAppendStep ==
    ASSUME ArtifactsAssumption, Inv, NEW e \in Editors, NEW a \in Edited, AskAppend(e, a)
    PROVE  Inv'
<1>1. PICK t \in Texts, k \in Texts \cup {None} :
         req' = [req EXCEPT ![e] = [Idle EXCEPT !.at = "lockLast", !.op = "append", !.artifact = a,
                                                !.digest = t, !.key = k]]
  BY DEF AskAppend
<1> DEFINE q == [Idle EXCEPT !.at = "lockLast", !.op = "append", !.artifact = a,
                             !.digest = t, !.key = k]
<1>2. a \in Artifacts  BY TwoArtifacts
<1>3. q \in EditRequests /\ Holds(q)
  BY <1>2 DEF Idle, EditRequests, EditSteps, Holds
<1>4. req' = [req EXCEPT ![e] = q]  BY <1>1
<1> HIDE DEF q
<1>5. /\ UNCHANGED <<message, kind, original, making, stored, shown, chain, told, overtaken>>
      /\ edits < MaxEdits /\ edits' = edits + 1 /\ faults' = faults
  BY DEF AskAppend, Made
<1>6. req' \in [Editors -> EditRequests] /\ EditsHold'
  BY <1>3, <1>4, <1>5, OneEdit
<1>7. edits' \in 0..MaxEdits /\ faults' \in 0..MaxFaults /\ faults' >= faults
  BY <1>5, TwoArtifacts DEF Inv, TypeOK
<1>8. QED  BY <1>5, <1>6, <1>7, EditOnly

LEMMA AskRestoreStep ==
    ASSUME ArtifactsAssumption, Inv, NEW e \in Editors, NEW a \in Edited, AskRestore(e, a)
    PROVE  Inv'
<1>1. PICK r \in ToSet(chain[a]) :
         req' = [req EXCEPT ![e] = [Idle EXCEPT !.at = "findTarget", !.op = "restore", !.artifact = a,
                                                !.of = r.index]]
  BY DEF AskRestore
<1>2. a \in Artifacts  BY TwoArtifacts
<1>3. r.index \in Nat
  <2>1. r \in Revision  BY <1>2, ChainFacts DEF Inv, ToSet
  <2>2. QED  BY <2>1 DEF Revision
<1>4. PICK q : q = [Idle EXCEPT !.at = "findTarget", !.op = "restore", !.artifact = a, !.of = r.index]
  OBVIOUS
<1>5. q \in EditRequests /\ Holds(q)
  BY <1>2, <1>3, <1>4 DEF Idle, EditRequests, EditSteps, Holds
<1>6. req' = [req EXCEPT ![e] = q]  BY <1>1, <1>4
<1>7. /\ UNCHANGED <<message, kind, original, making, stored, shown, chain, told, overtaken>>
      /\ edits < MaxEdits /\ edits' = edits + 1 /\ faults' = faults
  BY DEF AskRestore, Made
<1>8. req' \in [Editors -> EditRequests] /\ EditsHold'
  BY <1>5, <1>6, <1>7, OneEdit
<1>9. edits' \in 0..MaxEdits /\ faults' \in 0..MaxFaults /\ faults' >= faults
  BY <1>7, TwoArtifacts DEF Inv, TypeOK
<1>10. QED  BY <1>7, <1>8, <1>9, EditOnly

\* An edit ends without a revision.
LEMMA EndsStep ==
    ASSUME ArtifactsAssumption, Inv, NEW e \in Editors, req' = [req EXCEPT ![e] = Idle],
           UNCHANGED <<message, kind, original, making, stored, shown, chain, told, overtaken, edits>>,
           faults' \in 0..MaxFaults, faults' >= faults
    PROVE  Inv'
<1>1. req' \in [Editors -> EditRequests] /\ EditsHold'
  <2>1. PICK q : q = Idle  OBVIOUS
  <2>2. q \in EditRequests /\ Holds(q)  BY <2>1, IdleHolds
  <2>3. req' = [req EXCEPT ![e] = q]  BY <2>1
  <2>4. QED  BY <2>2, <2>3, OneEdit
<1>2. edits' \in 0..MaxEdits  BY DEF Inv, TypeOK
<1>3. QED  BY <1>1, <1>2, EditOnly

\* An edit goes on, having read or locked a row.
LEMMA GoesOnStep ==
    ASSUME ArtifactsAssumption, Inv, NEW e \in Editors, NEW q \in EditRequests, Holds(q),
           req' = [req EXCEPT ![e] = q],
           UNCHANGED <<message, kind, original, making, stored, shown, chain, told, overtaken,
                       edits, faults>>
    PROVE  Inv'
<1>1. req' \in [Editors -> EditRequests] /\ EditsHold'
  BY OneEdit
<1>2. edits' \in 0..MaxEdits /\ faults' \in 0..MaxFaults /\ faults' >= faults
  BY TwoArtifacts DEF Inv, TypeOK
<1>3. QED  BY <1>1, <1>2, EditOnly

LEMMA FindTargetStep ==
    ASSUME ArtifactsAssumption, Inv, NEW e \in Editors, FindTarget(e)
    PROVE  Inv'
<1>1. /\ req[e].at = "findTarget"
      /\ UNCHANGED <<message, kind, original, making, stored, told, shown, chain, overtaken,
                     edits, faults>>
  BY DEF FindTarget, EndEdit, Made
<1>2. req[e] \in EditRequests /\ Holds(req[e])
  BY DEF Inv, TypeOK, EditRequests, EditsHold
<1>3. req[e].artifact \in Artifacts /\ req[e].op \in {"append", "restore"}
  BY <1>1, <1>2 DEF Holds
<1>4. CASE req' = [req EXCEPT ![e] = Idle]
  <2>1. faults' \in 0..MaxFaults /\ faults' >= faults
    BY <1>1, TwoArtifacts DEF Inv, TypeOK
  <2>2. QED  BY <1>1, <1>4, <2>1, EndsStep
<1>5. CASE \E r \in RevisionAt(req[e].artifact, req[e].of) :
              req' = [req EXCEPT ![e].at = "lockLast", ![e].digest = r.digest, ![e].key = r.key]
  <2>1. PICK r \in RevisionAt(req[e].artifact, req[e].of) :
           req' = [req EXCEPT ![e].at = "lockLast", ![e].digest = r.digest, ![e].key = r.key]
    BY <1>5
  <2>2. r.digest \in Texts /\ r.key \in Texts \cup {None}
    <3>1. r \in Revision  BY <1>3, ChainFacts DEF Inv, RevisionAt, ToSet
    <3>2. QED  BY <3>1 DEF Revision
  <2>3. PICK q : q = [req[e] EXCEPT !.at = "lockLast", !.digest = r.digest, !.key = r.key]
    OBVIOUS
  <2>4. q \in EditRequests
    BY <1>2, <2>2, <2>3 DEF EditRequests, EditSteps
  <2>5. /\ q.at = "lockLast" /\ q.digest = r.digest /\ q.key = r.key
        /\ q.artifact = req[e].artifact /\ q.of = req[e].of /\ q.op = req[e].op
    BY <1>2, <2>3 DEF EditRequests
  <2>6. Holds(q)
    BY <1>3, <2>1, <2>2, <2>5 DEF Holds
  <2>7. req' = [req EXCEPT ![e] = q]
    BY <1>2, <2>1, <2>3 DEF EditRequests, Inv, TypeOK
  <2>8. QED  BY <1>1, <2>4, <2>6, <2>7, GoesOnStep
<1>6. QED  BY <1>4, <1>5 DEF FindTarget, EndEdit

LEMMA LockLastStep ==
    ASSUME ArtifactsAssumption, Inv, NEW e \in Editors, LockLast(e)
    PROVE  Inv'
<1>1. /\ req[e].at = "lockLast"
      /\ UNCHANGED <<message, kind, original, making, stored, told, shown, chain, overtaken,
                     edits, faults>>
  BY DEF LockLast, Made
<1>2. req[e] \in EditRequests /\ Holds(req[e])
  BY DEF Inv, TypeOK, EditRequests, EditsHold
<1>3. req[e].artifact \in Artifacts /\ req[e].op \in {"append", "restore"}
  BY <1>1, <1>2 DEF Holds
<1>4. PICK a \in Artifacts : a = req[e].artifact
  BY <1>3
<1>5. PICK last : last = IF chain[a] = << >> THEN [parent |-> 0, index |-> 0]
                         ELSE [parent |-> Last(chain[a]).id, index |-> Last(chain[a]).index + 1]
  OBVIOUS
<1>6. PICK step : step = IF last.parent # 0 /\ Locked(a, last.parent) THEN "wait" ELSE "write"
  OBVIOUS
<1>7. req' = [req EXCEPT ![e].parent = last.parent, ![e].index = last.index, ![e].at = step]
  BY <1>4, <1>5, <1>6 DEF LockLast
<1>8. \/ last.parent = 0 /\ last.index = 0
      \/ \E i \in DOMAIN chain[a] :
             /\ last.parent = chain[a][i].id /\ last.index = i
             /\ last.parent \in Nat /\ last.index \in Nat
  <2>1. CASE chain[a] = << >>  BY <1>5, <2>1
  <2>2. CASE chain[a] # << >>
    <3>1. Len(chain[a]) \in DOMAIN chain[a] /\ Len(chain[a]) \in Nat
      BY <2>2, ChainFacts DEF Inv
    <3>2. /\ chain[a][Len(chain[a])].index = Len(chain[a]) - 1
          /\ chain[a][Len(chain[a])].id \in Nat
      <4>1. chain[a][Len(chain[a])] \in Revision  BY <3>1, ChainFacts DEF Inv
      <4>2. QED  BY <3>1, <4>1 DEF Inv, ChainsAreOrdered, Revision
    <3>3. last.parent = chain[a][Len(chain[a])].id /\ last.index = Len(chain[a])
      BY <1>5, <2>2, <3>1, <3>2 DEF Last
    <3>4. QED  BY <3>1, <3>2, <3>3
  <2>3. QED  BY <2>1, <2>2
<1>9. last.parent \in Nat /\ last.index \in Nat /\ step \in {"wait", "write"}
  BY <1>6, <1>8
<1>10. PICK q : q = [req[e] EXCEPT !.parent = last.parent, !.index = last.index, !.at = step]
  OBVIOUS
<1>11. q \in EditRequests
  BY <1>2, <1>9, <1>10 DEF EditRequests, EditSteps
<1>12. /\ q.at = step /\ q.parent = last.parent /\ q.index = last.index
       /\ q.artifact = a /\ q.of = req[e].of /\ q.op = req[e].op
       /\ q.digest = req[e].digest /\ q.key = req[e].key
  BY <1>2, <1>4, <1>10 DEF EditRequests
<1>13. Holds(q)
  <2>1. /\ q.digest \in Texts
        /\ message /\ q.op = "restore" =>
               \E r \in RevisionAt(a, q.of) : r.digest = q.digest /\ r.key = q.key
    BY <1>1, <1>2, <1>4, <1>12 DEF Holds
  <2>2. QED  BY <1>3, <1>4, <1>8, <1>12, <2>1 DEF Holds
<1>14. req' = [req EXCEPT ![e] = q]
  BY <1>2, <1>7, <1>10 DEF EditRequests, Inv, TypeOK
<1>15. QED  BY <1>1, <1>11, <1>13, <1>14, GoesOnStep

LEMMA GetLockStep ==
    ASSUME ArtifactsAssumption, Inv, NEW e \in Editors, GetLock(e)
    PROVE  Inv'
<1>1. /\ req[e].at = "wait" /\ req' = [req EXCEPT ![e].at = "write"]
      /\ UNCHANGED <<message, kind, original, making, stored, told, shown, chain, overtaken,
                     edits, faults>>
  BY DEF GetLock, Goto, Made
<1>2. req[e] \in EditRequests /\ Holds(req[e])
  BY DEF Inv, TypeOK, EditRequests, EditsHold
<1>3. PICK q : q = [req[e] EXCEPT !.at = "write"]
  OBVIOUS
<1>4. q \in EditRequests
  BY <1>2, <1>3 DEF EditRequests, EditSteps
<1>5. /\ q.at = "write" /\ q.parent = req[e].parent /\ q.index = req[e].index
      /\ q.artifact = req[e].artifact /\ q.of = req[e].of /\ q.op = req[e].op
      /\ q.digest = req[e].digest /\ q.key = req[e].key
  BY <1>2, <1>3 DEF EditRequests
<1>6. Holds(q)
  BY <1>1, <1>2, <1>5 DEF Holds
<1>7. req' = [req EXCEPT ![e] = q]
  BY <1>1, <1>2, <1>3 DEF EditRequests, Inv, TypeOK
<1>8. QED  BY <1>1, <1>4, <1>6, <1>7, GoesOnStep

-----------------------------------------------------------------------------
(***************************************************************************)
(* The edit that commits.                                                  *)
(***************************************************************************)
\* The row it writes, and where: behind all others.
LEMMA CommitFacts ==
    ASSUME ArtifactsAssumption, Inv, NEW e \in Editors, NEW a \in Artifacts,
           NEW row, a = req[e].artifact, CommitEdit(e),
           row = [id |-> NextId, index |-> req[e].index, parent |-> req[e].parent, author |-> e,
                  digest |-> req[e].digest, key |-> req[e].key,
                  origin |-> IF req[e].op = "restore" THEN "restore" ELSE "edit", of |-> req[e].of]
    PROVE  /\ row \in Revision /\ message /\ shown[a] # Absent
           /\ chain' = [chain EXCEPT ![a] = Append(@, row)]
           /\ row.index = Len(chain[a]) /\ row.id = NextId
           /\ row.parent = IF chain[a] = << >> THEN 0 ELSE chain[a][Len(chain[a])].id
<1>1. /\ req[e].at = "write" /\ ~Refused(e)
      /\ chain' = [chain EXCEPT ![a] = Append(@, row)]
  BY DEF CommitEdit
<1>2. req[e] \in EditRequests /\ Holds(req[e])
  BY DEF Inv, TypeOK, EditRequests, EditsHold
<1>3. shown[a] # Absent /\ RevisionAt(a, req[e].index) = {}
  BY <1>1 DEF Refused
<1>4. message
  BY <1>3 DEF Inv, RowsComeFirst
<1>5. /\ req[e].digest \in Texts
      /\ \/ req[e].parent = 0 /\ req[e].index = 0
         \/ \E i \in DOMAIN chain[a] : req[e].parent = chain[a][i].id /\ req[e].index = i
  BY <1>1, <1>2, <1>4 DEF Holds
<1>6. NextId \in Nat
  BY NextIds DEF Inv
<1>7. row \in Revision
  BY <1>2, <1>5, <1>6 DEF Revision, EditRequests
<1>8. /\ row.index = req[e].index /\ row.parent = req[e].parent /\ row.id = NextId
  OBVIOUS
<1>9. Len(chain[a]) \in Nat /\ DOMAIN chain[a] = 1..Len(chain[a])
  BY ChainFacts DEF Inv
<1>10. \A i \in DOMAIN chain[a] : req[e].index # i - 1
  <2> SUFFICES ASSUME NEW i \in DOMAIN chain[a], req[e].index = i - 1 PROVE FALSE
    OBVIOUS
  <2>1. chain[a][i].index = i - 1  BY DEF Inv, ChainsAreOrdered
  <2>2. chain[a][i] \in RevisionAt(a, req[e].index)  BY <2>1 DEF RevisionAt, ToSet
  <2>3. QED  BY <1>3, <2>2
<1>11. CASE req[e].parent = 0 /\ req[e].index = 0
  <2>1. Len(chain[a]) = 0
    <3>1. 1 \notin DOMAIN chain[a]  BY <1>10, <1>11
    <3>2. QED  BY <1>9, <3>1
  <2>2. chain[a] = << >>  BY <2>1, ChainFacts DEF Inv
  <2>3. QED  BY <1>1, <1>3, <1>4, <1>7, <1>8, <1>11, <2>1, <2>2
<1>12. CASE \E i \in DOMAIN chain[a] : req[e].parent = chain[a][i].id /\ req[e].index = i
  <2>1. PICK i \in DOMAIN chain[a] : req[e].parent = chain[a][i].id /\ req[e].index = i
    BY <1>12
  <2>2. i = Len(chain[a])
    <3>1. i + 1 \notin DOMAIN chain[a]  BY <1>9, <1>10, <2>1
    <3>2. QED  BY <1>9, <2>1, <3>1
  <2>3. chain[a] # << >>  BY <1>9, <2>1
  <2>4. QED  BY <1>1, <1>3, <1>4, <1>7, <1>8, <2>1, <2>2, <2>3
<1>13. QED  BY <1>5, <1>11, <1>12

\* A chain stays in order when the next row goes to its end.
LEMMA OrderKept ==
    ASSUME ArtifactsAssumption, Inv, NEW a \in Artifacts, NEW row \in Revision,
           chain' = [chain EXCEPT ![a] = Append(@, row)],
           row.index = Len(chain[a]), row.id = NextId,
           row.parent = IF chain[a] = << >> THEN 0 ELSE chain[a][Len(chain[a])].id
    PROVE  ChainsAreOrdered'
<1> DEFINE n == Len(chain[a])
<1>1. /\ n \in Nat /\ DOMAIN chain[a] = 1..n /\ DOMAIN chain'[a] = 1..(n + 1)
      /\ chain'[a][n + 1] = row
      /\ \A i \in DOMAIN chain[a] : chain'[a][i] = chain[a][i] /\ i \in DOMAIN chain'[a]
      /\ \A i \in DOMAIN chain'[a] : i \in DOMAIN chain[a] \/ i = n + 1
      /\ \A b \in Artifacts : b # a => chain'[b] = chain[b]
      /\ NextId \in Nat /\ NextId' = NextId + 1
  BY RowAdded
<1>2. \A b \in Artifacts : \A i \in DOMAIN chain[b] :
          chain[b][i].id \in Nat /\ chain[b][i].id > 0 /\ chain[b][i].id < NextId
  <2>1. \A b \in Artifacts : \A i \in DOMAIN chain[b] : chain[b][i] \in Revision
    BY ChainFacts DEF Inv
  <2>2. QED  BY <2>1 DEF Inv, ChainsAreOrdered, Revision
<1>3. NextId > 0
  BY NextIds DEF Inv
<1>4. PICK next : next = NextId
  OBVIOUS
<1>5. ASSUME NEW b \in Artifacts, NEW i \in DOMAIN chain'[b]
      PROVE  /\ chain'[b][i].index = i - 1
             /\ chain'[b][i].parent = IF i = 1 THEN 0 ELSE chain'[b][i - 1].id
             /\ chain'[b][i].id > 0 /\ chain'[b][i].id < NextId'
             /\ \A j \in DOMAIN chain'[b] : j < i => chain'[b][j].id < chain'[b][i].id
  <2>1. CASE b # a
    <3>1. chain'[b] = chain[b] /\ i \in DOMAIN chain[b]  BY <1>1, <1>5, <2>1
    <3>2. /\ chain[b][i].index = i - 1
          /\ chain[b][i].parent = IF i = 1 THEN 0 ELSE chain[b][i - 1].id
          /\ \A j \in DOMAIN chain[b] : j < i => chain[b][j].id < chain[b][i].id
      BY <3>1 DEF Inv, ChainsAreOrdered
    <3>3. chain[b][i].id > 0 /\ chain[b][i].id < NextId'
      BY <1>1, <1>2, <3>1
    <3>4. QED  BY <3>1, <3>2, <3>3
  <2>2. CASE b = a /\ i \in DOMAIN chain[a]
    <3>1. /\ chain[a][i].index = i - 1
          /\ chain[a][i].parent = IF i = 1 THEN 0 ELSE chain[a][i - 1].id
          /\ \A j \in DOMAIN chain[a] : j < i => chain[a][j].id < chain[a][i].id
      BY <2>2 DEF Inv, ChainsAreOrdered
    <3>2. chain[a][i].id > 0 /\ chain[a][i].id < NextId'
      BY <1>1, <1>2, <2>2
    <3>3. chain'[a][i] = chain[a][i]  BY <1>1, <2>2
    <3>4. i # 1 => i - 1 \in DOMAIN chain[a] /\ chain'[a][i - 1] = chain[a][i - 1]
      BY <1>1, <2>2
    <3>5. ASSUME NEW j \in DOMAIN chain'[a], j < i PROVE chain'[a][j].id < chain'[a][i].id
      <4>1. j \in DOMAIN chain[a] /\ chain'[a][j] = chain[a][j]
        BY <1>1, <2>2, <3>5
      <4>2. QED  BY <3>1, <3>3, <3>5, <4>1
    <3>6. QED  BY <2>2, <3>1, <3>2, <3>3, <3>4, <3>5
  <2>3. CASE b = a /\ i = n + 1
    <3>1. chain'[b][i] = row  BY <1>1, <2>3
    <3>2. row.index = i - 1  BY <1>1, <2>3
    <3>3. row.id > 0 /\ row.id < NextId'  BY <1>1, <1>3
    <3>4. row.parent = IF i = 1 THEN 0 ELSE chain'[a][i - 1].id
      <4>1. CASE n = 0
        <5>1. chain[a] = << >>  BY <1>1, <4>1, ChainFacts DEF Inv
        <5>2. QED  BY <1>1, <2>3, <4>1, <5>1
      <4>2. CASE n # 0
        <5>1. chain[a] # << >>  BY <4>2
        <5>2. i - 1 = n /\ n \in DOMAIN chain[a] /\ i # 1  BY <1>1, <2>3, <4>2
        <5>3. chain'[a][n] = chain[a][n]  BY <1>1, <5>2
        <5>4. QED  BY <5>1, <5>2, <5>3
      <4>3. QED  BY <4>1, <4>2
    <3>5. ASSUME NEW j \in DOMAIN chain'[a], j < i PROVE chain'[a][j].id < row.id
      <4>1. j \in DOMAIN chain[a] /\ chain'[a][j] = chain[a][j]
        BY <1>1, <2>3, <3>5
      <4>2. QED  BY <1>2, <4>1
    <3>6. QED  BY <2>3, <3>1, <3>2, <3>3, <3>4, <3>5
  <2>4. QED  BY <1>1, <2>1, <2>2, <2>3
<1>6. QED  BY <1>5 DEF ChainsAreOrdered

LEMMA CommitStep ==
    ASSUME ArtifactsAssumption, Inv, NEW e \in Editors, CommitEdit(e)
    PROVE  Inv'
<1>1. /\ req[e].at = "write"
      /\ overtaken' = IF making[req[e].artifact] = "inserted"
                      THEN overtaken \cup {req[e].artifact} ELSE overtaken
      /\ req' = [req EXCEPT ![e] = Idle]
      /\ UNCHANGED <<message, kind, original, making, stored, told, edits, faults>>
  BY DEF CommitEdit, EndEdit, Made
<1>2. req[e] \in EditRequests /\ Holds(req[e])
  BY DEF Inv, TypeOK, EditRequests, EditsHold
<1>3. req[e].artifact \in Artifacts /\ req[e].op \in {"append", "restore"}
  BY <1>1, <1>2 DEF Holds
<1>4. PICK a \in Artifacts : a = req[e].artifact
  BY <1>3
<1>5. PICK row : row = [id |-> NextId, index |-> req[e].index, parent |-> req[e].parent, author |-> e,
                  digest |-> req[e].digest, key |-> req[e].key,
                  origin |-> IF req[e].op = "restore" THEN "restore" ELSE "edit", of |-> req[e].of]
  OBVIOUS
<1>6. /\ row \in Revision /\ message /\ shown[a] # Absent
      /\ chain' = [chain EXCEPT ![a] = Append(@, row)]
      /\ row.index = Len(chain[a]) /\ row.id = NextId
      /\ row.parent = IF chain[a] = << >> THEN 0 ELSE chain[a][Len(chain[a])].id
  BY <1>4, <1>5, CommitFacts
<1>7. /\ row.digest = req[e].digest /\ row.key = req[e].key /\ row.of = req[e].of
      /\ row.origin = IF req[e].op = "restore" THEN "restore" ELSE "edit"
  BY <1>5
<1> DEFINE n == Len(chain[a])
<1>8. /\ chain' \in [Artifacts -> Seq(Revision)]
      /\ n \in Nat /\ DOMAIN chain[a] = 1..n /\ DOMAIN chain'[a] = 1..(n + 1)
      /\ chain'[a][n + 1] = row
      /\ \A i \in DOMAIN chain[a] : chain'[a][i] = chain[a][i] /\ i \in DOMAIN chain'[a]
      /\ \A i \in DOMAIN chain'[a] : i \in DOMAIN chain[a] \/ i = n + 1
      /\ \A b \in Artifacts : b # a => chain'[b] = chain[b]
      /\ \A b \in Artifacts : \A i : RevisionAt(b, i) \subseteq RevisionAt(b, i)'
  BY <1>6, RowAdded
<1>9. /\ row.origin # "restore" => \A b \in Artifacts : Restores(b)' = Restores(b)
      /\ row.origin = "restore" => Restores(a)' = Restores(a) \cup {n + 1}
      /\ \A b \in Artifacts : b # a => Restores(b)' = Restores(b)
  BY <1>6, RowAdded
<1>10. /\ shown' = [shown EXCEPT ![a] = Shows(e)]
  BY <1>4 DEF CommitEdit
<1>11. /\ \A b \in Artifacts : b # a => shown'[b] = shown[b]
       /\ shown'[a] = IF req[e].op = "restore" THEN row.key ELSE shown[a]
       /\ shown' \in [Artifacts -> Texts \cup {None, Absent}]
  <2>1. row.key \in Texts \cup {None}  BY <1>6 DEF Revision
  <2>2. shown \in [Artifacts -> Texts \cup {None, Absent}]  BY DEF Inv, TypeOK
  <2>3. Shows(e) = IF req[e].op = "restore" THEN row.key ELSE shown[a]
    BY <1>4, <1>7 DEF Shows
  <2>4. QED  BY <1>10, <2>1, <2>2, <2>3
<1>12. shown'[a] # Absent
  <2>1. row.key \in Texts \cup {None}  BY <1>6 DEF Revision
  <2>2. QED  BY <1>6, <1>11, <2>1, TwoArtifacts
<1>13. req' \in [Editors -> EditRequests] /\ EditsHold'
  <2>1. \A q : Holds(q) => Holds(q)'
    BY <1>1, <1>6, HoldsWhenGrown
  <2>2. req \in [Editors -> EditRequests]  BY DEF Inv, TypeOK, EditRequests
  <2>3. PICK i : i = Idle  OBVIOUS
  <2>4. i \in EditRequests /\ Holds(i)  BY <2>3, IdleHolds
  <2>5. \A f \in Editors : req'[f] = IF f = e THEN i ELSE req[f]
    BY <1>1, <2>2, <2>3
  <2>6. ASSUME NEW f \in Editors PROVE Holds(req[f])'
    <3>1. PICK p : p = req'[f]  OBVIOUS
    <3>2. Holds(p)  BY <2>4, <2>5, <3>1 DEF Inv, EditsHold
    <3>3. Holds(p)'  BY <2>1, <3>2
    <3>4. QED  BY <3>1, <3>3
  <2>7. req' \in [Editors -> EditRequests]  BY <1>1, <2>2, <2>3, <2>4
  <2>8. QED  BY <2>6, <2>7 DEF EditsHold
<1>14. TypeOK'
  <2>1. overtaken' \subseteq Artifacts  BY <1>1, <1>3 DEF Inv, TypeOK
  <2>2. QED  BY <1>1, <1>8, <1>11, <1>13, <2>1 DEF Inv, TypeOK, EditRequests
<1>15. ChainsAreOrdered'
  BY <1>6, OrderKept
<1>16. RowsComeFirst'
  <2>1. ASSUME NEW b \in Artifacts
        PROVE  /\ making'[b] = "stored" \/ shown'[b] # Absent => b \in stored'
               /\ making'[b] \in {"idle", "allowed", "stored"} => shown'[b] = Absent
               /\ shown'[b] = Absent => chain'[b] = << >>
               /\ ~message' => shown'[b] = Absent
               /\ message' /\ making'[b] \in {"inserted", "revised", "done"} => shown'[b] # Absent
    <3>1. /\ making[b] = "stored" \/ shown[b] # Absent => b \in stored
          /\ making[b] \in {"idle", "allowed", "stored"} => shown[b] = Absent
          /\ shown[b] = Absent => chain[b] = << >>
          /\ ~message => shown[b] = Absent
          /\ message /\ making[b] \in {"inserted", "revised", "done"} => shown[b] # Absent
      BY DEF Inv, RowsComeFirst
    <3>2. CASE b = a  BY <1>1, <1>6, <1>12, <3>1, <3>2
    <3>3. CASE b # a  BY <1>1, <1>8, <1>11, <3>1, <3>3
    <3>4. QED  BY <3>2, <3>3
  <2>2. QED  BY <2>1 DEF RowsComeFirst
<1>17. FirstRevisions'
  <2>1. ASSUME NEW b \in Artifacts
        PROVE  /\ making'[b] = "inserted" /\ b \notin overtaken' => chain'[b] = << >>
               /\ making'[b] = "revised" \/ (making'[b] = "done" /\ kind' # "upload") =>
                     /\ chain'[b] # << >>
                     /\ b \notin overtaken' => chain'[b][1].key = original'
    <3>1. /\ making[b] = "inserted" /\ b \notin overtaken => chain[b] = << >>
          /\ making[b] = "revised" \/ (making[b] = "done" /\ kind # "upload") =>
                /\ chain[b] # << >>
                /\ b \notin overtaken => chain[b][1].key = original
      BY <1>6 DEF Inv, FirstRevisions
    <3>2. overtaken \subseteq overtaken'  BY <1>1
    <3>3. CASE b # a
      BY <1>1, <1>8, <3>1, <3>2, <3>3
    <3>4. CASE b = a
      <4>1. making[a] = "inserted" => a \in overtaken'  BY <1>1, <1>4
      <4>2. chain'[a] # << >>
        <5>1. n + 1 \in DOMAIN chain'[a]  BY <1>8
        <5>2. QED  BY <5>1
      <4>3. chain[a] # << >> => chain'[a][1] = chain[a][1]
        <5>1. chain[a] # << >> => 1 \in DOMAIN chain[a]  BY <1>8, ChainFacts DEF Inv
        <5>2. QED  BY <1>8, <5>1
      <4>4. QED  BY <1>1, <3>1, <3>2, <3>4, <4>1, <4>2, <4>3
    <3>5. QED  BY <3>3, <3>4
  <2>2. kind' = "upload" => making'[Show] = "idle"
    BY <1>1 DEF Inv, FirstRevisions
  <2>3. QED  BY <2>1, <2>2 DEF FirstRevisions
<1>18. ToldIsTrue'
  BY <1>1 DEF Inv, ToldIsTrue
<1>19. RestoresRepeat'
  <2> SUFFICES ASSUME NEW b \in Artifacts, NEW i \in Restores(b)'
               PROVE  \E r \in RevisionAt(b, chain[b][i].of)' :
                          r.digest = chain'[b][i].digest /\ r.key = chain'[b][i].key
    BY DEF RestoresRepeat
  <2>1. CASE i \in Restores(b)
    <3>1. i \in DOMAIN chain[b]  BY <2>1 DEF Restores
    <3>2. chain'[b][i] = chain[b][i]  BY <1>8, <3>1
    <3>3. PICK r \in RevisionAt(b, chain[b][i].of) :
             r.digest = chain[b][i].digest /\ r.key = chain[b][i].key
      BY <2>1 DEF Inv, RestoresRepeat
    <3>4. PICK k : k = chain[b][i].of  OBVIOUS
    <3>5. r \in RevisionAt(b, k)'  BY <1>8, <3>3, <3>4
    <3>6. r \in RevisionAt(b, chain[b][i].of)'  BY <3>2, <3>4, <3>5
    <3>7. QED  BY <3>2, <3>3, <3>6
  <2>2. CASE i \notin Restores(b)
    <3>1. b = a /\ i = n + 1 /\ row.origin = "restore"  BY <1>9, <2>2
    <3>2. req[e].op = "restore"  BY <1>7, <3>1
    <3>3. PICK r \in RevisionAt(a, row.of) : r.digest = row.digest /\ r.key = row.key
      BY <1>1, <1>2, <1>4, <1>6, <1>7, <3>2 DEF Holds
    <3>4. r \in RevisionAt(a, row.of)'  BY <1>8, <3>3
    <3>5. chain'[b][i] = row  BY <1>8, <3>1
    <3>6. r \in RevisionAt(b, chain[b][i].of)'  BY <3>1, <3>4, <3>5 DEF RevisionAt
    <3>7. QED  BY <3>3, <3>5, <3>6
  <2>3. QED  BY <2>1, <2>2
<1>20. LastRestoreShows'
  <2> SUFFICES ASSUME NEW b \in Artifacts, shown'[b] # Absent
               PROVE  \/ Restores(b)' = {} /\ shown'[b] = original
                      \/ \E i \in Restores(b)' : /\ \A k \in Restores(b)' : k <= i
                                                 /\ shown'[b] = chain'[b][i].key
    BY <1>1 DEF LastRestoreShows
  <2>1. CASE b # a \/ row.origin # "restore"
    <3>1. shown'[b] = shown[b] /\ Restores(b)' = Restores(b)
      <4>1. row.origin # "restore" => shown'[a] = shown[a]  BY <1>7, <1>11
      <4>2. QED  BY <1>9, <1>11, <2>1, <4>1
    <3>2. \A i \in Restores(b) : chain'[b][i] = chain[b][i]
      BY <1>8 DEF Restores
    <3>3. QED  BY <3>1, <3>2 DEF Inv, LastRestoreShows
  <2>2. CASE b = a /\ row.origin = "restore"
    <3>1. n + 1 \in Restores(a)' /\ chain'[a][n + 1] = row  BY <1>8, <1>9, <2>2
    <3>2. \A k \in Restores(a)' : k <= n + 1
      <4>1. Restores(a)' \subseteq DOMAIN chain'[a]  BY DEF Restores
      <4>2. QED  BY <1>8, <4>1
    <3>3. shown'[a] = row.key  BY <1>7, <1>11, <2>2
    <3>4. QED  BY <2>2, <3>1, <3>2, <3>3
  <2>3. QED  BY <2>1, <2>2
<1>21. QED  BY <1>13, <1>14, <1>15, <1>16, <1>17, <1>18, <1>19, <1>20 DEF Inv

-----------------------------------------------------------------------------
(***************************************************************************)
(* Making an artifact.                                                     *)
(***************************************************************************)
\* A step of the maker that touches neither rows nor revisions.
LEMMA MakerOnly ==
    ASSUME ArtifactsAssumption, Inv,
           UNCHANGED <<message, kind, original, shown, chain, req, overtaken, edits>>,
           stored \subseteq stored', stored' \subseteq Artifacts,
           making' \in [Artifacts -> Steps],
           told' \in {"nothing", "creating", "created", "failed"}, faults' \in 0..MaxFaults,
           \A a \in Artifacts :
               /\ making'[a] = "stored" => a \in stored'
               /\ making'[a] \in {"idle", "allowed", "stored"} =>
                      making[a] \in {"idle", "allowed", "stored"}
               /\ making'[a] \in {"inserted", "revised", "done"} =>
                      \/ making'[a] = making[a]
                      \/ making[a] = "revised" /\ making'[a] = "done",
           FirstRevisions', ToldIsTrue'
    PROVE  Inv'
<1>1. TypeOK'
  BY DEF Inv, TypeOK
<1>2. /\ ChainsAreOrdered' /\ RestoresRepeat' /\ \A a : Restores(a)' = Restores(a)
      /\ \A q : Holds(q) => Holds(q)'
  BY ChainsKept
<1>3. EditsHold'
  <2>1. ASSUME NEW e \in Editors PROVE Holds(req[e])'
    <3>1. PICK p : p = req[e]  OBVIOUS
    <3>2. Holds(p)  BY <3>1 DEF Inv, EditsHold
    <3>3. QED  BY <1>2, <3>1, <3>2
  <2>2. QED  BY <2>1 DEF EditsHold
<1>4. RowsComeFirst'
  <2>1. ASSUME NEW a \in Artifacts
        PROVE  /\ making'[a] = "stored" \/ shown[a] # Absent => a \in stored'
               /\ making'[a] \in {"idle", "allowed", "stored"} => shown[a] = Absent
               /\ shown[a] = Absent => chain[a] = << >>
               /\ ~message => shown[a] = Absent
               /\ message /\ making'[a] \in {"inserted", "revised", "done"} => shown[a] # Absent
    BY DEF Inv, RowsComeFirst
  <2>2. QED  BY <2>1 DEF RowsComeFirst
<1>5. LastRestoreShows'
  BY <1>2 DEF Inv, LastRestoreShows
<1>6. QED  BY <1>1, <1>2, <1>3, <1>4, <1>5 DEF Inv

LEMMA OneStep ==
    ASSUME Inv, NEW a \in Artifacts, NEW step \in Steps, making' = [making EXCEPT ![a] = step]
    PROVE  /\ making' \in [Artifacts -> Steps] /\ making'[a] = step
           /\ \A b \in Artifacts : b # a => making'[b] = making[b]
BY DEF Inv, TypeOK

LEMMA BeginStep ==
    ASSUME ArtifactsAssumption, Inv, NEW a \in Artifacts, Begin(a)
    PROVE  Inv'
<1>1. /\ making[a] = "idle" /\ (a = Show => kind = "pptx" /\ making[Main] = "revised")
      /\ making' = [making EXCEPT ![a] = IF message THEN "allowed" ELSE "failed"]
      /\ UNCHANGED <<message, kind, original, stored, shown, chain, faults, req, overtaken, edits>>
  BY DEF Begin, Unedited
<1>2. /\ a = Show => told' = told
      /\ a = Main /\ message => told' = "creating"
      /\ a = Main /\ ~message => told' = "failed"
  BY TwoArtifacts DEF Begin
<1>3. PICK step \in {"allowed", "failed"} : /\ step = IF message THEN "allowed" ELSE "failed"
                                            /\ making' = [making EXCEPT ![a] = step]
  BY <1>1
<1>4. /\ making' \in [Artifacts -> Steps] /\ making'[a] = step
      /\ \A b \in Artifacts : b # a => making'[b] = making[b]
  BY <1>3, OneStep DEF Steps
<1>5. told' \in {"nothing", "creating", "created", "failed"} /\ stored \subseteq Artifacts
      /\ faults' \in 0..MaxFaults /\ a \in {Main, Show} /\ Main # Show
      /\ Main \in Artifacts /\ Show \in Artifacts
  <2>1. told \in {"nothing", "creating", "created", "failed"} /\ stored \subseteq Artifacts
        /\ faults \in 0..MaxFaults
    BY DEF Inv, TypeOK
  <2>2. a \in {Main, Show} /\ Main # Show  BY TwoArtifacts
  <2>3. QED  BY <1>1, <1>2, <2>1, <2>2, TwoArtifacts
<1>6. FirstRevisions'
  <2>1. kind' = "upload" => making'[Show] = "idle"
    BY <1>1, <1>4, <1>5 DEF Inv, FirstRevisions
  <2>2. ASSUME NEW b \in Artifacts, message'
        PROVE  /\ making'[b] = "inserted" /\ b \notin overtaken' => chain'[b] = << >>
               /\ making'[b] = "revised" \/ (making'[b] = "done" /\ kind' # "upload") =>
                     /\ chain'[b] # << >>
                     /\ b \notin overtaken' => chain'[b][1].key = original'
    <3>1. CASE b = a  BY <1>1, <1>3, <1>4, <2>2, <3>1
    <3>2. CASE b # a  BY <1>1, <1>4, <2>2, <3>2 DEF Inv, FirstRevisions
    <3>3. QED  BY <3>1, <3>2
  <2>3. QED  BY <2>1, <2>2 DEF FirstRevisions
<1>7. ToldIsTrue'
  <2>1. CASE a = Main  BY <1>1, <1>2, <2>1 DEF ToldIsTrue
  <2>2. CASE a = Show
    <3>1. told # "created"  BY <1>1, <2>2 DEF Inv, ToldIsTrue
    <3>2. told' = told  BY <1>2, <2>2
    <3>3. QED  BY <1>1, <3>1, <3>2 DEF Inv, ToldIsTrue
  <2>3. QED  BY <1>5, <2>1, <2>2
<1>8. \A b \in Artifacts :
          /\ making'[b] = "stored" => b \in stored'
          /\ making'[b] \in {"idle", "allowed", "stored"} => making[b] \in {"idle", "allowed", "stored"}
          /\ making'[b] \in {"inserted", "revised", "done"} => making'[b] = making[b]
  BY <1>1, <1>3, <1>4 DEF Inv, RowsComeFirst
<1>9. stored \subseteq stored' /\ stored' \subseteq Artifacts  BY <1>1, <1>5
<1>10. QED  BY <1>1, <1>4, <1>5, <1>6, <1>7, <1>8, <1>9, MakerOnly

LEMMA WriteObjectStep ==
    ASSUME ArtifactsAssumption, Inv, NEW a \in Artifacts, WriteObject(a)
    PROVE  Inv'
<1>1. /\ making[a] = "allowed" /\ stored' = stored \cup {a}
      /\ making' = [making EXCEPT ![a] = "stored"] /\ told' = told
      /\ UNCHANGED <<message, kind, original, shown, chain, faults, req, overtaken, edits>>
  BY DEF WriteObject, Reaches, Unedited
<1>2. /\ making' \in [Artifacts -> Steps] /\ making'[a] = "stored"
      /\ \A b \in Artifacts : b # a => making'[b] = making[b]
  <2>1. "stored" \in Steps  BY DEF Steps
  <2>2. QED  BY <1>1, <2>1, OneStep
<1>3. /\ told' \in {"nothing", "creating", "created", "failed"} /\ stored' \subseteq Artifacts
      /\ stored \subseteq stored' /\ faults' \in 0..MaxFaults
  BY <1>1 DEF Inv, TypeOK
<1>4. Main \in Artifacts /\ Show \in Artifacts  BY TwoArtifacts
<1>5. FirstRevisions'
  <2>1. kind' = "upload" => making'[Show] = "idle"
    BY <1>1, <1>2, <1>4 DEF Inv, FirstRevisions
  <2>2. ASSUME NEW b \in Artifacts, message'
        PROVE  /\ making'[b] = "inserted" /\ b \notin overtaken' => chain'[b] = << >>
               /\ making'[b] = "revised" \/ (making'[b] = "done" /\ kind' # "upload") =>
                     /\ chain'[b] # << >>
                     /\ b \notin overtaken' => chain'[b][1].key = original'
    <3>1. CASE b = a  BY <1>2, <3>1
    <3>2. CASE b # a  BY <1>1, <1>2, <2>2, <3>2 DEF Inv, FirstRevisions
    <3>3. QED  BY <3>1, <3>2
  <2>3. QED  BY <2>1, <2>2 DEF FirstRevisions
<1>6. ToldIsTrue'
  <2>1. told = "created" => /\ making'[Main] = "done"
                            /\ kind = "pptx" => making'[Show] \in {"done", "failed"}
    BY <1>1, <1>2, <1>4 DEF Inv, ToldIsTrue
  <2>2. QED  BY <1>1, <2>1 DEF Inv, ToldIsTrue
<1>7. \A b \in Artifacts :
          /\ making'[b] = "stored" => b \in stored'
          /\ making'[b] \in {"idle", "allowed", "stored"} => making[b] \in {"idle", "allowed", "stored"}
          /\ making'[b] \in {"inserted", "revised", "done"} => making'[b] = making[b]
  BY <1>1, <1>2 DEF Inv, RowsComeFirst
<1>8. QED  BY <1>1, <1>2, <1>3, <1>5, <1>6, <1>7, MakerOnly

\* The calls that make a fail, before they are done.
LEMMA FailsStep ==
    ASSUME ArtifactsAssumption, Inv, NEW a \in Artifacts, Fails(a),
           making[a] \in {"allowed", "stored", "inserted"},
           UNCHANGED <<message, kind, original, stored, shown, chain, req, overtaken, edits>>,
           faults' \in 0..MaxFaults, faults' >= faults, faults' > faults \/ ~message
    PROVE  Inv'
<1>1. /\ making' = [making EXCEPT ![a] = "failed"]
      /\ told' = IF a = Main THEN "failed" ELSE told
  BY DEF Fails
<1>2. /\ making' \in [Artifacts -> Steps] /\ making'[a] = "failed"
      /\ \A b \in Artifacts : b # a => making'[b] = making[b]
  <2>1. "failed" \in Steps  BY DEF Steps
  <2>2. QED  BY <1>1, <2>1, OneStep
<1>3. /\ told' \in {"nothing", "creating", "created", "failed"} /\ stored' \subseteq Artifacts
      /\ stored \subseteq stored'
  BY <1>1 DEF Inv, TypeOK
<1>4. Main \in Artifacts /\ Show \in Artifacts  BY TwoArtifacts
<1>5. FirstRevisions'
  <2>1. kind' = "upload" => making'[Show] = "idle"
    BY <1>1, <1>2, <1>4 DEF Inv, FirstRevisions
  <2>2. ASSUME NEW b \in Artifacts, message'
        PROVE  /\ making'[b] = "inserted" /\ b \notin overtaken' => chain'[b] = << >>
               /\ making'[b] = "revised" \/ (making'[b] = "done" /\ kind' # "upload") =>
                     /\ chain'[b] # << >>
                     /\ b \notin overtaken' => chain'[b][1].key = original'
    <3>1. CASE b = a  BY <1>2, <3>1
    <3>2. CASE b # a  BY <1>1, <1>2, <2>2, <3>2 DEF Inv, FirstRevisions
    <3>3. QED  BY <3>1, <3>2
  <2>3. QED  BY <2>1, <2>2 DEF FirstRevisions
<1>6. ToldIsTrue'
  <2>1. told = "created" => making[Main] = "done"
    BY DEF Inv, ToldIsTrue
  <2>2. told' = "created" => a # Main /\ told = "created"
    BY <1>1
  <2>3. told' = "created" => /\ making'[Main] = "done"
                             /\ kind = "pptx" => making'[Show] \in {"done", "failed"}
    BY <1>2, <1>4, <2>2 DEF Inv, ToldIsTrue
  <2>4. told' = "failed" /\ message => faults' > 0
    <3>1. faults \in Nat /\ faults' \in Nat  BY DEF Inv, TypeOK
    <3>2. CASE message
      BY <3>1, <3>2
    <3>3. QED  BY <3>2
  <2>5. QED  BY <2>3, <2>4 DEF ToldIsTrue
<1>7. \A b \in Artifacts :
          /\ making'[b] = "stored" => b \in stored'
          /\ making'[b] \in {"idle", "allowed", "stored"} => making[b] \in {"idle", "allowed", "stored"}
          /\ making'[b] \in {"inserted", "revised", "done"} => making'[b] = making[b]
  BY <1>1, <1>2 DEF Inv, RowsComeFirst
<1>8. QED  BY <1>2, <1>3, <1>5, <1>6, <1>7, MakerOnly

LEMMA CallFailsStep ==
    ASSUME ArtifactsAssumption, Inv, NEW a \in Artifacts, CallFails(a)
    PROVE  Inv'
<1>1. /\ making[a] \in {"allowed", "stored", "inserted"} /\ Fails(a)
      /\ faults < MaxFaults /\ faults' = faults + 1
      /\ UNCHANGED <<message, kind, original, stored, shown, chain, req, overtaken, edits>>
  BY DEF CallFails, Unedited
<1>2. faults' \in 0..MaxFaults /\ faults' >= faults /\ faults' > faults
  BY <1>1, TwoArtifacts DEF Inv, TypeOK
<1>3. QED  BY <1>1, <1>2, FailsStep

LEMMA AnnounceStep ==
    ASSUME ArtifactsAssumption, Inv, Announce
    PROVE  Inv'
<1>1. /\ making[Main] = "revised" /\ (kind = "pptx" => making[Show] \in {"done", "failed"})
      /\ making' = [making EXCEPT ![Main] = "done"] /\ told' = "created"
      /\ UNCHANGED <<message, kind, original, stored, shown, chain, faults, req, overtaken, edits>>
  BY DEF Announce, Unedited
<1>2. Main \in Artifacts /\ Show \in Artifacts /\ Main # Show  BY TwoArtifacts
<1>3. /\ making' \in [Artifacts -> Steps] /\ making'[Main] = "done"
      /\ \A b \in Artifacts : b # Main => making'[b] = making[b]
  <2>1. "done" \in Steps  BY DEF Steps
  <2>2. QED  BY <1>1, <1>2, <2>1, OneStep
<1>4. /\ told' \in {"nothing", "creating", "created", "failed"} /\ stored' \subseteq Artifacts
      /\ stored \subseteq stored' /\ faults' \in 0..MaxFaults
  BY <1>1 DEF Inv, TypeOK
<1>5. FirstRevisions'
  <2>1. kind' = "upload" => making'[Show] = "idle"
    BY <1>1, <1>2, <1>3 DEF Inv, FirstRevisions
  <2>2. ASSUME NEW b \in Artifacts, message'
        PROVE  /\ making'[b] = "inserted" /\ b \notin overtaken' => chain'[b] = << >>
               /\ making'[b] = "revised" \/ (making'[b] = "done" /\ kind' # "upload") =>
                     /\ chain'[b] # << >>
                     /\ b \notin overtaken' => chain'[b][1].key = original'
    <3>1. CASE b = Main
      <4>1. chain[b] # << >> /\ (b \notin overtaken => chain[b][1].key = original)
        BY <1>1, <2>2, <3>1 DEF Inv, FirstRevisions
      <4>2. QED  BY <1>1, <1>3, <3>1, <4>1
    <3>2. CASE b # Main  BY <1>1, <1>3, <2>2, <3>2 DEF Inv, FirstRevisions
    <3>3. QED  BY <3>1, <3>2
  <2>3. QED  BY <2>1, <2>2 DEF FirstRevisions
<1>6. ToldIsTrue'
  BY <1>1, <1>2, <1>3 DEF ToldIsTrue
<1>7. \A b \in Artifacts :
          /\ making'[b] = "stored" => b \in stored'
          /\ making'[b] \in {"idle", "allowed", "stored"} => making[b] \in {"idle", "allowed", "stored"}
          /\ making'[b] \in {"inserted", "revised", "done"} =>
                 making'[b] = making[b] \/ (making[b] = "revised" /\ making'[b] = "done")
  BY <1>1, <1>3 DEF Inv, RowsComeFirst
<1>8. QED  BY <1>1, <1>3, <1>4, <1>5, <1>6, <1>7, MakerOnly

\* The API forgets all its calls.
LEMMA CrashStep ==
    ASSUME ArtifactsAssumption, Inv, Crash
    PROVE  Inv'
<1>1. /\ faults < MaxFaults /\ faults' = faults + 1
      /\ making' = [a \in Artifacts |-> IF making[a] \in InFlight THEN "crashed" ELSE making[a]]
      /\ req' = [e \in Editors |-> Idle]
      /\ UNCHANGED <<message, kind, original, stored, shown, chain, told, overtaken, edits>>
  BY DEF Crash
<1>2. Main \in Artifacts /\ Show \in Artifacts  BY TwoArtifacts
<1>3. making \in [Artifacts -> Steps] /\ making' \in [Artifacts -> Steps]
  BY <1>1 DEF Inv, TypeOK, Steps
<1>4. \A a \in Artifacts :
         \/ making'[a] = making[a] /\ making[a] \notin InFlight
         \/ making'[a] = "crashed" /\ making[a] \in InFlight
  BY <1>1
<1>5. faults' \in 0..MaxFaults /\ faults' > 0 /\ faults' >= faults
  BY <1>1, TwoArtifacts DEF Inv, TypeOK
<1>6. req' \in [Editors -> EditRequests] /\ EditsHold'
  <2>1. Idle \in EditRequests /\ Holds(Idle)  BY IdleHolds
  <2>2. req' \in [Editors -> EditRequests]  BY <1>1, <2>1
  <2>3. PICK i : i = Idle  OBVIOUS
  <2>4. Holds(i)'  BY <1>1, <2>1, <2>3, ChainsKept
  <2>5. ASSUME NEW e \in Editors PROVE Holds(req[e])'
    <3>1. req'[e] = i  BY <1>1, <2>3
    <3>2. QED  BY <2>4, <3>1
  <2>6. QED  BY <2>2, <2>5 DEF EditsHold
<1>7. TypeOK'
  BY <1>1, <1>3, <1>5, <1>6 DEF Inv, TypeOK, EditRequests
<1>8. ChainsAreOrdered' /\ RestoresRepeat' /\ \A a : Restores(a)' = Restores(a)
  BY <1>1, ChainsKept
<1>9. RowsComeFirst'
  BY <1>1, <1>4 DEF Inv, RowsComeFirst
<1>10. FirstRevisions'
  <2>1. kind' = "upload" => making'[Show] = "idle"
    BY <1>1, <1>2, <1>4 DEF Inv, FirstRevisions, InFlight
  <2>2. QED  BY <1>1, <1>4, <2>1 DEF Inv, FirstRevisions, InFlight
<1>11. ToldIsTrue'
  BY <1>1, <1>2, <1>4, <1>5 DEF Inv, ToldIsTrue, InFlight
<1>12. LastRestoreShows'
  BY <1>1, <1>8 DEF Inv, LastRestoreShows
<1>13. QED  BY <1>6, <1>7, <1>8, <1>9, <1>10, <1>11, <1>12 DEF Inv

LEMMA InsertArtifactStep ==
    ASSUME ArtifactsAssumption, Inv, NEW a \in Artifacts, InsertArtifact(a)
    PROVE  Inv'
<1>1. /\ making[a] = "stored"
      /\ UNCHANGED <<message, kind, original, stored, chain, faults, req, overtaken, edits>>
  BY DEF InsertArtifact, Unedited
<1>2. CASE ~message
  <2>1. Fails(a) /\ shown' = shown  BY <1>2 DEF InsertArtifact
  <2>2. faults' \in 0..MaxFaults /\ faults' >= faults
    BY <1>1, TwoArtifacts DEF Inv, TypeOK
  <2>3. QED  BY <1>1, <1>2, <2>1, <2>2, FailsStep
<1>3. CASE message
  <2>1. /\ shown' = [shown EXCEPT ![a] = original]
        /\ \/ /\ kind = "upload" /\ making' = [making EXCEPT ![a] = "done"] /\ told' = "created"
           \/ /\ kind # "upload" /\ making' = [making EXCEPT ![a] = "inserted"] /\ told' = told
    BY <1>3 DEF InsertArtifact, Reaches
  <2>2. Main \in Artifacts /\ Show \in Artifacts /\ Main # Show /\ (a = Main \/ a = Show)
    BY TwoArtifacts
  <2>3. original \in Texts /\ original # Absent
    BY TwoArtifacts DEF Inv, TypeOK
  <2>4. /\ shown' \in [Artifacts -> Texts \cup {None, Absent}] /\ shown'[a] = original
        /\ \A b \in Artifacts : b # a => shown'[b] = shown[b]
    BY <2>1, <2>3 DEF Inv, TypeOK
  <2>5. PICK step \in {"done", "inserted"} :
           /\ making' = [making EXCEPT ![a] = step]
           /\ kind = "upload" => step = "done" /\ told' = "created"
           /\ kind # "upload" => step = "inserted" /\ told' = told
    BY <2>1
  <2>6. /\ making' \in [Artifacts -> Steps] /\ making'[a] = step
        /\ \A b \in Artifacts : b # a => making'[b] = making[b]
    BY <2>5, OneStep DEF Steps
  <2>7. shown[a] = Absent /\ chain[a] = << >> /\ a \in stored
    BY <1>1 DEF Inv, RowsComeFirst
  <2>8. TypeOK'
    <3>1. told' \in {"nothing", "creating", "created", "failed"}
      BY <2>5 DEF Inv, TypeOK
    <3>2. QED  BY <1>1, <2>4, <2>6, <3>1 DEF Inv, TypeOK
  <2>9. /\ ChainsAreOrdered' /\ RestoresRepeat' /\ \A b : Restores(b)' = Restores(b)
        /\ \A q : Holds(q) => Holds(q)'
    BY <1>1, ChainsKept
  <2>10. EditsHold'
    <3>1. ASSUME NEW e \in Editors PROVE Holds(req[e])'
      <4>1. PICK p : p = req[e]  OBVIOUS
      <4>2. Holds(p)  BY <4>1 DEF Inv, EditsHold
      <4>3. QED  BY <1>1, <2>9, <4>1, <4>2
    <3>2. QED  BY <3>1 DEF EditsHold
  <2>11. RowsComeFirst'
    <3>1. ASSUME NEW b \in Artifacts
          PROVE  /\ making'[b] = "stored" \/ shown'[b] # Absent => b \in stored
                 /\ making'[b] \in {"idle", "allowed", "stored"} => shown'[b] = Absent
                 /\ shown'[b] = Absent => chain[b] = << >>
                 /\ making'[b] \in {"inserted", "revised", "done"} => shown'[b] # Absent
      <4>1. CASE b = a  BY <2>3, <2>4, <2>6, <2>7, <4>1
      <4>2. CASE b # a
        BY <1>3, <2>4, <2>6, <4>2 DEF Inv, RowsComeFirst
      <4>3. QED  BY <4>1, <4>2
    <3>2. QED  BY <1>1, <1>3, <3>1 DEF RowsComeFirst
  <2>12. kind = "upload" => a = Main
    BY <1>1, <2>2 DEF Inv, FirstRevisions
  <2>13. FirstRevisions'
    <3>1. kind' = "upload" => making'[Show] = "idle"
      BY <1>1, <2>2, <2>6, <2>12 DEF Inv, FirstRevisions
    <3>2. ASSUME NEW b \in Artifacts
          PROVE  /\ making'[b] = "inserted" /\ b \notin overtaken' => chain'[b] = << >>
                 /\ making'[b] = "revised" \/ (making'[b] = "done" /\ kind' # "upload") =>
                       /\ chain'[b] # << >>
                       /\ b \notin overtaken' => chain'[b][1].key = original'
      <4>1. CASE b = a  BY <1>1, <2>5, <2>6, <2>7, <4>1
      <4>2. CASE b # a  BY <1>1, <1>3, <2>6, <4>2 DEF Inv, FirstRevisions
      <4>3. QED  BY <4>1, <4>2
    <3>3. QED  BY <3>1, <3>2 DEF FirstRevisions
  <2>14. ToldIsTrue'
    <3>1. CASE kind = "upload"
      BY <1>1, <2>5, <2>6, <2>12, <3>1 DEF ToldIsTrue
    <3>2. CASE kind # "upload"
      <4>1. told = "created" => a = Show /\ kind # "pptx"
        BY <1>1, <2>2 DEF Inv, ToldIsTrue
      <4>2. told = "created" => making'[Main] = "done"
        BY <2>2, <2>6, <4>1 DEF Inv, ToldIsTrue
      <4>3. told' = told  BY <2>5, <3>2
      <4>4. QED  BY <1>1, <4>1, <4>2, <4>3 DEF Inv, ToldIsTrue
    <3>3. QED  BY <3>1, <3>2
  <2>15. LastRestoreShows'
    <3>1. ASSUME NEW b \in Artifacts, shown'[b] # Absent
          PROVE  \/ Restores(b)' = {} /\ shown'[b] = original
                 \/ \E i \in Restores(b)' : /\ \A k \in Restores(b)' : k <= i
                                            /\ shown'[b] = chain[b][i].key
      <4>1. CASE b = a
        <5>1. Restores(a) = {}  BY <2>7 DEF Restores
        <5>2. QED  BY <2>4, <2>9, <4>1, <5>1
      <4>2. CASE b # a
        <5>1. shown'[b] = shown[b] /\ Restores(b)' = Restores(b)  BY <2>4, <2>9, <4>2
        <5>2. QED  BY <3>1, <5>1 DEF Inv, LastRestoreShows
      <4>3. QED  BY <4>1, <4>2
    <3>2. QED  BY <1>1, <3>1 DEF LastRestoreShows
  <2>16. QED  BY <2>8, <2>9, <2>10, <2>11, <2>13, <2>14, <2>15 DEF Inv
<1>4. QED  BY <1>2, <1>3

LEMMA InitialRevisionStep ==
    ASSUME ArtifactsAssumption, Inv, NEW a \in Artifacts, InitialRevision(a)
    PROVE  Inv'
<1>1. /\ making[a] = "inserted"
      /\ UNCHANGED <<message, kind, original, stored, shown, faults, req, overtaken, edits>>
  BY DEF InitialRevision, Unedited
<1>2. CASE ~message
  <2>1. Fails(a) /\ chain' = chain  BY <1>2 DEF InitialRevision
  <2>2. faults' \in 0..MaxFaults /\ faults' >= faults
    BY <1>1, TwoArtifacts DEF Inv, TypeOK
  <2>3. QED  BY <1>1, <1>2, <2>1, <2>2, FailsStep
<1>3. CASE message
  <2>1. PICK row : row = [id |-> NextId, index |-> 0, parent |-> 0, author |-> Owner,
                          digest |-> original, key |-> original, origin |-> "initial", of |-> 0]
    OBVIOUS
  <2>2. /\ chain' = [chain EXCEPT ![a] = IF @ = << >> THEN <<row>> ELSE @]
        /\ making' = [making EXCEPT ![a] = IF a = Show THEN "done" ELSE "revised"]
        /\ told' = told
    BY <1>3, <2>1 DEF InitialRevision, Reaches
  <2>3. PICK step \in {"done", "revised"} :
           /\ making' = [making EXCEPT ![a] = step]
           /\ step = IF a = Show THEN "done" ELSE "revised"
    BY <2>2
  <2>4. /\ making' \in [Artifacts -> Steps] /\ making'[a] = step
        /\ \A b \in Artifacts : b # a => making'[b] = making[b]
    BY <2>3, OneStep DEF Steps
  <2>5. row \in Revision /\ row.key = original /\ row.origin # "restore"
    <3>1. NextId \in Nat  BY NextIds DEF Inv
    <3>2. original \in Texts  BY DEF Inv, TypeOK
    <3>3. QED  BY <2>1, <3>1, <3>2 DEF Revision
  <2>6. Main \in Artifacts /\ Show \in Artifacts /\ Main # Show /\ (a = Main \/ a = Show)
    BY TwoArtifacts
  <2>7. ToldIsTrue'
    <3>1. told = "created" => /\ making'[Main] = "done"
                              /\ kind = "pptx" => making'[Show] \in {"done", "failed"}
      BY <1>1, <2>4, <2>6 DEF Inv, ToldIsTrue
    <3>2. QED  BY <1>1, <2>2, <3>1 DEF Inv, ToldIsTrue
  \* The part that does not depend on whether the chain had begun.
  <2>8. ASSUME chain' \in [Artifacts -> Seq(Revision)],
               ChainsAreOrdered', RestoresRepeat', \A b \in Artifacts : Restores(b)' = Restores(b),
               \A q : Holds(q) => Holds(q)',
               \A b \in Artifacts : b # a => chain'[b] = chain[b],
               \A b \in Artifacts : \A i \in Restores(b) : chain'[b][i] = chain[b][i],
               chain'[a] # << >>, a \notin overtaken => chain'[a][1].key = original
        PROVE  Inv'
    <3>1. TypeOK'
      BY <1>1, <2>2, <2>4, <2>8 DEF Inv, TypeOK
    <3>2. EditsHold'
      <4>1. ASSUME NEW e \in Editors PROVE Holds(req[e])'
        <5>1. PICK p : p = req[e]  OBVIOUS
        <5>2. Holds(p)  BY <5>1 DEF Inv, EditsHold
        <5>3. QED  BY <1>1, <2>8, <5>1, <5>2
      <4>2. QED  BY <4>1 DEF EditsHold
    <3>3. RowsComeFirst'
      <4>1. ASSUME NEW b \in Artifacts
            PROVE  /\ making'[b] = "stored" \/ shown[b] # Absent => b \in stored
                   /\ making'[b] \in {"idle", "allowed", "stored"} => shown[b] = Absent
                   /\ shown[b] = Absent => chain'[b] = << >>
                   /\ making'[b] \in {"inserted", "revised", "done"} => shown[b] # Absent
        <5>1. CASE b = a
          <6>1. shown[a] # Absent /\ a \in stored  BY <1>1, <1>3 DEF Inv, RowsComeFirst
          <6>2. QED  BY <2>4, <5>1, <6>1
        <5>2. CASE b # a
          BY <1>3, <2>4, <2>8, <5>2 DEF Inv, RowsComeFirst
        <5>3. QED  BY <5>1, <5>2
      <4>2. QED  BY <1>1, <1>3, <4>1 DEF RowsComeFirst
    <3>4. FirstRevisions'
      <4>1. kind' = "upload" => making'[Show] = "idle"
        BY <1>1, <2>4, <2>6 DEF Inv, FirstRevisions
      <4>2. ASSUME NEW b \in Artifacts
            PROVE  /\ making'[b] = "inserted" /\ b \notin overtaken' => chain'[b] = << >>
                   /\ making'[b] = "revised" \/ (making'[b] = "done" /\ kind' # "upload") =>
                         /\ chain'[b] # << >>
                         /\ b \notin overtaken' => chain'[b][1].key = original'
        <5>1. CASE b = a  BY <1>1, <2>4, <2>8, <5>1
        <5>2. CASE b # a  BY <1>1, <1>3, <2>4, <2>8, <5>2 DEF Inv, FirstRevisions
        <5>3. QED  BY <5>1, <5>2
      <4>3. QED  BY <4>1, <4>2 DEF FirstRevisions
    <3>5. LastRestoreShows'
      BY <1>1, <2>8 DEF Inv, LastRestoreShows
    <3>6. QED  BY <2>7, <2>8, <3>1, <3>2, <3>3, <3>4, <3>5 DEF Inv
  <2>9. chain \in [Artifacts -> Seq(Revision)]
    BY DEF Inv, TypeOK
  <2>10. CASE chain[a] = << >>
    <3>1. chain' = [chain EXCEPT ![a] = Append(@, row)]
      BY <2>2, <2>9, <2>10
    <3>2. /\ chain' \in [Artifacts -> Seq(Revision)]
          /\ chain'[a][Len(chain[a]) + 1] = row
          /\ DOMAIN chain'[a] = 1..(Len(chain[a]) + 1)
          /\ \A b \in Artifacts : b # a => chain'[b] = chain[b]
          /\ \A b \in Artifacts : \A i : RevisionAt(b, i) \subseteq RevisionAt(b, i)'
          /\ \A b \in Artifacts : Restores(b)' = Restores(b)
      BY <2>5, <3>1, RowAdded
    <3>3. chain'[a] # << >> /\ chain'[a][1] = row
      <4>1. Len(chain[a]) = 0  BY <2>10
      <4>2. 1 \in DOMAIN chain'[a] /\ chain'[a][1] = row  BY <3>2, <4>1
      <4>3. QED  BY <4>2
    <3>4. Restores(a) = {}  BY <2>10 DEF Restores
    <3>5. \A b \in Artifacts : \A i \in Restores(b) : chain'[b][i] = chain[b][i]
      BY <3>2, <3>4
    <3>6. \A q : Holds(q) => Holds(q)'
      BY <1>1, <2>5, <3>1, HoldsWhenGrown
    <3>7. ChainsAreOrdered'
      <4>1. row.index = Len(chain[a]) /\ row.id = NextId /\ row.parent = 0
        BY <2>1, <2>10
      <4>2. QED  BY <2>5, <2>10, <3>1, <4>1, OrderKept
    <3>8. RestoresRepeat'
      <4> SUFFICES ASSUME NEW b \in Artifacts, NEW i \in Restores(b)
                   PROVE  \E r \in RevisionAt(b, chain[b][i].of)' :
                              r.digest = chain'[b][i].digest /\ r.key = chain'[b][i].key
        BY <3>2 DEF RestoresRepeat
      <4>1. PICK r \in RevisionAt(b, chain[b][i].of) :
               r.digest = chain[b][i].digest /\ r.key = chain[b][i].key
        BY DEF Inv, RestoresRepeat
      <4>2. PICK k : k = chain[b][i].of  OBVIOUS
      <4>3. r \in RevisionAt(b, k)'  BY <3>2, <4>1, <4>2
      <4>4. chain'[b][i] = chain[b][i]  BY <3>5
      <4>5. r \in RevisionAt(b, chain[b][i].of)'  BY <4>2, <4>3, <4>4
      <4>6. QED  BY <4>1, <4>4, <4>5
    <3>9. QED  BY <2>5, <2>8, <3>2, <3>3, <3>5, <3>6, <3>7, <3>8
  <2>11. CASE chain[a] # << >>
    <3>1. chain' = chain  BY <2>2, <2>9, <2>11
    <3>2. /\ ChainsAreOrdered' /\ RestoresRepeat' /\ \A b : Restores(b)' = Restores(b)
          /\ \A q : Holds(q) => Holds(q)'
      BY <1>1, <3>1, ChainsKept
    <3>3. a \in overtaken
      BY <1>1, <1>3, <2>11 DEF Inv, FirstRevisions
    <3>4. QED  BY <2>8, <2>9, <2>11, <3>1, <3>2, <3>3
  <2>12. QED  BY <2>10, <2>11
<1>4. QED  BY <1>2, <1>3

\* The message goes, and everything that hangs on it.
LEMMA DeleteMessageStep ==
    ASSUME ArtifactsAssumption, Inv, DeleteMessage
    PROVE  Inv'
<1>1. /\ message' = FALSE /\ ~message'
      /\ UNCHANGED <<kind, original, making, stored, told, req, overtaken, edits, faults>>
  BY DEF DeleteMessage
<1>2. shown' = [a \in Artifacts |-> Absent] /\ chain' = [a \in Artifacts |-> << >>]
  BY DEF DeleteMessage
<1>3. \A a \in Artifacts : shown'[a] = Absent /\ chain'[a] = << >> /\ DOMAIN chain'[a] = {}
  BY <1>2
<1>4. \A a \in Artifacts : Restores(a)' = {}
  BY <1>3 DEF Restores
<1>5. TypeOK'
  <2>1. shown' \in [Artifacts -> Texts \cup {None, Absent}] /\ chain' \in [Artifacts -> Seq(Revision)]
    BY <1>2
  <2>2. message' \in BOOLEAN  BY DEF DeleteMessage
  <2>3. QED  BY <1>1, <2>1, <2>2 DEF Inv, TypeOK
<1>6. ChainsAreOrdered'  BY <1>3 DEF ChainsAreOrdered
<1>7. RowsComeFirst'
  <2>1. \A a \in Artifacts : making'[a] = "stored" => a \in stored'
    BY <1>1 DEF Inv, RowsComeFirst
  <2>2. QED  BY <1>1, <1>3, <2>1 DEF RowsComeFirst
<1>8. FirstRevisions'
  BY <1>1 DEF Inv, FirstRevisions
<1>9. ToldIsTrue'
  BY <1>1 DEF Inv, ToldIsTrue
<1>10. EditsHold'
  <2>1. ASSUME NEW e \in Editors PROVE Holds(req[e])'
    <3>1. Holds(req[e])  BY DEF Inv, EditsHold
    <3>2. QED  BY <1>1, <3>1 DEF Holds
  <2>2. QED  BY <2>1 DEF EditsHold
<1>11. RestoresRepeat' /\ LastRestoreShows'
  BY <1>3, <1>4 DEF RestoresRepeat, LastRestoreShows
<1>12. QED  BY <1>5, <1>6, <1>7, <1>8, <1>9, <1>10, <1>11 DEF Inv

-----------------------------------------------------------------------------
(***************************************************************************)
(* All steps together.                                                     *)
(***************************************************************************)
LEMMA InvInit == ASSUME ArtifactsAssumption, Init PROVE Inv
<1>1. /\ message = TRUE /\ kind \in Kinds /\ original \in Texts
      /\ making = [a \in Artifacts |-> "idle"] /\ stored = {}
      /\ shown = [a \in Artifacts |-> Absent] /\ chain = [a \in Artifacts |-> << >>]
      /\ told = "nothing" /\ req = [e \in Editors |-> Idle] /\ overtaken = {}
      /\ edits = 0 /\ faults = 0
  BY DEF Init
<1>2. \A a \in Artifacts : /\ making[a] = "idle" /\ shown[a] = Absent
                           /\ chain[a] = << >> /\ DOMAIN chain[a] = {}
  BY <1>1
<1>3. Main \in Artifacts /\ Show \in Artifacts /\ MaxEdits \in Nat /\ MaxFaults \in Nat
  BY TwoArtifacts
<1>4. TypeOK
  <2>1. making \in [Artifacts -> Steps]  BY <1>1 DEF Steps
  <2>2. req \in [Editors -> EditRequests]  BY <1>1, IdleHolds
  <2>3. message \in BOOLEAN  BY DEF Init
  <2>4. shown \in [Artifacts -> Texts \cup {None, Absent}] /\ chain \in [Artifacts -> Seq(Revision)]
    BY <1>1
  <2>5. QED  BY <1>1, <1>3, <2>1, <2>2, <2>3, <2>4 DEF TypeOK, EditRequests
<1>5. ChainsAreOrdered  BY <1>2 DEF ChainsAreOrdered
<1>6. RowsComeFirst  BY <1>1, <1>2 DEF RowsComeFirst
<1>7. FirstRevisions  BY <1>2, <1>3 DEF FirstRevisions
<1>8. ToldIsTrue  BY <1>1 DEF ToldIsTrue
<1>9. EditsHold
  <2>1. \A e \in Editors : req[e] = Idle  BY <1>1
  <2>2. QED  BY <2>1, IdleHolds DEF EditsHold
<1>10. RestoresRepeat /\ LastRestoreShows
  BY <1>2 DEF RestoresRepeat, LastRestoreShows, Restores
<1>11. QED  BY <1>4, <1>5, <1>6, <1>7, <1>8, <1>9, <1>10 DEF Inv

LEMMA InvStep == ASSUME ArtifactsAssumption, Inv, [Next]_vars PROVE Inv'
<1>1. CASE \E a \in Artifacts : Make(a) \/ CallFails(a)
  BY <1>1, BeginStep, WriteObjectStep, InsertArtifactStep, InitialRevisionStep, CallFailsStep DEF Make
<1>2. CASE Announce
  BY <1>2, AnnounceStep
<1>3. CASE \E e \in Editors : \E a \in Edited : AskAppend(e, a) \/ AskRestore(e, a)
  BY <1>3, AskAppendStep, AskRestoreStep
<1>4. CASE \E e \in Editors : Continue(e)
  <2>1. PICK e \in Editors : FindTarget(e) \/ LockLast(e) \/ GetLock(e) \/ CommitEdit(e) \/ RollBack(e)
    BY <1>4 DEF Continue
  <2>2. CASE RollBack(e)
    <3>1. /\ req' = [req EXCEPT ![e] = Idle]
          /\ UNCHANGED <<message, kind, original, making, stored, shown, chain, told, overtaken,
                         edits, faults>>
      BY <2>2 DEF RollBack, EndEdit, Made
    <3>2. faults' \in 0..MaxFaults /\ faults' >= faults
      BY <3>1, TwoArtifacts DEF Inv, TypeOK
    <3>3. QED  BY <3>1, <3>2, EndsStep
  <2>3. QED  BY <2>1, <2>2, FindTargetStep, LockLastStep, GetLockStep, CommitStep
<1>5. CASE \E e \in Editors : EditFails(e)
  <2>1. PICK e \in Editors : EditFails(e)  BY <1>5
  <2>2. /\ req' = [req EXCEPT ![e] = Idle] /\ faults < MaxFaults /\ faults' = faults + 1
        /\ UNCHANGED <<message, kind, original, making, stored, shown, chain, told, overtaken, edits>>
    BY <2>1 DEF EditFails, Made
  <2>3. faults' \in 0..MaxFaults /\ faults' >= faults
    BY <2>2, TwoArtifacts DEF Inv, TypeOK
  <2>4. QED  BY <2>2, <2>3, EndsStep
<1>6. CASE DeleteMessage
  BY <1>6, DeleteMessageStep
<1>7. CASE Crash
  BY <1>7, CrashStep
<1>8. CASE UNCHANGED vars
  <2>1. UNCHANGED <<message, kind, original, making, stored, shown, chain, told, req, overtaken,
                    edits, faults>>
    BY <1>8 DEF vars
  <2>2. req' \in [Editors -> EditRequests] /\ EditsHold'
    <3>1. \A q : Holds(q) => Holds(q)'  BY <2>1, ChainsKept
    <3>2. ASSUME NEW e \in Editors PROVE Holds(req[e])'
      <4>1. PICK p : p = req[e]  OBVIOUS
      <4>2. Holds(p)  BY <4>1 DEF Inv, EditsHold
      <4>3. QED  BY <2>1, <3>1, <4>1, <4>2
    <3>3. QED  BY <2>1, <3>2 DEF EditsHold, Inv, TypeOK, EditRequests
  <2>3. edits' \in 0..MaxEdits /\ faults' \in 0..MaxFaults /\ faults' >= faults
    BY <2>1, TwoArtifacts DEF Inv, TypeOK
  <2>4. QED  BY <2>1, <2>2, <2>3, EditOnly
<1>9. QED
  BY <1>1, <1>2, <1>3, <1>4, <1>5, <1>6, <1>7, <1>8 DEF Next

\* The parts of the invariant hold together in every reachable state.
THEOREM InvIsInvariant == ASSUME ArtifactsAssumption PROVE Spec => []Inv
<1>1. Init => Inv  BY InvInit
<1>2. Inv /\ [Next]_vars => Inv'  BY InvStep
<1>3. QED  BY <1>1, <1>2, PTL DEF Spec

-----------------------------------------------------------------------------
(***************************************************************************)
(* What follows.                                                           *)
(***************************************************************************)
\* Two revisions never have the same parent, so no conflict is ever reported.
LEMMA NoTwoOfOneParent ==
    ASSUME Inv, NEW a \in Artifacts, NEW i \in DOMAIN chain[a], NEW j \in DOMAIN chain[a],
           chain[a][i].parent = chain[a][j].parent
    PROVE  i = j
<1>1. DOMAIN chain[a] = 1..Len(chain[a]) /\ Len(chain[a]) \in Nat
  BY ChainFacts DEF Inv
<1>2. \A k \in DOMAIN chain[a] : chain[a][k].id \in Nat /\ chain[a][k].id > 0
  <2>1. \A k \in DOMAIN chain[a] : chain[a][k] \in Revision  BY ChainFacts DEF Inv
  <2>2. QED  BY <2>1 DEF Inv, ChainsAreOrdered, Revision
<1>3. \A k \in DOMAIN chain[a] : chain[a][k].parent = IF k = 1 THEN 0 ELSE chain[a][k - 1].id
  BY DEF Inv, ChainsAreOrdered
<1>4. \A k, l \in DOMAIN chain[a] : k < l => chain[a][k].id < chain[a][l].id
  BY DEF Inv, ChainsAreOrdered
<1>5. \A k, l \in DOMAIN chain[a] : k < l => chain[a][k].parent < chain[a][l].parent
  <2> SUFFICES ASSUME NEW k \in DOMAIN chain[a], NEW l \in DOMAIN chain[a], k < l
               PROVE  chain[a][k].parent < chain[a][l].parent
    OBVIOUS
  <2>1. l # 1 /\ l - 1 \in DOMAIN chain[a] /\ chain[a][l].parent = chain[a][l - 1].id
    BY <1>1, <1>3
  <2>2. CASE k = 1  BY <1>2, <1>3, <2>1, <2>2
  <2>3. CASE k # 1
    <3>1. k - 1 \in DOMAIN chain[a] /\ k - 1 < l - 1  BY <1>1, <2>3
    <3>2. chain[a][k].parent = chain[a][k - 1].id  BY <1>3, <2>3
    <3>3. QED  BY <1>4, <2>1, <3>1, <3>2
  <2>4. QED  BY <2>2, <2>3
<1>6. chain[a][i].parent \in Nat /\ chain[a][j].parent \in Nat
  <2>1. chain[a][i] \in Revision /\ chain[a][j] \in Revision  BY ChainFacts DEF Inv
  <2>2. QED  BY <2>1 DEF Revision
<1>7. ~(i < j) /\ ~(j < i)
  BY <1>5, <1>6
<1>8. QED  BY <1>1, <1>7

LEMMA NoConflict == ASSUME Inv, NEW a \in Artifacts PROVE ~HasConflict(chain[a])
<1> DEFINE recent == {chain[a][i] : i \in {j \in DOMAIN chain[a] : j + RecentRevisions > Len(chain[a])}}
           branches(p) == {r \in recent : r.parent = p}
<1>1. ASSUME NEW p PROVE ~(Cardinality(branches(p)) > 1)
  <2>1. \A r, s \in branches(p) : r = s
    <3> SUFFICES ASSUME NEW r \in branches(p), NEW s \in branches(p) PROVE r = s
      OBVIOUS
    <3>1. PICK i \in DOMAIN chain[a] : r = chain[a][i]  OBVIOUS
    <3>2. PICK j \in DOMAIN chain[a] : s = chain[a][j]  OBVIOUS
    <3>3. i = j  BY <3>1, <3>2, NoTwoOfOneParent
    <3>4. QED  BY <3>1, <3>2, <3>3
  <2> HIDE DEF branches
  <2>2. CASE branches(p) = {}
    <3>1. Cardinality(branches(p)) = 0  BY <2>2, FS_EmptySet
    <3>2. QED  BY <3>1
  <2>3. CASE branches(p) # {}
    <3>1. PICK r : branches(p) = {r}  BY <2>1, <2>3
    <3>2. Cardinality(branches(p)) = 1  BY <3>1, FS_Singleton
    <3>3. QED  BY <3>2
  <2>4. QED  BY <2>2, <2>3
<1>2. QED  BY <1>1 DEF HasConflict

\* However many editors append and restore, and wherever calls fail: revisions are
\* numbered without gaps, each descends from the one before it, and no two of them have
\* one parent, so that the conflict detector never finds a conflict.
THEOREM ChainStaysLinear ==
    ASSUME ArtifactsAssumption PROVE Spec => [](TypeOK /\ ChainIsLinear)
<1>1. Inv => TypeOK /\ ChainIsLinear
  BY NoConflict DEF Inv, ChainsAreOrdered, ChainIsLinear
<1>2. QED  BY <1>1, InvIsInvariant, PTL

\* What readers see of an artifact is what it was made with or what the last restore named.
THEOREM RestoresStayShown ==
    ASSUME ArtifactsAssumption PROVE Spec => []ShownFollowsRestores
<1>1. Inv => ShownFollowsRestores
  <2> SUFFICES ASSUME Inv, NEW a \in Artifacts, shown[a] # Absent
               PROVE  /\ \A i \in Restores(a) : \E r \in RevisionAt(a, chain[a][i].of) :
                             r.digest = chain[a][i].digest /\ r.key = chain[a][i].key
                      /\ IF Restores(a) = {} THEN shown[a] = original
                         ELSE shown[a] = chain[a][CHOOSE j \in Restores(a) :
                                                      \A k \in Restores(a) : k <= j].key
    BY DEF ShownFollowsRestores
  <2>1. \A i \in Restores(a) : \E r \in RevisionAt(a, chain[a][i].of) :
            r.digest = chain[a][i].digest /\ r.key = chain[a][i].key
    BY DEF Inv, RestoresRepeat
  <2>2. CASE Restores(a) = {}
    BY <2>1, <2>2 DEF Inv, LastRestoreShows
  <2>3. CASE Restores(a) # {}
    <3> DEFINE IsLast(j) == \A k \in Restores(a) : k <= j
    <3>1. PICK i \in Restores(a) : IsLast(i) /\ shown[a] = chain[a][i].key
      BY <2>3 DEF Inv, LastRestoreShows
    <3>2. Restores(a) \subseteq Nat
      <4>1. DOMAIN chain[a] = 1..Len(chain[a]) /\ Len(chain[a]) \in Nat  BY ChainFacts DEF Inv
      <4>2. QED  BY <4>1 DEF Restores
    <3>3. PICK j \in Restores(a) : IsLast(j) /\ j = (CHOOSE l \in Restores(a) : IsLast(l))
      BY <3>1
    <3>4. j = i  BY <3>1, <3>2, <3>3
    <3>5. QED  BY <2>1, <2>3, <3>1, <3>3, <3>4
  <2>4. QED  BY <2>2, <2>3
<1>2. QED  BY <1>1, InvIsInvariant, PTL

\* What a conversation is told of an artifact stays true, for any kind of artifact, any
\* overlap of makers and editors, any failing call and any crash.
THEOREM AnnouncementsStayTrue ==
    ASSUME ArtifactsAssumption PROVE Spec => []AnnouncementsAreTrue
<1>1. Inv => AnnouncementsAreTrue
  <2> SUFFICES ASSUME Inv PROVE AnnouncementsAreTrue
    OBVIOUS
  <2>1. \A a \in Artifacts : shown[a] # Absent => a \in stored
    BY DEF Inv, RowsComeFirst
  <2>2. Main \in Artifacts  BY DEF Artifacts
  <2>3. ASSUME told = "created", message
        PROVE  /\ shown[Main] # Absent
               /\ kind # "upload" => /\ chain[Main] # << >>
                                     /\ Main \notin overtaken => chain[Main][1].key = original
               /\ kind = "pptx" => making[Show] \in {"done", "failed"}
    <3>1. making[Main] = "done" /\ (kind = "pptx" => making[Show] \in {"done", "failed"})
      BY <2>3 DEF Inv, ToldIsTrue
    <3>2. shown[Main] # Absent  BY <2>2, <2>3, <3>1 DEF Inv, RowsComeFirst
    <3>3. kind # "upload" => /\ chain[Main] # << >>
                             /\ Main \notin overtaken => chain[Main][1].key = original
      BY <2>2, <2>3, <3>1 DEF Inv, FirstRevisions
    <3>4. QED  BY <3>1, <3>2, <3>3
  <2>4. told = "failed" /\ message => faults > 0
    BY DEF Inv, ToldIsTrue
  <2>5. QED  BY <2>1, <2>3, <2>4 DEF AnnouncementsAreTrue
<1>2. QED  BY <1>1, InvIsInvariant, PTL
-----------------------------------------------------------------------------
(***************************************************************************)
(* Induction and recursion: every set of numbers has a least one, so that  *)
(* a definition by recursion defines what it says.                         *)
(***************************************************************************)
LEMMA LeastOf ==
    ASSUME NEW T \in SUBSET Nat, T # {}
    PROVE  \E x \in T : \A y \in T : x <= y
<1>1. PICK x \in T : \A y \in T : ~(<<y, x>> \in OpToRel(<, Nat))
  BY NatLessThanWellFounded, WFMin
<1>2. \A y \in T : ~(y < x)  BY <1>1 DEF OpToRel
<1>3. QED  BY <1>2

LEMMA CountingUp ==
    ASSUME NEW n \in Nat, NEW Q, 0 \in Q, \A k \in 0..n : k \in Q /\ k < n => k + 1 \in Q
    PROVE  0..n \subseteq Q
<1> SUFFICES ASSUME NEW k \in 0..n, k \notin Q PROVE FALSE
  OBVIOUS
<1> DEFINE T == {j \in 0..n : j \notin Q}
<1>1. T \in SUBSET Nat /\ T # {}  OBVIOUS
<1>2. PICK x \in T : \A y \in T : x <= y  BY <1>1, LeastOf
<1>3. x \in 0..n /\ x \notin Q /\ x # 0  BY <1>2
<1>4. x - 1 \in 0..n /\ x - 1 < n /\ (x - 1) + 1 = x /\ ~(x <= x - 1)  BY <1>3
<1>5. x - 1 \in Q  BY <1>2, <1>4
<1>6. QED  BY <1>3, <1>4, <1>5

LEMMA ByMeasure ==
    ASSUME NEW C, NEW m, \A c \in C : m[c] \in Nat, NEW Q,
           \A c \in C : (\A d \in C : m[d] < m[c] => d \in Q) => c \in Q
    PROVE  C \subseteq Q
<1> SUFFICES ASSUME NEW c \in C, c \notin Q PROVE FALSE
  OBVIOUS
<1> DEFINE T == {m[d] : d \in {e \in C : e \notin Q}}
<1>1. T \in SUBSET Nat /\ T # {}  OBVIOUS
<1>2. PICK x \in T : \A y \in T : x <= y  BY <1>1, LeastOf
<1>3. PICK d \in C : d \notin Q /\ m[d] = x  BY <1>2
<1>4. ASSUME NEW e \in C, m[e] < m[d] PROVE e \in Q
  <2>1. m[e] \in Nat /\ m[d] \in Nat /\ ~(x <= m[e])  BY <1>3, <1>4
  <2>2. m[e] \notin T  BY <1>2, <2>1
  <2>3. QED  BY <2>2
<1>5. QED  BY <1>3, <1>4

\* What F says of each place follows from the places of a smaller measure.
IsCausal(C, V, N, m, F) ==
    /\ \A c \in C : m[c] \in 0..N
    /\ \A g \in [C -> V] : \A c \in C : F[<<g, c>>] \in V
    /\ \A g, h \in [C -> V] : \A c \in C :
          (\A d \in C : m[d] < m[c] => g[d] = h[d]) => F[<<g, c>>] = F[<<h, c>>]

LEMMA TableExists ==
    ASSUME NEW C, NEW V, NEW N, NEW m, NEW F, IsCausal(C, V, N, m, F), N \in Nat, V # {}
    PROVE  \E g \in [C -> V] : \A c \in C : g[c] = F[<<g, c>>]
<1>0. /\ \A c \in C : m[c] \in 0..N
      /\ \A g \in [C -> V] : \A c \in C : F[<<g, c>>] \in V
      /\ \A g, h \in [C -> V] : \A c \in C :
            (\A d \in C : m[d] < m[c] => g[d] = h[d]) => F[<<g, c>>] = F[<<h, c>>]
  BY DEF IsCausal
<1> DEFINE Good(n) == \E g \in [C -> V] : \A c \in C : m[c] < n => g[c] = F[<<g, c>>]
           Q == {n \in 0..(N + 1) : Good(n)}
<1>1. 0 \in Q
  <2>1. PICK v \in V : TRUE  OBVIOUS
  <2>2. [c \in C |-> v] \in [C -> V]  OBVIOUS
  <2>3. \A c \in C : ~(m[c] < 0)  BY <1>0
  <2>4. Good(0)  BY <2>2, <2>3
  <2>5. QED  BY <2>4
<1>2. ASSUME NEW n \in 0..(N + 1), Good(n), n < N + 1 PROVE Good(n + 1)
  <2>1. PICK g \in [C -> V] : \A c \in C : m[c] < n => g[c] = F[<<g, c>>]  BY <1>2
  <2> DEFINE h == [c \in C |-> IF m[c] = n THEN F[<<g, c>>] ELSE g[c]]
  <2>2. h \in [C -> V]  BY <1>0
  <2>3. ASSUME NEW c \in C, m[c] < n + 1 PROVE h[c] = F[<<h, c>>]
    <3>1. m[c] \in Nat /\ (m[c] = n \/ m[c] < n)  BY <1>0, <2>3
    <3>2. ASSUME NEW d \in C, m[d] < m[c] PROVE g[d] = h[d]
      <4>1. m[d] # n  BY <3>1, <3>2
      <4>2. QED  BY <4>1
    <3>3. F[<<g, c>>] = F[<<h, c>>]
      <4> HIDE DEF h
      <4>1. QED  BY <1>0, <2>2, <3>2
    <3>4. h[c] = F[<<g, c>>]  BY <2>1, <3>1
    <3>5. QED  BY <3>3, <3>4
  <2> HIDE DEF h
  <2>4. QED  BY <2>2, <2>3
<1>3. N + 1 \in Nat /\ \A k \in 0..(N + 1) : k \in Q /\ k < N + 1 => k + 1 \in Q
  BY <1>2
<1> HIDE DEF Q
<1>4. 0..(N + 1) \subseteq Q  BY <1>1, <1>3, CountingUp
<1>5. N + 1 \in Q  BY <1>3, <1>4
<1>6. PICK g \in [C -> V] : \A c \in C : m[c] < N + 1 => g[c] = F[<<g, c>>]  BY <1>5 DEF Q
<1>7. \A c \in C : m[c] < N + 1  BY <1>0
<1>8. QED  BY <1>6, <1>7

-----------------------------------------------------------------------------
(***************************************************************************)
(* The table of the longest common subsequences.                           *)
(***************************************************************************)
\* How many lines are left from a place on.
Togo(b, a) == [c \in Cells(b, a) |-> (Len(b) + 1 - c[1]) + (Len(a) + 1 - c[2])]

LEMMA CellFacts ==
    ASSUME NEW S, NEW b \in Seq(S), NEW a \in Seq(S), NEW c \in Cells(b, a)
    PROVE  /\ Len(b) \in Nat /\ Len(a) \in Nat
           /\ c = <<c[1], c[2]>>
           /\ c[1] \in 1..(Len(b) + 1) /\ c[2] \in 1..(Len(a) + 1)
           /\ Togo(b, a)[c] \in 0..(Len(b) + Len(a))
           /\ c[1] <= Len(b) => /\ <<c[1] + 1, c[2]>> \in Cells(b, a)
                                /\ Togo(b, a)[<<c[1] + 1, c[2]>>] < Togo(b, a)[c]
           /\ c[2] <= Len(a) => /\ <<c[1], c[2] + 1>> \in Cells(b, a)
                                /\ Togo(b, a)[<<c[1], c[2] + 1>>] < Togo(b, a)[c]
           /\ c[1] <= Len(b) /\ c[2] <= Len(a) =>
                 /\ <<c[1] + 1, c[2] + 1>> \in Cells(b, a)
                 /\ Togo(b, a)[<<c[1] + 1, c[2] + 1>>] < Togo(b, a)[c]
<1>1. Len(b) \in Nat /\ Len(a) \in Nat  OBVIOUS
<1>2. PICK i \in 1..(Len(b) + 1), j \in 1..(Len(a) + 1) : c = <<i, j>>  BY DEF Cells
<1>3. c[1] = i /\ c[2] = j  BY <1>2
<1>4. \A x \in 1..(Len(b) + 1), y \in 1..(Len(a) + 1) :
         /\ <<x, y>> \in Cells(b, a)
         /\ Togo(b, a)[<<x, y>>] = (Len(b) + 1 - x) + (Len(a) + 1 - y)
  BY DEF Cells, Togo
<1>5. i \in Nat /\ j \in Nat /\ i <= Len(b) + 1 /\ j <= Len(a) + 1 /\ i >= 1 /\ j >= 1  BY <1>1
<1>6. Togo(b, a)[c] = (Len(b) + 1 - i) + (Len(a) + 1 - j)  BY <1>2, <1>4
<1>7. Togo(b, a)[c] \in 0..(Len(b) + Len(a))  BY <1>1, <1>5, <1>6
<1>8. ASSUME i <= Len(b)
      PROVE  <<i + 1, j>> \in Cells(b, a) /\ Togo(b, a)[<<i + 1, j>>] < Togo(b, a)[c]
  <2>1. i + 1 \in 1..(Len(b) + 1)  BY <1>1, <1>5, <1>8
  <2>2. Togo(b, a)[<<i + 1, j>>] = (Len(b) + 1 - (i + 1)) + (Len(a) + 1 - j)  BY <1>4, <2>1
  <2>3. QED  BY <1>1, <1>4, <1>5, <1>6, <2>1, <2>2
<1>9. ASSUME j <= Len(a)
      PROVE  <<i, j + 1>> \in Cells(b, a) /\ Togo(b, a)[<<i, j + 1>>] < Togo(b, a)[c]
  <2>1. j + 1 \in 1..(Len(a) + 1)  BY <1>1, <1>5, <1>9
  <2>2. Togo(b, a)[<<i, j + 1>>] = (Len(b) + 1 - i) + (Len(a) + 1 - (j + 1))  BY <1>4, <2>1
  <2>3. QED  BY <1>1, <1>4, <1>5, <1>6, <2>1, <2>2
<1>10. ASSUME i <= Len(b), j <= Len(a)
       PROVE  <<i + 1, j + 1>> \in Cells(b, a) /\ Togo(b, a)[<<i + 1, j + 1>>] < Togo(b, a)[c]
  <2>1. i + 1 \in 1..(Len(b) + 1) /\ j + 1 \in 1..(Len(a) + 1)  BY <1>1, <1>5, <1>10
  <2>2. Togo(b, a)[<<i + 1, j + 1>>] = (Len(b) + 1 - (i + 1)) + (Len(a) + 1 - (j + 1))
    BY <1>4, <2>1
  <2>3. QED  BY <1>1, <1>4, <1>5, <1>6, <2>1, <2>2
<1>11. QED  BY <1>1, <1>2, <1>3, <1>7, <1>8, <1>9, <1>10

\* Where the next entries are numbers, so is this one; where they agree, it does.
LEMMA LcsAtIsCausal ==
    ASSUME NEW S, NEW b \in Seq(S), NEW a \in Seq(S), NEW c \in Cells(b, a), NEW g,
           \A d \in Cells(b, a) : Togo(b, a)[d] < Togo(b, a)[c] => g[d] \in Nat
    PROVE  /\ LcsAt(b, a, g, c) \in Nat
           /\ \A h : (\A d \in Cells(b, a) : Togo(b, a)[d] < Togo(b, a)[c] => g[d] = h[d])
                        => LcsAt(b, a, g, c) = LcsAt(b, a, h, c)
<1>0. /\ Len(b) \in Nat /\ Len(a) \in Nat /\ c[1] \in Nat /\ c[2] \in Nat
      /\ c[1] <= Len(b) => /\ <<c[1] + 1, c[2]>> \in Cells(b, a)
                           /\ Togo(b, a)[<<c[1] + 1, c[2]>>] < Togo(b, a)[c]
      /\ c[2] <= Len(a) => /\ <<c[1], c[2] + 1>> \in Cells(b, a)
                           /\ Togo(b, a)[<<c[1], c[2] + 1>>] < Togo(b, a)[c]
      /\ c[1] <= Len(b) /\ c[2] <= Len(a) =>
            /\ <<c[1] + 1, c[2] + 1>> \in Cells(b, a)
            /\ Togo(b, a)[<<c[1] + 1, c[2] + 1>>] < Togo(b, a)[c]
  BY CellFacts
<1>1. CASE c[1] > Len(b) \/ c[2] > Len(a)
  <2>1. ASSUME NEW h PROVE LcsAt(b, a, h, c) = 0
    <3>1. ~(c[1] <= Len(b) /\ c[2] <= Len(a))  BY <1>0, <1>1
    <3>2. QED  BY <1>1, <3>1 DEF LcsAt
  <2>2. QED  BY <2>1
<1>2. CASE c[1] <= Len(b) /\ c[2] <= Len(a) /\ b[c[1]] = a[c[2]]
  <2>1. ~(c[1] > Len(b) \/ c[2] > Len(a))  BY <1>0, <1>2
  <2>2. \A h : LcsAt(b, a, h, c) = h[<<c[1] + 1, c[2] + 1>>] + 1  BY <1>2, <2>1 DEF LcsAt
  <2>3. g[<<c[1] + 1, c[2] + 1>>] \in Nat  BY <1>0, <1>2
  <2>4. \A h : (\A d \in Cells(b, a) : Togo(b, a)[d] < Togo(b, a)[c] => g[d] = h[d])
                 => h[<<c[1] + 1, c[2] + 1>>] = g[<<c[1] + 1, c[2] + 1>>]
    BY <1>0, <1>2
  <2>5. QED  BY <2>2, <2>3, <2>4
<1>3. CASE c[1] <= Len(b) /\ c[2] <= Len(a) /\ b[c[1]] # a[c[2]]
  <2>1. ~(c[1] > Len(b) \/ c[2] > Len(a))  BY <1>0, <1>3
  <2>2. \A h : LcsAt(b, a, h, c) = Larger(h[<<c[1] + 1, c[2]>>], h[<<c[1], c[2] + 1>>])
    BY <1>3, <2>1 DEF LcsAt
  <2>3. g[<<c[1] + 1, c[2]>>] \in Nat /\ g[<<c[1], c[2] + 1>>] \in Nat  BY <1>0, <1>3
  <2>4. \A h : (\A d \in Cells(b, a) : Togo(b, a)[d] < Togo(b, a)[c] => g[d] = h[d])
                 => /\ h[<<c[1] + 1, c[2]>>] = g[<<c[1] + 1, c[2]>>]
                    /\ h[<<c[1], c[2] + 1>>] = g[<<c[1], c[2] + 1>>]
    BY <1>0, <1>3
  <2>5. \A x, y \in Nat : Larger(x, y) \in Nat  BY DEF Larger
  <2>6. LcsAt(b, a, g, c) \in Nat  BY <2>2, <2>3, <2>5
  <2>7. QED  BY <2>2, <2>4, <2>6
<1>4. QED  BY <1>0, <1>1, <1>2, <1>3

LEMMA LcsTable ==
    ASSUME NEW S, NEW b \in Seq(S), NEW a \in Seq(S)
    PROVE  /\ BuildLcsMatrix(b, a) \in [Cells(b, a) -> Nat]
           /\ \A c \in Cells(b, a) :
                 BuildLcsMatrix(b, a)[c] = LcsAt(b, a, BuildLcsMatrix(b, a), c)
<1> DEFINE C == Cells(b, a)
           m == Togo(b, a)
           F == [x \in [C -> Nat] \X C |-> LcsAt(b, a, x[1], x[2])]
           N == Len(b) + Len(a)
<1>1. N \in Nat /\ \A c \in C : m[c] \in 0..N
  <2>1. N \in Nat  OBVIOUS
  <2>2. QED  BY <2>1, CellFacts
<1>2. \A g \in [C -> Nat] : \A c \in C : F[<<g, c>>] = LcsAt(b, a, g, c)  OBVIOUS
<1>3. \A g \in [C -> Nat] : \A c \in C :
         /\ LcsAt(b, a, g, c) \in Nat
         /\ \A h : (\A d \in C : m[d] < m[c] => g[d] = h[d]) => LcsAt(b, a, g, c) = LcsAt(b, a, h, c)
  <2> TAKE g \in [C -> Nat]
  <2> TAKE c \in C
  <2>1. \A d \in C : g[d] \in Nat  OBVIOUS
  <2> HIDE DEF C, m
  <2>2. QED  BY <2>1, LcsAtIsCausal DEF C, m
<1>4. \A g \in [C -> Nat] : \A c \in C : F[<<g, c>>] \in Nat  BY <1>2, <1>3
<1> HIDE DEF C, F, m, N
<1>5. ASSUME NEW g \in [C -> Nat], NEW h \in [C -> Nat], NEW c \in C,
             \A d \in C : m[d] < m[c] => g[d] = h[d]
      PROVE  F[<<g, c>>] = F[<<h, c>>]
  <2>1. LcsAt(b, a, g, c) = LcsAt(b, a, h, c)  BY <1>3, <1>5
  <2>2. QED  BY <1>2, <2>1
<1>6. PICK g \in [C -> Nat] : \A c \in C : g[c] = F[<<g, c>>]
  <2> DEFINE V == Nat
  <2>1. V # {} /\ IsCausal(C, V, N, m, F)
    BY <1>1, <1>4, <1>5 DEF IsCausal
  <2> HIDE DEF V
  <2>2. \E g \in [C -> V] : \A c \in C : g[c] = F[<<g, c>>]  BY <1>1, <2>1, TableExists
  <2>3. QED  BY <2>2 DEF V
<1>7. g = [c \in C |-> LcsAt(b, a, g, c)]  BY <1>2, <1>6
<1>8. \E f : f = [c \in C |-> LcsAt(b, a, f, c)]  BY <1>7
<1>9. BuildLcsMatrix(b, a) = [c \in C |-> LcsAt(b, a, BuildLcsMatrix(b, a), c)]
  BY <1>8 DEF BuildLcsMatrix, C
<1> DEFINE lcs == BuildLcsMatrix(b, a)
           Q == {c \in C : lcs[c] \in Nat}
<1>10. \A c \in C : lcs[c] = LcsAt(b, a, lcs, c)  BY <1>9
<1>11. \A c \in C : (\A d \in C : m[d] < m[c] => d \in Q) => c \in Q
  <2> SUFFICES ASSUME NEW c \in C, \A d \in C : m[d] < m[c] => lcs[d] \in Nat
               PROVE  lcs[c] \in Nat
    OBVIOUS
  <2> HIDE DEF lcs
  <2>1. LcsAt(b, a, lcs, c) \in Nat  BY LcsAtIsCausal DEF C, m
  <2>2. QED  BY <1>10, <2>1
<1>12. \A c \in C : m[c] \in Nat  BY <1>1
<1> HIDE DEF lcs
<1>13. C \subseteq Q
  <2> HIDE DEF Q
  <2>1. QED  BY <1>11, <1>12, ByMeasure
<1>14. \A c \in C : lcs[c] \in Nat  BY <1>13
<1>15. lcs \in [C -> Nat]  BY <1>9, <1>14 DEF lcs
<1>16. QED  BY <1>10, <1>15 DEF lcs, C

-----------------------------------------------------------------------------
(***************************************************************************)
(* The text that a sequence of marked lines stands for.                    *)
(***************************************************************************)
Marks == {Same, Gone, Added}
Rows(S) == [mark : Marks, line : S]

LEMMA MarksDiffer == Same # Gone /\ Same # Added /\ Gone # Added
BY DEF Same, Gone, Added

LEMMA RowFacts ==
    ASSUME NEW S, NEW mark \in Marks, NEW x \in S
    PROVE  [mark |-> mark, line |-> x] \in Rows(S)
BY DEF Rows

LEMMA RowLines ==
    ASSUME NEW S, NEW lines \in Seq(Rows(S)), NEW k \in 1..Len(lines)
    PROVE  lines[k].line \in S
<1>1. lines[k] \in Rows(S)  OBVIOUS
<1>2. QED  BY <1>1 DEF Rows

NextText(lines, marks, text, k) ==
    IF k = 0 THEN << >>
    ELSE IF lines[k].mark \in marks THEN Append(text[k - 1], lines[k].line)
    ELSE text[k - 1]

LEMMA NextTextIsCausal ==
    ASSUME NEW S, NEW lines \in Seq(Rows(S)), NEW marks, NEW k \in 0..Len(lines), NEW g,
           k # 0 => g[k - 1] \in Seq(S)
    PROVE  /\ NextText(lines, marks, g, k) \in Seq(S)
           /\ \A h : (k # 0 => g[k - 1] = h[k - 1])
                        => NextText(lines, marks, g, k) = NextText(lines, marks, h, k)
<1>1. CASE k = 0
  BY <1>1 DEF NextText
<1>2. CASE k # 0
  <2>1. k \in 1..Len(lines)  BY <1>2
  <2>2. lines[k].line \in S  BY <2>1, RowLines
  <2>3. Append(g[k - 1], lines[k].line) \in Seq(S)  BY <1>2, <2>2
  <2>4. NextText(lines, marks, g, k) \in Seq(S)  BY <1>2, <2>3 DEF NextText
  <2>5. QED  BY <1>2, <2>4 DEF NextText
<1>3. QED  BY <1>1, <1>2

LEMMA TextTable ==
    ASSUME NEW S, NEW lines \in Seq(Rows(S)), NEW marks
    PROVE  /\ TextUpTo(lines, marks) \in [0..Len(lines) -> Seq(S)]
           /\ \A k \in 0..Len(lines) :
                 TextUpTo(lines, marks)[k] = NextText(lines, marks, TextUpTo(lines, marks), k)
<1> DEFINE N == Len(lines)
           C == 0..N
           V == Seq(S)
           m == [k \in C |-> k]
           F == [x \in [C -> V] \X C |-> NextText(lines, marks, x[1], x[2])]
<1>1. N \in Nat  OBVIOUS
<1>2. \A g \in [C -> V] : \A k \in C : F[<<g, k>>] = NextText(lines, marks, g, k)  OBVIOUS
<1>3. \A k \in C : k # 0 => k - 1 \in C /\ k - 1 < k /\ m[k - 1] < m[k]  BY <1>1
<1>4. \A k \in C : m[k] \in 0..N /\ m[k] \in Nat  BY <1>1
<1>5. << >> \in V  OBVIOUS
<1>6. \A g \in [C -> V] : \A k \in C :
         /\ NextText(lines, marks, g, k) \in V
         /\ \A h : (k # 0 => g[k - 1] = h[k - 1])
                      => NextText(lines, marks, g, k) = NextText(lines, marks, h, k)
  <2> TAKE g \in [C -> V]
  <2> TAKE k \in C
  <2>1. k # 0 => g[k - 1] \in Seq(S)  BY <1>3
  <2>2. QED  BY <2>1, NextTextIsCausal
<1> HIDE DEF C, V, m, F, N
<1>7. IsCausal(C, V, N, m, F)
  <2>1. ASSUME NEW g \in [C -> V], NEW h \in [C -> V], NEW k \in C,
               \A d \in C : m[d] < m[k] => g[d] = h[d]
        PROVE  F[<<g, k>>] = F[<<h, k>>]
    BY <1>2, <1>3, <1>6, <2>1
  <2>2. \A g \in [C -> V] : \A k \in C : F[<<g, k>>] \in V  BY <1>2, <1>6
  <2>3. QED  BY <1>4, <2>1, <2>2 DEF IsCausal
<1>8. PICK g \in [C -> V] : \A k \in C : g[k] = F[<<g, k>>]
  <2>1. V # {}  BY <1>5
  <2>2. QED  BY <1>1, <1>7, <2>1, TableExists
<1>9. g = [k \in C |-> NextText(lines, marks, g, k)]  BY <1>2, <1>8
<1>10. \E f : f = [k \in C |-> NextText(lines, marks, f, k)]  BY <1>9
<1>11. TextUpTo(lines, marks) = [k \in C |-> NextText(lines, marks, TextUpTo(lines, marks), k)]
  BY <1>10 DEF TextUpTo, NextText, C, N
<1> DEFINE text == TextUpTo(lines, marks)
           Q == {k \in C : text[k] \in V}
<1>12. \A k \in C : text[k] = NextText(lines, marks, text, k)  BY <1>11
<1> HIDE DEF text
<1>13. \A k \in C : (\A d \in C : m[d] < m[k] => d \in Q) => k \in Q
  <2> SUFFICES ASSUME NEW k \in C, \A d \in C : m[d] < m[k] => text[d] \in V
               PROVE  text[k] \in V
    OBVIOUS
  <2>1. k # 0 => text[k - 1] \in V  BY <1>3
  <2>2. NextText(lines, marks, text, k) \in V  BY <2>1, NextTextIsCausal DEF C, V, N
  <2>3. QED  BY <1>12, <2>2
<1>14. C \subseteq Q
  <2> HIDE DEF Q
  <2>1. \A k \in C : m[k] \in Nat  BY <1>4
  <2>2. QED  BY <1>13, <2>1, ByMeasure
<1>15. \A k \in C : text[k] \in V  BY <1>14
<1>16. text \in [C -> V]  BY <1>11, <1>15 DEF text
<1>17. QED  BY <1>12, <1>16 DEF text, C, V, N

\* What is left of a text when only some lines are read.
ReadsLines(lines, marks, text) ==
    /\ text[0] = << >>
    /\ \A k \in 1..Len(lines) :
          text[k] = IF lines[k].mark \in marks THEN Append(text[k - 1], lines[k].line)
                    ELSE text[k - 1]

LEMMA TextFacts ==
    ASSUME NEW S, NEW lines \in Seq(Rows(S)), NEW marks
    PROVE  /\ ReadsLines(lines, marks, TextUpTo(lines, marks))
           /\ \A k \in 0..Len(lines) : TextUpTo(lines, marks)[k] \in Seq(S)
           /\ TextOf(lines, marks) \in Seq(S)
<1>1. Len(lines) \in Nat  OBVIOUS
<1>2. 0 \in 0..Len(lines) /\ Len(lines) \in 0..Len(lines)  BY <1>1
<1>3. \A k \in 1..Len(lines) : k \in 0..Len(lines) /\ k # 0  BY <1>1
<1>4. \A k \in 0..Len(lines) : TextUpTo(lines, marks)[k] \in Seq(S)  BY TextTable
<1>5. TextUpTo(lines, marks)[0] = << >>  BY <1>2, TextTable DEF NextText
<1>6. \A k \in 1..Len(lines) :
         TextUpTo(lines, marks)[k] = NextText(lines, marks, TextUpTo(lines, marks), k)
  BY <1>3, TextTable
<1>7. QED  BY <1>2, <1>3, <1>4, <1>5, <1>6 DEF NextText, TextOf, ReadsLines

\* A text that is marked as a whole.
LEMMA TextOfMarked ==
    ASSUME NEW S, NEW u \in Seq(S), NEW mark \in Marks, NEW marks
    PROVE  /\ Marked(mark, u) \in Seq(Rows(S))
           /\ TextOf(Marked(mark, u), marks) = IF mark \in marks THEN u ELSE << >>
<1> DEFINE lines == Marked(mark, u)
           N == Len(u)
           text == TextUpTo(lines, marks)
           Q == {k \in 0..N : text[k] = IF mark \in marks THEN SubSeq(u, 1, k) ELSE << >>}
<1>1. N \in Nat /\ DOMAIN u = 1..N /\ \A k \in 1..N : u[k] \in S  OBVIOUS
<1>2. lines = [k \in 1..N |-> [mark |-> mark, line |-> u[k]]]  BY <1>1 DEF Marked
<1>3. \A k \in 1..N : [mark |-> mark, line |-> u[k]] \in Rows(S)  BY <1>1, RowFacts
<1>4. lines \in Seq(Rows(S)) /\ Len(lines) = N
  <2> HIDE DEF lines, N
  <2>1. QED  BY <1>1, <1>2, <1>3
<1>5. \A k \in 1..N : lines[k].mark = mark /\ lines[k].line = u[k]  BY <1>2
<1> HIDE DEF lines
<1>6. /\ text[0] = << >>
      /\ \A k \in 1..N : text[k] = IF mark \in marks THEN Append(text[k - 1], u[k]) ELSE text[k - 1]
  BY <1>4, <1>5, TextFacts DEF ReadsLines
<1>7. SubSeq(u, 1, 0) = << >> /\ SubSeq(u, 1, N) = u  BY <1>1
<1>8. \A k \in 0..N : k < N => SubSeq(u, 1, k + 1) = Append(SubSeq(u, 1, k), u[k + 1])
  BY <1>1
<1> HIDE DEF text, N
<1>9. 0 \in Q
  <2>1. 0 \in 0..N  BY <1>1
  <2>2. text[0] = IF mark \in marks THEN SubSeq(u, 1, 0) ELSE << >>  BY <1>6, <1>7
  <2>3. QED  BY <2>1, <2>2
<1>10. \A k \in 0..N : k \in Q /\ k < N => k + 1 \in Q
  <2> SUFFICES ASSUME NEW k \in 0..N, k \in Q, k < N PROVE k + 1 \in Q
    OBVIOUS
  <2>1. k + 1 \in 1..N /\ k + 1 \in 0..N /\ (k + 1) - 1 = k  BY <1>1
  <2>2. text[k + 1] = IF mark \in marks THEN Append(text[k], u[k + 1]) ELSE text[k]
    BY <1>6, <2>1
  <2>3. QED  BY <1>8, <2>1, <2>2
<1>11. 0..N \subseteq Q
  <2> HIDE DEF Q
  <2>1. QED  BY <1>1, <1>9, <1>10, CountingUp
<1>12. N \in Q  BY <1>1, <1>11
<1>13. text[N] = IF mark \in marks THEN u ELSE << >>  BY <1>7, <1>12
<1>14. QED  BY <1>4, <1>13 DEF TextOf, text, lines

Join(u, v) == u \o v
Add(u, x) == Append(u, x)

LEMMA AddToJoined ==
    ASSUME NEW S, NEW u \in Seq(S), NEW v \in Seq(S), NEW x \in S
    PROVE  Add(Join(u, v), x) = Join(u, Add(v, x))
BY DEF Add, Join

LEMMA JoinFacts ==
    ASSUME NEW S, NEW u \in Seq(S), NEW v \in Seq(S)
    PROVE  /\ Join(u, v) \in Seq(S) /\ Len(Join(u, v)) = Len(u) + Len(v)
           /\ Join(<< >>, v) = v
BY DEF Join

LinesStay(u, v) ==
    /\ \A i \in 1..Len(u) : Join(u, v)[i] = u[i]
    /\ \A i \in 1..Len(v) : Join(u, v)[Len(u) + i] = v[i]

LEMMA JoinLines ==
    ASSUME NEW S, NEW u \in Seq(S), NEW v \in Seq(S)
    PROVE  LinesStay(u, v)
BY DEF Join, LinesStay

\* Texts are joined as their lines are.
LEMMA TextOfJoined ==
    ASSUME NEW S, NEW s \in Seq(Rows(S)), NEW t \in Seq(Rows(S)), NEW marks
    PROVE  /\ Join(s, t) \in Seq(Rows(S))
           /\ TextOf(Join(s, t), marks) = Join(TextOf(s, marks), TextOf(t, marks))
<1> DEFINE m == Len(s)
           n == Len(t)
           all == TextUpTo(s \o t, marks)
           first == TextUpTo(s, marks)
           rest == TextUpTo(t, marks)
           P == {k \in 0..m : all[k] = first[k]}
           Q == {k \in 0..n : all[m + k] = first[m] \o rest[k]}
<1>1. m \in Nat /\ n \in Nat /\ s \o t \in Seq(Rows(S)) /\ Len(s \o t) = m + n  OBVIOUS
<1>2. \A k \in 1..m : (s \o t)[k] = s[k]  OBVIOUS
<1>3. \A k \in 1..n : (s \o t)[m + k] = t[k]  OBVIOUS
<1>4. /\ first[0] = << >>
      /\ \A k \in 1..m : first[k] = IF s[k].mark \in marks THEN Append(first[k - 1], s[k].line)
                                    ELSE first[k - 1]
      /\ \A k \in 0..m : first[k] \in Seq(S)
  BY TextFacts DEF ReadsLines
<1>5. /\ rest[0] = << >>
      /\ \A k \in 1..n : rest[k] = IF t[k].mark \in marks THEN Append(rest[k - 1], t[k].line)
                                   ELSE rest[k - 1]
      /\ \A k \in 0..n : rest[k] \in Seq(S)
  BY TextFacts DEF ReadsLines
<1>6. /\ all[0] = << >>
      /\ \A k \in 1..(m + n) : all[k] = IF (s \o t)[k].mark \in marks
                                        THEN Append(all[k - 1], (s \o t)[k].line)
                                        ELSE all[k - 1]
  <2> DEFINE st == s \o t
  <2>1. st \in Seq(Rows(S)) /\ Len(st) = m + n  BY <1>1
  <2> HIDE DEF st
  <2>2. ReadsLines(st, marks, TextUpTo(st, marks))  BY <2>1, TextFacts
  <2>3. QED  BY <2>1, <2>2 DEF st, ReadsLines
<1>7. \A k \in 1..n : t[k].line \in S  BY RowLines
<1> HIDE DEF m, n, all, first, rest
<1>8. m \in P
  <2>1. 0 \in P  BY <1>1, <1>4, <1>6
  <2>2. \A k \in 0..m : k \in P /\ k < m => k + 1 \in P
    <3> SUFFICES ASSUME NEW k \in 0..m, k \in P, k < m PROVE k + 1 \in P
      OBVIOUS
    <3>1. k + 1 \in 1..m /\ k + 1 \in 0..m /\ k + 1 \in 1..(m + n) /\ (k + 1) - 1 = k  BY <1>1
    <3>2. first[k + 1] = IF s[k + 1].mark \in marks THEN Append(first[k], s[k + 1].line)
                         ELSE first[k]
      BY <1>4, <3>1
    <3>3. all[k + 1] = IF s[k + 1].mark \in marks THEN Append(all[k], s[k + 1].line)
                       ELSE all[k]
      BY <1>2, <1>6, <3>1
    <3>4. QED  BY <3>1, <3>2, <3>3
  <2> HIDE DEF P
  <2>3. 0..m \subseteq P  BY <1>1, <2>1, <2>2, CountingUp
  <2>4. QED  BY <1>1, <2>3
<1>9. n \in Q
  <2>1. 0 \in Q
    <3>1. first[m] \in Seq(S) /\ m + 0 = m /\ all[m] = first[m]  BY <1>1, <1>4, <1>8
    <3>2. first[m] \o << >> = first[m]  BY <3>1
    <3>3. 0 \in 0..n  BY <1>1
    <3>4. all[m + 0] = first[m] \o rest[0]  BY <1>5, <3>1, <3>2
    <3>5. QED  BY <3>3, <3>4
  <2>2. \A k \in 0..n : k \in Q /\ k < n => k + 1 \in Q
    <3> SUFFICES ASSUME NEW k \in 0..n, k \in Q, k < n PROVE k + 1 \in Q
      OBVIOUS
    <3>1. /\ k + 1 \in 1..n /\ k + 1 \in 0..n /\ (k + 1) - 1 = k
          /\ m + (k + 1) \in 1..(m + n) /\ (m + (k + 1)) - 1 = m + k
      BY <1>1
    <3>2. rest[k + 1] = IF t[k + 1].mark \in marks THEN Append(rest[k], t[k + 1].line)
                        ELSE rest[k]
      BY <1>5, <3>1
    <3>3. (s \o t)[m + (k + 1)] = t[k + 1]  BY <1>3, <3>1
    <3>4. all[m + (k + 1)] = IF t[k + 1].mark \in marks
                             THEN Append(all[m + k], t[k + 1].line)
                             ELSE all[m + k]
      BY <1>6, <3>1, <3>3
    <3>5. first[m] \in Seq(S) /\ rest[k] \in Seq(S) /\ t[k + 1].line \in S
      BY <1>1, <1>4, <1>5, <1>7, <3>1
    <3>6. Append(first[m] \o rest[k], t[k + 1].line) = first[m] \o Append(rest[k], t[k + 1].line)
      <4>1. Add(Join(first[m], rest[k]), t[k + 1].line) = Join(first[m], Add(rest[k], t[k + 1].line))
        BY <3>5, AddToJoined
      <4>2. QED  BY <4>1 DEF Add, Join
    <3>7. QED  BY <3>1, <3>2, <3>4, <3>6
  <2> HIDE DEF Q
  <2>3. 0..n \subseteq Q  BY <1>1, <2>1, <2>2, CountingUp
  <2>4. QED  BY <1>1, <2>3
<1>10. all[m + n] = first[m] \o rest[n]  BY <1>9
<1>11. QED  BY <1>1, <1>10 DEF TextOf, Join, all, first, rest, m, n

-----------------------------------------------------------------------------
(***************************************************************************)
(* The walk over the table.                                                *)
(***************************************************************************)
Rest(u, k) == SubSeq(u, k, Len(u))

LEMMA RestFacts ==
    ASSUME NEW S, NEW u \in Seq(S), NEW k \in 1..(Len(u) + 1)
    PROVE  /\ Rest(u, k) \in Seq(S)
           /\ k > Len(u) => Rest(u, k) = << >>
           /\ k <= Len(u) => u[k] \in S /\ Rest(u, k) = Join(<<u[k]>>, Rest(u, k + 1))
<1>1. Len(u) \in Nat  OBVIOUS
<1>2. k > Len(u) => Rest(u, k) = << >>
  <2>1. k > Len(u) => k = Len(u) + 1  BY <1>1
  <2>2. QED  BY <1>1, <2>1 DEF Rest
<1>3. Rest(u, k) \in Seq(S)  BY <1>1 DEF Rest
<1>4. ASSUME k <= Len(u) PROVE u[k] \in S /\ Rest(u, k) = Join(<<u[k]>>, Rest(u, k + 1))
  <2> DEFINE p == Rest(u, k)
             q == Join(<<u[k]>>, Rest(u, k + 1))
  <2>1. k \in 1..Len(u) /\ u[k] \in S  BY <1>1, <1>4
  <2>2. p \in Seq(S) /\ Len(p) = Len(u) - k + 1  BY <1>1, <2>1 DEF Rest
  <2>3. \A i \in 1..(Len(u) - k + 1) : p[i] = u[k + i - 1]  BY <1>1, <2>1 DEF Rest
  <2>4. Rest(u, k + 1) \in Seq(S) /\ Len(Rest(u, k + 1)) = Len(u) - k  BY <1>1, <2>1 DEF Rest
  <2>5. \A i \in 1..(Len(u) - k) : Rest(u, k + 1)[i] = u[k + i]  BY <1>1, <2>1 DEF Rest
  <2> DEFINE r == Rest(u, k + 1)
  <2> HIDE DEF r
  <2>6. <<u[k]>> \in Seq(S) /\ Len(<<u[k]>>) = 1 /\ <<u[k]>>[1] = u[k]  BY <2>1
  <2>7. /\ q \in Seq(S) /\ Len(q) = 1 + (Len(u) - k) /\ q[1] = u[k]
        /\ \A i \in 1..(Len(u) - k) : q[1 + i] = u[k + i]
    <3> DEFINE one == <<u[k]>>
    <3>0. q = Join(one, r)  BY DEF r
    <3>1. /\ one \in Seq(S) /\ Len(one) = 1 /\ one[1] = u[k]
          /\ r \in Seq(S) /\ Len(r) = Len(u) - k /\ \A i \in 1..Len(r) : r[i] = u[k + i]
      BY <2>4, <2>5, <2>6 DEF r
    <3> HIDE DEF one, q
    <3>2. Join(one, r) \in Seq(S) /\ Len(Join(one, r)) = Len(one) + Len(r)
      BY <3>1, JoinFacts
    <3>3. LinesStay(one, r)  BY <3>1, JoinLines
    <3>4. Join(one, r)[1] = u[k] /\ \A i \in 1..Len(r) : Join(one, r)[1 + i] = u[k + i]
      BY <3>1, <3>3 DEF LinesStay
    <3>5. QED  BY <3>0, <3>1, <3>2, <3>4
  <2> HIDE DEF p, q
  <2>8. \A i \in 1..Len(p) : p[i] = q[i]
    <3> TAKE i \in 1..Len(p)
    <3>1. CASE i = 1
      <4>1. i \in 1..(Len(u) - k + 1) /\ k + i - 1 = k  BY <1>1, <2>1, <3>1
      <4>2. QED  BY <2>3, <2>7, <3>1, <4>1
    <3>2. CASE i # 1
      <4>1. /\ i - 1 \in 1..(Len(u) - k) /\ 1 + (i - 1) = i /\ k + (i - 1) = k + i - 1
            /\ i \in 1..(Len(u) - k + 1)
        BY <1>1, <2>1, <2>2, <3>2
      <4>2. q[1 + (i - 1)] = u[k + (i - 1)]  BY <2>7, <4>1
      <4>3. QED  BY <2>3, <4>1, <4>2
    <3>3. QED  BY <3>1, <3>2
  <2>9. p = q
    <3>1. Len(p) = Len(q)  BY <1>1, <2>1, <2>2, <2>7
    <3>2. QED  BY <2>2, <2>7, <2>8, <3>1, SeqEqual
  <2>10. QED  BY <2>1, <2>9 DEF p, q
<1>5. QED  BY <1>2, <1>3, <1>4

LEMMA OneLine ==
    ASSUME NEW S, NEW x \in S, NEW mark \in Marks, NEW q \in Seq(Rows(S)), NEW marks
    PROVE  /\ Join(Marked(mark, <<x>>), q) \in Seq(Rows(S))
           /\ mark \in marks => TextOf(Join(Marked(mark, <<x>>), q), marks) = Join(<<x>>, TextOf(q, marks))
           /\ mark \notin marks => TextOf(Join(Marked(mark, <<x>>), q), marks) = TextOf(q, marks)
<1> DEFINE one == Marked(mark, <<x>>)
<1>1. <<x>> \in Seq(S)  OBVIOUS
<1>2. one \in Seq(Rows(S)) /\ TextOf(one, marks) = IF mark \in marks THEN <<x>> ELSE << >>
  BY <1>1, TextOfMarked
<1> HIDE DEF one
<1>3. /\ Join(one, q) \in Seq(Rows(S))
      /\ TextOf(Join(one, q), marks) = Join(TextOf(one, marks), TextOf(q, marks))
  BY <1>2, TextOfJoined
<1>4. TextOf(q, marks) \in Seq(S)  BY TextFacts
<1>5. Join(<< >>, TextOf(q, marks)) = TextOf(q, marks)  BY <1>4, JoinFacts
<1>6. QED  BY <1>2, <1>3, <1>5 DEF one

\* The cases of both tables.
LcsRule(b, a, g, c) ==
    /\ c[1] > Len(b) \/ c[2] > Len(a) => LcsAt(b, a, g, c) = 0
    /\ c[1] <= Len(b) /\ c[2] <= Len(a) /\ b[c[1]] = a[c[2]] =>
          LcsAt(b, a, g, c) = g[<<c[1] + 1, c[2] + 1>>] + 1
    /\ c[1] <= Len(b) /\ c[2] <= Len(a) /\ b[c[1]] # a[c[2]] =>
          LcsAt(b, a, g, c) = Larger(g[<<c[1] + 1, c[2]>>], g[<<c[1], c[2] + 1>>])

PatchRule(b, a, lcs, p, c) ==
    /\ c[1] > Len(b) => PatchAt(b, a, lcs, p, c) = Marked(Added, Rest(a, c[2]))
    /\ c[1] <= Len(b) /\ c[2] > Len(a) =>
          PatchAt(b, a, lcs, p, c) = Marked(Gone, Rest(b, c[1]))
    /\ c[1] <= Len(b) /\ c[2] <= Len(a) /\ b[c[1]] = a[c[2]] =>
          PatchAt(b, a, lcs, p, c) = Join(Marked(Same, <<b[c[1]]>>), p[<<c[1] + 1, c[2] + 1>>])
    /\ c[1] <= Len(b) /\ c[2] <= Len(a) /\ b[c[1]] # a[c[2]] =>
          PatchAt(b, a, lcs, p, c) =
             IF lcs[<<c[1] + 1, c[2]>>] >= lcs[<<c[1], c[2] + 1>>]
             THEN Join(Marked(Gone, <<b[c[1]]>>), p[<<c[1] + 1, c[2]>>])
             ELSE Join(Marked(Added, <<a[c[2]]>>), p[<<c[1], c[2] + 1>>])

LEMMA TableCases ==
    ASSUME NEW S, NEW b \in Seq(S), NEW a \in Seq(S), NEW c \in Cells(b, a)
    PROVE  /\ \A g : LcsRule(b, a, g, c)
           /\ \A lcs, p : PatchRule(b, a, lcs, p, c)
<1>1. Len(b) \in Nat /\ Len(a) \in Nat /\ c[1] \in 1..(Len(b) + 1) /\ c[2] \in 1..(Len(a) + 1)
  BY CellFacts
<1>2. /\ c[1] > Len(b) <=> ~(c[1] <= Len(b))
      /\ c[2] > Len(a) <=> ~(c[2] <= Len(a))
  BY <1>1
<1>3. ASSUME NEW g PROVE LcsRule(b, a, g, c)
  BY <1>2 DEF LcsRule, LcsAt
<1>4. ASSUME NEW lcs, NEW p PROVE PatchRule(b, a, lcs, p, c)
  BY <1>2 DEF PatchRule, PatchAt, Rest, Join
<1>5. QED  BY <1>3, <1>4

\* The next places of the table.
LEMMA NextCells ==
    ASSUME NEW S, NEW b \in Seq(S), NEW a \in Seq(S), NEW c \in Cells(b, a)
    PROVE  /\ c[1] > Len(b) \/ (c[1] <= Len(b) /\ c[2] > Len(a)) \/ (c[1] <= Len(b) /\ c[2] <= Len(a))
           /\ c[1] <= Len(b) => c[1] \in 1..Len(b)
           /\ c[2] <= Len(a) => c[2] \in 1..Len(a)
<1>1. /\ Len(b) \in Nat /\ Len(a) \in Nat
      /\ c[1] \in 1..(Len(b) + 1) /\ c[2] \in 1..(Len(a) + 1)
  BY CellFacts
<1>2. QED  BY <1>1

LEMMA PatchAtIsCausal ==
    ASSUME NEW S, NEW b \in Seq(S), NEW a \in Seq(S), NEW c \in Cells(b, a), NEW lcs, NEW g,
           \A d \in Cells(b, a) : Togo(b, a)[d] < Togo(b, a)[c] => g[d] \in Seq(Rows(S))
    PROVE  /\ PatchAt(b, a, lcs, g, c) \in Seq(Rows(S))
           /\ \A h : (\A d \in Cells(b, a) : Togo(b, a)[d] < Togo(b, a)[c] => g[d] = h[d])
                        => PatchAt(b, a, lcs, g, c) = PatchAt(b, a, lcs, h, c)
<1> DEFINE Near(h) == \A d \in Cells(b, a) : Togo(b, a)[d] < Togo(b, a)[c] => g[d] = h[d]
<1>0. /\ c[1] <= Len(b) => /\ <<c[1] + 1, c[2]>> \in Cells(b, a)
                           /\ Togo(b, a)[<<c[1] + 1, c[2]>>] < Togo(b, a)[c]
      /\ c[2] <= Len(a) => /\ <<c[1], c[2] + 1>> \in Cells(b, a)
                           /\ Togo(b, a)[<<c[1], c[2] + 1>>] < Togo(b, a)[c]
      /\ c[1] <= Len(b) /\ c[2] <= Len(a) =>
            /\ <<c[1] + 1, c[2] + 1>> \in Cells(b, a)
            /\ Togo(b, a)[<<c[1] + 1, c[2] + 1>>] < Togo(b, a)[c]
      /\ c[1] \in 1..(Len(b) + 1) /\ c[2] \in 1..(Len(a) + 1)
  BY CellFacts
<1>r. \A h : PatchRule(b, a, lcs, h, c)  BY TableCases
<1>1. Same \in Marks /\ Gone \in Marks /\ Added \in Marks  BY DEF Marks
<1>2. CASE c[1] > Len(b)
  <2>1. Rest(a, c[2]) \in Seq(S)  BY <1>0, RestFacts
  <2>2. Marked(Added, Rest(a, c[2])) \in Seq(Rows(S))  BY <1>1, <2>1, TextOfMarked
  <2>3. ASSUME NEW h PROVE PatchAt(b, a, lcs, h, c) = Marked(Added, Rest(a, c[2]))
    BY <1>r, <1>2 DEF PatchRule
  <2>4. QED  BY <2>2, <2>3
<1>3. CASE c[1] <= Len(b) /\ c[2] > Len(a)
  <2>1. Rest(b, c[1]) \in Seq(S)  BY <1>0, RestFacts
  <2>2. Marked(Gone, Rest(b, c[1])) \in Seq(Rows(S))  BY <1>1, <2>1, TextOfMarked
  <2>3. ASSUME NEW h PROVE PatchAt(b, a, lcs, h, c) = Marked(Gone, Rest(b, c[1]))
    BY <1>r, <1>3 DEF PatchRule
  <2>4. QED  BY <2>2, <2>3
<1>4. CASE c[1] <= Len(b) /\ c[2] <= Len(a) /\ b[c[1]] = a[c[2]]
  <2>1. g[<<c[1] + 1, c[2] + 1>>] \in Seq(Rows(S)) /\ b[c[1]] \in S
    BY <1>0, <1>4, NextCells
  <2>2. ASSUME NEW h
        PROVE  PatchAt(b, a, lcs, h, c) = Join(Marked(Same, <<b[c[1]]>>), h[<<c[1] + 1, c[2] + 1>>])
    BY <1>r, <1>4 DEF PatchRule
  <2>3. \A h : Near(h) => g[<<c[1] + 1, c[2] + 1>>] = h[<<c[1] + 1, c[2] + 1>>]
    BY <1>0, <1>4
  <2>4. Join(Marked(Same, <<b[c[1]]>>), g[<<c[1] + 1, c[2] + 1>>]) \in Seq(Rows(S))
    BY <1>1, <2>1, OneLine
  <2>5. PatchAt(b, a, lcs, g, c) \in Seq(Rows(S))  BY <2>2, <2>4
  <2>6. \A h : Near(h) => PatchAt(b, a, lcs, g, c) = PatchAt(b, a, lcs, h, c)
    <3> HIDE DEF Near
    <3>1. QED  BY <2>2, <2>3
  <2>7. QED  BY <2>5, <2>6
<1>5. CASE c[1] <= Len(b) /\ c[2] <= Len(a) /\ b[c[1]] # a[c[2]]
  <2>1. /\ g[<<c[1] + 1, c[2]>>] \in Seq(Rows(S)) /\ g[<<c[1], c[2] + 1>>] \in Seq(Rows(S))
        /\ b[c[1]] \in S /\ a[c[2]] \in S
    BY <1>0, <1>5, NextCells
  <2>2. ASSUME NEW h
        PROVE  PatchAt(b, a, lcs, h, c) =
                  IF lcs[<<c[1] + 1, c[2]>>] >= lcs[<<c[1], c[2] + 1>>]
                  THEN Join(Marked(Gone, <<b[c[1]]>>), h[<<c[1] + 1, c[2]>>])
                  ELSE Join(Marked(Added, <<a[c[2]]>>), h[<<c[1], c[2] + 1>>])
    BY <1>r, <1>5 DEF PatchRule
  <2>3. \A h : Near(h) => /\ g[<<c[1] + 1, c[2]>>] = h[<<c[1] + 1, c[2]>>]
                          /\ g[<<c[1], c[2] + 1>>] = h[<<c[1], c[2] + 1>>]
    BY <1>0, <1>5
  <2>4. /\ Join(Marked(Gone, <<b[c[1]]>>), g[<<c[1] + 1, c[2]>>]) \in Seq(Rows(S))
        /\ Join(Marked(Added, <<a[c[2]]>>), g[<<c[1], c[2] + 1>>]) \in Seq(Rows(S))
    BY <1>1, <2>1, OneLine
  <2>5. PatchAt(b, a, lcs, g, c) \in Seq(Rows(S))  BY <2>2, <2>4
  <2>6. \A h : Near(h) => PatchAt(b, a, lcs, g, c) = PatchAt(b, a, lcs, h, c)
    <3> HIDE DEF Near
    <3>1. QED  BY <2>2, <2>3
  <2>7. QED  BY <2>5, <2>6
<1>6. QED  BY <1>2, <1>3, <1>4, <1>5, NextCells

LEMMA PatchTable ==
    ASSUME NEW S, NEW b \in Seq(S), NEW a \in Seq(S)
    PROVE  \A c \in Cells(b, a) :
              /\ Patch(b, a)[c] \in Seq(Rows(S))
              /\ Patch(b, a)[c] = PatchAt(b, a, BuildLcsMatrix(b, a), Patch(b, a), c)
<1> DEFINE C == Cells(b, a)
           V == Seq(Rows(S))
           m == Togo(b, a)
           lcs == BuildLcsMatrix(b, a)
           F == [x \in [C -> V] \X C |-> PatchAt(b, a, lcs, x[1], x[2])]
           N == Len(b) + Len(a)
<1>1. N \in Nat /\ \A c \in C : m[c] \in 0..N
  <2>1. N \in Nat  OBVIOUS
  <2>2. QED  BY <2>1, CellFacts
<1>2. \A g \in [C -> V] : \A c \in C : F[<<g, c>>] = PatchAt(b, a, lcs, g, c)  OBVIOUS
<1> HIDE DEF lcs
<1>3. \A g \in [C -> V] : \A c \in C :
         /\ PatchAt(b, a, lcs, g, c) \in V
         /\ \A h : (\A d \in C : m[d] < m[c] => g[d] = h[d])
                      => PatchAt(b, a, lcs, g, c) = PatchAt(b, a, lcs, h, c)
  <2> TAKE g \in [C -> V]
  <2> TAKE c \in C
  <2>1. \A d \in C : g[d] \in V  OBVIOUS
  <2> HIDE DEF C, m, V
  <2>2. QED  BY <2>1, PatchAtIsCausal DEF C, m, V
<1> HIDE DEF C, F, m, N, V
<1>4. \A g \in [C -> V] : \A c \in C : F[<<g, c>>] \in V  BY <1>2, <1>3
<1>5. ASSUME NEW g \in [C -> V], NEW h \in [C -> V], NEW c \in C,
             \A d \in C : m[d] < m[c] => g[d] = h[d]
      PROVE  F[<<g, c>>] = F[<<h, c>>]
  <2>1. PatchAt(b, a, lcs, g, c) = PatchAt(b, a, lcs, h, c)  BY <1>3, <1>5
  <2>2. QED  BY <1>2, <2>1
<1>6. PICK g \in [C -> V] : \A c \in C : g[c] = F[<<g, c>>]
  <2>1. IsCausal(C, V, N, m, F)  BY <1>1, <1>4, <1>5 DEF IsCausal
  <2>2. V # {}
    <3>1. << >> \in V  BY DEF V
    <3>2. QED  BY <3>1
  <2>3. QED  BY <1>1, <2>1, <2>2, TableExists
<1>7. g = [c \in C |-> PatchAt(b, a, lcs, g, c)]  BY <1>2, <1>6
<1>8. \E f : f = [c \in C |-> PatchAt(b, a, lcs, f, c)]  BY <1>7
<1>9. Patch(b, a) = [c \in C |-> PatchAt(b, a, lcs, Patch(b, a), c)]
  BY <1>8 DEF Patch, C, lcs
<1> DEFINE p == Patch(b, a)
           Q == {c \in C : p[c] \in V}
<1>10. \A c \in C : p[c] = PatchAt(b, a, lcs, p, c)  BY <1>9
<1> HIDE DEF p
<1>11. \A c \in C : (\A d \in C : m[d] < m[c] => d \in Q) => c \in Q
  <2> SUFFICES ASSUME NEW c \in C, \A d \in C : m[d] < m[c] => p[d] \in V
               PROVE  p[c] \in V
    OBVIOUS
  <2>1. PatchAt(b, a, lcs, p, c) \in V  BY PatchAtIsCausal DEF C, m, V
  <2>2. QED  BY <1>10, <2>1
<1>12. \A c \in C : m[c] \in Nat  BY <1>1
<1>13. C \subseteq Q
  <2> HIDE DEF Q
  <2>1. QED  BY <1>11, <1>12, ByMeasure
<1>14. \A c \in C : p[c] \in V  BY <1>13
<1>15. QED  BY <1>10, <1>14 DEF p, C, V, lcs

\* From a place on, the patch says what is left of both texts, and keeps what the table says.
Says(b, a, c) ==
    /\ TextOf(Patch(b, a)[c], {Same, Gone}) = Rest(b, c[1])
    /\ TextOf(Patch(b, a)[c], {Same, Added}) = Rest(a, c[2])
    /\ Len(TextOf(Patch(b, a)[c], {Same})) = BuildLcsMatrix(b, a)[c]

LEMMA PatchSaysIt ==
    ASSUME NEW S, NEW b \in Seq(S), NEW a \in Seq(S), NEW c \in Cells(b, a),
           \A d \in Cells(b, a) : Togo(b, a)[d] < Togo(b, a)[c] => Says(b, a, d)
    PROVE  Says(b, a, c)
<1> DEFINE p == Patch(b, a)
           lcs == BuildLcsMatrix(b, a)
<1>0. /\ c[1] <= Len(b) => /\ <<c[1] + 1, c[2]>> \in Cells(b, a)
                           /\ Togo(b, a)[<<c[1] + 1, c[2]>>] < Togo(b, a)[c]
      /\ c[2] <= Len(a) => /\ <<c[1], c[2] + 1>> \in Cells(b, a)
                           /\ Togo(b, a)[<<c[1], c[2] + 1>>] < Togo(b, a)[c]
      /\ c[1] <= Len(b) /\ c[2] <= Len(a) =>
            /\ <<c[1] + 1, c[2] + 1>> \in Cells(b, a)
            /\ Togo(b, a)[<<c[1] + 1, c[2] + 1>>] < Togo(b, a)[c]
      /\ c[1] \in 1..(Len(b) + 1) /\ c[2] \in 1..(Len(a) + 1)
  BY CellFacts
<1>1. Same \in Marks /\ Gone \in Marks /\ Added \in Marks  BY DEF Marks
<1>2. PatchRule(b, a, lcs, p, c) /\ LcsRule(b, a, lcs, c)  BY TableCases
<1>3. p[c] = PatchAt(b, a, lcs, p, c) /\ lcs[c] = LcsAt(b, a, lcs, c)  BY PatchTable, LcsTable
<1>4. \A d \in Cells(b, a) : p[d] \in Seq(Rows(S)) /\ lcs[d] \in Nat  BY PatchTable, LcsTable
<1>5. Rest(b, c[1]) \in Seq(S) /\ Rest(a, c[2]) \in Seq(S)  BY <1>0, RestFacts
<1>6. /\ c[1] > Len(b) => Rest(b, c[1]) = << >>
      /\ c[2] > Len(a) => Rest(a, c[2]) = << >>
      /\ c[1] <= Len(b) => b[c[1]] \in S /\ Rest(b, c[1]) = Join(<<b[c[1]]>>, Rest(b, c[1] + 1))
      /\ c[2] <= Len(a) => a[c[2]] \in S /\ Rest(a, c[2]) = Join(<<a[c[2]]>>, Rest(a, c[2] + 1))
  BY <1>0, RestFacts
<1>7. /\ Same \in {Same, Gone} /\ Gone \in {Same, Gone} /\ Added \notin {Same, Gone}
      /\ Same \in {Same, Added} /\ Gone \notin {Same, Added} /\ Added \in {Same, Added}
      /\ Same \in {Same} /\ Gone \notin {Same} /\ Added \notin {Same}
  BY MarksDiffer
<1>8. Len(<< >>) = 0  OBVIOUS
<1> HIDE DEF p, lcs
<1>9. CASE c[1] > Len(b)
  <2>1. p[c] = Marked(Added, Rest(a, c[2]))  BY <1>2, <1>3, <1>9 DEF PatchRule
  <2>2. lcs[c] = 0  BY <1>2, <1>3, <1>9 DEF LcsRule
  <2>3. TextOf(p[c], {Same, Gone}) = << >>  BY <1>1, <1>5, <1>7, <2>1, TextOfMarked
  <2>4. TextOf(p[c], {Same, Added}) = Rest(a, c[2])  BY <1>1, <1>5, <1>7, <2>1, TextOfMarked
  <2>5. TextOf(p[c], {Same}) = << >>  BY <1>1, <1>5, <1>7, <2>1, TextOfMarked
  <2>6. QED  BY <1>6, <1>8, <1>9, <2>2, <2>3, <2>4, <2>5 DEF Says, p, lcs
<1>10. CASE c[1] <= Len(b) /\ c[2] > Len(a)
  <2>1. p[c] = Marked(Gone, Rest(b, c[1]))  BY <1>2, <1>3, <1>10 DEF PatchRule
  <2>2. lcs[c] = 0  BY <1>2, <1>3, <1>10 DEF LcsRule
  <2>3. TextOf(p[c], {Same, Gone}) = Rest(b, c[1])  BY <1>1, <1>5, <1>7, <2>1, TextOfMarked
  <2>4. TextOf(p[c], {Same, Added}) = << >>  BY <1>1, <1>5, <1>7, <2>1, TextOfMarked
  <2>5. TextOf(p[c], {Same}) = << >>  BY <1>1, <1>5, <1>7, <2>1, TextOfMarked
  <2>6. QED  BY <1>6, <1>8, <1>10, <2>2, <2>3, <2>4, <2>5 DEF Says, p, lcs
<1>11. CASE c[1] <= Len(b) /\ c[2] <= Len(a) /\ b[c[1]] = a[c[2]]
  <2> DEFINE d == <<c[1] + 1, c[2] + 1>>
  <2>1. d \in Cells(b, a) /\ Togo(b, a)[d] < Togo(b, a)[c] /\ d[1] = c[1] + 1 /\ d[2] = c[2] + 1
    BY <1>0, <1>11
  <2>2. p[c] = Join(Marked(Same, <<b[c[1]]>>), p[d])  BY <1>2, <1>3, <1>11 DEF PatchRule
  <2>3. lcs[c] = lcs[d] + 1  BY <1>2, <1>3, <1>11 DEF LcsRule
  <2> HIDE DEF d
  <2>4. p[d] \in Seq(Rows(S)) /\ lcs[d] \in Nat /\ b[c[1]] \in S  BY <1>4, <1>6, <1>11, <2>1
  <2>5. /\ TextOf(p[d], {Same, Gone}) = Rest(b, c[1] + 1)
        /\ TextOf(p[d], {Same, Added}) = Rest(a, c[2] + 1)
        /\ Len(TextOf(p[d], {Same})) = lcs[d]
    BY <2>1 DEF Says, p, lcs
  <2>6. TextOf(p[c], {Same, Gone}) = Join(<<b[c[1]]>>, Rest(b, c[1] + 1))
    BY <1>1, <1>7, <2>2, <2>4, <2>5, OneLine
  <2>7. TextOf(p[c], {Same, Added}) = Join(<<b[c[1]]>>, Rest(a, c[2] + 1))
    BY <1>1, <1>7, <2>2, <2>4, <2>5, OneLine
  <2>8. TextOf(p[c], {Same}) = Join(<<b[c[1]]>>, TextOf(p[d], {Same}))
    BY <1>1, <1>7, <2>2, <2>4, OneLine
  <2>9. Len(TextOf(p[c], {Same})) = lcs[c]
    <3>1. TextOf(p[d], {Same}) \in Seq(S) /\ <<b[c[1]]>> \in Seq(S)  BY <2>4, TextFacts
    <3>2. Len(<<b[c[1]]>>) = 1  OBVIOUS
    <3> DEFINE one == <<b[c[1]]>>
               rest == TextOf(p[d], {Same})
    <3>3. Len(Join(one, rest)) = Len(one) + Len(rest)
      <4>1. one \in Seq(S) /\ rest \in Seq(S)  BY <3>1
      <4> HIDE DEF one, rest
      <4>2. QED  BY <4>1, JoinFacts
    <3>4. Len(TextOf(p[c], {Same})) = Len(one) + Len(rest)  BY <2>8, <3>3
    <3>5. QED  BY <2>3, <2>4, <2>5, <3>2, <3>4
  <2>10. QED  BY <1>6, <1>11, <2>6, <2>7, <2>9 DEF Says, p, lcs
<1>12. CASE /\ c[1] <= Len(b) /\ c[2] <= Len(a) /\ b[c[1]] # a[c[2]]
            /\ lcs[<<c[1] + 1, c[2]>>] >= lcs[<<c[1], c[2] + 1>>]
  <2> DEFINE d == <<c[1] + 1, c[2]>>
  <2>1. d \in Cells(b, a) /\ Togo(b, a)[d] < Togo(b, a)[c] /\ d[1] = c[1] + 1 /\ d[2] = c[2]
    BY <1>0, <1>12
  <2>2. p[c] = Join(Marked(Gone, <<b[c[1]]>>), p[d])  BY <1>2, <1>3, <1>12 DEF PatchRule
  <2>3. lcs[c] = lcs[d]  BY <1>2, <1>3, <1>12 DEF LcsRule, Larger
  <2> HIDE DEF d
  <2>4. p[d] \in Seq(Rows(S)) /\ b[c[1]] \in S  BY <1>4, <1>6, <1>12, <2>1
  <2>5. /\ TextOf(p[d], {Same, Gone}) = Rest(b, c[1] + 1)
        /\ TextOf(p[d], {Same, Added}) = Rest(a, c[2])
        /\ Len(TextOf(p[d], {Same})) = lcs[d]
    BY <2>1 DEF Says, p, lcs
  <2>6. TextOf(p[c], {Same, Gone}) = Join(<<b[c[1]]>>, Rest(b, c[1] + 1))
    BY <1>1, <1>7, <2>2, <2>4, <2>5, OneLine
  <2>7. TextOf(p[c], {Same, Added}) = Rest(a, c[2])
    BY <1>1, <1>7, <2>2, <2>4, <2>5, OneLine
  <2>8. TextOf(p[c], {Same}) = TextOf(p[d], {Same})
    BY <1>1, <1>7, <2>2, <2>4, OneLine
  <2>9. QED  BY <1>6, <1>12, <2>3, <2>5, <2>6, <2>7, <2>8 DEF Says, p, lcs
<1>13. CASE /\ c[1] <= Len(b) /\ c[2] <= Len(a) /\ b[c[1]] # a[c[2]]
            /\ ~(lcs[<<c[1] + 1, c[2]>>] >= lcs[<<c[1], c[2] + 1>>])
  <2> DEFINE d == <<c[1], c[2] + 1>>
  <2>1. d \in Cells(b, a) /\ Togo(b, a)[d] < Togo(b, a)[c] /\ d[1] = c[1] /\ d[2] = c[2] + 1
    BY <1>0, <1>13
  <2>2. p[c] = Join(Marked(Added, <<a[c[2]]>>), p[d])  BY <1>2, <1>3, <1>13 DEF PatchRule
  <2>3. lcs[c] = lcs[d]  BY <1>2, <1>3, <1>13 DEF LcsRule, Larger
  <2> HIDE DEF d
  <2>4. p[d] \in Seq(Rows(S)) /\ a[c[2]] \in S  BY <1>4, <1>6, <1>13, <2>1
  <2>5. /\ TextOf(p[d], {Same, Gone}) = Rest(b, c[1])
        /\ TextOf(p[d], {Same, Added}) = Rest(a, c[2] + 1)
        /\ Len(TextOf(p[d], {Same})) = lcs[d]
    BY <2>1 DEF Says, p, lcs
  <2>6. TextOf(p[c], {Same, Gone}) = Rest(b, c[1])
    BY <1>1, <1>7, <2>2, <2>4, <2>5, OneLine
  <2>7. TextOf(p[c], {Same, Added}) = Join(<<a[c[2]]>>, Rest(a, c[2] + 1))
    BY <1>1, <1>7, <2>2, <2>4, <2>5, OneLine
  <2>8. TextOf(p[c], {Same}) = TextOf(p[d], {Same})
    BY <1>1, <1>7, <2>2, <2>4, OneLine
  <2>9. QED  BY <1>6, <1>13, <2>3, <2>5, <2>6, <2>7, <2>8 DEF Says, p, lcs
<1>14. QED  BY <1>9, <1>10, <1>11, <1>12, <1>13, NextCells

LEMMA PatchSays ==
    ASSUME NEW S, NEW b \in Seq(S), NEW a \in Seq(S)
    PROVE  \A c \in Cells(b, a) : Says(b, a, c)
<1> DEFINE C == Cells(b, a)
           m == Togo(b, a)
           Q == {c \in C : Says(b, a, c)}
<1>1. \A c \in C : m[c] \in Nat
  <2>1. \A c \in C : m[c] \in 0..(Len(b) + Len(a))  BY CellFacts
  <2>2. QED  BY <2>1
<1>2. \A c \in C : (\A d \in C : m[d] < m[c] => d \in Q) => c \in Q
  <2> SUFFICES ASSUME NEW c \in C, \A d \in C : m[d] < m[c] => Says(b, a, d)
               PROVE  Says(b, a, c)
    OBVIOUS
  <2> HIDE DEF C, m
  <2>1. QED  BY PatchSaysIt DEF C, m
<1>3. C \subseteq Q
  <2> HIDE DEF Q, C, m
  <2>1. QED  BY <1>1, <1>2, ByMeasure
<1>4. QED  BY <1>3

-----------------------------------------------------------------------------
(***************************************************************************)
(* No way to keep lines keeps more of them.                                *)
(***************************************************************************)
\* The ways to keep lines that are left from a place on.
Left(b, a, c) ==
    {kept \in SUBSET Crossings(b, a) :
        InOrder(kept) /\ \A d \in kept : c[1] <= d[1] /\ c[2] <= d[2]}

NoMore(b, a, c) == \A kept \in Left(b, a, c) : Cardinality(kept) <= BuildLcsMatrix(b, a)[c]

LEMMA KeptFacts ==
    ASSUME NEW S, NEW b \in Seq(S), NEW a \in Seq(S), NEW c \in Cells(b, a),
           NEW kept \in Left(b, a, c)
    PROVE  /\ \A d \in kept : /\ d = <<d[1], d[2]>> /\ b[d[1]] = a[d[2]]
                              /\ d[1] \in 1..Len(b) /\ d[2] \in 1..Len(a)
                              /\ c[1] <= d[1] /\ c[2] <= d[2]
           /\ \A d, e \in kept : d[1] < e[1] <=> d[2] < e[2]
           /\ IsFiniteSet(kept) /\ Cardinality(kept) \in Nat
<1>1. kept \subseteq Crossings(b, a) /\ InOrder(kept) /\ \A d \in kept : c[1] <= d[1] /\ c[2] <= d[2]
  BY DEF Left
<1>2. \A d \in Crossings(b, a) : /\ d = <<d[1], d[2]>> /\ b[d[1]] = a[d[2]]
                                 /\ d[1] \in 1..Len(b) /\ d[2] \in 1..Len(a)
  BY DEF Crossings
<1>3. IsFiniteSet(Crossings(b, a))
  <2>1. IsFiniteSet(1..Len(b)) /\ IsFiniteSet(1..Len(a))
    <3>1. 1 \in Int /\ Len(b) \in Int /\ Len(a) \in Int  OBVIOUS
    <3>2. QED  BY <3>1, FS_Interval
  <2>2. IsFiniteSet((1..Len(b)) \X (1..Len(a)))  BY <2>1, FS_Product
  <2>3. Crossings(b, a) \subseteq (1..Len(b)) \X (1..Len(a))  BY DEF Crossings
  <2>4. QED  BY <2>2, <2>3, FS_Subset
<1>4. IsFiniteSet(kept) /\ Cardinality(kept) \in Nat
  BY <1>1, <1>3, FS_Subset, FS_CardinalityType
<1>5. QED  BY <1>1, <1>2, <1>4 DEF InOrder

LEMMA NoMoreLeft ==
    ASSUME NEW S, NEW b \in Seq(S), NEW a \in Seq(S), NEW c \in Cells(b, a),
           \A d \in Cells(b, a) : Togo(b, a)[d] < Togo(b, a)[c] => NoMore(b, a, d)
    PROVE  NoMore(b, a, c)
<1> SUFFICES ASSUME NEW kept \in Left(b, a, c)
             PROVE  Cardinality(kept) <= BuildLcsMatrix(b, a)[c]
  BY DEF NoMore
<1> DEFINE lcs == BuildLcsMatrix(b, a)
<1>0. /\ c[1] <= Len(b) => /\ <<c[1] + 1, c[2]>> \in Cells(b, a)
                           /\ Togo(b, a)[<<c[1] + 1, c[2]>>] < Togo(b, a)[c]
      /\ c[2] <= Len(a) => /\ <<c[1], c[2] + 1>> \in Cells(b, a)
                           /\ Togo(b, a)[<<c[1], c[2] + 1>>] < Togo(b, a)[c]
      /\ c[1] <= Len(b) /\ c[2] <= Len(a) =>
            /\ <<c[1] + 1, c[2] + 1>> \in Cells(b, a)
            /\ Togo(b, a)[<<c[1] + 1, c[2] + 1>>] < Togo(b, a)[c]
      /\ c[1] \in 1..(Len(b) + 1) /\ c[2] \in 1..(Len(a) + 1)
      /\ Len(b) \in Nat /\ Len(a) \in Nat
  BY CellFacts
<1>1. c[1] \in Nat /\ c[2] \in Nat  BY <1>0
<1>2. LcsRule(b, a, lcs, c)  BY TableCases
<1>3. lcs[c] = LcsAt(b, a, lcs, c)  BY LcsTable
<1>4. \A d \in Cells(b, a) : lcs[d] \in Nat  BY LcsTable
<1>5. \A d \in kept : /\ d = <<d[1], d[2]>> /\ b[d[1]] = a[d[2]]
                      /\ d[1] \in 1..Len(b) /\ d[2] \in 1..Len(a)
                      /\ c[1] <= d[1] /\ c[2] <= d[2]
  BY KeptFacts
<1>6. \A d, e \in kept : d[1] < e[1] <=> d[2] < e[2]  BY KeptFacts
<1>7. IsFiniteSet(kept) /\ Cardinality(kept) \in Nat  BY KeptFacts
<1>8. \A d \in kept : d[1] \in Nat /\ d[2] \in Nat  BY <1>0, <1>5
<1>9. \A d \in Cells(b, a) : \A rest \in SUBSET kept :
         (\A e \in rest : d[1] <= e[1] /\ d[2] <= e[2]) => rest \in Left(b, a, d)
  BY DEF Left, InOrder
<1> HIDE DEF lcs
<1>10. CASE c[1] > Len(b) \/ c[2] > Len(a)
  <2>1. lcs[c] = 0  BY <1>2, <1>3, <1>10 DEF LcsRule
  <2>2. kept = {}
    <3> SUFFICES ASSUME NEW d \in kept PROVE FALSE
      OBVIOUS
    <3>1. d[1] \in 1..Len(b) /\ d[2] \in 1..Len(a) /\ c[1] <= d[1] /\ c[2] <= d[2]  BY <1>5
    <3>2. QED  BY <1>0, <1>10, <3>1
  <2>3. Cardinality(kept) = 0  BY <2>2, FS_EmptySet
  <2>4. QED  BY <2>1, <2>3 DEF lcs
<1>11. CASE c[1] <= Len(b) /\ c[2] <= Len(a) /\ b[c[1]] = a[c[2]]
  <2> DEFINE d == <<c[1] + 1, c[2] + 1>>
             first == {e \in kept : e[1] = c[1] \/ e[2] = c[2]}
             rest == kept \ first
  <2>1. d \in Cells(b, a) /\ Togo(b, a)[d] < Togo(b, a)[c] /\ d[1] = c[1] + 1 /\ d[2] = c[2] + 1
    BY <1>0, <1>11
  <2>2. lcs[c] = lcs[d] + 1  BY <1>2, <1>3, <1>11 DEF LcsRule
  <2> HIDE DEF d
  <2>3. rest \in Left(b, a, d)
    <3>1. ASSUME NEW e \in rest PROVE d[1] <= e[1] /\ d[2] <= e[2]
      <4>1. /\ e[1] # c[1] /\ e[2] # c[2] /\ e[1] \in 1..Len(b) /\ e[2] \in 1..Len(a)
            /\ c[1] <= e[1] /\ c[2] <= e[2]
        BY <1>5
      <4>2. e[1] \in Nat /\ e[2] \in Nat  BY <1>8
      <4>3. \A k, n \in Nat : k <= n /\ n # k => k + 1 <= n  OBVIOUS
      <4>4. c[1] + 1 <= e[1] /\ c[2] + 1 <= e[2]  BY <1>1, <4>1, <4>2, <4>3
      <4>5. QED  BY <2>1, <4>4
    <3>2. rest \in SUBSET kept  OBVIOUS
    <3> HIDE DEF rest
    <3>3. QED  BY <1>9, <2>1, <3>1, <3>2
  <2>4. Cardinality(rest) <= lcs[d] /\ lcs[d] \in Nat
    <3> HIDE DEF rest
    <3>1. NoMore(b, a, d)  BY <2>1
    <3>2. QED  BY <1>4, <2>1, <2>3, <3>1 DEF NoMore, lcs
  <2>5. \A x, y \in first : x = y
    <3> SUFFICES ASSUME NEW x \in first, NEW y \in first PROVE x = y
      OBVIOUS
    <3>1. /\ x = <<x[1], x[2]>> /\ x[1] \in 1..Len(b) /\ x[2] \in 1..Len(a)
          /\ c[1] <= x[1] /\ c[2] <= x[2] /\ (x[1] = c[1] \/ x[2] = c[2])
          /\ y = <<y[1], y[2]>> /\ y[1] \in 1..Len(b) /\ y[2] \in 1..Len(a)
          /\ c[1] <= y[1] /\ c[2] <= y[2] /\ (y[1] = c[1] \/ y[2] = c[2])
      BY <1>5
    <3>2. (x[1] < y[1] <=> x[2] < y[2]) /\ (y[1] < x[1] <=> y[2] < x[2])  BY <1>6
    <3>3. PICK x1, x2, y1, y2, c1, c2 \in Nat :
             x1 = x[1] /\ x2 = x[2] /\ y1 = y[1] /\ y2 = y[2] /\ c1 = c[1] /\ c2 = c[2]
      BY <1>1, <1>8
    <3>4. x1 = y1 /\ x2 = y2
      <4>1. /\ c1 <= x1 /\ c2 <= x2 /\ (x1 = c1 \/ x2 = c2)
            /\ c1 <= y1 /\ c2 <= y2 /\ (y1 = c1 \/ y2 = c2)
            /\ (x1 < y1 <=> x2 < y2) /\ (y1 < x1 <=> y2 < x2)
        BY <3>1, <3>2, <3>3, Zenon
      <4>2. CASE x1 < y1
        BY <4>1, <4>2
      <4>3. CASE y1 < x1
        BY <4>1, <4>3
      <4>4. CASE x1 = y1
        BY <4>1, <4>4
      <4>5. QED  BY <4>2, <4>3, <4>4
    <3>5. x[1] = y[1] /\ x[2] = y[2]  BY <3>3, <3>4
    <3>6. QED  BY <3>1, <3>5
  <2>6. Cardinality(kept) <= Cardinality(rest) + 1 /\ Cardinality(rest) \in Nat
    <3>1. CASE first = {}
      <4>1. rest = kept  BY <3>1
      <4> HIDE DEF rest
      <4>2. QED  BY <1>7, <4>1
    <3>2. CASE first # {}
      <4>1. PICK x \in first : TRUE  BY <3>2
      <4>2. x \in kept /\ rest = kept \ {x}  BY <2>5, <4>1
      <4> HIDE DEF rest
      <4>3. Cardinality(rest) = Cardinality(kept) - 1 /\ IsFiniteSet(rest)
        BY <1>7, <4>2, FS_RemoveElement
      <4>4. Cardinality(rest) \in Nat  BY <4>3, FS_CardinalityType
      <4>5. QED  BY <1>7, <4>3, <4>4
    <3>3. QED  BY <3>1, <3>2
  <2> HIDE DEF rest
  <2>7. QED  BY <1>7, <2>2, <2>4, <2>6 DEF lcs
<1>12. CASE c[1] <= Len(b) /\ c[2] <= Len(a) /\ b[c[1]] # a[c[2]]
  <2> DEFINE down == <<c[1] + 1, c[2]>>
             right == <<c[1], c[2] + 1>>
  <2>1. /\ down \in Cells(b, a) /\ Togo(b, a)[down] < Togo(b, a)[c]
        /\ down[1] = c[1] + 1 /\ down[2] = c[2]
        /\ right \in Cells(b, a) /\ Togo(b, a)[right] < Togo(b, a)[c]
        /\ right[1] = c[1] /\ right[2] = c[2] + 1
    BY <1>0, <1>12
  <2>2. lcs[c] = Larger(lcs[down], lcs[right])  BY <1>2, <1>3, <1>12 DEF LcsRule
  <2> HIDE DEF down, right
  <2>3. lcs[down] \in Nat /\ lcs[right] \in Nat  BY <1>4, <2>1
  <2>4. lcs[down] <= lcs[c] /\ lcs[right] <= lcs[c]  BY <2>2, <2>3 DEF Larger
  <2>5. (\A e \in kept : e[1] # c[1]) \/ (\A e \in kept : e[2] # c[2])
    <3> SUFFICES ASSUME NEW x \in kept, x[1] = c[1], NEW y \in kept, y[2] = c[2] PROVE FALSE
      OBVIOUS
    <3>1. /\ x[1] \in 1..Len(b) /\ x[2] \in 1..Len(a) /\ c[2] <= x[2] /\ b[x[1]] = a[x[2]]
          /\ y[1] \in 1..Len(b) /\ y[2] \in 1..Len(a) /\ c[1] <= y[1] /\ b[y[1]] = a[y[2]]
      BY <1>5
    <3>2. x[2] # c[2] /\ y[1] # c[1]  BY <1>12, <3>1
    <3>3. x[1] < y[1] <=> x[2] < y[2]  BY <1>6
    <3>4. c[1] \in Nat /\ y[1] \in Nat /\ c[2] \in Nat /\ x[2] \in Nat  BY <1>1, <1>8
    <3>5. \A k, n \in Nat : k <= n /\ n # k => k < n
      OBVIOUS
    <3>6. x[1] < y[1]  BY <3>1, <3>2, <3>4, <3>5
    <3>7. ~(x[2] < y[2])  BY <3>1, <3>4
    <3>8. QED  BY <3>3, <3>6, <3>7
  <2>6. CASE \A e \in kept : e[1] # c[1]
    <3>1. ASSUME NEW e \in kept PROVE down[1] <= e[1] /\ down[2] <= e[2]
      <4>1. e[1] # c[1] /\ e[1] \in 1..Len(b) /\ e[2] \in 1..Len(a) /\ c[1] <= e[1] /\ c[2] <= e[2]
        BY <1>5, <2>6
      <4>2. QED  BY <1>0, <2>1, <4>1
    <3>2. kept \in SUBSET kept  OBVIOUS
    <3>3. kept \in Left(b, a, down)  BY <1>9, <2>1, <3>1, <3>2
    <3>4. Cardinality(kept) <= lcs[down]  BY <2>1, <3>3 DEF NoMore, lcs
    <3>5. lcs[c] \in Nat  BY <1>4
    <3>6. QED  BY <1>7, <2>3, <2>4, <3>4, <3>5 DEF lcs
  <2>7. CASE \A e \in kept : e[2] # c[2]
    <3>1. ASSUME NEW e \in kept PROVE right[1] <= e[1] /\ right[2] <= e[2]
      <4>1. e[2] # c[2] /\ e[1] \in 1..Len(b) /\ e[2] \in 1..Len(a) /\ c[1] <= e[1] /\ c[2] <= e[2]
        BY <1>5, <2>7
      <4>2. QED  BY <1>0, <2>1, <4>1
    <3>2. kept \in SUBSET kept  OBVIOUS
    <3>3. kept \in Left(b, a, right)  BY <1>9, <2>1, <3>1, <3>2
    <3>4. Cardinality(kept) <= lcs[right]  BY <2>1, <3>3 DEF NoMore, lcs
    <3>5. lcs[c] \in Nat  BY <1>4
    <3>6. QED  BY <1>7, <2>3, <2>4, <3>4, <3>5 DEF lcs
  <2>8. QED  BY <2>5, <2>6, <2>7
<1>13. QED  BY <1>10, <1>11, <1>12, NextCells

LEMMA NoMoreAnywhere ==
    ASSUME NEW S, NEW b \in Seq(S), NEW a \in Seq(S)
    PROVE  \A c \in Cells(b, a) : NoMore(b, a, c)
<1> DEFINE C == Cells(b, a)
           m == Togo(b, a)
           Q == {c \in C : NoMore(b, a, c)}
<1>1. \A c \in C : m[c] \in Nat
  <2>1. \A c \in C : m[c] \in 0..(Len(b) + Len(a))  BY CellFacts
  <2>2. QED  BY <2>1
<1>2. \A c \in C : (\A d \in C : m[d] < m[c] => d \in Q) => c \in Q
  <2> SUFFICES ASSUME NEW c \in C, \A d \in C : m[d] < m[c] => NoMore(b, a, d)
               PROVE  NoMore(b, a, c)
    OBVIOUS
  <2> HIDE DEF C, m
  <2>1. QED  BY NoMoreLeft DEF C, m
<1>3. C \subseteq Q
  <2> HIDE DEF Q, C, m
  <2>1. QED  BY <1>1, <1>2, ByMeasure
<1>4. QED  BY <1>3

LEMMA WalkExplains ==
    ASSUME NEW S, NEW b \in Seq(S), NEW a \in Seq(S)
    PROVE  Explains(Walk(b, a), b, a)
<1> DEFINE c == <<1, 1>>
<1>1. c \in Cells(b, a) /\ c[1] = 1 /\ c[2] = 1  BY DEF Cells
<1>2. Says(b, a, c) /\ NoMore(b, a, c)  BY <1>1, PatchSays, NoMoreAnywhere
<1>3. Rest(b, 1) = b /\ Rest(a, 1) = a  BY DEF Rest
<1>4. ASSUME NEW kept \in SUBSET Crossings(b, a), InOrder(kept)
      PROVE  Cardinality(kept) <= BuildLcsMatrix(b, a)[c]
  <2>1. \A d \in kept : 1 <= d[1] /\ 1 <= d[2]  BY DEF Crossings
  <2>2. kept \in Left(b, a, c)  BY <1>1, <1>4, <2>1 DEF Left
  <2>3. QED  BY <1>2, <2>2 DEF NoMore
<1>5. QED  BY <1>1, <1>2, <1>3, <1>4 DEF Explains, Walk, Says

-----------------------------------------------------------------------------
(***************************************************************************)
(* What the patch of a revision says.                                      *)
(***************************************************************************)
\* A preview of a text: what it reads of it is where it begins.
Previews(pv, text) ==
    /\ pv.truncated \in BOOLEAN
    /\ IsPrefix(pv.content, text)
    /\ ~pv.truncated => pv.content = text

LEMMA UpToFacts ==
    ASSUME NEW S, NEW u \in Seq(S), NEW n \in Nat
    PROVE  /\ UpTo(n, u) \in Seq(S) /\ IsPrefix(UpTo(n, u), u)
           /\ ~(Len(u) > n) => UpTo(n, u) = u
<1> DEFINE m == IF Len(u) <= n THEN Len(u) ELSE n
<1>1. Len(u) \in Nat /\ m \in Nat /\ m <= Len(u)  OBVIOUS
<1>2. UpTo(n, u) = SubSeq(u, 1, m)  BY DEF UpTo
<1>3. ~(Len(u) > n) => m = Len(u)  BY <1>1
<1> HIDE DEF m
<1>4. SubSeq(u, 1, m) \in Seq(S) /\ Len(SubSeq(u, 1, m)) = m  BY <1>1
<1>5. \A s \in Seq(S) : SubSeq(s, 1, Len(s)) = s  OBVIOUS
<1>6. SubSeq(SubSeq(u, 1, m), 1, m) = SubSeq(u, 1, m)  BY <1>4, <1>5
<1>7. IsPrefix(SubSeq(u, 1, m), u)  BY <1>1, <1>4, <1>6 DEF IsPrefix
<1>8. QED  BY <1>2, <1>3, <1>4, <1>5, <1>7

LEMMA PrefixOfPrefix ==
    ASSUME NEW S, NEW s \in Seq(S), NEW t \in Seq(S), NEW u \in Seq(S),
           IsPrefix(s, t), IsPrefix(t, u)
    PROVE  IsPrefix(s, u)
<1>1. /\ Len(s) \in Nat /\ Len(t) \in Nat /\ Len(u) \in Nat /\ Len(s) <= Len(t) /\ Len(t) <= Len(u)
      /\ SubSeq(s, 1, Len(s)) = SubSeq(t, 1, Len(s)) /\ SubSeq(t, 1, Len(t)) = SubSeq(u, 1, Len(t))
  BY DEF IsPrefix
<1>2. SubSeq(t, 1, Len(t)) = t  OBVIOUS
<1>3. \A i \in 1..Len(t) : u[i] = SubSeq(u, 1, Len(t))[i]  BY <1>1
<1>4. \A i \in 1..Len(t) : u[i] = t[i]  BY <1>1, <1>2, <1>3
<1> DEFINE p == SubSeq(t, 1, Len(s))
           q == SubSeq(u, 1, Len(s))
<1>5. p \in Seq(S) /\ Len(p) = Len(s) /\ \A i \in 1..Len(s) : p[i] = t[i]  BY <1>1
<1>6. q \in Seq(S) /\ Len(q) = Len(s) /\ \A i \in 1..Len(s) : q[i] = u[i]  BY <1>1
<1>7. \A i \in 1..Len(s) : i \in 1..Len(t)  BY <1>1
<1> HIDE DEF p, q
<1>8. p = q  BY <1>4, <1>5, <1>6, <1>7, SeqEqual
<1>9. QED  BY <1>1, <1>8 DEF IsPrefix, p, q

\* What the patch says of two texts, of which previews were read.
LEMMA DiffSays ==
    ASSUME DiffAssumption, NEW S, NEW before \in Seq(S), NEW after \in Seq(S), NEW pb, NEW pa,
           pb.content \in Seq(S), pa.content \in Seq(S),
           Previews(pb, before), Previews(pa, after)
    PROVE  LET diff == BuildUnifiedDiff(pb, pa)
           IN  IF diff.cut \/ diff.truncated
               THEN /\ IsPrefix(TextOf(diff.lines, {Same, Gone}), before)
                    /\ IsPrefix(TextOf(diff.lines, {Same, Added}), after)
               ELSE Explains(diff.lines, before, after)
<1> DEFINE b == pb.content
           a == pa.content
           diff == BuildUnifiedDiff(pb, pa)
           cut == Len(b) + Len(a) > MaxComparableLines
<1>1. /\ diff.cut = cut /\ diff.truncated = (pb.truncated \/ pa.truncated)
      /\ cut => diff.lines = Join(Marked(Gone, UpTo(CutLines, b)), Marked(Added, UpTo(CutLines, a)))
      /\ ~cut => diff.lines = Walk(b, a)
  BY DEF BuildUnifiedDiff, Join
<1>2. IsPrefix(b, before) /\ IsPrefix(a, after)  BY DEF Previews
<1>3. ~diff.truncated => b = before /\ a = after  BY <1>1 DEF Previews
<1> HIDE DEF diff
<1>4. CASE cut
  <2> DEFINE u == UpTo(CutLines, b)
             v == UpTo(CutLines, a)
  <2>1. /\ u \in Seq(S) /\ v \in Seq(S) /\ IsPrefix(u, b) /\ IsPrefix(v, a)
    BY UpToFacts DEF DiffAssumption
  <2>2. IsPrefix(u, before) /\ IsPrefix(v, after)
    <3> HIDE DEF u, v
    <3>1. QED  BY <1>2, <2>1, PrefixOfPrefix
  <2>3. diff.lines = Join(Marked(Gone, u), Marked(Added, v))  BY <1>1, <1>4
  <2> HIDE DEF u, v
  <2>4. Gone \in Marks /\ Added \in Marks  BY DEF Marks
  <2>5. Marked(Gone, u) \in Seq(Rows(S)) /\ Marked(Added, v) \in Seq(Rows(S))
    BY <2>1, <2>4, TextOfMarked
  <2>6. \A marks : TextOf(diff.lines, marks) =
                      Join(TextOf(Marked(Gone, u), marks), TextOf(Marked(Added, v), marks))
    BY <2>3, <2>5, TextOfJoined
  <2>7. /\ TextOf(Marked(Gone, u), {Same, Gone}) = u
        /\ TextOf(Marked(Added, v), {Same, Gone}) = << >>
        /\ TextOf(Marked(Gone, u), {Same, Added}) = << >>
        /\ TextOf(Marked(Added, v), {Same, Added}) = v
    <3>1. /\ Gone \in {Same, Gone} /\ Added \notin {Same, Gone}
          /\ Gone \notin {Same, Added} /\ Added \in {Same, Added}
      BY MarksDiffer
    <3>2. TextOf(Marked(Gone, u), {Same, Gone}) = u  BY <2>1, <2>4, <3>1, TextOfMarked
    <3>3. TextOf(Marked(Added, v), {Same, Gone}) = << >>  BY <2>1, <2>4, <3>1, TextOfMarked
    <3>4. TextOf(Marked(Gone, u), {Same, Added}) = << >>  BY <2>1, <2>4, <3>1, TextOfMarked
    <3>5. TextOf(Marked(Added, v), {Same, Added}) = v  BY <2>1, <2>4, <3>1, TextOfMarked
    <3>6. QED  BY <3>2, <3>3, <3>4, <3>5
  <2>8. Join(u, << >>) = u /\ Join(<< >>, v) = v  BY <2>1 DEF Join
  <2>9. TextOf(diff.lines, {Same, Gone}) = u /\ TextOf(diff.lines, {Same, Added}) = v
    BY <2>6, <2>7, <2>8
  <2>10. QED  BY <1>1, <1>4, <2>2, <2>9 DEF diff
<1>5. CASE ~cut
  <2>1. Explains(Walk(b, a), b, a)  BY WalkExplains
  <2>2. /\ TextOf(diff.lines, {Same, Gone}) = b /\ TextOf(diff.lines, {Same, Added}) = a
    BY <1>1, <1>5, <2>1 DEF Explains
  <2>3. ~diff.truncated => Explains(diff.lines, before, after)  BY <1>1, <1>3, <1>5, <2>1
  <2>4. QED  BY <1>1, <1>2, <1>5, <2>2, <2>3 DEF diff
<1>6. QED  BY <1>4, <1>5

LEMMA TextsAreTexts ==
    ASSUME ArtifactsAssumption, DiffAssumption
    PROVE  /\ Texts \subseteq Seq(UNION {ToSet(u) : u \in Texts})
           /\ \A r \in Revision : /\ TextAt(r) \in Seq(UNION {ToSet(u) : u \in Texts})
                                  /\ PreviewOf(r).content \in Seq(UNION {ToSet(u) : u \in Texts})
                                  /\ Previews(PreviewOf(r), TextAt(r))
           /\ NoText.content = << >> /\ Previews(NoText, << >>)
<1> DEFINE S == UNION {ToSet(u) : u \in Texts}
<1>1. Texts \subseteq Seq(S)  BY DEF ArtifactsAssumption
<1>2. None \notin Texts  BY DEF ArtifactsAssumption
<1> HIDE DEF S
<1>3. << >> \in Seq(S)  OBVIOUS
<1>4. IsPrefix(<< >>, << >>)  BY DEF IsPrefix
<1>5. NoText.content = << >> /\ NoText.truncated = FALSE  BY DEF NoText
<1>6. Previews(NoText, << >>)  BY <1>4, <1>5 DEF Previews
<1>7. ASSUME NEW r \in Revision
      PROVE  TextAt(r) \in Seq(S) /\ PreviewOf(r).content \in Seq(S) /\ Previews(PreviewOf(r), TextAt(r))
  <2>1. r.key \in Texts \cup {None}  BY DEF Revision
  <2>2. CASE r.key = None
    BY <1>3, <1>5, <1>6, <2>2 DEF TextAt, PreviewOf
  <2>3. CASE r.key # None
    <3>1. r.key \in Seq(S) /\ TextAt(r) = r.key /\ PreviewOf(r) = Preview(r.key)
      BY <1>1, <2>1, <2>3 DEF TextAt, PreviewOf
    <3>2. /\ UpTo(ReadLimit, r.key) \in Seq(S) /\ IsPrefix(UpTo(ReadLimit, r.key), r.key)
          /\ ~(Len(r.key) > ReadLimit) => UpTo(ReadLimit, r.key) = r.key
      BY <3>1, UpToFacts DEF DiffAssumption
    <3>3. /\ Preview(r.key).content = UpTo(ReadLimit, r.key)
          /\ Preview(r.key).truncated = (Len(r.key) > ReadLimit)
      BY DEF Preview
    <3>4. Preview(r.key).truncated \in BOOLEAN  BY <3>3
    <3>5. ~Preview(r.key).truncated => UpTo(ReadLimit, r.key) = r.key  BY <3>2, <3>3
    <3>6. Previews(Preview(r.key), r.key)  BY <3>2, <3>3, <3>4, <3>5 DEF Previews
    <3>7. QED  BY <3>1, <3>2, <3>3, <3>6
  <2>4. QED  BY <2>2, <2>3
<1>8. QED  BY <1>1, <1>5, <1>6, <1>7 DEF S

\* A revision is found by its number, and the one before it is its parent.
LEMMA FoundByNumber ==
    ASSUME TypeOK, ChainsAreOrdered, NEW a \in Artifacts, NEW i \in DOMAIN chain[a]
    PROVE  /\ RevisionAt(a, chain[a][i].index) = {chain[a][i]}
           /\ i = 1 => /\ chain[a][i].index = 0
                       /\ {p \in ToSet(chain[a]) : p.id = chain[a][i].parent} = {}
           /\ i # 1 => /\ i - 1 \in DOMAIN chain[a] /\ chain[a][i].index # 0
                       /\ RevisionAt(a, chain[a][i].index - 1) = {chain[a][i - 1]}
                       /\ {p \in ToSet(chain[a]) : p.id = chain[a][i].parent} = {chain[a][i - 1]}
<1>1. DOMAIN chain[a] = 1..Len(chain[a]) /\ Len(chain[a]) \in Nat
  BY ChainFacts
<1>2. \A k \in DOMAIN chain[a] : chain[a][k].index = k - 1 /\ chain[a][k].id > 0
  BY DEF ChainsAreOrdered
<1>3. \A k \in DOMAIN chain[a] : chain[a][k].id \in Nat
  <2>1. \A k \in DOMAIN chain[a] : chain[a][k] \in Revision  BY ChainFacts
  <2>2. QED  BY <2>1 DEF Revision
<1>4. \A k, l \in DOMAIN chain[a] : k < l => chain[a][k].id < chain[a][l].id
  BY DEF ChainsAreOrdered
<1>5. \A k, l \in DOMAIN chain[a] : chain[a][k].id = chain[a][l].id => k = l
  <2> SUFFICES ASSUME NEW k \in DOMAIN chain[a], NEW l \in DOMAIN chain[a],
                      chain[a][k].id = chain[a][l].id
               PROVE  k = l
    OBVIOUS
  <2>1. ~(k < l) /\ ~(l < k)  BY <1>3, <1>4
  <2>2. QED  BY <1>1, <2>1
<1>6. \A k \in DOMAIN chain[a] : RevisionAt(a, k - 1) = {chain[a][k]}
  <2> TAKE k \in DOMAIN chain[a]
  <2>1. chain[a][k] \in RevisionAt(a, k - 1)  BY <1>2 DEF RevisionAt, ToSet
  <2>2. ASSUME NEW r \in RevisionAt(a, k - 1) PROVE r = chain[a][k]
    <3>1. PICK l \in DOMAIN chain[a] : r = chain[a][l] /\ r.index = k - 1  BY DEF RevisionAt, ToSet
    <3>2. l - 1 = k - 1  BY <1>2, <3>1
    <3>3. l = k  BY <1>1, <3>2
    <3>4. QED  BY <3>1, <3>3
  <2>3. QED  BY <2>1, <2>2
<1>7. RevisionAt(a, chain[a][i].index) = {chain[a][i]}  BY <1>2, <1>6
<1>8. ASSUME i = 1
      PROVE  chain[a][i].index = 0 /\ {p \in ToSet(chain[a]) : p.id = chain[a][i].parent} = {}
  <2>1. chain[a][i].parent = 0 /\ chain[a][i].index = i - 1  BY <1>8 DEF ChainsAreOrdered
  <2>2. \A p \in ToSet(chain[a]) : p.id # 0  BY <1>2, <1>3 DEF ToSet
  <2>3. QED  BY <1>8, <2>1, <2>2
<1>9. ASSUME i # 1
      PROVE  /\ i - 1 \in DOMAIN chain[a] /\ chain[a][i].index # 0
             /\ RevisionAt(a, chain[a][i].index - 1) = {chain[a][i - 1]}
             /\ {p \in ToSet(chain[a]) : p.id = chain[a][i].parent} = {chain[a][i - 1]}
  <2>1. i - 1 \in DOMAIN chain[a] /\ i - 1 # 0  BY <1>1, <1>9
  <2>2. chain[a][i].parent = chain[a][i - 1].id /\ chain[a][i].index = i - 1
    BY <1>9 DEF ChainsAreOrdered
  <2>3. RevisionAt(a, chain[a][i].index - 1) = {chain[a][i - 1]}  BY <1>6, <2>1, <2>2
  <2>4. ASSUME NEW p \in ToSet(chain[a]), p.id = chain[a][i].parent PROVE p = chain[a][i - 1]
    <3>1. PICK k \in DOMAIN chain[a] : p = chain[a][k]  BY DEF ToSet
    <3>2. k = i - 1  BY <1>5, <2>1, <2>2, <2>4, <3>1
    <3>3. QED  BY <3>1, <3>2
  <2>5. chain[a][i - 1] \in ToSet(chain[a])  BY <2>1 DEF ToSet
  <2>6. {p \in ToSet(chain[a]) : p.id = chain[a][i].parent} = {chain[a][i - 1]}
    BY <2>2, <2>4, <2>5
  <2>7. QED  BY <2>1, <2>2, <2>3, <2>6
<1>10. QED  BY <1>7, <1>8, <1>9

\* What DiffsAreTrue says of one revision.
DiffIsTrue(a, r) ==
    LET diff == DescribeDiff(a, r.index)
        parents == {p \in ToSet(chain[a]) : p.id = r.parent}
        before == IF parents = {} THEN << >> ELSE TextAt(CHOOSE p \in parents : TRUE)
    IN  IF diff.cut \/ diff.truncated
        THEN /\ IsPrefix(TextOf(diff.lines, {Same, Gone}), before)
             /\ IsPrefix(TextOf(diff.lines, {Same, Added}), TextAt(r))
        ELSE Explains(diff.lines, before, TextAt(r))

LEMMA DiffOfOne ==
    ASSUME ArtifactsAssumption, DiffAssumption, TypeOK, ChainsAreOrdered,
           NEW a \in Artifacts, NEW i \in DOMAIN chain[a]
    PROVE  DiffIsTrue(a, chain[a][i])
<1> DEFINE S == UNION {ToSet(u) : u \in Texts}
           r == chain[a][i]
           parents == {p \in ToSet(chain[a]) : p.id = r.parent}
<1>1. r \in Revision  BY ChainFacts
<1>2. /\ TextAt(r) \in Seq(S) /\ PreviewOf(r).content \in Seq(S) /\ Previews(PreviewOf(r), TextAt(r))
      /\ NoText.content = << >> /\ Previews(NoText, << >>)
  BY <1>1, TextsAreTexts
<1>3. RevisionAt(a, r.index) = {r}  BY FoundByNumber
<1>4. (CHOOSE s \in RevisionAt(a, r.index) : TRUE) = r  BY <1>3
<1>5. CASE i = 1
  <2>1. r.index = 0 /\ parents = {}  BY <1>5, FoundByNumber
  <2>2. DescribeDiff(a, r.index) = BuildUnifiedDiff(NoText, PreviewOf(r))
    BY <1>4, <2>1 DEF DescribeDiff
  <2>3. << >> \in Seq(S)  OBVIOUS
  <2> HIDE DEF S, r, parents
  <2>4. LET diff == BuildUnifiedDiff(NoText, PreviewOf(r))
        IN  IF diff.cut \/ diff.truncated
            THEN /\ IsPrefix(TextOf(diff.lines, {Same, Gone}), << >>)
                 /\ IsPrefix(TextOf(diff.lines, {Same, Added}), TextAt(r))
            ELSE Explains(diff.lines, << >>, TextAt(r))
    BY <1>2, <2>3, DiffSays
  <2>5. QED  BY <2>1, <2>2, <2>4 DEF DiffIsTrue, r, parents
<1>6. CASE i # 1
  <2> DEFINE p == chain[a][i - 1]
  <2>1. /\ i - 1 \in DOMAIN chain[a] /\ r.index # 0
        /\ RevisionAt(a, r.index - 1) = {p} /\ parents = {p}
    BY <1>6, FoundByNumber
  <2>2. p \in Revision  BY <2>1, ChainFacts
  <2> HIDE DEF p
  <2>3. TextAt(p) \in Seq(S) /\ PreviewOf(p).content \in Seq(S) /\ Previews(PreviewOf(p), TextAt(p))
    BY <2>2, TextsAreTexts
  <2>4. /\ (CHOOSE s \in RevisionAt(a, r.index - 1) : TRUE) = p
        /\ (CHOOSE s \in parents : TRUE) = p
        /\ RevisionAt(a, r.index - 1) # {} /\ parents # {}
    BY <2>1
  <2> HIDE DEF S, r, parents
  <2>5. DescribeDiff(a, r.index) = BuildUnifiedDiff(PreviewOf(p), PreviewOf(r))
    BY <1>4, <2>1, <2>4 DEF DescribeDiff
  <2>6. LET diff == BuildUnifiedDiff(PreviewOf(p), PreviewOf(r))
        IN  IF diff.cut \/ diff.truncated
            THEN /\ IsPrefix(TextOf(diff.lines, {Same, Gone}), TextAt(p))
                 /\ IsPrefix(TextOf(diff.lines, {Same, Added}), TextAt(r))
            ELSE Explains(diff.lines, TextAt(p), TextAt(r))
    BY <1>2, <2>3, DiffSays
  <2>7. QED  BY <2>4, <2>5, <2>6 DEF DiffIsTrue, r, parents
<1>7. QED  BY <1>5, <1>6

LEMMA DiffsFollow ==
    ASSUME ArtifactsAssumption, DiffAssumption, TypeOK, ChainsAreOrdered
    PROVE  DiffsAreTrue
<1>1. ASSUME NEW a \in Artifacts, NEW r \in ToSet(chain[a]) PROVE DiffIsTrue(a, r)
  <2>1. PICK i \in DOMAIN chain[a] : r = chain[a][i]  BY DEF ToSet
  <2>2. QED  BY <2>1, DiffOfOne
<1>2. QED  BY <1>1 DEF DiffsAreTrue, DiffIsTrue

\* The chain stays linear, and the patch shown for a revision, of texts of any length,
\* turns the text of its parent into its own and keeps as many lines as can be kept, or
\* shows where both begin when a preview was truncated or the comparison given up.
THEOREM ChainStaysSound ==
    ASSUME ArtifactsAssumption, DiffAssumption PROVE Spec => []ChainIsSound
<1>1. Inv => ChainIsSound
  BY NoConflict, DiffsFollow DEF Inv, ChainIsSound, ChainsAreOrdered, ChainIsLinear
<1>2. QED  BY <1>1, InvIsInvariant, PTL
================================================================================
