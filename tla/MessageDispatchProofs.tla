------------------------- MODULE MessageDispatchProofs -------------------------
(***************************************************************************)
(* The ledger of turns and the mode of a conversation, for any number of   *)
(* questions, teammates, agents of a group, rounds, steps and faults.      *)
(***************************************************************************)
EXTENDS MCMessageDispatch, FiniteSetTheorems, WellFoundedInduction, TLAPS

(***************************************************************************)
(* The inductive invariant of a direct dispatch.                           *)
(***************************************************************************)
ReplyTo(q) == [kind |-> "reply", of |-> q]
NoticeOf(q) == [kind |-> "notice", of |-> q]

\* Nobody who has left comes back, and who is being added has not answered anything yet.
Newcomers ==
    \A a \in Direct!Teammates : adding[a].step # "idle" =>
        /\ a \in 1..created /\ a \notin members
        /\ \A q \in Questions : target[q] # a

\* The reply is stored before the turn is closed, and nothing is told before it has failed.
Replied(q) ==
    /\ target[q] \in 1..created
    /\ dispatch[q] \in {"idle", "resolving", "context", "start"} => replies[q] = "none"
    /\ exists /\ dispatch[q] \in {"record", "publish"} => ReplyTo(q) \in messages
    /\ replies[q] = "completed" => ReplyTo(q) \in messages /\ q \in linked
    /\ NoticeOf(q) \in messages => dispatch[q] = "failed"
    /\ ~exists => replies[q] = "none"

\* An open turn that nobody will close belongs to a teammate who has left, or its failure could
\* not be written.
Excused(q) == target[q] \notin members \/ q \in unlogged
Closed(q) ==
    /\ dispatch[q] = "publish" /\ replies[q] = "running" => target[q] \notin members
    /\ dispatch[q] = "notice" /\ replies[q] \in {"running", "completed"} => Excused(q)
    /\ dispatch[q] \in {"answered", "failed"} /\ replies[q] = "running" => Excused(q)
    /\ NoticeOf(q) \in messages /\ replies[q] = "completed" => Excused(q)
    /\ replies[q] = "failed" => \/ NoticeOf(q) \in messages
                                \/ dispatch[q] \in {"notice", "dead"} \/ q \in untold

\* As long as no two changes of the members have overlapped, the one under way knows the mode,
\* and what it will be.
OneChange ==
    ~overlapped =>
        /\ \A a, b \in Direct!Teammates :
              adding[a].step # "idle" /\ adding[b].step # "idle" => a = b
        /\ syncing => \A a \in Direct!Teammates : adding[a].step = "idle"
        /\ exists /\ ~syncing => mode = Direct!ModeOf(members)
        /\ exists => \A a \in Direct!Teammates :
              /\ adding[a].step # "idle" => adding[a].seen = mode
              /\ adding[a].step = "inserted" => adding[a].next = Direct!ModeOf(members \cup {a})

DirectInv ==
    /\ Direct!TypeOK /\ Newcomers
    /\ \A q \in Questions : Replied(q)
    /\ \A q \in Questions : Closed(q)
    /\ ~exists => messages = {} /\ linked = {}
    /\ OneChange

(***************************************************************************)
(* The inductive invariant of a group dispatch.                            *)
(***************************************************************************)
PlanFits ==
    /\ plan \in Orchestrator!Plans
    /\ initial \in Orchestrator!Orders
    /\ Orchestrator!SeqRange(initial) = Orchestrator!SeqRange(plan.order)
    /\ plan.locked => initial = plan.order
    /\ ~plan.locked => /\ Orchestrator!SeqRange(plan.order) = Agents
                       /\ plan.rounds = DefaultRounds(plan.order)

\* The plans of the API leave nobody to hand over to: they name everybody, or they are locked.
NobodyIsQueued ==
    /\ queue = {} /\ wave = {} /\ asked = {}
    /\ queued = Orchestrator!SeqRange(plan.order) /\ targets = queued

\* The place in the order of the agent who is planned for turn i.
Place(i) == ((i - 1) % Len(plan.order)) + 1

TurnsFollowPlan ==
    /\ turns \in Seq(Orchestrator!Turns)
    /\ Len(turns) <= Orchestrator!Total(plan)
    /\ \A i \in DOMAIN turns :
          turns[i].agent = plan.order[Place(i)]
    /\ status \in Orchestrator!Statuses
    /\ status \in {"partial_failure", "aggregated"} =>
          Len(turns) = Orchestrator!Total(plan) /\ plan.order # << >>

ApiFits ==
    /\ api \in ApiStates /\ faults \in Nat /\ notice \in BOOLEAN /\ handoffs \in SUBSET Agents
    /\ published \in 0..Cardinality(Results)
    /\ api \in {"preparing", "starting", "waiting"} => published = 0
    /\ api \in {"publishing", "closing", "noticing", "answered"} => status = "aggregated"
    /\ api \in {"closing", "noticing", "answered"} => published = Cardinality(Results)
    /\ api \in {"closing", "noticing"} => Failures # {}
    /\ api \notin {"answered", "failed", "down"} => ~notice
    /\ api = "answered" => (notice <=> Failures # {})
    /\ handoffs # {} => plan.locked

IsResult(k) == \E i \in Results : k = KeyOf(i)
IsFailure(k) == \E i \in Failures : k = KeyOf(i)

\* The ledger with the rows of results completed and those of failures as given.
Told(row) ==
    \A k \in Keys : ledger[k] = IF IsResult(k) THEN "completed"
                                ELSE IF IsFailure(k) THEN row ELSE "none"

LedgerFits ==
    /\ ledger \in [Keys -> RowStates]
    /\ api \in {"preparing", "starting"} => \A k \in Keys : ledger[k] = "none"
    /\ api \in {"waiting", "publishing"} =>
          \A k \in Keys : ledger[k] = IF k \in PlannedKeys THEN "running" ELSE "none"
    /\ \A k \in Keys : ledger[k] = "completed" => published = Cardinality(Results) /\ IsResult(k)
    /\ \A k \in Keys : ledger[k] \in {"running", "completed"} => k \in PlannedKeys
    /\ api = "closing" => Told("running")
    /\ api \in {"noticing", "answered"} /\ (plan.locked \/ Failures = {}) => Told("failed")
    /\ api \in {"telling", "failed"} /\ faults = 0 =>
          \A k \in Keys : ledger[k] \in {"none", "failed"}

GroupInv == PlanFits /\ NobodyIsQueued /\ TurnsFollowPlan /\ ApiFits /\ LedgerFits

Inv ==
    /\ kind \in {"direct", "group"}
    /\ kind = "direct" => DirectInv
    /\ kind = "group" => GroupInv

-----------------------------------------------------------------------------
(***************************************************************************)
(* The direct dispatch: steps of one question.                             *)
(***************************************************************************)
QuestionStep(q) ==
    \/ Direct!Send(q) \/ Direct!Advance(q) \/ Direct!StepFails(q)
    \/ Direct!FailureUnlogged(q) \/ Direct!FailureUntold(q)

Places == {"idle", "resolving"} \cup Direct!Steps \cup Direct!Ends
Entries == [kind : {"question", "reply", "notice"}, of : Questions]

\* A finite set of numbers that is not empty has a least member: the first teammate.
LEMMA FirstMember ==
    ASSUME NEW n \in Nat, NEW S, S \subseteq 1..n, S # {}
    PROVE  Direct!Min(S) \in S
<1> DEFINE R == {ss \in Nat \X Nat : ss[1] < ss[2]}
<1>1. IsWellFoundedOn(R, Nat)  BY NatLessThanWellFounded DEF OpToRel
<1>2. S \subseteq Nat  OBVIOUS
<1>3. PICK x \in S : \A y \in S : ~(<<y, x>> \in R)
  BY <1>1, <1>2, WFMin
<1>4. ASSUME NEW y \in S PROVE x <= y
  <2>1. x \in Nat /\ y \in Nat  BY <1>2, <1>3
  <2>2. ~(y < x)  BY <1>3, <2>1
  <2> QED  BY <2>1, <2>2
<1> QED  BY <1>4 DEF Direct!Min

\* A step of q moves its dispatch and leaves the conversation's members alone.
LEMMA QuestionMoves ==
    ASSUME Direct!TypeOK, NEW q \in Questions, QuestionStep(q)
    PROVE  /\ \E to \in Places : dispatch' = [dispatch EXCEPT ![q] = to]
           /\ Direct!Kept
<1> USE DEF Direct!Moves, Direct!Kept, Places, Direct!Steps, Direct!Ends
<1>1. CASE Direct!Send(q)  BY <1>1 DEF Direct!Send
<1>2. CASE Direct!ResolveConversation(q)  BY <1>2 DEF Direct!ResolveConversation
<1>3. CASE Direct!LoadContext(q)  BY <1>3 DEF Direct!LoadContext
<1>4. CASE Direct!StartTurn(q)  BY <1>4 DEF Direct!StartTurn
<1>5. CASE Direct!Execute(q)  BY <1>5 DEF Direct!Execute
<1>6. CASE Direct!StoreReply(q)  BY <1>6 DEF Direct!StoreReply
<1>7. CASE Direct!RecordDirectExecution(q)  BY <1>7 DEF Direct!RecordDirectExecution
<1>8. CASE Direct!Publish(q)  BY <1>8 DEF Direct!Publish
<1>9. CASE Direct!StepFails(q)  BY <1>9 DEF Direct!StepFails
<1>10. CASE Direct!RecordFailure(q)  BY <1>10 DEF Direct!RecordFailure
<1>11. CASE Direct!FailureUnlogged(q)  BY <1>11 DEF Direct!FailureUnlogged
<1>12. CASE Direct!ShowFailure(q)  BY <1>12 DEF Direct!ShowFailure
<1>13. CASE Direct!FailureUntold(q)  BY <1>13 DEF Direct!FailureUntold
<1> QED
  BY <1>1, <1>2, <1>3, <1>4, <1>5, <1>6, <1>7, <1>8, <1>9, <1>10, <1>11, <1>12, <1>13
  DEF QuestionStep, Direct!Advance

\* What a step of q adds to the conversation is about q.
LEMMA QuestionSays ==
    ASSUME NEW q \in Questions, QuestionStep(q)
    PROVE  \/ messages' = messages \/ messages' = messages \cup {[kind |-> "question", of |-> q]}
           \/ messages' = messages \cup {ReplyTo(q)} \/ messages' = messages \cup {NoticeOf(q)}
<1> USE DEF Direct!Entry, ReplyTo, NoticeOf
<1>1. CASE Direct!Send(q)  BY <1>1 DEF Direct!Send
<1>2. CASE Direct!ResolveConversation(q)  BY <1>2 DEF Direct!ResolveConversation, Direct!record
<1>3. CASE Direct!LoadContext(q)  BY <1>3 DEF Direct!LoadContext, Direct!record
<1>4. CASE Direct!StartTurn(q)  BY <1>4 DEF Direct!StartTurn
<1>5. CASE Direct!Execute(q)  BY <1>5 DEF Direct!Execute, Direct!record
<1>6. CASE Direct!StoreReply(q)  BY <1>6 DEF Direct!StoreReply
<1>7. CASE Direct!RecordDirectExecution(q)  BY <1>7 DEF Direct!RecordDirectExecution
<1>8. CASE Direct!Publish(q)  BY <1>8 DEF Direct!Publish, Direct!record
<1>9. CASE Direct!StepFails(q)  BY <1>9 DEF Direct!StepFails, Direct!record
<1>10. CASE Direct!RecordFailure(q)  BY <1>10 DEF Direct!RecordFailure
<1>11. CASE Direct!FailureUnlogged(q)  BY <1>11 DEF Direct!FailureUnlogged, Direct!record
<1>12. CASE Direct!ShowFailure(q)  BY <1>12 DEF Direct!ShowFailure
<1>13. CASE Direct!FailureUntold(q)  BY <1>13 DEF Direct!FailureUntold, Direct!record
<1> QED
  BY <1>1, <1>2, <1>3, <1>4, <1>5, <1>6, <1>7, <1>8, <1>9, <1>10, <1>11, <1>12, <1>13
  DEF QuestionStep, Direct!Advance

\* So is what it notes down.
LEMMA QuestionNotes ==
    ASSUME NEW q \in Questions, QuestionStep(q)
    PROVE  /\ linked' = linked \/ linked' = linked \cup {q}
           /\ unlogged' = unlogged \/ unlogged' = unlogged \cup {q}
           /\ untold' = untold \/ untold' = untold \cup {q}
           /\ mishaps' = mishaps \/ (mishaps > 0 /\ mishaps' = mishaps - 1)
<1>1. CASE Direct!Send(q)  BY <1>1 DEF Direct!Send
<1>2. CASE Direct!ResolveConversation(q)  BY <1>2 DEF Direct!ResolveConversation, Direct!record
<1>3. CASE Direct!LoadContext(q)  BY <1>3 DEF Direct!LoadContext, Direct!record
<1>4. CASE Direct!StartTurn(q)  BY <1>4 DEF Direct!StartTurn
<1>5. CASE Direct!Execute(q)  BY <1>5 DEF Direct!Execute, Direct!record
<1>6. CASE Direct!StoreReply(q)  BY <1>6 DEF Direct!StoreReply
<1>7. CASE Direct!RecordDirectExecution(q)  BY <1>7 DEF Direct!RecordDirectExecution
<1>8. CASE Direct!Publish(q)  BY <1>8 DEF Direct!Publish, Direct!record
<1>9. CASE Direct!StepFails(q)  BY <1>9 DEF Direct!StepFails, Direct!record
<1>10. CASE Direct!RecordFailure(q)  BY <1>10 DEF Direct!RecordFailure
<1>11. CASE Direct!FailureUnlogged(q)  BY <1>11 DEF Direct!FailureUnlogged, Direct!record
<1>12. CASE Direct!ShowFailure(q)  BY <1>12 DEF Direct!ShowFailure
<1>13. CASE Direct!FailureUntold(q)  BY <1>13 DEF Direct!FailureUntold, Direct!record
<1> QED
  BY <1>1, <1>2, <1>3, <1>4, <1>5, <1>6, <1>7, <1>8, <1>9, <1>10, <1>11, <1>12, <1>13
  DEF QuestionStep, Direct!Advance

\* It writes no row of the ledger but that of q.
LEMMA QuestionRow ==
    ASSUME replies \in [Questions -> Direct!TurnStates], NEW q \in Questions, QuestionStep(q)
    PROVE  /\ replies' \in [Questions -> Direct!TurnStates]
           /\ \A r \in Questions : r # q => replies'[r] = replies[r]
<1> USE DEF Direct!TurnStates
<1>1. CASE Direct!Send(q)  BY <1>1 DEF Direct!Send
<1>2. CASE Direct!ResolveConversation(q)  BY <1>2 DEF Direct!ResolveConversation, Direct!record
<1>3. CASE Direct!LoadContext(q)  BY <1>3 DEF Direct!LoadContext, Direct!record
<1>4. CASE Direct!StartTurn(q)  BY <1>4 DEF Direct!StartTurn
<1>5. CASE Direct!Execute(q)  BY <1>5 DEF Direct!Execute, Direct!record
<1>6. CASE Direct!StoreReply(q)  BY <1>6 DEF Direct!StoreReply
<1>7. CASE Direct!RecordDirectExecution(q)  BY <1>7 DEF Direct!RecordDirectExecution
<1>8. CASE Direct!Publish(q)  BY <1>8 DEF Direct!Publish, Direct!record
<1>9. CASE Direct!StepFails(q)  BY <1>9 DEF Direct!StepFails, Direct!record
<1>10. CASE Direct!RecordFailure(q)  BY <1>10 DEF Direct!RecordFailure
<1>11. CASE Direct!FailureUnlogged(q)  BY <1>11 DEF Direct!FailureUnlogged, Direct!record
<1>12. CASE Direct!ShowFailure(q)  BY <1>12 DEF Direct!ShowFailure
<1>13. CASE Direct!FailureUntold(q)  BY <1>13 DEF Direct!FailureUntold, Direct!record
<1> QED
  BY <1>1, <1>2, <1>3, <1>4, <1>5, <1>6, <1>7, <1>8, <1>9, <1>10, <1>11, <1>12, <1>13
  DEF QuestionStep, Direct!Advance

\* It chooses nobody for another question, and for q only a member.
LEMMA QuestionTarget ==
    ASSUME NEW q \in Questions, QuestionStep(q)
    PROVE  \/ target' = target
           \/ exists /\ members # {} /\ target' = [target EXCEPT ![q] = Direct!Min(members)]
<1>1. CASE Direct!Send(q)  BY <1>1 DEF Direct!Send
<1>2. CASE Direct!ResolveConversation(q)  BY <1>2 DEF Direct!ResolveConversation, Direct!record
<1>3. CASE Direct!LoadContext(q)  BY <1>3 DEF Direct!LoadContext, Direct!record
<1>4. CASE Direct!StartTurn(q)  BY <1>4 DEF Direct!StartTurn
<1>5. CASE Direct!Execute(q)  BY <1>5 DEF Direct!Execute, Direct!record
<1>6. CASE Direct!StoreReply(q)  BY <1>6 DEF Direct!StoreReply
<1>7. CASE Direct!RecordDirectExecution(q)  BY <1>7 DEF Direct!RecordDirectExecution
<1>8. CASE Direct!Publish(q)  BY <1>8 DEF Direct!Publish, Direct!record
<1>9. CASE Direct!StepFails(q)  BY <1>9 DEF Direct!StepFails, Direct!record
<1>10. CASE Direct!RecordFailure(q)  BY <1>10 DEF Direct!RecordFailure
<1>11. CASE Direct!FailureUnlogged(q)  BY <1>11 DEF Direct!FailureUnlogged, Direct!record
<1>12. CASE Direct!ShowFailure(q)  BY <1>12 DEF Direct!ShowFailure
<1>13. CASE Direct!FailureUntold(q)  BY <1>13 DEF Direct!FailureUntold, Direct!record
<1> QED
  BY <1>1, <1>2, <1>3, <1>4, <1>5, <1>6, <1>7, <1>8, <1>9, <1>10, <1>11, <1>12, <1>13
  DEF QuestionStep, Direct!Advance

\* Whoever starts is in the conversation.
LEMMA QuestionStarts ==
    ASSUME NEW q \in Questions, QuestionStep(q), dispatch[q] = "idle"
    PROVE  exists /\ [kind |-> "question", of |-> q] \in messages'
<1> USE DEF Direct!Moves, Direct!Entry
<1>1. CASE Direct!Send(q)  BY <1>1 DEF Direct!Send
<1>2. CASE Direct!ResolveConversation(q)  BY <1>2 DEF Direct!ResolveConversation, Direct!record
<1>3. CASE Direct!LoadContext(q)  BY <1>3 DEF Direct!LoadContext, Direct!record
<1>4. CASE Direct!StartTurn(q)  BY <1>4 DEF Direct!StartTurn
<1>5. CASE Direct!Execute(q)  BY <1>5 DEF Direct!Execute, Direct!record
<1>6. CASE Direct!StoreReply(q)  BY <1>6 DEF Direct!StoreReply
<1>7. CASE Direct!RecordDirectExecution(q)  BY <1>7 DEF Direct!RecordDirectExecution
<1>8. CASE Direct!Publish(q)  BY <1>8 DEF Direct!Publish, Direct!record
<1>9. CASE Direct!StepFails(q)  BY <1>9 DEF Direct!StepFails, Direct!record
<1>10. CASE Direct!RecordFailure(q)  BY <1>10 DEF Direct!RecordFailure
<1>11. CASE Direct!FailureUnlogged(q)  BY <1>11 DEF Direct!FailureUnlogged, Direct!record
<1>12. CASE Direct!ShowFailure(q)  BY <1>12 DEF Direct!ShowFailure
<1>13. CASE Direct!FailureUntold(q)  BY <1>13 DEF Direct!FailureUntold, Direct!record
<1> QED
  BY <1>1, <1>2, <1>3, <1>4, <1>5, <1>6, <1>7, <1>8, <1>9, <1>10, <1>11, <1>12, <1>13
  DEF QuestionStep, Direct!Advance

LEMMA QuestionTypes ==
    ASSUME DirectConstants, Direct!TypeOK, NEW q \in Questions, QuestionStep(q)
    PROVE  Direct!TypeOK'
<1>0. Direct!Kept /\ \E to \in Places : dispatch' = [dispatch EXCEPT ![q] = to]
  BY QuestionMoves
<1>k. UNCHANGED <<exists, members, mode, adding, syncing, overlapped, created, removals>>
  BY <1>0 DEF Direct!Kept, Direct!conversation, Direct!changes, Direct!bounds
<1>1. exists' \in BOOLEAN /\ members' \subseteq 1..created' /\ mode' \in {"direct", "group"}
  BY <1>k DEF Direct!TypeOK
<1>2. messages' \subseteq Entries
  BY QuestionSays DEF Direct!TypeOK, Entries, ReplyTo, NoticeOf
<1>3. linked' \subseteq Questions /\ unlogged' \subseteq Questions /\ untold' \subseteq Questions
  BY QuestionNotes DEF Direct!TypeOK
<1>4. replies' \in [Questions -> Direct!TurnStates]
  BY QuestionRow DEF Direct!TypeOK
<1>5. dispatch' \in [Questions -> Places]
  BY <1>0 DEF Direct!TypeOK, Places
<1>6. target' \in [Questions -> Direct!Teammates]
  <2>1. members # {} => Direct!Min(members) \in Direct!Teammates
    <3>1. created \in Nat /\ created \in 1..MaxAgents /\ members \subseteq 1..created /\ MaxAgents \in Nat
      BY DirectConstants DEF Direct!TypeOK, Direct!Teammates, Direct!DirectAssumption
    <3>2. members # {} => Direct!Min(members) \in members  BY <3>1, FirstMember
    <3>3. 1..created \subseteq 1..MaxAgents  BY <3>1
    <3> QED  BY <3>1, <3>2, <3>3 DEF Direct!Teammates
  <2> QED  BY <2>1, QuestionTarget DEF Direct!TypeOK
<1>7. mishaps' \in 0..MaxDirectFaults
  BY QuestionNotes, DirectConstants DEF Direct!TypeOK, Direct!DirectAssumption
<1>8. exists' => \A r \in Questions : dispatch'[r] # "idle" => Direct!Entry("question", r) \in messages'
  <2> SUFFICES ASSUME exists, NEW r \in Questions, dispatch'[r] # "idle"
               PROVE  [kind |-> "question", of |-> r] \in messages'
    BY <1>k DEF Direct!Entry
  <2>1. CASE r = q /\ dispatch[q] = "idle"  BY <2>1, QuestionStarts
  <2>2. CASE r # q \/ dispatch[q] # "idle"
    <3>1. dispatch[r] # "idle"
      BY <2>2, <1>0 DEF Direct!TypeOK
    <3>2. [kind |-> "question", of |-> r] \in messages
      BY <3>1 DEF Direct!TypeOK, Direct!Entry
    <3> QED  BY <3>2, QuestionSays
  <2> QED  BY <2>1, <2>2
<1> QED
  BY <1>k, <1>1, <1>2, <1>3, <1>4, <1>5, <1>6, <1>7, <1>8
  DEF Direct!TypeOK, Entries, Places

\* For every other question nothing has changed.
LEMMA OthersStay ==
    ASSUME Direct!TypeOK, NEW q \in Questions, QuestionStep(q), NEW r \in Questions, r # q
    PROVE  /\ dispatch'[r] = dispatch[r] /\ target'[r] = target[r] /\ replies'[r] = replies[r]
           /\ ReplyTo(r) \in messages' <=> ReplyTo(r) \in messages
           /\ NoticeOf(r) \in messages' <=> NoticeOf(r) \in messages
           /\ r \in linked' <=> r \in linked
           /\ r \in unlogged' <=> r \in unlogged
           /\ r \in untold' <=> r \in untold
<1>1. dispatch'[r] = dispatch[r]  BY QuestionMoves DEF Direct!TypeOK
<1>2. target'[r] = target[r]  BY QuestionTarget DEF Direct!TypeOK
<1>3. replies'[r] = replies[r]  BY QuestionRow DEF Direct!TypeOK
<1>4. /\ ReplyTo(r) \in messages' <=> ReplyTo(r) \in messages
      /\ NoticeOf(r) \in messages' <=> NoticeOf(r) \in messages
  <2>1. /\ ReplyTo(r) \notin {ReplyTo(q), NoticeOf(q), [kind |-> "question", of |-> q]}
        /\ NoticeOf(r) \notin {ReplyTo(q), NoticeOf(q), [kind |-> "question", of |-> q]}
    BY DEF ReplyTo, NoticeOf
  <2> QED  BY <2>1, QuestionSays
<1>5. /\ r \in linked' <=> r \in linked
      /\ r \in unlogged' <=> r \in unlogged
      /\ r \in untold' <=> r \in untold
  BY QuestionNotes
<1> QED  BY <1>1, <1>2, <1>3, <1>4, <1>5

\* What a step leaves of q: each action by what it needs.
LEMMA QuestionReplied ==
    ASSUME DirectConstants, Direct!TypeOK, NEW q \in Questions, Replied(q), QuestionStep(q)
    PROVE  Replied(q)'
<1>0. /\ dispatch \in [Questions -> Places] /\ replies \in [Questions -> Direct!TurnStates]
      /\ target \in [Questions -> Direct!Teammates]
  BY DEF Direct!TypeOK, Places
<1>k. UNCHANGED <<exists, created>>
  BY QuestionMoves DEF Direct!Kept, Direct!conversation, Direct!changes, Direct!bounds
<1>t. target'[q] \in 1..created'
  <2>1. created \in Nat /\ members \subseteq 1..created
    BY DirectConstants DEF Direct!TypeOK, Direct!Teammates, Direct!DirectAssumption
  <2>2. members # {} => Direct!Min(members) \in members  BY <2>1, FirstMember
  <2> QED  BY <1>0, <1>k, <2>1, <2>2, QuestionTarget DEF Replied
<1> DEFINE Rest ==
      /\ dispatch'[q] \in {"idle", "resolving", "context", "start"} => replies'[q] = "none"
      /\ exists' /\ dispatch'[q] \in {"record", "publish"} => ReplyTo(q) \in messages'
      /\ replies'[q] = "completed" => ReplyTo(q) \in messages' /\ q \in linked'
      /\ NoticeOf(q) \in messages' => dispatch'[q] = "failed"
      /\ ~exists' => replies'[q] = "none"
<1>r. Rest
  <2> USE <1>0, <1>k DEF Replied, Direct!Moves, Direct!Entry, ReplyTo, NoticeOf, Direct!IsParticipant
  <2>1. CASE Direct!Send(q)  BY <2>1 DEF Direct!Send
  <2>2. CASE Direct!ResolveConversation(q)  BY <2>2 DEF Direct!ResolveConversation, Direct!record
  <2>3. CASE Direct!LoadContext(q)  BY <2>3 DEF Direct!LoadContext, Direct!record
  <2>4. CASE Direct!StartTurn(q)  BY <2>4 DEF Direct!StartTurn
  <2>5. CASE Direct!Execute(q)  BY <2>5 DEF Direct!Execute, Direct!record
  <2>6. CASE Direct!StoreReply(q)  BY <2>6 DEF Direct!StoreReply
  <2>7. CASE Direct!RecordDirectExecution(q)  BY <2>7 DEF Direct!RecordDirectExecution
  <2>8. CASE Direct!Publish(q)  BY <2>8 DEF Direct!Publish, Direct!record
  <2>9. CASE Direct!StepFails(q)  BY <2>9 DEF Direct!StepFails, Direct!record
  <2>10. CASE Direct!RecordFailure(q)  BY <2>10 DEF Direct!RecordFailure
  <2>11. CASE Direct!FailureUnlogged(q)  BY <2>11 DEF Direct!FailureUnlogged, Direct!record
  <2>12. CASE Direct!ShowFailure(q)  BY <2>12 DEF Direct!ShowFailure
  <2>13. CASE Direct!FailureUntold(q)  BY <2>13 DEF Direct!FailureUntold, Direct!record
  <2> QED
    BY <2>1, <2>2, <2>3, <2>4, <2>5, <2>6, <2>7, <2>8, <2>9, <2>10, <2>11, <2>12, <2>13
    DEF QuestionStep, Direct!Advance
<1> QED  BY <1>t, <1>r DEF Replied

LEMMA QuestionClosed ==
    ASSUME Direct!TypeOK, NEW q \in Questions, Replied(q), Closed(q), QuestionStep(q)
    PROVE  Closed(q)'
<1>0. /\ dispatch \in [Questions -> Places] /\ replies \in [Questions -> Direct!TurnStates]
      /\ target \in [Questions -> Direct!Teammates]
  BY DEF Direct!TypeOK, Places
<1>k. UNCHANGED <<exists, members>>
  BY QuestionMoves DEF Direct!Kept, Direct!conversation
<1> USE <1>0, <1>k DEF Replied, Closed, Excused, Direct!Moves, Direct!Entry, ReplyTo, NoticeOf,
                    Direct!IsParticipant
<1>1. CASE Direct!Send(q)  BY <1>1 DEF Direct!Send
<1>2. CASE Direct!ResolveConversation(q)  BY <1>2 DEF Direct!ResolveConversation, Direct!record
<1>3. CASE Direct!LoadContext(q)  BY <1>3 DEF Direct!LoadContext, Direct!record
<1>4. CASE Direct!StartTurn(q)  BY <1>4 DEF Direct!StartTurn
<1>5. CASE Direct!Execute(q)  BY <1>5 DEF Direct!Execute, Direct!record
<1>6. CASE Direct!StoreReply(q)  BY <1>6 DEF Direct!StoreReply
<1>7. CASE Direct!RecordDirectExecution(q)  BY <1>7 DEF Direct!RecordDirectExecution
<1>8. CASE Direct!Publish(q)  BY <1>8 DEF Direct!Publish, Direct!record
<1>9. CASE Direct!StepFails(q)  BY <1>9 DEF Direct!StepFails, Direct!record
<1>10. CASE Direct!RecordFailure(q)  BY <1>10 DEF Direct!RecordFailure
<1>11. CASE Direct!FailureUnlogged(q)  BY <1>11 DEF Direct!FailureUnlogged, Direct!record
<1>12. CASE Direct!ShowFailure(q)  BY <1>12 DEF Direct!ShowFailure
<1>13. CASE Direct!FailureUntold(q)  BY <1>13 DEF Direct!FailureUntold, Direct!record
<1> QED
  BY <1>1, <1>2, <1>3, <1>4, <1>5, <1>6, <1>7, <1>8, <1>9, <1>10, <1>11, <1>12, <1>13
  DEF QuestionStep, Direct!Advance

\* Nothing is said in a conversation that is gone.
LEMMA NothingIsSaid ==
    ASSUME NEW q \in Questions, QuestionStep(q), ~exists
    PROVE  messages' = messages /\ linked' = linked
<1>1. CASE Direct!Send(q)  BY <1>1 DEF Direct!Send
<1>2. CASE Direct!ResolveConversation(q)  BY <1>2 DEF Direct!ResolveConversation, Direct!record
<1>3. CASE Direct!LoadContext(q)  BY <1>3 DEF Direct!LoadContext, Direct!record
<1>4. CASE Direct!StartTurn(q)  BY <1>4 DEF Direct!StartTurn
<1>5. CASE Direct!Execute(q)  BY <1>5 DEF Direct!Execute, Direct!record
<1>6. CASE Direct!StoreReply(q)  BY <1>6 DEF Direct!StoreReply
<1>7. CASE Direct!RecordDirectExecution(q)  BY <1>7 DEF Direct!RecordDirectExecution
<1>8. CASE Direct!Publish(q)  BY <1>8 DEF Direct!Publish, Direct!record
<1>9. CASE Direct!StepFails(q)  BY <1>9 DEF Direct!StepFails, Direct!record
<1>10. CASE Direct!RecordFailure(q)  BY <1>10 DEF Direct!RecordFailure
<1>11. CASE Direct!FailureUnlogged(q)  BY <1>11 DEF Direct!FailureUnlogged, Direct!record
<1>12. CASE Direct!ShowFailure(q)  BY <1>12 DEF Direct!ShowFailure
<1>13. CASE Direct!FailureUntold(q)  BY <1>13 DEF Direct!FailureUntold, Direct!record
<1> QED
  BY <1>1, <1>2, <1>3, <1>4, <1>5, <1>6, <1>7, <1>8, <1>9, <1>10, <1>11, <1>12, <1>13
  DEF QuestionStep, Direct!Advance

LEMMA QuestionStepKeepsInv ==
    ASSUME DirectConstants, DirectInv, NEW q \in Questions, QuestionStep(q)
    PROVE  DirectInv'
<1>0. Direct!TypeOK /\ Newcomers /\ OneChange
      /\ (\A r \in Questions : Replied(r)) /\ (\A r \in Questions : Closed(r))
      /\ (~exists => messages = {} /\ linked = {})
  BY DEF DirectInv
<1>k. UNCHANGED <<exists, members, mode, adding, syncing, overlapped, created>>
  BY <1>0, QuestionMoves DEF Direct!Kept, Direct!conversation, Direct!changes, Direct!bounds
<1>1. Direct!TypeOK'  BY <1>0, QuestionTypes
<1>2. Newcomers'
  <2> SUFFICES ASSUME NEW a \in Direct!Teammates, adding[a].step # "idle", NEW r \in Questions
               PROVE  target'[r] # a
    BY <1>0, <1>k DEF Newcomers
  <2>1. a \notin members /\ target[r] # a  BY <1>0 DEF Newcomers
  <2>2. created \in Nat /\ members \subseteq 1..created
    BY <1>0, DirectConstants DEF Direct!TypeOK, Direct!Teammates, Direct!DirectAssumption
  <2>3. members # {} => Direct!Min(members) \in members  BY <2>2, FirstMember
  <2>4. target \in [Questions -> Direct!Teammates]  BY <1>0 DEF Direct!TypeOK
  <2> QED  BY <2>1, <2>3, <2>4, QuestionTarget
<1>3. \A r \in Questions : Replied(r)' /\ Closed(r)'
  <2> SUFFICES ASSUME NEW r \in Questions PROVE Replied(r)' /\ Closed(r)'  OBVIOUS
  <2>1. CASE r = q  BY <1>0, <2>1, QuestionReplied, QuestionClosed
  <2>2. CASE r # q  BY <1>0, <1>k, <2>2, OthersStay DEF Replied, Closed, Excused
  <2> QED  BY <2>1, <2>2
<1>4. ~exists' => messages' = {} /\ linked' = {}
  BY <1>0, <1>k, NothingIsSaid
<1>5. OneChange'
  BY <1>0, <1>k DEF OneChange, Direct!ModeOf
<1> QED  BY <1>1, <1>2, <1>3, <1>4, <1>5 DEF DirectInv

-----------------------------------------------------------------------------
(***************************************************************************)
(* Changes of the members.                                                 *)
(***************************************************************************)
LEMMA AddBeginsKeepsInv ==
    ASSUME DirectConstants, DirectInv, Direct!AddBegins PROVE DirectInv'
<1> DEFINE new == [step |-> "begun", seen |-> mode, next |-> mode]
<1>0. Direct!TypeOK /\ Newcomers /\ OneChange
      /\ (\A r \in Questions : Replied(r)) /\ (\A r \in Questions : Closed(r))
      /\ (~exists => messages = {} /\ linked = {})
  BY DEF DirectInv
<1>s. /\ exists /\ created < MaxAgents /\ created' = created + 1
      /\ adding' = [adding EXCEPT ![created + 1] = new]
      /\ overlapped' = (overlapped \/ Direct!Changing)
      /\ UNCHANGED <<exists, members, mode, messages, linked, replies, dispatch, target,
                     syncing, unlogged, untold, removals, mishaps>>
  BY DEF Direct!AddBegins, Direct!conversation, Direct!record
<1>c. /\ created \in Nat /\ MaxAgents \in Nat /\ created' \in Direct!Teammates
      /\ members \subseteq 1..created /\ 1..created \subseteq 1..created'
      /\ created' \notin 1..created /\ created' \in 1..created'
  BY <1>0, <1>s, DirectConstants DEF Direct!TypeOK, Direct!Teammates, Direct!DirectAssumption
<1>a. /\ adding'[created'] = new
      /\ \A a \in Direct!Teammates : a # created' => adding'[a] = adding[a]
  BY <1>0, <1>s, <1>c DEF Direct!TypeOK
<1>1. Direct!TypeOK'
  <2>1. new \in [step : {"idle", "begun", "inserted"}, seen : {"direct", "group"},
                 next : {"direct", "group"}]
    BY <1>0 DEF Direct!TypeOK
  <2>2. adding' \in [Direct!Teammates -> [step : {"idle", "begun", "inserted"},
                        seen : {"direct", "group"}, next : {"direct", "group"}]]
    BY <2>1, <1>0, <1>s DEF Direct!TypeOK
  <2>3. members' \subseteq 1..created' /\ overlapped' \in BOOLEAN
    BY <1>0, <1>s, <1>c DEF Direct!TypeOK
  <2> QED  BY <2>2, <2>3, <1>c, <1>0, <1>s DEF Direct!TypeOK, Direct!Teammates
<1>2. Newcomers'
  <2> SUFFICES ASSUME NEW a \in Direct!Teammates, adding'[a].step # "idle"
               PROVE  /\ a \in 1..created' /\ a \notin members
                      /\ \A q \in Questions : target[q] # a
    BY <1>s DEF Newcomers
  <2>1. CASE a = created'
    <3>1. \A q \in Questions : target[q] \in 1..created  BY <1>0 DEF Replied
    <3> QED  BY <2>1, <3>1, <1>c
  <2>2. CASE a # created'  BY <2>2, <1>a, <1>c, <1>0 DEF Newcomers
  <2> QED  BY <2>1, <2>2
<1>3. \A r \in Questions : Replied(r)'
  BY <1>0, <1>s, <1>c DEF Replied
<1>4. \A r \in Questions : Closed(r)'
  BY <1>0, <1>s DEF Closed, Excused
<1>5. OneChange'
  <2> SUFFICES ASSUME ~overlapped, ~Direct!Changing PROVE OneChange'
    BY <1>s DEF OneChange
  <2>1. ~syncing /\ \A a \in Direct!Teammates : adding[a].step = "idle"
    BY DEF Direct!Changing
  <2>2. mode = Direct!ModeOf(members)  BY <1>0, <1>s, <2>1 DEF OneChange
  <2>3. \A a \in Direct!Teammates : adding'[a].step # "idle" => a = created'
    BY <2>1, <1>a
  <2> QED  BY <2>1, <2>2, <2>3, <1>a, <1>s DEF OneChange, Direct!ModeOf
<1> QED  BY <1>1, <1>2, <1>3, <1>4, <1>5, <1>0, <1>s DEF DirectInv

LEMMA AddInsertsKeepsInv ==
    ASSUME DirectInv, NEW b \in Direct!Teammates, Direct!AddInserts(b) PROVE DirectInv'
<1>0. Direct!TypeOK /\ Newcomers /\ OneChange
      /\ (\A r \in Questions : Replied(r)) /\ (\A r \in Questions : Closed(r))
      /\ (~exists => messages = {} /\ linked = {})
  BY DEF DirectInv
<1>s. /\ exists /\ adding[b].step = "begun"
      /\ adding' = [adding EXCEPT ![b].step = "inserted",
                                  ![b].next = Direct!ModeOf(members \cup {b})]
      /\ UNCHANGED <<exists, members, mode, messages, linked, replies, dispatch, target,
                     syncing, overlapped, unlogged, untold, created, removals, mishaps>>
  BY DEF Direct!AddInserts, Direct!conversation, Direct!record, Direct!bounds
<1>a. /\ adding'[b].step = "inserted" /\ adding'[b].seen = adding[b].seen
      /\ adding'[b].next = Direct!ModeOf(members \cup {b})
      /\ \A a \in Direct!Teammates : a # b => adding'[a] = adding[a]
  BY <1>0, <1>s DEF Direct!TypeOK
<1>1. Direct!TypeOK'
  <2>1. Direct!ModeOf(members \cup {b}) \in {"direct", "group"}  BY DEF Direct!ModeOf
  <2>2. adding' \in [Direct!Teammates -> [step : {"idle", "begun", "inserted"},
                        seen : {"direct", "group"}, next : {"direct", "group"}]]
    BY <2>1, <1>0, <1>s, ZenonT(60) DEF Direct!TypeOK
  <2> QED  BY <2>2, <1>0, <1>s DEF Direct!TypeOK
<1>2. Newcomers'
  BY <1>0, <1>s, <1>a DEF Newcomers
<1>3. \A r \in Questions : Replied(r)' /\ Closed(r)'
  BY <1>0, <1>s DEF Replied, Closed, Excused
<1>4. OneChange'
  <2> SUFFICES ASSUME ~overlapped PROVE OneChange'
    BY <1>s DEF OneChange
  <2>1. \A a \in Direct!Teammates : adding[a].step # "idle" => a = b
    BY <1>0, <1>s DEF OneChange
  <2>2. ~syncing /\ adding[b].seen = mode
    BY <1>0, <1>s DEF OneChange
  <2>3. mode = Direct!ModeOf(members)
    BY <1>0, <1>s, <2>2 DEF OneChange
  <2>4. \A a \in Direct!Teammates : adding'[a].step # "idle" => a = b
    BY <2>1, <1>a
  <2> QED  BY <2>2, <2>3, <2>4, <1>a, <1>s DEF OneChange, Direct!ModeOf
<1> QED  BY <1>1, <1>2, <1>3, <1>4, <1>0, <1>s DEF DirectInv

\* A change that is over leaves nobody who is being added twice.
LEMMA AddEnds ==
    ASSUME Direct!TypeOK, NEW b \in Direct!Teammates, adding' = [adding EXCEPT ![b] = Direct!Idle]
    PROVE  /\ adding' \in [Direct!Teammates -> [step : {"idle", "begun", "inserted"},
                              seen : {"direct", "group"}, next : {"direct", "group"}]]
           /\ adding'[b].step = "idle"
           /\ \A a \in Direct!Teammates : a # b => adding'[a] = adding[a]
BY DEF Direct!TypeOK, Direct!Idle

LEMMA AddCommitsKeepsInv ==
    ASSUME DirectInv, NEW b \in Direct!Teammates, Direct!AddCommits(b) PROVE DirectInv'
<1>0. Direct!TypeOK /\ Newcomers /\ OneChange
      /\ (\A r \in Questions : Replied(r)) /\ (\A r \in Questions : Closed(r))
      /\ (~exists => messages = {} /\ linked = {})
  BY DEF DirectInv
<1>s. /\ adding[b].step = "inserted" /\ members' = members \cup {b}
      /\ mode' = IF adding[b].seen = adding[b].next THEN mode ELSE adding[b].next
      /\ adding' = [adding EXCEPT ![b] = Direct!Idle]
      /\ UNCHANGED <<exists, messages, linked, replies, dispatch, target,
                     syncing, overlapped, unlogged, untold, created, removals, mishaps>>
  BY DEF Direct!AddCommits, Direct!record, Direct!bounds
<1>a. /\ adding' \in [Direct!Teammates -> [step : {"idle", "begun", "inserted"},
                         seen : {"direct", "group"}, next : {"direct", "group"}]]
      /\ adding'[b].step = "idle"
      /\ \A a \in Direct!Teammates : a # b => adding'[a] = adding[a]
  BY <1>0, <1>s, AddEnds
<1>b. /\ b \in 1..created /\ \A q \in Questions : target[q] # b
      /\ adding[b].next \in {"direct", "group"}
  BY <1>0, <1>s DEF Newcomers, Direct!TypeOK
<1>1. Direct!TypeOK'
  <2>1. members' \subseteq 1..created' /\ mode' \in {"direct", "group"}
    BY <1>0, <1>s, <1>b DEF Direct!TypeOK
  <2> QED  BY <2>1, <1>0, <1>s, <1>a DEF Direct!TypeOK
<1>2. Newcomers'
  BY <1>0, <1>s, <1>a DEF Newcomers
<1>3. \A r \in Questions : Replied(r)'
  BY <1>0, <1>s DEF Replied
<1>4. \A r \in Questions : Closed(r)'
  BY <1>0, <1>s, <1>b DEF Closed, Excused
<1>5. OneChange'
  <2> SUFFICES ASSUME ~overlapped PROVE OneChange'
    BY <1>s DEF OneChange
  <2>1. \A a \in Direct!Teammates : adding[a].step # "idle" => a = b
    BY <1>0, <1>s DEF OneChange
  <2>2. \A a \in Direct!Teammates : adding'[a].step = "idle"
    BY <2>1, <1>a
  <2>3. exists => mode' = Direct!ModeOf(members \cup {b})
    BY <1>0, <1>s DEF OneChange
  <2> QED  BY <2>2, <2>3, <1>s DEF OneChange, Direct!ModeOf
<1> QED  BY <1>1, <1>2, <1>3, <1>4, <1>5, <1>0, <1>s DEF DirectInv

LEMMA AddFailsKeepsInv ==
    ASSUME DirectInv, NEW b \in Direct!Teammates, Direct!AddFails(b) PROVE DirectInv'
<1>0. Direct!TypeOK /\ Newcomers /\ OneChange
      /\ (\A r \in Questions : Replied(r)) /\ (\A r \in Questions : Closed(r))
      /\ (~exists => messages = {} /\ linked = {})
  BY DEF DirectInv
<1>s. /\ ~exists /\ adding' = [adding EXCEPT ![b] = Direct!Idle]
      /\ UNCHANGED <<exists, members, mode, messages, linked, replies, dispatch, target,
                     syncing, overlapped, unlogged, untold, created, removals, mishaps>>
  BY DEF Direct!AddFails, Direct!conversation, Direct!record, Direct!bounds
<1>a. /\ adding' \in [Direct!Teammates -> [step : {"idle", "begun", "inserted"},
                         seen : {"direct", "group"}, next : {"direct", "group"}]]
      /\ adding'[b].step = "idle"
      /\ \A a \in Direct!Teammates : a # b => adding'[a] = adding[a]
  BY <1>0, <1>s, AddEnds
<1>1. Direct!TypeOK'  BY <1>0, <1>s, <1>a DEF Direct!TypeOK
<1>2. Newcomers'  BY <1>0, <1>s, <1>a DEF Newcomers
<1>3. \A r \in Questions : Replied(r)' /\ Closed(r)'
  BY <1>0, <1>s DEF Replied, Closed, Excused
<1>4. OneChange'
  <2>1. ~overlapped => \A a, c \in Direct!Teammates :
            adding'[a].step # "idle" /\ adding'[c].step # "idle" => a = c
    BY <1>0, <1>a DEF OneChange
  <2>2. ~overlapped /\ syncing => \A a \in Direct!Teammates : adding'[a].step = "idle"
    BY <1>0, <1>a DEF OneChange
  <2> QED  BY <2>1, <2>2, <1>s DEF OneChange
<1> QED  BY <1>1, <1>2, <1>3, <1>4, <1>0, <1>s DEF DirectInv

LEMMA RemoveKeepsInv ==
    ASSUME DirectConstants, DirectInv, NEW b \in Direct!Teammates, Direct!RemoveAiMember(b)
    PROVE  DirectInv'
<1>0. Direct!TypeOK /\ Newcomers /\ OneChange
      /\ (\A r \in Questions : Replied(r)) /\ (\A r \in Questions : Closed(r))
      /\ (~exists => messages = {} /\ linked = {})
  BY DEF DirectInv
<1>s. /\ ~syncing /\ removals > 0 /\ members' = members \ {b} /\ syncing' = TRUE
      /\ removals' = removals - 1 /\ overlapped' = (overlapped \/ Direct!Changing)
      /\ UNCHANGED <<exists, mode, messages, linked, replies, dispatch, target, adding,
                     unlogged, untold, created, mishaps>>
  BY DEF Direct!RemoveAiMember, Direct!record
<1>1. Direct!TypeOK'
  <2>1. removals' \in 0..MaxRemovals
    BY <1>0, <1>s, DirectConstants DEF Direct!TypeOK, Direct!DirectAssumption
  <2>2. members' \subseteq 1..created' /\ overlapped' \in BOOLEAN
    BY <1>0, <1>s DEF Direct!TypeOK
  <2> QED  BY <2>1, <2>2, <1>0, <1>s DEF Direct!TypeOK
<1>2. Newcomers'  BY <1>0, <1>s DEF Newcomers
<1>3. \A r \in Questions : Replied(r)'  BY <1>0, <1>s DEF Replied
<1>4. \A r \in Questions : Closed(r)'  BY <1>0, <1>s DEF Closed, Excused
<1>5. OneChange'
  <2> SUFFICES ASSUME ~overlapped, ~Direct!Changing PROVE OneChange'
    BY <1>s DEF OneChange
  <2>1. \A a \in Direct!Teammates : adding[a].step = "idle"  BY DEF Direct!Changing
  <2> QED  BY <2>1, <1>s DEF OneChange
<1> QED  BY <1>1, <1>2, <1>3, <1>4, <1>5, <1>0, <1>s DEF DirectInv

LEMMA SyncKeepsInv == ASSUME DirectInv, Direct!SyncMode PROVE DirectInv'
<1>0. Direct!TypeOK /\ Newcomers /\ OneChange
      /\ (\A r \in Questions : Replied(r)) /\ (\A r \in Questions : Closed(r))
      /\ (~exists => messages = {} /\ linked = {})
  BY DEF DirectInv
<1>s. /\ syncing /\ syncing' = FALSE
      /\ mode' = IF exists THEN Direct!ModeOf(members) ELSE mode
      /\ UNCHANGED <<exists, members, messages, linked, replies, dispatch, target, adding,
                     overlapped, unlogged, untold, created, removals, mishaps>>
  BY DEF Direct!SyncMode, Direct!record, Direct!bounds
<1>1. Direct!TypeOK'
  <2>1. mode' \in {"direct", "group"}  BY <1>0, <1>s DEF Direct!TypeOK, Direct!ModeOf
  <2> QED  BY <2>1, <1>0, <1>s DEF Direct!TypeOK
<1>2. Newcomers'  BY <1>0, <1>s DEF Newcomers
<1>3. \A r \in Questions : Replied(r)' /\ Closed(r)'
  BY <1>0, <1>s DEF Replied, Closed, Excused
<1>4. OneChange'
  <2>1. ~overlapped => \A a \in Direct!Teammates : adding[a].step = "idle"
    BY <1>0, <1>s DEF OneChange
  <2> QED  BY <2>1, <1>s DEF OneChange, Direct!ModeOf
<1> QED  BY <1>1, <1>2, <1>3, <1>4, <1>0, <1>s DEF DirectInv

LEMMA DeleteKeepsInv == ASSUME DirectInv, Direct!DeleteConversation PROVE DirectInv'
<1>0. Direct!TypeOK /\ Newcomers /\ OneChange
      /\ (\A r \in Questions : Replied(r)) /\ (\A r \in Questions : Closed(r))
  BY DEF DirectInv
<1>s. /\ exists' = FALSE /\ members' = {} /\ messages' = {} /\ linked' = {}
      /\ replies' = [q \in Questions |-> "none"]
      /\ UNCHANGED <<mode, dispatch, target, adding, syncing, overlapped, unlogged, untold,
                     created, removals, mishaps>>
  BY DEF Direct!DeleteConversation, Direct!changes, Direct!bounds
<1>1. Direct!TypeOK'  BY <1>0, <1>s DEF Direct!TypeOK, Direct!TurnStates
<1>2. Newcomers'  BY <1>0, <1>s DEF Newcomers
<1>3. \A r \in Questions : Replied(r)'  BY <1>0, <1>s DEF Replied
<1>4. \A r \in Questions : Closed(r)'  BY <1>0, <1>s DEF Closed, Excused
<1>5. OneChange'  BY <1>0, <1>s DEF OneChange
<1> QED  BY <1>1, <1>2, <1>3, <1>4, <1>5, <1>s DEF DirectInv

LEMMA DeathKeepsInv == ASSUME DirectConstants, DirectInv, Direct!ApiDies PROVE DirectInv'
<1>0. Direct!TypeOK /\ Newcomers /\ OneChange
      /\ (\A r \in Questions : Replied(r)) /\ (\A r \in Questions : Closed(r))
      /\ (~exists => messages = {} /\ linked = {})
  BY DEF DirectInv
<1>s. /\ mishaps > 0 /\ mishaps' = mishaps - 1
      /\ dispatch' = [q \in Questions |-> IF dispatch[q] \in Direct!Steps \cup {"resolving"}
                                          THEN "dead" ELSE dispatch[q]]
      /\ adding' = [a \in Direct!Teammates |-> Direct!Idle] /\ syncing' = FALSE
      /\ overlapped' = (overlapped \/ syncing)
      /\ UNCHANGED <<exists, members, mode, messages, linked, replies, target, unlogged,
                     untold, created, removals>>
  BY DEF Direct!ApiDies, Direct!conversation, Direct!record, Direct!bounds
<1>d. \A q \in Questions :
         /\ dispatch'[q] = dispatch[q] \/ dispatch'[q] = "dead"
         /\ dispatch'[q] # "dead" => dispatch[q] \notin Direct!Steps \cup {"resolving"}
         /\ dispatch'[q] = "dead" => dispatch[q] \in Direct!Steps \cup {"resolving", "dead"}
  BY <1>s
<1>a. \A a \in Direct!Teammates : adding'[a].step = "idle"
  BY <1>s DEF Direct!Idle
<1>1. Direct!TypeOK'
  <2>1. mishaps' \in 0..MaxDirectFaults
    BY <1>0, <1>s, DirectConstants DEF Direct!TypeOK, Direct!DirectAssumption
  <2>2. dispatch' \in [Questions -> Places]
    BY <1>0, <1>s DEF Direct!TypeOK, Places, Direct!Ends
  <2>3. adding' \in [Direct!Teammates -> [step : {"idle", "begun", "inserted"},
                        seen : {"direct", "group"}, next : {"direct", "group"}]]
    BY <1>s DEF Direct!Idle
  <2>4. overlapped' \in BOOLEAN /\ syncing' \in BOOLEAN
    BY <1>0, <1>s DEF Direct!TypeOK
  <2>5. exists' => \A q \in Questions :
            dispatch'[q] # "idle" => Direct!Entry("question", q) \in messages'
    <3> SUFFICES ASSUME exists, NEW q \in Questions, dispatch'[q] # "idle"
                 PROVE  Direct!Entry("question", q) \in messages
      BY <1>s DEF Direct!Entry
    <3>1. dispatch[q] # "idle"  BY <1>d DEF Direct!Steps
    <3> QED  BY <3>1, <1>0 DEF Direct!TypeOK
  <2> QED  BY <2>1, <2>2, <2>3, <2>4, <2>5, <1>0, <1>s DEF Direct!TypeOK, Places
<1>2. Newcomers'  BY <1>a DEF Newcomers
<1>3. ASSUME NEW r \in Questions PROVE Replied(r)'
  <2>1. Replied(r)  BY <1>0
  <2> QED  BY <2>1, <1>d, <1>s DEF Replied, ReplyTo, NoticeOf, Direct!Steps
<1>4. ASSUME NEW r \in Questions PROVE Closed(r)'
  <2>1. Closed(r) /\ Replied(r)  BY <1>0
  <2> QED  BY <2>1, <1>d, <1>s DEF Closed, Replied, Excused, ReplyTo, NoticeOf, Direct!Steps
<1>5. OneChange'
  BY <1>0, <1>s, <1>a DEF OneChange, Direct!ModeOf
<1> QED  BY <1>1, <1>2, <1>3, <1>4, <1>5, <1>0, <1>s DEF DirectInv

LEMMA DirectStep == ASSUME DirectConstants, DirectInv, Direct!Next PROVE DirectInv'
<1>1. CASE Direct!AddBegins  BY <1>1, AddBeginsKeepsInv
<1>2. CASE Direct!SyncMode  BY <1>2, SyncKeepsInv
<1>3. CASE Direct!DeleteConversation  BY <1>3, DeleteKeepsInv
<1>4. CASE Direct!ApiDies  BY <1>4, DeathKeepsInv
<1>5. CASE \E a \in Direct!Teammates : \/ Direct!AddInserts(a) \/ Direct!AddCommits(a)
                                       \/ Direct!AddFails(a) \/ Direct!RemoveAiMember(a)
  BY <1>5, AddInsertsKeepsInv, AddCommitsKeepsInv, AddFailsKeepsInv, RemoveKeepsInv
<1>6. CASE \E q \in Questions : QuestionStep(q)
  BY <1>6, QuestionStepKeepsInv
<1> QED  BY <1>1, <1>2, <1>3, <1>4, <1>5, <1>6 DEF Direct!Next, QuestionStep

\* The instance counts like everybody else.
LEMMA SameCount == ASSUME NEW S PROVE Direct!Cardinality(S) = Cardinality(S)
BY Zenon DEF Direct!Cardinality, Cardinality, Direct!IsFiniteSet, IsFiniteSet

LEMMA DirectInit == ASSUME DirectConstants, Direct!Init PROVE DirectInv
<1> USE DEF Direct!Init
<1>0. MaxAgents \in Nat \ {0} /\ MaxRemovals \in Nat /\ MaxDirectFaults \in Nat
  BY DirectConstants DEF Direct!DirectAssumption
<1>1. Direct!TypeOK
  <2>1. adding \in [Direct!Teammates -> [step : {"idle", "begun", "inserted"},
                       seen : {"direct", "group"}, next : {"direct", "group"}]]
    BY DEF Direct!Idle
  <2>2. /\ created \in Direct!Teammates /\ members \subseteq 1..created
        /\ removals \in 0..MaxRemovals /\ mishaps \in 0..MaxDirectFaults
    BY <1>0 DEF Direct!Teammates
  <2>3. /\ replies \in [Questions -> Direct!TurnStates] /\ dispatch \in [Questions -> Places]
        /\ target \in [Questions -> Direct!Teammates]
        /\ \A q \in Questions : dispatch[q] = "idle"
    BY <2>2 DEF Direct!TurnStates, Places
  <2> QED  BY <2>1, <2>2, <2>3 DEF Direct!TypeOK, Places
<1>2. Newcomers  BY DEF Newcomers, Direct!Idle
<1>3. \A q \in Questions : Replied(q) /\ Closed(q)
  BY DEF Replied, Closed, Excused
<1>4. OneChange
  <2>1. Cardinality({1}) = 1  BY FS_Singleton
  <2>2. mode = Direct!ModeOf(members)
    <3>1. ~(Direct!Cardinality({1}) > 1)  BY <2>1, SameCount
    <3>2. members = {1} /\ mode = "direct"  OBVIOUS
    <3> QED  BY <3>1, <3>2 DEF Direct!ModeOf
  <2>3. ~syncing /\ \A a \in Direct!Teammates : adding[a].step = "idle"  BY DEF Direct!Idle
  <2> QED  BY <2>2, <2>3 DEF OneChange
<1> QED  BY <1>1, <1>2, <1>3, <1>4 DEF DirectInv

LEMMA DirectInvIsEnough ==
    ASSUME DirectInv
    PROVE  Direct!LedgerIsTrue /\ Direct!FailuresAreTold /\ Direct!ModeMatchesMembers
<1>1. Direct!TypeOK /\ Direct!CompletedMeansVisible /\ Direct!DeletedStaysEmpty
  BY DEF DirectInv, Replied, ReplyTo, Direct!CompletedMeansVisible, Direct!DeletedStaysEmpty,
         Direct!Entry
<1>2. Direct!EndedTurnsAreClosed
  BY DEF DirectInv, Closed, Excused, Direct!EndedTurnsAreClosed
<1>3. Direct!FailuresAreTold
  BY DEF DirectInv, Closed, Excused, NoticeOf, Direct!FailuresAreTold, Direct!FailedTurnsAreTold,
         Direct!ToldTurnsAreNotCompleted, Direct!Entry
<1>4. Direct!ModeMatchesMembers
  BY DEF DirectInv, OneChange, Direct!ModeMatchesMembers, Direct!Changing
<1> QED  BY <1>1, <1>2, <1>3, <1>4 DEF Direct!LedgerIsTrue

-----------------------------------------------------------------------------
(***************************************************************************)
(* The group dispatch: plans and the keys of their turns.                  *)
(***************************************************************************)
LEMMA OrderFacts ==
    ASSUME NEW o \in Orchestrator!Orders
    PROVE  /\ Len(o) \in Nat /\ DOMAIN o = 1..Len(o) /\ Len(o) <= Cardinality(Agents)
           /\ Cardinality(Agents) \in Nat
           /\ \A i \in 1..Len(o) : o[i] \in Agents
           /\ \A i, j \in 1..Len(o) : o[i] = o[j] => i = j
           /\ Orchestrator!SeqRange(o) \subseteq Agents
           /\ o # << >> => Len(o) > 0
           /\ o = << >> => Len(o) = 0 /\ Orchestrator!SeqRange(o) = {}
<1>0. Orchestrator!Cardinality(Agents) = Cardinality(Agents)
  BY Zenon DEF Orchestrator!Cardinality, Cardinality, Orchestrator!IsFiniteSet, IsFiniteSet
<1>1. PICK n \in 0..Cardinality(Agents) : o \in [1..n -> Agents]
  BY <1>0 DEF Orchestrator!Orders
<1>2. Cardinality(Agents) \in Nat /\ n \in Nat
  BY FS_CardinalityType, DispatchAssumption
<1>3. o \in Seq(Agents) /\ Len(o) = n /\ DOMAIN o = 1..n
  BY <1>1, <1>2
<1>4. \A i, j \in DOMAIN o : o[i] = o[j] => i = j
  BY DEF Orchestrator!Orders
<1>5. o # << >> => Len(o) > 0
  BY <1>3, <1>2
<1> QED  BY <1>1, <1>2, <1>3, <1>4, <1>5 DEF Orchestrator!SeqRange

LEMMA PlanFacts ==
    ASSUME PlanFits
    PROVE  /\ plan.order \in Orchestrator!Orders /\ plan.locked \in BOOLEAN
           /\ plan.rounds \in 1..MaxRounds /\ plan.steps \in 0..MaxSteps
           /\ plan.locked => plan.rounds = 1 /\ plan.steps = 0
           /\ ~plan.locked => plan.order # << >>
           /\ Orchestrator!Total(plan) \in Nat /\ MaxTurns \in Nat
           /\ Orchestrator!Total(plan) <= MaxTurns
           /\ plan.locked => Orchestrator!Total(plan) = Len(plan.order)
<1>1. /\ plan.order \in Orchestrator!Orders /\ plan.locked \in BOOLEAN
      /\ plan.rounds \in 1..MaxRounds /\ plan.steps \in 0..MaxSteps
      /\ plan.locked => plan.rounds = 1 /\ plan.steps = 0
  BY DEF PlanFits, Orchestrator!Plans, Orchestrator!RoundCounts, Orchestrator!StepCounts
<1>2. /\ Len(plan.order) \in Nat /\ Cardinality(Agents) \in Nat
      /\ Len(plan.order) <= Cardinality(Agents)
  BY <1>1, OrderFacts
<1>3. ~plan.locked => plan.order # << >>
  BY <1>1, OrderFacts, DispatchAssumption DEF PlanFits
<1>4. MaxRounds \in Nat /\ MaxSteps \in Nat  BY DispatchAssumption
<1>5. ASSUME NEW r \in Nat, NEW R \in Nat, NEW n \in Nat, NEW N \in Nat, r <= R, n <= N
      PROVE  r * n \in Nat /\ R * N \in Nat /\ r * n <= R * N
  <2>1. r * n <= R * n  BY <1>5
  <2>2. R * n <= R * N  BY <1>5
  <2>3. r * n \in Nat /\ R * n \in Nat /\ R * N \in Nat  OBVIOUS
  <2> QED  BY <2>1, <2>2, <2>3
<1>6. /\ plan.rounds * Len(plan.order) \in Nat /\ MaxRounds * Cardinality(Agents) \in Nat
      /\ plan.rounds * Len(plan.order) <= MaxRounds * Cardinality(Agents)
  <2>1. plan.rounds \in Nat /\ plan.rounds <= MaxRounds  BY <1>1, <1>4
  <2> QED  BY <2>1, <1>2, <1>4, <1>5
<1>7. Orchestrator!Total(plan) = IF plan.steps > 0 THEN plan.steps
                                 ELSE plan.rounds * Len(plan.order)
  BY DEF Orchestrator!Total
<1>8. MaxTurns \in Nat /\ MaxSteps <= MaxTurns /\ MaxRounds * Cardinality(Agents) <= MaxTurns
  BY <1>4, <1>6 DEF MaxTurns
<1>9. Orchestrator!Total(plan) \in Nat /\ Orchestrator!Total(plan) <= MaxTurns
  <2>1. CASE plan.steps > 0  BY <2>1, <1>1, <1>4, <1>7, <1>8
  <2>2. CASE ~(plan.steps > 0)
    <3>1. Orchestrator!Total(plan) = plan.rounds * Len(plan.order)  BY <2>2, <1>7
    <3> QED  BY <3>1, <1>6, <1>8
  <2> QED  BY <2>1, <2>2
<1>10. plan.locked => Orchestrator!Total(plan) = Len(plan.order)
  BY <1>1, <1>2, <1>7
<1> QED  BY <1>1, <1>3, <1>8, <1>9, <1>10

LEMMA PlaceFacts ==
    ASSUME PlanFits, NEW i \in Nat \ {0}, plan.order # << >>
    PROVE  /\ Place(i) \in 1..Len(plan.order) /\ plan.order[Place(i)] \in Agents
           /\ i <= Len(plan.order) => Place(i) = i
<1>1. Len(plan.order) \in Nat \ {0} /\ \A n \in 1..Len(plan.order) : plan.order[n] \in Agents
  BY PlanFacts, OrderFacts
<1>2. ASSUME NEW n \in Nat \ {0}, NEW t \in Nat
      PROVE  t % n \in 0..(n - 1) /\ (t < n => t % n = t)
  OBVIOUS
<1>3. i - 1 \in Nat  OBVIOUS
<1> DEFINE t == i - 1
<1> HIDE DEF t
<1>4. t \in Nat /\ i = t + 1  BY <1>3 DEF t
<1>5. /\ t % Len(plan.order) \in 0..(Len(plan.order) - 1)
      /\ t < Len(plan.order) => t % Len(plan.order) = t
  BY <1>1, <1>2, <1>4
<1> DEFINE m == t % Len(plan.order)
<1>6. Place(i) = m + 1  BY DEF Place, t
<1> HIDE DEF m
<1>7. m \in 0..(Len(plan.order) - 1) /\ (t < Len(plan.order) => m = t)
  BY <1>5 DEF m
<1>8. Place(i) \in 1..Len(plan.order)  BY <1>1, <1>6, <1>7
<1>9. i <= Len(plan.order) => Place(i) = i  BY <1>1, <1>4, <1>6, <1>7
<1> QED  BY <1>1, <1>8, <1>9

LEMMA KeyFacts ==
    ASSUME PlanFits, TurnsFollowPlan
    PROVE  /\ Len(turns) \in Nat /\ DOMAIN turns = 1..Len(turns)
           /\ turns # << >> => plan.order # << >>
           /\ IsFiniteSet(Results) /\ Cardinality(Results) \in Nat
           /\ \A i \in DOMAIN turns : turns[i].agent \in Agents /\ turns[i].asks \subseteq Agents
           /\ \A i \in DOMAIN turns : KeyOf(i) \in Keys /\ KeyOf(i) \in PlannedKeys
           /\ \A i, j \in DOMAIN turns : KeyOf(i) = KeyOf(j) => i = j
           /\ \A k \in PlannedKeys : Len(turns) = Orchestrator!Total(plan) =>
                 \E i \in DOMAIN turns : k = KeyOf(i)
<1> DEFINE L == Len(plan.order)
           T == Orchestrator!Total(plan)
<1>1. /\ Len(turns) \in Nat /\ DOMAIN turns = 1..Len(turns) /\ turns \in Seq(Orchestrator!Turns)
      /\ Len(turns) <= T /\ T \in Nat /\ MaxTurns \in Nat /\ T <= MaxTurns
  BY PlanFacts DEF TurnsFollowPlan
<1>2. \A i \in DOMAIN turns : turns[i].agent \in Agents /\ turns[i].asks \subseteq Agents
  <2>1. \A i \in DOMAIN turns : turns[i] \in Orchestrator!Turns  BY <1>1
  <2> QED  BY <2>1 DEF Orchestrator!Turns
<1>3. turns # << >> => plan.order # << >>
  <2> SUFFICES ASSUME plan.order = << >> PROVE Len(turns) = 0  BY <1>1
  <2>1. plan.locked /\ T = Len(plan.order)  BY PlanFacts
  <2> QED  BY <2>1, <1>1
<1>4. IsFiniteSet(Results) /\ Cardinality(Results) \in Nat
  <2>1. IsFiniteSet(1..Len(turns))  BY <1>1, FS_Interval
  <2>2. Results \subseteq 1..Len(turns)  BY <1>1 DEF Results, Orchestrator!Succeeded
  <2> QED  BY <2>1, <2>2, FS_Subset, FS_CardinalityType
<1>5. ASSUME NEW i \in DOMAIN turns
      PROVE  KeyOf(i) \in Keys /\ KeyOf(i) \in PlannedKeys
  <2>1. /\ i \in Nat \ {0} /\ i <= Len(turns) /\ plan.order # << >>
        /\ i - 1 \in 0..(T - 1) /\ i - 1 \in 0..(MaxTurns - 1)
    BY <1>1, <1>3
  <2>2. KeyOf(i) = <<i - 1, plan.order[((i - 1) % L) + 1]>>
    BY DEF KeyOf, TurnsFollowPlan, Place
  <2>3. KeyOf(i) \in Keys  BY <2>1, <1>2 DEF KeyOf, Keys
  <2>4. KeyOf(i) \in PlannedKeys  BY <2>1, <2>2 DEF PlannedKeys
  <2> QED  BY <2>3, <2>4
<1>6. \A i, j \in DOMAIN turns : KeyOf(i) = KeyOf(j) => i = j
  BY <1>1 DEF KeyOf
<1>7. ASSUME NEW k \in PlannedKeys, Len(turns) = T
      PROVE  \E i \in DOMAIN turns : k = KeyOf(i)
  <2>1. PICK n \in 0..(T - 1) : k = <<n, plan.order[(n % L) + 1]>>
    BY DEF PlannedKeys
  <2>2. n + 1 \in DOMAIN turns /\ (n + 1) - 1 = n  BY <2>1, <1>1, <1>7
  <2>3. turns[n + 1].agent = plan.order[(n % L) + 1]
    BY <2>2 DEF TurnsFollowPlan, Place
  <2>4. k = KeyOf(n + 1)  BY <2>1, <2>2, <2>3 DEF KeyOf
  <2> QED  BY <2>2, <2>4
<1> QED  BY <1>1, <1>2, <1>3, <1>4, <1>5, <1>6, <1>7

\* Results and failures are the two halves of the turns.
LEMMA Halves ==
    ASSUME PlanFits, TurnsFollowPlan
    PROVE  /\ Results \cup Failures = DOMAIN turns /\ Results \cap Failures = {}
           /\ \A k \in Keys : ~(IsResult(k) /\ IsFailure(k))
           /\ \A k \in Keys : IsResult(k) \/ IsFailure(k) => k \in PlannedKeys
           /\ Len(turns) = Orchestrator!Total(plan) =>
                 \A k \in PlannedKeys : IsResult(k) \/ IsFailure(k)
<1>1. Results \cup Failures = DOMAIN turns /\ Results \cap Failures = {}
  BY DEF Results, Failures, Orchestrator!Succeeded, Orchestrator!Failed
<1> QED  BY <1>1, KeyFacts DEF IsResult, IsFailure

\* A mentioned agent has one turn, and its place among the initial targets is that turn's.
LEMMA MentionsKeepTheirKeys ==
    ASSUME PlanFits, TurnsFollowPlan, plan.locked, NEW i \in DOMAIN turns
    PROVE  FailedKey(i) = KeyOf(i)
<1>1. /\ initial = plan.order /\ Orchestrator!Total(plan) = Len(plan.order)
      /\ plan.order \in Orchestrator!Orders
  BY PlanFacts DEF PlanFits
<1>2. /\ i \in Nat \ {0} /\ i <= Len(turns) /\ plan.order # << >> /\ Len(turns) \in Nat
  BY KeyFacts
<1>3. Len(plan.order) \in Nat /\ DOMAIN initial = 1..Len(plan.order) /\ i <= Len(plan.order)
      /\ \A m, n \in DOMAIN initial : initial[m] = initial[n] => m = n
  BY <1>1, <1>2, OrderFacts, SMTT(60) DEF TurnsFollowPlan
<1>4. i \in DOMAIN initial /\ initial[i] = turns[i].agent
  BY <1>1, <1>2, <1>3, PlaceFacts DEF TurnsFollowPlan
<1>5. (CHOOSE n \in DOMAIN initial : initial[n] = turns[i].agent) = i
  BY <1>3, <1>4
<1> QED  BY <1>5 DEF FailedKey, KeyOf

-----------------------------------------------------------------------------
(***************************************************************************)
(* Steps of the workflow, while the API waits for it.                      *)
(***************************************************************************)
AddsTurn ==
    /\ Orchestrator!Planned
    /\ \E ok \in BOOLEAN, asks \in SUBSET Agents :
          turns' = Append(turns, Orchestrator!Turn(Orchestrator!PlannedAgent,
                                                   Orchestrator!PlannedRound, ok, asks))
    /\ status' = status

ChangesStatus ==
    /\ turns' = turns /\ status' \in Orchestrator!Statuses
    /\ status' \in {"partial_failure", "aggregated"} =>
          Len(turns) = Orchestrator!Total(plan) /\ plan.order # << >>

\* The handoffs an answer asks for are for agents who have their turns anyway.
LEMMA WorkflowSteps ==
    ASSUME GroupInv, Orchestrator!Next
    PROVE  /\ UNCHANGED <<plan, queue, queued, wave, asked, targets>>
           /\ AddsTurn \/ ChangesStatus
<1>0. /\ queue = {} /\ wave = {} /\ asked = {} /\ PlanFits
      /\ queued = Orchestrator!SeqRange(plan.order) /\ targets = queued
      /\ Len(turns) <= Orchestrator!Total(plan) /\ status \in Orchestrator!Statuses
      /\ Len(turns) \in Nat /\ Orchestrator!Total(plan) \in Nat
      /\ status \in {"partial_failure", "aggregated"} =>
            Len(turns) = Orchestrator!Total(plan) /\ plan.order # << >>
  BY KeyFacts, PlanFacts DEF GroupInv, NobodyIsQueued, TurnsFollowPlan
<1>1. CASE Orchestrator!NoTargets
  BY <1>1 DEF Orchestrator!NoTargets, ChangesStatus, Orchestrator!Statuses
<1>2. CASE \E asks \in Orchestrator!Requests : Orchestrator!PlannedSucceeds(asks)
  <2>1. PICK asks \in Orchestrator!Requests : Orchestrator!PlannedSucceeds(asks)  BY <1>2
  <2>2. asks \subseteq Agents  BY DEF Orchestrator!Requests
  <2>3. AddsTurn /\ UNCHANGED <<plan, wave, asked>>
    BY <2>1, <2>2 DEF Orchestrator!PlannedSucceeds, AddsTurn
  <2>4. ~plan.locked => Orchestrator!Fresh(asks) = {}
    BY <1>0, <2>2 DEF Orchestrator!Fresh, PlanFits
  <2>5. UNCHANGED <<queue, queued, targets>>
    BY <1>0, <2>1, <2>4 DEF Orchestrator!PlannedSucceeds, Orchestrator!FollowsHandoffs
  <2> QED  BY <2>3, <2>5
<1>3. CASE Orchestrator!PlannedFails
  BY <1>3 DEF Orchestrator!PlannedFails, AddsTurn
<1>4. ~Orchestrator!StartWave /\ ~Orchestrator!EndWave
  BY <1>0 DEF Orchestrator!StartWave, Orchestrator!EndWave
<1>5. ~(\E a \in Agents, ok \in BOOLEAN, asks \in SUBSET Agents : Orchestrator!HandoffTurn(a, ok, asks))
  BY <1>0 DEF Orchestrator!HandoffTurn
<1>6. Orchestrator!PlanDone => Len(turns) = Orchestrator!Total(plan) /\ plan.order # << >>
  BY <1>0 DEF Orchestrator!PlanDone
<1>7. Orchestrator!Reported => Len(turns) = Orchestrator!Total(plan) /\ plan.order # << >>
  BY <1>0, <1>6 DEF Orchestrator!Reported, Orchestrator!AllDispatched
<1>8. CASE Orchestrator!ReportFailures
  BY <1>8, <1>6 DEF Orchestrator!ReportFailures, Orchestrator!AllDispatched, ChangesStatus,
                    Orchestrator!Statuses
<1>9. CASE Orchestrator!Aggregate
  BY <1>9, <1>7 DEF Orchestrator!Aggregate, ChangesStatus, Orchestrator!Statuses
<1>10. CASE Orchestrator!AggregateFails
  BY <1>10 DEF Orchestrator!AggregateFails, ChangesStatus, Orchestrator!Statuses
<1> QED
  BY <1>1, <1>2, <1>3, <1>4, <1>5, <1>8, <1>9, <1>10
  DEF Orchestrator!Next, Orchestrator!Dispatch, Orchestrator!Requests

LEMMA RoundFacts ==
    ASSUME NEW n \in Nat \ {0}, NEW t \in Nat
    PROVE  /\ t \div n \in Nat /\ t \div n <= t
           /\ \A r \in Nat : t < r * n => t \div n < r
<1>1. t \div n \in Nat /\ t % n \in 0..(n - 1) /\ t = n * (t \div n) + (t % n)
  OBVIOUS
<1> DEFINE d == t \div n
           m == t % n
<1> HIDE DEF d, m
<1>2. d \in Nat /\ m \in Nat /\ t = n * d + m  BY <1>1 DEF d, m
<1>3. n * d <= t  BY <1>2
<1>4. d <= n * d  BY <1>2
<1>5. ASSUME NEW r \in Nat, t < r * n PROVE d < r
  <2>1. ASSUME d >= r PROVE r * n <= n * d  BY <2>1, <1>2
  <2>2. n * d < r * n  BY <1>3, <1>5, <1>2
  <2> QED  BY <2>1, <2>2, <1>2
<1>6. d <= t  BY <1>2, <1>3, <1>4
<1> QED  BY <1>2, <1>5, <1>6 DEF d

LEMMA PlannedTurn ==
    ASSUME PlanFits, TurnsFollowPlan, Orchestrator!Planned,
           NEW ok \in BOOLEAN, NEW asks \in SUBSET Agents
    PROVE  Orchestrator!Turn(Orchestrator!PlannedAgent, Orchestrator!PlannedRound, ok, asks)
              \in Orchestrator!Turns
<1>1. /\ plan.rounds \in 1..MaxRounds /\ plan.steps \in 0..MaxSteps
      /\ Len(turns) \in Nat /\ plan.order # << >> /\ plan.order \in Orchestrator!Orders
      /\ Len(turns) < Orchestrator!Total(plan)
  BY PlanFacts, KeyFacts DEF Orchestrator!Planned
<1>2. Len(plan.order) \in Nat \ {0}  BY <1>1, OrderFacts
<1>3. MaxRounds \in Nat /\ MaxSteps \in Nat  BY DispatchAssumption
<1>4. Orchestrator!PlannedAgent \in Agents
  <2>1. Len(turns) + 1 \in Nat \ {0} /\ (Len(turns) + 1) - 1 = Len(turns)  BY <1>1
  <2>2. plan.order[Place(Len(turns) + 1)] \in Agents  BY <1>1, <2>1, PlaceFacts
  <2> QED  BY <2>1, <2>2 DEF Place, Orchestrator!PlannedAgent
<1>5. Orchestrator!PlannedRound \in 0..(MaxRounds + MaxSteps)
  <2> DEFINE d == Len(turns) \div Len(plan.order)
  <2>1. d \in Nat /\ d <= Len(turns) /\ \A r \in Nat : Len(turns) < r * Len(plan.order) => d < r
    BY <1>1, <1>2, RoundFacts
  <2>2. Orchestrator!PlannedRound = d  BY DEF Orchestrator!PlannedRound
  <2> HIDE DEF d
  <2>3. CASE plan.steps > 0
    <3>1. Len(turns) < plan.steps  BY <1>1, <2>3 DEF Orchestrator!Total
    <3> QED  BY <3>1, <2>1, <2>2, <1>1, <1>3
  <2>4. CASE ~(plan.steps > 0)
    <3>1. Len(turns) < plan.rounds * Len(plan.order)  BY <1>1, <2>4 DEF Orchestrator!Total
    <3>2. plan.rounds \in Nat  BY <1>1, <1>3
    <3>3. d < plan.rounds  BY <3>1, <3>2, <2>1
    <3> QED  BY <3>2, <3>3, <2>1, <2>2, <1>1, <1>3
  <2> QED  BY <2>3, <2>4
<1> QED  BY <1>4, <1>5 DEF Orchestrator!Turn, Orchestrator!Turns

\* While the API waits, every planned turn is on record as running and nothing is published.
LEMMA WorkflowKeepsInv == ASSUME GroupInv, RunWorkflow PROVE GroupInv'
<1>0. PlanFits /\ NobodyIsQueued /\ TurnsFollowPlan /\ ApiFits /\ LedgerFits
  BY DEF GroupInv
<1>s. /\ api = "waiting" /\ Orchestrator!Next
      /\ UNCHANGED <<initial, api, published, ledger, handoffs, notice, faults>>
  BY DEF RunWorkflow, apiVars
<1>u. UNCHANGED <<plan, queue, queued, wave, asked, targets>> /\ (AddsTurn \/ ChangesStatus)
  BY <1>s, WorkflowSteps
<1>t. turns \in Seq(Orchestrator!Turns) /\ Len(turns) \in Nat /\ DOMAIN turns = 1..Len(turns)
  BY <1>0, KeyFacts DEF TurnsFollowPlan
<1>1. PlanFits'
  BY <1>0, <1>s, <1>u, ZenonT(60) DEF PlanFits, DefaultRounds, Orchestrator!SeqRange
<1>2. NobodyIsQueued'
  BY <1>0, <1>u DEF NobodyIsQueued, Orchestrator!SeqRange
<1>3. TurnsFollowPlan'
  <2>1. CASE AddsTurn
    <3>1. PICK ok \in BOOLEAN, asks \in SUBSET Agents :
            turns' = Append(turns, Orchestrator!Turn(Orchestrator!PlannedAgent,
                                                     Orchestrator!PlannedRound, ok, asks))
      BY <2>1 DEF AddsTurn
    <3> DEFINE t == Orchestrator!Turn(Orchestrator!PlannedAgent, Orchestrator!PlannedRound, ok, asks)
    <3>2. t \in Orchestrator!Turns /\ t.agent = Orchestrator!PlannedAgent
      BY <1>0, <2>1, PlannedTurn DEF AddsTurn, Orchestrator!Turn
    <3>3. turns' = Append(turns, t)  BY <3>1
    <3> HIDE DEF t
    <3>4. /\ turns' \in Seq(Orchestrator!Turns) /\ Len(turns') = Len(turns) + 1
          /\ DOMAIN turns' = 1..(Len(turns) + 1) /\ turns'[Len(turns) + 1] = t
          /\ \A i \in DOMAIN turns : turns'[i] = turns[i]
      BY <1>t, <3>2, <3>3
    <3>5. Len(turns) < Orchestrator!Total(plan) /\ status = "running" /\ status' = status
          /\ Orchestrator!Total(plan) \in Nat
      BY <2>1, <1>0, PlanFacts DEF AddsTurn, Orchestrator!Planned
    <3>6. ASSUME NEW i \in DOMAIN turns' PROVE turns'[i].agent = plan.order[Place(i)]
      <4>1. CASE i \in DOMAIN turns  BY <4>1, <3>4, <1>0 DEF TurnsFollowPlan
      <4>2. CASE i = Len(turns) + 1
        <5>1. (Len(turns) + 1) - 1 = Len(turns)  BY <1>t
        <5> QED  BY <4>2, <5>1, <3>2, <3>4 DEF Place, Orchestrator!PlannedAgent
      <4> QED  BY <4>1, <4>2, <3>4, <1>t
    <3>7. Len(turns') <= Orchestrator!Total(plan)  BY <3>4, <3>5, <1>t
    <3> QED
      BY <3>4, <3>5, <3>6, <3>7, <1>u, <1>0
      DEF TurnsFollowPlan, Place, Orchestrator!Total, Orchestrator!Statuses
  <2>2. CASE ChangesStatus
    BY <2>2, <1>u, <1>0 DEF ChangesStatus, TurnsFollowPlan, Place, Orchestrator!Total
  <2> QED  BY <2>1, <2>2, <1>u
<1>4. ApiFits'
  <2>1. turns' \in Seq(Orchestrator!Turns)  BY <1>3 DEF TurnsFollowPlan
  <2>2. IsFiniteSet(1..Len(turns')) /\ DOMAIN turns' = 1..Len(turns')
    <3>1. Len(turns') \in Nat /\ DOMAIN turns' = 1..Len(turns')  BY <2>1
    <3> QED  BY <3>1, FS_Interval
  <2>3. Results' \subseteq 1..Len(turns')  BY <2>2 DEF Results, Orchestrator!Succeeded
  <2>4. Cardinality(Results') \in Nat  BY <2>2, <2>3, FS_Subset, FS_CardinalityType
  <2>5. published' = 0  BY <1>0, <1>s DEF ApiFits
  <2>6. published' \in 0..Cardinality(Results')  BY <2>4, <2>5
  <2> QED  BY <2>5, <2>6, <1>0, <1>s, <1>u DEF ApiFits
<1>5. LedgerFits'
  <2>1. PlannedKeys' = PlannedKeys  BY <1>u DEF PlannedKeys, Orchestrator!Total
  <2>2. \A k \in Keys : ledger[k] = IF k \in PlannedKeys THEN "running" ELSE "none"
    BY <1>0, <1>s DEF LedgerFits
  <2> QED  BY <2>1, <2>2, <1>0, <1>s DEF LedgerFits
<1> QED  BY <1>1, <1>2, <1>3, <1>4, <1>5 DEF GroupInv

-----------------------------------------------------------------------------
(***************************************************************************)
(* Steps of the API, to which the plan and the turns are given.            *)
(***************************************************************************)
LEMMA GivenStays ==
    ASSUME GroupInv, UNCHANGED <<workflowVars, initial>>
    PROVE  /\ PlanFits' /\ NobodyIsQueued' /\ TurnsFollowPlan'
           /\ Results' = Results /\ Failures' = Failures /\ PlannedKeys' = PlannedKeys
           /\ plan' = plan /\ status' = status
           /\ \A k \in Keys : IsResult(k)' = IsResult(k) /\ IsFailure(k)' = IsFailure(k)
<1>0. UNCHANGED <<plan, turns, queue, queued, wave, asked, targets, status, initial>>
  BY DEF workflowVars
<1>1. PlanFits'
  BY <1>0, ZenonT(60) DEF GroupInv, PlanFits, DefaultRounds, Orchestrator!SeqRange
<1>2. NobodyIsQueued'
  BY <1>0 DEF GroupInv, NobodyIsQueued, Orchestrator!SeqRange
<1>3. TurnsFollowPlan'
  BY <1>0 DEF GroupInv, TurnsFollowPlan, Place, Orchestrator!Total
<1>4. Results' = Results /\ Failures' = Failures
  BY <1>0 DEF Results, Failures, Orchestrator!Succeeded, Orchestrator!Failed
<1>5. PlannedKeys' = PlannedKeys
  BY <1>0 DEF PlannedKeys, Orchestrator!Total
<1>6. \A k \in Keys : IsResult(k)' = IsResult(k) /\ IsFailure(k)' = IsFailure(k)
  BY <1>0, <1>4 DEF IsResult, IsFailure, KeyOf
<1> QED  BY <1>0, <1>1, <1>2, <1>3, <1>4, <1>5, <1>6

\* What recording a set of keys makes of the ledger.
LEMMA Recorded ==
    ASSUME NEW keys, NEW row \in RowStates, LedgerFits, ledger' = Record(keys, row)
    PROVE  /\ ledger' \in [Keys -> RowStates]
           /\ \A k \in Keys : ledger'[k] = IF k \in keys THEN row ELSE ledger[k]
BY DEF Record, LedgerFits

\* Steps that write nothing into the ledger.
QuietStep ==
    \/ Prepare \/ WorkflowReturns \/ WorkflowThrows \/ PublishResult \/ TellFailures \/ Throws
    \/ CatchTells \/ CatchStepFails \/ ApiCrash

LEMMA QuietStepKeepsInv == ASSUME GroupInv, QuietStep PROVE GroupInv'
<1>0. PlanFits /\ NobodyIsQueued /\ TurnsFollowPlan /\ ApiFits /\ LedgerFits
  BY DEF GroupInv
<1>1. UNCHANGED <<workflowVars, initial, ledger, handoffs>>
  BY DEF QuietStep, Prepare, WorkflowReturns, WorkflowThrows, PublishResult, TellFailures, Throws,
         CatchTells, CatchStepFails, ApiCrash
<1>2. /\ PlanFits' /\ NobodyIsQueued' /\ TurnsFollowPlan'
      /\ Results' = Results /\ Failures' = Failures /\ PlannedKeys' = PlannedKeys
      /\ plan' = plan /\ status' = status
      /\ \A k \in Keys : IsResult(k)' = IsResult(k) /\ IsFailure(k)' = IsFailure(k)
  BY <1>1, GivenStays
<1>3. Cardinality(Results) \in Nat  BY <1>0, KeyFacts
<1>n. faults \in Nat /\ published \in 0..Cardinality(Results)  BY <1>0 DEF ApiFits
<1>4. ApiFits'
  <2> USE <1>0, <1>1, <1>2, <1>3, <1>n DEF ApiFits, ApiStates
  <2>1. CASE Prepare  BY <2>1 DEF Prepare
  <2>2. CASE WorkflowReturns  BY <2>2 DEF WorkflowReturns
  <2>3. CASE WorkflowThrows  BY <2>3 DEF WorkflowThrows
  <2>4. CASE PublishResult  BY <2>4 DEF PublishResult
  <2>5. CASE TellFailures  BY <2>5 DEF TellFailures
  <2>6. CASE Throws  BY <2>6 DEF Throws
  <2>7. CASE CatchTells  BY <2>7 DEF CatchTells
  <2>8. CASE CatchStepFails  BY <2>8 DEF CatchStepFails, Fault
  <2>9. CASE ApiCrash  BY <2>9 DEF ApiCrash, Fault
  <2> QED  BY <2>1, <2>2, <2>3, <2>4, <2>5, <2>6, <2>7, <2>8, <2>9 DEF QuietStep
<1>5. LedgerFits'
  <2>t. /\ Told("running")' = Told("running") /\ Told("failed")' = Told("failed")
    BY <1>1, <1>2 DEF Told
  <2>k. (\A k \in Keys : ledger[k] = "completed" => published = Cardinality(Results) /\ IsResult(k))
    BY <1>0 DEF LedgerFits
  <2> USE <1>0, <1>1, <1>2, <1>3, <1>n, <2>t DEF LedgerFits, ApiFits, ApiStates
  <2>1. CASE Prepare  BY <2>1 DEF Prepare
  <2>2. CASE WorkflowReturns  BY <2>2 DEF WorkflowReturns
  <2>3. CASE WorkflowThrows  BY <2>3 DEF WorkflowThrows
  <2>4. CASE PublishResult
    <3>1. /\ api = "publishing" /\ api' = api
      BY <2>4 DEF PublishResult
    <3>2. \A k \in Keys : ledger[k] # "completed"  BY <3>1
    <3> QED  BY <3>1, <3>2
  <2>5. CASE TellFailures  BY <2>5 DEF TellFailures
  <2>6. CASE Throws  BY <2>6 DEF Throws
  <2>7. CASE CatchTells  BY <2>7 DEF CatchTells
  <2>8. CASE CatchStepFails  BY <2>8 DEF CatchStepFails, Fault
  <2>9. CASE ApiCrash  BY <2>9 DEF ApiCrash, Fault
  <2> QED  BY <2>1, <2>2, <2>3, <2>4, <2>5, <2>6, <2>7, <2>8, <2>9 DEF QuietStep
<1> QED  BY <1>2, <1>4, <1>5 DEF GroupInv

LEMMA RecordStartedKeepsInv == ASSUME GroupInv, RecordStarted PROVE GroupInv'
<1>0. PlanFits /\ NobodyIsQueued /\ TurnsFollowPlan /\ ApiFits /\ LedgerFits
  BY DEF GroupInv
<1>s. /\ api = "starting" /\ api' = "waiting" /\ ledger' = Record(PlannedKeys, "running")
      /\ UNCHANGED <<workflowVars, initial, published, handoffs, notice, faults>>
  BY DEF RecordStarted
<1>2. /\ PlanFits' /\ NobodyIsQueued' /\ TurnsFollowPlan'
      /\ Results' = Results /\ Failures' = Failures /\ PlannedKeys' = PlannedKeys
      /\ plan' = plan /\ status' = status
  BY <1>s, GivenStays
<1>3. ledger' \in [Keys -> RowStates]
      /\ \A k \in Keys : ledger'[k] = IF k \in PlannedKeys THEN "running" ELSE ledger[k]
  BY <1>0, <1>s, Recorded DEF RowStates
<1>4. \A k \in Keys : ledger[k] = "none"  BY <1>0, <1>s DEF LedgerFits
<1>5. \A k \in Keys : ledger'[k] = IF k \in PlannedKeys THEN "running" ELSE "none"
  BY <1>3, <1>4
<1>6. ApiFits'  BY <1>0, <1>s, <1>2 DEF ApiFits, ApiStates
<1>7. LedgerFits'  BY <1>2, <1>3, <1>5, <1>s DEF LedgerFits
<1> QED  BY <1>2, <1>6, <1>7 DEF GroupInv

LEMMA RecordGroupKeepsInv == ASSUME GroupInv, RecordGroup PROVE GroupInv'
<1>0. PlanFits /\ NobodyIsQueued /\ TurnsFollowPlan /\ ApiFits /\ LedgerFits
  BY DEF GroupInv
<1>s. /\ api = "publishing" /\ published = Cardinality(Results)
      /\ ledger' = CompletedTurns /\ handoffs' = RequestedHandoffs
      /\ api' = IF Failures = {} THEN "answered" ELSE "closing"
      /\ UNCHANGED <<workflowVars, initial, published, notice, faults>>
  BY DEF RecordGroup
<1>2. /\ PlanFits' /\ NobodyIsQueued' /\ TurnsFollowPlan'
      /\ Results' = Results /\ Failures' = Failures /\ PlannedKeys' = PlannedKeys
      /\ plan' = plan /\ status' = status
      /\ \A k \in Keys : IsResult(k)' = IsResult(k) /\ IsFailure(k)' = IsFailure(k)
  BY <1>s, GivenStays
<1>3. ledger' \in [Keys -> RowStates]
      /\ \A k \in Keys : ledger'[k] = IF IsResult(k) THEN "completed" ELSE ledger[k]
  BY <1>0, <1>s, Recorded DEF RowStates, CompletedTurns, IsResult
<1>4. \A k \in Keys : ledger[k] = IF k \in PlannedKeys THEN "running" ELSE "none"
  BY <1>0, <1>s DEF LedgerFits
<1>5. \A k \in Keys : /\ IsResult(k) \/ IsFailure(k) <=> k \in PlannedKeys
                      /\ ~(IsResult(k) /\ IsFailure(k))
  BY <1>0, <1>s, Halves DEF ApiFits, TurnsFollowPlan
<1>6. \A k \in Keys : ledger'[k] = IF IsResult(k) THEN "completed"
                                   ELSE IF IsFailure(k) THEN "running" ELSE "none"
  BY <1>3, <1>4, <1>5
<1>7. \A k \in Keys : ledger'[k] = IF IsResult(k)' THEN "completed"
                                   ELSE IF IsFailure(k)' THEN "running" ELSE "none"
  BY <1>2, <1>6
<1>8. Told("running")' /\ (Failures = {} => Told("failed")')
  <2>1. Failures = {} => \A k \in Keys : ~IsFailure(k)  BY DEF IsFailure
  <2> QED  BY <1>2, <1>7, <2>1 DEF Told
<1>9. handoffs' \subseteq Agents /\ (handoffs' # {} => plan.locked)
  <2>1. \A i \in Results : turns[i].asks \subseteq Agents
    BY <1>0, KeyFacts, Halves
  <2>2. RequestedHandoffs \subseteq Agents \ Orchestrator!SeqRange(initial)
    <3> SUFFICES ASSUME NEW a \in RequestedHandoffs
                 PROVE  a \in Agents /\ a \notin Orchestrator!SeqRange(initial)
      OBVIOUS
    <3>1. /\ a \in UNION {turns[i].asks : i \in Results}
          /\ a \notin Orchestrator!SeqRange(initial)
      BY DEF RequestedHandoffs
    <3>2. PICK i \in Results : a \in turns[i].asks  BY <3>1
    <3> QED  BY <3>1, <3>2, <2>1
  <2>3. ~plan.locked => Orchestrator!SeqRange(initial) = Agents
    BY <1>0 DEF PlanFits
  <2> QED  BY <2>2, <2>3, <1>s, <1>0, PlanFacts
<1>10. ApiFits'
  BY <1>0, <1>s, <1>2, <1>9 DEF ApiFits, ApiStates
<1>11. LedgerFits'
  BY <1>0, <1>s, <1>2, <1>3, <1>5, <1>6, <1>8 DEF LedgerFits
<1> QED  BY <1>2, <1>10, <1>11 DEF GroupInv

LEMMA RecordFailuresKeepsInv == ASSUME GroupInv, RecordFailures PROVE GroupInv'
<1>0. PlanFits /\ NobodyIsQueued /\ TurnsFollowPlan /\ ApiFits /\ LedgerFits
  BY DEF GroupInv
<1>s. /\ api = "closing" /\ api' = "noticing"
      /\ ledger' = Record({FailedKey(i) : i \in Failures}, "failed")
      /\ UNCHANGED <<workflowVars, initial, published, handoffs, notice, faults>>
  BY DEF RecordFailures
<1>2. /\ PlanFits' /\ NobodyIsQueued' /\ TurnsFollowPlan'
      /\ Results' = Results /\ Failures' = Failures /\ PlannedKeys' = PlannedKeys
      /\ plan' = plan /\ status' = status
      /\ \A k \in Keys : IsResult(k)' = IsResult(k) /\ IsFailure(k)' = IsFailure(k)
  BY <1>s, GivenStays
<1>3. ledger' \in [Keys -> RowStates]
      /\ \A k \in Keys : ledger'[k] = IF k \in {FailedKey(i) : i \in Failures}
                                      THEN "failed" ELSE ledger[k]
  BY <1>0, <1>s, Recorded DEF RowStates
<1>4. Told("running") /\ Failures # {}  BY <1>0, <1>s DEF LedgerFits, ApiFits
<1>5. plan.locked => Told("failed")'
  <2> SUFFICES ASSUME plan.locked, NEW k \in Keys
               PROVE  ledger'[k] = IF IsResult(k) THEN "completed"
                                   ELSE IF IsFailure(k) THEN "failed" ELSE "none"
    BY <1>2 DEF Told
  <2>1. k \in {FailedKey(i) : i \in Failures} <=> IsFailure(k)
    <3>1. \A i \in Failures : FailedKey(i) = KeyOf(i)
      BY <1>0, MentionsKeepTheirKeys, Halves
    <3> QED  BY <3>1 DEF IsFailure
  <2>2. ~(IsResult(k) /\ IsFailure(k))  BY <1>0, Halves
  <2> QED  BY <2>1, <2>2, <1>3, <1>4 DEF Told
<1>6. ApiFits'  BY <1>0, <1>s, <1>2 DEF ApiFits, ApiStates
<1>7. LedgerFits'
  BY <1>0, <1>s, <1>2, <1>3, <1>4, <1>5 DEF LedgerFits
<1> QED  BY <1>2, <1>6, <1>7 DEF GroupInv

LEMMA CatchRecordsKeepsInv == ASSUME GroupInv, CatchRecords PROVE GroupInv'
<1>0. PlanFits /\ NobodyIsQueued /\ TurnsFollowPlan /\ ApiFits /\ LedgerFits
  BY DEF GroupInv
<1>s. /\ api = "catching" /\ api' = "telling" /\ ledger' = Record(PlannedKeys, "failed")
      /\ UNCHANGED <<workflowVars, initial, published, handoffs, notice, faults>>
  BY DEF CatchRecords
<1>2. /\ PlanFits' /\ NobodyIsQueued' /\ TurnsFollowPlan'
      /\ Results' = Results /\ Failures' = Failures /\ PlannedKeys' = PlannedKeys
      /\ plan' = plan /\ status' = status
      /\ \A k \in Keys : IsResult(k)' = IsResult(k) /\ IsFailure(k)' = IsFailure(k)
  BY <1>s, GivenStays
<1>3. ledger' \in [Keys -> RowStates]
      /\ \A k \in Keys : ledger'[k] = IF k \in PlannedKeys THEN "failed" ELSE ledger[k]
  BY <1>0, <1>s, Recorded DEF RowStates
<1>4. \A k \in Keys : ledger'[k] \in {"none", "failed"}
  BY <1>0, <1>3 DEF LedgerFits, RowStates
<1>5. ApiFits'  BY <1>0, <1>s, <1>2 DEF ApiFits, ApiStates
<1>6. LedgerFits'
  BY <1>s, <1>3, <1>4 DEF LedgerFits
<1> QED  BY <1>2, <1>5, <1>6 DEF GroupInv

LEMMA GroupStep == ASSUME GroupInv, Next PROVE GroupInv'
BY WorkflowKeepsInv, QuietStepKeepsInv, RecordStartedKeepsInv, RecordGroupKeepsInv,
   RecordFailuresKeepsInv, CatchRecordsKeepsInv
DEF Next, Progress, QuietStep

LEMMA GroupInit == ASSUME Init PROVE GroupInv
<1> USE DEF Init, Orchestrator!Init
<1>1. PlanFits  BY DEF PlanFits
<1>2. NobodyIsQueued  BY DEF NobodyIsQueued
<1>3. TurnsFollowPlan
  <2>1. Orchestrator!Total(plan) \in Nat  BY <1>1, PlanFacts
  <2> QED  BY <2>1 DEF TurnsFollowPlan, Orchestrator!Statuses
<1>4. ApiFits
  <2>1. Cardinality(Results) \in Nat  BY <1>1, <1>3, KeyFacts
  <2>2. published \in 0..Cardinality(Results)  BY <2>1
  <2>3. faults \in Nat /\ handoffs \in SUBSET Agents /\ api \in ApiStates  BY DEF ApiStates
  <2> QED  BY <2>2, <2>3 DEF ApiFits
<1>5. LedgerFits  BY DEF LedgerFits, RowStates
<1> QED  BY <1>1, <1>2, <1>3, <1>4, <1>5 DEF GroupInv

LEMMA GroupInvIsEnough == ASSUME GroupInv PROVE LedgerIsTrue
<1>0. PlanFits /\ NobodyIsQueued /\ TurnsFollowPlan /\ ApiFits /\ LedgerFits
  BY DEF GroupInv
<1>1. TypeOK
  <2>1. Orchestrator!SeqRange(plan.order) \subseteq Agents  BY <1>0, PlanFacts, OrderFacts
  <2>2. Orchestrator!TypeOK
    BY <1>0, <2>1 DEF Orchestrator!TypeOK, PlanFits, NobodyIsQueued, TurnsFollowPlan
  <2> QED  BY <1>0, <2>2 DEF TypeOK, PlanFits, ApiFits, LedgerFits
<1>2. CompletedMeansVisible
  <2> SUFFICES ASSUME NEW i \in DOMAIN turns, ledger[KeyOf(i)] = "completed"
               PROVE  turns[i].ok /\ Cardinality({j \in Results : j <= i}) <= published
    BY DEF CompletedMeansVisible
  <2>1. KeyOf(i) \in Keys  BY <1>0, KeyFacts
  <2>2. published = Cardinality(Results) /\ IsResult(KeyOf(i))  BY <1>0, <2>1 DEF LedgerFits
  <2>3. i \in Results  BY <1>0, <2>2, KeyFacts, Halves DEF IsResult
  <2>4. Cardinality({j \in Results : j <= i}) <= Cardinality(Results)
    <3>1. IsFiniteSet(Results) /\ {j \in Results : j <= i} \subseteq Results
      BY <1>0, KeyFacts
    <3> QED  BY <3>1, FS_Subset
  <2> QED  BY <2>2, <2>3, <2>4 DEF Results, Orchestrator!Succeeded
<1>3. FailedDispatchIsClosed  BY <1>0 DEF FailedDispatchIsClosed, LedgerFits
<1>4. AnsweredIsRecorded
  <2> SUFFICES ASSUME api = "answered", plan.locked \/ Failures = {}
               PROVE  ledger = [k \in Keys |-> IF \E i \in Results : k = KeyOf(i) THEN "completed"
                                               ELSE IF \E i \in Failures : k = KeyOf(i)
                                                    THEN "failed" ELSE "none"]
    BY DEF AnsweredIsRecorded
  <2>1. Told("failed") /\ ledger \in [Keys -> RowStates]  BY <1>0 DEF LedgerFits
  <2> QED  BY <2>1 DEF Told, IsResult, IsFailure
<1>5. AnswerIsComplete  BY <1>0 DEF AnswerIsComplete, ApiFits
<1>6. OnlyMentionsLeaveHandoffs  BY <1>0 DEF OnlyMentionsLeaveHandoffs, ApiFits
<1> QED  BY <1>1, <1>2, <1>3, <1>4, <1>5, <1>6 DEF LedgerIsTrue

-----------------------------------------------------------------------------
(***************************************************************************)
(* Both together.                                                          *)
(***************************************************************************)
LEMMA InvInit == ASSUME DirectConstants, DispatchInit PROVE Inv
BY DirectInit, GroupInit DEF DispatchInit, Inv

LEMMA InvStep == ASSUME DirectConstants, Inv, [DispatchNext]_allVars PROVE Inv'
<1>1. CASE kind = "group" /\ Next /\ UNCHANGED <<kind, directVars>>
  BY <1>1, GroupStep DEF Inv
<1>2. CASE kind = "direct" /\ Direct!Next /\ UNCHANGED <<kind, vars>>
  BY <1>2, DirectStep DEF Inv
<1>3. CASE UNCHANGED allVars
  <2>1. kind' = kind /\ UNCHANGED <<vars, directVars>>  BY <1>3 DEF allVars
  <2>2. DirectInv => DirectInv'
    BY <2>1, SMTT(60)
    DEF directVars, DirectInv, Direct!TypeOK, Newcomers, Replied, Closed, Excused, OneChange,
        Direct!Entry, Direct!ModeOf
  <2>3. GroupInv => GroupInv'
    <3>1. GroupInv => PlanFits' /\ NobodyIsQueued' /\ TurnsFollowPlan'
                      /\ Results' = Results /\ Failures' = Failures /\ PlannedKeys' = PlannedKeys
                      /\ plan' = plan /\ status' = status
                      /\ \A k \in Keys : IsResult(k)' = IsResult(k) /\ IsFailure(k)' = IsFailure(k)
      BY <2>1, GivenStays DEF vars, apiVars
    <3>2. UNCHANGED <<api, published, ledger, handoffs, notice, faults>>
      BY <2>1 DEF vars, apiVars
    <3>3. GroupInv => ApiFits'  BY <3>1, <3>2 DEF GroupInv, ApiFits
    <3>4. GroupInv => Told("running")' = Told("running") /\ Told("failed")' = Told("failed")
      BY <3>1, <3>2 DEF Told
    <3>5. GroupInv => LedgerFits'
      BY <3>1, <3>2, <3>4 DEF GroupInv, LedgerFits
    <3> QED  BY <3>1, <3>3, <3>5 DEF GroupInv
  <2> QED  BY <2>1, <2>2, <2>3 DEF Inv
<1> QED  BY <1>1, <1>2, <1>3 DEF DispatchNext

\* The ledger of turns tells what people see in the conversation, in every dispatch to one
\* teammate or to a group, whoever joins, leaves or dies and whatever throws.
\* (recordDirectExecution, recordGroupExecution, recordAgentRunFailureCheckpoint)
THEOREM LedgerStaysTrue == DispatchSpec => []TurnLedgerIsTrue
<1>1. Inv => TurnLedgerIsTrue
  BY DirectInvIsEnough, GroupInvIsEnough DEF Inv, TurnLedgerIsTrue, DispatchInit
<1> QED  BY <1>1, InvInit, InvStep, DirectConstants, PTL DEF DispatchSpec

\* The conversation is a group exactly as long as it has several teammates, if the changes of its
\* members do not overlap.  (addTeammate, removeMember, syncConversationModeToAiCount)
THEOREM ModeStaysTrue == DispatchSpec => []ModeMatchesMembers
<1>1. Inv => ModeMatchesMembers
  BY DirectInvIsEnough DEF Inv, ModeMatchesMembers
<1> QED  BY <1>1, InvInit, InvStep, DirectConstants, PTL DEF DispatchSpec
=============================================================================
