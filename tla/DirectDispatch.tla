--------------------------- MODULE DirectDispatch ---------------------------
(***************************************************************************)
(* Questions in one conversation and the replies of a single teammate      *)
(* (message-dispatch.service, send and dispatchDirectAssistantReply), with *)
(* the ledger of turns (multi-agent-harness.service), while teammates are  *)
(* added and removed and the conversation may be deleted.                  *)
(*                                                                         *)
(* Teammates are numbered in the order they are created; the first member  *)
(* answers a direct conversation.  A dispatch runs detached from the       *)
(* request: every await of it is a step, and what fails inside the try     *)
(* goes on in the catch.                                                   *)
(***************************************************************************)
EXTENDS Integers, FiniteSetsExt

CONSTANTS Questions,   \* the messages people may send
          MaxAgents,   \* bound: teammates that are ever created
          MaxRemovals, \* bound: teammates that are removed
          MaxFaults    \* bound: failures of a service, and deaths of the API process

DirectAssumption == MaxAgents \in Nat \ {0} /\ MaxRemovals \in Nat /\ MaxFaults \in Nat

VARIABLES exists, members, mode,          \* the conversation
          messages, linked, turns,        \* questions, replies and notices; the causal chain; the ledger
          dispatch, target,               \* where the dispatch of a question is, and who answers
          adding, syncing,                \* changes of the members under way
          overlapped,                     \* history: two changes of the members overlapped, or one died
          unlogged, untold,               \* history: questions whose failure was not written down, not shown
          created, removals, faults       \* the bounds

conversation == <<exists, members, mode>>
record == <<messages, linked, turns>>
changes == <<adding, syncing, overlapped>>
bounds == <<created, removals>>
vars == <<conversation, record, dispatch, target, changes, unlogged, untold, bounds, faults>>

Teammates == 1..MaxAgents
Steps == {"context", "start", "execute", "reply", "record", "publish", "failing", "notice"}
Ends == {"answered", "failed", "handed over", "refused", "dead"}
TurnStates == {"none", "running", "completed", "failed"}
Entry(kind, q) == [kind |-> kind, of |-> q]

ModeOf(S) == IF Cardinality(S) > 1 THEN "group" ELSE "direct"
Changing == syncing \/ \E a \in Teammates : adding[a].step # "idle"
Idle == [step |-> "idle", seen |-> "direct", next |-> "direct"]

Init ==
  /\ exists = TRUE /\ members = {1} /\ mode = "direct"
  /\ messages = {} /\ linked = {} /\ turns = [q \in Questions |-> "none"]
  /\ dispatch = [q \in Questions |-> "idle"] /\ target = [q \in Questions |-> 1]
  /\ adding = [a \in Teammates |-> Idle] /\ syncing = FALSE /\ overlapped = FALSE
  /\ unlogged = {} /\ untold = {}
  /\ created = 1 /\ removals = MaxRemovals /\ faults = MaxFaults

(* ------------------------ members and their mode ------------------------ *)

\* addTeammate reads the conversation, then creates the teammate: one transaction up to AddCommits.
AddBegins ==
  /\ exists /\ created < MaxAgents
  /\ created' = created + 1
  /\ adding' = [adding EXCEPT ![created + 1] = [step |-> "begun", seen |-> mode, next |-> mode]]
  /\ overlapped' = (overlapped \/ Changing)
  /\ UNCHANGED <<conversation, record, dispatch, target, syncing, unlogged, untold, removals, faults>>

\* Mutant: the members are counted before the new one is inserted.
AddInserts_CountsBefore(a) ==
  /\ exists /\ adding[a].step = "begun"
  /\ adding' = [adding EXCEPT ![a].step = "inserted", ![a].next = ModeOf(members)]
  /\ UNCHANGED <<conversation, record, dispatch, target, syncing, overlapped, unlogged, untold, bounds, faults>>

\* The transaction sees its own member and those that are committed.
AddInserts(a) ==
  /\ exists /\ adding[a].step = "begun"
  /\ adding' = [adding EXCEPT ![a].step = "inserted", ![a].next = ModeOf(members \cup {a})]
  /\ UNCHANGED <<conversation, record, dispatch, target, syncing, overlapped, unlogged, untold, bounds, faults>>

\* The mode is written only if it differs from the one that was read first.
AddCommits(a) ==
  /\ adding[a].step = "inserted"
  /\ members' = members \cup {a}
  /\ mode' = IF adding[a].seen = adding[a].next THEN mode ELSE adding[a].next
  /\ adding' = [adding EXCEPT ![a] = Idle]
  /\ UNCHANGED <<exists, record, dispatch, target, syncing, overlapped, unlogged, untold, bounds, faults>>

\* The conversation is gone when the teammate is inserted.
AddFails(a) ==
  /\ ~exists /\ adding[a].step = "begun"
  /\ adding' = [adding EXCEPT ![a] = Idle]
  /\ UNCHANGED <<conversation, record, dispatch, target, syncing, overlapped, unlogged, untold, bounds, faults>>

\* removeMember of a teammate: the row is deleted, and the mode is set by a statement of its own.
RemoveAiMember(a) ==
  /\ a \in members /\ ~syncing /\ removals > 0
  /\ members' = members \ {a}
  /\ syncing' = TRUE /\ removals' = removals - 1
  /\ overlapped' = (overlapped \/ Changing)
  /\ UNCHANGED <<exists, mode, record, dispatch, target, adding, unlogged, untold, created, faults>>

SyncMode ==
  /\ syncing /\ syncing' = FALSE
  /\ mode' = IF exists THEN ModeOf(members) ELSE mode
  /\ UNCHANGED <<exists, members, record, dispatch, target, adding, overlapped, unlogged, untold, bounds, faults>>

\* Everything of the conversation goes with it; a teammate that is being inserted holds the row.
DeleteConversation ==
  /\ exists /\ \A a \in Teammates : adding[a].step # "inserted"
  /\ exists' = FALSE /\ members' = {} /\ messages' = {} /\ linked' = {}
  /\ turns' = [q \in Questions |-> "none"]
  /\ UNCHANGED <<mode, dispatch, target, changes, unlogged, untold, bounds, faults>>

(* ------------------------ a question and its reply ------------------------ *)

\* Only the dispatch of q moves; what else a step changes stands next to it.
Moves(q, from, to) == dispatch[q] = from /\ dispatch' = [dispatch EXCEPT ![q] = to]
Kept == UNCHANGED <<conversation, changes, bounds>>

\* The message is stored before anything else looks at it.
Send(q) ==
  /\ exists /\ Moves(q, "idle", "resolving")
  /\ messages' = messages \cup {Entry("question", q)}
  /\ Kept /\ UNCHANGED <<linked, turns, target, unlogged, untold, faults>>

\* Whether the conversation is direct and who answers is read after the message is stored.
ResolveConversation(q) ==
  /\ IF exists /\ members # {} /\ mode = "direct"
     THEN Moves(q, "resolving", "context") /\ target' = [target EXCEPT ![q] = Min(members)]
     ELSE /\ Moves(q, "resolving", IF exists /\ members # {} THEN "handed over" ELSE "refused")
          /\ UNCHANGED target
  /\ Kept /\ UNCHANGED <<record, unlogged, untold, faults>>

\* Mutant: the context is loaded outside the try, and its error ends the dispatch.
LoadContext_Unguarded(q) ==
  /\ Moves(q, "context", "start") \/ Moves(q, "context", "failed")
  /\ Kept /\ UNCHANGED <<record, target, unlogged, untold, faults>>

LoadContext(q) ==
  Moves(q, "context", "start") /\ Kept /\ UNCHANGED <<record, target, unlogged, untold, faults>>

IsParticipant(q) == exists /\ target[q] \in members

\* A teammate that is no member any more gets no turn, and is asked all the same.
StartTurn(q) ==
  /\ Moves(q, "start", "execute")
  /\ turns' = [turns EXCEPT ![q] = IF IsParticipant(q) THEN "running" ELSE @]
  /\ Kept /\ UNCHANGED <<messages, linked, target, unlogged, untold, faults>>

Execute(q) ==
  /\ Moves(q, "execute", "reply") \/ Moves(q, "execute", "failing")
  /\ Kept /\ UNCHANGED <<record, target, unlogged, untold, faults>>

\* The reply needs its conversation; its artifacts are stored next, and their errors kept apart.
StoreReply(q) ==
  /\ IF exists
     THEN Moves(q, "reply", "record") /\ messages' = messages \cup {Entry("reply", q)}
     ELSE Moves(q, "reply", "failing") /\ UNCHANGED messages
  /\ Kept /\ UNCHANGED <<linked, turns, target, unlogged, untold, faults>>

\* Mutant: the turn is left as it was started.
RecordDirectExecution_LeavesTurn(q) ==
  /\ IF exists
     THEN Moves(q, "record", "publish") /\ linked' = linked \cup {q}
     ELSE Moves(q, "record", "failing") /\ UNCHANGED linked
  /\ Kept /\ UNCHANGED <<messages, turns, target, unlogged, untold, faults>>

\* The reply is linked to the question; the turn is closed only for a member.
RecordDirectExecution(q) ==
  /\ IF exists
     THEN /\ Moves(q, "record", "publish")
          /\ linked' = linked \cup {q}
          /\ turns' = [turns EXCEPT ![q] = IF IsParticipant(q) THEN "completed" ELSE @]
     ELSE Moves(q, "record", "failing") /\ UNCHANGED <<linked, turns>>
  /\ Kept /\ UNCHANGED <<messages, target, unlogged, untold, faults>>

Publish(q) ==
  Moves(q, "publish", "answered") /\ Kept /\ UNCHANGED <<record, target, unlogged, untold, faults>>

\* Any await of the try may throw: a database or the workflow service is down, an event is malformed.
StepFails(q) ==
  /\ faults > 0 /\ faults' = faults - 1
  /\ \E s \in {"context", "start", "reply", "record", "publish"} : Moves(q, s, "failing")
  /\ Kept /\ UNCHANGED <<record, target, unlogged, untold>>

\* recordAgentRunFailureCheckpoint: the turn fails, even one that was completed.
RecordFailure(q) ==
  /\ Moves(q, "failing", "notice")
  /\ turns' = [turns EXCEPT ![q] = IF IsParticipant(q) THEN "failed" ELSE @]
  /\ Kept /\ UNCHANGED <<messages, linked, target, unlogged, untold, faults>>

\* Its own error is logged and swallowed.
FailureUnlogged(q) ==
  /\ faults > 0 /\ faults' = faults - 1
  /\ Moves(q, "failing", "notice") /\ unlogged' = unlogged \cup {q}
  /\ Kept /\ UNCHANGED <<record, target, untold>>

\* createVisibleDispatchFailureMessage.
ShowFailure(q) ==
  /\ Moves(q, "notice", "failed")
  /\ messages' = IF exists THEN messages \cup {Entry("notice", q)} ELSE messages
  /\ Kept /\ UNCHANGED <<linked, turns, target, unlogged, untold, faults>>

FailureUntold(q) ==
  /\ faults > 0 /\ faults' = faults - 1
  /\ Moves(q, "notice", "failed") /\ untold' = untold \cup {q}
  /\ Kept /\ UNCHANGED <<record, target, unlogged>>

\* The process dies: dispatches and requests are gone, what was committed stays.
ApiDies ==
  /\ faults > 0 /\ faults' = faults - 1
  /\ dispatch' = [q \in Questions |-> IF dispatch[q] \in Steps \cup {"resolving"} THEN "dead" ELSE dispatch[q]]
  /\ adding' = [a \in Teammates |-> Idle] /\ syncing' = FALSE
  /\ overlapped' = (overlapped \/ syncing)
  /\ UNCHANGED <<conversation, record, target, unlogged, untold, bounds>>

Advance(q) ==
  \/ ResolveConversation(q) \/ LoadContext(q) \/ StartTurn(q) \/ Execute(q) \/ StoreReply(q)
  \/ RecordDirectExecution(q) \/ Publish(q) \/ RecordFailure(q) \/ ShowFailure(q)

Next ==
  \/ AddBegins \/ SyncMode \/ DeleteConversation \/ ApiDies
  \/ \E a \in Teammates : AddInserts(a) \/ AddCommits(a) \/ AddFails(a) \/ RemoveAiMember(a)
  \/ \E q \in Questions : Send(q) \/ Advance(q) \/ StepFails(q) \/ FailureUnlogged(q) \/ FailureUntold(q)

Spec == Init /\ [][Next]_vars

\* A dispatch goes on as long as its process lives: the workflow answers or times out.
FairSpec == Spec /\ \A q \in Questions : WF_vars(Advance(q))

(* ------------------------------ properties ------------------------------ *)

\* The shape of the state; a question is in the conversation from the first step of its dispatch.
TypeOK ==
  /\ exists \in BOOLEAN /\ members \subseteq 1..created /\ mode \in {"direct", "group"}
  /\ messages \subseteq [kind : {"question", "reply", "notice"}, of : Questions]
  /\ linked \subseteq Questions /\ turns \in [Questions -> TurnStates]
  /\ dispatch \in [Questions -> {"idle", "resolving"} \cup Steps \cup Ends]
  /\ target \in [Questions -> Teammates]
  /\ adding \in [Teammates -> [step : {"idle", "begun", "inserted"}, seen : {"direct", "group"}, next : {"direct", "group"}]]
  /\ syncing \in BOOLEAN /\ overlapped \in BOOLEAN
  /\ unlogged \subseteq Questions /\ untold \subseteq Questions
  /\ created \in Teammates /\ removals \in 0..MaxRemovals /\ faults \in 0..MaxFaults
  /\ exists => \A q \in Questions : dispatch[q] # "idle" => Entry("question", q) \in messages

\* A conversation is a group exactly if it has several teammates, unless two changes of its members
\* overlapped or the API died between the removal and syncConversationModeToAiCount: addTeammate
\* and removeMember take no common lock.
ModeMatchesMembers == exists /\ ~Changing /\ ~overlapped => mode = ModeOf(members)

\* A completed turn has its reply in the conversation, linked to the question it answers.
CompletedMeansVisible ==
  \A q \in Questions : turns[q] = "completed" => Entry("reply", q) \in messages /\ q \in linked

\* When a dispatch is over its turn is not running, unless the teammate was removed meanwhile
\* (recordDirectExecution and recordAgentRunCheckpoints skip who is no participant) or the failure
\* could not be written.
EndedTurnsAreClosed ==
  \A q \in Questions :
    dispatch[q] \in {"answered", "failed"} /\ turns[q] = "running" => target[q] \notin members \/ q \in unlogged

\* A turn that failed is followed by a notice in the conversation, unless the notice failed or the
\* process died.
FailedTurnsAreTold ==
  \A q \in Questions :
    turns[q] = "failed" => \/ Entry("notice", q) \in messages
                           \/ dispatch[q] \in {"notice", "dead"} \/ q \in untold

\* A notice of failure never stands next to a completed turn, though the dispatch may fail after
\* the turn was completed, unless the teammate was removed or the failure could not be written.
ToldTurnsAreNotCompleted ==
  \A q \in Questions :
    Entry("notice", q) \in messages /\ turns[q] = "completed" => target[q] \notin members \/ q \in unlogged

\* The ledger and the reader agree on what failed.
FailuresAreTold == FailedTurnsAreTold /\ ToldTurnsAreNotCompleted

\* A dispatch that outlives its conversation leaves nothing behind.
DeletedStaysEmpty ==
  ~exists => messages = {} /\ linked = {} /\ \A q \in Questions : turns[q] = "none"

\* The ledger tells what happened in the conversation, and is gone with it.
LedgerIsTrue == TypeOK /\ CompletedMeansVisible /\ EndedTurnsAreClosed /\ DeletedStaysEmpty

Told(q) ==
  Entry("reply", q) \in messages \/ Entry("notice", q) \in messages
    \/ ~exists \/ dispatch[q] = "dead" \/ q \in untold

\* Every question a teammate was chosen for gets a reply or a notice, unless the conversation is
\* deleted, the process dies or the notice fails.
QuestionsSettle ==
  \A q \in Questions :
    dispatch[q] = "context" ~> Told(q)

=============================================================================
