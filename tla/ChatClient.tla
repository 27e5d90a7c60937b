----------------------------- MODULE ChatClient -----------------------------
(***************************************************************************)
(* The home page of the web client (chat-experience.tsx) in one window,    *)
(* together with the part of the server it talks to: messages are sent and *)
(* answered, the event stream of the selected conversation is heard or     *)
(* missed, the thread is fetched again and again, and the reader switches  *)
(* conversations while answers are on their way.                           *)
(*                                                                         *)
(* A message is its position in `store`, the order of creation.  A fetch   *)
(* is three steps: asked, read by the server, answered; fetches overtake   *)
(* each other.  An event is published straight to the window or lost: what *)
(* a slow wire would add is that Publish happens later, which it may.      *)
(***************************************************************************)
EXTENDS Integers, SequencesExt, FiniteSetsExt

CONSTANTS Conversations,  \* the conversations in the list
          None,           \* no value
          Earlier,        \* the messages that were stored before the window was opened
          MaxSends,       \* bound: messages that are stored while it is open
          MaxLoads,       \* bound: fetches of messages under way at a time
          Refreshes,      \* refreshes one schedule sets up (seven in the code)
          MaxSwitches,    \* bound: times another conversation is selected
          MaxPins,        \* bound: times a pin is set or taken off
          MaxFaults       \* bound: calls or events that get lost

VARIABLES store, pins, running, unpublished,              \* the server
          selected, messages, live, loads, timers,        \* the window
          stream, sending, pinning,
          settled,    \* history: a fetch of the selection was applied since it was made
          strayed,    \* history: the selection took over or received something of another conversation
          overtaken,  \* history: an answer older than the last change of a pin was applied
          switches, toggles, faults  \* what is left of the bounds

server == <<store, pins, running, unpublished>>
history == <<settled, strayed, overtaken>>
bounds == <<switches, toggles, faults>>
vars == <<server, selected, messages, live, loads, timers, stream, sending, pinning, history, bounds>>

Positions == 1..Len(Earlier) + 2 * MaxSends
Message == [conversationId : Conversations, role : {"user", "assistant"}]
Lives == {None} \cup [kind : {"pending", "started", "completed"}, of : Positions]

ASSUME ChatConstants ==
  /\ Earlier \in Seq(Message)
  /\ MaxSends \in Nat /\ MaxLoads \in Nat /\ MaxSwitches \in Nat /\ MaxPins \in Nat /\ MaxFaults \in Nat
  /\ Refreshes \in Nat \ {0}
  /\ None \notin Positions \cup [conversationId : Conversations, left : 1..Refreshes]
                  \cup [kind : {"pending", "started", "completed"}, of : Positions]
                  \cup [id : Positions, pin : BOOLEAN, stored : BOOLEAN]

Fetches == [conversationId : Conversations, read : BOOLEAN, seen : SUBSET Positions, pinned : SUBSET Positions]

OfConversation(c) == {i \in 1..Len(store) : store[i].conversationId = c}
Shown == {messages[k].id : k \in 1..Len(messages)}
Asking == {i \in 1..Len(store) : store[i].role = "user"}

\* SetToSortSeq of the community modules, for numbers, without its enumeration of functions.
InOrder(ids) == [k \in 1..Cardinality(ids) |-> CHOOSE i \in ids : Cardinality({j \in ids : j <= i}) = k]

Init ==
  /\ store = Earlier /\ pins = {} /\ running = {} /\ unpublished = {}
  /\ selected \in Conversations
  /\ messages = LET order == InOrder(OfConversation(selected))
                IN  [k \in 1..Len(order) |-> [id |-> order[k], pinned |-> FALSE]]
  /\ live = None /\ loads = <<>> /\ timers = None
  /\ stream = [open |-> FALSE, heard |-> <<>>]
  /\ sending = None /\ pinning = None
  /\ settled = TRUE /\ strayed = FALSE /\ overtaken = FALSE
  /\ switches = MaxSwitches /\ toggles = MaxPins /\ faults = MaxFaults

(* ---------------------------- the server ---------------------------- *)

\* messages.service createStored, and the dispatch it starts.
StoreMessage ==
  /\ sending # None /\ sending.stored = None
  /\ store' = Append(store, [conversationId |-> sending.conversationId, role |-> "user"])
  /\ sending' = [sending EXCEPT !.stored = Len(store) + 1]
  /\ running' = running \cup {Len(store) + 1}
  /\ UNCHANGED <<pins, unpublished, selected, messages, live, loads, timers, stream, pinning, history, bounds>>

\* The reply of the teammate, or the notice that the dispatch failed, is stored before it is announced.
StoreReply(u) ==
  /\ store' = Append(store, [conversationId |-> store[u].conversationId, role |-> "assistant"])
  /\ running' = running \ {u}
  /\ unpublished' = unpublished \cup {Len(store) + 1}
  /\ UNCHANGED <<pins, selected, messages, live, loads, timers, stream, sending, pinning, history, bounds>>

PinStored ==
  /\ pinning # None /\ ~pinning.stored
  /\ pins' = IF pinning.pin THEN pins \cup {pinning.id} ELSE pins \ {pinning.id}
  /\ pinning' = [pinning EXCEPT !.stored = TRUE]
  /\ UNCHANGED <<store, running, unpublished, selected, messages, live, loads, timers, stream, sending, history, bounds>>

ReadMessages ==
  \E n \in 1..Len(loads) :
    /\ ~loads[n].read
    /\ LET seen == OfConversation(loads[n].conversationId)
       IN loads' = [loads EXCEPT ![n].read = TRUE, ![n].seen = seen, ![n].pinned = pins \cap seen]
    /\ UNCHANGED <<server, selected, messages, live, timers, stream, sending, pinning, history, bounds>>

(* ---------------------------- the window ---------------------------- *)

Asked(c) == [conversationId |-> c, read |-> FALSE, seen |-> {}, pinned |-> {}]
HasRoom(n) == Len(loads) + n <= MaxLoads

\* schedulePostSendRefresh: the refreshes that were planned before are dropped.
Schedule(c) == [conversationId |-> c, left |-> Refreshes]

\* Mutant: a fetch adds to the thread whatever conversation the thread was of.
MergeMessages_KeepsAll(current, f) ==
  LET kept == {k \in 1..Len(current) : current[k].id \notin f.seen}
      ids == f.seen \cup {current[k].id : k \in kept}
      Entry(i) == IF i \in f.seen THEN [id |-> i, pinned |-> i \in f.pinned]
                                  ELSE current[Max({k \in kept : current[k].id = i})]
      order == InOrder(ids)
  IN [k \in 1..Len(order) |-> Entry(order[k])]

\* Mutant: the thread becomes what the server answered.
MergeMessages_Replaces(current, f) ==
  LET order == InOrder(f.seen)
  IN [k \in 1..Len(order) |-> [id |-> order[k], pinned |-> order[k] \in f.pinned]]

\* Mutant: what the thread has already is not overwritten.
MergeMessages_KeepsOld(current, f) ==
  LET kept == {k \in 1..Len(current) : store[current[k].id].conversationId = f.conversationId}
      ids == f.seen \cup {current[k].id : k \in kept}
      Entry(i) == IF \E k \in kept : current[k].id = i
                  THEN current[Max({k \in kept : current[k].id = i})]
                  ELSE [id |-> i, pinned |-> i \in f.pinned]
      order == InOrder(ids)
  IN [k \in 1..Len(order) |-> Entry(order[k])]

\* What is shown of the fetched conversation stays, what was fetched overwrites it, in order of creation.
MergeMessages(current, f) ==
  LET kept == {k \in 1..Len(current) : store[current[k].id].conversationId = f.conversationId}
      ids == f.seen \cup {current[k].id : k \in kept}
      Entry(i) == IF i \in f.seen THEN [id |-> i, pinned |-> i \in f.pinned]
                                  ELSE current[Max({k \in kept : current[k].id = i})]
      order == InOrder(ids)
  IN [k \in 1..Len(order) |-> Entry(order[k])]

\* Mutant: a placeholder waits for a message with its own id.
ShouldClearLive_OnlyById(l, f) == l # None /\ l.of \in f.seen /\ l.kind # "pending"

\* A streamed reply gives way to its stored copy, a placeholder to any reply after its message.
ShouldClearLive(l, f) ==
  /\ l # None
  /\ l.of \in f.seen
  /\ l.kind = "pending" => \E i \in f.seen : i > l.of /\ store[i].role = "assistant"

MessagesArrive ==
  \E n \in 1..Len(loads) :
    /\ loads[n].read
    /\ loads' = RemoveAt(loads, n)
    /\ messages' = MergeMessages(messages, loads[n])
    /\ live' = IF ShouldClearLive(live, loads[n]) THEN None ELSE live
    /\ settled' = (settled \/ loads[n].conversationId = selected)
    /\ strayed' = (strayed \/ loads[n].conversationId # selected)
    /\ overtaken' = (overtaken \/ loads[n].pinned # pins \cap loads[n].seen)
    /\ UNCHANGED <<server, selected, timers, stream, sending, pinning, bounds>>

\* The next of the planned refreshes; the time that passes before it is any.
RefreshDue ==
  /\ timers # None /\ HasRoom(1)
  /\ loads' = Append(loads, Asked(timers.conversationId))
  /\ timers' = IF timers.left = 1 THEN None ELSE [timers EXCEPT !.left = @ - 1]
  /\ UNCHANGED <<server, selected, messages, live, stream, sending, pinning, history, bounds>>

StreamOpens ==
  /\ ~stream.open
  /\ stream' = [stream EXCEPT !.open = TRUE]
  /\ UNCHANGED <<server, selected, messages, live, loads, timers, sending, pinning, history, bounds>>

\* The browser reconnects by itself; what it heard before stays in the list of events.
StreamBreaks ==
  /\ stream.open /\ faults > 0
  /\ stream' = [stream EXCEPT !.open = FALSE]
  /\ faults' = faults - 1
  /\ UNCHANGED <<server, selected, messages, live, loads, timers, sending, pinning, history, switches, toggles>>

\* The events of a reply reach the window that listens to its conversation; nothing is kept for the others.
Announce(r) ==
  /\ unpublished' = unpublished \ {r}
  /\ IF stream.open /\ store[r].conversationId = selected
     THEN /\ HasRoom(1)
          /\ live' = [kind |-> "completed", of |-> r]
          /\ loads' = Append(loads, Asked(selected))
          /\ timers' = Schedule(selected)
          /\ stream' = [stream EXCEPT !.heard = Append(@, [kind |-> "completed", of |-> r])]
     ELSE UNCHANGED <<live, loads, timers, stream>>
  /\ UNCHANGED <<store, pins, running, selected, messages, sending, pinning, history, bounds>>

\* The stream breaks after the first events of a reply.
AnnounceCut(r) ==
  /\ stream.open /\ store[r].conversationId = selected /\ faults > 0
  /\ unpublished' = unpublished \ {r}
  /\ live' = [kind |-> "started", of |-> r]
  /\ stream' = [open |-> FALSE, heard |-> Append(stream.heard, [kind |-> "started", of |-> r])]
  /\ faults' = faults - 1
  /\ UNCHANGED <<store, pins, running, selected, messages, loads, timers, sending, pinning, history, switches, toggles>>

\* The effects of one commit run in order: the timers are cleared, the thread is
\* fetched, and the events of the stream that is being left are handled once more,
\* as if the newly selected conversation had sent them.  The thread stays on screen.
SelectConversation(c) ==
  LET completed == {k \in 1..Len(stream.heard) : stream.heard[k].kind = "completed"}
      asked == Cardinality(completed) + 1
  IN /\ c # selected /\ switches > 0 /\ HasRoom(asked)
     /\ selected' = c
     /\ loads' = loads \o [k \in 1..asked |-> Asked(c)]
     /\ live' = IF stream.heard = <<>> THEN live ELSE Last(stream.heard)
     /\ timers' = IF completed = {} THEN None ELSE Schedule(c)
     /\ stream' = [open |-> FALSE, heard |-> <<>>]
     /\ settled' = FALSE /\ strayed' = (live' # None) /\ switches' = switches - 1
     /\ UNCHANGED <<server, messages, sending, pinning, overtaken, toggles, faults>>

\* The composer is closed while a message is under way or the stream is connecting.
Send ==
  /\ sending = None /\ stream.open /\ Len(store) + Cardinality(running) < Len(Earlier) + 2 * MaxSends
  /\ sending' = [conversationId |-> selected, stored |-> None]
  /\ UNCHANGED <<server, selected, messages, live, loads, timers, stream, pinning, history, bounds>>

\* The answer is appended to whatever thread is shown, and the refreshes become those of its conversation.
SendAnswered ==
  /\ sending # None /\ sending.stored # None
  /\ messages' = Append(messages, [id |-> sending.stored, pinned |-> FALSE])
  /\ live' = [kind |-> "pending", of |-> sending.stored]
  /\ timers' = Schedule(sending.conversationId)
  /\ sending' = None
  /\ strayed' = (strayed \/ sending.conversationId # selected)
  /\ UNCHANGED <<server, selected, loads, stream, pinning, settled, overtaken, bounds>>

TogglePin ==
  /\ pinning = None /\ toggles > 0
  /\ \E k \in 1..Len(messages) :
       pinning' = [id |-> messages[k].id, pin |-> ~messages[k].pinned, stored |-> FALSE]
  /\ toggles' = toggles - 1
  /\ UNCHANGED <<server, selected, messages, live, loads, timers, stream, sending, history, switches, faults>>

PinAnswered ==
  /\ pinning # None /\ pinning.stored
  /\ messages' = [k \in 1..Len(messages) |->
       IF messages[k].id = pinning.id THEN [messages[k] EXCEPT !.pinned = pinning.pin] ELSE messages[k]]
  /\ pinning' = None
  /\ UNCHANGED <<server, selected, live, loads, timers, stream, sending, history, bounds>>

\* A call is lost on its way there or back: the page says so and changes nothing.
CallLost ==
  /\ faults > 0 /\ faults' = faults - 1
  /\ \/ \E n \in 1..Len(loads) : loads' = RemoveAt(loads, n) /\ UNCHANGED <<sending, pinning>>
     \/ sending # None /\ sending' = None /\ UNCHANGED <<loads, pinning>>
     \/ pinning # None /\ pinning' = None /\ UNCHANGED <<loads, sending>>
  /\ UNCHANGED <<server, selected, messages, live, timers, stream, history, switches, toggles>>

Next ==
  \/ StoreMessage \/ PinStored \/ ReadMessages
  \/ \E u \in running : StoreReply(u)
  \/ \E r \in unpublished : Announce(r) \/ AnnounceCut(r)
  \/ MessagesArrive \/ RefreshDue \/ StreamOpens \/ StreamBreaks
  \/ \E c \in Conversations : SelectConversation(c)
  \/ Send \/ SendAnswered \/ TogglePin \/ PinAnswered \/ CallLost

Spec == Init /\ [][Next]_vars

Refreshing == ReadMessages \/ MessagesArrive \/ RefreshDue

(* ---------------------------- properties ---------------------------- *)

\* The shape of the server's and the window's state; refreshes that are planned have not all fired.
TypeOK ==
  /\ store \in Seq(Message) /\ Len(store) <= Len(Earlier) + 2 * MaxSends
  /\ pins \subseteq 1..Len(store)
  /\ running \subseteq Asking /\ unpublished \subseteq (1..Len(store)) \ Asking
  /\ selected \in Conversations
  /\ messages \in Seq([id : 1..Len(store), pinned : BOOLEAN])
  /\ live \in Lives
  /\ loads \in Seq(Fetches) /\ Len(loads) <= MaxLoads
  /\ timers \in {None} \cup [conversationId : Conversations, left : 1..Refreshes]
  /\ stream \in [open : BOOLEAN, heard : Seq(Lives \ {None})]
  /\ sending \in {None} \cup [conversationId : Conversations, stored : {None} \cup Positions]
  /\ pinning \in {None} \cup [id : Positions, pin : BOOLEAN, stored : BOOLEAN]
  /\ settled \in BOOLEAN /\ strayed \in BOOLEAN /\ overtaken \in BOOLEAN

Foreign == \/ \E i \in Shown : store[i].conversationId # selected
           \/ live # None /\ store[live.of].conversationId # selected

\* Once the selected conversation has been fetched, the window shows a message or a reply of
\* another one only if it took a bubble along when it was selected, or an answer meant for
\* another conversation came in since: mergeMessages drops the thread that was left.
ForeignOnlyByStraying == Foreign /\ settled => strayed

\* A message that is shown twice, because a fetch was faster than the answer of the send, is
\* about to be shown once: a refresh is planned, a fetch is under way, or one got lost.
DuplicatesAreTransient ==
  Cardinality(Shown) < Len(messages)
    => timers # None \/ Len(loads) > 0 \/ faults < MaxFaults

\* The refreshes that are planned are those of the selected conversation, unless the answer of
\* a message sent in another one came after the switch (schedulePostSendRefresh in handleSend).
RefreshesFollowSelection == timers # None /\ timers.conversationId # selected => strayed

AtRest == /\ timers = None /\ Len(loads) = 0 /\ pinning = None
          /\ settled /\ ~strayed /\ faults = MaxFaults

\* At rest the pins that are shown are those of the server, unless a fetch that was read before
\* the change of a pin was answered after it (nothing fetches again after a pin).
PinsAreCurrent ==
  AtRest => overtaken \/ \A k \in 1..Len(messages) : messages[k].pinned = (messages[k].id \in pins)

\* What is shown and what is planned belong to the selected conversation, each message once, and
\* the pins come to rest where the server has them.
ThreadIsSound ==
  /\ TypeOK /\ ForeignOnlyByStraying /\ RefreshesFollowSelection
  /\ DuplicatesAreTransient /\ PinsAreCurrent

\* While a conversation stays selected no message of it leaves the thread: an older answer that
\* comes after a newer one takes nothing away, and neither does one that misses the message
\* just sent.
ThreadOnlyGrows ==
  [][selected' = selected /\ ~strayed'
       => Shown \cap OfConversation(selected) \subseteq {messages'[k].id : k \in 1..Len(messages')}]_vars

\* More refreshes of the selected conversation are planned than calls can still get lost.
Promised == timers # None /\ timers.conversationId = selected /\ timers.left > faults

CaughtUp == OfConversation(selected) \subseteq Shown
Outstanding == sending # None \/ running # {}

\* The bubble has its reply among the stored messages.
Answered ==
  /\ live # None /\ store[live.of].conversationId = selected
  /\ live.kind = "pending" => \E i \in OfConversation(selected) : i > live.of /\ store[i].role = "assistant"

\* A thread with refreshes to come, and no message or reply on its way to the server, catches up
\* with the server and its bubble gives way to the stored reply, even if the stream broke before
\* or within the events of that reply, unless the reader writes or leaves or a stray answer takes
\* the refreshes over.
ThreadSettles ==
  \A c \in Conversations :
    (selected = c /\ Promised /\ ~Outstanding)
      ~> (selected # c \/ strayed \/ Outstanding \/ (CaughtUp /\ ~Answered))

=============================================================================
