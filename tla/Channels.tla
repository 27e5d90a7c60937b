-------------------------------- MODULE Channels --------------------------------
(***************************************************************************)
(* The everyday life of one channel (apps/api: channels, messages,         *)
(* conversations): its owner, one invited colleague and the agents write   *)
(* messages and replies, pin them, react to them and mark them read, while *)
(* the owner changes the colleague's seat and archives, restores or        *)
(* deletes the channel.                                                    *)
(*                                                                         *)
(* Every statement of the API is a step of its own.  A transaction holds   *)
(* the locks its statements have taken until it commits: a message that is *)
(* being written shares the row of the channel (its foreign key), a pin    *)
(* holds the row of the message, and the deletion of the channel holds the *)
(* row of the channel before it reaches the messages.  The last statement  *)
(* of a transaction and its COMMIT are one step.                           *)
(*                                                                         *)
(* A message is numbered when its transaction begins, which is what its    *)
(* created_at is; it is visible when it commits.                           *)
(***************************************************************************)
EXTENDS Naturals, FiniteSets, SequencesExt

CONSTANTS
    Owner, Colleague, Agent,
    MaxMessages,   \* bound on the messages of the channel
    MaxCalls,      \* bound on the calls made
    Overlap        \* bound on the calls under way at a time

ChannelAssumption ==
    /\ Cardinality({Owner, Colleague, Agent}) = 3
    /\ MaxMessages \in Nat \ {0} /\ MaxCalls \in Nat /\ Overlap \in Nat \ {0}

VARIABLES
    channel,     \* the conversation row: there or not, archived since when, pinned_message_ids
    messages,    \* its messages, in the order of created_at
    reactions,   \* who has reacted to which message
    seats,       \* channel_user_memberships of the owner and the colleague
    calls,       \* calls under way
    seen,        \* the messages each of them has been shown or has declared read (history)
    late,        \* messages that became visible after a later one, or after a mark (history)
    odd,         \* reactions tapped an odd number of times (history)
    doubled,     \* reactions with taps that overlapped (history)
    deleting,    \* the owner has asked for the deletion (history)
    made         \* the number of calls made so far

readVars == <<seen, late>>
tapVars == <<odd, doubled>>
vars == <<channel, messages, reactions, seats, readVars, calls, tapVars, deleting, made>>

People == {Owner, Colleague}
Permissions == {"read", "comment"}
Preferences == {"all", "mentions_only", "muted"}
Ids == 1..MaxMessages
Pairs == People \X Ids

Messages ==
    [author : People \cup {Agent}, parent : 0..MaxMessages, mentions : SUBSET People,
     visible : BOOLEAN, pinned : BOOLEAN]

Seats ==
    [status : {"none", "active", "removed"}, permission : Permissions \cup {"manage"},
     lastRead : 0..MaxMessages, pref : Preferences]

\* msg is the message a call is about, mark what it has read or is to write.
Calls ==
    [op : {"post", "pin", "unpin", "react", "mark", "expire", "restore", "delete"},
     who : People \cup {Agent}, msg : 0..MaxMessages, mark : BOOLEAN,
     at : {"checked", "writing", "flagged", "found", "asked", "waiting", "locked", "update"}]

TypeOK ==
    /\ channel \in [alive : BOOLEAN, archived : {"no", "fresh", "old"}, pins : Seq(Ids)]
    /\ messages \in Seq(Messages) /\ Len(messages) <= MaxMessages
    /\ reactions \subseteq Pairs
    /\ seats \in [People -> Seats]
    /\ calls \in Seq(Calls) /\ Len(calls) <= Overlap
    /\ seen \in [People -> SUBSET Ids] /\ late \subseteq Ids
    /\ odd \subseteq Pairs /\ doubled \subseteq Pairs
    /\ deleting \in BOOLEAN
    /\ made \in 0..MaxCalls

NewSeat(permission) ==
    [status |-> "active", permission |-> permission, lastRead |-> 0, pref |-> "all"]
NoSeat(permission) == [NewSeat(permission) EXCEPT !.status = "none"]
Message(author, parent, mentions) ==
    [author |-> author, parent |-> parent, mentions |-> mentions,
     visible |-> FALSE, pinned |-> FALSE]

\* A channel that create has made, empty or with a message of its owner, or a seeded one: those
\* have messages, and no membership row of their owner until the first use of the read state.
Init ==
    /\ channel = [alive |-> TRUE, archived |-> "no", pins |-> << >>]
    /\ messages \in {<< >>, <<[Message(Owner, 0, {}) EXCEPT !.visible = TRUE]>>}
    /\ \E o \in {NewSeat("manage"), NoSeat("manage")}, permission \in Permissions :
          /\ o.status = "none" => messages # << >>
          /\ seats = [u \in People |-> IF u = Owner THEN o ELSE NewSeat(permission)]
    /\ reactions = {} /\ calls = << >>
    /\ seen = [u \in People |-> IF u = Owner THEN DOMAIN messages ELSE {}] /\ late = {}
    /\ odd = {} /\ doubled = {}
    /\ deleting = FALSE /\ made = 0

(***************************************************************************)
(* Access.                                                                 *)
(***************************************************************************)

\* Shares are looked at by nobody here: only the owner and active members have access.
Permission(u) ==
    IF u = Owner THEN "manage"
    ELSE IF seats[u].status = "active" THEN seats[u].permission ELSE "none"
CanRead(u) == channel.alive /\ Permission(u) # "none"
CanSend(u) == CanRead(u) /\ Permission(u) # "read"

Visible(m) == m \in DOMAIN messages /\ messages[m].visible
Root(m) == messages[m].parent = 0

\* listMessages: the roots.
Listed == {m \in DOMAIN messages : Visible(m) /\ Root(m)}

\* getThread: the message that m answers, or m itself, with the replies to that one.
Thread(m) ==
    LET parent == IF Root(m) THEN m ELSE messages[m].parent
    IN  {parent} \cup {n \in DOMAIN messages : Visible(n) /\ messages[n].parent = parent}

\* Mutant: replies are counted, which no list shows.
Unread_CountsReplies(u) ==
    {m \in DOMAIN messages : Visible(m) /\ messages[m].author # u /\ m > seats[u].lastRead}

\* What the badge of u counts.
Wanted(u, m) ==
    CASE seats[u].pref = "all" -> TRUE
      [] seats[u].pref = "mentions_only" -> u \in messages[m].mentions
      [] seats[u].pref = "muted" -> FALSE
Unread(u) ==
    {m \in Listed : messages[m].author # u /\ m > seats[u].lastRead /\ Wanted(u, m)}

(***************************************************************************)
(* Calls under way.                                                        *)
(***************************************************************************)

Call(op, who, msg, mark, at) ==
    [op |-> op, who |-> who, msg |-> msg, mark |-> mark, at |-> at]
Starts(call) ==
    /\ made < MaxCalls /\ Len(calls) < Overlap
    /\ calls' = Append(calls, call)
    /\ made' = made + 1
Statement == made < MaxCalls /\ made' = made + 1 /\ UNCHANGED calls
Ends(i) == calls' = RemoveAt(calls, i)
Goes(i, call) == calls' = [calls EXCEPT ![i] = call]
At(i, ops, at) == i \in DOMAIN calls /\ calls[i].op \in ops /\ calls[i].at = at

Writing == \E i \in DOMAIN calls : calls[i].at = "writing"       \* shares the channel's row
Locked == \E i \in DOMAIN calls : calls[i].at = "locked"         \* holds the channel's row
Holds(m) == \E i \in DOMAIN calls : calls[i].at = "flagged" /\ calls[i].msg = m

(***************************************************************************)
(* Messages.                                                               *)
(***************************************************************************)

\* A reply answers any message of the channel, replies included.
MayAnswer(parent) == parent = 0 \/ Visible(parent)

\* Who is mentioned is the owner or an active member.
MayMention(v) == v = Owner \/ seats[v].status = "active"

\* MaxMessages are enough for what is written and what will be.
RoomForOne ==
    Len(messages) + Cardinality({i \in DOMAIN calls : At(i, {"post"}, "checked")}) < MaxMessages

\* The checks of create; the reply of an agent is stored without any.
Post(u, parent, mentions) ==
    /\ u # Agent => CanSend(u)
    /\ u = Agent => channel.alive /\ parent = 0 /\ mentions = {}
    /\ MayAnswer(parent)
    /\ \A v \in mentions : MayMention(v)
    /\ RoomForOne
    /\ Starts(Call("post", u, parent, mentions # {}, "checked"))
    /\ UNCHANGED <<channel, messages, reactions, seats, readVars, tapVars, deleting>>

\* BEGIN and the INSERT.
PostBegins(i) ==
    /\ At(i, {"post"}, "checked")
    /\ IF channel.alive
       THEN /\ ~Locked
            /\ LET call == calls[i]
                   mentioned == IF call.mark THEN People \ {call.who} ELSE {}
               IN  /\ messages' = Append(messages, Message(call.who, call.msg, mentioned))
                   /\ Goes(i, [call EXCEPT !.msg = Len(messages) + 1, !.at = "writing"])
       ELSE Ends(i) /\ UNCHANGED messages
    /\ UNCHANGED <<channel, reactions, seats, readVars, tapVars, deleting, made>>

\* touchConversation, mirrorMessage and COMMIT.
PostCommits(i) ==
    /\ At(i, {"post"}, "writing")
    /\ LET m == calls[i].msg
       IN  /\ messages' = [messages EXCEPT ![m].visible = TRUE]
           /\ late' = IF \E n \in DOMAIN messages : n > m /\ Visible(n)
                      THEN late \cup {m} ELSE late
    /\ Ends(i)
    /\ UNCHANGED <<channel, reactions, seats, seen, tapVars, deleting, made>>

\* pin and unpin: the target and the access to its channel.
Pin(u, m, op) ==
    /\ Visible(m) /\ CanSend(u)
    /\ Starts(Call(op, u, m, FALSE, "checked"))
    /\ UNCHANGED <<channel, messages, reactions, seats, readVars, tapVars, deleting>>

\* Mutant: the two updates are not one transaction, so that no lock is held between them.
PinFlags_Autocommit(i) ==
    /\ At(i, {"pin", "unpin"}, "checked")
    /\ LET call == calls[i]
       IN  IF Visible(call.msg)
           THEN /\ messages' = [messages EXCEPT ![call.msg].pinned = (call.op = "pin")]
                /\ Goes(i, [call EXCEPT !.mark = messages[call.msg].pinned, !.at = "flagged"])
           ELSE Ends(i) /\ UNCHANGED messages
    /\ UNCHANGED <<channel, reactions, seats, readVars, tapVars, deleting, made>>

PinFlags(i) ==
    /\ At(i, {"pin", "unpin"}, "checked")
    /\ LET call == calls[i]
       IN  IF Visible(call.msg)
           THEN /\ ~Holds(call.msg)
                /\ messages' = [messages EXCEPT ![call.msg].pinned = (call.op = "pin")]
                /\ Goes(i, [call EXCEPT !.mark = messages[call.msg].pinned, !.at = "flagged"])
           ELSE Ends(i) /\ UNCHANGED messages
    /\ UNCHANGED <<channel, reactions, seats, readVars, tapVars, deleting, made>>

\* The list without an id, in its order.
Upto(kept, k) == Cardinality({j \in kept : j <= k})
Nth(kept, n) == CHOOSE k \in kept : Upto(kept, k) = n
Kept(pins, m) == {k \in DOMAIN pins : pins[k] # m}
Without(pins, m) == [n \in 1..Cardinality(Kept(pins, m)) |-> pins[Nth(Kept(pins, m), n)]]

\* Mutant: an id is appended without looking whether it is there.
PinnedIds_Unchecked(pins, m, op) ==
    IF op = "pin" THEN Append(pins, m) ELSE Without(pins, m)

\* appendPinnedMessageId and removePinnedMessageId.
PinnedIds(pins, m, op) ==
    IF op = "pin" THEN IF Contains(pins, m) THEN pins ELSE Append(pins, m)
                  ELSE Without(pins, m)

PinCommits(i) ==
    /\ At(i, {"pin", "unpin"}, "flagged") /\ ~Locked
    /\ channel' = [channel EXCEPT !.pins = PinnedIds(@, calls[i].msg, calls[i].op)]
    /\ Ends(i)
    /\ UNCHANGED <<messages, reactions, seats, readVars, tapVars, deleting, made>>

\* toggleReaction: three statements without a transaction.
React(u, m) ==
    /\ Visible(m) /\ CanSend(u)
    /\ Starts(Call("react", u, m, FALSE, "checked"))
    /\ doubled' = IF \E i \in DOMAIN calls :
                        calls[i].op = "react" /\ calls[i].who = u /\ calls[i].msg = m
                  THEN doubled \cup {<<u, m>>} ELSE doubled
    /\ UNCHANGED <<channel, messages, reactions, seats, readVars, odd, deleting>>

ReactFinds(i) ==
    /\ At(i, {"react"}, "checked")
    /\ Goes(i, [calls[i] EXCEPT !.mark = <<calls[i].who, calls[i].msg>> \in reactions,
                                !.at = "found"])
    /\ UNCHANGED <<channel, messages, reactions, seats, readVars, tapVars, deleting, made>>

ReactWrites(i) ==
    /\ At(i, {"react"}, "found")
    /\ LET pair == <<calls[i].who, calls[i].msg>>
       IN  IF Visible(calls[i].msg)
           THEN /\ reactions' = IF calls[i].mark THEN reactions \ {pair} ELSE reactions \cup {pair}
                /\ odd' = IF pair \in odd THEN odd \ {pair} ELSE odd \cup {pair}
           ELSE UNCHANGED <<reactions, odd>>
    /\ Ends(i)
    /\ UNCHANGED <<channel, messages, seats, readVars, doubled, deleting, made>>

(***************************************************************************)
(* Reading.                                                                *)
(***************************************************************************)

Shown(u, shown) ==
    /\ CanRead(u) /\ ~(shown \subseteq seen[u])
    /\ seen' = [seen EXCEPT ![u] = @ \cup shown]
    /\ UNCHANGED <<channel, messages, reactions, seats, calls, late, tapVars, deleting, made>>

Look(u) == Shown(u, Listed)

\* A thread is opened from a message that was shown.
Open(u, m) == m \in seen[u] /\ Visible(m) /\ Shown(u, Thread(m))

\* ensureActorMembership: the owner's row is inserted when it is missing.
Ensured(u) ==
    IF u = Owner /\ seats[u].status = "none" THEN NewSeat("manage") ELSE seats[u]

\* markRead up to a listed message that was shown, or, without one (0), up to now.
Mark(u, m) ==
    /\ CanRead(u) /\ (m # 0 => m \in seen[u] \cap Listed)
    /\ Starts(Call("mark", u, m, FALSE, "checked"))
    /\ seats' = [seats EXCEPT ![u] = Ensured(u)]
    /\ UNCHANGED <<channel, messages, reactions, readVars, tapVars, deleting>>

\* Mutant: reading a message marks everything read up to now.
ReadUpTo_Now(m) == Len(messages)

ReadUpTo(m) == IF m # 0 /\ Visible(m) THEN m ELSE Len(messages)

MarkLands(i) ==
    /\ At(i, {"mark"}, "checked")
    /\ LET u == calls[i].who
           m == calls[i].msg
           active == channel.alive /\ seats[u].status = "active"
       IN  /\ seats' = IF active THEN [seats EXCEPT ![u].lastRead = ReadUpTo(m)] ELSE seats
           /\ seen' = IF active /\ m = 0 THEN [seen EXCEPT ![u] = @ \cup Listed] ELSE seen
           /\ late' = IF active /\ m = 0
                      THEN late \cup {n \in DOMAIN messages : ~messages[n].visible} ELSE late
    /\ Ends(i)
    /\ UNCHANGED <<channel, messages, reactions, tapVars, deleting, made>>

\* updateNotificationPreference.
Prefer(u, pref) ==
    /\ CanRead(u) /\ Ensured(u).pref # pref
    /\ seats' = [seats EXCEPT ![u] = [Ensured(u) EXCEPT !.pref = pref]]
    /\ Statement
    /\ UNCHANGED <<channel, messages, reactions, readVars, tapVars, deleting>>

(***************************************************************************)
(* The colleague's seat, changed by the owner.                             *)
(***************************************************************************)

\* upsertActiveHumanMember: a removed seat stays as it is, and a new one is made.
Add(permission) ==
    /\ channel.alive /\ ~Locked
    /\ seats' = [seats EXCEPT ![Colleague] =
                   IF @.status = "active" THEN [@ EXCEPT !.permission = permission]
                                          ELSE NewSeat(permission)]
    /\ Statement
    /\ UNCHANGED <<channel, messages, reactions, readVars, tapVars, deleting>>

\* updateHumanMember.
Permit(permission) ==
    /\ channel.alive /\ seats[Colleague].status = "active"
    /\ seats[Colleague].permission # permission
    /\ seats' = [seats EXCEPT ![Colleague].permission = permission]
    /\ Statement
    /\ UNCHANGED <<channel, messages, reactions, readVars, tapVars, deleting>>

\* removeMember.
Unseat ==
    /\ channel.alive /\ seats[Colleague].status = "active"
    /\ seats' = [seats EXCEPT ![Colleague] = [NoSeat("read") EXCEPT !.status = "removed"]]
    /\ Statement
    /\ UNCHANGED <<channel, messages, reactions, readVars, tapVars, deleting>>

(***************************************************************************)
(* The channel in the list.                                                *)
(***************************************************************************)

Archive ==
    /\ channel.alive /\ ~Locked /\ channel.archived # "fresh"
    /\ channel' = [channel EXCEPT !.archived = "fresh"]
    /\ Statement
    /\ UNCHANGED <<messages, reactions, seats, readVars, tapVars, deleting>>

\* Thirty days later.
Ages ==
    /\ channel.alive /\ channel.archived = "fresh"
    /\ channel' = [channel EXCEPT !.archived = "old"]
    /\ UNCHANGED <<messages, reactions, seats, readVars, calls, tapVars, deleting, made>>

\* list and restore first delete what has been archived for long; delete deletes.
Discard(op) ==
    /\ channel.alive
    /\ op # "delete" => channel.archived # "no"
    /\ Starts(Call(op, Owner, 0, FALSE, IF op = "delete" THEN "waiting" ELSE "asked"))
    /\ deleting' = (deleting \/ op = "delete")
    /\ UNCHANGED <<channel, messages, reactions, seats, readVars, tapVars>>

Overdue == channel.alive /\ channel.archived = "old"

\* What follows a deletion that found nothing or has been done.
Discarded(i) ==
    IF calls[i].op = "restore" THEN Goes(i, [calls[i] EXCEPT !.at = "update"]) ELSE Ends(i)

DiscardFinds(i) ==
    /\ At(i, {"expire", "restore"}, "asked")
    /\ IF Overdue THEN Goes(i, [calls[i] EXCEPT !.at = "waiting"]) ELSE Discarded(i)
    /\ UNCHANGED <<channel, messages, reactions, seats, readVars, tapVars, deleting, made>>

\* Mutant: what was found is deleted, although it may have been restored meanwhile.
DiscardLocks_Stale(i) ==
    /\ At(i, {"expire", "restore", "delete"}, "waiting") /\ ~Writing /\ ~Locked
    /\ IF channel.alive THEN Goes(i, [calls[i] EXCEPT !.at = "locked"]) ELSE Discarded(i)
    /\ UNCHANGED <<channel, messages, reactions, seats, readVars, tapVars, deleting, made>>

\* The row is looked at again once no writer shares it.
DiscardLocks(i) ==
    /\ At(i, {"expire", "restore", "delete"}, "waiting") /\ ~Writing /\ ~Locked
    /\ IF IF calls[i].op = "delete" THEN channel.alive ELSE Overdue
       THEN Goes(i, [calls[i] EXCEPT !.at = "locked"]) ELSE Discarded(i)
    /\ UNCHANGED <<channel, messages, reactions, seats, readVars, tapVars, deleting, made>>

\* The cascade needs the row of every message.
DiscardCascades(i) ==
    /\ At(i, {"expire", "restore", "delete"}, "locked")
    /\ \A m \in DOMAIN messages : ~Holds(m)
    /\ channel' = [channel EXCEPT !.alive = FALSE, !.pins = << >>]
    /\ messages' = << >> /\ reactions' = {}
    /\ seats' = [u \in People |-> NoSeat(IF u = Owner THEN "manage" ELSE "read")]
    /\ seen' = [u \in People |-> {}] /\ late' = {}
    /\ odd' = {} /\ doubled' = {}
    /\ Discarded(i)
    /\ UNCHANGED <<deleting, made>>

RestoreUpdates(i) ==
    /\ At(i, {"restore"}, "update") /\ ~Locked
    /\ channel' = IF channel.alive THEN [channel EXCEPT !.archived = "no"] ELSE channel
    /\ Ends(i)
    /\ UNCHANGED <<messages, reactions, seats, readVars, tapVars, deleting, made>>

\* Mutant: nobody resolves it.
Abort_Never(i) == FALSE /\ UNCHANGED vars

\* A pin holds a message and waits for the channel, a deletion holds the channel and waits for
\* the message: the database aborts one of the two, which undoes it.
Abort(i) ==
    /\ i \in DOMAIN calls
    /\ \/ /\ calls[i].at = "flagged" /\ Locked
          /\ messages' = [messages EXCEPT ![calls[i].msg].pinned = calls[i].mark]
       \/ /\ calls[i].at = "locked" /\ \E m \in DOMAIN messages : Holds(m)
          /\ UNCHANGED messages
    /\ Ends(i)
    /\ UNCHANGED <<channel, reactions, seats, readVars, tapVars, deleting, made>>

Step(i) ==
    \/ PostBegins(i) \/ PostCommits(i) \/ PinFlags(i) \/ PinCommits(i)
    \/ ReactFinds(i) \/ ReactWrites(i) \/ MarkLands(i)
    \/ DiscardFinds(i) \/ DiscardLocks(i) \/ DiscardCascades(i) \/ RestoreUpdates(i) \/ Abort(i)

Progress == \E i \in 1..Overlap : Step(i)

Uses(u) ==
    \/ \E parent \in {0} \cup DOMAIN messages, mentions \in {{}, People \ {u}} :
            Post(u, parent, mentions)
    \/ \E m \in DOMAIN messages : Pin(u, m, "pin") \/ Pin(u, m, "unpin") \/ React(u, m)
    \/ \E m \in {0} \cup seen[u] : Mark(u, m)
    \/ \E pref \in Preferences : Prefer(u, pref)
    \/ Look(u) \/ \E m \in DOMAIN messages : Open(u, m)

Manages ==
    \/ \E permission \in Permissions : Add(permission) \/ Permit(permission)
    \/ Unseat \/ Archive \/ Ages
    \/ \E op \in {"expire", "restore", "delete"} : Discard(op)

Next ==
    \/ Progress
    \/ \E u \in People : Uses(u)
    \/ Post(Agent, 0, {})
    \/ Manages

Spec == Init /\ [][Next]_vars /\ WF_vars(Progress)

-----------------------------------------------------------------------------

\* A message says that it is pinned exactly if the channel lists it among its pinned messages,
\* once: whatever pins and unpins overlap and whichever of them a deletion aborts.
PinsAgree ==
    /\ IsInjective(channel.pins)
    /\ \A m \in DOMAIN messages :
          ~Holds(m) => (messages[m].pinned <=> Contains(channel.pins, m))

\* A message that somebody else has written, that the reader has neither been shown nor declared
\* read, still counts as unread, and what counts as unread is on the list.  Messages that became
\* visible out of their order are the exception: a mark on a later message passes over them.
UnreadIsHonest ==
    \A u \in People :
        seats[u].status = "active" =>
            /\ Unread(u) \subseteq Listed
            /\ \A m \in Listed \ (seen[u] \cup late) :
                  messages[m].author # u /\ Wanted(u, m) => m \in Unread(u)

\* Reactions are what the taps say, unless taps of one person on one message overlapped.
ReactionsFollowTaps == \A pair \in Pairs \ doubled : pair \in reactions <=> pair \in odd

\* A channel disappears because its owner deletes it, or when it has been archived for long: a
\* restored one stays.
GoneForAReason == channel.alive \/ deleting \/ channel.archived = "old"

ChannelIsSound == TypeOK /\ PinsAgree /\ UnreadIsHonest /\ ReactionsFollowTaps /\ GoneForAReason
=============================================================================
