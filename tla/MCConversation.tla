------------------------------ MODULE MCConversation ------------------------------
(***************************************************************************)
(* What goes on in a conversation, for TLC: a coding workflow executes in  *)
(* it, or its people use it as a channel.  The two share no row but that   *)
(* of the conversation itself, which an execution never writes.            *)
(***************************************************************************)
EXTENDS CodingWorkflowDispatch

CONSTANTS
    p1, p2,
    Owner, Colleague, Agent, MaxMessages, MaxCalls, Overlap

VARIABLES
    area,     \* which of the two is watched
    channel, messages, reactions, seats, calls, seen, late, odd, doubled, deleting, made

Channel == INSTANCE Channels

TwoPages == {p1, p2}

ASSUME StagesAssumption == DispatchAssumption
ASSUME ChannelConstants == Channel!ChannelAssumption

channelVars ==
    <<channel, messages, reactions, seats, calls, seen, late, odd, doubled, deleting, made>>
allVars == <<area, vars, channelVars>>

\* What the part that is not watched would start with does not matter.
ConversationInit ==
    /\ area \in {"coding", "channel"} /\ Init /\ Channel!Init
    /\ area = "channel" => plan = [roles |-> Roles, needsPage |-> TRUE]
    /\ area = "coding" => messages = << >> /\ seats[Colleague].permission = "read"

ConversationNext ==
    \/ area = "coding" /\ Next /\ UNCHANGED <<area, channelVars>>
    \/ area = "channel" /\ Channel!Next /\ UNCHANGED <<area, vars>>

ConversationProgress ==
    \/ area = "coding" /\ Progress /\ UNCHANGED <<area, channelVars>>
    \/ area = "channel" /\ Channel!Progress /\ UNCHANGED <<area, vars>>

ConversationSpec ==
    ConversationInit /\ [][ConversationNext]_allVars /\ WF_allVars(ConversationProgress)

\* Pins, reactions, marks and the channel itself are what the calls of its people say, however
\* their statements overlap.  (MessagesService, ConversationsService, ChannelMembersService)
ChannelIsSound == Channel!ChannelIsSound

\* An execution ends: the repair loop terminates and every failure is handled by somebody, if
\* only by the log.  So does every call of a channel, although locks are taken in two orders.
\* (executeApprovedWorkflow, pin, deleteConversation)
WorkEnds ==
    (IF area = "coding" THEN pc = "requested" ELSE calls # << >>)
        ~> (IF area = "coding" THEN Over ELSE calls = << >>)
=============================================================================
