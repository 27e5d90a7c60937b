------------------------------ MODULE MobileShell ------------------------------
(***************************************************************************)
(* The shell of the phone (apps/mobile): it signs in, lists the            *)
(* conversations and the approval cards of one workspace, shows the thread *)
(* of one conversation and decides on plans.  Every tap starts requests    *)
(* whose answers are applied when they come, whatever is on the screen by  *)
(* then; no request is cancelled and no answer is compared with what it    *)
(* was asked for.  A decision keeps the workspace and the conversation of  *)
(* the tap and loads both again when it has been answered.                 *)
(*                                                                         *)
(* Other clients decide on the same plans meanwhile.  The gate of a plan   *)
(* is one step here; how its transactions overlap is the subject of        *)
(* CodingWorkflowApproval.                                                 *)
(***************************************************************************)
EXTENDS Naturals, FiniteSets, SequencesExt

CONSTANTS
    Workspaces, Conversations,
    Home,          \* the workspace of each conversation
    Coding,        \* the conversations with a coding workflow
    Nothing,       \* no workspace, no conversation
    MaxPlans,      \* bound on the plans of a workflow
    MaxTaps,       \* bound on what the user does
    MaxFaults      \* bound on requests that fail

MobileAssumption ==
    /\ IsFiniteSet(Workspaces) /\ IsFiniteSet(Conversations)
    /\ Home \in [Conversations -> Workspaces]
    /\ \A w \in Workspaces : \E c \in Conversations : Home[c] = w
    /\ Coding \subseteq Conversations
    /\ Nothing \notin Workspaces \cup Conversations
    /\ MaxPlans \in Nat \ {0} /\ MaxTaps \in Nat /\ MaxFaults \in Nat

VARIABLES
    gate,          \* of each workflow: the status of its approval requests, one per plan
    session,       \* authenticated or not
    entry,         \* how far the boot or the login is: who runs it, and where it stands
    workspace,     \* workspaceId
    listed,        \* conversations and approvals: of which workspace, and its cards
    selected,      \* selectedConversationId
    thread,        \* the conversation whose messages are shown
    busy,          \* isApprovalBusy
    requests,      \* requests without an answer, in the order they were made
    overtaken,     \* an answer came before the answer of an earlier request (history)
    moved,         \* the screen moved on while a decision was under way (history)
    decided,       \* workflows that this phone has decided on (history)
    taps, faults

serverVars == <<gate, decided>>
screenVars == <<session, entry, workspace, listed, selected, thread, busy, moved>>
netVars == <<requests, overtaken>>
vars == <<serverVars, screenVars, netVars, taps, faults>>

CardStates == {"pending", "approved", "rejected", "revision_requested"}
Answers == {"approved", "rejected"}
Cards == [Coding -> UNION {[1..n -> CardStates] : n \in 0..MaxPlans}]
NoCards == [c \in Coding |-> << >>]
Askers == {"screen", "entry", "decision"}

Requests ==
    [kind : {"list"}, ws : Workspaces, read : BOOLEAN, cards : Cards,
     by : Askers, sel : Conversations \cup {Nothing}]
    \cup [kind : {"thread"}, ws : Workspaces, conv : Conversations, by : Askers]
    \cup [kind : {"decide"}, ws : Workspaces, conv : Coding, answer : Answers,
          at : {"asked", "accepted", "refused"}]

TypeOK ==
    /\ gate \in Cards
    /\ session \in BOOLEAN
    /\ entry \in [by : {"boot", "login"}, at : {"session", "workspaces", "list", "done"}]
    /\ workspace \in Workspaces \cup {Nothing}
    /\ listed \in [ws : Workspaces \cup {Nothing}, cards : Cards]
    /\ selected \in Conversations \cup {Nothing}
    /\ thread \in Conversations \cup {Nothing}
    /\ busy \in BOOLEAN
    /\ requests \in Seq(Requests)
    /\ overtaken \in BOOLEAN /\ moved \in BOOLEAN
    /\ decided \subseteq Coding
    /\ taps \in 0..MaxTaps /\ faults \in 0..MaxFaults

\* create: a workflow starts with one plan that awaits its decision.
Init ==
    /\ gate = [c \in Coding |-> <<"pending">>]
    /\ session = FALSE
    /\ entry = [by |-> "boot", at |-> "session"]
    /\ workspace = Nothing /\ selected = Nothing /\ thread = Nothing
    /\ listed = [ws |-> Nothing, cards |-> NoCards]
    /\ busy = FALSE
    /\ requests = << >>
    /\ overtaken = FALSE /\ moved = FALSE /\ decided = {}
    /\ taps = 0 /\ faults = 0

-----------------------------------------------------------------------------
(***************************************************************************)
(* Requests                                                                *)
(***************************************************************************)
ListLoad(w, by, sel) ==
    [kind |-> "list", ws |-> w, read |-> FALSE, cards |-> NoCards, by |-> by, sel |-> sel]
ThreadLoad(w, c, by) == [kind |-> "thread", ws |-> w, conv |-> c, by |-> by]

Open == DOMAIN requests
Left(i) == RemoveAt(requests, i)

\* The effect of a change of the workspace or the conversation: one load of the thread.
SelectionEffect(w, c) == IF c = Nothing THEN << >> ELSE <<ThreadLoad(w, c, "screen")>>

\* An answer is applied before that of an earlier request of its kind, which will replace it.
Applied(i) ==
    overtaken' = (overtaken \/ \E j \in 1..(i - 1) : requests[j].kind = requests[i].kind)

Listed(w) == {c \in Conversations : Home[c] = w}
Fault == faults < MaxFaults /\ faults' = faults + 1

-----------------------------------------------------------------------------
(***************************************************************************)
(* Signing in                                                              *)
(***************************************************************************)
SessionLoaded ==
    /\ entry = [by |-> "boot", at |-> "session"]
    /\ \E known \in BOOLEAN :
          /\ session' = known
          /\ entry' = [entry EXCEPT !.at = IF known THEN "workspaces" ELSE "done"]
    /\ UNCHANGED <<serverVars, workspace, listed, selected, thread, busy, moved, netVars,
                   taps, faults>>

Login ==
    /\ ~session /\ entry.at = "done"
    /\ taps < MaxTaps /\ taps' = taps + 1
    /\ entry' = [by |-> "login", at |-> "session"]
    /\ UNCHANGED <<serverVars, session, workspace, listed, selected, thread, busy, moved,
                   netVars, faults>>

LoggedIn ==
    /\ entry = [by |-> "login", at |-> "session"]
    /\ session' = TRUE
    /\ entry' = [entry EXCEPT !.at = "workspaces"]
    /\ UNCHANGED <<serverVars, workspace, listed, selected, thread, busy, moved, netVars,
                   taps, faults>>

\* loadWorkspaceData: the list is loaded by the call and by the effect of the new workspace.
WorkspacesLoaded ==
    /\ entry.at = "workspaces"
    /\ \E w \in Workspaces :
          /\ workspace' = w
          /\ requests' = requests \o <<ListLoad(w, "entry", Nothing),
                                        ListLoad(w, "screen", Nothing)>>
    /\ entry' = [entry EXCEPT !.at = "list"]
    /\ UNCHANGED <<serverVars, session, listed, selected, thread, busy, moved, overtaken,
                   taps, faults>>

\* A failure during the boot signs the user out; after a login it leaves an empty screen.
EntryFails ==
    /\ Fault
    /\ entry.at \in {"session", "workspaces"}
    /\ session' = (session /\ entry.by = "login")
    /\ entry' = [entry EXCEPT !.at = "done"]
    /\ UNCHANGED <<serverVars, workspace, listed, selected, thread, busy, moved, netVars, taps>>

-----------------------------------------------------------------------------
(***************************************************************************)
(* Taps: the screen is there once the boot has ended                       *)
(***************************************************************************)
Visible == session /\ workspace # Nothing /\ ~(entry.by = "boot" /\ entry.at # "done")

Tap ==
    /\ Visible
    /\ taps < MaxTaps /\ taps' = taps + 1
    /\ UNCHANGED <<serverVars, session, entry, listed, thread, overtaken, faults>>

SwitchWorkspace(w) ==
    /\ Tap
    /\ w # workspace
    /\ workspace' = w
    /\ requests' = requests \o <<ListLoad(w, "screen", Nothing)>>
                             \o SelectionEffect(w, selected)
    /\ moved' = (moved \/ busy)
    /\ UNCHANGED <<selected, busy>>

\* Mutant: the effect depends on the workspace alone.
Select_NoLoad(c) ==
    /\ Tap
    /\ c \in Listed(listed.ws) \ {selected}
    /\ selected' = c
    /\ moved' = (moved \/ busy)
    /\ UNCHANGED <<workspace, busy, requests>>

Select(c) ==
    /\ Tap
    /\ c \in Listed(listed.ws) \ {selected}
    /\ selected' = c
    /\ requests' = requests \o SelectionEffect(workspace, c)
    /\ moved' = (moved \/ busy)
    /\ UNCHANGED <<workspace, busy>>

Refresh ==
    /\ Tap
    /\ requests' = Append(requests, ListLoad(workspace, "screen", Nothing))
    /\ UNCHANGED <<workspace, selected, busy, moved>>

\* A card of the conversation on the screen that is listed as pending.
Decide(c, answer) ==
    /\ Tap
    /\ ~busy /\ busy' = TRUE
    /\ c = selected
    /\ \E i \in DOMAIN listed.cards[c] : listed.cards[c][i] = "pending"
    /\ requests' = Append(requests, [kind |-> "decide", ws |-> workspace, conv |-> c,
                                     answer |-> answer, at |-> "asked"])
    /\ UNCHANGED <<workspace, selected, moved>>

-----------------------------------------------------------------------------
(***************************************************************************)
(* The API                                                                 *)
(***************************************************************************)
Current(c) == gate[c][Len(gate[c])]

\* decide, as CodingWorkflowApproval has it without overlaps.  No decision names a plan:
\* it is about the plan that is current when it arrives.
Allows(c, answer) ==
    \/ Current(c) = "pending"
    \/ Current(c) = "rejected" /\ answer = "rejected"

Answered(c, answer) == [gate EXCEPT ![c][Len(gate[c])] = answer]
Revised(c) == [gate EXCEPT ![c] = Append([@ EXCEPT ![Len(@)] = "revision_requested"], "pending")]

OthersDecide(c) ==
    /\ \/ \E answer \in Answers : Current(c) = "pending" /\ gate' = Answered(c, answer)
       \/ Current(c) = "pending" /\ Len(gate[c]) < MaxPlans /\ gate' = Revised(c)
    /\ UNCHANGED <<decided, screenVars, netVars, taps, faults>>

\* A workflow is looked up in the workspace that the request names.
ServeDecision(i) == LET r == requests[i] IN
    /\ r.kind = "decide" /\ r.at = "asked"
    /\ LET accepted == Home[r.conv] = r.ws /\ Allows(r.conv, r.answer)
       IN /\ gate' = IF accepted THEN Answered(r.conv, r.answer) ELSE gate
          /\ decided' = IF accepted THEN decided \cup {r.conv} ELSE decided
          /\ requests' = [requests EXCEPT ![i].at = IF accepted THEN "accepted" ELSE "refused"]
    /\ UNCHANGED <<screenVars, overtaken, taps, faults>>

\* listApprovalRequests: every request of the workspace, with its status.
CardsOf(w) == [c \in Coding |-> IF Home[c] = w THEN gate[c] ELSE << >>]

ServeList(i) == LET r == requests[i] IN
    /\ r.kind = "list" /\ ~r.read
    /\ requests' = [requests EXCEPT ![i].read = TRUE, ![i].cards = CardsOf(requests[i].ws)]
    /\ UNCHANGED <<serverVars, screenVars, overtaken, taps, faults>>

-----------------------------------------------------------------------------
(***************************************************************************)
(* Answers                                                                 *)
(***************************************************************************)
\* decideApproval goes on after the list, whether or not it came: the thread of the tap.
AfterList(r) == IF r.by = "decision" THEN <<ThreadLoad(r.ws, r.sel, "decision")>> ELSE << >>

\* Mutant: only the boot has a finally.
EntryEnds_BootOnly(r) ==
    entry' = IF r.by = "entry" /\ entry.by = "boot" THEN [entry EXCEPT !.at = "done"] ELSE entry

\* The finally of boot and of submitLogin.
EntryEnds(r) == entry' = IF r.by = "entry" THEN [entry EXCEPT !.at = "done"] ELSE entry

\* Mutant: a conversation stays selected although the new list does not have it.
ApplyList_KeepsSelection(i) == LET r == requests[i] IN
    /\ r.kind = "list" /\ r.read
    /\ listed' = [ws |-> r.ws, cards |-> r.cards]
    /\ \E first \in Listed(r.ws) : selected' = IF selected # Nothing THEN selected ELSE first
    /\ requests' = Left(i) \o AfterList(r)
          \o IF selected' = selected THEN << >> ELSE SelectionEffect(workspace, selected')
    /\ moved' = (moved \/ (busy /\ selected' # selected))
    /\ Applied(i) /\ EntryEnds(r)
    /\ UNCHANGED <<serverVars, session, workspace, thread, busy, taps, faults>>

\* The selection stays if the list has it; else the first conversation is selected, and
\* its thread is loaded from the workspace of the screen.  That may happen while a decision
\* is under way, which goes on with the conversation of its tap.
ApplyList(i) == LET r == requests[i] IN
    /\ r.kind = "list" /\ r.read
    /\ listed' = [ws |-> r.ws, cards |-> r.cards]
    /\ \E first \in Listed(r.ws) :
          selected' = IF selected \in Listed(r.ws) THEN selected ELSE first
    /\ requests' = Left(i) \o AfterList(r)
          \o IF selected' = selected THEN << >> ELSE SelectionEffect(workspace, selected')
    /\ moved' = (moved \/ (busy /\ selected' # selected))
    /\ Applied(i) /\ EntryEnds(r)
    /\ UNCHANGED <<serverVars, session, workspace, thread, busy, taps, faults>>

\* The error is shown and the old lists stay.
ListFails(i) == LET r == requests[i] IN
    /\ Fault
    /\ r.kind = "list"
    /\ requests' = Left(i) \o AfterList(r)
    /\ EntryEnds(r)
    /\ UNCHANGED <<serverVars, session, workspace, listed, selected, thread, busy, moved,
                   overtaken, taps>>

\* The finally of decideApproval.
EndOfDecision(r) == busy' = (busy /\ r.by # "decision")

\* A conversation that is not in the workspace of the request is not found: an error,
\* and no messages.
ApplyThread(i) == LET r == requests[i] IN
    /\ r.kind = "thread"
    /\ thread' = IF Home[r.conv] = r.ws THEN r.conv ELSE Nothing
    /\ Applied(i) /\ EndOfDecision(r)
    /\ requests' = Left(i)
    /\ UNCHANGED <<serverVars, session, entry, workspace, listed, selected, moved, taps,
                   faults>>

ThreadFails(i) == LET r == requests[i] IN
    /\ Fault
    /\ r.kind = "thread"
    /\ thread' = Nothing
    /\ Applied(i) /\ EndOfDecision(r)
    /\ requests' = Left(i)
    /\ UNCHANGED <<serverVars, session, entry, workspace, listed, selected, moved, taps>>

\* Mutant: nothing is loaded after a decision.
DecisionAnswered_NoReload(i) == LET r == requests[i] IN
    /\ r.kind = "decide" /\ r.at \in {"accepted", "refused"}
    /\ requests' = Left(i)
    /\ busy' = FALSE
    /\ UNCHANGED <<serverVars, session, entry, workspace, listed, selected, thread, moved,
                   overtaken, taps, faults>>

\* An accepted decision loads the list of the workspace of the tap; a refused one only
\* shows the error, and the card stays as it was.
DecisionAnswered(i) == LET r == requests[i] IN
    /\ r.kind = "decide"
    /\ \/ /\ r.at = "accepted"
          /\ requests' = Append(Left(i), ListLoad(r.ws, "decision", r.conv))
          /\ UNCHANGED busy
       \/ /\ r.at = "refused"
          /\ requests' = Left(i)
          /\ busy' = FALSE
    /\ UNCHANGED <<serverVars, session, entry, workspace, listed, selected, thread, moved,
                   overtaken, taps, faults>>

\* The request or its answer is lost, whatever the API has done.
DecisionFails(i) == LET r == requests[i] IN
    /\ Fault
    /\ r.kind = "decide"
    /\ requests' = Left(i)
    /\ busy' = FALSE
    /\ UNCHANGED <<serverVars, session, entry, workspace, listed, selected, thread, moved,
                   overtaken, taps>>

-----------------------------------------------------------------------------
Answering ==
    \/ SessionLoaded \/ LoggedIn \/ WorkspacesLoaded
    \/ \E i \in Open :
          \/ ServeDecision(i) \/ ServeList(i)
          \/ ApplyList(i) \/ ApplyThread(i) \/ DecisionAnswered(i)

Next ==
    \/ Answering
    \/ Login \/ Refresh
    \/ \E w \in Workspaces : SwitchWorkspace(w)
    \/ \E c \in Conversations : Select(c)
    \/ \E c \in Coding : OthersDecide(c) \/ \E answer \in Answers : Decide(c, answer)
    \/ EntryFails
    \/ \E i \in Open : ListFails(i) \/ ThreadFails(i) \/ DecisionFails(i)

Spec == Init /\ [][Next]_vars

-----------------------------------------------------------------------------
Quiet == requests = << >> /\ entry.at = "done"
Orderly == ~overtaken /\ ~moved /\ faults = 0

\* When everything has been answered, the messages on the screen are those of the
\* conversation that is selected, and the lists those of the workspace, unless answers
\* overtook each other, the screen moved on during a decision, or a request failed.
\* (loadThread, loadConversationData)
ScreenFollowsTheReader ==
    Quiet /\ Orderly => /\ thread = selected /\ listed.ws = workspace
                        /\ selected # Nothing => selected \in Listed(workspace)

\* The buttons of the cards are disabled exactly while a decision is under way.
\* (setIsApprovalBusy in decideApproval)
BusyMeansDeciding ==
    busy <=> \E i \in Open : \/ requests[i].kind = "decide"
                             \/ requests[i].kind # "decide" /\ requests[i].by = "decision"

\* Once a decision of this phone has been accepted and everything has been answered, no card of
\* that workflow is offered for a decision any more, under the same conditions.
\* (decideApproval, listApprovalRequests)
OwnDecisionsShow ==
    Quiet /\ Orderly =>
        \A c \in decided : \A i \in DOMAIN listed.cards[c] : listed.cards[c][i] # "pending"

\* The screen tells the truth about where the reader is, what the phone is doing and what
\* it has decided.
ScreenIsSound == TypeOK /\ ScreenFollowsTheReader /\ BusyMeansDeciding /\ OwnDecisionsShow

\* The shell comes to rest: whatever fails, the boot and a login end and the buttons of the
\* cards work again.  (the finally branches of boot, submitLogin and decideApproval)
ShellComesToRest == []<>(entry.at = "done") /\ (busy ~> ~busy)
=============================================================================
