------------------------------- MODULE MCClients -------------------------------
(***************************************************************************)
(* The clients, for TLC: the home page of the web client with two          *)
(* conversations, or the phone with two workspaces.  They share nothing,   *)
(* so that they need not run side by side.                                 *)
(***************************************************************************)
EXTENDS ChatClient

CONSTANTS
    Looked,                       \* the clients a run looks at
    c1, c2, c3, w1, w2,
    Workspaces, Home, Coding, MaxPlans, MaxTaps

VARIABLES
    client,                       \* which of them a behaviour is about
    gate, session, entry, workspace, listed, conversation, thread, busy, requests, outrun,
    moved, decided, taps, failures

Phone == INSTANCE MobileShell
            WITH Nothing <- None, selected <- conversation, overtaken <- outrun,
                 faults <- failures

Clients == {"web", "phone"}

ASSUME LookedClients == Looked \subseteq Clients
ASSUME PhoneConstants == Phone!MobileAssumption

TwoConversations == {c1, c2}

\* A message of the second conversation has been answered before.
OneExchange == <<[conversationId |-> c2, role |-> "user"], [conversationId |-> c2, role |-> "assistant"]>>

\* A workspace with two conversations and one with a third.
TheHome == [c \in Conversations |-> IF c = c3 THEN w2 ELSE w1]

phoneVars ==
    <<gate, session, entry, workspace, listed, conversation, thread, busy, requests, outrun,
      moved, decided, taps, failures>>
allVars == <<client, vars, phoneVars>>

ClientInit == client \in Looked /\ Init /\ Phone!Init

WebStep == client = "web" /\ Next /\ UNCHANGED <<client, phoneVars>>
PhoneStep == client = "phone" /\ Phone!Next /\ UNCHANGED <<client, vars>>

ClientNext == WebStep \/ PhoneStep

ClientSpec == ClientInit /\ [][ClientNext]_allVars

\* The first conversation is open and its thread, still empty, has been fetched.
StartInit == ClientInit /\ selected = c1
StartSpec == StartInit /\ [][ClientNext]_allVars

\* As long as a fetch can be read or answered or a timer can fire, one of them does.  Nothing
\* else is owed: a teammate may never reply, an event may stay unpublished, the reader may be gone.
WebSpec == StartSpec /\ WF_vars(Refreshing)

\* What the phone has asked for is answered or fails; its user need not do anything.
PhoneSpec == StartSpec /\ WF_phoneVars(Phone!Answering)

\* The screen of the phone tells the truth about where the reader is, what the phone is
\* doing and what it has decided.  (loadThread, loadConversationData, decideApproval)
ScreenIsSound == Phone!ScreenIsSound

\* The shell comes to rest: whatever fails, the boot and a login end and the buttons of the
\* cards work again.  (the finally branches of boot, submitLogin and decideApproval)
ShellComesToRest == Phone!ShellComesToRest
=============================================================================
