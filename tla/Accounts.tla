-------------------------------- MODULE Accounts --------------------------------
(***************************************************************************)
(* Accounts and sessions: signup, login, logout and the request of a       *)
(* password reset.  A login counts itself in two buckets of the rate       *)
(* limiter, one of its account and one of its network, checks the password *)
(* and then, in one transaction, revokes the sessions it can see, inserts  *)
(* its own and records itself.  Several of them overlap, for one account   *)
(* as well; every step is one statement, one call of the limiter or one    *)
(* COMMIT.  The sessions a revoking UPDATE touches are those committed     *)
(* when the statement started: waiting for a row another login has locked  *)
(* changes nothing, since that login revokes the row too.                  *)
(***************************************************************************)
EXTENDS Naturals, Sequences, FiniteSets

CONSTANTS
    People,       \* addresses a login can name; an account may exist or not
    Networks,     \* IP addresses the logins come from
    Calls,        \* login and reset calls that can be in progress at the same time
    Nobody,       \* NULL
    EmailLimit, IpLimit, \* attempts of an account and of a network in one window
    Window,       \* the length of a window
    MaxCalls,     \* bound on logins
    MaxResets,    \* bound on reset requests
    MaxClock,     \* bound on time
    MaxDeaths     \* bound on calls that fail half way and on restarts of the API

AccountsAssumption ==
    /\ Nobody \notin People \cup Networks
    /\ EmailLimit \in Nat \ {0} /\ IpLimit \in Nat \ {0} /\ Window \in Nat \ {0}
    /\ MaxCalls \in Nat /\ MaxResets \in Nat /\ MaxClock \in Nat /\ MaxDeaths \in Nat

VARIABLES
    users,    \* people with an account: users, auth_credentials and a default workspace
    sessions, \* rows of auth_sessions in the order of their COMMITs
    attempts, \* attempts[i]: the outcomes auth_login_audit_events has of login i
    buckets,  \* what the limiter has counted, by key
    admitted, \* history: admitted[k], the times at which the limiter admitted key k
    reset,    \* reset[p]: the call whose token auth_credentials of p holds
    call,     \* call[c]: what call c has still to do
    backend,  \* "memory" or "redis": where the buckets are kept
    lost,     \* whether a restart has emptied the buckets
    clock, calls, resets, deaths

vars == <<users, sessions, attempts, buckets, admitted, reset, call,
          backend, lost, clock, calls, resets, deaths>>

Namespaces == {"auth.login", "auth.password-reset"}
Keys == Namespaces \X (({"email"} \X People) \cup ({"ip"} \X Networks))

\* id: the login the session belongs to, 0 for a signup; seen: the number of sessions
\* that were committed when its login ran the UPDATE that revokes the others.
SessionRow == [user : People, id : 0..MaxCalls, seen : Nat, revoked : BOOLEAN]
Outcomes == {"failed", "rate_limited", "succeeded"}

Gone == [at |-> "none", id |-> 0, kind |-> "auth.login", email |-> Nobody, ip |-> Nobody,
         seen |-> 0]

TypeOK ==
    /\ users \subseteq People
    /\ sessions \in Seq(SessionRow)
    /\ attempts \in [1..MaxCalls -> Seq(Outcomes)]
    /\ admitted \in [Keys -> Seq(0..MaxClock)]
    /\ \A k \in DOMAIN buckets : k \in Keys /\ buckets[k] \in [count : Nat \ {0}, resetAt : Nat]
    /\ reset \in [People -> 0..MaxResets]
    /\ \A c \in Calls :
          /\ call[c].at \in {"none", "email", "ip", "limited", "verify", "failed", "revoke", "commit", "token"}
          /\ call[c].kind \in Namespaces
    /\ clock \in 0..MaxClock

Init ==
    /\ users = {}
    /\ sessions = << >>
    /\ attempts = [i \in 1..MaxCalls |-> << >>]
    /\ buckets = << >>
    /\ admitted = [k \in Keys |-> << >>]
    /\ reset = [p \in People |-> 0]
    /\ call = [c \in Calls |-> Gone]
    /\ backend \in {"memory", "redis"}
    /\ lost = FALSE
    /\ clock = 0 /\ calls = 0 /\ resets = 0 /\ deaths = 0

Step(c, at) == call' = [call EXCEPT ![c].at = at]
Return(c) == call' = [call EXCEPT ![c] = Gone]
Quiet == UNCHANGED <<backend, lost, clock, calls, resets, deaths>>

-----------------------------------------------------------------------------
(***************************************************************************)
(* Signup and logout: one transaction, one statement                       *)
(***************************************************************************)
\* issueSession: one more row, with the sessions its login has looked at.
IssueSession(rows, p, id, seen) ==
    Append(rows, [user |-> p, id |-> id, seen |-> seen, revoked |-> FALSE])

\* User, credentials, default workspace, owner membership and session commit together.
\* A second signup of the address waits for the first and is a Conflict.
Signup(p) ==
    /\ p \notin users
    /\ users' = users \cup {p}
    /\ sessions' = IssueSession(sessions, p, 0, Len(sessions))
    /\ UNCHANGED <<attempts, buckets, admitted, reset, call>> /\ Quiet

\* The holder of a session leaves; only the session of the cookie is revoked.
Logout(i) ==
    /\ ~sessions[i].revoked
    /\ sessions' = [sessions EXCEPT ![i].revoked = TRUE]
    /\ UNCHANGED <<users, attempts, buckets, admitted, reset, call>> /\ Quiet

-----------------------------------------------------------------------------
(***************************************************************************)
(* The limiter: fixed windows that begin with the first attempt            *)
(***************************************************************************)
\* Mutant: the remaining time of a window is compared the wrong way round.
Allows_WhileOpen(k, limit) ==
    k \in DOMAIN buckets => (buckets[k].resetAt > clock \/ buckets[k].count < limit)

\* Whether consume admits the next attempt of a key.
Allows(k, limit) ==
    k \in DOMAIN buckets => (buckets[k].resetAt <= clock \/ buckets[k].count < limit)

\* A window begins, or one more attempt is counted; a refused attempt counts nothing.
\* The Redis script and the map of the process do the same, each in one go.
Counted(k) ==
    IF k \in DOMAIN buckets /\ buckets[k].resetAt > clock
    THEN [buckets EXCEPT ![k].count = @ + 1]
    ELSE [x \in DOMAIN buckets \cup {k} |->
             IF x = k THEN [count |-> 1, resetAt |-> clock + Window] ELSE buckets[x]]

Consume(k, limit) ==
    /\ Allows(k, limit)
    /\ buckets' = Counted(k)
    /\ admitted' = [admitted EXCEPT ![k] = Append(@, clock)]

-----------------------------------------------------------------------------
(***************************************************************************)
(* login and requestPasswordReset                                          *)
(***************************************************************************)
StartLogin(c, p, n) ==
    /\ call[c] = Gone /\ calls < MaxCalls
    /\ calls' = calls + 1
    /\ call' = [call EXCEPT ![c] = [at |-> "email", id |-> calls + 1, kind |-> "auth.login", email |-> p,
                                    ip |-> n, seen |-> 0]]
    /\ UNCHANGED <<users, sessions, attempts, buckets, admitted, reset, backend, lost, clock, resets, deaths>>

StartReset(c, p, n) ==
    /\ call[c] = Gone /\ resets < MaxResets
    /\ resets' = resets + 1
    /\ call' = [call EXCEPT ![c] = [at |-> "email", id |-> resets + 1, kind |-> "auth.password-reset",
                                    email |-> p, ip |-> n, seen |-> 0]]
    /\ UNCHANGED <<users, sessions, attempts, buckets, admitted, reset, backend, lost, clock, calls, deaths>>

\* A refused login is recorded before the answer, a refused reset is only answered.
Refused(c) == IF call[c].kind = "auth.login" THEN Step(c, "limited") ELSE Return(c)
Admitted(c) == IF call[c].kind = "auth.login" THEN Step(c, "verify") ELSE Step(c, "token")

\* consumePair asks for the account first; an attempt the network refuses has been
\* counted for the account already.
ConsumeEmail(c) ==
    /\ call[c].at = "email"
    /\ LET k == <<call[c].kind, <<"email", call[c].email>>>> IN
       \/ Consume(k, EmailLimit) /\ Step(c, "ip")
       \/ ~Allows(k, EmailLimit) /\ Refused(c) /\ UNCHANGED <<buckets, admitted>>
    /\ UNCHANGED <<users, sessions, attempts, reset>> /\ Quiet

ConsumeIp(c) ==
    /\ call[c].at = "ip"
    /\ LET k == <<call[c].kind, <<"ip", call[c].ip>>>> IN
       \/ Consume(k, IpLimit) /\ Admitted(c)
       \/ ~Allows(k, IpLimit) /\ Refused(c) /\ UNCHANGED <<buckets, admitted>>
    /\ UNCHANGED <<users, sessions, attempts, reset>> /\ Quiet

\* No account, or not its password.
Verify(c) ==
    /\ call[c].at = "verify"
    /\ Step(c, "failed") \/ (call[c].email \in users /\ Step(c, "revoke"))
    /\ UNCHANGED <<users, sessions, attempts, buckets, admitted, reset>> /\ Quiet

\* recordLoginAttempt of a login that ends with an error.
RecordFailure(c) ==
    /\ call[c].at \in {"limited", "failed"}
    /\ attempts' = [attempts EXCEPT ![call[c].id] =
           Append(@, IF call[c].at = "limited" THEN "rate_limited" ELSE "failed")]
    /\ Return(c)
    /\ UNCHANGED <<users, sessions, buckets, admitted, reset>> /\ Quiet

\* BEGIN and revokeActiveSessions: the statement sees what is committed now.
RevokeActiveSessions(c) ==
    /\ call[c].at = "revoke"
    /\ call' = [call EXCEPT ![c].at = "commit", ![c].seen = Len(sessions)]
    /\ UNCHANGED <<users, sessions, attempts, buckets, admitted, reset>> /\ Quiet

\* Mutant: the login keeps the sessions of the other devices.
Revoked_None(row, i, c) == row

\* What the UPDATE of call c has made of row i when it commits.
Revoked(row, i, c) ==
    IF row.user = call[c].email /\ i <= call[c].seen THEN [row EXCEPT !.revoked = TRUE] ELSE row

\* Mutant: the audit row is written by a connection of its own, after the COMMIT.
RecordSuccess_Later(c) == attempts

\* recordLoginAttempt with the client of the transaction.
RecordSuccess(c) ==
    [attempts EXCEPT ![call[c].id] = Append(@, "succeeded")]

\* The new session, the audit row and COMMIT.
CommitLogin(c) ==
    /\ call[c].at = "commit"
    /\ sessions' = IssueSession([i \in DOMAIN sessions |-> Revoked(sessions[i], i, c)],
                                call[c].email, call[c].id, call[c].seen)
    /\ attempts' = RecordSuccess(c)
    /\ Return(c)
    /\ UNCHANGED <<users, buckets, admitted, reset>> /\ Quiet

\* A reset of an unknown address is accepted and changes nothing; the newest token of an
\* account is the only one.  No endpoint takes the token.
StoreResetToken(c) ==
    /\ call[c].at = "token"
    /\ reset' = IF call[c].email \in users THEN [reset EXCEPT ![call[c].email] = call[c].id] ELSE reset
    /\ Return(c)
    /\ UNCHANGED <<users, sessions, attempts, buckets, admitted>> /\ Quiet

-----------------------------------------------------------------------------
\* A statement fails: an open transaction is rolled back, the rest stays.
CallDies(c) ==
    /\ call[c] # Gone /\ deaths < MaxDeaths
    /\ deaths' = deaths + 1
    /\ Return(c)
    /\ UNCHANGED <<users, sessions, attempts, buckets, admitted, reset, backend, lost, clock, calls, resets>>

\* The API restarts; buckets in its memory are gone, those in Redis are not.
ApiRestarts ==
    /\ deaths < MaxDeaths
    /\ deaths' = deaths + 1
    /\ call' = [c \in Calls |-> Gone]
    /\ IF backend = "memory" THEN buckets' = << >> /\ lost' = TRUE ELSE UNCHANGED <<buckets, lost>>
    /\ UNCHANGED <<users, sessions, attempts, admitted, reset, backend, clock, calls, resets>>

PassTime ==
    /\ clock < MaxClock
    /\ clock' = clock + 1
    /\ UNCHANGED <<users, sessions, attempts, buckets, admitted, reset, call, backend, lost, calls, resets, deaths>>

Proceed(c) ==
    \/ ConsumeEmail(c) \/ ConsumeIp(c) \/ Verify(c) \/ RecordFailure(c)
    \/ RevokeActiveSessions(c) \/ CommitLogin(c) \/ StoreResetToken(c)

Next ==
    \/ \E p \in People : Signup(p)
    \/ \E i \in DOMAIN sessions : Logout(i)
    \/ \E c \in Calls, p \in People, n \in Networks :
          StartReset(c, p, n) \/ StartLogin(c, p, n)
    \/ \E c \in Calls : Proceed(c) \/ CallDies(c)
    \/ ApiRestarts
    \/ PassTime

Spec == Init /\ [][Next]_vars

-----------------------------------------------------------------------------
\* A session is signed in while nobody has revoked it.  (getAuthenticatedUser)
Authenticated(i) == ~sessions[i].revoked

\* Two sessions of one account are signed in together only when the login of the later
\* one had already looked for sessions to revoke when the earlier one was committed:
\* logins one after the other leave one session.  (login, revokeActiveSessions)
OneSessionUnlessOverlapped ==
    \A i, j \in DOMAIN sessions :
        (i < j /\ sessions[i].user = sessions[j].user /\ Authenticated(i) /\ Authenticated(j)) =>
            sessions[j].seen < i

\* The audit tells what became of each login: one row at most, "succeeded" exactly for
\* the logins that have a session, and sessions only for accounts.  (recordLoginAttempt)
AuditTellsTheOutcome ==
    /\ \A i \in 1..MaxCalls :
          /\ Len(attempts[i]) <= 1
          /\ attempts[i] = <<"succeeded">> <=> \E k \in DOMAIN sessions : sessions[k].id = i
    /\ \A i \in DOMAIN sessions : sessions[i].user \in users

\* Whatever the order of the attempts, a key gets no more than two windows' worth of
\* them through in any stretch as long as a window, unless a restart has emptied the
\* buckets; two, because a window begins with an attempt and not with the clock.
\* (consume)
AdmittedSince(k, i) ==
    Cardinality({j \in i..Len(admitted[k]) : admitted[k][j] < admitted[k][i] + Window})
LimitsHold ==
    lost \/ \A k \in Keys : \A i \in DOMAIN admitted[k] :
        AdmittedSince(k, i) <= 2 * (IF k[2][1] = "email" THEN EmailLimit ELSE IpLimit)

AccountsAreSound ==
    TypeOK /\ OneSessionUnlessOverlapped /\ AuditTellsTheOutcome /\ LimitsHold
=============================================================================
