--------------------------- MODULE OwnerAccessProofs ---------------------------
(***************************************************************************)
(* Accounts, model connections and runs of agents, for any number of       *)
(* people, networks, vendors, calls, requests and activities, and any      *)
(* limits.                                                                 *)
(***************************************************************************)
EXTENDS MCOwnerAccess, FiniteSetTheorems, SequenceTheorems, WellFoundedInduction, TLAPS

(***************************************************************************)
(* The inductive invariant of the accounts.                                *)
(***************************************************************************)
LoginPlaces == {"limited", "verify", "failed", "revoke", "commit"}
CallPlaces == {"none", "email", "ip", "token"} \cup LoginPlaces
CallRow == [at : CallPlaces, id : Nat, kind : Acc!Namespaces, email : People \cup {Nobody},
            ip : Networks \cup {Nobody}, seen : Nat]

\* What a call knows at each place.
CallsKnow ==
    \A c \in Calls :
        /\ call[c].at # "none" => call[c].email \in People /\ call[c].ip \in Networks
        /\ call[c].at \in LoginPlaces => call[c].kind = "auth.login"
        /\ call[c].at = "token" => call[c].kind = "auth.password-reset"
        /\ call[c].at # "none" /\ call[c].kind = "auth.password-reset" => call[c].id <= MaxResets
        /\ call[c].at \in {"revoke", "commit"} => call[c].email \in users

IsLogin(c) == call[c].at # "none" /\ call[c].kind = "auth.login"

\* A login in progress has no row in the audit and no session yet, and its id to itself.
LoginsAreNew ==
    /\ \A c \in Calls : IsLogin(c) =>
          /\ call[c].id \in 1..calls /\ attempts[call[c].id] = << >>
          /\ \A k \in DOMAIN sessions : sessions[k].id # call[c].id
    /\ \A c, d \in Calls : IsLogin(c) /\ IsLogin(d) /\ call[c].id = call[d].id => c = d
    /\ \A i \in 1..MaxCalls : i > calls => attempts[i] = << >>
    /\ \A k \in DOMAIN sessions : sessions[k].id <= calls

LimitOf(k) == IF k[2][1] = "email" THEN EmailLimit ELSE IpLimit

\* Times are in order, and as many attempts as two windows admit last as long as a window.
TimesAreSpread(times, limit) ==
    /\ \A i, j \in 1..Len(times) : i <= j => times[i] <= times[j]
    /\ \A i \in 1..Len(times) : times[i] <= clock
    /\ \A i, j \in 1..Len(times) : i + 2 * limit <= j => times[i] + Window <= times[j]

\* A bucket has counted the last attempts, the first of which began its window; the
\* attempts before the last full window are older than a window.
BucketFits(times, b, limit) ==
    /\ b.count \in 1..limit /\ b.count <= Len(times)
    /\ b.resetAt = times[Len(times) - b.count + 1] + Window
    /\ \A i \in 1..Len(times) : i + limit <= Len(times) - b.count =>
          times[i] + Window <= times[Len(times) - b.count + 1]

WindowsAreKept ==
    ~lost => \A k \in Acc!Keys :
        /\ TimesAreSpread(admitted[k], LimitOf(k))
        /\ k \in DOMAIN buckets => BucketFits(admitted[k], buckets[k], LimitOf(k))
        /\ k \notin DOMAIN buckets => admitted[k] = << >>

AccountInv ==
    /\ Acc!TypeOK /\ call \in [Calls -> CallRow] /\ lost \in BOOLEAN
    /\ calls \in 0..MaxCalls /\ resets \in 0..MaxResets
    /\ CallsKnow /\ LoginsAreNew
    /\ Acc!OneSessionUnlessOverlapped /\ Acc!AuditTellsTheOutcome
    /\ WindowsAreKept

(***************************************************************************)
(* The inductive invariant of the connections.                             *)
(***************************************************************************)
OpPlaces == {"free", "validated", "contact", "names", "insert", "mode", "lock", "consume",
             "prefer", "latest", "legacy"}
Runtimes == Providers \cup {"opencode"}
OpRow == [at : OpPlaces, provider : Runtimes \cup {Nothing}, vendor : Vendors \cup {Nothing},
          connection : Nat, occupied : SUBSET Names, tries : Nat, nested : BOOLEAN,
          units : Nat, since : Nat]

\* Requests that may still make an agent.
Makes == {"validated", "contact", "names", "insert"}
Making == {q \in Ops : op[q].at \in Makes}

\* What a request knows at each place.
OpKnows(q) ==
    /\ op[q].at \in Makes => op[q].provider \in Providers /\ op[q].vendor \in Vendors
    /\ op[q].at \in {"contact", "names", "insert", "prefer", "latest", "legacy"} =>
          op[q].connection \in DOMAIN creds
    /\ op[q].at = "contact" =>
          /\ creds[op[q].connection].provider = op[q].provider
          /\ creds[op[q].connection].vendor = op[q].vendor
    /\ op[q].at \in {"names", "insert"} =>
          /\ creds[op[q].connection].valid
          /\ creds[op[q].connection].provider \in Family(op[q].provider)
    /\ op[q].at = "insert" => op[q].occupied \subseteq DOMAIN agents
    /\ op[q].at = "mode" => op[q].provider \in pool
    /\ op[q].at = "mode" => op[q].provider \in Platform
    /\ op[q].at \in {"lock", "consume"} => op[q].since \in 0..MaxPeriod
    /\ op[q].at = "consume" => quota[op[q].since] + op[q].units <= QuotaLimit
    /\ op[q].at \in {"prefer", "latest", "legacy"} =>
          op[q].since <= Len(creds) /\ op[q].provider \in Runtimes
    /\ op[q].at \in {"latest", "legacy"} =>
          op[q].connection \notin UsableOf(Family(op[q].provider))
    /\ op[q].at = "legacy" =>
          op[q].provider = "opencode" /\ \A j \in UsableOf({"opencode"}) : j > op[q].since

\* Requests between the lock of a period and the COMMIT have it to themselves.
OneHolder ==
    \A q, r \in Ops : op[q].at = "consume" /\ op[r].at = "consume" /\ op[q].since = op[r].since
                      => q = r

\* A connection on its way to its contact is alone with its vendor and the newest, unless two
\* of them crossed.
NewestIsOnItsWay ==
    \A q \in Ops : op[q].at = "contact" /\ op[q].vendor \notin crossed =>
        /\ \A r \in Ops : op[r].at = "contact" /\ op[r].vendor = op[q].vendor => r = q
        /\ \A j \in DOMAIN creds :
              creds[j].vendor = op[q].vendor /\ creds[j].contacted => j < op[q].connection

\* Each request makes one agent at most, so that a number is left for the next name.
NamesAreLeft ==
    /\ IsFiniteSet(Making) /\ IsFiniteSet(DOMAIN agents)
    /\ Cardinality(DOMAIN agents) + Cardinality(Making) <= ops + 1
    /\ ops \in 0..MaxOps

ConnectionInv ==
    /\ ConnectionsAreSound
    /\ op \in [Ops -> OpRow]
    /\ \A q \in Ops : OpKnows(q)
    /\ OneHolder /\ NewestIsOnItsWay /\ NamesAreLeft

(***************************************************************************)
(* The inductive invariant of the runs of agents.                          *)
(***************************************************************************)
AgentPlaces == {"unborn", "key", "isolate", "root", "tree", "copy", "unroot", "port", "serve",
                "talk", "diff", "close", "untree", "unplace", "report", "done", "dead"}
AttemptRow == [at : AgentPlaces, place : {"none", "direct", "tree", "copy"},
               port : Ports \cup {0}, said : 0..Whole, edited : {"no", "yes", "indexed"},
               diff : BOOLEAN, err : {"none", "final", "again"}]
OutcomeRow == [by : 0..MaxAttempts, said : 0..Whole, artifacts : {"none", "diff", "drafts"},
               drafts : 0..MaxDrafts, status : {"open", "answered", "failed"}]
ActivityRow == [kind : Agent!Kinds, vendor : AgentVendors, last : 0..MaxAttempts,
                outcome : OutcomeRow]

AgentTypes ==
    /\ host \in Hosts /\ faults \in Nat
    /\ activity \in [Runs -> ActivityRow]
    /\ attempt \in [Runs -> [Agent!Numbers -> AttemptRow]]
    /\ roots \subseteq Agent!Attempts /\ trees \subseteq Agent!Attempts
    /\ touched \subseteq Agent!Attempts /\ unremoved \subseteq Agent!Attempts
    /\ unclean \subseteq Agent!Attempts
    /\ DOMAIN servers \subseteq Agent!Attempts

\* Where an attempt that has a worktree is, and where it has only to report.
InTree == {"port", "serve", "talk", "diff", "close", "untree"}
Over == {"report", "done", "dead"}

\* What is left of an attempt, by the place it has got to.
Leaves(a) ==
    LET row == Agent!Of(a) IN
    /\ a \in unclean => row.at \in Over
    /\ a \in roots =>
          \/ a \in unclean
          \/ row.at \in {"tree", "copy", "unroot", "untree", "unplace"}
          \/ row.at \in InTree /\ row.place \in {"tree", "copy"}
    /\ row.at = "tree" \/ (row.at \in InTree /\ row.place = "tree") => a \in roots
    /\ a \in trees =>
          \/ a \in unremoved
          \/ a \in roots /\ (a \in unclean \/ (row.at \in InTree /\ row.place = "tree"))
    /\ row.at \in {"port", "serve", "talk", "diff"} /\ row.place = "tree" => a \in trees
    /\ a \in DOMAIN servers =>
          Agent!Vendor(a) = "opencode" /\ (a \in unclean \/ row.at \in {"talk", "diff", "close"})

\* What an attempt has behind it at each place.
Behind(a) ==
    LET row == Agent!Of(a) IN
    /\ a[2] > activity[a[1]].last => row = Agent!Unborn
    /\ row.at \in {"port", "serve"} => Agent!Vendor(a) = "opencode"
    /\ row.edited # "no" => Agent!WorksOnFiles(Agent!Vendor(a))
    /\ row.at \in {"isolate", "root", "tree", "copy", "unroot"} \/ row.place # "none" =>
          Agent!WorksOnFiles(Agent!Vendor(a))
    /\ row.place = "direct" => ~host.sandboxed
    /\ row.at \in {"key", "isolate", "root", "tree", "copy", "unroot"} => row.place = "none"
    /\ row.at = "unroot" => row.err # "none"
    /\ row.at \in {"diff", "close", "untree", "unplace", "report"} /\ row.err = "none" =>
          row.said = Whole \/ faults > 0
    /\ row.at \in {"close", "untree", "unplace", "report"} /\ row.err = "none"
          /\ row.edited = "yes" /\ row.place # "direct" /\ faults = 0 => row.diff

\* What an activity tells of its attempts.
OutcomeFits(r) ==
    LET o == activity[r].outcome
        last == activity[r].last
    IN /\ last <= Agent!AttemptsOf(r)
       /\ o.status = "open" /\ last > 0 => attempt[r][last].at # "done"
       /\ o.status = "answered" =>
             /\ last > 0 /\ o.by = last /\ attempt[r][last].at = "done"
             /\ attempt[r][last].err = "none"
             /\ o.said = Whole \/ faults > 0
             /\ o.artifacts = "drafts" <=> o.drafts > 0
             /\ attempt[r][last].edited = "yes" /\ attempt[r][last].place # "direct"
                 /\ activity[r].kind # "group" /\ faults = 0 => o.artifacts # "none"
       /\ o.status = "failed" =>
             \/ last = Agent!AttemptsOf(r)
             \/ o.by > 0 /\ attempt[r][o.by].at = "done" /\ attempt[r][o.by].err = "final"
       /\ \A k \in 1..(last - 1) : attempt[r][k].at = "done" => attempt[r][k].err # "final"

AgentInv ==
    /\ AgentTypes
    /\ \A a \in Agent!Attempts : Leaves(a) /\ Behind(a)
    /\ \A r \in Runs : OutcomeFits(r)
    /\ Agent!PortsAreApart
    /\ touched # {} => ~host.sandboxed
    /\ faults = 0 => unclean = {} /\ unremoved = {}

Inv ==
    /\ area \in {"account", "providers", "agents"}
    /\ area = "account" => AccountInv
    /\ area = "agents" => AgentInv
    /\ ConnectionInv

-----------------------------------------------------------------------------
(***************************************************************************)
(* The limiter.                                                            *)
(***************************************************************************)
LEMMA SameCount == ASSUME NEW S PROVE Acc!Cardinality(S) = Cardinality(S)
BY Zenon DEF Acc!Cardinality, Cardinality, Acc!IsFiniteSet, IsFiniteSet

LEMMA Limits ==
    /\ Window \in Nat \ {0} /\ MaxClock \in Nat
    /\ MaxCalls \in Nat /\ MaxResets \in Nat
    /\ \A k : LimitOf(k) \in Nat \ {0}
    /\ Nobody \notin People \cup Networks
BY AccountConstants DEF Acc!AccountsAssumption, LimitOf

LEMMA Later ==
    ASSUME NEW a \in Nat, NEW b \in Nat, NEW c \in Nat, NEW w \in Nat, a <= b, b + w <= c
    PROVE  a + w <= c
OBVIOUS

LEMMA TimesAreNumbers ==
    ASSUME NEW times \in Seq(0..MaxClock)
    PROVE  /\ Len(times) \in Nat /\ DOMAIN times = 1..Len(times)
           /\ \A i \in 1..Len(times) : times[i] \in 0..MaxClock /\ times[i] \in Nat
<1>1. Len(times) \in Nat /\ DOMAIN times = 1..Len(times)  OBVIOUS
<1>2. \A i \in 1..Len(times) : times[i] \in 0..MaxClock  BY ElementOfSeq
<1> QED  BY <1>1, <1>2, Limits

\* Times that are spread let no more than two windows' worth through at once.
LEMMA SpreadIsEnough ==
    ASSUME Acc!TypeOK, WindowsAreKept
    PROVE  Acc!LimitsHold
<1> SUFFICES ASSUME ~lost, NEW k \in Acc!Keys, NEW i \in DOMAIN admitted[k]
             PROVE  Acc!AdmittedSince(k, i) <= 2 * LimitOf(k)
  BY DEF Acc!LimitsHold, LimitOf
<1> DEFINE L == LimitOf(k)
           times == admitted[k]
           S == {j \in i..Len(times) : times[j] < times[i] + Window}
<1>1. times \in Seq(0..MaxClock) /\ Len(times) \in Nat /\ i \in 1..Len(times)
  BY DEF Acc!TypeOK
<1>2. L \in Nat \ {0} /\ Window \in Nat  BY Limits
<1>3. \A j \in 1..Len(times) : times[j] \in Nat
  BY <1>1, TimesAreNumbers
<1>4. \A j \in 1..Len(times) : i + 2 * L <= j => times[i] + Window <= times[j]
  BY <1>1 DEF WindowsAreKept, TimesAreSpread
<1> HIDE DEF L, times
<1>5. S \subseteq i..(i + 2 * L - 1)
  BY <1>1, <1>2, <1>3, <1>4
<1>6. IsFiniteSet(i..(i + 2 * L - 1)) /\ Cardinality(i..(i + 2 * L - 1)) = 2 * L
  <2>1. i \in Int /\ i + 2 * L - 1 \in Int /\ ~(i > i + 2 * L - 1)
        /\ (i + 2 * L - 1) - i + 1 = 2 * L
    BY <1>1, <1>2
  <2> QED  BY <2>1, FS_Interval
<1>7. Cardinality(S) <= 2 * L
  BY <1>5, <1>6, FS_Subset
<1> QED  BY <1>7, SameCount DEF Acc!AdmittedSince, L, times

\* Time may pass as long as nothing else happens.
LEMMA WindowsStay ==
    ASSUME Acc!TypeOK, WindowsAreKept, UNCHANGED <<admitted, buckets, lost>>,
           clock' \in Nat, clock' >= clock
    PROVE  WindowsAreKept'
<1> SUFFICES ASSUME ~lost, NEW k \in Acc!Keys
             PROVE  TimesAreSpread(admitted[k], LimitOf(k))'
  BY DEF WindowsAreKept, BucketFits, LimitOf
<1>1. admitted[k] \in Seq(0..MaxClock)  BY DEF Acc!TypeOK
<1>2. \A i \in 1..Len(admitted[k]) : admitted[k][i] \in Nat
  BY <1>1, TimesAreNumbers
<1>3. TimesAreSpread(admitted[k], LimitOf(k))  BY DEF WindowsAreKept
<1>4. clock \in Nat  BY Limits DEF Acc!TypeOK
<1> DEFINE times == admitted[k]
           L == LimitOf(k)
<1>5. /\ \A i, j \in 1..Len(times) : i <= j => times[i] <= times[j]
      /\ \A i \in 1..Len(times) : times[i] <= clock
      /\ \A i, j \in 1..Len(times) : i + 2 * L <= j => times[i] + Window <= times[j]
  BY <1>3 DEF TimesAreSpread
<1>6. times' = times /\ LimitOf(k)' = L  BY DEF LimitOf
<1>7. \A i \in 1..Len(times) : times[i] <= clock'
  <2> SUFFICES ASSUME NEW i \in 1..Len(times) PROVE times[i] <= clock'  OBVIOUS
  <2>1. times[i] \in Nat /\ times[i] <= clock  BY <1>2, <1>5
  <2> HIDE DEF times
  <2> QED  BY <1>4, <2>1
<1> HIDE DEF times, L
<1> QED  BY <1>5, <1>6, <1>7 DEF TimesAreSpread, times

\* One more attempt is admitted, into the window that is open or into a new one.
LEMMA OneMoreAttempt ==
    ASSUME NEW times \in Seq(0..MaxClock), NEW L \in Nat \ {0}, clock \in 0..MaxClock,
           TimesAreSpread(times, L), NEW b, NEW open \in BOOLEAN,
           open \/ times # << >> => BucketFits(times, b, L),
           open => b.count < L /\ b.resetAt > clock,
           ~open /\ times # << >> => b.resetAt <= clock,
           NEW b2,
           b2 = IF open THEN [b EXCEPT !.count = @ + 1]
                ELSE [count |-> 1, resetAt |-> clock + Window],
           open => b = [count |-> b.count, resetAt |-> b.resetAt] /\ b.resetAt \in Nat,
           b.resetAt \in Nat \/ times = << >>
    PROVE  TimesAreSpread(Append(times, clock), L) /\ BucketFits(Append(times, clock), b2, L)
<1> DEFINE n == Len(times)
           more == Append(times, clock)
<1>1. /\ n \in Nat /\ Len(more) = n + 1 /\ more[n + 1] = clock
      /\ \A i \in 1..n : more[i] = times[i] /\ times[i] \in Nat
  BY TimesAreNumbers, AppendProperties
<1>2. Window \in Nat \ {0} /\ MaxClock \in Nat /\ clock \in Nat  BY Limits
<1>3. times # << >> <=> n > 0  OBVIOUS
<1>4. /\ \A i, j \in 1..n : i <= j => times[i] <= times[j]
      /\ \A i \in 1..n : times[i] <= clock
      /\ \A i, j \in 1..n : i + 2 * L <= j => times[i] + Window <= times[j]
  BY DEF TimesAreSpread
<1> HIDE DEF n, more
\* Whatever is a window's worth of attempts back is older than a window.
<1>5. ASSUME ~open, NEW i \in 1..n, i + L <= n PROVE times[i] + Window <= clock
  <2> DEFINE m == n - b.count + 1
  <2>1. /\ b.count \in 1..L /\ b.count <= n /\ b.resetAt = times[m] + Window /\ b.resetAt <= clock
    BY <1>1, <1>3, <1>5 DEF BucketFits, n
  <2>2. m \in 1..n /\ i <= m  BY <1>1, <1>5, <2>1, SMTT(60)
  <2>3. times[i] <= times[m] /\ times[i] \in Nat /\ times[m] \in Nat  BY <1>1, <1>4, <2>2
  <2>4. times[m] + Window <= clock  BY <2>1
  <2> HIDE DEF m
  <2> QED  BY <1>2, <2>3, <2>4, Later
<1>6. ASSUME open
      PROVE  LET m == n - b.count + 1 IN
             /\ b.count \in 1..(L - 1) /\ m \in 1..n /\ b.resetAt = times[m] + Window
             /\ \A i \in 1..n : i + L <= n - b.count => times[i] + Window <= times[m]
  BY <1>1, <1>6 DEF BucketFits, n
<1>7. ASSUME NEW i \in 1..n, i + 2 * L <= n + 1 PROVE times[i] + Window <= clock
  <2>1. CASE ~open  BY <1>1, <1>5, <1>7, <2>1
  <2>2. CASE open
    <3> DEFINE m == n - b.count + 1
    <3>1. /\ b.count \in 1..(L - 1) /\ m \in 1..n
          /\ \A j \in 1..n : j + L <= n - b.count => times[j] + Window <= times[m]
      BY <1>6, <2>2
    <3>2. i + L <= n - b.count  BY <1>1, <1>7, <3>1, SMTT(60)
    <3>3. times[i] + Window <= times[m] /\ times[m] <= clock  BY <1>4, <3>1, <3>2
    <3>4. times[i] \in Nat /\ times[m] \in Nat  BY <1>1, <3>1
    <3>5. times[i] + Window \in Nat  BY <1>2, <3>4
    <3> HIDE DEF m
    <3> QED  BY <1>2, <3>3, <3>4, <3>5, SMTT(60)
  <2> QED  BY <2>1, <2>2
<1>8. TimesAreSpread(more, L)
  <2>1. \A i, j \in 1..(n + 1) : i <= j => more[i] <= more[j]
    BY <1>1, <1>2, <1>4, SMTT(60)
  <2>2. \A i \in 1..(n + 1) : more[i] <= clock
    BY <1>1, <1>2, <1>4
  <2>3. ASSUME NEW i \in 1..(n + 1), NEW j \in 1..(n + 1), i + 2 * L <= j
        PROVE  more[i] + Window <= more[j]
    <3>1. i \in 1..n  BY <1>1, <2>3
    <3>2. CASE j = n + 1  BY <1>1, <1>7, <2>3, <3>1, <3>2
    <3>3. CASE j \in 1..n  BY <1>1, <1>4, <2>3, <3>1, <3>3
    <3> QED  BY <1>1, <3>2, <3>3
  <2> QED  BY <1>1, <2>1, <2>2, <2>3 DEF TimesAreSpread
<1>9. BucketFits(more, b2, L)
  <2>1. CASE ~open
    <3>1. b2.count = 1 /\ b2.resetAt = clock + Window  BY <2>1
    <3>2. \A i \in 1..(n + 1) : i + L <= n => more[i] + Window <= clock
      BY <1>1, <1>5, <2>1
    <3> QED  BY <1>1, <3>1, <3>2 DEF BucketFits
  <2>2. CASE open
    <3> DEFINE m == n - b.count + 1
    <3>1. /\ b.count \in 1..(L - 1) /\ m \in 1..n /\ b.resetAt = times[m] + Window
          /\ \A i \in 1..n : i + L <= n - b.count => times[i] + Window <= times[m]
      BY <1>6, <2>2
    <3>2. b2.count = b.count + 1 /\ b2.resetAt = b.resetAt  BY <2>2
    <3>3. (n + 1) - b2.count + 1 = m /\ (n + 1) - b2.count = n - b.count  BY <1>1, <3>1, <3>2, SMTT(60)
    <3>4. \A i \in 1..(n + 1) : i + L <= n - b.count => i \in 1..n
      BY <1>1, <3>1
    <3>5. \A i \in 1..(n + 1) : i + L <= n - b.count => more[i] + Window <= more[m]
      BY <1>1, <3>1, <3>4
    <3>6. b2.count \in 1..L /\ b2.count <= n + 1  BY <1>1, <3>1, <3>2, SMTT(60)
    <3>7. b2.resetAt = more[m] + Window  BY <1>1, <3>1, <3>2
    <3> HIDE DEF m
    <3> QED  BY <1>1, <3>3, <3>5, <3>6, <3>7 DEF BucketFits
  <2> QED  BY <2>1, <2>2
<1> QED  BY <1>8, <1>9 DEF more

LEMMA AnAttemptIsCounted ==
    ASSUME Acc!TypeOK, WindowsAreKept, lost \in BOOLEAN, NEW k \in Acc!Keys,
           Acc!Consume(k, LimitOf(k)), UNCHANGED <<lost, clock>>
    PROVE  /\ WindowsAreKept'
           /\ admitted' \in [Acc!Keys -> Seq(0..MaxClock)]
           /\ \A x \in DOMAIN buckets' :
                 x \in Acc!Keys /\ buckets'[x] \in [count : Nat \ {0}, resetAt : Nat]
<1> DEFINE b == buckets[k]
           open == k \in DOMAIN buckets /\ buckets[k].resetAt > clock
           b2 == buckets'[k]
           L == LimitOf(k)
           new == IF open THEN [b EXCEPT !.count = @ + 1]
                  ELSE [count |-> 1, resetAt |-> clock + Window]
<1>1. clock \in 0..MaxClock /\ clock \in Nat /\ Window \in Nat \ {0} /\ L \in Nat \ {0}
  BY Limits DEF Acc!TypeOK
<1>2. /\ admitted \in [Acc!Keys -> Seq(0..MaxClock)]
      /\ \A x \in DOMAIN buckets : x \in Acc!Keys /\ buckets[x] \in [count : Nat \ {0}, resetAt : Nat]
  BY DEF Acc!TypeOK
<1>3. /\ admitted' = [admitted EXCEPT ![k] = Append(@, clock)]
      /\ k \in DOMAIN buckets => (b.resetAt <= clock \/ b.count < L)
  BY DEF Acc!Consume, Acc!Allows
<1>4. /\ DOMAIN buckets' = DOMAIN buckets \cup {k}
      /\ b2 = new
      /\ \A x \in DOMAIN buckets : x # k => buckets'[x] = buckets[x]
  <2>1. buckets' = Acc!Counted(k)  BY DEF Acc!Consume
  <2>2. CASE open
    <3>1. buckets' = [buckets EXCEPT ![k].count = @ + 1]  BY <2>1, <2>2 DEF Acc!Counted
    <3> QED  BY <2>2, <3>1
  <2>3. CASE ~open
    <3>1. buckets' = [x \in DOMAIN buckets \cup {k} |->
                        IF x = k THEN [count |-> 1, resetAt |-> clock + Window] ELSE buckets[x]]
      BY <2>1, <2>3 DEF Acc!Counted
    <3> QED  BY <2>3, <3>1
  <2> QED  BY <2>2, <2>3
<1>5. b2 \in [count : Nat \ {0}, resetAt : Nat]
  <2>1. CASE open
    <3>1. b \in [count : Nat \ {0}, resetAt : Nat]  BY <1>2, <2>1
    <3>2. b2 = [b EXCEPT !.count = @ + 1]  BY <1>4, <2>1
    <3> HIDE DEF b, b2
    <3> QED  BY <3>1, <3>2
  <2>2. CASE ~open  BY <1>1, <1>4, <2>2
  <2> QED  BY <2>1, <2>2
<1>6. /\ admitted' \in [Acc!Keys -> Seq(0..MaxClock)]
      /\ admitted'[k] = Append(admitted[k], clock)
      /\ \A x \in Acc!Keys : x # k => admitted'[x] = admitted[x]
  <2>1. Append(admitted[k], clock) \in Seq(0..MaxClock)  BY <1>1, <1>2
  <2> QED  BY <1>2, <1>3, <2>1
<1>7. ASSUME ~lost
      PROVE  TimesAreSpread(admitted'[k], L) /\ BucketFits(admitted'[k], b2, L)
  <2>1. /\ TimesAreSpread(admitted[k], L)
        /\ k \in DOMAIN buckets => BucketFits(admitted[k], b, L)
        /\ k \notin DOMAIN buckets => admitted[k] = << >>
    BY <1>7 DEF WindowsAreKept
  <2>2. admitted[k] \in Seq(0..MaxClock)  BY <1>2
  <2>3. k \in DOMAIN buckets => b \in [count : Nat \ {0}, resetAt : Nat]  BY <1>2
  <2>4. open \/ admitted[k] # << >> => BucketFits(admitted[k], b, L)  BY <2>1
  <2>5. open => b.count < L /\ b.resetAt > clock
    BY <1>1, <1>3, <2>3
  <2>6. ~open /\ admitted[k] # << >> => b.resetAt <= clock  BY <1>1, <2>1, <2>3
  <2>7. open => b = [count |-> b.count, resetAt |-> b.resetAt] /\ b.resetAt \in Nat
    BY <2>3
  <2>8. b.resetAt \in Nat \/ admitted[k] = << >>  BY <2>1, <2>3
  <2>9. open \in BOOLEAN  OBVIOUS
  <2>10. TimesAreSpread(admitted[k], L)  BY <2>1
  <2> HIDE DEF b, open, L, b2
  <2> QED
    BY <1>1, <1>4, <1>6, <2>2, <2>4, <2>5, <2>6, <2>7, <2>8, <2>9, <2>10, OneMoreAttempt
<1>8. WindowsAreKept'
  <2> SUFFICES ASSUME ~lost, NEW x \in Acc!Keys
               PROVE  /\ TimesAreSpread(admitted[x], LimitOf(x))'
                      /\ x \in DOMAIN buckets' => BucketFits(admitted[x], buckets[x], LimitOf(x))'
                      /\ x \notin DOMAIN buckets' => admitted'[x] = << >>
    BY DEF WindowsAreKept, Acc!Keys, Acc!Namespaces
  <2>1. CASE x = k
    <3>1. TimesAreSpread(admitted'[k], L) /\ BucketFits(admitted'[k], b2, L)  BY <1>7
    <3>2. k \in DOMAIN buckets'  BY <1>4
    <3> QED  BY <2>1, <3>1, <3>2 DEF TimesAreSpread, BucketFits, LimitOf
  <2>2. CASE x # k
    <3>1. admitted'[x] = admitted[x] /\ (x \in DOMAIN buckets' <=> x \in DOMAIN buckets)
      BY <1>4, <1>6, <2>2
    <3>2. x \in DOMAIN buckets => buckets'[x] = buckets[x]  BY <1>4, <2>2
    <3>3. /\ TimesAreSpread(admitted[x], LimitOf(x))
          /\ x \in DOMAIN buckets => BucketFits(admitted[x], buckets[x], LimitOf(x))
          /\ x \notin DOMAIN buckets => admitted[x] = << >>
      BY DEF WindowsAreKept
    <3> QED  BY <3>1, <3>2, <3>3 DEF TimesAreSpread, BucketFits, LimitOf
  <2> QED  BY <2>1, <2>2
<1>9. \A x \in DOMAIN buckets' : x \in Acc!Keys /\ buckets'[x] \in [count : Nat \ {0}, resetAt : Nat]
  BY <1>2, <1>4, <1>5
<1> QED  BY <1>6, <1>8, <1>9

-----------------------------------------------------------------------------
(***************************************************************************)
(* The calls.                                                              *)
(***************************************************************************)
\* Call c goes to place p and keeps what it knows; the others stay where they are.
Goes(c, p) ==
    /\ call' \in [Calls -> CallRow]
    /\ \A d \in Calls : d # c => call'[d] = call[d]
    /\ call'[c].at = p
    /\ p # "none" => /\ call'[c].id = call[c].id /\ call'[c].kind = call[c].kind
                     /\ call'[c].email = call[c].email /\ call'[c].ip = call[c].ip

LEMMA GoneIsACall == Acc!Gone \in CallRow /\ Acc!Gone.at = "none"
BY DEF Acc!Gone, CallRow, CallPlaces, Acc!Namespaces

LEMMA StepGoes ==
    ASSUME call \in [Calls -> CallRow], NEW c \in Calls, NEW p \in CallPlaces, Acc!Step(c, p)
    PROVE  Goes(c, p)
<1>1. call' = [call EXCEPT ![c].at = p]  BY DEF Acc!Step
<1>2. [call[c] EXCEPT !.at = p] \in CallRow  BY DEF CallRow
<1> QED  BY <1>1, <1>2 DEF Goes, CallRow

LEMMA ReturnGoes ==
    ASSUME call \in [Calls -> CallRow], NEW c \in Calls, Acc!Return(c)
    PROVE  Goes(c, "none")
<1>1. call' = [call EXCEPT ![c] = Acc!Gone]  BY DEF Acc!Return
<1> QED  BY <1>1, GoneIsACall DEF Goes

\* A call that goes on, or ends, without a word to the audit.
LEMMA CallGoesOn ==
    ASSUME AccountInv, NEW c \in Calls, call[c].at # "none", NEW p \in CallPlaces, Goes(c, p),
           p \in LoginPlaces => call[c].kind = "auth.login",
           p = "token" => call[c].kind = "auth.password-reset",
           p \in {"revoke", "commit"} => call[c].email \in users,
           UNCHANGED <<users, sessions, attempts, calls>>
    PROVE  CallsKnow' /\ LoginsAreNew'
<1>1. CallsKnow'
  <2> SUFFICES ASSUME NEW d \in Calls
               PROVE  /\ call'[d].at # "none" => call'[d].email \in People /\ call'[d].ip \in Networks
                      /\ call'[d].at \in LoginPlaces => call'[d].kind = "auth.login"
                      /\ call'[d].at = "token" => call'[d].kind = "auth.password-reset"
                      /\ call'[d].at # "none" /\ call'[d].kind = "auth.password-reset" =>
                            call'[d].id <= MaxResets
                      /\ call'[d].at \in {"revoke", "commit"} => call'[d].email \in users
    BY DEF CallsKnow
  <2>1. CASE d = c  BY <2>1 DEF AccountInv, CallsKnow, Goes, LoginPlaces
  <2>2. CASE d # c  BY <2>2 DEF AccountInv, CallsKnow, Goes
  <2> QED  BY <2>1, <2>2
<1>2. \A d \in Calls : IsLogin(d)' => IsLogin(d) /\ call'[d].id = call[d].id
  BY DEF Goes, IsLogin
<1>3. LoginsAreNew'
  BY <1>2 DEF AccountInv, LoginsAreNew
<1> QED  BY <1>1, <1>3

\* What the limiter's answer does to a call.
LEMMA AnswersGo ==
    ASSUME AccountInv, NEW c \in Calls, call[c].at # "none", Acc!Refused(c) \/ Acc!Admitted(c),
           UNCHANGED <<users, sessions, attempts, calls>>
    PROVE  call' \in [Calls -> CallRow] /\ CallsKnow' /\ LoginsAreNew'
<1>0. call \in [Calls -> CallRow] /\ call[c].kind \in Acc!Namespaces
  BY DEF AccountInv, CallRow
<1>1. CASE call[c].kind = "auth.login" /\ Acc!Step(c, "limited")
  BY <1>0, <1>1, StepGoes, CallGoesOn DEF Goes, CallPlaces, LoginPlaces
<1>2. CASE Acc!Return(c)
  BY <1>0, <1>2, ReturnGoes, CallGoesOn DEF Goes, CallPlaces, LoginPlaces
<1>3. CASE call[c].kind = "auth.login" /\ Acc!Step(c, "verify")
  BY <1>0, <1>3, StepGoes, CallGoesOn DEF Goes, CallPlaces, LoginPlaces
<1>4. CASE call[c].kind = "auth.password-reset" /\ Acc!Step(c, "token")
  BY <1>0, <1>4, StepGoes, CallGoesOn DEF Goes, CallPlaces, LoginPlaces
<1> QED  BY <1>0, <1>1, <1>2, <1>3, <1>4 DEF Acc!Refused, Acc!Admitted, Acc!Namespaces

\* What only the rows of the accounts say.
RowsStay == UNCHANGED <<users, sessions, attempts>>
LEMMA RowsStaySound ==
    ASSUME AccountInv, RowsStay
    PROVE  Acc!OneSessionUnlessOverlapped' /\ Acc!AuditTellsTheOutcome'
BY DEF AccountInv, RowsStay, Acc!OneSessionUnlessOverlapped, Acc!AuditTellsTheOutcome,
       Acc!Authenticated

\* The places of TypeOK follow from the rows of the calls.
LEMMA CallTypes ==
    ASSUME call' \in [Calls -> CallRow]
    PROVE  \A c \in Calls :
              /\ call'[c].at \in {"none", "email", "ip", "limited", "verify", "failed", "revoke",
                                  "commit", "token"}
              /\ call'[c].kind \in Acc!Namespaces
BY DEF CallRow, CallPlaces, LoginPlaces

LEMMA LimiterKeepsInv ==
    ASSUME AccountInv, NEW c \in Calls, Acc!ConsumeEmail(c) \/ Acc!ConsumeIp(c)
    PROVE  AccountInv'
<1>0. /\ Acc!TypeOK /\ WindowsAreKept /\ lost \in BOOLEAN /\ call \in [Calls -> CallRow]
      /\ call[c].kind \in Acc!Namespaces /\ CallsKnow
  BY DEF AccountInv, CallRow
<1>1. /\ UNCHANGED <<users, sessions, attempts, reset, lost, clock, calls, resets>>
      /\ call[c].at \in {"email", "ip"}
  BY DEF Acc!ConsumeEmail, Acc!ConsumeIp, Acc!Quiet
<1>2. call[c].email \in People /\ call[c].ip \in Networks  BY <1>0, <1>1 DEF CallsKnow
<1>3. /\ WindowsAreKept'
      /\ admitted' \in [Acc!Keys -> Seq(0..MaxClock)]
      /\ \A x \in DOMAIN buckets' :
            x \in Acc!Keys /\ buckets'[x] \in [count : Nat \ {0}, resetAt : Nat]
  <2>1. CASE UNCHANGED <<buckets, admitted>>
    <3>1. clock' \in Nat /\ clock' >= clock  BY <1>0, <1>1, Limits DEF Acc!TypeOK
    <3> QED  BY <1>0, <1>1, <2>1, <3>1, WindowsStay DEF Acc!TypeOK
  <2>2. CASE Acc!ConsumeEmail(c) /\ Acc!Consume(<<call[c].kind, <<"email", call[c].email>>>>, EmailLimit)
    <3> DEFINE k == <<call[c].kind, <<"email", call[c].email>>>>
    <3>1. k \in Acc!Keys /\ LimitOf(k) = EmailLimit  BY <1>0, <1>2 DEF Acc!Keys, LimitOf
    <3> HIDE DEF k
    <3> QED  BY <1>0, <1>1, <2>2, <3>1, AnAttemptIsCounted DEF k
  <2>3. CASE Acc!ConsumeIp(c) /\ Acc!Consume(<<call[c].kind, <<"ip", call[c].ip>>>>, IpLimit)
    <3> DEFINE k == <<call[c].kind, <<"ip", call[c].ip>>>>
    <3>1. k \in Acc!Keys /\ LimitOf(k) = IpLimit  BY <1>0, <1>2 DEF Acc!Keys, LimitOf
    <3> HIDE DEF k
    <3> QED  BY <1>0, <1>1, <2>3, <3>1, AnAttemptIsCounted DEF k
  <2> QED  BY <2>1, <2>2, <2>3 DEF Acc!ConsumeEmail, Acc!ConsumeIp
<1>4. call' \in [Calls -> CallRow] /\ CallsKnow' /\ LoginsAreNew'
  <2>1. CASE Acc!Step(c, "ip")
    BY <1>0, <1>1, <2>1, StepGoes, CallGoesOn DEF Goes, CallPlaces, LoginPlaces
  <2>2. CASE Acc!Refused(c) \/ Acc!Admitted(c)  BY <1>1, <2>2, AnswersGo
  <2> QED  BY <2>1, <2>2 DEF Acc!ConsumeEmail, Acc!ConsumeIp
<1>5. Acc!TypeOK'
  BY <1>0, <1>1, <1>3, <1>4, CallTypes DEF Acc!TypeOK
<1> QED  BY <1>0, <1>1, <1>3, <1>4, <1>5, RowsStaySound DEF AccountInv, RowsStay

\* Steps that only move calls.
LEMMA MovesKeepInv ==
    ASSUME AccountInv, call' \in [Calls -> CallRow], CallsKnow', LoginsAreNew',
           RowsStay, UNCHANGED <<buckets, admitted, lost, clock>>,
           reset' \in [People -> 0..MaxResets], calls' \in 0..MaxCalls, resets' \in 0..MaxResets
    PROVE  AccountInv'
<1>0. Acc!TypeOK /\ WindowsAreKept /\ lost \in BOOLEAN  BY DEF AccountInv
<1>1. clock' \in Nat /\ clock' >= clock  BY <1>0, Limits DEF Acc!TypeOK
<1>2. WindowsAreKept'  BY <1>0, <1>1, WindowsStay
<1>3. Acc!TypeOK'  BY <1>0, CallTypes DEF Acc!TypeOK, RowsStay
<1> QED  BY <1>0, <1>2, <1>3, RowsStaySound DEF AccountInv

LEMMA VerifyKeepsInv ==
    ASSUME AccountInv, NEW c \in Calls, Acc!Verify(c) \/ Acc!CallDies(c)
    PROVE  AccountInv'
<1>0. /\ call \in [Calls -> CallRow] /\ reset \in [People -> 0..MaxResets]
      /\ calls \in 0..MaxCalls /\ resets \in 0..MaxResets /\ CallsKnow
  BY DEF AccountInv, Acc!TypeOK
<1>1. UNCHANGED <<users, sessions, attempts, reset, buckets, admitted, lost, clock, calls, resets>>
  BY DEF Acc!Verify, Acc!CallDies, Acc!Quiet
<1>2. call' \in [Calls -> CallRow] /\ CallsKnow' /\ LoginsAreNew'
  <2>1. CASE call[c].at = "verify" /\ Acc!Step(c, "failed")
    BY <1>0, <1>1, <2>1, StepGoes, CallGoesOn DEF Goes, CallPlaces, LoginPlaces, CallsKnow
  <2>2. CASE call[c].at = "verify" /\ call[c].email \in users /\ Acc!Step(c, "revoke")
    BY <1>0, <1>1, <2>2, StepGoes, CallGoesOn DEF Goes, CallPlaces, LoginPlaces, CallsKnow
  <2>3. CASE Acc!Return(c)
    <3>1. Goes(c, "none")  BY <1>0, <2>3, ReturnGoes
    <3>2. CASE call[c].at # "none"
      BY <1>1, <3>1, <3>2, CallGoesOn DEF Goes, CallPlaces, LoginPlaces
    <3>3. CASE call[c].at = "none"
      <4>1. \A d \in Calls : call'[d] = call[d] \/ (call'[d].at = "none" /\ call[d].at = "none")
        BY <3>1, <3>3 DEF Goes
      <4>2. CallsKnow'  BY <1>0, <1>1, <4>1 DEF CallsKnow, LoginPlaces
      <4>3. LoginsAreNew'  BY <1>1, <4>1 DEF AccountInv, LoginsAreNew, IsLogin
      <4> QED  BY <3>1, <4>2, <4>3 DEF Goes
    <3> QED  BY <3>2, <3>3
  <2> QED  BY <2>1, <2>2, <2>3 DEF Acc!Verify, Acc!CallDies
<1> QED  BY <1>0, <1>1, <1>2, MovesKeepInv DEF RowsStay

LEMMA RevokeKeepsInv ==
    ASSUME AccountInv, NEW c \in Calls, Acc!RevokeActiveSessions(c)
    PROVE  AccountInv'
<1>0. /\ call \in [Calls -> CallRow] /\ reset \in [People -> 0..MaxResets]
      /\ calls \in 0..MaxCalls /\ resets \in 0..MaxResets /\ CallsKnow /\ Len(sessions) \in Nat
  BY DEF AccountInv, Acc!TypeOK
<1>1. /\ UNCHANGED <<users, sessions, attempts, reset, buckets, admitted, lost, clock, calls, resets>>
      /\ call[c].at = "revoke"
      /\ call' = [call EXCEPT ![c].at = "commit", ![c].seen = Len(sessions)]
  BY DEF Acc!RevokeActiveSessions, Acc!Quiet
<1>2. Goes(c, "commit")
  <2>1. [[call[c] EXCEPT !.at = "commit"] EXCEPT !.seen = Len(sessions)] \in CallRow
    BY <1>0 DEF CallRow, CallPlaces, LoginPlaces
  <2> QED  BY <1>0, <1>1, <2>1 DEF Goes, CallRow
<1>3. CallsKnow' /\ LoginsAreNew'
  BY <1>0, <1>1, <1>2, CallGoesOn DEF CallPlaces, LoginPlaces, CallsKnow
<1> QED  BY <1>0, <1>1, <1>2, <1>3, MovesKeepInv DEF RowsStay, Goes

LEMMA StoreResetTokenKeepsInv ==
    ASSUME AccountInv, NEW c \in Calls, Acc!StoreResetToken(c)
    PROVE  AccountInv'
<1>0. /\ call \in [Calls -> CallRow] /\ reset \in [People -> 0..MaxResets]
      /\ calls \in 0..MaxCalls /\ resets \in 0..MaxResets /\ CallsKnow
  BY DEF AccountInv, Acc!TypeOK
<1>1. /\ UNCHANGED <<users, sessions, attempts, buckets, admitted, lost, clock, calls, resets>>
      /\ call[c].at = "token" /\ Acc!Return(c)
      /\ \/ reset' = reset
         \/ reset' = [reset EXCEPT ![call[c].email] = call[c].id]
  BY DEF Acc!StoreResetToken, Acc!Quiet
<1>2. Goes(c, "none") /\ CallsKnow' /\ LoginsAreNew'
  BY <1>0, <1>1, ReturnGoes, CallGoesOn DEF CallPlaces, LoginPlaces
<1>3. call[c].id \in 0..MaxResets
  BY <1>0, <1>1, Limits DEF CallsKnow, CallRow
<1>4. reset' \in [People -> 0..MaxResets]  BY <1>0, <1>1, <1>3
<1> QED  BY <1>0, <1>1, <1>2, <1>4, MovesKeepInv DEF RowsStay, Goes

LEMMA SessionFacts ==
    ASSUME AccountInv
    PROVE  /\ sessions \in Seq(Acc!SessionRow)
           /\ Len(sessions) \in Nat /\ DOMAIN sessions = 1..Len(sessions)
           /\ \A k \in DOMAIN sessions :
                 /\ sessions[k] \in Acc!SessionRow
                 /\ sessions[k].id \in 0..MaxCalls /\ sessions[k].id \in Nat
                 /\ sessions[k].user \in People /\ sessions[k].seen \in Nat
<1>1. sessions \in Seq(Acc!SessionRow)  BY DEF AccountInv, Acc!TypeOK
<1>2. Len(sessions) \in Nat /\ DOMAIN sessions = 1..Len(sessions)  BY <1>1
<1>3. \A k \in DOMAIN sessions : sessions[k] \in Acc!SessionRow  BY <1>1, <1>2, ElementOfSeq
<1>4. \A r \in Acc!SessionRow : r.id \in 0..MaxCalls /\ r.id \in Nat /\ r.user \in People
                               /\ r.seen \in Nat
  BY Limits DEF Acc!SessionRow
<1> QED  BY <1>1, <1>2, <1>3, <1>4

LEMMA StartKeepsInv ==
    ASSUME AccountInv, NEW c \in Calls, NEW p \in People, NEW n \in Networks,
           Acc!StartLogin(c, p, n) \/ Acc!StartReset(c, p, n)
    PROVE  AccountInv'
<1>0. /\ call \in [Calls -> CallRow] /\ reset \in [People -> 0..MaxResets]
      /\ calls \in 0..MaxCalls /\ resets \in 0..MaxResets /\ CallsKnow /\ LoginsAreNew
      /\ MaxCalls \in Nat /\ MaxResets \in Nat
  BY Limits DEF AccountInv, Acc!TypeOK
<1>1. /\ UNCHANGED <<users, sessions, attempts, reset, buckets, admitted, lost, clock>>
      /\ call[c].at = "none"
  BY GoneIsACall DEF Acc!StartLogin, Acc!StartReset
<1>2. CASE Acc!StartLogin(c, p, n)
  <2> DEFINE row == [at |-> "email", id |-> calls + 1, kind |-> "auth.login", email |-> p,
                     ip |-> n, seen |-> 0]
  <2>1. calls' = calls + 1 /\ calls < MaxCalls /\ resets' = resets /\ call' = [call EXCEPT ![c] = row]
    BY <1>2 DEF Acc!StartLogin
  <2>2. row \in CallRow  BY <1>0 DEF CallRow, CallPlaces, Acc!Namespaces
  <2>3. /\ call' \in [Calls -> CallRow] /\ call'[c] = row
        /\ \A d \in Calls : d # c => call'[d] = call[d]
    BY <1>0, <2>1, <2>2
  <2>4. CallsKnow'  BY <1>0, <1>1, <2>3 DEF CallsKnow, LoginPlaces
  <2>5. LoginsAreNew'
    <3>1. IsLogin(c)' /\ call'[c].id = calls + 1  BY <2>3 DEF IsLogin
    <3>2. \A d \in Calls : d # c => (IsLogin(d)' <=> IsLogin(d)) /\ call'[d].id = call[d].id
      BY <2>3 DEF IsLogin
    <3>3. attempts[calls + 1] = << >> /\ calls + 1 \in 1..calls'
      BY <1>0, <2>1 DEF LoginsAreNew
    <3>4. \A k \in DOMAIN sessions : sessions[k].id <= calls /\ sessions[k].id \in Nat
      BY <1>0, SessionFacts DEF LoginsAreNew
    <3>5. \A d \in Calls : IsLogin(d) => call[d].id \in 1..calls /\ call[d].id # calls + 1
      BY <1>0 DEF LoginsAreNew
    <3>6. ASSUME NEW d \in Calls, IsLogin(d)'
          PROVE  /\ call'[d].id \in 1..calls' /\ attempts'[call'[d].id] = << >>
                 /\ \A k \in DOMAIN sessions' : sessions'[k].id # call'[d].id
      <4>1. CASE d = c  BY <1>0, <1>1, <3>1, <3>3, <3>4, <4>1
      <4>2. CASE d # c  BY <1>0, <1>1, <2>1, <3>2, <3>6, <4>2 DEF LoginsAreNew
      <4> QED  BY <4>1, <4>2
    <3>7. \A d, e \in Calls : IsLogin(d)' /\ IsLogin(e)' /\ call'[d].id = call'[e].id => d = e
      BY <1>0, <3>1, <3>2, <3>5 DEF LoginsAreNew
    <3>8. \A i \in 1..MaxCalls : i > calls' => attempts'[i] = << >>
      BY <1>0, <1>1, <2>1 DEF LoginsAreNew
    <3>9. \A k \in DOMAIN sessions' : sessions'[k].id <= calls'
      BY <1>0, <1>1, <2>1, <3>4
    <3> QED  BY <3>6, <3>7, <3>8, <3>9 DEF LoginsAreNew
  <2> QED  BY <1>0, <1>1, <2>1, <2>3, <2>4, <2>5, MovesKeepInv DEF RowsStay
<1>3. CASE Acc!StartReset(c, p, n)
  <2> DEFINE row == [at |-> "email", id |-> resets + 1, kind |-> "auth.password-reset", email |-> p,
                     ip |-> n, seen |-> 0]
  <2>1. resets' = resets + 1 /\ resets < MaxResets /\ calls' = calls /\ call' = [call EXCEPT ![c] = row]
    BY <1>3 DEF Acc!StartReset
  <2>2. row \in CallRow  BY <1>0 DEF CallRow, CallPlaces, Acc!Namespaces
  <2>3. /\ call' \in [Calls -> CallRow] /\ call'[c] = row
        /\ \A d \in Calls : d # c => call'[d] = call[d]
    BY <1>0, <2>1, <2>2
  <2>4. CallsKnow'
    <3>1. resets + 1 <= MaxResets  BY <1>0, <2>1
    <3> QED  BY <1>0, <1>1, <2>3, <3>1 DEF CallsKnow, LoginPlaces
  <2>5. LoginsAreNew'
    <3>1. \A d \in Calls : IsLogin(d)' => IsLogin(d) /\ call'[d] = call[d]
      BY <2>3 DEF IsLogin
    <3> QED  BY <1>0, <1>1, <2>1, <3>1 DEF LoginsAreNew
  <2> QED  BY <1>0, <1>1, <2>1, <2>3, <2>4, <2>5, MovesKeepInv DEF RowsStay
<1> QED  BY <1>2, <1>3

\* The windows do not depend on the rows.
LEMMA RestStays ==
    ASSUME AccountInv, UNCHANGED <<buckets, admitted, lost, clock>>
    PROVE  WindowsAreKept'
<1>1. clock' \in Nat /\ clock' >= clock  BY Limits DEF AccountInv, Acc!TypeOK
<1> QED  BY <1>1, WindowsStay DEF AccountInv

LEMMA RecordFailureKeepsInv ==
    ASSUME AccountInv, NEW c \in Calls, Acc!RecordFailure(c)
    PROVE  AccountInv'
<1>0. /\ call \in [Calls -> CallRow] /\ Acc!TypeOK /\ CallsKnow /\ LoginsAreNew
      /\ calls \in 0..MaxCalls /\ lost \in BOOLEAN /\ resets \in 0..MaxResets
      /\ attempts \in [1..MaxCalls -> Seq(Acc!Outcomes)]
      /\ Acc!OneSessionUnlessOverlapped /\ Acc!AuditTellsTheOutcome
  BY DEF AccountInv, Acc!TypeOK
<1> DEFINE i == call[c].id
<1>1. PICK o \in {"rate_limited", "failed"} : attempts' = [attempts EXCEPT ![i] = Append(@, o)]
  BY DEF Acc!RecordFailure
<1>2. /\ UNCHANGED <<users, sessions, reset, buckets, admitted, lost, clock, calls, resets>>
      /\ call[c].at \in {"limited", "failed"} /\ Acc!Return(c)
  BY DEF Acc!RecordFailure, Acc!Quiet
<1>3. IsLogin(c)  BY <1>0, <1>2 DEF CallsKnow, LoginPlaces, IsLogin
<1>4. /\ i \in 1..calls /\ i \in 1..MaxCalls /\ attempts[i] = << >>
      /\ \A k \in DOMAIN sessions : sessions[k].id # i
  BY <1>0, <1>3, Limits DEF LoginsAreNew
<1>5. Goes(c, "none")  BY <1>0, <1>2, ReturnGoes
<1>6. /\ attempts' \in [1..MaxCalls -> Seq(Acc!Outcomes)] /\ attempts'[i] = <<o>>
      /\ \A j \in 1..MaxCalls : j # i => attempts'[j] = attempts[j]
  <2>1. Append(attempts[i], o) = <<o>> /\ <<o>> \in Seq(Acc!Outcomes)
    BY <1>4 DEF Acc!Outcomes
  <2> QED  BY <1>0, <1>1, <1>4, <2>1
<1>7. CallsKnow'
  BY <1>0, <1>2, <1>5 DEF CallsKnow, Goes, LoginPlaces
<1>8. LoginsAreNew'
  <2>1. ~IsLogin(c)' /\ \A d \in Calls : d # c => (IsLogin(d)' <=> IsLogin(d)) /\ call'[d].id = call[d].id
    BY <1>5 DEF Goes, IsLogin
  <2>2. \A d \in Calls : IsLogin(d)' => d # c /\ IsLogin(d) /\ call'[d].id = call[d].id
                                       /\ call[d].id # i /\ call[d].id \in 1..MaxCalls
    BY <1>0, <1>3, <2>1, Limits DEF LoginsAreNew
  <2> QED  BY <1>0, <1>2, <1>4, <1>6, <2>2 DEF LoginsAreNew
<1>9. Acc!AuditTellsTheOutcome'
  <2>1. ASSUME NEW j \in 1..MaxCalls
        PROVE  /\ Len(attempts'[j]) <= 1
               /\ attempts'[j] = <<"succeeded">> <=> \E k \in DOMAIN sessions : sessions[k].id = j
    <3>1. CASE j = i
      <4>1. <<o>> # <<"succeeded">> /\ Len(<<o>>) <= 1  OBVIOUS
      <4>2. attempts'[j] = <<o>>  BY <1>6, <3>1
      <4>3. Len(attempts'[j]) <= 1 /\ attempts'[j] # <<"succeeded">>  BY Zenon, <4>1, <4>2
      <4>4. ~\E k \in DOMAIN sessions : sessions[k].id = j  BY Zenon, <1>4, <3>1
      <4> QED  BY Zenon, <4>3, <4>4
    <3>2. CASE j # i  BY <1>0, <1>6, <3>2 DEF Acc!AuditTellsTheOutcome
    <3> QED  BY <3>1, <3>2
  <2> QED  BY <1>0, <1>2, <2>1 DEF Acc!AuditTellsTheOutcome
<1>10. Acc!OneSessionUnlessOverlapped'
  BY <1>0, <1>2 DEF Acc!OneSessionUnlessOverlapped, Acc!Authenticated
<1>11. Acc!TypeOK'  BY <1>0, <1>2, <1>5, <1>6, CallTypes DEF Acc!TypeOK, Goes
<1> QED  BY <1>0, <1>2, <1>5, <1>7, <1>8, <1>9, <1>10, <1>11, RestStays DEF AccountInv, Goes

\* The same sessions, some of them revoked.
Reviewed(rows) ==
    /\ rows \in Seq(Acc!SessionRow) /\ Len(rows) = Len(sessions)
    /\ \A k \in DOMAIN sessions :
          /\ rows[k].user = sessions[k].user /\ rows[k].id = sessions[k].id
          /\ rows[k].seen = sessions[k].seen
          /\ sessions[k].revoked => rows[k].revoked

\* Of the first sessions, none of this person's is left.
Revokes(rows, p, seen) == \A k \in DOMAIN sessions : sessions[k].user = p /\ k <= seen => rows[k].revoked

\* There is one more session, with this person and id.
Issued(p, i) ==
    /\ sessions' \in Seq(Acc!SessionRow)
    /\ DOMAIN sessions' = DOMAIN sessions \cup {Len(sessions) + 1}
    /\ sessions'[Len(sessions) + 1].id = i /\ sessions'[Len(sessions) + 1].user = p
    /\ \A k \in DOMAIN sessions : /\ sessions'[k].id = sessions[k].id
                                  /\ sessions'[k].user = sessions[k].user

\* A session that is inserted, after others have been revoked.
LEMMA SessionIsIssued ==
    ASSUME AccountInv, NEW rows, Reviewed(rows), NEW p \in People, NEW i \in 0..MaxCalls,
           NEW seen \in Nat, Revokes(rows, p, seen), sessions' = Acc!IssueSession(rows, p, i, seen)
    PROVE  Issued(p, i) /\ Acc!OneSessionUnlessOverlapped'
<1> DEFINE n == Len(sessions)
           row == [user |-> p, id |-> i, seen |-> seen, revoked |-> FALSE]
<1>0. /\ rows \in Seq(Acc!SessionRow) /\ Len(rows) = n
      /\ \A k \in DOMAIN sessions :
            /\ rows[k].user = sessions[k].user /\ rows[k].id = sessions[k].id
            /\ rows[k].seen = sessions[k].seen
            /\ sessions[k].revoked => rows[k].revoked
      /\ \A k \in DOMAIN sessions : sessions[k].user = p /\ k <= seen => rows[k].revoked
  BY DEF Reviewed, Revokes
<1>1. n \in Nat /\ DOMAIN sessions = 1..n  BY SessionFacts
<1>2. row \in Acc!SessionRow  BY DEF Acc!SessionRow
<1>3. sessions' = Append(rows, row)  BY DEF Acc!IssueSession
<1> HIDE DEF row
<1>4. /\ sessions' \in Seq(Acc!SessionRow) /\ Len(sessions') = n + 1 /\ sessions'[n + 1] = row
      /\ \A k \in 1..n : sessions'[k] = rows[k]
  BY <1>0, <1>1, <1>2, <1>3, AppendProperties
<1>5. DOMAIN sessions' = 1..(n + 1)  BY <1>1, <1>4
<1>6. row.user = p /\ row.id = i /\ row.seen = seen /\ ~row.revoked  BY DEF row
<1>7. Acc!OneSessionUnlessOverlapped'
  <2> SUFFICES ASSUME NEW j \in 1..(n + 1), NEW k \in 1..(n + 1), j < k,
                      sessions'[j].user = sessions'[k].user,
                      ~sessions'[j].revoked, ~sessions'[k].revoked
               PROVE  sessions'[k].seen < j
    BY <1>5 DEF Acc!OneSessionUnlessOverlapped, Acc!Authenticated
  <2>1. j \in 1..n /\ sessions'[j] = rows[j]  BY <1>1, <1>4
  <2>2. CASE k = n + 1
    <3>1. sessions[j].user = p /\ ~rows[j].revoked  BY <1>0, <1>1, <1>4, <1>6, <2>1, <2>2
    <3>2. ~(j <= seen)  BY <1>0, <1>1, <2>1, <3>1
    <3> QED  BY <1>4, <1>6, <2>1, <2>2, <3>2
  <2>3. CASE k \in 1..n
    <3>1. /\ sessions'[k] = rows[k] /\ sessions[j].user = sessions[k].user
          /\ ~sessions[j].revoked /\ ~sessions[k].revoked
      BY <1>0, <1>1, <1>4, <2>1, <2>3
    <3>2. sessions[k].seen < j
      BY <1>1, <2>1, <2>3, <3>1
      DEF AccountInv, Acc!OneSessionUnlessOverlapped, Acc!Authenticated
    <3> QED  BY <1>0, <1>1, <2>3, <3>1, <3>2
  <2> QED  BY <1>1, <2>2, <2>3
<1> QED  BY <1>0, <1>1, <1>4, <1>5, <1>6, <1>7 DEF Issued

LEMMA CommitLoginKeepsInv ==
    ASSUME AccountInv, NEW c \in Calls, Acc!CommitLogin(c)
    PROVE  AccountInv'
<1>0. /\ call \in [Calls -> CallRow] /\ Acc!TypeOK /\ CallsKnow /\ LoginsAreNew
      /\ calls \in 0..MaxCalls /\ lost \in BOOLEAN /\ resets \in 0..MaxResets
      /\ attempts \in [1..MaxCalls -> Seq(Acc!Outcomes)]
      /\ Acc!AuditTellsTheOutcome
  BY DEF AccountInv, Acc!TypeOK
<1> DEFINE i == call[c].id
           p == call[c].email
           n == Len(sessions)
           rows == [k \in DOMAIN sessions |-> Acc!Revoked(sessions[k], k, c)]
<1>1. /\ UNCHANGED <<users, reset, buckets, admitted, lost, clock, calls, resets>>
      /\ call[c].at = "commit" /\ Acc!Return(c)
      /\ sessions' = Acc!IssueSession(rows, p, i, call[c].seen)
      /\ attempts' = [attempts EXCEPT ![i] = Append(@, "succeeded")]
  BY DEF Acc!CommitLogin, Acc!Quiet, Acc!RecordSuccess
<1>2. IsLogin(c)  BY <1>0, <1>1 DEF CallsKnow, LoginPlaces, IsLogin
<1>3. /\ i \in 1..calls /\ i \in 1..MaxCalls /\ i \in 0..MaxCalls /\ attempts[i] = << >>
      /\ \A k \in DOMAIN sessions : sessions[k].id # i
  BY <1>0, <1>2, Limits DEF LoginsAreNew
<1>4. p \in People /\ p \in users /\ call[c].seen \in Nat
  BY <1>0, <1>1 DEF CallsKnow, CallRow
<1>5. Goes(c, "none")  BY <1>0, <1>1, ReturnGoes
<1>6. /\ rows \in Seq(Acc!SessionRow) /\ Len(rows) = n
      /\ \A k \in DOMAIN sessions :
            /\ rows[k].user = sessions[k].user /\ rows[k].id = sessions[k].id
            /\ rows[k].seen = sessions[k].seen
            /\ sessions[k].revoked => rows[k].revoked
      /\ \A k \in DOMAIN sessions : sessions[k].user = p /\ k <= call[c].seen => rows[k].revoked
  <2>1. n \in Nat /\ DOMAIN sessions = 1..n /\ \A k \in 1..n : sessions[k] \in Acc!SessionRow
    BY SessionFacts
  <2>2. ASSUME NEW k \in 1..n
        PROVE  /\ rows[k] \in Acc!SessionRow
               /\ rows[k].user = sessions[k].user /\ rows[k].id = sessions[k].id
               /\ rows[k].seen = sessions[k].seen
               /\ sessions[k].revoked => rows[k].revoked
               /\ sessions[k].user = p /\ k <= call[c].seen => rows[k].revoked
    <3>1. rows[k] = IF sessions[k].user = p /\ k <= call[c].seen
                    THEN [sessions[k] EXCEPT !.revoked = TRUE] ELSE sessions[k]
      BY <2>1 DEF Acc!Revoked
    <3>2. sessions[k] \in Acc!SessionRow  BY <2>1
    <3> HIDE DEF rows
    <3> QED  BY <3>1, <3>2 DEF Acc!SessionRow
  <2>3. rows \in [1..n -> Acc!SessionRow]  BY <2>1, <2>2
  <2>4. rows \in Seq(Acc!SessionRow) /\ Len(rows) = n
    <3> HIDE DEF rows, n
    <3> QED  BY <2>1, <2>3
  <2> QED  BY <2>1, <2>2, <2>4
<1> HIDE DEF rows
<1>7. /\ sessions' \in Seq(Acc!SessionRow) /\ Acc!OneSessionUnlessOverlapped'
      /\ sessions'[n + 1].id = i /\ sessions'[n + 1].user = p
      /\ DOMAIN sessions' = DOMAIN sessions \cup {n + 1}
      /\ \A k \in DOMAIN sessions : /\ sessions'[k].id = sessions[k].id
                                    /\ sessions'[k].user = sessions[k].user
  <2>1. Reviewed(rows) /\ Revokes(rows, p, call[c].seen)  BY <1>6 DEF Reviewed, Revokes
  <2>2. Issued(p, i) /\ Acc!OneSessionUnlessOverlapped'
    BY <1>1, <1>3, <1>4, <2>1, SessionIsIssued
  <2> QED  BY <2>2 DEF Issued
<1> HIDE DEF n
<1>8. /\ attempts' \in [1..MaxCalls -> Seq(Acc!Outcomes)] /\ attempts'[i] = <<"succeeded">>
      /\ \A j \in 1..MaxCalls : j # i => attempts'[j] = attempts[j]
  <2>1. Append(attempts[i], "succeeded") = <<"succeeded">> /\ <<"succeeded">> \in Seq(Acc!Outcomes)
    BY <1>3 DEF Acc!Outcomes
  <2> QED  BY <1>0, <1>1, <1>3, <2>1
<1>9. CallsKnow'
  BY <1>0, <1>1, <1>5 DEF CallsKnow, Goes, LoginPlaces
<1>10. LoginsAreNew'
  <2>1. ~IsLogin(c)' /\ \A d \in Calls : d # c => (IsLogin(d)' <=> IsLogin(d)) /\ call'[d].id = call[d].id
    BY <1>5 DEF Goes, IsLogin
  <2>2. \A d \in Calls : IsLogin(d)' => d # c /\ IsLogin(d) /\ call'[d].id = call[d].id
                                       /\ call[d].id # i /\ call[d].id \in 1..MaxCalls
    BY <1>0, <1>2, <2>1, Limits DEF LoginsAreNew
  <2>3. \A k \in DOMAIN sessions' : sessions'[k].id <= calls'
    BY <1>0, <1>1, <1>3, <1>7 DEF LoginsAreNew
  <2>4. ASSUME NEW d \in Calls, IsLogin(d)'
        PROVE  /\ call'[d].id \in 1..calls' /\ attempts'[call'[d].id] = << >>
               /\ \A k \in DOMAIN sessions' : sessions'[k].id # call'[d].id
    <3>1. /\ d # c /\ IsLogin(d) /\ call'[d].id = call[d].id
          /\ call[d].id # i /\ call[d].id \in 1..MaxCalls
      BY <2>2, <2>4
    <3>2. /\ call[d].id \in 1..calls /\ attempts[call[d].id] = << >>
          /\ \A k \in DOMAIN sessions : sessions[k].id # call[d].id
      BY <1>0, <3>1 DEF LoginsAreNew
    <3>3. \A k \in DOMAIN sessions' : sessions'[k].id # call[d].id
      BY Zenon, <1>7, <3>1, <3>2
    <3> QED  BY <1>1, <1>8, <3>1, <3>2, <3>3
  <2>5. \A d, e \in Calls : IsLogin(d)' /\ IsLogin(e)' /\ call'[d].id = call'[e].id => d = e
    BY <1>0, <2>2 DEF LoginsAreNew
  <2>6. \A j \in 1..MaxCalls : j > calls' => attempts'[j] = << >>
    BY <1>0, <1>1, <1>3, <1>8 DEF LoginsAreNew
  <2> QED  BY <2>3, <2>4, <2>5, <2>6 DEF LoginsAreNew
<1>11. Acc!AuditTellsTheOutcome'
  <2>1. ASSUME NEW j \in 1..MaxCalls
        PROVE  /\ Len(attempts'[j]) <= 1
               /\ attempts'[j] = <<"succeeded">> <=> \E k \in DOMAIN sessions' : sessions'[k].id = j
    <3>1. CASE j = i
      <4>1. Len(<<"succeeded">>) <= 1  OBVIOUS
      <4>2. attempts'[j] = <<"succeeded">>  BY <1>8, <3>1
      <4>3. Len(attempts'[j]) <= 1  BY Zenon, <4>1, <4>2
      <4>4. \E k \in DOMAIN sessions' : sessions'[k].id = j  BY Zenon, <1>7, <3>1
      <4> QED  BY Zenon, <4>2, <4>3, <4>4
    <3>2. CASE j # i
      <4>1. /\ Len(attempts[j]) <= 1
            /\ attempts[j] = <<"succeeded">> <=> \E k \in DOMAIN sessions : sessions[k].id = j
        BY <1>0 DEF Acc!AuditTellsTheOutcome
      <4>2. (\E k \in DOMAIN sessions' : sessions'[k].id = j)
            <=> \E k \in DOMAIN sessions : sessions[k].id = j
        BY Zenon, <1>7, <3>2
      <4>3. attempts'[j] = attempts[j]  BY <1>8, <3>2
      <4> QED  BY Zenon, <4>1, <4>2, <4>3
    <3> QED  BY <3>1, <3>2
  <2>2. \A k \in DOMAIN sessions' : sessions'[k].user \in users'
    BY <1>0, <1>1, <1>4, <1>7 DEF Acc!AuditTellsTheOutcome
  <2> QED  BY <2>1, <2>2 DEF Acc!AuditTellsTheOutcome
<1>12. Acc!TypeOK'  BY <1>0, <1>1, <1>5, <1>7, <1>8, CallTypes DEF Acc!TypeOK, Goes
<1> QED
  BY <1>0, <1>1, <1>5, <1>7, <1>9, <1>10, <1>11, <1>12, RestStays DEF AccountInv, Goes

LEMMA SignupKeepsInv ==
    ASSUME AccountInv, NEW p \in People, Acc!Signup(p)
    PROVE  AccountInv'
<1>0. /\ call \in [Calls -> CallRow] /\ Acc!TypeOK /\ CallsKnow /\ LoginsAreNew
      /\ calls \in 0..MaxCalls /\ lost \in BOOLEAN /\ resets \in 0..MaxResets
      /\ Acc!AuditTellsTheOutcome
  BY DEF AccountInv
<1> DEFINE n == Len(sessions)
<1>1. /\ UNCHANGED <<attempts, reset, call, buckets, admitted, lost, clock, calls, resets>>
      /\ p \notin users /\ users' = users \cup {p}
      /\ sessions' = Acc!IssueSession(sessions, p, 0, n)
  BY DEF Acc!Signup, Acc!Quiet
<1>2. n \in Nat /\ sessions \in Seq(Acc!SessionRow) /\ 0 \in 0..MaxCalls
  BY SessionFacts, Limits
<1>3. \A k \in DOMAIN sessions : sessions[k].user # p
  BY <1>0, <1>1 DEF Acc!AuditTellsTheOutcome
<1>4. /\ sessions' \in Seq(Acc!SessionRow) /\ Acc!OneSessionUnlessOverlapped'
      /\ sessions'[n + 1].id = 0 /\ sessions'[n + 1].user = p
      /\ DOMAIN sessions' = DOMAIN sessions \cup {n + 1}
      /\ \A k \in DOMAIN sessions : /\ sessions'[k].id = sessions[k].id
                                    /\ sessions'[k].user = sessions[k].user
  <2>1. Reviewed(sessions) /\ Revokes(sessions, p, n)  BY <1>2, <1>3 DEF Reviewed, Revokes
  <2>2. Issued(p, 0) /\ Acc!OneSessionUnlessOverlapped'
    BY <1>1, <1>2, <2>1, SessionIsIssued
  <2> QED  BY <2>2 DEF Issued
<1> HIDE DEF n
<1>5. CallsKnow'  BY <1>0, <1>1 DEF CallsKnow
<1>6. LoginsAreNew'
  BY <1>0, <1>1, <1>4 DEF LoginsAreNew, IsLogin
<1>7. Acc!AuditTellsTheOutcome'
  <2>1. ASSUME NEW j \in 1..MaxCalls
        PROVE  (\E k \in DOMAIN sessions' : sessions'[k].id = j)
               <=> \E k \in DOMAIN sessions : sessions[k].id = j
    <3>1. j # 0  OBVIOUS
    <3> QED  BY Zenon, <1>4, <3>1
  <2>2. \A k \in DOMAIN sessions' : sessions'[k].user \in users'
    BY <1>0, <1>1, <1>4 DEF Acc!AuditTellsTheOutcome
  <2> QED  BY <1>0, <1>1, <2>1, <2>2 DEF Acc!AuditTellsTheOutcome
<1>8. Acc!TypeOK'  BY <1>0, <1>1, <1>4, CallTypes DEF Acc!TypeOK
<1> QED  BY <1>0, <1>1, <1>4, <1>5, <1>6, <1>7, <1>8, RestStays DEF AccountInv

LEMMA LogoutKeepsInv ==
    ASSUME AccountInv, NEW i \in DOMAIN sessions, Acc!Logout(i)
    PROVE  AccountInv'
<1>0. /\ call \in [Calls -> CallRow] /\ Acc!TypeOK /\ CallsKnow /\ LoginsAreNew
      /\ calls \in 0..MaxCalls /\ lost \in BOOLEAN /\ resets \in 0..MaxResets
      /\ Acc!AuditTellsTheOutcome /\ Acc!OneSessionUnlessOverlapped
  BY DEF AccountInv
<1>1. /\ UNCHANGED <<users, attempts, reset, call, buckets, admitted, lost, clock, calls, resets>>
      /\ sessions' = [sessions EXCEPT ![i].revoked = TRUE]
  BY DEF Acc!Logout, Acc!Quiet
<1>2. /\ DOMAIN sessions' = DOMAIN sessions
      /\ \A k \in DOMAIN sessions :
            /\ sessions'[k].id = sessions[k].id /\ sessions'[k].user = sessions[k].user
            /\ sessions'[k].seen = sessions[k].seen
            /\ sessions[k].revoked => sessions'[k].revoked
            /\ sessions'[k] \in Acc!SessionRow
  <2>1. \A k \in DOMAIN sessions : sessions[k] \in Acc!SessionRow  BY SessionFacts
  <2>2. [sessions[i] EXCEPT !.revoked = TRUE] \in Acc!SessionRow
    BY <2>1 DEF Acc!SessionRow
  <2>3. \A k \in DOMAIN sessions :
           sessions'[k] = IF k = i THEN [sessions[i] EXCEPT !.revoked = TRUE] ELSE sessions[k]
    BY <1>1
  <2>4. DOMAIN sessions' = DOMAIN sessions  BY <1>1
  <2>5. sessions[i] \in Acc!SessionRow  BY <2>1
  <2> QED  BY <2>1, <2>2, <2>3, <2>4, <2>5, ZenonT(60) DEF Acc!SessionRow
<1>3. sessions' \in Seq(Acc!SessionRow)
  <2>1. Len(sessions) \in Nat /\ DOMAIN sessions = 1..Len(sessions)  BY SessionFacts
  <2>2. sessions' \in [1..Len(sessions) -> Acc!SessionRow]  BY <1>1, <1>2, <2>1
  <2> QED  BY <2>1, <2>2
<1>4. Acc!OneSessionUnlessOverlapped'
  BY <1>0, <1>2 DEF Acc!OneSessionUnlessOverlapped, Acc!Authenticated
<1>5. LoginsAreNew'  BY <1>0, <1>1, <1>2 DEF LoginsAreNew, IsLogin
<1>6. Acc!AuditTellsTheOutcome'
  <2>1. \A j : (\E k \in DOMAIN sessions' : sessions'[k].id = j)
               <=> \E k \in DOMAIN sessions : sessions[k].id = j
    BY Zenon, <1>2
  <2> QED  BY <1>0, <1>1, <1>2, <2>1 DEF Acc!AuditTellsTheOutcome
<1>7. CallsKnow'  BY <1>0, <1>1 DEF CallsKnow
<1>8. Acc!TypeOK'  BY <1>0, <1>1, <1>3, CallTypes DEF Acc!TypeOK
<1> QED  BY <1>0, <1>1, <1>4, <1>5, <1>6, <1>7, <1>8, RestStays DEF AccountInv

LEMMA RestartKeepsInv == ASSUME AccountInv, Acc!ApiRestarts PROVE AccountInv'
<1>0. /\ Acc!TypeOK /\ CallsKnow /\ LoginsAreNew /\ WindowsAreKept
      /\ calls \in 0..MaxCalls /\ lost \in BOOLEAN /\ resets \in 0..MaxResets
  BY DEF AccountInv
<1>1. /\ UNCHANGED <<users, sessions, attempts, reset, admitted, clock, calls, resets>>
      /\ call' = [c \in Calls |-> Acc!Gone]
      /\ (buckets' = << >> /\ lost' = TRUE) \/ UNCHANGED <<buckets, lost>>
  BY DEF Acc!ApiRestarts
<1>2. /\ call' \in [Calls -> CallRow]
      /\ \A c \in Calls : call'[c].at = "none"
  BY <1>1, GoneIsACall
<1>3. CallsKnow'  BY <1>2 DEF CallsKnow, LoginPlaces
<1>4. LoginsAreNew'  BY <1>0, <1>1, <1>2 DEF LoginsAreNew, IsLogin
<1>5. WindowsAreKept'
  <2>1. CASE lost' = TRUE  BY <2>1 DEF WindowsAreKept
  <2>2. CASE UNCHANGED <<buckets, lost>>  BY <1>1, <2>2, RestStays
  <2> QED  BY <1>1, <2>1, <2>2
<1>6. Acc!TypeOK'
  <2>1. \A k \in DOMAIN buckets' : k \in Acc!Keys /\ buckets'[k] \in [count : Nat \ {0}, resetAt : Nat]
    BY <1>0, <1>1 DEF Acc!TypeOK
  <2> QED  BY <1>0, <1>1, <1>2, <2>1, CallTypes DEF Acc!TypeOK
<1> QED  BY <1>0, <1>1, <1>2, <1>3, <1>4, <1>5, <1>6, RowsStaySound DEF AccountInv, RowsStay

LEMMA PassTimeKeepsInv == ASSUME AccountInv, Acc!PassTime PROVE AccountInv'
<1>0. /\ Acc!TypeOK /\ CallsKnow /\ LoginsAreNew /\ WindowsAreKept
      /\ calls \in 0..MaxCalls /\ lost \in BOOLEAN /\ resets \in 0..MaxResets
      /\ call \in [Calls -> CallRow] /\ clock \in 0..MaxClock
  BY DEF AccountInv, Acc!TypeOK
<1>1. /\ UNCHANGED <<users, sessions, attempts, reset, call, buckets, admitted, lost, calls, resets>>
      /\ clock' = clock + 1 /\ clock < MaxClock
  BY DEF Acc!PassTime
<1>2. clock' \in Nat /\ clock' >= clock /\ clock' \in 0..MaxClock  BY <1>0, <1>1, Limits
<1>3. WindowsAreKept'  BY <1>0, <1>1, <1>2, WindowsStay
<1>4. Acc!TypeOK'  BY <1>0, <1>1, <1>2, CallTypes DEF Acc!TypeOK
<1>5. CallsKnow' /\ LoginsAreNew'  BY <1>0, <1>1 DEF CallsKnow, LoginsAreNew, IsLogin
<1> QED  BY <1>0, <1>1, <1>3, <1>4, <1>5, RowsStaySound DEF AccountInv, RowsStay

LEMMA AccountStep == ASSUME AccountInv, Acc!Next PROVE AccountInv'
<1>1. CASE \E p \in People : Acc!Signup(p)  BY <1>1, SignupKeepsInv
<1>2. CASE \E i \in DOMAIN sessions : Acc!Logout(i)  BY <1>2, LogoutKeepsInv
<1>3. CASE \E c \in Calls, p \in People, n \in Networks :
             Acc!StartReset(c, p, n) \/ Acc!StartLogin(c, p, n)
  BY <1>3, StartKeepsInv
<1>4. ASSUME NEW c \in Calls, Acc!Proceed(c) \/ Acc!CallDies(c) PROVE AccountInv'
  BY <1>4, LimiterKeepsInv, VerifyKeepsInv, RecordFailureKeepsInv, RevokeKeepsInv,
     CommitLoginKeepsInv, StoreResetTokenKeepsInv
  DEF Acc!Proceed
<1> QED  BY <1>1, <1>2, <1>3, <1>4, RestartKeepsInv, PassTimeKeepsInv DEF Acc!Next

LEMMA AccountInit == ASSUME Acc!Init PROVE AccountInv
<1> USE DEF Acc!Init
<1>1. call \in [Calls -> CallRow] /\ \A c \in Calls : call[c].at = "none"  BY GoneIsACall
<1>2. /\ sessions = << >> /\ DOMAIN sessions = {} /\ sessions \in Seq(Acc!SessionRow)
      /\ buckets = << >> /\ DOMAIN buckets = {}
  OBVIOUS
<1>3. /\ attempts \in [1..MaxCalls -> Seq(Acc!Outcomes)]
      /\ \A i \in 1..MaxCalls : attempts[i] = << >>
  OBVIOUS
<1>4. admitted \in [Acc!Keys -> Seq(0..MaxClock)] /\ \A k \in Acc!Keys : admitted[k] = << >>
  OBVIOUS
<1>5. clock = 0 /\ calls \in 0..MaxCalls /\ resets \in 0..MaxResets /\ clock \in 0..MaxClock
      /\ reset \in [People -> 0..MaxResets]
  BY Limits
<1>6. Acc!TypeOK
  <2>1. \A c \in Calls :
           /\ call[c].at \in {"none", "email", "ip", "limited", "verify", "failed", "revoke",
                              "commit", "token"}
           /\ call[c].kind \in Acc!Namespaces
    BY <1>1 DEF CallRow
  <2> QED  BY <1>2, <1>3, <1>4, <1>5, <2>1 DEF Acc!TypeOK
<1>7. CallsKnow /\ LoginsAreNew
  BY <1>1, <1>2, <1>3 DEF CallsKnow, LoginsAreNew, IsLogin, LoginPlaces
<1>8. Acc!OneSessionUnlessOverlapped /\ Acc!AuditTellsTheOutcome
  <2>1. Len(<< >>) <= 1 /\ << >> # <<"succeeded">>  OBVIOUS
  <2> QED  BY <1>2, <1>3, <2>1 DEF Acc!OneSessionUnlessOverlapped, Acc!AuditTellsTheOutcome
<1>9. WindowsAreKept
  <2>1. \A k \in Acc!Keys : TimesAreSpread(admitted[k], LimitOf(k))
    BY <1>4 DEF TimesAreSpread
  <2> QED  BY <1>2, <1>4, <2>1 DEF WindowsAreKept
<1> QED  BY <1>1, <1>5, <1>6, <1>7, <1>8, <1>9 DEF AccountInv

LEMMA AccountInvIsEnough == ASSUME AccountInv PROVE Acc!AccountsAreSound
BY SpreadIsEnough DEF AccountInv, Acc!AccountsAreSound

-----------------------------------------------------------------------------
(***************************************************************************)
(* Connections: numbers and requests.                                      *)
(***************************************************************************)
LEMMA LeastNumber ==
    ASSUME NEW S, S \subseteq Nat, S # {}
    PROVE  Min(S) \in S /\ \A y \in S : Min(S) <= y
<1> DEFINE R == {ss \in Nat \X Nat : ss[1] < ss[2]}
<1>1. IsWellFoundedOn(R, Nat)  BY NatLessThanWellFounded DEF OpToRel
<1>2. PICK x \in S : \A y \in S : ~(<<y, x>> \in R)
  BY <1>1, WFMin
<1>3. ASSUME NEW y \in S PROVE x <= y
  <2>1. x \in Nat /\ y \in Nat  OBVIOUS
  <2>2. ~(y < x)  BY <1>2, <2>1
  <2> QED  BY <2>1, <2>2
<1> QED  BY <1>3 DEF Min

LEMMA LargestNumber ==
    ASSUME NEW n \in Nat, NEW S, S \subseteq 1..n, S # {}
    PROVE  Max(S) \in S /\ \A y \in S : y <= Max(S)
<1> DEFINE T == {n - x : x \in S}
<1>1. T \subseteq Nat /\ T # {}
  <2>1. \A x \in S : n - x \in Nat  OBVIOUS
  <2> QED  BY <2>1
<1>2. Min(T) \in T /\ \A t \in T : Min(T) <= t  BY <1>1, LeastNumber
<1>3. PICK x \in S : Min(T) = n - x  BY <1>2
<1>4. ASSUME NEW y \in S PROVE y <= x
  <2>1. n - y \in T  OBVIOUS
  <2>2. n - x <= n - y  BY <1>2, <1>3, <2>1
  <2> QED  BY <2>2
<1>5. \E z \in S : \A y \in S : z >= y  BY <1>4
<1>6. Max(S) \in S /\ \A y \in S : Max(S) >= y  BY <1>5 DEF Max
<1> QED  BY <1>6

LEMMA Bounds ==
    /\ NameTries \in Nat /\ QuotaLimit \in Nat /\ MaxOps \in Nat /\ MaxUnits \in Nat
    /\ MaxPeriod \in Nat /\ MaxLosses \in Nat
    /\ Platform \subseteq Providers
    /\ Providers \subseteq {"opencode", "deepseek", "codex", "claude-code", "hermes", "openclaw"}
BY ProviderAssumption DEF ProviderAssumption

\* Connections are added and revoked; nothing else changes.
CredsGrow ==
    /\ creds' \in Seq(Credential) /\ Len(creds) <= Len(creds')
    /\ \A i \in DOMAIN creds :
          /\ i \in DOMAIN creds'
          /\ creds'[i].provider = creds[i].provider /\ creds'[i].vendor = creds[i].vendor
          /\ creds'[i].valid = creds[i].valid /\ (creds'[i].live => creds[i].live)
    /\ \A i \in DOMAIN creds' : i \notin DOMAIN creds => i > Len(creds)

LEMMA CredFacts ==
    ASSUME creds \in Seq(Credential)
    PROVE  /\ Len(creds) \in Nat /\ DOMAIN creds = 1..Len(creds)
           /\ \A i \in DOMAIN creds :
                 /\ creds[i] \in Credential /\ creds[i].provider \in Providers
                 /\ creds[i].vendor \in Vendors /\ creds[i].valid \in BOOLEAN
                 /\ creds[i].live \in BOOLEAN /\ creds[i].contacted \in BOOLEAN
<1>1. Len(creds) \in Nat /\ DOMAIN creds = 1..Len(creds)  OBVIOUS
<1>2. \A i \in DOMAIN creds : creds[i] \in Credential  BY <1>1, ElementOfSeq
<1>3. \A r \in Credential :
         /\ r.provider \in Providers /\ r.vendor \in Vendors /\ r.valid \in BOOLEAN
         /\ r.live \in BOOLEAN /\ r.contacted \in BOOLEAN
  BY DEF Credential
<1> QED  BY <1>1, <1>2, <1>3

LEMMA CredsStay == ASSUME creds \in Seq(Credential), creds' = creds PROVE CredsGrow
BY CredFacts DEF CredsGrow

\* What cannot be used any more does not come back.
LEMMA UsableShrinks ==
    ASSUME creds \in Seq(Credential), CredsGrow, NEW F
    PROVE  \A j : j \in UsableOf(F)' => j \in UsableOf(F) \/ (j \notin DOMAIN creds /\ j > Len(creds))
BY CredFacts DEF CredsGrow, UsableOf, Usable

LEMMA OthersKnow ==
    ASSUME creds \in Seq(Credential), op \in [Ops -> OpRow], NEW r \in Ops, OpKnows(r),
           op'[r] = op[r], CredsGrow,
           DOMAIN agents \subseteq DOMAIN agents', pool \subseteq pool',
           op[r].at = "consume" => quota'[op[r].since] = quota[op[r].since]
    PROVE  OpKnows(r)'
<1>1. Len(creds) \in Nat /\ Len(creds') \in Nat /\ DOMAIN creds = 1..Len(creds)
  BY CredFacts DEF CredsGrow
<1>2. op[r].since \in Nat  BY DEF OpRow
<1>3. op[r].at \in {"latest", "legacy"} => op[r].connection \notin UsableOf(Family(op[r].provider))'
  BY UsableShrinks DEF OpKnows
<1>4. op[r].at = "legacy" => \A j \in UsableOf({"opencode"})' : j > op[r].since
  <2> SUFFICES ASSUME op[r].at = "legacy", NEW j \in UsableOf({"opencode"})' PROVE j > op[r].since
    OBVIOUS
  <2>1. j \in UsableOf({"opencode"}) \/ (j \notin DOMAIN creds /\ j > Len(creds) /\ j \in DOMAIN creds')
    BY UsableShrinks DEF UsableOf
  <2>2. op[r].since <= Len(creds)  BY DEF OpKnows
  <2>3. j \notin DOMAIN creds /\ j > Len(creds) /\ j \in DOMAIN creds' => j > op[r].since
    BY <1>1, <1>2, <2>2 DEF CredsGrow
  <2> QED  BY <2>1, <2>3 DEF OpKnows
<1>5. op[r].at \in {"prefer", "latest", "legacy"} => op[r].since <= Len(creds')
  BY <1>1, <1>2 DEF OpKnows, CredsGrow
<1> QED  BY <1>3, <1>4, <1>5 DEF OpKnows, CredsGrow, Family, UsableOf, Usable

\* What a step needs to say about the requests: q moves, the others stay.
OnlyMoves(q) ==
    /\ op' \in [Ops -> OpRow]
    /\ \A r \in Ops : r # q => op'[r] = op[r]

LEMMA OpFacts ==
    ASSUME op \in [Ops -> OpRow], NEW q \in Ops
    PROVE  /\ op[q] \in OpRow /\ op[q].at \in OpPlaces /\ op[q].connection \in Nat
           /\ op[q].occupied \in SUBSET Names /\ op[q].tries \in Nat /\ op[q].units \in Nat
           /\ op[q].since \in Nat /\ op[q].nested \in BOOLEAN
BY DEF OpRow

LEMMA FreeIsARow == Free \in OpRow /\ Free.at = "free"
BY DEF Free, OpRow, OpPlaces

LEMMA FreeKnowsNothing ==
    ASSUME NEW q \in Ops, op'[q].at = "free"
    PROVE  OpKnows(q)'
BY DEF OpKnows, Makes

LEMMA GoMoves ==
    ASSUME op \in [Ops -> OpRow], NEW q \in Ops, NEW p \in OpPlaces, op' = [op EXCEPT ![q].at = p]
    PROVE  OnlyMoves(q) /\ op'[q] = [op[q] EXCEPT !.at = p]
<1>1. [op[q] EXCEPT !.at = p] \in OpRow  BY DEF OpRow
<1> QED  BY <1>1 DEF OnlyMoves

LEMMA FinishMoves ==
    ASSUME op \in [Ops -> OpRow], NEW q \in Ops, op' = [op EXCEPT ![q] = Free]
    PROVE  OnlyMoves(q) /\ op'[q] = Free /\ op'[q].at = "free" /\ OpKnows(q)'
<1>1. OnlyMoves(q) /\ op'[q] = Free  BY FreeIsARow DEF OnlyMoves
<1> QED  BY <1>1, FreeIsARow, FreeKnowsNothing

\* A request that begins, goes on or ends changes the number of those that make an agent by one
\* at most.
LEMMA MakingMoves ==
    ASSUME op \in [Ops -> OpRow], NEW q \in Ops, OnlyMoves(q), IsFiniteSet(Making)
    PROVE  /\ IsFiniteSet(Making') /\ Cardinality(Making) \in Nat /\ Cardinality(Making') \in Nat
           /\ Cardinality(Making') <= Cardinality(Making) + 1
           /\ op'[q].at \notin Makes \/ op[q].at \in Makes => Cardinality(Making') <= Cardinality(Making)
           /\ op[q].at \in Makes /\ op'[q].at \notin Makes =>
                 Cardinality(Making') + 1 = Cardinality(Making)
<1>1. q \in Making <=> op[q].at \in Makes  BY DEF Making
<1>2. q \in Making' <=> op'[q].at \in Makes  BY DEF Making
<1>3. \A r : r # q => (r \in Making' <=> r \in Making)  BY DEF Making, OnlyMoves
<1>4. Making' \subseteq Making \cup {q}  BY <1>3
<1>5. /\ IsFiniteSet(Making \cup {q}) /\ Cardinality(Making) \in Nat
      /\ Cardinality(Making \cup {q}) <= Cardinality(Making) + 1
  <2>1. IsFiniteSet(Making \cup {q}) /\ Cardinality(Making) \in Nat
    BY FS_AddElement, FS_CardinalityType
  <2>2. Cardinality(Making \cup {q}) =
           IF q \in Making THEN Cardinality(Making) ELSE Cardinality(Making) + 1
    BY FS_AddElement
  <2> QED  BY <2>1, <2>2
<1>6. IsFiniteSet(Making') /\ Cardinality(Making') \in Nat
  BY <1>4, <1>5, FS_Subset, FS_CardinalityType
<1>7. Cardinality(Making') <= Cardinality(Making) + 1
  <2>1. Cardinality(Making') <= Cardinality(Making \cup {q})  BY <1>4, <1>5, FS_Subset
  <2>2. Cardinality(Making \cup {q}) \in Nat  BY <1>5, FS_CardinalityType
  <2> QED  BY <1>5, <1>6, <2>1, <2>2
<1>8. ASSUME op'[q].at \notin Makes \/ op[q].at \in Makes
      PROVE  Cardinality(Making') <= Cardinality(Making)
  <2>1. Making' \subseteq Making  BY <1>1, <1>2, <1>3, <1>8
  <2> QED  BY <2>1, FS_Subset
<1>9. ASSUME op[q].at \in Makes, op'[q].at \notin Makes
      PROVE  Cardinality(Making') + 1 = Cardinality(Making)
  <2>1. Making' = Making \ {q} /\ q \in Making  BY <1>1, <1>2, <1>3, <1>9
  <2>2. Cardinality(Making \ {q}) = Cardinality(Making) - 1  BY <2>1, FS_RemoveElement
  <2> QED  BY <1>5, <2>1, <2>2
<1> QED  BY <1>5, <1>6, <1>7, <1>8, <1>9

Tables == <<creds, agents, modes, pool, quota, granted, crossed>>

\* Steps that only move a request, and the time.
LEMMA MovesKeepConnections ==
    ASSUME ConnectionInv, NEW q \in Ops, OnlyMoves(q), OpKnows(q)', UNCHANGED Tables,
           RunsFindTheirCredential', period' \in 0..MaxPeriod,
           op'[q].at # "contact",
           op'[q].at = "consume" =>
               \A r \in Ops : op[r].at = "consume" => op[r].since # op'[q].since,
           ops' \in 0..MaxOps, ops' = ops \/ ops' = ops + 1,
           op'[q].at \notin Makes \/ op[q].at \in Makes \/ ops' = ops + 1
    PROVE  ConnectionInv'
<1>0. /\ TypeOK /\ ContactFollowsNewest /\ AgentsAreConnected /\ QuotaIsKept
      /\ op \in [Ops -> OpRow] /\ creds \in Seq(Credential)
      /\ \A r \in Ops : OpKnows(r)
      /\ OneHolder /\ NewestIsOnItsWay /\ NamesAreLeft
  BY DEF ConnectionInv, ConnectionsAreSound, TypeOK
<1>1. UNCHANGED <<creds, agents, modes, pool, quota, granted, crossed>>  BY DEF Tables
<1>2. op' \in [Ops -> OpRow] /\ \A r \in Ops : r # q => op'[r] = op[r]  BY DEF OnlyMoves
<1>3. \A r \in Ops : OpKnows(r)'
  <2>1. CredsGrow  BY <1>0, <1>1, CredsStay
  <2> SUFFICES ASSUME NEW r \in Ops, r # q PROVE OpKnows(r)'  OBVIOUS
  <2> QED  BY <1>0, <1>1, <1>2, <2>1, OthersKnow
<1>4. OneHolder'  BY <1>0, <1>2 DEF OneHolder
<1>5. NewestIsOnItsWay'  BY <1>0, <1>1, <1>2 DEF NewestIsOnItsWay
<1>6. NamesAreLeft'
  <2>1. /\ IsFiniteSet(Making) /\ IsFiniteSet(DOMAIN agents) /\ ops \in Nat
        /\ Cardinality(DOMAIN agents) \in Nat
        /\ Cardinality(DOMAIN agents) + Cardinality(Making) <= ops + 1
    BY <1>0, FS_CardinalityType, Bounds DEF NamesAreLeft
  <2>2. /\ IsFiniteSet(Making') /\ Cardinality(Making) \in Nat /\ Cardinality(Making') \in Nat
        /\ Cardinality(Making') <= Cardinality(Making) + 1
        /\ op'[q].at \notin Makes \/ op[q].at \in Makes => Cardinality(Making') <= Cardinality(Making)
    BY <1>0, <2>1, MakingMoves
  <2>3. Cardinality(DOMAIN agents) + Cardinality(Making') <= ops' + 1
    BY <2>1, <2>2
  <2> QED  BY <1>1, <2>1, <2>2, <2>3 DEF NamesAreLeft
<1>7. TypeOK'
  <2>1. \A r \in Ops : op'[r].at \in OpPlaces  BY <1>2, OpFacts DEF OpRow
  <2> QED  BY <1>0, <1>1, <2>1 DEF TypeOK, OpPlaces
<1>8. ContactFollowsNewest' /\ AgentsAreConnected' /\ QuotaIsKept'
  <2>1. ContactFollowsNewest'  BY Zenon, <1>0, <1>1 DEF ContactFollowsNewest
  <2>2. AgentsAreConnected' /\ QuotaIsKept'
    BY <1>0, <1>1 DEF AgentsAreConnected, QuotaIsKept, Family
  <2> QED  BY <2>1, <2>2
<1> QED
  BY <1>2, <1>3, <1>4, <1>5, <1>6, <1>7, <1>8 DEF ConnectionInv, ConnectionsAreSound

LEMMA InvGives ==
    ASSUME ConnectionInv
    PROVE  /\ TypeOK /\ ContactFollowsNewest /\ AgentsAreConnected /\ QuotaIsKept
           /\ RunsFindTheirCredential
           /\ op \in [Ops -> OpRow] /\ creds \in Seq(Credential)
           /\ \A r \in Ops : OpKnows(r)
           /\ OneHolder /\ NewestIsOnItsWay /\ NamesAreLeft
           /\ period \in 0..MaxPeriod /\ period \in Nat /\ ops \in 0..MaxOps
           /\ Len(creds) \in Nat /\ DOMAIN creds = 1..Len(creds)
BY CredFacts, Bounds, SMTT(60) DEF ConnectionInv, ConnectionsAreSound, TypeOK, NamesAreLeft

\* A request that begins.
LEMMA AskKeepsConnections ==
    ASSUME ConnectionInv, NEW q \in Ops, NEW r \in OpRow, Ask(q, r), UNCHANGED Tables,
           run' = run, r.at \notin {"contact", "consume"}, op' = [op EXCEPT ![q] = r] => OpKnows(q)'
    PROVE  ConnectionInv'
<1>1. /\ op' = [op EXCEPT ![q] = r] /\ ops' = ops + 1 /\ ops < MaxOps /\ period' = period
  BY DEF Ask
<1>2. op' \in [Ops -> OpRow] /\ op'[q] = r /\ \A s \in Ops : s # q => op'[s] = op[s]
  BY <1>1, InvGives
<1>3. ops' \in 0..MaxOps  BY <1>1, InvGives, Bounds
<1>4. RunsFindTheirCredential'  BY InvGives DEF RunsFindTheirCredential
<1> QED  BY <1>1, <1>2, <1>3, <1>4, InvGives, MovesKeepConnections DEF OnlyMoves

LEMMA AskConnectionKeepsInv ==
    ASSUME ConnectionInv, NEW q \in Ops, NEW p \in Providers, NEW v \in Vendors,
           AskConnection(q, p, v)
    PROVE  ConnectionInv'
<1> DEFINE r == [Free EXCEPT !.at = "validated", !.provider = p, !.vendor = v]
<1>1. r \in OpRow /\ r.at = "validated" /\ r.provider = p /\ r.vendor = v
  BY DEF Free, OpRow, OpPlaces, Runtimes
<1>2. Ask(q, r) /\ UNCHANGED Tables /\ run' = run  BY DEF AskConnection, Tables
<1> HIDE DEF r
<1>3. op' = [op EXCEPT ![q] = r] => OpKnows(q)'
  <2> SUFFICES ASSUME op' = [op EXCEPT ![q] = r] PROVE OpKnows(q)'  OBVIOUS
  <2>1. op'[q] = r  BY InvGives
  <2> QED  BY <1>1, <2>1 DEF OpKnows, Makes
<1> QED  BY <1>1, <1>2, <1>3, AskKeepsConnections

LEMMA AskAgentKeepsInv ==
    ASSUME ConnectionInv, NEW q \in Ops, NEW p \in Providers, NEW v \in Vendors,
           NEW i \in DOMAIN creds, NEW nested \in BOOLEAN, AskAgent(q, v, p, i, nested)
    PROVE  ConnectionInv'
<1> DEFINE r == [Free EXCEPT !.at = "names", !.provider = p, !.vendor = v, !.connection = i,
                             !.nested = nested]
<1>0. i \in Nat  BY InvGives
<1>1. r \in OpRow /\ r.at = "names" /\ r.provider = p /\ r.vendor = v /\ r.connection = i
  BY <1>0 DEF Free, OpRow, OpPlaces, Runtimes
<1>2. Ask(q, r) /\ UNCHANGED Tables /\ run' = run  BY DEF AskAgent, Tables
<1>3. creds[i].valid /\ creds[i].provider \in Family(p)
  BY DEF AskAgent, Usable, IsCompatible, Family
<1> HIDE DEF r
<1>4. op' = [op EXCEPT ![q] = r] => OpKnows(q)'
  <2> SUFFICES ASSUME op' = [op EXCEPT ![q] = r] PROVE OpKnows(q)'  OBVIOUS
  <2>1. op'[q] = r /\ creds' = creds  BY <1>2, InvGives DEF Tables
  <2> QED  BY <1>1, <1>3, <2>1 DEF OpKnows, Makes, Family
<1> QED  BY <1>1, <1>2, <1>4, AskKeepsConnections

LEMMA AskPlatformModeKeepsInv ==
    ASSUME ConnectionInv, NEW q \in Ops, NEW p \in Platform, AskPlatformMode(q, p)
    PROVE  ConnectionInv'
<1> DEFINE r == [Free EXCEPT !.at = "mode", !.provider = p]
<1>1. r \in OpRow /\ r.at = "mode" /\ r.provider = p
  BY Bounds DEF Free, OpRow, OpPlaces, Runtimes
<1>2. Ask(q, r) /\ UNCHANGED Tables /\ run' = run /\ p \in pool
  BY DEF AskPlatformMode, Tables, PlatformAllowed
<1> HIDE DEF r
<1>3. op' = [op EXCEPT ![q] = r] => OpKnows(q)'
  <2> SUFFICES ASSUME op' = [op EXCEPT ![q] = r] PROVE OpKnows(q)'  OBVIOUS
  <2>1. op'[q] = r /\ pool' = pool  BY <1>2, InvGives DEF Tables
  <2> QED  BY <1>1, <1>2, <2>1 DEF OpKnows, Makes
<1> QED  BY <1>1, <1>2, <1>3, AskKeepsConnections

LEMMA AskQuotaKeepsInv ==
    ASSUME ConnectionInv, NEW q \in Ops, NEW units \in 1..MaxUnits, AskQuota(q, units)
    PROVE  ConnectionInv'
<1> DEFINE r == [Free EXCEPT !.at = "lock", !.units = units, !.since = period]
<1>0. units \in Nat /\ period \in Nat  BY Bounds, InvGives
<1>1. r \in OpRow /\ r.at = "lock" /\ r.since = period
  BY <1>0 DEF Free, OpRow, OpPlaces
<1>2. Ask(q, r) /\ UNCHANGED Tables /\ run' = run  BY DEF AskQuota, Tables
<1> HIDE DEF r
<1>3. op' = [op EXCEPT ![q] = r] => OpKnows(q)'
  <2> SUFFICES ASSUME op' = [op EXCEPT ![q] = r] PROVE OpKnows(q)'  OBVIOUS
  <2>1. op'[q] = r  BY InvGives
  <2> QED  BY <1>1, <2>1, InvGives DEF OpKnows, Makes
<1> QED  BY <1>1, <1>2, <1>3, AskKeepsConnections

LEMMA AskRunKeepsInv ==
    ASSUME ConnectionInv, NEW q \in Ops, NEW n \in DOMAIN agents, AskRun(q, n)
    PROVE  ConnectionInv'
<1> DEFINE r == [Free EXCEPT !.at = "prefer", !.provider = RuntimeOf(agents[n].provider),
                             !.connection = agents[n].connection, !.since = Len(creds)]
<1>0. /\ RuntimeOf(agents[n].provider) \in Runtimes
      /\ agents[n].connection \in DOMAIN creds /\ agents[n].connection \in Nat
  <2>1. agents[n] \in AgentRow  BY InvGives DEF TypeOK
  <2>2. agents[n].provider \in Runtimes  BY <2>1 DEF AgentRow, Runtimes
  <2> QED  BY <2>2, InvGives DEF AgentsAreConnected, RuntimeOf, Runtimes
<1>1. /\ r \in OpRow /\ r.at = "prefer" /\ r.connection = agents[n].connection
      /\ r.provider = RuntimeOf(agents[n].provider) /\ r.since = Len(creds)
  BY <1>0, InvGives DEF Free, OpRow, OpPlaces
<1>2. Ask(q, r) /\ UNCHANGED Tables /\ run' = run  BY DEF AskRun, Tables
<1> HIDE DEF r
<1>3. op' = [op EXCEPT ![q] = r] => OpKnows(q)'
  <2> SUFFICES ASSUME op' = [op EXCEPT ![q] = r] PROVE OpKnows(q)'  OBVIOUS
  <2>1. op'[q] = r /\ creds' = creds  BY <1>2, InvGives DEF Tables
  <2> QED  BY <1>0, <1>1, <2>1, InvGives DEF OpKnows, Makes
<1> QED  BY <1>1, <1>2, <1>3, AskKeepsConnections

\* A request that goes on or ends.
LEMMA GoKeepsConnections ==
    ASSUME ConnectionInv, NEW q \in Ops, OnlyMoves(q), OpKnows(q)', UNCHANGED Tables,
           UNCHANGED <<ops, period>>, RunsFindTheirCredential',
           op'[q].at \notin {"contact", "consume"}, op'[q].at \notin Makes \/ op[q].at \in Makes
    PROVE  ConnectionInv'
BY InvGives, MovesKeepConnections

LEMMA ListNamesKeepsInv ==
    ASSUME ConnectionInv, NEW q \in Ops, ListNames(q)
    PROVE  ConnectionInv'
<1> DEFINE r == [[op[q] EXCEPT !.at = "insert"] EXCEPT !.occupied = DOMAIN agents]
<1>1. /\ op[q].at = "names" /\ UNCHANGED Tables /\ UNCHANGED <<ops, period, run>>
      /\ op' = [op EXCEPT ![q].at = "insert", ![q].occupied = DOMAIN agents]
  BY DEF ListNames, Tables
<1>2. op[q] \in OpRow /\ DOMAIN agents \subseteq Names  BY InvGives, OpFacts DEF TypeOK
<1>3. /\ r \in OpRow /\ r.at = "insert" /\ r.occupied = DOMAIN agents
      /\ r.provider = op[q].provider /\ r.vendor = op[q].vendor /\ r.connection = op[q].connection
  BY <1>2 DEF OpRow, OpPlaces
<1>4. op'[q] = r /\ OnlyMoves(q)
  <2>1. op'[q] = r /\ \A s \in Ops : s # q => op'[s] = op[s]  BY <1>1, InvGives
  <2> QED  BY <1>1, <1>3, <2>1, InvGives DEF OnlyMoves
<1> HIDE DEF r
<1>5. OpKnows(q)'
  <2>1. creds' = creds /\ agents' = agents  BY <1>1 DEF Tables
  <2>2. OpKnows(q) /\ op[q].at = "names" /\ op'[q] = r  BY <1>1, <1>4, InvGives
  <2> QED  BY <1>3, <2>1, <2>2 DEF OpKnows, Makes, Family
<1>6. RunsFindTheirCredential'  BY <1>1, InvGives DEF RunsFindTheirCredential
<1> QED  BY <1>1, <1>3, <1>4, <1>5, <1>6, GoKeepsConnections DEF Makes

LEMMA OpEndsKeepsInv ==
    ASSUME ConnectionInv, NEW q \in Ops, op' = [op EXCEPT ![q] = Free], UNCHANGED Tables,
           UNCHANGED <<ops, period>>, RunsFindTheirCredential'
    PROVE  ConnectionInv'
BY InvGives, FinishMoves, GoKeepsConnections DEF Makes

LEMMA OpDiesKeepsInv ==
    ASSUME ConnectionInv, NEW q \in Ops, OpDies(q)
    PROVE  ConnectionInv'
<1>1. RunsFindTheirCredential'  BY InvGives DEF OpDies, RunsFindTheirCredential
<1> QED  BY <1>1, OpEndsKeepsInv DEF OpDies, Tables

LEMMA LockPeriodKeepsInv ==
    ASSUME ConnectionInv, NEW q \in Ops, LockPeriod(q)
    PROVE  ConnectionInv'
<1>1. /\ op[q].at = "lock" /\ ~PeriodLocked(op[q].since) /\ UNCHANGED Tables /\ run' = run
  BY DEF LockPeriod, Tables
<1>2. RunsFindTheirCredential'  BY <1>1, InvGives DEF RunsFindTheirCredential
<1>3. CASE Finish(q)  BY <1>1, <1>2, <1>3, OpEndsKeepsInv DEF Finish
<1>4. CASE Go(q, "consume") /\ ~(quota[op[q].since] + op[q].units > QuotaLimit)
  <2>1. /\ op' = [op EXCEPT ![q].at = "consume"] /\ UNCHANGED <<ops, period>>
    BY <1>4 DEF Go
  <2>2. OnlyMoves(q) /\ op'[q] = [op[q] EXCEPT !.at = "consume"]
    BY <2>1, InvGives, GoMoves DEF OpPlaces
  <2>3. /\ op[q] \in OpRow /\ op[q].since \in 0..MaxPeriod /\ op[q].units \in Nat
        /\ quota[op[q].since] \in Nat /\ QuotaLimit \in Nat
    BY <1>1, InvGives, OpFacts, Bounds DEF OpKnows, TypeOK
  <2>4. op'[q].at = "consume" /\ op'[q].since = op[q].since /\ op'[q].units = op[q].units
    BY <2>2, <2>3 DEF OpRow
  <2>5. OpKnows(q)'
    BY <1>1, <1>4, <2>3, <2>4 DEF OpKnows, Makes, Tables
  <2>6. \A s \in Ops : op[s].at = "consume" => op[s].since # op'[q].since
    BY <1>1, <2>4 DEF PeriodLocked
  <2> QED
    BY <1>1, <1>2, <2>1, <2>2, <2>4, <2>5, <2>6, InvGives, MovesKeepConnections DEF Makes
<1> QED  BY <1>3, <1>4 DEF LockPeriod

LEMMA NextPeriodKeepsInv == ASSUME ConnectionInv, NextPeriod PROVE ConnectionInv'
<1>1. /\ UNCHANGED <<creds, agents, modes, pool, quota, granted, op, crossed, run, ops>>
      /\ period' \in 0..MaxPeriod
  BY InvGives, Bounds DEF NextPeriod
<1>2. TypeOK'  BY <1>1, InvGives DEF TypeOK
<1>3. ContactFollowsNewest'  BY Zenon, <1>1, InvGives DEF ContactFollowsNewest
<1>4. AgentsAreConnected' /\ QuotaIsKept' /\ RunsFindTheirCredential'
  BY <1>1, InvGives DEF AgentsAreConnected, QuotaIsKept, RunsFindTheirCredential, Family
<1>5. \A q \in Ops : OpKnows(q)'
  BY <1>1, InvGives, CredsStay, OthersKnow
<1>6. OneHolder' /\ NewestIsOnItsWay'  BY <1>1, InvGives DEF OneHolder, NewestIsOnItsWay
<1>7. NamesAreLeft'
  <2>1. Making' = Making  BY <1>1 DEF Making
  <2> QED  BY <1>1, <2>1, InvGives DEF NamesAreLeft
<1> QED
  BY <1>1, <1>2, <1>3, <1>4, <1>5, <1>6, <1>7, InvGives DEF ConnectionInv, ConnectionsAreSound

\* What a run is told when it has looked for its connection.
LEMMA TakeKeepsInv ==
    ASSUME ConnectionInv, NEW q \in Ops, NEW i, Take(q, i), UNCHANGED Tables,
           op[q].connection \in UsableOf(Family(op[q].provider)) => i = op[q].connection,
           i = 0 => \A j \in UsableOf(Family(op[q].provider)) : ~(j <= op[q].since)
    PROVE  ConnectionInv'
<1> DEFINE had == {j \in UsableOf(Family(op[q].provider)) : j <= op[q].since}
<1>1. run' = [own |-> op[q].connection, family |-> Family(op[q].provider), chosen |-> i, had |-> had]
  BY DEF Take
<1>2. op[q].connection \in had => i = op[q].connection  OBVIOUS
<1>3. i = 0 => had = {}  OBVIOUS
<1> HIDE DEF had
<1>4. RunsFindTheirCredential'  BY <1>1, <1>2, <1>3 DEF RunsFindTheirCredential
<1> QED  BY <1>4, OpEndsKeepsInv DEF Take, Finish

LEMMA LatestIsUsable ==
    ASSUME ConnectionInv, NEW F, UsableOf(F) # {}
    PROVE  Max(UsableOf(F)) \in UsableOf(F) /\ Max(UsableOf(F)) # 0
<1>1. UsableOf(F) \subseteq 1..Len(creds)  BY InvGives DEF UsableOf
<1> QED  BY <1>1, InvGives, LargestNumber

LEMMA SelectKeepsInv ==
    ASSUME ConnectionInv, NEW q \in Ops, SelectCredential(q)
    PROVE  ConnectionInv'
<1>1. UNCHANGED Tables  BY DEF SelectCredential, Tables
<1>2. /\ op[q] \in OpRow /\ OpKnows(q) /\ op \in [Ops -> OpRow] /\ op[q].since \in Nat
      /\ RunsFindTheirCredential
  BY InvGives, OpFacts
<1>3. \A F, j : j \in UsableOf(F) => j \in Nat /\ j # 0 /\ j \in DOMAIN creds /\ Usable(j)
                                     /\ creds[j].provider \in F
  BY InvGives DEF UsableOf
\* A look that finds nothing goes on to the next one.
<1>4. ASSUME NEW p \in {"latest", "legacy"}, op[q].at \in {"prefer", "latest"}, Go(q, p),
             UNCHANGED run,
             op[q].connection \notin UsableOf(Family(op[q].provider)),
             p = "legacy" => op[q].provider = "opencode" /\ UsableOf({"opencode"}) = {}
      PROVE  ConnectionInv'
  <2>1. OnlyMoves(q) /\ op'[q] = [op[q] EXCEPT !.at = p] /\ UNCHANGED <<ops, period>>
    BY <1>2, <1>4, GoMoves DEF Go, OpPlaces
  <2>2. /\ op'[q].at = p /\ op'[q].provider = op[q].provider /\ op'[q].since = op[q].since
        /\ op'[q].connection = op[q].connection
    BY <1>2, <2>1 DEF OpRow
  <2>3. creds' = creds  BY <1>1 DEF Tables
  <2>4. OpKnows(q)'
    <3>1. /\ op[q].connection \in DOMAIN creds /\ op[q].since <= Len(creds)
          /\ op[q].provider \in Runtimes
      BY <1>2, <1>4 DEF OpKnows
    <3>2. \A j \in UsableOf({"opencode"}) : p = "legacy" => j > op[q].since  BY <1>4
    <3> QED
      BY <1>4, <2>2, <2>3, <3>1, <3>2 DEF OpKnows, Makes, Family, UsableOf, Usable
  <2>5. RunsFindTheirCredential'  BY <1>2, <1>4 DEF RunsFindTheirCredential
  <2> QED  BY <1>1, <2>1, <2>2, <2>4, <2>5, GoKeepsConnections DEF Makes
<1>5. CASE op[q].at = "prefer" /\ PreferOwn(q)
  <2>1. CASE op[q].connection \in UsableOf(Family(op[q].provider))
    <3>1. Take(q, op[q].connection) /\ op[q].connection # 0
      BY <1>3, <1>5, <2>1 DEF PreferOwn
    <3> QED  BY <1>1, <3>1, TakeKeepsInv
  <2>2. CASE op[q].connection \notin UsableOf(Family(op[q].provider))
    <3>1. Go(q, "latest") /\ UNCHANGED run  BY <1>5, <2>2 DEF PreferOwn
    <3> QED  BY <1>4, <1>5, <2>2, <3>1
  <2> QED  BY <2>1, <2>2
<1>6. CASE op[q].at = "latest" /\ TakeLatest(q)
  <2> DEFINE own == UsableOf({op[q].provider})
  <2>1. op[q].connection \notin UsableOf(Family(op[q].provider))
    BY <1>2, <1>6 DEF OpKnows
  <2>2. CASE own # {}
    <3>1. Take(q, Max(own)) /\ Max(own) # 0
      BY <1>6, <2>2, LatestIsUsable DEF TakeLatest
    <3> QED  BY <1>1, <2>1, <3>1, TakeKeepsInv
  <2>3. CASE own = {} /\ op[q].provider = "opencode"
    <3>1. Go(q, "legacy") /\ UNCHANGED run  BY <1>6, <2>3 DEF TakeLatest
    <3> QED  BY <1>4, <1>6, <2>1, <2>3, <3>1
  <2>4. CASE own = {} /\ op[q].provider # "opencode"
    <3>1. Take(q, 0) /\ Family(op[q].provider) = {op[q].provider}
      BY <1>6, <2>4 DEF TakeLatest, Family
    <3>2. \A j \in UsableOf(Family(op[q].provider)) : FALSE  BY <2>4, <3>1
    <3> QED  BY <1>1, <2>1, <3>1, <3>2, TakeKeepsInv
  <2> QED  BY <2>2, <2>3, <2>4
<1>7. CASE op[q].at = "legacy" /\ TakeLegacy(q)
  <2> DEFINE old == UsableOf({"deepseek"})
  <2>1. /\ op[q].connection \notin UsableOf(Family(op[q].provider))
        /\ op[q].provider = "opencode" /\ \A j \in UsableOf({"opencode"}) : j > op[q].since
    BY <1>2, <1>7 DEF OpKnows
  <2>2. CASE old # {}
    <3>1. Take(q, Max(old)) /\ Max(old) # 0
      BY <1>7, <2>2, LatestIsUsable DEF TakeLegacy
    <3> QED  BY <1>1, <2>1, <3>1, TakeKeepsInv
  <2>3. CASE old = {}
    <3>1. Take(q, 0)  BY <1>7, <2>3 DEF TakeLegacy
    <3>2. \A j \in UsableOf(Family(op[q].provider)) : j \in UsableOf({"opencode"})
      BY <2>1, <2>3 DEF Family, UsableOf
    <3>3. \A j \in UsableOf(Family(op[q].provider)) : ~(j <= op[q].since)
      BY <1>2, <1>3, <2>1, <3>2
    <3> QED  BY <1>1, <2>1, <3>1, <3>3, TakeKeepsInv
  <2> QED  BY <2>2, <2>3
<1> QED  BY <1>5, <1>6, <1>7 DEF SelectCredential

\* As long as a request may still make an agent, a number is left for its name.
LEMMA ANameIsLeft ==
    ASSUME ConnectionInv, NEW q \in Ops, op[q].at \in Makes, NEW v \in Vendors,
           NEW occupied, occupied \subseteq DOMAIN agents
    PROVE  AvailableName(v, occupied) \in Names /\ AvailableName(v, occupied) \notin occupied
<1> DEFINE free == {k \in 0..MaxOps : <<v, k>> \notin occupied}
           N == [k \in 0..MaxOps |-> <<v, k>>]
<1>1. /\ IsFiniteSet(Making) /\ IsFiniteSet(DOMAIN agents) /\ ops \in 0..MaxOps /\ MaxOps \in Nat
      /\ Cardinality(DOMAIN agents) + Cardinality(Making) <= ops + 1
      /\ Cardinality(DOMAIN agents) \in Nat /\ Cardinality(Making) \in Nat
  BY InvGives, Bounds, FS_CardinalityType DEF NamesAreLeft
<1>2. Cardinality(Making) >= 1
  <2>1. q \in Making  BY DEF Making
  <2>2. Cardinality(Making) # 0  BY <1>1, <2>1, FS_EmptySet
  <2> QED  BY <1>1, <2>2
<1>3. Cardinality(DOMAIN agents) <= MaxOps  BY <1>1, <1>2
<1>4. free # {}
  <2> SUFFICES ASSUME free = {} PROVE FALSE  OBVIOUS
  <2>1. \A k \in 0..MaxOps : <<v, k>> \in DOMAIN agents  OBVIOUS
  <2>2. N \in Injection(0..MaxOps, DOMAIN agents)
    <3>1. N \in [0..MaxOps -> DOMAIN agents]  BY <2>1
    <3>2. \A a, b \in 0..MaxOps : N[a] = N[b] => a = b  OBVIOUS
    <3> QED  BY <3>1, <3>2 DEF Injection, IsInjective
  <2>3. IsFiniteSet(0..MaxOps) /\ Cardinality(0..MaxOps) = MaxOps + 1
    <3>1. 0 \in Int /\ MaxOps \in Int /\ ~(0 > MaxOps) /\ MaxOps - 0 + 1 = MaxOps + 1  BY <1>1
    <3> QED  BY <3>1, FS_Interval
  <2> HIDE DEF N
  <2>4. Cardinality(0..MaxOps) <= Cardinality(DOMAIN agents)
    BY <1>1, <2>2, <2>3, FS_Injection
  <2> QED  BY <1>1, <1>3, <2>3, <2>4
<1>5. Min(free) \in free
  <2>1. free \subseteq Nat  OBVIOUS
  <2> HIDE DEF free
  <2> QED  BY <1>4, <2>1, LeastNumber
<1>6. AvailableName(v, occupied) = <<v, Min(free)>>  BY DEF AvailableName
<1>7. \A k \in free : k \in 0..MaxOps /\ <<v, k>> \notin occupied  OBVIOUS
<1> HIDE DEF free
<1> QED  BY <1>5, <1>6, <1>7 DEF Names

\* Steps that end a request, or touch none, and change the tables.
LEMMA OpsKeepUp ==
    ASSUME ConnectionInv, CredsGrow, DOMAIN agents \subseteq DOMAIN agents', pool \subseteq pool',
           NEW q \in Ops, OnlyMoves(q), OpKnows(q)',
           \A r \in Ops : r # q /\ op[r].at = "consume" => quota'[op[r].since] = quota[op[r].since]
    PROVE  \A r \in Ops : OpKnows(r)'
<1> SUFFICES ASSUME NEW r \in Ops, r # q PROVE OpKnows(r)'  OBVIOUS
<1>1. op'[r] = op[r]  BY DEF OnlyMoves
<1>2. op[r].at = "consume" => quota'[op[r].since] = quota[op[r].since]  OBVIOUS
<1> QED  BY <1>1, <1>2, InvGives, OthersKnow

LEMMA StillConnected ==
    ASSUME ConnectionInv, CredsGrow, agents' = agents
    PROVE  AgentsAreConnected'
BY InvGives DEF AgentsAreConnected, CredsGrow, Family

LEMMA TypesStay ==
    ASSUME ConnectionInv, CredsGrow, op' \in [Ops -> OpRow],
           DOMAIN agents' \subseteq Names, \A n \in DOMAIN agents' : agents'[n] \in AgentRow,
           modes' \subseteq Platform, pool' \subseteq Platform,
           quota' \in [0..MaxPeriod -> Nat], granted' \in [0..MaxPeriod -> Nat],
           crossed' \subseteq Vendors, period' = period
    PROVE  TypeOK'
<1>1. \A r \in Ops : op'[r].at \in OpPlaces  BY DEF OpRow
<1> QED  BY <1>1, InvGives DEF TypeOK, CredsGrow, OpPlaces

LEMMA InsertCredentialKeepsInv ==
    ASSUME ConnectionInv, NEW q \in Ops, NEW valid \in BOOLEAN, InsertCredential(q, valid)
    PROVE  ConnectionInv'
<1> DEFINE n == Len(creds)
           row == [provider |-> op[q].provider, vendor |-> op[q].vendor, valid |-> valid,
                   live |-> TRUE, contacted |-> FALSE]
           others == {r \in Ops \ {q} : op[r].at = "contact" /\ op[r].vendor = op[q].vendor}
           new == [[op[q] EXCEPT !.at = "contact"] EXCEPT !.connection = n + 1]
<1>1. /\ op[q].at = "validated" /\ creds' = Append(creds, row)
      /\ op' = [op EXCEPT ![q].at = "contact", ![q].connection = n + 1]
      /\ crossed' = crossed \cup {op[r].vendor : r \in others}
      /\ UNCHANGED <<agents, modes, pool, quota, granted, run, period, ops>>
  BY DEF InsertCredential
<1>2. /\ op[q] \in OpRow /\ op[q].provider \in Providers /\ op[q].vendor \in Vendors
      /\ n \in Nat /\ DOMAIN creds = 1..n
  BY <1>1, InvGives, OpFacts DEF OpKnows, Makes
<1>3. /\ row \in Credential /\ row.provider = op[q].provider /\ row.vendor = op[q].vendor
      /\ row.contacted = FALSE
  BY <1>2 DEF Credential
<1> HIDE DEF row
<1>4. /\ creds' \in Seq(Credential) /\ Len(creds') = n + 1 /\ creds'[n + 1] = row
      /\ \A i \in 1..n : creds'[i] = creds[i]
      /\ DOMAIN creds' = 1..(n + 1)
  BY <1>1, <1>2, <1>3, InvGives, AppendProperties
<1>5. CredsGrow  BY <1>2, <1>4 DEF CredsGrow
<1>6. /\ new \in OpRow /\ new.at = "contact" /\ new.connection = n + 1
      /\ new.provider = op[q].provider /\ new.vendor = op[q].vendor
  <2>1. n + 1 \in Nat  BY <1>2
  <2>2. [op[q] EXCEPT !.at = "contact"] \in OpRow  BY <1>2 DEF OpRow, OpPlaces
  <2> QED  BY <1>2, <2>1, <2>2 DEF OpRow
<1>7. op'[q] = new /\ OnlyMoves(q)
  <2>1. op'[q] = new /\ \A s \in Ops : s # q => op'[s] = op[s]  BY <1>1, InvGives
  <2> QED  BY <1>1, <1>6, <2>1, InvGives DEF OnlyMoves
<1> HIDE DEF new
<1>8. \A r \in Ops : OpKnows(r)'
  <2>1. OpKnows(q)'
    BY <1>2, <1>3, <1>4, <1>6, <1>7 DEF OpKnows, Makes
  <2> QED  BY <1>1, <1>5, <1>7, <2>1, OpsKeepUp
<1>9. \A r \in Ops : r # q => op'[r] = op[r]  BY <1>7 DEF OnlyMoves
<1>10. NewestIsOnItsWay'
  <2> SUFFICES ASSUME NEW s \in Ops, op'[s].at = "contact", op'[s].vendor \notin crossed'
               PROVE  /\ \A r \in Ops : op'[r].at = "contact" /\ op'[r].vendor = op'[s].vendor => r = s
                      /\ \A j \in DOMAIN creds' :
                            creds'[j].vendor = op'[s].vendor /\ creds'[j].contacted =>
                                j < op'[s].connection
    BY DEF NewestIsOnItsWay
  <2>1. CASE s = q
    <3>1. ASSUME NEW r \in Ops, r # q, op'[r].at = "contact", op'[r].vendor = op'[s].vendor
          PROVE  FALSE
      <4>1. r \in others /\ op[r].vendor = op'[s].vendor  BY <1>6, <1>7, <1>9, <2>1, <3>1
      <4>2. op[r].vendor \in crossed'  BY <1>1, <4>1
      <4> QED  BY <4>1, <4>2
    <3>2. ASSUME NEW j \in DOMAIN creds', creds'[j].contacted PROVE j < op'[s].connection
      <4>1. j # n + 1  BY <1>3, <1>4, <3>2
      <4> QED  BY <1>2, <1>4, <1>6, <1>7, <2>1, <4>1
    <3> QED  BY <2>1, <3>1, <3>2
  <2>2. CASE s # q
    <3>1. op'[s] = op[s] /\ op[s].at = "contact" /\ op[s].vendor \notin crossed
      <4>1. op'[s] = op[s]  BY <1>9, <2>2
      <4>2. crossed \subseteq crossed'  BY <1>1
      <4> HIDE DEF others
      <4> QED  BY <4>1, <4>2
    <3>2. op[s].vendor # op[q].vendor
      <4>1. ASSUME op[s].vendor = op[q].vendor PROVE FALSE
        <5>1. s \in others  BY <2>2, <3>1, <4>1
        <5>2. op[s].vendor \in crossed'  BY <1>1, <5>1
        <5> QED  BY <3>1, <5>2
      <4> QED  BY <4>1
    <3>3. /\ \A r \in Ops : op[r].at = "contact" /\ op[r].vendor = op[s].vendor => r = s
          /\ \A j \in DOMAIN creds :
                creds[j].vendor = op[s].vendor /\ creds[j].contacted => j < op[s].connection
      BY <3>1, InvGives DEF NewestIsOnItsWay
    <3>4. \A r \in Ops : op'[r].at = "contact" /\ op'[r].vendor = op'[s].vendor => r = s
      BY <1>6, <1>7, <1>9, <3>1, <3>2, <3>3
    <3>5. ASSUME NEW j \in DOMAIN creds', creds'[j].vendor = op'[s].vendor, creds'[j].contacted
          PROVE  j < op'[s].connection
      <4>1. j # n + 1  BY <1>3, <1>4, <3>5
      <4>2. j \in DOMAIN creds /\ creds'[j] = creds[j]  BY <1>2, <1>4, <4>1
      <4> QED  BY <3>1, <3>3, <3>5, <4>2
    <3> QED  BY <3>4, <3>5
  <2> QED  BY <2>1, <2>2
<1>11. ContactFollowsNewest'
  <2> SUFFICES ASSUME NEW v \in Vendors \ crossed'
               PROVE  LET contacted == {i \in DOMAIN creds' : creds'[i].vendor = v /\ creds'[i].contacted}
                      IN  contacted # {} =>
                              <<v, 0>> \in DOMAIN agents' /\ agents'[<<v, 0>>].connection = Max(contacted)
    BY DEF ContactFollowsNewest
  <2> DEFINE old == {i \in DOMAIN creds : creds[i].vendor = v /\ creds[i].contacted}
             cur == {i \in DOMAIN creds' : creds'[i].vendor = v /\ creds'[i].contacted}
  <2>1. cur = old  BY <1>2, <1>3, <1>4
  <2>2. v \in Vendors \ crossed  BY <1>1
  <2>3. old # {} => <<v, 0>> \in DOMAIN agents /\ agents[<<v, 0>>].connection = Max(old)
    BY <2>2, InvGives DEF ContactFollowsNewest
  <2> HIDE DEF cur, old
  <2>4. cur # {} => <<v, 0>> \in DOMAIN agents' /\ agents'[<<v, 0>>].connection = Max(cur)
    BY <1>1, <2>1, <2>3
  <2> QED  BY <2>4 DEF cur
<1>12. AgentsAreConnected' /\ RunsFindTheirCredential' /\ QuotaIsKept'
  BY <1>1, <1>5, InvGives, StillConnected DEF RunsFindTheirCredential, QuotaIsKept
<1>13. OneHolder'  BY <1>6, <1>7, <1>9, InvGives DEF OneHolder
<1>14. NamesAreLeft'
  <2>1. IsFiniteSet(Making')  /\ Cardinality(Making') <= Cardinality(Making)
        /\ Cardinality(Making) \in Nat /\ Cardinality(Making') \in Nat
    BY <1>1, <1>7, InvGives, MakingMoves DEF NamesAreLeft, Makes
  <2>2. Cardinality(DOMAIN agents) \in Nat /\ ops \in Nat
    BY InvGives, Bounds, FS_CardinalityType DEF NamesAreLeft
  <2> QED  BY <1>1, <2>1, <2>2, InvGives DEF NamesAreLeft
<1>15. TypeOK'
  <2>1. crossed' \subseteq Vendors
    <3>1. \A r \in others : op[r].vendor \in Vendors  BY <1>2
    <3> QED  BY <1>1, <3>1, InvGives DEF TypeOK
  <2> QED  BY <1>1, <1>5, <1>7, <2>1, InvGives, TypesStay DEF TypeOK, OnlyMoves
<1> QED
  BY <1>7, <1>8, <1>10, <1>11, <1>12, <1>13, <1>14, <1>15
  DEF ConnectionInv, ConnectionsAreSound, OnlyMoves

\* Contacts and the requests on their way to one stay as they are.
LEMMA ContactsStay ==
    ASSUME ConnectionInv, DOMAIN creds' = DOMAIN creds, crossed' = crossed,
           \A i \in DOMAIN creds : creds'[i].vendor = creds[i].vendor
                                   /\ creds'[i].contacted = creds[i].contacted,
           \A v \in Vendors : <<v, 0>> \in DOMAIN agents =>
               <<v, 0>> \in DOMAIN agents' /\ agents'[<<v, 0>>] = agents[<<v, 0>>],
           \A r \in Ops : op'[r].at = "contact" => op'[r] = op[r]
    PROVE  ContactFollowsNewest' /\ NewestIsOnItsWay'
<1>1. ContactFollowsNewest'
  <2> SUFFICES ASSUME NEW v \in Vendors \ crossed'
               PROVE  LET contacted == {i \in DOMAIN creds' : creds'[i].vendor = v /\ creds'[i].contacted}
                      IN  contacted # {} =>
                              <<v, 0>> \in DOMAIN agents' /\ agents'[<<v, 0>>].connection = Max(contacted)
    BY DEF ContactFollowsNewest
  <2> DEFINE old == {i \in DOMAIN creds : creds[i].vendor = v /\ creds[i].contacted}
             cur == {i \in DOMAIN creds' : creds'[i].vendor = v /\ creds'[i].contacted}
  <2>1. cur = old  OBVIOUS
  <2>2. old # {} => <<v, 0>> \in DOMAIN agents /\ agents[<<v, 0>>].connection = Max(old)
    BY InvGives DEF ContactFollowsNewest
  <2> HIDE DEF cur, old
  <2>3. cur # {} => <<v, 0>> \in DOMAIN agents' /\ agents'[<<v, 0>>].connection = Max(cur)
    BY <2>1, <2>2
  <2> QED  BY <2>3 DEF cur
<1>2. NewestIsOnItsWay'
  <2> SUFFICES ASSUME NEW s \in Ops, op'[s].at = "contact", op'[s].vendor \notin crossed
               PROVE  /\ \A r \in Ops : op'[r].at = "contact" /\ op'[r].vendor = op'[s].vendor => r = s
                      /\ \A j \in DOMAIN creds :
                            creds'[j].vendor = op'[s].vendor /\ creds'[j].contacted =>
                                j < op'[s].connection
    BY DEF NewestIsOnItsWay
  <2>1. op'[s] = op[s]  OBVIOUS
  <2>2. /\ \A r \in Ops : op[r].at = "contact" /\ op[r].vendor = op[s].vendor => r = s
        /\ \A j \in DOMAIN creds :
              creds[j].vendor = op[s].vendor /\ creds[j].contacted => j < op[s].connection
    BY <2>1, InvGives DEF NewestIsOnItsWay
  <2> QED  BY <2>1, <2>2
<1> QED  BY <1>1, <1>2

\* A request that has made its agent makes no more.
LEMMA OneAgentMore ==
    ASSUME ConnectionInv, NEW q \in Ops, op[q].at \in Makes, OnlyMoves(q), op'[q].at \notin Makes,
           NEW name, DOMAIN agents' = DOMAIN agents \cup {name}, ops' = ops
    PROVE  NamesAreLeft'
<1>1. /\ IsFiniteSet(Making) /\ IsFiniteSet(DOMAIN agents) /\ ops \in 0..MaxOps /\ ops \in Nat
      /\ Cardinality(DOMAIN agents) + Cardinality(Making) <= ops + 1
      /\ Cardinality(DOMAIN agents) \in Nat
  BY InvGives, Bounds, FS_CardinalityType DEF NamesAreLeft
<1>2. /\ IsFiniteSet(Making') /\ Cardinality(Making) \in Nat /\ Cardinality(Making') \in Nat
      /\ Cardinality(Making') + 1 = Cardinality(Making)
  BY <1>1, InvGives, MakingMoves
<1>3. /\ IsFiniteSet(DOMAIN agents') /\ Cardinality(DOMAIN agents') \in Nat
      /\ Cardinality(DOMAIN agents') <= Cardinality(DOMAIN agents) + 1
  <2>1. IsFiniteSet(DOMAIN agents \cup {name})  BY <1>1, FS_AddElement
  <2>2. Cardinality(DOMAIN agents \cup {name}) =
           IF name \in DOMAIN agents THEN Cardinality(DOMAIN agents)
           ELSE Cardinality(DOMAIN agents) + 1
    BY <1>1, FS_AddElement
  <2> QED  BY <1>1, <2>1, <2>2
<1>4. Cardinality(DOMAIN agents') + Cardinality(Making') <= ops + 1
  BY <1>1, <1>2, <1>3
<1> QED  BY <1>1, <1>2, <1>3, <1>4 DEF NamesAreLeft

LEMMA UpsertContactKeepsInv ==
    ASSUME ConnectionInv, NEW q \in Ops, UpsertContact(q)
    PROVE  ConnectionInv'
<1> DEFINE i == op[q].connection
           w == op[q].vendor
           name == <<w, 0>>
           row == [provider |-> RuntimeOf(op[q].provider), connection |-> i]
<1>1. /\ op[q].at = "contact" /\ op' = [op EXCEPT ![q] = Free]
      /\ UNCHANGED <<modes, pool, quota, granted, crossed, run, period, ops>>
  BY DEF UpsertContact, Finish
<1>2. /\ op[q].provider \in Providers /\ w \in Vendors /\ i \in DOMAIN creds
      /\ creds[i].provider = op[q].provider /\ creds[i].vendor = w
      /\ op \in [Ops -> OpRow]
  BY <1>1, InvGives DEF OpKnows, Makes
<1>3. /\ OnlyMoves(q) /\ op'[q].at = "free" /\ OpKnows(q)'
      /\ \A r \in Ops : r # q => op'[r] = op[r]
  BY <1>1, <1>2, FinishMoves DEF OnlyMoves
<1>4. CASE ~(creds[i].valid /\ HasRuntime(op[q].provider))
  <2>1. UNCHANGED Tables  BY <1>1, <1>4 DEF UpsertContact, Tables
  <2>2. RunsFindTheirCredential'  BY <1>1, InvGives DEF RunsFindTheirCredential
  <2> QED  BY <1>1, <2>1, <2>2, OpEndsKeepsInv
<1>5. CASE creds[i].valid /\ HasRuntime(op[q].provider)
  <2>1. /\ agents' = [n \in DOMAIN agents \cup {name} |-> IF n = name THEN row ELSE agents[n]]
        /\ creds' = [creds EXCEPT ![i].contacted = TRUE]
    BY <1>5 DEF UpsertContact, ContactRow
  <2>2. /\ DOMAIN agents' = DOMAIN agents \cup {name} /\ agents'[name] = row
        /\ \A n \in DOMAIN agents : n # name => agents'[n] = agents[n]
    BY <2>1
  <2>3. [creds[i] EXCEPT !.contacted = TRUE] \in Credential
    BY <1>2, InvGives, CredFacts DEF Credential
  <2>4. /\ creds' \in Seq(Credential) /\ Len(creds') = Len(creds) /\ DOMAIN creds' = DOMAIN creds
        /\ creds'[i] = [creds[i] EXCEPT !.contacted = TRUE]
        /\ \A j \in DOMAIN creds : j # i => creds'[j] = creds[j]
    BY <1>2, <2>1, <2>3, InvGives
  <2>5. /\ creds'[i].contacted /\ creds'[i].vendor = w /\ creds'[i].provider = op[q].provider
        /\ creds'[i].valid /\ creds'[i].live = creds[i].live
    <3>1. creds[i] \in Credential  BY <1>2, InvGives, CredFacts
    <3> QED  BY <1>2, <1>5, <2>4, <3>1 DEF Credential
  <2>6. CredsGrow
    <3>1. Len(creds) <= Len(creds')  BY <2>4, InvGives
    <3> QED  BY <1>2, <1>5, <2>4, <2>5, <3>1 DEF CredsGrow
  <2>7. row.connection = i /\ row.provider = RuntimeOf(op[q].provider)  OBVIOUS
  <2> HIDE DEF row
  <2>8. \A r \in Ops : OpKnows(r)'
    <3>1. DOMAIN agents \subseteq DOMAIN agents' /\ pool \subseteq pool'  BY <1>1, <2>2
    <3> QED  BY <1>1, <1>3, <2>6, <3>1, OpsKeepUp
  <2>9. \A s \in Ops : op'[s].at = "contact" =>
           s # q /\ op'[s] = op[s] /\ op[s].at = "contact"
                 /\ (op[s].vendor \notin crossed => op[s].vendor # w)
    <3> SUFFICES ASSUME NEW s \in Ops, op'[s].at = "contact"
                 PROVE  s # q /\ op'[s] = op[s] /\ op[s].at = "contact"
                        /\ (op[s].vendor \notin crossed => op[s].vendor # w)
      OBVIOUS
    <3>1. s # q /\ op'[s] = op[s]  BY <1>3
    <3> QED  BY <1>1, <3>1, InvGives DEF NewestIsOnItsWay
  <2>10. NewestIsOnItsWay'
    <3> SUFFICES ASSUME NEW s \in Ops, op'[s].at = "contact", op'[s].vendor \notin crossed
                 PROVE  /\ \A r \in Ops :
                              op'[r].at = "contact" /\ op'[r].vendor = op'[s].vendor => r = s
                        /\ \A j \in DOMAIN creds :
                              creds'[j].vendor = op'[s].vendor /\ creds'[j].contacted =>
                                  j < op'[s].connection
      BY <1>1, <2>4 DEF NewestIsOnItsWay
    <3>1. op'[s] = op[s] /\ op[s].at = "contact" /\ op[s].vendor \notin crossed /\ op[s].vendor # w
      BY <2>9
    <3>2. /\ \A r \in Ops : op[r].at = "contact" /\ op[r].vendor = op[s].vendor => r = s
          /\ \A j \in DOMAIN creds :
                creds[j].vendor = op[s].vendor /\ creds[j].contacted => j < op[s].connection
      BY <3>1, InvGives DEF NewestIsOnItsWay
    <3>3. \A r \in Ops : op'[r].at = "contact" /\ op'[r].vendor = op'[s].vendor => r = s
      BY <2>9, <3>1, <3>2
    <3>4. ASSUME NEW j \in DOMAIN creds, creds'[j].vendor = op'[s].vendor, creds'[j].contacted
          PROVE  j < op'[s].connection
      <4>1. j # i  BY <2>5, <3>1, <3>4
      <4> QED  BY <2>4, <3>1, <3>2, <3>4, <4>1
    <3> QED  BY <3>3, <3>4
  <2>11. ContactFollowsNewest'
    <3> SUFFICES ASSUME NEW v \in Vendors \ crossed
                 PROVE  LET contacted == {k \in DOMAIN creds' : creds'[k].vendor = v /\ creds'[k].contacted}
                        IN  contacted # {} =>
                              <<v, 0>> \in DOMAIN agents' /\ agents'[<<v, 0>>].connection = Max(contacted)
      BY <1>1 DEF ContactFollowsNewest
    <3> DEFINE old == {k \in DOMAIN creds : creds[k].vendor = v /\ creds[k].contacted}
               cur == {k \in DOMAIN creds' : creds'[k].vendor = v /\ creds'[k].contacted}
    <3>1. CASE v # w
      <4>1. cur = old
        <5>1. \A j \in DOMAIN creds : j \in cur <=> j \in old
          BY <1>2, <2>4, <2>5, <3>1
        <5> QED  BY <2>4, <5>1
      <4>2. old # {} => <<v, 0>> \in DOMAIN agents /\ agents[<<v, 0>>].connection = Max(old)
        BY InvGives DEF ContactFollowsNewest
      <4>3. <<v, 0>> # name  BY <3>1
      <4> HIDE DEF cur, old, name
      <4>4. cur # {} => <<v, 0>> \in DOMAIN agents' /\ agents'[<<v, 0>>].connection = Max(cur)
        BY <2>2, <4>1, <4>2, <4>3
      <4> QED  BY <4>4 DEF cur
    <3>2. CASE v = w
      <4>1. i \in cur  BY <1>2, <2>4, <2>5, <3>2
      <4>2. \A j \in DOMAIN creds : creds[j].vendor = w /\ creds[j].contacted => j < i
        BY <1>1, <3>2, InvGives DEF NewestIsOnItsWay
      <4>3. \A j \in cur : j = i \/ j < i
        BY <2>4, <3>2, <4>2
      <4>4. cur \subseteq 1..Len(creds)  BY <2>4, InvGives
      <4> HIDE DEF cur
      <4>5. Max(cur) \in cur /\ \A j \in cur : j <= Max(cur)
        BY <4>1, <4>4, InvGives, LargestNumber
      <4>6. Max(cur) = i
        <5>0. Max(cur) \in 1..Len(creds) /\ i \in 1..Len(creds)  BY <4>1, <4>4, <4>5
        <5>1. Max(cur) \in Int /\ i \in Int  BY <5>0
        <5>2. i <= Max(cur)  BY <4>1, <4>5
        <5>3. Max(cur) = i \/ Max(cur) < i  BY <4>3, <4>5
        <5> QED  BY <5>1, <5>2, <5>3
      <4> QED  BY <2>2, <2>7, <3>2, <4>6 DEF cur
    <3> QED  BY <3>1, <3>2
  <2>12. AgentsAreConnected'
    <3> SUFFICES ASSUME NEW n \in DOMAIN agents'
                 PROVE  /\ agents'[n].connection \in DOMAIN creds'
                        /\ creds'[agents'[n].connection].valid
                        /\ creds'[agents'[n].connection].provider \in Family(agents'[n].provider)
      BY DEF AgentsAreConnected, Family
    <3>1. CASE n = name
      <4>1. op[q].provider \in Family(RuntimeOf(op[q].provider))  BY DEF Family, RuntimeOf
      <4> QED  BY <1>2, <2>2, <2>4, <2>5, <2>7, <3>1, <4>1
    <3>2. CASE n # name
      <4>1. n \in DOMAIN agents /\ agents'[n] = agents[n]  BY <2>2, <3>2
      <4> QED  BY <2>6, <4>1, InvGives DEF AgentsAreConnected, CredsGrow
    <3> QED  BY <3>1, <3>2
  <2>13. TypeOK'
    <3>1. name \in Names  BY <1>2, Bounds DEF Names
    <3>2. row \in AgentRow
      <4>1. i \in CredentialIds  BY <1>2, InvGives DEF CredentialIds
      <4> QED  BY <1>2, <4>1 DEF row, AgentRow, RuntimeOf
    <3> HIDE DEF name
    <3>3. DOMAIN agents' \subseteq Names /\ \A n \in DOMAIN agents' : agents'[n] \in AgentRow
      BY <2>2, <3>1, <3>2, InvGives DEF TypeOK
    <3> QED  BY <1>1, <1>3, <2>6, <3>3, InvGives, TypesStay DEF TypeOK, OnlyMoves
  <2>14. NamesAreLeft'
    BY <1>1, <1>3, <2>2, OneAgentMore DEF Makes
  <2>15. RunsFindTheirCredential' /\ QuotaIsKept'
    BY <1>1, InvGives DEF RunsFindTheirCredential, QuotaIsKept
  <2>16. OneHolder'  BY <1>3, InvGives DEF OneHolder
  <2> QED
    BY <1>3, <2>8, <2>10, <2>11, <2>12, <2>13, <2>14, <2>15, <2>16
    DEF ConnectionInv, ConnectionsAreSound, OnlyMoves
<1> QED  BY <1>4, <1>5

LEMMA RevokeCredentialKeepsInv ==
    ASSUME ConnectionInv, NEW i \in DOMAIN creds, RevokeCredential(i)
    PROVE  ConnectionInv'
<1>1. /\ creds' = [creds EXCEPT ![i].live = FALSE]
      /\ UNCHANGED <<agents, modes, pool, quota, granted, op, crossed, run, period, ops>>
  BY DEF RevokeCredential
<1>2. [creds[i] EXCEPT !.live = FALSE] \in Credential
  BY InvGives, CredFacts DEF Credential
<1>3. /\ creds' \in Seq(Credential) /\ Len(creds') = Len(creds) /\ DOMAIN creds' = DOMAIN creds
      /\ creds'[i] = [creds[i] EXCEPT !.live = FALSE]
      /\ \A j \in DOMAIN creds : j # i => creds'[j] = creds[j]
  BY <1>1, <1>2, InvGives
<1>4. \A j \in DOMAIN creds :
         /\ creds'[j].provider = creds[j].provider /\ creds'[j].vendor = creds[j].vendor
         /\ creds'[j].valid = creds[j].valid /\ creds'[j].contacted = creds[j].contacted
         /\ (creds'[j].live => creds[j].live)
  <2> SUFFICES ASSUME NEW j \in DOMAIN creds
               PROVE  /\ creds'[j].provider = creds[j].provider /\ creds'[j].vendor = creds[j].vendor
                      /\ creds'[j].valid = creds[j].valid /\ creds'[j].contacted = creds[j].contacted
                      /\ (creds'[j].live => creds[j].live)
    OBVIOUS
  <2>1. creds[i] \in Credential  BY InvGives, CredFacts
  <2> QED  BY <1>3, <2>1 DEF Credential
<1>5. CredsGrow
  <2>1. Len(creds) <= Len(creds')  BY <1>3, InvGives
  <2> QED  BY <1>3, <1>4, <2>1 DEF CredsGrow
<1>6. \A r \in Ops : OpKnows(r)'  BY <1>1, <1>5, InvGives, OthersKnow
<1>7. ContactFollowsNewest' /\ NewestIsOnItsWay'
  BY <1>1, <1>3, <1>4, ContactsStay
<1>8. AgentsAreConnected' /\ RunsFindTheirCredential' /\ QuotaIsKept'
  BY <1>1, <1>5, InvGives, StillConnected DEF RunsFindTheirCredential, QuotaIsKept
<1>9. TypeOK'  BY <1>1, <1>5, InvGives, TypesStay DEF TypeOK
<1>10. OneHolder'  BY <1>1, InvGives DEF OneHolder
<1>11. NamesAreLeft'
  <2>1. Making' = Making  BY <1>1 DEF Making
  <2> QED  BY <1>1, <2>1, InvGives DEF NamesAreLeft
<1> QED
  BY <1>1, <1>6, <1>7, <1>8, <1>9, <1>10, <1>11, InvGives DEF ConnectionInv, ConnectionsAreSound

LEMMA InsertAgentKeepsInv ==
    ASSUME ConnectionInv, NEW q \in Ops, InsertAgent(q)
    PROVE  ConnectionInv'
<1> DEFINE v == op[q].vendor
           name == AvailableName(v, op[q].occupied)
           row == [provider |-> op[q].provider, connection |-> op[q].connection]
<1>1. /\ op[q].at = "insert"
      /\ UNCHANGED <<creds, modes, pool, quota, granted, crossed, run>>
      /\ \/ name \in DOMAIN agents /\ Refuse(q, name) /\ agents' = agents
         \/ /\ name \notin DOMAIN agents /\ Finish(q)
            /\ agents' = [n \in DOMAIN agents \cup {name} |-> IF n = name THEN row ELSE agents[n]]
  BY DEF InsertAgent
<1>2. /\ op[q].provider \in Providers /\ v \in Vendors /\ op[q].connection \in DOMAIN creds
      /\ creds[op[q].connection].valid
      /\ creds[op[q].connection].provider \in Family(op[q].provider)
      /\ op[q].occupied \subseteq DOMAIN agents
      /\ op \in [Ops -> OpRow] /\ op[q] \in OpRow /\ op[q].tries \in Nat
  BY <1>1, InvGives, OpFacts DEF OpKnows, Makes
<1>3. name \in Names /\ name \notin op[q].occupied
  BY <1>1, <1>2, ANameIsLeft DEF Makes
<1> HIDE DEF name
<1>4. RunsFindTheirCredential'  BY <1>1, InvGives DEF RunsFindTheirCredential
<1>5. CASE name \in DOMAIN agents
  <2>1. Refuse(q, name) /\ UNCHANGED Tables  BY <1>1, <1>5 DEF Tables
  <2>2. CASE Finish(q)  BY <1>4, <2>1, <2>2, OpEndsKeepsInv DEF Finish
  <2>3. CASE /\ op' = [op EXCEPT ![q].tries = @ + 1, ![q].occupied = @ \cup {name}]
             /\ UNCHANGED <<period, ops>>
    <3> DEFINE r == [[op[q] EXCEPT !.tries = @ + 1] EXCEPT !.occupied = @ \cup {name}]
    <3>1. /\ r \in OpRow /\ r.at = "insert" /\ r.occupied = op[q].occupied \cup {name}
          /\ r.provider = op[q].provider /\ r.vendor = op[q].vendor
          /\ r.connection = op[q].connection
      <4>1. [op[q] EXCEPT !.tries = @ + 1] \in OpRow  BY <1>2 DEF OpRow
      <4>2. op[q].occupied \cup {name} \in SUBSET Names  BY <1>2, <1>3 DEF OpRow
      <4> QED  BY <1>1, <1>2, <4>1, <4>2 DEF OpRow
    <3>2. op'[q] = r /\ OnlyMoves(q)
      <4>1. op'[q] = r /\ \A s \in Ops : s # q => op'[s] = op[s]  BY <1>2, <2>3
      <4> QED  BY <1>2, <2>3, <3>1, <4>1 DEF OnlyMoves
    <3> HIDE DEF r
    <3>3. OpKnows(q)'
      <4>1. creds' = creds /\ agents' = agents  BY <2>1 DEF Tables
      <4>2. r.occupied \subseteq DOMAIN agents  BY <1>2, <1>5, <3>1
      <4> QED  BY <1>2, <3>1, <3>2, <4>1, <4>2 DEF OpKnows, Makes, Family
    <3> QED  BY <1>1, <1>4, <2>1, <2>3, <3>1, <3>2, <3>3, GoKeepsConnections DEF Makes
  <2> QED  BY <2>1, <2>2, <2>3 DEF Refuse
<1>6. CASE name \notin DOMAIN agents
  <2>1. /\ agents' = [n \in DOMAIN agents \cup {name} |-> IF n = name THEN row ELSE agents[n]]
        /\ op' = [op EXCEPT ![q] = Free] /\ UNCHANGED <<period, ops>>
    BY <1>1, <1>6 DEF Finish
  <2>2. /\ DOMAIN agents' = DOMAIN agents \cup {name} /\ agents'[name] = row
        /\ \A n \in DOMAIN agents : agents'[n] = agents[n]
    BY <1>6, <2>1
  <2>3. /\ OnlyMoves(q) /\ op'[q].at = "free" /\ OpKnows(q)'
        /\ \A r \in Ops : r # q => op'[r] = op[r]
    BY <1>2, <2>1, FinishMoves DEF OnlyMoves
  <2>4. CredsGrow  BY <1>1, InvGives, CredsStay
  <2>5. \A r \in Ops : OpKnows(r)'
    <3>1. DOMAIN agents \subseteq DOMAIN agents' /\ pool \subseteq pool'  BY <1>1, <2>2
    <3> QED  BY <1>1, <2>3, <2>4, <3>1, OpsKeepUp
  <2>6. ContactFollowsNewest' /\ NewestIsOnItsWay'
    <3>1. \A r \in Ops : op'[r].at = "contact" => op'[r] = op[r]  BY <2>3
    <3> QED  BY <1>1, <2>2, <3>1, ContactsStay
  <2>7. AgentsAreConnected'
    <3> SUFFICES ASSUME NEW n \in DOMAIN agents'
                 PROVE  /\ agents'[n].connection \in DOMAIN creds
                        /\ creds[agents'[n].connection].valid
                        /\ creds[agents'[n].connection].provider \in Family(agents'[n].provider)
      BY <1>1 DEF AgentsAreConnected, Family
    <3>1. CASE n = name  BY <1>2, <2>2, <3>1
    <3>2. CASE n # name
      <4>1. n \in DOMAIN agents /\ agents'[n] = agents[n]  BY <2>2, <3>2
      <4> QED  BY <4>1, InvGives DEF AgentsAreConnected
    <3> QED  BY <3>1, <3>2
  <2>8. TypeOK'
    <3>1. row \in AgentRow
      <4>1. op[q].connection \in CredentialIds  BY <1>2, InvGives DEF CredentialIds
      <4> QED  BY <1>2, <4>1 DEF AgentRow
    <3> HIDE DEF row
    <3>2. DOMAIN agents' \subseteq Names /\ \A n \in DOMAIN agents' : agents'[n] \in AgentRow
      BY <1>3, <2>2, <3>1, InvGives DEF TypeOK
    <3> QED  BY <1>1, <2>1, <2>3, <2>4, <3>2, InvGives, TypesStay DEF TypeOK, OnlyMoves
  <2>9. NamesAreLeft'
    BY <1>1, <2>1, <2>2, <2>3, OneAgentMore DEF Makes
  <2>10. QuotaIsKept'  BY <1>1, InvGives DEF QuotaIsKept
  <2>11. OneHolder'  BY <2>3, InvGives DEF OneHolder
  <2> QED
    BY <1>4, <2>3, <2>5, <2>6, <2>7, <2>8, <2>9, <2>10, <2>11
    DEF ConnectionInv, ConnectionsAreSound, OnlyMoves
<1> QED  BY <1>5, <1>6

\* What the platform offers and what it has spent.
LEMMA PlatformKeepsInv ==
    ASSUME ConnectionInv, UNCHANGED <<creds, agents, crossed, run, period>>,
           op' \in [Ops -> OpRow], \A r \in Ops : OpKnows(r)',
           \A r \in Ops : op'[r] = op[r] \/ op'[r].at = "free",
           modes' \subseteq Platform, pool' \subseteq Platform, modes' \subseteq pool',
           quota' \in [0..MaxPeriod -> Nat], granted' \in [0..MaxPeriod -> Nat],
           \A k \in 0..MaxPeriod : quota'[k] = granted'[k] /\ quota'[k] <= QuotaLimit,
           ops' \in 0..MaxOps, ops' >= ops
    PROVE  ConnectionInv'
<1>1. CredsGrow  BY InvGives, CredsStay
<1>2. TypeOK'  BY <1>1, InvGives, TypesStay DEF TypeOK
<1>3. ContactFollowsNewest' /\ NewestIsOnItsWay'
  <2>1. \A r \in Ops : op'[r].at = "contact" => op'[r] = op[r]  OBVIOUS
  <2> QED  BY <2>1, ContactsStay
<1>4. AgentsAreConnected' /\ RunsFindTheirCredential' /\ QuotaIsKept'
  BY <1>1, InvGives, StillConnected DEF RunsFindTheirCredential, QuotaIsKept
<1>5. OneHolder'  BY InvGives DEF OneHolder
<1>6. NamesAreLeft'
  <2>1. Making' \subseteq Making  BY DEF Making, Makes
  <2>2. /\ IsFiniteSet(Making) /\ IsFiniteSet(DOMAIN agents) /\ ops \in Nat
        /\ Cardinality(DOMAIN agents) + Cardinality(Making) <= ops + 1
        /\ Cardinality(DOMAIN agents) \in Nat /\ Cardinality(Making) \in Nat
    BY InvGives, Bounds, FS_CardinalityType DEF NamesAreLeft
  <2>3. IsFiniteSet(Making') /\ Cardinality(Making') <= Cardinality(Making)
    BY <2>1, <2>2, FS_Subset
  <2>4. Cardinality(Making') \in Nat /\ ops' \in Nat  BY <2>3, FS_CardinalityType, Bounds
  <2> QED  BY <2>2, <2>3, <2>4 DEF NamesAreLeft
<1> QED
  BY <1>2, <1>3, <1>4, <1>5, <1>6 DEF ConnectionInv, ConnectionsAreSound

LEMMA AddPoolEntryKeepsInv ==
    ASSUME ConnectionInv, NEW p \in Platform, AddPoolEntry(p)
    PROVE  ConnectionInv'
<1>1. /\ ops < MaxOps /\ ops' = ops + 1 /\ pool' = pool \cup {p}
      /\ UNCHANGED <<creds, agents, modes, quota, granted, op, crossed, run, period>>
  BY DEF AddPoolEntry
<1>2. ops' \in 0..MaxOps /\ ops' >= ops  BY <1>1, InvGives, Bounds
<1>3. CredsGrow  BY <1>1, InvGives, CredsStay
<1>4. \A r \in Ops : OpKnows(r)'  BY <1>1, <1>3, InvGives, OthersKnow
<1> QED
  BY <1>1, <1>2, <1>4, InvGives, PlatformKeepsInv DEF TypeOK, QuotaIsKept

LEMMA InsertModeKeepsInv ==
    ASSUME ConnectionInv, NEW q \in Ops, InsertMode(q)
    PROVE  ConnectionInv'
<1>1. /\ op[q].at = "mode" /\ modes' = modes \cup {op[q].provider}
      /\ op' = [op EXCEPT ![q] = Free]
      /\ UNCHANGED <<creds, agents, pool, quota, granted, crossed, run, period, ops>>
  BY DEF InsertMode, Finish
<1>2. op[q].provider \in pool /\ op[q].provider \in Platform  BY <1>1, InvGives DEF OpKnows
<1>3. OnlyMoves(q) /\ op'[q].at = "free" /\ OpKnows(q)'
  BY <1>1, InvGives, FinishMoves
<1>4. CredsGrow  BY <1>1, InvGives, CredsStay
<1>5. \A r \in Ops : OpKnows(r)'  BY <1>1, <1>3, <1>4, OpsKeepUp
<1>6. ops' \in 0..MaxOps /\ ops' >= ops  BY <1>1, InvGives, Bounds
<1> QED
  BY <1>1, <1>2, <1>3, <1>5, <1>6, InvGives, PlatformKeepsInv DEF TypeOK, QuotaIsKept, OnlyMoves

LEMMA DeleteModeKeepsInv ==
    ASSUME ConnectionInv, NEW p \in Platform, DeleteMode(p)
    PROVE  ConnectionInv'
<1>1. /\ modes' = modes \ {p}
      /\ UNCHANGED <<creds, agents, pool, quota, granted, op, crossed, run, period, ops>>
  BY DEF DeleteMode
<1>2. CredsGrow  BY <1>1, InvGives, CredsStay
<1>3. \A r \in Ops : OpKnows(r)'  BY <1>1, <1>2, InvGives, OthersKnow
<1>4. ops' \in 0..MaxOps /\ ops' >= ops  BY <1>1, InvGives, Bounds
<1> QED
  BY <1>1, <1>3, <1>4, InvGives, PlatformKeepsInv DEF TypeOK, QuotaIsKept

LEMMA ConsumeUnitsKeepsInv ==
    ASSUME ConnectionInv, NEW q \in Ops, ConsumeUnits(q)
    PROVE  ConnectionInv'
<1> DEFINE k == op[q].since
           units == op[q].units
<1>1. /\ op[q].at = "consume" /\ op' = [op EXCEPT ![q] = Free]
      /\ quota' = [quota EXCEPT ![k] = @ + units]
      /\ granted' = [granted EXCEPT ![k] = @ + units]
      /\ UNCHANGED <<creds, agents, modes, pool, crossed, run, period, ops>>
  BY DEF ConsumeUnits, Finish
<1>2. /\ k \in 0..MaxPeriod /\ units \in Nat /\ quota[k] + units <= QuotaLimit
      /\ quota \in [0..MaxPeriod -> Nat] /\ granted \in [0..MaxPeriod -> Nat]
      /\ \A j \in 0..MaxPeriod : quota[j] = granted[j] /\ quota[j] <= QuotaLimit
  BY <1>1, InvGives, OpFacts DEF OpKnows, TypeOK, QuotaIsKept
<1>3. OnlyMoves(q) /\ op'[q].at = "free" /\ OpKnows(q)'
  BY <1>1, InvGives, FinishMoves
<1>4. \A r \in Ops : r # q /\ op[r].at = "consume" => op[r].since # k
  BY <1>1, InvGives DEF OneHolder
<1> HIDE DEF k, units
<1>5. /\ quota' \in [0..MaxPeriod -> Nat] /\ granted' \in [0..MaxPeriod -> Nat]
      /\ \A j \in 0..MaxPeriod : quota'[j] = granted'[j] /\ quota'[j] <= QuotaLimit
      /\ \A j : j # k => quota'[j] = quota[j]
  <2>1. quota[k] + units \in Nat /\ granted[k] + units \in Nat  BY <1>2
  <2>2. /\ quota' \in [0..MaxPeriod -> Nat] /\ granted' \in [0..MaxPeriod -> Nat]
        /\ quota'[k] = quota[k] + units /\ granted'[k] = granted[k] + units
        /\ \A j : j # k => quota'[j] = quota[j] /\ granted'[j] = granted[j]
    BY <1>1, <1>2, <2>1
  <2> QED  BY <1>2, <2>2
<1>6. \A r \in Ops : OpKnows(r)'
  <2>1. CredsGrow  BY <1>1, InvGives, CredsStay
  <2> QED  BY <1>1, <1>3, <1>4, <1>5, <2>1, OpsKeepUp
<1>7. ops' \in 0..MaxOps /\ ops' >= ops  BY <1>1, InvGives, Bounds
<1> QED
  BY <1>1, <1>3, <1>5, <1>6, <1>7, InvGives, PlatformKeepsInv DEF TypeOK, QuotaIsKept, OnlyMoves

LEMMA ConnectionStep == ASSUME ConnectionInv, Next PROVE ConnectionInv'
<1>1. ASSUME NEW q \in Ops,
             \E p \in Providers, v \in Vendors :
                \/ AskConnection(q, p, v)
                \/ \E i \in DOMAIN creds, nested \in BOOLEAN : AskAgent(q, v, p, i, nested)
      PROVE  ConnectionInv'
  BY <1>1, AskConnectionKeepsInv, AskAgentKeepsInv
<1>2. ASSUME NEW q \in Ops,
             \/ \E p \in Platform : AskPlatformMode(q, p)
             \/ \E n \in DOMAIN agents : AskRun(q, n)
             \/ \E units \in 1..MaxUnits : AskQuota(q, units)
      PROVE  ConnectionInv'
  BY <1>2, AskPlatformModeKeepsInv, AskRunKeepsInv, AskQuotaKeepsInv
<1>3. ASSUME NEW q \in Ops, Serve(q) PROVE ConnectionInv'
  BY <1>3, InsertCredentialKeepsInv, UpsertContactKeepsInv, ListNamesKeepsInv,
     InsertAgentKeepsInv, InsertModeKeepsInv, LockPeriodKeepsInv, ConsumeUnitsKeepsInv,
     SelectKeepsInv
  DEF Serve
<1>4. ASSUME NEW q \in Ops, OpDies(q) PROVE ConnectionInv'  BY <1>4, OpDiesKeepsInv
<1>5. ASSUME NEW i \in DOMAIN creds, RevokeCredential(i) PROVE ConnectionInv'
  BY <1>5, RevokeCredentialKeepsInv
<1>6. ASSUME NEW p \in Platform, AddPoolEntry(p) \/ DeleteMode(p) PROVE ConnectionInv'
  BY <1>6, AddPoolEntryKeepsInv, DeleteModeKeepsInv
<1> QED  BY <1>1, <1>2, <1>3, <1>4, <1>5, <1>6, NextPeriodKeepsInv DEF Next

LEMMA ConnectionStutter == ASSUME ConnectionInv, UNCHANGED vars PROVE ConnectionInv'
<1>1. UNCHANGED <<creds, agents, modes, pool, quota, granted, op, crossed, run, period, ops>>
  BY DEF vars
<1>2. CredsGrow  BY <1>1, InvGives, CredsStay
<1>3. \A r \in Ops : OpKnows(r)'  BY <1>1, <1>2, InvGives, OthersKnow
<1>4. ops' \in 0..MaxOps /\ ops' >= ops  BY <1>1, InvGives, Bounds
<1> QED
  BY <1>1, <1>3, <1>4, InvGives, PlatformKeepsInv DEF TypeOK, QuotaIsKept

LEMMA ConnectionInit == ASSUME StartConnected PROVE ConnectionInv
<1>1. /\ modes = {} /\ pool = {} /\ crossed = {} /\ run = NoRun /\ ops = 0
      /\ quota = [k \in 0..MaxPeriod |-> 0] /\ granted = [k \in 0..MaxPeriod |-> 0]
      /\ op \in [Ops -> OpRow] /\ \A q \in Ops : op[q].at = "free"
      /\ period \in 0..MaxPeriod
  BY FreeIsARow, Bounds DEF StartConnected
<1>2. \A q \in Ops : OpKnows(q)  BY <1>1 DEF OpKnows, Makes
<1>3. OneHolder /\ NewestIsOnItsWay  BY <1>1 DEF OneHolder, NewestIsOnItsWay
<1>4. RunsFindTheirCredential /\ QuotaIsKept
  BY <1>1, Bounds DEF RunsFindTheirCredential, QuotaIsKept
<1>5. Connected \in Credential /\ Connected.vendor = v1 /\ Connected.provider = "deepseek"
      /\ Connected.valid /\ Connected.contacted
  BY ConnectedConstants DEF Connected, Credential
\* Nothing yet.
<1>6. CASE creds = << >>
  <2>1. agents = << >> /\ DOMAIN agents = {} /\ DOMAIN creds = {} /\ creds \in Seq(Credential)
    BY <1>6 DEF StartConnected
  <2>2. ContactFollowsNewest /\ AgentsAreConnected
    BY <2>1 DEF ContactFollowsNewest, AgentsAreConnected
  <2>3. TypeOK  BY <1>1, <2>1 DEF TypeOK
  <2>4. NamesAreLeft
    <3>1. Making = {}  BY <1>1 DEF Making, Makes
    <3> QED  BY <1>1, <2>1, <3>1, FS_EmptySet, Bounds DEF NamesAreLeft
  <2> QED
    BY <1>1, <1>2, <1>3, <1>4, <2>2, <2>3, <2>4 DEF ConnectionInv, ConnectionsAreSound
\* One connection and its contact.
<1>7. CASE creds = <<Connected>>
  <2> DEFINE row == [provider |-> "opencode", connection |-> 1]
  <2>1. /\ creds \in Seq(Credential) /\ DOMAIN creds = {1} /\ creds[1] = Connected
        /\ creds # << >>
    BY <1>5, <1>7
  <2>2. agents = [n \in {<<v1, 0>>} |-> row]  BY <2>1 DEF StartConnected
  <2>3. DOMAIN agents = {<<v1, 0>>} /\ agents[<<v1, 0>>] = row  BY <2>2
  <2>4. row \in AgentRow /\ row.connection = 1 /\ row.provider = "opencode"
    BY DEF AgentRow, CredentialIds
  <2> HIDE DEF row
  <2>5. ContactFollowsNewest
    <3> SUFFICES ASSUME NEW v \in Vendors
                 PROVE  LET contacted == {i \in DOMAIN creds : creds[i].vendor = v /\ creds[i].contacted}
                        IN  contacted # {} =>
                              <<v, 0>> \in DOMAIN agents /\ agents[<<v, 0>>].connection = Max(contacted)
      BY DEF ContactFollowsNewest
    <3> DEFINE contacted == {i \in DOMAIN creds : creds[i].vendor = v /\ creds[i].contacted}
    <3> SUFFICES ASSUME contacted # {}
                 PROVE  <<v, 0>> \in DOMAIN agents /\ agents[<<v, 0>>].connection = Max(contacted)
      OBVIOUS
    <3>1. v = v1 /\ contacted = {1}  BY <1>5, <2>1
    <3>2. Max({1}) = 1
      <4>1. {1} \subseteq 1..1 /\ {1} # {} /\ 1 \in Nat  OBVIOUS
      <4>2. Max({1}) \in {1}  BY <4>1, LargestNumber
      <4> QED  BY <4>2
    <3> QED  BY <2>3, <2>4, <3>1, <3>2
  <2>6. AgentsAreConnected
    BY <1>5, <2>1, <2>3, <2>4 DEF AgentsAreConnected, Family
  <2>7. TypeOK
    <3>1. <<v1, 0>> \in Names  BY ConnectedConstants, Bounds DEF Names
    <3>2. DOMAIN agents \subseteq Names /\ \A n \in DOMAIN agents : agents[n] \in AgentRow
      BY <2>3, <2>4, <3>1
    <3> QED  BY <1>1, <2>1, <3>2 DEF TypeOK
  <2>8. NamesAreLeft
    <3>1. Making = {}  BY <1>1 DEF Making, Makes
    <3>2. IsFiniteSet({<<v1, 0>>}) /\ Cardinality({<<v1, 0>>}) = 1  BY FS_Singleton
    <3> QED  BY <1>1, <2>3, <3>1, <3>2, FS_EmptySet, Bounds DEF NamesAreLeft
  <2> QED
    BY <1>1, <1>2, <1>3, <1>4, <2>5, <2>6, <2>7, <2>8 DEF ConnectionInv, ConnectionsAreSound
<1> QED  BY <1>6, <1>7 DEF StartConnected

-----------------------------------------------------------------------------
(***************************************************************************)
(* The runs of agents: what is known of one attempt, what a step of one    *)
(* attempt leaves of the others, and then every step.                      *)
(***************************************************************************)
LEMMA AgentBounds ==
    /\ MaxAttempts \in Nat \ {0} /\ MaxDrafts \in Nat \ {0} /\ Whole \in Nat \ {0}
    /\ MaxFaults \in Nat
    /\ Replies \subseteq Seq([type : STRING, riskLevel : STRING, calls : Seq(STRING)])
BY AgentConstants DEF Agent!AgentRunsAssumption

LEMMA RowFacts ==
    ASSUME NEW row \in AttemptRow
    PROVE  /\ row.at \in AgentPlaces /\ row.place \in {"none", "direct", "tree", "copy"}
           /\ row.port \in Ports \cup {0} /\ row.said \in 0..Whole
           /\ row.edited \in {"no", "yes", "indexed"} /\ row.diff \in BOOLEAN
           /\ row.err \in {"none", "final", "again"}
BY DEF AttemptRow

LEMMA AttemptFacts ==
    ASSUME AgentTypes, NEW a \in Agent!Attempts
    PROVE  /\ a[1] \in Runs /\ a[2] \in Agent!Numbers /\ a[2] \in Nat /\ a = <<a[1], a[2]>>
           /\ Agent!Of(a) = attempt[a[1]][a[2]] /\ Agent!Of(a) \in AttemptRow
           /\ Agent!Vendor(a) = activity[a[1]].vendor
<1>1. a[1] \in Runs /\ a[2] \in Agent!Numbers /\ a = <<a[1], a[2]>>  BY DEF Agent!Attempts
<1>2. a[2] \in Nat  BY <1>1, AgentBounds DEF Agent!Numbers
<1>3. attempt[a[1]][a[2]] \in AttemptRow  BY <1>1 DEF AgentTypes
<1> QED  BY <1>1, <1>2, <1>3 DEF Agent!Of, Agent!Vendor

LEMMA UnbornIsARow ==
    /\ Agent!Unborn \in AttemptRow /\ Agent!Unborn.at = "unborn" /\ Agent!Unborn.place = "none"
    /\ Agent!Unborn.edited = "no" /\ Agent!Unborn.err = "none"
BY AgentBounds DEF Agent!Unborn, AttemptRow, AgentPlaces

\* Attempt a moves and no other.
OneMoves(a) ==
    /\ attempt' \in [Runs -> [Agent!Numbers -> AttemptRow]]
    /\ \A b \in Agent!Attempts : b # a => Agent!Of(b)' = Agent!Of(b)

LEMMA SetMoves ==
    ASSUME AgentTypes, NEW a \in Agent!Attempts, NEW row \in AttemptRow, Agent!Set(a, row)
    PROVE  OneMoves(a) /\ Agent!Of(a)' = row
<1>1. attempt' = [attempt EXCEPT ![a[1]][a[2]] = row]  BY DEF Agent!Set
<1>2. a[1] \in Runs /\ a[2] \in Agent!Numbers /\ a = <<a[1], a[2]>>  BY AttemptFacts
<1>3. attempt \in [Runs -> [Agent!Numbers -> AttemptRow]]  BY DEF AgentTypes
<1>4. attempt' \in [Runs -> [Agent!Numbers -> AttemptRow]]  BY <1>1, <1>2, <1>3
<1>5. attempt'[a[1]][a[2]] = row  BY <1>1, <1>2, <1>3
<1>6. ASSUME NEW b \in Agent!Attempts, b # a
      PROVE  attempt'[b[1]][b[2]] = attempt[b[1]][b[2]]
  <2>1. b[1] \in Runs /\ b[2] \in Agent!Numbers /\ (b[1] # a[1] \/ b[2] # a[2])
    BY <1>2, <1>6, AttemptFacts
  <2> QED  BY <1>1, <1>2, <1>3, <2>1
<1> QED  BY <1>4, <1>5, <1>6 DEF OneMoves, Agent!Of

\* The row but for its place, or but for its place and its error.
GoesOn(a, at) ==
    LET old == Agent!Of(a)
        new == Agent!Of(a)'
    IN /\ new.at = at /\ new.place = old.place /\ new.port = old.port /\ new.said = old.said
       /\ new.edited = old.edited /\ new.diff = old.diff

LEMMA GoMovesOn ==
    ASSUME AgentTypes, NEW a \in Agent!Attempts, NEW at \in AgentPlaces, Agent!Go(a, at)
    PROVE  OneMoves(a) /\ GoesOn(a, at) /\ Agent!Of(a)'.err = Agent!Of(a).err
<1> DEFINE row == [Agent!Of(a) EXCEPT !.at = at]
<1>1. Agent!Of(a) \in AttemptRow  BY AttemptFacts
<1>2. /\ row \in AttemptRow /\ row.at = at /\ row.err = Agent!Of(a).err
      /\ row.place = Agent!Of(a).place /\ row.port = Agent!Of(a).port
      /\ row.said = Agent!Of(a).said /\ row.edited = Agent!Of(a).edited
      /\ row.diff = Agent!Of(a).diff
  BY <1>1 DEF AttemptRow
<1>3. Agent!Set(a, row)  BY DEF Agent!Go
<1> HIDE DEF row
<1>4. OneMoves(a) /\ Agent!Of(a)' = row  BY <1>2, <1>3, SetMoves
<1> QED  BY <1>2, <1>4 DEF GoesOn

LEMMA ThrowMovesOn ==
    ASSUME AgentTypes, NEW a \in Agent!Attempts, NEW at \in AgentPlaces,
           NEW err \in {"final", "again"}, Agent!Throw(a, err, at)
    PROVE  OneMoves(a) /\ GoesOn(a, at) /\ Agent!Of(a)'.err = err
<1> DEFINE row == [[Agent!Of(a) EXCEPT !.err = err] EXCEPT !.at = at]
<1>1. Agent!Of(a) \in AttemptRow  BY AttemptFacts
<1>2. /\ row \in AttemptRow /\ row.at = at /\ row.err = err
      /\ row.place = Agent!Of(a).place /\ row.port = Agent!Of(a).port
      /\ row.said = Agent!Of(a).said /\ row.edited = Agent!Of(a).edited
      /\ row.diff = Agent!Of(a).diff
  BY <1>1 DEF AttemptRow
<1>3. Agent!Set(a, row)  BY DEF Agent!Throw
<1> HIDE DEF row
<1>4. OneMoves(a) /\ Agent!Of(a)' = row  BY <1>2, <1>3, SetMoves
<1> QED  BY <1>2, <1>4 DEF GoesOn

LEMMA VendorStays ==
    ASSUME NEW a, activity' = activity
    PROVE  Agent!Vendor(a)' = Agent!Vendor(a)
BY DEF Agent!Vendor

\* What the others have behind them and leave.
LEMMA BehindStays ==
    ASSUME NEW b, Behind(b), Agent!Of(b)' = Agent!Of(b), UNCHANGED <<host, activity>>,
           faults \in Nat, faults' \in Nat, faults' >= faults
    PROVE  Behind(b)'
BY DEF Behind, Agent!Vendor

LEMMA LeavesStay ==
    ASSUME NEW b, Leaves(b), Agent!Of(b)' = Agent!Of(b), activity' = activity,
           b \in roots' <=> b \in roots, b \in trees' <=> b \in trees,
           b \in DOMAIN servers' <=> b \in DOMAIN servers,
           b \in unremoved' <=> b \in unremoved, b \in unclean' <=> b \in unclean
    PROVE  Leaves(b)'
BY DEF Leaves, Agent!Vendor

LEMMA OutcomesStay ==
    ASSUME AgentTypes, \A r \in Runs : OutcomeFits(r), activity' = activity,
           faults' \in Nat, faults' >= faults,
           \A a \in Agent!Attempts :
               Agent!Of(a)' = Agent!Of(a)
               \/ (Agent!Of(a).at # "done" /\ Agent!Of(a)'.at # "done")
    PROVE  \A r \in Runs : OutcomeFits(r)'
<1> SUFFICES ASSUME NEW r \in Runs PROVE OutcomeFits(r)'  OBVIOUS
<1>1. \A k \in Agent!Numbers :
         attempt'[r][k] = attempt[r][k] \/ (attempt[r][k].at # "done" /\ attempt'[r][k].at # "done")
  <2> SUFFICES ASSUME NEW k \in Agent!Numbers
               PROVE  attempt'[r][k] = attempt[r][k]
                      \/ (attempt[r][k].at # "done" /\ attempt'[r][k].at # "done")
    OBVIOUS
  <2>1. <<r, k>> \in Agent!Attempts  BY DEF Agent!Attempts
  <2>2. Agent!Of(<<r, k>>) = attempt[r][k] /\ Agent!Of(<<r, k>>)' = attempt'[r][k]  BY DEF Agent!Of
  <2> QED  BY <2>1, <2>2
<1>2. /\ activity[r].last \in 0..MaxAttempts /\ activity[r].outcome.by \in 0..MaxAttempts
      /\ MaxAttempts \in Nat /\ faults \in Nat
  BY AgentBounds DEF AgentTypes, ActivityRow, OutcomeRow
<1>3. \A k \in Nat : k > 0 /\ k <= MaxAttempts => k \in Agent!Numbers
  BY <1>2 DEF Agent!Numbers
<1>4. OutcomeFits(r)  OBVIOUS
<1>5. Agent!AttemptsOf(r)' = Agent!AttemptsOf(r)  BY DEF Agent!AttemptsOf
<1> QED  BY <1>1, <1>2, <1>3, <1>4, <1>5 DEF OutcomeFits

\* A step of one attempt that tells the activity nothing.
LEMMA AttemptStep ==
    ASSUME AgentInv, NEW a \in Agent!Attempts, OneMoves(a), UNCHANGED <<host, activity>>,
           Agent!Of(a).at # "done", Agent!Of(a)'.at # "done",
           faults' \in Nat, faults' >= faults,
           roots' \subseteq Agent!Attempts, trees' \subseteq Agent!Attempts,
           touched' \subseteq Agent!Attempts, unremoved' \subseteq Agent!Attempts,
           unclean' \subseteq Agent!Attempts, DOMAIN servers' \subseteq Agent!Attempts,
           \A b \in Agent!Attempts : Leaves(b)', Behind(a)',
           Agent!PortsAreApart', touched' # {} => ~host.sandboxed,
           faults' = 0 => unclean' = {} /\ unremoved' = {}
    PROVE  AgentInv'
<1>1. AgentTypes /\ AgentTypes'
  BY DEF AgentInv, AgentTypes, OneMoves, ActivityRow, OutcomeRow, AttemptRow, Agent!Kinds,
         Agent!Numbers, Agent!Attempts
<1>2. \A b \in Agent!Attempts : Behind(b)'
  <2> SUFFICES ASSUME NEW b \in Agent!Attempts, b # a PROVE Behind(b)'  OBVIOUS
  <2>1. Agent!Of(b)' = Agent!Of(b) /\ Behind(b)  BY DEF OneMoves, AgentInv
  <2> QED  BY <1>1, <2>1, BehindStays DEF AgentTypes
<1>3. \A r \in Runs : OutcomeFits(r)'
  <2>1. \A b \in Agent!Attempts :
           Agent!Of(b)' = Agent!Of(b) \/ (Agent!Of(b).at # "done" /\ Agent!Of(b)'.at # "done")
    BY DEF OneMoves
  <2> QED  BY <1>1, <2>1, OutcomesStay DEF AgentInv
<1> QED  BY <1>1, <1>2, <1>3 DEF AgentInv, Agent!Attempts, Agent!Numbers

LEMMA QuietStep ==
    ASSUME AgentInv, NEW a \in Agent!Attempts, OneMoves(a), UNCHANGED <<host, activity>>,
           UNCHANGED <<roots, trees, servers, touched, unremoved, unclean>>,
           Agent!Of(a).at # "done", Agent!Of(a)'.at # "done",
           faults' \in Nat, faults' >= faults, Leaves(a)', Behind(a)'
    PROVE  AgentInv'
<1>1. AgentTypes  BY DEF AgentInv
<1>2. \A b \in Agent!Attempts : Leaves(b)'
  <2> SUFFICES ASSUME NEW b \in Agent!Attempts, b # a PROVE Leaves(b)'  OBVIOUS
  <2>1. Agent!Of(b)' = Agent!Of(b) /\ Leaves(b)  BY DEF OneMoves, AgentInv
  <2> QED  BY <2>1, LeavesStay
<1>3. Agent!PortsAreApart'  BY DEF AgentInv, Agent!PortsAreApart
<1>4. faults' = 0 => faults = 0  BY <1>1 DEF AgentTypes
<1> QED  BY <1>1, <1>2, <1>3, <1>4, AttemptStep DEF AgentInv, AgentTypes

LEMMA AttemptGives ==
    ASSUME AgentInv, NEW a \in Agent!Attempts
    PROVE  /\ AgentTypes /\ Leaves(a) /\ Behind(a) /\ Agent!Of(a) \in AttemptRow
           /\ faults \in Nat /\ faults + 1 \in Nat /\ faults + 1 >= faults /\ faults >= faults
           /\ MaxFaults \in Nat /\ Whole \in Nat
           /\ Agent!Of(a).at \in AgentPlaces /\ Agent!Of(a).said \in 0..Whole
           /\ Agent!Of(a).place \in {"none", "direct", "tree", "copy"}
BY AttemptFacts, AgentBounds, RowFacts DEF AgentInv, AgentTypes

LeavesFiles == UNCHANGED <<host, activity>> /\ UNCHANGED <<roots, trees, servers, touched, unremoved, unclean>>

LEMMA CleanupGoes ==
    ASSUME NEW a
    PROVE  /\ Agent!Cleanup(a) \in {"untree", "unplace", "report"}
           /\ Agent!Cleanup(a) = "untree" <=> Agent!Of(a).place = "tree"
           /\ Agent!Cleanup(a) = "unplace" <=> Agent!Of(a).place = "copy"
BY DEF Agent!Cleanup

LEMMA FindKeyKeepsInv ==
    ASSUME AgentInv, NEW a \in Agent!Attempts, Agent!FindKey(a)
    PROVE  AgentInv'
<1>1. Agent!Of(a).at = "key" /\ LeavesFiles /\ faults' = faults
  BY DEF Agent!FindKey, Agent!Is, Agent!Of, Agent!Files, LeavesFiles
<1>2. Agent!Vendor(a)' = Agent!Vendor(a)  BY <1>1, VendorStays DEF LeavesFiles
<1>3. CASE Agent!Throw(a, "final", "report")
  <2>1. OneMoves(a) /\ GoesOn(a, "report") /\ Agent!Of(a)'.err = "final"
    BY <1>3, AttemptGives, ThrowMovesOn DEF AgentPlaces
  <2>2. Leaves(a)'  BY <1>1, <1>2, <2>1, AttemptGives DEF Leaves, GoesOn, LeavesFiles, Over, InTree
  <2>3. Behind(a)'
    BY <1>1, <1>2, <2>1, AttemptGives, UnbornIsARow DEF Behind, GoesOn, LeavesFiles
  <2> QED  BY <1>1, <2>1, <2>2, <2>3, QuietStep, AttemptGives DEF LeavesFiles, GoesOn
<1>4. ASSUME NEW p \in {"isolate", "talk"}, Agent!Go(a, p),
             p = "isolate" => Agent!WorksOnFiles(Agent!Vendor(a))
      PROVE  AgentInv'
  <2>1. OneMoves(a) /\ GoesOn(a, p) /\ Agent!Of(a)'.err = Agent!Of(a).err
    BY <1>4, AttemptGives, GoMovesOn DEF AgentPlaces
  <2>2. Leaves(a)'  BY <1>1, <1>2, <2>1, AttemptGives DEF Leaves, Behind, GoesOn, LeavesFiles, Over, InTree
  <2>3. Behind(a)'
    BY <1>1, <1>2, <1>4, <2>1, AttemptGives, UnbornIsARow DEF Behind, GoesOn, LeavesFiles
  <2> QED  BY <1>1, <2>1, <2>2, <2>3, QuietStep, AttemptGives DEF LeavesFiles, GoesOn
<1>5. Agent!Throw(a, "final", "report")
      \/ Agent!Go(a, IF Agent!WorksOnFiles(Agent!Vendor(a)) THEN "isolate" ELSE "talk")
  BY DEF Agent!FindKey
<1> QED  BY <1>3, <1>4, <1>5

LEMMA PlacedMoves ==
    ASSUME AgentTypes, NEW a \in Agent!Attempts, NEW place \in {"direct", "tree", "copy"},
           Agent!Placed(a, place)
    PROVE  /\ OneMoves(a) /\ Agent!Of(a)'.at \in {"port", "talk"}
           /\ Agent!Of(a)'.at = "port" => Agent!Vendor(a) = "opencode"
           /\ Agent!Of(a)'.place = place /\ Agent!Of(a)'.err = Agent!Of(a).err
           /\ Agent!Of(a)'.edited = Agent!Of(a).edited
<1> DEFINE at == IF Agent!Vendor(a) = "opencode" THEN "port" ELSE "talk"
           row == [[Agent!Of(a) EXCEPT !.place = place] EXCEPT !.at = at]
<1>1. Agent!Of(a) \in AttemptRow  BY AttemptFacts
<1>2. at \in {"port", "talk"} /\ (at = "port" => Agent!Vendor(a) = "opencode")  OBVIOUS
<1>3. Agent!Set(a, row)  BY DEF Agent!Placed
<1> HIDE DEF at
<1>4. /\ row \in AttemptRow /\ row.at = at /\ row.err = Agent!Of(a).err
      /\ row.place = place /\ row.edited = Agent!Of(a).edited
  BY <1>1, <1>2 DEF AttemptRow, AgentPlaces
<1> HIDE DEF row
<1>5. OneMoves(a) /\ Agent!Of(a)' = row  BY <1>3, <1>4, SetMoves
<1> QED  BY <1>2, <1>4, <1>5

LEMMA IsolateKeepsInv ==
    ASSUME AgentInv, NEW a \in Agent!Attempts, Agent!Isolate(a)
    PROVE  AgentInv'
<1>1. Agent!Of(a).at = "isolate" /\ LeavesFiles /\ faults' = faults
  BY DEF Agent!Isolate, Agent!Is, Agent!Of, Agent!Files, LeavesFiles
<1>2. Agent!Vendor(a)' = Agent!Vendor(a)  BY <1>1, VendorStays DEF LeavesFiles
<1>3. CASE Agent!Throw(a, "final", "report")
  <2>1. OneMoves(a) /\ GoesOn(a, "report") /\ Agent!Of(a)'.err = "final"
    BY <1>3, AttemptGives, ThrowMovesOn DEF AgentPlaces
  <2>2. Leaves(a)'  BY <1>1, <1>2, <2>1, AttemptGives DEF Leaves, GoesOn, LeavesFiles, Over, InTree
  <2>3. Behind(a)'
    BY <1>1, <1>2, <2>1, AttemptGives, UnbornIsARow DEF Behind, GoesOn, LeavesFiles
  <2> QED  BY <1>1, <2>1, <2>2, <2>3, QuietStep, AttemptGives DEF LeavesFiles, GoesOn
<1>4. CASE Agent!Go(a, "root")
  <2>1. OneMoves(a) /\ GoesOn(a, "root") /\ Agent!Of(a)'.err = Agent!Of(a).err
    BY <1>4, AttemptGives, GoMovesOn DEF AgentPlaces
  <2>2. Leaves(a)'  BY <1>1, <1>2, <2>1, AttemptGives DEF Leaves, GoesOn, LeavesFiles, Over, InTree
  <2>3. Behind(a)'
    BY <1>1, <1>2, <2>1, AttemptGives, UnbornIsARow DEF Behind, GoesOn, LeavesFiles
  <2> QED  BY <1>1, <2>1, <2>2, <2>3, QuietStep, AttemptGives DEF LeavesFiles, GoesOn
<1>5. CASE ~host.sandboxed /\ Agent!Placed(a, "direct")
  <2>1. /\ OneMoves(a) /\ Agent!Of(a)'.at \in {"port", "talk"}
        /\ Agent!Of(a)'.at = "port" => Agent!Vendor(a) = "opencode"
        /\ Agent!Of(a)'.place = "direct" /\ Agent!Of(a)'.err = Agent!Of(a).err
        /\ Agent!Of(a)'.edited = Agent!Of(a).edited
    BY <1>5, AttemptGives, PlacedMoves
  <2>2. Leaves(a)'  BY <1>1, <1>2, <2>1, AttemptGives DEF Leaves, LeavesFiles, Over, InTree
  <2>3. Behind(a)'
    BY <1>1, <1>2, <1>5, <2>1, AttemptGives, UnbornIsARow DEF Behind, LeavesFiles
  <2> QED  BY <1>1, <2>1, <2>2, <2>3, QuietStep, AttemptGives DEF LeavesFiles
<1> QED  BY <1>3, <1>4, <1>5 DEF Agent!Isolate, Agent!Placed

LEMMA MakeRootKeepsInv ==
    ASSUME AgentInv, NEW a \in Agent!Attempts, Agent!MakeRoot(a)
    PROVE  AgentInv'
<1>1. /\ Agent!Of(a).at = "root" /\ UNCHANGED <<host, activity>>
      /\ UNCHANGED <<trees, servers, touched, unremoved, unclean>>
  BY DEF Agent!MakeRoot, Agent!Is, Agent!Of
<1>2. Agent!Vendor(a)' = Agent!Vendor(a)  BY <1>1, VendorStays
<1>3. CASE Agent!Throw(a, "again", "report") /\ roots' = roots /\ faults' = faults + 1
  <2>1. OneMoves(a) /\ GoesOn(a, "report") /\ Agent!Of(a)'.err = "again"
    BY <1>3, AttemptGives, ThrowMovesOn DEF AgentPlaces
  <2>2. Leaves(a)'  BY <1>1, <1>2, <1>3, <2>1, AttemptGives DEF Leaves, GoesOn, Over, InTree
  <2>3. Behind(a)'
    BY <1>1, <1>2, <1>3, <2>1, AttemptGives, UnbornIsARow DEF Behind, GoesOn
  <2> QED  BY <1>1, <1>3, <2>1, <2>2, <2>3, QuietStep, AttemptGives DEF GoesOn
<1>4. CASE roots' = roots \cup {a} /\ Agent!Go(a, "tree") /\ UNCHANGED faults
  <2>1. OneMoves(a) /\ GoesOn(a, "tree") /\ Agent!Of(a)'.err = Agent!Of(a).err
    BY <1>4, AttemptGives, GoMovesOn DEF AgentPlaces
  <2>2. Leaves(a)'
    BY <1>1, <1>2, <1>4, <2>1, AttemptGives DEF Leaves, Behind, GoesOn, Over, InTree
  <2>3. Behind(a)'
    BY <1>1, <1>2, <1>4, <2>1, AttemptGives, UnbornIsARow DEF Behind, GoesOn
  <2>4. \A b \in Agent!Attempts : Leaves(b)'
    <3> SUFFICES ASSUME NEW b \in Agent!Attempts, b # a PROVE Leaves(b)'  BY <2>2
    <3>1. Agent!Of(b)' = Agent!Of(b) /\ Leaves(b)  BY <2>1 DEF OneMoves, AgentInv
    <3> QED  BY <1>1, <1>4, <3>1, LeavesStay
  <2>5. Agent!PortsAreApart'  BY <1>1 DEF AgentInv, Agent!PortsAreApart
  <2> QED
    BY <1>1, <1>4, <2>1, <2>3, <2>4, <2>5, AttemptStep, AttemptGives
    DEF GoesOn, AgentInv, AgentTypes
<1> QED  BY <1>3, <1>4 DEF Agent!MakeRoot

LEMMA WorktreeKeepsInv ==
    ASSUME AgentInv, NEW a \in Agent!Attempts, Agent!createGitWorktreeSandbox(a)
    PROVE  AgentInv'
<1>1. /\ Agent!Of(a).at = "tree" /\ UNCHANGED <<host, activity, faults>>
      /\ UNCHANGED <<roots, servers, touched, unremoved, unclean>>
      /\ trees' = trees \cup {a} /\ Agent!Placed(a, "tree")
  BY DEF Agent!createGitWorktreeSandbox, Agent!Is, Agent!Of
<1>2. Agent!Vendor(a)' = Agent!Vendor(a)  BY <1>1, VendorStays
<1>3. /\ OneMoves(a) /\ Agent!Of(a)'.at \in {"port", "talk"}
      /\ Agent!Of(a)'.at = "port" => Agent!Vendor(a) = "opencode"
      /\ Agent!Of(a)'.place = "tree" /\ Agent!Of(a)'.err = Agent!Of(a).err
      /\ Agent!Of(a)'.edited = Agent!Of(a).edited
  BY <1>1, AttemptGives, PlacedMoves
<1>4. Leaves(a)'  BY <1>1, <1>2, <1>3, AttemptGives DEF Leaves, Over, InTree
<1>5. Behind(a)'  BY <1>1, <1>2, <1>3, AttemptGives, UnbornIsARow DEF Behind
<1>6. \A b \in Agent!Attempts : Leaves(b)'
  <2> SUFFICES ASSUME NEW b \in Agent!Attempts, b # a PROVE Leaves(b)'  BY <1>4
  <2>1. Agent!Of(b)' = Agent!Of(b) /\ Leaves(b)  BY <1>3 DEF OneMoves, AgentInv
  <2> QED  BY <1>1, <2>1, LeavesStay
<1>7. Agent!PortsAreApart'  BY <1>1 DEF AgentInv, Agent!PortsAreApart
<1> QED
  BY <1>1, <1>3, <1>5, <1>6, <1>7, AttemptStep, AttemptGives DEF AgentInv, AgentTypes

LEMMA CopyKeepsInv ==
    ASSUME AgentInv, NEW a \in Agent!Attempts,
           \/ Agent!WorktreeFails(a) \/ Agent!createFilesystemCopySandbox(a) \/ Agent!CopyFails(a)
    PROVE  AgentInv'
<1>1. CASE Agent!WorktreeFails(a)
  <2>1. /\ Agent!Of(a).at = "tree" /\ LeavesFiles /\ faults' \in {faults, faults + 1}
        /\ Agent!Go(a, "copy")
    BY <1>1 DEF Agent!WorktreeFails, Agent!Is, Agent!Of, Agent!Files, LeavesFiles
  <2>2. OneMoves(a) /\ GoesOn(a, "copy") /\ Agent!Of(a)'.err = Agent!Of(a).err
    BY <2>1, AttemptGives, GoMovesOn DEF AgentPlaces
  <2>3. Agent!Vendor(a)' = Agent!Vendor(a)  BY <2>1, VendorStays DEF LeavesFiles
  <2>4. Leaves(a)'  BY <2>1, <2>2, <2>3, AttemptGives DEF Leaves, GoesOn, LeavesFiles, Over, InTree
  <2>5. Behind(a)'
    BY <2>1, <2>2, <2>3, AttemptGives, UnbornIsARow DEF Behind, GoesOn, LeavesFiles
  <2> QED  BY <2>1, <2>2, <2>4, <2>5, QuietStep, AttemptGives DEF LeavesFiles, GoesOn
<1>2. CASE Agent!CopyFails(a)
  <2>1. /\ Agent!Of(a).at = "copy" /\ LeavesFiles /\ faults' = faults + 1
        /\ Agent!Throw(a, "final", "unroot")
    BY <1>2 DEF Agent!CopyFails, Agent!Is, Agent!Of, Agent!Files, LeavesFiles
  <2>2. OneMoves(a) /\ GoesOn(a, "unroot") /\ Agent!Of(a)'.err = "final"
    BY <2>1, AttemptGives, ThrowMovesOn DEF AgentPlaces
  <2>3. Agent!Vendor(a)' = Agent!Vendor(a)  BY <2>1, VendorStays DEF LeavesFiles
  <2>4. Leaves(a)'  BY <2>1, <2>2, <2>3, AttemptGives DEF Leaves, GoesOn, LeavesFiles, Over, InTree
  <2>5. Behind(a)'
    BY <2>1, <2>2, <2>3, AttemptGives, UnbornIsARow DEF Behind, GoesOn, LeavesFiles
  <2> QED  BY <2>1, <2>2, <2>4, <2>5, QuietStep, AttemptGives DEF LeavesFiles, GoesOn
<1>3. CASE Agent!createFilesystemCopySandbox(a)
  <2>1. Agent!Of(a).at = "copy" /\ LeavesFiles /\ faults' = faults /\ Agent!Placed(a, "copy")
    BY <1>3 DEF Agent!createFilesystemCopySandbox, Agent!Is, Agent!Of, Agent!Files, LeavesFiles
  <2>2. /\ OneMoves(a) /\ Agent!Of(a)'.at \in {"port", "talk"}
        /\ Agent!Of(a)'.at = "port" => Agent!Vendor(a) = "opencode"
        /\ Agent!Of(a)'.place = "copy" /\ Agent!Of(a)'.err = Agent!Of(a).err
        /\ Agent!Of(a)'.edited = Agent!Of(a).edited
    BY <2>1, AttemptGives, PlacedMoves
  <2>3. Agent!Vendor(a)' = Agent!Vendor(a)  BY <2>1, VendorStays DEF LeavesFiles
  <2>4. Leaves(a)'  BY <2>1, <2>2, <2>3, AttemptGives DEF Leaves, LeavesFiles, Over, InTree
  <2>5. Behind(a)'  BY <2>1, <2>2, <2>3, AttemptGives, UnbornIsARow DEF Behind, LeavesFiles
  <2> QED  BY <2>1, <2>2, <2>4, <2>5, QuietStep, AttemptGives DEF LeavesFiles
<1> QED  BY <1>1, <1>2, <1>3

\* The temporary directory is removed by an attempt that has nothing else left in it.
LEMMA RemoveRootKeepsInv ==
    ASSUME AgentInv, NEW a \in Agent!Attempts, Agent!DropRoot(a) \/ Agent!RemovePlace(a)
    PROVE  AgentInv'
<1>1. /\ Agent!Of(a).at \in {"unroot", "unplace"} /\ Agent!RemoveRoot(a)
      /\ UNCHANGED <<host, activity>> /\ UNCHANGED <<trees, servers, touched, unremoved>>
  BY DEF Agent!DropRoot, Agent!RemovePlace, Agent!RemoveRoot, Agent!Is, Agent!Of
<1>2. Agent!Vendor(a)' = Agent!Vendor(a)  BY <1>1, VendorStays
<1>3. Agent!PortsAreApart'  BY <1>1 DEF AgentInv, Agent!PortsAreApart
<1>4. a \notin unclean /\ (a \in trees => a \in unremoved)
  BY <1>1, AttemptGives DEF Leaves, Over, InTree
<1>5. CASE roots' = roots \ {a} /\ Agent!Go(a, "report") /\ UNCHANGED <<unclean, faults>>
  <2>1. OneMoves(a) /\ GoesOn(a, "report") /\ Agent!Of(a)'.err = Agent!Of(a).err
    BY <1>5, AttemptGives, GoMovesOn DEF AgentPlaces
  <2>2. Leaves(a)'
    BY <1>1, <1>2, <1>4, <1>5, <2>1, AttemptGives DEF Leaves, GoesOn, Over, InTree
  <2>3. Behind(a)'
    BY <1>1, <1>2, <1>5, <2>1, AttemptGives, UnbornIsARow DEF Behind, GoesOn
  <2>4. \A b \in Agent!Attempts : Leaves(b)'
    <3> SUFFICES ASSUME NEW b \in Agent!Attempts, b # a PROVE Leaves(b)'  BY <2>2
    <3>1. Agent!Of(b)' = Agent!Of(b) /\ Leaves(b)  BY <2>1 DEF OneMoves, AgentInv
    <3> QED  BY <1>1, <1>5, <3>1, LeavesStay
  <2> QED
    BY <1>1, <1>3, <1>5, <2>1, <2>3, <2>4, AttemptStep, AttemptGives
    DEF GoesOn, AgentInv, AgentTypes
<1>6. CASE /\ faults' = faults + 1 /\ Agent!Throw(a, "again", "report")
           /\ unclean' = unclean \cup {a} /\ UNCHANGED roots
  <2>1. OneMoves(a) /\ GoesOn(a, "report") /\ Agent!Of(a)'.err = "again"
    BY <1>6, AttemptGives, ThrowMovesOn DEF AgentPlaces
  <2>2. Leaves(a)'
    BY <1>1, <1>2, <1>4, <1>6, <2>1, AttemptGives DEF Leaves, GoesOn, Over, InTree
  <2>3. Behind(a)'
    BY <1>1, <1>2, <1>6, <2>1, AttemptGives, UnbornIsARow DEF Behind, GoesOn
  <2>4. \A b \in Agent!Attempts : Leaves(b)'
    <3> SUFFICES ASSUME NEW b \in Agent!Attempts, b # a PROVE Leaves(b)'  BY <2>2
    <3>1. Agent!Of(b)' = Agent!Of(b) /\ Leaves(b)  BY <2>1 DEF OneMoves, AgentInv
    <3> QED  BY <1>1, <1>6, <3>1, LeavesStay
  <2>5. faults' # 0  BY <1>6, AttemptGives
  <2> QED
    BY <1>1, <1>3, <1>6, <2>1, <2>3, <2>4, <2>5, AttemptStep, AttemptGives
    DEF GoesOn, AgentInv, AgentTypes
<1> QED  BY <1>1, <1>5, <1>6 DEF Agent!RemoveRoot

LEMMA FindPortKeepsInv ==
    ASSUME AgentInv, NEW a \in Agent!Attempts, Agent!findFreePort(a)
    PROVE  AgentInv'
<1>1. Agent!Of(a).at = "port" /\ LeavesFiles /\ faults' = faults
  BY DEF Agent!findFreePort, Agent!Is, Agent!Of, Agent!Files, LeavesFiles
<1>2. Agent!Vendor(a)' = Agent!Vendor(a)  BY <1>1, VendorStays DEF LeavesFiles
<1>3. PICK p \in Ports : Agent!Set(a, [Agent!Of(a) EXCEPT !.port = p, !.at = "serve"])
  BY DEF Agent!findFreePort
<1> DEFINE row == [Agent!Of(a) EXCEPT !.port = p, !.at = "serve"]
<1>4. /\ row \in AttemptRow /\ row.at = "serve" /\ row.err = Agent!Of(a).err
      /\ row.place = Agent!Of(a).place /\ row.edited = Agent!Of(a).edited
  BY AttemptGives DEF AttemptRow, AgentPlaces
<1>5. Agent!Set(a, row)  BY <1>3
<1> HIDE DEF row
<1>6. OneMoves(a) /\ Agent!Of(a)' = row  BY <1>4, <1>5, AttemptGives, SetMoves
<1>7. Leaves(a)'  BY <1>1, <1>2, <1>4, <1>6, AttemptGives DEF Leaves, LeavesFiles, Over, InTree
<1>8. Behind(a)'  BY <1>1, <1>2, <1>4, <1>6, AttemptGives, UnbornIsARow DEF Behind, LeavesFiles
<1> QED  BY <1>1, <1>4, <1>6, <1>7, <1>8, QuietStep, AttemptGives DEF LeavesFiles

\* The rest of an attempt's way after an error, when nothing else changes.
LEMMA FailsKeepsInv ==
    ASSUME AgentInv, NEW a \in Agent!Attempts, LeavesFiles, faults' = faults,
           Agent!Of(a).at \in {"serve", "talk"}, NEW err \in {"final", "again"},
           NEW at \in {"close", "untree", "unplace", "report"}, Agent!Throw(a, err, at),
           at = "close" => a \in DOMAIN servers /\ Agent!Of(a).at = "talk",
           at # "close" => at = Agent!Cleanup(a) /\ a \notin DOMAIN servers
    PROVE  AgentInv'
<1>1. Agent!Vendor(a)' = Agent!Vendor(a)  BY VendorStays DEF LeavesFiles
<1>2. OneMoves(a) /\ GoesOn(a, at) /\ Agent!Of(a)'.err = err
  BY AttemptGives, ThrowMovesOn DEF AgentPlaces
<1>3. a \notin unclean  BY AttemptGives DEF Leaves, Over
<1>4. Leaves(a)'
  BY <1>1, <1>2, <1>3, AttemptGives, CleanupGoes DEF Leaves, GoesOn, LeavesFiles, Over, InTree
<1>5. Behind(a)'  BY <1>1, <1>2, AttemptGives, UnbornIsARow DEF Behind, GoesOn, LeavesFiles
<1> QED  BY <1>2, <1>4, <1>5, QuietStep, AttemptGives DEF LeavesFiles, GoesOn

LEMMA StartServerKeepsInv ==
    ASSUME AgentInv, NEW a \in Agent!Attempts, Agent!StartServer(a)
    PROVE  AgentInv'
<1>1. /\ Agent!Of(a).at = "serve" /\ UNCHANGED <<host, activity, faults>>
      /\ UNCHANGED <<roots, trees, touched, unremoved, unclean>>
  BY DEF Agent!StartServer, Agent!Is, Agent!Of
<1>2. Agent!Vendor(a)' = Agent!Vendor(a)  BY <1>1, VendorStays
<1>3. a \notin DOMAIN servers /\ a \notin unclean  BY <1>1, AttemptGives DEF Leaves, Over
<1>4. CASE Agent!Of(a).port \in Agent!Listening
  <2>1. servers' = servers /\ \E err \in {"final", "again"} : Agent!Throw(a, err, Agent!Cleanup(a))
    BY <1>4 DEF Agent!StartServer
  <2>2. PICK err \in {"final", "again"} : Agent!Throw(a, err, Agent!Cleanup(a))  BY <2>1
  <2> QED  BY <1>1, <1>3, <2>1, <2>2, FailsKeepsInv, CleanupGoes DEF LeavesFiles
<1>5. CASE Agent!Of(a).port \notin Agent!Listening
  <2>1. /\ Agent!Go(a, "talk")
        /\ servers' = [s \in DOMAIN servers \cup {a} |->
                          IF s = a THEN Agent!Of(a).port ELSE servers[s]]
    BY <1>5 DEF Agent!StartServer
  <2>2. OneMoves(a) /\ GoesOn(a, "talk") /\ Agent!Of(a)'.err = Agent!Of(a).err
    BY <2>1, AttemptGives, GoMovesOn DEF AgentPlaces
  <2>3. Agent!Vendor(a) = "opencode"  BY <1>1, AttemptGives DEF Behind
  <2>4. DOMAIN servers' = DOMAIN servers \cup {a}  BY <2>1
  <2>5. Leaves(a)'
    BY <1>1, <1>2, <1>3, <2>2, <2>3, AttemptGives DEF Leaves, GoesOn, Over, InTree
  <2>6. Behind(a)'  BY <1>1, <1>2, <2>2, AttemptGives, UnbornIsARow DEF Behind, GoesOn
  <2>7. \A b \in Agent!Attempts : Leaves(b)'
    <3> SUFFICES ASSUME NEW b \in Agent!Attempts, b # a PROVE Leaves(b)'  BY <2>5
    <3>1. Agent!Of(b)' = Agent!Of(b) /\ Leaves(b)  BY <2>2 DEF OneMoves, AgentInv
    <3> QED  BY <1>1, <2>4, <3>1, LeavesStay
  <2>8. Agent!PortsAreApart'
    <3>1. \A s \in DOMAIN servers : servers[s] # Agent!Of(a).port
      BY <1>5 DEF Agent!Listening
    <3> QED  BY <2>1, <3>1 DEF AgentInv, Agent!PortsAreApart
  <2> QED
    BY <1>1, <2>2, <2>4, <2>6, <2>7, <2>8, AttemptStep, AttemptGives
    DEF GoesOn, AgentInv, AgentTypes
<1> QED  BY <1>4, <1>5

LEMMA SpeakKeepsInv ==
    ASSUME AgentInv, NEW a \in Agent!Attempts, Agent!Speak(a)
    PROVE  AgentInv'
<1>1. Agent!Of(a).at = "talk" /\ Agent!Of(a).said < Whole /\ LeavesFiles /\ faults' = faults
  BY DEF Agent!Speak, Agent!Is, Agent!Of, Agent!Files, LeavesFiles
<1>2. Agent!Vendor(a)' = Agent!Vendor(a)  BY <1>1, VendorStays DEF LeavesFiles
<1> DEFINE said == IF Agent!Vendor(a) = "opencode" THEN Whole ELSE Agent!Of(a).said + 1
           row == [Agent!Of(a) EXCEPT !.said = said]
<1>3. said \in 0..Whole  BY <1>1, AttemptGives
<1>4. Agent!Set(a, row)
  <2>1. Agent!Of(a) \in AttemptRow  BY AttemptGives
  <2>2. [Agent!Of(a) EXCEPT !.said = IF Agent!Vendor(a) = "opencode" THEN Whole ELSE @ + 1] = row
    BY <2>1
  <2> QED  BY <2>2 DEF Agent!Speak
<1> HIDE DEF said
<1>5. /\ row \in AttemptRow /\ row.at = "talk" /\ row.err = Agent!Of(a).err
      /\ row.place = Agent!Of(a).place /\ row.edited = Agent!Of(a).edited
  BY <1>1, <1>3, AttemptGives DEF AttemptRow, AgentPlaces
<1> HIDE DEF row
<1>6. OneMoves(a) /\ Agent!Of(a)' = row  BY <1>4, <1>5, AttemptGives, SetMoves
<1>7. Leaves(a)'  BY <1>1, <1>2, <1>5, <1>6, AttemptGives DEF Leaves, LeavesFiles, Over, InTree
<1>8. Behind(a)'  BY <1>1, <1>2, <1>5, <1>6, AttemptGives, UnbornIsARow DEF Behind, LeavesFiles
<1> QED  BY <1>1, <1>5, <1>6, <1>7, <1>8, QuietStep, AttemptGives DEF LeavesFiles

LEMMA EditKeepsInv ==
    ASSUME AgentInv, NEW a \in Agent!Attempts, Agent!Edit(a)
    PROVE  AgentInv'
<1>1. /\ Agent!Of(a).at = "talk" /\ Agent!WorksOnFiles(Agent!Vendor(a))
      /\ UNCHANGED <<host, activity, faults>>
      /\ UNCHANGED <<roots, trees, servers, unremoved, unclean>>
      /\ touched' = IF Agent!Of(a).place = "direct" THEN touched \cup {a} ELSE touched
  BY DEF Agent!Edit, Agent!Is, Agent!Of
<1>2. Agent!Vendor(a)' = Agent!Vendor(a)  BY <1>1, VendorStays
<1> DEFINE row == [Agent!Of(a) EXCEPT !.edited = "yes"]
<1>3. Agent!Set(a, row)  BY DEF Agent!Edit
<1>4. /\ row \in AttemptRow /\ row.at = "talk" /\ row.err = Agent!Of(a).err
      /\ row.place = Agent!Of(a).place
  BY <1>1, AttemptGives DEF AttemptRow
<1> HIDE DEF row
<1>5. OneMoves(a) /\ Agent!Of(a)' = row  BY <1>3, <1>4, AttemptGives, SetMoves
<1>6. Leaves(a)'  BY <1>1, <1>2, <1>4, <1>5, AttemptGives DEF Leaves, Over, InTree
<1>7. Behind(a)'  BY <1>1, <1>2, <1>4, <1>5, AttemptGives, UnbornIsARow DEF Behind
<1>8. \A b \in Agent!Attempts : Leaves(b)'
  <2> SUFFICES ASSUME NEW b \in Agent!Attempts, b # a PROVE Leaves(b)'  BY <1>6
  <2>1. Agent!Of(b)' = Agent!Of(b) /\ Leaves(b)  BY <1>5 DEF OneMoves, AgentInv
  <2> QED  BY <1>1, <2>1, LeavesStay
<1>9. Agent!PortsAreApart'  BY <1>1 DEF AgentInv, Agent!PortsAreApart
<1>10. touched' # {} => ~host.sandboxed  BY <1>1, AttemptGives DEF AgentInv, Behind
<1>11. touched' \subseteq Agent!Attempts  BY <1>1 DEF AgentInv, AgentTypes
<1> QED
  BY <1>1, <1>4, <1>5, <1>7, <1>8, <1>9, <1>10, <1>11, AttemptStep, AttemptGives
  DEF AgentInv, AgentTypes

LEMMA LeaveGoes ==
    ASSUME NEW a
    PROVE  /\ a \in DOMAIN servers => Agent!Leave(a) = "close"
           /\ a \notin DOMAIN servers => Agent!Leave(a) = Agent!Cleanup(a)
           /\ Agent!Leave(a) \in {"close", "untree", "unplace", "report"}
           /\ Agent!Leave(a) = "close" => a \in DOMAIN servers
BY CleanupGoes DEF Agent!Leave

LEMMA ProviderFailsKeepsInv ==
    ASSUME AgentInv, NEW a \in Agent!Attempts, Agent!ProviderFails(a)
    PROVE  AgentInv'
<1>1. Agent!Of(a).at = "talk" /\ LeavesFiles /\ faults' = faults
  BY DEF Agent!ProviderFails, Agent!Is, Agent!Of, Agent!Files, LeavesFiles
<1>2. PICK f \in Agent!Failures :
         Agent!Throw(a, Agent!ErrorOf(Agent!Vendor(a), f), Agent!Leave(a))
  BY DEF Agent!ProviderFails
<1>3. Agent!ErrorOf(Agent!Vendor(a), f) \in {"final", "again"}  BY DEF Agent!ErrorOf
<1> QED  BY <1>1, <1>2, <1>3, LeaveGoes, FailsKeepsInv

LEMMA AnswerEndsKeepsInv ==
    ASSUME AgentInv, NEW a \in Agent!Attempts, Agent!AnswerEnds(a)
    PROVE  AgentInv'
<1>1. Agent!Of(a).at = "talk" /\ LeavesFiles
  BY DEF Agent!AnswerEnds, Agent!Is, Agent!Of, Agent!Files, LeavesFiles
<1>2. Agent!Vendor(a)' = Agent!Vendor(a)  BY <1>1, VendorStays DEF LeavesFiles
<1> DEFINE Said(repeated) == IF repeated THEN Whole ELSE Agent!Of(a).said
           at == IF Agent!WorksOnFiles(Agent!Vendor(a)) THEN "diff" ELSE "report"
<1>3. PICK repeated \in BOOLEAN :
         /\ IF Said(repeated) = Whole THEN UNCHANGED faults
            ELSE Agent!Vendor(a) # "opencode" /\ Agent!MayFail /\ faults' = faults + 1
         /\ Agent!Set(a, [Agent!Of(a) EXCEPT !.said = Said(repeated), !.at = at])
  BY DEF Agent!AnswerEnds
<1> DEFINE said == Said(repeated)
           row == [Agent!Of(a) EXCEPT !.said = said, !.at = at]
<1>4. said \in 0..Whole  BY AttemptGives
<1>5. Agent!Set(a, row)  BY <1>3
<1>6. /\ faults' \in Nat /\ faults' >= faults /\ (said = Whole \/ faults' > 0)
  BY <1>3, AttemptGives
<1>7. /\ at \in {"diff", "report"}
      /\ at = "report" => ~Agent!WorksOnFiles(Agent!Vendor(a))
      /\ at = "diff" => Agent!WorksOnFiles(Agent!Vendor(a))
  OBVIOUS
<1> HIDE DEF said, at, Said
<1>8. /\ row \in AttemptRow /\ row.at = at /\ row.err = Agent!Of(a).err /\ row.said = said
      /\ row.place = Agent!Of(a).place /\ row.edited = Agent!Of(a).edited
  BY <1>4, <1>7, AttemptGives DEF AttemptRow, AgentPlaces
<1> HIDE DEF row
<1>9. OneMoves(a) /\ Agent!Of(a)' = row  BY <1>5, <1>8, AttemptGives, SetMoves
<1>10. at = "report" => a \notin DOMAIN servers /\ Agent!Of(a).place = "none"
  BY <1>1, <1>7, AttemptGives DEF Leaves, Over, Behind, Agent!WorksOnFiles
<1>11. Leaves(a)'
  BY <1>1, <1>2, <1>7, <1>8, <1>9, <1>10, AttemptGives DEF Leaves, LeavesFiles, Over, InTree
<1>12. Behind(a)'
  <2>1. faults' = 0 => faults = 0  BY <1>6, AttemptGives
  <2> QED
    BY <1>1, <1>2, <1>6, <1>7, <1>8, <1>9, <2>1, AttemptGives, UnbornIsARow DEF Behind, LeavesFiles
<1> QED
  BY <1>1, <1>6, <1>7, <1>8, <1>9, <1>11, <1>12, QuietStep, AttemptGives DEF LeavesFiles

LEMMA DiffKeepsInv ==
    ASSUME AgentInv, NEW a \in Agent!Attempts, Agent!captureWorkspaceDiff(a)
    PROVE  AgentInv'
<1>1. Agent!Of(a).at = "diff" /\ LeavesFiles
  BY DEF Agent!captureWorkspaceDiff, Agent!Is, Agent!Of, Agent!Files, LeavesFiles
<1>2. Agent!Vendor(a)' = Agent!Vendor(a)  BY <1>1, VendorStays DEF LeavesFiles
<1>3. a \notin unclean  BY <1>1, AttemptGives DEF Leaves, Over
<1> DEFINE changed == Agent!collectWorkspaceDiff(a)
           at == Agent!Leave(a)
<1>4. at \in {"close", "untree", "unplace", "report"}  BY LeaveGoes
<1>5. CASE changed /\ faults' = faults + 1 /\ Agent!Go(a, at)
  <2>1. OneMoves(a) /\ GoesOn(a, at) /\ Agent!Of(a)'.err = Agent!Of(a).err
    BY <1>4, <1>5, AttemptGives, GoMovesOn DEF AgentPlaces
  <2>2. Leaves(a)'
    BY <1>1, <1>2, <1>3, <2>1, AttemptGives, CleanupGoes, LeaveGoes
    DEF Leaves, GoesOn, LeavesFiles, Over, InTree
  <2>3. faults' # 0 /\ faults' > 0  BY <1>5, AttemptGives
  <2>4. Behind(a)'
    BY <1>1, <1>2, <1>4, <2>1, <2>3, AttemptGives, UnbornIsARow DEF Behind, GoesOn, LeavesFiles
  <2> QED  BY <1>1, <1>4, <1>5, <2>1, <2>2, <2>4, QuietStep, AttemptGives DEF LeavesFiles, GoesOn
<1>6. ASSUME NEW indexed \in BOOLEAN, indexed => changed, UNCHANGED faults,
             Agent!Set(a, [Agent!Of(a) EXCEPT !.diff = changed /\ ~indexed, !.at = at,
                                 !.edited = IF indexed THEN "indexed" ELSE @])
      PROVE  AgentInv'
  <2> DEFINE edited == IF indexed THEN "indexed" ELSE Agent!Of(a).edited
             diff == changed /\ ~indexed
             row == [Agent!Of(a) EXCEPT !.diff = diff, !.at = at, !.edited = edited]
  <2>1. Agent!Of(a) \in AttemptRow  BY AttemptGives
  <2>2. Agent!Set(a, row)
    <3>1. [Agent!Of(a) EXCEPT !.diff = changed /\ ~indexed, !.at = at,
                              !.edited = IF indexed THEN "indexed" ELSE @] = row
      BY <2>1 DEF AttemptRow
    <3> QED  BY <1>6, <3>1
  <2>3. edited \in {"no", "yes", "indexed"} /\ diff \in BOOLEAN  BY <2>1, RowFacts
  <2>4. edited = "yes" => ~indexed /\ Agent!Of(a).edited = "yes"  OBVIOUS
  <2>5. edited = "yes" /\ Agent!Of(a).place # "direct" => diff
    BY <2>4 DEF Agent!collectWorkspaceDiff
  <2>6. edited # "no" => Agent!WorksOnFiles(Agent!Vendor(a))
    BY <1>1, <1>6, AttemptGives DEF Behind, Agent!collectWorkspaceDiff
  <2> HIDE DEF edited, diff, at
  <2>7. /\ row \in AttemptRow /\ row.at = at /\ row.err = Agent!Of(a).err
        /\ row.said = Agent!Of(a).said /\ row.diff = diff
        /\ row.place = Agent!Of(a).place /\ row.edited = edited
    <3>1. /\ row.at = at /\ row.err = Agent!Of(a).err /\ row.said = Agent!Of(a).said
          /\ row.place = Agent!Of(a).place /\ row.edited = edited
      BY <2>1 DEF AttemptRow
    <3>2. row.diff = diff  BY <2>1, Zenon DEF AttemptRow
    <3>3. row \in AttemptRow  BY <1>4, <2>1, <2>3, ZenonT(60) DEF AttemptRow, AgentPlaces
    <3> QED  BY <3>1, <3>2, <3>3
  <2> HIDE DEF row
  <2>8. OneMoves(a) /\ Agent!Of(a)' = row  BY <2>2, <2>7, AttemptGives, SetMoves
  <2>9. Leaves(a)'
    <3>1. /\ at = "close" => a \in DOMAIN servers
          /\ at # "close" => at = Agent!Cleanup(a) /\ a \notin DOMAIN servers
      BY LeaveGoes DEF at
    <3> QED
      BY <1>1, <1>2, <1>3, <1>4, <2>7, <2>8, <3>1, AttemptGives, CleanupGoes
      DEF Leaves, LeavesFiles, Over, InTree
  <2>10. Behind(a)'
    BY <1>1, <1>2, <1>4, <1>6, <2>5, <2>6, <2>7, <2>8, AttemptGives, UnbornIsARow DEF Behind, LeavesFiles
  <2> QED  BY <1>1, <1>4, <1>6, <2>7, <2>8, <2>9, <2>10, QuietStep, AttemptGives DEF LeavesFiles
<1> QED  BY <1>5, <1>6 DEF Agent!captureWorkspaceDiff

LEMMA CloseServerKeepsInv ==
    ASSUME AgentInv, NEW a \in Agent!Attempts, Agent!CloseServer(a)
    PROVE  AgentInv'
<1>1. /\ Agent!Of(a).at = "close" /\ UNCHANGED <<host, activity>>
      /\ UNCHANGED <<roots, trees, touched, unremoved>>
  BY DEF Agent!CloseServer, Agent!Is, Agent!Of
<1>2. Agent!Vendor(a)' = Agent!Vendor(a)  BY <1>1, VendorStays
<1>3. a \notin unclean  BY <1>1, AttemptGives DEF Leaves, Over
<1>4. CASE /\ servers' = [s \in DOMAIN servers \ {a} |-> servers[s]]
           /\ Agent!Go(a, Agent!Cleanup(a)) /\ UNCHANGED <<unclean, faults>>
  <2>1. OneMoves(a) /\ GoesOn(a, Agent!Cleanup(a)) /\ Agent!Of(a)'.err = Agent!Of(a).err
    BY <1>4, AttemptGives, GoMovesOn, CleanupGoes DEF AgentPlaces
  <2>2. DOMAIN servers' = DOMAIN servers \ {a}  BY <1>4
  <2>3. Leaves(a)'
    BY <1>1, <1>2, <1>3, <1>4, <2>1, <2>2, AttemptGives, CleanupGoes
    DEF Leaves, GoesOn, Over, InTree
  <2>4. Behind(a)'
    BY <1>1, <1>2, <1>4, <2>1, AttemptGives, CleanupGoes, UnbornIsARow DEF Behind, GoesOn
  <2>5. \A b \in Agent!Attempts : Leaves(b)'
    <3> SUFFICES ASSUME NEW b \in Agent!Attempts, b # a PROVE Leaves(b)'  BY <2>3
    <3>1. Agent!Of(b)' = Agent!Of(b) /\ Leaves(b)  BY <2>1 DEF OneMoves, AgentInv
    <3> QED  BY <1>1, <1>4, <2>2, <3>1, LeavesStay
  <2>6. Agent!PortsAreApart'  BY <1>4 DEF AgentInv, Agent!PortsAreApart
  <2>7. Agent!Of(a)'.at # "done"  BY <2>1, CleanupGoes DEF GoesOn
  <2> QED
    BY <1>1, <1>4, <2>1, <2>2, <2>4, <2>5, <2>6, <2>7, AttemptStep, AttemptGives
    DEF AgentInv, AgentTypes
<1>5. CASE /\ faults' = faults + 1 /\ Agent!Throw(a, "again", "report")
           /\ unclean' = unclean \cup {a} /\ UNCHANGED servers
  <2>1. OneMoves(a) /\ GoesOn(a, "report") /\ Agent!Of(a)'.err = "again"
    BY <1>5, AttemptGives, ThrowMovesOn DEF AgentPlaces
  <2>2. Leaves(a)'
    BY <1>1, <1>2, <1>3, <1>5, <2>1, AttemptGives DEF Leaves, GoesOn, Over, InTree
  <2>3. Behind(a)'
    BY <1>1, <1>2, <1>5, <2>1, AttemptGives, UnbornIsARow DEF Behind, GoesOn
  <2>4. \A b \in Agent!Attempts : Leaves(b)'
    <3> SUFFICES ASSUME NEW b \in Agent!Attempts, b # a PROVE Leaves(b)'  BY <2>2
    <3>1. Agent!Of(b)' = Agent!Of(b) /\ Leaves(b)  BY <2>1 DEF OneMoves, AgentInv
    <3> QED  BY <1>1, <1>5, <3>1, LeavesStay
  <2>5. faults' # 0  BY <1>5, AttemptGives
  <2>6. Agent!PortsAreApart'  BY <1>5 DEF AgentInv, Agent!PortsAreApart
  <2> QED
    BY <1>1, <1>5, <2>1, <2>3, <2>4, <2>5, <2>6, AttemptStep, AttemptGives
    DEF GoesOn, AgentInv, AgentTypes
<1> QED  BY <1>1, <1>4, <1>5 DEF Agent!CloseServer

\* What removing the worktree of attempt a and pruning do to the registered ones: who has
\* a directory keeps its worktree, and the others are gone or known as unremoved.
Pruned(a) ==
    /\ trees' \subseteq trees /\ unremoved' \subseteq unremoved \cup {a}
    /\ a \in trees' => a \in unremoved'
    /\ \A b \in roots : b # a => (b \in trees' <=> b \in trees)
    /\ \A b \in trees' : b \notin roots /\ b # a /\ b \in unremoved => b \in unremoved'
    /\ \A b \in roots : b \in unremoved => b \in unremoved'
    /\ faults' \in Nat /\ faults' >= faults /\ (faults' = 0 => unremoved' \subseteq unremoved)

LEMMA RemovalPrunes ==
    ASSUME NEW a, faults \in Nat, Agent!RemoveWorktree(a)
    PROVE  Pruned(a)
<1>1. PICK removed \in BOOLEAN, pruned \in BOOLEAN :
         LET left == IF removed THEN trees \ {a} ELSE trees
             failed == IF removed THEN unremoved ELSE unremoved \cup {a}
         IN /\ removed \/ pruned
            /\ faults' = IF removed /\ pruned THEN faults ELSE faults + 1
            /\ trees' = IF pruned THEN left \ Agent!Stale(left) ELSE left
            /\ unremoved' = IF pruned THEN failed \ Agent!Stale(failed) ELSE failed
  BY DEF Agent!RemoveWorktree
<1>2. /\ faults' \in Nat /\ faults' >= faults /\ (faults' = 0 => unremoved' \subseteq unremoved)
  <2>1. ~(removed /\ pruned) => faults' # 0  BY <1>1
  <2>2. removed => unremoved' \subseteq unremoved  BY <1>1
  <2> QED  BY <1>1, <2>1, <2>2
<1>3. CASE removed /\ pruned
  <2>1. /\ trees' = (trees \ {a}) \ ((trees \ {a}) \ roots)
        /\ unremoved' = unremoved \ (unremoved \ roots)
    BY <1>1, <1>3 DEF Agent!Stale
  <2> QED  BY <1>2, <2>1 DEF Pruned
<1>4. CASE removed /\ ~pruned
  <2>1. trees' = trees \ {a} /\ unremoved' = unremoved  BY <1>1, <1>4
  <2> QED  BY <1>2, <2>1 DEF Pruned
<1>5. CASE ~removed /\ pruned
  <2>1. /\ trees' = trees \ (trees \ roots)
        /\ unremoved' = (unremoved \cup {a}) \ ((unremoved \cup {a}) \ roots)
    BY <1>1, <1>5 DEF Agent!Stale
  <2> QED  BY <1>2, <2>1 DEF Pruned
<1> QED  BY <1>1, <1>3, <1>4, <1>5

LEMMA RemoveWorktreeKeepsInv ==
    ASSUME AgentInv, NEW a \in Agent!Attempts, Agent!RemoveWorktree(a)
    PROVE  AgentInv'
<1>1. /\ Agent!Of(a).at = "untree" /\ UNCHANGED <<host, activity>> /\ Agent!Go(a, "unplace")
      /\ UNCHANGED <<roots, servers, touched, unclean>>
  BY DEF Agent!RemoveWorktree, Agent!Is, Agent!Of
<1>2. Agent!Vendor(a)' = Agent!Vendor(a)  BY <1>1, VendorStays
<1>3. Pruned(a)  BY RemovalPrunes, AttemptGives
<1>4. OneMoves(a) /\ GoesOn(a, "unplace") /\ Agent!Of(a)'.err = Agent!Of(a).err
  BY <1>1, AttemptGives, GoMovesOn DEF AgentPlaces
<1>5. faults' \in Nat /\ faults' >= faults /\ (faults' = 0 => faults = 0)
  BY <1>3, AttemptGives DEF Pruned
<1>6. Leaves(a)'
  BY <1>1, <1>2, <1>3, <1>4, AttemptGives DEF Leaves, GoesOn, Over, InTree, Pruned
<1>7. Behind(a)'
  BY <1>1, <1>2, <1>4, <1>5, AttemptGives, UnbornIsARow DEF Behind, GoesOn
<1>8. \A b \in Agent!Attempts : Leaves(b)'
  <2> SUFFICES ASSUME NEW b \in Agent!Attempts, b # a PROVE Leaves(b)'  BY <1>6
  <2>1. Agent!Of(b)' = Agent!Of(b) /\ Leaves(b)  BY <1>4 DEF OneMoves, AgentInv
  <2>2. Agent!Vendor(b)' = Agent!Vendor(b)  BY <1>1, VendorStays
  <2>3. /\ b \in roots => (b \in trees' <=> b \in trees)
        /\ b \in trees' => b \in trees
        /\ b \in trees' /\ b \in unremoved => b \in unremoved'
    BY <1>3 DEF Pruned
  <2>4. b \in trees' =>
           \/ b \in unremoved'
           \/ b \in roots /\ (b \in unclean
                \/ (Agent!Of(b).at \in InTree /\ Agent!Of(b).place = "tree"))
    BY <2>1, <2>3 DEF Leaves
  <2>5. Agent!Of(b).at \in {"port", "serve", "talk", "diff"} /\ Agent!Of(b).place = "tree" =>
           b \in trees'
    BY <2>1, <2>3 DEF Leaves, InTree
  <2> QED  BY <1>1, <2>1, <2>2, <2>4, <2>5 DEF Leaves
<1>9. Agent!PortsAreApart'  BY <1>1 DEF AgentInv, Agent!PortsAreApart
<1>10. /\ trees' \subseteq Agent!Attempts /\ unremoved' \subseteq Agent!Attempts
       /\ faults' = 0 => unclean' = {} /\ unremoved' = {}
  BY <1>1, <1>3, <1>5 DEF Pruned, AgentInv, AgentTypes
<1> QED
  BY <1>1, <1>4, <1>5, <1>7, <1>8, <1>9, <1>10, AttemptStep, AttemptGives
  DEF GoesOn, AgentInv, AgentTypes

LEMMA AdapterKeepsInv ==
    ASSUME AgentInv, NEW a \in Agent!Attempts, Agent!Adapter(a)
    PROVE  AgentInv'
BY IsolateKeepsInv, MakeRootKeepsInv, WorktreeKeepsInv, CopyKeepsInv, RemoveRootKeepsInv,
   FindPortKeepsInv, StartServerKeepsInv, SpeakKeepsInv, EditKeepsInv, ProviderFailsKeepsInv,
   AnswerEndsKeepsInv, DiffKeepsInv, CloseServerKeepsInv, RemoveWorktreeKeepsInv
DEF Agent!Adapter

\* A step of activity r and of its attempts; nothing of the worker's changes.
ActivityMoves(r) ==
    /\ attempt' \in [Runs -> [Agent!Numbers -> AttemptRow]]
    /\ activity' \in [Runs -> ActivityRow]
    /\ UNCHANGED host /\ UNCHANGED <<roots, trees, servers, touched, unremoved, unclean>>
    /\ faults' = faults
    /\ \A q \in Runs : activity'[q].vendor = activity[q].vendor /\ activity'[q].kind = activity[q].kind
    /\ \A q \in Runs : q # r => attempt'[q] = attempt[q] /\ activity'[q] = activity[q]

LEMMA ActivityStep ==
    ASSUME AgentInv, NEW r \in Runs, ActivityMoves(r), OutcomeFits(r)',
           \A k \in Agent!Numbers : Leaves(<<r, k>>)' /\ Behind(<<r, k>>)'
    PROVE  AgentInv'
<1>1. AgentTypes'  BY DEF AgentInv, AgentTypes, ActivityMoves, Agent!Attempts, Agent!Numbers
<1>2. AgentTypes  BY DEF AgentInv
<1>3. ASSUME NEW b \in Agent!Attempts PROVE Leaves(b)' /\ Behind(b)'
  <2>1. b[1] \in Runs /\ b[2] \in Agent!Numbers /\ b = <<b[1], b[2]>>  BY <1>2, AttemptFacts
  <2>2. CASE b[1] = r  BY <2>1, <2>2
  <2>3. CASE b[1] # r
    <3>1. attempt'[b[1]] = attempt[b[1]] /\ activity'[b[1]] = activity[b[1]]
      BY <2>1, <2>3 DEF ActivityMoves
    <3>2. Leaves(b) /\ Behind(b)  BY DEF AgentInv
    <3>3. Agent!Of(b)' = Agent!Of(b) /\ Agent!Vendor(b)' = Agent!Vendor(b)
      BY <3>1 DEF Agent!Of, Agent!Vendor
    <3>4. Leaves(b)'  BY <3>2, <3>3 DEF Leaves, ActivityMoves
    <3>5. Behind(b)'  BY <3>1, <3>2, <3>3 DEF Behind, ActivityMoves
    <3> QED  BY <3>4, <3>5
  <2> QED  BY <2>2, <2>3
<1>4. ASSUME NEW q \in Runs PROVE OutcomeFits(q)'
  <2>1. CASE q = r  BY <2>1
  <2>2. CASE q # r
    <3>1. attempt'[q] = attempt[q] /\ activity'[q] = activity[q] /\ faults' = faults
      BY <2>2 DEF ActivityMoves
    <3>2. OutcomeFits(q)  BY DEF AgentInv
    <3> QED  BY <3>1, <3>2 DEF OutcomeFits, Agent!AttemptsOf
  <2> QED  BY <2>1, <2>2
<1>5. Agent!PortsAreApart'  BY DEF AgentInv, Agent!PortsAreApart, ActivityMoves
<1>6. (touched # {} => ~host.sandboxed)' /\ (faults = 0 => unclean = {} /\ unremoved = {})'
  BY DEF AgentInv, ActivityMoves
<1> QED  BY <1>1, <1>3, <1>4, <1>5, <1>6 DEF AgentInv, Agent!Attempts, Agent!Numbers

LEMMA ActivityFacts ==
    ASSUME AgentInv, NEW r \in Runs
    PROVE  /\ AgentTypes /\ OutcomeFits(r) /\ activity[r] \in ActivityRow
           /\ activity[r].last \in 0..MaxAttempts /\ activity[r].last \in Nat
           /\ activity[r].outcome \in OutcomeRow
           /\ activity[r].outcome.by \in 0..MaxAttempts
           /\ activity[r].outcome.status \in {"open", "answered", "failed"}
           /\ MaxAttempts \in Nat \ {0} /\ Whole \in Nat \ {0} /\ MaxDrafts \in Nat \ {0}
           /\ Agent!AttemptsOf(r) \in 1..MaxAttempts
           /\ \A k : k \in Agent!Numbers <=> k \in Nat /\ 0 < k /\ k <= MaxAttempts
           /\ \A k \in Agent!Numbers :
                 /\ <<r, k>> \in Agent!Attempts /\ Agent!Of(<<r, k>>) = attempt[r][k]
                 /\ Agent!Vendor(<<r, k>>) = activity[r].vendor
                 /\ attempt[r][k] \in AttemptRow
                 /\ Leaves(<<r, k>>) /\ Behind(<<r, k>>)
<1>1. MaxAttempts \in Nat \ {0} /\ Whole \in Nat \ {0} /\ MaxDrafts \in Nat \ {0}  BY AgentBounds
<1>2. AgentTypes /\ OutcomeFits(r) /\ activity[r] \in ActivityRow  BY DEF AgentInv, AgentTypes
<1>3. /\ activity[r].last \in 0..MaxAttempts /\ activity[r].last \in Nat
      /\ activity[r].outcome \in OutcomeRow
      /\ activity[r].outcome.by \in 0..MaxAttempts
      /\ activity[r].outcome.status \in {"open", "answered", "failed"}
  BY <1>1, <1>2 DEF ActivityRow, OutcomeRow
<1>4. Agent!AttemptsOf(r) \in 1..MaxAttempts  BY <1>1 DEF Agent!AttemptsOf
<1>5. \A k : k \in Agent!Numbers <=> k \in Nat /\ 0 < k /\ k <= MaxAttempts
  BY <1>1 DEF Agent!Numbers
<1>6. \A k \in Agent!Numbers : <<r, k>> \in Agent!Attempts  BY DEF Agent!Attempts
<1>7. \A k \in Agent!Numbers :
         /\ Agent!Of(<<r, k>>) = attempt[r][k] /\ Agent!Vendor(<<r, k>>) = activity[r].vendor
         /\ attempt[r][k] \in AttemptRow
  BY <1>2 DEF AgentTypes, Agent!Of, Agent!Vendor
<1>8. \A k \in Agent!Numbers : Leaves(<<r, k>>) /\ Behind(<<r, k>>)  BY <1>6 DEF AgentInv
<1> QED  BY <1>1, <1>2, <1>3, <1>4, <1>5, <1>6, <1>7, <1>8

\* A new attempt, the one before being open or over.
LEMMA BeginKeepsInv ==
    ASSUME AgentInv, NEW r \in Runs, NEW k \in Agent!Numbers, Agent!Begin(r, k),
           UNCHANGED host, UNCHANGED <<roots, trees, servers, touched, unremoved, unclean>>,
           faults' = faults, k = activity[r].last + 1, k <= Agent!AttemptsOf(r),
           activity[r].outcome.status = "open"
    PROVE  AgentInv'
<1> DEFINE fresh == [Agent!Unborn EXCEPT !.at = "key"]
<1>1. /\ activity' = [activity EXCEPT ![r].last = k]
      /\ attempt' = [attempt EXCEPT ![r][k] = fresh]
  BY DEF Agent!Begin
<1>2. /\ fresh \in AttemptRow /\ fresh.at = "key" /\ fresh.place = "none" /\ fresh.edited = "no"
      /\ fresh.err = "none"
  BY UnbornIsARow DEF AttemptRow, AgentPlaces, Agent!Unborn
<1> HIDE DEF fresh
<1>3. /\ attempt' \in [Runs -> [Agent!Numbers -> AttemptRow]]
      /\ attempt'[r][k] = fresh
      /\ \A j \in Agent!Numbers : j # k => attempt'[r][j] = attempt[r][j]
      /\ \A q \in Runs : q # r => attempt'[q] = attempt[q]
  BY <1>1, <1>2, ActivityFacts DEF AgentTypes
<1>4. k \in 0..MaxAttempts  BY ActivityFacts
<1>5. /\ activity' \in [Runs -> ActivityRow]
      /\ activity'[r].last = k /\ activity'[r].outcome = activity[r].outcome
      /\ activity'[r].vendor = activity[r].vendor /\ activity'[r].kind = activity[r].kind
      /\ \A q \in Runs : q # r => activity'[q] = activity[q]
  BY <1>1, <1>4, ActivityFacts DEF AgentTypes, ActivityRow
<1>6. ActivityMoves(r)  BY <1>3, <1>5 DEF ActivityMoves
<1>7. attempt[r][k] = Agent!Unborn
  <2>1. Behind(<<r, k>>) /\ Agent!Of(<<r, k>>) = attempt[r][k]  BY ActivityFacts
  <2>2. <<r, k>>[1] = r /\ <<r, k>>[2] = k  OBVIOUS
  <2>3. k > activity[r].last  BY ActivityFacts
  <2> QED  BY <2>1, <2>2, <2>3 DEF Behind
<1>8. ASSUME NEW j \in Agent!Numbers PROVE Leaves(<<r, j>>)' /\ Behind(<<r, j>>)'
  <2>1. Agent!Of(<<r, j>>)' = attempt'[r][j]  BY DEF Agent!Of
  <2>2. Agent!Vendor(<<r, j>>)' = Agent!Vendor(<<r, j>>)  BY <1>5 DEF Agent!Vendor
  <2>3. Leaves(<<r, j>>) /\ Behind(<<r, j>>) /\ Agent!Of(<<r, j>>) = attempt[r][j]
    BY ActivityFacts
  <2>4. CASE j = k
    <3>1. Agent!Of(<<r, j>>)' = fresh /\ Agent!Of(<<r, j>>) = Agent!Unborn
      BY <1>3, <1>7, <2>1, <2>3, <2>4
    <3>2. Leaves(<<r, j>>)'
      BY <1>2, <2>2, <2>3, <3>1, UnbornIsARow DEF Leaves, Over, InTree
    <3>3. Behind(<<r, j>>)'
      BY <1>2, <1>5, <2>2, <2>3, <2>4, <3>1, ActivityFacts DEF Behind
    <3> QED  BY <3>2, <3>3
  <2>5. CASE j # k
    <3>1. Agent!Of(<<r, j>>)' = Agent!Of(<<r, j>>)  BY <1>3, <2>1, <2>3, <2>5
    <3>2. Leaves(<<r, j>>)'  BY <2>2, <2>3, <3>1 DEF Leaves
    <3>3. j > k => j > activity[r].last  BY ActivityFacts
    <3>4. Behind(<<r, j>>)'  BY <1>5, <2>2, <2>3, <3>1, <3>3 DEF Behind
    <3> QED  BY <3>2, <3>4
  <2> QED  BY <2>4, <2>5
<1>9. OutcomeFits(r)'
  <2>1. Agent!AttemptsOf(r)' = Agent!AttemptsOf(r)  BY <1>5 DEF Agent!AttemptsOf
  <2>2. \A j \in 1..(k - 1) : attempt'[r][j] = attempt[r][j]  BY <1>3, ActivityFacts
  <2>3. \A j \in 1..(k - 1) :
           attempt[r][j].at = "done" => attempt[r][j].err # "final"
    <3> SUFFICES ASSUME NEW j \in 1..(k - 1), attempt[r][j].at = "done"
                 PROVE  attempt[r][j].err # "final"
      OBVIOUS
    <3>1. k \in Nat /\ activity[r].last \in Nat  BY ActivityFacts
    <3>2. j # activity[r].last  BY <3>1, ActivityFacts DEF OutcomeFits
    <3>3. j \in 1..(activity[r].last - 1)  BY <3>1, <3>2
    <3> QED  BY <3>3, ActivityFacts DEF OutcomeFits
  <2>4. activity'[r].outcome.status = "open"  BY <1>5
  <2> QED  BY <1>2, <1>3, <1>5, <2>1, <2>2, <2>3, <2>4 DEF OutcomeFits
<1> QED  BY <1>6, <1>8, <1>9, ActivityStep

LEMMA ScheduleKeepsInv ==
    ASSUME AgentInv, NEW r \in Runs, Agent!Schedule(r)
    PROVE  AgentInv'
<1>1. /\ activity[r].last = 0 /\ Agent!Begin(r, 1) /\ UNCHANGED host /\ faults' = faults
      /\ UNCHANGED <<roots, trees, servers, touched, unremoved, unclean>>
  BY DEF Agent!Schedule, Agent!Files
<1>2. 1 \in Agent!Numbers /\ 1 <= Agent!AttemptsOf(r)  BY ActivityFacts
<1>3. activity[r].outcome.status # "answered"  BY <1>1, ActivityFacts DEF OutcomeFits
<1>4. activity[r].outcome.status # "failed"
  <2> SUFFICES ASSUME activity[r].outcome.status = "failed" PROVE FALSE  OBVIOUS
  <2> DEFINE by == activity[r].outcome.by
  <2>1. by > 0 /\ attempt[r][by].at = "done"  BY <1>1, ActivityFacts DEF OutcomeFits
  <2>2. by \in Agent!Numbers  BY <2>1, ActivityFacts
  <2>3. attempt[r][by] = Agent!Unborn  BY <1>1, <2>1, <2>2, ActivityFacts DEF Behind
  <2> QED  BY <2>1, <2>3, UnbornIsARow
<1>5. activity[r].outcome.status = "open"  BY <1>3, <1>4, ActivityFacts
<1> QED  BY <1>1, <1>2, <1>5, BeginKeepsInv

\* The activity ends: no attempt begins, and attempt k of it may be over by that.
LEMMA SettleMoves ==
    ASSUME AgentInv, NEW r \in Runs, NEW outcome \in OutcomeRow, Agent!Settle(r, outcome)
    PROVE  /\ activity' \in [Runs -> ActivityRow]
           /\ activity'[r].outcome = outcome /\ activity'[r].last = activity[r].last
           /\ activity'[r].vendor = activity[r].vendor /\ activity'[r].kind = activity[r].kind
           /\ \A q \in Runs : q # r => activity'[q] = activity[q]
<1>1. activity' = [activity EXCEPT ![r].outcome = outcome]  BY DEF Agent!Settle
<1>2. activity \in [Runs -> ActivityRow]  BY DEF AgentInv, AgentTypes
<1> QED  BY <1>1, <1>2 DEF ActivityRow

LEMMA OpenIsARow ==
    /\ Agent!Open \in OutcomeRow
    /\ [Agent!Open EXCEPT !.status = "failed"] \in OutcomeRow
    /\ [Agent!Open EXCEPT !.status = "failed"].status = "failed"
BY AgentBounds DEF Agent!Open, OutcomeRow

LEMMA GivenUpKeepsInv ==
    ASSUME AgentInv, NEW r \in Runs, activity[r].outcome.status = "open",
           activity[r].last > 0, ~(activity[r].last < Agent!AttemptsOf(r)),
           Agent!Settle(r, [Agent!Open EXCEPT !.status = "failed"]), attempt' = attempt,
           UNCHANGED host, UNCHANGED <<roots, trees, servers, touched, unremoved, unclean>>,
           faults' = faults
    PROVE  AgentInv'
<1>1. /\ activity' \in [Runs -> ActivityRow]
      /\ activity'[r].outcome.status = "failed" /\ activity'[r].last = activity[r].last
      /\ activity'[r].vendor = activity[r].vendor /\ activity'[r].kind = activity[r].kind
      /\ \A q \in Runs : q # r => activity'[q] = activity[q]
  BY SettleMoves, OpenIsARow
<1>2. ActivityMoves(r)  BY <1>1 DEF ActivityMoves, AgentInv, AgentTypes
<1>3. ASSUME NEW j \in Agent!Numbers PROVE Leaves(<<r, j>>)' /\ Behind(<<r, j>>)'
  <2>1. Leaves(<<r, j>>) /\ Behind(<<r, j>>)  BY ActivityFacts
  <2>2. /\ Agent!Of(<<r, j>>)' = Agent!Of(<<r, j>>)
        /\ Agent!Vendor(<<r, j>>)' = Agent!Vendor(<<r, j>>)
    BY <1>1 DEF Agent!Of, Agent!Vendor
  <2>3. Leaves(<<r, j>>)'  BY <2>1, <2>2 DEF Leaves
  <2>4. Behind(<<r, j>>)'  BY <1>1, <2>1, <2>2 DEF Behind
  <2> QED  BY <2>3, <2>4
<1>4. OutcomeFits(r)'
  <2>1. Agent!AttemptsOf(r)' = Agent!AttemptsOf(r)  BY <1>1 DEF Agent!AttemptsOf
  <2>2. OutcomeFits(r)  BY ActivityFacts
  <2>3. activity[r].last = Agent!AttemptsOf(r)  BY <2>2, ActivityFacts DEF OutcomeFits
  <2> QED  BY <1>1, <2>1, <2>2, <2>3 DEF OutcomeFits
<1> QED  BY <1>2, <1>3, <1>4, ActivityStep

LEMMA TimesOutKeepsInv ==
    ASSUME AgentInv, NEW r \in Runs, Agent!TimesOut(r)
    PROVE  AgentInv'
<1>1. /\ activity[r].outcome.status = "open" /\ activity[r].last > 0
      /\ UNCHANGED host /\ faults' = faults
      /\ UNCHANGED <<roots, trees, servers, touched, unremoved, unclean>>
  BY DEF Agent!TimesOut, Agent!Overdue, Agent!Files
<1>2. CASE activity[r].last < Agent!AttemptsOf(r)
  <2>1. Agent!Begin(r, activity[r].last + 1)
    BY <1>2 DEF Agent!TimesOut, Agent!TriedAgain
  <2>2. activity[r].last + 1 \in Agent!Numbers /\ activity[r].last + 1 <= Agent!AttemptsOf(r)
    BY <1>2, ActivityFacts
  <2> QED  BY <1>1, <2>1, <2>2, BeginKeepsInv
<1>3. CASE ~(activity[r].last < Agent!AttemptsOf(r))
  <2>1. Agent!Settle(r, [Agent!Open EXCEPT !.status = "failed"]) /\ attempt' = attempt
    BY <1>3 DEF Agent!TimesOut, Agent!TriedAgain
  <2> QED  BY <1>1, <1>3, <2>1, GivenUpKeepsInv
<1> QED  BY <1>2, <1>3

\* Every attempt that runs is dead, and the rest are as they were.
LEMMA WorkerDiesKeepsInv ==
    ASSUME AgentInv, Agent!WorkerDies
    PROVE  AgentInv'
<1> DEFINE dead == [Agent!Unborn EXCEPT !.at = "dead"]
<1>1. /\ faults' = faults + 1 /\ UNCHANGED <<host, activity>>
      /\ UNCHANGED <<roots, trees, servers, touched, unremoved>>
      /\ unclean' = unclean \cup {a \in Agent!Attempts : Agent!Running(a)}
      /\ attempt' = [r \in Runs |-> [k \in Agent!Numbers |->
                        IF Agent!Running(<<r, k>>) THEN dead ELSE attempt[r][k]]]
  BY DEF Agent!WorkerDies
<1>2. AgentTypes /\ faults \in Nat /\ faults' \in Nat /\ faults' >= faults /\ faults' # 0
  BY <1>1 DEF AgentInv, AgentTypes
<1>3. /\ dead \in AttemptRow /\ dead.at = "dead" /\ dead.place = "none" /\ dead.edited = "no"
      /\ dead.err = "none"
  BY UnbornIsARow DEF AttemptRow, AgentPlaces, Agent!Unborn
<1> HIDE DEF dead
<1>4. attempt' \in [Runs -> [Agent!Numbers -> AttemptRow]]
  <2>1. \A r \in Runs : \A k \in Agent!Numbers : attempt[r][k] \in AttemptRow
    BY <1>2 DEF AgentTypes
  <2> QED  BY <1>1, <1>3, <2>1
<1>5. AgentTypes'  BY <1>1, <1>2, <1>4 DEF AgentTypes, Agent!Attempts, Agent!Numbers
<1>6. ASSUME NEW a \in Agent!Attempts
      PROVE  /\ Leaves(a)' /\ Behind(a)'
             /\ Agent!Of(a)' = Agent!Of(a) \/ (Agent!Of(a).at # "done" /\ Agent!Of(a)'.at # "done")
  <2>1. /\ a[1] \in Runs /\ a[2] \in Agent!Numbers /\ a = <<a[1], a[2]>>
        /\ Agent!Of(a) = attempt[a[1]][a[2]]
    BY <1>2, AttemptFacts
  <2>2. Agent!Of(a)' = attempt'[a[1]][a[2]]  BY DEF Agent!Of
  <2>3. attempt'[a[1]][a[2]] = IF Agent!Running(<<a[1], a[2]>>) THEN dead ELSE attempt[a[1]][a[2]]
    BY <1>1, <2>1
  <2>4. Agent!Vendor(a)' = Agent!Vendor(a)  BY <1>1, VendorStays
  <2>5. Leaves(a) /\ Behind(a)  BY DEF AgentInv
  <2>6. CASE Agent!Running(a)
    <3>1. Agent!Of(a)' = dead  BY <2>1, <2>2, <2>3, <2>6
    <3>2. Agent!Of(a).at \notin {"unborn", "done", "dead"}
      BY <2>6 DEF Agent!Running, Agent!Of
    <3>3. a \in unclean'  BY <1>1, <2>6
    <3>4. Leaves(a)'  BY <1>1, <1>3, <2>4, <2>5, <3>1, <3>3 DEF Leaves, Over, InTree
    <3>5. Behind(a)'
      BY <1>1, <1>2, <1>3, <2>4, <2>5, <3>1, <3>2, UnbornIsARow DEF Behind
    <3> QED  BY <1>3, <3>1, <3>2, <3>4, <3>5
  <2>7. CASE ~Agent!Running(a)
    <3>1. Agent!Of(a)' = Agent!Of(a)  BY <2>1, <2>2, <2>3, <2>7
    <3>2. a \in unclean' <=> a \in unclean  BY <1>1, <2>7
    <3>3. Leaves(a)'  BY <1>1, <2>5, <3>1, <3>2, LeavesStay
    <3>4. Behind(a)'  BY <1>1, <1>2, <2>5, <3>1, BehindStays
    <3> QED  BY <3>1, <3>3, <3>4
  <2> QED  BY <2>6, <2>7
<1>7. \A r \in Runs : OutcomeFits(r)'
  BY <1>1, <1>2, <1>6, OutcomesStay DEF AgentInv
<1>8. Agent!PortsAreApart'  BY <1>1 DEF AgentInv, Agent!PortsAreApart
<1>9. (touched # {} => ~host.sandboxed)'  BY <1>1 DEF AgentInv
<1>10. (faults = 0 => unclean = {} /\ unremoved = {})'  BY <1>2
<1> QED
  BY <1>5, <1>6, <1>7, <1>8, <1>9, <1>10 DEF AgentInv, Agent!Attempts, Agent!Numbers

LEMMA SameDraftCount == ASSUME NEW S PROVE Agent!Cardinality(S) = Cardinality(S)
BY Zenon DEF Agent!Cardinality, Cardinality, Agent!IsFiniteSet, IsFiniteSet

\* However long a reply and its plans are, its drafts are few.
LEMMA DraftsAreFew ==
    ASSUME NEW intents \in Replies
    PROVE  Agent!extractRuntimeArtifactDrafts(intents) \in 0..MaxDrafts
<1> DEFINE planned == {i \in DOMAIN intents :
                          intents[i].type = "tool_plan" /\ intents[i].riskLevel = "low"}
           Of(i) == {i} \X {j \in DOMAIN intents[i].calls : intents[i].calls[j] = "draft"}
           groups == {Of(i) : i \in planned}
           f == [i \in planned |-> Of(i)]
           made == Agent!Cardinality(Agent!DraftCalls(intents, planned))
<1>1. intents \in Seq([type : STRING, riskLevel : STRING, calls : Seq(STRING)])
  BY AgentBounds
<1>2. IsFiniteSet(planned)
  <2>1. planned \in SUBSET (1..Len(intents)) /\ Len(intents) \in Int  BY <1>1
  <2>2. IsFiniteSet(1..Len(intents))  BY <2>1, FS_Interval
  <2> HIDE DEF planned
  <2> QED  BY <2>1, <2>2, FS_Subset
<1>3. ASSUME NEW i \in planned PROVE IsFiniteSet(Of(i))
  <2>1. intents[i].calls \in Seq(STRING)
    <3> DEFINE Intent == [type : STRING, riskLevel : STRING, calls : Seq(STRING)]
    <3>1. i \in 1..Len(intents)  BY <1>1
    <3>2. intents \in Seq(Intent)  BY <1>1
    <3> HIDE DEF Intent
    <3>3. intents[i] \in Intent  BY <3>1, <3>2
    <3> QED  BY <3>3 DEF Intent
  <2> DEFINE S == {j \in DOMAIN intents[i].calls : intents[i].calls[j] = "draft"}
  <2>2. S \in SUBSET (1..Len(intents[i].calls)) /\ Len(intents[i].calls) \in Int  BY <2>1
  <2>3. IsFiniteSet(S)
    <3>1. IsFiniteSet(1..Len(intents[i].calls))  BY <2>2, FS_Interval
    <3> HIDE DEF S
    <3> QED  BY <2>2, <3>1, FS_Subset
  <2>4. IsFiniteSet({i})  BY FS_Singleton
  <2> QED  BY <2>3, <2>4, FS_Product
<1>4. IsFiniteSet(groups)
  <2>1. f \in Surjection(planned, groups)  BY DEF Surjection
  <2> QED  BY <1>2, <2>1, FS_Surjection
<1>5. IsFiniteSet(UNION groups)
  <2>1. \A T \in groups : IsFiniteSet(T)  BY <1>3
  <2> QED  BY <1>4, <2>1, FS_UNION
<1>6. Agent!DraftCalls(intents, planned) = UNION groups  BY DEF Agent!DraftCalls
<1>7. made \in Nat  BY <1>5, <1>6, FS_CardinalityType, SameDraftCount
<1>8. Agent!extractRuntimeArtifactDrafts(intents) = IF made < MaxDrafts THEN made ELSE MaxDrafts
  BY DEF Agent!extractRuntimeArtifactDrafts
<1> HIDE DEF made
<1> QED  BY <1>7, <1>8, AgentBounds

LEMMA AnswerFacts ==
    ASSUME AgentInv, NEW r \in Runs, NEW k \in Agent!Numbers, NEW intents \in Replies
    PROVE  LET answer == Agent!Answer(r, k, intents) IN
           /\ answer \in OutcomeRow /\ answer.by = k /\ answer.status = "answered"
           /\ answer.said = attempt[r][k].said
           /\ answer.artifacts = "drafts" <=> answer.drafts > 0
           /\ activity[r].kind # "group" /\ attempt[r][k].diff => answer.artifacts # "none"
<1> DEFINE drafts == Agent!extractRuntimeArtifactDrafts(intents)
           artifacts == Agent!ArtifactsOf(r, attempt[r][k], drafts)
           answer == [by |-> k, said |-> attempt[r][k].said, status |-> "answered",
                      artifacts |-> artifacts, drafts |-> drafts]
<1>1. drafts \in 0..MaxDrafts  BY DraftsAreFew
<1>2. k \in 0..MaxAttempts /\ attempt[r][k].said \in 0..Whole
  <2>1. attempt[r][k] \in AttemptRow  BY ActivityFacts
  <2>2. MaxAttempts \in Nat /\ k \in 1..MaxAttempts  BY AgentBounds DEF Agent!Numbers
  <2> QED  BY <2>1, <2>2, RowFacts
<1>3. /\ artifacts \in {"none", "diff", "drafts"} /\ (artifacts = "drafts" <=> drafts > 0)
      /\ activity[r].kind # "group" /\ attempt[r][k].diff => artifacts # "none"
  BY DEF Agent!ArtifactsOf
<1>4. Agent!Answer(r, k, intents) = answer  BY DEF Agent!Answer
<1> HIDE DEF drafts, artifacts
<1>5. answer \in OutcomeRow  BY <1>1, <1>2, <1>3 DEF OutcomeRow
<1> QED  BY <1>3, <1>4, <1>5

LEMMA DoneIsARow ==
    ASSUME AgentInv, NEW r \in Runs, NEW k \in Agent!Numbers
    PROVE  /\ Agent!Done(r, k) \in AttemptRow /\ Agent!Done(r, k).at = "done"
           /\ Agent!Heard(r, k) => /\ Agent!Done(r, k).err = attempt[r][k].err
                                   /\ Agent!Done(r, k).place = attempt[r][k].place
                                   /\ Agent!Done(r, k).edited = attempt[r][k].edited
           /\ ~Agent!Heard(r, k) => /\ Agent!Done(r, k).err = "none"
                                    /\ Agent!Done(r, k).place = "none"
                                    /\ Agent!Done(r, k).edited = "no"
<1> DEFINE told == [attempt[r][k] EXCEPT !.at = "done", !.port = 0, !.diff = FALSE]
           untold == [Agent!Unborn EXCEPT !.at = "done"]
<1>1. attempt[r][k] \in AttemptRow  BY ActivityFacts
<1>2. /\ told \in AttemptRow /\ told.at = "done" /\ told.err = attempt[r][k].err
      /\ told.place = attempt[r][k].place /\ told.edited = attempt[r][k].edited
  BY <1>1 DEF AttemptRow, AgentPlaces
<1>3. /\ untold \in AttemptRow /\ untold.at = "done" /\ untold.err = "none"
      /\ untold.place = "none" /\ untold.edited = "no"
  BY UnbornIsARow DEF AttemptRow, AgentPlaces, Agent!Unborn
<1>4. Agent!Done(r, k) = IF Agent!Heard(r, k) THEN told ELSE untold  BY DEF Agent!Done
<1> HIDE DEF told, untold
<1> QED  BY <1>2, <1>3, <1>4

\* An attempt that has reported leaves no more than it left before.
LEMMA ReportedIsFine ==
    ASSUME AgentInv, NEW r \in Runs, NEW k \in Agent!Numbers, attempt[r][k].at = "report",
           attempt'[r][k] = Agent!Done(r, k), activity'[r].vendor = activity[r].vendor,
           activity'[r].last \in Nat, activity'[r].last >= activity[r].last,
           UNCHANGED host, UNCHANGED <<roots, trees, servers, touched, unremoved, unclean>>,
           faults' = faults
    PROVE  Leaves(<<r, k>>)' /\ Behind(<<r, k>>)' /\ k <= activity[r].last
<1> DEFINE a == <<r, k>>
<1>1. Agent!Of(a) = attempt[r][k] /\ Leaves(a) /\ Behind(a)  BY ActivityFacts
<1>2. Agent!Of(a)' = Agent!Done(r, k)  BY DEF Agent!Of
<1>3. Agent!Vendor(a)' = Agent!Vendor(a)  BY DEF Agent!Vendor
<1>4. k <= activity[r].last
  <2>1. ~(a[2] > activity[a[1]].last)  BY <1>1, UnbornIsARow DEF Behind
  <2>2. a[1] = r /\ a[2] = k  OBVIOUS
  <2> QED  BY <2>1, <2>2, ActivityFacts
<1>5. ~(a[2] > activity'[a[1]].last)
  <2>1. a[1] = r /\ a[2] = k  OBVIOUS
  <2> QED  BY <1>4, <2>1, ActivityFacts
<1> HIDE DEF a
<1>6. Leaves(a)'  BY <1>1, <1>2, <1>3, DoneIsARow DEF Leaves, Over, InTree
<1>7. Behind(a)'  BY <1>1, <1>2, <1>3, <1>5, DoneIsARow DEF Behind
<1> QED  BY <1>4, <1>6, <1>7 DEF a

\* The attempts of an activity after one of them has reported.
LEMMA ReportMoves ==
    ASSUME AgentInv, NEW r \in Runs, NEW k \in Agent!Numbers,
           attempt' = [attempt EXCEPT ![r][k] = Agent!Done(r, k)]
    PROVE  /\ attempt' \in [Runs -> [Agent!Numbers -> AttemptRow]]
           /\ attempt'[r][k] = Agent!Done(r, k)
           /\ \A j \in Agent!Numbers : j # k => attempt'[r][j] = attempt[r][j]
           /\ \A q \in Runs : q # r => attempt'[q] = attempt[q]
<1> DEFINE row == Agent!Done(r, k)
<1>1. row \in AttemptRow  BY DoneIsARow
<1>2. attempt \in [Runs -> [Agent!Numbers -> AttemptRow]]  BY DEF AgentInv, AgentTypes
<1>3. attempt' = [attempt EXCEPT ![r][k] = row]  OBVIOUS
<1> HIDE DEF row
<1>4. /\ attempt' \in [Runs -> [Agent!Numbers -> AttemptRow]]
      /\ attempt'[r][k] = row
      /\ \A j \in Agent!Numbers : j # k => attempt'[r][j] = attempt[r][j]
      /\ \A q \in Runs : q # r => attempt'[q] = attempt[q]
  BY <1>1, <1>2, <1>3
<1> QED  BY <1>4 DEF row

LEMMA ReportEnds ==
    ASSUME AgentInv, NEW r \in Runs, NEW k \in Agent!Numbers, attempt[r][k].at = "report",
           attempt' = [attempt EXCEPT ![r][k] = Agent!Done(r, k)],
           activity' \in [Runs -> ActivityRow], activity'[r].last = activity[r].last,
           activity'[r].vendor = activity[r].vendor, activity'[r].kind = activity[r].kind,
           \A q \in Runs : q # r => activity'[q] = activity[q],
           UNCHANGED host, UNCHANGED <<roots, trees, servers, touched, unremoved, unclean>>,
           faults' = faults, OutcomeFits(r)'
    PROVE  AgentInv'
<1>1. /\ attempt' \in [Runs -> [Agent!Numbers -> AttemptRow]]
      /\ attempt'[r][k] = Agent!Done(r, k)
      /\ \A j \in Agent!Numbers : j # k => attempt'[r][j] = attempt[r][j]
      /\ \A q \in Runs : q # r => attempt'[q] = attempt[q]
  BY ReportMoves
<1>2. ActivityMoves(r)  BY <1>1 DEF ActivityMoves
<1>3. ASSUME NEW j \in Agent!Numbers PROVE Leaves(<<r, j>>)' /\ Behind(<<r, j>>)'
  <2>1. CASE j = k  BY <1>1, <2>1, ActivityFacts, ReportedIsFine
  <2>2. CASE j # k
    <3>1. Leaves(<<r, j>>) /\ Behind(<<r, j>>)  BY ActivityFacts
    <3>2. /\ Agent!Of(<<r, j>>)' = Agent!Of(<<r, j>>)
          /\ Agent!Vendor(<<r, j>>)' = Agent!Vendor(<<r, j>>)
      BY <1>1, <2>2 DEF Agent!Of, Agent!Vendor
    <3>3. Leaves(<<r, j>>)'  BY <3>1, <3>2 DEF Leaves
    <3>4. Behind(<<r, j>>)'  BY <3>1, <3>2 DEF Behind
    <3> QED  BY <3>3, <3>4
  <2> QED  BY <2>1, <2>2
<1> QED  BY <1>2, <1>3, ActivityStep

\* Attempts before the last one did not fail for good, also when the last one is over.
LEMMA OlderStay ==
    ASSUME AgentInv, NEW r \in Runs, NEW k \in Agent!Numbers,
           attempt' = [attempt EXCEPT ![r][k] = Agent!Done(r, k)],
           Agent!Heard(r, k) \/ k <= activity[r].last
    PROVE  \A j \in 1..(activity[r].last - 1) :
              attempt'[r][j].at = "done" => attempt'[r][j].err # "final"
<1> SUFFICES ASSUME NEW j \in 1..(activity[r].last - 1), attempt'[r][j].at = "done"
             PROVE  attempt'[r][j].err # "final"
  OBVIOUS
<1>1. j \in Agent!Numbers /\ activity[r].last \in Nat /\ j # activity[r].last  BY ActivityFacts
<1>2. attempt[r][j].at = "done" => attempt[r][j].err # "final"
  BY ActivityFacts DEF OutcomeFits
<1>3. CASE j # k  BY <1>1, <1>2, <1>3, ReportMoves
<1>4. CASE j = k
  <2>1. ~Agent!Heard(r, k)  BY <1>1, <1>4 DEF Agent!Heard
  <2> QED  BY <1>4, <2>1, ReportMoves, DoneIsARow
<1> QED  BY <1>3, <1>4

LEMMA HeardAnswerFits ==
    ASSUME AgentInv, NEW r \in Runs, NEW k \in Agent!Numbers, attempt[r][k].at = "report",
           attempt' = [attempt EXCEPT ![r][k] = Agent!Done(r, k)], Agent!Heard(r, k),
           attempt[r][k].err = "none", faults' = faults,
           NEW intents \in Replies, activity'[r].outcome = Agent!Answer(r, k, intents),
           activity'[r].last = activity[r].last, activity'[r].kind = activity[r].kind
    PROVE  OutcomeFits(r)'
<1>1. activity[r].last = k  BY DEF Agent!Heard
<1>2. attempt'[r][k] = Agent!Done(r, k)  BY ReportMoves
<1>3. /\ Agent!Done(r, k).at = "done" /\ Agent!Done(r, k).err = "none"
      /\ Agent!Done(r, k).place = attempt[r][k].place
      /\ Agent!Done(r, k).edited = attempt[r][k].edited
  BY DoneIsARow
<1> DEFINE answer == Agent!Answer(r, k, intents)
<1>4. /\ answer.by = k /\ answer.status = "answered" /\ answer.said = attempt[r][k].said
      /\ answer.artifacts = "drafts" <=> answer.drafts > 0
      /\ activity[r].kind # "group" /\ attempt[r][k].diff => answer.artifacts # "none"
  BY AnswerFacts
<1>5. Behind(<<r, k>>) /\ Agent!Of(<<r, k>>) = attempt[r][k]  BY ActivityFacts
<1>6. /\ attempt[r][k].said = Whole \/ faults > 0
      /\ attempt[r][k].edited = "yes" /\ attempt[r][k].place # "direct" /\ faults = 0 =>
            attempt[r][k].diff
  BY <1>5 DEF Behind
<1>7. Agent!AttemptsOf(r)' = Agent!AttemptsOf(r)  BY DEF Agent!AttemptsOf
<1>8. activity[r].last <= Agent!AttemptsOf(r)  BY ActivityFacts DEF OutcomeFits
<1>9. k > 0  BY ActivityFacts
<1>10. activity'[r].outcome = answer  OBVIOUS
<1> HIDE DEF answer
<1>11. \A j \in 1..(activity[r].last - 1) :
          attempt'[r][j].at = "done" => attempt'[r][j].err # "final"
  BY OlderStay
<1> QED
  BY <1>1, <1>2, <1>3, <1>4, <1>6, <1>7, <1>8, <1>9, <1>10, <1>11 DEF OutcomeFits

LEMMA HeardFailureFits ==
    ASSUME AgentInv, NEW r \in Runs, NEW k \in Agent!Numbers, attempt[r][k].at = "report",
           attempt' = [attempt EXCEPT ![r][k] = Agent!Done(r, k)], Agent!Heard(r, k),
           attempt[r][k].err # "none", ~Agent!TriedAgain(r, attempt[r][k].err),
           activity'[r].outcome = [Agent!Open EXCEPT !.by = k, !.status = "failed"],
           activity'[r].last = activity[r].last, activity'[r].kind = activity[r].kind
    PROVE  OutcomeFits(r)'
<1>1. activity[r].last = k  BY DEF Agent!Heard
<1>2. attempt'[r][k] = Agent!Done(r, k)  BY ReportMoves
<1>3. Agent!Done(r, k).at = "done" /\ Agent!Done(r, k).err = attempt[r][k].err  BY DoneIsARow
<1>4. activity'[r].outcome.by = k /\ activity'[r].outcome.status = "failed"  BY DEF Agent!Open
<1>5. Agent!AttemptsOf(r)' = Agent!AttemptsOf(r)  BY DEF Agent!AttemptsOf
<1>6. activity[r].last <= Agent!AttemptsOf(r)  BY ActivityFacts DEF OutcomeFits
<1>7. attempt[r][k].err \in {"none", "final", "again"}
  <2>1. attempt[r][k] \in AttemptRow  BY ActivityFacts
  <2> QED  BY <2>1, RowFacts
<1>8. activity[r].last = Agent!AttemptsOf(r) \/ attempt[r][k].err = "final"
  BY <1>6, <1>7, ActivityFacts DEF Agent!TriedAgain
<1>9. k > 0  BY ActivityFacts
<1>10. \A j \in 1..(activity[r].last - 1) :
          attempt'[r][j].at = "done" => attempt'[r][j].err # "final"
  BY OlderStay
<1> QED  BY <1>1, <1>2, <1>3, <1>4, <1>5, <1>6, <1>8, <1>9, <1>10 DEF OutcomeFits

LEMMA UnheardFits ==
    ASSUME AgentInv, NEW r \in Runs, NEW k \in Agent!Numbers, attempt[r][k].at = "report",
           attempt' = [attempt EXCEPT ![r][k] = Agent!Done(r, k)], ~Agent!Heard(r, k),
           activity' = activity, faults' = faults, k <= activity[r].last
    PROVE  OutcomeFits(r)'
<1> DEFINE last == activity[r].last
           by == activity[r].outcome.by
<1>1. OutcomeFits(r) /\ last \in 0..MaxAttempts /\ by \in 0..MaxAttempts /\ MaxAttempts \in Nat
  BY ActivityFacts
<1>2. \A j \in Agent!Numbers : j # k => attempt'[r][j] = attempt[r][j]  BY ReportMoves
<1>3. k = last => activity[r].outcome.status \in {"failed"}
  BY <1>1, ActivityFacts DEF Agent!Heard, OutcomeFits
<1>4. \A j \in 1..(last - 1) : attempt'[r][j].at = "done" => attempt'[r][j].err # "final"
  BY OlderStay
<1>5. Agent!AttemptsOf(r)' = Agent!AttemptsOf(r)  BY DEF Agent!AttemptsOf
<1>6. by > 0 /\ attempt[r][by].at = "done" => attempt'[r][by] = attempt[r][by]
  BY <1>1, <1>2, ActivityFacts
<1>7. last > 0 /\ last # k => attempt'[r][last] = attempt[r][last]
  BY <1>1, <1>2, ActivityFacts
<1>8. last > 0  BY <1>1, ActivityFacts
<1> QED  BY <1>1, <1>3, <1>4, <1>5, <1>6, <1>7, <1>8 DEF OutcomeFits

\* A failed attempt is followed by another one.
LEMMA AnotherKeepsInv ==
    ASSUME AgentInv, NEW r \in Runs, NEW k \in Agent!Numbers, attempt[r][k].at = "report",
           Agent!Heard(r, k), attempt[r][k].err = "again", k < Agent!AttemptsOf(r),
           activity' = [activity EXCEPT ![r].last = k + 1],
           attempt' = [attempt EXCEPT ![r][k] = Agent!Done(r, k),
                                      ![r][k + 1] = [Agent!Unborn EXCEPT !.at = "key"]],
           UNCHANGED host, UNCHANGED <<roots, trees, servers, touched, unremoved, unclean>>,
           faults' = faults
    PROVE  AgentInv'
<1> DEFINE fresh == [Agent!Unborn EXCEPT !.at = "key"]
           done == Agent!Done(r, k)
<1>1. /\ fresh \in AttemptRow /\ fresh.at = "key" /\ fresh.place = "none" /\ fresh.edited = "no"
      /\ fresh.err = "none"
  BY UnbornIsARow DEF AttemptRow, AgentPlaces, Agent!Unborn
<1>2. activity[r].last = k /\ activity[r].outcome.status = "open"  BY DEF Agent!Heard
<1>3. k + 1 \in Agent!Numbers /\ k \in Nat /\ k + 1 \in Nat /\ k + 1 \in 0..MaxAttempts
      /\ k + 1 <= Agent!AttemptsOf(r)
  BY ActivityFacts
<1>4. done \in AttemptRow /\ done.at = "done" /\ done.err = "again"  BY DoneIsARow
<1>5. attempt \in [Runs -> [Agent!Numbers -> AttemptRow]] /\ activity \in [Runs -> ActivityRow]
  BY DEF AgentInv, AgentTypes
<1>6. attempt' = [attempt EXCEPT ![r][k] = done, ![r][k + 1] = fresh]  OBVIOUS
<1> HIDE DEF fresh, done
<1>7. /\ attempt' \in [Runs -> [Agent!Numbers -> AttemptRow]]
      /\ attempt'[r][k] = done /\ attempt'[r][k + 1] = fresh
      /\ \A j \in Agent!Numbers : j # k /\ j # k + 1 => attempt'[r][j] = attempt[r][j]
      /\ \A q \in Runs : q # r => attempt'[q] = attempt[q]
  <2> DEFINE told == [attempt EXCEPT ![r][k] = done]
  <2>1. /\ told \in [Runs -> [Agent!Numbers -> AttemptRow]] /\ told[r][k] = done
        /\ \A j \in Agent!Numbers : j # k => told[r][j] = attempt[r][j]
        /\ \A q \in Runs : q # r => told[q] = attempt[q]
    BY <1>4, <1>5
  <2>2. attempt' = [told EXCEPT ![r][k + 1] = fresh]  BY <1>6
  <2> HIDE DEF told
  <2>3. /\ attempt' \in [Runs -> [Agent!Numbers -> AttemptRow]]
        /\ attempt'[r][k + 1] = fresh
        /\ \A j \in Agent!Numbers : j # k + 1 => attempt'[r][j] = told[r][j]
        /\ \A q \in Runs : q # r => attempt'[q] = told[q]
    BY <1>1, <1>3, <2>1, <2>2
  <2>4. k # k + 1  BY <1>3
  <2> QED  BY <2>1, <2>3, <2>4
<1>8. /\ activity' \in [Runs -> ActivityRow]
      /\ activity'[r].last = k + 1 /\ activity'[r].outcome = activity[r].outcome
      /\ activity'[r].vendor = activity[r].vendor /\ activity'[r].kind = activity[r].kind
      /\ \A q \in Runs : q # r => activity'[q] = activity[q]
  BY <1>3, <1>5 DEF ActivityRow
<1>9. ActivityMoves(r)  BY <1>7, <1>8 DEF ActivityMoves
<1>10. ASSUME NEW j \in Agent!Numbers PROVE Leaves(<<r, j>>)' /\ Behind(<<r, j>>)'
  <2>1. Agent!Of(<<r, j>>)' = attempt'[r][j]  BY DEF Agent!Of
  <2>2. Agent!Vendor(<<r, j>>)' = Agent!Vendor(<<r, j>>)  BY <1>8 DEF Agent!Vendor
  <2>3. Leaves(<<r, j>>) /\ Behind(<<r, j>>) /\ Agent!Of(<<r, j>>) = attempt[r][j]
    BY ActivityFacts
  <2>4. <<r, j>>[1] = r /\ <<r, j>>[2] = j  OBVIOUS
  <2>5. CASE j = k
    <3>1. attempt'[r][k] = Agent!Done(r, k)  BY <1>7 DEF done
    <3>2. activity'[r].last \in Nat /\ activity'[r].last >= activity[r].last
      BY <1>2, <1>3, <1>8
    <3> QED  BY <1>8, <2>5, <3>1, <3>2, ReportedIsFine
  <2>6. CASE j = k + 1
    <3>1. Agent!Of(<<r, j>>) = Agent!Unborn  BY <1>2, <1>3, <2>3, <2>4, <2>6 DEF Behind
    <3>2. Agent!Of(<<r, j>>)' = fresh  BY <1>7, <2>1, <2>6
    <3>3. Leaves(<<r, j>>)'
      BY <1>1, <2>2, <2>3, <3>1, <3>2, UnbornIsARow DEF Leaves, Over, InTree
    <3>4. ~(j > activity'[r].last)  BY <1>3, <1>8, <2>6
    <3>5. Behind(<<r, j>>)'
      BY <1>1, <2>2, <2>3, <2>4, <3>2, <3>4 DEF Behind
    <3> QED  BY <3>3, <3>5
  <2>7. CASE j # k /\ j # k + 1
    <3>1. Agent!Of(<<r, j>>)' = Agent!Of(<<r, j>>)  BY <1>7, <2>1, <2>3, <2>7
    <3>2. Leaves(<<r, j>>)'  BY <2>2, <2>3, <3>1 DEF Leaves
    <3>3. j > k + 1 => j > activity[r].last  BY <1>2, <1>3, ActivityFacts
    <3>4. Behind(<<r, j>>)'  BY <1>8, <2>2, <2>3, <2>4, <3>1, <3>3 DEF Behind
    <3> QED  BY <3>2, <3>4
  <2> QED  BY <2>5, <2>6, <2>7
<1>11. OutcomeFits(r)'
  <2>1. Agent!AttemptsOf(r)' = Agent!AttemptsOf(r)  BY <1>8 DEF Agent!AttemptsOf
  <2>2. ASSUME NEW j \in 1..k, attempt'[r][j].at = "done"
        PROVE  attempt'[r][j].err # "final"
    <3>1. CASE j = k  BY <1>4, <1>7, <3>1
    <3>2. CASE j # k
      <4>1. j \in 1..(activity[r].last - 1) /\ j \in Agent!Numbers /\ j # k + 1
        BY <1>2, <1>3, <3>2, ActivityFacts
      <4>2. attempt'[r][j] = attempt[r][j]  BY <1>7, <3>2, <4>1
      <4> QED  BY <2>2, <4>1, <4>2, ActivityFacts, SMTT(60) DEF OutcomeFits
    <3> QED  BY <3>1, <3>2
  <2>3. (k + 1) - 1 = k  BY <1>3
  <2>4. \A j \in 1..(activity'[r].last - 1) :
           attempt'[r][j].at = "done" => attempt'[r][j].err # "final"
    BY <1>8, <2>2, <2>3
  <2>5. activity'[r].outcome.status = "open"  BY <1>2, <1>8
  <2>6. activity'[r].last <= Agent!AttemptsOf(r)'  BY <1>3, <1>8, <2>1
  <2>7. attempt'[r][activity'[r].last].at # "done"  BY <1>1, <1>7, <1>8
  <2> QED  BY <2>4, <2>5, <2>6, <2>7 DEF OutcomeFits
<1> QED  BY <1>9, <1>10, <1>11, ActivityStep

LEMMA ReportKeepsInv ==
    ASSUME AgentInv, NEW r \in Runs, NEW k \in Agent!Numbers, Agent!Report(r, k)
    PROVE  AgentInv'
<1>1. /\ attempt[r][k].at = "report"
      /\ UNCHANGED host /\ UNCHANGED <<roots, trees, servers, touched, unremoved, unclean>>
      /\ faults' = faults
  BY DEF Agent!Report, Agent!Files
<1> DEFINE err == attempt[r][k].err
<1>2. err \in {"none", "final", "again"}
  <2>1. attempt[r][k] \in AttemptRow  BY ActivityFacts
  <2> QED  BY <2>1, RowFacts
<1>3. activity \in [Runs -> ActivityRow]  BY DEF AgentInv, AgentTypes
<1>4. CASE Agent!Heard(r, k) /\ err # "none" /\ Agent!TriedAgain(r, err)
  <2>1. /\ activity' = [activity EXCEPT ![r].last = k + 1]
        /\ attempt' = [attempt EXCEPT ![r][k] = Agent!Done(r, k),
                                      ![r][k + 1] = [Agent!Unborn EXCEPT !.at = "key"]]
    BY <1>4 DEF Agent!Report
  <2>2. err = "again" /\ k < Agent!AttemptsOf(r)
    BY <1>4 DEF Agent!TriedAgain, Agent!Heard
  <2> QED  BY <1>1, <1>4, <2>1, <2>2, AnotherKeepsInv
<1>5. CASE ~(Agent!Heard(r, k) /\ err # "none" /\ Agent!TriedAgain(r, err))
  <2>1. attempt' = [attempt EXCEPT ![r][k] = Agent!Done(r, k)]  BY <1>5 DEF Agent!Report
  <2>2. CASE Agent!Heard(r, k) /\ err = "none"
    <3>1. PICK intents \in Replies : Agent!Settle(r, Agent!Answer(r, k, intents))
      BY <1>5, <2>2 DEF Agent!Report
    <3>2. Agent!Answer(r, k, intents) \in OutcomeRow  BY AnswerFacts
    <3>3. /\ activity' \in [Runs -> ActivityRow]
          /\ activity'[r].outcome = Agent!Answer(r, k, intents)
          /\ activity'[r].last = activity[r].last
          /\ activity'[r].vendor = activity[r].vendor /\ activity'[r].kind = activity[r].kind
          /\ \A q \in Runs : q # r => activity'[q] = activity[q]
      BY <3>1, <3>2, SettleMoves
    <3>4. OutcomeFits(r)'  BY <1>1, <2>1, <2>2, <3>3, HeardAnswerFits
    <3> QED  BY <1>1, <2>1, <3>3, <3>4, ReportEnds
  <2>3. CASE Agent!Heard(r, k) /\ err # "none"
    <3> DEFINE outcome == [Agent!Open EXCEPT !.by = k, !.status = "failed"]
    <3>1. Agent!Settle(r, outcome) /\ ~Agent!TriedAgain(r, err)
      BY <1>5, <2>3 DEF Agent!Report
    <3>2. outcome \in OutcomeRow
      <4> DEFINE mine == [Agent!Open EXCEPT !.by = k]
      <4>1. k \in 0..MaxAttempts
        <5>1. MaxAttempts \in Nat  BY AgentBounds
        <5> QED  BY <5>1 DEF Agent!Numbers
      <4>2. mine \in OutcomeRow  BY <4>1, OpenIsARow DEF OutcomeRow
      <4>3. outcome = [mine EXCEPT !.status = "failed"]  OBVIOUS
      <4> HIDE DEF mine, outcome
      <4> QED  BY <4>2, <4>3 DEF OutcomeRow
    <3>3. /\ activity' \in [Runs -> ActivityRow]
          /\ activity'[r].outcome = outcome /\ activity'[r].last = activity[r].last
          /\ activity'[r].vendor = activity[r].vendor /\ activity'[r].kind = activity[r].kind
          /\ \A q \in Runs : q # r => activity'[q] = activity[q]
      BY <3>1, <3>2, SettleMoves
    <3>4. OutcomeFits(r)'  BY <1>1, <2>1, <2>3, <3>1, <3>3, HeardFailureFits
    <3> QED  BY <1>1, <2>1, <3>3, <3>4, ReportEnds
  <2>4. CASE ~Agent!Heard(r, k)
    <3>1. activity' = activity  BY <2>4 DEF Agent!Report
    <3>2. k <= activity[r].last
      <4>1. Behind(<<r, k>>) /\ Agent!Of(<<r, k>>) = attempt[r][k]  BY ActivityFacts
      <4>2. <<r, k>>[1] = r /\ <<r, k>>[2] = k  OBVIOUS
      <4>3. ~(k > activity[r].last)  BY <1>1, <4>1, <4>2, UnbornIsARow DEF Behind
      <4> QED  BY <4>3, ActivityFacts
    <3>3. OutcomeFits(r)'  BY <1>1, <2>1, <2>4, <3>1, <3>2, UnheardFits
    <3> QED  BY <1>1, <1>3, <2>1, <3>1, <3>3, ReportEnds
  <2> QED  BY <2>2, <2>3, <2>4
<1> QED  BY <1>4, <1>5

LEMMA AgentNextKeepsInv == ASSUME AgentInv, Agent!Next PROVE AgentInv'
<1>1. ASSUME NEW a \in Agent!Attempts, Agent!Report(a[1], a[2]) PROVE AgentInv'
  <2>1. a[1] \in Runs /\ a[2] \in Agent!Numbers  BY DEF Agent!Attempts
  <2> QED  BY <1>1, <2>1, ReportKeepsInv
<1> QED
  BY <1>1, ScheduleKeepsInv, TimesOutKeepsInv, FindKeyKeepsInv, AdapterKeepsInv,
     WorkerDiesKeepsInv
  DEF Agent!Next

LEMMA AgentStutterKeepsInv == ASSUME AgentInv, UNCHANGED agentVars PROVE AgentInv'
<1>1. /\ UNCHANGED <<host, activity, attempt, faults>>
      /\ UNCHANGED <<roots, trees, servers, touched, unremoved, unclean>>
  BY DEF agentVars
<1>2. AgentTypes'  BY <1>1 DEF AgentInv, AgentTypes, Agent!Attempts, Agent!Numbers
<1>3. ASSUME NEW a \in Agent!Attempts PROVE Leaves(a)' /\ Behind(a)'
  <2>1. Agent!Of(a)' = Agent!Of(a) /\ Leaves(a) /\ Behind(a)
    BY <1>1 DEF AgentInv, Agent!Of
  <2> QED  BY <1>1, <2>1, LeavesStay, BehindStays DEF AgentInv, AgentTypes
<1>4. \A r \in Runs : OutcomeFits(r)'
  BY <1>1 DEF AgentInv, OutcomeFits, Agent!AttemptsOf
<1>5. Agent!PortsAreApart'  BY <1>1 DEF AgentInv, Agent!PortsAreApart
<1> QED  BY <1>1, <1>2, <1>3, <1>4, <1>5 DEF AgentInv, Agent!Attempts, Agent!Numbers

LEMMA AgentInitHasInv == ASSUME Agent!Init PROVE AgentInv
<1>1. /\ host \in Hosts /\ faults = 0 /\ roots = {} /\ trees = {} /\ touched = {}
      /\ unremoved = {} /\ unclean = {} /\ servers = << >>
      /\ attempt = [r \in Runs |-> [k \in Agent!Numbers |-> Agent!Unborn]]
      /\ activity \in [Runs -> [kind : Agent!Kinds, vendor : AgentVendors, last : {0},
                                outcome : {Agent!Open}]]
  BY DEF Agent!Init
<1>2. DOMAIN servers = {}  BY <1>1
<1>3. /\ attempt \in [Runs -> [Agent!Numbers -> AttemptRow]]
      /\ \A a \in Agent!Attempts : Agent!Of(a) = Agent!Unborn
  BY <1>1, UnbornIsARow DEF Agent!Of, Agent!Attempts
<1>4. \A r \in Runs : /\ activity[r] \in ActivityRow /\ activity[r].last = 0
                      /\ activity[r].outcome = Agent!Open
  BY <1>1, OpenIsARow, AgentBounds DEF ActivityRow
<1>5. AgentTypes
  <2>1. activity \in [Runs -> ActivityRow]  BY <1>1, <1>4
  <2> QED  BY <1>1, <1>2, <1>3, <2>1 DEF AgentTypes
<1>6. \A a \in Agent!Attempts : Leaves(a)
  BY <1>1, <1>2, <1>3, UnbornIsARow DEF Leaves, InTree
<1>7. \A a \in Agent!Attempts : Behind(a)
  BY <1>1, <1>3, UnbornIsARow DEF Behind
<1>8. \A r \in Runs : OutcomeFits(r)
  <2> SUFFICES ASSUME NEW r \in Runs PROVE OutcomeFits(r)  OBVIOUS
  <2>1. 0 <= Agent!AttemptsOf(r)  BY AgentBounds DEF Agent!AttemptsOf
  <2>2. activity[r].outcome.status = "open" /\ activity[r].last = 0
    BY <1>4 DEF Agent!Open
  <2>3. 1..(0 - 1) = {}  OBVIOUS
  <2> QED  BY <2>1, <2>2, <2>3 DEF OutcomeFits
<1>9. Agent!PortsAreApart  BY <1>2 DEF Agent!PortsAreApart
<1> QED  BY <1>1, <1>5, <1>6, <1>7, <1>8, <1>9 DEF AgentInv

LEMMA AgentInvIsEnough == ASSUME AgentInv PROVE Agent!AgentRunsAreSound
<1>1. AgentTypes  BY DEF AgentInv
<1>2. \A a \in Agent!Attempts :
         /\ a[1] \in Runs /\ a[2] \in Agent!Numbers
         /\ Agent!Of(a) \in AttemptRow /\ Leaves(a) /\ Behind(a)
  BY <1>1, AttemptFacts DEF AgentInv
<1>3. Agent!TypeOK
  <2>1. \A r \in Runs : /\ activity[r].kind \in Agent!Kinds /\ activity[r].vendor \in AgentVendors
                        /\ activity[r].last \in 0..MaxAttempts
                        /\ activity[r].outcome.status \in {"open", "answered", "failed"}
    BY <1>1 DEF AgentTypes, ActivityRow, OutcomeRow
  <2>2. ASSUME NEW a \in Agent!Attempts
        PROVE  LET row == attempt[a[1]][a[2]] IN
               /\ row.at \in {"unborn", "key", "isolate", "root", "tree", "copy", "unroot", "port",
                       "serve", "talk", "diff", "close", "untree", "unplace", "report",
                       "done", "dead"}
               /\ row.place \in {"none", "direct", "tree", "copy"}
               /\ row.said \in 0..Whole
               /\ row.err \in {"none", "final", "again"}
    <3>1. attempt[a[1]][a[2]] \in AttemptRow  BY <1>2 DEF Agent!Of
    <3> QED  BY <3>1, RowFacts DEF AgentPlaces
  <2> QED  BY <1>1, <2>1, <2>2 DEF Agent!TypeOK, AgentTypes
<1>4. Agent!NothingIsLeftBehind
  <2>1. \A a \in roots \cup DOMAIN servers : Agent!Running(a) \/ a \in unclean
    <3> SUFFICES ASSUME NEW a \in roots \cup DOMAIN servers, a \notin unclean
                 PROVE  Agent!Running(a)
      OBVIOUS
    <3>1. a \in Agent!Attempts  BY <1>1 DEF AgentTypes
    <3>2. Agent!Of(a).at \notin {"unborn", "done", "dead"}
      BY <1>2, <3>1 DEF Leaves, InTree
    <3> QED  BY <3>2 DEF Agent!Running, Agent!Of
  <2>2. \A a \in trees : a \in roots \cup unremoved
    BY <1>1, <1>2 DEF Leaves, AgentTypes
  <2>3. \A a \in Agent!Attempts :
           Agent!Of(a).place = "tree" /\ Agent!Of(a).at \in {"port", "serve", "talk", "diff"}
              => a \in trees
    BY <1>2 DEF Leaves
  <2> QED  BY <2>1, <2>2, <2>3 DEF Agent!NothingIsLeftBehind, AgentInv
<1>5. Agent!AnswersAreEarned
  <2> SUFFICES ASSUME NEW r \in Runs
               PROVE  LET o == activity[r].outcome IN
        /\ o.status = "answered" =>
              /\ o.by = activity[r].last /\ attempt[r][o.by].err = "none"
              /\ o.said = Whole \/ faults > 0
              /\ o.drafts <= MaxDrafts /\ (o.artifacts = "drafts" <=> o.drafts > 0)
              /\ attempt[r][o.by].edited = "yes" /\ attempt[r][o.by].place # "direct"
                  /\ activity[r].kind # "group" /\ faults = 0 => o.artifacts # "none"
        /\ o.status = "failed" =>
              activity[r].last = Agent!AttemptsOf(r) \/ attempt[r][o.by].err = "final"
        /\ \A k \in 1..(activity[r].last - 1) :
               attempt[r][k].at = "done" => attempt[r][k].err # "final"
    BY DEF Agent!AnswersAreEarned
  <2>1. OutcomeFits(r)  BY DEF AgentInv
  <2>2. activity[r].outcome.drafts \in 0..MaxDrafts /\ MaxDrafts \in Nat
    BY <1>1, AgentBounds DEF AgentTypes, ActivityRow, OutcomeRow
  <2>3. activity[r].outcome.drafts <= MaxDrafts  BY <2>2
  <2> QED  BY <2>1, <2>3 DEF OutcomeFits
<1> QED  BY <1>3, <1>4, <1>5 DEF Agent!AgentRunsAreSound, AgentInv

-----------------------------------------------------------------------------
(***************************************************************************)
(* The theorems.                                                           *)
(***************************************************************************)
LEMMA AccountStutter == ASSUME AccountInv, UNCHANGED accountVars PROVE AccountInv'
<1>0. /\ Acc!TypeOK /\ CallsKnow /\ LoginsAreNew /\ WindowsAreKept
      /\ calls \in 0..MaxCalls /\ lost \in BOOLEAN /\ resets \in 0..MaxResets
      /\ call \in [Calls -> CallRow]
  BY DEF AccountInv
<1>1. UNCHANGED <<users, sessions, attempts, buckets, admitted, reset, call, lost, clock, calls,
                  resets>>
  BY DEF accountVars
<1>2. WindowsAreKept'  BY <1>0, <1>1, RestStays
<1>3. Acc!TypeOK'  BY <1>0, <1>1, CallTypes DEF Acc!TypeOK
<1>4. CallsKnow' /\ LoginsAreNew'  BY <1>0, <1>1 DEF CallsKnow, LoginsAreNew, IsLogin
<1> QED  BY <1>0, <1>1, <1>2, <1>3, <1>4, RowsStaySound DEF AccountInv, RowsStay

LEMMA InvInit == ASSUME OwnerInit PROVE Inv
BY AccountInit, ConnectionInit, AgentInitHasInv DEF OwnerInit, Inv

LEMMA InvStep == ASSUME Inv, [OwnerNext]_allVars PROVE Inv'
<1>1. CASE area = "account" /\ Acc!Next /\ UNCHANGED <<area, vars, agentVars>>
  BY <1>1, AccountStep, ConnectionStutter DEF Inv
<1>2. CASE area = "providers" /\ Next /\ UNCHANGED <<area, accountVars, agentVars>>
  BY <1>2, ConnectionStep DEF Inv
<1>3. CASE area = "agents" /\ Agent!Next /\ UNCHANGED <<area, vars, accountVars>>
  BY <1>3, ConnectionStutter, AgentNextKeepsInv DEF Inv
<1>4. CASE UNCHANGED allVars
  <2>1. area' = area /\ UNCHANGED vars /\ UNCHANGED accountVars /\ UNCHANGED agentVars
    BY <1>4 DEF allVars
  <2> QED  BY <2>1, AccountStutter, ConnectionStutter, AgentStutterKeepsInv DEF Inv
<1> QED  BY <1>1, <1>2, <1>3, <1>4 DEF OwnerNext

LEMMA InvHolds == OwnerSpec => []Inv
<1>1. OwnerInit => Inv  BY InvInit
<1>2. Inv /\ [OwnerNext]_allVars => Inv'  BY InvStep
<1> QED  BY <1>1, <1>2, PTL DEF OwnerSpec

\* In every order of overlapping logins, resets, logouts, deaths and restarts: two sessions of
\* a person are signed in together only if the later login had looked for sessions to revoke
\* before the earlier one was committed; a login has one row of the audit at most, and the
\* right one; and no account and no network gets more than two windows' worth of attempts
\* through in the length of one, unless a restart has forgotten what was counted.
\* (login, signup, logout, enforceLoginLimit)
THEOREM AccountsStaySound == OwnerSpec => []AccountsAreSound
<1>1. Inv => AccountsAreSound  BY AccountInvIsEnough DEF Inv, AccountsAreSound
<1> QED  BY <1>1, InvHolds, PTL

\* In every order of overlapping requests: the contact of a vendor is connected to its newest
\* connection, unless two of them were made at once; every agent is connected to one its
\* runtime can use; no run misses a connection that was there all the while; and nobody takes
\* more of a period than its limit.  (upsertAgentContactForCredential,
\* assertUsableModelConnection, selectLatestByokCredential, consumePlatformQuota)
THEOREM ConnectionsStaySound == OwnerSpec => []ConnectionsAreSound
<1>1. Inv => ConnectionsAreSound  BY DEF Inv, ConnectionInv
<1> QED  BY <1>1, InvHolds, PTL

\* However the attempts of activities follow and overtake each other, whatever fails and
\* whenever the worker dies: a temporary directory or a server without a running attempt
\* belongs to one that ended before its cleanup did, and a registered worktree has its
\* directory or could not be removed; the owner's own files are touched only without a
\* sandbox; an answer is that of the last attempt, whole unless a stream ended early, brings
\* few drafts and shows what was done to a copy; an activity fails only for good or with its
\* last attempt; and servers have ports of their own.  (createAgentRunSandbox, execute,
\* dispatchAgentActivity, executeDirectAgentActivity, findFreePort)
THEOREM AgentRunsStaySound == OwnerSpec => []AgentRunsAreSound
<1>1. Inv => AgentRunsAreSound  BY AgentInvIsEnough DEF Inv, AgentRunsAreSound
<1> QED  BY <1>1, InvHolds, PTL
=============================================================================
