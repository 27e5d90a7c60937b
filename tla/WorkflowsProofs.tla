---------------------------- MODULE WorkflowsProofs ----------------------------
(***************************************************************************)
(* The workflows: the group orchestrator, for any channel, any             *)
(* declarations of its agents and any plan; deployments, for any number of *)
(* dispatches, faults and rotations; and visual workflows, for any number  *)
(* of callers, runs and nodes.                                             *)
(***************************************************************************)
EXTENDS MCWorkflows, FiniteSetTheorems, SequenceTheorems, WellFoundedInduction, TLAPS

-----------------------------------------------------------------------------
(***************************************************************************)
(* The group orchestrator.                                                 *)
(***************************************************************************)
\* The first turns are the plan's, one after the other.
PlannedTurns ==
    \A i \in DOMAIN turns : i <= Total(plan) =>
        turns[i].agent = plan.order[((i - 1) % Len(plan.order)) + 1]

\* Somebody asked for a, in a turn that succeeded.
AskedFor(a) == \E j \in DOMAIN turns : turns[j].ok /\ a \in turns[j].asks

\* Whoever waits in the queue or in the wave was asked for and has had no turn.
Waiting ==
    /\ \A a \in queue \cup wave :
           FollowsHandoffs /\ a \notin SeqRange(plan.order) /\ AskedFor(a) /\ Ran(a) = {}
    /\ \A a \in asked : FollowsHandoffs /\ AskedFor(a)
    /\ queue \cap wave = {}
    /\ wave # {} \/ asked # {} => Len(turns) >= Total(plan)

\* Nobody is forgotten: who is in queuedTargetIds has a place in the plan, waits or had a
\* turn, and who was asked for is there or is about to be.
Remembered ==
    /\ queued = SeqRange(plan.order) \cup queue \cup wave
                   \cup {turns[i].agent : i \in DOMAIN turns}
    /\ FollowsHandoffs => \A i \in Succeeded : turns[i].asks \subseteq queued \cup asked

\* A workflow reports when everything is done.
ReportsLast ==
    status \in {"partial_failure", "aggregated"} =>
        /\ plan.order # << >> /\ Len(turns) >= Total(plan)
        /\ queue = {} /\ wave = {} /\ asked = {}

GroupInv ==
    /\ TypeOK /\ PlannedTurns /\ Waiting /\ HandoffsAreAskedForOnce /\ Remembered
    /\ TargetsCoverDispatches /\ ReportsLast

-----------------------------------------------------------------------------
(***************************************************************************)
(* Orders of work.                                                         *)
(***************************************************************************)
LEMMA LeastNatural ==
    ASSUME NEW T, T \subseteq Nat, T # {}
    PROVE  \E n \in T : \A m \in T : n <= m
<1> DEFINE R == {ss \in Nat \X Nat : ss[1] < ss[2]}
<1>1. IsWellFoundedOn(R, Nat)  BY NatLessThanWellFounded DEF OpToRel
<1> HIDE DEF R
<1>2. PICK n \in T : \A m \in T : ~(<<m, n>> \in R)  BY <1>1, WFMin
<1>3. \A m \in T : ~(m < n)  BY <1>2 DEF R
<1>4. QED  BY <1>3

LEMMA OrderFacts ==
    ASSUME OrchestratorAssumption, NEW o \in Orders
    PROVE  /\ o \in Seq(Agents) /\ Len(o) \in Nat /\ DOMAIN o = 1..Len(o)
           /\ \A i \in 1..Len(o) : o[i] \in Agents
           /\ \A i, j \in 1..Len(o) : o[i] = o[j] => i = j
           /\ SeqRange(o) \subseteq Agents
           /\ o # << >> => Len(o) > 0
<1>1. PICK n \in 0..Cardinality(Agents) : o \in [1..n -> Agents]
  BY DEF Orders
<1>2. n \in Nat
  BY FS_CardinalityType DEF OrchestratorAssumption
<1>3. o \in Seq(Agents) /\ Len(o) = n /\ DOMAIN o = 1..n
  BY <1>1, <1>2
<1>4. \A i, j \in DOMAIN o : o[i] = o[j] => i = j
  BY DEF Orders
<1>5. o # << >> => Len(o) > 0
  BY <1>3, <1>2
<1>6. QED  BY <1>1, <1>2, <1>3, <1>4, <1>5 DEF SeqRange

\* If a waiting agent is placed only when everybody waits, and there is an order in which
\* nobody waits, nobody does: of those still to be placed, the one that comes first in that
\* order waits for nothing.
LEMMA WorkOrdersAreGood ==
    ASSUME OrchestratorAssumption, NEW order \in Orders, IsWorkOrder(order),
           NEW o \in Orders, SeqRange(o) = SeqRange(order), NobodyWaits(o)
    PROVE  NobodyWaits(order)
<1> SUFFICES ASSUME NEW i \in DOMAIN order, Waits(order, i, i) PROVE FALSE
  BY DEF NobodyWaits
<1>1. /\ Len(order) \in Nat /\ DOMAIN order = 1..Len(order)
      /\ \A j, k \in 1..Len(order) : order[j] = order[k] => j = k
  BY OrderFacts
<1>2. Len(o) \in Nat /\ DOMAIN o = 1..Len(o)
  BY OrderFacts
<1> DEFINE Rest == {order[j] : j \in i..Len(order)}
           Places == {m \in DOMAIN o : o[m] \in Rest}
<1>3. \A j \in i..Len(order) : Waits(order, i, j)
  BY DEF IsWorkOrder
<1>4. \A j \in DOMAIN order : \E m \in DOMAIN o : o[m] = order[j]
  BY DEF SeqRange
<1>5. \A m \in DOMAIN o : \E j \in DOMAIN order : o[m] = order[j]
  BY DEF SeqRange
<1>6. Places # {} /\ Places \subseteq Nat
  BY <1>1, <1>2, <1>4
<1>7. PICK m \in Places : \A n \in Places : m <= n
  BY <1>6, LeastNatural
<1>8. PICK j \in i..Len(order) : o[m] = order[j]
  OBVIOUS
<1>9. PICK k \in Consumes[o[m]] :
         /\ \A n \in 1..(i - 1) : k \notin Produces[order[n]]
         /\ \E n \in i..Len(order) : k \in Produces[order[n]]
  BY <1>3, <1>8 DEF Waits
<1>10. \A n \in 1..(m - 1) : k \notin Produces[o[n]]
  <2> SUFFICES ASSUME NEW n \in 1..(m - 1), k \in Produces[o[n]] PROVE FALSE  OBVIOUS
  <2>1. n \in DOMAIN o /\ n < m  BY <1>2
  <2>2. n \notin Places  BY <1>2, <1>7, <2>1
  <2>3. PICK p \in DOMAIN order : o[n] = order[p]  BY <1>5, <2>1
  <2>4. p \notin i..Len(order)  BY <2>1, <2>2, <2>3
  <2>5. p \in 1..(i - 1)  BY <1>1, <2>4
  <2>6. QED  BY <1>9, <2>3, <2>5
<1>11. PICK p \in i..Len(order) : k \in Produces[order[p]]
  BY <1>9
<1>12. PICK n \in DOMAIN o : o[n] = order[p]
  BY <1>1, <1>4, <1>11
<1>13. n \in Places
  BY <1>11, <1>12
<1>14. n \in m..Len(o)
  BY <1>2, <1>7, <1>13
<1>15. Waits(o, m, m)
  BY <1>9, <1>10, <1>11, <1>12, <1>14 DEF Waits
<1>16. QED  BY <1>15 DEF NobodyWaits

LEMMA PlansAreGood == ASSUME OrchestratorAssumption, plan \in Plans PROVE ProducersGoFirst
<1>1. plan.order \in Orders /\ (~plan.locked => IsWorkOrder(plan.order))
  BY DEF Plans
<1>2. QED  BY <1>1, WorkOrdersAreGood DEF ProducersGoFirst

-----------------------------------------------------------------------------
(***************************************************************************)
(* Turns of the plan.                                                      *)
(***************************************************************************)
LEMMA DivMod ==
    ASSUME NEW n \in Nat \ {0}, NEW t \in Nat
    PROVE  /\ t % n \in 0..(n - 1) /\ t \div n \in Nat
           /\ t = n * (t \div n) + (t % n)
OBVIOUS

LEMMA FewRounds ==
    ASSUME NEW n \in Nat \ {0}, NEW t \in Nat, NEW r \in Nat, t < r * n
    PROVE  t \div n < r
<1>1. t \div n \in Nat /\ n * (t \div n) <= t
  BY DivMod
<1> DEFINE d == t \div n
<1> HIDE DEF d
<1>2. ASSUME d >= r, d \in Nat PROVE r * n <= n * d
  BY <1>2
<1>3. QED  BY <1>1, <1>2 DEF d

LEMMA FewSteps ==
    ASSUME NEW n \in Nat \ {0}, NEW t \in Nat
    PROVE  t \div n <= t
<1>1. t \div n \in Nat /\ n * (t \div n) <= t
  BY DivMod
<1> DEFINE d == t \div n
<1> HIDE DEF d
<1>2. ASSUME d \in Nat PROVE d <= n * d
  BY <1>2
<1>3. QED  BY <1>1, <1>2 DEF d

LEMMA PlanFacts ==
    ASSUME OrchestratorAssumption, plan \in Plans
    PROVE  /\ plan.order \in Orders /\ plan.rounds \in Nat \ {0} /\ plan.rounds <= MaxRounds
           /\ plan.steps \in 0..MaxSteps /\ plan.locked \in BOOLEAN
           /\ Total(plan) \in Nat
           /\ plan.steps = 0 => Len(plan.order) <= Total(plan)
           /\ MaxRounds \in Nat \ {0} /\ MaxSteps \in Nat
<1>1. /\ plan.order \in Orders /\ plan.rounds \in 1..MaxRounds /\ plan.steps \in 0..MaxSteps
      /\ plan.locked \in BOOLEAN /\ MaxRounds \in Nat \ {0} /\ MaxSteps \in Nat
  BY DEF Plans, RoundCounts, StepCounts, OrchestratorAssumption
<1>2. Len(plan.order) \in Nat  BY <1>1, OrderFacts
<1>3. plan.rounds * Len(plan.order) \in Nat /\ Len(plan.order) <= plan.rounds * Len(plan.order)
  <2>1. ASSUME NEW r \in Nat \ {0}, NEW n \in Nat PROVE r * n \in Nat /\ n <= r * n
    OBVIOUS
  <2>2. QED  BY <1>1, <1>2, <2>1, SMTT(60)
<1>4. QED  BY <1>1, <1>2, <1>3 DEF Total

\* The agent and the round of a planned turn.
LEMMA PlannedTurnFacts ==
    ASSUME OrchestratorAssumption, TypeOK, Planned
    PROVE  /\ PlannedAgent \in SeqRange(plan.order) /\ PlannedAgent \in Agents
           /\ PlannedRound \in 0..(MaxRounds + MaxSteps)
<1>1. /\ plan.order \in Orders /\ plan.rounds \in Nat \ {0} /\ plan.rounds <= MaxRounds
      /\ plan.steps \in 0..MaxSteps /\ MaxRounds \in Nat /\ MaxSteps \in Nat
  BY PlanFacts DEF TypeOK
<1>2. /\ Len(plan.order) \in Nat \ {0} /\ DOMAIN plan.order = 1..Len(plan.order)
      /\ SeqRange(plan.order) \subseteq Agents
  BY <1>1, OrderFacts DEF Planned
<1>3. Len(turns) \in Nat  BY DEF TypeOK
<1>4. (Len(turns) % Len(plan.order)) + 1 \in DOMAIN plan.order
  <2> DEFINE k == Len(turns) % Len(plan.order)
  <2>1. k \in 0..(Len(plan.order) - 1)  BY <1>2, <1>3, DivMod
  <2> HIDE DEF k
  <2>2. k + 1 \in DOMAIN plan.order  BY <1>2, <2>1
  <2>3. QED  BY <2>2 DEF k
<1>5. PlannedAgent \in SeqRange(plan.order)
  BY <1>4 DEF PlannedAgent, SeqRange
<1>6. PlannedRound \in Nat
  BY <1>2, <1>3, DivMod DEF PlannedRound
<1>7. PlannedRound <= MaxRounds + MaxSteps
  <2>1. CASE plan.steps > 0
    <3>1. Len(turns) < plan.steps  BY <2>1 DEF Planned, Total
    <3>2. PlannedRound <= Len(turns)  BY <1>2, <1>3, FewSteps DEF PlannedRound
    <3>3. QED  BY <1>1, <1>3, <1>6, <3>1, <3>2
  <2>2. CASE ~(plan.steps > 0)
    <3>1. Len(turns) < plan.rounds * Len(plan.order)  BY <2>2 DEF Planned, Total
    <3>2. PlannedRound < plan.rounds  BY <1>1, <1>2, <1>3, <3>1, FewRounds DEF PlannedRound
    <3>3. QED  BY <1>1, <1>6, <3>2
  <2>3. QED  BY <2>1, <2>2
<1>8. QED  BY <1>1, <1>2, <1>5, <1>6, <1>7

-----------------------------------------------------------------------------
(***************************************************************************)
(* Steps that take a turn.                                                 *)
(***************************************************************************)
\* The log after a turn.
LEMMA TurnAdded ==
    ASSUME OrchestratorAssumption, TypeOK, NEW t \in Turns, turns' = Append(turns, t)
    PROVE  /\ turns' \in Seq(Turns) /\ Len(turns) \in Nat /\ Len(turns') = Len(turns) + 1
           /\ DOMAIN turns = 1..Len(turns) /\ DOMAIN turns' = 1..(Len(turns) + 1)
           /\ \A i \in DOMAIN turns : turns'[i] = turns[i] /\ i \in DOMAIN turns'
           /\ turns'[Len(turns) + 1] = t
           /\ \A i \in DOMAIN turns' : i \in DOMAIN turns \/ i = Len(turns) + 1
           /\ \A a : AskedFor(a) => AskedFor(a)'
           /\ t.ok => \A a \in t.asks : AskedFor(a)'
           /\ \A a : a # t.agent => Ran(a)' = Ran(a)
           /\ Ran(t.agent)' = Ran(t.agent) \cup {Len(turns) + 1}
           /\ \A i \in Succeeded' : i \in Succeeded \/ (i = Len(turns) + 1 /\ t.ok)
           /\ {turns[i].agent : i \in DOMAIN turns}' =
                 {turns[i].agent : i \in DOMAIN turns} \cup {t.agent}
<1>1. /\ turns \in Seq(Turns) /\ Len(turns) \in Nat /\ DOMAIN turns = 1..Len(turns)
  BY DEF TypeOK
<1>2. /\ turns' \in Seq(Turns) /\ Len(turns') = Len(turns) + 1
      /\ DOMAIN turns' = 1..(Len(turns) + 1)
      /\ \A i \in DOMAIN turns : turns'[i] = turns[i] /\ i \in DOMAIN turns'
      /\ turns'[Len(turns) + 1] = t
  BY <1>1
<1>3. \A i \in DOMAIN turns' : i \in DOMAIN turns \/ i = Len(turns) + 1
  BY <1>1, <1>2
<1>4. Len(turns) + 1 \in DOMAIN turns'  BY <1>1, <1>2
<1>5. \A a : AskedFor(a) => AskedFor(a)'
  BY <1>2 DEF AskedFor
<1>6. t.ok => \A a \in t.asks : AskedFor(a)'
  BY <1>2, <1>4 DEF AskedFor
<1>7. \A a : a # t.agent => Ran(a)' = Ran(a)
  BY <1>2, <1>3 DEF Ran
<1>8. Ran(t.agent)' = Ran(t.agent) \cup {Len(turns) + 1}
  BY <1>2, <1>3, <1>4 DEF Ran
<1>9. \A i \in Succeeded' : i \in Succeeded \/ (i = Len(turns) + 1 /\ t.ok)
  BY <1>2, <1>3 DEF Succeeded
<1>10. {turns[i].agent : i \in DOMAIN turns}' = {turns[i].agent : i \in DOMAIN turns} \cup {t.agent}
  BY <1>2, <1>3, <1>4
<1>11. QED  BY <1>1, <1>2, <1>3, <1>5, <1>6, <1>7, <1>8, <1>9, <1>10

\* The turns that have been taken keep their place in the plan and their reason.
LEMMA PlannedStep ==
    ASSUME OrchestratorAssumption, GroupInv, Planned, plan' = plan, asked' = asked, wave' = wave,
           NEW ok \in BOOLEAN, NEW asks \in SUBSET Agents,
           turns' = Append(turns, Turn(PlannedAgent, PlannedRound, ok, asks))
    PROVE  /\ turns' \in Seq(Turns) /\ PlannedTurns' /\ HandoffsAreAskedForOnce'
           /\ wave = {} /\ asked = {}
           /\ PlannedAgent \in SeqRange(plan.order)
<1> DEFINE t == Turn(PlannedAgent, PlannedRound, ok, asks)
           n == Len(turns)
<1>1. TypeOK  BY DEF GroupInv
<1>2. /\ PlannedAgent \in SeqRange(plan.order) /\ PlannedAgent \in Agents
      /\ PlannedRound \in 0..(MaxRounds + MaxSteps)
  BY <1>1, PlannedTurnFacts
<1>3. t \in Turns /\ t.agent = PlannedAgent
  BY <1>2 DEF Turns, Turn
<1> HIDE DEF t
<1>4. /\ turns' \in Seq(Turns) /\ n \in Nat
      /\ DOMAIN turns = 1..n /\ DOMAIN turns' = 1..(n + 1)
      /\ \A i \in DOMAIN turns : turns'[i] = turns[i] /\ i \in DOMAIN turns'
      /\ turns'[n + 1] = t
      /\ \A i \in DOMAIN turns' : i \in DOMAIN turns \/ i = n + 1
      /\ \A a : a # t.agent => Ran(a)' = Ran(a)
  BY <1>1, <1>3, TurnAdded DEF t
<1>5. wave = {} /\ asked = {}
  <2>1. n < Total(plan) /\ Total(plan) \in Nat
    BY <1>1, PlanFacts DEF Planned, TypeOK
  <2>2. QED  BY <1>4, <2>1 DEF GroupInv, Waiting
<1>6. PlannedTurns'
  <2> SUFFICES ASSUME NEW i \in DOMAIN turns', i <= Total(plan)
               PROVE  turns'[i].agent = plan.order[((i - 1) % Len(plan.order)) + 1]
    BY DEF PlannedTurns, Total
  <2>1. CASE i \in DOMAIN turns
    BY <1>4, <2>1 DEF GroupInv, PlannedTurns
  <2>2. CASE i = n + 1
    <3>1. i - 1 = Len(turns)  BY <1>4, <2>2
    <3>2. turns'[i].agent = PlannedAgent  BY <1>3, <1>4, <2>2
    <3>3. QED  BY <3>1, <3>2 DEF PlannedAgent
  <2>3. QED  BY <1>4, <2>1, <2>2
<1>7. HandoffsAreAskedForOnce'
  <2> SUFFICES ASSUME NEW i \in DOMAIN turns', turns'[i].agent \notin SeqRange(plan.order)
               PROVE  /\ FollowsHandoffs
                      /\ \E j \in 1..(i - 1) : turns'[j].ok /\ turns'[i].agent \in turns'[j].asks
                      /\ Ran(turns[i].agent)' = {i}
    BY DEF HandoffsAreAskedForOnce, FollowsHandoffs
  <2>1. i \in DOMAIN turns /\ turns'[i] = turns[i]
    BY <1>2, <1>3, <1>4
  <2>2. /\ FollowsHandoffs
        /\ \E j \in 1..(i - 1) : turns[j].ok /\ turns[i].agent \in turns[j].asks
        /\ Ran(turns[i].agent) = {i}
    BY <2>1 DEF GroupInv, HandoffsAreAskedForOnce
  <2>3. \A j \in 1..(i - 1) : turns'[j] = turns[j]
    BY <1>4, <2>1
  <2>4. Ran(turns[i].agent)' = {i}
    <3>1. PICK a : a = turns[i].agent  OBVIOUS
    <3>2. a # t.agent  BY <1>2, <1>3, <2>1, <3>1
    <3>3. Ran(a)' = {i}  BY <1>4, <2>2, <3>1, <3>2
    <3>4. QED  BY <2>1, <3>1, <3>3 DEF Ran
  <2>5. QED  BY <2>1, <2>2, <2>3, <2>4
<1>8. QED  BY <1>2, <1>4, <1>5, <1>6, <1>7

\* Whom a turn names and nobody had queued is queued behind the others.
LEMMA FreshOnes ==
    ASSUME GroupInv, NEW named \in SUBSET Agents
    PROVE  /\ Fresh(named) \subseteq Agents /\ Fresh(named) \cap queued = {}
           /\ Fresh(named) \subseteq named /\ named \subseteq queued \cup Fresh(named)
           /\ \A a \in Fresh(named) : a \notin SeqRange(plan.order) /\ Ran(a) = {}
           /\ SeqRange(plan.order) \subseteq queued /\ wave \subseteq queued /\ queue \subseteq queued
<1>1. queued = SeqRange(plan.order) \cup queue \cup wave \cup {turns[i].agent : i \in DOMAIN turns}
  BY DEF GroupInv, Remembered
<1>2. \A a : a \notin queued => Ran(a) = {}
  BY <1>1 DEF Ran
<1>3. QED  BY <1>1, <1>2 DEF Fresh

LEMMA PlannedSucceedsStep ==
    ASSUME OrchestratorAssumption, GroupInv, NEW asks \in Requests, PlannedSucceeds(asks)
    PROVE  GroupInv'
<1> DEFINE t == Turn(PlannedAgent, PlannedRound, TRUE, asks)
<1>1. /\ Planned /\ turns' = Append(turns, t) /\ asks \in SUBSET Agents
      /\ UNCHANGED <<plan, wave, asked, status>>
  BY DEF PlannedSucceeds, Requests
<1>2. /\ turns' \in Seq(Turns) /\ PlannedTurns' /\ HandoffsAreAskedForOnce'
      /\ wave = {} /\ asked = {} /\ PlannedAgent \in SeqRange(plan.order)
  <2>1. plan' = plan /\ asked' = asked /\ wave' = wave /\ TRUE \in BOOLEAN
    BY <1>1
  <2>2. turns' = Append(turns, Turn(PlannedAgent, PlannedRound, TRUE, asks))
    BY <1>1
  <2>3. QED  BY <1>1, <2>1, <2>2, PlannedStep
<1>3. t \in Turns /\ t.agent = PlannedAgent /\ t.ok /\ t.asks = asks
  BY <1>1, PlannedTurnFacts DEF GroupInv, Turns, Turn
<1> HIDE DEF t
<1>4. /\ \A a : AskedFor(a) => AskedFor(a)'
      /\ \A a \in asks : AskedFor(a)'
      /\ \A a : a # PlannedAgent => Ran(a)' = Ran(a)
      /\ \A i \in Succeeded' : i \in Succeeded \/ i = Len(turns) + 1
      /\ \A i \in DOMAIN turns : turns'[i] = turns[i]
      /\ turns'[Len(turns) + 1] = t
      /\ {turns[i].agent : i \in DOMAIN turns}' =
            {turns[i].agent : i \in DOMAIN turns} \cup {PlannedAgent}
  BY <1>1, <1>3, TurnAdded DEF GroupInv
<1>5. /\ Fresh(asks) \subseteq Agents /\ Fresh(asks) \cap queued = {}
      /\ Fresh(asks) \subseteq asks /\ asks \subseteq queued \cup Fresh(asks)
      /\ \A a \in Fresh(asks) : a \notin SeqRange(plan.order) /\ Ran(a) = {}
      /\ SeqRange(plan.order) \subseteq queued /\ queue \subseteq queued
  BY <1>1, FreshOnes
<1>6. \/ /\ FollowsHandoffs
         /\ queue' = queue \cup Fresh(asks) /\ queued' = queued \cup Fresh(asks)
         /\ targets' = targets \cup queue'
      \/ ~FollowsHandoffs /\ queue' = queue /\ queued' = queued /\ targets' = targets
  BY DEF PlannedSucceeds
<1>7. FollowsHandoffs' = FollowsHandoffs /\ SeqRange(plan.order)' = SeqRange(plan.order)
  BY <1>1 DEF FollowsHandoffs, SeqRange
<1>8. TypeOK'
  <2>1. queue \subseteq queued /\ queued \subseteq Agents /\ targets \subseteq Agents
    BY DEF GroupInv, TypeOK
  <2>2. queue' \subseteq queued' /\ queued' \subseteq Agents /\ targets' \subseteq Agents
    BY <1>5, <1>6, <2>1
  <2>3. plan' \in Plans /\ wave' \in SUBSET queued' /\ asked' \in SUBSET Agents /\ status' \in Statuses
    BY <1>1, <1>2 DEF GroupInv, TypeOK
  <2>4. QED  BY <1>2, <2>2, <2>3 DEF TypeOK
<1>9. Waiting'
  <2>1. ASSUME NEW a \in queue' \cup wave'
        PROVE  FollowsHandoffs /\ a \notin SeqRange(plan.order) /\ AskedFor(a)' /\ Ran(a)' = {}
    <3>1. CASE a \in queue
      <4>1. FollowsHandoffs /\ a \notin SeqRange(plan.order) /\ AskedFor(a) /\ Ran(a) = {}
        BY <3>1 DEF GroupInv, Waiting
      <4>2. QED  BY <1>2, <1>4, <4>1
    <3>2. CASE a \notin queue
      <4>1. a \in Fresh(asks) /\ FollowsHandoffs  BY <1>1, <1>2, <1>6, <3>2
      <4>2. QED  BY <1>2, <1>4, <1>5, <4>1
    <3>3. QED  BY <3>1, <3>2
  <2>2. QED  BY <1>1, <1>2, <1>7, <2>1 DEF Waiting
<1>10. Remembered'
  <2>1. queued' = SeqRange(plan.order) \cup queue' \cup wave' \cup {turns[i].agent : i \in DOMAIN turns}'
    BY <1>1, <1>2, <1>4, <1>6 DEF GroupInv, Remembered
  <2>2. ASSUME FollowsHandoffs, NEW i \in Succeeded'
        PROVE  turns'[i].asks \subseteq queued' \cup asked'
    <3>1. CASE i \in Succeeded
      <4>1. turns[i].asks \subseteq queued \cup asked /\ i \in DOMAIN turns
        BY <2>2, <3>1 DEF GroupInv, Remembered, Succeeded
      <4>2. QED  BY <1>1, <1>4, <1>6, <4>1
    <3>2. CASE i = Len(turns) + 1
      BY <1>3, <1>4, <1>5, <1>6, <2>2, <3>2
    <3>3. QED  BY <1>4, <3>1, <3>2
  <2>3. QED  BY <1>7, <2>1, <2>2 DEF Remembered
<1>11. TargetsCoverDispatches'
  <2>1. targets' = SeqRange(plan.order) \cup {turns[i].agent : i \in DOMAIN turns}' \cup queue' \cup wave'
    BY <1>1, <1>2, <1>4, <1>6 DEF GroupInv, TargetsCoverDispatches
  <2>2. QED  BY <1>7, <2>1 DEF TargetsCoverDispatches
<1>12. ReportsLast'
  BY <1>1 DEF Planned, ReportsLast
<1>13. QED  BY <1>2, <1>8, <1>9, <1>10, <1>11, <1>12 DEF GroupInv

LEMMA PlannedFailsStep == ASSUME OrchestratorAssumption, GroupInv, PlannedFails PROVE GroupInv'
<1> DEFINE t == Turn(PlannedAgent, PlannedRound, FALSE, {})
<1>1. /\ Planned /\ turns' = Append(turns, t)
      /\ UNCHANGED <<plan, queue, queued, wave, asked, targets, status>>
  BY DEF PlannedFails
<1>2. /\ turns' \in Seq(Turns) /\ PlannedTurns' /\ HandoffsAreAskedForOnce'
      /\ wave = {} /\ asked = {} /\ PlannedAgent \in SeqRange(plan.order)
  <2>1. plan' = plan /\ asked' = asked /\ wave' = wave /\ FALSE \in BOOLEAN /\ {} \in SUBSET Agents
    BY <1>1
  <2>2. turns' = Append(turns, Turn(PlannedAgent, PlannedRound, FALSE, {}))
    BY <1>1
  <2>3. QED  BY <1>1, <2>1, <2>2, PlannedStep
<1>3. t \in Turns /\ t.agent = PlannedAgent /\ ~t.ok
  BY <1>1, PlannedTurnFacts DEF GroupInv, Turns, Turn
<1> HIDE DEF t
<1>4. /\ \A a : AskedFor(a) => AskedFor(a)'
      /\ \A a : a # PlannedAgent => Ran(a)' = Ran(a)
      /\ \A i \in Succeeded' : i \in Succeeded
      /\ \A i \in DOMAIN turns : turns'[i] = turns[i]
      /\ {turns[i].agent : i \in DOMAIN turns}' =
            {turns[i].agent : i \in DOMAIN turns} \cup {PlannedAgent}
  BY <1>1, <1>3, TurnAdded DEF GroupInv
<1>5. FollowsHandoffs' = FollowsHandoffs /\ SeqRange(plan.order)' = SeqRange(plan.order)
  BY <1>1 DEF FollowsHandoffs, SeqRange
<1>6. TypeOK'
  BY <1>1, <1>2 DEF GroupInv, TypeOK
<1>7. Waiting'
  <2>1. ASSUME NEW a \in queue'
        PROVE  FollowsHandoffs /\ a \notin SeqRange(plan.order) /\ AskedFor(a)' /\ Ran(a)' = {}
    <3>1. FollowsHandoffs /\ a \notin SeqRange(plan.order) /\ AskedFor(a) /\ Ran(a) = {}
      BY <1>1 DEF GroupInv, Waiting
    <3>2. QED  BY <1>2, <1>4, <3>1
  <2>2. QED  BY <1>1, <1>2, <1>5, <2>1 DEF Waiting
<1>8. Remembered'
  <2>1. queued' = SeqRange(plan.order) \cup queue' \cup wave' \cup {turns[i].agent : i \in DOMAIN turns}'
    BY <1>1, <1>2, <1>4 DEF GroupInv, Remembered
  <2>2. ASSUME FollowsHandoffs, NEW i \in Succeeded'
        PROVE  turns'[i].asks \subseteq queued' \cup asked'
    BY <1>1, <1>4, <2>2 DEF GroupInv, Remembered, Succeeded
  <2>3. QED  BY <1>5, <2>1, <2>2 DEF Remembered
<1>9. TargetsCoverDispatches'
  <2>1. targets' = SeqRange(plan.order) \cup {turns[i].agent : i \in DOMAIN turns}' \cup queue' \cup wave'
    BY <1>1, <1>2, <1>4 DEF GroupInv, TargetsCoverDispatches
  <2>2. QED  BY <1>5, <2>1 DEF TargetsCoverDispatches
<1>10. ReportsLast'
  BY <1>1 DEF Planned, ReportsLast
<1>11. QED  BY <1>2, <1>6, <1>7, <1>8, <1>9, <1>10 DEF GroupInv

-----------------------------------------------------------------------------
(***************************************************************************)
(* Waves of handoffs.                                                      *)
(***************************************************************************)
\* An agent of the wave gets the turn that somebody asked for.
LEMMA HandoffStep ==
    ASSUME OrchestratorAssumption, GroupInv, NEW a \in Agents, NEW ok \in BOOLEAN,
           NEW asks \in SUBSET Agents, ~ok => asks = {}, HandoffTurn(a, ok, asks)
    PROVE  GroupInv'
<1> DEFINE t == Turn(a, plan.rounds, ok, asks)
           n == Len(turns)
<1>1. /\ PlanDone /\ a \in wave /\ turns' = Append(turns, t)
      /\ wave' = wave \ {a} /\ asked' = asked \cup asks
      /\ UNCHANGED <<plan, queue, queued, targets, status>>
  BY DEF HandoffTurn
<1>2. /\ plan.rounds \in Nat \ {0} /\ plan.rounds <= MaxRounds
      /\ MaxRounds \in Nat /\ MaxSteps \in Nat /\ Total(plan) \in Nat
  BY PlanFacts DEF GroupInv, TypeOK
<1>3. t \in Turns /\ t.agent = a /\ t.ok = ok /\ t.asks = asks
  BY <1>2 DEF Turns, Turn
<1> HIDE DEF t
<1>4. /\ turns' \in Seq(Turns) /\ n \in Nat
      /\ DOMAIN turns = 1..n /\ DOMAIN turns' = 1..(n + 1)
      /\ \A i \in DOMAIN turns : turns'[i] = turns[i] /\ i \in DOMAIN turns'
      /\ turns'[n + 1] = t
      /\ \A i \in DOMAIN turns' : i \in DOMAIN turns \/ i = n + 1
      /\ \A b : b # a => Ran(b)' = Ran(b)
      /\ {turns[i].agent : i \in DOMAIN turns}' =
            {turns[i].agent : i \in DOMAIN turns} \cup {a}
  BY <1>1, <1>3, TurnAdded DEF GroupInv
<1>5. /\ \A b : AskedFor(b) => AskedFor(b)'
      /\ ok => \A b \in asks : AskedFor(b)'
      /\ Ran(a)' = Ran(a) \cup {n + 1}
      /\ \A i \in Succeeded' : i \in Succeeded \/ (i = n + 1 /\ ok)
  BY <1>1, <1>3, TurnAdded DEF GroupInv
<1>6. FollowsHandoffs' = FollowsHandoffs /\ SeqRange(plan.order)' = SeqRange(plan.order)
  BY <1>1 DEF FollowsHandoffs, SeqRange
<1>7. /\ FollowsHandoffs /\ a \notin SeqRange(plan.order) /\ AskedFor(a) /\ Ran(a) = {}
      /\ a \notin queue
  BY <1>1 DEF GroupInv, Waiting
<1>8. n >= Total(plan)
  BY <1>1 DEF PlanDone
<1>9. TypeOK'
  <2>1. asked' \in SUBSET Agents /\ wave' \in SUBSET queued
    BY <1>1 DEF GroupInv, TypeOK
  <2>2. QED  BY <1>1, <1>4, <2>1 DEF GroupInv, TypeOK
<1>10. PlannedTurns'
  <2> SUFFICES ASSUME NEW i \in DOMAIN turns', i <= Total(plan)
               PROVE  turns'[i].agent = plan.order[((i - 1) % Len(plan.order)) + 1]
    BY <1>1 DEF PlannedTurns, Total
  <2>1. i \in DOMAIN turns /\ turns'[i] = turns[i]
    BY <1>2, <1>4, <1>8
  <2>2. QED  BY <2>1 DEF GroupInv, PlannedTurns
<1>11. Waiting'
  <2>1. ASSUME NEW b \in queue' \cup wave'
        PROVE  FollowsHandoffs /\ b \notin SeqRange(plan.order) /\ AskedFor(b)' /\ Ran(b)' = {}
    <3>1. b # a /\ b \in queue \cup wave
      BY <1>1, <1>7
    <3>2. FollowsHandoffs /\ b \notin SeqRange(plan.order) /\ AskedFor(b) /\ Ran(b) = {}
      BY <3>1 DEF GroupInv, Waiting
    <3>3. QED  BY <1>4, <1>5, <3>1, <3>2
  <2>2. ASSUME NEW b \in asked' PROVE FollowsHandoffs /\ AskedFor(b)'
    <3>1. CASE b \in asked
      BY <1>5, <3>1 DEF GroupInv, Waiting
    <3>2. CASE b \notin asked
      BY <1>1, <1>5, <1>7, <3>2
    <3>3. QED  BY <3>1, <3>2
  <2>3. queue' \cap wave' = {}
    BY <1>1 DEF GroupInv, Waiting
  <2>4. Len(turns)' >= Total(plan)'
    <3>1. Len(turns') = n + 1  BY <1>4
    <3>2. Total(plan)' = Total(plan)  BY <1>1 DEF Total
    <3>3. QED  BY <1>2, <1>4, <1>8, <3>1, <3>2
  <2>5. QED  BY <1>6, <2>1, <2>2, <2>3, <2>4 DEF Waiting
<1>12. HandoffsAreAskedForOnce'
  <2> SUFFICES ASSUME NEW i \in DOMAIN turns', turns'[i].agent \notin SeqRange(plan.order)
               PROVE  /\ FollowsHandoffs
                      /\ \E j \in 1..(i - 1) : turns'[j].ok /\ turns'[i].agent \in turns'[j].asks
                      /\ Ran(turns[i].agent)' = {i}
    BY <1>6 DEF HandoffsAreAskedForOnce
  <2>1. CASE i \in DOMAIN turns
    <3>1. /\ FollowsHandoffs
          /\ \E j \in 1..(i - 1) : turns[j].ok /\ turns[i].agent \in turns[j].asks
          /\ Ran(turns[i].agent) = {i}
      BY <1>4, <2>1 DEF GroupInv, HandoffsAreAskedForOnce
    <3>2. PICK b : b = turns[i].agent  OBVIOUS
    <3>3. b # a  BY <1>7, <3>1, <3>2
    <3>4. Ran(b)' = {i}  BY <1>4, <3>1, <3>2, <3>3
    <3>5. Ran(turns[i].agent)' = {i}  BY <1>4, <2>1, <3>2, <3>4 DEF Ran
    <3>6. \A j \in 1..(i - 1) : turns'[j] = turns[j]  BY <1>4, <2>1
    <3>7. QED  BY <1>4, <2>1, <3>1, <3>5, <3>6
  <2>2. CASE i = n + 1
    <3>1. PICK j \in DOMAIN turns : turns[j].ok /\ a \in turns[j].asks
      BY <1>7 DEF AskedFor
    <3>2. j \in 1..(i - 1) /\ turns'[j] = turns[j]
      BY <1>4, <2>2, <3>1
    <3>3. turns'[i].agent = a  BY <1>3, <1>4, <2>2
    <3>4. Ran(turns[i].agent)' = {i}
      BY <1>5, <1>7, <2>2, <3>3 DEF Ran
    <3>5. QED  BY <1>7, <3>1, <3>2, <3>3, <3>4
  <2>3. QED  BY <1>4, <2>1, <2>2
<1>13. Remembered'
  <2>1. queued' = SeqRange(plan.order) \cup queue' \cup wave' \cup {turns[i].agent : i \in DOMAIN turns}'
    <3>1. queued = SeqRange(plan.order) \cup queue \cup wave \cup {turns[i].agent : i \in DOMAIN turns}
      BY DEF GroupInv, Remembered
    <3>2. QED  BY <1>1, <1>4, <3>1
  <2>2. ASSUME FollowsHandoffs, NEW i \in Succeeded'
        PROVE  turns'[i].asks \subseteq queued' \cup asked'
    <3>1. CASE i \in Succeeded
      <4>1. turns[i].asks \subseteq queued \cup asked /\ i \in DOMAIN turns
        BY <2>2, <3>1 DEF GroupInv, Remembered, Succeeded
      <4>2. QED  BY <1>1, <1>4, <4>1
    <3>2. CASE i = n + 1
      BY <1>1, <1>3, <1>4, <3>2
    <3>3. QED  BY <1>5, <3>1, <3>2
  <2>3. QED  BY <1>6, <2>1, <2>2 DEF Remembered
<1>14. TargetsCoverDispatches'
  <2>1. targets = SeqRange(plan.order) \cup {turns[i].agent : i \in DOMAIN turns} \cup queue \cup wave
    BY DEF GroupInv, TargetsCoverDispatches
  <2>2. targets' = SeqRange(plan.order) \cup {turns[i].agent : i \in DOMAIN turns}' \cup queue' \cup wave'
    BY <1>1, <1>4, <2>1
  <2>3. QED  BY <1>6, <2>2 DEF TargetsCoverDispatches
<1>15. ReportsLast'
  BY <1>1 DEF PlanDone, ReportsLast
<1>16. QED  BY <1>9, <1>10, <1>11, <1>12, <1>13, <1>14, <1>15 DEF GroupInv

\* What the log alone says stays true while no turn is added.
LEMMA LogKept ==
    ASSUME GroupInv, plan' = plan, turns' = turns
    PROVE  /\ PlannedTurns' /\ HandoffsAreAskedForOnce'
           /\ FollowsHandoffs' = FollowsHandoffs /\ Total(plan)' = Total(plan)
           /\ SeqRange(plan.order)' = SeqRange(plan.order)
           /\ \A a : Ran(a)' = Ran(a) /\ (AskedFor(a)' <=> AskedFor(a))
           /\ Succeeded' = Succeeded
           /\ {turns[i].agent : i \in DOMAIN turns}' = {turns[i].agent : i \in DOMAIN turns}
<1>1. \A a : Ran(a)' = Ran(a) /\ (AskedFor(a)' <=> AskedFor(a))
  BY DEF Ran, AskedFor
<1>2. SeqRange(plan.order)' = SeqRange(plan.order) /\ FollowsHandoffs' = FollowsHandoffs
  BY DEF SeqRange, FollowsHandoffs
<1>3. Succeeded' = Succeeded /\ Total(plan)' = Total(plan)
  BY DEF Succeeded, Total
<1>4. PlannedTurns'
  BY <1>3 DEF GroupInv, PlannedTurns
<1>5. HandoffsAreAskedForOnce'
  BY <1>1, <1>2 DEF GroupInv, HandoffsAreAskedForOnce, Ran
<1>6. QED  BY <1>1, <1>2, <1>3, <1>4, <1>5

LEMMA StartWaveStep == ASSUME GroupInv, StartWave PROVE GroupInv'
<1>1. /\ PlanDone /\ wave = {} /\ asked = {} /\ wave' = NextWave /\ queue' = queue \ NextWave
      /\ UNCHANGED <<plan, turns, queued, asked, targets, status>>
  BY DEF StartWave
<1>2. NextWave \subseteq queue
  BY DEF NextWave, Ready
<1>3. queue' \cup wave' = queue \cup wave /\ queue' \cap wave' = {}
  BY <1>1, <1>2
<1>4. /\ PlannedTurns' /\ HandoffsAreAskedForOnce'
      /\ FollowsHandoffs' = FollowsHandoffs /\ Total(plan)' = Total(plan)
      /\ SeqRange(plan.order)' = SeqRange(plan.order)
      /\ \A a : Ran(a)' = Ran(a) /\ (AskedFor(a)' <=> AskedFor(a))
      /\ Succeeded' = Succeeded
      /\ {turns[i].agent : i \in DOMAIN turns}' = {turns[i].agent : i \in DOMAIN turns}
  BY <1>1, LogKept
<1>5. TypeOK'
  BY <1>1, <1>2 DEF GroupInv, TypeOK
<1>6. Waiting'
  <2>1. \A a \in queue' \cup wave' :
           FollowsHandoffs /\ a \notin SeqRange(plan.order) /\ AskedFor(a) /\ Ran(a) = {}
    BY <1>3 DEF GroupInv, Waiting
  <2>2. Len(turns)' >= Total(plan)'
    BY <1>1, <1>4 DEF PlanDone
  <2>3. QED  BY <1>1, <1>3, <1>4, <2>1, <2>2 DEF Waiting
<1>7. Remembered'
  <2>1. queued' = SeqRange(plan.order) \cup queue' \cup wave' \cup {turns[i].agent : i \in DOMAIN turns}'
    BY <1>1, <1>3, <1>4 DEF GroupInv, Remembered
  <2>2. FollowsHandoffs => \A i \in Succeeded' : turns'[i].asks \subseteq queued' \cup asked'
    BY <1>1, <1>4 DEF GroupInv, Remembered
  <2>3. QED  BY <1>4, <2>1, <2>2 DEF Remembered
<1>8. TargetsCoverDispatches'
  <2>1. targets' = SeqRange(plan.order) \cup {turns[i].agent : i \in DOMAIN turns}' \cup queue' \cup wave'
    BY <1>1, <1>3, <1>4 DEF GroupInv, TargetsCoverDispatches
  <2>2. QED  BY <1>4, <2>1 DEF TargetsCoverDispatches
<1>9. ReportsLast'
  BY <1>1 DEF PlanDone, ReportsLast
<1>10. QED  BY <1>4, <1>5, <1>6, <1>7, <1>8, <1>9 DEF GroupInv

LEMMA EndWaveStep == ASSUME GroupInv, EndWave PROVE GroupInv'
<1>1. /\ PlanDone /\ wave = {} /\ asked' = {}
      /\ queue' = queue \cup Fresh(asked) /\ queued' = queued \cup Fresh(asked)
      /\ targets' = targets \cup queue'
      /\ UNCHANGED <<plan, turns, wave, status>>
  BY DEF EndWave
<1>2. asked \in SUBSET Agents
  BY DEF GroupInv, TypeOK
<1>3. /\ Fresh(asked) \subseteq Agents /\ Fresh(asked) \cap queued = {}
      /\ Fresh(asked) \subseteq asked /\ asked \subseteq queued \cup Fresh(asked)
      /\ \A a \in Fresh(asked) : a \notin SeqRange(plan.order) /\ Ran(a) = {}
      /\ SeqRange(plan.order) \subseteq queued /\ queue \subseteq queued
  BY <1>2, FreshOnes
<1>4. /\ PlannedTurns' /\ HandoffsAreAskedForOnce'
      /\ FollowsHandoffs' = FollowsHandoffs /\ Total(plan)' = Total(plan)
      /\ SeqRange(plan.order)' = SeqRange(plan.order)
      /\ \A a : Ran(a)' = Ran(a) /\ (AskedFor(a)' <=> AskedFor(a))
      /\ Succeeded' = Succeeded
      /\ {turns[i].agent : i \in DOMAIN turns}' = {turns[i].agent : i \in DOMAIN turns}
  BY <1>1, LogKept
<1>5. TypeOK'
  <2>1. queue \subseteq queued /\ queued \subseteq Agents /\ targets \subseteq Agents
    BY DEF GroupInv, TypeOK
  <2>2. queue' \in SUBSET queued' /\ queued' \in SUBSET Agents /\ targets' \in SUBSET Agents
    BY <1>1, <1>3, <2>1
  <2>3. plan' \in Plans /\ turns' \in Seq(Turns) /\ wave' \in SUBSET queued'
        /\ asked' \in SUBSET Agents /\ status' \in Statuses
    BY <1>1 DEF GroupInv, TypeOK
  <2>4. QED  BY <2>2, <2>3 DEF TypeOK
<1>6. Waiting'
  <2>1. ASSUME NEW a \in queue' \cup wave'
        PROVE  FollowsHandoffs /\ a \notin SeqRange(plan.order) /\ AskedFor(a) /\ Ran(a) = {}
    <3>1. CASE a \in queue
      BY <3>1 DEF GroupInv, Waiting
    <3>2. CASE a \in Fresh(asked)
      <4>1. a \in asked  BY <1>3, <3>2
      <4>2. FollowsHandoffs /\ AskedFor(a)  BY <4>1 DEF GroupInv, Waiting
      <4>3. QED  BY <1>3, <3>2, <4>2
    <3>3. QED  BY <1>1, <3>1, <3>2
  <2>2. QED  BY <1>1, <1>4, <2>1 DEF Waiting
<1>7. Remembered'
  <2>1. queued' = SeqRange(plan.order) \cup queue' \cup wave' \cup {turns[i].agent : i \in DOMAIN turns}'
    BY <1>1, <1>4 DEF GroupInv, Remembered
  <2>2. ASSUME FollowsHandoffs, NEW i \in Succeeded PROVE turns[i].asks \subseteq queued'
    <3>1. turns[i].asks \subseteq queued \cup asked
      BY <2>2 DEF GroupInv, Remembered
    <3>2. QED  BY <1>1, <1>3, <3>1
  <2>3. QED  BY <1>1, <1>4, <2>1, <2>2 DEF Remembered
<1>8. TargetsCoverDispatches'
  <2>1. targets' = SeqRange(plan.order) \cup {turns[i].agent : i \in DOMAIN turns}' \cup queue' \cup wave'
    BY <1>1, <1>4 DEF GroupInv, TargetsCoverDispatches
  <2>2. QED  BY <1>4, <2>1 DEF TargetsCoverDispatches
<1>9. ReportsLast'
  BY <1>1 DEF PlanDone, ReportsLast
<1>10. QED  BY <1>4, <1>5, <1>6, <1>7, <1>8, <1>9 DEF GroupInv

-----------------------------------------------------------------------------
(***************************************************************************)
(* The end, and all steps together.                                        *)
(***************************************************************************)
\* A report changes nothing but the status, and comes when everything is done.
LEMMA StatusStep ==
    ASSUME GroupInv, UNCHANGED <<plan, turns, queue, queued, wave, asked, targets>>,
           status' \in Statuses,
           status' \in {"partial_failure", "aggregated"} => AllDispatched \/ status = "partial_failure"
    PROVE  GroupInv'
<1>1. /\ PlannedTurns' /\ HandoffsAreAskedForOnce'
      /\ FollowsHandoffs' = FollowsHandoffs /\ Total(plan)' = Total(plan)
      /\ SeqRange(plan.order)' = SeqRange(plan.order)
      /\ \A a : Ran(a)' = Ran(a) /\ (AskedFor(a)' <=> AskedFor(a))
      /\ Succeeded' = Succeeded
      /\ {turns[i].agent : i \in DOMAIN turns}' = {turns[i].agent : i \in DOMAIN turns}
  BY LogKept
<1>2. TypeOK'  BY DEF GroupInv, TypeOK
<1>3. Waiting'  BY <1>1 DEF GroupInv, Waiting
<1>4. Remembered'  BY <1>1 DEF GroupInv, Remembered
<1>5. TargetsCoverDispatches'  BY <1>1 DEF GroupInv, TargetsCoverDispatches
<1>6. ReportsLast'
  <2>1. AllDispatched \/ status = "partial_failure" =>
            /\ plan.order # << >> /\ Len(turns) >= Total(plan)
            /\ queue = {} /\ wave = {} /\ asked = {}
    BY DEF GroupInv, ReportsLast, AllDispatched, PlanDone
  <2>2. QED  BY <1>1, <2>1 DEF ReportsLast
<1>7. QED  BY <1>1, <1>2, <1>3, <1>4, <1>5, <1>6 DEF GroupInv

LEMMA InvInit == ASSUME OrchestratorAssumption, Init PROVE GroupInv
<1>1. /\ plan \in Plans /\ turns = << >> /\ queue = {} /\ queued = SeqRange(plan.order)
      /\ wave = {} /\ asked = {} /\ targets = SeqRange(plan.order) /\ status = "running"
  BY DEF Init
<1>2. SeqRange(plan.order) \subseteq Agents
  BY <1>1, PlanFacts, OrderFacts
<1>3. DOMAIN turns = {} /\ turns \in Seq(Turns) /\ Succeeded = {}
  BY <1>1 DEF Succeeded
<1>4. TypeOK  BY <1>1, <1>2, <1>3 DEF TypeOK, Statuses
<1>5. PlannedTurns /\ HandoffsAreAskedForOnce
  BY <1>3 DEF PlannedTurns, HandoffsAreAskedForOnce
<1>6. Waiting  BY <1>1 DEF Waiting
<1>7. Remembered  BY <1>1, <1>3 DEF Remembered
<1>8. TargetsCoverDispatches  BY <1>1, <1>3 DEF TargetsCoverDispatches
<1>9. ReportsLast  BY <1>1 DEF ReportsLast
<1>10. QED  BY <1>4, <1>5, <1>6, <1>7, <1>8, <1>9 DEF GroupInv

LEMMA InvStep == ASSUME OrchestratorAssumption, GroupInv, [Next]_vars PROVE GroupInv'
<1>1. CASE NoTargets
  BY <1>1, StatusStep DEF NoTargets, Statuses
<1>2. CASE \E asks \in Requests : PlannedSucceeds(asks)
  BY <1>2, PlannedSucceedsStep
<1>3. CASE PlannedFails
  BY <1>3, PlannedFailsStep
<1>4. CASE StartWave
  BY <1>4, StartWaveStep
<1>5. CASE \E a \in Agents, asks \in Requests : HandoffTurn(a, TRUE, asks)
  <2>1. PICK a \in Agents, asks \in SUBSET Agents : HandoffTurn(a, TRUE, asks)
    BY <1>5 DEF Requests
  <2>2. TRUE \in BOOLEAN  OBVIOUS
  <2>3. QED  BY <2>1, <2>2, HandoffStep
<1>6. CASE \E a \in Agents : HandoffTurn(a, FALSE, {})
  <2>1. PICK a \in Agents : HandoffTurn(a, FALSE, {})
    BY <1>6
  <2>2. FALSE \in BOOLEAN /\ {} \in SUBSET Agents  OBVIOUS
  <2>3. QED  BY <2>1, <2>2, HandoffStep
<1>7. CASE EndWave
  BY <1>7, EndWaveStep
<1>8. CASE ReportFailures
  BY <1>8, StatusStep DEF ReportFailures, Statuses
<1>9. CASE Aggregate
  BY <1>9, StatusStep DEF Aggregate, Reported, Statuses
<1>10. CASE AggregateFails
  BY <1>10, StatusStep DEF AggregateFails, Statuses
<1>11. CASE UNCHANGED vars
  <2>1. /\ UNCHANGED <<plan, turns, queue, queued, wave, asked, targets>> /\ status' = status
    BY <1>11 DEF vars
  <2>2. TypeOK'  BY <2>1 DEF GroupInv, TypeOK
  <2>3. ReportsLast'  BY <2>1 DEF GroupInv, ReportsLast, Total
  <2>4. Waiting' /\ Remembered' /\ TargetsCoverDispatches'
    <3>1. /\ FollowsHandoffs' = FollowsHandoffs /\ Total(plan)' = Total(plan)
          /\ SeqRange(plan.order)' = SeqRange(plan.order)
          /\ \A a : Ran(a)' = Ran(a) /\ (AskedFor(a)' <=> AskedFor(a))
          /\ Succeeded' = Succeeded
          /\ {turns[i].agent : i \in DOMAIN turns}' = {turns[i].agent : i \in DOMAIN turns}
      BY <2>1, LogKept
    <3>2. Waiting'  BY <2>1, <3>1 DEF GroupInv, Waiting
    <3>3. Remembered'  BY <2>1, <3>1 DEF GroupInv, Remembered
    <3>4. TargetsCoverDispatches'  BY <2>1, <3>1 DEF GroupInv, TargetsCoverDispatches
    <3>5. QED  BY <3>2, <3>3, <3>4
  <2>5. QED  BY <2>1, <2>2, <2>3, <2>4, LogKept DEF GroupInv
<1>12. QED
  BY <1>1, <1>2, <1>3, <1>4, <1>5, <1>6, <1>7, <1>8, <1>9, <1>10, <1>11 DEF Next, Dispatch

\* The seven parts hold together in every reachable state.
LEMMA GroupInvariance == ASSUME OrchestratorAssumption PROVE WorkflowSpec => []GroupInv
<1>1. WorkflowInit => GroupInv  BY InvInit DEF WorkflowInit
<1>2. [WorkflowNext]_allVars => [Next]_vars
  BY DEF WorkflowNext, allVars, GroupStep, DeployStep, VisualStep
<1>3. GroupInv /\ [WorkflowNext]_allVars => GroupInv'  BY <1>2, InvStep
<1>4. QED  BY <1>1, <1>3, PTL DEF WorkflowSpec

-----------------------------------------------------------------------------
(***************************************************************************)
(* What follows.                                                           *)
(***************************************************************************)
\* However many agents there are, whatever they declare and whatever they ask of each
\* other: turns outside the plan were asked for and come once, the announced total covers
\* them, and the plan lets producers go first whenever that is possible.
THEOREM TurnsStayAccountedFor ==
    ASSUME OrchestratorAssumption PROVE WorkflowSpec => []TurnsAreAccountedFor
<1>1. GroupInv => TurnsAreAccountedFor
  BY PlansAreGood DEF GroupInv, TypeOK, TurnsAreAccountedFor
<1>2. QED  BY <1>1, GroupInvariance, PTL

\* A workflow that reports has served every request a successful turn made and has given
\* the agents of the plan exactly the turns of the plan.
THEOREM RequestsStayServed ==
    ASSUME OrchestratorAssumption PROVE WorkflowSpec => []RequestsAreServed
<1>1. GroupInv => RequestsAreServed
  <2> SUFFICES ASSUME GroupInv, status \in {"partial_failure", "aggregated"}
               PROVE  /\ FollowsHandoffs =>
                            \A i \in Succeeded : \A a \in turns[i].asks : Ran(a) # {}
                      /\ \A i \in 1..Total(plan) :
                            turns[i].agent = plan.order[((i - 1) % Len(plan.order)) + 1]
    BY DEF RequestsAreServed
  <2>1. /\ plan.order # << >> /\ Len(turns) >= Total(plan)
        /\ queue = {} /\ wave = {} /\ asked = {}
    BY DEF GroupInv, ReportsLast
  <2>2. /\ plan.order \in Orders /\ Total(plan) \in Nat
        /\ plan.steps \in Nat
        /\ plan.steps = 0 => Len(plan.order) <= Total(plan)
    BY PlanFacts DEF GroupInv, TypeOK
  <2>3. Len(turns) \in Nat /\ DOMAIN turns = 1..Len(turns)
    BY DEF GroupInv, TypeOK
  <2>4. \A i \in 1..Total(plan) :
            turns[i].agent = plan.order[((i - 1) % Len(plan.order)) + 1]
    <3>1. \A i \in 1..Total(plan) : i \in DOMAIN turns /\ i <= Total(plan)
      BY <2>1, <2>2, <2>3
    <3>2. PlannedTurns  BY DEF GroupInv
    <3>3. QED  BY <3>1, <3>2 DEF PlannedTurns
  <2>5. ASSUME FollowsHandoffs, NEW a \in SeqRange(plan.order) PROVE Ran(a) # {}
    <3>1. PICK k \in DOMAIN plan.order : plan.order[k] = a
      BY DEF SeqRange
    <3>2. Len(plan.order) \in Nat /\ k \in 1..Len(plan.order)
      BY <2>2, <3>1, OrderFacts
    <3>3. Len(plan.order) <= Total(plan)
      BY <2>2, <2>5 DEF FollowsHandoffs
    <3>4. k \in 1..Total(plan) /\ k \in DOMAIN turns
      BY <2>1, <2>2, <2>3, <3>2, <3>3
    <3>5. ((k - 1) % Len(plan.order)) + 1 = k
      <4>1. ASSUME NEW n \in Nat, NEW d \in 0..(n - 1) PROVE d % n = d
        OBVIOUS
      <4>2. k - 1 \in 0..(Len(plan.order) - 1)  BY <3>2
      <4>3. (k - 1) % Len(plan.order) = k - 1  BY <3>2, <4>1, <4>2
      <4>4. QED  BY <3>2, <4>3
    <3>6. turns[k].agent = a
      BY <2>4, <3>1, <3>4, <3>5
    <3>7. QED  BY <3>4, <3>6 DEF Ran
  <2>6. ASSUME FollowsHandoffs, NEW i \in Succeeded, NEW a \in turns[i].asks PROVE Ran(a) # {}
    <3>1. a \in queued
      BY <2>1, <2>6 DEF GroupInv, Remembered
    <3>2. a \in SeqRange(plan.order) \/ a \in {turns[j].agent : j \in DOMAIN turns}
      BY <2>1, <3>1 DEF GroupInv, Remembered
    <3>3. CASE a \in {turns[j].agent : j \in DOMAIN turns}
      BY <3>3 DEF Ran
    <3>4. QED  BY <2>5, <2>6, <3>2, <3>3
  <2>7. QED  BY <2>4, <2>6
<1>2. QED  BY <1>1, GroupInvariance, PTL

-----------------------------------------------------------------------------
(***************************************************************************)
(* Deployments: the inductive invariant.                                   *)
(***************************************************************************)
IsRowOf(i, d) == i \in DOMAIN rows /\ rows[i].by = d

\* A deployment is published where its target publishes.
UrlFits(url, d) ==
    /\ target.provider => Deploy!SitesOf(d) # {}
    /\ url[1] = "site" => url[2] \in Deploy!SitesOf(d)

Closing == {"finalize", "done"}

\* What a workflow knows of its row and of its site, stage by stage.
RunsKnow ==
    \A d \in Dispatches :
        /\ run[d].stage \notin Deploy!Activities => run[d].attempt = "started"
        /\ run[d].stage = "prepare" /\ run[d].attempt = "acted" => IsRowOf(run[d].result, d)
        /\ run[d].stage \in {"deploy"} \cup Closing => IsRowOf(run[d].row, d)
        /\ run[d].stage = "deploy" /\ run[d].attempt = "acted" => UrlFits(run[d].resultUrl, d)
        /\ run[d].stage \in Closing => UrlFits(run[d].url, d)

\* A late attempt to finalize writes what the one after it writes.
LateKnow ==
    \A l \in late : l.activity = "finalize" =>
        run[l.by].stage \in Closing /\ l.row = run[l.by].row /\ l.url = run[l.by].url

RowsFit ==
    \A i \in DOMAIN rows :
        /\ rows[i].status = "succeeded" =>
              run[rows[i].by].stage \in Closing /\ i = run[rows[i].by].row
        /\ rows[i].url[1] = "site" => rows[i].url[2] \in Deploy!SitesOf(rows[i].by)

\* A request and its workflow go together; the row holds what the workflow has written
\* until the request provisions an address.
CallsFollow ==
    \A d \in Dispatches :
        /\ call[d].at = "idle" => run[d].stage = "idle"
        /\ call[d].at \in {"provision", "answered"} => run[d].stage = "done"
        /\ (\/ run[d].stage = "finalize" /\ run[d].attempt = "acted"
            \/ run[d].stage = "done" /\ call[d].at = "awaiting")
           => rows[run[d].row].deleted \/ rows[run[d].row].url = run[d].url

\* The attempts of an activity that have yet to act once more.
YetToAct(d, a) ==
    \/ run[d].stage = "idle"
    \/ run[d].stage = "prepare" /\ a = "deploy"
    \/ run[d].stage = a /\ run[d].attempt = "started"
LateOf(d, a) == {l \in late : l.by = d /\ l.activity = a}
MayAct(d, a) == Cardinality(LateOf(d, a)) + (IF YetToAct(d, a) THEN 1 ELSE 0)

CountsFit ==
    /\ IsFiniteSet(late)
    /\ \A d \in Dispatches :
          /\ Cardinality(Deploy!RowsOf(d)) + MayAct(d, "prepare") <= retries[d]["prepare"] + 1
          /\ Cardinality(Deploy!SitesOf(d)) + MayAct(d, "deploy") <= retries[d]["deploy"] + 1
          /\ \A a \in Deploy!Activities : retries[d][a] <= faults

DeployInv ==
    /\ Deploy!TypeOK /\ RunsKnow /\ LateKnow /\ RowsFit /\ CallsFollow /\ CountsFit
    /\ Deploy!ToldPreviewIsCurrent

-----------------------------------------------------------------------------
LEMMA DeployBasics ==
    ASSUME Deploy!TypeOK
    PROVE  /\ Len(rows) \in Nat /\ DOMAIN rows = 1..Len(rows)
           /\ \A i \in DOMAIN rows : rows[i] \in Deploy!Row /\ rows[i].by \in Dispatches
           /\ Len(sites) \in Nat /\ DOMAIN sites = 1..Len(sites)
           /\ \A d \in Dispatches : IsFiniteSet(Deploy!RowsOf(d)) /\ IsFiniteSet(Deploy!SitesOf(d))
<1>1. /\ Len(rows) \in Nat /\ DOMAIN rows = 1..Len(rows)
      /\ \A i \in DOMAIN rows : rows[i] \in Deploy!Row
      /\ Len(sites) \in Nat /\ DOMAIN sites = 1..Len(sites)
  BY DEF Deploy!TypeOK
<1>2. \A i \in DOMAIN rows : rows[i].by \in Dispatches
  BY <1>1 DEF Deploy!Row
<1>3. IsFiniteSet(1..Len(rows)) /\ IsFiniteSet(1..Len(sites))
  BY <1>1, FS_Interval
<1>4. ASSUME NEW d \in Dispatches
      PROVE  IsFiniteSet(Deploy!RowsOf(d)) /\ IsFiniteSet(Deploy!SitesOf(d))
  <2>1. Deploy!RowsOf(d) \subseteq 1..Len(rows)  BY <1>1 DEF Deploy!RowsOf
  <2>2. Deploy!SitesOf(d) \subseteq 1..Len(sites)  BY <1>1 DEF Deploy!SitesOf
  <2>3. QED  BY <1>3, <2>1, <2>2, FS_Subset
<1>5. QED  BY <1>1, <1>2, <1>4

LEMMA LateIsFinite ==
    ASSUME IsFiniteSet(late), NEW d, NEW a
    PROVE  IsFiniteSet(LateOf(d, a)) /\ Cardinality(LateOf(d, a)) \in Nat
<1>1. LateOf(d, a) \subseteq late  BY DEF LateOf
<1>2. QED  BY <1>1, FS_Subset, FS_CardinalityType

\* Rows that are written over stay the rows of their workflows.
RowsStay ==
    /\ DOMAIN rows' = DOMAIN rows
    /\ \A i \in DOMAIN rows : rows'[i].by = rows[i].by /\ (rows[i].deleted => rows'[i].deleted)

\* What no step takes away: rows and sites.
LEMMA CountsStay ==
    ASSUME DeployInv, RowsStay, sites' = sites,
           late' = late, retries' = retries, faults' >= faults, faults' \in Nat,
           \A d \in Dispatches : \A a \in {"prepare", "deploy"} : YetToAct(d, a)' => YetToAct(d, a)
    PROVE  CountsFit'
<1>1. ASSUME NEW d \in Dispatches
      PROVE  /\ Deploy!RowsOf(d)' = Deploy!RowsOf(d) /\ Deploy!SitesOf(d)' = Deploy!SitesOf(d)
             /\ \A a : LateOf(d, a)' = LateOf(d, a)
  BY DEF RowsStay, Deploy!RowsOf, Deploy!SitesOf, LateOf
<1>2. ASSUME NEW d \in Dispatches, NEW a \in {"prepare", "deploy"}
      PROVE  /\ MayAct(d, a) \in Nat /\ MayAct(d, a)' \in Nat /\ MayAct(d, a)' <= MayAct(d, a)
             /\ retries[d][a] \in Nat
  <2>1. Cardinality(LateOf(d, a)) \in Nat  BY LateIsFinite DEF DeployInv, CountsFit
  <2>2. retries[d][a] \in Nat  BY DEF DeployInv, Deploy!TypeOK, Deploy!Activities
  <2>3. QED  BY <1>1, <2>1, <2>2 DEF MayAct
<1>3. ASSUME NEW d \in Dispatches
      PROVE  Cardinality(Deploy!RowsOf(d)) \in Nat /\ Cardinality(Deploy!SitesOf(d)) \in Nat
  BY DeployBasics, FS_CardinalityType DEF DeployInv
<1>4. faults \in Nat  BY DEF DeployInv, Deploy!TypeOK
<1>5. /\ \A d \in Dispatches :
          /\ Cardinality(Deploy!RowsOf(d)) + MayAct(d, "prepare") <= retries[d]["prepare"] + 1
          /\ Cardinality(Deploy!SitesOf(d)) + MayAct(d, "deploy") <= retries[d]["deploy"] + 1
          /\ \A a \in Deploy!Activities : retries[d][a] <= faults
      /\ "prepare" \in Deploy!Activities /\ "deploy" \in Deploy!Activities
      /\ IsFiniteSet(late)
  BY DEF DeployInv, CountsFit, Deploy!Activities
<1>6. ASSUME NEW d \in Dispatches
      PROVE  /\ Cardinality(Deploy!RowsOf(d)') + MayAct(d, "prepare")' <= retries[d]["prepare"] + 1
             /\ Cardinality(Deploy!SitesOf(d)') + MayAct(d, "deploy")' <= retries[d]["deploy"] + 1
  BY <1>1, <1>2, <1>3, <1>5
<1>7. \A d \in Dispatches : \A a \in Deploy!Activities : retries[d][a] <= faults'
  <2>1. \A d \in Dispatches : \A a \in Deploy!Activities : retries[d][a] \in Nat
    BY DEF DeployInv, Deploy!TypeOK
  <2>2. QED  BY <1>4, <1>5, <2>1
<1>8. QED  BY <1>5, <1>6, <1>7 DEF CountsFit

\* Whatever is written over the addresses of rows, if it is no site.
LEMMA RewritingKeeps ==
    ASSUME DeployInv, RowsStay, UNCHANGED <<target, sites, run, late, retries>>,
           faults' \in Nat, faults' >= faults,
           \A i \in DOMAIN rows : /\ rows'[i].status = rows[i].status
                                  /\ rows'[i].url[1] = "site" => rows'[i].url = rows[i].url
    PROVE  RunsKnow' /\ LateKnow' /\ RowsFit' /\ CountsFit'
<1>1. \A d \in Dispatches : Deploy!SitesOf(d)' = Deploy!SitesOf(d)
  BY DEF Deploy!SitesOf
<1>2. \A d \in Dispatches : \A i : IsRowOf(i, d) => IsRowOf(i, d)'
  BY DEF IsRowOf, RowsStay
<1>3. \A d \in Dispatches : \A u : UrlFits(u, d) => UrlFits(u, d)'
  BY <1>1 DEF UrlFits
<1>4. RunsKnow'
  BY <1>2, <1>3 DEF RunsKnow, DeployInv
<1>5. LateKnow'
  BY DEF LateKnow, DeployInv
<1>6. RowsFit'
  BY <1>1, DeployBasics DEF RowsFit, DeployInv, RowsStay
<1>7. \A d \in Dispatches : \A a \in {"prepare", "deploy"} : YetToAct(d, a)' => YetToAct(d, a)
  BY DEF YetToAct
<1>8. CountsFit'
  BY <1>7, CountsStay
<1>9. QED  BY <1>4, <1>5, <1>6, <1>8

\* The row of a workflow that has prepared one.
LEMMA DoneHasRow ==
    ASSUME DeployInv, NEW d \in Dispatches, run[d].stage \in {"deploy"} \cup Closing
    PROVE  /\ run[d].row \in DOMAIN rows /\ rows[run[d].row].by = d
           /\ \A e \in Dispatches : e # d /\ run[e].stage \in {"deploy"} \cup Closing =>
                 run[e].row # run[d].row
  BY DEF DeployInv, RunsKnow, IsRowOf

LEMMA AwaitStep ==
    ASSUME DeployInv, NEW d \in Dispatches, Deploy!Await(d)
    PROVE  DeployInv'
<1>1. /\ call[d].at = "awaiting" /\ run[d].stage = "done"
      /\ UNCHANGED <<target, artifact, rows, sites, run, late, undone, retries, tokens,
                     rotations, faults>>
  BY DEF Deploy!Await, Deploy!Working
<1>2. PICK c : /\ call' = [call EXCEPT ![d] = c]
               /\ \/ /\ target.kind = "archive" \/ run[d].url # Deploy!NoUrl
                     /\ c = [at |-> "answered", url |-> run[d].url]
                  \/ c = [at |-> "provision", url |-> Deploy!NoUrl]
  BY DEF Deploy!Await
<1>3. c \in Deploy!Call
  <2>1. run[d].url \in Deploy!Urls /\ Deploy!NoUrl \in Deploy!Urls
    BY DEF DeployInv, Deploy!TypeOK, Deploy!Run, Deploy!Urls
  <2>2. QED  BY <1>2, <2>1 DEF Deploy!Call
<1>4. /\ call'[d] = c
      /\ \A e \in Dispatches : e # d => call'[e] = call[e]
      /\ call' \in [Dispatches -> Deploy!Call]
  BY <1>2, <1>3 DEF DeployInv, Deploy!TypeOK
<1>5. Deploy!TypeOK'
  BY <1>1, <1>4 DEF DeployInv, Deploy!TypeOK
<1>6. RowsStay /\ faults \in Nat
  BY <1>1 DEF RowsStay, DeployInv, Deploy!TypeOK
<1>7. RunsKnow' /\ LateKnow' /\ RowsFit' /\ CountsFit'
  BY <1>1, <1>6, RewritingKeeps
<1>8. CallsFollow'
  BY <1>1, <1>2, <1>4 DEF DeployInv, CallsFollow
<1>9. Deploy!ToldPreviewIsCurrent'
  <2>1. rows[run[d].row].deleted \/ rows[run[d].row].url = run[d].url
    BY <1>1 DEF DeployInv, CallsFollow
  <2>2. SUFFICES ASSUME NEW e \in Dispatches, call'[e].at = "answered", ~rows[run[e].row].deleted
                 PROVE  /\ target.kind = "page" => call'[e].url # Deploy!NoUrl
                        /\ run[e].row \notin undone => rows[run[e].row].url = call'[e].url
    BY <1>1 DEF Deploy!ToldPreviewIsCurrent
  <2>3. CASE e = d
    BY <1>1, <1>2, <1>4, <2>1, <2>2, <2>3
  <2>4. CASE e # d
    BY <1>4, <2>2, <2>4 DEF DeployInv, Deploy!ToldPreviewIsCurrent
  <2>5. QED  BY <2>3, <2>4
<1>10. QED  BY <1>5, <1>7, <1>8, <1>9 DEF DeployInv

\* A call that neither answers nor awaits any more.
LEMMA EndedCallStep ==
    ASSUME DeployInv, NEW d \in Dispatches, NEW at \in {"refused", "died"},
           call' = [call EXCEPT ![d].at = at],
           UNCHANGED <<target, artifact, rows, sites, run, late, undone, retries, rotations>>,
           tokens' \in Nat, faults' \in 0..MaxFaults, faults' >= faults
    PROVE  DeployInv'
<1>1. /\ call'[d].at = at
      /\ \A e \in Dispatches : e # d => call'[e] = call[e]
      /\ call' \in [Dispatches -> Deploy!Call]
  BY DEF DeployInv, Deploy!TypeOK, Deploy!Call
<1>2. Deploy!TypeOK'
  BY <1>1 DEF DeployInv, Deploy!TypeOK
<1>3. RowsStay
  BY DEF RowsStay
<1>4. RunsKnow' /\ LateKnow' /\ RowsFit' /\ CountsFit'
  BY <1>2, <1>3, RewritingKeeps DEF Deploy!TypeOK
<1>5. CallsFollow'
  BY <1>1 DEF DeployInv, CallsFollow
<1>6. Deploy!ToldPreviewIsCurrent'
  BY <1>1 DEF DeployInv, Deploy!ToldPreviewIsCurrent
<1>7. QED  BY <1>2, <1>4, <1>5, <1>6 DEF DeployInv

\* The row of d gets a new address of the preview router, and its owner is told.
LEMMA AddressStep ==
    ASSUME DeployInv, NEW d \in Dispatches, run[d].stage = "done", NEW n \in Nat,
           rows' = [rows EXCEPT ![run[d].row].url = Deploy!TokenUrl(n)],
           call' \in [Dispatches -> Deploy!Call],
           call'[d] = [at |-> "answered", url |-> Deploy!TokenUrl(n)],
           \A e \in Dispatches : e # d => call'[e] = call[e],
           UNCHANGED <<target, artifact, sites, run, late, undone, retries, faults>>,
           tokens' \in Nat, rotations' \in 0..MaxRotations
    PROVE  DeployInv'
<1> DEFINE k == run[d].row  u == Deploy!TokenUrl(n)
<1>1. k \in DOMAIN rows /\ rows[k].by = d
  BY DoneHasRow DEF Closing
<1>2. u \in Deploy!Urls /\ u # Deploy!NoUrl /\ u[1] # "site"
  BY DEF Deploy!TokenUrl, Deploy!Urls, Deploy!NoUrl
<1> HIDE DEF u
<1>3. /\ rows' = [rows EXCEPT ![k].url = u]
      /\ rows \in Seq(Deploy!Row) /\ rows[k] \in Deploy!Row
  BY <1>1, DeployBasics DEF u, DeployInv, Deploy!TypeOK
<1> DEFINE w == [rows[k] EXCEPT !.url = u]
<1>4. w \in Deploy!Row /\ w.by = rows[k].by /\ w.deleted = rows[k].deleted /\ w.url = u /\ w.status = rows[k].status
  BY <1>2, <1>3 DEF Deploy!Row
<1>5. rows' = [rows EXCEPT ![k] = w]
  BY <1>3
<1> HIDE DEF w
<1>6. /\ rows' \in Seq(Deploy!Row) /\ DOMAIN rows' = DOMAIN rows /\ rows'[k] = w
      /\ \A i \in DOMAIN rows : i # k => rows'[i] = rows[i]
  BY <1>1, <1>3, <1>4, <1>5
<1>7. RowsStay
  BY <1>4, <1>6 DEF RowsStay
<1>8. Deploy!TypeOK'
  BY <1>6 DEF DeployInv, Deploy!TypeOK
<1>9. \A i \in DOMAIN rows : /\ rows'[i].status = rows[i].status
                             /\ rows'[i].url[1] = "site" => rows'[i].url = rows[i].url
  BY <1>2, <1>4, <1>6
<1>10. RunsKnow' /\ LateKnow' /\ RowsFit' /\ CountsFit'
  BY <1>7, <1>8, <1>9, RewritingKeeps DEF DeployInv, Deploy!TypeOK
<1>11. \A e \in Dispatches : e # d /\ run[e].stage \in Closing => run[e].row # k /\ run[e].row \in DOMAIN rows
  BY <1>1, DoneHasRow DEF Closing
<1>12. CallsFollow'
  BY <1>6, <1>11, SMTT(60) DEF DeployInv, CallsFollow, Closing
<1>13. Deploy!ToldPreviewIsCurrent'
  <2>1. SUFFICES ASSUME NEW e \in Dispatches, call'[e].at = "answered", ~rows'[run[e].row].deleted
                 PROVE  /\ target.kind = "page" => call'[e].url # Deploy!NoUrl
                        /\ run[e].row \notin undone => rows'[run[e].row].url = call'[e].url
    BY DEF Deploy!ToldPreviewIsCurrent
  <2>2. CASE e = d
    BY <1>2, <1>4, <1>6, <2>2 DEF u
  <2>3. CASE e # d
    <3>1. run[e].stage = "done" /\ call[e].at = "answered" /\ call'[e] = call[e]
      BY <2>1, <2>3 DEF DeployInv, CallsFollow
    <3>2. run[e].row # k /\ run[e].row \in DOMAIN rows
      BY <1>11, <2>3, <3>1 DEF Closing
    <3>3. QED  BY <1>6, <2>1, <3>1, <3>2 DEF DeployInv, Deploy!ToldPreviewIsCurrent
  <2>4. QED  BY <2>2, <2>3
<1>14. QED  BY <1>8, <1>10, <1>12, <1>13 DEF DeployInv
LEMMA RequestStep ==
    ASSUME DeployInv, NEW d \in Dispatches,
           Deploy!Await(d) \/ Deploy!Provision(d) \/ Deploy!Rotate(d) \/ Deploy!Die(d)
    PROVE  DeployInv'
<1>1. CASE Deploy!Await(d)
  BY <1>1, AwaitStep
<1>2. tokens \in Nat /\ rotations \in 0..MaxRotations /\ faults \in 0..MaxFaults /\ faults \in Nat
  BY DEF DeployInv, Deploy!TypeOK
<1>3. CASE Deploy!Provision(d)
  <2>1. /\ call[d].at = "provision" /\ run[d].stage = "done"
        /\ tokens' = tokens + 1
        /\ UNCHANGED <<target, artifact, sites, run, late, undone, retries, rotations, faults>>
    BY <1>3 DEF Deploy!Provision, Deploy!Working, DeployInv, CallsFollow
  <2>2. CASE rows[run[d].row].deleted
    <3>1. call' = [call EXCEPT ![d].at = "refused"] /\ UNCHANGED rows
      BY <1>3, <2>2 DEF Deploy!Provision
    <3>2. "refused" \in {"refused", "died"} /\ tokens' \in Nat /\ faults' \in 0..MaxFaults /\ faults' >= faults
      BY <1>2, <2>1
    <3>3. UNCHANGED <<target, artifact, rows, sites, run, late, undone, retries, rotations>>
      BY <2>1, <3>1
    <3>4. QED  BY <3>1, <3>2, <3>3, EndedCallStep
  <2>3. CASE ~rows[run[d].row].deleted
    <3> DEFINE c == [at |-> "answered", url |-> Deploy!TokenUrl(tokens + 1)]
    <3>1. /\ rows' = [rows EXCEPT ![run[d].row].url = Deploy!TokenUrl(tokens + 1)]
          /\ call' = [call EXCEPT ![d] = c]
      BY <1>3, <2>3 DEF Deploy!Provision, Deploy!WithUrl
    <3>2. c \in Deploy!Call
      BY <1>2 DEF Deploy!Call, Deploy!Urls, Deploy!TokenUrl
    <3>3. /\ call' \in [Dispatches -> Deploy!Call] /\ call'[d] = c
          /\ \A e \in Dispatches : e # d => call'[e] = call[e]
      BY <3>1, <3>2 DEF DeployInv, Deploy!TypeOK
    <3>4. tokens + 1 \in Nat /\ tokens' \in Nat /\ rotations' \in 0..MaxRotations
      BY <1>2, <2>1
    <3>5. UNCHANGED <<target, artifact, sites, run, late, undone, retries, faults>>
      BY <2>1
    <3> QED  BY <2>1, <3>1, <3>3, <3>4, <3>5, AddressStep
  <2>4. QED  BY <2>2, <2>3
<1>4. CASE Deploy!Rotate(d)
  <2>1. /\ call[d].at = "answered" /\ run[d].stage = "done"
        /\ tokens' = tokens + 1 /\ rotations' \in 0..MaxRotations
        /\ UNCHANGED <<target, artifact, sites, run, late, undone, retries, faults>>
        /\ rows' = [rows EXCEPT ![run[d].row].url = Deploy!TokenUrl(tokens + 1)]
        /\ call' = [call EXCEPT ![d].url = Deploy!TokenUrl(tokens + 1)]
    BY <1>2, <1>4, DeployConstants
       DEF Deploy!Rotate, Deploy!Working, Deploy!WithUrl, DeployInv, CallsFollow, Deploy!DeploymentsAssumption
  <2>2. Deploy!TokenUrl(tokens + 1) \in Deploy!Urls
    BY <1>2 DEF Deploy!Urls, Deploy!TokenUrl
  <2> DEFINE c == [at |-> "answered", url |-> Deploy!TokenUrl(tokens + 1)]
  <2>3. /\ call' \in [Dispatches -> Deploy!Call] /\ call'[d] = c
        /\ \A e \in Dispatches : e # d => call'[e] = call[e]
    BY <2>1, <2>2 DEF DeployInv, Deploy!TypeOK, Deploy!Call
  <2>4. tokens + 1 \in Nat /\ tokens' \in Nat
    BY <1>2, <2>1
  <2>5. UNCHANGED <<target, artifact, sites, run, late, undone, retries, faults>>
    BY <2>1
  <2> QED  BY <2>1, <2>3, <2>4, <2>5, AddressStep
<1>5. CASE Deploy!Die(d)
  <2>1. /\ call' = [call EXCEPT ![d].at = "died"]
        /\ faults' = faults + 1 /\ faults' \in 0..MaxFaults
        /\ UNCHANGED <<target, artifact, rows, sites, run, late, undone, retries, tokens, rotations>>
    BY <1>2, <1>5, DeployConstants DEF Deploy!Die, Deploy!Working, Deploy!DeploymentsAssumption
  <2>2. "died" \in {"refused", "died"} /\ tokens' \in Nat /\ faults' >= faults
    BY <1>2, <2>1
  <2>3. UNCHANGED <<target, artifact, rows, sites, run, late, undone, retries, rotations>>
    BY <2>1
  <2>4. QED  BY <2>1, <2>2, <2>3, EndedCallStep
<1>6. QED  BY <1>1, <1>3, <1>4, <1>5

LEMMA DeleteStep ==
    ASSUME DeployInv, Deploy!DeleteArtifact
    PROVE  DeployInv'
<1>1. /\ artifact' = FALSE
      /\ rows' = [i \in DOMAIN rows |-> [rows[i] EXCEPT !.deleted = TRUE]]
      /\ UNCHANGED <<target, sites, run, late, call, tokens, undone, retries, rotations, faults>>
  BY DEF Deploy!DeleteArtifact
<1>2. \A i \in DOMAIN rows : [rows[i] EXCEPT !.deleted = TRUE] \in Deploy!Row
  BY DeployBasics DEF Deploy!Row, DeployInv
<1>3. /\ DOMAIN rows' = DOMAIN rows
      /\ \A i \in DOMAIN rows : /\ rows'[i].by = rows[i].by /\ rows'[i].status = rows[i].status
                                /\ rows'[i].url = rows[i].url /\ rows'[i].deleted
  BY <1>1, DeployBasics DEF Deploy!Row, DeployInv
<1>4. rows' \in Seq(Deploy!Row)
  BY <1>1, <1>2, DeployBasics DEF DeployInv
<1>5. Deploy!TypeOK'
  BY <1>1, <1>3, <1>4 DEF DeployInv, Deploy!TypeOK
<1>6. RunsKnow' /\ LateKnow' /\ RowsFit' /\ CountsFit'
  BY <1>1, <1>3, <1>5, RewritingKeeps DEF RowsStay, DeployInv, Deploy!TypeOK
<1>7. \A d \in Dispatches : run[d].stage \in Closing => run[d].row \in DOMAIN rows
  BY DoneHasRow
<1>8. CallsFollow' /\ Deploy!ToldPreviewIsCurrent'
  BY <1>1, <1>3, <1>7 DEF CallsFollow, Deploy!ToldPreviewIsCurrent, DeployInv, Closing
<1>9. QED  BY <1>5, <1>6, <1>8 DEF DeployInv

\* dispatch starts the workflow.
LEMMA StartStep ==
    ASSUME DeployInv, NEW d \in Dispatches, Deploy!Start(d)
    PROVE  DeployInv'
<1>1. /\ call[d].at = "idle"
      /\ UNCHANGED <<target, artifact, rows, sites, late, tokens, undone, retries, rotations, faults>>
  BY DEF Deploy!Start
<1>2. tokens \in Nat /\ rotations \in 0..MaxRotations /\ faults \in 0..MaxFaults /\ faults \in Nat
  BY DEF DeployInv, Deploy!TypeOK
<1>3. CASE ~artifact
  <2>1. call' = [call EXCEPT ![d].at = "refused"] /\ UNCHANGED run
    BY <1>3 DEF Deploy!Start
  <2>2. "refused" \in {"refused", "died"} /\ tokens' \in Nat /\ faults' \in 0..MaxFaults /\ faults' >= faults
    BY <1>1, <1>2
  <2>3. UNCHANGED <<target, artifact, rows, sites, run, late, undone, retries, rotations>>
    BY <1>1, <2>1
  <2>4. QED  BY <2>1, <2>2, <2>3, EndedCallStep
<1>4. CASE artifact
  <2>1. call' = [call EXCEPT ![d].at = "awaiting"] /\ run' = [run EXCEPT ![d].stage = "prepare"]
    BY <1>4 DEF Deploy!Start
  <2>2. /\ call'[d].at = "awaiting" /\ call' \in [Dispatches -> Deploy!Call]
        /\ \A e \in Dispatches : e # d => call'[e] = call[e]
    BY <2>1 DEF DeployInv, Deploy!TypeOK, Deploy!Call
  <2>3. run[d].stage = "idle" /\ run[d].attempt = "started"
    BY <1>1 DEF DeployInv, CallsFollow, RunsKnow, Deploy!Activities
  <2>4. /\ run'[d].stage = "prepare" /\ run'[d].attempt = "started" /\ run' \in [Dispatches -> Deploy!Run]
        /\ \A e \in Dispatches : e # d => run'[e] = run[e]
    BY <2>1, <2>3, ZenonT(60) DEF DeployInv, Deploy!TypeOK, Deploy!Run, Deploy!Stages, Deploy!Activities
  <2>5. Deploy!TypeOK'
    BY <1>1, <2>2, <2>4 DEF DeployInv, Deploy!TypeOK
  <2>6. /\ \A e \in Dispatches : Deploy!SitesOf(e)' = Deploy!SitesOf(e)
        /\ \A e \in Dispatches : \A i : IsRowOf(i, e)' = IsRowOf(i, e)
        /\ \A e \in Dispatches : \A u : UrlFits(u, e)' = UrlFits(u, e)
    BY <1>1 DEF Deploy!SitesOf, IsRowOf, UrlFits
  <2>7. RunsKnow'
    BY <2>4, <2>6 DEF DeployInv, RunsKnow, Closing, Deploy!Activities
  <2>8. LateKnow'
    <3>1. \A l \in late : l.by \in Dispatches  BY DEF DeployInv, Deploy!TypeOK
    <3>2. QED  BY <1>1, <2>3, <2>4, <3>1 DEF DeployInv, LateKnow, Closing
  <2>9. RowsFit'
    <3>1. \A i \in DOMAIN rows : rows[i].by \in Dispatches  BY DeployBasics DEF DeployInv
    <3>2. QED  BY <1>1, <2>3, <2>4, <2>6, <3>1 DEF DeployInv, RowsFit, Closing
  <2>10. CallsFollow'
    BY <1>1, <2>2, <2>4 DEF DeployInv, CallsFollow
  <2>11. \A e \in Dispatches : \A a \in {"prepare", "deploy"} : YetToAct(e, a)' => YetToAct(e, a)
    BY <2>3, <2>4 DEF YetToAct
  <2>12. CountsFit'
    BY <1>1, <1>2, <2>11, CountsStay DEF RowsStay
  <2>13. Deploy!ToldPreviewIsCurrent'
    BY <1>1, <2>2, <2>4 DEF DeployInv, Deploy!ToldPreviewIsCurrent
  <2>14. QED  BY <2>5, <2>7, <2>8, <2>9, <2>10, <2>12, <2>13 DEF DeployInv
<1>5. QED  BY <1>3, <1>4
LEMMA KnowledgeGrows ==
    ASSUME DeployInv, target' = target, DOMAIN rows \subseteq DOMAIN rows',
           \A i \in DOMAIN rows : rows'[i].by = rows[i].by,
           DOMAIN sites \subseteq DOMAIN sites', \A n \in DOMAIN sites : sites'[n] = sites[n]
    PROVE  /\ \A d \in Dispatches : \A i : IsRowOf(i, d) => IsRowOf(i, d)'
           /\ \A d \in Dispatches : Deploy!SitesOf(d) \subseteq Deploy!SitesOf(d)'
           /\ \A d \in Dispatches : \A u : UrlFits(u, d) => UrlFits(u, d)'
<1>1. \A d \in Dispatches : \A i : IsRowOf(i, d) => IsRowOf(i, d)'
  BY DEF IsRowOf
<1>2. \A d \in Dispatches : Deploy!SitesOf(d) \subseteq Deploy!SitesOf(d)'
  BY DEF Deploy!SitesOf
<1>3. \A d \in Dispatches : \A u : UrlFits(u, d) => UrlFits(u, d)'
  BY <1>2 DEF UrlFits
<1>4. QED  BY <1>1, <1>2, <1>3

LEMMA ReportStep ==
    ASSUME DeployInv, NEW d \in Dispatches, Deploy!Report(d)
    PROVE  DeployInv'
<1>1. /\ run[d].attempt = "acted"
      /\ UNCHANGED <<target, artifact, rows, sites, late, call, tokens, undone, retries, rotations, faults>>
      /\ run' = [run EXCEPT ![d].stage = Deploy!NextStage(run[d].stage), ![d].attempt = "started",
                            ![d].row = IF run[d].stage = "prepare" THEN run[d].result ELSE @,
                            ![d].url = IF run[d].stage = "deploy" THEN run[d].resultUrl ELSE @]
  BY DEF Deploy!Report, Deploy!Outside
<1>2. run[d] \in Deploy!Run /\ run[d].stage \in {"prepare", "deploy", "finalize"}
  BY <1>1 DEF DeployInv, Deploy!TypeOK, RunsKnow, Deploy!Activities
<1> DEFINE r == [run[d] EXCEPT !.stage = Deploy!NextStage(run[d].stage), !.attempt = "started",
                               !.row = IF run[d].stage = "prepare" THEN run[d].result ELSE @,
                               !.url = IF run[d].stage = "deploy" THEN run[d].resultUrl ELSE @]
<1>3. run' = [run EXCEPT ![d] = r]
  BY <1>1
<1>4. /\ r.attempt = "started"
      /\ r.stage = IF run[d].stage = "prepare" THEN "deploy"
                   ELSE IF run[d].stage = "deploy" THEN "finalize" ELSE "done"
      /\ r.row = IF run[d].stage = "prepare" THEN run[d].result ELSE run[d].row
      /\ r.url = IF run[d].stage = "deploy" THEN run[d].resultUrl ELSE run[d].url
      /\ r \in Deploy!Run
  BY <1>2 DEF Deploy!Run, Deploy!NextStage, Deploy!Stages, Deploy!Activities
<1> HIDE DEF r
<1>5. /\ run'[d] = r /\ run' \in [Dispatches -> Deploy!Run]
      /\ \A e \in Dispatches : e # d => run'[e] = run[e]
  BY <1>3, <1>4 DEF DeployInv, Deploy!TypeOK
<1>6. Deploy!TypeOK'
  BY <1>1, <1>5 DEF DeployInv, Deploy!TypeOK
<1>7. /\ \A e \in Dispatches : \A i : IsRowOf(i, e) => IsRowOf(i, e)'
      /\ \A e \in Dispatches : Deploy!SitesOf(e) \subseteq Deploy!SitesOf(e)'
      /\ \A e \in Dispatches : \A u : UrlFits(u, e) => UrlFits(u, e)'
  BY <1>1, KnowledgeGrows
<1>8. RunsKnow'
  <2>1. SUFFICES ASSUME NEW e \in Dispatches
                 PROVE  /\ run'[e].stage \notin Deploy!Activities => run'[e].attempt = "started"
                        /\ run'[e].stage = "prepare" /\ run'[e].attempt = "acted" => IsRowOf(run[e].result, e)'
                        /\ run'[e].stage \in {"deploy"} \cup Closing => IsRowOf(run[e].row, e)'
                        /\ run'[e].stage = "deploy" /\ run'[e].attempt = "acted" => UrlFits(run[e].resultUrl, e)'
                        /\ run'[e].stage \in Closing => UrlFits(run[e].url, e)'
    BY DEF RunsKnow
  <2>2. CASE e # d
    <3>1. run'[e] = run[e]  BY <1>5, <2>2
    <3>2. /\ run[e].stage \notin Deploy!Activities => run[e].attempt = "started"
          /\ run[e].stage = "prepare" /\ run[e].attempt = "acted" => IsRowOf(run[e].result, e)
          /\ run[e].stage \in {"deploy"} \cup Closing => IsRowOf(run[e].row, e)
          /\ run[e].stage = "deploy" /\ run[e].attempt = "acted" => UrlFits(run[e].resultUrl, e)
          /\ run[e].stage \in Closing => UrlFits(run[e].url, e)
      BY DEF DeployInv, RunsKnow
    <3>3. QED  BY <1>1, <3>1, <3>2 DEF IsRowOf, UrlFits, Deploy!SitesOf
  <2>3. CASE e = d
    <3>1. /\ run[d].stage = "prepare" => IsRowOf(run[d].result, d)
          /\ run[d].stage \in {"deploy", "finalize"} => IsRowOf(run[d].row, d)
          /\ run[d].stage = "deploy" => UrlFits(run[d].resultUrl, d)
          /\ run[d].stage = "finalize" => UrlFits(run[d].url, d)
      BY <1>1 DEF DeployInv, RunsKnow, Closing
    <3>2. run'[d].stage \in {"deploy"} \cup Closing => IsRowOf(run'[d].row, d)
      BY <1>2, <1>4, <1>5, <3>1
    <3>3. run'[d].stage \in Closing => UrlFits(run'[d].url, d)
      BY <1>2, <1>4, <1>5, <3>1 DEF Closing
    <3>4. run'[d].attempt = "started"  BY <1>4, <1>5
    <3>5. run'[d].stage \in {"deploy"} \cup Closing => IsRowOf(run[d].row, d)'
      BY <1>1, <3>2 DEF IsRowOf
    <3>6. run'[d].stage \in Closing => UrlFits(run[d].url, d)'
      BY <1>1, <3>3 DEF UrlFits, Deploy!SitesOf
    <3>7. QED  BY <2>3, <3>4, <3>5, <3>6
  <2>4. QED  BY <2>2, <2>3
<1>9. LateKnow'
  <2>1. \A l \in late : l.by \in Dispatches  BY DEF DeployInv, Deploy!TypeOK
  <2>2. SUFFICES ASSUME NEW l \in late, l.activity = "finalize"
                 PROVE  run'[l.by].stage \in Closing /\ l.row = run'[l.by].row /\ l.url = run'[l.by].url
    BY <1>1 DEF LateKnow
  <2>3. run[l.by].stage \in Closing /\ l.row = run[l.by].row /\ l.url = run[l.by].url
    BY <2>2 DEF DeployInv, LateKnow
  <2>4. CASE l.by = d
    BY <1>2, <1>4, <1>5, <2>3, <2>4 DEF Closing
  <2>5. CASE l.by # d
    BY <1>5, <2>1, <2>3, <2>5
  <2>6. QED  BY <2>4, <2>5
<1>10. RowsFit'
  <2>1. \A i \in DOMAIN rows : rows[i].by \in Dispatches  BY DeployBasics DEF DeployInv
  <2>2. QED  BY <1>1, <1>2, <1>4, <1>5, <1>7, <2>1, ZenonT(60) DEF DeployInv, RowsFit, Closing
<1>11. CallsFollow'
  <2>1. SUFFICES ASSUME NEW e \in Dispatches
                 PROVE  /\ call[e].at = "idle" => run'[e].stage = "idle"
                        /\ call[e].at \in {"provision", "answered"} => run'[e].stage = "done"
                        /\ (\/ run'[e].stage = "finalize" /\ run'[e].attempt = "acted"
                            \/ run'[e].stage = "done" /\ call[e].at = "awaiting")
                           => rows[run'[e].row].deleted \/ rows[run'[e].row].url = run'[e].url
    BY <1>1 DEF CallsFollow
  <2>2. /\ call[e].at = "idle" => run[e].stage = "idle"
        /\ call[e].at \in {"provision", "answered"} => run[e].stage = "done"
        /\ (\/ run[e].stage = "finalize" /\ run[e].attempt = "acted"
            \/ run[e].stage = "done" /\ call[e].at = "awaiting")
           => rows[run[e].row].deleted \/ rows[run[e].row].url = run[e].url
    BY DEF DeployInv, CallsFollow
  <2>3. CASE e = d
    <3>1. run'[d].attempt = "started" /\ call[d].at \notin {"idle", "provision", "answered"}
      BY <1>2, <1>4, <1>5, <2>2, <2>3
    <3>2. run'[d].stage = "done" => /\ run[d].stage = "finalize"
                                    /\ run'[d].row = run[d].row /\ run'[d].url = run[d].url
      BY <1>2, <1>4, <1>5
    <3>3. QED  BY <1>1, <2>2, <2>3, <3>1, <3>2
  <2>4. CASE e # d
    BY <1>5, <2>2, <2>4
  <2>5. QED  BY <2>3, <2>4
<1>12. CountsFit'
  <2>1. \A e \in Dispatches : \A a \in {"prepare", "deploy"} : YetToAct(e, a)' => YetToAct(e, a)
    BY <1>2, <1>4, <1>5 DEF YetToAct
  <2>2. RowsStay /\ faults' \in Nat /\ faults' >= faults
    BY <1>1 DEF RowsStay, DeployInv, Deploy!TypeOK
  <2>3. QED  BY <1>1, <2>1, <2>2, CountsStay
<1>13. Deploy!ToldPreviewIsCurrent'
  <2>1. \A e \in Dispatches : call[e].at = "answered" => e # d
    BY <1>2 DEF DeployInv, CallsFollow
  <2>2. QED  BY <1>1, <1>5, <2>1 DEF DeployInv, Deploy!ToldPreviewIsCurrent
<1>14. QED  BY <1>6, <1>8, <1>9, <1>10, <1>11, <1>12, <1>13 DEF DeployInv
LEMMA RetryStep ==
    ASSUME DeployInv, NEW d \in Dispatches, Deploy!Retry(d)
    PROVE  DeployInv'
<1> DEFINE a == run[d].stage
           l == [by |-> d, activity |-> run[d].stage, row |-> run[d].row, url |-> run[d].url]
<1>1. /\ a \in Deploy!Activities
      /\ faults' = faults + 1 /\ faults < MaxFaults
      /\ retries' = [retries EXCEPT ![d][a] = @ + 1]
      /\ \/ late' = late
         \/ run[d].attempt = "started" /\ late' = late \cup {l}
      /\ run' = [run EXCEPT ![d].attempt = "started"]
      /\ UNCHANGED <<target, artifact, rows, sites, call, tokens, undone, rotations>>
  BY DEF Deploy!Retry, Deploy!Outside
<1>2. /\ run[d] \in Deploy!Run /\ faults \in 0..MaxFaults /\ faults' \in 0..MaxFaults
      /\ faults \in Nat /\ faults' \in Nat /\ MaxFaults \in Nat
      /\ \A e \in Dispatches : \A b \in Deploy!Activities : retries[e][b] \in Nat /\ retries[e][b] <= faults
  BY <1>1, DeployConstants DEF DeployInv, Deploy!TypeOK, Deploy!DeploymentsAssumption, CountsFit
<1>3. /\ l.by = d /\ l.activity = a /\ l.row = run[d].row /\ l.url = run[d].url
      /\ l \in [by : Dispatches, activity : Deploy!Activities, row : Nat, url : Deploy!Urls]
  BY <1>1, <1>2 DEF Deploy!Run
<1> HIDE DEF l
<1>4. /\ run'[d].stage = a /\ run'[d].attempt = "started" /\ run'[d].row = run[d].row
      /\ run'[d].url = run[d].url /\ run'[d].result = run[d].result /\ run'[d].resultUrl = run[d].resultUrl
      /\ run' \in [Dispatches -> Deploy!Run]
      /\ \A e \in Dispatches : e # d => run'[e] = run[e]
  BY <1>1, <1>2 DEF DeployInv, Deploy!TypeOK, Deploy!Run
<1>5. /\ retries' \in [Dispatches -> [Deploy!Activities -> 0..MaxFaults]]
      /\ retries'[d][a] = retries[d][a] + 1
      /\ \A e \in Dispatches : \A b \in Deploy!Activities :
            e # d \/ b # a => retries'[e][b] = retries[e][b]
  <2>1. retries \in [Dispatches -> [Deploy!Activities -> 0..MaxFaults]]
    BY DEF DeployInv, Deploy!TypeOK
  <2>2. retries[d][a] + 1 \in 0..MaxFaults
    BY <1>1, <1>2
  <2>3. QED  BY <1>1, <2>1, <2>2
<1>6. late' \subseteq [by : Dispatches, activity : Deploy!Activities, row : Nat, url : Deploy!Urls]
  BY <1>1, <1>3 DEF DeployInv, Deploy!TypeOK
<1>7. Deploy!TypeOK'
  BY <1>1, <1>2, <1>4, <1>5, <1>6 DEF DeployInv, Deploy!TypeOK
<1>8. RunsKnow'
  <2>1. SUFFICES ASSUME NEW e \in Dispatches
                 PROVE  /\ run'[e].stage \notin Deploy!Activities => run'[e].attempt = "started"
                        /\ run'[e].stage = "prepare" /\ run'[e].attempt = "acted" => IsRowOf(run[e].result, e)'
                        /\ run'[e].stage \in {"deploy"} \cup Closing => IsRowOf(run[e].row, e)'
                        /\ run'[e].stage = "deploy" /\ run'[e].attempt = "acted" => UrlFits(run[e].resultUrl, e)'
                        /\ run'[e].stage \in Closing => UrlFits(run[e].url, e)'
    BY DEF RunsKnow
  <2>2. /\ run[e].stage \notin Deploy!Activities => run[e].attempt = "started"
        /\ run[e].stage = "prepare" /\ run[e].attempt = "acted" => IsRowOf(run[e].result, e)
        /\ run[e].stage \in {"deploy"} \cup Closing => IsRowOf(run[e].row, e)
        /\ run[e].stage = "deploy" /\ run[e].attempt = "acted" => UrlFits(run[e].resultUrl, e)
        /\ run[e].stage \in Closing => UrlFits(run[e].url, e)
    BY DEF DeployInv, RunsKnow
  <2>3. CASE e = d
    BY <1>1, <1>4, <2>2, <2>3 DEF IsRowOf, UrlFits, Deploy!SitesOf
  <2>4. CASE e # d
    BY <1>1, <1>4, <2>2, <2>4 DEF IsRowOf, UrlFits, Deploy!SitesOf
  <2>5. QED  BY <2>3, <2>4
<1>9. LateKnow'
  <2>1. SUFFICES ASSUME NEW k \in late', k.activity = "finalize"
                 PROVE  run'[k.by].stage \in Closing /\ k.row = run'[k.by].row /\ k.url = run'[k.by].url
    BY DEF LateKnow
  <2>2. k.by \in Dispatches
    BY <1>6
  <2>3. run[k.by].stage \in Closing /\ k.row = run[k.by].row /\ k.url = run[k.by].url
    <3>1. CASE k \in late
      BY <2>1, <3>1 DEF DeployInv, LateKnow
    <3>2. CASE k = l
      BY <1>3, <2>1, <3>2 DEF Closing
    <3>3. QED  BY <1>1, <3>1, <3>2
  <2>4. QED  BY <1>4, <2>2, <2>3
<1>10. RowsFit'
  <2>1. \A i \in DOMAIN rows : rows[i].by \in Dispatches  BY DeployBasics DEF DeployInv
  <2>2. \A e \in Dispatches : run'[e].stage = run[e].stage /\ run'[e].row = run[e].row
    BY <1>4
  <2>3. \A e \in Dispatches : Deploy!SitesOf(e)' = Deploy!SitesOf(e)
    BY <1>1 DEF Deploy!SitesOf
  <2>4. QED  BY <1>1, <2>1, <2>2, <2>3 DEF DeployInv, RowsFit
<1>11. CallsFollow'
  <2>1. \A e \in Dispatches : /\ run'[e].stage = run[e].stage /\ run'[e].row = run[e].row
                              /\ run'[e].url = run[e].url
                              /\ run'[e].attempt = "acted" => run[e].attempt = "acted"
    BY <1>4
  <2>2. QED  BY <1>1, <2>1 DEF DeployInv, CallsFollow
<1>12. CountsFit'
  <2>1. IsFiniteSet(late) /\ IsFiniteSet(late')
    BY <1>1, FS_AddElement DEF DeployInv, CountsFit
  <2>2. \A e \in Dispatches : /\ Deploy!RowsOf(e)' = Deploy!RowsOf(e)
                              /\ Deploy!SitesOf(e)' = Deploy!SitesOf(e)
    BY <1>1 DEF Deploy!RowsOf, Deploy!SitesOf
  <2>3. ASSUME NEW e \in Dispatches, NEW b \in {"prepare", "deploy"}
        PROVE  /\ MayAct(e, b) \in Nat /\ MayAct(e, b)' \in Nat
               /\ MayAct(e, b)' <= MayAct(e, b) + (retries'[e][b] - retries[e][b])
    <3>1. Cardinality(LateOf(e, b)) \in Nat /\ Cardinality(LateOf(e, b)') \in Nat
      <4>1. LateOf(e, b)' \subseteq late'  BY DEF LateOf
      <4>2. QED  BY <2>1, <4>1, LateIsFinite, FS_Subset, FS_CardinalityType
    <3>2. b \in Deploy!Activities  BY DEF Deploy!Activities
    <3>3. CASE e = d /\ b = a
      <4>1. retries'[e][b] - retries[e][b] = 1
        BY <1>2, <1>5, <3>2, <3>3
      <4>2. CASE late' = late
        <5>1. LateOf(e, b)' = LateOf(e, b)  BY <4>2 DEF LateOf
        <5>2. QED  BY <3>1, <4>1, <5>1 DEF MayAct
      <4>3. CASE run[d].attempt = "started" /\ late' = late \cup {l}
        <5>1. LateOf(e, b)' = LateOf(e, b) \cup {l}
          BY <1>3, <3>3, <4>3 DEF LateOf
        <5>2. IsFiniteSet(LateOf(e, b))
          BY <2>1, LateIsFinite
        <5>3. Cardinality(LateOf(e, b)') <= Cardinality(LateOf(e, b)) + 1
          BY <3>1, <5>1, <5>2, FS_AddElement
        <5>4. YetToAct(e, b)
          BY <3>3, <4>3 DEF YetToAct
        <5>5. QED  BY <3>1, <4>1, <5>3, <5>4 DEF MayAct
      <4>4. QED  BY <1>1, <4>2, <4>3
    <3>4. CASE e # d \/ b # a
      <4>1. retries'[e][b] - retries[e][b] = 0
        BY <1>2, <1>5, <3>2, <3>4
      <4>2. LateOf(e, b)' = LateOf(e, b)
        BY <1>1, <1>3, <3>4 DEF LateOf
      <4>3. YetToAct(e, b)' => YetToAct(e, b)
        BY <1>4, <3>2, <3>4 DEF YetToAct
      <4>4. QED  BY <3>1, <4>1, <4>2, <4>3 DEF MayAct
    <3>5. QED  BY <3>3, <3>4
  <2>4. ASSUME NEW e \in Dispatches
        PROVE  /\ Cardinality(Deploy!RowsOf(e)') + MayAct(e, "prepare")' <= retries'[e]["prepare"] + 1
               /\ Cardinality(Deploy!SitesOf(e)') + MayAct(e, "deploy")' <= retries'[e]["deploy"] + 1
    <3>1. /\ Cardinality(Deploy!RowsOf(e)) + MayAct(e, "prepare") <= retries[e]["prepare"] + 1
          /\ Cardinality(Deploy!SitesOf(e)) + MayAct(e, "deploy") <= retries[e]["deploy"] + 1
      BY DEF DeployInv, CountsFit
    <3>2. Cardinality(Deploy!RowsOf(e)) \in Nat /\ Cardinality(Deploy!SitesOf(e)) \in Nat
      BY DeployBasics, FS_CardinalityType DEF DeployInv
    <3>3. \A b \in {"prepare", "deploy"} : retries[e][b] \in Nat /\ retries'[e][b] \in Nat
      BY <1>2, <1>5 DEF Deploy!Activities
    <3>4. Cardinality(Deploy!RowsOf(e)) + MayAct(e, "prepare")' <= retries'[e]["prepare"] + 1
      BY <2>3, <3>1, <3>2, <3>3
    <3>5. Cardinality(Deploy!SitesOf(e)) + MayAct(e, "deploy")' <= retries'[e]["deploy"] + 1
      BY <2>3, <3>1, <3>2, <3>3
    <3>6. QED  BY <2>2, <3>4, <3>5
  <2>5. \A e \in Dispatches : \A b \in Deploy!Activities : retries'[e][b] <= faults'
    BY <1>1, <1>2, <1>5
  <2>6. QED  BY <2>1, <2>4, <2>5 DEF CountsFit
<1>13. Deploy!ToldPreviewIsCurrent'
  <2>1. \A e \in Dispatches : run'[e].row = run[e].row
    BY <1>4
  <2>2. QED  BY <1>1, <2>1 DEF DeployInv, Deploy!ToldPreviewIsCurrent
<1>14. QED  BY <1>7, <1>8, <1>9, <1>10, <1>11, <1>12, <1>13 DEF DeployInv
\* An attempt of a for d has acted: it will not act once more.
Spent(d, a) ==
    /\ IsFiniteSet(late')
    /\ \A e \in Dispatches : \A b \in {"prepare", "deploy"} :
          /\ MayAct(e, b)' \in Nat /\ MayAct(e, b)' <= MayAct(e, b)
          /\ e = d /\ b = a => MayAct(e, b)' + 1 <= MayAct(e, b)

OneIf(condition) == IF condition THEN 1 ELSE 0

LEMMA SpendingCounts ==
    ASSUME DeployInv, NEW d \in Dispatches, NEW a \in Deploy!Activities, Spent(d, a),
           UNCHANGED <<retries, faults>>,
           \A e \in Dispatches :
               /\ Cardinality(Deploy!RowsOf(e)') \in Nat
               /\ Cardinality(Deploy!RowsOf(e)') <= Cardinality(Deploy!RowsOf(e)) + OneIf(e = d /\ a = "prepare")
               /\ Cardinality(Deploy!SitesOf(e)') \in Nat
               /\ Cardinality(Deploy!SitesOf(e)') <= Cardinality(Deploy!SitesOf(e)) + OneIf(e = d /\ a = "deploy")
    PROVE  CountsFit'
<1>1. ASSUME NEW e \in Dispatches
      PROVE  /\ Cardinality(Deploy!RowsOf(e)') + MayAct(e, "prepare")' <= retries[e]["prepare"] + 1
             /\ Cardinality(Deploy!SitesOf(e)') + MayAct(e, "deploy")' <= retries[e]["deploy"] + 1
  <2>1. /\ Cardinality(Deploy!RowsOf(e)) + MayAct(e, "prepare") <= retries[e]["prepare"] + 1
        /\ Cardinality(Deploy!SitesOf(e)) + MayAct(e, "deploy") <= retries[e]["deploy"] + 1
        /\ IsFiniteSet(late)
    BY DEF DeployInv, CountsFit
  <2>2. /\ Cardinality(Deploy!RowsOf(e)) \in Nat /\ Cardinality(Deploy!SitesOf(e)) \in Nat
        /\ retries[e]["prepare"] \in Nat /\ retries[e]["deploy"] \in Nat
    <3>1. Cardinality(Deploy!RowsOf(e)) \in Nat /\ Cardinality(Deploy!SitesOf(e)) \in Nat
      BY DeployBasics, FS_CardinalityType DEF DeployInv
    <3>2. retries[e]["prepare"] \in Nat /\ retries[e]["deploy"] \in Nat
      BY DEF DeployInv, Deploy!TypeOK, Deploy!Activities
    <3>3. QED  BY <3>1, <3>2
  <2>3. \A b \in {"prepare", "deploy"} : MayAct(e, b) \in Nat
    BY <2>1, LateIsFinite DEF MayAct
  <2>4. \A b \in {"prepare", "deploy"} : MayAct(e, b)' \in Nat /\ MayAct(e, b)' + OneIf(e = d /\ a = b) <= MayAct(e, b)
    BY <2>3 DEF Spent, OneIf
  <2>5. OneIf(e = d /\ a = "prepare") \in Nat /\ OneIf(e = d /\ a = "deploy") \in Nat
    BY DEF OneIf
  <2>6. /\ Cardinality(Deploy!RowsOf(e)') \in Nat
        /\ Cardinality(Deploy!RowsOf(e)') <= Cardinality(Deploy!RowsOf(e)) + OneIf(e = d /\ a = "prepare")
        /\ Cardinality(Deploy!SitesOf(e)') \in Nat
        /\ Cardinality(Deploy!SitesOf(e)') <= Cardinality(Deploy!SitesOf(e)) + OneIf(e = d /\ a = "deploy")
    OBVIOUS
  <2>7. Cardinality(Deploy!RowsOf(e)') + MayAct(e, "prepare")' <= retries[e]["prepare"] + 1
    <3>1. /\ MayAct(e, "prepare")' \in Nat /\ MayAct(e, "prepare") \in Nat
          /\ MayAct(e, "prepare")' + OneIf(e = d /\ a = "prepare") <= MayAct(e, "prepare")
      BY <2>3, <2>4
    <3>2. QED  BY <2>1, <2>2, <2>5, <2>6, <3>1
  <2>8. Cardinality(Deploy!SitesOf(e)') + MayAct(e, "deploy")' <= retries[e]["deploy"] + 1
    <3>1. /\ MayAct(e, "deploy")' \in Nat /\ MayAct(e, "deploy") \in Nat
          /\ MayAct(e, "deploy")' + OneIf(e = d /\ a = "deploy") <= MayAct(e, "deploy")
      BY <2>3, <2>4
    <3>2. QED  BY <2>1, <2>2, <2>5, <2>6, <3>1
  <2>9. QED  BY <2>7, <2>8
<1>2. QED  BY <1>1 DEF CountsFit, Spent, DeployInv

\* The effects of the activities: what they do to rows and sites.
Acts(d, a, n, url) ==
    \/ a = "prepare" /\ Deploy!Prepare(d)
    \/ a = "deploy" /\ Deploy!Publish(d)
    \/ a = "finalize" /\ n \in DOMAIN rows /\ ~rows[n].deleted
       /\ rows' = [rows EXCEPT ![n].status = "succeeded", ![n].url = url]
       /\ sites' = sites

LEMMA FinalizeActs ==
    ASSUME DeployInv, NEW d \in Dispatches, NEW n \in Nat, NEW url \in Deploy!Urls, Deploy!Finalize(d, n, url)
    PROVE  Acts(d, "finalize", n, url) /\ UNCHANGED undone
<1>1. n \in DOMAIN rows /\ ~rows[n].deleted
  BY DEF Deploy!Finalize, Deploy!Completes
<1>2. /\ rows' = [i \in DOMAIN rows |->
                    IF Deploy!Completes(i, n) THEN [rows[i] EXCEPT !.status = "succeeded", !.url = url]
                                       ELSE rows[i]]
      /\ UNCHANGED <<sites, undone>>
  BY DEF Deploy!Finalize
<1>3. rows' = [i \in DOMAIN rows |-> IF i = n THEN [rows[n] EXCEPT !.status = "succeeded", !.url = url] ELSE rows[i]]
  BY <1>1, <1>2 DEF Deploy!Completes
<1>4. rows \in [DOMAIN rows -> Deploy!Row]
  BY DeployBasics DEF DeployInv, Deploy!TypeOK
<1>5. rows' = [rows EXCEPT ![n] = [rows[n] EXCEPT !.status = "succeeded", !.url = url]]
  BY <1>1, <1>3, <1>4
<1>6. QED  BY <1>1, <1>2, <1>5 DEF Acts

LEMMA ActsFacts ==
    ASSUME DeployInv, NEW d \in Dispatches, NEW a \in Deploy!Activities, NEW n \in Nat,
           NEW url \in Deploy!Urls, Acts(d, a, n, url), target' = target
    PROVE  /\ rows' \in Seq(Deploy!Row) /\ sites' \in Seq(Dispatches)
           /\ DOMAIN rows \subseteq DOMAIN rows' /\ DOMAIN sites \subseteq DOMAIN sites'
           /\ \A k \in DOMAIN sites : sites'[k] = sites[k]
           /\ \A i \in DOMAIN rows : rows'[i].by = rows[i].by /\ rows'[i].deleted = rows[i].deleted
           /\ \A i \in DOMAIN rows : i # n \/ a # "finalize" => rows'[i] = rows[i]
           /\ a = "finalize" => rows'[n].status = "succeeded" /\ rows'[n].url = url /\ n \in DOMAIN rows
           /\ \A i \in DOMAIN rows' : i \notin DOMAIN rows =>
                 a = "prepare" /\ rows'[i].status = "queued" /\ rows'[i].url = Deploy!NoUrl /\ rows'[i].by = d
           /\ a = "prepare" => IsRowOf(Len(rows), d)'
           /\ a = "deploy" => \A u : u = Deploy!PublishedUrl => UrlFits(u, d)'
           /\ \A e \in Dispatches :
               /\ Cardinality(Deploy!RowsOf(e)') \in Nat
               /\ Cardinality(Deploy!RowsOf(e)') <= Cardinality(Deploy!RowsOf(e)) + OneIf(e = d /\ a = "prepare")
               /\ Cardinality(Deploy!SitesOf(e)') \in Nat
               /\ Cardinality(Deploy!SitesOf(e)') <= Cardinality(Deploy!SitesOf(e)) + OneIf(e = d /\ a = "deploy")
<1>1. /\ rows \in Seq(Deploy!Row) /\ sites \in Seq(Dispatches) /\ Len(rows) \in Nat /\ Len(sites) \in Nat
      /\ DOMAIN rows = 1..Len(rows) /\ DOMAIN sites = 1..Len(sites)
      /\ \A e \in Dispatches : /\ IsFiniteSet(Deploy!RowsOf(e)) /\ IsFiniteSet(Deploy!SitesOf(e))
                               /\ Cardinality(Deploy!RowsOf(e)) \in Nat
                               /\ Cardinality(Deploy!SitesOf(e)) \in Nat
  BY DeployBasics, FS_CardinalityType DEF DeployInv, Deploy!TypeOK
<1>2. CASE a = "prepare"
  <2> DEFINE w == [by |-> d, status |-> "queued", url |-> Deploy!NoUrl, deleted |-> FALSE]
  <2>1. rows' = Append(rows, w) /\ sites' = sites
    BY <1>2 DEF Acts, Deploy!Prepare
  <2>2. w \in Deploy!Row /\ w.by = d /\ w.status = "queued" /\ w.url = Deploy!NoUrl
    BY DEF Deploy!Row, Deploy!Urls, Deploy!NoUrl
  <2> HIDE DEF w
  <2>3. /\ rows' \in Seq(Deploy!Row) /\ Len(rows') = Len(rows) + 1 /\ DOMAIN rows' = 1..(Len(rows) + 1)
        /\ rows'[Len(rows) + 1] = w /\ \A i \in DOMAIN rows : rows'[i] = rows[i]
    BY <1>1, <2>1, <2>2
  <2>4. IsRowOf(Len(rows), d)'
    BY <1>1, <2>2, <2>3 DEF IsRowOf
  <2>5. DOMAIN rows \subseteq DOMAIN rows' /\ \A i \in DOMAIN rows' : i \notin DOMAIN rows => i = Len(rows) + 1
    BY <1>1, <2>3
  <2>6. ASSUME NEW e \in Dispatches
        PROVE  /\ Cardinality(Deploy!RowsOf(e)') \in Nat
               /\ Cardinality(Deploy!RowsOf(e)') <= Cardinality(Deploy!RowsOf(e)) + OneIf(e = d)
    <3>1. CASE e = d
      <4>1. Deploy!RowsOf(e)' = Deploy!RowsOf(e) \cup {Len(rows) + 1}
        BY <1>1, <2>2, <2>3, <3>1 DEF Deploy!RowsOf
      <4>2. Len(rows) + 1 \notin Deploy!RowsOf(e)
        BY <1>1 DEF Deploy!RowsOf
      <4>3. Cardinality(Deploy!RowsOf(e)') = Cardinality(Deploy!RowsOf(e)) + 1
        BY <1>1, <4>1, <4>2, FS_AddElement
      <4>4. QED  BY <1>1, <3>1, <4>3 DEF OneIf
    <3>2. CASE e # d
      <4>1. Deploy!RowsOf(e)' = Deploy!RowsOf(e)
        BY <1>1, <2>2, <2>3, <2>5, <3>2 DEF Deploy!RowsOf
      <4>2. QED  BY <1>1, <3>2, <4>1 DEF OneIf
    <3>3. QED  BY <3>1, <3>2
  <2>7. \A e \in Dispatches : Deploy!SitesOf(e)' = Deploy!SitesOf(e)
    BY <2>1 DEF Deploy!SitesOf
  <2>8. \A e \in Dispatches : /\ OneIf(e = d /\ a = "prepare") = OneIf(e = d)
                              /\ OneIf(e = d /\ a = "deploy") = 0
    BY <1>2 DEF OneIf
  <2>9. QED  BY <1>1, <1>2, <2>1, <2>2, <2>3, <2>4, <2>5, <2>6, <2>7, <2>8
<1>3. CASE a = "deploy"
  <2>1. /\ sites' = IF target.provider THEN Append(sites, d) ELSE sites
        /\ rows' = rows
    BY <1>3 DEF Acts, Deploy!Publish
  <2>2. /\ sites' \in Seq(Dispatches) /\ DOMAIN sites \subseteq DOMAIN sites'
        /\ \A k \in DOMAIN sites : sites'[k] = sites[k]
    BY <1>1, <2>1
  <2>3. CASE ~target.provider
    <3>1. sites' = sites
      BY <2>1, <2>3
    <3>2. \A e \in Dispatches : Deploy!SitesOf(e)' = Deploy!SitesOf(e) /\ Deploy!RowsOf(e)' = Deploy!RowsOf(e)
      BY <2>1, <3>1 DEF Deploy!SitesOf, Deploy!RowsOf
    <3>3. Deploy!PublishedUrl[1] # "site"
      BY <2>3 DEF Deploy!PublishedUrl, Deploy!ObjectUrl, Deploy!NoUrl
    <3>4. \A u : u = Deploy!PublishedUrl => UrlFits(u, d)'
      BY <2>3, <3>3 DEF UrlFits
    <3>5. \A e \in Dispatches : OneIf(e = d /\ a = "prepare") = 0 /\ OneIf(e = d /\ a = "deploy") \in Nat
      BY <1>3 DEF OneIf
    <3>6. QED  BY <1>1, <1>3, <2>1, <2>2, <3>2, <3>4, <3>5
  <2>4. CASE target.provider
    <3>1. /\ Len(sites') = Len(sites) + 1 /\ DOMAIN sites' = 1..(Len(sites) + 1)
          /\ sites'[Len(sites) + 1] = d
      BY <1>1, <2>1, <2>4
    <3>2. \A e \in Dispatches : Deploy!RowsOf(e)' = Deploy!RowsOf(e)
      BY <2>1 DEF Deploy!RowsOf
    <3>3. Deploy!SitesOf(d)' = Deploy!SitesOf(d) \cup {Len(sites) + 1}
      BY <1>1, <2>2, <3>1 DEF Deploy!SitesOf
    <3>4. \A e \in Dispatches : e # d => Deploy!SitesOf(e)' = Deploy!SitesOf(e)
      BY <1>1, <2>2, <3>1 DEF Deploy!SitesOf
    <3>5. Cardinality(Deploy!SitesOf(d)') \in Nat /\ Cardinality(Deploy!SitesOf(d)') <= Cardinality(Deploy!SitesOf(d)) + 1
      <4>1. Len(sites) + 1 \notin Deploy!SitesOf(d)
        BY <1>1 DEF Deploy!SitesOf
      <4>2. Cardinality(Deploy!SitesOf(d)') = Cardinality(Deploy!SitesOf(d)) + 1
        BY <1>1, <3>3, <4>1, FS_AddElement
      <4>3. Cardinality(Deploy!SitesOf(d)) \in Nat
        BY <1>1
      <4>4. QED  BY <4>2, <4>3
    <3>6. Deploy!PublishedUrl = <<"site", Len(sites) + 1>>
      BY <2>4 DEF Deploy!PublishedUrl, Deploy!SiteUrl
    <3>7. \A u : u = Deploy!PublishedUrl => UrlFits(u, d)'
      BY <3>3, <3>6 DEF UrlFits
    <3>8. \A e \in Dispatches : OneIf(e = d /\ a = "prepare") = 0 /\ OneIf(e = d /\ a = "deploy") = OneIf(e = d)
      BY <1>3 DEF OneIf
    <3>9. \A e \in Dispatches : /\ Cardinality(Deploy!SitesOf(e)') \in Nat
                                /\ Cardinality(Deploy!SitesOf(e)') <= Cardinality(Deploy!SitesOf(e)) + OneIf(e = d)
      BY <1>1, <3>4, <3>5 DEF OneIf
    <3>10. QED  BY <1>1, <1>3, <2>1, <2>2, <3>2, <3>7, <3>8, <3>9
  <2>5. QED  BY <2>3, <2>4
<1>4. CASE a = "finalize"
  <2> DEFINE w == [rows[n] EXCEPT !.status = "succeeded", !.url = url]
  <2>1. /\ n \in DOMAIN rows /\ sites' = sites
        /\ rows' = [rows EXCEPT ![n] = w]
    BY <1>4 DEF Acts
  <2>2. rows[n] \in Deploy!Row
    BY <1>1, <2>1
  <2>3. w \in Deploy!Row /\ w.by = rows[n].by /\ w.deleted = rows[n].deleted /\ w.status = "succeeded" /\ w.url = url
    BY <2>2 DEF Deploy!Row
  <2> HIDE DEF w
  <2>4. /\ rows' \in Seq(Deploy!Row) /\ DOMAIN rows' = DOMAIN rows /\ rows'[n] = w
        /\ \A i \in DOMAIN rows : i # n => rows'[i] = rows[i]
    BY <1>1, <2>1, <2>3
  <2>5. \A e \in Dispatches : Deploy!SitesOf(e)' = Deploy!SitesOf(e) /\ Deploy!RowsOf(e)' = Deploy!RowsOf(e)
    BY <2>1, <2>3, <2>4 DEF Deploy!SitesOf, Deploy!RowsOf
  <2>6. \A e \in Dispatches : OneIf(e = d /\ a = "prepare") \in Nat /\ OneIf(e = d /\ a = "deploy") \in Nat
    BY DEF OneIf
  <2>7. \A i \in DOMAIN rows : rows'[i].by = rows[i].by /\ rows'[i].deleted = rows[i].deleted
    BY <2>3, <2>4
  <2>8. QED  BY <1>1, <1>4, <2>1, <2>3, <2>4, <2>5, <2>6, <2>7
<1>5. QED  BY <1>2, <1>3, <1>4 DEF Deploy!Activities
\* What an attempt of d does, in time or late, leaves everything else true.
LEMMA EffectKeeps ==
    ASSUME DeployInv, NEW d \in Dispatches, NEW a \in Deploy!Activities, NEW n \in Nat,
           NEW url \in Deploy!Urls, Acts(d, a, n, url), Spent(d, a),
           UNCHANGED <<target, artifact, call, tokens, retries, rotations, faults>>,
           late' \subseteq late, undone \subseteq undone', undone' \subseteq DOMAIN rows,
           run' \in [Dispatches -> Deploy!Run],
           \A e \in Dispatches :
               /\ run'[e].stage = run[e].stage /\ run'[e].row = run[e].row /\ run'[e].url = run[e].url
               /\ run[e].stage = "finalize" /\ run'[e].attempt = "acted" =>
                     run[e].attempt = "acted" \/ (e = d /\ a = "finalize"),
           a = "finalize" => /\ run[d].stage \in Closing /\ n = run[d].row /\ url = run[d].url
                             /\ run[d].stage = "done" => n \in undone'
    PROVE  /\ Deploy!TypeOK' /\ LateKnow' /\ RowsFit' /\ CallsFollow' /\ CountsFit'
           /\ Deploy!ToldPreviewIsCurrent'
<1>1. /\ rows' \in Seq(Deploy!Row) /\ sites' \in Seq(Dispatches)
      /\ DOMAIN rows \subseteq DOMAIN rows' /\ DOMAIN sites \subseteq DOMAIN sites'
      /\ \A k \in DOMAIN sites : sites'[k] = sites[k]
      /\ \A i \in DOMAIN rows : rows'[i].by = rows[i].by /\ rows'[i].deleted = rows[i].deleted
      /\ \A i \in DOMAIN rows : i # n \/ a # "finalize" => rows'[i] = rows[i]
      /\ a = "finalize" => rows'[n].status = "succeeded" /\ rows'[n].url = url /\ n \in DOMAIN rows
      /\ \A i \in DOMAIN rows' : i \notin DOMAIN rows =>
            a = "prepare" /\ rows'[i].status = "queued" /\ rows'[i].url = Deploy!NoUrl /\ rows'[i].by = d
  BY ActsFacts
<1>2. CountsFit'
  <2>1. \A e \in Dispatches :
               /\ Cardinality(Deploy!RowsOf(e)') \in Nat
               /\ Cardinality(Deploy!RowsOf(e)') <= Cardinality(Deploy!RowsOf(e)) + OneIf(e = d /\ a = "prepare")
               /\ Cardinality(Deploy!SitesOf(e)') \in Nat
               /\ Cardinality(Deploy!SitesOf(e)') <= Cardinality(Deploy!SitesOf(e)) + OneIf(e = d /\ a = "deploy")
    BY ActsFacts
  <2>2. UNCHANGED <<retries, faults>>
    OBVIOUS
  <2>3. QED  BY <2>1, <2>2, SpendingCounts
<1>3. Deploy!TypeOK'
  BY <1>1 DEF DeployInv, Deploy!TypeOK
<1>4. \A l \in late : l.by \in Dispatches
  BY DEF DeployInv, Deploy!TypeOK
<1>5. LateKnow'
  BY <1>4 DEF DeployInv, LateKnow
<1>6. \A e \in Dispatches : Deploy!SitesOf(e) \subseteq Deploy!SitesOf(e)'
  BY <1>1, KnowledgeGrows
<1>7. a = "finalize" => n \in DOMAIN rows /\ rows[n].by = d /\ UrlFits(url, d)
  BY DoneHasRow DEF DeployInv, RunsKnow, Closing
<1>8. RowsFit'
  <2>1. SUFFICES ASSUME NEW i \in DOMAIN rows'
                 PROVE  /\ rows'[i].status = "succeeded" =>
                              run'[rows'[i].by].stage \in Closing /\ i = run'[rows'[i].by].row
                        /\ rows'[i].url[1] = "site" => rows'[i].url[2] \in Deploy!SitesOf(rows[i].by)'
    BY DEF RowsFit
  <2>2. CASE i \notin DOMAIN rows
    BY <1>1, <2>2 DEF Deploy!NoUrl
  <2>3. CASE i \in DOMAIN rows /\ (i # n \/ a # "finalize")
    <3>1. rows'[i] = rows[i] /\ rows[i].by \in Dispatches
      BY <1>1, <2>3, DeployBasics DEF DeployInv
    <3>2. /\ rows[i].status = "succeeded" => run[rows[i].by].stage \in Closing /\ i = run[rows[i].by].row
          /\ rows[i].url[1] = "site" => rows[i].url[2] \in Deploy!SitesOf(rows[i].by)
      BY <2>3 DEF DeployInv, RowsFit
    <3>3. Deploy!SitesOf(rows[i].by) \subseteq {k \in DOMAIN sites' : sites'[k] = rows'[i].by}
      BY <1>1, <3>1 DEF Deploy!SitesOf
    <3>4. QED  BY <3>1, <3>2, <3>3 DEF Deploy!SitesOf
  <2>4. CASE i = n /\ a = "finalize"
    <3>1. rows'[i].by = d /\ rows'[i].url = url /\ i = run'[d].row /\ run'[d].stage \in Closing
      BY <1>1, <1>7, <2>4
    <3>2. url[1] = "site" => url[2] \in {k \in DOMAIN sites' : sites'[k] = d}
      BY <1>1, <1>7, <2>4 DEF UrlFits, Deploy!SitesOf
    <3>3. QED  BY <3>1, <3>2 DEF Deploy!SitesOf
  <2>5. QED  BY <2>2, <2>3, <2>4
<1>9. ASSUME NEW e \in Dispatches, run[e].stage \in Closing
      PROVE  /\ run[e].row \in DOMAIN rows
             /\ rows'[run[e].row].deleted = rows[run[e].row].deleted
             /\ \/ rows'[run[e].row] = rows[run[e].row]
                \/ e = d /\ a = "finalize" /\ rows'[run[e].row].url = run[e].url
  <2>1. run[e].row \in DOMAIN rows
    BY <1>9, DoneHasRow
  <2>2. CASE a # "finalize" \/ run[e].row # n
    BY <1>1, <2>1, <2>2
  <2>3. CASE a = "finalize" /\ run[e].row = n
    <3>1. e = d
      BY <1>9, <2>3, DoneHasRow
    <3>2. QED  BY <1>1, <2>1, <2>3, <3>1
  <2>4. QED  BY <2>2, <2>3
<1>10. CallsFollow'
  <2>1. SUFFICES ASSUME NEW e \in Dispatches
                 PROVE  /\ call[e].at = "idle" => run'[e].stage = "idle"
                        /\ call[e].at \in {"provision", "answered"} => run'[e].stage = "done"
                        /\ (\/ run'[e].stage = "finalize" /\ run'[e].attempt = "acted"
                            \/ run'[e].stage = "done" /\ call[e].at = "awaiting")
                           => rows'[run'[e].row].deleted \/ rows'[run'[e].row].url = run'[e].url
    BY DEF CallsFollow
  <2>2. /\ call[e].at = "idle" => run[e].stage = "idle"
        /\ call[e].at \in {"provision", "answered"} => run[e].stage = "done"
        /\ (\/ run[e].stage = "finalize" /\ run[e].attempt = "acted"
            \/ run[e].stage = "done" /\ call[e].at = "awaiting")
           => rows[run[e].row].deleted \/ rows[run[e].row].url = run[e].url
    BY DEF DeployInv, CallsFollow
  <2>3. CASE run[e].stage \notin Closing
    BY <2>2, <2>3 DEF Closing
  <2>4. CASE run[e].stage \in Closing /\ rows'[run[e].row] = rows[run[e].row]
    <3>1. CASE e = d /\ a = "finalize"
      BY <1>1, <2>2, <3>1
    <3>2. CASE ~(e = d /\ a = "finalize")
      BY <2>2, <2>4, <3>2
    <3>3. QED  BY <3>1, <3>2
  <2>5. CASE run[e].stage \in Closing /\ rows'[run[e].row].url = run[e].url
    BY <2>2, <2>5
  <2>6. QED  BY <1>9, <2>3, <2>4, <2>5
<1>11. Deploy!ToldPreviewIsCurrent'
  <2>1. SUFFICES ASSUME NEW e \in Dispatches, call[e].at = "answered", ~rows'[run[e].row].deleted
                 PROVE  /\ target.kind = "page" => call[e].url # Deploy!NoUrl
                        /\ run[e].row \notin undone' => rows'[run[e].row].url = call[e].url
    BY DEF Deploy!ToldPreviewIsCurrent
  <2>2. run[e].stage = "done"
    BY <2>1 DEF DeployInv, CallsFollow
  <2>3. ~rows[run[e].row].deleted
    BY <1>9, <2>1, <2>2 DEF Closing
  <2>4. /\ target.kind = "page" => call[e].url # Deploy!NoUrl
        /\ run[e].row \notin undone => rows[run[e].row].url = call[e].url
    BY <2>1, <2>3 DEF DeployInv, Deploy!ToldPreviewIsCurrent
  <2>5. run[e].row \notin undone' => rows'[run[e].row] = rows[run[e].row]
    BY <1>9, <2>2 DEF Closing
  <2>6. QED  BY <2>4, <2>5
<1>12. QED  BY <1>2, <1>3, <1>5, <1>8, <1>10, <1>11

LEMMA ActStep ==
    ASSUME DeployInv, NEW d \in Dispatches, Deploy!Act(d)
    PROVE  DeployInv'
<1> DEFINE a == run[d].stage
<1>1. /\ a \in Deploy!Activities /\ run[d].attempt = "started"
      /\ UNCHANGED <<target, artifact, late, call, tokens, retries, rotations, faults>>
      /\ run' = [run EXCEPT ![d].attempt = "acted",
                            ![d].result = IF run[d].stage = "prepare" THEN Len(rows') ELSE @,
                            ![d].resultUrl = IF run[d].stage = "deploy" THEN Deploy!PublishedUrl ELSE @]
  BY DEF Deploy!Act, Deploy!Outside
<1>2. run[d] \in Deploy!Run /\ run[d].row \in Nat /\ run[d].url \in Deploy!Urls
  BY DEF DeployInv, Deploy!TypeOK, Deploy!Run
<1>3. Acts(d, a, run[d].row, run[d].url) /\ UNCHANGED undone
  <2>1. CASE a = "prepare" /\ Deploy!Prepare(d)
    BY <2>1 DEF Acts, Deploy!Prepare
  <2>2. CASE a = "deploy" /\ Deploy!Publish(d)
    BY <2>2 DEF Acts, Deploy!Publish
  <2>3. CASE a = "finalize" /\ Deploy!Finalize(d, run[d].row, run[d].url)
    BY <1>2, <2>3, FinalizeActs
  <2>4. QED  BY <2>1, <2>2, <2>3 DEF Deploy!Act
<1>4. /\ rows' \in Seq(Deploy!Row) /\ sites' \in Seq(Dispatches)
      /\ DOMAIN rows \subseteq DOMAIN rows' /\ DOMAIN sites \subseteq DOMAIN sites'
      /\ \A k \in DOMAIN sites : sites'[k] = sites[k]
      /\ \A i \in DOMAIN rows : rows'[i].by = rows[i].by
      /\ a = "prepare" => IsRowOf(Len(rows), d)'
      /\ a = "deploy" => \A u : u = Deploy!PublishedUrl => UrlFits(u, d)'
  BY <1>1, <1>2, <1>3, ActsFacts
<1> DEFINE result == IF a = "prepare" THEN Len(rows') ELSE run[d].result
           resultUrl == IF a = "deploy" THEN Deploy!PublishedUrl ELSE run[d].resultUrl
           r == [run[d] EXCEPT !.attempt = "acted", !.result = result, !.resultUrl = resultUrl]
<1>5. run' = [run EXCEPT ![d] = r]
  BY <1>1
<1>6. result \in Nat /\ resultUrl \in Deploy!Urls
  <2>1. Len(rows') \in Nat  BY <1>4
  <2>2. Deploy!PublishedUrl \in Deploy!Urls
    <3>1. Len(sites) + 1 \in Nat  BY DeployBasics DEF DeployInv
    <3>2. QED  BY <3>1 DEF Deploy!PublishedUrl, Deploy!SiteUrl, Deploy!Urls
  <2>3. QED  BY <1>2, <2>1, <2>2 DEF Deploy!Run
<1> HIDE DEF result, resultUrl
<1>7. /\ r.stage = a /\ r.attempt = "acted" /\ r.row = run[d].row /\ r.url = run[d].url
      /\ r.result = result /\ r.resultUrl = resultUrl /\ r \in Deploy!Run
  BY <1>2, <1>6 DEF Deploy!Run
<1> HIDE DEF r
<1>8. /\ run'[d] = r /\ run' \in [Dispatches -> Deploy!Run]
      /\ \A e \in Dispatches : e # d => run'[e] = run[e]
  BY <1>5, <1>7 DEF DeployInv, Deploy!TypeOK
<1>9. Spent(d, a)
  <2>1. IsFiniteSet(late') /\ \A e \in Dispatches : \A b : LateOf(e, b)' = LateOf(e, b)
    BY <1>1 DEF LateOf, DeployInv, CountsFit
  <2>2. SUFFICES ASSUME NEW e \in Dispatches, NEW b \in {"prepare", "deploy"}
                 PROVE  /\ MayAct(e, b)' \in Nat /\ MayAct(e, b)' <= MayAct(e, b)
                        /\ e = d /\ b = a => MayAct(e, b)' + 1 <= MayAct(e, b)
    BY <2>1 DEF Spent
  <2>3. Cardinality(LateOf(e, b)) \in Nat
    BY LateIsFinite DEF DeployInv, CountsFit
  <2>4. YetToAct(e, b)' => YetToAct(e, b)
    BY <1>1, <1>7, <1>8 DEF YetToAct
  <2>5. e = d /\ b = a => YetToAct(e, b) /\ ~YetToAct(e, b)'
    BY <1>1, <1>7, <1>8 DEF YetToAct
  <2>6. QED  BY <2>1, <2>3, <2>4, <2>5 DEF MayAct
<1>10. /\ Deploy!TypeOK' /\ LateKnow' /\ RowsFit' /\ CallsFollow' /\ CountsFit'
       /\ Deploy!ToldPreviewIsCurrent'
  <2>1. \A e \in Dispatches :
            /\ run'[e].stage = run[e].stage /\ run'[e].row = run[e].row /\ run'[e].url = run[e].url
            /\ run[e].stage = "finalize" /\ run'[e].attempt = "acted" =>
                  run[e].attempt = "acted" \/ (e = d /\ a = "finalize")
    BY <1>7, <1>8
  <2>2. a = "finalize" => run[d].stage \in Closing /\ (run[d].stage = "done" => run[d].row \in undone')
    BY DEF Closing
  <2>3. undone' = undone /\ undone' \subseteq DOMAIN rows /\ late' \subseteq late
    BY <1>1, <1>3 DEF DeployInv, Deploy!TypeOK
  <2>4. UNCHANGED <<target, artifact, call, tokens, retries, rotations, faults>>
    BY <1>1
  <2> HIDE DEF a
  <2>5. a \in Deploy!Activities  BY <1>1
  <2>6. QED  BY <1>2, <1>3, <1>8, <1>9, <2>1, <2>2, <2>3, <2>4, <2>5, EffectKeeps
<1>11. RunsKnow'
  <2>1. SUFFICES ASSUME NEW e \in Dispatches
                 PROVE  /\ run'[e].stage \notin Deploy!Activities => run'[e].attempt = "started"
                        /\ run'[e].stage = "prepare" /\ run'[e].attempt = "acted" => IsRowOf(run[e].result, e)'
                        /\ run'[e].stage \in {"deploy"} \cup Closing => IsRowOf(run[e].row, e)'
                        /\ run'[e].stage = "deploy" /\ run'[e].attempt = "acted" => UrlFits(run[e].resultUrl, e)'
                        /\ run'[e].stage \in Closing => UrlFits(run[e].url, e)'
    BY DEF RunsKnow
  <2>2. /\ run[e].stage \notin Deploy!Activities => run[e].attempt = "started"
        /\ run[e].stage = "prepare" /\ run[e].attempt = "acted" => IsRowOf(run[e].result, e)
        /\ run[e].stage \in {"deploy"} \cup Closing => IsRowOf(run[e].row, e)
        /\ run[e].stage = "deploy" /\ run[e].attempt = "acted" => UrlFits(run[e].resultUrl, e)
        /\ run[e].stage \in Closing => UrlFits(run[e].url, e)
    BY DEF DeployInv, RunsKnow
  <2>3. /\ \A i : IsRowOf(i, e) => i \in DOMAIN rows' /\ rows'[i].by = e
        /\ \A u : UrlFits(u, e) => /\ target.provider => {k \in DOMAIN sites' : sites'[k] = e} # {}
                                   /\ u[1] = "site" => u[2] \in {k \in DOMAIN sites' : sites'[k] = e}
    BY <1>1, <1>4 DEF IsRowOf, UrlFits, Deploy!SitesOf
  <2>4. CASE e # d
    BY <1>1, <1>8, <2>2, <2>3, <2>4 DEF IsRowOf, UrlFits, Deploy!SitesOf
  <2>5. CASE e = d
    <3>1. /\ run'[e].stage = a /\ run'[e].row = run[e].row /\ run'[e].url = run[e].url
          /\ run'[e].result = result /\ run'[e].resultUrl = resultUrl
      BY <1>7, <1>8, <2>5
    <3>2. a = "prepare" => result \in DOMAIN rows' /\ rows'[result].by = d
      BY <1>4 DEF IsRowOf, result
    <3>3. a = "deploy" => /\ target.provider => {k \in DOMAIN sites' : sites'[k] = d} # {}
                          /\ resultUrl[1] = "site" => resultUrl[2] \in {k \in DOMAIN sites' : sites'[k] = d}
      BY <1>1, <1>4 DEF UrlFits, Deploy!SitesOf, resultUrl
    <3>4. QED  BY <1>1, <2>2, <2>3, <2>5, <3>1, <3>2, <3>3 DEF IsRowOf, UrlFits, Deploy!SitesOf
  <2>6. QED  BY <2>4, <2>5
<1>12. QED  BY <1>10, <1>11 DEF DeployInv
LEMMA ActLateStep ==
    ASSUME DeployInv, NEW l \in late, Deploy!ActLate(l)
    PROVE  DeployInv'
<1>1. /\ l.by \in Dispatches /\ l.activity \in Deploy!Activities /\ l.row \in Nat /\ l.url \in Deploy!Urls
      /\ late' = late \ {l}
      /\ UNCHANGED <<target, artifact, run, call, tokens, retries, rotations, faults>>
  BY DEF DeployInv, Deploy!TypeOK, Deploy!ActLate, Deploy!Outside
<1>2. /\ Acts(l.by, l.activity, l.row, l.url)
      /\ undone \subseteq undone' /\ undone' \subseteq DOMAIN rows
      /\ l.activity = "finalize" => l.row \in undone'
  <2>1. undone \subseteq DOMAIN rows
    BY DEF DeployInv, Deploy!TypeOK
  <2>2. CASE l.activity = "prepare" /\ Deploy!Prepare(l.by)
    BY <2>1, <2>2 DEF Acts, Deploy!Prepare
  <2>3. CASE l.activity = "deploy" /\ Deploy!Publish(l.by)
    BY <2>1, <2>3 DEF Acts, Deploy!Publish
  <2>4. CASE /\ l.activity = "finalize"
             /\ \E i \in DOMAIN rows : Deploy!Completes(i, l.row)
             /\ rows' = [rows EXCEPT ![l.row].status = "succeeded", ![l.row].url = l.url]
             /\ undone' = undone \cup {l.row}
             /\ UNCHANGED sites
    <3>1. l.row \in DOMAIN rows /\ ~rows[l.row].deleted
      BY <2>4 DEF Deploy!Completes
    <3>2. QED  BY <2>1, <2>4, <3>1 DEF Acts
  <2>5. QED  BY <2>2, <2>3, <2>4 DEF Deploy!ActLate
<1>3. Spent(l.by, l.activity)
  <2>1. IsFiniteSet(late) /\ IsFiniteSet(late')
    BY <1>1, FS_RemoveElement DEF DeployInv, CountsFit
  <2>2. SUFFICES ASSUME NEW e \in Dispatches, NEW b \in {"prepare", "deploy"}
                 PROVE  /\ MayAct(e, b)' \in Nat /\ MayAct(e, b)' <= MayAct(e, b)
                        /\ e = l.by /\ b = l.activity => MayAct(e, b)' + 1 <= MayAct(e, b)
    BY <2>1 DEF Spent
  <2>3. YetToAct(e, b)' <=> YetToAct(e, b)
    BY <1>1 DEF YetToAct
  <2>4. Cardinality(LateOf(e, b)) \in Nat /\ IsFiniteSet(LateOf(e, b))
    BY <2>1, LateIsFinite
  <2>5. CASE e = l.by /\ b = l.activity
    <3>1. LateOf(e, b)' = LateOf(e, b) \ {l} /\ l \in LateOf(e, b)
      BY <1>1, <2>5 DEF LateOf
    <3>2. Cardinality(LateOf(e, b)') = Cardinality(LateOf(e, b)) - 1
      BY <2>4, <3>1, FS_RemoveElement
    <3>3. Cardinality(LateOf(e, b)') \in Nat
      BY <2>4, <3>1, FS_RemoveElement, FS_CardinalityType
    <3>4. QED  BY <2>3, <2>4, <3>2, <3>3 DEF MayAct
  <2>6. CASE ~(e = l.by /\ b = l.activity)
    <3>1. LateOf(e, b)' = LateOf(e, b)
      BY <1>1, <2>6 DEF LateOf
    <3>2. QED  BY <2>3, <2>4, <2>6, <3>1 DEF MayAct
  <2>7. QED  BY <2>5, <2>6
<1>4. l.activity = "finalize" => run[l.by].stage \in Closing /\ l.row = run[l.by].row /\ l.url = run[l.by].url
  BY DEF DeployInv, LateKnow
<1>5. \A e \in Dispatches :
          /\ run'[e].stage = run[e].stage /\ run'[e].row = run[e].row /\ run'[e].url = run[e].url
          /\ run[e].stage = "finalize" /\ run'[e].attempt = "acted" =>
                run[e].attempt = "acted" \/ (e = l.by /\ l.activity = "finalize")
  BY <1>1
<1>6. /\ Deploy!TypeOK' /\ LateKnow' /\ RowsFit' /\ CallsFollow' /\ CountsFit'
      /\ Deploy!ToldPreviewIsCurrent'
  <2>1. run' \in [Dispatches -> Deploy!Run] /\ late' \subseteq late
    BY <1>1 DEF DeployInv, Deploy!TypeOK
  <2>2. l.activity = "finalize" => /\ run[l.by].stage \in Closing /\ l.row = run[l.by].row /\ l.url = run[l.by].url
                                   /\ run[l.by].stage = "done" => l.row \in undone'
    BY <1>2, <1>4
  <2>3. UNCHANGED <<target, artifact, call, tokens, retries, rotations, faults>>
    BY <1>1
  <2>4. QED  BY <1>1, <1>2, <1>3, <1>5, <2>1, <2>2, <2>3, EffectKeeps
<1>7. RunsKnow'
  <2>1. /\ DOMAIN rows \subseteq DOMAIN rows' /\ DOMAIN sites \subseteq DOMAIN sites'
        /\ \A k \in DOMAIN sites : sites'[k] = sites[k]
        /\ \A i \in DOMAIN rows : rows'[i].by = rows[i].by
    BY <1>1, <1>2, ActsFacts
  <2>2. \A e \in Dispatches :
          /\ \A i : IsRowOf(i, e) => i \in DOMAIN rows' /\ rows'[i].by = e
          /\ \A u : UrlFits(u, e) => /\ target.provider => {k \in DOMAIN sites' : sites'[k] = e} # {}
                                     /\ u[1] = "site" => u[2] \in {k \in DOMAIN sites' : sites'[k] = e}
    BY <2>1 DEF IsRowOf, UrlFits, Deploy!SitesOf
  <2>3. QED  BY <1>1, <2>2 DEF DeployInv, RunsKnow, IsRowOf, UrlFits, Deploy!SitesOf
<1>8. QED  BY <1>6, <1>7 DEF DeployInv

LEMMA DeployInit == Deploy!Init => DeployInv
<1> SUFFICES ASSUME Deploy!Init PROVE DeployInv
  OBVIOUS
<1>1. Deploy!DeploymentsAssumption
  BY DeployConstants
<1>2. Deploy!TypeOK
  <2>1. Deploy!Unstarted \in Deploy!Run
    BY DEF Deploy!Unstarted, Deploy!Run, Deploy!Stages, Deploy!Urls, Deploy!NoUrl
  <2>2. [at |-> "idle", url |-> Deploy!NoUrl] \in Deploy!Call
    BY DEF Deploy!Call, Deploy!Urls, Deploy!NoUrl
  <2>3. QED  BY <1>1, <2>1, <2>2 DEF Deploy!Init, Deploy!TypeOK, Deploy!DeploymentsAssumption
<1>3. \A d \in Dispatches : run[d].stage = "idle" /\ run[d].attempt = "started" /\ call[d].at = "idle"
  BY DEF Deploy!Init, Deploy!Unstarted
<1>4. RunsKnow /\ LateKnow /\ RowsFit /\ CallsFollow
  BY <1>3 DEF Deploy!Init, RunsKnow, LateKnow, RowsFit, CallsFollow, Closing
<1>5. CountsFit
  <2>1. \A d \in Dispatches : \A a : LateOf(d, a) = {} /\ Deploy!RowsOf(d) = {} /\ Deploy!SitesOf(d) = {}
    BY DEF Deploy!Init, LateOf, Deploy!RowsOf, Deploy!SitesOf
  <2>2. \A d \in Dispatches : \A a \in Deploy!Activities : retries[d][a] = 0
    BY DEF Deploy!Init
  <2>3. "prepare" \in Deploy!Activities /\ "deploy" \in Deploy!Activities /\ faults = 0 /\ late = {}
    BY DEF Deploy!Activities, Deploy!Init
  <2>4. \A d \in Dispatches : \A a : MayAct(d, a) \in 0..1
    BY <2>1, FS_EmptySet DEF MayAct
  <2>5. QED  BY <2>1, <2>2, <2>3, <2>4, FS_EmptySet DEF CountsFit
<1>6. Deploy!ToldPreviewIsCurrent
  BY <1>3 DEF Deploy!ToldPreviewIsCurrent
<1>7. QED  BY <1>2, <1>4, <1>5, <1>6 DEF DeployInv

LEMMA DeployNext == DeployInv /\ [Deploy!Next]_deployVars => DeployInv'
<1>1. DeployInv /\ UNCHANGED deployVars => DeployInv'
  <2> SUFFICES ASSUME DeployInv, UNCHANGED deployVars PROVE DeployInv'
    OBVIOUS
  <2>1. UNCHANGED <<target, artifact, rows, sites, run, late, call, tokens, undone, retries, rotations, faults>>
    BY DEF deployVars
  <2>2. Deploy!TypeOK' /\ LateKnow' /\ CallsFollow' /\ Deploy!ToldPreviewIsCurrent'
    BY <2>1 DEF DeployInv, Deploy!TypeOK, LateKnow, CallsFollow, Deploy!ToldPreviewIsCurrent
  <2>3. RunsKnow'
    BY <2>1 DEF DeployInv, RunsKnow, IsRowOf, UrlFits, Deploy!SitesOf
  <2>4. RowsFit'
    BY <2>1 DEF DeployInv, RowsFit, Deploy!SitesOf
  <2>5. \A d \in Dispatches : \A a \in {"prepare", "deploy"} : YetToAct(d, a)' => YetToAct(d, a)
    BY <2>1 DEF YetToAct
  <2>6. RowsStay /\ faults' \in Nat /\ faults' >= faults
    BY <2>1 DEF RowsStay, DeployInv, Deploy!TypeOK
  <2>7. CountsFit'
    BY <2>1, <2>5, <2>6, CountsStay
  <2>8. QED  BY <2>2, <2>3, <2>4, <2>7 DEF DeployInv
<1>2. DeployInv /\ Deploy!Next => DeployInv'
  BY StartStep, ActStep, ReportStep, RetryStep, RequestStep, ActLateStep,
     DeleteStep DEF Deploy!Next
<1>3. QED  BY <1>1, <1>2

LEMMA DeployInvGives == DeployInv => Deploy!DeploymentsAreTrue
<1> SUFFICES ASSUME DeployInv PROVE Deploy!DeploymentsAreTrue
  OBVIOUS
<1>1. Deploy!RecordsAreHonest
  <2> SUFFICES ASSUME NEW d \in Dispatches
               PROVE  /\ \A i \in Deploy!RowsOf(d) :
                            /\ rows[i].status = "succeeded" =>
                                  /\ i = run[d].row
                                  /\ target.provider => Deploy!SitesOf(d) # {}
                            /\ rows[i].url[1] = "site" => rows[i].url[2] \in Deploy!SitesOf(d)
                      /\ Deploy!Cardinality(Deploy!RowsOf(d)) <= retries[d]["prepare"] + 1
                      /\ Deploy!Cardinality(Deploy!SitesOf(d)) <= retries[d]["deploy"] + 1
    BY DEF Deploy!RecordsAreHonest
  <2>1. ASSUME NEW i \in Deploy!RowsOf(d)
        PROVE  /\ rows[i].status = "succeeded" =>
                     i = run[d].row /\ (target.provider => Deploy!SitesOf(d) # {})
               /\ rows[i].url[1] = "site" => rows[i].url[2] \in Deploy!SitesOf(d)
    <3>1. i \in DOMAIN rows /\ rows[i].by = d
      BY DEF Deploy!RowsOf
    <3>2. run[d].stage \in Closing => UrlFits(run[d].url, d)
      BY DEF DeployInv, RunsKnow
    <3>3. QED  BY <3>1, <3>2 DEF DeployInv, RowsFit, UrlFits
  <2>2. /\ Cardinality(Deploy!RowsOf(d)) + MayAct(d, "prepare") <= retries[d]["prepare"] + 1
        /\ Cardinality(Deploy!SitesOf(d)) + MayAct(d, "deploy") <= retries[d]["deploy"] + 1
        /\ IsFiniteSet(late)
    BY DEF DeployInv, CountsFit
  <2>3. Cardinality(Deploy!RowsOf(d)) \in Nat /\ Cardinality(Deploy!SitesOf(d)) \in Nat
    BY DeployBasics, FS_CardinalityType DEF DeployInv
  <2>4. \A a : MayAct(d, a) \in Nat
    BY <2>2, LateIsFinite DEF MayAct
  <2>5. retries[d]["prepare"] \in Nat /\ retries[d]["deploy"] \in Nat
    BY DEF DeployInv, Deploy!TypeOK, Deploy!Activities
  <2>6. /\ Cardinality(Deploy!RowsOf(d)) <= retries[d]["prepare"] + 1
        /\ Cardinality(Deploy!SitesOf(d)) <= retries[d]["deploy"] + 1
    <3>1. MayAct(d, "prepare") \in Nat /\ MayAct(d, "deploy") \in Nat  BY <2>4
    <3>2. QED  BY <2>2, <2>3, <2>5, <3>1
  <2>7. \A S : Deploy!Cardinality(S) = Cardinality(S)
    BY Zenon DEF Deploy!Cardinality, Cardinality, Deploy!IsFiniteSet, IsFiniteSet
  <2>8. QED  BY <2>1, <2>6, <2>7
<1>2. QED  BY <1>1 DEF DeployInv, Deploy!DeploymentsAreTrue

\* Whatever attempts of its activities fail, time out or act late, and whenever the API dies,
\* a workflow completes the one row it was told of with a site made for it, leaves behind no
\* more than one row and one site for each retry, and the address its owner was told last
\* is the one in the row; for any number of dispatches, faults and rotations.
THEOREM DeploymentsStayTrue == WorkflowSpec => []DeploymentsAreTrue
<1>1. WorkflowInit => DeployInv
  BY DeployInit DEF WorkflowInit
<1>2. [WorkflowNext]_allVars => [Deploy!Next]_deployVars
  BY DEF WorkflowNext, allVars, GroupStep, DeployStep, VisualStep
<1>3. DeployInv /\ [WorkflowNext]_allVars => DeployInv'
  BY <1>2, DeployNext
<1>4. DeployInv => DeploymentsAreTrue
  BY DeployInvGives DEF DeploymentsAreTrue
<1>5. QED  BY <1>1, <1>3, <1>4, PTL DEF WorkflowSpec

-----------------------------------------------------------------------------
(***************************************************************************)
(* Visual workflows.  A row is written by one worker only, because an      *)
(* inserted run belongs to one call until its timer starts: that is the    *)
(* part of VisualInv that the invariants of the runs do not show.          *)
(***************************************************************************)
\* The run of a call in progress has a row and no worker yet, and no other call.
CallsOwnTheirRuns ==
    \A c \in Callers : execution[c].at = "inserted" =>
        /\ runs[execution[c].run] # Visual!NoRun
        /\ worker[execution[c].run].at = "none"
        /\ \A d \in Callers : execution[d].at = "inserted" /\ execution[d].run = execution[c].run => d = c

\* What a worker has done to the row of its run when it arrives at a point.
WorkersKeepTheirRows ==
    \A r \in Runs :
        /\ worker[r].at # "none" => runs[r] # Visual!NoRun
        /\ worker[r].at = "writes" /\ worker[r].node = NodeCount => r \in published
        /\ worker[r].at = "closes" => runs[r].status = "succeeded"
        /\ worker[r].at = "marks" => runs[r].status = "failed"

\* The status of the workflow was written by a worker that has ended since.
EndedWorkersSetTheStatus ==
    /\ pageStatus = "succeeded" =>
          \E r \in Runs : runs[r].status = "succeeded" /\ worker[r].at = "ended"
    /\ pageStatus = "failed" =>
          \E r \in Runs : runs[r].status = "failed" /\ worker[r].at = "ended"

VisualInv ==
    /\ Visual!TypeOK
    /\ CallsOwnTheirRuns
    /\ WorkersKeepTheirRows
    /\ Visual!RunTellsItsNodes
    /\ EndedWorkersSetTheStatus
    /\ Visual!RunningMeansAWorker

-----------------------------------------------------------------------------
\* A run that has not been inserted has no status a run can have.
LEMMA FreeIsNoStatus == Visual!NoRun.status = "free" /\ Visual!NoRun \notin Visual!RunRows
  BY DEF Visual!NoRun, Visual!RunRows, Visual!RunStatuses

LEMMA NodesAtType ==
  ASSUME NEW n \in Visual!Nodes, NEW s \in Visual!NodeStatuses
  PROVE  Visual!NodesAt(n, s) \in [Visual!Nodes -> Visual!NodeStatuses]
  BY DEF Visual!NodesAt, Visual!NodeStatuses

LEMMA VisualInitInv == Visual!Init => VisualInv
  <1> SUFFICES ASSUME Visual!Init PROVE VisualInv
    OBVIOUS
  <1>1. Visual!TypeOK
    BY VisualConstants DEF Visual!VisualBounds, Visual!Init, Visual!TypeOK,
       Visual!WorkflowStatuses, Visual!Calls, Visual!Idle, Visual!Workers, Visual!Nodes
  <1>2. CallsOwnTheirRuns /\ WorkersKeepTheirRows
    BY DEF Visual!Init, CallsOwnTheirRuns, WorkersKeepTheirRows, Visual!Idle
  <1>3. Visual!RunTellsItsNodes
    BY DEF Visual!Init, Visual!RunTellsItsNodes
  <1>4. EndedWorkersSetTheStatus /\ Visual!RunningMeansAWorker
    BY DEF Visual!Init, EndedWorkersSetTheStatus, Visual!RunningMeansAWorker
  <1> QED BY <1>1, <1>2, <1>3, <1>4 DEF VisualInv

\* The steps of the calls of execute and of the users.
LEMMA CallerStep ==
  ASSUME VisualInv, NEW c \in Callers, Visual!Check(c) \/ Visual!Execute(c) \/ Visual!CallFails(c)
  PROVE  VisualInv'
  <1> USE DEF VisualInv
  <1>1. CASE Visual!Check(c)
    <2>1. Visual!TypeOK'
      BY <1>1 DEF Visual!Check, Visual!TypeOK, Visual!Calls
    <2>2. CallsOwnTheirRuns'
      BY <1>1 DEF Visual!Check, Visual!TypeOK, CallsOwnTheirRuns
    <2>3. (WorkersKeepTheirRows /\ Visual!RunTellsItsNodes /\ EndedWorkersSetTheStatus
            /\ Visual!RunningMeansAWorker)'
      BY <1>1 DEF Visual!Check, WorkersKeepTheirRows, Visual!RunTellsItsNodes,
                  EndedWorkersSetTheStatus, Visual!RunningMeansAWorker, Visual!Live
    <2> QED BY <2>1, <2>2, <2>3
  <1>2. CASE \E r \in Runs : Visual!Insert(c, r)
    <2> PICK r \in Runs : Visual!Insert(c, r)
      BY <1>2
    <2> DEFINE fresh == [status |-> "queued", artifact |-> FALSE,
                         nodes |-> [n \in Visual!Nodes |-> "waiting"]]
    <2>1. /\ fresh \in Visual!RunRows
          /\ fresh.status = "queued" /\ fresh.artifact = FALSE
      BY DEF Visual!RunRows, Visual!RunStatuses, Visual!NodeStatuses
    <2>2. /\ runs' = [runs EXCEPT ![r] = fresh]
          /\ execution' = [execution EXCEPT ![c] = [at |-> "inserted", run |-> r]]
          /\ runs[r] = Visual!NoRun /\ execution[c].at = "checked"
          /\ UNCHANGED <<pageStatus, worker, published, crashes>>
      BY DEF Visual!Insert
    <2> HIDE DEF fresh
    <2>3. fresh # Visual!NoRun
      BY <2>1, FreeIsNoStatus
    <2>4. worker[r].at = "none"
      BY <2>2 DEF WorkersKeepTheirRows
    <2>5. Visual!TypeOK'
      BY <2>1, <2>2 DEF Visual!TypeOK, Visual!Calls
    <2>6. CallsOwnTheirRuns'
      <3> SUFFICES ASSUME NEW d \in Callers, execution'[d].at = "inserted"
                   PROVE  /\ runs'[execution'[d].run] # Visual!NoRun
                          /\ worker'[execution'[d].run].at = "none"
                          /\ \A e \in Callers : execution'[e].at = "inserted"
                                /\ execution'[e].run = execution'[d].run => e = d
        BY DEF CallsOwnTheirRuns
      <3>1. \A e \in Callers \ {c} : execution'[e] = execution[e]
        BY <2>2 DEF Visual!TypeOK
      <3>2. execution'[c].at = "inserted" /\ execution'[c].run = r
        BY <2>2 DEF Visual!TypeOK
      <3>3. \A e \in Callers \ {c} : execution[e].at = "inserted" =>
               execution[e].run # r /\ execution[e].run \in Runs
        BY <2>2 DEF CallsOwnTheirRuns, Visual!TypeOK, Visual!Calls
      <3>4. CASE d = c
        BY <2>2, <2>3, <2>4, <3>1, <3>2, <3>3, <3>4 DEF Visual!TypeOK
      <3>5. CASE d # c
        BY <2>2, <3>1, <3>2, <3>3, <3>5 DEF Visual!TypeOK, CallsOwnTheirRuns
      <3> QED BY <3>4, <3>5
    <2>7. WorkersKeepTheirRows'
      BY <2>2, <2>3, <2>4 DEF Visual!TypeOK, WorkersKeepTheirRows
    <2>8. Visual!RunTellsItsNodes'
      BY <2>1, <2>2 DEF Visual!TypeOK, Visual!RunTellsItsNodes
    <2>9. (EndedWorkersSetTheStatus /\ Visual!RunningMeansAWorker)'
      BY <2>2, <2>4 DEF Visual!TypeOK, EndedWorkersSetTheStatus, Visual!RunningMeansAWorker,
         Visual!Live, Visual!LiveAt
    <2> QED BY <2>5, <2>6, <2>7, <2>8, <2>9
  <1>3. CASE Visual!MarkRunning(c)
    <2> DEFINE r == execution[c].run
    <2>1. /\ r \in Runs /\ runs[r] # Visual!NoRun /\ worker[r].at = "none"
          /\ \A d \in Callers \ {c} : execution[d].at = "inserted" => execution[d].run # r
      BY <1>3 DEF Visual!MarkRunning, Visual!TypeOK, Visual!Calls, CallsOwnTheirRuns
    <2>2. /\ pageStatus' = "running"
          /\ worker' = [worker EXCEPT ![r].at = "starting"]
          /\ execution' = [execution EXCEPT ![c] = Visual!Idle]
          /\ UNCHANGED <<runs, published, crashes>>
      BY <1>3 DEF Visual!MarkRunning, Visual!Goto
    <2> HIDE DEF r
    <2>3. /\ worker'[r].at = "starting"
          /\ \A q \in Runs \ {r} : worker'[q] = worker[q]
      BY <2>1, <2>2 DEF Visual!TypeOK, Visual!Workers
    <2>4. Visual!TypeOK'
      BY <2>1, <2>2 DEF Visual!TypeOK, Visual!Calls, Visual!Idle, Visual!WorkflowStatuses,
         Visual!Workers, Visual!LiveAt
    <2>5. CallsOwnTheirRuns'
      BY <2>1, <2>2, <2>3 DEF Visual!TypeOK, Visual!Calls, Visual!Idle, CallsOwnTheirRuns
    <2>6. (WorkersKeepTheirRows /\ Visual!RunTellsItsNodes)'
      BY <2>1, <2>2, <2>3 DEF WorkersKeepTheirRows, Visual!RunTellsItsNodes
    <2>7. (EndedWorkersSetTheStatus /\ Visual!RunningMeansAWorker)'
      BY <2>1, <2>2, <2>3 DEF EndedWorkersSetTheStatus, Visual!RunningMeansAWorker,
         Visual!Live, Visual!LiveAt
    <2> QED BY <2>4, <2>5, <2>6, <2>7
  <1>4. CASE Visual!CallFails(c)
    <2>1. Visual!TypeOK'
      BY <1>4 DEF Visual!CallFails, Visual!Fault, Visual!TypeOK, Visual!Calls, Visual!Idle
    <2>2. CallsOwnTheirRuns'
      BY <1>4 DEF Visual!CallFails, Visual!TypeOK, CallsOwnTheirRuns, Visual!Idle
    <2>3. (WorkersKeepTheirRows /\ Visual!RunTellsItsNodes /\ EndedWorkersSetTheStatus
            /\ Visual!RunningMeansAWorker)'
      BY <1>4 DEF Visual!CallFails, WorkersKeepTheirRows, Visual!RunTellsItsNodes,
                  EndedWorkersSetTheStatus, Visual!RunningMeansAWorker, Visual!Live
    <2> QED BY <2>1, <2>2, <2>3
  <1> QED BY <1>1, <1>2, <1>3, <1>4 DEF Visual!Execute

-----------------------------------------------------------------------------
\* A live worker's run belongs to no call, so calls do not see the worker's steps.
LEMMA WorkerFrame ==
  ASSUME VisualInv, NEW r \in Runs, Visual!Live(r),
         \A q \in Runs \ {r} : worker'[q] = worker[q] /\ runs'[q] = runs[q],
         runs'[r] # Visual!NoRun, execution' = execution
  PROVE  CallsOwnTheirRuns'
  <1>1. \A c \in Callers : execution[c].at = "inserted" => execution[c].run \in Runs \ {r}
    BY DEF VisualInv, Visual!TypeOK, Visual!Calls, CallsOwnTheirRuns, Visual!Live, Visual!LiveAt
  <1> QED BY <1>1 DEF VisualInv, CallsOwnTheirRuns

\* A step that moves the worker of r and writes at most the row of r.
LEMMA WorkerMoves ==
  ASSUME VisualInv, NEW r \in Runs, NEW at \in Visual!LiveAt \cup {"ended", "lost"},
         Visual!Live(r), Visual!Goto(r, at)
  PROVE  /\ worker' \in [Runs -> Visual!Workers]
         /\ worker'[r].at = at /\ worker'[r].node = worker[r].node
         /\ \A q \in Runs \ {r} : worker'[q] = worker[q]
         /\ runs[r] # Visual!NoRun /\ worker[r].node \in Visual!Nodes
  BY DEF VisualInv, Visual!TypeOK, Visual!Workers, Visual!Goto, Visual!Live, Visual!LiveAt,
     WorkersKeepTheirRows

LEMMA RowWritten ==
  ASSUME VisualInv, NEW r \in Runs, runs[r] # Visual!NoRun,
         NEW s \in Visual!RunStatuses, NEW n \in Visual!Nodes, NEW state \in Visual!NodeStatuses,
         Visual!WriteRun(r, s, n, state)
  PROVE  /\ runs' \in [Runs -> Visual!RunRows \cup {Visual!NoRun}]
         /\ runs'[r] \in Visual!RunRows
         /\ runs'[r].status = s /\ runs'[r].nodes = Visual!NodesAt(n, state)
         /\ runs'[r].artifact = runs[r].artifact
         /\ \A q \in Runs \ {r} : runs'[q] = runs[q]
  <1>1. runs \in [Runs -> Visual!RunRows \cup {Visual!NoRun}] /\ runs[r] \in Visual!RunRows
    BY DEF VisualInv, Visual!TypeOK
  <1>2. Visual!NodesAt(n, state) \in [Visual!Nodes -> Visual!NodeStatuses]
    BY NodesAtType
  <1> DEFINE new == [status |-> s, nodes |-> Visual!NodesAt(n, state), artifact |-> runs[r].artifact]
  <1>3. runs' = [runs EXCEPT ![r] = new]
    BY DEF Visual!WriteRun
  <1>4. new \in Visual!RunRows /\ new.status = s /\ new.nodes = Visual!NodesAt(n, state)
        /\ new.artifact = runs[r].artifact
    BY <1>1, <1>2 DEF Visual!RunRows
  <1> HIDE DEF new
  <1> QED BY <1>1, <1>3, <1>4

\* What a step of a worker that does not write the status leaves true.
LEMMA WorkerKeepsTheStatus ==
  ASSUME VisualInv, NEW r \in Runs, Visual!Live(r), pageStatus' = pageStatus,
         \A q \in Runs \ {r} : worker'[q] = worker[q] /\ runs'[q] = runs[q],
         worker'[r].at \in Visual!LiveAt \cup {"lost"}
  PROVE  (EndedWorkersSetTheStatus /\ Visual!RunningMeansAWorker)'
  <1>1. \A q \in Runs : worker[q].at = "ended" => q # r
    BY DEF Visual!Live, Visual!LiveAt
  <1>2. EndedWorkersSetTheStatus'
    BY <1>1 DEF VisualInv, EndedWorkersSetTheStatus
  <1>3. Visual!RunningMeansAWorker'
    BY DEF Visual!RunningMeansAWorker, VisualInv, Visual!Live
  <1> QED BY <1>2, <1>3

\* The steps of a worker.
LEMMA WorkerStep ==
  ASSUME VisualInv, NEW r \in Runs, Visual!ProcessRun(r) \/ Visual!Throws(r) \/ Visual!Vanishes(r)
  PROVE  VisualInv'
  <1>0. /\ Visual!TypeOK /\ WorkersKeepTheirRows /\ Visual!RunTellsItsNodes
        /\ runs \in [Runs -> Visual!RunRows \cup {Visual!NoRun}] /\ published \in SUBSET Runs
    BY DEF VisualInv, Visual!TypeOK
  <1>1. CASE \/ Visual!LoadDefinition(r) \/ Visual!Throws(r) \/ Visual!Vanishes(r)
    <2>1. PICK at \in Visual!LiveAt \cup {"lost"} :
            /\ at \notin {"writes", "closes", "marks"}
            /\ Visual!Goto(r, at) /\ Visual!Live(r)
            /\ UNCHANGED <<pageStatus, runs, execution, published>>
            /\ crashes' \in Nat
      BY <1>1, <1>0 DEF Visual!LoadDefinition, Visual!Throws, Visual!Vanishes, Visual!Live,
         Visual!LiveAt, Visual!Fault, Visual!TypeOK
    <2>2. /\ worker' \in [Runs -> Visual!Workers]
          /\ worker'[r].at = at
          /\ \A q \in Runs \ {r} : worker'[q] = worker[q]
          /\ runs[r] # Visual!NoRun
      BY <2>1, WorkerMoves
    <2>3. Visual!TypeOK'
      BY <1>0, <2>1, <2>2 DEF Visual!TypeOK
    <2>4. CallsOwnTheirRuns' /\ (EndedWorkersSetTheStatus /\ Visual!RunningMeansAWorker)'
      BY <2>1, <2>2, WorkerFrame, WorkerKeepsTheStatus
    <2>5. (WorkersKeepTheirRows /\ Visual!RunTellsItsNodes)'
      BY <1>0, <2>1, <2>2 DEF WorkersKeepTheirRows, Visual!RunTellsItsNodes
    <2> QED BY <2>3, <2>4, <2>5 DEF VisualInv
  <1>2. CASE Visual!BeginNode(r)
    <2>1. /\ Visual!WriteRun(r, "running", worker[r].node, "running")
          /\ Visual!Goto(r, "works") /\ Visual!Live(r)
          /\ UNCHANGED <<pageStatus, execution, published, crashes>>
      BY <1>2 DEF Visual!BeginNode, Visual!Live, Visual!LiveAt
    <2>2. /\ worker' \in [Runs -> Visual!Workers]
          /\ worker'[r].at = "works"
          /\ \A q \in Runs \ {r} : worker'[q] = worker[q]
          /\ runs[r] # Visual!NoRun /\ worker[r].node \in Visual!Nodes
      BY <2>1, WorkerMoves DEF Visual!LiveAt
    <2>3. /\ runs' \in [Runs -> Visual!RunRows \cup {Visual!NoRun}]
          /\ runs'[r] \in Visual!RunRows /\ runs'[r].status = "running"
          /\ runs'[r].artifact = runs[r].artifact
          /\ \A q \in Runs \ {r} : runs'[q] = runs[q]
      BY <2>1, <2>2, RowWritten DEF Visual!RunStatuses, Visual!NodeStatuses
    <2>4. Visual!TypeOK'
      BY <1>0, <2>1, <2>2, <2>3 DEF Visual!TypeOK
    <2>5. CallsOwnTheirRuns' /\ (EndedWorkersSetTheStatus /\ Visual!RunningMeansAWorker)'
      BY <2>1, <2>2, <2>3, FreeIsNoStatus, WorkerFrame, WorkerKeepsTheStatus DEF Visual!LiveAt
    <2>6. (WorkersKeepTheirRows /\ Visual!RunTellsItsNodes)'
      BY <1>0, <2>1, <2>2, <2>3, FreeIsNoStatus DEF WorkersKeepTheirRows,
         Visual!RunTellsItsNodes
    <2> QED BY <2>4, <2>5, <2>6 DEF VisualInv
  <1>3. CASE Visual!Work(r)
    <2>1. /\ published' = IF worker[r].node = NodeCount THEN published \cup {r} ELSE published
          /\ Visual!Goto(r, "writes") /\ Visual!Live(r)
          /\ UNCHANGED <<pageStatus, runs, execution, crashes>>
      BY <1>3 DEF Visual!Work, Visual!Live, Visual!LiveAt
    <2>2. /\ worker' \in [Runs -> Visual!Workers]
          /\ worker'[r].at = "writes" /\ worker'[r].node = worker[r].node
          /\ \A q \in Runs \ {r} : worker'[q] = worker[q]
          /\ runs[r] # Visual!NoRun
      BY <2>1, WorkerMoves DEF Visual!LiveAt
    <2>3. Visual!TypeOK'
      BY <1>0, <2>1, <2>2 DEF Visual!TypeOK
    <2>4. CallsOwnTheirRuns' /\ (EndedWorkersSetTheStatus /\ Visual!RunningMeansAWorker)'
      BY <2>1, <2>2, WorkerFrame, WorkerKeepsTheStatus DEF Visual!LiveAt
    <2>5. (WorkersKeepTheirRows /\ Visual!RunTellsItsNodes)'
      BY <1>0, <2>1, <2>2 DEF WorkersKeepTheirRows, Visual!RunTellsItsNodes
    <2> QED BY <2>3, <2>4, <2>5 DEF VisualInv
  <1>4. CASE Visual!FinishNode(r)
    <2>1. /\ Visual!WriteRun(r, "running", worker[r].node, "succeeded") /\ Visual!Live(r)
          /\ worker' = [worker EXCEPT ![r] = [at |-> "begins", node |-> worker[r].node + 1]]
          /\ worker[r].node < NodeCount
          /\ UNCHANGED <<pageStatus, execution, published, crashes>>
      BY <1>4 DEF Visual!FinishNode, Visual!Live, Visual!LiveAt
    <2>2. runs[r] # Visual!NoRun /\ worker[r].node \in Visual!Nodes /\ worker[r].node + 1 \in Visual!Nodes
      BY <1>0, <2>1, VisualConstants DEF Visual!VisualBounds, Visual!TypeOK, Visual!Workers,
         Visual!Nodes, WorkersKeepTheirRows, Visual!Live, Visual!LiveAt
    <2>3. /\ worker' \in [Runs -> Visual!Workers]
          /\ worker'[r].at = "begins"
          /\ \A q \in Runs \ {r} : worker'[q] = worker[q]
      BY <1>0, <2>1, <2>2 DEF Visual!TypeOK, Visual!Workers, Visual!LiveAt
    <2>4. /\ runs' \in [Runs -> Visual!RunRows \cup {Visual!NoRun}]
          /\ runs'[r] \in Visual!RunRows /\ runs'[r].status = "running"
          /\ runs'[r].artifact = runs[r].artifact
          /\ \A q \in Runs \ {r} : runs'[q] = runs[q]
      BY <2>1, <2>2, RowWritten DEF Visual!RunStatuses, Visual!NodeStatuses
    <2>5. Visual!TypeOK'
      BY <1>0, <2>1, <2>3, <2>4 DEF Visual!TypeOK
    <2>6. CallsOwnTheirRuns' /\ (EndedWorkersSetTheStatus /\ Visual!RunningMeansAWorker)'
      BY <2>1, <2>3, <2>4, FreeIsNoStatus, WorkerFrame, WorkerKeepsTheStatus DEF Visual!LiveAt
    <2>7. (WorkersKeepTheirRows /\ Visual!RunTellsItsNodes)'
      BY <1>0, <2>1, <2>2, <2>3, <2>4, FreeIsNoStatus DEF WorkersKeepTheirRows,
         Visual!RunTellsItsNodes
    <2> QED BY <2>5, <2>6, <2>7 DEF VisualInv
  <1>5. CASE Visual!FinishRun(r)
    <2> DEFINE new == [status |-> "succeeded", artifact |-> TRUE,
                       nodes |-> Visual!NodesAt(NodeCount, "succeeded")]
    <2>1. /\ runs' = [runs EXCEPT ![r] = new]
          /\ Visual!Goto(r, "closes") /\ Visual!Live(r) /\ r \in published
          /\ UNCHANGED <<pageStatus, execution, published, crashes>>
      BY <1>5, <1>0 DEF Visual!FinishRun, Visual!Live, Visual!LiveAt, WorkersKeepTheirRows
    <2>2. new \in Visual!RunRows /\ new.status = "succeeded" /\ new.artifact
          /\ new.nodes = Visual!NodesAt(NodeCount, "succeeded")
      BY NodesAtType, VisualConstants DEF Visual!VisualBounds, Visual!RunRows,
         Visual!RunStatuses, Visual!Nodes, Visual!NodeStatuses
    <2> HIDE DEF new
    <2>3. /\ worker' \in [Runs -> Visual!Workers]
          /\ worker'[r].at = "closes"
          /\ \A q \in Runs \ {r} : worker'[q] = worker[q]
      BY <2>1, WorkerMoves DEF Visual!LiveAt
    <2>4. /\ runs' \in [Runs -> Visual!RunRows \cup {Visual!NoRun}] /\ runs'[r] = new
          /\ \A q \in Runs \ {r} : runs'[q] = runs[q]
      BY <1>0, <2>1, <2>2
    <2>5. Visual!TypeOK'
      BY <1>0, <2>1, <2>3, <2>4 DEF Visual!TypeOK
    <2>6. CallsOwnTheirRuns' /\ (EndedWorkersSetTheStatus /\ Visual!RunningMeansAWorker)'
      BY <2>1, <2>2, <2>3, <2>4, FreeIsNoStatus, WorkerFrame,
         WorkerKeepsTheStatus DEF Visual!LiveAt
    <2>7. (WorkersKeepTheirRows /\ Visual!RunTellsItsNodes)'
      BY <1>0, <2>1, <2>2, <2>3, <2>4, FreeIsNoStatus DEF WorkersKeepTheirRows,
         Visual!RunTellsItsNodes
    <2> QED BY <2>5, <2>6, <2>7 DEF VisualInv
  <1>6. CASE Visual!FailRun(r)
    <2>1. /\ Visual!WriteRun(r, "failed", worker[r].node, "failed")
          /\ Visual!Goto(r, "marks") /\ Visual!Live(r)
          /\ UNCHANGED <<pageStatus, execution, published, crashes>>
      BY <1>6 DEF Visual!FailRun, Visual!Live, Visual!LiveAt
    <2>2. /\ worker' \in [Runs -> Visual!Workers]
          /\ worker'[r].at = "marks"
          /\ \A q \in Runs \ {r} : worker'[q] = worker[q]
          /\ runs[r] # Visual!NoRun /\ worker[r].node \in Visual!Nodes
      BY <2>1, WorkerMoves DEF Visual!LiveAt
    <2>3. /\ runs' \in [Runs -> Visual!RunRows \cup {Visual!NoRun}]
          /\ runs'[r] \in Visual!RunRows /\ runs'[r].status = "failed"
          /\ runs'[r].nodes = Visual!NodesAt(worker[r].node, "failed")
          /\ runs'[r].artifact = runs[r].artifact
          /\ \A q \in Runs \ {r} : runs'[q] = runs[q]
      BY <2>1, <2>2, RowWritten DEF Visual!RunStatuses, Visual!NodeStatuses
    <2>4. Visual!TypeOK'
      BY <1>0, <2>1, <2>2, <2>3 DEF Visual!TypeOK
    <2>5. CallsOwnTheirRuns' /\ (EndedWorkersSetTheStatus /\ Visual!RunningMeansAWorker)'
      BY <2>1, <2>2, <2>3, FreeIsNoStatus, WorkerFrame, WorkerKeepsTheStatus DEF Visual!LiveAt
    <2>6. (WorkersKeepTheirRows /\ Visual!RunTellsItsNodes)'
      BY <1>0, <2>1, <2>2, <2>3, FreeIsNoStatus DEF WorkersKeepTheirRows,
         Visual!RunTellsItsNodes
    <2> QED BY <2>4, <2>5, <2>6 DEF VisualInv
  <1>7. CASE Visual!FinishWorkflow(r) \/ Visual!FailWorkflow(r)
    <2>1. /\ Visual!Goto(r, "ended") /\ Visual!Live(r)
          /\ \/ pageStatus' = "succeeded" /\ runs[r].status = "succeeded"
             \/ pageStatus' = "failed" /\ runs[r].status = "failed"
          /\ UNCHANGED <<runs, execution, published, crashes>>
      BY <1>7, <1>0 DEF Visual!FinishWorkflow, Visual!FailWorkflow, Visual!Live, Visual!LiveAt,
         WorkersKeepTheirRows
    <2>2. /\ worker' \in [Runs -> Visual!Workers]
          /\ worker'[r].at = "ended"
          /\ \A q \in Runs \ {r} : worker'[q] = worker[q]
          /\ runs[r] # Visual!NoRun
      BY <2>1, WorkerMoves
    <2>3. Visual!TypeOK'
      BY <1>0, <2>1, <2>2 DEF Visual!TypeOK, Visual!WorkflowStatuses
    <2>4. CallsOwnTheirRuns'
      BY <2>1, <2>2, WorkerFrame
    <2>5. (EndedWorkersSetTheStatus /\ Visual!RunningMeansAWorker)'
      BY <2>1, <2>2 DEF EndedWorkersSetTheStatus, Visual!RunningMeansAWorker
    <2>6. (WorkersKeepTheirRows /\ Visual!RunTellsItsNodes)'
      BY <1>0, <2>1, <2>2 DEF WorkersKeepTheirRows, Visual!RunTellsItsNodes
    <2> QED BY <2>3, <2>4, <2>5, <2>6 DEF VisualInv
  <1> QED BY <1>1, <1>2, <1>3, <1>4, <1>5, <1>6, <1>7 DEF Visual!ProcessRun

\* Users who cancel or regenerate, and a crash of the API.
LEMMA OtherStep ==
  ASSUME VisualInv, Visual!Regenerate \/ Visual!Cancel \/ Visual!ApiCrash
  PROVE  VisualInv'
  <1> USE DEF VisualInv
  <1>1. CASE Visual!Regenerate \/ Visual!Cancel
    <2>1. Visual!TypeOK'
      BY <1>1 DEF Visual!Regenerate, Visual!Cancel, Visual!TypeOK, Visual!WorkflowStatuses
    <2>2. (CallsOwnTheirRuns /\ WorkersKeepTheirRows /\ Visual!RunTellsItsNodes)'
      BY <1>1 DEF Visual!Regenerate, Visual!Cancel, CallsOwnTheirRuns, WorkersKeepTheirRows,
         Visual!RunTellsItsNodes
    <2>3. (EndedWorkersSetTheStatus /\ Visual!RunningMeansAWorker)'
      BY <1>1 DEF Visual!Regenerate, Visual!Cancel, EndedWorkersSetTheStatus,
         Visual!RunningMeansAWorker
    <2> QED BY <2>1, <2>2, <2>3
  <1>2. CASE Visual!ApiCrash
    <2>1. /\ execution' = [c \in Callers |-> Visual!Idle]
          /\ worker' = [r \in Runs |-> IF Visual!Live(r) THEN [worker[r] EXCEPT !.at = "lost"]
                                                ELSE worker[r]]
          /\ UNCHANGED <<pageStatus, runs, published>>
          /\ crashes' \in Nat
      BY <1>2 DEF Visual!ApiCrash, Visual!Fault, Visual!TypeOK
    <2>2. \A r \in Runs : /\ worker'[r] \in Visual!Workers
                          /\ Visual!Live(r) => worker'[r].at = "lost"
                          /\ ~Visual!Live(r) => worker'[r] = worker[r]
      BY <2>1 DEF Visual!TypeOK, Visual!Workers
    <2>3. Visual!TypeOK'
      BY <2>1, <2>2 DEF Visual!TypeOK, Visual!Calls, Visual!Idle
    <2>4. CallsOwnTheirRuns'
      BY <2>1 DEF CallsOwnTheirRuns, Visual!Idle
    <2>5. (WorkersKeepTheirRows /\ Visual!RunTellsItsNodes)'
      BY <2>1, <2>2 DEF WorkersKeepTheirRows, Visual!RunTellsItsNodes, Visual!Live,
         Visual!LiveAt
    <2>6. (EndedWorkersSetTheStatus /\ Visual!RunningMeansAWorker)'
      BY <2>1, <2>2 DEF EndedWorkersSetTheStatus, Visual!RunningMeansAWorker, Visual!Live,
         Visual!LiveAt
    <2> QED BY <2>3, <2>4, <2>5, <2>6
  <1> QED BY <1>1, <1>2

LEMMA VisualStepInv == VisualInv /\ [Visual!Next]_visualVars => VisualInv'
  <1> SUFFICES ASSUME VisualInv, [Visual!Next]_visualVars PROVE VisualInv'
    OBVIOUS
  <1>1. CASE Visual!Next
    BY <1>1, CallerStep, WorkerStep, OtherStep DEF Visual!Next
  <1>2. CASE UNCHANGED visualVars
    BY <1>2 DEF visualVars, VisualInv, Visual!TypeOK, CallsOwnTheirRuns, WorkersKeepTheirRows,
                Visual!RunTellsItsNodes, EndedWorkersSetTheStatus, Visual!RunningMeansAWorker,
                Visual!Live
  <1> QED BY <1>1, <1>2

\* A step of any workflow is a step of the visual one or leaves it alone.
LEMMA VisualSteps == [WorkflowNext]_allVars => [Visual!Next]_visualVars
  BY DEF WorkflowNext, allVars, GroupStep, DeployStep, VisualStep

LEMMA VisualInvariance == WorkflowSpec => []VisualInv
  <1>1. WorkflowInit => VisualInv
    BY VisualInitInv DEF WorkflowInit
  <1>2. VisualInv /\ [WorkflowNext]_allVars => VisualInv'
    BY VisualSteps, VisualStepInv
  <1> QED BY <1>1, <1>2, PTL DEF WorkflowSpec

-----------------------------------------------------------------------------
\* processRun leaves a run whose status, nodes and artifact tell one story, wherever
\* it throws, also after it has recorded the run as succeeded.
THEOREM RunsTellTheirNodes == WorkflowSpec => []RunTellsItsNodes
  <1>1. VisualInv => RunTellsItsNodes
    BY DEF VisualInv, RunTellsItsNodes
  <1> QED BY <1>1, VisualInvariance, PTL

\* However many runs overlap, no order of their final updates leaves the workflow
\* running without a worker that will change it or was taken away by a fault.
THEOREM RunningHasAWorker == WorkflowSpec => []RunningMeansAWorker
  <1>1. VisualInv => RunningMeansAWorker
    BY DEF VisualInv, RunningMeansAWorker
  <1> QED BY <1>1, VisualInvariance, PTL

\* However many runs overlap, the status of the workflow is one that a run earned.
THEOREM StatusesAreEarned == WorkflowSpec => []StatusIsEarned
  <1>1. VisualInv => Visual!StatusIsEarned
    BY DEF VisualInv, Visual!StatusIsEarned, EndedWorkersSetTheStatus,
       Visual!RunningMeansAWorker,
           WorkersKeepTheirRows, Visual!Live, Visual!LiveAt
  <1>2. VisualInv => StatusIsEarned
    BY <1>1 DEF StatusIsEarned
  <1> QED BY <1>2, VisualInvariance, PTL
-----------------------------------------------------------------------------
(***************************************************************************)
(* OneRunPerCaller is not inductive: a caller past its check is about to   *)
(* add a run.  What the check bounds are the active runs together with the *)
(* callers that hold a check, and a worker only writes a row that is still *)
(* active, so that no run comes back.                                      *)
(***************************************************************************)
ActiveRuns == {r \in Runs : Visual!Active(r)}
Checked == {c \in Callers : execution[c].at = "checked"}

ChecksBoundRuns ==
    /\ IsFiniteSet(ActiveRuns)
    /\ Cardinality(ActiveRuns) + Cardinality(Checked) <= Cardinality(Callers)

OpenWorkersAreActive ==
    \A r \in Runs :
        worker[r].at \in {"starting", "begins", "works", "writes"} => Visual!Active(r)

OpenCallsAreActive ==
    \A c \in Callers : execution[c].at = "inserted" => Visual!Active(execution[c].run)

FewInv == ChecksBoundRuns /\ OpenWorkersAreActive /\ OpenCallsAreActive

LEMMA CallersAreFinite == IsFiniteSet(Callers)
  <1>1. \A S : Visual!IsFiniteSet(S) <=> IsFiniteSet(S)
    BY Zenon DEF Visual!IsFiniteSet, IsFiniteSet
  <1> QED BY <1>1, VisualConstants DEF Visual!VisualBounds

LEMMA CheckedIsFinite ==
    /\ IsFiniteSet(Checked) /\ Cardinality(Checked) \in Nat
    /\ Cardinality(Checked) <= Cardinality(Callers)
    /\ Cardinality(Callers) \in Nat
  BY CallersAreFinite, FS_Subset, FS_CardinalityType, Checked \in SUBSET Callers DEF Checked

\* A step that activates no run and lets no caller pass the check keeps the bound.
LEMMA NoneAdded ==
  ASSUME ChecksBoundRuns, ActiveRuns' \subseteq ActiveRuns, Checked' \subseteq Checked
  PROVE  ChecksBoundRuns'
  <1>1. /\ IsFiniteSet(ActiveRuns') /\ Cardinality(ActiveRuns') <= Cardinality(ActiveRuns)
        /\ Cardinality(ActiveRuns') \in Nat /\ Cardinality(ActiveRuns) \in Nat
    BY FS_Subset, FS_CardinalityType DEF ChecksBoundRuns
  <1>2. /\ Cardinality(Checked') <= Cardinality(Checked)
        /\ Cardinality(Checked') \in Nat /\ Cardinality(Checked) \in Nat
    BY FS_Subset, FS_CardinalityType, CheckedIsFinite
  <1>3. Cardinality(Callers) \in Nat
    BY CheckedIsFinite
  <1>4. Cardinality(ActiveRuns) + Cardinality(Checked) <= Cardinality(Callers)
    BY DEF ChecksBoundRuns
  <1>5. Cardinality(ActiveRuns') + Cardinality(Checked') <= Cardinality(Callers)
    BY <1>1, <1>2, <1>3, <1>4
  <1> QED BY <1>1, <1>5 DEF ChecksBoundRuns

LEMMA CallersAddFewRuns ==
  ASSUME VisualInv, FewInv, NEW c \in Callers, Visual!Check(c) \/ Visual!Execute(c) \/ Visual!CallFails(c)
  PROVE  FewInv'
  <1>0. /\ execution \in [Callers -> Visual!Calls]
        /\ runs \in [Runs -> Visual!RunRows \cup {Visual!NoRun}]
        /\ worker \in [Runs -> Visual!Workers]
    BY DEF VisualInv, Visual!TypeOK
  <1>1. CASE Visual!Check(c)
    <2>1. /\ ActiveRuns = {} /\ runs' = runs /\ worker' = worker
          /\ execution' = [execution EXCEPT ![c] = [at |-> "checked"]]
      BY <1>1 DEF Visual!Check, ActiveRuns
    <2>2. ActiveRuns' = {}
      BY <2>1 DEF ActiveRuns, Visual!Active
    <2>3. Checked' \in SUBSET Callers
      BY DEF Checked
    <2>4. Cardinality(Checked') <= Cardinality(Callers) /\ Cardinality(Checked') \in Nat
      BY <2>3, CallersAreFinite, FS_Subset, FS_CardinalityType
    <2>5. ChecksBoundRuns'
      BY <2>2, <2>4, FS_EmptySet DEF ChecksBoundRuns
    <2>6. OpenWorkersAreActive' /\ OpenCallsAreActive'
      BY <1>0, <2>1 DEF FewInv, OpenWorkersAreActive, OpenCallsAreActive, Visual!Active
    <2> QED BY <2>5, <2>6 DEF FewInv
  <1>2. CASE \E r \in Runs : Visual!Insert(c, r)
    <2> PICK r \in Runs : Visual!Insert(c, r)
      BY <1>2
    <2>1. /\ execution[c].at = "checked" /\ runs[r] = Visual!NoRun
          /\ runs'[r].status = "queued"
          /\ \A q \in Runs \ {r} : runs'[q] = runs[q]
          /\ worker' = worker
          /\ execution'[c].at = "inserted" /\ execution'[c].run = r
          /\ \A d \in Callers \ {c} : execution'[d] = execution[d]
      BY <1>0 DEF Visual!Insert
    <2>2. ~Visual!Active(r) /\ Visual!Active(r)'
      BY <2>1, FreeIsNoStatus DEF Visual!Active, Visual!ActiveStatuses
    <2>3. ActiveRuns' = ActiveRuns \cup {r} /\ r \notin ActiveRuns
      BY <2>1, <2>2 DEF ActiveRuns, Visual!Active
    <2>4. Checked' = Checked \ {c} /\ c \in Checked
      BY <2>1 DEF Checked
    <2>5. /\ IsFiniteSet(ActiveRuns') /\ Cardinality(ActiveRuns') = Cardinality(ActiveRuns) + 1
          /\ Cardinality(ActiveRuns) \in Nat
      BY <2>3, FS_AddElement, FS_CardinalityType DEF FewInv, ChecksBoundRuns
    <2>6. Cardinality(Checked') = Cardinality(Checked) - 1
      BY <2>4, FS_RemoveElement, CheckedIsFinite
    <2>7. Cardinality(Callers) \in Nat /\ Cardinality(Checked) \in Nat
      BY CheckedIsFinite
    <2>8. ChecksBoundRuns'
      BY <2>5, <2>6, <2>7 DEF FewInv, ChecksBoundRuns
    <2>9. \A q \in Runs : Visual!Active(q) => Visual!Active(q)'
      BY <2>1, <2>2 DEF Visual!Active
    <2>10. OpenWorkersAreActive'
      BY <2>1, <2>9 DEF FewInv, OpenWorkersAreActive
    <2>11. \A d \in Callers \ {c} : execution[d].at = "inserted" => execution[d].run \in Runs
      BY <1>0 DEF Visual!Calls
    <2>12. OpenCallsAreActive'
      BY <2>1, <2>2, <2>9, <2>11 DEF FewInv, OpenCallsAreActive
    <2> QED BY <2>8, <2>10, <2>12 DEF FewInv
  <1>3. CASE Visual!MarkRunning(c) \/ Visual!CallFails(c)
    <2>1. /\ runs' = runs /\ execution' = [execution EXCEPT ![c] = Visual!Idle]
          /\ \/ worker' = worker
             \/ worker' = [worker EXCEPT ![execution[c].run].at = "starting"] /\ execution[c].at = "inserted"
      BY <1>3 DEF Visual!MarkRunning, Visual!CallFails, Visual!Goto
    <2>2. ActiveRuns' = ActiveRuns
      BY <2>1 DEF ActiveRuns, Visual!Active
    <2>3. Checked' \subseteq Checked
      BY <1>0, <2>1 DEF Checked, Visual!Idle
    <2>4. ChecksBoundRuns'
      BY <2>2, <2>3, NoneAdded DEF FewInv
    <2>5. \A r \in Runs : \/ worker'[r].at = worker[r].at
                          \/ r = execution[c].run /\ execution[c].at = "inserted"
      BY <1>0, <2>1
    <2>6. OpenWorkersAreActive'
      BY <2>1, <2>5 DEF FewInv, OpenWorkersAreActive, OpenCallsAreActive, Visual!Active
    <2>7. OpenCallsAreActive'
      BY <1>0, <2>1 DEF FewInv, OpenCallsAreActive, Visual!Active, Visual!Idle
    <2> QED BY <2>4, <2>6, <2>7 DEF FewInv
  <1> QED BY <1>1, <1>2, <1>3 DEF Visual!Execute

\* A worker writes only the row of its run, and never makes it active again.
LEMMA WorkersAddNoRuns ==
  ASSUME VisualInv, FewInv, NEW r \in Runs, Visual!ProcessRun(r) \/ Visual!Throws(r) \/ Visual!Vanishes(r)
  PROVE  FewInv'
  <1>0. /\ execution \in [Callers -> Visual!Calls]
        /\ runs \in [Runs -> Visual!RunRows \cup {Visual!NoRun}]
        /\ worker \in [Runs -> Visual!Workers]
        /\ execution' = execution
    BY DEF VisualInv, Visual!TypeOK, Visual!ProcessRun, Visual!LoadDefinition,
       Visual!BeginNode, Visual!Work, Visual!FinishNode, Visual!FinishRun,
           Visual!FinishWorkflow, Visual!FailRun, Visual!FailWorkflow, Visual!Throws,
           Visual!Vanishes
  <1>1. /\ Visual!Live(r)
        /\ \A q \in Runs \ {r} : worker'[q] = worker[q] /\ runs'[q] = runs[q]
    BY <1>0 DEF Visual!ProcessRun, Visual!LoadDefinition, Visual!BeginNode, Visual!Work,
       Visual!FinishNode, Visual!FinishRun,
           Visual!FinishWorkflow, Visual!FailRun, Visual!FailWorkflow, Visual!Throws,
           Visual!Vanishes, Visual!Live, Visual!LiveAt, Visual!Goto, Visual!WriteRun
  <1>2. Visual!Active(r)' => Visual!Active(r)
    BY <1>0 DEF FewInv, OpenWorkersAreActive, Visual!ProcessRun, Visual!LoadDefinition,
       Visual!BeginNode, Visual!Work,
           Visual!FinishNode, Visual!FinishRun, Visual!FinishWorkflow, Visual!FailRun,
           Visual!FailWorkflow, Visual!Throws, Visual!Vanishes,
           Visual!WriteRun, Visual!Active, Visual!ActiveStatuses
  <1>3. worker'[r].at \in {"starting", "begins", "works", "writes"} => Visual!Active(r)'
    <2>1. CASE Visual!BeginNode(r) \/ Visual!FinishNode(r)
      BY <1>0, <2>1 DEF Visual!BeginNode, Visual!FinishNode, Visual!WriteRun, Visual!Active,
         Visual!ActiveStatuses
    <2>2. CASE Visual!LoadDefinition(r) \/ Visual!Work(r)
      BY <1>0, <2>2 DEF FewInv, OpenWorkersAreActive, Visual!LoadDefinition, Visual!Work,
         Visual!Active
    <2>3. CASE ~ (Visual!BeginNode(r) \/ Visual!FinishNode(r) \/ Visual!LoadDefinition(r) \/ Visual!Work(r))
      <3>1. \E at \in {"closes", "ended", "marks", "catches", "lost"} : Visual!Goto(r, at)
        BY <2>3 DEF Visual!ProcessRun, Visual!FinishRun, Visual!FinishWorkflow, Visual!FailRun,
           Visual!FailWorkflow, Visual!Throws, Visual!Vanishes
      <3> QED BY <1>0, <3>1 DEF Visual!Goto, Visual!Workers
    <2> QED BY <2>1, <2>2, <2>3
  <1>4. ActiveRuns' \subseteq ActiveRuns
    BY <1>1, <1>2 DEF ActiveRuns, Visual!Active
  <1>5. Checked' = Checked
    BY <1>0 DEF Checked
  <1>6. ChecksBoundRuns'
    BY <1>4, <1>5, NoneAdded DEF FewInv
  <1>7. OpenWorkersAreActive'
    BY <1>1, <1>3 DEF FewInv, OpenWorkersAreActive, Visual!Active
  <1>8. \A c \in Callers : execution[c].at = "inserted" => execution[c].run \in Runs \ {r}
    BY <1>1 DEF VisualInv, Visual!TypeOK, Visual!Calls, CallsOwnTheirRuns, Visual!Live,
       Visual!LiveAt
  <1>9. OpenCallsAreActive'
    BY <1>0, <1>1, <1>8 DEF FewInv, OpenCallsAreActive, Visual!Active
  <1> QED BY <1>6, <1>7, <1>9 DEF FewInv

LEMMA OthersAddNoRuns ==
  ASSUME VisualInv, FewInv, Visual!Regenerate \/ Visual!Cancel \/ Visual!ApiCrash \/ UNCHANGED visualVars
  PROVE  FewInv'
  <1>1. /\ runs' = runs
        /\ \/ execution' = execution /\ worker' = worker
           \/ /\ execution' = [c \in Callers |-> Visual!Idle]
              /\ worker' = [r \in Runs |-> IF Visual!Live(r) THEN [worker[r] EXCEPT !.at = "lost"]
                                                      ELSE worker[r]]
    BY DEF Visual!Regenerate, Visual!Cancel, Visual!ApiCrash, visualVars
  <1>2. ActiveRuns' = ActiveRuns
    BY <1>1 DEF ActiveRuns, Visual!Active
  <1>3. Checked' \subseteq Checked
    BY <1>1 DEF Checked, Visual!Idle
  <1>4. \A r \in Runs : worker'[r].at = worker[r].at \/ worker'[r].at = "lost"
    BY <1>1 DEF VisualInv, Visual!TypeOK, Visual!Workers
  <1>5. OpenWorkersAreActive'
    BY <1>1, <1>4 DEF FewInv, OpenWorkersAreActive, Visual!Active
  <1>6. OpenCallsAreActive'
    BY <1>1 DEF FewInv, OpenCallsAreActive, Visual!Active, Visual!Idle
  <1> QED BY <1>2, <1>3, <1>5, <1>6, NoneAdded DEF FewInv

\* The check of execute, stale as it may be when the INSERT happens, bounds the active runs
\* by the callers that can overlap, and the rows keep their shape.
THEOREM CallersBoundTheRuns == WorkflowSpec => []RunsAreFew
  <1>1. WorkflowInit => FewInv
    <2> SUFFICES ASSUME Visual!Init PROVE FewInv
      BY DEF WorkflowInit
    <2>1. ActiveRuns = {} /\ Checked = {}
      BY FreeIsNoStatus DEF Visual!Init, ActiveRuns, Visual!Active, Visual!ActiveStatuses,
         Checked, Visual!Idle
    <2>2. ChecksBoundRuns
      BY <2>1, FS_EmptySet, CheckedIsFinite DEF ChecksBoundRuns
    <2>3. OpenWorkersAreActive /\ OpenCallsAreActive
      BY DEF Visual!Init, OpenWorkersAreActive, OpenCallsAreActive, Visual!Idle
    <2> QED BY <2>2, <2>3 DEF FewInv
  <1>2. VisualInv /\ FewInv /\ [WorkflowNext]_allVars => FewInv'
    BY VisualSteps, CallersAddFewRuns, WorkersAddNoRuns, OthersAddNoRuns DEF Visual!Next
  <1>3. VisualInv /\ FewInv => RunsAreFew
    <2> SUFFICES ASSUME VisualInv, FewInv PROVE Visual!RunsAreFew
      BY DEF RunsAreFew
    <2>1. /\ Cardinality(ActiveRuns) \in Nat
          /\ Cardinality(ActiveRuns) + Cardinality(Checked) <= Cardinality(Callers)
      BY FS_CardinalityType DEF FewInv, ChecksBoundRuns
    <2>2. Cardinality(ActiveRuns) <= Cardinality(Callers)
      BY <2>1, CheckedIsFinite
    <2>3. \A S : Visual!Cardinality(S) = Cardinality(S)
      BY Zenon DEF Visual!Cardinality, Cardinality, Visual!IsFiniteSet, IsFiniteSet
    <2> QED BY <2>2, <2>3 DEF VisualInv, Visual!RunsAreFew, Visual!OneRunPerCaller, ActiveRuns
  <1> QED BY <1>1, <1>2, <1>3, VisualInvariance, PTL DEF WorkflowSpec
================================================================================
