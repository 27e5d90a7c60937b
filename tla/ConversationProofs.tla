------------------------- MODULE ConversationProofs -------------------------
(***************************************************************************)
(* What holds of everything that goes on in a conversation.                *)
(*                                                                         *)
(* The first part is about one execution of a coding workflow, for any     *)
(* pages, any number of repair cycles and any teammate that takes part,    *)
(* and its refinement of CodingWorkflowExecution.  Three invariants carry  *)
(* the proof.  LoopInv is about the repair loop alone: what the stage that *)
(* runs now tells about the checks before it.  PlaceInv says what the row  *)
(* shows at each place of the program, and TableInv what the tasks and the *)
(* rounds show there.                                                      *)
(*                                                                         *)
(* The second part is about a channel, for any number of messages and of   *)
(* calls and any number of them under way.  ChannelInv relates every call  *)
(* under way to the rows: what it has read is still what the rows say, or  *)
(* the lock that it holds tells the others.                                *)
(***************************************************************************)
EXTENDS MCConversation, FiniteSetTheorems, SequenceTheorems, FunctionTheorems, TLAPS

Plans == [roles : SUBSET Roles, needsPage : BOOLEAN]
Jobs == [kind : Kinds, nth : 0 .. MaxRepairCycles]
Outs == [verdict : Verdicts, page : Pages \cup {NoPage}]
LogEntries == [kind : Kinds, verdict : Verdicts]
TaskStatuses == {"todo", "in_progress", "in_review", "done"}
RoundRows == [who : Roles \cup {Lead, "nobody"},
              status : {"waiting_for_approval", "running", "succeeded", "failed"}]
StagePlaces == {"start", "announce", "agent", "save", "remember"}
ClosingPlaces == {"close", "persist"}
Places == {"requested", "finish", "catch", "catch_persist", "catch_announce", "record",
           "record_close", "parked", "done", "lost"} \cup StagePlaces \cup ClosingPlaces
Working == {"requested", "finish"} \cup StagePlaces \cup ClosingPlaces
RowsOf == [state : Execution!WorkflowStates, approval : {"approved"}, version : {1}]

-----------------------------------------------------------------------------
LoopTypes ==
    /\ plan \in Plans /\ Engineer \in plan.roles
    /\ job \in Jobs
    /\ out \in Outs
    /\ cycle \in 0 .. MaxRepairCycles
    /\ blocked \in BOOLEAN
    /\ latest \in [Roles -> Verdicts \cup {"none"}]
    /\ page \in Pages \cup {NoPage}
    /\ log \in Seq(LogEntries)

\* A stage is run only by a teammate who takes part, and a repair only while a cycle is left.
JobFits ==
    /\ job.kind = "review" => Reviewer \in plan.roles
    /\ job.kind \in {"test", "confirm"} => Tester \in plan.roles
    /\ job.kind \in RepairKinds => plan.roles # {Engineer} /\ cycle < MaxRepairCycles
    /\ job.kind = "retry" => cycle + 1 < MaxRepairCycles
    /\ job.kind = "build" => cycle = 0
    /\ blocked => job.kind \in {"confirm", "summary"}
    /\ job.kind = "confirm" => blocked

\* The last word of a checker is a pass, spoken after the engineer's last change.
LastWordIsPass(check, hearings) ==
    \E i \in Entries({check}) :
        /\ log[i].verdict = "pass"
        /\ \A j \in Entries(EngineerKinds \cup hearings) : j <= i

ReviewStands == LastWordIsPass("review", {"review"})
TestStands == LastWordIsPass("test", {"test", "confirm"})

ChecksStand ==
    /\ job.kind = "test" /\ Reviewer \in plan.roles => ReviewStands
    /\ job.kind = "summary" /\ ~blocked =>
          /\ Reviewer \in plan.roles => ReviewStands
          /\ Tester \in plan.roles => TestStands

Heard ==
    /\ latest[Tester] # "none" => Entries({"test", "confirm"}) # {}
    /\ TesterIsHeard

Count(kinds) == Cardinality(Entries(kinds))

\* How often the engineer can have been asked when a check of this cycle begins.
AskedBefore(c) == IF c = 0 \/ c < MaxRepairCycles THEN 2 * c + 1 ELSE 2 * c

EngineerLimit ==
    CASE job.kind = "build" -> 0
      [] job.kind \in {"review", "test", "repair_review", "repair_test"} -> AskedBefore(cycle)
      [] job.kind = "retry" -> 2 * cycle + 2
      [] OTHER -> EngineerBound

Counts ==
    /\ Count(EngineerKinds) <= EngineerLimit
    /\ Count({"review"}) <= IF job.kind \in {"build", "review"} THEN cycle ELSE cycle + 1
    /\ Count({"test"}) <= IF job.kind \in {"build", "review", "test"} THEN cycle ELSE cycle + 1

LoopInv == LoopTypes /\ JobFits /\ ChecksStand /\ Heard /\ Counts

-----------------------------------------------------------------------------
PlaceInv ==
    /\ pc \in Places
    /\ settled \in BOOLEAN
    /\ row \in RowsOf
    /\ pc \in {"requested"} \cup StagePlaces \cup ClosingPlaces => ~settled
    /\ pc \in {"finish", "catch_announce"} => settled
    /\ pc \in ClosingPlaces \cup {"finish"} => job.kind = "summary"
    /\ pc = "requested" => job.kind = "build"
    /\ row.state = "completed" => settled /\ job.kind = "summary" /\ ~blocked
    /\ pc \in {"catch_announce", "record_close"} => row.state # "completed"

-----------------------------------------------------------------------------
AtRest(ts) == \A t \in Tasks : ts[t] \in {"todo", "done"}
NoRoundRuns == \A i \in DOMAIN rounds : rounds[i].status # "running"

\* What the local task snapshot shows while the execution has not failed.
TasksFollowStages ==
    /\ tasks["plan"] = "done"
    /\ \A t \in Tasks : t # Engineer => tasks[t] \in {"todo", "done"}
    /\ tasks[Engineer] = "done" \/ job.kind = "build"
    /\ job.kind = "test" /\ Reviewer \in plan.roles => tasks[Reviewer] = "done"
    /\ job.kind = "summary" /\ ~blocked => \A r \in plan.roles : tasks[r] = "done"

TableInv ==
    /\ rowTasks \in [Tasks -> TaskStatuses]
    /\ tasks \in [Tasks -> TaskStatuses]
    /\ rounds \in Seq(RoundRows)
    /\ pc \in Working => TasksFollowStages
    /\ pc = "requested" => rowTasks = tasks
    /\ pc \in ClosingPlaces \cup {"finish"} => tasks["summary"] = "done"
    /\ pc = "finish" => rowTasks = tasks
    /\ pc = "catch_persist" => AtRest(tasks)
    /\ pc \in {"catch_announce", "record_close"} => AtRest(rowTasks)
    /\ pc \in {"persist", "finish", "catch_persist", "catch_announce", "done"} => NoRoundRuns
    /\ NothingLeftRunning

IInv == LoopInv /\ PlaceInv /\ TableInv
-----------------------------------------------------------------------------
(***************************************************************************)
(* Lemmas about the stages and the log.                                    *)
(***************************************************************************)
LEMMA KindFacts ==
    /\ RepairKinds \subseteq EngineerKinds /\ "build" \in EngineerKinds
    /\ EngineerKinds \subseteq Kinds
    /\ \A k \in {"review", "test", "confirm", "summary"} : k \in Kinds /\ k \notin EngineerKinds
    /\ \A k \in Kinds : k \in EngineerKinds \cup {"review", "test", "confirm", "summary"}
BY DEF RepairKinds, EngineerKinds, Kinds

LEMMA RoleFacts ==
    ASSUME NEW k \in Kinds
    PROVE  /\ RoleOf(k) \in Roles \cup {Lead}
           /\ k \in EngineerKinds => RoleOf(k) = Engineer
           /\ k = "review" => RoleOf(k) = Reviewer
           /\ k \in {"test", "confirm"} => RoleOf(k) = Tester
           /\ k = "summary" => RoleOf(k) = Lead
BY DEF RoleOf, Kinds, EngineerKinds, RepairKinds, Roles, Engineer, Reviewer, Tester, Lead

\* Whatever stage runs, its task is one of the workflow's.
LEMMA TaskExists ==
    ASSUME LoopTypes, JobFits
    PROVE  /\ TaskOf(job.kind) \in Tasks
           /\ job.kind # "summary" => TaskOf(job.kind) = RoleOf(job.kind)
           /\ job.kind # "summary" => RoleOf(job.kind) \in plan.roles
<1>1. job.kind \in Kinds  BY DEF LoopTypes, Jobs
<1>2. job.kind # "summary" => RoleOf(job.kind) \in plan.roles
  BY <1>1, RoleFacts, KindFacts DEF JobFits, LoopTypes
<1>3. QED  BY <1>2 DEF TaskOf, Tasks

Entry == [kind |-> job.kind, verdict |-> out.verdict]

\* A stage that ends adds one entry to the log, and each count grows by what it counts.
LEMMA LogGrows ==
    ASSUME LoopTypes, log' = Append(log, Entry)
    PROVE  /\ log' \in Seq(LogEntries)
           /\ Len(log) \in Nat /\ Len(log') = Len(log) + 1
           /\ DOMAIN log = 1 .. Len(log) /\ DOMAIN log' = 1 .. Len(log) + 1
           /\ \A i \in DOMAIN log : log'[i] = log[i]
           /\ log'[Len(log) + 1].kind = job.kind
           /\ log'[Len(log) + 1].verdict = out.verdict
<1>1. Entry \in LogEntries /\ Entry.kind = job.kind /\ Entry.verdict = out.verdict
  BY DEF LoopTypes, Jobs, Outs, LogEntries, Entry
<1>2. log \in Seq(LogEntries)  BY DEF LoopTypes
<1>3. QED  BY <1>1, <1>2

LEMMA EntriesGrow ==
    ASSUME LoopTypes, log' = Append(log, Entry), NEW kinds
    PROVE  Entries(kinds)' = IF job.kind \in kinds THEN Entries(kinds) \cup {Len(log) + 1}
                                                   ELSE Entries(kinds)
<1>1. /\ Len(log) \in Nat
      /\ DOMAIN log = 1 .. Len(log) /\ DOMAIN log' = 1 .. Len(log) + 1
      /\ \A i \in DOMAIN log : log'[i] = log[i]
      /\ log'[Len(log) + 1].kind = job.kind
  BY LogGrows
<1>2. Entries(kinds) = {i \in 1 .. Len(log) : log[i].kind \in kinds}
  BY <1>1 DEF Entries
<1>3. Entries(kinds)' = {i \in 1 .. Len(log) + 1 : log'[i].kind \in kinds}
  BY <1>1 DEF Entries
<1>4. \A i \in 1 .. Len(log) + 1 : i \in 1 .. Len(log) \/ i = Len(log) + 1
  BY <1>1
<1>5. \A i \in 1 .. Len(log) : i \in 1 .. Len(log) + 1
  BY <1>1
<1>6. QED  BY <1>1, <1>2, <1>3, <1>4, <1>5

LEMMA EntriesAreFinite ==
    ASSUME LoopTypes, NEW kinds
    PROVE  /\ IsFiniteSet(Entries(kinds)) /\ Count(kinds) \in Nat
           /\ Entries(kinds) \subseteq 1 .. Len(log) /\ Len(log) \in Nat
<1>1. DOMAIN log = 1 .. Len(log) /\ Len(log) \in Nat  BY DEF LoopTypes
<1>2. IsFiniteSet(1 .. Len(log))  BY <1>1, FS_Interval
<1>3. Entries(kinds) \in SUBSET (1 .. Len(log))  BY <1>1 DEF Entries
<1>4. IsFiniteSet(Entries(kinds))  BY <1>2, <1>3, FS_Subset
<1>5. QED  BY <1>1, <1>3, <1>4, FS_CardinalityType DEF Count

LEMMA CountGrows ==
    ASSUME LoopTypes, log' = Append(log, Entry), NEW kinds
    PROVE  Count(kinds)' = IF job.kind \in kinds THEN Count(kinds) + 1 ELSE Count(kinds)
<1>1. Len(log) + 1 \notin Entries(kinds)  BY EntriesAreFinite
<1>2. CASE job.kind \in kinds
  <2>1. Entries(kinds)' = Entries(kinds) \cup {Len(log) + 1}  BY <1>2, EntriesGrow
  <2>2. Cardinality(Entries(kinds) \cup {Len(log) + 1}) = Cardinality(Entries(kinds)) + 1
    BY <1>1, EntriesAreFinite, FS_AddElement
  <2>3. QED  BY <1>2, <2>1, <2>2 DEF Count
<1>3. CASE job.kind \notin kinds
  BY <1>3, EntriesGrow DEF Count
<1>4. QED  BY <1>2, <1>3

\* A pass just spoken is the last word; an earlier one stays it while nobody else speaks.
LEMMA PassIsLastWord ==
    ASSUME LoopTypes, log' = Append(log, Entry), NEW check, NEW hearings,
           job.kind = check, out.verdict = "pass"
    PROVE  LastWordIsPass(check, hearings)'
<1>1. /\ Len(log) \in Nat /\ log'[Len(log) + 1].verdict = "pass"
      /\ DOMAIN log' = 1 .. Len(log) + 1
  BY LogGrows
<1>2. Len(log) + 1 \in Entries({check})'
  BY EntriesGrow
<1>3. \A j \in Entries(EngineerKinds \cup hearings)' : j <= Len(log) + 1
  BY <1>1 DEF Entries
<1>4. QED  BY <1>1, <1>2, <1>3 DEF LastWordIsPass

LEMMA LastWordStays ==
    ASSUME LoopTypes, log' = Append(log, Entry), NEW check, NEW hearings,
           job.kind \notin EngineerKinds \cup hearings, LastWordIsPass(check, hearings)
    PROVE  LastWordIsPass(check, hearings)'
<1>1. PICK i \in Entries({check}) :
        /\ log[i].verdict = "pass"
        /\ \A j \in Entries(EngineerKinds \cup hearings) : j <= i
  BY DEF LastWordIsPass
<1>2. i \in DOMAIN log  BY DEF Entries
<1>3. log'[i].verdict = "pass"  BY <1>1, <1>2, LogGrows
<1>4. i \in Entries({check})'  BY EntriesGrow
<1>5. Entries(EngineerKinds \cup hearings)' = Entries(EngineerKinds \cup hearings)
  BY EntriesGrow
<1>6. QED  BY <1>1, <1>3, <1>4, <1>5 DEF LastWordIsPass

\* What the head of a cycle begins when somebody besides the engineer takes part.
LEMMA CycleBegins ==
    ASSUME DispatchAssumption, LoopTypes, plan' = plan, plan.roles # {Engineer},
           NEW c \in 0 .. MaxRepairCycles, EnterCycle(c)
    PROVE  /\ cycle' = c /\ blocked' = blocked /\ latest' = latest /\ pc' = "start"
           /\ \/ Reviewer \in plan.roles /\ job' = [kind |-> "review", nth |-> 0]
              \/ /\ Reviewer \notin plan.roles /\ Tester \in plan.roles
                 /\ job' = [kind |-> "test", nth |-> 0]
<1>1. ~(c > MaxRepairCycles)  BY DEF DispatchAssumption
<1>2. Reviewer \in plan.roles \/ Tester \in plan.roles
  BY DEF LoopTypes, Plans, Roles
<1>3. QED  BY <1>1, <1>2 DEF EnterCycle, Begin, Goto

LEMMA LoopLeft ==
    ASSUME LeaveLoop
    PROVE  /\ pc' = "start"
           /\ \/ /\ blocked' /\ Tester \in plan.roles /\ latest'[Tester] = "none"
                 /\ job' = [kind |-> "confirm", nth |-> 0]
              \/ /\ ~(blocked' /\ Tester \in plan.roles /\ latest'[Tester] = "none")
                 /\ job' = [kind |-> "summary", nth |-> 0]
BY DEF LeaveLoop, Begin, Goto

-----------------------------------------------------------------------------
(***************************************************************************)
(* LoopInv.                                                                *)
(***************************************************************************)
LEMMA LoopInit == DispatchAssumption /\ Init => LoopInv
<1> SUFFICES ASSUME DispatchAssumption, Init PROVE LoopInv  OBVIOUS
<1>1. LoopTypes
  <2>1. plan \in Plans /\ Engineer \in plan.roles
    BY DEF Init, Plans, Roles
  <2>2. job \in Jobs /\ cycle \in 0 .. MaxRepairCycles
    BY DEF Init, DispatchAssumption, Jobs, Kinds, EngineerKinds
  <2>3. /\ blocked \in BOOLEAN /\ page \in Pages \cup {NoPage}
        /\ latest \in [Roles -> Verdicts \cup {"none"}]
    BY DEF Init
  <2>4. out \in Outs /\ log \in Seq(LogEntries)
    BY DEF Init, Outs, Verdicts
  <2>5. QED  BY <2>1, <2>2, <2>3, <2>4 DEF LoopTypes
<1>2. \A kinds : Entries(kinds) = {}
  BY DEF Init, Entries
<1>3. \A kinds : Count(kinds) = 0
  BY <1>2, FS_EmptySet DEF Count
<1>4. JobFits /\ ChecksStand
  BY DEF Init, JobFits, ChecksStand, RepairKinds
<1>5. Heard
  BY DEF Init, Heard, TesterIsHeard, Roles
<1>6. Counts
  BY <1>3, DispatchAssumption DEF Init, Counts, EngineerLimit
<1>7. QED  BY <1>1, <1>4, <1>5, <1>6 DEF LoopInv

\* Nothing but the end of a stage moves the loop.
LEMMA LoopFrame ==
    ASSUME LoopInv, UNCHANGED <<plan, job, loopVars, log>>, out' \in Outs
    PROVE  LoopInv'
<1> USE DEF LoopInv, loopVars
<1>1. LoopTypes'  BY DEF LoopTypes
<1>2. JobFits'  BY DEF JobFits
<1>3. ChecksStand'  BY DEF ChecksStand, ReviewStands, TestStands, LastWordIsPass, Entries
<1>4. Heard'  BY DEF Heard, TesterIsHeard, Entries
<1>5. Counts'  BY DEF Counts, EngineerLimit, Count, Entries
<1>6. QED  BY <1>1, <1>2, <1>3, <1>4, <1>5

\* What the end of a stage does to the log, the counts and the types.
LEMMA StageEnded ==
    ASSUME DispatchAssumption, LoopInv, NEW kinds, StageEnds(kinds)
    PROVE  /\ plan' = plan /\ out' = out /\ job.kind \in kinds /\ job.kind \in Kinds
           /\ log' = Append(log, Entry) /\ log' \in Seq(LogEntries)
           /\ cycle \in Nat /\ MaxRepairCycles \in Nat /\ cycle <= MaxRepairCycles
           /\ Count(EngineerKinds) \in Nat
           /\ Count({"review"}) \in Nat
           /\ Count({"test"}) \in Nat
           /\ Count(EngineerKinds)' = IF job.kind \in EngineerKinds
                                      THEN Count(EngineerKinds) + 1 ELSE Count(EngineerKinds)
           /\ Count({"review"})' = IF job.kind = "review"
                                   THEN Count({"review"}) + 1 ELSE Count({"review"})
           /\ Count({"test"})' = IF job.kind = "test"
                                 THEN Count({"test"}) + 1 ELSE Count({"test"})
<1>1. log' = Append(log, Entry) /\ plan' = plan /\ out' = out /\ job.kind \in kinds
  BY DEF StageEnds, Entry
<1>2. LoopTypes  BY DEF LoopInv
<1>3. log' \in Seq(LogEntries)  BY <1>1, <1>2, LogGrows
<1>4. /\ Count(EngineerKinds) \in Nat /\ Count({"review"}) \in Nat /\ Count({"test"}) \in Nat
  BY <1>2, EntriesAreFinite
<1>5. /\ Count(EngineerKinds)' = IF job.kind \in EngineerKinds
                                 THEN Count(EngineerKinds) + 1 ELSE Count(EngineerKinds)
      /\ Count({"review"})' = IF job.kind = "review"
                              THEN Count({"review"}) + 1 ELSE Count({"review"})
      /\ Count({"test"})' = IF job.kind = "test"
                            THEN Count({"test"}) + 1 ELSE Count({"test"})
  BY <1>1, <1>2, CountGrows
<1>6. cycle \in Nat /\ MaxRepairCycles \in Nat /\ cycle <= MaxRepairCycles
  BY <1>2 DEF LoopTypes, DispatchAssumption
<1>7. job.kind \in Kinds  BY <1>2 DEF LoopTypes, Jobs
<1>8. QED  BY <1>1, <1>3, <1>4, <1>5, <1>6, <1>7

\* The tester is heard for good once an entry of hers is in the log.
LEMMA HearingStays ==
    ASSUME LoopTypes, log' = Append(log, Entry),
           \/ Entries({"test", "confirm"}) # {}
           \/ job.kind \in {"test", "confirm"}
    PROVE  Entries({"test", "confirm"})' # {}
BY EntriesGrow

LEMMA BuildEndsLoop ==
    ASSUME DispatchAssumption, LoopInv, BuildEnds  PROVE LoopInv'
<1> USE DEF LoopInv
<1>1. StageEnds({"build"})  BY DEF BuildEnds
<1>2. /\ job.kind = "build" /\ cycle = 0 /\ ~blocked /\ plan' = plan /\ out' = out
  BY <1>1, StageEnded DEF JobFits, LoopTypes
<1>3. page' \in Pages \cup {NoPage}
  BY DEF BuildEnds, RecordPage, LoopTypes, Outs
<1>4. Count(EngineerKinds)' <= 1 /\ Count({"review"})' = 0 /\ Count({"test"})' = 0
  BY <1>1, <1>2, StageEnded, KindFacts DEF Counts, EngineerLimit
<1>5. CASE plan.roles = {Engineer}
  <2>1. job' = [kind |-> "summary", nth |-> 0] /\ UNCHANGED <<cycle, blocked, latest>>
    BY <1>5 DEF BuildEnds, Begin
  <2>2. Reviewer \notin plan.roles /\ Tester \notin plan.roles
    BY <1>5 DEF Engineer, Reviewer, Tester
  <2>3. LoopTypes'
    BY <1>1, <1>2, <1>3, <2>1, StageEnded DEF LoopTypes, Jobs, Kinds
  <2>4. JobFits' /\ ChecksStand'
    BY <1>2, <2>1, <2>2 DEF JobFits, ChecksStand, RepairKinds
  <2>5. Heard'
    BY <1>1, <1>2, <2>1, <2>2, StageEnded, HearingStays DEF Heard, TesterIsHeard
  <2>6. Counts'
    BY <1>1, <1>2, <1>4, <2>1, StageEnded DEF Counts, EngineerLimit, EngineerBound,
       EngineerKinds, RepairKinds
  <2>7. QED  BY <2>3, <2>4, <2>5, <2>6
<1>6. CASE plan.roles # {Engineer}
  <2>1. EnterCycle(0) /\ 0 \in 0 .. MaxRepairCycles
    BY <1>1, <1>6, StageEnded DEF BuildEnds
  <2>2. /\ cycle' = 0 /\ blocked' = blocked /\ latest' = latest
        /\ \/ Reviewer \in plan.roles /\ job' = [kind |-> "review", nth |-> 0]
           \/ /\ Reviewer \notin plan.roles /\ Tester \in plan.roles
              /\ job' = [kind |-> "test", nth |-> 0]
    BY <1>2, <1>6, <2>1, CycleBegins
  <2>3. LoopTypes'
    BY <1>1, <1>2, <1>3, <2>1, <2>2, StageEnded DEF LoopTypes, Jobs, Kinds
  <2>4. JobFits' /\ ChecksStand'
    BY <1>2, <2>2 DEF JobFits, ChecksStand, RepairKinds
  <2>5. Heard'
    BY <1>1, <1>2, <2>2, StageEnded, HearingStays DEF Heard, TesterIsHeard
  <2>6. Counts'
    BY <1>1, <1>2, <1>4, <2>2, StageEnded DEF Counts, EngineerLimit, AskedBefore
  <2>7. QED  BY <2>3, <2>4, <2>5, <2>6
<1>7. QED  BY <1>5, <1>6

LEMMA ReviewEndsLoop ==
    ASSUME DispatchAssumption, LoopInv, ReviewEnds  PROVE LoopInv'
<1> USE DEF LoopInv
<1>1. StageEnds({"review"})  BY DEF ReviewEnds
<1>2. /\ job.kind = "review" /\ ~blocked /\ blocked \in BOOLEAN /\ plan' = plan /\ out' = out
      /\ Reviewer \in plan.roles /\ cycle' = cycle /\ page' = page
      /\ latest' = [latest EXCEPT ![Reviewer] = out.verdict]
      /\ log' = Append(log, Entry)
  BY <1>1, StageEnded DEF JobFits, LoopTypes, ReviewEnds, SetLatest
<1>3. /\ Count(EngineerKinds)' <= AskedBefore(cycle)
      /\ Count({"review"})' <= cycle + 1 /\ Count({"test"})' <= cycle
      /\ Count({"review"})' \in Nat /\ Count({"test"})' \in Nat /\ Count(EngineerKinds)' \in Nat
      /\ cycle \in Nat /\ MaxRepairCycles \in Nat /\ cycle <= MaxRepairCycles
  BY <1>1, <1>2, StageEnded, KindFacts DEF Counts, EngineerLimit
<1>4. AskedBefore(cycle) <= EngineerBound /\ AskedBefore(cycle) \in Nat
  BY <1>3 DEF AskedBefore, EngineerBound
<1>5. /\ out.verdict \in Verdicts
      /\ latest' \in [Roles -> Verdicts \cup {"none"}] /\ latest'[Tester] = latest[Tester]
  BY <1>2 DEF LoopTypes, Outs, Roles, Reviewer, Tester
<1>6. latest'[Tester] # "none" => Entries({"test", "confirm"})' # {}
  BY <1>1, <1>2, <1>5, StageEnded, HearingStays DEF Heard
<1>7. ASSUME job' \in Jobs, blocked' \in BOOLEAN  PROVE LoopTypes'
  BY <1>1, <1>2, <1>5, <1>7, StageEnded DEF LoopTypes
<1>8. CASE out.verdict = "fail" /\ cycle < MaxRepairCycles
  <2>1. job' = [kind |-> "repair_review", nth |-> cycle + 1] /\ ~blocked' /\ blocked' \in BOOLEAN
    BY <1>2, <1>3, <1>8 DEF ReviewEnds, CheckFails, Begin
  <2>2. job' \in Jobs /\ blocked' \in BOOLEAN
    BY <1>2, <1>3, <1>8, <2>1 DEF Jobs, Kinds, EngineerKinds, RepairKinds
  <2>3. plan.roles # {Engineer}  BY <1>2 DEF Engineer, Reviewer
  <2>4. JobFits' /\ ChecksStand' /\ Heard'
    BY <1>2, <1>6, <1>8, <2>1, <2>3
    DEF JobFits, ChecksStand, Heard, TesterIsHeard, RepairKinds
  <2>5. Counts'
    BY <1>2, <1>3, <2>1 DEF Counts, EngineerLimit, AskedBefore
  <2>6. QED  BY <1>7, <2>2, <2>4, <2>5
<1>9. CASE out.verdict = "fail" /\ ~(cycle < MaxRepairCycles)
  <2>0. blocked' = TRUE /\ LeaveLoop
    BY <1>2, <1>3, <1>9 DEF ReviewEnds, CheckFails
  <2>1. blocked' /\ blocked' \in BOOLEAN /\ LeaveLoop
    BY <2>0
  <2>2. \/ /\ Tester \in plan.roles
           /\ job' = [kind |-> "confirm", nth |-> 0]
        \/ /\ ~(Tester \in plan.roles /\ latest'[Tester] = "none")
           /\ job' = [kind |-> "summary", nth |-> 0]
    BY <2>1, LoopLeft
  <2>3. job' \in Jobs /\ blocked' \in BOOLEAN
    BY <1>2, <1>3, <2>1, <2>2 DEF Jobs, Kinds
  <2>4. JobFits' /\ ChecksStand' /\ Heard'
    BY <1>2, <1>6, <2>1, <2>2 DEF JobFits, ChecksStand, Heard, TesterIsHeard, RepairKinds
  <2>5. Counts'
    BY <1>2, <1>3, <1>4, <2>2 DEF Counts, EngineerLimit, EngineerBound
  <2>6. QED  BY <1>7, <2>3, <2>4, <2>5
<1>10. CASE out.verdict = "pass"
  <2>1. ReviewStands'
    BY <1>2, <1>10, PassIsLastWord DEF ReviewStands
  <2>2. /\ blocked' = blocked
        /\ IF Tester \in plan.roles THEN Begin("test", 0) ELSE LeaveLoop
    BY <1>10 DEF ReviewEnds, CheckFails
  <2>3. CASE Tester \in plan.roles
    <3>1. job' = [kind |-> "test", nth |-> 0]  BY <2>2, <2>3 DEF Begin
    <3>2. job' \in Jobs /\ blocked' \in BOOLEAN
      BY <1>2, <1>3, <2>2, <3>1 DEF Jobs, Kinds
    <3>3. JobFits' /\ ChecksStand' /\ Heard'
      BY <1>2, <1>6, <2>1, <2>2, <2>3, <3>1
      DEF JobFits, ChecksStand, Heard, TesterIsHeard, RepairKinds
    <3>4. Counts'
      BY <1>2, <1>3, <1>4, <3>1 DEF Counts, EngineerLimit, EngineerBound
    <3>5. QED  BY <1>7, <3>2, <3>3, <3>4
  <2>4. CASE Tester \notin plan.roles
    <3>1. job' = [kind |-> "summary", nth |-> 0]  BY <2>2, <2>4, LoopLeft
    <3>2. job' \in Jobs /\ blocked' \in BOOLEAN
      BY <1>2, <1>3, <2>2, <3>1 DEF Jobs, Kinds
    <3>3. JobFits' /\ ChecksStand' /\ Heard'
      BY <1>2, <1>6, <2>1, <2>2, <2>4, <3>1
      DEF JobFits, ChecksStand, Heard, TesterIsHeard, RepairKinds
    <3>4. Counts'
      BY <1>2, <1>3, <1>4, <3>1 DEF Counts, EngineerLimit, EngineerBound
    <3>5. QED  BY <1>7, <3>2, <3>3, <3>4
  <2>5. QED  BY <2>3, <2>4
<1>11. QED  BY <1>5, <1>8, <1>9, <1>10 DEF Verdicts

LEMMA TestEndsLoop ==
    ASSUME DispatchAssumption, LoopInv, TestEnds  PROVE LoopInv'
<1> USE DEF LoopInv
<1>1. StageEnds({"test"})  BY DEF TestEnds
<1>2. /\ job.kind = "test" /\ ~blocked /\ blocked \in BOOLEAN /\ plan' = plan /\ out' = out
      /\ Tester \in plan.roles /\ cycle' = cycle /\ page' = page
      /\ latest' = [latest EXCEPT ![Tester] = out.verdict]
      /\ log' = Append(log, Entry)
  BY <1>1, StageEnded DEF JobFits, LoopTypes, TestEnds, SetLatest
<1>3. /\ Count(EngineerKinds)' <= AskedBefore(cycle)
      /\ Count({"review"})' <= cycle + 1 /\ Count({"test"})' <= cycle + 1
      /\ Count({"review"})' \in Nat /\ Count({"test"})' \in Nat /\ Count(EngineerKinds)' \in Nat
      /\ cycle \in Nat /\ MaxRepairCycles \in Nat /\ cycle <= MaxRepairCycles
  BY <1>1, <1>2, StageEnded, KindFacts DEF Counts, EngineerLimit
<1>4. AskedBefore(cycle) <= EngineerBound /\ AskedBefore(cycle) \in Nat
  BY <1>3 DEF AskedBefore, EngineerBound
<1>5. /\ out.verdict \in Verdicts
      /\ latest' \in [Roles -> Verdicts \cup {"none"}] /\ latest'[Tester] = out.verdict
  BY <1>2 DEF LoopTypes, Outs, Roles
<1>6. Entries({"test", "confirm"})' # {}
  BY <1>1, <1>2, StageEnded, HearingStays
<1>7. ASSUME job' \in Jobs, blocked' \in BOOLEAN  PROVE LoopTypes'
  BY <1>1, <1>2, <1>5, <1>7, StageEnded DEF LoopTypes
<1>8. CASE out.verdict = "fail" /\ cycle < MaxRepairCycles
  <2>1. job' = [kind |-> "repair_test", nth |-> cycle + 1] /\ ~blocked' /\ blocked' \in BOOLEAN
    BY <1>2, <1>3, <1>8 DEF TestEnds, CheckFails, Begin
  <2>2. job' \in Jobs /\ blocked' \in BOOLEAN
    BY <1>2, <1>3, <1>8, <2>1 DEF Jobs, Kinds, EngineerKinds, RepairKinds
  <2>3. plan.roles # {Engineer}  BY <1>2 DEF Engineer, Tester
  <2>4. JobFits' /\ ChecksStand' /\ Heard'
    BY <1>2, <1>6, <1>8, <2>1, <2>3
    DEF JobFits, ChecksStand, Heard, TesterIsHeard, RepairKinds
  <2>5. Counts'
    BY <1>2, <1>3, <2>1 DEF Counts, EngineerLimit, AskedBefore
  <2>6. QED  BY <1>7, <2>2, <2>4, <2>5
<1>9. CASE out.verdict = "fail" /\ ~(cycle < MaxRepairCycles)
  <2>0. blocked' = TRUE /\ LeaveLoop
    BY <1>2, <1>3, <1>9 DEF TestEnds, CheckFails
  <2>1. blocked' /\ blocked' \in BOOLEAN /\ LeaveLoop
    BY <2>0
  <2>2. job' = [kind |-> "summary", nth |-> 0]
    BY <1>5, <2>1, LoopLeft DEF Verdicts
  <2>3. job' \in Jobs /\ blocked' \in BOOLEAN
    BY <1>2, <1>3, <2>1, <2>2 DEF Jobs, Kinds
  <2>4. JobFits' /\ ChecksStand' /\ Heard'
    BY <1>2, <1>6, <2>1, <2>2 DEF JobFits, ChecksStand, Heard, TesterIsHeard, RepairKinds
  <2>5. Counts'
    BY <1>2, <1>3, <1>4, <2>2 DEF Counts, EngineerLimit, EngineerBound
  <2>6. QED  BY <1>7, <2>3, <2>4, <2>5
<1>10. CASE out.verdict = "pass"
  <2>1. TestStands'
    BY <1>2, <1>10, PassIsLastWord DEF TestStands
  <2>2. Reviewer \in plan.roles => ReviewStands'
    <3>1. Reviewer \in plan.roles => ReviewStands  BY <1>2 DEF ChecksStand
    <3>2. job.kind \notin EngineerKinds \cup {"review"}  BY <1>2, KindFacts
    <3>3. QED  BY <1>2, <3>1, <3>2, LastWordStays DEF ReviewStands
  <2>3. job' = [kind |-> "summary", nth |-> 0] /\ blocked' = blocked
    BY <1>2, <1>10, LoopLeft DEF TestEnds, CheckFails, LoopTypes
  <2>4. job' \in Jobs /\ blocked' \in BOOLEAN
    BY <1>2, <1>3, <2>3 DEF Jobs, Kinds
  <2>5. JobFits' /\ ChecksStand' /\ Heard'
    BY <1>2, <1>6, <2>1, <2>2, <2>3
    DEF JobFits, ChecksStand, Heard, TesterIsHeard, RepairKinds
  <2>6. Counts'
    BY <1>2, <1>3, <1>4, <2>3 DEF Counts, EngineerLimit, EngineerBound
  <2>7. QED  BY <1>7, <2>4, <2>5, <2>6
<1>11. QED  BY <1>5, <1>8, <1>9, <1>10 DEF Verdicts

LEMMA RepairEndsLoop ==
    ASSUME DispatchAssumption, LoopInv, RepairEnds \/ RepeatedRepairIsRetried \/ RepeatedRepairBlocks
    PROVE  LoopInv'
<1> USE DEF LoopInv
<1>1. StageEnds(RepairKinds)
  BY KindFacts DEF RepairEnds, RepeatedRepairIsRetried, RepeatedRepairBlocks, StageEnds,
     RepairKinds
<1>2. /\ job.kind \in RepairKinds /\ ~blocked /\ blocked \in BOOLEAN
      /\ plan' = plan /\ out' = out /\ plan.roles # {Engineer}
      /\ cycle < MaxRepairCycles
      /\ job.kind = "retry" => cycle + 1 < MaxRepairCycles
      /\ log' = Append(log, Entry)
  BY <1>1, StageEnded DEF JobFits, LoopTypes, RepairKinds
<1>3. /\ Count(EngineerKinds)' <= 2 * cycle + 2 \/ job.kind = "retry"
      /\ Count(EngineerKinds)' <= 2 * cycle + 3
      /\ Count({"review"})' <= cycle + 1 /\ Count({"test"})' <= cycle + 1
      /\ Count({"review"})' \in Nat /\ Count({"test"})' \in Nat /\ Count(EngineerKinds)' \in Nat
      /\ cycle \in Nat /\ MaxRepairCycles \in Nat /\ cycle < MaxRepairCycles
  <2>1. /\ cycle \in Nat /\ MaxRepairCycles \in Nat
        /\ Count({"review"}) \in Nat /\ Count({"test"}) \in Nat /\ Count(EngineerKinds) \in Nat
        /\ Count(EngineerKinds)' = Count(EngineerKinds) + 1
        /\ Count({"review"})' = Count({"review"}) /\ Count({"test"})' = Count({"test"})
    BY <1>1, <1>2, StageEnded, KindFacts
  <2>2. Count({"review"}) <= cycle + 1 /\ Count({"test"}) <= cycle + 1
    BY <1>2 DEF Counts, RepairKinds
  <2>3. CASE job.kind = "retry"
    <3>1. Count(EngineerKinds) <= 2 * cycle + 2
      BY <2>3 DEF Counts, EngineerLimit
    <3>2. QED  BY <1>2, <2>1, <2>2, <2>3, <3>1
  <2>4. CASE job.kind # "retry"
    <3>1. Count(EngineerKinds) <= AskedBefore(cycle)
      BY <1>2, <2>4 DEF Counts, EngineerLimit, RepairKinds
    <3>2. AskedBefore(cycle) = 2 * cycle + 1
      BY <1>2 DEF AskedBefore
    <3>3. QED  BY <1>2, <2>1, <2>2, <3>1, <3>2
  <2>5. QED  BY <2>3, <2>4
<1>4. /\ Count(EngineerKinds)' <= EngineerBound
      /\ job.kind = "retry" => Count(EngineerKinds)' <= 2 * MaxRepairCycles
  BY <1>2, <1>3 DEF EngineerBound
<1>5. page' \in Pages \cup {NoPage}
  BY DEF RepairEnds, RepeatedRepairIsRetried, RepeatedRepairBlocks, RecordPage, LoopTypes, Outs
<1>6. latest[Tester] # "none" => Entries({"test", "confirm"})' # {}
  BY <1>1, <1>2, StageEnded, HearingStays DEF Heard
<1>7. ASSUME job' \in Jobs, blocked' \in BOOLEAN, cycle' \in 0 .. MaxRepairCycles,
             latest' \in [Roles -> Verdicts \cup {"none"}]
      PROVE  LoopTypes'
  BY <1>1, <1>2, <1>5, <1>7, StageEnded DEF LoopTypes
<1>8. CASE RepairEnds
  <2>1. EnterCycle(cycle + 1) /\ cycle + 1 \in 0 .. MaxRepairCycles
    BY <1>3, <1>8 DEF RepairEnds
  <2>2. /\ cycle' = cycle + 1 /\ blocked' = blocked /\ latest' = latest
        /\ \/ Reviewer \in plan.roles /\ job' = [kind |-> "review", nth |-> 0]
           \/ /\ Reviewer \notin plan.roles /\ Tester \in plan.roles
              /\ job' = [kind |-> "test", nth |-> 0]
    BY <1>2, <2>1, CycleBegins
  <2>3. job' \in Jobs /\ blocked' \in BOOLEAN /\ latest' \in [Roles -> Verdicts \cup {"none"}]
    BY <1>2, <1>3, <2>2 DEF Jobs, Kinds, LoopTypes
  <2>4. JobFits' /\ ChecksStand' /\ Heard'
    BY <1>2, <1>6, <2>2 DEF JobFits, ChecksStand, Heard, TesterIsHeard, RepairKinds
  <2>5. Counts'
    BY <1>2, <1>3, <2>2 DEF Counts, EngineerLimit, AskedBefore
  <2>6. QED  BY <1>7, <2>1, <2>2, <2>3, <2>4, <2>5
<1>9. CASE RepeatedRepairIsRetried
  <2>1. /\ job.kind = "repair_review" /\ cycle + 1 < MaxRepairCycles
        /\ latest' = [latest EXCEPT ![Engineer] = "fail"]
        /\ job' = [kind |-> "retry", nth |-> cycle + 2]
        /\ UNCHANGED <<cycle, blocked>>
    BY <1>9 DEF RepeatedRepairIsRetried, StageEnds, SetLatest, Begin
  <2>2. /\ latest' \in [Roles -> Verdicts \cup {"none"}] /\ latest'[Tester] = latest[Tester]
    BY <2>1 DEF LoopTypes, Roles, Engineer, Tester, Verdicts
  <2>3. /\ job' \in Jobs /\ blocked' \in BOOLEAN /\ ~blocked' /\ cycle' \in 0 .. MaxRepairCycles
        /\ job'.kind = "retry"
    BY <1>2, <1>3, <2>1 DEF Jobs, Kinds, EngineerKinds, RepairKinds
  <2>4. JobFits' /\ ChecksStand' /\ Heard'
    BY <1>2, <1>6, <2>1, <2>2, <2>3 DEF JobFits, ChecksStand, Heard, TesterIsHeard, RepairKinds
  <2>5. Counts'
    BY <1>2, <1>3, <2>1 DEF Counts, EngineerLimit
  <2>6. QED  BY <1>7, <2>2, <2>3, <2>4, <2>5
<1>10. CASE RepeatedRepairBlocks
  <2>0. /\ blocked' = TRUE /\ LeaveLoop /\ cycle' = cycle
        /\ latest' = [latest EXCEPT ![Engineer] = "fail"]
    BY <1>10 DEF RepeatedRepairBlocks, SetLatest
  <2>1. blocked' /\ blocked' \in BOOLEAN  BY <2>0
  <2>2. latest' \in [Roles -> Verdicts \cup {"none"}] /\ latest'[Tester] = latest[Tester]
    BY <2>0 DEF LoopTypes, Roles, Engineer, Tester, Verdicts
  <2>3. \/ /\ Tester \in plan.roles
           /\ job' = [kind |-> "confirm", nth |-> 0]
        \/ /\ ~(Tester \in plan.roles /\ latest'[Tester] = "none")
           /\ job' = [kind |-> "summary", nth |-> 0]
    BY <2>0, <2>1, LoopLeft
  <2>4. job' \in Jobs /\ cycle' \in 0 .. MaxRepairCycles
    BY <1>3, <2>0, <2>3 DEF Jobs, Kinds
  <2>5. JobFits' /\ ChecksStand' /\ Heard'
    BY <1>2, <1>6, <2>1, <2>2, <2>3 DEF JobFits, ChecksStand, Heard, TesterIsHeard, RepairKinds
  <2>6. Counts'
    BY <1>2, <1>3, <1>4, <2>0, <2>3 DEF Counts, EngineerLimit, EngineerBound
  <2>7. QED  BY <1>7, <2>1, <2>2, <2>4, <2>5, <2>6
<1>11. QED  BY <1>8, <1>9, <1>10

LEMMA ReportEndsLoop ==
    ASSUME DispatchAssumption, LoopInv, ConfirmEnds \/ SummaryEnds
    PROVE  LoopInv'
<1> USE DEF LoopInv
<1>1. StageEnds({"confirm", "summary"})
  BY DEF ConfirmEnds, SummaryEnds, StageEnds
<1>2. /\ job.kind \in {"confirm", "summary"} /\ job.kind \notin EngineerKinds
      /\ plan' = plan /\ out' = out /\ log' = Append(log, Entry)
      /\ cycle' = cycle /\ blocked' = blocked /\ page' = page
  BY <1>1, StageEnded, KindFacts DEF ConfirmEnds, SummaryEnds, loopVars
<1>3. /\ Count(EngineerKinds)' <= EngineerBound
      /\ Count({"review"})' <= cycle + 1 /\ Count({"test"})' <= cycle + 1
      /\ Count({"review"})' \in Nat /\ Count({"test"})' \in Nat /\ Count(EngineerKinds)' \in Nat
      /\ cycle \in Nat /\ MaxRepairCycles \in Nat
  BY <1>1, <1>2, StageEnded DEF Counts, EngineerLimit
<1>4. CASE ConfirmEnds
  <2>1. /\ job.kind = "confirm" /\ blocked
        /\ job' = [kind |-> "summary", nth |-> 0]
        /\ latest' = [latest EXCEPT ![Tester] = out.verdict]
    BY <1>4 DEF ConfirmEnds, StageEnds, Begin, SetLatest, JobFits
  <2>2. Entries({"test", "confirm"})' # {}
    BY <1>2, <2>1, HearingStays
  <2>3. latest' \in [Roles -> Verdicts \cup {"none"}]
    BY <2>1 DEF LoopTypes, Outs, Roles
  <2>4. job' \in Jobs
    BY <1>3, <2>1 DEF Jobs, Kinds
  <2>5. LoopTypes'
    BY <1>1, <1>2, <2>3, <2>4, StageEnded DEF LoopTypes
  <2>6. JobFits' /\ ChecksStand' /\ Heard'
    BY <1>2, <2>1, <2>2 DEF JobFits, ChecksStand, Heard, TesterIsHeard, RepairKinds
  <2>7. Counts'
    BY <1>2, <1>3, <2>1 DEF Counts, EngineerLimit, EngineerBound
  <2>8. QED  BY <2>5, <2>6, <2>7
<1>5. CASE SummaryEnds
  <2>1. job.kind = "summary" /\ job' = job /\ latest' = latest
    BY <1>5 DEF SummaryEnds, StageEnds, loopVars
  <2>2. LoopTypes'
    BY <1>1, <1>2, <2>1, StageEnded DEF LoopTypes
  <2>3. JobFits' /\ (TestStands => TestStands') /\ (ReviewStands => ReviewStands')
    <3>1. JobFits'  BY <1>2, <2>1 DEF JobFits
    <3>2. job.kind \notin EngineerKinds \cup {"review", "test", "confirm"}  BY <1>2, <2>1
    <3>3. QED  BY <1>2, <3>1, <3>2, LastWordStays DEF TestStands, ReviewStands
  <2>4. ChecksStand'
    BY <1>2, <2>1, <2>3 DEF ChecksStand
  <2>5. Heard'
    BY <1>2, <2>1, HearingStays DEF Heard, TesterIsHeard
  <2>6. Counts'
    BY <1>2, <1>3, <2>1 DEF Counts, EngineerLimit, EngineerBound
  <2>7. QED  BY <2>2, <2>3, <2>4, <2>5, <2>6
<1>6. QED  BY <1>4, <1>5

LEMMA LoopStep == DispatchAssumption /\ LoopInv /\ [Next]_vars => LoopInv'
<1> SUFFICES ASSUME DispatchAssumption, LoopInv, [Next]_vars PROVE LoopInv'  OBVIOUS
<1>1. CASE BetweenStages
  BY <1>1, BuildEndsLoop, ReviewEndsLoop, TestEndsLoop, RepairEndsLoop, ReportEndsLoop
  DEF BetweenStages
<1>2. CASE ~BetweenStages
  <2>1. UNCHANGED <<plan, job, loopVars, log>>
    BY <1>2 DEF Next, Progress, Throws, Load, StartStage, AnnounceStage, SaveStage,
       AgentReturns,
       CloseRounds, PersistOutcome, AnnounceOutcome, CatchClosesRounds, CatchPersists,
       CatchAnnounces, RecordPersists, RecordCloses, LoadThrows, PageMissing, StageThrows,
       OutcomeThrows, CatchThrows, RecordThrows, vars
  <2>2. out' \in Outs
    <3>1. CASE \E v \in Verdicts, p \in Pages \cup {NoPage} : AgentReturns(v, p)
      BY <3>1 DEF AgentReturns, Outs
    <3>2. CASE ~ \E v \in Verdicts, p \in Pages \cup {NoPage} : AgentReturns(v, p)
      <4>1. out' = out
        BY <1>2, <3>2 DEF Next, Progress, Throws, Load, StartStage, AnnounceStage, SaveStage,
           CloseRounds, PersistOutcome, AnnounceOutcome, CatchClosesRounds, CatchPersists,
           CatchAnnounces, RecordPersists, RecordCloses, LoadThrows, PageMissing, StageThrows,
           OutcomeThrows, CatchThrows, RecordThrows, vars
      <4>2. QED  BY <4>1 DEF LoopInv, LoopTypes
    <3>3. QED  BY <3>1, <3>2
  <2>3. QED  BY <2>1, <2>2, LoopFrame
<1>3. QED  BY <1>1, <1>2

-----------------------------------------------------------------------------
(***************************************************************************)
(* PlaceInv.                                                               *)
(***************************************************************************)
LEMMA StatesOfRows ==
    /\ \A k \in Kinds : StateOf(k) \in Execution!StageStates
    /\ Execution!StageStates \subseteq Execution!WorkflowStates
    /\ "completed" \notin Execution!StageStates
    /\ {"completed", "execution_failed", "awaiting_user_confirmation", "execution_running"}
         \subseteq Execution!WorkflowStates
BY RoleFacts, KindFacts
   DEF StateOf, Execution!StageStates, Execution!WorkflowStates, Execution!OutcomeStates,
       Engineer, Reviewer, Tester

LEMMA RowWritten ==
    ASSUME PlaceInv, NEW s \in Execution!WorkflowStates, NEW ts, PersistWorkflowState(s, ts)
    PROVE  row' \in RowsOf /\ row'.state = s
BY DEF PlaceInv, PersistWorkflowState, RowsOf

LEMMA PlaceInit == Init => PlaceInv
<1> SUFFICES ASSUME Init PROVE PlaceInv  OBVIOUS
<1>1. /\ row = [state |-> "execution_running", approval |-> "approved", version |-> 1]
      /\ pc = "requested" /\ job = [kind |-> "build", nth |-> 0] /\ settled = FALSE
  BY DEF Init
<1>2. row \in RowsOf /\ row.state # "completed"
  BY <1>1, StatesOfRows DEF RowsOf
<1>3. job.kind = "build" /\ ~settled /\ settled \in BOOLEAN
  BY <1>1
<1>4. pc = "requested"
  BY <1>1
<1>5. QED  BY <1>2, <1>3, <1>4 DEF PlaceInv, Places, StagePlaces, ClosingPlaces

\* Which stage follows which: the reviewer comes right before a tester, and work that is not
\* blocked is reported only when the last of its checks has ended.
Follows ==
    /\ job'.kind # "build"
    /\ job'.kind = "test" /\ Reviewer \in plan.roles => job.kind = "review"
    /\ job'.kind = "summary" /\ ~blocked' =>
          \/ job.kind = "build" /\ plan.roles = {Engineer}
          \/ job.kind = "review" /\ Tester \notin plan.roles
          \/ job.kind = "test"

LEMMA StageFollows ==
    ASSUME DispatchAssumption, LoopInv, BetweenStages
    PROVE  /\ pc = "remember"
           /\ UNCHANGED <<plan, row, rowTasks, rounds, out, settled>>
           /\ tasks' = CompleteTask(tasks, TaskOf(job.kind))
           /\ \/ pc' = "start" /\ job.kind # "summary" /\ Follows
              \/ pc' = "close" /\ job.kind = "summary" /\ UNCHANGED <<job, loopVars>>
<1> DEFINE Frame == /\ pc = "remember"
                    /\ UNCHANGED <<plan, row, rowTasks, rounds, out, settled>>
                    /\ tasks' = CompleteTask(tasks, TaskOf(job.kind))
<1>1. ASSUME NEW kinds, StageEnds(kinds)
      PROVE  Frame /\ job.kind \in kinds
  BY <1>1 DEF StageEnds, At
<1>2. CASE BuildEnds
  <2>1. Frame /\ job.kind = "build"
    BY <1>1, <1>2 DEF BuildEnds
  <2>2. CASE plan.roles = {Engineer}
    BY <1>2, <2>1, <2>2 DEF BuildEnds, Begin, Goto, Follows
  <2>3. CASE plan.roles # {Engineer}
    <3>1. EnterCycle(0) /\ 0 \in 0 .. MaxRepairCycles
      BY <1>2, <2>3 DEF BuildEnds, DispatchAssumption
    <3>2. QED  BY <2>1, <2>3, <3>1, CycleBegins DEF LoopInv, Follows
  <2>4. QED  BY <2>2, <2>3
<1>3. ASSUME NEW kind, CheckFails(kind), kind \in RepairKinds
      PROVE  pc' = "start" /\ Follows
  <2>1. CASE cycle >= MaxRepairCycles
    <3>1. blocked' = TRUE /\ LeaveLoop  BY <1>3, <2>1 DEF CheckFails
    <3>2. pc' = "start" /\ job'.kind \in {"confirm", "summary"}  BY <3>1, LoopLeft
    <3>3. QED  BY <3>1, <3>2 DEF Follows
  <2>2. CASE ~(cycle >= MaxRepairCycles)
    BY <1>3, <2>2 DEF CheckFails, Begin, Goto, Follows, RepairKinds
  <2>3. QED  BY <2>1, <2>2
<1>4. CASE ReviewEnds
  <2>1. Frame /\ job.kind = "review"
    BY <1>1, <1>4 DEF ReviewEnds
  <2>2. CASE CheckFails("repair_review")
    BY <1>3, <2>1, <2>2 DEF RepairKinds
  <2>3. CASE ~CheckFails("repair_review")
    <3>1. IF Tester \in plan.roles THEN Begin("test", 0) ELSE LeaveLoop
      BY <1>4, <2>3 DEF ReviewEnds
    <3>2. CASE Tester \in plan.roles
      BY <2>1, <3>1, <3>2 DEF Begin, Goto, Follows
    <3>3. CASE Tester \notin plan.roles
      BY <2>1, <3>1, <3>3, LoopLeft DEF Follows
    <3>4. QED  BY <3>2, <3>3
  <2>4. QED  BY <2>2, <2>3
<1>5. CASE TestEnds
  <2>1. Frame /\ job.kind = "test"
    BY <1>1, <1>5 DEF TestEnds
  <2>2. CASE CheckFails("repair_test")
    BY <1>3, <2>1, <2>2 DEF RepairKinds
  <2>3. CASE ~CheckFails("repair_test")
    <3>1. LeaveLoop  BY <1>5, <2>3 DEF TestEnds
    <3>2. pc' = "start" /\ job'.kind \in {"confirm", "summary"}  BY <3>1, LoopLeft
    <3>3. QED  BY <2>1, <3>2 DEF Follows
  <2>4. QED  BY <2>2, <2>3
<1>6. CASE RepairEnds
  <2>1. Frame /\ job.kind \in RepairKinds
    BY <1>1, <1>6 DEF RepairEnds
  <2>2. EnterCycle(cycle + 1) /\ cycle + 1 \in 0 .. MaxRepairCycles /\ plan.roles # {Engineer}
    BY <1>6, <2>1 DEF RepairEnds, LoopInv, LoopTypes, JobFits, DispatchAssumption
  <2>3. plan' = plan  BY <2>1
  <2>4. /\ pc' = "start"
        /\ \/ Reviewer \in plan.roles /\ job' = [kind |-> "review", nth |-> 0]
           \/ Reviewer \notin plan.roles /\ job' = [kind |-> "test", nth |-> 0]
    BY <2>2, <2>3, CycleBegins DEF LoopInv
  <2>5. QED  BY <2>1, <2>4 DEF Follows, RepairKinds
<1>7. CASE RepeatedRepairIsRetried
  <2>1. Frame /\ job.kind = "repair_review"
    BY <1>1, <1>7 DEF RepeatedRepairIsRetried
  <2>2. QED  BY <1>7, <2>1 DEF RepeatedRepairIsRetried, Begin, Goto, Follows
<1>8. CASE RepeatedRepairBlocks
  <2>1. Frame /\ job.kind \in RepairKinds
    BY <1>1, <1>8 DEF RepeatedRepairBlocks
  <2>2. blocked' = TRUE /\ LeaveLoop  BY <1>8 DEF RepeatedRepairBlocks
  <2>3. pc' = "start" /\ job'.kind \in {"confirm", "summary"}  BY <2>2, LoopLeft
  <2>4. QED  BY <2>1, <2>2, <2>3 DEF Follows, RepairKinds
<1>9. CASE ConfirmEnds
  <2>1. Frame /\ job.kind = "confirm"
    BY <1>1, <1>9 DEF ConfirmEnds
  <2>2. blocked /\ blocked' = blocked
    BY <1>9, <2>1 DEF ConfirmEnds, LoopInv, JobFits
  <2>3. QED  BY <1>9, <2>1, <2>2 DEF ConfirmEnds, Begin, Goto, Follows
<1>10. CASE SummaryEnds
  <2>1. Frame /\ job.kind = "summary"
    BY <1>1, <1>10 DEF SummaryEnds
  <2>2. QED  BY <1>10, <2>1 DEF SummaryEnds, Goto
<1>11. QED
  BY <1>2, <1>4, <1>5, <1>6, <1>7, <1>8, <1>9, <1>10 DEF BetweenStages

LEMMA PlaceStep == DispatchAssumption /\ LoopInv /\ PlaceInv /\ [Next]_vars => PlaceInv'
<1> SUFFICES ASSUME DispatchAssumption, LoopInv, PlaceInv, [Next]_vars PROVE PlaceInv'  OBVIOUS
<1> USE DEF At, Goto, loopVars
<1>1. job.kind \in Kinds /\ StateOf(job.kind) \in Execution!WorkflowStates
      /\ StateOf(job.kind) # "completed"
  BY StatesOfRows DEF LoopInv, LoopTypes, Jobs
<1>2. CASE BetweenStages
  <2>1. /\ pc = "remember" /\ row' = row /\ settled' = settled
        /\ \/ pc' = "start"
           \/ pc' = "close" /\ job.kind = "summary" /\ job' = job
    BY <1>2, StageFollows
  <2>2. ~settled /\ row.state # "completed" /\ row \in RowsOf
    BY <2>1 DEF PlaceInv, StagePlaces
  <2>3. QED
    BY <2>1, <2>2 DEF PlaceInv, Places, StagePlaces, ClosingPlaces
<1>3. ASSUME UNCHANGED <<job, loopVars>>,
             \/ Load \/ LoadThrows \/ AnnounceStage \/ SaveStage \/ PageMissing \/ StageThrows
             \/ \E v \in Verdicts, p \in Pages \cup {NoPage} : AgentReturns(v, p)
             \/ CloseRounds \/ AnnounceOutcome \/ OutcomeThrows
             \/ CatchClosesRounds \/ CatchAnnounces \/ CatchThrows
             \/ RecordCloses \/ RecordThrows
      PROVE  PlaceInv'
  <2>1. row' = row /\ settled' = settled
    BY <1>3 DEF Load, LoadThrows, AnnounceStage, SaveStage, PageMissing, StageThrows,
       AgentReturns, CloseRounds, AnnounceOutcome, OutcomeThrows, CatchClosesRounds,
       CatchAnnounces, CatchThrows, RecordCloses, RecordThrows
  <2>2. \/ pc = "requested" /\ pc' \in {"start", "record"}
        \/ pc \in StagePlaces /\ pc' \in {"announce", "agent", "save", "remember", "catch"}
        \/ pc = "close" /\ pc' \in {"persist", "catch"}
        \/ pc = "persist" /\ pc' = "catch"
        \/ pc = "finish" /\ pc' \in {"done", "catch"}
        \/ pc = "catch" /\ pc' \in {"catch_persist", "record"}
        \/ pc = "catch_persist" /\ pc' = "record"
        \/ pc = "catch_announce" /\ pc' \in {"done", "record"}
        \/ pc = "record" /\ pc' = "lost"
        \/ pc = "record_close" /\ pc' \in {"done", "parked"}
    BY <1>3 DEF Load, LoadThrows, AnnounceStage, SaveStage, PageMissing, StageThrows,
       AgentReturns, CloseRounds, AnnounceOutcome, OutcomeThrows, CatchClosesRounds,
       CatchAnnounces, CatchThrows, RecordCloses, RecordThrows, StagePlaces
  <2>3. QED
    BY <1>3, <2>1, <2>2 DEF PlaceInv, Places, StagePlaces, ClosingPlaces
<1>4. CASE StartStage
  <2>1. /\ row' \in RowsOf /\ row'.state # "completed"
        /\ pc = "start" /\ pc' = "announce" /\ settled' = settled /\ UNCHANGED <<job, loopVars>>
    BY <1>1, <1>4, RowWritten DEF StartStage
  <2>2. QED  BY <2>1 DEF PlaceInv, Places, StagePlaces, ClosingPlaces
<1>5. CASE PersistOutcome
  <2>1. /\ row' \in RowsOf /\ row'.state = IF blocked THEN "execution_failed" ELSE "completed"
        /\ pc = "persist" /\ pc' = "finish" /\ settled' = TRUE /\ UNCHANGED <<job, loopVars>>
    BY <1>5, RowWritten, StatesOfRows DEF PersistOutcome
  <2>2. QED  BY <2>1 DEF PlaceInv, Places, StagePlaces, ClosingPlaces
<1>6. CASE CatchPersists
  <2>1. /\ row' \in RowsOf /\ row'.state = "execution_failed"
        /\ pc = "catch_persist" /\ pc' = "catch_announce" /\ settled' = TRUE
        /\ UNCHANGED <<job, loopVars>>
    BY <1>6, RowWritten, StatesOfRows DEF CatchPersists
  <2>2. QED  BY <2>1 DEF PlaceInv, Places, StagePlaces, ClosingPlaces
<1>7. CASE RecordPersists
  <2>1. /\ row' \in RowsOf /\ row'.state = "awaiting_user_confirmation"
        /\ pc = "record" /\ pc' = "record_close" /\ settled' = settled
        /\ UNCHANGED <<job, loopVars>>
    BY <1>7, RowWritten, StatesOfRows DEF RecordPersists
  <2>2. QED  BY <2>1 DEF PlaceInv, Places, StagePlaces, ClosingPlaces
<1>8. CASE UNCHANGED vars
  BY <1>8 DEF vars, PlaceInv
<1>9. QED
  <2>1. ~BetweenStages /\ Next => UNCHANGED <<job, loopVars>>
    BY DEF Next, Progress, Throws, Load, StartStage, AnnounceStage, SaveStage, AgentReturns,
       CloseRounds, PersistOutcome, AnnounceOutcome, CatchClosesRounds, CatchPersists,
       CatchAnnounces, RecordPersists, RecordCloses, LoadThrows, PageMissing, StageThrows,
       OutcomeThrows, CatchThrows, RecordThrows
  <2>2. QED
    BY <1>2, <1>3, <1>4, <1>5, <1>6, <1>7, <1>8, <2>1 DEF Next, Progress, Throws

-----------------------------------------------------------------------------
(***************************************************************************)
(* TableInv.                                                               *)
(***************************************************************************)
LEMMA TasksKept ==
    ASSUME NEW ts \in [Tasks -> TaskStatuses], NEW t \in Tasks
    PROVE  /\ StartTask(ts, t) \in [Tasks -> TaskStatuses]
           /\ CompleteTask(ts, t) \in [Tasks -> TaskStatuses]
           /\ CompleteTask(ts, t)[t] = "done"
           /\ \A u \in Tasks \ {t} : CompleteTask(ts, t)[u] = ts[u]
           /\ MarkRunningTasksFailed(ts) \in [Tasks -> TaskStatuses]
           /\ AtRest(MarkRunningTasksFailed(ts))
BY DEF StartTask, CompleteTask, MarkRunningTasksFailed, TaskStatuses, AtRest

\* Rewriting the statuses of some rounds keeps their number and their shape.
LEMMA RoundsRewritten ==
    ASSUME rounds \in Seq(RoundRows), NEW rs \in [DOMAIN rounds -> RoundRows]
    PROVE  rs \in Seq(RoundRows) /\ DOMAIN rs = DOMAIN rounds
<1>1. Len(rounds) \in Nat /\ DOMAIN rounds = 1 .. Len(rounds)  OBVIOUS
<1>2. rs \in [1 .. Len(rounds) -> RoundRows]  BY <1>1
<1>3. QED  BY <1>1, <1>2, SeqDef

LEMMA RoundsClosed ==
    ASSUME rounds \in Seq(RoundRows), NEW s \in {"succeeded", "failed"}, CloseOpenRounds(s)
    PROVE  rounds' \in Seq(RoundRows) /\ NoRoundRuns'
<1> DEFINE rs == [i \in DOMAIN rounds |->
                    IF rounds[i].status = "running" THEN [rounds[i] EXCEPT !.status = s]
                                                    ELSE rounds[i]]
<1>1. \A i \in DOMAIN rounds : rounds[i] \in RoundRows  OBVIOUS
<1>2. \A i \in DOMAIN rounds : rs[i] \in RoundRows /\ rs[i].status # "running"
  BY <1>1 DEF RoundRows
<1>3. rs \in [DOMAIN rounds -> RoundRows]  BY <1>2
<1>4. rs \in Seq(RoundRows) /\ DOMAIN rs = DOMAIN rounds  BY <1>3, RoundsRewritten
<1>5. rounds' = rs  BY DEF CloseOpenRounds
<1>6. QED  BY <1>2, <1>4, <1>5 DEF NoRoundRuns

LEMMA RoundCompleted ==
    ASSUME rounds \in Seq(RoundRows), NEW who, NEW s \in {"succeeded", "failed"},
           CompleteLatestRound(who, s)
    PROVE  rounds' \in Seq(RoundRows)
<1> DEFINE rs == [i \in DOMAIN rounds |->
                 IF rounds[i].who = who /\ \A j \in DOMAIN rounds : rounds[j].who = who => j <= i
                 THEN [rounds[i] EXCEPT !.status = s]
                 ELSE rounds[i]]
<1>1. \A i \in DOMAIN rounds : rounds[i] \in RoundRows  OBVIOUS
<1>2. \A i \in DOMAIN rounds : rs[i] \in RoundRows
  BY <1>1 DEF RoundRows
<1>3. rs \in [DOMAIN rounds -> RoundRows]  BY <1>2
<1>4. QED  BY <1>3, RoundsRewritten DEF CompleteLatestRound

LEMMA RoundInserted ==
    ASSUME rounds \in Seq(RoundRows), NEW who \in Roles \cup {Lead, "nobody"},
           NEW s \in {"running", "succeeded", "failed"}, InsertRound(who, s)
    PROVE  /\ rounds' \in Seq(RoundRows)
           /\ s # "running" /\ NoRoundRuns => NoRoundRuns'
<1> DEFINE r == [who |-> who, status |-> s]
<1>1. r \in RoundRows /\ r.status = s  BY DEF RoundRows
<1>2. rounds' = Append(rounds, r)  BY DEF InsertRound
<1> HIDE DEF r
<1>3. Append(rounds, r) \in Seq(RoundRows)  BY <1>1
<1>4. /\ Len(rounds) \in Nat /\ DOMAIN rounds = 1 .. Len(rounds)
      /\ DOMAIN rounds' = 1 .. Len(rounds) + 1
      /\ \A i \in 1 .. Len(rounds) + 1 :
            rounds'[i] = IF i = Len(rounds) + 1 THEN r ELSE rounds[i]
  BY <1>1, <1>2
<1>5. ASSUME s # "running", NoRoundRuns, NEW i \in DOMAIN rounds'
      PROVE  rounds'[i].status # "running"
  <2>1. CASE i = Len(rounds) + 1  BY <1>1, <1>4, <1>5, <2>1
  <2>2. CASE i # Len(rounds) + 1  BY <1>4, <1>5, <2>2 DEF NoRoundRuns
  <2>3. QED  BY <2>1, <2>2
<1>6. QED  BY <1>2, <1>3, <1>5 DEF NoRoundRuns

LEMMA TableInit == Init => TableInv
<1> SUFFICES ASSUME Init PROVE TableInv  OBVIOUS
<1>1. /\ rowTasks = [t \in Tasks |-> CASE t = "plan" -> "done"
                                       [] t = Engineer -> "in_progress"
                                       [] OTHER -> "todo"]
      /\ tasks = rowTasks
      /\ plan.roles \subseteq Roles
      /\ pc = "requested" /\ job.kind = "build"
  BY DEF Init, Roles
<1>2. rowTasks \in [Tasks -> TaskStatuses] /\ tasks \in [Tasks -> TaskStatuses]
  BY <1>1 DEF TaskStatuses
<1>3. rounds \in Seq(RoundRows)
  <2>1. [who |-> Lead, status |-> "waiting_for_approval"] \in RoundRows
    BY DEF RoundRows
  <2>2. [who |-> Engineer, status |-> "succeeded"] \in RoundRows
    BY DEF RoundRows, Roles
  <2>3. QED  BY <2>1, <2>2 DEF Init
<1>4. TasksFollowStages
  BY <1>1 DEF TasksFollowStages, Tasks, Engineer, Roles
<1>5. QED
  BY <1>1, <1>2, <1>3, <1>4 DEF TableInv, ClosingPlaces, NothingLeftRunning

\* The end of a stage completes its task, and the next stage finds the tasks it counts on.
LEMMA TasksFollow ==
    ASSUME DispatchAssumption, LoopInv, BetweenStages, TasksFollowStages,
           tasks \in [Tasks -> TaskStatuses]
    PROVE  /\ tasks' \in [Tasks -> TaskStatuses] /\ Tasks' = Tasks
           /\ TasksFollowStages'
           /\ job.kind = "summary" => tasks'["summary"] = "done"
<1> DEFINE ended == TaskOf(job.kind)
<1>1. /\ ended \in Tasks
      /\ job.kind # "summary" => ended = RoleOf(job.kind)
      /\ job.kind \in Kinds /\ plan.roles \subseteq Roles
  BY TaskExists DEF LoopInv, LoopTypes, Plans, Jobs
<1>2. /\ plan' = plan /\ tasks' = CompleteTask(tasks, ended) /\ Tasks' = Tasks
      /\ \/ job.kind # "summary" /\ Follows
         \/ job.kind = "summary" /\ UNCHANGED <<job, blocked>>
  BY StageFollows DEF Tasks, loopVars
<1> HIDE DEF ended
<1>3. /\ tasks' \in [Tasks -> TaskStatuses] /\ tasks'[ended] = "done"
      /\ \A u \in Tasks \ {ended} : tasks'[u] = tasks[u]
  BY <1>1, <1>2, TasksKept
<1>4. /\ job.kind = "summary" => ended = "summary"
      /\ ended # "plan" /\ {"plan", "summary"} \subseteq Tasks /\ plan.roles \subseteq Tasks
      /\ Engineer # "plan"
  BY <1>1, RoleFacts DEF ended, TaskOf, Tasks, Roles, Engineer, Reviewer, Tester, Lead
<1>5. Engineer \in plan.roles /\ Engineer \in Tasks
  BY <1>4 DEF LoopInv, LoopTypes
<1>6. tasks'[Engineer] = "done"
  <2>1. CASE job.kind = "build"
    BY <1>1, <1>3, <2>1, RoleFacts, KindFacts
  <2>2. CASE job.kind # "build"
    BY <1>3, <1>5, <2>2 DEF TasksFollowStages
  <2>3. QED  BY <2>1, <2>2
<1>7. \A u \in Tasks : tasks[u] = "done" => tasks'[u] = "done"
  BY <1>3
<1>8. \A u \in Tasks : u # Engineer => tasks'[u] \in {"todo", "done"}
  BY <1>3 DEF TasksFollowStages
<1>9. tasks'["plan"] = "done"
  BY <1>4, <1>7 DEF TasksFollowStages
<1>10. CASE job.kind = "summary"
  BY <1>2, <1>3, <1>4, <1>6, <1>7, <1>8, <1>9, <1>10 DEF TasksFollowStages
<1>11. CASE job.kind # "summary" /\ Follows
  <2>1. job'.kind = "test" /\ Reviewer \in plan.roles => tasks'[Reviewer] = "done"
    BY <1>1, <1>3, <1>11, RoleFacts DEF Follows
  <2>2. ASSUME job'.kind = "summary", ~blocked', NEW r \in plan.roles
        PROVE  tasks'[r] = "done"
    <3>1. CASE job.kind = "build" /\ plan.roles = {Engineer}
      BY <1>6, <3>1
    <3>2. CASE job.kind = "review" /\ Tester \notin plan.roles
      <4>1. ended = Reviewer /\ r \in {Engineer, Reviewer}
        BY <1>1, <1>11, <3>2, RoleFacts DEF Roles
      <4>2. QED  BY <1>3, <1>6, <4>1
    <3>3. CASE job.kind = "test"
      <4>1. ended = Tester /\ r \in {Engineer, Reviewer, Tester}
        BY <1>1, <1>11, <3>3, RoleFacts DEF Roles
      <4>2. Reviewer \in plan.roles => tasks'[Reviewer] = "done"
        BY <1>4, <1>7, <3>3 DEF TasksFollowStages
      <4>3. QED  BY <1>3, <1>6, <4>1, <4>2
    <3>4. QED  BY <1>11, <2>2, <3>1, <3>2, <3>3 DEF Follows
  <2>3. QED
    BY <1>2, <1>3, <1>6, <1>8, <1>9, <1>11, <2>1, <2>2 DEF TasksFollowStages
<1>12. QED  BY <1>2, <1>10, <1>11

\* An execution that announces its outcome has nobody left at work.
LEMMA OutcomeIsQuiet ==
    ASSUME LoopInv, PlaceInv, TableInv, pc = "finish"
    PROVE  AtRest(rowTasks) /\ (row.state = "completed" => \A t \in Tasks : rowTasks[t] = "done")
<1>1. TasksFollowStages /\ rowTasks = tasks /\ tasks["summary"] = "done"
  BY DEF TableInv, Working
<1>2. job.kind = "summary" /\ (row.state = "completed" => ~blocked)
  BY DEF PlaceInv
<1>3. tasks[Engineer] = "done"
  BY <1>1, <1>2 DEF TasksFollowStages
<1>4. AtRest(rowTasks)
  BY <1>1, <1>3 DEF TasksFollowStages, AtRest
<1>5. ASSUME row.state = "completed", NEW t \in Tasks PROVE rowTasks[t] = "done"
  BY <1>1, <1>2, <1>5 DEF TasksFollowStages, Tasks
<1>6. QED  BY <1>4, <1>5

LEMMA TableStep ==
    DispatchAssumption /\ LoopInv /\ PlaceInv /\ PlaceInv' /\ TableInv /\ [Next]_vars => TableInv'
<1> SUFFICES ASSUME DispatchAssumption, LoopInv, PlaceInv, PlaceInv', TableInv, [Next]_vars
             PROVE  TableInv'
  OBVIOUS
<1> USE DEF At, Goto, loopVars
<1>1. /\ rounds \in Seq(RoundRows) /\ tasks \in [Tasks -> TaskStatuses]
      /\ rowTasks \in [Tasks -> TaskStatuses]
      /\ job.kind \in Kinds /\ TaskOf(job.kind) \in Tasks
      /\ RoleOf(job.kind) \in Roles \cup {Lead, "nobody"}
  BY TaskExists, RoleFacts DEF TableInv, LoopInv, LoopTypes, Jobs
<1>2. CASE BetweenStages
  <2>1. /\ pc = "remember" /\ UNCHANGED <<plan, row, rowTasks, rounds>>
        /\ \/ pc' = "start"
           \/ pc' = "close" /\ job.kind = "summary"
    BY <1>2, StageFollows
  <2>2. TasksFollowStages
    BY <2>1 DEF TableInv, Working, StagePlaces
  <2>3. /\ tasks' \in [Tasks -> TaskStatuses] /\ Tasks' = Tasks /\ TasksFollowStages'
        /\ job.kind = "summary" => tasks'["summary"] = "done"
    BY <1>1, <1>2, <2>2, TasksFollow
  <2>4. QED
    BY <1>1, <2>1, <2>3 DEF TableInv, NothingLeftRunning, ClosingPlaces
\* Steps after which the tasks and rounds show what they showed before.
<1>3. CASE \/ Load \/ LoadThrows \/ StageThrows \/ OutcomeThrows \/ CatchThrows \/ RecordThrows
           \/ \E v \in Verdicts, p \in Pages \cup {NoPage} : AgentReturns(v, p)
  <2>1. /\ UNCHANGED <<plan, row, rowTasks, rounds, job, blocked>>
        /\ tasks' = tasks \/ (pc = "requested" /\ tasks' = rowTasks)
    BY <1>3 DEF Load, LoadThrows, StageThrows, OutcomeThrows, CatchThrows, RecordThrows,
       AgentReturns
  <2>2. tasks' = tasks  BY <2>1 DEF TableInv
  <2>3. \/ pc \in Working /\ pc' \in {"start", "save"}
        \/ pc' \in {"record", "catch", "lost", "parked"}
    BY <1>3 DEF Load, LoadThrows, StageThrows, OutcomeThrows, CatchThrows, RecordThrows,
       AgentReturns, Working, StagePlaces
  <2>4. Tasks' = Tasks  BY <2>1 DEF Tasks
  <2>5. TasksFollowStages => TasksFollowStages'
    BY <2>1, <2>2, <2>4 DEF TasksFollowStages
  <2>6. QED
    BY <1>1, <2>1, <2>2, <2>3, <2>4, <2>5
    DEF TableInv, NothingLeftRunning, Working, StagePlaces, ClosingPlaces
<1>4. CASE StartStage
  <2>1. /\ UNCHANGED <<plan, rounds, job, blocked, tasks>> /\ pc = "start" /\ pc' = "announce"
        /\ rowTasks' = StartTask(tasks, TaskOf(job.kind)) /\ Tasks' = Tasks
    BY <1>4 DEF StartStage, PersistWorkflowState, Tasks
  <2>2. rowTasks' \in [Tasks -> TaskStatuses]  BY <1>1, <2>1, TasksKept
  <2>3. TasksFollowStages'
    BY <2>1 DEF TableInv, TasksFollowStages, Working, StagePlaces
  <2>4. QED
    BY <1>1, <2>1, <2>2, <2>3 DEF TableInv, NothingLeftRunning, ClosingPlaces
<1>5. CASE AnnounceStage \/ SaveStage \/ PageMissing
  <2>1. /\ UNCHANGED <<plan, row, rowTasks, job, blocked, tasks>> /\ pc \in StagePlaces
        /\ pc' \in {"agent", "remember", "catch"} /\ Tasks' = Tasks
    BY <1>5 DEF AnnounceStage, SaveStage, PageMissing, StagePlaces, Tasks
  <2>2. rounds' \in Seq(RoundRows)
    BY <1>1, <1>5, RoundInserted, RoundCompleted DEF AnnounceStage, SaveStage, PageMissing
  <2>3. TasksFollowStages'
    BY <2>1 DEF TableInv, TasksFollowStages, Working
  <2>4. QED
    BY <1>1, <2>1, <2>2, <2>3 DEF TableInv, NothingLeftRunning, ClosingPlaces
<1>6. CASE CloseRounds
  <2>1. /\ UNCHANGED <<plan, row, rowTasks, job, blocked, tasks>> /\ pc = "close"
        /\ pc' = "persist" /\ Tasks' = Tasks
    BY <1>6 DEF CloseRounds, Tasks
  <2>2. rounds' \in Seq(RoundRows) /\ NoRoundRuns'
    BY <1>1, <1>6, RoundsClosed DEF CloseRounds
  <2>3. TasksFollowStages'
    BY <2>1 DEF TableInv, TasksFollowStages, Working, ClosingPlaces
  <2>4. QED
    BY <1>1, <2>1, <2>2, <2>3 DEF TableInv, NothingLeftRunning, ClosingPlaces
<1>7. CASE PersistOutcome
  <2>1. /\ UNCHANGED <<plan, rounds, job, blocked, tasks>> /\ pc = "persist"
        /\ pc' = "finish" /\ Tasks' = Tasks /\ rowTasks' = tasks
    BY <1>7 DEF PersistOutcome, PersistWorkflowState, Tasks
  <2>2. NoRoundRuns'  BY <2>1 DEF TableInv, NoRoundRuns
  <2>3. TasksFollowStages'
    BY <2>1 DEF TableInv, TasksFollowStages, Working, ClosingPlaces
  <2>4. QED
    BY <1>1, <2>1, <2>2, <2>3 DEF TableInv, NothingLeftRunning, ClosingPlaces
<1>8. CASE AnnounceOutcome
  <2>1. /\ UNCHANGED <<plan, row, rowTasks, job, blocked, tasks>> /\ pc = "finish"
        /\ pc' = "done" /\ Tasks' = Tasks /\ NoRoundRuns
    BY <1>8 DEF AnnounceOutcome, Tasks, TableInv
  <2>2. rounds' \in Seq(RoundRows) /\ NoRoundRuns'
    BY <1>1, <1>8, <2>1, RoundInserted DEF AnnounceOutcome
  <2>3. NothingLeftRunning'
    BY <2>1, <2>2, OutcomeIsQuiet DEF NothingLeftRunning, AtRest, NoRoundRuns
  <2>4. QED
    BY <1>1, <2>1, <2>2, <2>3 DEF TableInv, Working, StagePlaces, ClosingPlaces
<1>9. CASE CatchClosesRounds
  <2>1. /\ UNCHANGED <<plan, row, rowTasks, job, blocked>>
        /\ tasks' = MarkRunningTasksFailed(tasks) /\ pc' = "catch_persist" /\ Tasks' = Tasks
    BY <1>9 DEF CatchClosesRounds, Tasks
  <2>2. rounds' \in Seq(RoundRows) /\ NoRoundRuns'
    BY <1>1, <1>9, RoundsClosed DEF CatchClosesRounds
  <2>3. tasks' \in [Tasks -> TaskStatuses] /\ AtRest(tasks')
    BY <1>1, <2>1, TasksKept
  <2>4. QED
    BY <1>1, <2>1, <2>2, <2>3
    DEF TableInv, NothingLeftRunning, Working, StagePlaces, ClosingPlaces, AtRest
<1>10. CASE CatchPersists
  <2>1. /\ UNCHANGED <<plan, rounds, tasks>> /\ rowTasks' = tasks
        /\ pc = "catch_persist" /\ pc' = "catch_announce" /\ Tasks' = Tasks
    BY <1>10 DEF CatchPersists, PersistWorkflowState, Tasks
  <2>2. QED
    BY <1>1, <2>1
    DEF TableInv, NothingLeftRunning, Working, StagePlaces, ClosingPlaces, AtRest, NoRoundRuns
<1>11. CASE CatchAnnounces
  <2>1. /\ UNCHANGED <<plan, row, rowTasks, tasks>> /\ pc = "catch_announce" /\ pc' = "done"
        /\ Tasks' = Tasks /\ NoRoundRuns /\ AtRest(rowTasks) /\ row.state # "completed"
    BY <1>11 DEF CatchAnnounces, Tasks, TableInv, PlaceInv
  <2>2. rounds' \in Seq(RoundRows) /\ NoRoundRuns'
    BY <1>1, <1>11, <2>1, RoundInserted DEF CatchAnnounces
  <2>3. QED
    BY <1>1, <2>1, <2>2
    DEF TableInv, NothingLeftRunning, Working, StagePlaces, ClosingPlaces, AtRest, NoRoundRuns
<1>12. CASE RecordPersists
  <2>1. /\ UNCHANGED <<plan, rounds, tasks>> /\ rowTasks' = MarkRunningTasksFailed(rowTasks)
        /\ pc' = "record_close" /\ Tasks' = Tasks
    BY <1>12 DEF RecordPersists, PersistWorkflowState, Tasks
  <2>2. rowTasks' \in [Tasks -> TaskStatuses] /\ AtRest(rowTasks')
    BY <1>1, <2>1, TasksKept
  <2>3. QED
    BY <1>1, <2>1, <2>2
    DEF TableInv, NothingLeftRunning, Working, StagePlaces, ClosingPlaces, AtRest
<1>13. CASE RecordCloses
  <2>1. /\ UNCHANGED <<plan, row, rowTasks, tasks>> /\ pc = "record_close" /\ pc' = "done"
        /\ Tasks' = Tasks /\ AtRest(rowTasks) /\ row.state # "completed"
    BY <1>13 DEF RecordCloses, Tasks, TableInv, PlaceInv
  <2>2. rounds' \in Seq(RoundRows) /\ NoRoundRuns'
    BY <1>1, <1>13, RoundsClosed DEF RecordCloses
  <2>3. QED
    BY <1>1, <2>1, <2>2
    DEF TableInv, NothingLeftRunning, Working, StagePlaces, ClosingPlaces, AtRest, NoRoundRuns
<1>14. CASE UNCHANGED vars
  BY <1>14 DEF vars, TableInv, NothingLeftRunning, TasksFollowStages, NoRoundRuns, AtRest, Tasks
<1>15. QED
  BY <1>2, <1>3, <1>4, <1>5, <1>6, <1>7, <1>8, <1>9, <1>10, <1>11, <1>12, <1>13, <1>14
  DEF Next, Progress, Throws

-----------------------------------------------------------------------------
(***************************************************************************)
(* The theorems.                                                           *)
(***************************************************************************)
LEMMA IInvHolds == ASSUME DispatchAssumption PROVE Spec => []IInv
<1>1. Init => IInv
  BY LoopInit, PlaceInit, TableInit DEF IInv
<1>2. IInv /\ [Next]_vars => IInv'
  BY LoopStep, PlaceStep, TableStep DEF IInv
<1>3. QED  BY <1>1, <1>2, PTL DEF Spec

LEMMA RowTypes == PlaceInv => row.state \in Execution!WorkflowStates
BY DEF PlaceInv, RowsOf

\* The engineer is never asked more often than the bound says, whatever stage runs.
LEMMA LimitIsBounded ==
    ASSUME DispatchAssumption, LoopInv
    PROVE  RepairsAreBounded
<1>1. /\ cycle \in Nat /\ MaxRepairCycles \in Nat /\ cycle <= MaxRepairCycles
      /\ job.kind \in Kinds
      /\ Count(EngineerKinds) \in Nat /\ Count({"review"}) \in Nat /\ Count({"test"}) \in Nat
  BY EntriesAreFinite DEF LoopInv, LoopTypes, DispatchAssumption, Jobs
<1>2. EngineerBound \in Nat
  BY <1>1 DEF EngineerBound
<1>3. EngineerLimit \in Nat /\ EngineerLimit <= EngineerBound
  <2>1. CASE job.kind = "build"
    BY <1>1, <1>2, <2>1 DEF EngineerLimit
  <2>2. CASE job.kind \in {"repair_review", "repair_test"}
    <3>1. cycle < MaxRepairCycles
      BY <2>2 DEF LoopInv, JobFits, RepairKinds
    <3>2. EngineerLimit = 2 * cycle + 1
      BY <1>1, <2>2, <3>1 DEF EngineerLimit, AskedBefore
    <3>3. QED  BY <1>1, <3>1, <3>2 DEF EngineerBound
  <2>3. CASE job.kind \in {"review", "test"}
    <3>1. EngineerLimit = AskedBefore(cycle)
      BY <2>3 DEF EngineerLimit
    <3>2. AskedBefore(cycle) \in Nat /\ AskedBefore(cycle) <= EngineerBound
      BY <1>1 DEF AskedBefore, EngineerBound
    <3>3. QED  BY <3>1, <3>2
  <2>4. CASE job.kind = "retry"
    <3>1. cycle + 1 < MaxRepairCycles
      BY <2>4 DEF LoopInv, JobFits
    <3>2. EngineerLimit = 2 * cycle + 2
      BY <2>4 DEF EngineerLimit
    <3>3. QED  BY <1>1, <3>1, <3>2 DEF EngineerBound
  <2>5. CASE job.kind \in {"confirm", "summary"}
    BY <1>2, <2>5 DEF EngineerLimit
  <2>6. QED
    BY <1>1, <2>1, <2>2, <2>3, <2>4, <2>5 DEF Kinds, EngineerKinds, RepairKinds
<1>4. Count(EngineerKinds) <= EngineerLimit
  BY DEF LoopInv, Counts
<1>5. Count(EngineerKinds) <= EngineerBound
  BY <1>1, <1>2, <1>3, <1>4
<1>6. Count({"review"}) <= cycle + 1 /\ Count({"test"}) <= cycle + 1
  BY <1>1 DEF LoopInv, Counts
<1>7. QED  BY <1>1, <1>5, <1>6 DEF RepairsAreBounded, Count

LEMMA IInvChecksWork == ASSUME DispatchAssumption, IInv PROVE WorkIsChecked
<1> USE DEF IInv
<1>1. TypeOK
  BY RowTypes DEF TypeOK, LoopInv, LoopTypes, PlaceInv, TableInv, Plans, Jobs, Outs, LogEntries,
     TaskStatuses, RoundRows
<1>2. CompletedIsVerified
  <2>1. row.state = "completed" => job.kind = "summary" /\ ~blocked
    BY DEF PlaceInv
  <2>2. QED
    BY <2>1 DEF CompletedIsVerified, LoopInv, ChecksStand, ReviewStands, TestStands,
       LastWordIsPass
<1>3. TesterIsHeard  BY DEF LoopInv, Heard
<1>4. RepairsAreBounded  BY LimitIsBounded
<1>5. NothingLeftRunning  BY DEF TableInv
<1>6. QED  BY <1>1, <1>2, <1>3, <1>4, <1>5 DEF WorkIsChecked

(* However many repair cycles are allowed and whoever takes part: a completed workflow was   *)
(* passed by every checker after the engineer's last change, the tester is heard before the *)
(* summary, repairs are bounded and nothing is left running.  (executeApprovedWorkflow)     *)
THEOREM ChecksRule == ASSUME DispatchAssumption PROVE Spec => []WorkIsChecked
<1>1. IInv => WorkIsChecked  BY IInvChecksWork
<1>2. QED  BY <1>1, IInvHolds, PTL

-----------------------------------------------------------------------------
(***************************************************************************)
(* The refinement.                                                         *)
(***************************************************************************)
\* What a change of the phase, with the row or without, is for the coarse executor.
LEMMA Stutters ==
    ASSUME row' = row, Phase' = Phase
    PROVE  UNCHANGED Execution!execVars
BY DEF Execution!execVars

LEMMA Moves ==
    ASSUME NEW s, Phase' = s
    PROVE  Execution!Goto("this", s)
BY DEF Execution!Goto

LEMMA ExecutionStep ==
    DispatchAssumption /\ IInv /\ [Next]_vars => [Execution!ExecNext]_(Execution!execVars)
<1> SUFFICES ASSUME DispatchAssumption, IInv, [Next]_vars
             PROVE  Execution!ExecNext \/ UNCHANGED Execution!execVars
  OBVIOUS
<1> USE DEF At, Goto
<1>1. ASSUME Execution!ExecStep("this") \/ Execution!Vanish("this")
      PROVE  Execution!ExecNext
  BY <1>1 DEF Execution!ExecNext
<1>2. CASE Load
  <2>1. pc = "requested" /\ pc' = "start" /\ row' = row /\ row.approval = "approved"
    BY <1>2 DEF Load, IInv, PlaceInv, RowsOf
  <2>2. Phase = "requested" /\ Phase' = "running"
    BY <2>1 DEF Phase
  <2>3. Execution!LoadSnapshot("this")
    BY <2>1, <2>2, Moves DEF Execution!LoadSnapshot
  <2>4. QED  BY <1>1, <2>3 DEF Execution!ExecStep
<1>3. CASE LoadThrows
  <2>1. pc = "requested" /\ pc' = "record" /\ row' = row
    BY <1>3 DEF LoadThrows
  <2>2. Phase = "requested" /\ Phase' = "failing"
    BY <2>1 DEF Phase
  <2>3. Execution!LoadFails("this")
    BY <2>1, <2>2, Moves DEF Execution!LoadFails
  <2>4. QED  BY <1>1, <2>3 DEF Execution!ExecStep
<1>4. CASE StartStage
  <2>1. /\ pc = "start" /\ pc' = "announce" /\ row' = [row EXCEPT !.state = StateOf(job.kind)]
        /\ StateOf(job.kind) \in Execution!StageStates
    BY <1>4, StatesOfRows DEF StartStage, PersistWorkflowState, IInv, LoopInv, LoopTypes, Jobs
  <2>2. Phase = "running" /\ Phase' = "running"
    BY <2>1 DEF Phase
  <2>3. Execution!EnterStage("this", StateOf(job.kind))
    BY <2>1, <2>2 DEF Execution!EnterStage, Execution!SetState
  <2>4. QED  BY <1>1, <2>1, <2>3 DEF Execution!ExecStep
<1>5. CASE \/ AnnounceStage \/ SaveStage \/ PageMissing \/ StageThrows \/ CloseRounds
           \/ OutcomeThrows \/ CatchClosesRounds \/ RecordCloses
           \/ \E v \in Verdicts, p \in Pages \cup {NoPage} : AgentReturns(v, p)
  <2>1. row' = row /\ settled' = settled
    BY <1>5 DEF AnnounceStage, SaveStage, PageMissing, StageThrows, CloseRounds, OutcomeThrows,
       CatchClosesRounds, RecordCloses, AgentReturns
  <2>2. \/ pc \in StagePlaces /\ pc' \in StagePlaces
        \/ pc \in StagePlaces \cup ClosingPlaces /\ pc' \in {"catch", "persist"}
        \/ pc = "finish" /\ pc' = "catch"
        \/ pc = "catch" /\ pc' = "catch_persist"
        \/ pc = "record_close" /\ pc' = "done"
    BY <1>5 DEF AnnounceStage, SaveStage, PageMissing, StageThrows, CloseRounds, OutcomeThrows,
       CatchClosesRounds, RecordCloses, AgentReturns, StagePlaces, ClosingPlaces
  <2>3. /\ pc \in StagePlaces \cup ClosingPlaces => ~settled
        /\ pc = "finish" => settled
    BY DEF IInv, PlaceInv
  <2>4. Phase' = Phase
    BY <2>1, <2>2, <2>3 DEF Phase, StagePlaces, ClosingPlaces
  <2>5. QED  BY <2>1, <2>4, Stutters
<1>6. CASE BetweenStages
  <2>1. row' = row /\ pc = "remember" /\ pc' \in {"start", "close"}
    BY <1>6, StageFollows DEF IInv
  <2>2. Phase' = Phase  BY <2>1 DEF Phase
  <2>3. QED  BY <2>1, <2>2, Stutters
<1>7. CASE PersistOutcome
  <2>1. /\ pc = "persist" /\ pc' = "finish"
        /\ row' = [row EXCEPT !.state = IF blocked THEN "execution_failed" ELSE "completed"]
    BY <1>7 DEF PersistOutcome, PersistWorkflowState
  <2>2. Phase = "running" /\ Phase' = "settled"
    BY <2>1 DEF Phase
  <2>3. \E s \in Execution!OutcomeStates : Execution!WriteOutcome("this", s)
    BY <2>1, <2>2, Moves
    DEF Execution!WriteOutcome, Execution!SetState, Execution!OutcomeStates
  <2>4. QED  BY <1>1, <2>3 DEF Execution!ExecStep
<1>8. CASE AnnounceOutcome \/ CatchAnnounces
  <2>1. pc \in {"finish", "catch_announce"} /\ pc' = "done" /\ row' = row
    BY <1>8 DEF AnnounceOutcome, CatchAnnounces
  <2>2. Phase = "settled" /\ Phase' = "done"
    BY <2>1 DEF Phase
  <2>3. Execution!Return("this")
    BY <2>1, <2>2, Moves DEF Execution!Return
  <2>4. QED  BY <1>1, <2>3 DEF Execution!ExecStep
<1>9. CASE CatchPersists
  <2>1. /\ pc = "catch_persist" /\ pc' = "catch_announce"
        /\ row' = [row EXCEPT !.state = "execution_failed"]
    BY <1>9 DEF CatchPersists, PersistWorkflowState
  <2>2. Phase' = "settled"  BY <2>1 DEF Phase
  <2>3. CASE settled
    <3>1. Phase = "settled"  BY <2>1, <2>3 DEF Phase
    <3>2. Execution!RewriteOutcome("this")
      BY <2>1, <2>2, <3>1 DEF Execution!RewriteOutcome, Execution!SetState
    <3>3. QED  BY <1>1, <3>2 DEF Execution!ExecStep
  <2>4. CASE ~settled
    <3>1. Phase = "running"  BY <2>1, <2>4 DEF Phase
    <3>2. \E s \in Execution!OutcomeStates : Execution!WriteOutcome("this", s)
      BY <2>1, <2>2, <3>1, Moves
      DEF Execution!WriteOutcome, Execution!SetState, Execution!OutcomeStates
    <3>3. QED  BY <1>1, <3>2 DEF Execution!ExecStep
  <2>5. QED  BY <2>3, <2>4
<1>10. CASE CatchThrows
  <2>1. pc \in {"catch", "catch_persist", "catch_announce"} /\ pc' = "record" /\ row' = row
    BY <1>10 DEF CatchThrows
  <2>2. Phase \in {"running", "settled"} /\ Phase' = "failing"
    BY <2>1 DEF Phase
  <2>3. Execution!HandlerFails("this")
    BY <2>1, <2>2, Moves DEF Execution!HandlerFails
  <2>4. QED  BY <1>1, <2>3 DEF Execution!ExecStep
<1>11. CASE RecordPersists
  <2>1. /\ pc = "record" /\ pc' = "record_close"
        /\ row' = [row EXCEPT !.state = "awaiting_user_confirmation"]
    BY <1>11 DEF RecordPersists, PersistWorkflowState
  <2>2. Phase = "failing" /\ Phase' = "done"
    BY <2>1 DEF Phase
  <2>3. Execution!RecordFailure("this")
    BY <2>1, <2>2, Moves DEF Execution!RecordFailure, Execution!SetState
  <2>4. QED  BY <1>1, <2>3 DEF Execution!ExecStep
<1>12. CASE RecordThrows
  <2>1. row' = row  BY <1>12 DEF RecordThrows
  <2>2. CASE pc = "record"
    <3>1. Phase = "failing" /\ Phase' = "lost"
      BY <1>12, <2>2 DEF RecordThrows, Phase
    <3>2. Execution!Vanish("this")
      BY <2>1, <3>1, Moves DEF Execution!Vanish, Execution!Live
    <3>3. QED  BY <1>1, <3>2
  <2>3. CASE pc # "record"
    <3>1. Phase' = Phase
      BY <1>12, <2>3 DEF RecordThrows, Phase
    <3>2. QED  BY <2>1, <3>1, Stutters
  <2>4. QED  BY <2>2, <2>3
<1>13. CASE UNCHANGED vars
  <2>1. row' = row /\ Phase' = Phase  BY <1>13 DEF vars, Phase
  <2>2. QED  BY <2>1, Stutters
<1>14. QED
  BY <1>2, <1>3, <1>4, <1>5, <1>6, <1>7, <1>8, <1>9, <1>10, <1>11, <1>12, <1>13
  DEF Next, Progress, Throws

(* Every execution, with its stages, repairs and failures, is one the approval gate reckons  *)
(* with: each of its writes to the row is a step of CodingWorkflowExecution, and everything  *)
(* else it does leaves the gate's view alone.  (executeApprovedWorkflow, recordDispatchFailure) *)
THEOREM StagesImplementExecution == ASSUME DispatchAssumption PROVE Spec => ImplementsExecution
<1>1. Init => Execution!ExecInit
  BY DEF Init, Execution!ExecInit, Phase
<1>2. QED
  BY <1>1, IInvHolds, ExecutionStep, PTL
  DEF Spec, ImplementsExecution, Execution!ExecSpec

-----------------------------------------------------------------------------
(***************************************************************************)
(* The channel: the inductive invariant.                                   *)
(***************************************************************************)
Seeable == {m \in DOMAIN messages : messages[m].visible}
Pinned == {channel.pins[k] : k \in DOMAIN channel.pins}
Held == {calls[i].msg : i \in {j \in DOMAIN calls : calls[j].at = "flagged"}}
Deletions == {"expire", "restore", "delete"}

\* What a call knows of the channel while it is under way.
Fitting ==
    {c \in Channel!Calls :
        /\ c.op = "post" => c.at \in {"checked", "writing"}
        /\ c.op \in {"pin", "unpin"} => c.at \in {"checked", "flagged"}
        /\ c.op = "react" => c.at \in {"checked", "found"} /\ <<c.who, c.msg>> \in Channel!Pairs
        /\ c.op = "mark" => c.at = "checked" /\ c.who \in Channel!People
        /\ c.op \in Deletions => c.at \in {"asked", "waiting", "locked", "update"}
        /\ c.at = "writing" => c.msg \in DOMAIN messages
        /\ c.at = "flagged" =>
              /\ c.msg \in Seeable
              /\ messages[c.msg].pinned <=> c.op = "pin"
              /\ c.mark <=> c.msg \in Pinned
        /\ c.op = "mark" /\ channel.alive /\ c.msg # 0 => c.msg \in seen[c.who] \cap Channel!Listed
        /\ c.at = "locked" /\ c.op # "delete" => channel.archived = "old"
        /\ c.op = "delete" => deleting
        /\ c.at = "found" /\ channel.alive /\ <<c.who, c.msg>> \notin doubled =>
              (c.mark <=> <<c.who, c.msg>> \in reactions)}

\* What two calls know of each other: a message is held by one pin, nobody writes while the
\* channel is locked, and overlapping taps have been noticed.
Apart ==
    {p \in Channel!Calls \X Channel!Calls :
        /\ ~(p[1].at = "flagged" /\ p[2].at = "flagged" /\ p[1].msg = p[2].msg)
        /\ ~(p[1].at = "writing" /\ p[2].at = "locked")
        /\ /\ channel.alive /\ p[1].op = "react" /\ p[2].op = "react"
           /\ p[1].who = p[2].who /\ p[1].msg = p[2].msg
           => <<p[1].who, p[1].msg>> \in doubled}

CallsFit ==
    /\ \A i \in DOMAIN calls : calls[i] \in Fitting
    /\ \A i, j \in DOMAIN calls : i # j => <<calls[i], calls[j]>> \in Apart

\* Every message that is checked will find a place.
Checked(s) == {i \in 1..Len(s) : s[i].op = "post" /\ s[i].at = "checked"}
RoomIsLeft == Len(messages) + Cardinality(Checked(calls)) <= MaxMessages

\* The roots before one that was shown were shown with it, or came late.
SeenFromTheTop ==
    \A u \in Channel!People : \A n \in seen[u] :
        /\ n \in Seeable
        /\ messages[n].parent # 0 => messages[n].parent \in seen[u]
        /\ messages[n].parent = 0 => \A m \in Channel!Listed : m < n => m \in seen[u] \cup late

\* A mark passes over nothing that was not shown, but for what comes late or will.
MarksAreHonest ==
    \A u \in Channel!People :
        /\ seats[u].lastRead <= Len(messages)
        /\ \A m \in DOMAIN messages : m <= seats[u].lastRead /\ messages[m].parent = 0 =>
              \/ m \in late
              \/ m \in Seeable /\ m \in seen[u]
              \/ m \notin Seeable /\ \E n \in Seeable : m < n

PinsFit ==
    /\ \A j, k \in DOMAIN channel.pins : channel.pins[j] = channel.pins[k] => j = k
    /\ Pinned \subseteq DOMAIN messages
    /\ \A m \in DOMAIN messages : m \notin Held => (messages[m].pinned <=> m \in Pinned)

DeadIsEmpty == ~channel.alive => messages = << >>

ChannelInv ==
    /\ Channel!TypeOK /\ CallsFit /\ RoomIsLeft
    /\ SeenFromTheTop /\ MarksAreHonest /\ PinsFit
    /\ Channel!ReactionsFollowTaps /\ Channel!GoneForAReason /\ DeadIsEmpty

-----------------------------------------------------------------------------
(***************************************************************************)
(* Calls that end, go on and start.                                        *)
(***************************************************************************)
LEMMA BoundsOfTheChannel == MaxMessages \in Nat \ {0} /\ MaxCalls \in Nat /\ Overlap \in Nat \ {0}
  BY ChannelConstants DEF Channel!ChannelAssumption

\* Finite sets are counted alike on both sides of the instance.
LEMMA CountedAlike == \A S : Channel!Cardinality(S) = Cardinality(S)
  BY DEF Channel!Cardinality, Cardinality

LEMMA Removed ==
    ASSUME NEW S, NEW s \in Seq(S), NEW i \in 1..Len(s)
    PROVE  /\ Channel!RemoveAt(s, i) \in Seq(S) /\ Len(Channel!RemoveAt(s, i)) = Len(s) - 1
           /\ Len(s) \in Nat /\ Len(s) > 0
           /\ \A j \in 1..(i - 1) : Channel!RemoveAt(s, i)[j] = s[j]
           /\ \A j \in i..(Len(s) - 1) : Channel!RemoveAt(s, i)[j] = s[j + 1]
<1> DEFINE a == SubSeq(s, 1, i - 1)
           b == SubSeq(s, i + 1, Len(s))
<1>1. /\ a \in Seq(S) /\ Len(a) = i - 1
      /\ \A j \in 1..(i - 1) : a[j] = s[j]
  OBVIOUS
<1>2. /\ b \in Seq(S) /\ Len(b) = Len(s) - i
      /\ \A j \in 1..(Len(s) - i) : b[j] = s[i + j]
  OBVIOUS
<1>3. Channel!RemoveAt(s, i) = a \o b  BY DEF Channel!RemoveAt
<1> HIDE DEF a, b
<1>4. /\ a \o b \in Seq(S) /\ Len(a \o b) = Len(a) + Len(b)
      /\ \A j \in 1..Len(a) : (a \o b)[j] = a[j]
      /\ \A j \in (Len(a) + 1)..(Len(a) + Len(b)) : (a \o b)[j] = b[j - Len(a)]
  <2>0. Len(a) \in Nat /\ Len(b) \in Nat  BY <1>1, <1>2
  <2>1. a \o b \in Seq(S) /\ Len(a \o b) = Len(a) + Len(b)  BY <1>1, <1>2, ConcatProperties
  <2>2. \A j \in 1..(Len(a) + Len(b)) :
          (a \o b)[j] = IF j <= Len(a) THEN a[j] ELSE b[j - Len(a)]
    BY <1>1, <1>2, ConcatProperties
  <2>3. \A j \in 1..Len(a) : (a \o b)[j] = a[j]  BY <2>0, <2>2
  <2>4. \A j \in (Len(a) + 1)..(Len(a) + Len(b)) : (a \o b)[j] = b[j - Len(a)]  BY <2>0, <2>2
  <2>5. QED  BY <2>1, <2>2, <2>3, <2>4
<1>5. Len(a \o b) = Len(s) - 1  BY <1>1, <1>2, <1>4
<1>6. ASSUME NEW j \in i..(Len(s) - 1) PROVE (a \o b)[j] = s[j + 1]
  <2>1. (a \o b)[j] = b[j - Len(a)]  BY <1>1, <1>2, <1>4
  <2>2. j - Len(a) \in 1..(Len(s) - i)  BY <1>1
  <2>3. b[j - Len(a)] = s[i + (j - Len(a))]  BY <1>2, <2>2
  <2>4. i + (j - Len(a)) = j + 1  BY <1>1
  <2>5. QED  BY <2>1, <2>3, <2>4
<1>7. Len(s) \in Nat /\ Len(s) > 0  OBVIOUS
<1>8. QED  BY <1>1, <1>3, <1>4, <1>5, <1>6, <1>7

\* Where the calls were before one of them ended, and where they are now.
Place(i, j) == IF j < i THEN j ELSE j + 1

LEMMA Moved ==
    ASSUME NEW S, calls \in Seq(S), NEW i \in 1..Len(calls), calls' = Channel!RemoveAt(calls, i)
    PROVE  /\ calls' \in Seq(S) /\ Len(calls') = Len(calls) - 1 /\ Len(calls) \in Nat
           /\ \A j \in 1..Len(calls') : /\ Place(i, j) \in 1..Len(calls) /\ Place(i, j) # i
                                        /\ calls'[j] = calls[Place(i, j)]
           /\ \A j, k \in 1..Len(calls') : Place(i, j) = Place(i, k) => j = k
           /\ \A m \in 1..Len(calls) : m # i => \E j \in 1..Len(calls') : calls'[j] = calls[m]
<1>1. /\ calls' \in Seq(S) /\ Len(calls') = Len(calls) - 1 /\ Len(calls) \in Nat /\ Len(calls) > 0
      /\ \A j \in 1..(i - 1) : calls'[j] = calls[j]
      /\ \A j \in i..(Len(calls) - 1) : calls'[j] = calls[j + 1]
  BY Removed
<1>2. ASSUME NEW j \in 1..Len(calls')
      PROVE  /\ Place(i, j) \in 1..Len(calls) /\ Place(i, j) # i
             /\ calls'[j] = calls[Place(i, j)]
  <2>1. CASE j < i
    <3>1. j \in 1..(i - 1) /\ Place(i, j) = j /\ j \in 1..Len(calls) /\ j # i  BY <1>1,
                                                                                  <2>1 DEF Place
    <3>2. QED  BY <1>1, <3>1
  <2>2. CASE ~(j < i)
    <3>1. /\ j \in i..(Len(calls) - 1) /\ Place(i, j) = j + 1 /\ j + 1 \in 1..Len(calls) /\ j + 1 # i
      BY <1>1, <2>2 DEF Place
    <3>2. QED  BY <1>1, <3>1
  <2>3. QED  BY <2>1, <2>2
<1>3. ASSUME NEW j \in 1..Len(calls'), NEW k \in 1..Len(calls'), Place(i, j) = Place(i, k) PROVE j = k
  BY <1>1, <1>3 DEF Place
<1>4. ASSUME NEW m \in 1..Len(calls), m # i
      PROVE  \E j \in 1..Len(calls') : calls'[j] = calls[m]
  <2>1. CASE m < i
    <3>1. m \in 1..(i - 1) /\ m \in 1..Len(calls')  BY <1>1, <2>1
    <3>2. QED  BY <1>1, <3>1
  <2>2. CASE ~(m < i)
    <3>1. m - 1 \in i..(Len(calls) - 1) /\ m - 1 \in 1..Len(calls') /\ (m - 1) + 1 = m
      BY <1>1, <1>4, <2>2
    <3>2. calls'[m - 1] = calls[m]  BY <1>1, <3>1
    <3>3. QED  BY <3>1, <3>2
  <2>3. QED  BY <2>1, <2>2
<1>5. QED  BY <1>1, <1>2, <1>3, <1>4

LEMMA CheckedAreFew ==
    ASSUME NEW S, NEW s \in Seq(S)
    PROVE  /\ Checked(s) \subseteq 1..Len(s) /\ IsFiniteSet(Checked(s))
           /\ Cardinality(Checked(s)) \in Nat
<1>1. Checked(s) \subseteq 1..Len(s)  BY DEF Checked
<1>2. IsFiniteSet(1..Len(s))  BY FS_Interval
<1>3. IsFiniteSet(Checked(s))  BY <1>1, <1>2, FS_Subset
<1>4. QED  BY <1>1, <1>3, FS_CardinalityType
-----------------------------------------------------------------------------
(***************************************************************************)
(* What the invariant says of the calls and of the messages.               *)
(***************************************************************************)
LEMMA CallFacts ==
    ASSUME ChannelInv
    PROVE  /\ calls \in Seq(Channel!Calls) /\ Len(calls) \in Nat /\ Len(calls) <= Overlap
           /\ DOMAIN calls = 1..Len(calls)
           /\ \A i \in 1..Len(calls) : calls[i] \in Channel!Calls /\ calls[i] \in Fitting
           /\ \A i, j \in 1..Len(calls) : i # j => <<calls[i], calls[j]>> \in Apart
<1>1. /\ calls \in Seq(Channel!Calls) /\ Len(calls) \in Nat /\ Len(calls) <= Overlap
      /\ DOMAIN calls = 1..Len(calls)
  BY DEF ChannelInv, Channel!TypeOK
<1>2. \A i \in 1..Len(calls) : calls[i] \in Channel!Calls  BY <1>1
<1>3. QED  BY <1>1, <1>2 DEF ChannelInv, CallsFit

LEMMA MessageFacts ==
    ASSUME ChannelInv
    PROVE  /\ messages \in Seq(Channel!Messages) /\ Len(messages) \in Nat
           /\ Len(messages) <= MaxMessages /\ MaxMessages \in Nat
           /\ DOMAIN messages = 1..Len(messages) /\ 1..Len(messages) \subseteq Channel!Ids
           /\ \A m \in 1..Len(messages) : messages[m] \in Channel!Messages
<1>1. /\ messages \in Seq(Channel!Messages) /\ Len(messages) \in Nat
      /\ Len(messages) <= MaxMessages /\ MaxMessages \in Nat
      /\ DOMAIN messages = 1..Len(messages)
  BY BoundsOfTheChannel DEF ChannelInv, Channel!TypeOK
<1>2. \A m \in 1..Len(messages) : messages[m] \in Channel!Messages  BY <1>1
<1>3. 1..Len(messages) \subseteq Channel!Ids  BY <1>1 DEF Channel!Ids
<1>4. QED  BY <1>1, <1>2, <1>3

\* Nobody has been shown, nor has marked, what is not there.
LEMMA ReadFacts ==
    ASSUME ChannelInv, NEW u \in Channel!People
    PROVE  /\ seats[u] \in Channel!Seats /\ seats[u].lastRead \in Nat
           /\ seats[u].lastRead <= Len(messages)
           /\ seen[u] \subseteq Seeable /\ Seeable \subseteq 1..Len(messages)
           /\ seen[u] \subseteq Channel!Ids
<1>1. seats[u] \in Channel!Seats /\ seen[u] \subseteq Channel!Ids  BY DEF ChannelInv,
                                                                      Channel!TypeOK
<1>2. seats[u].lastRead \in Nat  BY <1>1 DEF Channel!Seats
<1>3. seats[u].lastRead <= Len(messages)  BY DEF ChannelInv, MarksAreHonest
<1>4. seen[u] \subseteq Seeable  BY DEF ChannelInv, SeenFromTheTop
<1>5. Seeable \subseteq 1..Len(messages)  BY MessageFacts DEF Seeable
<1>6. QED  BY <1>1, <1>2, <1>3, <1>4, <1>5

-----------------------------------------------------------------------------
(***************************************************************************)
(* What a call knows stays true when the others take a step.               *)
(***************************************************************************)
LEMMA StillFits ==
    ASSUME NEW c \in Fitting, deleting => deleting',
           c.at = "writing" => c.msg \in DOMAIN messages',
           c.at = "flagged" =>
               /\ c.msg \in Seeable'
               /\ messages'[c.msg].pinned = messages[c.msg].pinned
               /\ c.msg \in Pinned' <=> c.msg \in Pinned,
           c.op = "mark" /\ channel'.alive =>
               /\ channel.alive /\ seen[c.who] \subseteq seen'[c.who]
               /\ Channel!Listed \subseteq Channel!Listed',
           c.at = "locked" /\ c.op # "delete" /\ channel.archived = "old"
               => channel'.archived = "old",
           c.at = "found" /\ channel'.alive =>
               /\ channel.alive /\ doubled \subseteq doubled'
               /\ <<c.who, c.msg>> \notin doubled' =>
                     (<<c.who, c.msg>> \in reactions' <=> <<c.who, c.msg>> \in reactions)
    PROVE  c \in Fitting'
<1>1. /\ c \in Channel!Calls
      /\ c.op = "post" => c.at \in {"checked", "writing"}
      /\ c.op \in {"pin", "unpin"} => c.at \in {"checked", "flagged"}
      /\ c.op = "react" => c.at \in {"checked", "found"} /\ <<c.who, c.msg>> \in Channel!Pairs
      /\ c.op = "mark" => c.at = "checked" /\ c.who \in Channel!People
      /\ c.op \in Deletions => c.at \in {"asked", "waiting", "locked", "update"}
  BY DEF Fitting
<1>2. c.at = "flagged" =>
        /\ c.msg \in Seeable'
        /\ messages'[c.msg].pinned <=> c.op = "pin"
        /\ c.mark <=> c.msg \in Pinned'
  BY DEF Fitting
<1>3. c.op = "mark" /\ channel'.alive /\ c.msg # 0 => c.msg \in seen'[c.who] \cap Channel!Listed'
  BY DEF Fitting
<1>4. /\ c.at = "locked" /\ c.op # "delete" => channel'.archived = "old"
      /\ c.op = "delete" => deleting'
  BY DEF Fitting
<1>5. c.at = "found" /\ channel'.alive /\ <<c.who, c.msg>> \notin doubled' =>
        (c.mark <=> <<c.who, c.msg>> \in reactions')
  BY DEF Fitting
<1>6. QED  BY <1>1, <1>2, <1>3, <1>4, <1>5 DEF Fitting

LEMMA StillApart ==
    ASSUME channel'.alive => channel.alive /\ doubled \subseteq doubled'
    PROVE  Apart \subseteq Apart'
BY DEF Apart

LEMMA NothingMoved ==
    ASSUME messages' = messages, channel' = channel, reactions' = reactions,
           \A u \in Channel!People : seen[u] \subseteq seen'[u],
           doubled \subseteq doubled', deleting => deleting'
    PROVE  Fitting \subseteq Fitting' /\ Apart \subseteq Apart'
<1>1. Seeable' = Seeable /\ Pinned' = Pinned /\ Channel!Listed' = Channel!Listed
  BY DEF Seeable, Pinned, Channel!Listed, Channel!Visible, Channel!Root
<1>2. ASSUME NEW c \in Fitting PROVE c \in Fitting'
  <2>1. c.at = "writing" => c.msg \in DOMAIN messages'  BY DEF Fitting
  <2>2. c.at = "flagged" => c.msg \in Seeable'  BY <1>1 DEF Fitting
  <2>3. c.op = "mark" => c.who \in Channel!People  BY DEF Fitting
  <2>4. QED  BY <1>1, <2>1, <2>2, <2>3, StillFits
<1>3. Apart \subseteq Apart'  BY StillApart
<1>4. QED  BY <1>2, <1>3

-----------------------------------------------------------------------------
(***************************************************************************)
(* The calls after one of them has ended, gone on or started.              *)
(***************************************************************************)
LEMMA WhenEnded ==
    ASSUME ChannelInv, NEW i \in 1..Len(calls), calls' = Channel!RemoveAt(calls, i),
           \A j \in 1..Len(calls) : j # i => calls[j] \in Fitting',
           Apart \subseteq Apart', Len(messages') \in Nat, Len(messages') <= Len(messages)
    PROVE  /\ CallsFit' /\ RoomIsLeft'
           /\ calls' \in Seq(Channel!Calls) /\ Len(calls') <= Overlap
           /\ \A m \in Held : m \in Held' \/ (calls[i].at = "flagged" /\ m = calls[i].msg)
<1>1. /\ calls \in Seq(Channel!Calls) /\ Len(calls) \in Nat /\ Len(calls) <= Overlap
      /\ DOMAIN calls = 1..Len(calls)
      /\ \A j, k \in 1..Len(calls) : j # k => <<calls[j], calls[k]>> \in Apart'
  BY CallFacts
<1>2. /\ calls' \in Seq(Channel!Calls) /\ Len(calls') = Len(calls) - 1
      /\ \A j \in 1..Len(calls') : /\ Place(i, j) \in 1..Len(calls) /\ Place(i, j) # i
                                   /\ calls'[j] = calls[Place(i, j)]
      /\ \A j, k \in 1..Len(calls') : Place(i, j) = Place(i, k) => j = k
      /\ \A m \in 1..Len(calls) : m # i => \E j \in 1..Len(calls') : calls'[j] = calls[m]
  BY <1>1, Moved
<1>3. DOMAIN calls' = 1..Len(calls') /\ Len(calls') \in Nat  BY <1>2
<1>4. CallsFit'
  <2>1. ASSUME NEW j \in 1..Len(calls') PROVE calls'[j] \in Fitting'  BY <1>2
  <2>2. ASSUME NEW j \in 1..Len(calls'), NEW k \in 1..Len(calls'), j # k
        PROVE  <<calls'[j], calls'[k]>> \in Apart'
    <3>1. Place(i, j) # Place(i, k)  BY <1>2, <2>2
    <3>2. QED  BY <1>1, <1>2, <3>1
  <2>3. QED  BY <1>3, <2>1, <2>2 DEF CallsFit
<1>5. Cardinality(Checked(calls')) <= Cardinality(Checked(calls))
  <2> DEFINE f == [j \in Checked(calls') |-> Place(i, j)]
  <2>1. ASSUME NEW j \in Checked(calls')
        PROVE  Place(i, j) \in Checked(calls) /\ j \in 1..Len(calls')
    <3>1. j \in 1..Len(calls') /\ calls'[j].op = "post" /\ calls'[j].at = "checked"
      BY DEF Checked
    <3>2. QED  BY <1>2, <3>1 DEF Checked
  <2>2. f \in Injection(Checked(calls'), Checked(calls))
    BY <1>2, <2>1 DEF Injection, IsInjective
  <2>3. IsFiniteSet(Checked(calls))  BY <1>1, CheckedAreFew
  <2>4. QED  BY <2>2, <2>3, FS_Injection
<1>6. /\ Cardinality(Checked(calls)) \in Nat /\ Cardinality(Checked(calls')) \in Nat
      /\ Len(messages) \in Nat /\ MaxMessages \in Nat
  BY <1>1, <1>2, CheckedAreFew, MessageFacts
<1>7. Len(messages) + Cardinality(Checked(calls)) <= MaxMessages  BY DEF ChannelInv, RoomIsLeft
<1>8. Len(messages') + Cardinality(Checked(calls')) <= MaxMessages  BY <1>5, <1>6, <1>7
<1>9. RoomIsLeft'  BY <1>8 DEF RoomIsLeft
<1>10. Len(calls') <= Overlap  BY <1>1, <1>2, BoundsOfTheChannel
<1>11. ASSUME NEW m \in Held PROVE m \in Held' \/ (calls[i].at = "flagged" /\ m = calls[i].msg)
  <2>1. PICK k \in 1..Len(calls) : calls[k].at = "flagged" /\ m = calls[k].msg  BY <1>1 DEF Held
  <2>2. CASE k = i  BY <2>1, <2>2
  <2>3. CASE k # i
    <3>1. PICK j \in 1..Len(calls') : calls'[j] = calls[k]  BY <1>2, <2>3
    <3>2. m \in Held'  BY <1>3, <2>1, <3>1 DEF Held
    <3>3. QED  BY <3>2
  <2>4. QED  BY <2>2, <2>3
<1>12. QED  BY <1>2, <1>4, <1>9, <1>10, <1>11

LEMMA WhenGone ==
    ASSUME ChannelInv, NEW i \in 1..Len(calls), NEW x \in Channel!Calls,
           calls' = [calls EXCEPT ![i] = x],
           x \in Fitting', ~(x.op = "post" /\ x.at = "checked"),
           \A j \in 1..Len(calls) : j # i => calls[j] \in Fitting',
           Apart \subseteq Apart',
           \A j \in 1..Len(calls) : j # i => <<calls[j], x>> \in Apart' /\ <<x, calls[j]>> \in Apart',
           Len(messages') \in Nat,
           Len(messages') <= Len(messages)
              \/ (i \in Checked(calls) /\ Len(messages') = Len(messages) + 1)
    PROVE  /\ CallsFit' /\ RoomIsLeft'
           /\ calls' \in Seq(Channel!Calls) /\ Len(calls') <= Overlap
           /\ \A m \in Held : m \in Held' \/ (calls[i].at = "flagged" /\ m = calls[i].msg)
           /\ x.at = "flagged" => x.msg \in Held'
<1>1. /\ calls \in Seq(Channel!Calls) /\ Len(calls) \in Nat /\ Len(calls) <= Overlap
      /\ DOMAIN calls = 1..Len(calls)
      /\ \A j, k \in 1..Len(calls) : j # k => <<calls[j], calls[k]>> \in Apart'
  BY CallFacts
<1>2. /\ calls' \in Seq(Channel!Calls) /\ Len(calls') = Len(calls)
      /\ calls'[i] = x /\ \A j \in 1..Len(calls) : j # i => calls'[j] = calls[j]
  BY <1>1
<1>3. DOMAIN calls' = 1..Len(calls')  BY <1>2
<1>4. CallsFit'
  <2>1. ASSUME NEW j \in 1..Len(calls') PROVE calls'[j] \in Fitting'  BY <1>2
  <2>2. ASSUME NEW j \in 1..Len(calls'), NEW k \in 1..Len(calls'), j # k
        PROVE  <<calls'[j], calls'[k]>> \in Apart'
    <3>1. CASE j = i  BY <1>2, <2>2, <3>1
    <3>2. CASE k = i  BY <1>2, <2>2, <3>2
    <3>3. CASE j # i /\ k # i  BY <1>1, <1>2, <2>2, <3>3
    <3>4. QED  BY <3>1, <3>2, <3>3
  <2>3. QED  BY <1>3, <2>1, <2>2 DEF CallsFit
<1>5. /\ Cardinality(Checked(calls')) <= Cardinality(Checked(calls))
      /\ i \in Checked(calls) => Cardinality(Checked(calls')) + 1 <= Cardinality(Checked(calls))
  <2>1. Checked(calls') \subseteq Checked(calls) \ {i}  BY <1>2 DEF Checked
  <2>2. IsFiniteSet(Checked(calls)) /\ Cardinality(Checked(calls)) \in Nat  BY <1>1,
                                                                               CheckedAreFew
  <2>3. Checked(calls') \subseteq Checked(calls)  BY <2>1
  <2>4. Cardinality(Checked(calls')) <= Cardinality(Checked(calls))  BY <2>2, <2>3, FS_Subset
  <2>5. Cardinality(Checked(calls')) \in Nat  BY <1>2, CheckedAreFew
  <2>6. ASSUME i \in Checked(calls)
        PROVE  Cardinality(Checked(calls')) + 1 <= Cardinality(Checked(calls))
    <3>1. /\ IsFiniteSet(Checked(calls) \ {i})
          /\ Cardinality(Checked(calls) \ {i}) = Cardinality(Checked(calls)) - 1
      BY <2>2, <2>6, FS_RemoveElement
    <3>2. Cardinality(Checked(calls')) <= Cardinality(Checked(calls) \ {i})
      BY <2>1, <3>1, FS_Subset
    <3>3. QED  BY <2>2, <2>5, <3>1, <3>2
  <2>7. QED  BY <2>4, <2>6
<1>6. /\ Cardinality(Checked(calls)) \in Nat /\ Cardinality(Checked(calls')) \in Nat
      /\ Len(messages) \in Nat /\ MaxMessages \in Nat
  BY <1>1, <1>2, CheckedAreFew, MessageFacts
<1>7. Len(messages) + Cardinality(Checked(calls)) <= MaxMessages  BY DEF ChannelInv, RoomIsLeft
<1>8. Len(messages') + Cardinality(Checked(calls')) <= MaxMessages  BY <1>5, <1>6, <1>7
<1>9. RoomIsLeft'  BY <1>8 DEF RoomIsLeft
<1>10. ASSUME NEW m \in Held PROVE m \in Held' \/ (calls[i].at = "flagged" /\ m = calls[i].msg)
  <2>1. PICK k \in 1..Len(calls) : calls[k].at = "flagged" /\ m = calls[k].msg  BY <1>1 DEF Held
  <2>2. CASE k = i  BY <2>1, <2>2
  <2>3. CASE k # i
    <3>1. calls'[k] = calls[k] /\ k \in DOMAIN calls'  BY <1>2, <1>3, <2>3
    <3>2. m \in Held'  BY <2>1, <3>1 DEF Held
    <3>3. QED  BY <3>2
  <2>4. QED  BY <2>2, <2>3
<1>11. x.at = "flagged" => x.msg \in Held'  BY <1>1, <1>2, <1>3 DEF Held
<1>12. QED  BY <1>1, <1>2, <1>4, <1>9, <1>10, <1>11

LEMMA WhenStarted ==
    ASSUME ChannelInv, NEW x \in Channel!Calls, Channel!Starts(x), x \in Fitting',
           Fitting \subseteq Fitting', Apart \subseteq Apart',
           \A j \in 1..Len(calls) : <<calls[j], x>> \in Apart' /\ <<x, calls[j]>> \in Apart',
           messages' = messages,
           x.op = "post" => Len(messages) + Cardinality(Checked(calls)) < MaxMessages
    PROVE  /\ CallsFit' /\ RoomIsLeft'
           /\ calls' \in Seq(Channel!Calls) /\ Len(calls') <= Overlap
           /\ made' \in 0..MaxCalls
           /\ Held \subseteq Held'
<1>1. /\ calls \in Seq(Channel!Calls) /\ Len(calls) \in Nat /\ Len(calls) <= Overlap
      /\ DOMAIN calls = 1..Len(calls)
      /\ \A j \in 1..Len(calls) : calls[j] \in Fitting'
      /\ \A j, k \in 1..Len(calls) : j # k => <<calls[j], calls[k]>> \in Apart'
  BY CallFacts
<1>2. calls' = Append(calls, x) /\ made' = made + 1 /\ made < MaxCalls /\ Len(calls) < Overlap
  BY DEF Channel!Starts
<1>3. /\ calls' \in Seq(Channel!Calls) /\ Len(calls') = Len(calls) + 1
      /\ calls'[Len(calls) + 1] = x
      /\ \A j \in 1..Len(calls) : calls'[j] = calls[j] /\ j \in 1..Len(calls')
      /\ \A j \in 1..Len(calls') : j \in 1..Len(calls) \/ j = Len(calls) + 1
  BY <1>2, <1>1
<1>4. DOMAIN calls' = 1..Len(calls')  BY <1>3
<1>5. CallsFit'
  <2>1. ASSUME NEW j \in 1..Len(calls') PROVE calls'[j] \in Fitting'  BY <1>1, <1>3
  <2>2. ASSUME NEW j \in 1..Len(calls'), NEW k \in 1..Len(calls'), j # k
        PROVE  <<calls'[j], calls'[k]>> \in Apart'
    <3>1. CASE j \notin 1..Len(calls)  BY <1>3, <2>2, <3>1
    <3>2. CASE k \notin 1..Len(calls)  BY <1>3, <2>2, <3>2
    <3>3. CASE j \in 1..Len(calls) /\ k \in 1..Len(calls)  BY <1>1, <1>3, <2>2, <3>3
    <3>4. QED  BY <3>1, <3>2, <3>3
  <2>3. QED  BY <1>4, <2>1, <2>2 DEF CallsFit
<1>6. /\ Cardinality(Checked(calls')) <= Cardinality(Checked(calls)) + 1
      /\ x.op # "post" => Cardinality(Checked(calls')) <= Cardinality(Checked(calls))
  <2> DEFINE n == Len(calls) + 1
  <2>1. IsFiniteSet(Checked(calls)) /\ Cardinality(Checked(calls)) \in Nat  BY <1>1,
                                                                               CheckedAreFew
  <2>2. Cardinality(Checked(calls')) \in Nat  BY <1>3, CheckedAreFew
  <2>3. Checked(calls') \subseteq Checked(calls) \cup {n}  BY <1>3 DEF Checked
  <2>4. n \notin Checked(calls)  BY <1>1 DEF Checked
  <2> HIDE DEF n
  <2>5. /\ IsFiniteSet(Checked(calls) \cup {n})
        /\ Cardinality(Checked(calls) \cup {n}) = Cardinality(Checked(calls)) + 1
    BY <2>1, <2>4, FS_AddElement
  <2>6. Cardinality(Checked(calls')) <= Cardinality(Checked(calls)) + 1
    BY <2>3, <2>5, FS_Subset
  <2>7. ASSUME x.op # "post" PROVE Cardinality(Checked(calls')) <= Cardinality(Checked(calls))
    <3>1. Checked(calls') \subseteq Checked(calls)  BY <1>3, <2>7 DEF Checked
    <3>2. QED  BY <2>1, <3>1, FS_Subset
  <2>8. QED  BY <2>6, <2>7
<1>7. /\ Cardinality(Checked(calls)) \in Nat /\ Cardinality(Checked(calls')) \in Nat
      /\ Len(messages) \in Nat /\ MaxMessages \in Nat
  BY <1>1, <1>3, CheckedAreFew, MessageFacts
<1>8. Len(messages) + Cardinality(Checked(calls)) <= MaxMessages  BY DEF ChannelInv, RoomIsLeft
<1>9. Len(messages') + Cardinality(Checked(calls')) <= MaxMessages
  <2>1. CASE x.op = "post"  BY <1>6, <1>7, <2>1
  <2>2. CASE x.op # "post"  BY <1>6, <1>7, <1>8, <2>2
  <2>3. QED  BY <2>1, <2>2
<1>10. RoomIsLeft'  BY <1>9 DEF RoomIsLeft
<1>11. made' \in 0..MaxCalls
  <2>1. made \in 0..MaxCalls  BY DEF ChannelInv, Channel!TypeOK
  <2>2. QED  BY <1>2, <2>1, BoundsOfTheChannel
<1>12. Held \subseteq Held'
  <2>1. \A k \in 1..Len(calls) : k \in DOMAIN calls' /\ calls'[k] = calls[k]  BY <1>3, <1>4
  <2>2. QED  BY <1>1, <2>1 DEF Held
<1>13. Len(calls') <= Overlap  BY <1>2, <1>1, <1>3, BoundsOfTheChannel
<1>14. QED  BY <1>3, <1>5, <1>10, <1>11, <1>12, <1>13

\* Nobody's call has moved.
LEMMA WhenQuiet ==
    ASSUME ChannelInv, calls' = calls, messages' = messages,
           \A j \in 1..Len(calls) : calls[j] \in Fitting', Apart \subseteq Apart'
    PROVE  /\ CallsFit' /\ RoomIsLeft' /\ Held' = Held
           /\ calls' \in Seq(Channel!Calls) /\ Len(calls') <= Overlap
<1>1. /\ calls \in Seq(Channel!Calls) /\ Len(calls) <= Overlap /\ DOMAIN calls = 1..Len(calls)
      /\ \A j, k \in 1..Len(calls) : j # k => <<calls[j], calls[k]>> \in Apart'
  BY CallFacts
<1>2. CallsFit'  BY <1>1 DEF CallsFit
<1>3. RoomIsLeft'  BY DEF ChannelInv, RoomIsLeft
<1>4. Held' = Held  BY DEF Held
<1>5. QED  BY <1>1, <1>2, <1>3, <1>4

-----------------------------------------------------------------------------
(***************************************************************************)
(* What was shown and read stays honest.                                   *)
(***************************************************************************)
LEMMA ReadingStays ==
    ASSUME ChannelInv, Len(messages') = Len(messages), DOMAIN messages' = DOMAIN messages,
           \A m \in DOMAIN messages : /\ messages'[m].parent = messages[m].parent
                                      /\ messages'[m].visible = messages[m].visible,
           seen' = seen, late' = late,
           \A u \in Channel!People : \/ seats'[u].lastRead = seats[u].lastRead
                                     \/ seats'[u].lastRead = 0
    PROVE  SeenFromTheTop' /\ MarksAreHonest'
<1>1. Seeable' = Seeable /\ Channel!Listed' = Channel!Listed
  BY DEF Seeable, Channel!Listed, Channel!Visible, Channel!Root
<1>2. SeenFromTheTop'
  <2>1. ASSUME NEW u \in Channel!People, NEW n \in seen[u]
        PROVE  /\ n \in Seeable'
               /\ messages'[n].parent # 0 => messages'[n].parent \in seen[u]
               /\ messages'[n].parent = 0 => \A m \in Channel!Listed' : m < n => m \in seen[u] \cup late
    <3>1. n \in Seeable /\ n \in DOMAIN messages  BY DEF ChannelInv, SeenFromTheTop, Seeable
    <3>2. QED  BY <1>1, <3>1 DEF ChannelInv, SeenFromTheTop
  <2>2. QED  BY <2>1 DEF SeenFromTheTop
<1>3. MarksAreHonest'
  <2>1. ASSUME NEW u \in Channel!People
        PROVE  /\ seats'[u].lastRead <= Len(messages)
               /\ \A m \in DOMAIN messages : m <= seats'[u].lastRead /\ messages'[m].parent = 0 =>
                     \/ m \in late
                     \/ m \in Seeable /\ m \in seen[u]
                     \/ m \notin Seeable /\ \E n \in Seeable : m < n
    <3>1. CASE seats'[u].lastRead = seats[u].lastRead
      BY <3>1 DEF ChannelInv, MarksAreHonest
    <3>2. CASE seats'[u].lastRead = 0
      BY <3>2, MessageFacts
    <3>3. QED  BY <3>1, <3>2
  <2>2. QED  BY <1>1, <2>1 DEF MarksAreHonest
<1>4. QED  BY <1>2, <1>3

-----------------------------------------------------------------------------
(***************************************************************************)
(* Steps that leave the messages, the pins and the reactions alone.        *)
(***************************************************************************)
LEMMA RestStays ==
    ASSUME ChannelInv, UNCHANGED <<channel, messages, reactions, seen, late, odd>>,
           doubled \subseteq doubled', doubled' \subseteq Channel!Pairs,
           deleting' \in BOOLEAN, deleting => deleting',
           seats' \in [Channel!People -> Channel!Seats],
           \A u \in Channel!People : \/ seats'[u].lastRead = seats[u].lastRead
                                     \/ seats'[u].lastRead = 0,
           CallsFit', RoomIsLeft', calls' \in Seq(Channel!Calls), Len(calls') <= Overlap,
           made' \in 0..MaxCalls, Held \subseteq Held'
    PROVE  ChannelInv'
<1>1. Channel!TypeOK'  BY DEF ChannelInv, Channel!TypeOK
<1>2. SeenFromTheTop' /\ MarksAreHonest'  BY ReadingStays
<1>3. Pinned' = Pinned  BY DEF Pinned
<1>4. PinsFit'  BY <1>3 DEF ChannelInv, PinsFit
<1>5. Channel!ReactionsFollowTaps' /\ Channel!GoneForAReason' /\ DeadIsEmpty'
  BY DEF ChannelInv, Channel!ReactionsFollowTaps, Channel!GoneForAReason, DeadIsEmpty
<1>6. QED  BY <1>1, <1>2, <1>4, <1>5 DEF ChannelInv

LEMMA SeatsStay ==
    ASSUME ChannelInv, seats' = seats
    PROVE  /\ seats' \in [Channel!People -> Channel!Seats]
           /\ \A u \in Channel!People : seats'[u].lastRead = seats[u].lastRead
BY DEF ChannelInv, Channel!TypeOK

LEMMA QuietEnd ==
    ASSUME ChannelInv, NEW i \in 1..Len(calls), calls[i].at # "flagged",
           calls' = Channel!RemoveAt(calls, i),
           UNCHANGED <<channel, messages, reactions, seats, seen, late, odd, doubled, deleting, made>>
    PROVE  ChannelInv'
<1>1. Fitting \subseteq Fitting' /\ Apart \subseteq Apart'  BY NothingMoved
<1>2. \A j \in 1..Len(calls) : calls[j] \in Fitting'  BY <1>1, CallFacts
<1>3. Len(messages') \in Nat /\ Len(messages') <= Len(messages)  BY MessageFacts
<1>4. /\ CallsFit' /\ RoomIsLeft'
      /\ calls' \in Seq(Channel!Calls) /\ Len(calls') <= Overlap
      /\ \A m \in Held : m \in Held' \/ (calls[i].at = "flagged" /\ m = calls[i].msg)
  BY <1>1, <1>2, <1>3, WhenEnded
<1>5. Held \subseteq Held'  BY <1>4
<1>6. doubled' \subseteq Channel!Pairs /\ deleting' \in BOOLEAN /\ made' \in 0..MaxCalls
  BY DEF ChannelInv, Channel!TypeOK
<1>7. QED  BY <1>4, <1>5, <1>6, SeatsStay, RestStays

LEMMA QuietGo ==
    ASSUME ChannelInv, NEW i \in 1..Len(calls), calls[i].at # "flagged",
           NEW x \in Fitting, x.op # "post", calls' = [calls EXCEPT ![i] = x],
           \A j \in 1..Len(calls) : j # i => <<calls[j], x>> \in Apart /\ <<x, calls[j]>> \in Apart,
           UNCHANGED <<channel, messages, reactions, seats, seen, late, odd, doubled, deleting, made>>
    PROVE  ChannelInv'
<1>1. Fitting \subseteq Fitting' /\ Apart \subseteq Apart'  BY NothingMoved
<1>2. \A j \in 1..Len(calls) : calls[j] \in Fitting'  BY <1>1, CallFacts
<1>3. Len(messages') \in Nat /\ Len(messages') <= Len(messages)  BY MessageFacts
<1>4. /\ x \in Channel!Calls /\ x \in Fitting' /\ ~(x.op = "post" /\ x.at = "checked")
      /\ \A j \in 1..Len(calls) : j # i => <<calls[j], x>> \in Apart' /\ <<x, calls[j]>> \in Apart'
  BY <1>1 DEF Fitting
<1>5. /\ CallsFit' /\ RoomIsLeft'
      /\ calls' \in Seq(Channel!Calls) /\ Len(calls') <= Overlap
      /\ \A m \in Held : m \in Held' \/ (calls[i].at = "flagged" /\ m = calls[i].msg)
  BY <1>1, <1>2, <1>3, <1>4, WhenGone
<1>6. Held \subseteq Held'  BY <1>5
<1>7. doubled' \subseteq Channel!Pairs /\ deleting' \in BOOLEAN /\ made' \in 0..MaxCalls
  BY DEF ChannelInv, Channel!TypeOK
<1>8. QED  BY <1>5, <1>6, <1>7, SeatsStay, RestStays

LEMMA QuietStart ==
    ASSUME ChannelInv, NEW x \in Channel!Calls, Channel!Starts(x), x \in Fitting',
           \A j \in 1..Len(calls) : <<calls[j], x>> \in Apart' /\ <<x, calls[j]>> \in Apart',
           x.op = "post" => Len(messages) + Cardinality(Checked(calls)) < MaxMessages,
           UNCHANGED <<channel, messages, reactions, seen, late, odd>>,
           doubled \subseteq doubled', doubled' \subseteq Channel!Pairs,
           deleting' \in BOOLEAN, deleting => deleting',
           seats' \in [Channel!People -> Channel!Seats],
           \A u \in Channel!People : \/ seats'[u].lastRead = seats[u].lastRead
                                     \/ seats'[u].lastRead = 0
    PROVE  ChannelInv'
<1>1. Fitting \subseteq Fitting' /\ Apart \subseteq Apart'  BY NothingMoved
<1>2. /\ CallsFit' /\ RoomIsLeft'
      /\ calls' \in Seq(Channel!Calls) /\ Len(calls') <= Overlap
      /\ made' \in 0..MaxCalls /\ Held \subseteq Held'
  BY <1>1, WhenStarted
<1>3. QED  BY <1>2, RestStays

\* A statement that only writes seats.
LEMMA OnlySeats ==
    ASSUME ChannelInv, UNCHANGED <<channel, messages, reactions, seen, late, odd, doubled, deleting>>,
           calls' = calls, made' \in 0..MaxCalls,
           seats' \in [Channel!People -> Channel!Seats],
           \A u \in Channel!People : \/ seats'[u].lastRead = seats[u].lastRead
                                     \/ seats'[u].lastRead = 0
    PROVE  ChannelInv'
<1>1. Fitting \subseteq Fitting' /\ Apart \subseteq Apart'  BY NothingMoved
<1>2. \A j \in 1..Len(calls) : calls[j] \in Fitting'  BY <1>1, CallFacts
<1>3. /\ CallsFit' /\ RoomIsLeft' /\ Held' = Held
      /\ calls' \in Seq(Channel!Calls) /\ Len(calls') <= Overlap
  BY <1>1, <1>2, WhenQuiet
<1>4. doubled' \subseteq Channel!Pairs /\ deleting' \in BOOLEAN  BY DEF ChannelInv,
                                                                    Channel!TypeOK
<1>5. QED  BY <1>3, <1>4, RestStays

LEMMA StatementFacts ==
    ASSUME ChannelInv, Channel!Statement
    PROVE  calls' = calls /\ made' \in 0..MaxCalls
<1>1. made \in 0..MaxCalls  BY DEF ChannelInv, Channel!TypeOK
<1>2. QED  BY <1>1, BoundsOfTheChannel DEF Channel!Statement
-----------------------------------------------------------------------------
(***************************************************************************)
(* Messages.                                                               *)
(***************************************************************************)
LEMMA PostStep ==
    ASSUME ChannelInv, NEW u \in Channel!People \cup {Agent}, NEW parent \in {0} \cup DOMAIN messages,
           NEW mentions, Channel!Post(u, parent, mentions)
    PROVE  ChannelInv'
<1> DEFINE x == Channel!Call("post", u, parent, mentions # {}, "checked")
<1>1. /\ Channel!Starts(x)
      /\ UNCHANGED <<channel, messages, reactions, seats, seen, late, odd, doubled, deleting>>
      /\ Channel!RoomForOne
  <2>1. Channel!Starts(x)  BY Zenon DEF Channel!Post
  <2>2. UNCHANGED <<channel, messages, reactions, seats, Channel!readVars, Channel!tapVars, deleting>>
    BY Zenon DEF Channel!Post
  <2>3. UNCHANGED <<channel, messages, reactions, seats, seen, late, odd, doubled, deleting>>
    BY <2>2 DEF Channel!readVars, Channel!tapVars
  <2>4. Channel!RoomForOne  BY Zenon DEF Channel!Post
  <2>5. QED  BY <2>1, <2>3, <2>4
<1>2. /\ x \in Channel!Calls /\ x.op = "post" /\ x.at = "checked"
  <2>1. parent \in 0..MaxMessages  BY MessageFacts
  <2>2. (mentions # {}) \in BOOLEAN  OBVIOUS
  <2>3. QED  BY <2>1, <2>2 DEF Channel!Call, Channel!Calls
<1> HIDE DEF x
<1>3. x \in Fitting'  BY <1>2 DEF Fitting, Deletions
<1>4. \A j \in 1..Len(calls) : <<calls[j], x>> \in Apart' /\ <<x, calls[j]>> \in Apart'
  BY <1>2, CallFacts DEF Apart
<1>5. Len(messages) + Cardinality(Checked(calls)) < MaxMessages
  <2>1. {i \in DOMAIN calls : Channel!At(i, {"post"}, "checked")} = Checked(calls)
    BY CallFacts DEF Channel!At, Checked
  <2>2. QED  BY <1>1, <2>1, CountedAlike DEF Channel!RoomForOne
<1>6. doubled' \subseteq Channel!Pairs /\ deleting' \in BOOLEAN  BY <1>1 DEF ChannelInv,
                                                                    Channel!TypeOK
<1>7. QED  BY <1>1, <1>2, <1>3, <1>4, <1>5, <1>6, SeatsStay, QuietStart

LEMMA PostBeginsStep ==
    ASSUME ChannelInv, NEW i, Channel!PostBegins(i)
    PROVE  ChannelInv'
<1>1. /\ i \in DOMAIN calls /\ calls[i].op = "post" /\ calls[i].at = "checked"
      /\ UNCHANGED <<channel, reactions, seats, seen, late, odd, doubled, deleting, made>>
  BY DEF Channel!PostBegins, Channel!At, Channel!readVars, Channel!tapVars
<1>2. i \in 1..Len(calls) /\ calls[i] \in Channel!Calls  BY <1>1, CallFacts
<1>3. CASE ~channel.alive
  <2>1. calls' = Channel!RemoveAt(calls, i) /\ messages' = messages
    BY <1>3 DEF Channel!PostBegins, Channel!Ends
  <2>2. QED  BY <1>1, <1>2, <2>1, QuietEnd
<1>4. CASE channel.alive
  <2> DEFINE call == calls[i]
             mentioned == IF call.mark THEN Channel!People \ {call.who} ELSE {}
             new == Channel!Message(call.who, call.msg, mentioned)
             n == Len(messages) + 1
             x == [call EXCEPT !.msg = n, !.at = "writing"]
  <2>1. /\ ~Channel!Locked
        /\ messages' = Append(messages, new)
        /\ calls' = [calls EXCEPT ![i] = x]
    BY <1>4 DEF Channel!PostBegins, Channel!Goes
  <2>2. /\ messages \in Seq(Channel!Messages) /\ Len(messages) \in Nat
        /\ Len(messages) <= MaxMessages /\ MaxMessages \in Nat
        /\ DOMAIN messages = 1..Len(messages)
    BY MessageFacts
  <2>3. i \in Checked(calls)  BY <1>1, <1>2 DEF Checked
  <2>4. n \in 1..MaxMessages
    <3>1. Len(messages) + Cardinality(Checked(calls)) <= MaxMessages  BY DEF ChannelInv,
                                                                         RoomIsLeft
    <3>2. IsFiniteSet(Checked(calls)) /\ Cardinality(Checked(calls)) \in Nat
      BY CallFacts, CheckedAreFew
    <3>3. Cardinality(Checked(calls)) # 0  BY <2>3, <3>2, FS_EmptySet
    <3>4. QED  BY <2>2, <3>1, <3>2, <3>3
  <2>5. /\ x \in Channel!Calls /\ x.op = "post" /\ x.at = "writing" /\ x.msg = n
    <3>1. n \in 0..MaxMessages  BY <2>2, <2>4
    <3> HIDE DEF n
    <3>2. call.op = "post" /\ call.mark \in BOOLEAN  BY <1>1, <1>2 DEF Channel!Calls
    <3>3. x.mark = call.mark  BY <1>2, Zenon DEF Channel!Calls
    <3>4. x \in Channel!Calls  BY <1>2, <3>1, <3>2, <3>3 DEF Channel!Calls
    <3>5. x.op = "post" /\ x.at = "writing" /\ x.msg = n  BY <1>2, <3>2 DEF Channel!Calls
    <3>6. QED  BY <3>4, <3>5
  <2>6. /\ new \in Channel!Messages /\ ~new.visible /\ ~new.pinned
    <3>1. mentioned \in SUBSET Channel!People  OBVIOUS
    <3>2. call.who \in Channel!People \cup {Agent} /\ call.msg \in 0..MaxMessages
      BY <1>2 DEF Channel!Calls
    <3> HIDE DEF mentioned, call
    <3>3. QED  BY <3>1, <3>2 DEF Channel!Message, Channel!Messages
  <2> HIDE DEF new, x
  <2>7. /\ messages' \in Seq(Channel!Messages) /\ Len(messages') = n /\ DOMAIN messages' = 1..n
        /\ \A m \in 1..Len(messages) : messages'[m] = messages[m]
        /\ messages'[n] = new /\ n \notin 1..Len(messages)
        /\ 1..n = 1..Len(messages) \cup {n}
    BY <2>1, <2>2, <2>6
  <2>8. Seeable' = Seeable /\ Channel!Listed' = Channel!Listed /\ Pinned' = Pinned
        /\ Seeable \subseteq 1..Len(messages) /\ Channel!Listed \subseteq 1..Len(messages)
    BY <1>1, <2>2, <2>6, <2>7
    DEF Seeable, Pinned, Channel!Listed, Channel!Visible, Channel!Root
  <2>9. Apart \subseteq Apart'  BY <1>1, StillApart
  <2>10. ASSUME NEW c \in Fitting PROVE c \in Fitting'
    <3>1. c.at = "writing" => c.msg \in DOMAIN messages'  BY <2>2, <2>7 DEF Fitting
    <3>2. c.at = "flagged" => c.msg \in Seeable /\ c.msg \in 1..Len(messages)  BY <2>8 DEF Fitting
    <3>3. QED  BY <1>1, <2>7, <2>8, <3>1, <3>2, StillFits
  <2>11. x \in Fitting'  BY <2>5, <2>7 DEF Fitting, Deletions
  <2>12. \A j \in 1..Len(calls) : j # i => <<calls[j], x>> \in Apart' /\ <<x, calls[j]>> \in Apart'
    <3>1. \A j \in 1..Len(calls) : calls[j].at # "locked" /\ calls[j] \in Channel!Calls
      BY <2>1, CallFacts DEF Channel!Locked
    <3>2. QED  BY <2>5, <3>1 DEF Apart
  <2>13. /\ CallsFit' /\ RoomIsLeft'
         /\ calls' \in Seq(Channel!Calls) /\ Len(calls') <= Overlap
         /\ \A m \in Held : m \in Held' \/ (calls[i].at = "flagged" /\ m = calls[i].msg)
    <3>1. \A j \in 1..Len(calls) : calls[j] \in Fitting'  BY <2>10, CallFacts
    <3>2. ~(x.op = "post" /\ x.at = "checked")  BY <2>5
    <3>3. Len(messages') \in Nat /\ Len(messages') = Len(messages) + 1  BY <2>2, <2>7
    <3>4. QED  BY <1>2, <2>1, <2>3, <2>5, <2>9, <2>11, <2>12, <3>1, <3>2, <3>3, WhenGone
  <2>14. Channel!TypeOK'
    <3>1. Len(messages') <= MaxMessages  BY <2>4, <2>7
    <3>2. QED  BY <1>1, <2>7, <2>13, <3>1 DEF ChannelInv, Channel!TypeOK
  <2>15. SeenFromTheTop'
    <3>1. ASSUME NEW u \in Channel!People, NEW m \in seen[u]
          PROVE  m \in 1..Len(messages) /\ messages'[m] = messages[m] /\ m \in Seeable
      BY <2>7, ReadFacts
    <3>2. QED  BY <1>1, <2>8, <3>1 DEF ChannelInv, SeenFromTheTop
  <2>16. MarksAreHonest'
    <3>1. ASSUME NEW u \in Channel!People
          PROVE  /\ seats[u].lastRead <= n
                 /\ \A m \in 1..n : m <= seats[u].lastRead /\ messages'[m].parent = 0 =>
                       \/ m \in late
                       \/ m \in Seeable /\ m \in seen[u]
                       \/ m \notin Seeable /\ \E k \in Seeable : m < k
      <4>1. seats[u].lastRead \in Nat /\ seats[u].lastRead <= Len(messages)  BY ReadFacts
      <4>2. \A m \in 1..n : m <= seats[u].lastRead => m \in 1..Len(messages)  BY <2>2, <4>1
      <4>3. \A m \in 1..Len(messages) : m <= seats[u].lastRead /\ messages[m].parent = 0 =>
                \/ m \in late
                \/ m \in Seeable /\ m \in seen[u]
                \/ m \notin Seeable /\ \E k \in Seeable : m < k
        BY <2>2 DEF ChannelInv, MarksAreHonest
      <4>4. seats[u].lastRead <= n  BY <2>2, <4>1
      <4>5. QED  BY <2>7, <4>2, <4>3, <4>4
    <3>2. QED  BY <1>1, <2>7, <2>8, <3>1 DEF MarksAreHonest
  <2>17. PinsFit'
    <3>1. /\ Pinned \subseteq 1..Len(messages)
          /\ \A m \in 1..Len(messages) : m \notin Held => (messages[m].pinned <=> m \in Pinned)
          /\ \A j, k \in DOMAIN channel.pins : channel.pins[j] = channel.pins[k] => j = k
      BY <2>2 DEF ChannelInv, PinsFit
    <3>2. Held \subseteq Held'  BY <1>1, <2>13
    <3>3. \A m \in 1..n : m \notin Held' => (messages'[m].pinned <=> m \in Pinned)
      BY <2>6, <2>7, <3>1, <3>2
    <3>4. Pinned \subseteq 1..n  BY <2>7, <3>1
    <3>5. QED  BY <1>1, <2>7, <2>8, <3>1, <3>3, <3>4 DEF PinsFit
  <2>18. Channel!ReactionsFollowTaps' /\ Channel!GoneForAReason' /\ DeadIsEmpty'
    BY <1>1, <1>4 DEF ChannelInv, Channel!ReactionsFollowTaps, Channel!GoneForAReason,
       DeadIsEmpty
  <2>19. QED  BY <2>13, <2>14, <2>15, <2>16, <2>17, <2>18 DEF ChannelInv
<1>5. QED  BY <1>3, <1>4

LEMMA PostCommitsStep ==
    ASSUME ChannelInv, NEW i, Channel!PostCommits(i)
    PROVE  ChannelInv'
<1> DEFINE m == calls[i].msg
<1>1. /\ i \in DOMAIN calls /\ calls[i].at = "writing"
      /\ messages' = [messages EXCEPT ![m].visible = TRUE]
      /\ late' = IF \E n \in DOMAIN messages : n > m /\ Channel!Visible(n)
                 THEN late \cup {m} ELSE late
      /\ calls' = Channel!RemoveAt(calls, i)
      /\ UNCHANGED <<channel, reactions, seats, seen, odd, doubled, deleting, made>>
  BY DEF Channel!PostCommits, Channel!At, Channel!Ends, Channel!tapVars
<1>2. i \in 1..Len(calls) /\ calls[i] \in Fitting  BY <1>1, CallFacts
<1>3. /\ messages \in Seq(Channel!Messages) /\ Len(messages) \in Nat
      /\ Len(messages) <= MaxMessages
      /\ DOMAIN messages = 1..Len(messages) /\ 1..Len(messages) \subseteq Channel!Ids
      /\ \A k \in 1..Len(messages) : messages[k] \in Channel!Messages
  BY MessageFacts
<1>4. m \in 1..Len(messages)  BY <1>1, <1>2, <1>3 DEF Fitting
<1> HIDE DEF m
<1>5. [messages[m] EXCEPT !.visible = TRUE] \in Channel!Messages
  BY <1>3, <1>4 DEF Channel!Messages
<1>6. /\ messages' \in Seq(Channel!Messages) /\ Len(messages') = Len(messages)
      /\ DOMAIN messages' = 1..Len(messages)
      /\ messages'[m] = [messages[m] EXCEPT !.visible = TRUE]
      /\ \A k \in 1..Len(messages) : k # m => messages'[k] = messages[k]
  BY <1>1, <1>3, <1>4, <1>5
<1>7. /\ messages'[m].visible /\ messages'[m].parent = messages[m].parent
      /\ messages'[m].pinned = messages[m].pinned
  <2>1. messages[m] \in Channel!Messages  BY <1>3, <1>4
  <2>2. QED  BY <1>6, <2>1 DEF Channel!Messages
<1>8. /\ \A k \in 1..Len(messages) : /\ messages'[k].parent = messages[k].parent
                                     /\ messages'[k].pinned = messages[k].pinned
      /\ Seeable' = Seeable \cup {m} /\ Seeable \subseteq 1..Len(messages)
      /\ Pinned' = Pinned
  BY <1>1, <1>3, <1>4, <1>6, <1>7 DEF Seeable, Pinned
<1>9. /\ Channel!Listed' = {k \in Seeable' : messages'[k].parent = 0}
      /\ Channel!Listed = {k \in Seeable : messages[k].parent = 0}
  BY DEF Channel!Listed, Channel!Visible, Channel!Root, Seeable
<1>10. /\ Channel!Listed \subseteq Channel!Listed'
       /\ \A k \in Channel!Listed' : k # m => k \in Channel!Listed
  BY <1>8, <1>9
<1>11. Apart \subseteq Apart'  BY <1>1, StillApart
<1>12. ASSUME NEW c \in Fitting PROVE c \in Fitting'
  <2>1. c.at = "writing" => c.msg \in DOMAIN messages'  BY <1>3, <1>6 DEF Fitting
  <2>2. c.at = "flagged" => c.msg \in Seeable /\ c.msg \in 1..Len(messages)  BY <1>8 DEF Fitting
  <2>3. QED  BY <1>1, <1>8, <1>10, <2>1, <2>2, StillFits
<1>13. /\ CallsFit' /\ RoomIsLeft'
       /\ calls' \in Seq(Channel!Calls) /\ Len(calls') <= Overlap
       /\ \A k \in Held : k \in Held' \/ (calls[i].at = "flagged" /\ k = calls[i].msg)
  <2>1. \A j \in 1..Len(calls) : calls[j] \in Fitting'  BY <1>12, CallFacts
  <2>2. Len(messages') \in Nat /\ Len(messages') <= Len(messages)  BY <1>3, <1>6
  <2>3. QED  BY <1>1, <1>2, <1>11, <2>1, <2>2, WhenEnded
<1>14. late \subseteq late' /\ (\A n \in Seeable : m < n => m \in late')
  <2>1. \A n \in Seeable : n \in DOMAIN messages /\ Channel!Visible(n)  BY DEF Seeable,
                                                                           Channel!Visible
  <2>2. ASSUME NEW n \in Seeable, m < n PROVE n > m
    <3>1. n \in Nat /\ m \in Nat  BY <1>3, <1>4, <1>8
    <3>2. QED  BY <2>2, <3>1
  <2>3. QED  BY <1>1, <2>1, <2>2
<1>15. Channel!TypeOK'
  <2>1. late' \subseteq Channel!Ids  BY <1>1, <1>3, <1>4 DEF ChannelInv, Channel!TypeOK
  <2>2. QED  BY <1>1, <1>3, <1>6, <1>13, <2>1 DEF ChannelInv, Channel!TypeOK
<1>16. SeenFromTheTop'
  <2>1. ASSUME NEW u \in Channel!People, NEW n \in seen[u]
        PROVE  /\ n \in Seeable'
               /\ messages'[n].parent # 0 => messages'[n].parent \in seen[u]
               /\ messages'[n].parent = 0 => \A k \in Channel!Listed' : k < n => k \in seen[u] \cup late'
    <3>1. n \in Seeable /\ n \in 1..Len(messages)  BY <1>8, ReadFacts
    <3>2. /\ messages[n].parent # 0 => messages[n].parent \in seen[u]
          /\ messages[n].parent = 0 => \A k \in Channel!Listed : k < n => k \in seen[u] \cup late
      BY DEF ChannelInv, SeenFromTheTop
    <3>3. QED  BY <1>8, <1>10, <1>14, <3>1, <3>2
  <2>2. QED  BY <1>1, <2>1 DEF SeenFromTheTop
<1>17. MarksAreHonest'
  <2>1. ASSUME NEW u \in Channel!People
        PROVE  /\ seats[u].lastRead <= Len(messages)
               /\ \A k \in 1..Len(messages) : k <= seats[u].lastRead /\ messages[k].parent = 0 =>
                     \/ k \in late'
                     \/ k \in Seeable' /\ k \in seen[u]
                     \/ k \notin Seeable' /\ \E n \in Seeable' : k < n
    <3>1. /\ seats[u].lastRead <= Len(messages)
          /\ \A k \in 1..Len(messages) : k <= seats[u].lastRead /\ messages[k].parent = 0 =>
                \/ k \in late
                \/ k \in Seeable /\ k \in seen[u]
                \/ k \notin Seeable /\ \E n \in Seeable : k < n
      BY <1>3 DEF ChannelInv, MarksAreHonest
    <3>2. QED  BY <1>8, <1>14, <3>1
  <2>2. QED  BY <1>1, <1>6, <1>8, <2>1 DEF MarksAreHonest
<1>18. PinsFit'
  <2>1. /\ Pinned \subseteq 1..Len(messages)
        /\ \A k \in 1..Len(messages) : k \notin Held => (messages[k].pinned <=> k \in Pinned)
        /\ \A j, k \in DOMAIN channel.pins : channel.pins[j] = channel.pins[k] => j = k
    BY <1>3 DEF ChannelInv, PinsFit
  <2>2. Held \subseteq Held'  BY <1>1, <1>13
  <2>3. QED  BY <1>1, <1>6, <1>8, <2>1, <2>2 DEF PinsFit
<1>19. Channel!ReactionsFollowTaps' /\ Channel!GoneForAReason' /\ DeadIsEmpty'
  <2>1. channel.alive  BY <1>4 DEF ChannelInv, DeadIsEmpty
  <2>2. QED  BY <1>1, <2>1 DEF ChannelInv, Channel!ReactionsFollowTaps, Channel!GoneForAReason,
                DeadIsEmpty
<1>20. QED  BY <1>13, <1>15, <1>16, <1>17, <1>18, <1>19 DEF ChannelInv

\* How many of the positions are not after i tells them apart.
LEMMA PositionsDiffer ==
  ASSUME NEW ids \in SUBSET Nat, IsFiniteSet(ids), NEW i \in ids, NEW k \in ids, i < k
  PROVE  Channel!Upto(ids, i) < Channel!Upto(ids, k)
<1> DEFINE A == {j \in ids : j <= i}
           B == {j \in ids : j <= k}
<1>1. A \subseteq B /\ k \in B /\ k \notin A
  <2>1. i \in Nat /\ k \in Nat /\ \A j \in ids : j \in Nat  OBVIOUS
  <2>2. ASSUME NEW j \in ids, j <= i PROVE j <= k  BY <2>1, <2>2
  <2>3. ~(k <= i) /\ k <= k  BY <2>1
  <2>4. QED  BY <2>2, <2>3
<1>2. IsFiniteSet(B) /\ IsFiniteSet(A)  BY FS_Subset
<1> HIDE DEF A, B
<1>3. Cardinality(A) <= Cardinality(B) /\ (Cardinality(B) = Cardinality(A) => B = A)
  BY <1>1, <1>2, FS_Subset
<1>4. Cardinality(A) \in Nat /\ Cardinality(B) \in Nat  BY <1>2, FS_CardinalityType
<1>5. Cardinality(A) < Cardinality(B)  BY <1>1, <1>3, <1>4
<1>6. QED  BY <1>5, CountedAlike DEF A, B, Channel!Upto
-----------------------------------------------------------------------------
(***************************************************************************)
(* Pins.                                                                   *)
(***************************************************************************)
LEMMA PinStep ==
    ASSUME ChannelInv, NEW u \in Channel!People, NEW m \in DOMAIN messages, NEW op \in {"pin", "unpin"},
           Channel!Pin(u, m, op)
    PROVE  ChannelInv'
<1> DEFINE x == Channel!Call(op, u, m, FALSE, "checked")
<1>1. /\ Channel!Starts(x)
      /\ UNCHANGED <<channel, messages, reactions, seats, seen, late, odd, doubled, deleting>>
  BY DEF Channel!Pin, Channel!readVars, Channel!tapVars
<1>2. /\ x \in Channel!Calls /\ x.op \in {"pin", "unpin"} /\ x.at = "checked"
  <2>1. m \in 0..MaxMessages  BY MessageFacts
  <2>2. QED  BY <2>1 DEF Channel!Call, Channel!Calls
<1> HIDE DEF x
<1>3. x \in Fitting'  BY <1>2 DEF Fitting, Deletions
<1>4. \A j \in 1..Len(calls) : <<calls[j], x>> \in Apart' /\ <<x, calls[j]>> \in Apart'
  BY <1>2, CallFacts DEF Apart
<1>5. doubled' \subseteq Channel!Pairs /\ deleting' \in BOOLEAN  BY <1>1 DEF ChannelInv,
                                                                    Channel!TypeOK
<1>6. QED  BY <1>1, <1>2, <1>3, <1>4, <1>5, SeatsStay, QuietStart

\* Only the mark of one message changes, which the step holds or lets go.
LEMMA OneFlag ==
    ASSUME ChannelInv, NEW m \in 1..Len(messages), NEW f \in BOOLEAN,
           messages' = [messages EXCEPT ![m].pinned = f],
           channel' = channel, seen' = seen
    PROVE  /\ messages' \in Seq(Channel!Messages) /\ Len(messages') = Len(messages)
           /\ DOMAIN messages' = 1..Len(messages)
           /\ messages'[m].pinned = f
           /\ \A k \in 1..Len(messages) : /\ messages'[k].parent = messages[k].parent
                                          /\ messages'[k].visible = messages[k].visible
                                          /\ k # m => messages'[k].pinned = messages[k].pinned
           /\ Seeable' = Seeable /\ Pinned' = Pinned /\ Channel!Listed' = Channel!Listed
<1>1. /\ messages \in Seq(Channel!Messages) /\ Len(messages) \in Nat
      /\ DOMAIN messages = 1..Len(messages)
      /\ \A k \in 1..Len(messages) : messages[k] \in Channel!Messages
  BY MessageFacts
<1> DEFINE r == [messages[m] EXCEPT !.pinned = f]
<1>2. /\ r \in Channel!Messages /\ r.parent = messages[m].parent /\ r.visible = messages[m].visible
  BY <1>1 DEF Channel!Messages
<1>3. r.pinned = f
  <2>1. messages[m] \in Channel!Messages  BY <1>1
  <2>2. QED  BY <2>1, Zenon DEF Channel!Messages
<1>4. messages' = [messages EXCEPT ![m] = r]  OBVIOUS
<1> HIDE DEF r
<1>5. /\ messages' \in Seq(Channel!Messages) /\ Len(messages') = Len(messages)
      /\ DOMAIN messages' = 1..Len(messages) /\ messages'[m] = r
      /\ \A k \in 1..Len(messages) : k # m => messages'[k] = messages[k]
  BY <1>1, <1>2, <1>4
<1>6. messages'[m].pinned = f  BY <1>3, <1>5
<1>7. \A k \in 1..Len(messages) : /\ messages'[k].parent = messages[k].parent
                                  /\ messages'[k].visible = messages[k].visible
                                  /\ k # m => messages'[k].pinned = messages[k].pinned
  BY <1>2, <1>5
<1>8. Seeable' = Seeable /\ Pinned' = Pinned  BY <1>1, <1>5, <1>7 DEF Seeable, Pinned
<1>9. Channel!Listed' = Channel!Listed
  BY <1>1, <1>5, <1>7 DEF Channel!Listed, Channel!Visible, Channel!Root
<1>10. QED  BY <1>5, <1>6, <1>7, <1>8, <1>9

\* After a step that changed the mark of one message: what remains is the pins.
LEMMA FlagRest ==
    ASSUME ChannelInv, NEW m \in 1..Len(messages), NEW f \in BOOLEAN,
           messages' = [messages EXCEPT ![m].pinned = f],
           UNCHANGED <<channel, reactions, seats, seen, late, odd, doubled, deleting, made>>,
           CallsFit', RoomIsLeft', calls' \in Seq(Channel!Calls), Len(calls') <= Overlap,
           \A k \in Held : k # m => k \in Held',
           m \notin Held' => (f <=> m \in Pinned)
    PROVE  ChannelInv'
<1>1. /\ messages' \in Seq(Channel!Messages) /\ Len(messages') = Len(messages)
      /\ DOMAIN messages' = 1..Len(messages)
      /\ messages'[m].pinned = f
      /\ \A k \in 1..Len(messages) : /\ messages'[k].parent = messages[k].parent
                                     /\ messages'[k].visible = messages[k].visible
                                     /\ k # m => messages'[k].pinned = messages[k].pinned
      /\ Pinned' = Pinned
  BY OneFlag
<1>2. Len(messages) \in Nat /\ DOMAIN messages = 1..Len(messages) /\ Len(messages) <= MaxMessages
  BY MessageFacts
<1>3. Channel!TypeOK'  BY <1>1, <1>2 DEF ChannelInv, Channel!TypeOK
<1>4. SeenFromTheTop' /\ MarksAreHonest'  BY <1>1, <1>2, ReadingStays
<1>5. PinsFit'
  <2>1. /\ Pinned \subseteq 1..Len(messages)
        /\ \A k \in 1..Len(messages) : k \notin Held => (messages[k].pinned <=> k \in Pinned)
        /\ \A j, k \in DOMAIN channel.pins : channel.pins[j] = channel.pins[k] => j = k
    BY <1>2 DEF ChannelInv, PinsFit
  <2>2. ASSUME NEW k \in 1..Len(messages), k \notin Held' PROVE messages'[k].pinned <=> k \in Pinned
    <3>1. CASE k = m  BY <1>1, <2>2, <3>1
    <3>2. CASE k # m  BY <1>1, <2>1, <2>2, <3>2
    <3>3. QED  BY <3>1, <3>2
  <2>3. QED  BY <1>1, <2>1, <2>2 DEF PinsFit
<1>6. Channel!ReactionsFollowTaps' /\ Channel!GoneForAReason' /\ DeadIsEmpty'
  <2>1. channel.alive  BY <1>2 DEF ChannelInv, DeadIsEmpty
  <2>2. QED  BY <2>1 DEF ChannelInv, Channel!ReactionsFollowTaps, Channel!GoneForAReason,
                DeadIsEmpty
<1>7. QED  BY <1>3, <1>4, <1>5, <1>6 DEF ChannelInv

\* A change of the mark disturbs nobody but the one who holds that message.
LEMMA FlagFits ==
    ASSUME ChannelInv, NEW m \in 1..Len(messages), NEW f \in BOOLEAN,
           messages' = [messages EXCEPT ![m].pinned = f],
           UNCHANGED <<channel, reactions, seats, seen, late, odd, doubled, deleting, made>>,
           NEW c \in Fitting, ~(c.at = "flagged" /\ c.msg = m)
    PROVE  c \in Fitting'
<1>1. /\ DOMAIN messages' = 1..Len(messages)
      /\ \A k \in 1..Len(messages) : k # m => messages'[k].pinned = messages[k].pinned
      /\ Seeable' = Seeable /\ Pinned' = Pinned /\ Channel!Listed' = Channel!Listed
  BY OneFlag
<1>2. DOMAIN messages = 1..Len(messages) /\ Seeable \subseteq 1..Len(messages)
  BY MessageFacts DEF Seeable
<1>3. c.at = "writing" => c.msg \in DOMAIN messages'  BY <1>1, <1>2 DEF Fitting
<1>4. c.at = "flagged" => c.msg \in Seeable /\ c.msg \in 1..Len(messages)  BY <1>2 DEF Fitting
<1>5. QED  BY <1>1, <1>3, <1>4, StillFits

LEMMA PinFlagsStep ==
    ASSUME ChannelInv, NEW i, Channel!PinFlags(i)
    PROVE  ChannelInv'
<1> DEFINE m == calls[i].msg
           f == (calls[i].op = "pin")
           x == [calls[i] EXCEPT !.mark = messages[m].pinned, !.at = "flagged"]
<1>1. /\ i \in DOMAIN calls /\ calls[i].op \in {"pin", "unpin"} /\ calls[i].at = "checked"
      /\ UNCHANGED <<channel, reactions, seats, seen, late, odd, doubled, deleting, made>>
  BY DEF Channel!PinFlags, Channel!At, Channel!readVars, Channel!tapVars
<1>2. i \in 1..Len(calls) /\ calls[i] \in Channel!Calls /\ calls[i] \in Fitting  BY <1>1,
                                                                                    CallFacts
<1>3. CASE ~Channel!Visible(m)
  <2>1. calls' = Channel!RemoveAt(calls, i) /\ messages' = messages
    BY <1>3 DEF Channel!PinFlags, Channel!Ends
  <2>2. QED  BY <1>1, <1>2, <2>1, QuietEnd
<1>4. CASE Channel!Visible(m)
  <2>1. /\ ~Channel!Holds(m)
        /\ messages' = [messages EXCEPT ![m].pinned = f]
        /\ calls' = [calls EXCEPT ![i] = x]
    BY <1>4 DEF Channel!PinFlags, Channel!Goes
  <2>2. m \in 1..Len(messages) /\ messages[m] \in Channel!Messages /\ m \in Seeable
    BY <1>4, MessageFacts DEF Channel!Visible, Seeable
  <2>3. messages[m].pinned \in BOOLEAN  BY <2>2 DEF Channel!Messages
  <2>4. /\ x \in Channel!Calls /\ x.op = calls[i].op /\ x.at = "flagged"
        /\ x.msg = m /\ x.who = calls[i].who
    BY <1>2, <2>3 DEF Channel!Calls
  <2>5. x.mark = messages[m].pinned  BY <1>2, Zenon DEF Channel!Calls
  <2>6. f \in BOOLEAN /\ (f <=> x.op = "pin")  BY <2>4
  <2> HIDE DEF x, f, m
  <2>7. /\ Len(messages') = Len(messages) /\ DOMAIN messages' = 1..Len(messages)
        /\ messages'[m].pinned = f /\ Seeable' = Seeable /\ Pinned' = Pinned
    BY <1>1, <2>1, <2>2, <2>6, OneFlag
  <2>8. \A j \in 1..Len(calls) : ~(calls[j].at = "flagged" /\ calls[j].msg = m)
    BY <2>1, CallFacts DEF Channel!Holds
  <2>9. m \notin Held  BY <2>8, CallFacts DEF Held
  <2>10. messages[m].pinned <=> m \in Pinned
    BY <2>2, <2>9, MessageFacts DEF ChannelInv, PinsFit
  <2>11. x \in Fitting'
    <3>1. x.msg \in Seeable'  BY <2>2, <2>4, <2>7
    <3>2. messages'[x.msg].pinned <=> x.op = "pin"  BY <2>4, <2>6, <2>7
    <3>3. x.mark <=> x.msg \in Pinned'  BY <2>4, <2>5, <2>7, <2>10
    <3>4. QED  BY <1>1, <2>4, <3>1, <3>2, <3>3 DEF Fitting, Deletions
  <2>12. \A j \in 1..Len(calls) : calls[j] \in Fitting'
    <3>1. ASSUME NEW j \in 1..Len(calls) PROVE calls[j] \in Fitting'
      <4>1. calls[j] \in Fitting /\ ~(calls[j].at = "flagged" /\ calls[j].msg = m)
        BY <2>8, CallFacts
      <4>2. QED  BY <1>1, <2>1, <2>2, <2>6, <4>1, FlagFits
    <3>2. QED  BY <3>1
  <2>13. Apart \subseteq Apart'  BY <1>1, StillApart
  <2>14. \A j \in 1..Len(calls) : j # i => <<calls[j], x>> \in Apart' /\ <<x, calls[j]>> \in Apart'
    <3>1. \A j \in 1..Len(calls) : calls[j] \in Channel!Calls  BY CallFacts
    <3>2. QED  BY <1>1, <2>4, <2>8, <3>1 DEF Apart
  <2>15. /\ CallsFit' /\ RoomIsLeft'
         /\ calls' \in Seq(Channel!Calls) /\ Len(calls') <= Overlap
         /\ \A k \in Held : k \in Held' \/ (calls[i].at = "flagged" /\ k = calls[i].msg)
         /\ x.at = "flagged" => x.msg \in Held'
    <3>1. ~(x.op = "post" /\ x.at = "checked")  BY <2>4
    <3>2. Len(messages') \in Nat /\ Len(messages') <= Len(messages)  BY <2>7, MessageFacts
    <3>3. QED  BY <1>2, <2>1, <2>4, <2>11, <2>12, <2>13, <2>14, <3>1, <3>2, WhenGone
  <2>16. m \in Held' /\ \A k \in Held : k \in Held'  BY <1>1, <2>4, <2>15
  <2>17. QED  BY <1>1, <2>1, <2>2, <2>6, <2>15, <2>16, FlagRest
<1>5. QED  BY <1>3, <1>4

Elems(s) == {s[k] : k \in DOMAIN s}
Distinct(s) == \A j, k \in DOMAIN s : s[j] = s[k] => j = k

\* An id that was there is there once more, or no more.
LEMMA WithoutFacts ==
    ASSUME NEW S, NEW p \in Seq(S), NEW m, Distinct(p)
    PROVE  /\ Channel!Without(p, m) \in Seq(S) /\ Distinct(Channel!Without(p, m))
           /\ Elems(Channel!Without(p, m)) = Elems(p) \ {m}
<1> DEFINE q == Channel!Without(p, m)
           kept == Channel!Kept(p, m)
           Rank(i) == Channel!Upto(kept, i)
           rank == [i \in kept |-> Rank(i)]
           n == Cardinality(kept)
           Nth(l) == Channel!Nth(kept, l)
<1>1. DOMAIN p = 1..Len(p) /\ Len(p) \in Nat  OBVIOUS
<1>2. kept \in SUBSET Nat /\ IsFiniteSet(kept) /\ n \in Nat
  <2>1. IsFiniteSet(1..Len(p))  BY <1>1, FS_Interval
  <2>2. kept \subseteq 1..Len(p)  BY <1>1 DEF Channel!Kept
  <2>3. IsFiniteSet(kept)  BY <2>1, <2>2, FS_Subset
  <2>4. QED  BY <1>1, <2>2, <2>3, FS_CardinalityType
<1>3. q = [l \in 1..n |-> p[Nth(l)]]  BY CountedAlike DEF Channel!Without
<1>4. \A k \in kept : k \in DOMAIN p /\ p[k] # m  BY DEF Channel!Kept
<1>5. \A k \in DOMAIN p : p[k] # m => k \in kept  BY DEF Channel!Kept
<1> HIDE DEF q, kept
<1>6. ASSUME NEW i \in kept PROVE Rank(i) \in 1..n
  <2> DEFINE upto == {j \in kept : j <= i}
  <2>1. upto \subseteq kept /\ i \in upto  BY <1>2
  <2>2. Rank(i) = Cardinality(upto)  BY CountedAlike DEF Channel!Upto
  <2> HIDE DEF upto, Rank
  <2>3. IsFiniteSet(upto) /\ Cardinality(upto) <= n  BY <1>2, <2>1, FS_Subset
  <2>4. Cardinality(upto) \in Nat  BY <2>3, FS_CardinalityType
  <2>5. Cardinality(upto) # 0  BY <2>1, <2>3, FS_EmptySet
  <2> HIDE DEF n
  <2>6. QED  BY <1>2, <2>2, <2>3, <2>4, <2>5
<1>7. ASSUME NEW i \in kept, NEW k \in kept, Rank(i) = Rank(k) PROVE i = k
  <2>1. i \in Nat /\ k \in Nat /\ Rank(i) \in Int /\ Rank(k) \in Int  BY <1>2, <1>6
  <2>2. i < k => Rank(i) < Rank(k)  BY <1>2, PositionsDiffer
  <2>3. k < i => Rank(k) < Rank(i)  BY <1>2, PositionsDiffer
  <2> HIDE DEF Rank
  <2>4. QED  BY <1>7, <2>1, <2>2, <2>3
<1>8. ASSUME NEW l, NEW k \in kept, Rank(k) = l PROVE Nth(l) \in kept /\ Rank(Nth(l)) = l
  BY <1>8 DEF Channel!Nth
<1> HIDE DEF Rank
<1>9. rank \in Injection(kept, 1..n)  BY <1>6, <1>7 DEF Injection, IsInjective
<1>10. IsFiniteSet(1..n) /\ Cardinality(1..n) = n
  <2> HIDE DEF n
  <2>1. QED  BY <1>2, FS_Interval
<1>11. rank \in Surjection(kept, 1..n)  BY <1>2, <1>9, <1>10, FS_Injection
<1>12. ASSUME NEW l \in 1..n PROVE Nth(l) \in kept /\ Rank(Nth(l)) = l
  <2>1. PICK k \in kept : Rank(k) = l  BY <1>11 DEF Surjection
  <2>2. QED  BY <1>8, <2>1
<1>13. ASSUME NEW k \in kept PROVE Nth(Rank(k)) = k
  BY <1>6, <1>7, <1>12
<1> HIDE DEF Nth, n
<1>14. q \in Seq(S) /\ DOMAIN q = 1..n
  <2>1. \A l \in 1..n : p[Nth(l)] \in S  BY <1>1, <1>4, <1>12
  <2>2. q \in [1..n -> S]  BY <1>3, <2>1
  <2>3. QED  BY <1>2, <2>2
<1>15. ASSUME NEW j \in 1..n, NEW k \in 1..n, q[j] = q[k] PROVE j = k
  <2>1. p[Nth(j)] = p[Nth(k)]  BY <1>3, <1>15
  <2>2. Nth(j) \in DOMAIN p /\ Nth(k) \in DOMAIN p  BY <1>4, <1>12
  <2>3. Nth(j) = Nth(k)  BY <2>1, <2>2 DEF Distinct
  <2>4. QED  BY <1>12, <2>3
<1>16. ASSUME NEW l \in 1..n PROVE q[l] \in {p[k] : k \in DOMAIN p} \ {m}
  BY <1>3, <1>4, <1>12
<1>17. ASSUME NEW k \in DOMAIN p, p[k] # m PROVE \E l \in 1..n : q[l] = p[k]
  <2>1. k \in kept  BY <1>5, <1>17
  <2>2. Rank(k) \in 1..n /\ q[Rank(k)] = p[k]  BY <1>3, <1>6, <1>13, <2>1
  <2>3. QED  BY <2>2
<1>18. Elems(q) = Elems(p) \ {m}
  <2>1. ASSUME NEW v \in Elems(q) PROVE v \in Elems(p) \ {m}
    BY <1>14, <1>16 DEF Elems
  <2>2. ASSUME NEW v \in Elems(p) \ {m} PROVE v \in Elems(q)
    <3>1. PICK k \in DOMAIN p : v = p[k] /\ p[k] # m  BY DEF Elems
    <3>2. QED  BY <1>14, <1>17, <3>1 DEF Elems
  <2>3. QED  BY <2>1, <2>2
<1>19. Distinct(q)  BY <1>14, <1>15 DEF Distinct
<1>20. QED  BY <1>14, <1>18, <1>19 DEF q

LEMMA PinnedIdsFacts ==
    ASSUME NEW S, NEW p \in Seq(S), NEW m \in S, NEW op, Distinct(p)
    PROVE  /\ Channel!PinnedIds(p, m, op) \in Seq(S) /\ Distinct(Channel!PinnedIds(p, m, op))
           /\ Elems(Channel!PinnedIds(p, m, op)) =
                 IF op = "pin" THEN Elems(p) \cup {m} ELSE Elems(p) \ {m}
<1> DEFINE q == Channel!PinnedIds(p, m, op)
<1>1. DOMAIN p = 1..Len(p) /\ Len(p) \in Nat  OBVIOUS
<1>2. CASE op # "pin"
  <2>1. q = Channel!Without(p, m)  BY <1>2 DEF Channel!PinnedIds
  <2>2. QED  BY <1>2, <2>1, WithoutFacts
<1>3. CASE op = "pin" /\ Channel!Contains(p, m)
  <2>1. q = p  BY <1>3 DEF Channel!PinnedIds
  <2>2. m \in Elems(p)  BY <1>1, <1>3 DEF Channel!Contains, Elems
  <2>3. QED  BY <1>3, <2>1, <2>2
<1>4. CASE op = "pin" /\ ~Channel!Contains(p, m)
  <2>1. q = Append(p, m)  BY <1>4 DEF Channel!PinnedIds
  <2>2. \A k \in 1..Len(p) : p[k] # m  BY <1>4 DEF Channel!Contains
  <2>3. /\ q \in Seq(S) /\ DOMAIN q = 1..(Len(p) + 1) /\ q[Len(p) + 1] = m
        /\ \A k \in 1..Len(p) : q[k] = p[k]
        /\ \A k \in 1..(Len(p) + 1) : k \in 1..Len(p) \/ k = Len(p) + 1
        /\ \A k \in 1..Len(p) : k \in 1..(Len(p) + 1)
        /\ Len(p) + 1 \in 1..(Len(p) + 1)
    BY <1>1, <2>1
  <2>4. ASSUME NEW j \in DOMAIN q, NEW k \in DOMAIN q, q[j] = q[k] PROVE j = k
    <3>1. CASE j \in 1..Len(p) /\ k \in 1..Len(p)  BY <1>1, <2>3, <2>4, <3>1 DEF Distinct
    <3>2. CASE j \notin 1..Len(p)  BY <2>2, <2>3, <2>4, <3>2
    <3>3. CASE k \notin 1..Len(p)  BY <2>2, <2>3, <2>4, <3>3
    <3>4. QED  BY <3>1, <3>2, <3>3
  <2>5. \A v : v \in Elems(q) <=> v \in Elems(p) \cup {m}  BY <1>1, <2>3 DEF Elems
  <2>6. Elems(q) = Elems(p) \cup {m}  BY <2>5
  <2>7. Distinct(q)  BY <2>4 DEF Distinct
  <2>8. QED  BY <1>4, <2>3, <2>6, <2>7
<1>5. QED  BY <1>2, <1>3, <1>4

LEMMA PinCommitsStep ==
    ASSUME ChannelInv, NEW i, Channel!PinCommits(i)
    PROVE  ChannelInv'
<1> DEFINE m == calls[i].msg
           pins == Channel!PinnedIds(channel.pins, m, calls[i].op)
<1>1. /\ i \in DOMAIN calls /\ calls[i].op \in {"pin", "unpin"} /\ calls[i].at = "flagged"
      /\ channel' = [channel EXCEPT !.pins = pins]
      /\ calls' = Channel!RemoveAt(calls, i)
      /\ UNCHANGED <<messages, reactions, seats, seen, late, odd, doubled, deleting, made>>
  BY DEF Channel!PinCommits, Channel!At, Channel!Ends, Channel!readVars, Channel!tapVars
<1>2. i \in 1..Len(calls) /\ calls[i] \in Fitting  BY <1>1, CallFacts
<1>3. m \in Seeable /\ (messages[m].pinned <=> calls[i].op = "pin")  BY <1>1, <1>2 DEF Fitting
<1>4. /\ DOMAIN messages = 1..Len(messages) /\ Len(messages) \in Nat
      /\ m \in 1..Len(messages) /\ m \in Channel!Ids /\ 1..Len(messages) \subseteq Channel!Ids
  BY <1>3, MessageFacts DEF Seeable
<1>5. /\ channel \in [alive : BOOLEAN, archived : {"no", "fresh", "old"}, pins : Seq(Channel!Ids)]
      /\ channel.pins \in Seq(Channel!Ids)
  BY DEF ChannelInv, Channel!TypeOK
<1>6. /\ \A j, k \in DOMAIN channel.pins : channel.pins[j] = channel.pins[k] => j = k
      /\ Pinned \subseteq 1..Len(messages)
      /\ \A k \in 1..Len(messages) : k \notin Held => (messages[k].pinned <=> k \in Pinned)
  BY <1>4 DEF ChannelInv, PinsFit
<1>7. /\ pins \in Seq(Channel!Ids)
      /\ \A j, k \in DOMAIN pins : pins[j] = pins[k] => j = k
      /\ {pins[k] : k \in DOMAIN pins} =
            IF calls[i].op = "pin" THEN {channel.pins[k] : k \in DOMAIN channel.pins} \cup {m}
            ELSE {channel.pins[k] : k \in DOMAIN channel.pins} \ {m}
  <2>1. channel.pins \in Seq(Channel!Ids) /\ m \in Channel!Ids /\ Distinct(channel.pins)
    BY <1>4, <1>5, <1>6 DEF Distinct
  <2>2. /\ pins \in Seq(Channel!Ids) /\ Distinct(pins)
        /\ Elems(pins) =
              IF calls[i].op = "pin" THEN Elems(channel.pins) \cup {m} ELSE Elems(channel.pins) \ {m}
    <3> DEFINE p == channel.pins
               op == calls[i].op
    <3>1. pins = Channel!PinnedIds(p, m, op)  OBVIOUS
    <3>2. p \in Seq(Channel!Ids) /\ m \in Channel!Ids /\ Distinct(p)  BY <2>1
    <3> HIDE DEF m, p, op, pins
    <3>3. /\ Channel!PinnedIds(p, m, op) \in Seq(Channel!Ids)
          /\ Distinct(Channel!PinnedIds(p, m, op))
          /\ Elems(Channel!PinnedIds(p, m, op)) =
                IF op = "pin" THEN Elems(p) \cup {m} ELSE Elems(p) \ {m}
      BY <3>2, PinnedIdsFacts
    <3>4. QED  BY <3>1, <3>3 DEF p, op
  <2> HIDE DEF m, pins
  <2>3. QED  BY <2>2 DEF Elems, Distinct
<1> HIDE DEF pins, m
<1>8. /\ channel' \in [alive : BOOLEAN, archived : {"no", "fresh", "old"}, pins : Seq(Channel!Ids)]
      /\ channel'.pins = pins /\ channel'.alive = channel.alive /\ channel'.archived = channel.archived
  BY <1>1, <1>5, <1>7
<1>9. Pinned' = IF calls[i].op = "pin" THEN Pinned \cup {m} ELSE Pinned \ {m}
  BY <1>7, <1>8 DEF Pinned
<1>10. /\ \A k \in 1..Len(messages) : k # m => (k \in Pinned' <=> k \in Pinned)
       /\ m \in Pinned' <=> calls[i].op = "pin"
       /\ Pinned' \subseteq 1..Len(messages)
  BY <1>4, <1>6, <1>9
<1>11. Seeable' = Seeable /\ Seeable \subseteq 1..Len(messages) /\ Channel!Listed' = Channel!Listed
  BY <1>1, <1>4 DEF Seeable, Channel!Listed, Channel!Visible, Channel!Root
<1>12. ASSUME NEW j \in 1..Len(calls), j # i PROVE calls[j] \in Fitting'
  <2>1. calls[j] \in Fitting /\ <<calls[i], calls[j]>> \in Apart  BY <1>2, <1>12, CallFacts
  <2>2. calls[j].at = "flagged" => calls[j].msg \in Seeable /\ calls[j].msg # m
    BY <1>1, <2>1 DEF Fitting, Apart, m
  <2>3. calls[j].at = "writing" => calls[j].msg \in DOMAIN messages'  BY <1>1, <2>1 DEF Fitting
  <2> DEFINE c == calls[j]
  <2>4. c \in Fitting /\ (c.at = "flagged" => c.msg \in Seeable /\ c.msg # m)
        /\ (c.at = "writing" => c.msg \in DOMAIN messages')
    BY <2>1, <2>2, <2>3
  <2> HIDE DEF c
  <2>5. c \in Fitting'  BY <1>1, <1>8, <1>10, <1>11, <2>4, StillFits
  <2>6. QED  BY <2>5 DEF c
<1>13. Apart \subseteq Apart'  BY <1>1, <1>8, StillApart
<1>14. /\ CallsFit' /\ RoomIsLeft'
       /\ calls' \in Seq(Channel!Calls) /\ Len(calls') <= Overlap
       /\ \A k \in Held : k \in Held' \/ (calls[i].at = "flagged" /\ k = calls[i].msg)
  <2>1. Len(messages') \in Nat /\ Len(messages') <= Len(messages)  BY <1>1, <1>4
  <2>2. QED  BY <1>1, <1>2, <1>12, <1>13, <2>1, WhenEnded
<1>15. Channel!TypeOK'  BY <1>1, <1>8, <1>14 DEF ChannelInv, Channel!TypeOK
<1>16. SeenFromTheTop' /\ MarksAreHonest'
  <2>1. \A u \in Channel!People : seats'[u].lastRead = seats[u].lastRead  BY <1>1
  <2>2. QED  BY <1>1, <2>1, ReadingStays
<1>17. PinsFit'
  <2>1. ASSUME NEW k \in 1..Len(messages), k \notin Held' PROVE messages[k].pinned <=> k \in Pinned'
    <3>1. CASE k = m  BY <1>3, <1>10, <3>1
    <3>2. CASE k # m
      <4>1. k \notin Held  BY <1>14, <2>1, <3>2 DEF m
      <4>2. QED  BY <1>6, <1>10, <3>2, <4>1
    <3>3. QED  BY <3>1, <3>2
  <2>2. \A j, k \in DOMAIN channel'.pins : channel'.pins[j] = channel'.pins[k] => j = k
    BY <1>7, <1>8
  <2>3. QED  BY <1>1, <1>4, <1>10, <2>1, <2>2 DEF PinsFit
<1>18. Channel!ReactionsFollowTaps' /\ Channel!GoneForAReason' /\ DeadIsEmpty'
  BY <1>1, <1>8 DEF ChannelInv, Channel!ReactionsFollowTaps, Channel!GoneForAReason, DeadIsEmpty
<1>19. QED  BY <1>14, <1>15, <1>16, <1>17, <1>18 DEF ChannelInv
-----------------------------------------------------------------------------
(***************************************************************************)
(* Reactions.                                                              *)
(***************************************************************************)
LEMMA ReactStep ==
    ASSUME ChannelInv, NEW u \in Channel!People, NEW m \in DOMAIN messages, Channel!React(u, m)
    PROVE  ChannelInv'
<1> DEFINE x == Channel!Call("react", u, m, FALSE, "checked")
           pair == <<u, m>>
<1>1. /\ Channel!Starts(x)
      /\ doubled' = IF \E i \in DOMAIN calls :
                         calls[i].op = "react" /\ calls[i].who = u /\ calls[i].msg = m
                    THEN doubled \cup {pair} ELSE doubled
      /\ UNCHANGED <<channel, messages, reactions, seats, seen, late, odd, deleting>>
  BY DEF Channel!React, Channel!readVars
<1>2. pair \in Channel!Pairs  BY MessageFacts DEF Channel!Pairs
<1>3. /\ x \in Channel!Calls /\ x.op = "react" /\ x.at = "checked" /\ x.who = u /\ x.msg = m
  <2>1. m \in 0..MaxMessages  BY MessageFacts
  <2>2. QED  BY <2>1 DEF Channel!Call, Channel!Calls
<1> HIDE DEF x
<1>4. x \in Fitting'  BY <1>2, <1>3 DEF Fitting, Deletions
<1>5. ASSUME NEW j \in 1..Len(calls) PROVE <<calls[j], x>> \in Apart' /\ <<x, calls[j]>> \in Apart'
  <2>1. j \in DOMAIN calls /\ calls[j] \in Channel!Calls  BY CallFacts
  <2>2. calls[j].op = "react" /\ calls[j].who = x.who /\ calls[j].msg = x.msg => <<x.who, x.msg>> \in doubled'
    BY <1>1, <1>3, <2>1
  <2>3. QED  BY <1>3, <2>1, <2>2 DEF Apart
<1>6. /\ doubled \subseteq doubled' /\ doubled' \subseteq Channel!Pairs /\ deleting' \in BOOLEAN
  BY <1>1, <1>2 DEF ChannelInv, Channel!TypeOK
<1>7. x.op # "post" /\ (deleting => deleting')  BY <1>1, <1>3
<1>8. QED  BY <1>1, <1>3, <1>4, <1>5, <1>6, <1>7, SeatsStay, QuietStart

LEMMA ReactFindsStep ==
    ASSUME ChannelInv, NEW i, Channel!ReactFinds(i)
    PROVE  ChannelInv'
<1> DEFINE b == (<<calls[i].who, calls[i].msg>> \in reactions)
           x == [calls[i] EXCEPT !.mark = b, !.at = "found"]
<1>1. /\ i \in DOMAIN calls /\ calls[i].op = "react" /\ calls[i].at = "checked"
      /\ calls' = [calls EXCEPT ![i] = x]
      /\ UNCHANGED <<channel, messages, reactions, seats, seen, late, odd, doubled, deleting, made>>
  BY DEF Channel!ReactFinds, Channel!At, Channel!Goes, Channel!readVars, Channel!tapVars
<1>2. i \in 1..Len(calls) /\ calls[i] \in Channel!Calls /\ calls[i] \in Fitting  BY <1>1,
                                                                                    CallFacts
<1>3. b \in BOOLEAN  OBVIOUS
<1>4. /\ x \in Channel!Calls /\ x.op = "react" /\ x.at = "found"
      /\ x.who = calls[i].who /\ x.msg = calls[i].msg
  <2> HIDE DEF b
  <2>1. QED  BY <1>1, <1>2, <1>3 DEF Channel!Calls
<1>5. x.mark = b
  <2> HIDE DEF b
  <2>1. QED  BY <1>2, Zenon DEF Channel!Calls
<1>6. b <=> <<x.who, x.msg>> \in reactions  BY <1>4
<1>7. <<x.who, x.msg>> \in Channel!Pairs  BY <1>1, <1>2, <1>4 DEF Fitting
<1> HIDE DEF x, b
<1>8. x.mark <=> <<x.who, x.msg>> \in reactions  BY <1>5, <1>6
<1>9. x \in Fitting  BY <1>4, <1>7, <1>8 DEF Fitting, Deletions
<1>10. ASSUME NEW j \in 1..Len(calls), j # i PROVE <<calls[j], x>> \in Apart /\ <<x, calls[j]>> \in Apart
  <2>1. /\ <<calls[j], calls[i]>> \in Apart /\ <<calls[i], calls[j]>> \in Apart
        /\ calls[j] \in Channel!Calls
    BY <1>2, <1>10, CallFacts
  <2>2. QED  BY <1>1, <1>4, <2>1 DEF Apart
<1>11. QED  BY <1>1, <1>2, <1>4, <1>9, <1>10, QuietGo

LEMMA ReactWritesStep ==
    ASSUME ChannelInv, NEW i, Channel!ReactWrites(i)
    PROVE  ChannelInv'
<1> DEFINE pair == <<calls[i].who, calls[i].msg>>
<1>1. /\ i \in DOMAIN calls /\ calls[i].op = "react" /\ calls[i].at = "found"
      /\ calls' = Channel!RemoveAt(calls, i)
      /\ UNCHANGED <<channel, messages, seats, seen, late, doubled, deleting, made>>
  BY DEF Channel!ReactWrites, Channel!At, Channel!Ends, Channel!readVars
<1>2. i \in 1..Len(calls) /\ calls[i] \in Channel!Calls /\ calls[i] \in Fitting  BY <1>1,
                                                                                    CallFacts
<1>3. CASE ~Channel!Visible(calls[i].msg)
  <2>1. reactions' = reactions /\ odd' = odd  BY <1>3 DEF Channel!ReactWrites
  <2>2. QED  BY <1>1, <1>2, <2>1, QuietEnd
<1>4. CASE Channel!Visible(calls[i].msg)
  <2>1. /\ reactions' = IF calls[i].mark THEN reactions \ {pair} ELSE reactions \cup {pair}
        /\ odd' = IF pair \in odd THEN odd \ {pair} ELSE odd \cup {pair}
    BY <1>4 DEF Channel!ReactWrites
  <2>2. channel.alive
    <3>1. calls[i].msg \in 1..Len(messages)  BY <1>4, MessageFacts DEF Channel!Visible
    <3>2. QED  BY <3>1 DEF ChannelInv, DeadIsEmpty
  <2>3. pair \in Channel!Pairs /\ (pair \notin doubled => (calls[i].mark <=> pair \in reactions))
    BY <1>1, <1>2, <2>2 DEF Fitting
  <2>4. Channel!ReactionsFollowTaps'
    <3>1. ASSUME NEW p \in Channel!Pairs, p \notin doubled PROVE p \in reactions' <=> p \in odd'
      <4>1. p \in reactions <=> p \in odd  BY <3>1 DEF ChannelInv, Channel!ReactionsFollowTaps
      <4>2. CASE p # pair  BY <2>1, <4>1, <4>2
      <4>3. CASE p = pair
        <5>1. calls[i].mark <=> p \in odd  BY <2>3, <3>1, <4>1, <4>3
        <5> HIDE DEF pair
        <5>2. QED  BY <2>1, <4>3, <5>1
      <4>4. QED  BY <4>2, <4>3
    <3>2. QED  BY <1>1, <3>1 DEF Channel!ReactionsFollowTaps
  <2>5. Seeable' = Seeable /\ Pinned' = Pinned /\ Channel!Listed' = Channel!Listed
    BY <1>1 DEF Seeable, Pinned, Channel!Listed, Channel!Visible, Channel!Root
  <2>6. ASSUME NEW j \in 1..Len(calls), j # i PROVE calls[j] \in Fitting'
    <3> DEFINE c == calls[j]
    <3>1. c \in Fitting /\ <<calls[i], c>> \in Apart  BY <1>2, <2>6, CallFacts
    <3>2. c.at = "found" => c.op = "react"  BY <3>1 DEF Fitting, Channel!Calls, Deletions
    <3> HIDE DEF c
    <3>3. c.at = "found" /\ <<c.who, c.msg>> \notin doubled => <<c.who, c.msg>> # pair
      BY <1>1, <2>2, <3>1, <3>2 DEF Apart
    <3>4. c.at = "found" /\ <<c.who, c.msg>> \notin doubled =>
            (<<c.who, c.msg>> \in reactions' <=> <<c.who, c.msg>> \in reactions)
      BY <2>1, <3>3
    <3>5. c.at = "writing" => c.msg \in DOMAIN messages'  BY <1>1, <3>1 DEF Fitting
    <3>6. c.at = "flagged" => c.msg \in Seeable'  BY <2>5, <3>1 DEF Fitting
    <3>7. c \in Fitting'  BY <1>1, <2>2, <2>5, <3>1, <3>4, <3>5, <3>6, StillFits
    <3>8. QED  BY <3>7 DEF c
  <2>7. Apart \subseteq Apart'  BY <1>1, StillApart
  <2>8. /\ CallsFit' /\ RoomIsLeft'
        /\ calls' \in Seq(Channel!Calls) /\ Len(calls') <= Overlap
        /\ \A k \in Held : k \in Held' \/ (calls[i].at = "flagged" /\ k = calls[i].msg)
    <3>1. Len(messages') \in Nat /\ Len(messages') <= Len(messages)  BY <1>1, MessageFacts
    <3>2. QED  BY <1>1, <1>2, <2>6, <2>7, <3>1, WhenEnded
  <2>9. Channel!TypeOK'
    <3>1. reactions' \subseteq Channel!Pairs /\ odd' \subseteq Channel!Pairs
      BY <2>1, <2>3 DEF ChannelInv, Channel!TypeOK
    <3>2. QED  BY <1>1, <2>8, <3>1 DEF ChannelInv, Channel!TypeOK
  <2>10. SeenFromTheTop' /\ MarksAreHonest'
    <3>1. \A u \in Channel!People : seats'[u].lastRead = seats[u].lastRead  BY <1>1
    <3>2. QED  BY <1>1, <3>1, ReadingStays
  <2>11. PinsFit'
    <3>1. Held \subseteq Held'  BY <1>1, <2>8
    <3>2. QED  BY <1>1, <2>5, <3>1 DEF ChannelInv, PinsFit
  <2>12. Channel!GoneForAReason' /\ DeadIsEmpty'
    BY <1>1 DEF ChannelInv, Channel!GoneForAReason, DeadIsEmpty
  <2>13. QED  BY <2>4, <2>8, <2>9, <2>10, <2>11, <2>12 DEF ChannelInv
<1>5. QED  BY <1>3, <1>4

-----------------------------------------------------------------------------
(***************************************************************************)
(* Reading.                                                                *)
(***************************************************************************)
\* What is shown is there, and a list from the top or replies to what was shown.
LEMMA ShownStep ==
    ASSUME ChannelInv, NEW u \in Channel!People, NEW shown, Channel!Shown(u, shown),
           \A n \in shown :
               /\ n \in Seeable
               /\ messages[n].parent # 0 => messages[n].parent \in seen[u]
               /\ messages[n].parent = 0 => \A m \in Channel!Listed : m < n => m \in seen[u] \cup shown \cup late
    PROVE  ChannelInv'
<1>1. /\ seen' = [seen EXCEPT ![u] = @ \cup shown]
      /\ UNCHANGED <<channel, messages, reactions, seats, calls, late, odd, doubled, deleting, made>>
  BY DEF Channel!Shown, Channel!tapVars
<1>2. seen \in [Channel!People -> SUBSET Channel!Ids]  BY DEF ChannelInv, Channel!TypeOK
<1>3. /\ seen'[u] = seen[u] \cup shown
      /\ \A v \in Channel!People : v # u => seen'[v] = seen[v]
      /\ \A v \in Channel!People : seen[v] \subseteq seen'[v]
  BY <1>1, <1>2
<1>4. shown \subseteq Channel!Ids  BY MessageFacts DEF Seeable
<1>5. seen' \in [Channel!People -> SUBSET Channel!Ids]  BY <1>1, <1>2, <1>4
<1>6. Fitting \subseteq Fitting' /\ Apart \subseteq Apart'  BY <1>1, <1>3, NothingMoved
<1>7. /\ CallsFit' /\ RoomIsLeft' /\ Held' = Held
      /\ calls' \in Seq(Channel!Calls) /\ Len(calls') <= Overlap
  <2>1. \A j \in 1..Len(calls) : calls[j] \in Fitting'  BY <1>6, CallFacts
  <2>2. QED  BY <1>1, <1>6, <2>1, WhenQuiet
<1>8. Channel!TypeOK'  BY <1>1, <1>5 DEF ChannelInv, Channel!TypeOK
<1>9. Seeable' = Seeable /\ Channel!Listed' = Channel!Listed /\ Pinned' = Pinned
  BY <1>1 DEF Seeable, Channel!Listed, Channel!Visible, Channel!Root, Pinned
<1>10. SeenFromTheTop'
  <2>1. ASSUME NEW v \in Channel!People, NEW n \in seen'[v]
        PROVE  /\ n \in Seeable
               /\ messages[n].parent # 0 => messages[n].parent \in seen'[v]
               /\ messages[n].parent = 0 => \A m \in Channel!Listed : m < n => m \in seen'[v] \cup late
    <3>1. CASE n \in seen[v]  BY <1>3, <3>1 DEF ChannelInv, SeenFromTheTop
    <3>2. CASE n \notin seen[v]
      <4>1. v = u /\ n \in shown  BY <1>3, <3>2
      <4>2. QED  BY <1>3, <4>1
    <3>3. QED  BY <3>1, <3>2
  <2>2. QED  BY <1>1, <1>9, <2>1 DEF SeenFromTheTop
<1>11. MarksAreHonest'
  BY <1>1, <1>3, <1>9 DEF ChannelInv, MarksAreHonest
<1>12. PinsFit'  BY <1>1, <1>7, <1>9 DEF ChannelInv, PinsFit
<1>13. Channel!ReactionsFollowTaps' /\ Channel!GoneForAReason' /\ DeadIsEmpty'
  BY <1>1 DEF ChannelInv, Channel!ReactionsFollowTaps, Channel!GoneForAReason, DeadIsEmpty
<1>14. QED  BY <1>7, <1>8, <1>10, <1>11, <1>12, <1>13 DEF ChannelInv

LEMMA LookStep ==
    ASSUME ChannelInv, NEW u \in Channel!People, Channel!Look(u)
    PROVE  ChannelInv'
<1>1. Channel!Shown(u, Channel!Listed)  BY DEF Channel!Look
<1>2. ASSUME NEW n \in Channel!Listed PROVE n \in Seeable /\ messages[n].parent = 0
  BY <1>2 DEF Channel!Listed, Channel!Visible, Channel!Root, Seeable
<1>3. \A n \in Channel!Listed :
        /\ n \in Seeable
        /\ messages[n].parent # 0 => messages[n].parent \in seen[u]
        /\ messages[n].parent = 0 =>
              \A m \in Channel!Listed : m < n => m \in seen[u] \cup Channel!Listed \cup late
  BY <1>2
<1>4. QED  BY <1>1, <1>3, ShownStep

LEMMA OpenStep ==
    ASSUME ChannelInv, NEW u \in Channel!People, NEW m \in DOMAIN messages, Channel!Open(u, m)
    PROVE  ChannelInv'
<1> DEFINE parent == IF messages[m].parent = 0 THEN m ELSE messages[m].parent
           shown == Channel!Thread(m)
<1>1. m \in seen[u] /\ Channel!Shown(u, shown)  BY DEF Channel!Open
<1>2. \A n \in seen[u] :
        /\ n \in Seeable
        /\ messages[n].parent # 0 => messages[n].parent \in seen[u]
        /\ messages[n].parent = 0 => \A k \in Channel!Listed : k < n => k \in seen[u] \cup late
  BY DEF ChannelInv, SeenFromTheTop
<1>3. parent \in seen[u]  BY <1>1, <1>2
<1>4. parent # 0
  <2>1. parent \in DOMAIN messages  BY <1>2, <1>3 DEF Seeable
  <2> HIDE DEF parent
  <2>2. QED  BY <2>1, MessageFacts
<1>5. shown = {parent} \cup {n \in DOMAIN messages : Channel!Visible(n) /\ messages[n].parent = parent}
  BY DEF Channel!Thread, Channel!Root
<1> HIDE DEF parent, shown
<1>6. ASSUME NEW n \in shown
      PROVE  /\ n \in Seeable
             /\ messages[n].parent # 0 => messages[n].parent \in seen[u]
             /\ messages[n].parent = 0 =>
                   \A k \in Channel!Listed : k < n => k \in seen[u] \cup shown \cup late
  <2>1. CASE n = parent  BY <1>2, <1>3, <2>1
  <2>2. CASE n # parent
    <3>1. n \in Seeable /\ messages[n].parent = parent  BY <1>5, <2>2 DEF Channel!Visible,
                                                           Seeable
    <3>2. QED  BY <1>3, <1>4, <3>1
  <2>3. QED  BY <2>1, <2>2
<1>7. QED  BY <1>1, <1>6, ShownStep

\* The seat of somebody whose row is made when it is missing.
LEMMA EnsuredFacts ==
    ASSUME ChannelInv, NEW u \in Channel!People
    PROVE  /\ Channel!Ensured(u) \in Channel!Seats
           /\ Channel!Ensured(u).lastRead = seats[u].lastRead \/ Channel!Ensured(u).lastRead = 0
           /\ seats \in [Channel!People -> Channel!Seats]
<1>1. seats \in [Channel!People -> Channel!Seats]  BY DEF ChannelInv, Channel!TypeOK
<1>2. Channel!NewSeat("manage") \in Channel!Seats /\ Channel!NewSeat("manage").lastRead = 0
  BY BoundsOfTheChannel DEF Channel!NewSeat, Channel!Seats, Channel!Preferences,
     Channel!Permissions
<1>3. QED  BY <1>1, <1>2 DEF Channel!Ensured

LEMMA MarkStep ==
    ASSUME ChannelInv, NEW u \in Channel!People, NEW m \in {0} \cup seen[u], Channel!Mark(u, m)
    PROVE  ChannelInv'
<1> DEFINE x == Channel!Call("mark", u, m, FALSE, "checked")
<1>1. /\ Channel!Starts(x) /\ (m # 0 => m \in seen[u] \cap Channel!Listed)
      /\ seats' = [seats EXCEPT ![u] = Channel!Ensured(u)]
      /\ UNCHANGED <<channel, messages, reactions, seen, late, odd, doubled, deleting>>
  BY DEF Channel!Mark, Channel!readVars, Channel!tapVars
<1>2. /\ x \in Channel!Calls /\ x.op = "mark" /\ x.at = "checked" /\ x.who = u /\ x.msg = m
  <2>1. m \in 0..MaxMessages  BY ReadFacts, MessageFacts DEF Channel!Ids
  <2>2. QED  BY <2>1 DEF Channel!Call, Channel!Calls
<1> HIDE DEF x
<1>3. Channel!Listed' = Channel!Listed
  BY <1>1 DEF Channel!Listed, Channel!Visible, Channel!Root
<1>4. x \in Fitting'  BY <1>1, <1>2, <1>3 DEF Fitting, Deletions
<1>5. \A j \in 1..Len(calls) : <<calls[j], x>> \in Apart' /\ <<x, calls[j]>> \in Apart'
  BY <1>2, CallFacts DEF Apart
<1>6. /\ seats' \in [Channel!People -> Channel!Seats]
      /\ \A v \in Channel!People : seats'[v].lastRead = seats[v].lastRead \/ seats'[v].lastRead = 0
  BY <1>1, EnsuredFacts
<1>7. doubled' \subseteq Channel!Pairs /\ deleting' \in BOOLEAN  BY <1>1 DEF ChannelInv,
                                                                    Channel!TypeOK
<1>8. QED  BY <1>1, <1>2, <1>4, <1>5, <1>6, <1>7, QuietStart

LEMMA MarkLandsStep ==
    ASSUME ChannelInv, NEW i, Channel!MarkLands(i)
    PROVE  ChannelInv'
<1> DEFINE u == calls[i].who
           m == calls[i].msg
           active == channel.alive /\ seats[u].status = "active"
           hidden == {n \in DOMAIN messages : ~messages[n].visible}
<1>1. /\ i \in DOMAIN calls /\ calls[i].op = "mark" /\ calls[i].at = "checked"
      /\ calls' = Channel!RemoveAt(calls, i)
      /\ UNCHANGED <<channel, messages, reactions, odd, doubled, deleting, made>>
      /\ seats' = IF active THEN [seats EXCEPT ![u].lastRead = Channel!ReadUpTo(m)] ELSE seats
      /\ seen' = IF active /\ m = 0 THEN [seen EXCEPT ![u] = @ \cup Channel!Listed] ELSE seen
      /\ late' = IF active /\ m = 0 THEN late \cup hidden ELSE late
  BY DEF Channel!MarkLands, Channel!At, Channel!Ends, Channel!tapVars
<1>2. i \in 1..Len(calls) /\ calls[i] \in Fitting  BY <1>1, CallFacts
<1>3. CASE ~active
  <2>1. seats' = seats /\ seen' = seen /\ late' = late  BY <1>1, <1>3
  <2>2. QED  BY <1>1, <1>2, <2>1, QuietEnd
<1>4. CASE active
  <2>1. u \in Channel!People /\ (m # 0 => m \in seen[u] \cap Channel!Listed)
    BY <1>1, <1>2, <1>4 DEF Fitting
  <2>2. /\ seats \in [Channel!People -> Channel!Seats]
        /\ seen \in [Channel!People -> SUBSET Channel!Ids] /\ late \subseteq Channel!Ids
    BY DEF ChannelInv, Channel!TypeOK
  <2>3. /\ DOMAIN messages = 1..Len(messages) /\ Len(messages) \in Nat /\ Len(messages) <= MaxMessages
        /\ MaxMessages \in Nat /\ 1..Len(messages) \subseteq Channel!Ids
    BY MessageFacts
  <2>4. /\ Channel!Listed = {n \in Seeable : messages[n].parent = 0}
        /\ Seeable \subseteq 1..Len(messages)
        /\ hidden = 1..Len(messages) \ Seeable
        /\ Seeable' = Seeable /\ Channel!Listed' = Channel!Listed /\ Pinned' = Pinned
    BY <1>1, <2>3 DEF Channel!Listed, Channel!Visible, Channel!Root, Seeable, Pinned
  <2>5. Channel!ReadUpTo(m) = IF m # 0 THEN m ELSE Len(messages)
    BY <2>1 DEF Channel!ReadUpTo, Channel!Listed
  <2>6. Channel!ReadUpTo(m) \in 0..Len(messages) /\ Channel!ReadUpTo(m) \in 0..MaxMessages
    <3>1. CASE m # 0
      <4>1. m \in 1..Len(messages) /\ Channel!ReadUpTo(m) = m  BY <2>1, <2>4, <2>5, <3>1
      <4> HIDE DEF m
      <4>2. QED  BY <2>3, <4>1
    <3>2. CASE m = 0  BY <2>3, <2>5, <3>2
    <3>3. QED  BY <3>1, <3>2
  <2> DEFINE last == Channel!ReadUpTo(m)
  <2>7. /\ seats' \in [Channel!People -> Channel!Seats] /\ seats'[u].lastRead = last
        /\ \A v \in Channel!People : v # u => seats'[v] = seats[v]
    <3>1. seats' = [seats EXCEPT ![u].lastRead = last]  BY <1>1, <1>4
    <3> HIDE DEF last
    <3>2. last \in 0..MaxMessages  BY <2>6 DEF last
    <3>3. [seats[u] EXCEPT !.lastRead = last] \in Channel!Seats /\ seats[u] \in Channel!Seats
      BY <2>1, <2>2, <3>2 DEF Channel!Seats
    <3>4. QED  BY <2>1, <2>2, <3>1, <3>3 DEF Channel!Seats
  <2>8. /\ seen' \in [Channel!People -> SUBSET Channel!Ids]
        /\ \A v \in Channel!People : seen[v] \subseteq seen'[v]
        /\ \A v \in Channel!People : \A n \in seen'[v] : n \notin seen[v] => n \in Channel!Listed /\ v = u /\ m = 0
        /\ m = 0 => Channel!Listed \subseteq seen'[u]
        /\ late \subseteq late' /\ (m = 0 => hidden \subseteq late')
        /\ late' \subseteq Channel!Ids
    BY <1>1, <1>4, <2>1, <2>2, <2>3, <2>4
  <2> HIDE DEF last, active, hidden, u, m
  <2>9. Fitting \subseteq Fitting' /\ Apart \subseteq Apart'  BY <1>1, <2>8, NothingMoved
  <2>10. /\ CallsFit' /\ RoomIsLeft'
         /\ calls' \in Seq(Channel!Calls) /\ Len(calls') <= Overlap
         /\ \A k \in Held : k \in Held' \/ (calls[i].at = "flagged" /\ k = calls[i].msg)
    <3>1. \A j \in 1..Len(calls) : calls[j] \in Fitting'  BY <2>9, CallFacts
    <3>2. Len(messages') \in Nat /\ Len(messages') <= Len(messages)  BY <1>1, <2>3
    <3>3. QED  BY <1>1, <1>2, <2>9, <3>1, <3>2, WhenEnded
  <2>11. Channel!TypeOK'  BY <1>1, <2>7, <2>8, <2>10 DEF ChannelInv, Channel!TypeOK
  <2>12. SeenFromTheTop'
    <3>1. ASSUME NEW v \in Channel!People, NEW n \in seen'[v]
          PROVE  /\ n \in Seeable
                 /\ messages[n].parent # 0 => messages[n].parent \in seen'[v]
                 /\ messages[n].parent = 0 => \A k \in Channel!Listed : k < n => k \in seen'[v] \cup late'
      <4>1. CASE n \in seen[v]
        <5>1. /\ n \in Seeable
              /\ messages[n].parent # 0 => messages[n].parent \in seen[v]
              /\ messages[n].parent = 0 => \A k \in Channel!Listed : k < n => k \in seen[v] \cup late
          BY <4>1 DEF ChannelInv, SeenFromTheTop
        <5>2. QED  BY <2>8, <5>1
      <4>2. CASE n \notin seen[v]
        <5>1. n \in Channel!Listed /\ v = u /\ m = 0  BY <2>8, <4>2
        <5>2. QED  BY <2>4, <2>8, <5>1
      <4>3. QED  BY <4>1, <4>2
    <3>2. QED  BY <1>1, <2>4, <3>1 DEF SeenFromTheTop
  <2>13. MarksAreHonest'
    <3>1. ASSUME NEW v \in Channel!People
          PROVE  /\ seats'[v].lastRead <= Len(messages)
                 /\ \A k \in 1..Len(messages) : k <= seats'[v].lastRead /\ messages[k].parent = 0 =>
                       \/ k \in late'
                       \/ k \in Seeable /\ k \in seen'[v]
                       \/ k \notin Seeable /\ \E n \in Seeable : k < n
      <4>1. CASE v # u
        <5>1. /\ seats[v].lastRead <= Len(messages)
              /\ \A k \in 1..Len(messages) : k <= seats[v].lastRead /\ messages[k].parent = 0 =>
                    \/ k \in late
                    \/ k \in Seeable /\ k \in seen[v]
                    \/ k \notin Seeable /\ \E n \in Seeable : k < n
          BY <2>3 DEF ChannelInv, MarksAreHonest
        <5>2. QED  BY <2>7, <2>8, <4>1, <5>1
      <4>2. CASE v = u /\ m = 0
        <5>1. seats'[v].lastRead <= Len(messages)  BY <2>3, <2>6, <2>7, <4>2 DEF last
        <5>2. \A k \in 1..Len(messages) : messages[k].parent = 0 =>
                 k \in late' \/ (k \in Seeable /\ k \in seen'[v])
          BY <2>4, <2>8, <4>2 DEF hidden
        <5>3. QED  BY <5>1, <5>2
      <4>3. CASE v = u /\ m # 0
        <5>1. seats'[v].lastRead = m /\ m \in seen[v] /\ m \in Seeable /\ messages[m].parent = 0
          BY <2>1, <2>4, <2>5, <2>7, <4>3 DEF last
        <5>2. \A k \in Channel!Listed : k < m => k \in seen[v] \cup late
          BY <5>1 DEF ChannelInv, SeenFromTheTop
        <5>3. m \in 1..Len(messages)  BY <2>4, <5>1
        <5>4. ASSUME NEW k \in 1..Len(messages), k <= m, messages[k].parent = 0
              PROVE  \/ k \in late'
                     \/ k \in Seeable /\ k \in seen'[v]
                     \/ k \notin Seeable /\ \E n \in Seeable : k < n
          <6>1. CASE k = m  BY <2>8, <5>1, <6>1
          <6>2. CASE k # m
            <7>1. k < m  BY <2>3, <5>3, <5>4, <6>2
            <7>2. CASE k \in Seeable
              <8>1. k \in Channel!Listed  BY <2>4, <5>4, <7>2
              <8>2. QED  BY <2>8, <5>2, <7>1, <7>2, <8>1
            <7>3. CASE k \notin Seeable  BY <5>1, <7>1, <7>3
            <7>4. QED  BY <7>2, <7>3
          <6>3. QED  BY <6>1, <6>2
        <5>5. seats'[v].lastRead <= Len(messages)  BY <2>3, <5>1, <5>3
        <5>6. QED  BY <5>1, <5>4, <5>5
      <4>4. QED  BY <4>1, <4>2, <4>3
    <3>2. QED  BY <1>1, <2>3, <2>4, <3>1 DEF MarksAreHonest
  <2>14. PinsFit'
    <3>1. Held \subseteq Held'  BY <1>1, <2>10
    <3>2. QED  BY <1>1, <2>4, <3>1 DEF ChannelInv, PinsFit
  <2>15. Channel!ReactionsFollowTaps' /\ Channel!GoneForAReason' /\ DeadIsEmpty'
    BY <1>1 DEF ChannelInv, Channel!ReactionsFollowTaps, Channel!GoneForAReason, DeadIsEmpty
  <2>16. QED  BY <2>10, <2>11, <2>12, <2>13, <2>14, <2>15 DEF ChannelInv
<1>5. QED  BY <1>3, <1>4

LEMMA PreferStep ==
    ASSUME ChannelInv, NEW u \in Channel!People, NEW pref \in Channel!Preferences, Channel!Prefer(u, pref)
    PROVE  ChannelInv'
<1>1. /\ seats' = [seats EXCEPT ![u] = [Channel!Ensured(u) EXCEPT !.pref = pref]]
      /\ Channel!Statement
      /\ UNCHANGED <<channel, messages, reactions, seen, late, odd, doubled, deleting>>
  BY DEF Channel!Prefer, Channel!readVars, Channel!tapVars
<1> DEFINE s == Channel!Ensured(u)
           t == [s EXCEPT !.pref = pref]
<1>2. /\ s \in Channel!Seats /\ (s.lastRead = seats[u].lastRead \/ s.lastRead = 0)
      /\ seats \in [Channel!People -> Channel!Seats]
  BY EnsuredFacts
<1>3. seats' = [seats EXCEPT ![u] = t]  BY <1>1
<1> HIDE DEF s
<1>4. t \in Channel!Seats /\ t.lastRead = s.lastRead  BY <1>2 DEF Channel!Seats
<1> HIDE DEF t
<1>5. /\ seats' \in [Channel!People -> Channel!Seats]
      /\ \A v \in Channel!People : seats'[v].lastRead = seats[v].lastRead \/ seats'[v].lastRead = 0
  BY <1>2, <1>3, <1>4
<1>6. calls' = calls /\ made' \in 0..MaxCalls  BY <1>1, StatementFacts
<1>7. QED  BY <1>1, <1>5, <1>6, OnlySeats
-----------------------------------------------------------------------------
(***************************************************************************)
(* The colleague's seat.                                                   *)
(***************************************************************************)
LEMMA NewSeatFacts ==
    ASSUME NEW permission \in Channel!Permissions \cup {"manage"}
    PROVE  /\ Channel!NewSeat(permission) \in Channel!Seats
           /\ Channel!NewSeat(permission).lastRead = 0
           /\ Channel!NoSeat(permission) \in Channel!Seats
           /\ Channel!NoSeat(permission).lastRead = 0
           /\ [Channel!NoSeat(permission) EXCEPT !.status = "removed"] \in Channel!Seats
           /\ [Channel!NoSeat(permission) EXCEPT !.status = "removed"].lastRead = 0
<1>1. 0 \in 0..MaxMessages  BY BoundsOfTheChannel
<1>2. /\ Channel!NewSeat(permission) \in Channel!Seats
      /\ Channel!NewSeat(permission).lastRead = 0
  BY <1>1 DEF Channel!NewSeat, Channel!Seats, Channel!Preferences
<1>3. /\ Channel!NoSeat(permission) \in Channel!Seats
      /\ Channel!NoSeat(permission).lastRead = 0
  BY <1>1 DEF Channel!NoSeat, Channel!NewSeat, Channel!Seats, Channel!Preferences
<1>4. /\ [Channel!NoSeat(permission) EXCEPT !.status = "removed"] \in Channel!Seats
      /\ [Channel!NoSeat(permission) EXCEPT !.status = "removed"].lastRead = 0
  BY <1>1 DEF Channel!NoSeat, Channel!NewSeat, Channel!Seats, Channel!Preferences
<1>5. QED  BY <1>2, <1>3, <1>4

\* A seat that is written keeps its mark or starts anew.
LEMMA SeatWritten ==
    ASSUME ChannelInv, NEW s \in Channel!Seats,
           s.lastRead = seats[Colleague].lastRead \/ s.lastRead = 0,
           seats' = [seats EXCEPT ![Colleague] = s], Channel!Statement,
           UNCHANGED <<channel, messages, reactions, seen, late, odd, doubled, deleting>>
    PROVE  ChannelInv'
<1>1. seats \in [Channel!People -> Channel!Seats]  BY DEF ChannelInv, Channel!TypeOK
<1>2. /\ seats' \in [Channel!People -> Channel!Seats]
      /\ \A v \in Channel!People : seats'[v].lastRead = seats[v].lastRead \/ seats'[v].lastRead = 0
  BY <1>1
<1>3. QED  BY <1>2, StatementFacts, OnlySeats

LEMMA SeatStep ==
    ASSUME ChannelInv, NEW permission \in Channel!Permissions,
           Channel!Add(permission) \/ Channel!Permit(permission) \/ Channel!Unseat
    PROVE  ChannelInv'
<1> DEFINE old == seats[Colleague]
           new == [old EXCEPT !.permission = permission]
<1>1. /\ Channel!Statement
      /\ UNCHANGED <<channel, messages, reactions, seen, late, odd, doubled, deleting>>
  BY DEF Channel!Add, Channel!Permit, Channel!Unseat, Channel!readVars, Channel!tapVars
<1>2. seats \in [Channel!People -> Channel!Seats] /\ Colleague \in Channel!People
      /\ old \in Channel!Seats
  BY DEF ChannelInv, Channel!TypeOK, Channel!People
<1>3. new \in Channel!Seats /\ new.lastRead = old.lastRead  BY <1>2 DEF Channel!Seats
<1>4. CASE Channel!Add(permission)
  <2> DEFINE s == IF old.status = "active" THEN new ELSE Channel!NewSeat(permission)
  <2>1. seats' = [seats EXCEPT ![Colleague] = s]  BY <1>4 DEF Channel!Add
  <2>2. s \in Channel!Seats /\ (s.lastRead = old.lastRead \/ s.lastRead = 0)
    BY <1>3, NewSeatFacts
  <2> HIDE DEF s
  <2>3. QED  BY <1>1, <2>1, <2>2, SeatWritten
<1>5. CASE Channel!Permit(permission)
  <2>1. seats' = [seats EXCEPT ![Colleague] = new]  BY <1>5 DEF Channel!Permit
  <2> HIDE DEF new
  <2>2. QED  BY <1>1, <1>3, <2>1, SeatWritten
<1>6. CASE Channel!Unseat
  <2> DEFINE s == [Channel!NoSeat("read") EXCEPT !.status = "removed"]
  <2>1. seats' = [seats EXCEPT ![Colleague] = s]  BY <1>6 DEF Channel!Unseat
  <2>2. s \in Channel!Seats /\ s.lastRead = 0  BY NewSeatFacts DEF Channel!Permissions
  <2> HIDE DEF s
  <2>3. QED  BY <1>1, <2>1, <2>2, SeatWritten
<1>7. QED  BY <1>4, <1>5, <1>6

-----------------------------------------------------------------------------
(***************************************************************************)
(* The channel in the list.                                                *)
(***************************************************************************)
\* The archive is written while nobody holds the channel, or grows old.
LEMMA OnlyArchive ==
    ASSUME ChannelInv, NEW a \in {"no", "fresh", "old"},
           channel' = [channel EXCEPT !.archived = a], channel.alive,
           ~Channel!Locked \/ (channel.archived # "old" /\ a = "old"),
           UNCHANGED <<messages, reactions, seats, seen, late, odd, doubled, deleting>>,
           \/ calls' = calls /\ made' \in 0..MaxCalls
           \/ /\ made' = made
              /\ \E i \in 1..Len(calls) : calls[i].at # "flagged" /\ calls' = Channel!RemoveAt(calls, i)
    PROVE  ChannelInv'
<1>1. /\ channel \in [alive : BOOLEAN, archived : {"no", "fresh", "old"}, pins : Seq(Channel!Ids)]
      /\ made \in 0..MaxCalls
  BY DEF ChannelInv, Channel!TypeOK
<1>2. /\ channel' \in [alive : BOOLEAN, archived : {"no", "fresh", "old"}, pins : Seq(Channel!Ids)]
      /\ channel'.pins = channel.pins /\ channel'.archived = a
  BY <1>1
<1>3. channel'.alive = channel.alive  BY <1>1, Zenon
<1>4. Seeable' = Seeable /\ Pinned' = Pinned /\ Channel!Listed' = Channel!Listed
  BY <1>2 DEF Seeable, Pinned, Channel!Listed, Channel!Visible, Channel!Root
<1>5. \A j \in 1..Len(calls) : calls[j] \in Fitting'
  <2>1. ASSUME NEW j \in 1..Len(calls) PROVE calls[j] \in Fitting'
    <3> DEFINE c == calls[j]
    <3>1. c \in Fitting /\ (c.at = "locked" => Channel!Locked)  BY CallFacts DEF Channel!Locked
    <3> HIDE DEF c
    <3>2. c.at = "locked" /\ c.op # "delete" /\ channel.archived = "old" => channel'.archived = "old"
      BY <1>2, <3>1
    <3>3. c.at = "writing" => c.msg \in DOMAIN messages'  BY <3>1 DEF Fitting
    <3>4. c.at = "flagged" => c.msg \in Seeable'  BY <1>4, <3>1 DEF Fitting
    <3>5. c \in Fitting'  BY <1>3, <1>4, <3>1, <3>2, <3>3, <3>4, StillFits
    <3>6. QED  BY <3>5 DEF c
  <2>2. QED  BY <2>1
<1>6. Apart \subseteq Apart'  BY <1>3, StillApart
<1>7. /\ CallsFit' /\ RoomIsLeft' /\ Held \subseteq Held'
      /\ calls' \in Seq(Channel!Calls) /\ Len(calls') <= Overlap /\ made' \in 0..MaxCalls
  <2>1. CASE calls' = calls /\ made' \in 0..MaxCalls
    BY <1>5, <1>6, <2>1, WhenQuiet
  <2>2. CASE /\ made' = made
             /\ \E i \in 1..Len(calls) : calls[i].at # "flagged" /\ calls' = Channel!RemoveAt(calls, i)
    <3>1. PICK i \in 1..Len(calls) : calls[i].at # "flagged" /\ calls' = Channel!RemoveAt(calls, i)
      BY <2>2
    <3>2. Len(messages') \in Nat /\ Len(messages') <= Len(messages)  BY MessageFacts
    <3>3. /\ CallsFit' /\ RoomIsLeft'
          /\ calls' \in Seq(Channel!Calls) /\ Len(calls') <= Overlap
          /\ \A k \in Held : k \in Held' \/ (calls[i].at = "flagged" /\ k = calls[i].msg)
      BY <1>5, <1>6, <3>1, <3>2, WhenEnded
    <3>4. QED  BY <1>1, <2>2, <3>1, <3>3
  <2>3. QED  BY <2>1, <2>2
<1>8. Channel!TypeOK'  BY <1>2, <1>7 DEF ChannelInv, Channel!TypeOK
<1>9. SeenFromTheTop' /\ MarksAreHonest'  BY ReadingStays
<1>10. PinsFit'  BY <1>2, <1>4, <1>7 DEF ChannelInv, PinsFit
<1>11. Channel!ReactionsFollowTaps' /\ Channel!GoneForAReason' /\ DeadIsEmpty'
  BY <1>3 DEF ChannelInv, Channel!ReactionsFollowTaps, Channel!GoneForAReason, DeadIsEmpty
<1>12. QED  BY <1>7, <1>8, <1>9, <1>10, <1>11 DEF ChannelInv

LEMMA ArchiveStep ==
    ASSUME ChannelInv, Channel!Archive
    PROVE  ChannelInv'
<1>1. /\ channel.alive /\ ~Channel!Locked
      /\ channel' = [channel EXCEPT !.archived = "fresh"]
      /\ UNCHANGED <<messages, reactions, seats, seen, late, odd, doubled, deleting>>
      /\ Channel!Statement
  BY DEF Channel!Archive, Channel!readVars, Channel!tapVars
<1>2. QED  BY <1>1, StatementFacts, OnlyArchive

LEMMA AgesStep ==
    ASSUME ChannelInv, Channel!Ages
    PROVE  ChannelInv'
<1>1. /\ channel.alive /\ channel.archived # "old"
      /\ channel' = [channel EXCEPT !.archived = "old"]
      /\ UNCHANGED <<messages, reactions, seats, seen, late, odd, doubled, deleting>>
      /\ calls' = calls /\ made' = made
  BY DEF Channel!Ages, Channel!readVars, Channel!tapVars
<1>2. made \in 0..MaxCalls  BY DEF ChannelInv, Channel!TypeOK
<1>3. QED  BY <1>1, <1>2, OnlyArchive

LEMMA DiscardStep ==
    ASSUME ChannelInv, NEW op \in Deletions, Channel!Discard(op)
    PROVE  ChannelInv'
<1> DEFINE at == IF op = "delete" THEN "waiting" ELSE "asked"
           x == Channel!Call(op, Owner, 0, FALSE, at)
<1>1. /\ Channel!Starts(x)
      /\ deleting' = (deleting \/ op = "delete")
      /\ UNCHANGED <<channel, messages, reactions, seats, seen, late, odd, doubled>>
  BY DEF Channel!Discard, Channel!readVars, Channel!tapVars
<1>2. at \in {"asked", "waiting"}  OBVIOUS
<1> HIDE DEF at
<1>3. x \in Channel!Calls /\ x.op = op /\ x.at = at /\ x.op \in Deletions
  BY <1>2, BoundsOfTheChannel DEF Channel!Call, Channel!Calls, Channel!People, Deletions
<1> HIDE DEF x
<1>4. deleting' \in BOOLEAN /\ (deleting => deleting') /\ (op = "delete" => deleting')
  BY <1>1
<1>5. x \in Fitting'  BY <1>2, <1>3, <1>4 DEF Fitting, Deletions
<1>6. \A j \in 1..Len(calls) : <<calls[j], x>> \in Apart' /\ <<x, calls[j]>> \in Apart'
  BY <1>2, <1>3, CallFacts DEF Apart, Deletions
<1>7. doubled' \subseteq Channel!Pairs /\ doubled \subseteq doubled'
  BY <1>1 DEF ChannelInv, Channel!TypeOK
<1>8. x.op # "post"  BY <1>3 DEF Deletions
<1>9. QED  BY <1>1, <1>3, <1>4, <1>5, <1>6, <1>7, <1>8, SeatsStay, QuietStart

\* The deletion goes on to its next statement, or ends, and nothing else happens.
LEMMA DeletionGoes ==
    ASSUME ChannelInv, NEW i \in 1..Len(calls), calls[i].op \in Deletions,
           NEW at \in {"waiting", "locked", "update"},
           at = "locked" => ~Channel!Writing /\ (calls[i].op # "delete" => channel.archived = "old"),
           calls' = [calls EXCEPT ![i].at = at],
           UNCHANGED <<channel, messages, reactions, seats, seen, late, odd, doubled, deleting, made>>
    PROVE  ChannelInv'
<1> DEFINE x == [calls[i] EXCEPT !.at = at]
<1>1. calls[i] \in Channel!Calls /\ calls[i] \in Fitting  BY CallFacts
<1>2. calls' = [calls EXCEPT ![i] = x]  OBVIOUS
<1>3. /\ x \in Channel!Calls /\ x.op = calls[i].op /\ x.at = at
      /\ x.msg = calls[i].msg /\ x.who = calls[i].who
  BY <1>1 DEF Channel!Calls
<1> HIDE DEF x
<1>4. calls[i].op = "delete" => deleting  BY <1>1 DEF Fitting
<1>5. x \in Fitting  BY <1>3, <1>4 DEF Fitting, Deletions
<1>6. ASSUME NEW j \in 1..Len(calls), j # i PROVE <<calls[j], x>> \in Apart /\ <<x, calls[j]>> \in Apart
  <2>1. calls[j] \in Channel!Calls /\ (at = "locked" => calls[j].at # "writing")
    BY CallFacts DEF Channel!Writing
  <2>2. QED  BY <1>3, <2>1 DEF Apart, Deletions
<1>7. calls[i].at # "flagged" /\ x.op # "post"  BY <1>1, <1>3 DEF Fitting, Deletions
<1>8. QED  BY <1>2, <1>5, <1>6, <1>7, QuietGo

LEMMA DiscardedStep ==
    ASSUME ChannelInv, NEW i \in 1..Len(calls), calls[i].op \in Deletions, Channel!Discarded(i),
           UNCHANGED <<channel, messages, reactions, seats, seen, late, odd, doubled, deleting, made>>
    PROVE  ChannelInv'
<1>1. CASE calls[i].op = "restore"
  <2>1. calls' = [calls EXCEPT ![i].at = "update"]
    BY <1>1 DEF Channel!Discarded, Channel!Goes
  <2>2. QED  BY <2>1, DeletionGoes
<1>2. CASE calls[i].op # "restore"
  <2>1. calls' = Channel!RemoveAt(calls, i)  BY <1>2 DEF Channel!Discarded, Channel!Ends
  <2>2. calls[i].at # "flagged"  BY CallFacts DEF Fitting, Deletions
  <2>3. QED  BY <2>1, <2>2, QuietEnd
<1>3. QED  BY <1>1, <1>2

LEMMA DiscardFindsStep ==
    ASSUME ChannelInv, NEW i, Channel!DiscardFinds(i)
    PROVE  ChannelInv'
<1>1. /\ i \in DOMAIN calls /\ calls[i].op \in Deletions
      /\ UNCHANGED <<channel, messages, reactions, seats, seen, late, odd, doubled, deleting, made>>
      /\ calls' = [calls EXCEPT ![i].at = "waiting"] \/ Channel!Discarded(i)
  BY DEF Channel!DiscardFinds, Channel!At, Channel!Goes, Channel!readVars, Channel!tapVars,
     Deletions
<1>2. i \in 1..Len(calls)  BY <1>1, CallFacts
<1>3. CASE calls' = [calls EXCEPT ![i].at = "waiting"]  BY <1>1, <1>2, <1>3, DeletionGoes
<1>4. CASE Channel!Discarded(i)  BY <1>1, <1>2, <1>4, DiscardedStep
<1>5. QED  BY <1>1, <1>3, <1>4

LEMMA DiscardLocksStep ==
    ASSUME ChannelInv, NEW i, Channel!DiscardLocks(i)
    PROVE  ChannelInv'
<1>1. /\ i \in DOMAIN calls /\ calls[i].op \in Deletions /\ ~Channel!Writing
      /\ UNCHANGED <<channel, messages, reactions, seats, seen, late, odd, doubled, deleting, made>>
      /\ \/ /\ calls' = [calls EXCEPT ![i].at = "locked"]
            /\ calls[i].op # "delete" => channel.archived = "old"
         \/ Channel!Discarded(i)
  BY DEF Channel!DiscardLocks, Channel!Overdue, Channel!At, Channel!Goes, Channel!readVars,
         Channel!tapVars, Deletions
<1>2. i \in 1..Len(calls)  BY <1>1, CallFacts
<1>3. CASE /\ calls' = [calls EXCEPT ![i].at = "locked"]
           /\ calls[i].op # "delete" => channel.archived = "old"
  BY <1>1, <1>2, <1>3, DeletionGoes
<1>4. CASE Channel!Discarded(i)  BY <1>1, <1>2, <1>4, DiscardedStep
<1>5. QED  BY <1>1, <1>3, <1>4

\* The cascade waits until nobody writes and nobody holds a message, and leaves nothing.
LEMMA DiscardCascadesStep ==
    ASSUME ChannelInv, NEW i, Channel!DiscardCascades(i)
    PROVE  ChannelInv'
<1>1. /\ i \in DOMAIN calls /\ calls[i].op \in Deletions /\ calls[i].at = "locked"
      /\ \A m \in DOMAIN messages : ~Channel!Holds(m)
      /\ channel' = [channel EXCEPT !.alive = FALSE, !.pins = << >>]
      /\ messages' = << >> /\ reactions' = {}
      /\ seats' = [u \in Channel!People |-> Channel!NoSeat(IF u = Owner THEN "manage" ELSE "read")]
      /\ seen' = [u \in Channel!People |-> {}] /\ late' = {}
      /\ odd' = {} /\ doubled' = {}
      /\ Channel!Discarded(i)
      /\ UNCHANGED <<deleting, made>>
  BY DEF Channel!DiscardCascades, Channel!At, Deletions
<1>2. i \in 1..Len(calls) /\ calls[i] \in Channel!Calls /\ calls[i] \in Fitting  BY <1>1,
                                                                                    CallFacts
<1>3. channel \in [alive : BOOLEAN, archived : {"no", "fresh", "old"}, pins : Seq(Channel!Ids)]
  BY DEF ChannelInv, Channel!TypeOK
<1>4. /\ channel' \in [alive : BOOLEAN, archived : {"no", "fresh", "old"}, pins : Seq(Channel!Ids)]
      /\ channel'.pins = << >> /\ channel'.archived = channel.archived /\ ~channel'.alive
  <2>1. channel' = [alive |-> FALSE, archived |-> channel.archived, pins |-> << >>]
    BY <1>1, <1>3
  <2>2. << >> \in Seq(Channel!Ids)  OBVIOUS
  <2>3. channel.archived \in {"no", "fresh", "old"}  BY <1>3
  <2>4. channel' \in [alive : BOOLEAN, archived : {"no", "fresh", "old"}, pins : Seq(Channel!Ids)]
    BY <2>1, <2>2, <2>3, Zenon
  <2>5. channel'.pins = << >> /\ channel'.archived = channel.archived /\ ~channel'.alive  BY <2>1
  <2>6. QED  BY <2>4, <2>5
<1>5. ~channel'.alive  BY <1>4
<1>6. ASSUME NEW j \in 1..Len(calls) PROVE calls[j] \in Fitting'
  <2> DEFINE c == calls[j]
  <2>1. c \in Fitting /\ (j # i => <<c, calls[i]>> \in Apart)  BY <1>2, CallFacts
  <2>2. c.at # "writing"  BY <1>1, <2>1 DEF Apart
  <2>3. c.at # "flagged"
    <3>1. c.at = "flagged" => c.msg \in DOMAIN messages  BY <2>1 DEF Fitting, Seeable
    <3>2. QED  BY <1>1, <3>1, CallFacts DEF Channel!Holds
  <2> HIDE DEF c
  <2>4. c \in Fitting'  BY <1>1, <1>4, <1>5, <2>1, <2>2, <2>3, StillFits
  <2>5. QED  BY <2>4 DEF c
<1>7. Apart \subseteq Apart'  BY <1>5, StillApart
<1>8. Len(messages') = 0 /\ DOMAIN messages' = {} /\ 0 <= Len(messages)
      /\ messages' \in Seq(Channel!Messages)
  BY <1>1, MessageFacts
<1>9. /\ CallsFit' /\ RoomIsLeft'
      /\ calls' \in Seq(Channel!Calls) /\ Len(calls') <= Overlap
  <2>1. CASE calls[i].op # "restore"
    <3>1. calls' = Channel!RemoveAt(calls, i)  BY <1>1, <2>1 DEF Channel!Discarded, Channel!Ends
    <3>2. QED  BY <1>2, <1>6, <1>7, <1>8, <3>1, WhenEnded
  <2>2. CASE calls[i].op = "restore"
    <3> DEFINE x == [calls[i] EXCEPT !.at = "update"]
    <3>1. calls' = [calls EXCEPT ![i] = x]  BY <1>1, <2>2 DEF Channel!Discarded, Channel!Goes
    <3>2. x \in Channel!Calls /\ x.op = "restore" /\ x.at = "update"  BY <1>2,
                                                                         <2>2 DEF Channel!Calls
    <3> HIDE DEF x
    <3>3. x \in Fitting'  BY <3>2 DEF Fitting, Deletions
    <3>4. \A j \in 1..Len(calls) : j # i => <<calls[j], x>> \in Apart' /\ <<x, calls[j]>> \in Apart'
      BY <3>2, CallFacts DEF Apart
    <3>5. ~(x.op = "post" /\ x.at = "checked") /\ Len(messages') \in Nat /\ Len(messages') <= Len(messages)
      BY <1>8, <3>2
    <3>6. QED  BY <1>2, <1>6, <1>7, <3>1, <3>2, <3>3, <3>4, <3>5, WhenGone
  <2>3. QED  BY <2>1, <2>2
<1>10. /\ seats' \in [Channel!People -> Channel!Seats]
       /\ \A u \in Channel!People : seats'[u].lastRead = 0
  <2>1. ASSUME NEW u \in Channel!People
        PROVE  /\ Channel!NoSeat(IF u = Owner THEN "manage" ELSE "read") \in Channel!Seats
               /\ Channel!NoSeat(IF u = Owner THEN "manage" ELSE "read").lastRead = 0
    BY NewSeatFacts DEF Channel!Permissions
  <2>2. QED  BY <1>1, <2>1
<1>11. Channel!TypeOK'
  <2>1. Len(messages') <= MaxMessages  BY <1>8, BoundsOfTheChannel
  <2>2. seen' \in [Channel!People -> SUBSET Channel!Ids] /\ late' \subseteq Channel!Ids
    BY <1>1
  <2>3. QED  BY <1>1, <1>4, <1>8, <1>9, <1>10, <2>1, <2>2 DEF ChannelInv, Channel!TypeOK
<1>12. SeenFromTheTop'  BY <1>1 DEF SeenFromTheTop
<1>13. MarksAreHonest'  BY <1>8, <1>10 DEF MarksAreHonest
<1>14. PinsFit'
  <2>1. DOMAIN channel'.pins = {}  BY <1>4
  <2>2. Pinned' = {}  BY <2>1 DEF Pinned
  <2>3. QED  BY <1>8, <2>1, <2>2 DEF PinsFit
<1>15. Channel!ReactionsFollowTaps' /\ DeadIsEmpty'
  BY <1>1 DEF Channel!ReactionsFollowTaps, DeadIsEmpty
<1>16. Channel!GoneForAReason'
  <2>1. deleting \/ channel.archived = "old"  BY <1>1, <1>2 DEF Fitting
  <2>2. QED  BY <1>1, <1>4, <2>1 DEF Channel!GoneForAReason
<1>17. QED  BY <1>9, <1>11, <1>12, <1>13, <1>14, <1>15, <1>16 DEF ChannelInv

LEMMA RestoreUpdatesStep ==
    ASSUME ChannelInv, NEW i, Channel!RestoreUpdates(i)
    PROVE  ChannelInv'
<1>1. /\ i \in DOMAIN calls /\ calls[i].at = "update" /\ ~Channel!Locked
      /\ channel' = IF channel.alive THEN [channel EXCEPT !.archived = "no"] ELSE channel
      /\ calls' = Channel!RemoveAt(calls, i)
      /\ UNCHANGED <<messages, reactions, seats, seen, late, odd, doubled, deleting, made>>
  BY DEF Channel!RestoreUpdates, Channel!At, Channel!Ends, Channel!readVars, Channel!tapVars
<1>2. i \in 1..Len(calls) /\ calls[i].at # "flagged"  BY <1>1, CallFacts
<1>3. CASE ~channel.alive  BY <1>1, <1>2, <1>3, QuietEnd
<1>4. CASE channel.alive  BY <1>1, <1>2, <1>4, OnlyArchive
<1>5. QED  BY <1>3, <1>4

LEMMA AbortStep ==
    ASSUME ChannelInv, NEW i, Channel!Abort(i)
    PROVE  ChannelInv'
<1> DEFINE m == calls[i].msg
           f == calls[i].mark
<1>1. /\ i \in DOMAIN calls /\ calls' = Channel!RemoveAt(calls, i)
      /\ UNCHANGED <<channel, reactions, seats, seen, late, odd, doubled, deleting, made>>
      /\ \/ calls[i].at = "flagged" /\ messages' = [messages EXCEPT ![m].pinned = f]
         \/ calls[i].at = "locked" /\ messages' = messages
  BY DEF Channel!Abort, Channel!Ends, Channel!readVars, Channel!tapVars
<1>2. i \in 1..Len(calls) /\ calls[i] \in Channel!Calls /\ calls[i] \in Fitting  BY <1>1,
                                                                                    CallFacts
<1>3. CASE calls[i].at = "locked" /\ messages' = messages
  BY <1>1, <1>2, <1>3, QuietEnd
<1>4. CASE calls[i].at = "flagged" /\ messages' = [messages EXCEPT ![m].pinned = f]
  <2>1. m \in Seeable /\ (f <=> m \in Pinned)  BY <1>2, <1>4 DEF Fitting
  <2>2. m \in 1..Len(messages)  BY <2>1, MessageFacts DEF Seeable
  <2>3. f \in BOOLEAN  BY <1>2 DEF Channel!Calls
  <2>4. ASSUME NEW j \in 1..Len(calls), j # i PROVE calls[j] \in Fitting'
    <3>1. calls[j] \in Fitting /\ <<calls[i], calls[j]>> \in Apart  BY <1>2, <2>4, CallFacts
    <3>2. ~(calls[j].at = "flagged" /\ calls[j].msg = m)  BY <1>4, <3>1 DEF Apart
    <3> HIDE DEF m, f
    <3>3. QED  BY <1>1, <1>4, <2>2, <2>3, <3>1, <3>2, FlagFits
  <2>5. Apart \subseteq Apart'  BY <1>1, StillApart
  <2>6. Len(messages') \in Nat /\ Len(messages') <= Len(messages)
    <3> HIDE DEF m, f
    <3>1. Len(messages') = Len(messages)  BY <1>1, <1>4, <2>2, <2>3, OneFlag
    <3>2. QED  BY <3>1, MessageFacts
  <2>7. /\ CallsFit' /\ RoomIsLeft'
        /\ calls' \in Seq(Channel!Calls) /\ Len(calls') <= Overlap
        /\ \A k \in Held : k \in Held' \/ (calls[i].at = "flagged" /\ k = m)
    BY <1>1, <1>2, <2>4, <2>5, <2>6, WhenEnded
  <2> HIDE DEF m, f
  <2>8. QED  BY <1>1, <1>4, <2>1, <2>2, <2>3, <2>7, FlagRest
<1>5. QED  BY <1>1, <1>3, <1>4

-----------------------------------------------------------------------------
(***************************************************************************)
(* The invariant holds.                                                    *)
(***************************************************************************)
LEMMA ChannelStarts == Channel!Init => ChannelInv
<1> SUFFICES ASSUME Channel!Init PROVE ChannelInv
  OBVIOUS
<1> DEFINE first == [Channel!Message(Owner, 0, {}) EXCEPT !.visible = TRUE]
<1>1. /\ channel = [alive |-> TRUE, archived |-> "no", pins |-> << >>]
      /\ messages \in {<< >>, <<first>>}
      /\ reactions = {} /\ calls = << >>
      /\ seen = [u \in Channel!People |-> IF u = Owner THEN DOMAIN messages ELSE {}] /\ late = {}
      /\ odd = {} /\ doubled = {}
      /\ deleting = FALSE /\ made = 0
  BY DEF Channel!Init
<1>2. first \in Channel!Messages /\ first.visible /\ first.parent = 0 /\ ~first.pinned
  <2>1. first = [author |-> Owner, parent |-> 0, mentions |-> {}, visible |-> TRUE, pinned |-> FALSE]
    <3> DEFINE blank == Channel!Message(Owner, 0, {})
    <3>1. blank = [author |-> Owner, parent |-> 0, mentions |-> {}, visible |-> FALSE, pinned |-> FALSE]
      BY DEF Channel!Message
    <3>2. first = [blank EXCEPT !.visible = TRUE]  OBVIOUS
    <3> HIDE DEF blank, first
    <3>3. QED  BY <3>1, <3>2, Zenon
  <2>2. /\ Owner \in Channel!People \cup {Agent} /\ 0 \in 0..MaxMessages
        /\ {} \in SUBSET Channel!People
    BY BoundsOfTheChannel DEF Channel!People
  <2> HIDE DEF first
  <2>3. first \in Channel!Messages  BY <2>1, <2>2, Zenon DEF Channel!Messages
  <2>4. first.visible /\ first.parent = 0 /\ ~first.pinned  BY <2>1
  <2>5. QED  BY <2>3, <2>4
<1> HIDE DEF first
<1>3. /\ messages \in Seq(Channel!Messages) /\ Len(messages) \in {0, 1}
      /\ DOMAIN messages = 1..Len(messages)
      /\ \A m \in 1..Len(messages) : m = 1 /\ messages[m] = first
  <2>1. CASE messages = << >>  BY <2>1
  <2>2. CASE messages = <<first>>  BY <1>2, <2>2
  <2>3. QED  BY <1>1, <2>1, <2>2
<1>4. /\ MaxMessages \in Nat \ {0} /\ MaxCalls \in Nat /\ Overlap \in Nat \ {0}
      /\ 1..Len(messages) \subseteq Channel!Ids /\ Len(messages) <= MaxMessages
  BY <1>3, BoundsOfTheChannel DEF Channel!Ids
<1>5. seats \in [Channel!People -> Channel!Seats] /\ \A u \in Channel!People : seats[u].lastRead = 0
  <2>1. PICK o \in {Channel!NewSeat("manage"), Channel!NoSeat("manage")}, permission \in Channel!Permissions :
          seats = [u \in Channel!People |-> IF u = Owner THEN o ELSE Channel!NewSeat(permission)]
    BY DEF Channel!Init
  <2>2. o \in Channel!Seats /\ o.lastRead = 0  BY NewSeatFacts
  <2>3. Channel!NewSeat(permission) \in Channel!Seats /\ Channel!NewSeat(permission).lastRead = 0
    BY NewSeatFacts
  <2>4. QED  BY <2>1, <2>2, <2>3
<1>6. Channel!TypeOK
  <2>1. channel \in [alive : BOOLEAN, archived : {"no", "fresh", "old"}, pins : Seq(Channel!Ids)]
    BY <1>1
  <2>2. calls \in Seq(Channel!Calls) /\ Len(calls) <= Overlap  BY <1>1, <1>4
  <2>3. seen \in [Channel!People -> SUBSET Channel!Ids]  BY <1>1, <1>3, <1>4
  <2>4. made \in 0..MaxCalls  BY <1>1, <1>4
  <2>5. QED  BY <1>1, <1>3, <1>4, <1>5, <2>1, <2>2, <2>3, <2>4 DEF Channel!TypeOK
<1>7. CallsFit  BY <1>1 DEF CallsFit
<1>8. RoomIsLeft
  <2>1. Checked(calls) = {}  BY <1>1 DEF Checked
  <2>2. Cardinality(Checked(calls)) = 0  BY <2>1, FS_EmptySet
  <2>3. QED  BY <1>3, <1>4, <2>2 DEF RoomIsLeft
<1>9. SeenFromTheTop
  <2>1. ASSUME NEW u \in Channel!People, NEW n \in seen[u]
        PROVE  /\ n \in Seeable /\ messages[n].parent = 0
               /\ \A m \in Channel!Listed : ~(m < n)
    <3>1. n \in 1..Len(messages)  BY <1>1, <1>3
    <3>2. n \in Seeable /\ messages[n].parent = 0  BY <1>2, <1>3, <3>1 DEF Seeable
    <3>3. \A m \in Channel!Listed : m \in 1..Len(messages)  BY <1>3 DEF Channel!Listed
    <3>4. QED  BY <1>3, <3>1, <3>2, <3>3
  <2>2. QED  BY <2>1 DEF SeenFromTheTop
<1>10. MarksAreHonest  BY <1>3, <1>5 DEF MarksAreHonest
<1>11. PinsFit
  <2>1. DOMAIN channel.pins = {}  BY <1>1
  <2>2. Pinned = {}  BY <2>1 DEF Pinned
  <2>3. \A m \in DOMAIN messages : ~messages[m].pinned  BY <1>2, <1>3
  <2>4. QED  BY <2>1, <2>2, <2>3 DEF PinsFit
<1>12. Channel!ReactionsFollowTaps /\ Channel!GoneForAReason /\ DeadIsEmpty
  BY <1>1 DEF Channel!ReactionsFollowTaps, Channel!GoneForAReason, DeadIsEmpty
<1>13. QED  BY <1>6, <1>7, <1>8, <1>9, <1>10, <1>11, <1>12 DEF ChannelInv

LEMMA ChannelStands ==
    ASSUME ChannelInv, UNCHANGED channelVars
    PROVE  ChannelInv'
<1>1. /\ UNCHANGED <<channel, messages, reactions, seats, seen, late, odd, doubled, deleting, made>>
      /\ calls' = calls
  BY DEF channelVars
<1>2. made' \in 0..MaxCalls  BY <1>1 DEF ChannelInv, Channel!TypeOK
<1>3. QED  BY <1>1, <1>2, SeatsStay, OnlySeats

LEMMA UseStep ==
    ASSUME ChannelInv, NEW u \in Channel!People, Channel!Uses(u)
    PROVE  ChannelInv'
<1>1. CASE \E parent \in {0} \cup DOMAIN messages, mentions \in {{}, Channel!People \ {u}} :
              Channel!Post(u, parent, mentions)
  BY <1>1, PostStep
<1>2. CASE \E m \in DOMAIN messages : Channel!Pin(u, m, "pin") \/ Channel!Pin(u, m, "unpin")
  BY <1>2, PinStep
<1>3. CASE \E m \in DOMAIN messages : Channel!React(u, m)  BY <1>3, ReactStep
<1>4. CASE \E m \in {0} \cup seen[u] : Channel!Mark(u, m)  BY <1>4, MarkStep
<1>5. CASE \E pref \in Channel!Preferences : Channel!Prefer(u, pref)  BY <1>5, PreferStep
<1>6. CASE Channel!Look(u)  BY <1>6, LookStep
<1>7. CASE \E m \in DOMAIN messages : Channel!Open(u, m)  BY <1>7, OpenStep
<1>8. QED  BY <1>1, <1>2, <1>3, <1>4, <1>5, <1>6, <1>7 DEF Channel!Uses

LEMMA ManageStep ==
    ASSUME ChannelInv, Channel!Manages
    PROVE  ChannelInv'
<1>1. CASE \E permission \in Channel!Permissions : Channel!Add(permission) \/ Channel!Permit(permission)
  BY <1>1, SeatStep
<1>2. CASE Channel!Unseat
  <2>1. "read" \in Channel!Permissions  BY DEF Channel!Permissions
  <2>2. QED  BY <1>2, <2>1, SeatStep
<1>3. CASE Channel!Archive  BY <1>3, ArchiveStep
<1>4. CASE Channel!Ages  BY <1>4, AgesStep
<1>5. CASE \E op \in {"expire", "restore", "delete"} : Channel!Discard(op)
  BY <1>5, DiscardStep DEF Deletions
<1>6. QED  BY <1>1, <1>2, <1>3, <1>4, <1>5 DEF Channel!Manages

LEMMA CallStep ==
    ASSUME ChannelInv, NEW i, Channel!Step(i)
    PROVE  ChannelInv'
BY PostBeginsStep, PostCommitsStep, PinFlagsStep, PinCommitsStep, ReactFindsStep,
   ReactWritesStep,
   MarkLandsStep, DiscardFindsStep, DiscardLocksStep, DiscardCascadesStep, RestoreUpdatesStep,
   AbortStep
   DEF Channel!Step

LEMMA ChannelSteps ==
    ASSUME ChannelInv, Channel!Next
    PROVE  ChannelInv'
<1>1. CASE Channel!Progress  BY <1>1, CallStep DEF Channel!Progress
<1>2. CASE \E u \in Channel!People : Channel!Uses(u)  BY <1>2, UseStep
<1>3. CASE Channel!Post(Agent, 0, {})  BY <1>3, PostStep
<1>4. CASE Channel!Manages  BY <1>4, ManageStep
<1>5. QED  BY <1>1, <1>2, <1>3, <1>4 DEF Channel!Next

\* What the invariant says is what the channel promises.
LEMMA ChannelInvSuffices == ChannelInv => ChannelIsSound
<1> SUFFICES ASSUME ChannelInv PROVE Channel!ChannelIsSound
  BY DEF ChannelIsSound
<1>1. Channel!PinsAgree
  <2>1. Channel!IsInjective(channel.pins)  BY DEF ChannelInv, PinsFit, Channel!IsInjective
  <2>2. channel.pins \in Seq(Channel!Ids)  BY DEF ChannelInv, Channel!TypeOK
  <2>3. ASSUME NEW m \in DOMAIN messages, ~Channel!Holds(m)
        PROVE  messages[m].pinned <=> Channel!Contains(channel.pins, m)
    <3>1. m \notin Held  BY <2>3 DEF Held, Channel!Holds
    <3>2. messages[m].pinned <=> m \in Pinned  BY <3>1 DEF ChannelInv, PinsFit
    <3>3. DOMAIN channel.pins = 1..Len(channel.pins)  BY <2>2
    <3>4. m \in Pinned <=> Channel!Contains(channel.pins, m)
      BY <3>3 DEF Pinned, Channel!Contains
    <3>5. QED  BY <3>2, <3>4
  <2>4. QED  BY <2>1, <2>3 DEF Channel!PinsAgree
<1>2. Channel!UnreadIsHonest
  <2>1. ASSUME NEW u \in Channel!People
        PROVE  Channel!Unread(u) \subseteq Channel!Listed
    BY DEF Channel!Unread
  <2>2. ASSUME NEW u \in Channel!People, NEW m \in Channel!Listed \ (seen[u] \cup late),
               messages[m].author # u, Channel!Wanted(u, m)
        PROVE  m \in Channel!Unread(u)
    <3>1. m \in Seeable /\ m \in DOMAIN messages /\ messages[m].parent = 0
      BY <2>2 DEF Channel!Listed, Channel!Visible, Channel!Root, Seeable
    <3>2. ~(m <= seats[u].lastRead)  BY <2>2, <3>1 DEF ChannelInv, MarksAreHonest
    <3>3. m \in Nat /\ seats[u].lastRead \in Nat  BY <3>1, MessageFacts, ReadFacts
    <3>4. m > seats[u].lastRead  BY <3>2, <3>3
    <3>5. QED  BY <2>2, <3>4 DEF Channel!Unread
  <2>3. QED  BY <2>1, <2>2 DEF Channel!UnreadIsHonest
<1>3. QED  BY <1>1, <1>2 DEF ChannelInv, Channel!ChannelIsSound

\* Pins, unread counts, reactions and the channel itself stay what the calls of its people say,
\* for any number of messages and of calls, of which any number is under way at a time: whatever
\* statements of posts, pins, taps, marks, seat changes and deletions interleave, and whichever of
\* them the database aborts.  (MessagesService, ConversationsService, ChannelMembersService)
THEOREM ChannelStaysSound == ConversationSpec => []ChannelIsSound
<1>1. ConversationInit => ChannelInv
  BY ChannelStarts DEF ConversationInit
<1>2. ChannelInv /\ [ConversationNext]_allVars => ChannelInv'
  <2> SUFFICES ASSUME ChannelInv, [ConversationNext]_allVars PROVE ChannelInv'
    OBVIOUS
  <2>1. CASE UNCHANGED channelVars  BY <2>1, ChannelStands
  <2>2. CASE Channel!Next  BY <2>2, ChannelSteps
  <2>3. QED  BY <2>1, <2>2 DEF ConversationNext, allVars
<1>3. ChannelInv => ChannelIsSound  BY ChannelInvSuffices
<1>4. QED  BY <1>1, <1>2, <1>3, PTL DEF ConversationSpec
=============================================================================
