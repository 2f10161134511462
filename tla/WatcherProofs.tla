---------------------------- MODULE WatcherProofs ----------------------------
(***************************************************************************)
(* Proofs about the times and the calls of Scheduling, for any schedules,  *)
(* rounds, calls and bounds: types, that the watcher queues no due time    *)
(* twice but for a cause, and what a disable leaves in the queue.          *)
(***************************************************************************)
EXTENDS Scheduling, TLAPS

-----------------------------------------------------------------------------
(***************************************************************************)
(* The types of the parts.                                                 *)
(***************************************************************************)

StoreType ==
  /\ now \in 0..MaxNow /\ flow \in BOOLEAN
  /\ schedules \in [Schedules -> [exists : BOOLEAN, enabled : BOOLEAN, nextRun : Minutes]]
RowsType == rows \in [RowIds -> ExecutionRow]
HasAttempts(job) ==
  job.state \in {"delayed", "waiting", "taken", "loaded", "active"} => job.left > 0
JobsType == /\ jobs \in [JobIds -> Job]
            /\ \A j \in JobIds : HasAttempts(jobs[j])
AtItsSchedule(rd) == rd.pc \in {"add", "update"} => rd.cur \in rd.todo
RoundsType == /\ round \in [Rounds -> Round]
              /\ \A r \in Rounds : AtItsSchedule(round[r])
GoodCalls == {cl \in Call : AtAnId(cl)}
CallsType == call \in [Callers -> GoodCalls]
RestType == /\ calls \in 0..MaxCalls /\ faults \in 0..MaxFaults
            /\ served \subseteq Schedules \X Minutes /\ excused \subseteq Schedules

LEMMA TypeParts ==
  /\ TypeOK <=> StoreType /\ RowsType /\ JobsType /\ RoundsType /\ CallsType /\ RestType
  /\ StoreType' /\ RowsType' /\ JobsType' /\ RoundsType' /\ CallsType' /\ RestType' => TypeOK'
BY DEF TypeOK, StoreType, RowsType, JobsType, HasAttempts, RoundsType, AtItsSchedule, CallsType,
       GoodCalls, RestType, Live, Queued, Locked

LEMMA MinutesAhead ==
  ASSUME StoreType
  PROVE  now \in Minutes /\ NextRun \in Minutes /\ 0 \in Minutes /\ 1 \in Minutes
BY SchedulingAssumption DEF StoreType, Minutes, NextRun

LEMMA NothingIsTyped ==
  /\ Nobody \in SomeSchedule /\ NoRow \in SomeRow /\ Schedules \subseteq SomeSchedule
  /\ RowIds \subseteq SomeRow
BY DEF SomeSchedule, SomeRow

-----------------------------------------------------------------------------
(***************************************************************************)
(* Rows and jobs.                                                          *)
(***************************************************************************)

LEMMA CreateExecutionType ==
  ASSUME RowsType, NEW s \in SomeSchedule, CreateExecution(s)
  PROVE  RowsType'
BY DEF RowsType, CreateExecution, ExecutionRow

LEMMA LoseType ==
  ASSUME NEW rs \in [RowIds -> ExecutionRow], NEW E,
         NEW why \in {"unqueued", "cancelled", "abandoned"}
  PROVE  Lose(rs, E, why) \in [RowIds -> ExecutionRow]
<1>1. \A e \in RowIds : [rs[e] EXCEPT !.fate = why] \in ExecutionRow
  BY DEF ExecutionRow
<1> QED
  BY <1>1 DEF Lose

LEMMA OneJobType ==
  ASSUME JobsType, NEW j, NEW job \in Job, HasAttempts(job), jobs' = [jobs EXCEPT ![j] = job]
  PROVE  JobsType'
BY DEF JobsType

LEMMA OverType == Over \in Job /\ Over.state = "over" /\ HasAttempts(Over)
<1>1. 0 \in Minutes
  BY SchedulingAssumption DEF Minutes
<1> QED
  BY <1>1, NothingIsTyped DEF Over, NoJob, Job, HasAttempts

LEMMA DelayedJobType ==
  ASSUME NEW s \in SomeSchedule, NEW t \in Minutes
  PROVE  DelayedJob(s, t) \in Job /\ HasAttempts(DelayedJob(s, t))
<1>1. ScheduleAttempts \in Nat /\ ScheduleAttempts > 0
  BY SchedulingAssumption
<1> QED
  BY <1>1, NothingIsTyped DEF DelayedJob, NoJob, Job, HasAttempts

LEMMA QueueJobType ==
  ASSUME JobsType, NEW s \in SomeSchedule, NEW e \in SomeRow, QueueJob(s, e)
  PROVE  JobsType'
<1> DEFINE job == [state |-> "waiting", sched |-> s, exec |-> e, row |-> NoRow, at |-> 0,
                   left |-> JobAttempts, stalled |-> 0]
<1>1. JobAttempts \in Nat /\ JobAttempts > 0 /\ 0 \in Minutes
  BY SchedulingAssumption DEF Minutes
<1>2. job \in Job /\ HasAttempts(job)
  BY <1>1, NothingIsTyped DEF Job, HasAttempts
<1>3. jobs' = [jobs EXCEPT ![FreeJob] = job]
  BY DEF QueueJob
<1> HIDE DEF job
<1> QED
  BY <1>2, <1>3, OneJobType

-----------------------------------------------------------------------------
(***************************************************************************)
(* Rounds.                                                                 *)
(***************************************************************************)

LEMMA OneRoundType ==
  ASSUME RoundsType, NEW r \in Rounds, NEW rd \in Round, AtItsSchedule(rd),
         round' = [round EXCEPT ![r] = rd]
  PROVE  RoundsType'
BY DEF RoundsType

LEMMA NoRoundType ==
  NoRound \in Round /\ AtItsSchedule(NoRound) /\ NoRound.pc = "idle" /\ NoRound.todo = {}
<1>1. 0 \in Minutes
  BY SchedulingAssumption DEF Minutes
<1> QED
  BY <1>1, NothingIsTyped DEF NoRound, Round, AtItsSchedule

LEMMA RoundAfterType ==
  ASSUME NEW rd \in Round
  PROVE  /\ RoundAfter(rd) \in Round /\ AtItsSchedule(RoundAfter(rd))
         /\ RoundAfter(rd).pc \in {"idle", "create"}
         /\ RoundAfter(rd).todo = rd.todo \ {rd.cur}
         /\ RoundAfter(rd).todo # {} => RoundAfter(rd).due = rd.due
<1> DEFINE todo == rd.todo \ {rd.cur}
           after == [rd EXCEPT !.pc = "create", !.todo = todo, !.cur = Nobody]
<1>1. todo \in SUBSET Schedules
  BY DEF Round
<1>2. after \in Round /\ after.pc = "create" /\ after.todo = todo /\ after.due = rd.due
  BY <1>1, NothingIsTyped DEF Round
<1>3. AtItsSchedule(after)
  BY <1>2 DEF AtItsSchedule
<1>4. RoundAfter(rd) = IF todo = {} THEN NoRound ELSE after
  BY DEF RoundAfter
<1> HIDE DEF todo, after
<1>5. /\ RoundAfter(rd) \in Round /\ AtItsSchedule(RoundAfter(rd))
      /\ RoundAfter(rd).pc \in {"idle", "create"} /\ RoundAfter(rd).todo = todo
      /\ RoundAfter(rd).todo # {} => RoundAfter(rd).due = rd.due
  BY <1>2, <1>3, <1>4, NoRoundType
<1> QED
  BY <1>5 DEF todo

-----------------------------------------------------------------------------
(***************************************************************************)
(* Calls.                                                                  *)
(***************************************************************************)

LEMMA OneCallType ==
  ASSUME CallsType, NEW c \in Callers, NEW cl \in GoodCalls, call' = [call EXCEPT ![c] = cl]
  PROVE  CallsType'
BY DEF CallsType

\* Where a call goes to with the same id.
Pcs == {"idle", "write", "snapshot", "removing", "drop", "create", "add", "schedule",
        "done"}
OnAnId == {"write", "snapshot", "removing", "schedule"}

\* A call that changes but goes on with the same id.
LEMMA ChangedCall ==
  ASSUME NEW cl \in GoodCalls, NEW x \in Call, cl.pc # "done",
         x.pc # "find", x.pc \in OnAnId => cl.kind \in ListKinds,
         x.kind = cl.kind, x.i = cl.i, x.ids = cl.ids
  PROVE  x \in GoodCalls
BY DEF GoodCalls, AtAnId, OnAnId

LEMMA MovedCall ==
  ASSUME NEW cl \in GoodCalls, NEW pc \in Pcs, cl.pc # "done",
         pc \in OnAnId => cl.kind \in ListKinds
  PROVE  [cl EXCEPT !.pc = pc] \in GoodCalls
<1> DEFINE x == [cl EXCEPT !.pc = pc]
<1>1. x \in Call /\ x.pc = pc /\ x.kind = cl.kind /\ x.i = cl.i /\ x.ids = cl.ids
  BY DEF GoodCalls, Call, Pcs
<1> HIDE DEF x
<1>2. x \in GoodCalls
  BY <1>1, ChangedCall DEF Pcs
<1> QED
  BY <1>2 DEF x

LEMMA GotoType ==
  ASSUME CallsType, NEW c \in Callers, NEW pc \in Pcs, call[c].pc # "done",
         pc \in OnAnId => call[c].kind \in ListKinds, Goto(c, pc)
  PROVE  CallsType'
<1>1. call[c] \in GoodCalls
  BY DEF CallsType
<1>2. [call[c] EXCEPT !.pc = pc] \in GoodCalls
  BY <1>1, MovedCall
<1> QED
  BY <1>2, OneCallType DEF Goto

LEMMA NextIdType ==
  ASSUME NEW cl \in GoodCalls, NEW ok \in BOOLEAN
  PROVE  NextId(cl, ok) \in GoodCalls
<1> DEFINE i == cl.i + 1
           pc == IF cl.i < Len(cl.ids) THEN "find" ELSE "done"
           b == cl.ok /\ ok
           x == [cl EXCEPT !.i = i, !.pc = pc, !.todo = {}, !.ok = b]
<1>1. NextId(cl, ok) = x
  BY DEF NextId
<1>2. cl.i \in Nat /\ cl.ids \in Seq(Schedules) /\ (cl.kind = "retry" => cl.ids = <<>>)
  BY DEF GoodCalls, Call, AtAnId
<1>3. i \in Nat /\ (pc = "find" => i \in 1..Len(cl.ids) /\ cl.kind # "retry")
  BY <1>2
<1>4. pc \in {"find", "done"}
  OBVIOUS
<1>5. b \in BOOLEAN
  OBVIOUS
<1> HIDE DEF i, pc, b
<1>6. x \in Call /\ x.i = i /\ x.pc = pc /\ x.ids = cl.ids /\ x.kind = cl.kind
  BY <1>3, <1>4, <1>5 DEF GoodCalls, Call
<1> HIDE DEF x
<1>7. AtAnId(x)
  BY <1>2, <1>3, <1>4, <1>6 DEF AtAnId
<1> QED
  BY <1>1, <1>6, <1>7 DEF GoodCalls

LEMMA ProceedType ==
  ASSUME CallsType, NEW c \in Callers, NEW ok \in BOOLEAN, Proceed(c, ok)
  PROVE  CallsType'
<1>1. NextId(call[c], ok) \in GoodCalls
  BY NextIdType DEF CallsType
<1> QED
  BY <1>1, OneCallType DEF Proceed

LEMMA UnaloneCall ==
  ASSUME NEW cl \in GoodCalls
  PROVE  [cl EXCEPT !.alone = FALSE] \in GoodCalls
<1> DEFINE b == FALSE
           x == [cl EXCEPT !.alone = b]
<1>1. b \in BOOLEAN
  OBVIOUS
<1> HIDE DEF b
<1>2. /\ x \in Call /\ x.pc = cl.pc /\ x.kind = cl.kind /\ x.i = cl.i /\ x.ids = cl.ids
      /\ x.exec = cl.exec
  BY <1>1 DEF GoodCalls, Call
<1>3. AtAnId(cl)
  BY DEF GoodCalls
<1> HIDE DEF x
<1>4. AtAnId(x)
  BY <1>2, <1>3 DEF AtAnId
<1>5. x \in GoodCalls
  BY <1>2, <1>4 DEF GoodCalls
<1> QED
  BY <1>5 DEF x, b

LEMMA DisturbType ==
  ASSUME CallsType, NEW S
  PROVE  Disturb(call, S) \in [Callers -> GoodCalls]
<1>1. ASSUME NEW c \in Callers
      PROVE  /\ call[c] \in GoodCalls
             /\ [call[c] EXCEPT !.alone = FALSE] \in GoodCalls
  BY UnaloneCall DEF CallsType
<1> DEFINE D == Disturb(call, S)
<1>2. ASSUME NEW c \in Callers
      PROVE  D[c] \in GoodCalls
  BY <1>1 DEF Disturb
<1>3. D = [c \in Callers |-> D[c]]
  BY DEF Disturb
<1> HIDE DEF D
<1>4. D \in [Callers -> GoodCalls]
  BY <1>2, <1>3
<1> QED
  BY <1>4 DEF D

LEMMA NoCallType == NoCall \in GoodCalls
<1> DEFINE f == FALSE
<1>1. NoCall = [kind |-> "none", pc |-> "idle", ids |-> <<>>, i |-> 1, flag |-> f,
                next |-> 0, todo |-> {}, sched |-> Nobody, exec |-> NoRow, ok |-> f,
                alone |-> f, ran |-> {}]
  BY DEF NoCall
<1>2. f \in BOOLEAN
  OBVIOUS
<1>3. 0 \in Minutes
  BY SchedulingAssumption DEF Minutes
<1> HIDE DEF f
<1>4. NoCall \in Call /\ NoCall.kind = "none" /\ NoCall.pc = "idle"
  BY <1>1, <1>2, <1>3, NothingIsTyped DEF Call
<1>5. AtAnId(NoCall)
  BY <1>4 DEF AtAnId, ListKinds
<1> QED
  BY <1>4, <1>5 DEF GoodCalls

LEMMA BeginType ==
  ASSUME CallsType, NEW c \in Callers, NEW kind, NEW ids \in Seq(Schedules), NEW flag \in BOOLEAN,
         NEW exec \in SomeRow, kind \in ListKinds => ids # <<>>,
         kind = "retry" => ids = <<>> /\ exec \in RowIds, Begin(c, kind, ids, flag, exec)
  PROVE  CallsType'
<1> DEFINE S == {ids[i] : i \in 1..Len(ids)}
           t == TRUE
           alone == kind = "disable" /\ Alone(c, S)
           ran == IF kind = "disable" THEN Running ELSE {}
           x == [NoCall EXCEPT !.kind = kind, !.pc = "find", !.ids = ids, !.flag = flag,
                   !.exec = exec, !.ok = t, !.alone = alone, !.ran = ran]
<1>1. call' = [Disturb(call, S) EXCEPT ![c] = x]
  BY DEF Begin
<1>2. NoCall \in Call /\ NoCall.i = 1
  BY NoCallType DEF GoodCalls, NoCall
<1>3. kind \in Kinds
  BY DEF Begin
<1>4. alone \in BOOLEAN /\ t \in BOOLEAN
  OBVIOUS
<1>5. ran \in SUBSET JobIds
  BY DEF Running
<1> HIDE DEF alone, t, ran, S
<1>6. /\ x \in Call /\ x.kind = kind /\ x.pc = "find" /\ x.ids = ids /\ x.i = 1
      /\ x.exec = exec
  BY <1>2, <1>3, <1>4, <1>5 DEF Call
<1> HIDE DEF x
<1>7. kind \in ListKinds => 1 \in 1..Len(ids)
  OBVIOUS
<1>8. AtAnId(x)
  BY <1>6, <1>7 DEF AtAnId
<1>9. x \in GoodCalls
  BY <1>6, <1>8 DEF GoodCalls
<1>10. Disturb(call, S) \in [Callers -> GoodCalls]
  BY DisturbType
<1> QED
  BY <1>1, <1>9, <1>10 DEF CallsType

-----------------------------------------------------------------------------
(***************************************************************************)
(* Every step keeps the types.                                             *)
(***************************************************************************)

LEMMA UnchangedTypes ==
  ASSUME TypeOK
  PROVE  /\ UNCHANGED <<now, flow, schedules>> => StoreType'
         /\ UNCHANGED rows => RowsType'
         /\ UNCHANGED jobs => JobsType'
         /\ UNCHANGED round => RoundsType'
         /\ UNCHANGED call => CallsType'
         /\ UNCHANGED <<calls, faults, served, excused>> => RestType'
BY TypeParts DEF StoreType, RowsType, JobsType, RoundsType, CallsType, RestType, GoodCalls, Minutes

LEMMA WatcherTypes ==
  ASSUME TypeOK, NEW r \in Rounds, Watcher(r) \/ RoundFails(r)
  PROVE  TypeOK'
<1>1. StoreType /\ RowsType /\ JobsType /\ RoundsType /\ CallsType /\ RestType
  BY TypeParts
<1>2. round[r] \in Round /\ AtItsSchedule(round[r])
  BY <1>1 DEF RoundsType
<1>3. CASE StartRound(r)
  <2> DEFINE due == [s \in Schedules |-> schedules[s].nextRun]
             rd == [NoRound EXCEPT !.pc = "create", !.todo = DueSchedules, !.due = due]
  <2>1. due \in [Schedules -> Minutes] /\ DueSchedules \in SUBSET Schedules
    BY <1>1 DEF StoreType, DueSchedules
  <2> HIDE DEF due
  <2>2. rd \in Round /\ rd.pc = "create"
    BY <2>1, NoRoundType DEF Round
  <2> HIDE DEF rd
  <2>3. RoundsType'
    <3>1. AtItsSchedule(rd)
      BY <2>2 DEF AtItsSchedule
    <3>2. round' = [round EXCEPT ![r] = rd]
      BY <1>3 DEF StartRound, rd, due
    <3> QED
      BY <1>1, <2>2, <3>1, <3>2, OneRoundType
  <2>4. CallsType'
    BY <1>1, <1>3, DisturbType DEF StartRound, CallsType
  <2>5. RestType'
    BY <1>1, <1>3 DEF StartRound, RestType, DueSchedules
  <2> QED
    BY <1>3, <2>3, <2>4, <2>5, TypeParts, UnchangedTypes DEF StartRound, store
<1>4. CASE ExecuteSchedule(r)
  <2>1. PICK s \in round[r].todo :
          /\ CreateExecution(s)
          /\ round' = [round EXCEPT ![r].pc = "add", ![r].cur = s, ![r].exec = FreeRow]
    BY <1>4 DEF ExecuteSchedule
  <2>2. s \in SomeSchedule /\ FreeRow \in SomeRow
    BY <1>2, <1>4, NothingIsTyped DEF Round, ExecuteSchedule, RowLeft
  <2> DEFINE rd == [round[r] EXCEPT !.pc = "add", !.cur = s, !.exec = FreeRow]
  <2>3. rd \in Round /\ rd.cur = s /\ rd.todo = round[r].todo
    BY <1>2, <2>2 DEF Round
  <2>4. round' = [round EXCEPT ![r] = rd]
    BY <2>1
  <2> HIDE DEF rd
  <2>5. RoundsType'
    BY <1>1, <2>3, <2>4, OneRoundType DEF AtItsSchedule
  <2>6. RowsType'
    BY <1>1, <2>1, <2>2, CreateExecutionType
  <2> QED
    BY <1>4, <2>5, <2>6, TypeParts, UnchangedTypes DEF ExecuteSchedule
<1>5. CASE AddScheduledJob(r)
  <2>1. round[r].cur \in round[r].todo /\ round[r].todo \subseteq Schedules
    BY <1>2, <1>5 DEF AddScheduledJob, AtItsSchedule, Round
  <2> DEFINE rd == [round[r] EXCEPT !.pc = "update", !.exec = NoRow]
  <2>2. rd \in Round /\ rd.cur = round[r].cur /\ rd.todo = round[r].todo
    BY <1>2, NothingIsTyped DEF Round
  <2>3. round' = [round EXCEPT ![r] = rd]
    BY <1>5 DEF AddScheduledJob
  <2> HIDE DEF rd
  <2>4. RoundsType'
    BY <1>1, <2>1, <2>2, <2>3, OneRoundType DEF AtItsSchedule
  <2>5. JobsType'
    BY <1>1, <1>2, <1>5, QueueJobType DEF AddScheduledJob, Round
  <2>6. RestType'
    BY <1>1, <1>2, <1>5, <2>1 DEF AddScheduledJob, RestType, Serving, Round
  <2> QED
    BY <1>5, <2>4, <2>5, <2>6, TypeParts, UnchangedTypes DEF AddScheduledJob
<1>6. CASE UpdateLastRun(r)
  <2>1. RoundsType'
    BY <1>1, <1>2, <1>6, RoundAfterType, OneRoundType DEF UpdateLastRun
  <2>2. StoreType'
    BY <1>1, <1>6, MinutesAhead DEF UpdateLastRun, StoreType
  <2> QED
    BY <1>6, <2>1, <2>2, TypeParts, UnchangedTypes DEF UpdateLastRun
<1>7. CASE RoundRejected(r)
  <2>1. RoundsType'
    BY <1>1, <1>7, NoRoundType, OneRoundType DEF RoundRejected
  <2> QED
    BY <1>7, <2>1, TypeParts, UnchangedTypes DEF RoundRejected, store
<1>8. CASE RoundFails(r)
  <2>1. RoundsType'
    BY <1>1, <1>8, NoRoundType, OneRoundType DEF RoundFails
  <2>2. RowsType'
    BY <1>1, <1>8, LoseType DEF RoundFails, RowsType
  <2>3. Unwritten({r}) \subseteq Schedules
    BY <1>2 DEF Unwritten, AtItsSchedule, Round
  <2>4. RestType'
    <3>1. faults' \in 0..MaxFaults
      BY <1>1, <1>8, SchedulingAssumption DEF RoundFails, RestType
    <3> QED
      BY <1>1, <1>8, <2>3, <3>1 DEF RoundFails, RestType, Minutes
  <2> QED
    BY <1>8, <2>1, <2>2, <2>4, TypeParts, UnchangedTypes DEF RoundFails
<1> QED
  BY <1>3, <1>4, <1>5, <1>6, <1>7, <1>8 DEF Watcher

LEMMA NewCallTypes ==
  ASSUME TypeOK, NEW c \in Callers, NewCall(c)
  PROVE  TypeOK'
<1>1. CallsType
  BY TypeParts
<1>2. <<>> \in Seq(Schedules) /\ \A s \in Schedules : <<s>> \in Seq(Schedules) /\ <<s>> # <<>>
  OBVIOUS
<1>3. CallLists \subseteq Seq(Schedules) \ {<<>>} /\ Initial \subseteq Schedules
  BY SchedulingAssumption
<1>4. PICK kind, ids, flag, exec : Begin(c, kind, ids, flag, exec) /\ CallsType'
  <2> DEFINE Fine(kind, ids, flag, exec) ==
               /\ Begin(c, kind, ids, flag, exec) /\ ids \in Seq(Schedules)
               /\ kind \in ListKinds => ids # <<>>
               /\ kind = "retry" => ids = <<>> /\ exec \in RowIds
               /\ flag \in BOOLEAN /\ exec \in SomeRow
  <2>1. \E kind, ids, flag, exec : Fine(kind, ids, flag, exec)
    <3>1. CASE CallCreate(c)
      BY <1>2, <3>1, NothingIsTyped DEF CallCreate
    <3>2. CASE CallUpdate(c)
      BY <1>2, <1>3, <3>2, NothingIsTyped DEF CallUpdate
    <3>3. CASE CallDelete(c)
      <4>1. FALSE \in BOOLEAN
        OBVIOUS
      <4> QED
        BY <1>2, <1>3, <3>3, <4>1, NothingIsTyped DEF CallDelete
    <3>4. CASE CallSetEnabled(c)
      BY <1>2, <1>3, <3>4, NothingIsTyped DEF CallSetEnabled
    <3>5. CASE CallRetry(c)
      BY <1>2, <1>3, <3>5, NothingIsTyped DEF CallRetry, ListKinds
    <3>6. CASE CallDeleteFlow(c)
      BY <1>2, <1>3, <3>6, NothingIsTyped DEF CallDeleteFlow, ListKinds
    <3> QED
      BY <3>1, <3>2, <3>3, <3>4, <3>5, <3>6 DEF NewCall
  <2>2. PICK kind, ids, flag, exec : Fine(kind, ids, flag, exec)
    BY <2>1
  <2>3. CallsType'
    BY <1>1, <2>2, BeginType
  <2> QED
    BY <2>2, <2>3
<1>5. calls' \in 0..MaxCalls
  BY <1>4, TypeParts, SchedulingAssumption DEF Begin, RestType
<1>6. RestType'
  BY <1>4, <1>5, TypeParts DEF Begin, RestType, Minutes
<1> QED
  BY <1>4, <1>6, TypeParts, UnchangedTypes DEF Begin, store

LEMMA FindScheduleTypes ==
  ASSUME TypeOK, NEW c \in Callers, FindSchedule(c)
  PROVE  CallsType'
<1>1. CallsType /\ call[c] \in GoodCalls
  BY TypeParts DEF CallsType
<1>2. CASE Proceed(c, FALSE)
  BY <1>1, <1>2, ProceedType
<1>3. CASE /\ schedules[Current(c)].exists
           /\ call' = [call EXCEPT
                ![c].pc = IF call[c].kind = "delete" THEN "snapshot" ELSE "write",
                ![c].next = IF call[c].kind # "update" THEN 0
                            ELSE IF call[c].flag THEN NextRun
                            ELSE schedules[Current(c)].nextRun]
  <2> DEFINE pc == IF call[c].kind = "delete" THEN "snapshot" ELSE "write"
             next == IF call[c].kind # "update" THEN 0
                     ELSE IF call[c].flag THEN NextRun
                     ELSE schedules[Current(c)].nextRun
             x == [call[c] EXCEPT !.pc = pc, !.next = next]
  <2>1. call[c].kind \in ListKinds /\ call[c].pc = "find"
    BY DEF FindSchedule, Doing, ListKinds
  <2>2. Current(c) \in Schedules
    BY <1>1, <2>1 DEF Current, GoodCalls, AtAnId, Call
  <2>3. next \in Minutes
    BY <2>2, TypeParts, MinutesAhead DEF StoreType
  <2>4. pc \in {"snapshot", "write"}
    OBVIOUS
  <2>5. call' = [call EXCEPT ![c] = x]
    BY <1>3
  <2> HIDE DEF pc, next
  <2>6. x \in Call /\ x.kind = call[c].kind /\ x.i = call[c].i /\ x.ids = call[c].ids
    BY <1>1, <2>3, <2>4 DEF GoodCalls, Call
  <2>7. x.pc \in {"snapshot", "write"}
    BY <1>1, <2>4 DEF GoodCalls, Call
  <2> HIDE DEF x
  <2> QED
    BY <1>1, <2>1, <2>7, <2>5, <2>6, ChangedCall, OneCallType
<1> QED
  BY <1>2, <1>3 DEF FindSchedule

LEMMA SetEnabledTypes ==
  ASSUME TypeOK, NEW c \in Callers, SetEnabled(c)
  PROVE  StoreType' /\ CallsType'
<1> DEFINE s == Current(c)
           enabled == call[c].kind = "enable"
<1>1. CallsType /\ call[c] \in GoodCalls /\ StoreType
  BY TypeParts DEF CallsType
<1>2. call[c].kind \in ListKinds /\ call[c].pc = "write"
  BY DEF SetEnabled, Doing, ListKinds
<1>3. s \in Schedules
  BY <1>1, <1>2 DEF Current, GoodCalls, AtAnId, Call
<1>4. enabled \in BOOLEAN
  OBVIOUS
<1>5. /\ schedules' = IF schedules[s].exists
                      THEN [schedules EXCEPT ![s].enabled = enabled] ELSE schedules
      /\ UNCHANGED <<now, flow>>
      /\ \/ Proceed(c, FALSE)
         \/ call' = [call EXCEPT ![c].pc = "schedule", ![c].next = schedules[s].nextRun]
         \/ Goto(c, "snapshot")
  BY DEF SetEnabled
<1> HIDE DEF enabled, s
<1>6. StoreType'
  BY <1>1, <1>3, <1>4, <1>5 DEF StoreType
<1>7. CASE Proceed(c, FALSE)
  BY <1>1, <1>6, <1>7, ProceedType
<1>8. CASE Goto(c, "snapshot")
  BY <1>1, <1>2, <1>6, <1>8, GotoType DEF Pcs
<1>9. CASE call' = [call EXCEPT ![c].pc = "schedule", ![c].next = schedules[s].nextRun]
  <2> DEFINE next == schedules[s].nextRun
             x == [call[c] EXCEPT !.pc = "schedule", !.next = next]
  <2>1. call' = [call EXCEPT ![c] = x]
    BY <1>9
  <2>2. next \in Minutes
    BY <1>1, <1>3 DEF StoreType
  <2> HIDE DEF next
  <2>3. /\ x \in Call /\ x.kind = call[c].kind /\ x.i = call[c].i /\ x.ids = call[c].ids
        /\ x.pc # "find"
    BY <1>1, <2>2 DEF GoodCalls, Call
  <2> HIDE DEF x
  <2> QED
    BY <1>1, <1>2, <1>6, <2>1, <2>3, ChangedCall, OneCallType
<1> QED
  BY <1>5, <1>7, <1>8, <1>9

LEMMA CancelJobsTypes ==
  ASSUME TypeOK, NEW c \in Callers, Snapshot(c) \/ RemoveJob(c) \/ Cancelled(c)
  PROVE  CallsType' /\ RowsType' /\ JobsType'
<1>1. CallsType /\ call[c] \in GoodCalls /\ RowsType /\ JobsType
  BY TypeParts DEF CallsType
<1>2. call[c].kind \in ListKinds /\ call[c].pc \in {"snapshot", "removing"}
  BY <1>1 DEF Snapshot, RemoveJob, Cancelled, GoodCalls, AtAnId
<1>3. CASE Snapshot(c)
  <2> DEFINE todo == JobsToCancel(Current(c))
             x == [call[c] EXCEPT !.todo = todo, !.pc = "removing"]
  <2>1. todo \in SUBSET JobIds
    BY DEF JobsToCancel
  <2>2. call' = [call EXCEPT ![c] = x]
    BY <1>3 DEF Snapshot
  <2> HIDE DEF todo
  <2>3. /\ x \in Call /\ x.kind = call[c].kind /\ x.i = call[c].i /\ x.ids = call[c].ids
        /\ x.pc # "find"
    BY <1>1, <2>1 DEF GoodCalls, Call
  <2> HIDE DEF x
  <2>4. CallsType'
    BY <1>1, <1>2, <2>2, <2>3, ChangedCall, OneCallType
  <2> QED
    BY <1>3, <2>4, UnchangedTypes DEF Snapshot, store
<1>4. ASSUME NEW j \in call[c].todo, call' = [call EXCEPT ![c].todo = @ \ {j}],
             jobs' = [jobs EXCEPT ![j] = Over], rows' = Lose(rows, {jobs[j].exec}, "cancelled")
      PROVE  CallsType' /\ RowsType' /\ JobsType'
  <2> DEFINE todo == call[c].todo \ {j}
             x == [call[c] EXCEPT !.todo = todo]
  <2>1. todo \in SUBSET JobIds
    BY <1>1 DEF GoodCalls, Call
  <2>2. call' = [call EXCEPT ![c] = x]
    BY <1>4
  <2> HIDE DEF todo
  <2>3. /\ x \in Call /\ x.kind = call[c].kind /\ x.i = call[c].i /\ x.ids = call[c].ids
        /\ x.pc # "find"
    BY <1>1, <1>2, <2>1 DEF GoodCalls, Call
  <2> HIDE DEF x
  <2>4. CallsType'
    BY <1>1, <1>2, <2>2, <2>3, ChangedCall, OneCallType
  <2>5. RowsType'
    BY <1>1, <1>4, LoseType DEF RowsType
  <2> QED
    BY <1>1, <1>4, <2>4, <2>5, OneJobType, OverType
<1>5. CASE RemoveJob(c)
  <2>1. PICK j \in call[c].todo :
          \/ Proceed(c, FALSE) /\ UNCHANGED <<jobs, rows>>
          \/ /\ call' = [call EXCEPT ![c].todo = @ \ {j}]
             /\ jobs' = [jobs EXCEPT ![j] = Over]
             /\ rows' = Lose(rows, {jobs[j].exec}, "cancelled")
    BY <1>5 DEF RemoveJob
  <2>2. CASE Proceed(c, FALSE) /\ UNCHANGED <<jobs, rows>>
    BY <1>1, <2>2, ProceedType, UnchangedTypes
  <2> QED
    BY <1>4, <2>1, <2>2
<1>6. CASE Cancelled(c)
  <2>1. \/ Goto(c, "drop") \/ Goto(c, "schedule")
        \/ Proceed(c, schedules[Current(c)].exists)
    BY <1>6 DEF Cancelled
  <2>2. Current(c) \in Schedules
    BY <1>1, <1>2 DEF Current, GoodCalls, AtAnId, Call
  <2>3. schedules[Current(c)].exists \in BOOLEAN
    BY <2>2, TypeParts DEF StoreType
  <2>4. CallsType'
    BY <1>1, <1>2, <2>1, <2>3, GotoType, ProceedType DEF Pcs
  <2> QED
    BY <1>6, <2>4, UnchangedTypes DEF Cancelled, store
<1> QED
  BY <1>3, <1>5, <1>6

LEMMA UpdateScheduleTypes ==
  ASSUME TypeOK, NEW c \in Callers, UpdateSchedule(c)
  PROVE  StoreType' /\ CallsType' /\ RestType'
<1> DEFINE s == Current(c)
<1>1. CallsType /\ call[c] \in GoodCalls /\ StoreType /\ RestType
  BY TypeParts DEF CallsType
<1>2. call[c].kind \in ListKinds /\ call[c].pc = "write"
  BY DEF UpdateSchedule, Doing, ListKinds
<1>3. s \in Schedules /\ call[c].next \in Minutes
  BY <1>1, <1>2 DEF Current, GoodCalls, AtAnId, Call
<1>4. PICK enabled \in {schedules[s].enabled, ~schedules[s].enabled} :
        IF ~schedules[s].exists
        THEN Proceed(c, FALSE) /\ UNCHANGED schedules
        ELSE /\ schedules' = [schedules EXCEPT ![s].enabled = enabled,
                                               ![s].nextRun = call[c].next]
             /\ IF enabled /\ call[c].flag THEN Goto(c, "snapshot") ELSE Proceed(c, TRUE)
  BY DEF UpdateSchedule
<1>5. enabled \in BOOLEAN
  BY <1>1, <1>3, <1>4 DEF StoreType
<1>6. /\ UNCHANGED <<now, flow>>
      /\ excused' = IF call[c].next < schedules[s].nextRun THEN excused \union {s} ELSE excused
      /\ UNCHANGED <<calls, faults, served>>
  BY DEF UpdateSchedule
<1> HIDE DEF s
<1>7. StoreType'
  <2> DEFINE new == [schedules EXCEPT ![s].enabled = enabled, ![s].nextRun = call[c].next]
  <2>1. new \in [Schedules -> [exists : BOOLEAN, enabled : BOOLEAN, nextRun : Minutes]]
    BY <1>1, <1>3, <1>5 DEF StoreType
  <2>2. schedules' = schedules \/ schedules' = new
    BY <1>4
  <2> HIDE DEF new
  <2> QED
    BY <1>1, <1>6, <2>1, <2>2 DEF StoreType, Minutes
<1>8. RestType'
  BY <1>1, <1>3, <1>6 DEF RestType, Minutes
<1>9. \/ Proceed(c, FALSE) \/ Proceed(c, TRUE) \/ Goto(c, "snapshot")
  BY <1>4
<1>10. CallsType'
  BY <1>1, <1>2, <1>9, ProceedType, GotoType DEF Pcs
<1> QED
  BY <1>7, <1>8, <1>10

LEMMA DropScheduleTypes ==
  ASSUME TypeOK, NEW c \in Callers, DropSchedule(c)
  PROVE  StoreType' /\ RowsType' /\ CallsType'
<1> DEFINE s == Current(c)
<1>1. CallsType /\ call[c] \in GoodCalls /\ StoreType /\ RowsType
  BY TypeParts DEF CallsType
<1>2. call[c].kind \in ListKinds /\ call[c].pc = "drop"
  BY DEF DropSchedule, Doing, ListKinds
<1>3. s \in Schedules
  BY <1>1, <1>2 DEF Current, GoodCalls, AtAnId, Call
<1>4. Absent \in [exists : BOOLEAN, enabled : BOOLEAN, nextRun : Minutes]
  BY MinutesAhead, TypeParts DEF Absent
<1>5. /\ schedules' = [schedules EXCEPT ![s] = Absent]
      /\ rows' = [e \in RowIds |-> IF rows[e].sched = s
                                   THEN [rows[e] EXCEPT !.sched = Nobody] ELSE rows[e]]
      /\ Proceed(c, schedules[s].exists)
      /\ UNCHANGED <<now, flow>>
  BY DEF DropSchedule
<1> HIDE DEF s
<1>6. StoreType'
  BY <1>1, <1>3, <1>4, <1>5 DEF StoreType
<1>7. RowsType'
  BY <1>1, <1>5, NothingIsTyped DEF RowsType, ExecutionRow
<1>8. schedules[s].exists \in BOOLEAN
  BY <1>1, <1>3 DEF StoreType
<1>9. CallsType'
  BY <1>1, <1>5, <1>8, ProceedType
<1> QED
  BY <1>6, <1>7, <1>9

LEMMA CreateScheduleTypes ==
  ASSUME TypeOK, NEW c \in Callers, CreateSchedule(c)
  PROVE  StoreType' /\ CallsType'
<1> DEFINE s == Current(c)
           flag == call[c].flag
           new == [schedules EXCEPT ![s] = ScheduleRow(flag, NextRun)]
<1>1. CallsType /\ call[c] \in GoodCalls /\ StoreType
  BY TypeParts DEF CallsType
<1>2. call[c].kind \in ListKinds /\ call[c].pc \in {"find", "create"}
  BY DEF CreateSchedule, ListKinds
<1>3. flag \in BOOLEAN
  BY <1>1 DEF GoodCalls, Call
<1>4. /\ UNCHANGED <<now, flow>>
      /\ schedules' = schedules \/ schedules' = new
      /\ \/ Goto(c, "create") \/ Proceed(c, FALSE) \/ Proceed(c, TRUE)
         \/ call' = [call EXCEPT ![c].pc = "schedule", ![c].next = NextRun]
  BY DEF CreateSchedule
<1>5. ScheduleRow(flag, NextRun) \in [exists : BOOLEAN, enabled : BOOLEAN, nextRun : Minutes]
  <2> HIDE DEF flag
  <2> DEFINE t == TRUE
  <2>1. ScheduleRow(flag, NextRun) = [exists |-> t, enabled |-> flag, nextRun |-> NextRun]
    BY DEF ScheduleRow
  <2>2. t \in BOOLEAN
    OBVIOUS
  <2> HIDE DEF t
  <2> QED
    BY <1>1, <1>3, <2>1, <2>2, MinutesAhead
<1> HIDE DEF flag
<1>6. StoreType'
  BY <1>1, <1>4, <1>5 DEF StoreType, Minutes
<1>7. CASE Goto(c, "create") \/ Proceed(c, FALSE) \/ Proceed(c, TRUE)
  BY <1>1, <1>2, <1>6, <1>7, GotoType, ProceedType DEF Pcs, OnAnId
<1>8. CASE call' = [call EXCEPT ![c].pc = "schedule", ![c].next = NextRun]
  <2> DEFINE next == NextRun
             x == [call[c] EXCEPT !.pc = "schedule", !.next = next]
  <2>1. call' = [call EXCEPT ![c] = x]
    BY <1>8
  <2>2. next \in Minutes
    BY <1>1, MinutesAhead
  <2> HIDE DEF next
  <2>3. /\ x \in Call /\ x.kind = call[c].kind /\ x.i = call[c].i /\ x.ids = call[c].ids
        /\ x.pc # "find"
    BY <1>1, <2>2 DEF GoodCalls, Call
  <2> HIDE DEF x
  <2> QED
    BY <1>1, <1>2, <1>6, <2>1, <2>3, ChangedCall, OneCallType
<1> QED
  BY <1>4, <1>7, <1>8

LEMMA ScheduleJobTypes ==
  ASSUME TypeOK, NEW c \in Callers, ScheduleJob(c)
  PROVE  JobsType' /\ CallsType'
<1>1. CallsType /\ call[c] \in GoodCalls /\ JobsType
  BY TypeParts DEF CallsType
<1>2. Current(c) \in SomeSchedule /\ call[c].next \in Minutes
  BY <1>1, NothingIsTyped DEF ScheduleJob, Current, GoodCalls, AtAnId, Call
<1>3. CallsType'
  BY <1>1, ProceedType DEF ScheduleJob
<1>4. \/ jobs' = [jobs EXCEPT ![FreeJob] = DelayedJob(Current(c), call[c].next)]
      \/ UNCHANGED jobs
  BY DEF ScheduleJob
<1> QED
  BY <1>1, <1>2, <1>3, <1>4, DelayedJobType, OneJobType, UnchangedTypes

LEMMA RetryTypes ==
  ASSUME TypeOK, NEW c \in Callers, FindExecution(c) \/ CreateRetry(c) \/ QueueRetry(c)
  PROVE  RowsType' /\ JobsType' /\ CallsType'
<1>1. CallsType /\ call[c] \in GoodCalls /\ RowsType /\ JobsType
  BY TypeParts DEF CallsType
<1>2. call[c].pc \notin {"idle", "done"}
  BY DEF FindExecution, CreateRetry, QueueRetry, Doing
<1>3. CASE FindExecution(c)
  <2>1. CASE Proceed(c, FALSE)
    BY <1>1, <1>3, <2>1, ProceedType, UnchangedTypes DEF FindExecution, store
  <2>2. CASE /\ rows[call[c].exec].status = "failed"
             /\ call' = [Disturb(call, {rows[call[c].exec].sched}) EXCEPT
                  ![c].pc = "create", ![c].sched = rows[call[c].exec].sched,
                  ![c].exec = NoRow]
    <3> DEFINE sched == rows[call[c].exec].sched
               D == Disturb(call, {sched})
               x == [D[c] EXCEPT !.pc = "create", !.sched = sched, !.exec = NoRow]
    <3>1. D \in [Callers -> GoodCalls] /\ D[c].pc = call[c].pc
      <4>1. D \in [Callers -> GoodCalls]
        BY <1>1, DisturbType
      <4>2. D[c] = call[c] \/ D[c] = [call[c] EXCEPT !.alone = FALSE]
        BY DEF Disturb
      <4>3. call[c].pc = [call[c] EXCEPT !.alone = FALSE].pc
        <5> DEFINE b == FALSE
        <5> HIDE DEF b
        <5>1. call[c].pc = [call[c] EXCEPT !.alone = b].pc
          BY <1>1 DEF GoodCalls, Call
        <5> QED
          BY <5>1 DEF b
      <4> HIDE DEF D
      <4> QED
        BY <4>1, <4>2, <4>3
    <3>2. call' = [D EXCEPT ![c] = x]
      BY <2>2, <3>1
    <3>3. sched \in SomeSchedule
      <4>1. call[c].exec \in RowIds
        BY <1>1, <1>3 DEF FindExecution, Doing, GoodCalls, AtAnId
      <4> QED
        BY <1>1, <4>1 DEF RowsType, ExecutionRow
    <3> HIDE DEF D, sched
    <3>4. /\ x \in Call /\ x.pc = "create" /\ x.kind = D[c].kind /\ x.i = D[c].i
          /\ x.ids = D[c].ids
      BY <3>1, <3>3, NothingIsTyped DEF GoodCalls, Call
    <3> HIDE DEF x
    <3>5. x \in GoodCalls
      BY <1>2, <3>1, <3>4, ChangedCall DEF OnAnId
    <3>6. CallsType'
      BY <3>1, <3>2, <3>5 DEF CallsType
    <3> QED
      BY <1>3, <3>6, UnchangedTypes DEF FindExecution, store
  <2> QED
    BY <1>3, <2>1, <2>2 DEF FindExecution
<1>4. CASE CreateRetry(c)
  <2>1. CASE Proceed(c, FALSE) /\ UNCHANGED rows
    BY <1>1, <1>4, <2>1, ProceedType, UnchangedTypes DEF CreateRetry
  <2>2. CASE /\ CreateExecution(call[c].sched)
             /\ call' = [call EXCEPT ![c].pc = "add", ![c].exec = FreeRow]
    <3> DEFINE e == FreeRow
               x == [call[c] EXCEPT !.pc = "add", !.exec = e]
    <3>1. e \in SomeRow
      BY <1>4, NothingIsTyped DEF CreateRetry, RowLeft
    <3>2. call' = [call EXCEPT ![c] = x]
      BY <2>2
    <3> HIDE DEF e
    <3>3. /\ x \in Call /\ x.pc = "add" /\ x.kind = call[c].kind /\ x.i = call[c].i
          /\ x.ids = call[c].ids
      BY <1>1, <3>1 DEF GoodCalls, Call
    <3> HIDE DEF x
    <3>4. CallsType'
      BY <1>1, <1>2, <3>2, <3>3, ChangedCall, OneCallType DEF OnAnId
    <3>5. RowsType'
      BY <1>1, <2>2, CreateExecutionType DEF GoodCalls, Call
    <3> QED
      BY <1>4, <3>4, <3>5, UnchangedTypes DEF CreateRetry
  <2> QED
    BY <1>4, <2>1, <2>2 DEF CreateRetry
<1>5. CASE QueueRetry(c)
  <2>1. JobsType' /\ CallsType'
    BY <1>1, <1>5, QueueJobType, ProceedType DEF QueueRetry, GoodCalls, Call
  <2> QED
    BY <1>5, <2>1, UnchangedTypes DEF QueueRetry
<1> QED
  BY <1>3, <1>4, <1>5

LEMMA DeleteFlowTypes ==
  ASSUME TypeOK, NEW c \in Callers, DeleteFlow(c)
  PROVE  StoreType' /\ RowsType' /\ CallsType'
<1>1. CallsType /\ call[c] \in GoodCalls /\ StoreType /\ RowsType
  BY TypeParts DEF CallsType
<1>2. CASE /\ call[c].pc = "find" /\ (Goto(c, "drop") \/ Proceed(c, FALSE))
           /\ UNCHANGED <<flow, schedules, rows>>
  <2>1. CallsType'
    BY <1>1, <1>2, GotoType, ProceedType DEF Pcs, OnAnId
  <2> QED
    BY <1>2, <2>1, UnchangedTypes DEF DeleteFlow
<1>3. CASE /\ flow' = FALSE
           /\ schedules' = [s \in Schedules |-> Absent]
           /\ rows' = [e \in RowIds |-> IF rows[e].status = "none" THEN rows[e]
                        ELSE [NoExecution EXCEPT !.status = "gone"]]
           /\ Proceed(c, flow)
  <2>1. Absent \in [exists : BOOLEAN, enabled : BOOLEAN, nextRun : Minutes]
    BY <1>1, MinutesAhead DEF Absent
  <2>2. StoreType'
    BY <1>1, <1>3, <2>1 DEF StoreType, DeleteFlow
  <2>3. RowsType'
    BY <1>1, <1>3, NothingIsTyped DEF RowsType, NoExecution, ExecutionRow
  <2>4. flow \in BOOLEAN
    BY <1>1 DEF StoreType
  <2>5. CallsType'
    BY <1>1, <1>3, <2>4, ProceedType
  <2> QED
    BY <2>2, <2>3, <2>5
<1> QED
  BY <1>2, <1>3 DEF DeleteFlow

LEMMA ServeCallTypes ==
  ASSUME TypeOK, NEW c \in Callers, ServeCall(c)
  PROVE  TypeOK'
<1>1. CASE FindSchedule(c)
  BY <1>1, FindScheduleTypes, TypeParts, UnchangedTypes DEF FindSchedule, store, OthersUnchanged
<1>2. CASE UpdateSchedule(c)
  BY <1>2, UpdateScheduleTypes, TypeParts, UnchangedTypes DEF UpdateSchedule
<1>3. CASE SetEnabled(c)
  BY <1>3, SetEnabledTypes, TypeParts, UnchangedTypes DEF SetEnabled, OthersUnchanged
<1>4. CASE Snapshot(c) \/ RemoveJob(c) \/ Cancelled(c)
  BY <1>4, CancelJobsTypes, TypeParts, UnchangedTypes
  DEF Snapshot, RemoveJob, Cancelled, store, OthersUnchanged
<1>5. CASE DropSchedule(c)
  BY <1>5, DropScheduleTypes, TypeParts, UnchangedTypes DEF DropSchedule, OthersUnchanged
<1>6. CASE CreateSchedule(c)
  BY <1>6, CreateScheduleTypes, TypeParts, UnchangedTypes DEF CreateSchedule, OthersUnchanged
<1>7. CASE ScheduleJob(c)
  BY <1>7, ScheduleJobTypes, TypeParts, UnchangedTypes DEF ScheduleJob, OthersUnchanged
<1>8. CASE FindExecution(c) \/ CreateRetry(c) \/ QueueRetry(c)
  BY <1>8, RetryTypes, TypeParts, UnchangedTypes
  DEF FindExecution, CreateRetry, QueueRetry, store, OthersUnchanged
<1>9. CASE DeleteFlow(c)
  BY <1>9, DeleteFlowTypes, TypeParts, UnchangedTypes DEF DeleteFlow, OthersUnchanged
<1>10. CASE Return(c)
  <2>1. CallsType'
    BY <1>10, TypeParts, NoCallType, OneCallType DEF Return
  <2> QED
    BY <1>10, <2>1, TypeParts, UnchangedTypes DEF Return, store, OthersUnchanged
<1> QED
  BY <1>1, <1>2, <1>3, <1>4, <1>5, <1>6, <1>7, <1>8, <1>9, <1>10 DEF ServeCall

\* An attempt that throws leaves a job with one attempt less, or none.
LEMMA AttemptedTypes ==
  ASSUME TypeOK, NEW j \in JobIds, Locked(j), jobs' = Attempted(j)
  PROVE  JobsType'
<1> DEFINE left == jobs[j].left - 1
           next == [jobs[j] EXCEPT !.state = "delayed", !.left = left, !.at = now, !.row = NoRow]
<1>1. JobsType /\ jobs[j] \in Job /\ jobs[j].left > 0 /\ jobs[j].left \in Nat
  BY TypeParts DEF JobsType, HasAttempts, Job, Locked
<1>2. jobs' = [jobs EXCEPT ![j] = IF jobs[j].left = 1 THEN Over ELSE next]
  BY DEF Attempted
<1>3. CASE jobs[j].left = 1
  <2>1. jobs' = [jobs EXCEPT ![j] = Over]
    BY <1>2, <1>3
  <2> QED
    BY <1>1, <2>1, OverType, OneJobType
<1>4. CASE jobs[j].left # 1
  <2>1. left \in Nat /\ left > 0 /\ now \in Minutes
    BY <1>1, <1>4, TypeParts, MinutesAhead
  <2> HIDE DEF left
  <2>2. next \in Job /\ next.left = left
    BY <1>1, <2>1, NothingIsTyped DEF Job
  <2>3. jobs' = [jobs EXCEPT ![j] = next]
    BY <1>2, <1>4
  <2> HIDE DEF next
  <2>4. HasAttempts(next)
    BY <2>1, <2>2 DEF HasAttempts
  <2> QED
    BY <1>1, <2>2, <2>3, <2>4, OneJobType
<1> QED
  BY <1>3, <1>4

LEMMA RowBecomesType ==
  ASSUME RowsType, NEW e, NEW status \in {"running", "success", "failed"},
         rows' = RowBecomes(e, status)
  PROVE  RowsType'
BY DEF RowsType, RowBecomes, ExecutionRow

\* A call whose await rejects goes on with its next id, or ends.
LEMMA CallRejectedTypes ==
  ASSUME TypeOK, NEW c \in Callers, CallRejected(c)
  PROVE  TypeOK'
<1>1. CallsType /\ RowsType /\ RestType
  BY TypeParts
<1>2. CallsType'
  <2>1. FALSE \in BOOLEAN
    OBVIOUS
  <2> QED
    BY <1>1, <2>1, ProceedType DEF CallRejected
<1>3. RowsType'
  BY <1>1, LoseType DEF CallRejected, RowsType
<1>4. RestType'
  <2>1. faults' \in 0..MaxFaults
    BY <1>1, SchedulingAssumption DEF CallRejected, RestType
  <2> QED
    BY <1>1, <2>1 DEF CallRejected, RestType, Minutes
<1> QED
  BY <1>2, <1>3, <1>4, TypeParts, UnchangedTypes DEF CallRejected

\* A worker takes a job: the disables that are alone remember it.
LEMMA TakeJobTypes ==
  ASSUME TypeOK, NEW j \in JobIds, TakeJob(j)
  PROVE  JobsType' /\ CallsType'
<1>1. JobsType /\ jobs[j] \in Job /\ HasAttempts(jobs[j]) /\ jobs[j].state = "waiting"
  BY TypeParts DEF JobsType, TakeJob
<1>2. CallsType'
  <2> DEFINE ran(cl) == [cl EXCEPT !.ran = @ \union {j}]
  <2>1. ASSUME NEW cl \in GoodCalls PROVE ran(cl) \in GoodCalls
    <3> DEFINE x == ran(cl)
    <3>1. /\ x \in Call /\ x.pc = cl.pc /\ x.kind = cl.kind /\ x.i = cl.i /\ x.ids = cl.ids
          /\ x.exec = cl.exec
      BY DEF GoodCalls, Call
    <3>2. AtAnId(cl)
      BY DEF GoodCalls
    <3> HIDE DEF x
    <3>3. AtAnId(x)
      BY <3>1, <3>2 DEF AtAnId
    <3>4. x \in GoodCalls
      BY <3>1, <3>3 DEF GoodCalls
    <3> QED
      BY <3>4 DEF x
  <2>2. call' = [c \in Callers |-> IF call[c].alone THEN ran(call[c]) ELSE call[c]]
    BY DEF TakeJob
  <2> HIDE DEF ran
  <2> QED
    BY <2>1, <2>2, TypeParts DEF CallsType
<1>3. JobsType'
  <2> DEFINE x == [jobs[j] EXCEPT !.state = "taken"]
  <2>1. x \in Job /\ x.left = jobs[j].left
    BY <1>1 DEF Job
  <2>2. jobs' = [jobs EXCEPT ![j] = x] /\ jobs[j].left > 0
    BY <1>1 DEF TakeJob, HasAttempts
  <2> HIDE DEF x
  <2>3. HasAttempts(x)
    BY <2>1, <2>2 DEF HasAttempts
  <2> QED
    BY <1>1, <2>1, <2>2, <2>3, OneJobType
<1> QED
  BY <1>2, <1>3

LEMMA LoadRowTypes ==
  ASSUME TypeOK, NEW j \in JobIds, LoadRow(j)
  PROVE  RowsType' /\ JobsType'
<1>1. /\ RowsType /\ JobsType /\ jobs[j] \in Job /\ HasAttempts(jobs[j])
      /\ jobs[j].state = "taken" /\ Locked(j) /\ jobs[j].left > 0
  BY TypeParts DEF JobsType, LoadRow, Locked, HasAttempts
<1>2. ASSUME NEW e \in SomeRow, jobs' = [jobs EXCEPT ![j].state = "loaded", ![j].row = e]
      PROVE  JobsType'
  <2> DEFINE x == [jobs[j] EXCEPT !.state = "loaded", !.row = e]
  <2>1. x \in Job /\ x.left = jobs[j].left
    BY <1>1 DEF Job
  <2>2. jobs' = [jobs EXCEPT ![j] = x]
    BY <1>2
  <2> HIDE DEF x
  <2>3. HasAttempts(x)
    BY <1>1, <2>1 DEF HasAttempts
  <2> QED
    BY <1>1, <2>1, <2>2, <2>3, OneJobType
<1>3. jobs[j].exec \in SomeRow /\ jobs[j].sched \in SomeSchedule
  BY <1>1 DEF Job
<1>4. \/ /\ jobs' = [jobs EXCEPT ![j].state = "loaded", ![j].row = jobs[j].exec]
         /\ UNCHANGED rows
      \/ /\ RowLeft /\ CreateExecution(jobs[j].sched)
         /\ jobs' = [jobs EXCEPT ![j].state = "loaded", ![j].row = FreeRow]
      \/ jobs' = Attempted(j) /\ UNCHANGED rows
  BY DEF LoadRow
<1>5. RowLeft => FreeRow \in SomeRow
  BY NothingIsTyped DEF RowLeft
<1>6. CASE /\ jobs' = [jobs EXCEPT ![j].state = "loaded", ![j].row = jobs[j].exec]
           /\ UNCHANGED rows
  BY <1>2, <1>3, <1>6, UnchangedTypes
<1>7. CASE /\ RowLeft /\ CreateExecution(jobs[j].sched)
           /\ jobs' = [jobs EXCEPT ![j].state = "loaded", ![j].row = FreeRow]
  BY <1>1, <1>2, <1>3, <1>5, <1>7, CreateExecutionType
<1>8. CASE jobs' = Attempted(j) /\ UNCHANGED rows
  BY <1>1, <1>8, AttemptedTypes, UnchangedTypes
<1> QED
  BY <1>4, <1>6, <1>7, <1>8

LEMMA WorkTypes ==
  ASSUME TypeOK, NEW j \in JobIds, Work(j)
  PROVE  TypeOK'
<1>1. RowsType /\ JobsType /\ RestType /\ jobs[j] \in Job /\ HasAttempts(jobs[j])
  BY TypeParts DEF JobsType
<1>2. CASE Promote(j)
  <2> DEFINE x == [jobs[j] EXCEPT !.state = "waiting", !.at = 0]
  <2>1. x \in Job /\ x.left = jobs[j].left
    BY <1>1, TypeParts, MinutesAhead DEF Job
  <2>2. jobs' = [jobs EXCEPT ![j] = x] /\ jobs[j].left > 0
    BY <1>1, <1>2 DEF Promote, HasAttempts
  <2> HIDE DEF x
  <2>3. HasAttempts(x)
    BY <2>1, <2>2 DEF HasAttempts
  <2>4. JobsType'
    BY <1>1, <2>1, <2>2, <2>3, OneJobType
  <2> QED
    BY <1>2, <2>4, TypeParts, UnchangedTypes DEF Promote
<1>3. CASE TakeJob(j)
  BY <1>3, TakeJobTypes, TypeParts, UnchangedTypes DEF TakeJob
<1>4. CASE LoadRow(j)
  BY <1>4, LoadRowTypes, TypeParts, UnchangedTypes DEF LoadRow
<1>5. CASE MarkRunning(j)
  <2> DEFINE x == [jobs[j] EXCEPT !.state = "active"]
  <2>1. x \in Job /\ x.left = jobs[j].left
    BY <1>1 DEF Job
  <2>2. jobs' = [jobs EXCEPT ![j] = x] /\ jobs[j].left > 0
    BY <1>1, <1>5 DEF MarkRunning, HasAttempts
  <2> HIDE DEF x
  <2>3. HasAttempts(x)
    BY <2>1, <2>2 DEF HasAttempts
  <2>4. JobsType'
    BY <1>1, <2>1, <2>2, <2>3, OneJobType
  <2>5. RowsType'
    BY <1>1, <1>5, RowBecomesType DEF MarkRunning
  <2> QED
    BY <1>5, <2>4, <2>5, TypeParts, UnchangedTypes DEF MarkRunning
<1>6. ASSUME faults < MaxFaults, faults' = faults + 1, UNCHANGED <<calls, served, excused>>
      PROVE  RestType'
  <2>1. faults' \in 0..MaxFaults
    BY <1>1, <1>6, SchedulingAssumption DEF RestType
  <2> QED
    BY <1>1, <1>6, <2>1 DEF RestType, Minutes
<1>7. CASE CompleteJob(j)
  <2>1. RowsType'
    BY <1>1, <1>7, RowBecomesType DEF CompleteJob
  <2>2. JobsType'
    BY <1>1, <1>7, OverType, OneJobType, AttemptedTypes DEF CompleteJob, Locked
  <2>3. RestType'
    BY <1>6, <1>7, UnchangedTypes DEF CompleteJob
  <2> QED
    BY <1>7, <2>1, <2>2, <2>3, TypeParts, UnchangedTypes DEF CompleteJob
<1>8. CASE ThrowJob(j)
  <2>1. RowsType'
    BY <1>1, <1>8, RowBecomesType DEF ThrowJob
  <2>2. JobsType'
    BY <1>8, AttemptedTypes DEF ThrowJob, Locked
  <2> QED
    BY <1>8, <2>1, <2>2, TypeParts, UnchangedTypes DEF ThrowJob
<1>9. CASE JobRejected(j)
  <2>1. RowsType'
    BY <1>1, <1>9, LoseType DEF JobRejected, RowsType
  <2>2. JobsType'
    BY <1>9, AttemptedTypes DEF JobRejected
  <2>3. RestType'
    BY <1>6, <1>9 DEF JobRejected
  <2> QED
    BY <1>9, <2>1, <2>2, <2>3, TypeParts, UnchangedTypes DEF JobRejected
<1> QED
  BY <1>2, <1>3, <1>4, <1>5, <1>7, <1>8, <1>9 DEF Work

LEMMA CrashTypes ==
  ASSUME TypeOK, Crash
  PROVE  TypeOK'
<1>1. RowsType /\ JobsType /\ RoundsType /\ RestType
  BY TypeParts
<1>2. JobsType'
  <2> DEFINE again(j) == [jobs[j] EXCEPT !.state = "waiting", !.row = NoRow, !.stalled = @ + 1]
  <2>1. ASSUME NEW j \in JobIds
        PROVE  again(j) \in Job /\ (Locked(j) => HasAttempts(again(j)))
    <3> DEFINE n == jobs[j].stalled + 1
               x == [jobs[j] EXCEPT !.state = "waiting", !.row = NoRow, !.stalled = n]
    <3>1. jobs[j] \in Job /\ HasAttempts(jobs[j])
      BY <1>1 DEF JobsType
    <3>2. n \in Nat
      BY <3>1 DEF Job
    <3> HIDE DEF n
    <3>3. x \in Job /\ x.left = jobs[j].left
      BY <3>1, <3>2, NothingIsTyped DEF Job
    <3> HIDE DEF x
    <3>4. Locked(j) => HasAttempts(x)
      BY <3>1, <3>3 DEF HasAttempts, Locked
    <3> QED
      BY <3>3, <3>4 DEF x, n
  <2>2. jobs' = [j \in JobIds |-> IF ~Locked(j) THEN jobs[j]
                                  ELSE IF Again(j) THEN again(j) ELSE Over]
    BY DEF Crash
  <2> HIDE DEF again
  <2> QED
    BY <1>1, <2>1, <2>2, OverType DEF JobsType
<1>3. RowsType'
  <2> DEFINE A == UNION {LeftBy(j, Again(j)) : j \in Running}
             B == {e \in RowIds : Adding(e)}
             mid == Lose(rows, A, "abandoned")
  <2>1. rows' = Lose(mid, B, "unqueued")
    BY DEF Crash
  <2>2. mid \in [RowIds -> ExecutionRow]
    BY <1>1, LoseType DEF RowsType
  <2> HIDE DEF mid, B
  <2> QED
    BY <2>1, <2>2, LoseType DEF RowsType
<1>4. RoundsType'
  BY NoRoundType DEF Crash, RoundsType
<1>5. CallsType'
  BY NoCallType DEF Crash, CallsType
<1>6. RestType'
  <2>1. Unwritten(Rounds) \subseteq Schedules
    BY <1>1 DEF Unwritten, RoundsType, AtItsSchedule, Round
  <2>2. faults' \in 0..MaxFaults
    <3>1. faults \in 0..MaxFaults
      BY <1>1 DEF RestType
    <3>2. faults < MaxFaults /\ faults' = faults + 1
      BY DEF Crash
    <3> QED
      BY <3>1, <3>2, SchedulingAssumption
  <2> QED
    BY <1>1, <2>1, <2>2 DEF Crash, RestType, Minutes
<1> QED
  BY <1>2, <1>3, <1>4, <1>5, <1>6, TypeParts, UnchangedTypes DEF Crash

LEMMA TickTypes ==
  ASSUME TypeOK, Tick
  PROVE  TypeOK'
<1>1. StoreType'
  BY TypeParts, SchedulingAssumption DEF Tick, StoreType, Minutes
<1> QED
  BY <1>1, TypeParts, UnchangedTypes DEF Tick

LEMMA InitTypes == Init => TypeOK
<1> SUFFICES ASSUME Init PROVE TypeOK
  OBVIOUS
<1>1. 0 \in Minutes /\ 1 \in Minutes /\ Fresh \subseteq Schedules
  BY SchedulingAssumption DEF Minutes
<1>2. StoreType
  <2> DEFINE t == TRUE
             f == FALSE
  <2>1. ScheduleRow(TRUE, 1) = [exists |-> t, enabled |-> t, nextRun |-> 1]
    BY DEF ScheduleRow
  <2>2. Absent = [exists |-> f, enabled |-> f, nextRun |-> 0]
    BY DEF Absent
  <2>3. t \in BOOLEAN /\ f \in BOOLEAN
    OBVIOUS
  <2> HIDE DEF t, f
  <2>4. ScheduleRow(TRUE, 1) \in [exists : BOOLEAN, enabled : BOOLEAN, nextRun : Minutes]
    <3>1. [exists |-> t, enabled |-> t, nextRun |-> 1]
            \in [exists : BOOLEAN, enabled : BOOLEAN, nextRun : Minutes]
      BY <1>1, <2>3
    <3> QED
      BY <2>1, <3>1, Zenon
  <2>5. Absent \in [exists : BOOLEAN, enabled : BOOLEAN, nextRun : Minutes]
    BY <1>1, <2>2, <2>3
  <2>6. schedules \in [Schedules -> [exists : BOOLEAN, enabled : BOOLEAN, nextRun : Minutes]]
    BY <2>4, <2>5 DEF Init
  <2>7. flow \in BOOLEAN
    BY DEF Init
  <2>8. now \in 0..MaxNow
    BY SchedulingAssumption DEF Init
  <2> QED
    BY <2>6, <2>7, <2>8 DEF StoreType
<1>3. RowsType
  BY NothingIsTyped DEF Init, RowsType, NoExecution, ExecutionRow
<1>4. JobsType
  <2>1. NoJob \in Job /\ HasAttempts(NoJob)
    BY <1>1, NothingIsTyped DEF NoJob, Job, HasAttempts
  <2>2. PICK order \in [1..Cardinality(Fresh) -> Fresh] :
          jobs = [j \in JobIds |->
                    IF j \in DOMAIN order THEN DelayedJob(order[j], 1) ELSE NoJob]
    BY DEF Init
  <2>3. \A j \in DOMAIN order : /\ DelayedJob(order[j], 1) \in Job
                                /\ HasAttempts(DelayedJob(order[j], 1))
    BY <1>1, NothingIsTyped, DelayedJobType
  <2> QED
    BY <2>1, <2>2, <2>3 DEF JobsType
<1>5. RoundsType
  BY NoRoundType DEF Init, RoundsType
<1>6. CallsType
  BY NoCallType DEF Init, CallsType
<1>7. RestType
  BY SchedulingAssumption DEF Init, RestType
<1> QED
  BY <1>2, <1>3, <1>4, <1>5, <1>6, <1>7, TypeParts

LEMMA TypesStep == TypeOK /\ [Next]_vars => TypeOK'
<1> SUFFICES ASSUME TypeOK, [Next]_vars PROVE TypeOK'
  OBVIOUS
<1>1. CASE UNCHANGED vars
  BY <1>1, TypeParts, UnchangedTypes DEF vars
<1>2. CASE Next
  BY <1>2, WatcherTypes, NewCallTypes, ServeCallTypes, CallRejectedTypes, WorkTypes, CrashTypes, TickTypes DEF Next
<1> QED
  BY <1>1, <1>2

\* Every variable of Scheduling keeps its type, whatever calls, rounds, workers,
\* faults and crashes do: no job is without an attempt left, no round away from
\* its snapshot, no call beyond its list.
THEOREM SchedulingTypes == Spec => []TypeOK
BY InitTypes, TypesStep, PTL DEF Spec

-----------------------------------------------------------------------------
(***************************************************************************)
(* No due time is queued twice.                                            *)
(***************************************************************************)

\* All due times of s that have been queued lie before t.
Before(s, t) == \A u \in Minutes : <<s, u>> \in served => u < t

\* Round r has queued s and not yet written its new nextRun.
AtUpdate(r, s) == round[r].pc = "update" /\ round[r].cur = s

\* What has been queued was due, and so is what a round has found due.
PastInv ==
  /\ \A s \in Schedules : \A t \in Minutes : <<s, t>> \in served => t <= now
  /\ \A r \in Rounds : \A s \in round[r].todo : round[r].due[s] <= now

\* A schedule without an excuse is in one round at most; what that round is to
\* queue comes after all that has been queued, and so does its nextRun as soon as
\* the round has written it.
OnceInv(s) ==
  /\ \A r, q \in Rounds : s \in round[r].todo /\ s \in round[q].todo => r = q
  /\ \A r \in Rounds : s \in round[r].todo /\ ~AtUpdate(r, s) => Before(s, round[r].due[s])
  /\ schedules[s].exists /\ (\A r \in Rounds : ~AtUpdate(r, s)) => Before(s, schedules[s].nextRun)

TimesInv == PastInv /\ \A s \in Schedules \ excused : OnceInv(s)

LEMMA TimesAreIntegers ==
  ASSUME TypeOK
  PROVE  /\ now \in Nat /\ Minutes \subseteq Nat
         /\ \A s \in Schedules : schedules[s].nextRun \in Nat
         /\ \A r \in Rounds : round[r].todo \subseteq Schedules
         /\ \A r \in Rounds : \A s \in Schedules : round[r].due[s] \in Minutes
BY SchedulingAssumption DEF TypeOK, Minutes, Round

\* A step that concerns no round: a nextRun it writes is not older than the one it
\* replaces, or lies ahead.
LEMMA CallStepTimes ==
  ASSUME TypeOK, TypeOK', TimesInv, UNCHANGED <<round, served>>, excused \subseteq excused',
         now' >= now,
         \A s \in Schedules \ excused' : schedules'[s].exists =>
            \/ schedules[s].exists /\ schedules'[s].nextRun >= schedules[s].nextRun
            \/ schedules'[s].nextRun > now
  PROVE  TimesInv'
<1>1. /\ now \in Nat /\ now' \in Nat /\ Minutes \subseteq Nat
      /\ \A s \in Schedules : schedules[s].nextRun \in Nat /\ schedules'[s].nextRun \in Nat
      /\ \A r \in Rounds : round[r].todo \subseteq Schedules
      /\ \A r \in Rounds : \A s \in Schedules : round[r].due[s] \in Nat
  BY SchedulingAssumption DEF TypeOK, Minutes, Round
<1>2. PastInv'
  BY <1>1 DEF TimesInv, PastInv
<1>3. ASSUME NEW s \in Schedules \ excused' PROVE OnceInv(s)'
  <2>1. OnceInv(s)
    BY <1>3 DEF TimesInv
  <2>2. /\ \A r \in Rounds : AtUpdate(r, s)' <=> AtUpdate(r, s)
        /\ \A t : Before(s, t)' <=> Before(s, t)
    BY DEF AtUpdate, Before
  <2>3. ASSUME schedules'[s].exists, \A r \in Rounds : ~AtUpdate(r, s)
        PROVE  Before(s, schedules'[s].nextRun)
    <3>1. CASE schedules[s].exists /\ schedules'[s].nextRun >= schedules[s].nextRun
      BY <1>1, <1>3, <2>1, <2>3, <3>1 DEF OnceInv, Before
    <3>2. CASE schedules'[s].nextRun > now
      BY <1>1, <1>3, <3>2 DEF TimesInv, PastInv, Before
    <3> QED
      BY <1>3, <2>3, <3>1, <3>2
  <2> QED
    BY <2>1, <2>2, <2>3 DEF OnceInv, Before, AtUpdate
<1> QED
  BY <1>2, <1>3 DEF TimesInv

\* Rounds that end: an excuse for each schedule they have queued and not written.
LEMMA RoundsEndTimes ==
  ASSUME TypeOK, TypeOK', TimesInv, UNCHANGED <<now, schedules, served>>,
         excused \subseteq excused',
         \A r \in Rounds : round'[r] = round[r] \/
           (round'[r] = NoRound /\ \A s \in Schedules : AtUpdate(r, s) => s \in excused')
  PROVE  TimesInv'
<1>1. NoRound.todo = {} /\ NoRound.pc = "idle"
  BY NoRoundType
<1>2. PastInv'
  BY <1>1 DEF TimesInv, PastInv
<1>3. ASSUME NEW s \in Schedules \ excused' PROVE OnceInv(s)'
  <2>1. OnceInv(s)
    BY <1>3 DEF TimesInv
  <2>2. \A r \in Rounds : AtUpdate(r, s)' <=> AtUpdate(r, s)
    BY <1>1, <1>3 DEF AtUpdate
  <2>3. \A r \in Rounds : s \in round'[r].todo => round'[r] = round[r]
    BY <1>1
  <2> QED
    BY <2>1, <2>2, <2>3 DEF OnceInv, Before
<1> QED
  BY <1>2, <1>3 DEF TimesInv

LEMMA StartRoundTimes ==
  ASSUME TypeOK, TimesInv, NEW r \in Rounds, StartRound(r)
  PROVE  TimesInv'
<1> DEFINE shared == {s \in DueSchedules : \E q \in Rounds : s \in round[q].todo}
           due == [s \in Schedules |-> schedules[s].nextRun]
           rd == [NoRound EXCEPT !.pc = "create", !.todo = DueSchedules, !.due = due]
<1>1. /\ round[r].pc = "idle" /\ round' = [round EXCEPT ![r] = rd]
      /\ excused' = excused \union shared
      /\ UNCHANGED <<now, schedules, served>>
  BY DEF StartRound, store
<1>2. /\ rd.pc = "create" /\ rd.todo = DueSchedules
      /\ \A s \in Schedules : rd.due[s] = schedules[s].nextRun
  BY NoRoundType DEF Round
<1>3. \A q \in Rounds : round'[q] = IF q = r THEN rd ELSE round[q]
  BY <1>1 DEF TypeOK
<1>4. DueSchedules \subseteq Schedules
      /\ \A s \in DueSchedules : schedules[s].exists /\ schedules[s].nextRun <= now
  BY DEF DueSchedules, Due
<1> HIDE DEF rd, due
<1>5. PastInv'
  BY <1>1, <1>2, <1>3, <1>4 DEF TimesInv, PastInv
<1>6. ASSUME NEW s \in Schedules \ excused' PROVE OnceInv(s)'
  <2>1. OnceInv(s)
    BY <1>1, <1>6 DEF TimesInv
  <2>2. \A q \in Rounds : AtUpdate(q, s)' <=> AtUpdate(q, s)
    BY <1>1, <1>2, <1>3 DEF AtUpdate
  <2>3. s \in DueSchedules => \A q \in Rounds : s \notin round[q].todo
    BY <1>1, <1>6
  <2>4. \A q \in Rounds : AtUpdate(q, s) => s \in round[q].todo
    BY DEF AtUpdate, TypeOK
  <2>5. s \in DueSchedules => Before(s, schedules[s].nextRun)
    BY <1>4, <2>1, <2>3, <2>4 DEF OnceInv
  <2>6. \A t : Before(s, t)' <=> Before(s, t)
    BY <1>1 DEF Before
  <2> QED
    BY <1>1, <1>2, <1>3, <2>1, <2>2, <2>3, <2>5 DEF OnceInv, Before
<1> QED
  BY <1>5, <1>6 DEF TimesInv

LEMMA ExecuteScheduleTimes ==
  ASSUME TypeOK, TimesInv, NEW r \in Rounds, ExecuteSchedule(r)
  PROVE  TimesInv'
<1>1. PICK e \in round[r].todo :
        round' = [round EXCEPT ![r].pc = "add", ![r].cur = e, ![r].exec = FreeRow]
  BY DEF ExecuteSchedule
<1>2. round[r].pc = "create" /\ UNCHANGED <<now, schedules, served, excused>>
  BY DEF ExecuteSchedule
<1>3. /\ \A q \in Rounds : round'[q].todo = round[q].todo /\ round'[q].due = round[q].due
      /\ \A q \in Rounds \ {r} : round'[q] = round[q]
      /\ round'[r].pc = "add"
  BY <1>1 DEF TypeOK, Round
<1>4. \A s, q : q \in Rounds => (AtUpdate(q, s)' <=> AtUpdate(q, s))
  BY <1>2, <1>3 DEF AtUpdate
<1> QED
  BY <1>2, <1>3, <1>4 DEF TimesInv, PastInv, OnceInv, Before

LEMMA AddScheduledJobTimes ==
  ASSUME TypeOK, TimesInv, NEW r \in Rounds, AddScheduledJob(r)
  PROVE  TimesInv'
<1> DEFINE s0 == round[r].cur
           t0 == round[r].due[s0]
<1>1. /\ round[r].pc = "add" /\ served' = served \union {<<s0, t0>>}
      /\ UNCHANGED <<now, schedules, excused>>
      /\ round' = [round EXCEPT ![r].pc = "update", ![r].exec = NoRow]
  BY DEF AddScheduledJob, Serving
<1>2. s0 \in round[r].todo /\ s0 \in Schedules
  BY <1>1, TimesAreIntegers DEF TypeOK
<1>3. /\ \A q \in Rounds : round'[q].todo = round[q].todo /\ round'[q].due = round[q].due
      /\ \A q \in Rounds \ {r} : round'[q] = round[q]
      /\ round'[r].pc = "update" /\ round'[r].cur = s0
  BY <1>1 DEF TypeOK, Round
<1>4. t0 <= now
  BY <1>2 DEF TimesInv, PastInv
<1> HIDE DEF s0, t0
<1>5. PastInv'
  BY <1>1, <1>3, <1>4 DEF TimesInv, PastInv
<1>6. ASSUME NEW s \in Schedules \ excused' PROVE OnceInv(s)'
  <2>1. OnceInv(s)
    BY <1>1, <1>6 DEF TimesInv
  <2>2. CASE s # s0
    <3>1. \A q \in Rounds : AtUpdate(q, s)' <=> AtUpdate(q, s)
      BY <1>1, <1>3, <2>2 DEF AtUpdate
    <3>2. \A t : Before(s, t) => Before(s, t)'
      BY <1>1, <2>2 DEF Before
    <3> QED
      BY <1>1, <1>3, <2>1, <3>1, <3>2 DEF OnceInv, Before
  <2>3. CASE s = s0
    <3>1. AtUpdate(r, s)'
      BY <1>3, <2>3 DEF AtUpdate
    <3>2. \A q \in Rounds : s \in round[q].todo => q = r
      BY <1>2, <2>1, <2>3 DEF OnceInv
    <3> QED
      BY <1>3, <3>1, <3>2 DEF OnceInv
  <2> QED
    BY <2>2, <2>3
<1> QED
  BY <1>5, <1>6 DEF TimesInv

LEMMA UpdateLastRunTimes ==
  ASSUME TypeOK, TimesInv, NEW r \in Rounds, UpdateLastRun(r)
  PROVE  TimesInv'
<1> DEFINE s0 == round[r].cur
           rd == RoundAfter(round[r])
<1>1. /\ round[r].pc = "update" /\ round' = [round EXCEPT ![r] = rd]
      /\ schedules' = IF schedules[s0].exists
                      THEN [schedules EXCEPT ![s0].nextRun = NextRun] ELSE schedules
      /\ UNCHANGED <<now, served, excused>>
  BY DEF UpdateLastRun
<1>2. s0 \in round[r].todo /\ s0 \in Schedules /\ round[r] \in Round
  BY <1>1, TimesAreIntegers DEF TypeOK
<1>3. /\ rd.pc \in {"idle", "create"} /\ rd.todo = round[r].todo \ {s0}
      /\ rd.todo # {} => rd.due = round[r].due
  BY <1>2, RoundAfterType
<1>4. \A q \in Rounds : round'[q] = IF q = r THEN rd ELSE round[q]
  BY <1>1 DEF TypeOK
<1>5. \A s \in Schedules :
        /\ schedules'[s].exists <=> schedules[s].exists
        /\ s # s0 => schedules'[s] = schedules[s]
        /\ schedules[s0].exists => schedules'[s0].nextRun = now + 1
  BY <1>1, <1>2 DEF TypeOK, NextRun
<1> HIDE DEF s0, rd
<1>6. PastInv'
  BY <1>1, <1>3, <1>4 DEF TimesInv, PastInv
<1>7. ASSUME NEW s \in Schedules \ excused' PROVE OnceInv(s)'
  <2>1. OnceInv(s)
    BY <1>1, <1>7 DEF TimesInv
  <2>2. CASE s # s0
    <3>1. \A q \in Rounds : AtUpdate(q, s)' <=> AtUpdate(q, s)
      BY <1>1, <1>3, <1>4, <2>2 DEF AtUpdate, s0
    <3>2. \A q \in Rounds : s \in round'[q].todo =>
             s \in round[q].todo /\ round'[q].due = round[q].due
      BY <1>3, <1>4
    <3>3. \A t : Before(s, t)' <=> Before(s, t)
      BY <1>1 DEF Before
    <3>4. schedules'[s] = schedules[s]
      BY <1>5, <1>7, <2>2
    <3> QED
      BY <2>1, <3>1, <3>2, <3>4, <1>1 DEF OnceInv, Before
  <2>3. CASE s = s0
    <3>1. \A q \in Rounds : s \notin round'[q].todo
      BY <1>2, <1>3, <1>4, <2>1, <2>3 DEF OnceInv
    <3>2. schedules'[s].exists => schedules'[s].nextRun = now + 1
      BY <1>5, <1>7, <2>3
    <3>3. \A u \in Minutes : <<s, u>> \in served => u < now + 1
      BY <1>7, TimesAreIntegers DEF TimesInv, PastInv
    <3> QED
      BY <1>1, <3>1, <3>2, <3>3 DEF OnceInv, Before
  <2> QED
    BY <2>2, <2>3
<1> QED
  BY <1>6, <1>7 DEF TimesInv

LEMMA WatcherTimes ==
  ASSUME TypeOK, TypeOK', TimesInv, NEW r \in Rounds, Watcher(r) \/ RoundFails(r)
  PROVE  TimesInv'
<1>1. CASE RoundRejected(r)
  <2>1. \A q \in Rounds : round'[q] = round[q] \/ (round'[q] = NoRound /\ q = r)
    BY <1>1 DEF RoundRejected, TypeOK
  <2> QED
    BY <1>1, <2>1, RoundsEndTimes DEF RoundRejected, AtUpdate, store
<1>2. CASE RoundFails(r)
  <2>1. \A q \in Rounds : round'[q] = round[q] \/ (round'[q] = NoRound /\ q = r)
    BY <1>2 DEF RoundFails, TypeOK
  <2>2. \A s \in Schedules : AtUpdate(r, s) => s \in excused'
    BY <1>2 DEF RoundFails, Unwritten, AtUpdate
  <2> QED
    BY <1>2, <2>1, <2>2, RoundsEndTimes DEF RoundFails
<1> QED
  BY <1>1, <1>2, StartRoundTimes, ExecuteScheduleTimes, AddScheduledJobTimes, UpdateLastRunTimes
  DEF Watcher

LEMMA UpdateScheduleTimes ==
  ASSUME TypeOK, TypeOK', TimesInv, NEW c \in Callers, UpdateSchedule(c)
  PROVE  TimesInv'
<1> DEFINE s0 == Current(c)
<1>1. /\ UNCHANGED <<now, round, served>> /\ excused \subseteq excused'
      /\ call[c].next < schedules[s0].nextRun => s0 \in excused'
      /\ \/ UNCHANGED schedules
         \/ /\ schedules[s0].exists
            /\ \E enabled : schedules' = [schedules EXCEPT ![s0].enabled = enabled,
                                                           ![s0].nextRun = call[c].next]
  BY DEF UpdateSchedule
<1>2. call[c].next \in Nat
  BY TimesAreIntegers DEF TypeOK, Call
<1>3. \A s \in Schedules : schedules[s].nextRun \in Nat
  BY TimesAreIntegers
<1>4. ASSUME NEW s \in Schedules \ excused', schedules'[s].exists
      PROVE  schedules[s].exists /\ schedules'[s].nextRun >= schedules[s].nextRun
  <2>1. CASE UNCHANGED schedules \/ s # s0
    <3>1. schedules'[s] = schedules[s]
      BY <1>1, <2>1 DEF TypeOK
    <3> QED
      BY <1>3, <1>4, <3>1
  <2>2. CASE s = s0 /\ schedules[s0].exists /\ \E enabled :
               schedules' = [schedules EXCEPT ![s0].enabled = enabled,
                                              ![s0].nextRun = call[c].next]
    <3>1. schedules'[s].nextRun = call[c].next
      BY <2>2 DEF TypeOK
    <3> QED
      BY <1>1, <1>2, <1>3, <1>4, <2>2, <3>1
  <2> QED
    BY <1>1, <2>1, <2>2
<1>5. now' >= now
  BY <1>1, TimesAreIntegers
<1> QED
  BY <1>1, <1>4, <1>5, CallStepTimes

LEMMA ServeCallTimes ==
  ASSUME TypeOK, TypeOK', TimesInv, NEW c \in Callers, ServeCall(c)
  PROVE  TimesInv'
<1>1. CASE UpdateSchedule(c)
  BY <1>1, UpdateScheduleTimes
<1>2. CASE ~UpdateSchedule(c)
  <2>1. UNCHANGED <<now, round, served, excused>>
    BY <1>2 DEF ServeCall, FindSchedule, SetEnabled, Snapshot, RemoveJob, Cancelled, DropSchedule,
                CreateSchedule, ScheduleJob, FindExecution, CreateRetry, QueueRetry, DeleteFlow,
                Return, store, OthersUnchanged
  <2>2. ASSUME NEW s \in Schedules, schedules'[s].exists
        PROVE  \/ schedules[s].exists /\ schedules'[s].nextRun = schedules[s].nextRun
               \/ schedules'[s].nextRun = now + 1
    <3>1. CASE UNCHANGED schedules
      BY <2>2, <3>1
    <3>2. CASE SetEnabled(c)
      <4> DEFINE enabled == call[c].kind = "enable"
                 s0 == Current(c)
      <4>1. UNCHANGED schedules \/ schedules' = [schedules EXCEPT ![s0].enabled = enabled]
        BY <3>2 DEF SetEnabled
      <4> HIDE DEF enabled, s0
      <4>2. schedules'[s].exists = schedules[s].exists
            /\ schedules'[s].nextRun = schedules[s].nextRun
        BY <4>1 DEF TypeOK
      <4> QED
        BY <2>2, <4>2
    <3>3. CASE DropSchedule(c)
      <4>1. schedules' = [schedules EXCEPT ![Current(c)] = Absent] /\ ~Absent.exists
        BY <3>3 DEF DropSchedule, Absent
      <4>2. schedules'[s] = schedules[s]
        BY <2>2, <4>1 DEF TypeOK
      <4> QED
        BY <2>2, <4>2
    <3>4. CASE CreateSchedule(c)
      <4> DEFINE new == ScheduleRow(call[c].flag, NextRun)
                 s0 == Current(c)
      <4>1. UNCHANGED schedules \/ schedules' = [schedules EXCEPT ![s0] = new]
        BY <3>4 DEF CreateSchedule
      <4>2. new.nextRun = now + 1
        BY DEF ScheduleRow, NextRun
      <4> HIDE DEF new, s0
      <4>3. schedules'[s] = schedules[s] \/ schedules'[s] = new
        BY <4>1 DEF TypeOK
      <4> QED
        BY <2>2, <4>2, <4>3
    <3>5. CASE DeleteFlow(c)
      <4>1. UNCHANGED schedules \/ schedules' = [x \in Schedules |-> Absent]
        BY <3>5 DEF DeleteFlow
      <4>2. ~Absent.exists
        BY DEF Absent
      <4> QED
        BY <2>2, <4>1, <4>2
    <3> QED
      BY <1>2, <3>1, <3>2, <3>3, <3>4, <3>5
      DEF ServeCall, FindSchedule, Snapshot, RemoveJob, Cancelled, ScheduleJob, FindExecution,
          CreateRetry, QueueRetry, Return, store
  <2>3. now \in Nat /\ \A s \in Schedules : schedules[s].nextRun \in Nat
    BY TimesAreIntegers
  <2> QED
    BY <2>1, <2>2, <2>3, CallStepTimes
<1> QED
  BY <1>1, <1>2

LEMMA TimesStep == TypeOK /\ TypeOK' /\ TimesInv /\ [Next]_vars => TimesInv'
<1> SUFFICES ASSUME TypeOK, TypeOK', TimesInv, [Next]_vars PROVE TimesInv'
  OBVIOUS
<1>1. now \in Nat /\ \A s \in Schedules : schedules[s].nextRun \in Nat
  BY TimesAreIntegers
<1>2. CASE UNCHANGED <<schedules, round, served, excused>> /\ now' \in {now, now + 1}
  BY <1>1, <1>2, CallStepTimes
<1>3. ASSUME NEW r \in Rounds, Watcher(r) \/ RoundFails(r) PROVE TimesInv'
  BY <1>3, WatcherTimes
<1>4. ASSUME NEW c \in Callers, NewCall(c) PROVE TimesInv'
  <2>1. PICK kind, ids, flag, exec : Begin(c, kind, ids, flag, exec)
    BY <1>4, Zenon
    DEF NewCall, CallCreate, CallUpdate, CallDelete, CallSetEnabled, CallRetry, CallDeleteFlow
  <2> QED
    BY <1>2, <2>1 DEF Begin, store
<1>5. ASSUME NEW c \in Callers, ServeCall(c) \/ CallRejected(c) PROVE TimesInv'
  BY <1>2, <1>5, ServeCallTimes DEF CallRejected
<1>6. ASSUME NEW j \in JobIds, Work(j) PROVE TimesInv'
  BY <1>2, <1>6 DEF Work, Promote, TakeJob, LoadRow, MarkRunning, CompleteJob, ThrowJob, JobRejected
<1>7. CASE Crash
  <2>1. \A r \in Rounds : /\ round'[r] = NoRound
                          /\ \A s \in Schedules : AtUpdate(r, s) => s \in excused'
    BY <1>7 DEF Crash, Unwritten, AtUpdate
  <2> QED
    BY <1>7, <2>1, RoundsEndTimes DEF Crash
<1>8. CASE Tick
  BY <1>2, <1>8 DEF Tick
<1>9. CASE UNCHANGED vars
  BY <1>2, <1>9 DEF vars
<1> QED
  BY <1>3, <1>4, <1>5, <1>6, <1>7, <1>8, <1>9 DEF Next

LEMMA TimesInit == Init => TimesInv
BY NoRoundType DEF Init, TimesInv, PastInv, OnceInv, Before

\* What AddScheduledJob is about to queue lies after all that has been queued.
LEMMA OnceStep ==
  TypeOK /\ TimesInv =>
    \A r \in Rounds : round[r].pc = "add" /\ Serving(r) \in served => round[r].cur \in excused
<1> SUFFICES ASSUME TypeOK, TimesInv, NEW r \in Rounds, round[r].pc = "add",
                    Serving(r) \in served, round[r].cur \notin excused
             PROVE  FALSE
  OBVIOUS
<1> DEFINE s == round[r].cur
<1>1. s \in round[r].todo /\ s \in Schedules /\ round[r].due[s] \in Minutes
  BY TimesAreIntegers DEF TypeOK
<1>2. Before(s, round[r].due[s])
  BY <1>1 DEF TimesInv, OnceInv, AtUpdate
<1>3. round[r].due[s] < round[r].due[s]
  BY <1>1, <1>2 DEF Before, Serving
<1>4. round[r].due[s] \in Nat
  BY <1>1, TimesAreIntegers
<1> QED
  BY <1>3, <1>4

\* The watcher queues a due time of a schedule a second time only after two rounds
\* overlapped on the schedule, a round ended before updateLastRun, or an update wrote
\* an older nextRun: for any schedules, rounds, calls, faults and crashes.
THEOREM DuplicatesHaveACause == Spec => DuplicateHasACause
<1>1. TypeOK /\ TimesInv /\ [Next]_vars =>
        [\A r \in Rounds :
           round[r].pc = "add" /\ round'[r].pc = "update" /\ Serving(r) \in served
             => round[r].cur \in excused]_vars
  BY OnceStep
<1> QED
  BY <1>1, InitTypes, TypesStep, TimesInit, TimesStep, PTL DEF Spec, DuplicateHasACause
-----------------------------------------------------------------------------
(***************************************************************************)
(* What a disable leaves in the queue.                                     *)
(***************************************************************************)

\* The ids of a call's list before the k-th.
IdsBefore(cl, k) == {cl.ids[i] : i \in {n \in 1..Len(cl.ids) : n < k}}

\* A disable on its way, and a retry that has found its execution.
Disabling(cl) == /\ cl.kind = "disable"
                 /\ cl.pc \in {"find", "write", "snapshot", "removing", "done"}
                 /\ cl.pc = "done" => cl.i > Len(cl.ids)
Retrying(cl) == cl.kind = "retry" /\ cl.pc \in {"create", "add"}

\* Nobody works on a schedule of S but c.
Spares(cl, S) == Ids(cl) \intersect S = {} /\ (Retrying(cl) => cl.sched \notin S)
Away(c, S) == /\ \A d \in Callers \ {c} : Spares(call[d], S)
              /\ \A r \in Rounds : round[r].todo \intersect S = {}

\* The jobs no worker has had since the call began: none of a schedule it is through
\* with, and of the one it is at only those it is still to remove.
Swept(cl) ==
  /\ Running \subseteq cl.ran
  /\ \A j \in JobIds : Queued(j) /\ j \notin cl.ran =>
       /\ cl.ok => jobs[j].sched \notin IdsBefore(cl, cl.i)
       /\ cl.pc = "removing" /\ jobs[j].sched = cl.ids[cl.i] => j \in cl.todo

DisableInv == \A c \in Callers : call[c].alone =>
                /\ Disabling(call[c]) /\ Away(c, Ids(call[c])) /\ Swept(call[c])

\* What of a call the others' steps leave alone: all that counts here, but that the
\* jobs workers have taken are added.
Same(p, q) ==
  /\ p.kind = q.kind /\ p.pc = q.pc /\ p.ids = q.ids /\ p.i = q.i /\ p.todo = q.todo
  /\ p.ok = q.ok /\ p.sched = q.sched /\ q.ran \subseteq p.ran

\* A call goes on with its list, or ends.
Onward(p, q) == /\ p.ids = q.ids \/ p.ids = <<>>
                /\ Retrying(p) => Retrying(q) /\ p.sched = q.sched
                /\ p.alone => q.alone

\* The jobs no worker has had are not of S, or as they were.
JobsFor(S, ran) ==
  \A j \in JobIds : j \notin ran =>
    /\ Locked(j)' => Locked(j)
    /\ Queued(j)' /\ jobs'[j].sched \in S => Queued(j) /\ jobs'[j].sched = jobs[j].sched

LEMMA IdsAre ==
  ASSUME NEW p, NEW q, p.ids = q.ids
  PROVE  Ids(p) = Ids(q) /\ \A k : IdsBefore(p, k) = IdsBefore(q, k)
BY DEF Ids, IdsBefore

LEMMA OnwardSpares ==
  ASSUME NEW p, NEW q, Onward(p, q), NEW S, Spares(q, S)
  PROVE  Spares(p, S)
<1>1. Ids(p) = Ids(q) \/ Ids(p) = {}
  BY DEF Onward, Ids
<1> QED
  BY <1>1 DEF Onward, Spares

LEMMA SparesAlike ==
  ASSUME NEW p, NEW q, p.ids = q.ids, p.kind = q.kind, p.pc = q.pc, p.sched = q.sched, NEW S,
         Spares(q, S)
  PROVE  Spares(p, S)
BY IdsAre DEF Spares, Retrying

\* Steps of others keep what is known of a disable that is alone.
LEMMA OthersKeep ==
  ASSUME TypeOK, NEW c \in Callers, DisableInv, call[c].alone, Same(call'[c], call[c]),
         \A d \in Callers \ {c} : Spares(call[d], Ids(call[c])) => Spares(call'[d], Ids(call[c])),
         \A r \in Rounds : \/ round'[r].todo \subseteq round[r].todo
                           \/ round'[r].todo \intersect Ids(call[c]) = {},
         JobsFor(Ids(call[c]), call'[c].ran)
  PROVE  Disabling(call'[c]) /\ Away(c, Ids(call[c]))' /\ Swept(call[c])'
<1> DEFINE p == call'[c]
           q == call[c]
           S == Ids(call[c])
<1>1. Disabling(q) /\ Away(c, S) /\ Swept(q)
  BY DEF DisableInv
<1>2. Ids(p) = S /\ \A k : IdsBefore(p, k) = IdsBefore(q, k)
  BY IdsAre DEF Same
<1>3. Disabling(p)
  BY <1>1 DEF Same, Disabling
<1>4. Away(c, Ids(call[c]))'
  <2>1. ASSUME NEW d \in Callers \ {c} PROVE Spares(call'[d], S)
    BY <1>1 DEF Away
  <2>2. ASSUME NEW r \in Rounds PROVE round'[r].todo \intersect S = {}
    BY <1>1 DEF Away
  <2> HIDE DEF S
  <2> QED
    BY <1>2, <2>1, <2>2 DEF Away, Spares, Retrying, Ids
<1>5. Swept(call[c])'
  <2>1. Running' \subseteq p.ran
    <3> SUFFICES ASSUME NEW j \in JobIds, Locked(j)' PROVE j \in p.ran
      BY DEF Running
    <3>1. Locked(j) => j \in p.ran
      BY <1>1 DEF Swept, Running, Same
    <3> QED
      BY <3>1 DEF JobsFor
  <2>2. ASSUME NEW j \in JobIds, Queued(j)', j \notin p.ran
        PROVE  /\ p.ok => jobs'[j].sched \notin IdsBefore(p, p.i)
               /\ p.pc = "removing" /\ jobs'[j].sched = p.ids[p.i] => j \in p.todo
    <3>1. j \notin q.ran
      BY <2>2 DEF Same
    <3>2. ASSUME jobs'[j].sched \in S
          PROVE  Queued(j) /\ jobs'[j].sched = jobs[j].sched
      BY <2>2, <3>2 DEF JobsFor
    <3>3. IdsBefore(p, p.i) \subseteq S
      BY <1>2 DEF IdsBefore, Ids
    <3>4. ASSUME p.ok, jobs'[j].sched \in IdsBefore(p, p.i) PROVE FALSE
      <4>1. Queued(j) /\ jobs[j].sched \in IdsBefore(q, q.i) /\ q.ok
        BY <1>2, <3>2, <3>3, <3>4 DEF Same
      <4> QED
        BY <1>1, <3>1, <4>1 DEF Swept
    <3>5. ASSUME p.pc = "removing", jobs'[j].sched = p.ids[p.i], jobs'[j].sched \in S
          PROVE  j \in p.todo
      <4>1. Queued(j) /\ jobs[j].sched = q.ids[q.i] /\ q.pc = "removing"
        BY <3>2, <3>5 DEF Same
      <4> QED
        BY <1>1, <3>1, <4>1 DEF Swept, Same
    <3>6. p.pc = "removing" => p.ids[p.i] \in S
      <4>1. q.pc = "removing" => q.i \in 1..Len(q.ids)
        BY <1>1 DEF TypeOK, AtAnId, Disabling, ListKinds
      <4> QED
        BY <4>1 DEF Same, Ids
    <3> QED
      BY <3>4, <3>5, <3>6
  <2> HIDE DEF S
  <2> QED
    BY <2>1, <2>2 DEF Swept, IdsBefore
<1> QED
  BY <1>3, <1>4, <1>5

-----------------------------------------------------------------------------
(* The jobs. *)

LEMMA OneJobFor ==
  ASSUME JobsType, NEW S, NEW ran, NEW j, NEW x, jobs' = [jobs EXCEPT ![j] = x],
         \/ j \in ran
         \/ x.state = "over"
         \/ x.state \in {"delayed", "waiting"} /\ x.sched \notin S
         \/ x.state \in {"delayed", "waiting"} /\ Queued(j) /\ x.sched = jobs[j].sched
         \/ x.state \in {"taken", "loaded", "active"} /\ Locked(j)
  PROVE  JobsFor(S, ran)
<1> SUFFICES ASSUME NEW k \in JobIds, k \notin ran
             PROVE  /\ jobs'[k].state \in {"taken", "loaded", "active"} => Locked(k)
                    /\ jobs'[k].state \in {"delayed", "waiting"} /\ jobs'[k].sched \in S =>
                         Queued(k) /\ jobs'[k].sched = jobs[k].sched
  BY DEF JobsFor, Queued, Locked
<1>1. CASE k # j
  <2>1. jobs'[k] = jobs[k]
    BY <1>1 DEF JobsType
  <2> QED
    BY <2>1 DEF Queued, Locked
<1>2. CASE k = j
  <2>1. jobs'[k] = x
    BY <1>2 DEF JobsType
  <2> QED
    BY <1>2, <2>1
<1> QED
  BY <1>1, <1>2

LEMMA SameJobsFor ==
  ASSUME NEW S, NEW ran, UNCHANGED jobs
  PROVE  JobsFor(S, ran)
BY DEF JobsFor, Queued, Locked

LEMMA QueueJobFor ==
  ASSUME JobsType, NEW s, NEW e, QueueJob(s, e), NEW S, s \notin S, NEW ran
  PROVE  JobsFor(S, ran)
<1> DEFINE x == [state |-> "waiting", sched |-> s, exec |-> e, row |-> NoRow, at |-> 0,
                 left |-> JobAttempts, stalled |-> 0]
<1>1. jobs' = [jobs EXCEPT ![FreeJob] = x] /\ x.state = "waiting" /\ x.sched = s
  BY DEF QueueJob
<1> HIDE DEF x
<1> QED
  BY <1>1, OneJobFor

LEMMA DelayedJobFor ==
  ASSUME JobsType, NEW s, NEW t, jobs' = [jobs EXCEPT ![FreeJob] = DelayedJob(s, t)],
         NEW S, s \notin S, NEW ran
  PROVE  JobsFor(S, ran)
<1> DEFINE x == DelayedJob(s, t)
<1>1. jobs' = [jobs EXCEPT ![FreeJob] = x] /\ x.state = "delayed" /\ x.sched = s
  BY DEF DelayedJob, NoJob
<1> HIDE DEF x
<1> QED
  BY <1>1, OneJobFor

\* Bull and the workers: what they change, a worker has had since, or it was queued.
LEMMA WorkFor ==
  ASSUME TypeOK, NEW c \in Callers, Running \subseteq call[c].ran, call[c].alone,
         NEW j \in JobIds, Work(j), NEW S
  PROVE  Same(call'[c], call[c]) /\ JobsFor(S, call'[c].ran)
<1>1. JobsType /\ call[c] \in Call /\ jobs[j] \in Job
  BY TypeParts DEF TypeOK
<1>2. CASE Promote(j)
  <2> DEFINE x == [jobs[j] EXCEPT !.state = "waiting", !.at = 0]
  <2>1. jobs' = [jobs EXCEPT ![j] = x]
    BY <1>1, <1>2 DEF Promote, JobsType
  <2>2. x.state = "waiting" /\ x.sched = jobs[j].sched /\ Queued(j) /\ UNCHANGED call
    BY <1>1, <1>2 DEF Promote, Job, Queued
  <2> HIDE DEF x
  <2>3. JobsFor(S, call'[c].ran)
    BY <1>1, <2>1, <2>2, OneJobFor
  <2> QED
    BY <2>2, <2>3 DEF Same
<1>3. CASE TakeJob(j)
  <2>1. call'[c] = [call[c] EXCEPT !.ran = @ \union {j}]
    BY <1>3 DEF TakeJob
  <2>2. Same(call'[c], call[c]) /\ j \in call'[c].ran
    BY <1>1, <2>1 DEF Same, Call
  <2>3. jobs' = [jobs EXCEPT ![j] = [jobs[j] EXCEPT !.state = "taken"]]
    BY <1>1, <1>3 DEF JobsType, TakeJob
  <2> QED
    BY <1>1, <2>2, <2>3, OneJobFor
<1>4. CASE LoadRow(j) \/ MarkRunning(j) \/ CompleteJob(j) \/ ThrowJob(j) \/ JobRejected(j)
  <2>1. UNCHANGED call /\ Locked(j)
    BY <1>4 DEF LoadRow, MarkRunning, CompleteJob, ThrowJob, JobRejected, Locked
  <2>2. j \in call'[c].ran
    BY <2>1 DEF Running
  <2>3. \E x : jobs' = [jobs EXCEPT ![j] = x]
    <3>1. CASE jobs' = Attempted(j)
      BY <3>1 DEF Attempted
    <3>2. ASSUME NEW e, jobs' = [jobs EXCEPT ![j].state = "loaded", ![j].row = e]
          PROVE  \E x : jobs' = [jobs EXCEPT ![j] = x]
      <4>1. jobs' = [jobs EXCEPT ![j] = [jobs[j] EXCEPT !.state = "loaded", !.row = e]]
        BY <1>1, <3>2 DEF JobsType
      <4> QED
        BY <4>1
    <3>3. CASE MarkRunning(j)
      <4>1. jobs' = [jobs EXCEPT ![j] = [jobs[j] EXCEPT !.state = "active"]]
        BY <1>1, <3>3 DEF JobsType, MarkRunning
      <4> QED
        BY <4>1
    <3>4. CASE LoadRow(j)
      BY <3>1, <3>2, <3>4 DEF LoadRow
    <3> QED
      BY <1>4, <3>1, <3>3, <3>4 DEF CompleteJob, ThrowJob, JobRejected
  <2>4. PICK x : jobs' = [jobs EXCEPT ![j] = x]
    BY <2>3
  <2>5. JobsFor(S, call'[c].ran)
    BY <1>1, <2>2, <2>4, OneJobFor
  <2> QED
    BY <2>1, <2>5 DEF Same
<1> QED
  BY <1>2, <1>3, <1>4 DEF Work

-----------------------------------------------------------------------------
(* The calls. *)

LEMMA NextIdIs ==
  ASSUME NEW cl \in Call, NEW ok \in BOOLEAN
  PROVE  LET x == NextId(cl, ok)
         IN  /\ x.kind = cl.kind /\ x.ids = cl.ids /\ x.sched = cl.sched /\ x.alone = cl.alone
             /\ x.ran = cl.ran /\ x.i = cl.i + 1 /\ x.todo = {} /\ (x.ok <=> cl.ok /\ ok)
             /\ x.pc \in {"find", "done"} /\ (x.pc = "done" <=> ~(cl.i < Len(cl.ids)))
<1> DEFINE i == cl.i + 1
           pc == IF cl.i < Len(cl.ids) THEN "find" ELSE "done"
           b == cl.ok /\ ok
           x == [cl EXCEPT !.i = i, !.pc = pc, !.todo = {}, !.ok = b]
<1>1. NextId(cl, ok) = x
  BY DEF NextId
<1>2. pc \in {"find", "done"} /\ (pc = "done" <=> ~(cl.i < Len(cl.ids))) /\ b \in BOOLEAN
  OBVIOUS
<1>3. b <=> cl.ok /\ ok
  OBVIOUS
<1>4. i = cl.i + 1
  OBVIOUS
<1> HIDE DEF i, pc, b
<1>5. /\ x.kind = cl.kind /\ x.ids = cl.ids /\ x.sched = cl.sched /\ x.alone = cl.alone
      /\ x.ran = cl.ran /\ x.i = i /\ x.todo = {} /\ x.ok = b /\ x.pc = pc
  BY <1>2 DEF Call
<1> HIDE DEF x
<1> QED
  BY <1>1, <1>2, <1>3, <1>4, <1>5

LEMMA DisturbIs ==
  ASSUME TypeOK, NEW S, NEW d \in Callers
  PROVE  LET x == Disturb(call, S)[d]
         IN  /\ x.ids = call[d].ids /\ x.kind = call[d].kind /\ x.pc = call[d].pc
             /\ x.sched = call[d].sched
             /\ x.alone => x = call[d] /\ Ids(call[d]) \intersect S = {}
<1>1. call[d] \in Call
  BY DEF TypeOK
<1>2. Disturb(call, S)[d] = IF Ids(call[d]) \intersect S # {} THEN [call[d] EXCEPT !.alone = FALSE]
                            ELSE call[d]
  BY DEF Disturb
<1>3. CASE Ids(call[d]) \intersect S # {}
  <2> DEFINE b == FALSE
             x == [call[d] EXCEPT !.alone = b]
  <2>1. Disturb(call, S)[d] = x /\ ~b
    BY <1>2, <1>3
  <2> HIDE DEF b
  <2>2. /\ x.ids = call[d].ids /\ x.kind = call[d].kind /\ x.pc = call[d].pc
        /\ x.sched = call[d].sched /\ x.alone = b
    BY <1>1 DEF Call
  <2> HIDE DEF x
  <2> QED
    BY <2>1, <2>2
<1>4. CASE Ids(call[d]) \intersect S = {}
  BY <1>2, <1>4
<1> QED
  BY <1>3, <1>4

\* A call begins: it disturbs who works on its schedules, and is alone if nobody does.
LEMMA BeginDisables ==
  ASSUME TypeOK, TypeOK', DisableInv, NEW d \in Callers, NEW kind, NEW ids, NEW flag, NEW exec,
         Begin(d, kind, ids, flag, exec)
  PROVE  DisableInv'
<1> DEFINE S == {ids[i] : i \in 1..Len(ids)}
           D == Disturb(call, S)
           ran == IF kind = "disable" THEN Running ELSE {}
           yes == TRUE
           alone == kind = "disable" /\ Alone(d, S)
           x == [NoCall EXCEPT !.kind = kind, !.pc = "find", !.ids = ids, !.flag = flag,
                   !.exec = exec, !.ok = yes, !.alone = alone, !.ran = ran]
<1>1. call' = [D EXCEPT ![d] = x] /\ UNCHANGED <<jobs, round>>
  BY DEF Begin, store
<1>2. /\ x.kind = kind /\ x.pc = "find" /\ x.ids = ids /\ x.i = 1 /\ x.alone = alone
      /\ x.ran = ran
  <2>1. NoCall \in Call /\ NoCall.i = 1
    BY NoCallType DEF GoodCalls, NoCall
  <2> HIDE DEF alone, ran, yes
  <2> QED
    BY <2>1 DEF Call
<1>3. /\ \A e \in Callers : call'[e] = IF e = d THEN x ELSE D[e]
      /\ \A e \in Callers : /\ D[e].ids = call[e].ids /\ D[e].kind = call[e].kind
                            /\ D[e].pc = call[e].pc /\ D[e].sched = call[e].sched
                            /\ D[e].alone => D[e] = call[e] /\ Ids(call[e]) \intersect S = {}
  <2>1. D = [e \in Callers |-> D[e]]
    BY DEF Disturb
  <2>2. \A e \in Callers : call'[e] = IF e = d THEN x ELSE D[e]
    <3> HIDE DEF D, x
    <3> QED
      BY <1>1, <2>1
  <2>3. ASSUME NEW e \in Callers
        PROVE  /\ D[e].ids = call[e].ids /\ D[e].kind = call[e].kind
               /\ D[e].pc = call[e].pc /\ D[e].sched = call[e].sched
               /\ D[e].alone => D[e] = call[e] /\ Ids(call[e]) \intersect S = {}
    BY DisturbIs
  <2> HIDE DEF D, x, S
  <2> QED
    BY <2>2, <2>3
<1>4. Ids(x) = S
  BY <1>2 DEF Ids
<1>5. ASSUME NEW e \in Callers, NEW T, Spares(call[e], T) PROVE Spares(D[e], T)
  <2>1. /\ D[e].ids = call[e].ids /\ D[e].kind = call[e].kind
        /\ D[e].pc = call[e].pc /\ D[e].sched = call[e].sched
    BY <1>3
  <2> HIDE DEF D
  <2> QED
    BY <1>5, <2>1, SparesAlike
<1> HIDE DEF x, D
<1> SUFFICES ASSUME NEW c \in Callers, call'[c].alone
             PROVE  Disabling(call'[c]) /\ Away(c, Ids(call[c]))' /\ Swept(call[c])'
  BY DEF DisableInv, Disabling
<1>6. CASE c = d
  <2>1. kind = "disable" /\ Alone(d, S) /\ call'[c] = x
    BY <1>2, <1>3, <1>6
  <2>2. Disabling(x)
    BY <1>2, <2>1 DEF Disabling
  <2>3. ASSUME NEW e \in Callers \ {d} PROVE Spares(call'[e], S)
    <3>1. Spares(call[e], S)
      BY <2>1 DEF Alone, Spares
    <3> QED
      BY <1>3, <1>5, <3>1
  <2>4. ASSUME NEW r \in Rounds PROVE round'[r].todo \intersect S = {}
    BY <1>1, <2>1 DEF Alone
  <2>5. Swept(call[c])'
    <3>1. Running' \subseteq x.ran
      BY <1>1, <1>2, <2>1 DEF Running, Locked
    <3>2. IdsBefore(x, x.i) = {}
      BY <1>2 DEF IdsBefore
    <3> QED
      BY <1>2, <2>1, <3>1, <3>2 DEF Swept, IdsBefore
  <2>6. Away(c, Ids(call[c]))'
    <3>1. Ids(call'[c]) = S
      BY <1>4, <2>1
    <3> HIDE DEF S
    <3> QED
      BY <1>6, <2>3, <2>4, <3>1 DEF Away, Spares, Retrying, Ids
  <2> QED
    BY <2>1, <2>2, <2>5, <2>6
<1>7. CASE c # d
  <2>1. call'[c] = call[c] /\ call[c].alone /\ Ids(call[c]) \intersect S = {}
    BY <1>3, <1>7
  <2>2. ASSUME NEW e \in Callers \ {c}, Spares(call[e], Ids(call[c]))
        PROVE  Spares(call'[e], Ids(call[c]))
    <3>1. CASE e = d
      <4>1. Ids(x) \intersect Ids(call[c]) = {} /\ ~Retrying(x)
        BY <1>2, <1>4, <2>1 DEF Retrying
      <4> QED
        BY <1>3, <3>1, <4>1 DEF Spares
    <3>2. CASE e # d
      BY <1>3, <1>5, <2>2, <3>2
    <3> QED
      BY <3>1, <3>2
  <2>3. Same(call'[c], call[c]) /\ JobsFor(Ids(call[c]), call'[c].ran)
    BY <1>1, <2>1, SameJobsFor DEF Same
  <2>4. \A r \in Rounds : round'[r].todo \subseteq round[r].todo
    BY <1>1
  <2> HIDE DEF S
  <2> QED
    BY <2>1, <2>2, <2>3, <2>4, OthersKeep
<1> QED
  BY <1>6, <1>7

\* The steps of a call that only it knows of, and what they do to the queue.
PlainStep(d) ==
  \/ FindSchedule(d) \/ UpdateSchedule(d) \/ SetEnabled(d) \/ Snapshot(d) \/ RemoveJob(d)
  \/ Cancelled(d) \/ DropSchedule(d) \/ CreateSchedule(d) \/ ScheduleJob(d) \/ CreateRetry(d)
  \/ QueueRetry(d) \/ DeleteFlow(d) \/ Return(d) \/ CallRejected(d)

LEMMA PlainOnward ==
  ASSUME TypeOK, NEW d \in Callers, PlainStep(d)
  PROVE  /\ UNCHANGED round
         /\ \A e \in Callers \ {d} : call'[e] = call[e]
         /\ Onward(call'[d], call[d])
<1>1. call[d] \in Call /\ call \in [Callers -> Call]
  BY DEF TypeOK
<1>2. UNCHANGED round
  BY DEF PlainStep, FindSchedule, UpdateSchedule, SetEnabled, Snapshot, RemoveJob, Cancelled,
         DropSchedule, CreateSchedule, ScheduleJob, CreateRetry, QueueRetry, DeleteFlow, Return,
         CallRejected, OthersUnchanged
<1>3. ASSUME NEW x, call' = [call EXCEPT ![d] = x], Onward(x, call[d])
      PROVE  /\ \A e \in Callers \ {d} : call'[e] = call[e]
             /\ Onward(call'[d], call[d])
  BY <1>1, <1>3
<1>4. ASSUME NEW ok \in BOOLEAN, Proceed(d, ok)
      PROVE  \E x : call' = [call EXCEPT ![d] = x] /\ Onward(x, call[d])
  <2>1. Onward(NextId(call[d], ok), call[d])
    BY <1>1, NextIdIs DEF Onward, Retrying
  <2> QED
    BY <1>4, <2>1 DEF Proceed
<1>5. ASSUME NEW pc, Goto(d, pc), pc \in {"create", "add"} => call[d].kind # "retry"
      PROVE  \E x : call' = [call EXCEPT ![d] = x] /\ Onward(x, call[d])
  <2> DEFINE x == [call[d] EXCEPT !.pc = pc]
  <2>1. /\ call' = [call EXCEPT ![d] = x] /\ x.ids = call[d].ids /\ x.alone = call[d].alone
        /\ x.pc = pc /\ x.kind = call[d].kind
    BY <1>1, <1>5 DEF Goto, Call
  <2> HIDE DEF x
  <2>2. Onward(x, call[d])
    BY <1>5, <2>1 DEF Onward, Retrying
  <2> QED
    BY <2>1, <2>2
<1>6. ASSUME FindSchedule(d) PROVE \E x : call' = [call EXCEPT ![d] = x] /\ Onward(x, call[d])
  <2>1. CASE Proceed(d, FALSE)
    BY <1>4, <2>1
  <2>2. CASE ~Proceed(d, FALSE)
    <3> DEFINE pc == IF call[d].kind = "delete" THEN "snapshot" ELSE "write"
               next == IF call[d].kind # "update" THEN 0
                       ELSE IF call[d].flag THEN NextRun ELSE schedules[Current(d)].nextRun
               x == [call[d] EXCEPT !.pc = pc, !.next = next]
    <3>1. call' = [call EXCEPT ![d] = x]
      BY <1>1, <1>6, <2>2 DEF FindSchedule
    <3>2. pc \in {"snapshot", "write"}
      OBVIOUS
    <3> HIDE DEF pc, next
    <3>3. x.ids = call[d].ids /\ x.alone = call[d].alone /\ x.pc = pc
      BY <1>1 DEF Call
    <3> HIDE DEF x
    <3>4. Onward(x, call[d])
      BY <3>2, <3>3 DEF Onward, Retrying
    <3> QED
      BY <3>1, <3>4
  <2> QED
    BY <2>1, <2>2
<1>7. ASSUME UpdateSchedule(d) \/ DropSchedule(d) \/ Cancelled(d) \/ ScheduleJob(d) \/ QueueRetry(d)
      PROVE  \E x : call' = [call EXCEPT ![d] = x] /\ Onward(x, call[d])
  <2>1. \/ \E ok \in BOOLEAN : Proceed(d, ok)
        \/ \E pc \in {"snapshot", "drop", "schedule"} : Goto(d, pc)
    <3>1. \A s \in Schedules : schedules[s].exists \in BOOLEAN
      BY DEF TypeOK
    <3>2. DropSchedule(d) \/ Cancelled(d) => Current(d) \in Schedules
      BY DEF TypeOK, Call, AtAnId, ListKinds, DropSchedule, Doing, Cancelled, Current
    <3> QED
      BY <1>7, <3>1, <3>2 DEF UpdateSchedule, DropSchedule, Cancelled, ScheduleJob, QueueRetry
  <2> QED
    BY <1>4, <1>5, <2>1
<1>8. ASSUME SetEnabled(d) PROVE \E x : call' = [call EXCEPT ![d] = x] /\ Onward(x, call[d])
  <2>1. CASE Proceed(d, FALSE)
    BY <1>4, <2>1
  <2>2. CASE Goto(d, "snapshot")
    BY <1>5, <2>2
  <2>3. ASSUME NEW next, call' = [call EXCEPT ![d].pc = "schedule", ![d].next = next]
        PROVE  \E x : call' = [call EXCEPT ![d] = x] /\ Onward(x, call[d])
    <3> DEFINE x == [call[d] EXCEPT !.pc = "schedule", !.next = next]
    <3>1. /\ call' = [call EXCEPT ![d] = x]
          /\ x.ids = call[d].ids /\ x.alone = call[d].alone /\ x.pc = "schedule"
      BY <1>1, <2>3 DEF Call
    <3> HIDE DEF x
    <3>2. Onward(x, call[d])
      BY <3>1 DEF Onward, Retrying
    <3> QED
      BY <3>1, <3>2
  <2> QED
    BY <1>8, <2>1, <2>2, <2>3 DEF SetEnabled
<1>9. ASSUME Snapshot(d) \/ RemoveJob(d)
      PROVE  \E x : call' = [call EXCEPT ![d] = x] /\ Onward(x, call[d])
  <2>1. CASE Proceed(d, FALSE)
    BY <1>4, <2>1
  <2>2. ASSUME NEW j, call' = [call EXCEPT ![d].todo = @ \ {j}], call[d].pc = "removing"
        PROVE  \E x : call' = [call EXCEPT ![d] = x] /\ Onward(x, call[d])
    <3> DEFINE x == [call[d] EXCEPT !.todo = @ \ {j}]
    <3>1. /\ call' = [call EXCEPT ![d] = x]
          /\ x.ids = call[d].ids /\ x.alone = call[d].alone /\ x.pc = call[d].pc
      BY <1>1, <2>2 DEF Call
    <3> HIDE DEF x
    <3>2. Onward(x, call[d])
      BY <2>2, <3>1 DEF Onward, Retrying
    <3> QED
      BY <3>1, <3>2
  <2>3. ASSUME NEW todo, call' = [call EXCEPT ![d].todo = todo, ![d].pc = "removing"]
        PROVE  \E x : call' = [call EXCEPT ![d] = x] /\ Onward(x, call[d])
    <3> DEFINE x == [call[d] EXCEPT !.todo = todo, !.pc = "removing"]
    <3>1. /\ call' = [call EXCEPT ![d] = x]
          /\ x.ids = call[d].ids /\ x.alone = call[d].alone /\ x.pc = "removing"
      BY <1>1, <2>3 DEF Call
    <3> HIDE DEF x
    <3>2. Onward(x, call[d])
      BY <3>1 DEF Onward, Retrying
    <3> QED
      BY <3>1, <3>2
  <2> QED
    BY <1>9, <2>1, <2>2, <2>3 DEF Snapshot, RemoveJob
<1>10. ASSUME CreateSchedule(d) \/ DeleteFlow(d)
       PROVE  \E x : call' = [call EXCEPT ![d] = x] /\ Onward(x, call[d])
  <2>1. ASSUME NEW next, call' = [call EXCEPT ![d].pc = "schedule", ![d].next = next]
        PROVE  \E x : call' = [call EXCEPT ![d] = x] /\ Onward(x, call[d])
    <3> DEFINE x == [call[d] EXCEPT !.pc = "schedule", !.next = next]
    <3>1. /\ call' = [call EXCEPT ![d] = x]
          /\ x.ids = call[d].ids /\ x.alone = call[d].alone /\ x.pc = "schedule"
      BY <1>1, <2>1 DEF Call
    <3> HIDE DEF x
    <3>2. Onward(x, call[d])
      BY <3>1 DEF Onward, Retrying
    <3> QED
      BY <3>1, <3>2
  <2>2. call[d].kind # "retry"
    BY <1>10 DEF CreateSchedule, DeleteFlow
  <2>3. flow \in BOOLEAN
    BY DEF TypeOK
  <2> QED
    BY <1>4, <1>5, <1>10, <2>1, <2>2, <2>3 DEF CreateSchedule, DeleteFlow
<1>11. ASSUME CreateRetry(d) PROVE \E x : call' = [call EXCEPT ![d] = x] /\ Onward(x, call[d])
  <2>1. CASE Proceed(d, FALSE)
    BY <1>4, <2>1
  <2>2. CASE ~Proceed(d, FALSE)
    <3> DEFINE e == FreeRow
               x == [call[d] EXCEPT !.pc = "add", !.exec = e]
    <3>1. call' = [call EXCEPT ![d] = x]
      BY <1>1, <1>11, <2>2 DEF CreateRetry
    <3>2. Retrying(call[d])
      BY <1>11 DEF CreateRetry, Doing, Retrying
    <3> HIDE DEF e
    <3>3. x.ids = call[d].ids /\ x.alone = call[d].alone /\ x.sched = call[d].sched
      BY <1>1 DEF Call
    <3> HIDE DEF x
    <3>4. Onward(x, call[d])
      BY <3>2, <3>3 DEF Onward
    <3> QED
      BY <3>1, <3>4
  <2> QED
    BY <2>1, <2>2
<1>12. ASSUME Return(d) PROVE \E x : call' = [call EXCEPT ![d] = x] /\ Onward(x, call[d])
  <2>1. Onward(NoCall, call[d])
    BY DEF Onward, Retrying, NoCall
  <2> QED
    BY <1>12, <2>1 DEF Return
<1>13. ASSUME CallRejected(d) PROVE \E x : call' = [call EXCEPT ![d] = x] /\ Onward(x, call[d])
  BY <1>4, <1>13 DEF CallRejected
<1> QED
  BY <1>2, <1>3, <1>6, <1>7, <1>8, <1>9, <1>10, <1>11, <1>12, <1>13 DEF PlainStep

LEMMA PlainJobsFor ==
  ASSUME TypeOK, NEW d \in Callers, PlainStep(d), NEW S, Spares(call[d], S), NEW ran
  PROVE  JobsFor(S, ran)
<1>1. JobsType
  BY TypeParts
<1>2. CASE UNCHANGED jobs
  BY <1>2, SameJobsFor
<1>3. CASE RemoveJob(d)
  <2>1. PICK j : jobs' = [jobs EXCEPT ![j] = Over] \/ UNCHANGED jobs
    BY <1>3 DEF RemoveJob
  <2>2. Over.state = "over"
    BY OverType
  <2> QED
    BY <1>1, <1>2, <2>1, <2>2, OneJobFor
<1>4. CASE ScheduleJob(d)
  <2>1. Current(d) \in Ids(call[d])
    BY <1>4 DEF TypeOK, AtAnId, ScheduleJob, Current, Ids
  <2>2. Current(d) \notin S
    BY <2>1 DEF Spares
  <2> QED
    BY <1>1, <1>2, <1>4, <2>2, DelayedJobFor DEF ScheduleJob
<1>5. CASE QueueRetry(d)
  <2>1. call[d].sched \notin S
    BY <1>5 DEF QueueRetry, Doing, Spares, Retrying
  <2> QED
    BY <1>1, <1>5, <2>1, QueueJobFor DEF QueueRetry
<1> QED
  BY <1>2, <1>3, <1>4, <1>5
  DEF PlainStep, FindSchedule, UpdateSchedule, SetEnabled, Snapshot, Cancelled, DropSchedule,
      CreateSchedule, CreateRetry, DeleteFlow, Return, CallRejected, store

\* The steps of a disable itself: it has swept an id when nothing is left to remove.
LEMMA OwnStep ==
  ASSUME TypeOK, DisableInv, NEW c \in Callers, PlainStep(c) \/ FindExecution(c),
         call[c].alone, call'[c].alone
  PROVE  Disabling(call'[c]) /\ Away(c, Ids(call[c]))' /\ Swept(call[c])'
<1> DEFINE q == call[c]
           p == call'[c]
<1>1. /\ q \in Call /\ call \in [Callers -> Call] /\ JobsType
      /\ Disabling(q) /\ Away(c, Ids(q)) /\ Swept(q)
  BY TypeParts DEF TypeOK, DisableInv
<1>2. FindSchedule(c) \/ SetEnabled(c) \/ Snapshot(c) \/ RemoveJob(c) \/ Cancelled(c) \/ Return(c)
      \/ CallRejected(c)
  BY <1>1
  DEF PlainStep, Disabling, UpdateSchedule, DropSchedule, CreateSchedule, ScheduleJob, CreateRetry,
      QueueRetry, DeleteFlow, FindExecution, Doing
<1>3. PlainStep(c) /\ q.kind = "disable" /\ (q.pc # "done" => q.i \in 1..Len(q.ids))
  BY <1>1, <1>2 DEF PlainStep, Disabling, TypeOK, AtAnId, ListKinds
<1>4. UNCHANGED round /\ \A d \in Callers \ {c} : call'[d] = call[d]
  BY <1>3, PlainOnward
<1>5. ASSUME p.ids = q.ids PROVE Away(c, Ids(call[c]))'
  <2>1. Ids(p) = Ids(q)
    BY <1>5, IdsAre
  <2>2. \A d \in Callers \ {c} : Spares(call'[d], Ids(q))
    BY <1>1, <1>4 DEF Away
  <2>3. \A r \in Rounds : round'[r].todo \intersect Ids(q) = {}
    BY <1>1, <1>4 DEF Away
  <2> QED
    BY <2>1, <2>2, <2>3 DEF Away, Spares, Retrying, Ids
\* The call goes on to the next id, if it has been successful with this one.
<1>6. ASSUME NEW ok \in BOOLEAN, Proceed(c, ok), UNCHANGED jobs,
             ok => \A j \in JobIds : Queued(j) /\ jobs[j].sched = q.ids[q.i] => j \in q.ran,
             q.pc # "done"
      PROVE  Disabling(p) /\ Away(c, Ids(call[c]))' /\ Swept(call[c])'
  <2>1. /\ p.kind = q.kind /\ p.ids = q.ids /\ p.ran = q.ran /\ p.i = q.i + 1
        /\ p.ok <=> q.ok /\ ok
        /\ p.pc \in {"find", "done"} /\ (p.pc = "done" <=> ~(q.i < Len(q.ids)))
    <3>1. p = NextId(q, ok)
      BY <1>1, <1>6 DEF Proceed
    <3> QED
      BY <1>1, <3>1, NextIdIs
  <2>2. q.i \in Nat /\ Len(q.ids) \in Nat
    BY <1>1 DEF Call
  <2>3. Disabling(p)
    BY <1>3, <2>1, <2>2 DEF Disabling
  <2>4. IdsBefore(p, p.i) \subseteq IdsBefore(q, q.i) \union {q.ids[q.i]}
    BY <2>1, <2>2 DEF IdsBefore
  <2>5. Swept(call[c])'
    <3>1. Running' \subseteq p.ran
      BY <1>1, <1>6, <2>1 DEF Swept, Running, Locked
    <3>2. ASSUME NEW j \in JobIds, Queued(j), j \notin p.ran, p.ok
          PROVE  jobs[j].sched \notin IdsBefore(p, p.i)
      <4>1. jobs[j].sched \notin IdsBefore(q, q.i) /\ jobs[j].sched # q.ids[q.i]
        BY <1>1, <1>6, <2>1, <3>2 DEF Swept
      <4> QED
        BY <2>4, <4>1
    <3>3. p.pc # "removing"
      BY <2>1
    <3> QED
      BY <1>6, <3>1, <3>2, <3>3 DEF Swept, Queued, IdsBefore
  <2> QED
    BY <1>5, <2>1, <2>3, <2>5
\* The call goes on with the same id.
<1>7. ASSUME p.kind = q.kind, p.ids = q.ids, p.ran = q.ran, p.i = q.i, p.ok = q.ok,
             p.pc \in {"find", "write", "snapshot", "removing"},
             \A j \in JobIds : /\ Locked(j)' => Locked(j)
                               /\ Queued(j)' => Queued(j) /\ jobs'[j].sched = jobs[j].sched,
             p.pc = "removing" => \A j \in JobIds :
               Queued(j)' /\ jobs[j].sched = q.ids[q.i] /\ j \notin q.ran => j \in p.todo
      PROVE  Disabling(p) /\ Away(c, Ids(call[c]))' /\ Swept(call[c])'
  <2>1. Disabling(p)
    BY <1>3, <1>7 DEF Disabling
  <2>2. IdsBefore(p, p.i) = IdsBefore(q, q.i)
    BY <1>7 DEF IdsBefore
  <2>3. Running' \subseteq p.ran
    BY <1>1, <1>7 DEF Swept, Running
  <2>4. ASSUME NEW j \in JobIds, Queued(j)', j \notin p.ran
        PROVE  /\ p.ok => jobs'[j].sched \notin IdsBefore(p, p.i)
               /\ p.pc = "removing" /\ jobs'[j].sched = p.ids[p.i] => j \in p.todo
    <3>1. Queued(j) /\ jobs'[j].sched = jobs[j].sched /\ j \notin q.ran
      BY <1>7, <2>4
    <3>2. q.ok => jobs[j].sched \notin IdsBefore(q, q.i)
      BY <1>1, <3>1 DEF Swept
    <3> QED
      BY <1>7, <2>2, <2>4, <3>1, <3>2
  <2>5. Swept(call[c])'
    BY <2>3, <2>4 DEF Swept, IdsBefore
  <2> QED
    BY <1>5, <1>7, <2>1, <2>5
<1>8. CASE UNCHANGED jobs /\ \E ok \in BOOLEAN : Proceed(c, ok) /\ ~ok /\ q.pc # "done"
  BY <1>6, <1>8
<1>9. CASE FindSchedule(c) \/ SetEnabled(c)
  <2>1. UNCHANGED jobs /\ q.pc # "done"
    BY <1>9 DEF FindSchedule, SetEnabled, Doing, store
  <2>2. CASE Proceed(c, FALSE)
    BY <1>8, <2>1, <2>2
  <2>3. CASE ~Proceed(c, FALSE)
    <3>1. /\ p.kind = q.kind /\ p.ids = q.ids /\ p.ran = q.ran /\ p.i = q.i /\ p.ok = q.ok
          /\ p.pc \in {"write", "snapshot"}
      <4>1. CASE FindSchedule(c)
        <5> DEFINE next == 0
                   pc == "write"
        <5>1. p = [q EXCEPT !.pc = pc, !.next = next]
          BY <1>1, <1>3, <2>3, <4>1 DEF FindSchedule
        <5> HIDE DEF next
        <5> QED
          BY <1>1, <5>1 DEF Call
      <4>2. CASE SetEnabled(c)
        <5>1. p = [q EXCEPT !.pc = "snapshot"]
          BY <1>1, <1>3, <2>3, <4>2 DEF SetEnabled, Goto
        <5> QED
          BY <1>1, <5>1 DEF Call
      <4> QED
        BY <1>9, <4>1, <4>2
    <3> QED
      BY <1>7, <2>1, <3>1 DEF Queued, Locked
  <2> QED
    BY <2>2, <2>3
<1>10. CASE Snapshot(c)
  <2> DEFINE todo == JobsToCancel(Current(c))
  <2>1. UNCHANGED jobs /\ p = [q EXCEPT !.todo = todo, !.pc = "removing"]
    BY <1>1, <1>10 DEF Snapshot, store
  <2>2. \A j \in JobIds : Queued(j) /\ jobs[j].sched = q.ids[q.i] => j \in todo
    BY DEF JobsToCancel, Current
  <2> HIDE DEF todo
  <2>3. /\ p.kind = q.kind /\ p.ids = q.ids /\ p.ran = q.ran /\ p.i = q.i /\ p.ok = q.ok
        /\ p.pc = "removing" /\ p.todo = todo
    BY <1>1, <2>1 DEF Call
  <2> QED
    BY <1>7, <2>1, <2>2, <2>3 DEF Queued, Locked
<1>11. CASE RemoveJob(c)
  <2>1. CASE UNCHANGED jobs /\ Proceed(c, FALSE)
    BY <1>8, <1>11, <2>1 DEF RemoveJob
  <2>2. ASSUME NEW j, call' = [call EXCEPT ![c].todo = @ \ {j}], jobs' = [jobs EXCEPT ![j] = Over],
               q.pc = "removing"
        PROVE  Disabling(p) /\ Away(c, Ids(call[c]))' /\ Swept(call[c])'
    <3>1. p = [q EXCEPT !.todo = @ \ {j}]
      BY <1>1, <2>2
    <3>2. /\ p.kind = q.kind /\ p.ids = q.ids /\ p.ran = q.ran /\ p.i = q.i /\ p.ok = q.ok
          /\ p.pc = "removing" /\ p.todo = q.todo \ {j}
      BY <1>1, <2>2, <3>1 DEF Call
    <3>3. \A k \in JobIds : k # j => jobs'[k] = jobs[k]
      BY <1>1, <2>2 DEF JobsType
    <3>4. j \in JobIds => jobs'[j].state = "over"
      BY <1>1, <2>2, OverType DEF JobsType
    <3>5. \A k \in JobIds : /\ Locked(k)' => Locked(k)
                            /\ Queued(k)' => k # j /\ Queued(k) /\ jobs'[k].sched = jobs[k].sched
      BY <3>3, <3>4 DEF Queued, Locked
    <3>6. \A k \in JobIds :
            Queued(k)' /\ jobs[k].sched = q.ids[q.i] /\ k \notin q.ran => k \in p.todo
      BY <1>1, <2>2, <3>2, <3>5 DEF Swept
    <3> QED
      BY <1>7, <3>2, <3>5, <3>6
  <2> QED
    BY <1>11, <2>1, <2>2 DEF RemoveJob
<1>12. CASE Cancelled(c)
  <2>1. q.pc = "removing" /\ q.todo = {} /\ UNCHANGED jobs
    BY <1>12 DEF Cancelled, store
  <2>2. Proceed(c, schedules[Current(c)].exists)
    BY <1>3, <1>12 DEF Cancelled
  <2>3. schedules[Current(c)].exists \in BOOLEAN
    <3>1. Current(c) \in Schedules
      BY <1>1, <1>3, <2>1 DEF Current, Call
    <3> QED
      BY <3>1 DEF TypeOK
  <2>4. \A j \in JobIds : Queued(j) /\ jobs[j].sched = q.ids[q.i] => j \in q.ran
    BY <1>1, <2>1 DEF Swept
  <2> QED
    BY <1>6, <2>1, <2>2, <2>3, <2>4
<1>13. CASE Return(c)
  BY <1>1, <1>13 DEF Return, NoCall
<1>14. CASE CallRejected(c)
  BY <1>8, <1>14 DEF CallRejected
<1> QED
  BY <1>2, <1>9, <1>10, <1>11, <1>12, <1>13, <1>14

\* A call's step keeps what is known of the disables that are alone: its own, and those
\* of the others, on whose schedules it does not work.
LEMMA PlainDisables ==
  ASSUME TypeOK, DisableInv, NEW d \in Callers, PlainStep(d)
  PROVE  DisableInv'
<1> SUFFICES ASSUME NEW c \in Callers, call'[c].alone
             PROVE  Disabling(call'[c]) /\ Away(c, Ids(call[c]))' /\ Swept(call[c])'
  BY DEF DisableInv, Disabling
<1>1. /\ UNCHANGED round /\ \A e \in Callers \ {d} : call'[e] = call[e]
      /\ Onward(call'[d], call[d])
  BY PlainOnward
<1>2. CASE c # d
  <2>1. call'[c] = call[c] /\ call[c].alone
    BY <1>1, <1>2
  <2>2. Spares(call[d], Ids(call[c]))
    BY <1>2, <2>1 DEF DisableInv, Away
  <2>3. Same(call'[c], call[c]) /\ JobsFor(Ids(call[c]), call'[c].ran)
    BY <2>1, <2>2, PlainJobsFor DEF Same
  <2>4. ASSUME NEW e \in Callers \ {c}, Spares(call[e], Ids(call[c]))
        PROVE  Spares(call'[e], Ids(call[c]))
    BY <1>1, <2>4, OnwardSpares
  <2> QED
    BY <1>1, <2>1, <2>3, <2>4, OthersKeep
<1>3. CASE c = d
  <2>1. call[c].alone
    BY <1>1, <1>3 DEF Onward
  <2> QED
    BY <1>3, <2>1, OwnStep
<1> QED
  BY <1>2, <1>3

\* A retry has found its execution: it disturbs who works on the schedule.
LEMMA RetryDisables ==
  ASSUME TypeOK, DisableInv, NEW d \in Callers, FindExecution(d)
  PROVE  DisableInv'
<1> SUFFICES ASSUME NEW c \in Callers, call'[c].alone
             PROVE  Disabling(call'[c]) /\ Away(c, Ids(call[c]))' /\ Swept(call[c])'
  BY DEF DisableInv, Disabling
<1>1. /\ call \in [Callers -> Call] /\ call[d] \in Call
      /\ call[d].kind = "retry" /\ call[d].ids = <<>>
      /\ UNCHANGED <<round, jobs>>
  BY DEF TypeOK, AtAnId, FindExecution, Doing, OthersUnchanged, store
<1>2. Ids(call[d]) = {}
  BY <1>1 DEF Ids
<1> DEFINE s == rows[call[d].exec].sched
           D == Disturb(call, {s})
<1>3. \/ call' = [call EXCEPT ![d] = NextId(call[d], FALSE)]
      \/ call' = [D EXCEPT ![d].pc = "create", ![d].sched = s, ![d].exec = NoRow]
  BY DEF FindExecution, Proceed
<1>4. CASE call' = [call EXCEPT ![d] = NextId(call[d], FALSE)]
  <2> DEFINE x == NextId(call[d], FALSE)
  <2>1. /\ x.ids = call[d].ids /\ x.alone = call[d].alone
        /\ x.pc \in {"find", "done"} /\ x.kind = "retry"
    BY <1>1, NextIdIs
  <2>2. \A e \in Callers : call'[e] = IF e = d THEN x ELSE call[e]
    BY <1>1, <1>4
  <2> HIDE DEF x
  <2>3. c # d /\ call'[c] = call[c] /\ call[c].alone
    BY <1>1, <2>1, <2>2 DEF DisableInv, Disabling
  <2>4. Same(call'[c], call[c]) /\ JobsFor(Ids(call[c]), call'[c].ran)
    BY <1>1, <2>3, SameJobsFor DEF Same
  <2>5. ASSUME NEW e \in Callers \ {c}, Spares(call[e], Ids(call[c]))
        PROVE  Spares(call'[e], Ids(call[c]))
    <3>1. Onward(x, call[d])
      BY <2>1 DEF Onward, Retrying
    <3> QED
      BY <2>2, <2>5, <3>1, OnwardSpares
  <2> QED
    BY <1>1, <2>3, <2>4, <2>5, OthersKeep
<1>5. CASE call' = [D EXCEPT ![d].pc = "create", ![d].sched = s, ![d].exec = NoRow]
  <2>1. ASSUME NEW e \in Callers
        PROVE  /\ D[e].ids = call[e].ids /\ D[e].kind = call[e].kind
               /\ D[e].pc = call[e].pc /\ D[e].sched = call[e].sched
               /\ D[e].alone => D[e] = call[e] /\ Ids(call[e]) \intersect {s} = {}
    BY DisturbIs
  <2>2. D \in [Callers -> GoodCalls]
    BY TypeParts, DisturbType
  <2> DEFINE x == [D[d] EXCEPT !.pc = "create", !.sched = s, !.exec = NoRow]
  <2> HIDE DEF D, s
  <2>3. \A e \in Callers : call'[e] = IF e = d THEN x ELSE D[e]
    BY <1>5, <2>2
  <2>4. x.ids = call[d].ids /\ x.sched = s /\ x.alone = D[d].alone
    BY <2>1, <2>2 DEF GoodCalls, Call
  <2> HIDE DEF x
  <2>5. c # d
    BY <1>1, <2>1, <2>3, <2>4 DEF DisableInv, Disabling
  <2>6. call'[c] = call[c] /\ call[c].alone /\ s \notin Ids(call[c])
    BY <2>1, <2>3, <2>5
  <2>7. Same(call'[c], call[c]) /\ JobsFor(Ids(call[c]), call'[c].ran)
    BY <1>1, <2>6, SameJobsFor DEF Same
  <2>8. ASSUME NEW e \in Callers \ {c}, Spares(call[e], Ids(call[c]))
        PROVE  Spares(call'[e], Ids(call[c]))
    <3>1. CASE e = d
      <4>1. Ids(x) = {}
        BY <1>2, <2>4, IdsAre
      <4> QED
        BY <2>3, <2>4, <2>6, <3>1, <4>1 DEF Spares
    <3>2. CASE e # d
      BY <2>1, <2>3, <2>8, <3>2, SparesAlike
    <3> QED
      BY <3>1, <3>2
  <2> QED
    BY <1>1, <2>6, <2>7, <2>8, OthersKeep
<1> QED
  BY <1>3, <1>4, <1>5

----------------------------------------------------------------------------
(* The watcher, and the whole. *)

LEMMA WatcherDisables ==
  ASSUME TypeOK, DisableInv, NEW r \in Rounds, Watcher(r) \/ RoundFails(r)
  PROVE  DisableInv'
<1> SUFFICES ASSUME NEW c \in Callers, call'[c].alone
             PROVE  Disabling(call'[c]) /\ Away(c, Ids(call[c]))' /\ Swept(call[c])'
  BY DEF DisableInv, Disabling
<1>1. JobsType /\ round \in [Rounds -> Round] /\ round[r] \in Round
  BY TypeParts DEF TypeOK
<1>2. CASE StartRound(r)
  <2> DEFINE x == [NoRound EXCEPT !.pc = "create", !.todo = DueSchedules,
                                  !.due = [s \in Schedules |-> schedules[s].nextRun]]
  <2>1. round' = [round EXCEPT ![r] = x] /\ call' = Disturb(call, DueSchedules) /\ UNCHANGED jobs
    BY <1>2 DEF StartRound, store
  <2>2. x.todo = DueSchedules
    BY DEF NoRound
  <2> HIDE DEF x
  <2>3. \A q \in Rounds : round'[q].todo = IF q = r THEN DueSchedules ELSE round[q].todo
    BY <1>1, <2>1, <2>2
  <2>4. ASSUME NEW e \in Callers
        PROVE  /\ call'[e].ids = call[e].ids /\ call'[e].kind = call[e].kind
               /\ call'[e].pc = call[e].pc /\ call'[e].sched = call[e].sched
               /\ call'[e].alone => call'[e] = call[e] /\ Ids(call[e]) \intersect DueSchedules = {}
    BY <2>1, DisturbIs
  <2>5. call'[c] = call[c] /\ call[c].alone /\ Ids(call[c]) \intersect DueSchedules = {}
    BY <2>4
  <2>6. Same(call'[c], call[c]) /\ JobsFor(Ids(call[c]), call'[c].ran)
    BY <2>1, <2>5, SameJobsFor DEF Same
  <2>7. \A q \in Rounds : \/ round'[q].todo \subseteq round[q].todo
                          \/ round'[q].todo \intersect Ids(call[c]) = {}
    BY <2>3, <2>5
  <2>8. ASSUME NEW e \in Callers \ {c}, Spares(call[e], Ids(call[c]))
        PROVE  Spares(call'[e], Ids(call[c]))
    BY <2>4, <2>8, SparesAlike
  <2> QED
    BY <2>5, <2>6, <2>7, <2>8, OthersKeep
<1>3. CASE ~StartRound(r)
  <2>1. UNCHANGED call
    BY <1>3 DEF Watcher, ExecuteSchedule, AddScheduledJob, UpdateLastRun, RoundRejected, RoundFails
  <2>2. \A q \in Rounds : round'[q].todo \subseteq round[q].todo
    <3>1. ASSUME NEW x, round' = [round EXCEPT ![r] = x], x.todo \subseteq round[r].todo
          PROVE  \A q \in Rounds : round'[q].todo \subseteq round[q].todo
      BY <1>1, <3>1
    <3>2. CASE ExecuteSchedule(r)
      <4>1. PICK s : round' = [round EXCEPT ![r].pc = "add", ![r].cur = s, ![r].exec = FreeRow]
        BY <3>2 DEF ExecuteSchedule
      <4> DEFINE e == FreeRow
                 x == [round[r] EXCEPT !.pc = "add", !.cur = s, !.exec = e]
      <4>2. round' = [round EXCEPT ![r] = x]
        BY <1>1, <4>1
      <4> HIDE DEF e
      <4>3. x.todo = round[r].todo
        BY <1>1 DEF Round
      <4> QED
        BY <3>1, <4>2, <4>3
    <3>3. CASE AddScheduledJob(r)
      <4> DEFINE x == [round[r] EXCEPT !.pc = "update", !.exec = NoRow]
      <4>1. round' = [round EXCEPT ![r] = x] /\ x.todo = round[r].todo
        BY <1>1, <3>3 DEF AddScheduledJob, Round
      <4> QED
        BY <3>1, <4>1
    <3>4. CASE UpdateLastRun(r)
      <4>1. RoundAfter(round[r]).todo \subseteq round[r].todo
        BY <1>1, RoundAfterType
      <4> QED
        BY <3>1, <3>4, <4>1 DEF UpdateLastRun
    <3>5. CASE RoundRejected(r) \/ RoundFails(r)
      BY <3>1, <3>5, NoRoundType DEF RoundRejected, RoundFails
    <3> QED
      BY <1>3, <3>2, <3>3, <3>4, <3>5 DEF Watcher
  <2>3. call[c].alone /\ Same(call'[c], call[c])
    BY <2>1 DEF Same
  <2>4. JobsFor(Ids(call[c]), call'[c].ran)
    <3>1. CASE AddScheduledJob(r)
      <4>1. round[r].cur \in round[r].todo
        BY <3>1 DEF TypeOK, AddScheduledJob
      <4>2. round[r].cur \notin Ids(call[c])
        BY <2>3, <4>1 DEF DisableInv, Away
      <4> QED
        BY <1>1, <3>1, <4>2, QueueJobFor DEF AddScheduledJob
    <3>2. CASE ~AddScheduledJob(r)
      <4>1. UNCHANGED jobs
        BY <1>3, <3>2 DEF Watcher, ExecuteSchedule, UpdateLastRun, RoundRejected, RoundFails, store
      <4> QED
        BY <4>1, SameJobsFor
    <3> QED
      BY <3>1, <3>2
  <2> QED
    BY <2>1, <2>2, <2>3, <2>4, OthersKeep
<1> QED
  BY <1>2, <1>3

LEMMA WorkDisables ==
  ASSUME TypeOK, DisableInv, NEW j \in JobIds, Work(j)
  PROVE  DisableInv'
<1> SUFFICES ASSUME NEW c \in Callers, call'[c].alone
             PROVE  Disabling(call'[c]) /\ Away(c, Ids(call[c]))' /\ Swept(call[c])'
  BY DEF DisableInv, Disabling
<1>1. \A e \in Callers : call[e] \in Call
  BY DEF TypeOK
<1>2. UNCHANGED round
  BY DEF Work, Promote, TakeJob, LoadRow, MarkRunning, CompleteJob, ThrowJob, JobRejected
<1>3. ASSUME NEW e \in Callers
      PROVE  /\ call'[e].ids = call[e].ids /\ call'[e].kind = call[e].kind
             /\ call'[e].pc = call[e].pc /\ call'[e].sched = call[e].sched
             /\ call'[e].alone = call[e].alone
  <2>1. call'[e] = call[e] \/ call'[e] = [call[e] EXCEPT !.ran = @ \union {j}]
    BY DEF Work, Promote, TakeJob, LoadRow, MarkRunning, CompleteJob, ThrowJob, JobRejected
  <2> QED
    BY <1>1, <2>1 DEF Call
<1>4. call[c].alone /\ Running \subseteq call[c].ran
  BY <1>3 DEF DisableInv, Swept
<1>5. Same(call'[c], call[c]) /\ JobsFor(Ids(call[c]), call'[c].ran)
  BY <1>4, WorkFor
<1>6. ASSUME NEW e \in Callers \ {c}, Spares(call[e], Ids(call[c]))
      PROVE  Spares(call'[e], Ids(call[c]))
  BY <1>3, <1>6, SparesAlike
<1> QED
  BY <1>2, <1>4, <1>5, <1>6, OthersKeep

LEMMA DisablesStep == TypeOK /\ TypeOK' /\ DisableInv /\ [Next]_vars => DisableInv'
<1> SUFFICES ASSUME TypeOK, TypeOK', DisableInv, [Next]_vars PROVE DisableInv'
  OBVIOUS
<1>1. ASSUME NEW c \in Callers, NewCall(c) PROVE DisableInv'
  <2>1. PICK kind, ids, flag, exec : Begin(c, kind, ids, flag, exec)
    BY <1>1, Zenon
    DEF NewCall, CallCreate, CallUpdate, CallDelete, CallSetEnabled, CallRetry, CallDeleteFlow
  <2> QED
    BY <2>1, BeginDisables
<1>2. ASSUME NEW c \in Callers, ServeCall(c) \/ CallRejected(c) PROVE DisableInv'
  <2>1. PlainStep(c) \/ FindExecution(c)
    BY <1>2 DEF ServeCall, PlainStep
  <2> QED
    BY <2>1, PlainDisables, RetryDisables
<1>3. CASE Crash
  <2>1. \A c \in Callers : call'[c] = NoCall
    BY <1>3 DEF Crash
  <2> QED
    BY <2>1 DEF DisableInv, NoCall
<1>4. CASE Tick \/ UNCHANGED vars
  <2>1. call' = call /\ round' = round /\ UNCHANGED jobs
    BY <1>4 DEF Tick, vars
  <2> SUFFICES ASSUME NEW c \in Callers, call'[c].alone
               PROVE  Disabling(call'[c]) /\ Away(c, Ids(call[c]))' /\ Swept(call[c])'
    BY DEF DisableInv, Disabling
  <2>2. call[c].alone /\ Same(call'[c], call[c]) /\ JobsFor(Ids(call[c]), call'[c].ran)
    BY <2>1, SameJobsFor DEF Same
  <2> QED
    BY <2>1, <2>2, OthersKeep
<1> QED
  BY <1>1, <1>2, <1>3, <1>4, WatcherDisables, WorkDisables DEF Next

\* Whatever rounds, other calls, workers, faults and crashes come between its steps: a
\* disable that succeeds, and on whose schedules nobody else worked meanwhile, has left
\* in the queue no job of them but those a worker had after it began.
THEOREM DisablesLeaveOnlyRunJobs == Spec => []DisableLeavesOnlyRunJobs
<1>1. Init => DisableInv
  BY DEF Init, DisableInv, NoCall
<1>2. TypeOK /\ DisableInv => DisableLeavesOnlyRunJobs
  <2> SUFFICES ASSUME TypeOK, DisableInv, NEW c \in Callers, call[c].pc = "done", call[c].ok,
                      call[c].alone, NEW j \in JobIds, Queued(j),
                      jobs[j].sched \in Ids(call[c]), j \notin call[c].ran
               PROVE  FALSE
    BY DEF DisableLeavesOnlyRunJobs
  <2>1. call[c].i \in Nat /\ Len(call[c].ids) \in Nat /\ call[c].i > Len(call[c].ids)
    BY DEF TypeOK, Call, DisableInv, Disabling
  <2>2. Ids(call[c]) \subseteq IdsBefore(call[c], call[c].i)
    BY <2>1 DEF Ids, IdsBefore
  <2> QED
    BY <2>2 DEF DisableInv, Swept
<1> QED
  BY <1>1, <1>2, InitTypes, TypesStep, DisablesStep, PTL DEF Spec
=============================================================================
