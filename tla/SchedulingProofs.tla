-------------------------- MODULE SchedulingProofs --------------------------
(***************************************************************************)
(* Proofs about Scheduling, for any schedules, rounds, callers and bounds. *)
(***************************************************************************)
EXTENDS Scheduling, FiniteSetTheorems, TLAPS

-----------------------------------------------------------------------------
(***************************************************************************)
(* The inductive invariant.                                                *)
(***************************************************************************)

\* What the proofs need of the shape of the records.
RowShape == /\ rows = [e \in RowIds |-> rows[e]]
            /\ \A e \in RowIds : {"status", "sched", "fate"} \subseteq DOMAIN rows[e]
JobShape == /\ jobs = [j \in JobIds |-> jobs[j]]
            /\ \A j \in JobIds : {"state", "sched", "exec", "row", "at", "left"}
                                   \subseteq DOMAIN jobs[j]
RoundShape == /\ round = [r \in Rounds |-> round[r]]
              /\ \A r \in Rounds : {"pc", "exec"} \subseteq DOMAIN round[r]
CallShape == /\ call = [c \in Callers |-> call[c]]
             /\ \A c \in Callers : {"pc", "exec", "todo"} \subseteq DOMAIN call[c]
ShapeInv == RowShape /\ JobShape /\ RoundShape /\ CallShape

\* Rows and jobs are made one after the other, and never unmade.
RowPrefix == \E k \in 0..MaxRows : \A e \in RowIds : rows[e].status # "none" <=> e <= k
JobPrefix == \E k \in 0..MaxJobs : \A j \in JobIds : jobs[j].state # "none" <=> j <= k

\* A worker past LoadRow has a row, which is that of its job unless that one is gone;
\* no other job has a row in hand, and a job that is over has none at all.
WorkerInv ==
  \A j \in JobIds :
    /\ jobs[j].state \in {"loaded", "active"} =>
         /\ jobs[j].row \in RowIds /\ rows[jobs[j].row].status # "none"
         /\ jobs[j].exec \in RowIds /\ jobs[j].row # jobs[j].exec
              => rows[jobs[j].exec].status = "gone"
    /\ jobs[j].state \notin {"loaded", "active"} => jobs[j].row = NoRow
    /\ ~Live(j) => jobs[j].exec = NoRow

\* What is in the queue has been made, and what is added to it next not started.
MadeRows == {e \in RowIds : rows[e].status # "none"}
Unstarted == {e \in RowIds : rows[e].status \in {"pending", "gone"}}
AddInv ==
  /\ \A j \in JobIds : jobs[j].exec \in MadeRows \union {NoRow}
  /\ \A r \in Rounds : AddedBy(round[r]) \subseteq Unstarted
  /\ \A c \in Callers : AddedBy(call[c]) \subseteq Unstarted

\* A row is of one job, or of one round or call that is to add it.
OneAdder ==
  /\ \A e \in RowIds, q, r \in Rounds :
       e \in AddedBy(round[q]) /\ e \in AddedBy(round[r]) => q = r
  /\ \A e \in RowIds, c, d \in Callers :
       e \in AddedBy(call[c]) /\ e \in AddedBy(call[d]) => c = d
  /\ \A e \in RowIds, r \in Rounds, c \in Callers :
       ~(e \in AddedBy(round[r]) /\ e \in AddedBy(call[c]))
OneJob == \A e \in RowIds, j, k \in JobIds :
            Holds(j, e) => ~Adding(e) /\ (Holds(k, e) => j = k)

\* The rows that have someone are those that were not lost, as long as they are not
\* finished.
Kept(e) == Adding(e) \/ \E j \in JobIds : Holds(j, e)
Unfinished(e) == rows[e].status \in {"pending", "running"}
KeptInv == \A e \in RowIds : /\ Kept(e) => rows[e].fate = "open"
                             /\ Unfinished(e) /\ rows[e].fate = "open" => Kept(e)

\* What a call removes from the queue has been in it.
Made == {j \in JobIds : jobs[j].state # "none"}
TodoInv == \A c \in Callers : call[c].todo \subseteq Made

QueueInv == /\ RowPrefix /\ JobPrefix /\ WorkerInv /\ AddInv /\ TodoInv
            /\ OneAdder /\ OneJob /\ KeptInv

-----------------------------------------------------------------------------
(***************************************************************************)
(* The rows and the queue.                                                 *)
(***************************************************************************)

\* The free number of a table whose rows are numbered as they are made.
LEMMA PrefixCount ==
  ASSUME NEW N \in Nat, NEW k \in 0..N, NEW U, \A n \in 1..N : n \in U <=> n <= k
  PROVE  Cardinality({n \in 1..N : n \in U}) = k
<1>1. {n \in 1..N : n \in U} = 1..k
  OBVIOUS
<1>2. Cardinality(1..k) = k
  BY FS_Interval
<1> QED
  BY <1>1, <1>2

LEMMA FreeRowIsFree ==
  ASSUME RowPrefix, RowLeft
  PROVE  /\ rows[FreeRow].status = "none"
         /\ \E k \in 0..MaxRows :
              \A e \in RowIds : (rows[e].status # "none" \/ e = FreeRow) <=> e <= k
<1>1. MaxRows \in Nat
  BY SchedulingAssumption
<1>2. PICK k \in 0..MaxRows : \A e \in RowIds : rows[e].status # "none" <=> e <= k
  BY DEF RowPrefix
<1> DEFINE U == {e \in RowIds : rows[e].status # "none"}
<1>3. Cardinality({e \in RowIds : e \in U}) = k
  BY <1>1, <1>2, PrefixCount DEF RowIds
<1>4. {e \in RowIds : e \in U} = U
  OBVIOUS
<1>5. FreeRow = k + 1 /\ k + 1 \in 1..MaxRows
  BY <1>3, <1>4 DEF FreeRow, RowLeft, RowIds
<1>6. k + 1 \in 0..MaxRows
  BY <1>1, <1>5
<1>7. \A e \in RowIds : (rows[e].status # "none" \/ e = k + 1) <=> e <= k + 1
  BY <1>1, <1>2 DEF RowIds
<1>8. rows[k + 1].status = "none"
  BY <1>1, <1>2, <1>5 DEF RowIds
<1> QED
  BY <1>5, <1>6, <1>7, <1>8

LEMMA FreeJobIsFree ==
  ASSUME JobPrefix, JobLeft
  PROVE  /\ jobs[FreeJob].state = "none"
         /\ \E k \in 0..MaxJobs :
              \A j \in JobIds : (jobs[j].state # "none" \/ j = FreeJob) <=> j <= k
<1>1. MaxJobs \in Nat
  BY SchedulingAssumption
<1>2. PICK k \in 0..MaxJobs : \A j \in JobIds : jobs[j].state # "none" <=> j <= k
  BY DEF JobPrefix
<1> DEFINE U == {j \in JobIds : jobs[j].state # "none"}
<1>3. Cardinality({j \in JobIds : j \in U}) = k
  BY <1>1, <1>2, PrefixCount DEF JobIds
<1>4. {j \in JobIds : j \in U} = U
  OBVIOUS
<1>5. FreeJob = k + 1 /\ k + 1 \in 1..MaxJobs
  BY <1>3, <1>4 DEF FreeJob, JobLeft, JobIds
<1>6. k + 1 \in 0..MaxJobs
  BY <1>1, <1>5
<1>7. \A j \in JobIds : (jobs[j].state # "none" \/ j = k + 1) <=> j <= k + 1
  BY <1>1, <1>2 DEF JobIds
<1>8. jobs[k + 1].state = "none"
  BY <1>1, <1>2, <1>5 DEF JobIds
<1> QED
  BY <1>5, <1>6, <1>7, <1>8

\* A row that a job or an adder has is not free.
LEMMA KeptIsMade ==
  ASSUME WorkerInv, AddInv, NEW e \in RowIds, Kept(e)
  PROVE  rows[e].status # "none"
<1>1. CASE Adding(e)
  BY <1>1 DEF Adding, AddInv, Unstarted
<1>2. ASSUME NEW j \in JobIds, Holds(j, e) PROVE rows[e].status # "none"
  <2>1. e # NoRow
    BY SchedulingAssumption DEF NoRow, RowIds
  <2> QED
    BY <1>2, <2>1 DEF Holds, WorkerInv, AddInv, MadeRows
<1> QED
  BY <1>1, <1>2 DEF Kept

-----------------------------------------------------------------------------
(***************************************************************************)
(* Steps that leave the evidence alone: the rows keep their status, and    *)
(* who is about to add a job stays so.                                     *)
(***************************************************************************)

RowsQuiet == /\ RowShape'
             /\ \A e \in RowIds : /\ rows'[e].status = rows[e].status
                                 /\ rows'[e].fate = rows[e].fate
RoundsQuiet == /\ RoundShape'
               /\ \A r \in Rounds : AddedBy(round'[r]) = AddedBy(round[r])
CallsQuiet == /\ CallShape'
              /\ \A c \in Callers : /\ AddedBy(call'[c]) = AddedBy(call[c])
                                    /\ call'[c].todo \subseteq call[c].todo \union Made

LEMMA QuietAdds ==
  ASSUME RoundsQuiet, CallsQuiet
  PROVE  /\ \A e : Adding(e)' <=> Adding(e)
         /\ OneAdder => OneAdder'
         /\ TodoInv => \A c \in Callers : call'[c].todo \subseteq Made
<1>1. \A e : Adding(e)' <=> Adding(e)
  BY DEF RoundsQuiet, CallsQuiet, Adding
<1>2. OneAdder => OneAdder'
  BY DEF RoundsQuiet, CallsQuiet, OneAdder
<1>3. TodoInv => \A c \in Callers : call'[c].todo \subseteq Made
  BY DEF CallsQuiet, TodoInv
<1> QED
  BY <1>1, <1>2, <1>3

LEMMA QuietStep ==
  ASSUME ShapeInv, QueueInv, RowsQuiet, RoundsQuiet, CallsQuiet, UNCHANGED jobs
  PROVE  ShapeInv' /\ QueueInv'
<1>1. ShapeInv'
  BY DEF ShapeInv, RowsQuiet, RoundsQuiet, CallsQuiet, JobShape
<1>2. RowPrefix' /\ JobPrefix'
  BY DEF QueueInv, RowPrefix, JobPrefix, RowsQuiet
<1>3. \A j \in JobIds : (Live(j)' <=> Live(j)) /\ \A e : Holds(j, e)' <=> Holds(j, e)
  BY DEF Live, Queued, Locked, Holds
<1>4. WorkerInv'
  BY <1>3 DEF QueueInv, WorkerInv, AddInv, MadeRows, RowsQuiet
<1>5. AddInv'
  BY DEF QueueInv, AddInv, MadeRows, Unstarted, RowsQuiet, RoundsQuiet, CallsQuiet
<1>6. TodoInv' /\ OneAdder'
  BY QuietAdds DEF QueueInv, TodoInv, Made
<1>7. OneJob'
  BY <1>3, QuietAdds DEF QueueInv, OneJob
<1>8. KeptInv'
  BY <1>3, QuietAdds DEF QueueInv, KeptInv, Kept, Unfinished, RowsQuiet
<1> QED
  BY <1>1, <1>2, <1>4, <1>5, <1>6, <1>7, <1>8 DEF QueueInv

LEMMA UnchangedQuiet ==
  ASSUME ShapeInv
  PROVE  /\ UNCHANGED rows => RowsQuiet
         /\ UNCHANGED round => RoundsQuiet
         /\ UNCHANGED call => CallsQuiet
BY DEF ShapeInv, RowShape, RoundShape, CallShape, RowsQuiet, RoundsQuiet, CallsQuiet

\* A call that was not about to add a job, and is not now.
LEMMA OneCallQuiet ==
  ASSUME CallShape, NEW c \in Callers, NEW x, call' = [call EXCEPT ![c] = x],
         {"pc", "exec", "todo"} \subseteq DOMAIN x, x.pc # "add", call[c].pc # "add",
         x.todo \subseteq call[c].todo \union Made
  PROVE  CallsQuiet
<1>1. \A d \in Callers : call'[d] = IF d = c THEN x ELSE call[d]
  BY DEF CallShape
<1>2. call' = [d \in Callers |-> call'[d]]
  BY DEF CallShape
<1> QED
  BY <1>1, <1>2 DEF CallShape, CallsQuiet, AddedBy

LEMMA GotoQuiet ==
  ASSUME CallShape, NEW c \in Callers, call[c].pc # "add",
         NEW pc, pc # "add", Goto(c, pc)
  PROVE  CallsQuiet
<1> DEFINE x == [call[c] EXCEPT !.pc = pc]
<1>1. {"pc", "exec", "todo"} \subseteq DOMAIN x /\ x.pc = pc /\ x.todo = call[c].todo
  BY DEF CallShape
<1>2. call' = [call EXCEPT ![c] = x]
  BY DEF Goto
<1> QED
  BY <1>1, <1>2, OneCallQuiet

LEMMA NextIdShape ==
  ASSUME NEW cl, {"pc", "exec", "todo"} \subseteq DOMAIN cl, NEW ok
  PROVE  /\ {"pc", "exec", "todo"} \subseteq DOMAIN NextId(cl, ok)
         /\ NextId(cl, ok).pc \in {"find", "done"} /\ NextId(cl, ok).todo = {}
<1> DEFINE x == NextId(cl, ok)
           b == cl.ok /\ ok
           i == cl.i + 1
           pc == IF cl.i < Len(cl.ids) THEN "find" ELSE "done"
<1>1. x = [cl EXCEPT !.i = i, !.pc = pc, !.todo = {}, !.ok = b]
  BY DEF NextId
<1>2. pc \in {"find", "done"}
  OBVIOUS
<1> HIDE DEF b, i, pc, x
<1>3. {"pc", "exec", "todo"} \subseteq DOMAIN x /\ x.pc \in {"find", "done"} /\ x.todo = {}
  BY <1>1, <1>2
<1> QED
  BY <1>3 DEF x

LEMMA ProceedQuiet ==
  ASSUME CallShape, NEW c \in Callers, call[c].pc # "add", NEW ok, Proceed(c, ok)
  PROVE  CallsQuiet
<1> DEFINE x == NextId(call[c], ok)
<1>1. {"pc", "exec", "todo"} \subseteq DOMAIN x /\ x.pc # "add" /\ x.todo = {}
  BY NextIdShape DEF CallShape
<1>2. call' = [call EXCEPT ![c] = x]
  BY DEF Proceed
<1> QED
  BY <1>1, <1>2, OneCallQuiet

LEMMA DisturbKeeps ==
  ASSUME CallShape, NEW S
  PROVE  /\ Disturb(call, S) = [c \in Callers |-> Disturb(call, S)[c]]
         /\ \A c \in Callers : /\ DOMAIN Disturb(call, S)[c] = DOMAIN call[c]
                               /\ Disturb(call, S)[c].pc = call[c].pc
                               /\ Disturb(call, S)[c].exec = call[c].exec
                               /\ Disturb(call, S)[c].todo = call[c].todo
<1>1. Disturb(call, S) = [c \in Callers |-> Disturb(call, S)[c]]
  BY DEF Disturb
<1>2. ASSUME NEW c \in Callers
      PROVE  Disturb(call, S)[c] = call[c] \/ Disturb(call, S)[c] = [call[c] EXCEPT !.alone = FALSE]
  BY DEF Disturb
<1>3. ASSUME NEW c \in Callers, NEW x, x = [call[c] EXCEPT !.alone = FALSE]
      PROVE  /\ DOMAIN x = DOMAIN call[c] /\ x.pc = call[c].pc
             /\ x.exec = call[c].exec /\ x.todo = call[c].todo
  <2> DEFINE b == FALSE
  <2>1. x = [call[c] EXCEPT !.alone = b]
    BY <1>3
  <2> HIDE DEF b
  <2> QED
    BY <2>1 DEF CallShape
<1> QED
  BY <1>1, <1>2, <1>3

LEMMA DisturbQuiet ==
  ASSUME CallShape, NEW S, call' = Disturb(call, S)
  PROVE  CallsQuiet
BY DisturbKeeps DEF CallShape, CallsQuiet, AddedBy

LEMMA DisturbOneQuiet ==
  ASSUME CallShape, NEW c \in Callers, NEW S, NEW x, call' = [Disturb(call, S) EXCEPT ![c] = x],
         {"pc", "exec", "todo"} \subseteq DOMAIN x, x.pc # "add", call[c].pc # "add",
         x.todo \subseteq call[c].todo \union Made
  PROVE  CallsQuiet
<1> DEFINE D == Disturb(call, S)
<1>1. /\ D = [d \in Callers |-> D[d]]
      /\ \A d \in Callers : /\ DOMAIN D[d] = DOMAIN call[d]
                            /\ D[d].pc = call[d].pc /\ D[d].exec = call[d].exec
                            /\ D[d].todo = call[d].todo
  BY DisturbKeeps
<1>2. call' = [D EXCEPT ![c] = x]
  OBVIOUS
<1> HIDE DEF D
<1>3. call' = [d \in Callers |-> call'[d]] /\ \A d \in Callers : call'[d] = IF d = c THEN x ELSE D[d]
  BY <1>1, <1>2
<1> QED
  BY <1>1, <1>3 DEF CallShape, CallsQuiet, AddedBy

LEMMA OneRoundQuiet ==
  ASSUME RoundShape, NEW r \in Rounds, NEW x, round' = [round EXCEPT ![r] = x],
         {"pc", "exec"} \subseteq DOMAIN x, x.pc # "add", round[r].pc # "add"
  PROVE  RoundsQuiet
<1>1. \A q \in Rounds : round'[q] = IF q = r THEN x ELSE round[q]
  BY DEF RoundShape
<1>2. round' = [q \in Rounds |-> round'[q]]
  BY DEF RoundShape
<1> QED
  BY <1>1, <1>2 DEF RoundShape, RoundsQuiet, AddedBy

LEMMA NoRoundShape == {"pc", "exec"} \subseteq DOMAIN NoRound /\ NoRound.pc = "idle"
BY DEF NoRound

LEMMA NoCallShape == DOMAIN NoCall = {"kind", "pc", "ids", "i", "flag", "next", "todo", "sched",
                                      "exec", "ok", "alone", "ran"}
                     /\ NoCall.pc = "idle" /\ NoCall.todo = {}
<1> DEFINE f == FALSE
<1>1. NoCall = [kind |-> "none", pc |-> "idle", ids |-> <<>>, i |-> 1, flag |-> f,
                next |-> 0, todo |-> {}, sched |-> Nobody, exec |-> NoRow, ok |-> f,
                alone |-> f, ran |-> {}]
  BY DEF NoCall
<1> HIDE DEF f
<1> QED
  BY <1>1

-----------------------------------------------------------------------------
(* The quiet steps of the watcher and of the calls. *)

LEMMA WatcherQuiet ==
  ASSUME ShapeInv, NEW r \in Rounds, StartRound(r) \/ UpdateLastRun(r) \/ RoundRejected(r)
  PROVE  RoundsQuiet /\ CallsQuiet /\ UNCHANGED <<rows, jobs>>
<1>1. CASE StartRound(r)
  <2> DEFINE x == [NoRound EXCEPT !.pc = "create", !.todo = DueSchedules,
                                  !.due = [s \in Schedules |-> schedules[s].nextRun]]
  <2>1. {"pc", "exec"} \subseteq DOMAIN x /\ x.pc = "create"
    BY DEF NoRound
  <2>2. round' = [round EXCEPT ![r] = x] /\ round[r].pc = "idle"
    BY <1>1 DEF StartRound
  <2>3. call' = Disturb(call, DueSchedules)
    BY <1>1 DEF StartRound
  <2> HIDE DEF x
  <2>4. RoundsQuiet
    BY <2>1, <2>2, OneRoundQuiet DEF ShapeInv
  <2> QED
    BY <1>1, <2>3, <2>4, DisturbQuiet DEF StartRound, ShapeInv, store
<1>2. CASE UpdateLastRun(r)
  <2> DEFINE x == RoundAfter(round[r])
  <2>1. {"pc", "exec"} \subseteq DOMAIN x /\ x.pc # "add"
    BY NoRoundShape DEF RoundAfter, ShapeInv, RoundShape
  <2>2. round' = [round EXCEPT ![r] = x] /\ round[r].pc = "update"
    BY <1>2 DEF UpdateLastRun
  <2> HIDE DEF x
  <2>3. RoundsQuiet
    BY <2>1, <2>2, OneRoundQuiet DEF ShapeInv
  <2> QED
    BY <1>2, <2>3, UnchangedQuiet DEF UpdateLastRun
<1>3. CASE RoundRejected(r)
  <2>1. round' = [round EXCEPT ![r] = NoRound] /\ round[r].pc = "create"
    BY <1>3 DEF RoundRejected
  <2>2. RoundsQuiet
    BY <2>1, NoRoundShape, OneRoundQuiet DEF ShapeInv
  <2> QED
    BY <1>3, <2>2, UnchangedQuiet DEF RoundRejected, store
<1> QED
  BY <1>1, <1>2, <1>3

LEMMA BeginQuiet ==
  ASSUME ShapeInv, NEW c \in Callers, NEW kind, NEW ids, NEW flag, NEW exec,
         Begin(c, kind, ids, flag, exec)
  PROVE  RoundsQuiet /\ CallsQuiet /\ UNCHANGED <<rows, jobs>>
<1> DEFINE S == {ids[i] : i \in 1..Len(ids)}
           ran == IF kind = "disable" THEN Running ELSE {}
           yes == TRUE
           alone == kind = "disable" /\ Alone(c, S)
           x == [NoCall EXCEPT !.kind = kind, !.pc = "find", !.ids = ids, !.flag = flag,
                   !.exec = exec, !.ok = yes, !.alone = alone, !.ran = ran]
<1>1. call' = [Disturb(call, S) EXCEPT ![c] = x] /\ call[c].pc = "idle"
  BY DEF Begin
<1>2. {"pc", "exec", "todo"} \subseteq DOMAIN x /\ x.pc = "find" /\ x.todo = {}
  <2> HIDE DEF S, ran, yes, alone
  <2> QED
    BY NoCallShape
<1> HIDE DEF x
<1>3. CallsQuiet
  BY <1>1, <1>2, DisturbOneQuiet DEF ShapeInv
<1> QED
  BY <1>3, UnchangedQuiet DEF Begin, store

LEMMA NewCallQuiet ==
  ASSUME ShapeInv, NEW c \in Callers, NewCall(c)
  PROVE  RoundsQuiet /\ CallsQuiet /\ UNCHANGED <<rows, jobs>>
<1>1. \E kind, ids, flag, exec : Begin(c, kind, ids, flag, exec)
  BY Zenon
  DEF NewCall, CallCreate, CallUpdate, CallDelete, CallSetEnabled, CallRetry, CallDeleteFlow
<1> QED
  BY <1>1, BeginQuiet

\* Every step of a call but the two that make and queue the row of a retry.
OrdinaryStep(c) ==
  \/ FindSchedule(c) \/ UpdateSchedule(c) \/ SetEnabled(c) \/ Snapshot(c) \/ RemoveJob(c)
  \/ Cancelled(c) \/ DropSchedule(c) \/ CreateSchedule(c) \/ ScheduleJob(c)
  \/ FindExecution(c) \/ DeleteFlow(c) \/ Return(c)

LEMMA OrdinaryStepMovesCall ==
  ASSUME NEW c \in Callers, OrdinaryStep(c)
  PROVE  /\ call[c].pc # "add" /\ UNCHANGED round
         /\ \/ \E ok : Proceed(c, ok)
            \/ \E pc : pc # "add" /\ Goto(c, pc)
            \/ \E pc, next : pc # "add" /\ call' = [call EXCEPT ![c].pc = pc, ![c].next = next]
            \/ \E S \in SUBSET Made : call' = [call EXCEPT ![c].todo = S, ![c].pc = "removing"]
            \/ \E S : S \subseteq call[c].todo /\ call' = [call EXCEPT ![c].todo = S]
            \/ \E S, s : call' = [Disturb(call, S) EXCEPT ![c].pc = "create",
                                    ![c].sched = s, ![c].exec = NoRow]
            \/ call' = [call EXCEPT ![c] = NoCall]
<1>1. CASE FindSchedule(c)
  <2> DEFINE pc == IF call[c].kind = "delete" THEN "snapshot" ELSE "write"
             next == IF call[c].kind # "update" THEN 0
                     ELSE IF call[c].flag THEN NextRun ELSE schedules[Current(c)].nextRun
  <2>1. pc # "add"
    OBVIOUS
  <2>2. Proceed(c, FALSE) \/ call' = [call EXCEPT ![c].pc = pc, ![c].next = next]
    BY <1>1 DEF FindSchedule
  <2> HIDE DEF pc, next
  <2> QED
    BY <1>1, <2>1, <2>2 DEF FindSchedule, Doing, OthersUnchanged
<1>2. CASE UpdateSchedule(c)
  BY <1>2 DEF UpdateSchedule, Doing
<1>3. CASE SetEnabled(c)
  BY <1>3 DEF SetEnabled, Doing, OthersUnchanged
<1>4. CASE Snapshot(c)
  BY <1>4 DEF Snapshot, OthersUnchanged, JobsToCancel, Queued, Made
<1>5. CASE RemoveJob(c)
  BY <1>5 DEF RemoveJob, OthersUnchanged
<1>6. CASE Cancelled(c)
  BY <1>6 DEF Cancelled, OthersUnchanged
<1>7. CASE DropSchedule(c)
  BY <1>7 DEF DropSchedule, Doing, OthersUnchanged
<1>8. CASE CreateSchedule(c)
  BY <1>8 DEF CreateSchedule, OthersUnchanged
<1>9. CASE ScheduleJob(c)
  BY <1>9 DEF ScheduleJob, OthersUnchanged
<1>10. CASE FindExecution(c)
  BY <1>10 DEF FindExecution, Doing, OthersUnchanged
<1>11. CASE DeleteFlow(c)
  BY <1>11 DEF DeleteFlow, OthersUnchanged
<1>12. CASE Return(c)
  BY <1>12 DEF Return, OthersUnchanged
<1> QED
  BY <1>1, <1>2, <1>3, <1>4, <1>5, <1>6, <1>7, <1>8, <1>9, <1>10, <1>11, <1>12 DEF OrdinaryStep

LEMMA OrdinaryStepQuiet ==
  ASSUME ShapeInv, NEW c \in Callers, OrdinaryStep(c)
  PROVE  RoundsQuiet /\ CallsQuiet
<1>1. call[c].pc # "add" /\ CallShape /\ RoundsQuiet
  BY OrdinaryStepMovesCall, UnchangedQuiet DEF ShapeInv
<1>2. CASE \E ok : Proceed(c, ok)
  BY <1>1, <1>2, ProceedQuiet
<1>3. CASE \E pc : pc # "add" /\ Goto(c, pc)
  BY <1>1, <1>3, GotoQuiet
<1>4. ASSUME NEW x, call' = [call EXCEPT ![c] = x],
             {"pc", "exec", "todo"} \subseteq DOMAIN x, x.pc # "add",
             x.todo \subseteq call[c].todo \union Made
      PROVE  CallsQuiet
  BY <1>1, <1>4, OneCallQuiet
<1>5. ASSUME NEW pc, NEW next, pc # "add",
             call' = [call EXCEPT ![c].pc = pc, ![c].next = next]
      PROVE  CallsQuiet
  <2> DEFINE x == [call[c] EXCEPT !.pc = pc, !.next = next]
  <2>1. {"pc", "exec", "todo"} \subseteq DOMAIN x /\ x.pc = pc /\ x.todo = call[c].todo
    BY <1>1 DEF CallShape
  <2>2. call' = [call EXCEPT ![c] = x]
    BY <1>1, <1>5 DEF CallShape
  <2> QED
    BY <1>4, <1>5, <2>1, <2>2
<1>6. ASSUME NEW S \in SUBSET Made,
             call' = [call EXCEPT ![c].todo = S, ![c].pc = "removing"]
      PROVE  CallsQuiet
  <2> DEFINE x == [call[c] EXCEPT !.todo = S, !.pc = "removing"]
  <2>1. {"pc", "exec", "todo"} \subseteq DOMAIN x /\ x.pc = "removing" /\ x.todo = S
    BY <1>1 DEF CallShape
  <2>2. call' = [call EXCEPT ![c] = x]
    BY <1>1, <1>6 DEF CallShape
  <2> QED
    BY <1>4, <1>6, <2>1, <2>2
<1>7. ASSUME NEW S, S \subseteq call[c].todo, call' = [call EXCEPT ![c].todo = S]
      PROVE  CallsQuiet
  <2> DEFINE x == [call[c] EXCEPT !.todo = S]
  <2>1. {"pc", "exec", "todo"} \subseteq DOMAIN x /\ x.pc = call[c].pc /\ x.todo = S
    BY <1>1 DEF CallShape
  <2>2. call' = [call EXCEPT ![c] = x]
    BY <1>1, <1>7 DEF CallShape
  <2> QED
    BY <1>1, <1>4, <1>7, <2>1, <2>2
<1>8. ASSUME NEW S, NEW s, call' = [Disturb(call, S) EXCEPT ![c].pc = "create",
                                      ![c].sched = s, ![c].exec = NoRow]
      PROVE  CallsQuiet
  <2> DEFINE D == Disturb(call, S)
             x == [D[c] EXCEPT !.pc = "create", !.sched = s, !.exec = NoRow]
  <2>1. /\ D = [d \in Callers |-> D[d]]
        /\ DOMAIN D[c] = DOMAIN call[c] /\ D[c].todo = call[c].todo
    BY <1>1, DisturbKeeps
  <2>2. call' = [D EXCEPT ![c].pc = "create", ![c].sched = s, ![c].exec = NoRow]
    BY <1>8
  <2> HIDE DEF D
  <2>3. {"pc", "exec", "todo"} \subseteq DOMAIN x /\ x.pc = "create" /\ x.todo = call[c].todo
    BY <1>1, <2>1 DEF CallShape
  <2>4. call' = [D EXCEPT ![c] = x]
    BY <2>1, <2>2
  <2> HIDE DEF x
  <2>5. call' = [Disturb(call, S) EXCEPT ![c] = x]
    BY <2>4 DEF D
  <2> QED
    BY <1>1, <2>3, <2>5, DisturbOneQuiet
<1>9. CASE call' = [call EXCEPT ![c] = NoCall]
  <2>1. /\ {"pc", "exec", "todo"} \subseteq DOMAIN NoCall
        /\ NoCall.pc # "add" /\ NoCall.todo = {}
    BY NoCallShape
  <2> QED
    BY <1>1, <1>9, <2>1, OneCallQuiet
<1>10. CallsQuiet
  BY Zenon, <1>2, <1>3, <1>5, <1>6, <1>7, <1>8, <1>9, OrdinaryStepMovesCall
<1> QED
  BY <1>1, <1>10

-----------------------------------------------------------------------------
(***************************************************************************)
(* Steps that make a row or add a job.                                     *)
(***************************************************************************)

\* A row is made by someone who queues its job next.
LEMMA CreateStep ==
  ASSUME ShapeInv, QueueInv, RowLeft, NEW s, CreateExecution(s), UNCHANGED jobs,
         RoundShape', CallShape', \A c \in Callers : call'[c].todo \subseteq Made,
         \A r \in Rounds : AddedBy(round'[r]) \subseteq Unstarted \union {FreeRow},
         \A c \in Callers : AddedBy(call'[c]) \subseteq Unstarted \union {FreeRow},
         \A e \in RowIds : Adding(e)' <=> Adding(e) \/ e = FreeRow,
         OneAdder'
  PROVE  ShapeInv' /\ QueueInv'
<1> DEFINE f == FreeRow
           x == [status |-> "pending", sched |-> s, fate |-> "open"]
<1>1. f \in RowIds /\ rows[f].status = "none"
  BY FreeRowIsFree DEF RowLeft, QueueInv
<1>2. \E k \in 0..MaxRows : \A e \in RowIds : (rows[e].status # "none" \/ e = f) <=> e <= k
  BY FreeRowIsFree DEF QueueInv
<1>3. rows' = [rows EXCEPT ![f] = x]
  BY DEF CreateExecution
<1>4. x.status = "pending" /\ x.fate = "open" /\ {"status", "sched", "fate"} \subseteq DOMAIN x
  OBVIOUS
<1>5. /\ \A e \in RowIds : Adding(e)' <=> Adding(e) \/ e = f
      /\ \A r \in Rounds : AddedBy(round'[r]) \subseteq Unstarted \union {f}
      /\ \A c \in Callers : AddedBy(call'[c]) \subseteq Unstarted \union {f}
  OBVIOUS
<1> HIDE DEF f, x
<1>6. rows' = [e \in RowIds |-> rows'[e]] /\ \A e \in RowIds : rows'[e] = IF e = f THEN x ELSE rows[e]
  BY <1>1, <1>3 DEF ShapeInv, RowShape
<1>7. ShapeInv'
  BY <1>4, <1>6 DEF ShapeInv, RowShape, JobShape
<1>8. RowPrefix' /\ JobPrefix'
  <2>1. \A e \in RowIds : rows'[e].status # "none" <=> (rows[e].status # "none" \/ e = f)
    BY <1>4, <1>6
  <2>2. RowPrefix'
    BY <1>2, <2>1 DEF RowPrefix
  <2> QED
    BY <2>2 DEF QueueInv, JobPrefix
<1>9. \A j \in JobIds : (Live(j)' <=> Live(j)) /\ \A e : Holds(j, e)' <=> Holds(j, e)
  BY DEF Live, Queued, Locked, Holds
<1>10. ~Kept(f)
  BY <1>1, KeptIsMade DEF QueueInv
<1>11. WorkerInv'
  BY <1>1, <1>6, <1>9 DEF QueueInv, WorkerInv
<1>12. AddInv'
  <2>1. MadeRows \subseteq MadeRows'
    BY <1>4, <1>6 DEF MadeRows
  <2>2. Unstarted \union {f} \subseteq Unstarted'
    BY <1>1, <1>4, <1>6 DEF Unstarted
  <2> QED
    BY <1>5, <2>1, <2>2 DEF QueueInv, AddInv
<1>13. TodoInv'
  BY DEF TodoInv, Made
<1>14. OneJob'
  BY <1>5, <1>9, <1>10 DEF QueueInv, OneJob, Kept
<1>15. KeptInv'
  BY <1>4, <1>5, <1>6, <1>9 DEF QueueInv, KeptInv, Kept, Unfinished
<1> QED
  BY <1>7, <1>8, <1>11, <1>12, <1>13, <1>14, <1>15 DEF QueueInv

\* A job is added: of a schedule, without a row, or by the one who was to add it.
LEMMA AddStep ==
  ASSUME ShapeInv, QueueInv, JobLeft, NEW x, jobs' = [jobs EXCEPT ![FreeJob] = x],
         {"state", "sched", "exec", "row", "at", "left"} \subseteq DOMAIN x,
         x.state \in {"delayed", "waiting"}, x.exec \in MadeRows \union {NoRow}, x.row = NoRow,
         RowsQuiet, RoundShape', CallShape', \A c \in Callers : call'[c].todo \subseteq Made,
         \A r \in Rounds : AddedBy(round'[r]) \subseteq Unstarted,
         \A c \in Callers : AddedBy(call'[c]) \subseteq Unstarted,
         \A e \in RowIds : Adding(e)' <=> Adding(e) /\ e # x.exec,
         x.exec \in RowIds => Adding(x.exec),
         OneAdder'
  PROVE  ShapeInv' /\ QueueInv'
<1>0. PICK f : f = FreeJob
  OBVIOUS
<1>1. f \in JobIds /\ jobs[f].state = "none"
  BY <1>0, FreeJobIsFree DEF JobLeft, QueueInv
<1>2. \E k \in 0..MaxJobs : \A j \in JobIds : (jobs[j].state # "none" \/ j = f) <=> j <= k
  BY <1>0, FreeJobIsFree DEF QueueInv
<1>3. jobs' = [jobs EXCEPT ![f] = x]
  BY <1>0
<1>4. jobs' = [j \in JobIds |-> jobs'[j]] /\ \A j \in JobIds : jobs'[j] = IF j = f THEN x ELSE jobs[j]
  BY <1>1, <1>3 DEF ShapeInv, JobShape
<1>5. ShapeInv'
  BY <1>4 DEF ShapeInv, JobShape, RowsQuiet
<1>6. RowPrefix' /\ JobPrefix'
  <2>1. \A j \in JobIds : jobs'[j].state # "none" <=> (jobs[j].state # "none" \/ j = f)
    BY <1>4
  <2>2. JobPrefix'
    BY <1>2, <2>1 DEF JobPrefix
  <2> QED
    BY <2>2 DEF QueueInv, RowPrefix, RowsQuiet
<1>7. /\ ~Live(f) /\ Live(f)' /\ \A e \in RowIds : Holds(f, e)' <=> e = x.exec
      /\ \A j \in JobIds \ {f} : (Live(j)' <=> Live(j)) /\ \A e : Holds(j, e)' <=> Holds(j, e)
  <2>1. NoRow \notin RowIds
    BY SchedulingAssumption DEF NoRow, RowIds
  <2>2. ~Live(f)
    BY <1>1 DEF Live, Queued, Locked
  <2>3. Live(f)' /\ \A e \in RowIds : Holds(f, e)' <=> e = x.exec
    <3>1. jobs'[f] = x
      BY <1>1, <1>4
    <3>2. Live(f)'
      BY <3>1 DEF Live, Queued
    <3>3. \A e \in RowIds : e # x.row
      BY <2>1
    <3> QED
      BY <3>1, <3>2, <3>3 DEF Holds
  <2>4. \A j \in JobIds \ {f} : jobs'[j] = jobs[j]
    BY <1>4
  <2> QED
    BY <2>2, <2>3, <2>4 DEF Live, Queued, Locked, Holds
<1>8. WorkerInv'
  <2>1. \A j \in JobIds \ {f} : jobs'[j] = jobs[j]
    BY <1>4
  <2>2. jobs'[f] = x
    BY <1>1, <1>4
  <2> QED
    BY <1>7, <2>1, <2>2 DEF QueueInv, WorkerInv, AddInv, MadeRows, RowsQuiet
<1>9. AddInv'
  <2>1. MadeRows' = MadeRows /\ Unstarted' = Unstarted
    BY DEF MadeRows, Unstarted, RowsQuiet
  <2> QED
    BY <1>4, <2>1 DEF QueueInv, AddInv
<1>10. TodoInv'
  BY <1>4 DEF TodoInv, Made
<1>11. \A e \in RowIds : e = x.exec => Adding(e) /\ \A j \in JobIds : ~Holds(j, e)
  BY DEF QueueInv, OneJob
<1>12. OneJob'
  BY <1>1, <1>7, <1>11 DEF QueueInv, OneJob
<1>13. \A e \in RowIds : Kept(e)' <=> Kept(e)
  BY <1>1, <1>7, <1>11 DEF Kept, Holds
<1>14. KeptInv'
  BY <1>13 DEF QueueInv, KeptInv, Unfinished, RowsQuiet
<1> QED
  BY <1>5, <1>6, <1>8, <1>9, <1>10, <1>12, <1>14 DEF QueueInv

LEMMA WatcherStep ==
  ASSUME ShapeInv, QueueInv, NEW r \in Rounds, ExecuteSchedule(r) \/ AddScheduledJob(r)
  PROVE  ShapeInv' /\ QueueInv'
<1>1. /\ RoundShape /\ CallShape /\ CallShape' /\ UNCHANGED call
      /\ \A c \in Callers : call'[c].todo \subseteq Made
  BY DEF ShapeInv, CallShape, ExecuteSchedule, AddScheduledJob, QueueInv, TodoInv
<1>2. CASE ExecuteSchedule(r)
  <2>1. PICK s : CreateExecution(s)
                 /\ round' = [round EXCEPT ![r].pc = "add", ![r].cur = s, ![r].exec = FreeRow]
    BY <1>2 DEF ExecuteSchedule
  <2> DEFINE f == FreeRow
             x == [round[r] EXCEPT !.pc = "add", !.cur = s, !.exec = f]
  <2>2. {"pc", "exec"} \subseteq DOMAIN x /\ AddedBy(x) = {f}
    BY <1>1 DEF RoundShape, AddedBy
  <2>3. round' = [round EXCEPT ![r] = x]
    BY <1>1, <2>1 DEF RoundShape
  <2>4. f \in RowIds /\ RowLeft /\ AddedBy(round[r]) = {} /\ UNCHANGED jobs
    BY <1>2 DEF ExecuteSchedule, RowLeft, AddedBy
  <2>5. ~Kept(f)
    BY <2>4, FreeRowIsFree, KeptIsMade DEF QueueInv
  <2> HIDE DEF x, f
  <2>6. /\ round' = [q \in Rounds |-> round'[q]]
        /\ \A q \in Rounds : round'[q] = IF q = r THEN x ELSE round[q]
    BY <1>1, <2>3 DEF RoundShape
  <2>7. RoundShape'
    BY <1>1, <2>2, <2>6 DEF RoundShape
  <2>8. /\ \A q \in Rounds : AddedBy(round'[q]) \subseteq Unstarted \union {f}
        /\ \A c \in Callers : AddedBy(call'[c]) \subseteq Unstarted \union {f}
    BY <1>1, <2>2, <2>6 DEF QueueInv, AddInv
  <2>9. \A e \in RowIds : Adding(e)' <=> Adding(e) \/ e = f
    BY <1>1, <2>2, <2>4, <2>6 DEF Adding
  <2>10. OneAdder'
    BY <1>1, <2>2, <2>5, <2>6 DEF QueueInv, OneAdder, Kept, Adding
  <2>11. /\ \A e \in RowIds : Adding(e)' <=> Adding(e) \/ e = FreeRow
         /\ \A q \in Rounds : AddedBy(round'[q]) \subseteq Unstarted \union {FreeRow}
         /\ \A c \in Callers : AddedBy(call'[c]) \subseteq Unstarted \union {FreeRow}
    BY <2>8, <2>9 DEF f
  <2> QED
    BY <1>1, <2>1, <2>4, <2>7, <2>10, <2>11, CreateStep
<1>3. CASE AddScheduledJob(r)
  <2> DEFINE e == round[r].exec
             x == [state |-> "waiting", sched |-> round[r].cur, exec |-> e, row |-> NoRow,
                   at |-> 0, left |-> JobAttempts, stalled |-> 0]
             y == [round[r] EXCEPT !.pc = "update", !.exec = NoRow]
  <2>1. jobs' = [jobs EXCEPT ![FreeJob] = x] /\ JobLeft /\ UNCHANGED rows
    BY <1>3 DEF AddScheduledJob, QueueJob
  <2>2. /\ {"state", "sched", "exec", "row", "at", "left"} \subseteq DOMAIN x
        /\ x.state = "waiting" /\ x.exec = e /\ x.row = NoRow
    OBVIOUS
  <2>3. {"pc", "exec"} \subseteq DOMAIN y /\ AddedBy(y) = {}
    BY <1>1 DEF RoundShape, AddedBy
  <2>4. round' = [round EXCEPT ![r] = y]
    BY <1>1, <1>3 DEF RoundShape, AddScheduledJob
  <2>5. AddedBy(round[r]) = {e}
    BY <1>3 DEF AddScheduledJob, AddedBy
  <2>6. e \in Unstarted /\ Unstarted \subseteq MadeRows /\ Adding(e)
    BY <2>5 DEF QueueInv, AddInv, Unstarted, MadeRows, Adding
  <2> HIDE DEF x, y, e
  <2>7. /\ round' = [q \in Rounds |-> round'[q]]
        /\ \A q \in Rounds : AddedBy(round'[q]) = IF q = r THEN {} ELSE AddedBy(round[q])
    BY <1>1, <2>3, <2>4 DEF RoundShape
  <2>8. RoundShape'
    BY <1>1, <2>3, <2>4, <2>7 DEF RoundShape
  <2>9. \A d \in RowIds : Adding(d)' <=> Adding(d) /\ d # e
    <3>1. \A d \in RowIds : Adding(d)' => Adding(d) /\ d # e
      BY <1>1, <2>5, <2>7 DEF Adding, QueueInv, OneAdder
    <3>2. \A d \in RowIds : Adding(d) /\ d # e => Adding(d)'
      BY <1>1, <2>5, <2>7 DEF Adding
    <3> QED
      BY <3>1, <3>2
  <2>10. OneAdder'
    BY <1>1, <2>7 DEF QueueInv, OneAdder
  <2>11. /\ RowsQuiet
         /\ \A q \in Rounds : AddedBy(round'[q]) \subseteq Unstarted
         /\ \A c \in Callers : AddedBy(call'[c]) \subseteq Unstarted
    BY <1>1, <2>1, <2>7, UnchangedQuiet DEF QueueInv, AddInv
  <2>12. x.exec \in MadeRows \union {NoRow} /\ Adding(x.exec)
         /\ \A d \in RowIds : Adding(d)' <=> Adding(d) /\ d # x.exec
    BY <2>2, <2>6, <2>9
  <2> QED
    BY <1>1, <2>1, <2>2, <2>8, <2>10, <2>11, <2>12, AddStep
<1> QED
  BY <1>2, <1>3

LEMMA RetryStep ==
  ASSUME ShapeInv, QueueInv, NEW c \in Callers, CreateRetry(c) \/ QueueRetry(c)
  PROVE  ShapeInv' /\ QueueInv'
<1>1. RoundShape /\ CallShape /\ RoundShape' /\ UNCHANGED round
  BY DEF ShapeInv, RoundShape, CreateRetry, QueueRetry, OthersUnchanged
<1>2. CASE CreateRetry(c)
  <2>1. CASE Proceed(c, FALSE) /\ UNCHANGED rows
    <3>1. CallsQuiet
      BY <1>1, <1>2, <2>1, ProceedQuiet DEF CreateRetry, Doing
    <3> QED
      BY <1>1, <1>2, <2>1, <3>1, QuietStep, UnchangedQuiet DEF CreateRetry
  <2>2. CASE /\ CreateExecution(call[c].sched)
             /\ call' = [call EXCEPT ![c].pc = "add", ![c].exec = FreeRow]
    <3> DEFINE f == FreeRow
               x == [call[c] EXCEPT !.pc = "add", !.exec = f]
    <3>1. /\ {"pc", "exec", "todo"} \subseteq DOMAIN x
          /\ AddedBy(x) = {f} /\ x.todo = call[c].todo
      BY <1>1 DEF CallShape, AddedBy
    <3>2. call' = [call EXCEPT ![c] = x]
      BY <1>1, <2>2 DEF CallShape
    <3>3. f \in RowIds /\ RowLeft /\ AddedBy(call[c]) = {} /\ UNCHANGED jobs
      BY <1>2 DEF CreateRetry, RowLeft, Doing, AddedBy
    <3>4. ~Kept(f)
      BY <3>3, FreeRowIsFree, KeptIsMade DEF QueueInv
    <3> HIDE DEF x, f
    <3>5. /\ call' = [d \in Callers |-> call'[d]]
          /\ \A d \in Callers : call'[d] = IF d = c THEN x ELSE call[d]
      BY <1>1, <3>2 DEF CallShape
    <3>6. CallShape'
      BY <1>1, <3>1, <3>5 DEF CallShape
    <3>7. /\ \A r \in Rounds : AddedBy(round'[r]) \subseteq Unstarted \union {f}
          /\ \A d \in Callers : AddedBy(call'[d]) \subseteq Unstarted \union {f}
      BY <1>1, <3>1, <3>5 DEF QueueInv, AddInv
    <3>8. \A e \in RowIds : Adding(e)' <=> Adding(e) \/ e = f
      BY <1>1, <3>1, <3>3, <3>5 DEF Adding
    <3>9. OneAdder'
      BY <1>1, <3>1, <3>4, <3>5 DEF QueueInv, OneAdder, Kept, Adding
    <3>10. /\ \A e \in RowIds : Adding(e)' <=> Adding(e) \/ e = FreeRow
           /\ \A r \in Rounds : AddedBy(round'[r]) \subseteq Unstarted \union {FreeRow}
           /\ \A d \in Callers : AddedBy(call'[d]) \subseteq Unstarted \union {FreeRow}
      BY <3>7, <3>8 DEF f
    <3>11. \A d \in Callers : call'[d].todo \subseteq Made
      BY <3>1, <3>5 DEF QueueInv, TodoInv
    <3> QED
      BY <1>1, <2>2, <3>3, <3>6, <3>9, <3>10, <3>11, CreateStep
  <2> QED
    BY <1>2, <2>1, <2>2 DEF CreateRetry
<1>3. CASE QueueRetry(c)
  <2> DEFINE e == call[c].exec
             x == [state |-> "waiting", sched |-> call[c].sched, exec |-> e, row |-> NoRow,
                   at |-> 0, left |-> JobAttempts, stalled |-> 0]
             y == NextId(call[c], TRUE)
  <2>1. jobs' = [jobs EXCEPT ![FreeJob] = x] /\ JobLeft /\ UNCHANGED rows
    BY <1>3 DEF QueueRetry, QueueJob, Doing
  <2>2. /\ {"state", "sched", "exec", "row", "at", "left"} \subseteq DOMAIN x
        /\ x.state = "waiting" /\ x.exec = e /\ x.row = NoRow
    OBVIOUS
  <2>3. {"pc", "exec", "todo"} \subseteq DOMAIN y /\ AddedBy(y) = {} /\ y.todo = {}
    BY <1>1, NextIdShape DEF CallShape, AddedBy
  <2>4. call' = [call EXCEPT ![c] = y]
    BY <1>3 DEF QueueRetry, Proceed
  <2>5. AddedBy(call[c]) = {e}
    BY <1>3 DEF QueueRetry, Doing, AddedBy
  <2>6. e \in Unstarted /\ Unstarted \subseteq MadeRows /\ Adding(e)
    BY <2>5 DEF QueueInv, AddInv, Unstarted, MadeRows, Adding
  <2> HIDE DEF x, y, e
  <2>7. /\ call' = [d \in Callers |-> call'[d]]
        /\ \A d \in Callers : call'[d] = IF d = c THEN y ELSE call[d]
        /\ \A d \in Callers : AddedBy(call'[d]) = IF d = c THEN {} ELSE AddedBy(call[d])
    BY <1>1, <2>3, <2>4 DEF CallShape
  <2>8. CallShape'
    BY <1>1, <2>3, <2>7 DEF CallShape
  <2>9. \A d \in RowIds : Adding(d)' <=> Adding(d) /\ d # e
    <3>1. \A d \in RowIds : Adding(d)' => Adding(d) /\ d # e
      BY <1>1, <2>5, <2>7 DEF Adding, QueueInv, OneAdder
    <3>2. \A d \in RowIds : Adding(d) /\ d # e => Adding(d)'
      BY <1>1, <2>5, <2>7 DEF Adding
    <3> QED
      BY <3>1, <3>2
  <2>10. OneAdder'
    BY <1>1, <2>7 DEF QueueInv, OneAdder
  <2>11. /\ RowsQuiet
         /\ \A r \in Rounds : AddedBy(round'[r]) \subseteq Unstarted
         /\ \A d \in Callers : AddedBy(call'[d]) \subseteq Unstarted
    BY <1>1, <2>1, <2>7, UnchangedQuiet DEF QueueInv, AddInv
  <2>12. \A d \in Callers : call'[d].todo \subseteq Made
    BY <2>3, <2>7 DEF QueueInv, TodoInv
  <2>13. x.exec \in MadeRows \union {NoRow} /\ Adding(x.exec)
         /\ \A d \in RowIds : Adding(d)' <=> Adding(d) /\ d # x.exec
    BY <2>2, <2>6, <2>9
  <2> QED
    BY <1>1, <2>1, <2>2, <2>8, <2>10, <2>11, <2>12, <2>13, AddStep
<1> QED
  BY <1>2, <1>3

LEMMA ScheduleJobStep ==
  ASSUME ShapeInv, QueueInv, NEW c \in Callers, ScheduleJob(c)
  PROVE  ShapeInv' /\ QueueInv'
<1>1. RoundsQuiet /\ CallsQuiet /\ RowsQuiet
  BY OrdinaryStepQuiet, UnchangedQuiet DEF OrdinaryStep, ScheduleJob
<1>2. CASE UNCHANGED jobs
  BY <1>1, <1>2, QuietStep
<1>3. CASE JobLeft /\ jobs' = [jobs EXCEPT ![FreeJob] = DelayedJob(Current(c), call[c].next)]
  <2> DEFINE x == DelayedJob(Current(c), call[c].next)
  <2>1. /\ {"state", "sched", "exec", "row", "at", "left"} \subseteq DOMAIN x
        /\ x.state = "delayed" /\ x.exec = NoRow /\ x.row = NoRow
    BY DEF DelayedJob, NoJob
  <2> HIDE DEF x
  <2>2. jobs' = [jobs EXCEPT ![FreeJob] = x]
    BY <1>3 DEF x
  <2>3. RoundShape' /\ CallShape'
    BY <1>1 DEF RoundsQuiet, CallsQuiet
  <2>4. NoRow \notin RowIds
    BY SchedulingAssumption DEF NoRow, RowIds
  <2>5. /\ \A r \in Rounds : AddedBy(round'[r]) \subseteq Unstarted
        /\ \A d \in Callers : AddedBy(call'[d]) \subseteq Unstarted
    BY <1>1 DEF QueueInv, AddInv, RoundsQuiet, CallsQuiet
  <2>6. /\ \A e \in RowIds : Adding(e)' <=> Adding(e) /\ e # x.exec
        /\ OneAdder' /\ \A d \in Callers : call'[d].todo \subseteq Made
    BY <1>1, <2>1, <2>4, QuietAdds DEF QueueInv
  <2> QED
    BY <1>1, <1>3, <2>1, <2>2, <2>3, <2>4, <2>5, <2>6, AddStep
<1> QED
  BY <1>2, <1>3 DEF ScheduleJob

-----------------------------------------------------------------------------
(***************************************************************************)
(* Steps in which rows are lost, or go with their flow.                    *)
(***************************************************************************)

\* The rows rs become rs2: they keep their status, and those of E that are not finished
\* are lost.
Loses(rs, rs2, E) ==
  /\ rs2 = [e \in RowIds |-> rs2[e]]
  /\ \A e \in RowIds :
       /\ {"status", "sched", "fate"} \subseteq DOMAIN rs2[e]
       /\ rs2[e].status = rs[e].status
       /\ e \notin E => rs2[e].fate = rs[e].fate
       /\ e \in E /\ rs[e].status \in {"pending", "running"} => rs2[e].fate # "open"

LEMMA LoseLoses ==
  ASSUME NEW rs, \A e \in RowIds : {"status", "sched", "fate"} \subseteq DOMAIN rs[e],
         NEW E, NEW why, why # "open"
  PROVE  Loses(rs, Lose(rs, E, why), E)
<1> DEFINE rs2 == Lose(rs, E, why)
<1>1. \A e \in RowIds : rs2[e] = IF e \in E /\ rs[e].status \in {"pending", "running"}
                                 THEN [rs[e] EXCEPT !.fate = why] ELSE rs[e]
  BY DEF Lose
<1>2. rs2 = [e \in RowIds |-> rs2[e]]
  BY DEF Lose
<1> HIDE DEF rs2
<1>3. Loses(rs, rs2, E)
  BY <1>1, <1>2 DEF Loses
<1> QED
  BY <1>3 DEF rs2

\* The round or the call that was to add the rows of E ends without doing so.
LEMMA UnqueuedStep ==
  ASSUME ShapeInv, QueueInv, NEW E, Loses(rows, rows', E), UNCHANGED jobs,
         RoundShape', CallShape', \A c \in Callers : call'[c].todo \subseteq Made,
         \A r \in Rounds : AddedBy(round'[r]) \subseteq AddedBy(round[r]),
         \A c \in Callers : AddedBy(call'[c]) \subseteq AddedBy(call[c]),
         \A e \in RowIds : (e \in E => Adding(e)) /\ (Adding(e)' <=> Adding(e) /\ e \notin E)
  PROVE  ShapeInv' /\ QueueInv'
<1>1. RowShape' /\ \A e \in RowIds : rows'[e].status = rows[e].status
  BY DEF Loses, RowShape
<1>2. ShapeInv'
  BY <1>1 DEF ShapeInv, JobShape
<1>3. RowPrefix' /\ JobPrefix'
  BY <1>1 DEF QueueInv, RowPrefix, JobPrefix
<1>4. \A j \in JobIds : (Live(j)' <=> Live(j)) /\ \A e : Holds(j, e)' <=> Holds(j, e)
  BY DEF Live, Queued, Locked, Holds
<1>5. WorkerInv'
  BY <1>1, <1>4 DEF QueueInv, WorkerInv, AddInv, MadeRows
<1>6. AddInv' /\ TodoInv'
  <2>1. MadeRows' = MadeRows /\ Unstarted' = Unstarted
    BY <1>1 DEF MadeRows, Unstarted
  <2> QED
    BY <2>1 DEF QueueInv, AddInv, TodoInv, Made
<1>7. OneAdder'
  BY DEF QueueInv, OneAdder
<1>8. OneJob'
  BY <1>4 DEF QueueInv, OneJob
<1>9. KeptInv'
  <2> SUFFICES ASSUME NEW e \in RowIds
               PROVE  /\ Kept(e)' => rows'[e].fate = "open"
                      /\ Unfinished(e)' /\ rows'[e].fate = "open" => Kept(e)'
    BY DEF KeptInv
  <2>1. CASE e \in E
    <3>1. ~Adding(e)' /\ \A j \in JobIds : ~Holds(j, e)'
      BY <1>4, <2>1 DEF QueueInv, OneJob
    <3> QED
      BY <1>1, <2>1, <3>1 DEF Kept, Unfinished, Loses
  <2>2. CASE e \notin E
    <3>1. (Kept(e)' <=> Kept(e)) /\ rows'[e].fate = rows[e].fate
      BY <1>4, <2>2 DEF Kept, Loses
    <3> QED
      BY <1>1, <3>1 DEF QueueInv, KeptInv, Unfinished
  <2> QED
    BY <2>1, <2>2
<1> QED
  BY <1>2, <1>3, <1>5, <1>6, <1>7, <1>8, <1>9 DEF QueueInv

LEMMA RoundFailsStep ==
  ASSUME ShapeInv, QueueInv, NEW r \in Rounds, RoundFails(r)
  PROVE  ShapeInv' /\ QueueInv'
<1>1. Loses(rows, rows', AddedBy(round[r]))
  BY LoseLoses DEF RoundFails, ShapeInv, RowShape
<1>2. /\ round' = [round EXCEPT ![r] = NoRound] /\ UNCHANGED <<jobs, call>>
  BY DEF RoundFails
<1>3. AddedBy(NoRound) = {}
  BY NoRoundShape DEF AddedBy
<1>4. /\ round' = [q \in Rounds |-> round'[q]]
      /\ \A q \in Rounds : round'[q] = IF q = r THEN NoRound ELSE round[q]
  BY <1>2 DEF ShapeInv, RoundShape
<1>5. /\ RoundShape' /\ CallShape' /\ \A c \in Callers : call'[c].todo \subseteq Made
      /\ \A c \in Callers : AddedBy(call'[c]) = AddedBy(call[c])
  BY <1>2, <1>4, NoRoundShape DEF ShapeInv, RoundShape, CallShape, QueueInv, TodoInv
<1>6. \A q \in Rounds : AddedBy(round'[q]) = IF q = r THEN {} ELSE AddedBy(round[q])
  BY <1>3, <1>4
<1>7. \A e \in RowIds : Adding(e)' <=> Adding(e) /\ e \notin AddedBy(round[r])
  <2>1. \A e \in RowIds : Adding(e)' => Adding(e) /\ e \notin AddedBy(round[r])
    BY <1>5, <1>6 DEF Adding, QueueInv, OneAdder
  <2>2. \A e \in RowIds : Adding(e) /\ e \notin AddedBy(round[r]) => Adding(e)'
    BY <1>5, <1>6 DEF Adding
  <2> QED
    BY <2>1, <2>2
<1>8. \A e \in RowIds : e \in AddedBy(round[r]) => Adding(e)
  BY DEF Adding
<1> QED
  BY <1>1, <1>2, <1>5, <1>6, <1>7, <1>8, UnqueuedStep

LEMMA CallRejectedStep ==
  ASSUME ShapeInv, QueueInv, NEW c \in Callers, CallRejected(c)
  PROVE  ShapeInv' /\ QueueInv'
<1> DEFINE y == NextId(call[c], FALSE)
<1>1. Loses(rows, rows', AddedBy(call[c]))
  BY LoseLoses DEF CallRejected, ShapeInv, RowShape
<1>2. call' = [call EXCEPT ![c] = y] /\ UNCHANGED <<jobs, round>>
  BY DEF CallRejected, Proceed
<1>3. {"pc", "exec", "todo"} \subseteq DOMAIN y /\ AddedBy(y) = {} /\ y.todo = {}
  BY NextIdShape DEF ShapeInv, CallShape, AddedBy
<1> HIDE DEF y
<1>4. /\ call' = [d \in Callers |-> call'[d]]
      /\ \A d \in Callers : call'[d] = IF d = c THEN y ELSE call[d]
  BY <1>2 DEF ShapeInv, CallShape
<1>5. /\ CallShape' /\ RoundShape' /\ \A d \in Callers : call'[d].todo \subseteq Made
      /\ \A r \in Rounds : AddedBy(round'[r]) = AddedBy(round[r])
  BY <1>2, <1>3, <1>4 DEF ShapeInv, RoundShape, CallShape, QueueInv, TodoInv
<1>6. \A d \in Callers : AddedBy(call'[d]) = IF d = c THEN {} ELSE AddedBy(call[d])
  BY <1>3, <1>4
<1>7. \A e \in RowIds : Adding(e)' <=> Adding(e) /\ e \notin AddedBy(call[c])
  <2>1. \A e \in RowIds : Adding(e)' => Adding(e) /\ e \notin AddedBy(call[c])
    BY <1>5, <1>6 DEF Adding, QueueInv, OneAdder
  <2>2. \A e \in RowIds : Adding(e) /\ e \notin AddedBy(call[c]) => Adding(e)'
    BY <1>5, <1>6 DEF Adding
  <2> QED
    BY <2>1, <2>2
<1>8. \A e \in RowIds : e \in AddedBy(call[c]) => Adding(e)
  BY DEF Adding
<1> QED
  BY <1>1, <1>2, <1>5, <1>6, <1>7, <1>8, UnqueuedStep

-----------------------------------------------------------------------------
(***************************************************************************)
(* Steps of one job.                                                       *)
(***************************************************************************)

\* The record x of a job holds the row e.
HeldBy(x, e) == /\ x.state \in {"delayed", "waiting", "taken", "loaded", "active"}
                /\ e \in {x.exec, x.row}

LEMMA HoldsIsHeldBy == \A j, e : Holds(j, e) <=> HeldBy(jobs[j], e)
BY DEF Holds, HeldBy, Live, Queued, Locked

\* A job of the queue becomes x.
JobMoves(j, x) ==
  /\ jobs[j].state # "none" /\ jobs' = [jobs EXCEPT ![j] = x]
  /\ {"state", "sched", "exec", "row", "at", "left"} \subseteq DOMAIN x
  /\ x.state \in {"delayed", "waiting", "taken", "loaded", "active", "over"}
  /\ x.exec \in {jobs[j].exec, NoRow}
  /\ x.state \in {"loaded", "active"} =>
       /\ x.row \in RowIds /\ rows'[x.row].status # "none"
       /\ x.exec \in RowIds /\ x.row # x.exec => rows'[x.exec].status = "gone"
  /\ x.state \notin {"loaded", "active"} => x.row = NoRow
  /\ x.state = "over" => x.exec = NoRow

\* The job leaves the rows of others alone, holds on to its own or has made another,
\* and those it leaves are finished or lost.
RowsFollow(j, x) ==
  /\ RowShape' /\ RowPrefix'
  /\ \A e \in RowIds :
       /\ rows[e].status = "gone" => rows'[e].status = "gone"
       /\ rows[e].status # "none" => rows'[e].status # "none"
       /\ ~Holds(j, e) /\ ~HeldBy(x, e) => /\ rows'[e].status = rows[e].status
                                           /\ rows'[e].fate = rows[e].fate
       /\ HeldBy(x, e) => /\ rows'[e].fate = "open"
                          /\ Holds(j, e) \/ rows[e].status = "none"
       /\ Holds(j, e) /\ ~HeldBy(x, e) => ~Unfinished(e)' \/ rows'[e].fate # "open"

LEMMA JobStep ==
  ASSUME ShapeInv, QueueInv, RoundsQuiet, CallsQuiet,
         NEW j \in JobIds, NEW x, JobMoves(j, x), RowsFollow(j, x)
  PROVE  ShapeInv' /\ QueueInv'
<1>1. \A k \in JobIds : jobs'[k] = IF k = j THEN x ELSE jobs[k]
  BY DEF JobMoves, ShapeInv, JobShape
<1>2. jobs' = [k \in JobIds |-> jobs'[k]]
  BY DEF JobMoves, ShapeInv, JobShape
<1>3. ShapeInv'
  BY <1>1, <1>2 DEF JobMoves, RowsFollow, ShapeInv, JobShape, RoundsQuiet, CallsQuiet
<1>4. \A k \in JobIds : jobs'[k].state # "none" <=> jobs[k].state # "none"
  BY <1>1 DEF JobMoves
<1>5. RowPrefix' /\ JobPrefix'
  BY <1>4 DEF RowsFollow, QueueInv, JobPrefix
<1>6. WorkerInv'
  <2>1. \A k \in JobIds \ {j} : jobs'[k] = jobs[k] /\ (Live(k)' <=> Live(k))
    BY <1>1 DEF Live, Queued, Locked
  <2>2. jobs'[j] = x /\ (~Live(j)' => x.state = "over")
    BY <1>1 DEF JobMoves, Live, Queued, Locked
  <2> QED
    BY <2>1, <2>2 DEF JobMoves, RowsFollow, QueueInv, WorkerInv
<1>7. /\ \A e \in RowIds : Adding(e)' <=> Adding(e)
      /\ OneAdder' /\ \A c \in Callers : call'[c].todo \subseteq Made
  BY QuietAdds DEF QueueInv
<1>8. \A e \in RowIds : /\ Holds(j, e)' <=> HeldBy(x, e)
                        /\ \A k \in JobIds \ {j} : Holds(k, e)' <=> Holds(k, e)
  <2>1. \A e : Holds(j, e)' <=> HeldBy(x, e)
    BY <1>1 DEF Holds, HeldBy, Live, Queued, Locked
  <2>2. \A k \in JobIds \ {j} : \A e : Holds(k, e)' <=> Holds(k, e)
    BY <1>1 DEF Holds, Live, Queued, Locked
  <2> QED
    BY <2>1, <2>2
<1>9. \A e \in RowIds : /\ Adding(e) => ~Holds(j, e) /\ ~HeldBy(x, e)
                        /\ \A k \in JobIds \ {j} : Holds(k, e) => ~Holds(j, e) /\ ~HeldBy(x, e)
  <2>1. \A e \in RowIds : Kept(e) => rows[e].status # "none"
    BY KeptIsMade DEF QueueInv
  <2> QED
    BY <2>1 DEF Kept, RowsFollow, QueueInv, OneJob
<1>10. AddInv'
  <2>1. MadeRows \subseteq MadeRows'
    BY DEF RowsFollow, MadeRows
  <2>2. \A e \in RowIds : Adding(e) /\ e \in Unstarted => e \in Unstarted'
    BY <1>9 DEF RowsFollow, Unstarted
  <2>3. \A r \in Rounds : AddedBy(round'[r]) \subseteq Unstarted'
    BY <2>2 DEF QueueInv, AddInv, RoundsQuiet, Adding, Unstarted
  <2>4. \A c \in Callers : AddedBy(call'[c]) \subseteq Unstarted'
    BY <2>2 DEF QueueInv, AddInv, CallsQuiet, Adding, Unstarted
  <2> QED
    BY <1>1, <2>1, <2>3, <2>4 DEF JobMoves, QueueInv, AddInv
<1>11. TodoInv'
  BY <1>4, <1>7 DEF TodoInv, Made
<1>12. OneJob'
  BY <1>7, <1>8, <1>9 DEF QueueInv, OneJob, RowsFollow
<1>13. KeptInv'
  <2> SUFFICES ASSUME NEW e \in RowIds
               PROVE  /\ Kept(e)' => rows'[e].fate = "open"
                      /\ Unfinished(e)' /\ rows'[e].fate = "open" => Kept(e)'
    BY DEF KeptInv
  <2>1. CASE HeldBy(x, e)
    BY <1>8, <2>1 DEF RowsFollow, Kept
  <2>2. CASE ~HeldBy(x, e) /\ Holds(j, e)
    <3>1. ~Kept(e)'
      BY <1>7, <1>8, <1>9, <2>2 DEF Kept
    <3> QED
      BY <2>2, <3>1 DEF RowsFollow
  <2>3. CASE ~HeldBy(x, e) /\ ~Holds(j, e)
    <3>1. Kept(e)' <=> Kept(e)
      BY <1>7, <1>8, <2>3 DEF Kept
    <3> QED
      BY <2>3, <3>1 DEF RowsFollow, QueueInv, KeptInv, Unfinished
  <2> QED
    BY <2>1, <2>2, <2>3
<1> QED
  BY <1>3, <1>5, <1>6, <1>7, <1>10, <1>11, <1>12, <1>13 DEF QueueInv

\* What a job of the queue has: its fate is open, and what it has is made.
LEMMA HeldRows ==
  ASSUME QueueInv, NEW j \in JobIds
  PROVE  /\ \A e \in RowIds : Holds(j, e) => rows[e].status # "none" /\ rows[e].fate = "open"
         /\ \A e \in RowIds : Holds(j, e) <=> Live(j) /\ (e = jobs[j].exec \/ e = jobs[j].row)
         /\ NoRow \notin RowIds
<1>1. NoRow \notin RowIds
  BY SchedulingAssumption DEF NoRow, RowIds
<1> QED
  BY <1>1, KeptIsMade DEF QueueInv, KeptInv, Kept, Holds

LEMMA OverShape == /\ DOMAIN Over = {"state", "sched", "exec", "row", "at", "left", "stalled"}
                   /\ Over.state = "over" /\ Over.exec = NoRow /\ Over.row = NoRow
BY DEF Over, NoJob

\* The record of a job that is not with a worker any more.
Idle(x, y) == /\ {"state", "sched", "exec", "row", "at", "left"} \subseteq DOMAIN x
              /\ x.row = NoRow
              /\ \/ x.state = "over" /\ x.exec = NoRow
                 \/ x.state \in {"delayed", "waiting"} /\ x.exec = y.exec

LEMMA AttemptedShape ==
  ASSUME ShapeInv, NEW j \in JobIds, jobs' = Attempted(j)
  PROVE  \E x : /\ jobs' = [jobs EXCEPT ![j] = x] /\ Idle(x, jobs[j])
                /\ x.state = IF jobs[j].left = 1 THEN "over" ELSE "delayed"
<1>1. CASE jobs[j].left = 1
  <2>1. jobs' = [jobs EXCEPT ![j] = Over]
    BY <1>1 DEF Attempted
  <2> QED
    BY <1>1, <2>1, OverShape DEF Idle
<1>2. CASE jobs[j].left # 1
  <2> DEFINE n == jobs[j].left - 1
             x == [jobs[j] EXCEPT !.state = "delayed", !.left = n, !.at = now, !.row = NoRow]
  <2>1. jobs' = [jobs EXCEPT ![j] = IF jobs[j].left = 1 THEN Over ELSE x]
    BY DEF Attempted, ShapeInv, JobShape
  <2> HIDE DEF n
  <2>2. Idle(x, jobs[j]) /\ x.state = "delayed"
    BY DEF ShapeInv, JobShape, Idle
  <2> HIDE DEF x
  <2> QED
    BY <1>2, <2>1, <2>2
<1> QED
  BY <1>1, <1>2

\* A job that is with no worker is removed, and its row is lost.
LEMMA RemoveJobStep ==
  ASSUME ShapeInv, QueueInv, NEW c \in Callers, RemoveJob(c)
  PROVE  ShapeInv' /\ QueueInv'
<1>1. RoundsQuiet /\ CallsQuiet
  BY OrdinaryStepQuiet DEF OrdinaryStep
<1>2. CASE UNCHANGED <<jobs, rows>>
  BY <1>1, <1>2, QuietStep, UnchangedQuiet
<1>3. ASSUME NEW j \in call[c].todo, ~Locked(j),
             jobs' = [jobs EXCEPT ![j] = Over],
             rows' = Lose(rows, {jobs[j].exec}, "cancelled")
      PROVE  ShapeInv' /\ QueueInv'
  <2>1. Loses(rows, rows', {jobs[j].exec})
    BY <1>3, LoseLoses DEF ShapeInv, RowShape
  <2>2. j \in JobIds /\ jobs[j].state # "none"
    BY <1>3 DEF QueueInv, TodoInv, Made
  <2>3. \A e \in RowIds : Holds(j, e) <=> e = jobs[j].exec
    <3>1. jobs[j].row = NoRow
      BY <1>3, <2>2 DEF QueueInv, WorkerInv, Locked
    <3>2. jobs[j].exec \in RowIds => Live(j)
      BY <2>2, HeldRows DEF QueueInv, WorkerInv
    <3> QED
      BY <2>2, <3>1, <3>2, HeldRows
  <2>4. \A e : ~HeldBy(Over, e)
    BY OverShape DEF HeldBy
  <2>5. RowShape' /\ RowPrefix' /\ \A e \in RowIds : rows'[e].status = rows[e].status
    BY <2>1 DEF Loses, RowShape, QueueInv, RowPrefix
  <2>6. JobMoves(j, Over)
    BY <1>3, <2>2, OverShape DEF JobMoves
  <2>7. RowsFollow(j, Over)
    BY <2>1, <2>3, <2>4, <2>5 DEF RowsFollow, Loses, Unfinished
  <2> QED
    BY <1>1, <2>2, <2>6, <2>7, JobStep
<1> QED
  BY <1>2, <1>3 DEF RemoveJob

LEMMA PromoteStep ==
  ASSUME ShapeInv, QueueInv, NEW j \in JobIds, Promote(j) \/ TakeJob(j)
  PROVE  ShapeInv' /\ QueueInv'
<1>1. RoundsQuiet /\ CallsQuiet /\ UNCHANGED rows
  <2>1. CASE Promote(j)
    BY <2>1, UnchangedQuiet DEF Promote
  <2>2. CASE TakeJob(j)
    <3>1. \A c \in Callers : call'[c] \in {call[c], [call[c] EXCEPT !.ran = @ \union {j}]}
      BY <2>2 DEF TakeJob
    <3>2. call' = [c \in Callers |-> call'[c]]
      BY <2>2 DEF TakeJob
    <3>3. CallsQuiet
      BY <3>1, <3>2 DEF ShapeInv, CallShape, CallsQuiet, AddedBy
    <3> QED
      BY <2>2, <3>3, UnchangedQuiet DEF TakeJob
  <2> QED
    BY <2>1, <2>2
<1>2. PICK x : /\ jobs' = [jobs EXCEPT ![j] = x] /\ jobs[j].state \in {"delayed", "waiting"}
               /\ {"state", "sched", "exec", "row", "at", "left"} \subseteq DOMAIN x
               /\ x.state \in {"waiting", "taken"}
               /\ x.exec = jobs[j].exec /\ x.row = jobs[j].row
  <2>1. CASE Promote(j)
    <3> DEFINE x == [jobs[j] EXCEPT !.state = "waiting", !.at = 0]
    <3>1. jobs' = [jobs EXCEPT ![j] = x]
      BY <2>1 DEF Promote, ShapeInv, JobShape
    <3>2. /\ {"state", "sched", "exec", "row", "at", "left"} \subseteq DOMAIN x
          /\ x.state = "waiting" /\ x.exec = jobs[j].exec /\ x.row = jobs[j].row
      BY DEF ShapeInv, JobShape
    <3> HIDE DEF x
    <3> QED
      BY <2>1, <3>1, <3>2 DEF Promote
  <2>2. CASE TakeJob(j)
    <3> DEFINE x == [jobs[j] EXCEPT !.state = "taken"]
    <3>1. jobs' = [jobs EXCEPT ![j] = x]
      BY <2>2 DEF TakeJob, ShapeInv, JobShape
    <3>2. /\ {"state", "sched", "exec", "row", "at", "left"} \subseteq DOMAIN x
          /\ x.state = "taken" /\ x.exec = jobs[j].exec /\ x.row = jobs[j].row
      BY DEF ShapeInv, JobShape
    <3> HIDE DEF x
    <3> QED
      BY <2>2, <3>1, <3>2 DEF TakeJob
  <2> QED
    BY <2>1, <2>2
<1>3. x.row = NoRow
  BY <1>2 DEF QueueInv, WorkerInv
<1>4. \A e \in RowIds : HeldBy(x, e) <=> Holds(j, e)
  BY <1>2 DEF HeldBy, Holds, Live, Queued
<1>5. JobMoves(j, x)
  BY <1>2, <1>3 DEF JobMoves
<1>6. RowShape' /\ RowPrefix'
  BY <1>1 DEF ShapeInv, RowShape, QueueInv, RowPrefix
<1>7. RowsFollow(j, x)
  BY <1>1, <1>4, <1>6, HeldRows DEF RowsFollow
<1> QED
  BY <1>1, <1>5, <1>7, JobStep

\* A row that exists is given a status.
LEMMA RowBecomesShape ==
  ASSUME ShapeInv, QueueInv, NEW r \in RowIds, rows[r].status # "none",
         NEW status \in {"running", "success", "failed"}, rows' = RowBecomes(r, status)
  PROVE  /\ RowShape' /\ RowPrefix'
         /\ \A e \in RowIds : e # r => rows'[e] = rows[e]
         /\ rows'[r].status = IF rows[r].status = "gone" THEN "gone" ELSE status
         /\ rows'[r].fate = rows[r].fate
<1>1. CASE rows[r].status = "gone"
  BY <1>1 DEF RowBecomes, ShapeInv, RowShape, QueueInv, RowPrefix
<1>2. CASE rows[r].status # "gone"
  <2> DEFINE x == [rows[r] EXCEPT !.status = status]
  <2>1. /\ {"status", "sched", "fate"} \subseteq DOMAIN x
        /\ x.status = status /\ x.fate = rows[r].fate
    BY DEF ShapeInv, RowShape
  <2>2. rows' = [rows EXCEPT ![r] = x]
    BY <1>2 DEF RowBecomes, ShapeInv, RowShape
  <2> HIDE DEF x
  <2>3. /\ rows' = [e \in RowIds |-> rows'[e]]
        /\ \A e \in RowIds : rows'[e] = IF e = r THEN x ELSE rows[e]
    BY <2>2 DEF ShapeInv, RowShape
  <2>4. RowShape'
    BY <2>1, <2>3 DEF ShapeInv, RowShape
  <2>5. \A e \in RowIds : rows'[e].status # "none" <=> rows[e].status # "none"
    BY <2>1, <2>3
  <2>6. RowPrefix'
    BY <2>5 DEF QueueInv, RowPrefix
  <2> QED
    BY <1>2, <2>1, <2>3, <2>4, <2>6
<1> QED
  BY <1>1, <1>2

\* The row of the job is found, or made, or cannot be made.
LEMMA LoadRowStep ==
  ASSUME ShapeInv, QueueInv, NEW j \in JobIds, LoadRow(j)
  PROVE  ShapeInv' /\ QueueInv'
<1>1. RoundsQuiet /\ CallsQuiet
  BY UnchangedQuiet DEF LoadRow
<1>2. /\ jobs[j].state = "taken" /\ Live(j) /\ jobs[j].row = NoRow
      /\ jobs[j].exec \in MadeRows \union {NoRow}
  BY DEF LoadRow, QueueInv, AddInv, WorkerInv, Live, Locked
<1>3. \A e \in RowIds : Holds(j, e) <=> e = jobs[j].exec
  BY <1>2, HeldRows
<1>4. CASE jobs' = Attempted(j) /\ UNCHANGED rows /\ ~Exists(jobs[j].exec)
  <2>1. PICK x : jobs' = [jobs EXCEPT ![j] = x] /\ Idle(x, jobs[j])
    BY <1>4, AttemptedShape
  <2>2. \A e \in RowIds : Holds(j, e) => rows[e].status = "gone"
    BY <1>3, <1>4, HeldRows DEF Exists
  <2>3. RowShape' /\ RowPrefix'
    BY <1>4 DEF ShapeInv, RowShape, QueueInv, RowPrefix
  <2>4. \A e \in RowIds : HeldBy(x, e) => Holds(j, e)
    BY <1>3, <2>1, HeldRows DEF HeldBy, Idle
  <2>5. JobMoves(j, x)
    BY <1>2, <2>1 DEF JobMoves, Idle
  <2>6. RowsFollow(j, x)
    BY <1>4, <2>2, <2>3, <2>4, HeldRows DEF RowsFollow, Unfinished
  <2> QED
    BY <1>1, <2>5, <2>6, JobStep
<1>5. ASSUME NEW e \in RowIds, jobs' = [jobs EXCEPT ![j].state = "loaded", ![j].row = e]
      PROVE  \E x : /\ jobs' = [jobs EXCEPT ![j] = x]
                    /\ {"state", "sched", "exec", "row", "at", "left"} \subseteq DOMAIN x
                    /\ x.state = "loaded" /\ x.exec = jobs[j].exec /\ x.row = e
                    /\ \A d \in RowIds : HeldBy(x, d) <=> Holds(j, d) \/ d = e
  <2> DEFINE x == [jobs[j] EXCEPT !.state = "loaded", !.row = e]
  <2>1. jobs' = [jobs EXCEPT ![j] = x]
    BY <1>5 DEF ShapeInv, JobShape
  <2>2. /\ {"state", "sched", "exec", "row", "at", "left"} \subseteq DOMAIN x
        /\ x.state = "loaded" /\ x.exec = jobs[j].exec /\ x.row = e
    BY DEF ShapeInv, JobShape
  <2> HIDE DEF x
  <2>3. \A d \in RowIds : HeldBy(x, d) <=> Holds(j, d) \/ d = e
    BY <1>3, <2>2 DEF HeldBy
  <2> QED
    BY <2>1, <2>2, <2>3
<1>6. CASE /\ Exists(jobs[j].exec) /\ UNCHANGED rows
           /\ jobs' = [jobs EXCEPT ![j].state = "loaded", ![j].row = jobs[j].exec]
  <2> DEFINE e == jobs[j].exec
  <2>1. e \in RowIds /\ rows[e].status # "none"
    BY <1>2, <1>6 DEF Exists, MadeRows
  <2>2. jobs' = [jobs EXCEPT ![j].state = "loaded", ![j].row = e]
    BY <1>6
  <2>3. \A d \in RowIds : Holds(j, d) <=> d = e
    BY <1>3
  <2> HIDE DEF e
  <2>4. PICK x : /\ jobs' = [jobs EXCEPT ![j] = x]
                 /\ {"state", "sched", "exec", "row", "at", "left"} \subseteq DOMAIN x
                 /\ x.state = "loaded" /\ x.exec = jobs[j].exec /\ x.row = e
                 /\ \A d \in RowIds : HeldBy(x, d) <=> Holds(j, d) \/ d = e
    BY <1>5, <2>1, <2>2
  <2>5. RowShape' /\ RowPrefix'
    BY <1>6 DEF ShapeInv, RowShape, QueueInv, RowPrefix
  <2>6. JobMoves(j, x)
    BY <1>2, <1>6, <2>1, <2>4 DEF JobMoves, e
  <2>7. RowsFollow(j, x)
    BY <1>6, <2>3, <2>4, <2>5, HeldRows DEF RowsFollow
  <2> QED
    BY <1>1, <2>6, <2>7, JobStep
<1>7. CASE /\ ~Exists(jobs[j].exec) /\ RowLeft /\ CreateExecution(jobs[j].sched)
           /\ jobs' = [jobs EXCEPT ![j].state = "loaded", ![j].row = FreeRow]
  <2> DEFINE f == FreeRow
             y == [status |-> "pending", sched |-> jobs[j].sched, fate |-> "open"]
  <2>1. f \in RowIds /\ rows[f].status = "none"
    BY <1>7, FreeRowIsFree DEF RowLeft, QueueInv
  <2>2. \E k \in 0..MaxRows : \A e \in RowIds : (rows[e].status # "none" \/ e = f) <=> e <= k
    BY <1>7, FreeRowIsFree DEF QueueInv
  <2>3. /\ rows' = [rows EXCEPT ![f] = y]
        /\ jobs' = [jobs EXCEPT ![j].state = "loaded", ![j].row = f]
    BY <1>7 DEF CreateExecution
  <2>4. /\ {"status", "sched", "fate"} \subseteq DOMAIN y
        /\ y.status = "pending" /\ y.fate = "open"
    OBVIOUS
  <2> HIDE DEF f, y
  <2>5. /\ rows' = [e \in RowIds |-> rows'[e]]
        /\ \A e \in RowIds : rows'[e] = IF e = f THEN y ELSE rows[e]
    BY <2>1, <2>3 DEF ShapeInv, RowShape
  <2>6. RowShape'
    BY <2>4, <2>5 DEF ShapeInv, RowShape
  <2>7. \A e \in RowIds : rows'[e].status # "none" <=> (rows[e].status # "none" \/ e = f)
    BY <2>4, <2>5
  <2>8. RowPrefix'
    BY <2>2, <2>7 DEF RowPrefix
  <2>9. PICK x : /\ jobs' = [jobs EXCEPT ![j] = x]
                 /\ {"state", "sched", "exec", "row", "at", "left"} \subseteq DOMAIN x
                 /\ x.state = "loaded" /\ x.exec = jobs[j].exec /\ x.row = f
                 /\ \A d \in RowIds : HeldBy(x, d) <=> Holds(j, d) \/ d = f
    BY <1>5, <2>1, <2>3
  <2>10. \A e \in RowIds : Holds(j, e) => rows[e].status = "gone" /\ rows'[e].status = "gone"
    BY <1>3, <1>7, <2>1, <2>5, HeldRows DEF Exists
  <2>11. jobs[j].exec \in RowIds => rows'[jobs[j].exec].status = "gone"
    BY <1>3, <2>10
  <2>12. rows'[f].status # "none" /\ rows'[f].fate = "open"
    BY <2>1, <2>4, <2>5
  <2>13. JobMoves(j, x)
    BY <1>2, <2>1, <2>9, <2>11, <2>12 DEF JobMoves
  <2>14. RowsFollow(j, x)
    BY <2>1, <2>5, <2>6, <2>8, <2>9, <2>12, HeldRows DEF RowsFollow
  <2> QED
    BY <1>1, <2>13, <2>14, JobStep
<1>8. CASE Exists(jobs[j].exec)
  BY <1>6, <1>8 DEF LoadRow
<1>9. CASE ~Exists(jobs[j].exec)
  BY <1>4, <1>7, <1>9 DEF LoadRow
<1> QED
  BY <1>8, <1>9

LEMMA MarkRunningStep ==
  ASSUME ShapeInv, QueueInv, NEW j \in JobIds, MarkRunning(j)
  PROVE  ShapeInv' /\ QueueInv'
<1>1. RoundsQuiet /\ CallsQuiet
  BY UnchangedQuiet DEF MarkRunning
<1> DEFINE r == jobs[j].row
           x == [jobs[j] EXCEPT !.state = "active"]
<1>2. /\ jobs[j].state = "loaded" /\ Live(j) /\ r \in RowIds /\ rows[r].status # "none"
      /\ jobs[j].exec \in RowIds /\ r # jobs[j].exec => rows[jobs[j].exec].status = "gone"
  BY DEF MarkRunning, QueueInv, WorkerInv, Live, Locked
<1>3. jobs' = [jobs EXCEPT ![j] = x] /\ rows' = RowBecomes(r, "running")
  BY DEF MarkRunning, ShapeInv, JobShape
<1>4. /\ {"state", "sched", "exec", "row", "at", "left"} \subseteq DOMAIN x
      /\ x.state = "active" /\ x.exec = jobs[j].exec /\ x.row = r
  BY DEF ShapeInv, JobShape
<1>5. Holds(j, r) /\ \A e \in RowIds : Holds(j, e) <=> e = jobs[j].exec \/ e = r
  BY <1>2, HeldRows
<1> HIDE DEF x, r
<1>6. /\ RowShape' /\ RowPrefix'
      /\ \A e \in RowIds : e # r => rows'[e] = rows[e]
      /\ rows'[r].status = IF rows[r].status = "gone" THEN "gone" ELSE "running"
      /\ rows'[r].fate = rows[r].fate
  BY <1>2, <1>3, RowBecomesShape
<1>7. \A e \in RowIds : HeldBy(x, e) <=> Holds(j, e)
  BY <1>4, <1>5 DEF HeldBy
<1>8. \A e \in RowIds : Holds(j, e) => rows'[e].fate = "open"
  BY <1>6, HeldRows
<1>9. JobMoves(j, x)
  BY <1>2, <1>3, <1>4, <1>6 DEF JobMoves
<1>10. RowsFollow(j, x)
  BY <1>2, <1>5, <1>6, <1>7, <1>8 DEF RowsFollow
<1> QED
  BY <1>1, <1>9, <1>10, JobStep

\* An attempt that ends leaves a verdict in its row.
LEMMA EndJobStep ==
  ASSUME ShapeInv, QueueInv, NEW j \in JobIds, CompleteJob(j) \/ ThrowJob(j)
  PROVE  ShapeInv' /\ QueueInv'
<1> DEFINE r == jobs[j].row
<1>1. /\ jobs[j].state \in {"loaded", "active"} /\ Live(j)
      /\ r \in RowIds /\ rows[r].status # "none"
      /\ jobs[j].exec \in RowIds /\ r # jobs[j].exec => rows[jobs[j].exec].status = "gone"
  BY DEF CompleteJob, ThrowJob, QueueInv, WorkerInv, Live, Locked
<1>2. RoundsQuiet /\ CallsQuiet
  BY UnchangedQuiet DEF CompleteJob, ThrowJob
<1>3. PICK status \in {"success", "failed"} : rows' = RowBecomes(r, status)
  BY DEF CompleteJob, ThrowJob
<1>4. PICK x : jobs' = [jobs EXCEPT ![j] = x] /\ Idle(x, jobs[j])
  <2>1. Idle(Over, jobs[j])
    BY OverShape DEF Idle
  <2>2. jobs' = [jobs EXCEPT ![j] = Over] \/ jobs' = Attempted(j)
    BY DEF CompleteJob, ThrowJob
  <2> QED
    BY <2>1, <2>2, AttemptedShape
<1>5. \A e \in RowIds : Holds(j, e) <=> e = jobs[j].exec \/ e = r
  BY <1>1, HeldRows
<1> HIDE DEF r
<1>6. /\ RowShape' /\ RowPrefix'
      /\ \A e \in RowIds : e # r => rows'[e] = rows[e]
      /\ rows'[r].status = IF rows[r].status = "gone" THEN "gone" ELSE status
      /\ rows'[r].fate = rows[r].fate
  BY <1>1, <1>3, RowBecomesShape
<1>7. \A e \in RowIds : HeldBy(x, e) => Holds(j, e)
  BY <1>4, <1>5, HeldRows DEF HeldBy, Idle
<1>8. \A e \in RowIds : Holds(j, e) => rows'[e].fate = "open" /\ ~Unfinished(e)'
  <2>1. \A e \in RowIds : Holds(j, e) => rows'[e].fate = "open"
    BY <1>6, HeldRows
  <2>2. \A e \in RowIds : Holds(j, e) => rows'[e].status \in {"success", "failed", "gone"}
    BY <1>1, <1>5, <1>6
  <2> QED
    BY <2>1, <2>2 DEF Unfinished
<1>9. JobMoves(j, x)
  BY <1>1, <1>4 DEF JobMoves, Idle
<1>10. RowsFollow(j, x)
  BY <1>1, <1>5, <1>6, <1>7, <1>8 DEF RowsFollow
<1> QED
  BY <1>2, <1>9, <1>10, JobStep

\* A job with a worker does not hold what it leaves.
LEMMA LeftRows ==
  ASSUME QueueInv, NEW j \in JobIds, Locked(j), NEW again \in BOOLEAN
  PROVE  \A e \in RowIds : /\ e \in LeftBy(j, again) => Holds(j, e)
                           /\ Holds(j, e) => e \in LeftBy(j, again) \/ (again /\ e = jobs[j].exec)
                           /\ e \in LeftBy(j, again) => ~(again /\ e = jobs[j].exec)
BY HeldRows DEF LeftBy, Live

LEMMA JobRejectedStep ==
  ASSUME ShapeInv, QueueInv, NEW j \in JobIds, JobRejected(j)
  PROVE  ShapeInv' /\ QueueInv'
<1> DEFINE again == jobs[j].left # 1
<1>1. RoundsQuiet /\ CallsQuiet /\ Locked(j) /\ jobs[j].state # "none"
  BY UnchangedQuiet DEF JobRejected, Locked
<1>2. Loses(rows, rows', LeftBy(j, again))
  BY LoseLoses DEF JobRejected, ShapeInv, RowShape
<1>3. PICK x : /\ jobs' = [jobs EXCEPT ![j] = x] /\ Idle(x, jobs[j])
               /\ x.state = IF jobs[j].left = 1 THEN "over" ELSE "delayed"
  BY AttemptedShape DEF JobRejected
<1>4. again \in BOOLEAN /\ (jobs[j].left = 1 <=> ~again)
  OBVIOUS
<1>5. \A e \in RowIds : HeldBy(x, e) <=> again /\ e = jobs[j].exec
  BY <1>3, <1>4, HeldRows DEF HeldBy, Idle
<1> HIDE DEF again
<1>6. RowShape' /\ RowPrefix' /\ \A e \in RowIds : rows'[e].status = rows[e].status
  BY <1>2 DEF Loses, RowShape, QueueInv, RowPrefix
<1>7. JobMoves(j, x)
  BY <1>1, <1>3 DEF JobMoves, Idle
<1>8. \A e \in RowIds : HeldBy(x, e) => Holds(j, e)
  BY <1>1, <1>5, HeldRows DEF Live
<1>9. \A e \in RowIds : Holds(j, e) /\ ~HeldBy(x, e) => e \in LeftBy(j, again)
  BY <1>1, <1>4, <1>5, LeftRows
<1>10. \A e \in RowIds : e \in LeftBy(j, again) => Holds(j, e) /\ ~HeldBy(x, e)
  BY <1>1, <1>4, <1>5, LeftRows
<1>11. RowsFollow(j, x)
  BY <1>2, <1>6, <1>8, <1>9, <1>10, HeldRows DEF RowsFollow, Loses, Unfinished
<1> QED
  BY <1>1, <1>7, <1>11, JobStep

-----------------------------------------------------------------------------
(***************************************************************************)
(* The calls, and the end of the process.                                  *)
(***************************************************************************)

\* The flow goes, and all its rows with it.
LEMMA DeleteFlowStep ==
  ASSUME ShapeInv, QueueInv, NEW c \in Callers, DeleteFlow(c)
  PROVE  ShapeInv' /\ QueueInv'
<1>1. RoundsQuiet /\ CallsQuiet /\ UNCHANGED jobs
  BY OrdinaryStepQuiet DEF OrdinaryStep, DeleteFlow
<1>2. CASE UNCHANGED rows
  BY <1>1, <1>2, QuietStep, UnchangedQuiet
<1>3. CASE rows' = [e \in RowIds |-> IF rows[e].status = "none" THEN rows[e]
                                     ELSE [NoExecution EXCEPT !.status = "gone"]]
  <2> DEFINE x == [NoExecution EXCEPT !.status = "gone"]
  <2>1. DOMAIN x = {"status", "sched", "fate"} /\ x.status = "gone" /\ x.fate = "open"
    BY DEF NoExecution
  <2>2. rows' = [e \in RowIds |-> IF rows[e].status = "none" THEN rows[e] ELSE x]
    BY <1>3
  <2> HIDE DEF x
  <2>3. /\ RowShape'
        /\ \A e \in RowIds : rows'[e].status = IF rows[e].status = "none" THEN "none" ELSE "gone"
        /\ \A e \in RowIds : rows[e].status # "none" => rows'[e].fate = "open"
    BY <2>1, <2>2 DEF RowShape, ShapeInv
  <2>4. ShapeInv'
    BY <1>1, <2>3 DEF ShapeInv, JobShape, RoundsQuiet, CallsQuiet
  <2>5. RowPrefix' /\ JobPrefix'
    BY <1>1, <2>3 DEF QueueInv, RowPrefix, JobPrefix
  <2>6. \A j \in JobIds : (Live(j)' <=> Live(j)) /\ \A e : Holds(j, e)' <=> Holds(j, e)
    BY <1>1 DEF Live, Queued, Locked, Holds
  <2>7. WorkerInv'
    <3>1. \A e \in RowIds : /\ rows[e].status = "gone" => rows'[e].status = "gone"
                            /\ rows[e].status # "none" => rows'[e].status # "none"
      BY <2>3
    <3> QED
      BY <1>1, <2>6, <3>1 DEF QueueInv, WorkerInv
  <2>8. AddInv' /\ TodoInv'
    <3>1. MadeRows' = MadeRows
      BY <2>3 DEF MadeRows
    <3>2. Unstarted \subseteq Unstarted'
      BY <2>3 DEF Unstarted
    <3>3. AddInv'
      BY <1>1, <3>1, <3>2 DEF QueueInv, AddInv, RoundsQuiet, CallsQuiet
    <3> QED
      BY <1>1, <3>3, QuietAdds DEF QueueInv, TodoInv, Made
  <2>9. OneAdder' /\ OneJob'
    BY <1>1, <2>6, QuietAdds DEF QueueInv, OneJob
  <2>10. KeptInv'
    <3>1. \A e \in RowIds : Kept(e)' => Kept(e)
      BY <1>1, <2>6, QuietAdds DEF Kept
    <3>2. \A e \in RowIds : Kept(e) => rows[e].status # "none"
      BY KeptIsMade DEF QueueInv
    <3> QED
      BY <2>3, <3>1, <3>2 DEF KeptInv, Unfinished
  <2> QED
    BY <2>4, <2>5, <2>7, <2>8, <2>9, <2>10 DEF QueueInv
<1> QED
  BY <1>2, <1>3 DEF DeleteFlow

LEMMA ServeCallStep ==
  ASSUME ShapeInv, QueueInv, NEW c \in Callers, ServeCall(c)
  PROVE  ShapeInv' /\ QueueInv'
<1>1. CASE DropSchedule(c)
  <2>1. RoundsQuiet /\ CallsQuiet /\ UNCHANGED jobs
    BY <1>1, OrdinaryStepQuiet DEF OrdinaryStep, DropSchedule
  <2>2. \A e \in RowIds : rows'[e] \in {rows[e], [rows[e] EXCEPT !.sched = Nobody]}
    BY <1>1 DEF DropSchedule
  <2>3. rows' = [e \in RowIds |-> rows'[e]]
    BY <1>1 DEF DropSchedule
  <2>4. RowsQuiet
    BY <2>2, <2>3 DEF ShapeInv, RowShape, RowsQuiet
  <2> QED
    BY <2>1, <2>4, QuietStep
<1>2. CASE \/ FindSchedule(c) \/ UpdateSchedule(c) \/ SetEnabled(c) \/ Snapshot(c)
           \/ Cancelled(c) \/ CreateSchedule(c) \/ FindExecution(c) \/ Return(c)
  <2>1. UNCHANGED <<rows, jobs>>
    BY <1>2 DEF FindSchedule, UpdateSchedule, SetEnabled, Snapshot, Cancelled, CreateSchedule,
                FindExecution, Return, store
  <2> QED
    BY <1>2, <2>1, OrdinaryStepQuiet, UnchangedQuiet, QuietStep DEF OrdinaryStep
<1> QED
  BY <1>1, <1>2, RemoveJobStep, ScheduleJobStep, RetryStep, DeleteFlowStep DEF ServeCall

\* Every job of a worker comes back or is given up, and the rows it leaves are lost, as
\* are those whose job nobody adds any more.
LEMMA CrashStep ==
  ASSUME ShapeInv, QueueInv, Crash
  PROVE  ShapeInv' /\ QueueInv'
<1> DEFINE A == UNION {LeftBy(j, Again(j)) : j \in Running}
           B == {e \in RowIds : Adding(e)}
           mid == Lose(rows, A, "abandoned")
           w(j) == IF ~Locked(j) THEN jobs[j]
                   ELSE IF Again(j)
                   THEN [jobs[j] EXCEPT !.state = "waiting", !.row = NoRow, !.stalled = @ + 1]
                   ELSE Over
<1>1. /\ rows' = Lose(mid, B, "unqueued")
      /\ jobs' = [j \in JobIds |-> w(j)]
      /\ round' = [r \in Rounds |-> NoRound] /\ call' = [c \in Callers |-> NoCall]
  BY DEF Crash
<1>2. Loses(rows, mid, A)
  BY LoseLoses DEF ShapeInv, RowShape
<1> HIDE DEF mid
<1>3. Loses(mid, rows', B)
  <2>1. \A e \in RowIds : {"status", "sched", "fate"} \subseteq DOMAIN mid[e]
    BY <1>2 DEF Loses
  <2>2. Loses(mid, Lose(mid, B, "unqueued"), B)
    BY <2>1, LoseLoses
  <2> QED
    BY <1>1, <2>2
<1>4. /\ RowShape' /\ \A e \in RowIds : rows'[e].status = rows[e].status
      /\ \A e \in RowIds : e \notin A /\ e \notin B => rows'[e].fate = rows[e].fate
      /\ \A e \in RowIds : (e \in A \/ e \in B) /\ Unfinished(e) => rows'[e].fate # "open"
  <2>1. RowShape' /\ \A e \in RowIds : rows'[e].status = rows[e].status
    BY <1>2, <1>3 DEF Loses, RowShape
  <2>2. \A e \in RowIds : e \notin A /\ e \notin B => rows'[e].fate = rows[e].fate
    BY <1>2, <1>3 DEF Loses
  <2>3. \A e \in RowIds : (e \in A \/ e \in B) /\ Unfinished(e) => rows'[e].fate # "open"
    BY <1>2, <1>3 DEF Loses, Unfinished
  <2> QED
    BY <2>1, <2>2, <2>3
<1>5. \A e \in RowIds : e \in A <=> \E j \in JobIds : Locked(j) /\ e \in LeftBy(j, Again(j))
  BY DEF Running
<1>6. \A j \in JobIds : Again(j) \in BOOLEAN
  BY DEF Again
<1>7. \A j \in JobIds :
        /\ {"state", "sched", "exec", "row", "at", "left"} \subseteq DOMAIN w(j)
        /\ ~Locked(j) => w(j) = jobs[j]
        /\ Locked(j) /\ Again(j) =>
             w(j).state = "waiting" /\ w(j).exec = jobs[j].exec /\ w(j).row = NoRow
        /\ Locked(j) /\ ~Again(j) => w(j) = Over
  <2> SUFFICES ASSUME NEW j \in JobIds
               PROVE  /\ {"state", "sched", "exec", "row", "at", "left"} \subseteq DOMAIN w(j)
                      /\ ~Locked(j) => w(j) = jobs[j]
                      /\ Locked(j) /\ Again(j) =>
                           w(j).state = "waiting" /\ w(j).exec = jobs[j].exec /\ w(j).row = NoRow
                      /\ Locked(j) /\ ~Again(j) => w(j) = Over
    OBVIOUS
  <2> DEFINE n == jobs[j].stalled + 1
             x == [jobs[j] EXCEPT !.state = "waiting", !.row = NoRow, !.stalled = n]
  <2>1. w(j) = IF ~Locked(j) THEN jobs[j] ELSE IF Again(j) THEN x ELSE Over
    OBVIOUS
  <2> HIDE DEF n, w
  <2>2. /\ {"state", "sched", "exec", "row", "at", "left"} \subseteq DOMAIN x
        /\ x.state = "waiting" /\ x.exec = jobs[j].exec /\ x.row = NoRow
    BY DEF ShapeInv, JobShape
  <2> HIDE DEF x
  <2> QED
    BY <2>1, <2>2, OverShape DEF ShapeInv, JobShape
<1> HIDE DEF w, A, B
<1>8. jobs' = [j \in JobIds |-> jobs'[j]] /\ \A j \in JobIds : jobs'[j] = w(j)
  BY <1>1
<1>9. /\ round' = [r \in Rounds |-> round'[r]] /\ \A r \in Rounds : round'[r] = NoRound
      /\ call' = [c \in Callers |-> call'[c]] /\ \A c \in Callers : call'[c] = NoCall
  BY <1>1
<1>10. ShapeInv'
  BY <1>4, <1>7, <1>8, <1>9, NoRoundShape, NoCallShape
  DEF ShapeInv, JobShape, RoundShape, CallShape
<1>11. /\ \A r \in Rounds : AddedBy(round'[r]) = {}
       /\ \A c \in Callers : AddedBy(call'[c]) = {}
       /\ \A e \in RowIds : ~Adding(e)'
  <2>1. AddedBy(NoRound) = {} /\ AddedBy(NoCall) = {}
    BY NoRoundShape, NoCallShape DEF AddedBy
  <2> QED
    BY <1>9, <2>1 DEF Adding
<1>12. \A j \in JobIds :
         /\ jobs'[j].state \notin {"taken", "loaded", "active"}
         /\ jobs'[j].state # "none" <=> jobs[j].state # "none"
         /\ jobs'[j].exec \in {jobs[j].exec, NoRow} /\ jobs'[j].row = NoRow
         /\ ~Live(j)' => jobs'[j].exec = NoRow
  <2> SUFFICES ASSUME NEW j \in JobIds
               PROVE  /\ w(j).state \notin {"taken", "loaded", "active"}
                      /\ w(j).state # "none" <=> jobs[j].state # "none"
                      /\ w(j).exec \in {jobs[j].exec, NoRow} /\ w(j).row = NoRow
                      /\ w(j).state \notin {"delayed", "waiting"} => w(j).exec = NoRow
    BY <1>8 DEF Live, Queued
  <2>1. CASE ~Locked(j)
    <3>1. w(j) = jobs[j] /\ jobs[j].row = NoRow
      BY <1>7, <2>1 DEF QueueInv, WorkerInv, Locked
    <3>2. jobs[j].state \notin {"delayed", "waiting"} => jobs[j].exec = NoRow
      BY <2>1 DEF QueueInv, WorkerInv, Live, Queued
    <3> QED
      BY <2>1, <3>1, <3>2 DEF Locked
  <2>2. CASE Locked(j) /\ Again(j)
    BY <1>7, <2>2 DEF Locked
  <2>3. CASE Locked(j) /\ ~Again(j)
    BY <1>7, <2>3, OverShape DEF Locked
  <2> QED
    BY <2>1, <2>2, <2>3
<1>13. RowPrefix' /\ JobPrefix'
  BY <1>4, <1>12 DEF QueueInv, RowPrefix, JobPrefix
<1>14. WorkerInv'
  BY <1>12 DEF WorkerInv
<1>15. AddInv' /\ TodoInv' /\ OneAdder'
  <2>1. MadeRows' = MadeRows
    BY <1>4 DEF MadeRows
  <2>2. AddInv'
    BY <1>11, <1>12, <2>1 DEF QueueInv, AddInv
  <2>3. TodoInv'
    BY <1>9, NoCallShape DEF TodoInv
  <2>4. OneAdder'
    BY <1>11 DEF OneAdder
  <2> QED
    BY <2>2, <2>3, <2>4
<1>16. \A e \in RowIds, j \in JobIds :
         Holds(j, e)' <=> Holds(j, e) /\ ~(Locked(j) /\ e \in LeftBy(j, Again(j)))
  <2> SUFFICES ASSUME NEW e \in RowIds, NEW j \in JobIds
               PROVE  HeldBy(w(j), e)
                        <=> Holds(j, e) /\ ~(Locked(j) /\ e \in LeftBy(j, Again(j)))
    BY <1>8 DEF Holds, HeldBy, Live, Queued, Locked
  <2>1. CASE ~Locked(j)
    BY <1>7, <2>1, HoldsIsHeldBy
  <2>2. CASE Locked(j) /\ Again(j)
    <3>1. HeldBy(w(j), e) <=> e = jobs[j].exec
      BY <1>7, <2>2, HeldRows DEF HeldBy
    <3>2. e = jobs[j].exec => Holds(j, e)
      BY <2>2, HeldRows DEF Live
    <3> QED
      BY <1>6, <2>2, <3>1, <3>2, LeftRows
  <2>3. CASE Locked(j) /\ ~Again(j)
    <3>1. ~HeldBy(w(j), e)
      BY <1>7, <2>3, OverShape DEF HeldBy
    <3> QED
      BY <1>6, <2>3, <3>1, LeftRows
  <2> QED
    BY <2>1, <2>2, <2>3
<1>17. OneJob'
  BY <1>11, <1>16 DEF QueueInv, OneJob
<1>18. KeptInv'
  <2> SUFFICES ASSUME NEW e \in RowIds
               PROVE  /\ Kept(e)' => rows'[e].fate = "open"
                      /\ Unfinished(e)' /\ rows'[e].fate = "open" => Kept(e)'
    BY DEF KeptInv
  <2>1. CASE e \in A \/ e \in B
    <3>1. ~Kept(e)'
      <4>1. CASE e \in B
        <5>1. \A j \in JobIds : ~Holds(j, e)
          BY <4>1 DEF B, QueueInv, OneJob
        <5> QED
          BY <1>11, <1>16, <5>1 DEF Kept
      <4>2. CASE e \in A
        <5>1. PICK j \in JobIds : Locked(j) /\ e \in LeftBy(j, Again(j))
          BY <1>5, <4>2
        <5>2. Holds(j, e)
          BY <1>6, <5>1, LeftRows
        <5>3. \A k \in JobIds : ~Holds(k, e)'
          BY <1>16, <5>1, <5>2 DEF QueueInv, OneJob
        <5> QED
          BY <1>11, <5>3 DEF Kept
      <4> QED
        BY <2>1, <4>1, <4>2
    <3> QED
      BY <1>4, <2>1, <3>1 DEF Unfinished
  <2>2. CASE e \notin A /\ e \notin B
    <3>1. \A j \in JobIds : Holds(j, e)' <=> Holds(j, e)
      BY <1>5, <1>16, <2>2
    <3>2. ~Adding(e)
      BY <2>2 DEF B
    <3>3. Kept(e)' <=> Kept(e)
      BY <1>11, <3>1, <3>2 DEF Kept
    <3> QED
      BY <1>4, <2>2, <3>3 DEF QueueInv, KeptInv, Unfinished
  <2> QED
    BY <2>1, <2>2
<1> QED
  BY <1>10, <1>13, <1>14, <1>15, <1>17, <1>18 DEF QueueInv

-----------------------------------------------------------------------------
(***************************************************************************)
(* The theorems.                                                           *)
(***************************************************************************)

LEMMA QueueInit == Init => ShapeInv /\ QueueInv
<1> SUFFICES ASSUME Init PROVE ShapeInv /\ QueueInv
  OBVIOUS
<1>1. Cardinality(Fresh) \in Nat /\ MaxJobs \in Nat /\ MaxRows \in Nat
  BY FS_CardinalityType, SchedulingAssumption
<1>2. rows = [e \in RowIds |-> NoExecution] /\ round = [r \in Rounds |-> NoRound]
      /\ call = [c \in Callers |-> NoCall]
  BY DEF Init
<1>3. PICK order \in [1..Cardinality(Fresh) -> Fresh] :
        jobs = [j \in JobIds |-> IF j \in DOMAIN order THEN DelayedJob(order[j], 1) ELSE NoJob]
  BY DEF Init
<1>4. /\ DOMAIN NoExecution = {"status", "sched", "fate"} /\ NoExecution.status = "none"
      /\ DOMAIN NoJob = {"state", "sched", "exec", "row", "at", "left", "stalled"}
      /\ NoJob.state = "none" /\ NoJob.exec = NoRow /\ NoJob.row = NoRow
  BY DEF NoExecution, NoJob
<1>5. \A s : /\ DOMAIN DelayedJob(s, 1)
                  = {"state", "sched", "exec", "row", "at", "left", "stalled"}
             /\ DelayedJob(s, 1).state = "delayed"
             /\ DelayedJob(s, 1).exec = NoRow /\ DelayedJob(s, 1).row = NoRow
  BY <1>4 DEF DelayedJob
<1>6. ShapeInv
  BY <1>2, <1>3, <1>4, <1>5, NoRoundShape, NoCallShape
  DEF ShapeInv, RowShape, JobShape, RoundShape, CallShape
<1>7. \A j \in JobIds : /\ jobs[j].state = IF j <= Cardinality(Fresh) THEN "delayed" ELSE "none"
                        /\ jobs[j].exec = NoRow /\ jobs[j].row = NoRow
  BY <1>1, <1>3, <1>4, <1>5 DEF JobIds
<1>8. RowPrefix
  <2>1. 0 \in 0..MaxRows /\ \A e \in RowIds : rows[e].status # "none" <=> e <= 0
    BY <1>1, <1>2, <1>4 DEF RowIds
  <2> QED
    BY <2>1 DEF RowPrefix
<1>9. JobPrefix
  <2> DEFINE k == IF Cardinality(Fresh) <= MaxJobs THEN Cardinality(Fresh) ELSE MaxJobs
  <2>1. k \in 0..MaxJobs /\ \A j \in JobIds : jobs[j].state # "none" <=> j <= k
    BY <1>1, <1>7 DEF JobIds
  <2> QED
    BY <2>1 DEF JobPrefix
<1>10. WorkerInv
  BY <1>7 DEF WorkerInv
<1>11. /\ \A r \in Rounds : AddedBy(round[r]) = {}
       /\ \A c \in Callers : AddedBy(call[c]) = {}
  <2>1. AddedBy(NoRound) = {} /\ AddedBy(NoCall) = {}
    BY NoRoundShape, NoCallShape DEF AddedBy
  <2> QED
    BY <1>2, <2>1
<1>12. AddInv /\ TodoInv /\ OneAdder
  BY <1>2, <1>7, <1>11, NoCallShape DEF AddInv, TodoInv, OneAdder
<1>13. \A e \in RowIds : ~Adding(e) /\ \A j \in JobIds : ~Holds(j, e)
  <2>1. NoRow \notin RowIds
    BY <1>1 DEF NoRow, RowIds
  <2> QED
    BY <1>7, <1>11, <2>1 DEF Adding, Holds
<1>14. OneJob /\ KeptInv
  BY <1>2, <1>4, <1>13 DEF OneJob, KeptInv, Kept, Unfinished
<1> QED
  BY <1>6, <1>8, <1>9, <1>10, <1>12, <1>14 DEF QueueInv

LEMMA QueueStep == ShapeInv /\ QueueInv /\ [Next]_vars => ShapeInv' /\ QueueInv'
<1> SUFFICES ASSUME ShapeInv, QueueInv, [Next]_vars PROVE ShapeInv' /\ QueueInv'
  OBVIOUS
<1>1. CASE UNCHANGED vars \/ Tick
  <2>1. UNCHANGED <<rows, jobs, round, call>>
    BY <1>1 DEF vars, Tick
  <2> QED
    BY <2>1, QuietStep, UnchangedQuiet
<1>2. ASSUME NEW r \in Rounds, Watcher(r) PROVE ShapeInv' /\ QueueInv'
  <2>1. CASE StartRound(r) \/ UpdateLastRun(r) \/ RoundRejected(r)
    BY <2>1, WatcherQuiet, UnchangedQuiet, QuietStep
  <2> QED
    BY <1>2, <2>1, WatcherStep DEF Watcher
<1>3. ASSUME NEW r \in Rounds, RoundFails(r) PROVE ShapeInv' /\ QueueInv'
  BY <1>3, RoundFailsStep
<1>4. ASSUME NEW c \in Callers, NewCall(c) PROVE ShapeInv' /\ QueueInv'
  BY <1>4, NewCallQuiet, UnchangedQuiet, QuietStep
<1>5. ASSUME NEW c \in Callers, ServeCall(c) PROVE ShapeInv' /\ QueueInv'
  BY <1>5, ServeCallStep
<1>8. ASSUME NEW c \in Callers, CallRejected(c) PROVE ShapeInv' /\ QueueInv'
  BY <1>8, CallRejectedStep
<1>6. ASSUME NEW j \in JobIds, Work(j) PROVE ShapeInv' /\ QueueInv'
  BY <1>6, PromoteStep, LoadRowStep, MarkRunningStep, EndJobStep, JobRejectedStep DEF Work
<1>7. CASE Crash
  BY <1>7, CrashStep
<1> QED
  BY <1>1, <1>2, <1>3, <1>4, <1>5, <1>6, <1>7, <1>8 DEF Next

LEMMA QueueInvariant == Spec => [](ShapeInv /\ QueueInv)
BY QueueInit, QueueStep, PTL DEF Spec

\* However many rounds, calls and workers interleave, whichever of their awaits reject
\* and wherever the process dies: a PENDING row has its job in the queue, or someone
\* about to add it, if and only if it was not unqueued, cancelled or abandoned.
THEOREM PendingRowsAreQueued == Spec => []PendingIsQueued
<1>1. QueueInv => PendingIsQueued
  BY DEF QueueInv, KeptInv, Kept, Unfinished, PendingIsQueued
<1> QED
  BY <1>1, QueueInvariant, PTL

\* A RUNNING row has a worker, or its job waits for one, if and only if that job was not
\* cancelled or abandoned: no job ends, is removed, is given up as stalled or is retried
\* with another row while its own says RUNNING, but by one of these.
THEOREM RunningRowsHaveAWorker == Spec => []RunningHasAWorker
<1>1. QueueInv => RunningHasAWorker
  <2> SUFFICES ASSUME QueueInv, NEW e \in RowIds, rows[e].status = "running"
               PROVE  rows[e].fate = "open" <=> \E j \in JobIds : Holds(j, e)
    BY DEF RunningHasAWorker
  <2>1. ~Adding(e)
    BY DEF QueueInv, AddInv, Unstarted, Adding
  <2> QED
    BY <2>1 DEF QueueInv, KeptInv, Kept, Unfinished
<1> QED
  BY <1>1, QueueInvariant, PTL
=============================================================================
