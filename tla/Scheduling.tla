----------------------------- MODULE Scheduling -----------------------------
(***************************************************************************)
(* SchedulerService: schedules, their jobs in Bull's flow-execution queue  *)
(* and the execution rows, with the watcher's rounds, the users' calls and *)
(* the workers interleaved at every await of database or Redis.            *)
(*                                                                         *)
(* Time is counted in minutes.  calculateNextRun always answers now + 60 s *)
(* (the cron expression is only validated), so every nextRun is a minute.  *)
(* A job's attempt goes from TakeJob to its end: what happens while the    *)
(* orchestrator runs the flow is module FlowExecution.                     *)
(*                                                                         *)
(* A definition X_fault is X with a bug that X could have had; no other    *)
(* definition uses it.  Each one breaks a property (README, "Mutants").    *)
(***************************************************************************)
EXTENDS Integers, Sequences, FiniteSets

CONSTANTS
  Schedules,    \* schedule ids; the first ones exist initially
  Initial,      \* the schedules that exist, enabled, at the start
  Fresh,        \* those of them whose delayed job has not run yet
  Rounds,       \* rounds of the watcher that may be in flight at once
  Callers,      \* users with a call in flight
  CallLists,    \* the id lists of enable and disable calls, bulk or of one
  Kinds,        \* which calls users make
  MaxJobs,      \* bound: jobs ever added
  MaxRows,      \* bound: execution rows ever created
  MaxNow,       \* bound: minutes
  MaxCalls,     \* bound: calls made
  MaxFaults,    \* bound: crashes of the process and failing calls
  MaxBusy,      \* bound: rounds and calls in flight at once
  JobAttempts,  \* defaultJobOptions.attempts of the queue
  ScheduleAttempts, \* maxRetries + 1 of the schedules, for their delayed jobs
  StalledLimit, \* how often Bull hands out a stalled job again
  Workers       \* jobs that Bull runs at once

ASSUME SchedulingAssumption ==
  /\ Initial \subseteq Schedules /\ Fresh \subseteq Initial /\ IsFiniteSet(Fresh)
  /\ CallLists \subseteq Seq(Schedules) \ {<<>>}
  /\ Kinds \subseteq {"create", "update", "delete", "enable", "disable",
                      "retry", "deleteFlow"}
  /\ MaxJobs \in Nat /\ MaxRows \in Nat /\ MaxNow \in Nat
  /\ MaxCalls \in Nat /\ MaxFaults \in Nat /\ MaxBusy \in Nat
  /\ JobAttempts \in Nat \ {0} /\ ScheduleAttempts \in Nat \ {0}
  /\ StalledLimit \in Nat /\ Workers \in Nat \ {0}

VARIABLES
  now,        \* the clock, in minutes
  flow,       \* the flow all schedules belong to still exists
  schedules,  \* the schedule rows
  rows,       \* the execution rows
  jobs,       \* Bull's jobs
  round,      \* the rounds of the watcher
  call,       \* the users' calls
  calls,      \* calls made so far
  faults,     \* faults so far
  served,     \* <<schedule, nextRun>> pairs the watcher has queued a job for
  excused     \* schedules of which it may queue a nextRun twice

vars == <<now, flow, schedules, rows, jobs, round, call, calls, faults,
          served, excused>>
store == <<now, flow, schedules, rows, jobs>>

Nobody == "none"
NoRow == 0
JobIds == 1..MaxJobs
RowIds == 1..MaxRows
Minutes == 0..(MaxNow + 1)

\* A schedule row that does not exist is Absent; a job that is completed, failed
\* for good or removed is Over.
Absent == [exists |-> FALSE, enabled |-> FALSE, nextRun |-> 0]
ScheduleRow(enabled, t) == [exists |-> TRUE, enabled |-> enabled, nextRun |-> t]

NoExecution == [status |-> "none", sched |-> Nobody, fate |-> "open"]
NoJob == [state |-> "none", sched |-> Nobody, exec |-> NoRow, row |-> NoRow,
          at |-> 0, left |-> 0, stalled |-> 0]
Over == [NoJob EXCEPT !.state = "over"]
NoRound == [pc |-> "idle", todo |-> {}, due |-> [s \in Schedules |-> 0],
            cur |-> Nobody, exec |-> NoRow]
NoCall == [kind |-> "none", pc |-> "idle", ids |-> <<>>, i |-> 1, flag |-> FALSE,
           next |-> 0, todo |-> {}, sched |-> Nobody, exec |-> NoRow, ok |-> FALSE,
           alone |-> FALSE, ran |-> {}]

-----------------------------------------------------------------------------
(* The rows and the queue. *)

Busy == Cardinality({r \in Rounds : round[r].pc # "idle"})
          + Cardinality({c \in Callers : call[c].pc # "idle"})

FreeRow == Cardinality({e \in RowIds : rows[e].status # "none"}) + 1
FreeJob == Cardinality({j \in JobIds : jobs[j].state # "none"}) + 1
RowLeft == FreeRow \in RowIds
JobLeft == FreeJob \in JobIds

\* Foreign keys: a row may be created if its flow and its schedule exist.
MayCreate(s) == flow /\ (s # Nobody => schedules[s].exists)

\* executionRepository.create: a PENDING row.
CreateExecution(s) ==
  rows' = [rows EXCEPT ![FreeRow] = [status |-> "pending", sched |-> s, fate |-> "open"]]

\* queue.add('execute-flow', ...) for the row e.
QueueJob(s, e) ==
  jobs' = [jobs EXCEPT ![FreeJob] = [state |-> "waiting", sched |-> s, exec |-> e,
             row |-> NoRow, at |-> 0, left |-> JobAttempts, stalled |-> 0]]

\* The delayed job of a schedule: it has no execution.
DelayedJob(s, t) == [NoJob EXCEPT !.state = "delayed", !.sched = s, !.at = t,
                                  !.left = ScheduleAttempts]

\* A worker has locked the job: it has just taken it, has the job's row, or has
\* written RUNNING.
Locked(j) == jobs[j].state \in {"taken", "loaded", "active"}
Running == {j \in JobIds : Locked(j)}
Queued(j) == jobs[j].state \in {"delayed", "waiting"}
Live(j) == Queued(j) \/ Locked(j)

\* The job is at the row or will come to it; a round or a call (a record x of theirs)
\* will add such a job next.
Holds(j, e) == Live(j) /\ e \in {jobs[j].exec, jobs[j].row}
AddedBy(x) == IF x.pc = "add" THEN {x.exec} ELSE {}
Adding(e) == \/ \E r \in Rounds : e \in AddedBy(round[r])
             \/ \E c \in Callers : e \in AddedBy(call[c])

\* calculateNextRun
NextRun == now + 1

\* findSchedulesDueForExecution
Due_notQueued(s) == /\ schedules[s].exists /\ schedules[s].enabled /\ schedules[s].nextRun <= now
                    /\ \A j \in JobIds : Queued(j) => jobs[j].sched # s
Due(s) == schedules[s].exists /\ schedules[s].enabled /\ schedules[s].nextRun <= now
DueSchedules == {s \in Schedules : Due(s)}

\* cancelScheduledJobs, its snapshot: getJobs(['delayed', 'waiting']) of s.
JobsToCancel_delayedOnly(s) ==
  {j \in JobIds : jobs[j].state = "delayed" /\ jobs[j].sched = s}
JobsToCancel(s) == {j \in JobIds : Queued(j) /\ jobs[j].sched = s}

\* Nothing will finish these rows any more, and why (bookkeeping for the properties).
Lose(rs, E, why) ==
  [e \in RowIds |-> IF e \in E /\ rs[e].status \in {"pending", "running"}
                    THEN [rs[e] EXCEPT !.fate = why] ELSE rs[e]]

\* The calls that work on a schedule of S are not alone (bookkeeping).
Ids(cl) == {cl.ids[i] : i \in 1..Len(cl.ids)}
Disturb(cs, S) == [c \in Callers |-> IF Ids(cs[c]) \intersect S # {}
                                     THEN [cs[c] EXCEPT !.alone = FALSE] ELSE cs[c]]

Init ==
  /\ now = 0 /\ flow = TRUE
  /\ schedules = [s \in Schedules |->
                    IF s \in Initial THEN ScheduleRow(TRUE, 1) ELSE Absent]
  /\ rows = [e \in RowIds |-> NoExecution]
  /\ \E order \in [1..Cardinality(Fresh) -> Fresh] :
       /\ \A s \in Fresh : \E i \in DOMAIN order : order[i] = s
       /\ jobs = [j \in JobIds |->
            IF j \in DOMAIN order
            THEN DelayedJob(order[j], 1)
            ELSE NoJob]
  /\ round = [r \in Rounds |-> NoRound]
  /\ call = [c \in Callers |-> NoCall]
  /\ calls = 0 /\ faults = 0
  /\ served = {}
  /\ excused = {}

-----------------------------------------------------------------------------
(***************************************************************************)
(* The watcher: setInterval of an async callback, so that a slow round is  *)
(* overtaken by the next one.                                              *)
(***************************************************************************)

StartRound(r) ==
  LET shared == {s \in DueSchedules : \E q \in Rounds : s \in round[q].todo}
  IN /\ round[r].pc = "idle" /\ DueSchedules # {} /\ Busy < MaxBusy
     /\ round' = [round EXCEPT ![r] =
          [NoRound EXCEPT !.pc = "create", !.todo = DueSchedules,
                          !.due = [s \in Schedules |-> schedules[s].nextRun]]]
     /\ excused' = excused \union shared
     /\ call' = Disturb(call, DueSchedules)
     /\ UNCHANGED <<store, calls, faults, served>>

\* The nextRun a round is at; the schedules whose job a round has queued without
\* having written their new nextRun (bookkeeping).
Serving(r) == <<round[r].cur, round[r].due[round[r].cur]>>
Unwritten(R) == {round[r].cur : r \in {q \in R : round[q].pc = "update"}}

\* executeSchedule, first await: the PENDING row of the next schedule of the
\* snapshot.  A schedule deleted since violates the foreign key.
ExecuteSchedule(r) ==
  /\ round[r].pc = "create" /\ RowLeft /\ JobLeft
  /\ \E s \in round[r].todo :
       /\ MayCreate(s)
       /\ CreateExecution(s)
       /\ round' = [round EXCEPT ![r].pc = "add", ![r].cur = s, ![r].exec = FreeRow]
  /\ UNCHANGED <<now, flow, schedules, jobs, call, calls, faults, served, excused>>

\* Second await: the job of that row.
AddScheduledJob(r) ==
  /\ round[r].pc = "add" /\ JobLeft
  /\ QueueJob(round[r].cur, round[r].exec)
  /\ served' = served \union {Serving(r)}
  /\ round' = [round EXCEPT ![r].pc = "update", ![r].exec = NoRow]
  /\ UNCHANGED <<now, flow, schedules, rows, call, calls, faults, excused>>

RoundAfter(rd) ==
  LET todo == rd.todo \ {rd.cur}
  IN IF todo = {} THEN NoRound
     ELSE [rd EXCEPT !.pc = "create", !.todo = todo, !.cur = Nobody]

\* Third await: updateLastRun.
UpdateLastRun_keepsNextRun(r) ==
  /\ round[r].pc = "update"
  /\ round' = [round EXCEPT ![r] = RoundAfter(round[r])]
  /\ UNCHANGED <<store, call, calls, faults, served, excused>>
UpdateLastRun(r) ==
  LET s == round[r].cur
  IN /\ round[r].pc = "update"
     /\ schedules' = IF schedules[s].exists
                     THEN [schedules EXCEPT ![s].nextRun = NextRun] ELSE schedules
     /\ round' = [round EXCEPT ![r] = RoundAfter(round[r])]
     /\ UNCHANGED <<now, flow, rows, jobs, call, calls, faults, served, excused>>

\* A rejected await ends the round: the catch of the interval logs it and the
\* rest of the snapshot waits for another round.
RoundRejected(r) ==
  /\ round[r].pc = "create"
  /\ \E s \in round[r].todo : ~MayCreate(s)
  /\ round' = [round EXCEPT ![r] = NoRound]
  /\ UNCHANGED <<store, call, calls, faults, served, excused>>
RoundFails(r) ==
  /\ round[r].pc # "idle" /\ faults < MaxFaults
  /\ faults' = faults + 1
  /\ excused' = excused \union Unwritten({r})
  /\ rows' = Lose(rows, AddedBy(round[r]), "unqueued")
  /\ round' = [round EXCEPT ![r] = NoRound]
  /\ UNCHANGED <<now, flow, schedules, jobs, call, calls, served>>

-----------------------------------------------------------------------------
(***************************************************************************)
(* The calls of users.  A call works on the ids of its list, one after the *)
(* other; a bulk call goes on after an error, a call of one id ends.       *)
(***************************************************************************)

Current(c) == call[c].ids[call[c].i]

\* Nobody else works on S: no other call, no round with one in its snapshot.
Alone(c, S) ==
  /\ \A d \in Callers \ {c} : Ids(call[d]) \intersect S = {} /\ call[d].sched \notin S
  /\ \A r \in Rounds : round[r].todo \intersect S = {}

Begin(c, kind, ids, flag, exec) ==
  /\ call[c].pc = "idle" /\ calls < MaxCalls /\ Busy < MaxBusy /\ kind \in Kinds
  /\ calls' = calls + 1
  /\ LET S == {ids[i] : i \in 1..Len(ids)}
     IN call' = [Disturb(call, S) EXCEPT ![c] =
          [NoCall EXCEPT !.kind = kind, !.pc = "find", !.ids = ids, !.flag = flag,
             !.exec = exec, !.ok = TRUE,
             !.alone = kind = "disable" /\ Alone(c, S),
             !.ran = IF kind = "disable" THEN Running ELSE {}]]
  /\ UNCHANGED <<store, round, faults, served, excused>>

\* flag: the schedule is created enabled; the update carries a cronExpression
\* or timezone.
CallCreate(c) == \E s \in Schedules, enabled \in BOOLEAN :
  /\ \A d \in Callers : call[d].kind # "create"
  /\ s \notin Initial /\ ~schedules[s].exists
  /\ Begin(c, "create", <<s>>, enabled, NoRow)
CallUpdate(c) == \E s \in Initial, cron \in BOOLEAN :
  Begin(c, "update", <<s>>, cron, NoRow)
CallDelete(c) == \E s \in Initial : Begin(c, "delete", <<s>>, FALSE, NoRow)
CallSetEnabled(c) == \E kind \in {"enable", "disable"}, ids \in CallLists :
  Begin(c, kind, ids, FALSE, NoRow)
CallRetry(c) == \E e \in RowIds :
  rows[e].status # "none" /\ Begin(c, "retry", <<>>, FALSE, e)
CallDeleteFlow(c) == Begin(c, "deleteFlow", <<>>, FALSE, NoRow)

\* The call goes on with the next id, or is done; an error counts only in the
\* result.
NextId(cl, ok) ==
  [cl EXCEPT !.i = @ + 1,
             !.pc = IF cl.i < Len(cl.ids) THEN "find" ELSE "done",
             !.todo = {}, !.ok = @ /\ ok]
Proceed(c, ok) == call' = [call EXCEPT ![c] = NextId(call[c], ok)]
Goto(c, pc) == call' = [call EXCEPT ![c].pc = pc]
Doing(c, kinds, pc) == call[c].kind \in kinds /\ call[c].pc = pc

OthersUnchanged == UNCHANGED <<round, calls, faults, served, excused>>

\* findById; a call on a schedule that is not there throws.  updateSchedule
\* keeps the nextRun it read, or a new one if the cron or timezone is given.
FindSchedule(c) ==
  /\ Doing(c, {"update", "delete", "enable", "disable"}, "find")
  /\ \/ /\ ~schedules[Current(c)].exists
        /\ Proceed(c, FALSE)
     \/ /\ schedules[Current(c)].exists
        /\ call' = [call EXCEPT
             ![c].pc = IF call[c].kind = "delete" THEN "snapshot" ELSE "write",
             ![c].next = IF call[c].kind # "update" THEN 0
                         ELSE IF call[c].flag THEN NextRun
                         ELSE schedules[Current(c)].nextRun]
  /\ UNCHANGED store /\ OthersUnchanged

\* updateSchedule: write { ...dto, nextRun } and read back; the job is replaced
\* only for an enabled schedule whose cron or timezone was given.  A dto may
\* also say enabled.
UpdateSchedule(c) ==
  LET s == Current(c)
  IN /\ Doing(c, {"update"}, "write")
     /\ \E enabled \in {schedules[s].enabled, ~schedules[s].enabled} :
          IF ~schedules[s].exists
          THEN /\ Proceed(c, FALSE) /\ UNCHANGED schedules
          ELSE /\ schedules' = [schedules EXCEPT ![s].enabled = enabled,
                                                 ![s].nextRun = call[c].next]
               /\ IF enabled /\ call[c].flag THEN Goto(c, "snapshot")
                  ELSE Proceed(c, TRUE)
     /\ excused' = IF call[c].next < schedules[s].nextRun
                   THEN excused \union {s} ELSE excused
     /\ UNCHANGED <<now, flow, rows, jobs, round, calls, faults, served>>

\* updateScheduleStatus: write the flag, read back, then queue or cancel.  The
\* row read back is null for a deleted schedule: enable throws on it at once.
SetEnabled(c) ==
  LET s == Current(c)  enabled == call[c].kind = "enable"
  IN /\ Doing(c, {"enable", "disable"}, "write")
     /\ schedules' = IF schedules[s].exists
                     THEN [schedules EXCEPT ![s].enabled = enabled] ELSE schedules
     /\ IF enabled /\ ~schedules[s].exists THEN Proceed(c, FALSE)
        ELSE IF enabled
        THEN call' = [call EXCEPT ![c].pc = "schedule", ![c].next = schedules[s].nextRun]
        ELSE Goto(c, "snapshot")
     /\ UNCHANGED <<now, flow, rows, jobs>> /\ OthersUnchanged

\* cancelScheduledJobs: the snapshot, then one remove() after the other.
Snapshot(c) ==
  /\ call[c].pc = "snapshot"
  /\ call' = [call EXCEPT ![c].todo = JobsToCancel(Current(c)), ![c].pc = "removing"]
  /\ UNCHANGED store /\ OthersUnchanged

\* remove() rejects for a job a worker has locked meanwhile.
RemoveJob(c) ==
  /\ call[c].pc = "removing"
  /\ \E j \in call[c].todo :
       IF Locked(j)
       THEN Proceed(c, FALSE) /\ UNCHANGED <<jobs, rows>>
       ELSE /\ call' = [call EXCEPT ![c].todo = @ \ {j}]
            /\ jobs' = [jobs EXCEPT ![j] = Over]
            /\ rows' = Lose(rows, {jobs[j].exec}, "cancelled")
  /\ UNCHANGED <<now, flow, schedules>> /\ OthersUnchanged

Cancelled(c) ==
  /\ call[c].pc = "removing" /\ call[c].todo = {}
  /\ CASE call[c].kind = "delete" -> Goto(c, "drop")
       [] call[c].kind = "update" -> Goto(c, "schedule")
       [] OTHER -> Proceed(c, schedules[Current(c)].exists)
  /\ UNCHANGED store /\ OthersUnchanged

\* The row goes; its executions stay with schedule id NULL (SET NULL).
DropSchedule(c) ==
  LET s == Current(c)
  IN /\ Doing(c, {"delete"}, "drop")
     /\ schedules' = [schedules EXCEPT ![s] = Absent]
     /\ rows' = [e \in RowIds |-> IF rows[e].sched = s
                                  THEN [rows[e] EXCEPT !.sched = Nobody] ELSE rows[e]]
     /\ Proceed(c, schedules[s].exists)
     /\ UNCHANGED <<now, flow, jobs>> /\ OthersUnchanged

\* createSchedule: the flow is looked up, the row created, the job queued.
CreateSchedule(c) ==
  LET s == Current(c)
  IN /\ call[c].kind = "create"
     /\ \/ /\ call[c].pc = "find"
           /\ IF flow THEN Goto(c, "create") ELSE Proceed(c, FALSE)
           /\ UNCHANGED schedules
        \/ /\ call[c].pc = "create"
           /\ IF ~flow THEN Proceed(c, FALSE) /\ UNCHANGED schedules
              ELSE /\ schedules' = [schedules EXCEPT ![s] = ScheduleRow(call[c].flag, NextRun)]
                   /\ IF call[c].flag
                      THEN call' = [call EXCEPT ![c].pc = "schedule", ![c].next = NextRun]
                      ELSE Proceed(c, TRUE)
     /\ UNCHANGED <<now, flow, rows, jobs>> /\ OthersUnchanged

\* scheduleJob: a delayed job, without an execution, for a nextRun to come.
ScheduleJob(c) ==
  /\ call[c].pc = "schedule"
  /\ IF call[c].next > now
     THEN JobLeft /\ jobs' = [jobs EXCEPT ![FreeJob] = DelayedJob(Current(c), call[c].next)]
     ELSE UNCHANGED jobs
  /\ Proceed(c, TRUE)
  /\ UNCHANGED <<now, flow, schedules, rows>> /\ OthersUnchanged

\* retryExecution: only of a FAILED row; a new row for the same schedule, then
\* its job.
FindExecution(c) ==
  /\ Doing(c, {"retry"}, "find")
  /\ IF rows[call[c].exec].status = "failed"
     THEN call' = [Disturb(call, {rows[call[c].exec].sched}) EXCEPT
            ![c].pc = "create", ![c].sched = rows[call[c].exec].sched, ![c].exec = NoRow]
     ELSE Proceed(c, FALSE)
  /\ UNCHANGED store /\ OthersUnchanged
CreateRetry(c) ==
  /\ Doing(c, {"retry"}, "create") /\ RowLeft
  /\ IF MayCreate(call[c].sched)
     THEN /\ CreateExecution(call[c].sched)
          /\ call' = [call EXCEPT ![c].pc = "add", ![c].exec = FreeRow]
     ELSE Proceed(c, FALSE) /\ UNCHANGED rows
  /\ UNCHANGED <<now, flow, schedules, jobs>> /\ OthersUnchanged
QueueRetry_withoutRow(c) ==
  /\ Doing(c, {"retry"}, "add") /\ JobLeft
  /\ QueueJob(call[c].sched, NoRow)
  /\ Proceed(c, TRUE)
  /\ UNCHANGED <<now, flow, schedules, rows>> /\ OthersUnchanged
QueueRetry(c) ==
  /\ Doing(c, {"retry"}, "add") /\ JobLeft
  /\ QueueJob(call[c].sched, call[c].exec)
  /\ Proceed(c, TRUE)
  /\ UNCHANGED <<now, flow, schedules, rows>> /\ OthersUnchanged

\* FlowsService.deleteFlow: the schedules are looked at, then the row deleted,
\* with its schedules and executions (CASCADE).
DeleteFlow(c) ==
  /\ call[c].kind = "deleteFlow"
  /\ \/ /\ call[c].pc = "find"
        /\ IF flow /\ \A s \in Schedules : ~schedules[s].enabled
           THEN Goto(c, "drop") ELSE Proceed(c, FALSE)
        /\ UNCHANGED <<flow, schedules, rows>>
     \/ /\ call[c].pc = "drop"
        /\ flow' = FALSE
        /\ schedules' = [s \in Schedules |-> Absent]
        /\ rows' = [e \in RowIds |-> IF rows[e].status = "none" THEN rows[e]
                     ELSE [NoExecution EXCEPT !.status = "gone"]]
        /\ Proceed(c, flow)
  /\ UNCHANGED <<now, jobs>> /\ OthersUnchanged

Return(c) ==
  /\ call[c].pc = "done"
  /\ call' = [call EXCEPT ![c] = NoCall]
  /\ UNCHANGED store /\ OthersUnchanged

\* An await of a call rejects: a query of the database, or Redis.  A retry that
\* cannot add its job leaves the row it has made.
CallRejected(c) ==
  /\ call[c].pc \notin {"idle", "done"} /\ faults < MaxFaults
  /\ faults' = faults + 1
  /\ rows' = Lose(rows, AddedBy(call[c]), "unqueued")
  /\ Proceed(c, FALSE)
  /\ UNCHANGED <<now, flow, schedules, jobs, round, calls, served, excused>>

-----------------------------------------------------------------------------
(***************************************************************************)
(* Bull and the processor.                                                 *)
(***************************************************************************)

\* The delay of a job is over.
Promote(j) ==
  /\ jobs[j].state = "delayed" /\ jobs[j].at <= now
  /\ jobs' = [jobs EXCEPT ![j].state = "waiting", ![j].at = 0]
  /\ UNCHANGED <<now, flow, schedules, rows, round, call, calls, faults, served, excused>>

Exists(e) == e # NoRow /\ rows[e].status # "gone"

\* An attempt that throws: Bull queues the next one, or the job has failed.
Attempted(j) ==
  LET left == jobs[j].left
  IN [jobs EXCEPT ![j] = IF left = 1 THEN Over
        ELSE [jobs[j] EXCEPT !.state = "delayed", !.left = left - 1, !.at = now, !.row = NoRow]]

\* A worker locks the job and enters handleFlowExecution.
TakeJob(j) ==
  /\ jobs[j].state = "waiting" /\ Cardinality(Running) < Workers
  /\ jobs' = [jobs EXCEPT ![j].state = "taken"]
  /\ call' = [c \in Callers |-> IF call[c].alone
                                THEN [call[c] EXCEPT !.ran = @ \union {j}] ELSE call[c]]
  /\ UNCHANGED <<now, flow, schedules, rows, round, calls, faults, served, excused>>

\* The row of the job, or a new PENDING one for a job without executionId or whose
\* row is gone.  If that cannot be made, the attempt fails with no row to write to.
LoadRow(j) ==
  /\ jobs[j].state = "taken"
  /\ IF Exists(jobs[j].exec)
     THEN /\ jobs' = [jobs EXCEPT ![j].state = "loaded", ![j].row = jobs[j].exec]
          /\ UNCHANGED rows
     ELSE IF MayCreate(jobs[j].sched)
     THEN /\ RowLeft /\ CreateExecution(jobs[j].sched)
          /\ jobs' = [jobs EXCEPT ![j].state = "loaded", ![j].row = FreeRow]
     ELSE jobs' = Attempted(j) /\ UNCHANGED rows
  /\ UNCHANGED <<now, flow, schedules, round, call, calls, faults, served, excused>>

RowBecomes(e, status) == IF rows[e].status = "gone" THEN rows
                         ELSE [rows EXCEPT ![e].status = status]

\* updateStatus(RUNNING); the orchestrator begins.
MarkRunning(j) ==
  /\ jobs[j].state = "loaded"
  /\ rows' = RowBecomes(jobs[j].row, "running")
  /\ jobs' = [jobs EXCEPT ![j].state = "active"]
  /\ UNCHANGED <<now, flow, schedules, round, call, calls, faults, served, excused>>

\* The orchestrator returned: the row has its terminal status, and the job is done
\* unless the update of the results rejects, and the FAILED write after it.
CompleteJob(j) ==
  /\ jobs[j].state = "active"
  /\ \E status \in {"success", "failed"} : rows' = RowBecomes(jobs[j].row, status)
  /\ \/ jobs' = [jobs EXCEPT ![j] = Over] /\ UNCHANGED faults
     \/ /\ faults < MaxFaults /\ faults' = faults + 1
        /\ jobs' = Attempted(j)
  /\ UNCHANGED <<now, flow, schedules, round, call, calls, served, excused>>

\* Something threw after the row was known (the flow is gone, a query failed):
\* FAILED, and Bull decides.
ThrowJob_keepsRunning(j) ==
  /\ jobs[j].state \in {"loaded", "active"}
  /\ jobs' = Attempted(j)
  /\ UNCHANGED <<now, flow, schedules, rows, round, call, calls, faults, served, excused>>
ThrowJob(j) ==
  /\ jobs[j].state \in {"loaded", "active"}
  /\ rows' = RowBecomes(jobs[j].row, "failed")
  /\ jobs' = Attempted(j)
  /\ UNCHANGED <<now, flow, schedules, round, call, calls, faults, served, excused>>

\* The rows a locked job leaves: one it made for itself, and its own if it does not
\* run again.
LeftBy(j, again) == IF again THEN {jobs[j].row} \ {jobs[j].exec}
                    ELSE {jobs[j].row, jobs[j].exec}

\* An attempt that fails without FAILED: progress(0), outside the try, or the query
\* for the row rejects, or the FAILED write of the catch itself does.
JobRejected(j) ==
  /\ Locked(j) /\ faults < MaxFaults
  /\ faults' = faults + 1
  /\ rows' = Lose(rows, LeftBy(j, jobs[j].left # 1), "abandoned")
  /\ jobs' = Attempted(j)
  /\ UNCHANGED <<now, flow, schedules, round, call, calls, served, excused>>

\* The process dies: rounds and calls are gone, and Bull hands out the stalled jobs
\* again, or gives up one that stalled too often.
Again(j) == jobs[j].stalled < StalledLimit
Crash ==
  /\ faults < MaxFaults /\ faults' = faults + 1
  /\ jobs' = [j \in JobIds |->
               IF ~Locked(j) THEN jobs[j]
               ELSE IF Again(j)
               THEN [jobs[j] EXCEPT !.state = "waiting", !.row = NoRow, !.stalled = @ + 1]
               ELSE Over]
  /\ rows' = Lose(Lose(rows, UNION {LeftBy(j, Again(j)) : j \in Running}, "abandoned"),
                  {e \in RowIds : Adding(e)}, "unqueued")
  /\ excused' = excused \union Unwritten(Rounds)
  /\ round' = [r \in Rounds |-> NoRound]
  /\ call' = [c \in Callers |-> NoCall]
  /\ UNCHANGED <<now, flow, schedules, calls, served>>

Tick ==
  /\ now < MaxNow /\ now' = now + 1
  /\ UNCHANGED <<flow, schedules, rows, jobs, round, call, calls, faults, served, excused>>

-----------------------------------------------------------------------------
Watcher(r) == StartRound(r) \/ ExecuteSchedule(r) \/ AddScheduledJob(r)
              \/ UpdateLastRun(r) \/ RoundRejected(r)
NewCall(c) == CallCreate(c) \/ CallUpdate(c) \/ CallDelete(c) \/ CallSetEnabled(c)
              \/ CallRetry(c) \/ CallDeleteFlow(c)
ServeCall(c) == FindSchedule(c) \/ UpdateSchedule(c) \/ SetEnabled(c) \/ Snapshot(c)
                \/ RemoveJob(c) \/ Cancelled(c) \/ DropSchedule(c) \/ CreateSchedule(c)
                \/ ScheduleJob(c) \/ FindExecution(c) \/ CreateRetry(c) \/ QueueRetry(c)
                \/ DeleteFlow(c) \/ Return(c)
Work(j) == Promote(j) \/ TakeJob(j) \/ LoadRow(j) \/ MarkRunning(j) \/ CompleteJob(j)
           \/ ThrowJob(j) \/ JobRejected(j)

Next == \/ \E r \in Rounds : Watcher(r) \/ RoundFails(r)
        \/ \E c \in Callers : NewCall(c) \/ ServeCall(c) \/ CallRejected(c)
        \/ \E j \in JobIds : Work(j)
        \/ Crash \/ Tick

Spec == Init /\ [][Next]_vars /\ \A r \in Rounds : WF_vars(Watcher(r))

-----------------------------------------------------------------------------
\* The records of the tables, of Bull's queue, and of what is in progress.
SomeSchedule == Schedules \union {Nobody}
SomeRow == RowIds \union {NoRow}
ExecutionRow == [status : {"none", "pending", "running", "success", "failed", "gone"},
                 sched : SomeSchedule, fate : {"open", "unqueued", "cancelled", "abandoned"}]
Job == [state : {"none", "delayed", "waiting", "taken", "loaded", "active", "over"},
        sched : SomeSchedule, exec : SomeRow, row : SomeRow, at : Minutes, left : Nat,
        stalled : Nat]
Round == [pc : {"idle", "create", "add", "update"}, todo : SUBSET Schedules,
          due : [Schedules -> Minutes], cur : SomeSchedule, exec : SomeRow]
Call == [kind : Kinds \union {"none"},
         pc : {"idle", "find", "write", "snapshot", "removing", "drop", "create", "add",
               "schedule", "done"},
         ids : Seq(Schedules), i : Nat, flag : BOOLEAN, next : Minutes, todo : SUBSET JobIds,
         sched : SomeSchedule, exec : SomeRow, ok : BOOLEAN, alone : BOOLEAN,
         ran : SUBSET JobIds]

\* The calls that go through a list of schedules, where they need its id, and what
\* a retry starts from.
ListKinds == {"create", "update", "delete", "enable", "disable"}
AtAnId(cl) ==
  /\ cl.kind \in ListKinds /\ cl.pc # "done" => cl.i \in 1..Len(cl.ids)
  /\ cl.pc \in {"write", "snapshot", "removing", "schedule"} => cl.kind \in ListKinds
  /\ cl.kind = "retry" => cl.ids = <<>> /\ (cl.pc = "find" => cl.exec \in RowIds)

\* Every variable has its type, a job that is not over has an attempt left, a round
\* is at a schedule of its snapshot, and a call at an id of its list.
TypeOK ==
  /\ now \in 0..MaxNow /\ flow \in BOOLEAN
  /\ schedules \in [Schedules -> [exists : BOOLEAN, enabled : BOOLEAN, nextRun : Minutes]]
  /\ rows \in [RowIds -> ExecutionRow]
  /\ jobs \in [JobIds -> Job]
  /\ \A j \in JobIds : Live(j) => jobs[j].left > 0
  /\ round \in [Rounds -> Round]
  /\ \A r \in Rounds : round[r].pc \in {"add", "update"} => round[r].cur \in round[r].todo
  /\ call \in [Callers -> Call]
  /\ \A c \in Callers : AtAnId(call[c])
  /\ calls \in 0..MaxCalls /\ faults \in 0..MaxFaults
  /\ served \subseteq Schedules \X Minutes /\ excused \subseteq Schedules

\* One due time of a schedule is queued by the watcher once, unless one of three
\* things happened: two rounds overlapped on it, a round ended between the job
\* and updateLastRun, or updateSchedule wrote back an older nextRun than the
\* watcher's.
DuplicateHasACause ==
  [][\A r \in Rounds :
       round[r].pc = "add" /\ round'[r].pc = "update" /\ Serving(r) \in served
         => round[r].cur \in excused]_vars

\* A PENDING row has a job that is to run it, or a round or call about to add one,
\* unless one of three things happened, after which it has none and stays PENDING: its
\* round or call ended without adding the job (unqueued), a disable, update or delete
\* removed the job (cancelled), or the job's attempt ended without a write to the row
\* and does not come back to it (abandoned).
PendingIsQueued ==
  \A e \in RowIds : rows[e].status = "pending" =>
     (rows[e].fate = "open" <=> (\E j \in JobIds : Holds(j, e)) \/ Adding(e))

\* A RUNNING row has a worker on it, or its job waits for one, unless that job was
\* cancelled or abandoned meanwhile: then it has none and stays RUNNING.
RunningHasAWorker ==
  \A e \in RowIds : rows[e].status = "running" =>
     (rows[e].fate = "open" <=> \E j \in JobIds : Holds(j, e))

\* A disable that succeeds while nobody else works on its schedules leaves no
\* job of them in the queue but those a worker had at some time meanwhile.
DisableLeavesOnlyRunJobs ==
  \A c \in Callers :
    call[c].kind = "disable" /\ call[c].pc = "done" /\ call[c].ok /\ call[c].alone =>
      \A j \in JobIds : Queued(j) /\ jobs[j].sched \in Ids(call[c]) => j \in call[c].ran

\* A schedule that is enabled and due does not stay so for ever: a round of the
\* watcher queues it and moves its nextRun (or the bound on rows is reached).
DueIsServed ==
  \A s \in Schedules :
    (schedules[s].enabled /\ schedules[s].nextRun <= now)
      ~> (~schedules[s].enabled \/ schedules[s].nextRun > now \/ ~RowLeft \/ ~JobLeft)
=============================================================================
