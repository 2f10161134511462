--------------------------- MODULE FlowExecution ---------------------------
(***************************************************************************)
(* One execution of a flow, from the delivery of its Bull job to the       *)
(* terminal status of its database row: the queue processor                *)
(* (FlowExecutionProcessor.handleFlowExecution), the orchestrator          *)
(* (ExecutionOrchestrator) and the node runner                             *)
(* (NodeExecutionManager.executeNode), interleaved with the cancel, pause  *)
(* and resume calls of users.                                              *)
(*                                                                         *)
(* Node.js runs one callback at a time: a step of this module is what runs *)
(* between two awaits of real I/O (database, Redis, a node's body, a       *)
(* timer).  An await of a promise that is already settled is no boundary.  *)
(*                                                                         *)
(* A definition X_fault is X with a bug that X could have had; no other    *)
(* definition uses it.  Each one breaks a property (README, "Mutants").    *)
(***************************************************************************)
EXTENDS Integers, Sequences

CONSTANTS
  Nodes,         \* the nodes of the flow
  Order,         \* getTopologicalOrder(): the nodes, each once
  Critical,      \* nodes whose failure stops the run (config.critical # false)
  Rollbackable,  \* nodes whose results carry rollbackData
  NoNode,        \* "no node" in an event
  Commands,      \* calls a user may make, one model value each
  Kinds,         \* which calls users make, of cancel, pause and resume
  Faults,        \* TRUE when database and Redis calls may fail
  MaxAttempts,   \* Bull's attempts for the job
  StalledLimit,  \* Bull's maxStalledCount: redeliveries of a stalled job
  MaxCrashes     \* bound: process crashes explored

ASSUME NodesAssumption ==
  /\ Order \in Seq(Nodes)
  /\ \A i, j \in 1..Len(Order) : Order[i] = Order[j] => i = j
  /\ \A n \in Nodes : \E i \in 1..Len(Order) : Order[i] = n
  /\ Critical \subseteq Nodes
  /\ Rollbackable \subseteq Nodes
  /\ NoNode \notin Nodes

ASSUME CommandsAssumption == Kinds \subseteq {"cancel", "pause", "resume"}

ASSUME BoundsAssumption ==
  /\ Faults \in BOOLEAN
  /\ MaxAttempts \in Nat \ {0}
  /\ StalledLimit \in Nat
  /\ MaxCrashes \in Nat

VARIABLES
  pc,            \* where the run is
  idx,           \* the loop's position in Order
  outcome,       \* how the current node's turn went
  result,        \* what executeFlow returned to the processor
  active,        \* activeExecutions has this execution's entry
  status,        \* executionState.status
  completed,     \* executionState.completedNodes
  failed,        \* executionState.failedNodes
  rollbackStack, \* executionState.rollbackStack, the nodes only
  cmd,           \* the user calls in progress
  row,           \* the execution's database row: status, node executions
  retries,       \* attempts Bull has repeated
  crashes,       \* crashes of the process so far
  tried,         \* per node, the rollbacks attempted in this delivery
  bus            \* the events the last step emitted, in order

runVars == <<pc, idx, outcome, result>>
stateVars == <<active, status, completed, failed, rollbackStack>>
jobVars == <<retries, crashes>>
vars == <<runVars, stateVars, cmd, row, jobVars, tried, bus>>

NodePcs == {"checking", "executing", "logging"}
LivePcs == NodePcs \union {"validating", "waiting"}
EndPcs == {"done", "dead"}

Statuses == {"pending", "running", "paused", "success", "failed", "cancelled"}

EventTypes == {"execution.started", "execution.completed", "execution.failed",
               "execution.cancelled", "execution.paused", "execution.resumed",
               "execution.node.started", "execution.node.completed",
               "execution.node.failed"}

Event == [type : EventTypes, node : Nodes \union {NoNode},
          status : {"none", "success", "failed"}]

ExecutionEvent(type) == [type |-> type, node |-> NoNode, status |-> "none"]
NodeEvent(type, n, st) == [type |-> type, node |-> n, status |-> st]

\* The record of a node in the row's nodeExecutions.
NodeExecution == [node : Nodes, status : {"success", "failed"}]

SuccessIf(b) == IF b THEN "success" ELSE "failed"

\* How many times the job has been handed to a worker before this one.
Delivery == retries + crashes

\* executionState.currentNodeId, as a set with at most one element.
CurrentNode == IF pc \in NodePcs THEN {Order[idx]} ELSE {}

Settled == completed \union failed

NoCommand == [kind |-> "none", at |-> "idle", todo |-> <<>>, of |-> 0]

Init ==
  /\ pc = "queued" /\ idx = 1 /\ outcome = "none" /\ result = "none"
  /\ active = FALSE /\ status = "running"
  /\ completed = {} /\ failed = {} /\ rollbackStack = <<>>
  /\ cmd = [c \in Commands |-> NoCommand]
  /\ row = [status |-> "pending", nodes |-> {}]
  /\ retries = 0 /\ crashes = 0
  /\ tried = [n \in Nodes |-> 0]
  /\ bus = <<>>

-----------------------------------------------------------------------------
(***************************************************************************)
(* The run: FlowExecutionProcessor.handleFlowExecution and executeFlow.    *)
(***************************************************************************)

\* A worker takes the job: handleFlowExecution starts.
Deliver ==
  /\ pc = "queued"
  /\ pc' = "begun" /\ bus' = <<>>
  /\ UNCHANGED <<idx, outcome, result, stateVars, cmd, row, jobVars, tried>>

\* updateStatus(RUNNING), whatever the row says, then execution.started.
MarkRunning ==
  /\ pc = "begun"
  /\ pc' = "marked"
  /\ row' = [row EXCEPT !.status = "running"]
  /\ bus' = <<ExecutionEvent("execution.started")>>
  /\ UNCHANGED <<idx, outcome, result, stateVars, cmd, jobVars, tried>>

\* The flow is loaded and createExecutionState enters a fresh state object.
CreateExecutionState ==
  /\ pc = "marked"
  /\ pc' = "validating" /\ idx' = 1 /\ outcome' = "none" /\ result' = "none"
  /\ active' = TRUE /\ status' = "running"
  /\ completed' = {} /\ failed' = {} /\ rollbackStack' = <<>>
  /\ tried' = [n \in Nodes |-> 0]
  /\ bus' = <<>>
  /\ UNCHANGED <<cmd, row, jobVars>>

\* The result does not look at the status.
LoopResult_ignoresCancel == "ok"

\* What the loop returns: success unless the state says CANCELLED.
LoopResult == IF status = "cancelled" THEN "stopped" ELSE "ok"

\* The loop ends: executeFlow deletes the entry and emits execution.completed,
\* whatever the result.
ReturnResult(i, emitted) ==
  /\ pc' = "finishing" /\ idx' = i
  /\ result' = LoopResult
  /\ active' = FALSE
  /\ bus' = emitted \o <<ExecutionEvent("execution.completed")>>

\* The catch answers as if the loop had come to its end.
ReturnError_reportsSuccess(emitted) == ReturnResult(idx, emitted)

\* executeFlow's catch: the entry goes, execution.failed is emitted, and a
\* result without node results is returned instead of the exception.
ReturnError(emitted) ==
  /\ pc' = "finishing" /\ idx' = idx
  /\ result' = "error"
  /\ active' = FALSE
  /\ bus' = emitted \o <<ExecutionEvent("execution.failed")>>

\* The head of the loop in executeNodesWithOrchestration at position i.
StartNode(i, emitted) ==
  /\ pc' = "checking" /\ idx' = i
  /\ bus' = emitted \o <<NodeEvent("execution.node.started", Order[i], "none")>>
  /\ UNCHANGED <<result, active>>

WaitAt(i, emitted) ==
  /\ pc' = "waiting" /\ idx' = i
  /\ bus' = emitted
  /\ UNCHANGED <<result, active>>

\* The break for CANCELLED is missing.
LoopHead_runsOn(i, emitted) ==
  \/ i > Len(Order) /\ ReturnResult(i, emitted)
  \/ i <= Len(Order) /\ status = "paused" /\ WaitAt(i, emitted)
  \/ i <= Len(Order) /\ status # "paused" /\ StartNode(i, emitted)

\* Everything but RUNNING waits.
LoopHead_waits(i, emitted) ==
  \/ i > Len(Order) /\ ReturnResult(i, emitted)
  \/ i <= Len(Order) /\ status # "running" /\ WaitAt(i, emitted)
  \/ i <= Len(Order) /\ status = "running" /\ StartNode(i, emitted)

LoopHead(i, emitted) ==
  \/ /\ i > Len(Order) \/ status = "cancelled"
     /\ ReturnResult(i, emitted)
  \/ /\ i <= Len(Order) /\ status = "paused"
     /\ WaitAt(i, emitted)
  \/ /\ i <= Len(Order) /\ status = "running"
     /\ StartNode(i, emitted)

\* validateFlow and buildExecutionGraph accept the flow, or one of them throws
\* (unknown node type, incompatible connection, cycle).
ValidateFlow ==
  /\ pc = "validating"
  /\ LoopHead(1, <<>>) \/ ReturnError(<<>>)
  /\ UNCHANGED <<outcome, status, completed, failed, rollbackStack,
                 cmd, row, jobVars, tried>>

\* The poll also ends when the entry is gone.
Resumed_orDeleted == ~active \/ status = "running"

\* The poll looks for a status that a resume does not set.
Resumed_success == active /\ status = "success"

Resumed == active /\ status = "running"

\* waitForResume polls activeExecutions: only an entry that is RUNNING lets the
\* run go on, and it goes on to the node without looking at the status again.
LeaveWait ==
  /\ pc = "waiting"
  /\ Resumed
  /\ StartNode(idx, <<>>)
  /\ UNCHANGED <<outcome, status, completed, failed, rollbackStack,
                 cmd, row, jobVars, tried>>

\* collectNodeInputs throws when a node that succeeded has given no data: the node
\* fails without a result, and execution.node.completed is not emitted.
CollectInputsThrows ==
  /\ pc = "checking"
  /\ completed # {}
  /\ outcome' = "uncollected"
  /\ failed' = failed \union {Order[idx]}
  /\ ReturnError(<<NodeEvent("execution.node.failed", Order[idx], "failed")>>)
  /\ UNCHANGED <<status, completed, rollbackStack, cmd, row, jobVars, tried>>

\* executeNode up to the call of the body: the breaker is open, the inputs are
\* rejected or the node cannot be created, or the body starts.
CheckNode ==
  /\ pc = "checking"
  /\ \/ pc' = "executing" /\ outcome' = "none"
     \/ pc' = "logging" /\ outcome' = "threw"
  /\ bus' = <<>>
  /\ UNCHANGED <<idx, result, stateVars, cmd, row, jobVars, tried>>

\* The body answers with success, answers with success = false, or throws; or
\* executeWithRetry's timeout wins the race, and nobody waits for the body.
BodyEnds ==
  /\ pc = "executing"
  /\ pc' = "logging"
  /\ outcome' \in {"ok", "soft", "threw"}
  /\ bus' = <<>>
  /\ UNCHANGED <<idx, result, stateVars, cmd, row, jobVars, tried>>

\* executeNode logs FAILED in its catch only: success = false counts as SUCCESS.
LoggedStatus == SuccessIf(outcome # "threw")

\* logNodeExecution pushes the node's record to the row; an error of the database
\* is swallowed.
LogNodeExecution ==
  \/ row' = [row EXCEPT !.nodes = @ \union
               {[node |-> Order[idx], status |-> LoggedStatus]}]
  \/ Faults /\ UNCHANGED row

\* executeNode returns and the loop records the node, then goes to its head.
RecordNode ==
  LET n == Order[idx]
      said == <<NodeEvent("execution.node.completed", n, SuccessIf(outcome = "ok"))>>
  IN
  /\ pc = "logging"
  /\ LogNodeExecution
  /\ outcome' = "none"
  /\ \/ /\ outcome = "ok"
        /\ completed' = completed \union {n}
        /\ rollbackStack' = IF n \in Rollbackable THEN Append(rollbackStack, n)
                            ELSE rollbackStack
        /\ UNCHANGED failed
        /\ LoopHead(idx + 1, said)
     \/ /\ outcome # "ok"
        /\ failed' = failed \union {n}
        /\ UNCHANGED <<completed, rollbackStack>>
        /\ IF n \in Critical
           THEN ReturnError(said \o <<NodeEvent("execution.node.failed", n, "failed")>>)
           ELSE LoopHead(idx + 1, said)
  /\ UNCHANGED <<status, cmd, jobVars, tried>>

OutcomeStatus_successOnly == IF result = "ok" THEN "success" ELSE row.status

OutcomeStatus == IF result = "ok" THEN "success" ELSE "failed"

\* updateStatus(SUCCESS or FAILED) after executeFlow returned.
WriteOutcome ==
  /\ pc = "finishing"
  /\ pc' = "storing"
  /\ row' = [row EXCEPT !.status = OutcomeStatus]
  /\ bus' = <<>>
  /\ UNCHANGED <<idx, outcome, result, stateVars, cmd, jobVars, tried>>

\* The node executions of the result replace those in the row, if there are any.
NodeResults == {[node |-> n, status |-> SuccessIf(n \in completed)] : n \in Settled}

StoredNodes ==
  IF result # "error" /\ Settled # {} THEN NodeResults ELSE row.nodes

\* repository.update, then a second execution.completed if the run succeeded.
StoreResults ==
  /\ pc = "storing"
  /\ pc' = "done"
  /\ row' = [row EXCEPT !.nodes = StoredNodes]
  /\ bus' = IF result = "ok" THEN <<ExecutionEvent("execution.completed")>>
            ELSE <<>>
  /\ UNCHANGED <<idx, outcome, result, stateVars, cmd, jobVars, tried>>

-----------------------------------------------------------------------------
(***************************************************************************)
(* Failures of the job: a rejected database or Redis call makes the        *)
(* processor throw, and Bull retries the job; a crashed process leaves a   *)
(* stalled job that Bull hands out again.                                  *)
(***************************************************************************)

\* An awaited call of the processor rejects, or the flow is gone.  update()
\* reads the row back: the read may reject when the write is done.
ProcessorThrows ==
  /\ Faults
  /\ pc \in {"begun", "marked", "finishing", "storing"}
  /\ pc' = "failing" /\ bus' = <<>>
  /\ \/ UNCHANGED row
     \/ pc = "storing" /\ row' = [row EXCEPT !.nodes = StoredNodes]
  /\ UNCHANGED <<idx, outcome, result, stateVars, cmd, jobVars, tried>>

RetryOrGiveUp ==
  IF retries + 1 < MaxAttempts
  THEN pc' = "queued" /\ retries' = retries + 1
  ELSE pc' = "dead" /\ UNCHANGED retries

\* The processor's catch: FAILED, execution.failed and the rethrow; nothing
\* but the rethrow when the row was never loaded or its update rejects too.
HandleThrow ==
  /\ pc = "failing"
  /\ \/ /\ row' = [row EXCEPT !.status = "failed"]
        /\ bus' = <<ExecutionEvent("execution.failed")>>
     \/ /\ UNCHANGED row
        /\ bus' = <<>>
  /\ RetryOrGiveUp
  /\ UNCHANGED <<idx, outcome, result, stateVars, cmd, crashes, tried>>

\* The process dies with everything in memory; the job stalls and is
\* delivered again, or is failed by Bull when it has stalled too often.
Crash ==
  /\ pc \notin {"queued"} \union EndPcs
  /\ crashes < MaxCrashes
  /\ crashes' = crashes + 1
  /\ pc' = IF crashes < StalledLimit THEN "queued" ELSE "dead"
  /\ active' = FALSE /\ outcome' = "none"
  /\ cmd' = [c \in Commands |->
               IF cmd[c].at \in {"idle", "done"} THEN cmd[c]
               ELSE [cmd[c] EXCEPT !.at = "lost"]]
  /\ bus' = <<>>
  /\ UNCHANGED <<idx, result, status, completed, failed, rollbackStack, row,
                 retries, tried>>   \* memory: kept for the properties only

-----------------------------------------------------------------------------
(***************************************************************************)
(* cancelExecution, pauseExecution, resumeExecution.  A call that finds no *)
(* entry, or the wrong status, throws and changes nothing.                 *)
(***************************************************************************)

\* cancelNodeExecution: the abort is heard only while the body runs, and ends the
\* wait for the body, not the body.
AbortNode ==
  IF pc = "executing" THEN pc' = "logging" /\ outcome' = "threw"
  ELSE UNCHANGED <<pc, outcome>>

\* CANCELLED, whatever the status was; the node that runs is aborted and the
\* rollback stack copied.
BeginCancel(c) ==
  /\ cmd[c].at = "idle" /\ "cancel" \in Kinds
  /\ active
  /\ status' = "cancelled"
  /\ AbortNode
  /\ cmd' = [cmd EXCEPT ![c] =
               [kind |-> "cancel", todo |-> rollbackStack, of |-> Delivery,
                at |-> IF rollbackStack = <<>> THEN "write" ELSE "rollback"]]
  /\ bus' = <<>>
  /\ UNCHANGED <<idx, result, active, completed, failed, rollbackStack, row,
                 jobVars, tried>>

\* performRollback: the last operation first; a rollback that fails is logged
\* and the next one is tried.
RollbackNext(c) ==
  LET todo == cmd[c].todo
      n == todo[Len(todo)]
      rest == SubSeq(todo, 1, Len(todo) - 1)
  IN
  /\ cmd[c].at = "rollback"
  /\ cmd' = [cmd EXCEPT ![c].todo = rest,
                        ![c].at = IF rest = <<>> THEN "write" ELSE "rollback"]
  /\ tried' = IF cmd[c].of = Delivery THEN [tried EXCEPT ![n] = @ + 1] ELSE tried
  /\ bus' = <<>>
  /\ UNCHANGED <<runVars, stateVars, row, jobVars>>

\* The check and the assignment of pauseExecution and of resumeExecution; the
\* node manager's pause and resume only emit an event.
SwitchStatus(c, kind, from, to) ==
  /\ cmd[c].at = "idle" /\ kind \in Kinds
  /\ active /\ status = from
  /\ status' = to
  /\ cmd' = [cmd EXCEPT ![c] = [kind |-> kind, at |-> "write", todo |-> <<>>,
                                of |-> Delivery]]
  /\ bus' = <<>>
  /\ UNCHANGED <<runVars, active, completed, failed, rollbackStack,
                 row, jobVars, tried>>

BeginPause(c) == SwitchStatus(c, "pause", "running", "paused")
BeginResume(c) == SwitchStatus(c, "resume", "paused", "running")

WrittenStatus(kind) ==
  CASE kind = "cancel" -> "cancelled"
    [] kind = "pause" -> "paused"
    [] OTHER -> "running"

\* updateStatus of the call, whatever the row says by now.
WriteCommand(c) ==
  /\ cmd[c].at = "write"
  /\ cmd' = [cmd EXCEPT ![c].at = "finish"]
  /\ row' = [row EXCEPT !.status = WrittenStatus(cmd[c].kind)]
  /\ bus' = <<>>
  /\ UNCHANGED <<runVars, stateVars, jobVars, tried>>

\* updateStatus rejects and so does the call.
CommandFails(c) ==
  /\ Faults
  /\ cmd[c].at = "write"
  /\ cmd' = [cmd EXCEPT ![c].at = "lost"]
  /\ bus' = <<>>
  /\ UNCHANGED <<runVars, stateVars, row, jobVars, tried>>

CommandEvent(kind) ==
  CASE kind = "cancel" -> "execution.cancelled"
    [] kind = "pause" -> "execution.paused"
    [] OTHER -> "execution.resumed"

\* A cancel deletes the entry, by key; every call ends with its event.
FinishCommand(c) ==
  /\ cmd[c].at = "finish"
  /\ cmd' = [cmd EXCEPT ![c].at = "done"]
  /\ active' = IF cmd[c].kind = "cancel" THEN FALSE ELSE active
  /\ bus' = <<ExecutionEvent(CommandEvent(cmd[c].kind))>>
  /\ UNCHANGED <<runVars, status, completed, failed, rollbackStack,
                 row, jobVars, tried>>

-----------------------------------------------------------------------------
RunStep ==
  \/ Deliver \/ MarkRunning \/ CreateExecutionState \/ ValidateFlow \/ LeaveWait
  \/ CollectInputsThrows \/ CheckNode \/ BodyEnds \/ RecordNode
  \/ WriteOutcome \/ StoreResults \/ HandleThrow

BeginCommand(c) == BeginCancel(c) \/ BeginPause(c) \/ BeginResume(c)

CommandStep(c) == RollbackNext(c) \/ WriteCommand(c) \/ FinishCommand(c)

Next ==
  \/ RunStep
  \/ ProcessorThrows
  \/ Crash
  \/ \E c \in Commands : BeginCommand(c) \/ CommandStep(c) \/ CommandFails(c)

\* The event loop runs every callback that is due: the run and the calls that
\* have begun go on.  Nobody has to call, and nothing has to fail.
Fairness ==
  /\ WF_vars(RunStep)
  /\ \A c \in Commands : WF_vars(CommandStep(c))

Spec == Init /\ [][Next]_vars
FairSpec == Spec /\ Fairness

-----------------------------------------------------------------------------
(***************************************************************************)
(* Properties.                                                             *)
(***************************************************************************)

Pcs == {"queued", "begun", "marked", "finishing", "storing", "failing"}
         \union LivePcs \union EndPcs

Command == [kind : {"none", "cancel", "pause", "resume"},
            at : {"idle", "rollback", "write", "finish", "done", "lost"},
            todo : Seq(Nodes), of : Nat]

Row == [status : Statuses, nodes : SUBSET NodeExecution]

\* Every variable has its type.
TypeOK ==
  /\ pc \in Pcs
  /\ idx \in 1..(Len(Order) + 1)
  /\ outcome \in {"none", "ok", "soft", "threw", "uncollected"}
  /\ result \in {"none", "ok", "stopped", "error"}
  /\ active \in BOOLEAN
  /\ status \in {"running", "paused", "cancelled"}
  /\ completed \subseteq Nodes /\ failed \subseteq Nodes
  /\ rollbackStack \in Seq(Nodes)
  /\ cmd \in [Commands -> Command]
  /\ row \in Row
  /\ retries \in Nat /\ crashes \in Nat
  /\ tried \in [Nodes -> Nat]
  /\ bus \in Seq(Event)

\* A row that says SUCCESS has been earned: in the delivery that wrote it every
\* node of the flow was settled and no critical node failed, whatever calls,
\* retries and crashes came in between (the processor's updateStatus trusts
\* result.success alone).
SuccessIsEarned ==
  row.status = "success" => Settled = Nodes /\ failed \intersect Critical = {}

\* A delivery in which a cancel was accepted never ends as SUCCESS, though
\* the run goes on to the end of its node and writes the row after the cancel.
CancelNeverSucceeds ==
  row.status = "success" => status # "cancelled"

\* The nodes a cancel leaves done: completed, with rollback data, not undone.
LeftDone == {n \in completed \intersect Rollbackable : tried[n] = 0}

\* A cancel undoes everything but, at most, the node that was in flight when it
\* copied the rollback stack (performRollback's snapshot).
RollbackMissesAtMostInFlight ==
  \A c \in Commands :
    (/\ cmd[c].kind = "cancel"
     /\ cmd[c].at \in {"write", "finish", "done"}
     /\ cmd[c].of = Delivery)
      => \A m, n \in LeftDone : m = n

Terminal == {"success", "failed", "cancelled"}

\* A cancel that is accepted while a node is being run brings the run to the
\* end of its loop.
CancelEndsRun == (status = "cancelled" /\ pc \in NodePcs) ~> (pc \notin LivePcs)

\* A job that can be retried and redelivered comes to its end, unless its run
\* waits for a resume: then it waits for ever, and the execution is not RUNNING.
JobEndsOrWaits ==
  \/ <>[](pc \in EndPcs)
  \/ <>[](pc = "waiting" /\ ~(active /\ status = "running"))

\* Bull has failed the job itself, as one that stalled too often: no handler of the
\* engine writes the row for it (onJobFailed only tells of it).
GivenUpByBull == pc = "dead" /\ crashes > StalledLimit

\* As long as no user pauses and no call of the processor fails, the row comes to
\* a terminal status for good, through cancels, crashes and redelivery, unless the
\* process died under the job more often than Bull hands a stalled job out again:
\* then nothing touches the row any more, which may say RUNNING for ever.
RowSettles ==
  [](pc # "failing" /\ \A c \in Commands : cmd[c].kind # "pause")
    => \/ <>[](row.status \in Terminal)
       \/ <>GivenUpByBull

\* What the rest of the system may rely on.
Lifecycle ==
  INSTANCE ExecutionLifecycle WITH
    phase <- IF pc \in LivePcs THEN "open" ELSE "closed",
    started <- Settled \union CurrentNode,
    verdict <- IF result = "ok" THEN "success"
               ELSE IF result = "none" THEN "none" ELSE "failure"

\* The run implements the lifecycle: nodes start one by one in the order of
\* the graph and only while the execution is RUNNING, CANCELLED is final, and
\* success is reported only for a run that started every node.
ImplementsLifecycle == Lifecycle!Spec

-----------------------------------------------------------------------------
(***************************************************************************)
(* What the documentation and the tests say, and the code does not do.     *)
(***************************************************************************)

Quiet == \A c \in Commands : cmd[c].at \in {"idle", "done"}

\* test/execution-e2e.spec.ts: an execution that was cancelled is CANCELLED.
CancelledStays ==
  pc = "done" /\ Quiet /\ (\E c \in Commands : cmd[c].kind = "cancel")
    => row.status = "cancelled"
=============================================================================
