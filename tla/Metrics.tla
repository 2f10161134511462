------------------------------ MODULE Metrics ------------------------------
(***************************************************************************)
(* MetricsService: the counters that monitoring shows, kept from the       *)
(* events of the engine.  The state m is what the service holds in memory  *)
(* for one execution of one flow whose nodes are of different types.       *)
(* Durations, memory, records and the averages made of them are left out.  *)
(*                                                                         *)
(* X_fault is X with a bug that X could have had (README, "Mutants").      *)
(***************************************************************************)
EXTENDS Integers

CONSTANT Nodes

\* executionMetrics' entry of the execution; "none" when there is none.
NoEntry == [status |-> "none", completedNodes |-> 0, failedNodes |-> 0]

NoMetrics ==
  [entry |-> NoEntry,
   totalExecutions |-> 0, successfulExecutions |-> 0, failedExecutions |-> 0,
   nodeExecutions |-> [n \in Nodes |-> 0],
   nodeSuccesses |-> [n \in Nodes |-> 0],
   nodeFailures |-> [n \in Nodes |-> 0],
   flow |-> [executionCount |-> 0, successCount |-> 0, failureCount |-> 0]]

Present(m) == m.entry.status # "none"

\* updateFlowMetrics counts by the status the entry has got.
UpdateFlowMetrics(m) ==
  [m EXCEPT !.flow.executionCount = @ + 1,
            !.flow.successCount = IF m.entry.status = "completed" THEN @ + 1 ELSE @,
            !.flow.failureCount = IF m.entry.status = "failed" THEN @ + 1 ELSE @]

\* A repeated execution goes on with the counts of the attempt before.
OnExecutionStarted_keepsCounts(m) ==
  [m EXCEPT !.entry.status = "running", !.totalExecutions = @ + 1]

OnExecutionStarted(m) ==
  [m EXCEPT !.entry = [NoEntry EXCEPT !.status = "running"],
            !.totalExecutions = @ + 1]

\* The entry keeps the status "running".
OnExecutionCompleted_leavesStatus(m) ==
  IF Present(m) THEN UpdateFlowMetrics([m EXCEPT !.successfulExecutions = @ + 1])
  ELSE m

OnExecutionCompleted(m) ==
  IF Present(m)
  THEN UpdateFlowMetrics([m EXCEPT !.entry.status = "completed",
                                   !.successfulExecutions = @ + 1])
  ELSE m

OnExecutionFailed(m) ==
  IF Present(m)
  THEN UpdateFlowMetrics([m EXCEPT !.entry.status = "failed",
                                   !.failedExecutions = @ + 1])
  ELSE m

OnNodeStarted(m, n) == [m EXCEPT !.nodeExecutions[n] = @ + 1]

\* A node that fails is not counted for its type.
OnNodeCompleted_successOnly(m, n, st) ==
  IF st = "success"
  THEN [m EXCEPT !.entry.completedNodes = @ + 1, !.nodeSuccesses[n] = @ + 1]
  ELSE [m EXCEPT !.entry.failedNodes = @ + 1]

\* The counts by node of the entry, if there is one, and of the node's type.
OnNodeCompleted(m, n, st) ==
  LET entered == IF ~Present(m) THEN m
                 ELSE IF st = "success" THEN [m EXCEPT !.entry.completedNodes = @ + 1]
                 ELSE [m EXCEPT !.entry.failedNodes = @ + 1]
  IN IF st = "success" THEN [entered EXCEPT !.nodeSuccesses[n] = @ + 1]
     ELSE [entered EXCEPT !.nodeFailures[n] = @ + 1]

\* What the service makes of event e.
Collect(m, e) ==
  CASE e.type = "execution.started" -> OnExecutionStarted(m)
    [] e.type = "execution.completed" -> OnExecutionCompleted(m)
    [] e.type = "execution.failed" -> OnExecutionFailed(m)
    [] e.type = "execution.node.started" -> OnNodeStarted(m, e.node)
    [] e.type = "execution.node.completed" -> OnNodeCompleted(m, e.node, e.status)
    [] OTHER -> m

\* cleanupOldMetrics drops an entry a day after its start, unless it is running.
CleanupOldMetrics(m) ==
  IF m.entry.status = "running" THEN m ELSE [m EXCEPT !.entry = NoEntry]
=============================================================================
