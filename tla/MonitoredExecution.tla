------------------------- MODULE MonitoredExecution -------------------------
(***************************************************************************)
(* An execution with its listeners: EventEmitter2 calls the handlers of    *)
(* MetricsService and RealtimeGateway within the step that emits an event, *)
(* in the order of the events.  Both live in the process: a crash resets   *)
(* the metrics and disconnects the clients.                                *)
(***************************************************************************)
EXTENDS FlowExecution, FiniteSets

MS == INSTANCE Metrics

RG == INSTANCE RealtimeGateway

VARIABLES
  metrics,  \* the state of MetricsService
  told      \* the status each room was told last

monitorVars == <<vars, metrics, told>>

NothingTold == [room \in RG!Rooms |-> "none"]

MonitorInit ==
  /\ Init
  /\ metrics = MS!NoMetrics
  /\ told = NothingTold

\* What a listener makes of the events of one step, of which there are three at most.
Taken(Take(_, _), state, events) ==
  LET first == Take(state, events[1])
      second == Take(first, events[2])
  IN CASE Len(events) = 0 -> state
       [] Len(events) = 1 -> first
       [] Len(events) = 2 -> second
       [] Len(events) = 3 -> Take(second, events[3])

\* The listeners take the events of the step.
Listen ==
  /\ metrics' = Taken(MS!Collect, metrics, bus')
  /\ told' = Taken(RG!Broadcast, told, bus')

Engine == Next /\ crashes' = crashes /\ Listen

Restart ==
  /\ Crash
  /\ metrics' = MS!NoMetrics
  /\ told' = NothingTold

\* The hourly cron job.
Cleanup ==
  /\ metrics' = MS!CleanupOldMetrics(metrics)
  /\ UNCHANGED <<vars, told>>

MonitorNext == Engine \/ Restart \/ Cleanup

MonitorSpec == MonitorInit /\ [][MonitorNext]_monitorVars

-----------------------------------------------------------------------------
Here == pc \in LivePcs \union {"finishing", "storing", "done"}

\* The node whose inputs could not be collected in this delivery.
Uncollected == IF outcome = "uncollected" THEN {Order[idx]} ELSE {}

\* As long as the entry is kept, monitoring shows as many completed and failed
\* nodes as the orchestrator has, after every retry, redelivery and cancel, but
\* for the node whose inputs could not be collected.
NodeCountsAgree ==
  Here /\ MS!Present(metrics) =>
    /\ metrics.entry.completedNodes = Cardinality(completed)
    /\ metrics.entry.failedNodes = Cardinality(failed \ Uncollected)

\* A node that was started and is not the one in flight has been counted once as
\* a success or as a failure: a retry may leave behind one start without an end,
\* and this delivery the start of the node whose inputs could not be collected.
EveryStartIsCounted ==
  \A n \in Nodes :
    metrics.nodeExecutions[n]
      - metrics.nodeSuccesses[n] - metrics.nodeFailures[n]
      - (IF n \in CurrentNode THEN 1 ELSE 0)
    \in 0..(retries + (IF n \in Uncollected THEN 1 ELSE 0))

\* A job that is done does not count among the active executions, and counts as
\* completed exactly when executeFlow did not fail.
DoneIsNotActive ==
  pc = "done" /\ MS!Present(metrics) =>
    metrics.entry.status = IF result = "error" THEN "failed" ELSE "completed"

\* A room that was told SUCCESS or FAILED is not watching a run that goes on,
\* though the job may have been retried since.
VerdictIsLast ==
  \A room \in RG!Rooms : told[room] \in {"success", "failed"} => pc \notin LivePcs
=============================================================================
