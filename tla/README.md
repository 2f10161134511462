# A verification development of the flow orchestration platform

TLA+ modules, TLC configurations and TLAPS proofs for the platform in
`packages/`: `scheduler-engine` (NestJS; schedules, a Bull queue, the execution
engine, the catalog of nodes, monitoring, a websocket gateway), `node-core` (the
node library) and `scheduler-ui` (a React client). Paths below are relative to
`packages/scheduler-engine/src/` unless they say otherwise.

Contents: 1 the system, 2 the modules, 3 the checks, 4 the proofs, 5 where code
and documents part, 6 what is not modelled.

## 1. The system

| component | state | operations | talks to |
|---|---|---|---|
| Scheduler service (`scheduler/scheduler.service.ts`) | table of schedules, delayed Bull jobs, a watcher on an interval of one minute | create, update, delete, enable, disable, bulk, retry an execution, execute a due schedule | adds jobs to the queue, creates execution rows |
| Job queue (Bull, `scheduler/scheduler.module.ts`) | jobs with attempts and backoff; stalled jobs are handed out again | add, remove, deliver, retry, fail | calls the processor |
| Processor (`scheduler/flow-execution.processor.ts`) | `activeJobs` | `handleFlowExecution` | rows, flows, orchestrator; emits `execution.*` |
| Orchestrator (`execution/execution-orchestrator.service.ts`) | `activeExecutions`: status, completed and failed nodes, rollback stack | execute, cancel, pause, resume | node manager, rows; emits `execution.*`, `execution.node.*` |
| Node manager (`execution/node-execution.manager.ts`) | running nodes with their abort controllers, a circuit breaker per node type | execute, abort, roll back | registry, rows |
| Data flow manager (`execution/data-flow.manager.ts`) | none | validate connections, collect inputs, transform | catalog |
| Context manager (`execution/execution-context.manager.ts`) | contexts, variables, secrets | create, read, write, resolve, interpolate | - |
| Rows (`scheduler/execution.repository.ts`) | one row per execution: status, node executions | updateStatus, update, queries | PostgreSQL |
| Metrics (`monitoring/metrics.service.ts`) | counters, an entry per execution, history | a handler per event, two cron jobs | listens to the engine |
| Realtime gateway (`realtime/realtime.gateway.ts`) | clients, rooms | connect, subscribe, a handler per event | listens to the engine |
| Flows (`flows/`) | table of flows with versions | create, update, delete, validate, roll back | PostgreSQL |
| Catalog (`catalog/`) | table of node definitions | synchronise at start, resynchronise, register, look up, check compatibility | node-core |
| node-core (`packages/node-core/src`) | registry; a client per database node | register, create, validate, execute | databases |
| UI (`packages/scheduler-ui/src`) | pages with their lists, a store of flows, dialogs, a socket | REST calls with retries, effects, timers, reconnect | engine |

What is hard here: calls of users interleave with a run at every `await`; the
status of an execution lives twice, in memory and in its row, and is written by
the processor and by the calls, each without looking at what the row says;
database calls fail between two writes; Bull repeats a job after a throw and
after a stall; the watcher's rounds overlap; nothing in the tables is locked or
versioned; listeners count events that a repeated run emits again; answers reach
a page in any order, and effects of React run in an order nobody wrote down.
`PROJECT.json` lists the hazards, each at its line, with the properties that
watch it.

## 2. The modules

| module | models | kind |
|---|---|---|
| `FlowExecution` | `handleFlowExecution`, `executeFlow`, `executeNode`, cancel, pause, resume, for one execution | state machine |
| `ExecutionLifecycle` | what the engine promises about one execution | abstract specification |
| `Metrics`, `RealtimeGateway` | the two listeners, as functions on their state | operators |
| `MonitoredExecution` | `FlowExecution` with both listeners | composition |
| `Scheduling` | schedules, jobs and rows; the watcher, the users' calls, the workers | state machine |
| `NodeRunner` | concurrent runs of one node type: breaker, abort controllers, timeout, bodies | state machine |
| `ExecutionGraph` | the depth-first searches for cycles and for the topological order | algorithm, step by step |
| `FlowGraph` | from a flow's definition to the inputs of its last node, through both executors | algorithm, step by step |
| `NodeTypes` | pins, rules and registry of node-core; the validator's table | operators |
| `NodeData` | filter, mapper, transformations of connections, the MongoDB node's checks and counts | algorithms |
| `ExecutionContexts` | contexts, variables, secrets, resolution, templates | state machine |
| `Flows` | `FlowsService` under concurrent requests, one step per query | state machine |
| `Catalog` | `CatalogService`: starts, resynchronisation, registration, look-ups | state machine |
| `ListPage` | the three list pages of the UI with the client's repetition of requests | state machine |
| `FlowBuilder` | canvas, store, save and load dialogs, import, server | state machine |
| `NodePalette` | cached catalog, sidebar, properties panel | state machine |
| `ScheduleForm` | the dialog of schedules and the builder of cron expressions | state machine |
| `RealtimeClient`, `ExecutionDetails` | the UI's socket service; the dialog that uses it and HTTP | state machines, composed |
| `LoadingState` | the hook that the list pages load with | state machine |
| `FlowExecutionProofs`, `MonitoredExecutionProofs`, `NodeRunnerProofs` | theorems about the module they are named after | proofs |
| `SchedulingProofs`, `WatcherProofs` | theorems about `Scheduling` | proofs |
| `ServicesProofs`, `ClientProofs` | theorems about `Flows` and `Catalog`; about the components of the client | proofs |
| `AlgorithmsProofs` | theorems about `FlowGraph`, `NodeData` and `ExecutionContexts` | proofs |
| `MC_*` | instances for TLC | model checking |

A definition `X_name` beside `X` is `X` with a bug it could have had (section 3,
Mutants). Variables marked *history* or *bookkeeping* record something for a
property; no action of the code reads them.

### FlowExecution

A step is what Node.js runs between two awaits of real I/O. `pc` says where the
run is:

    queued -Deliver-> begun -MarkRunning-> marked -CreateExecutionState-> validating
      -ValidateFlow-> checking -CheckNode-> executing -BodyEnds-> logging
      -RecordNode-> checking | waiting | finishing
    waiting -LeaveWait-> checking
    finishing -WriteOutcome-> storing -StoreResults-> done
    failing -HandleThrow-> queued | dead

- `LoopHead` is the top of the `for` of `executeNodesWithOrchestration`; the code
  that runs up to it without an await (the record of the node before) is in the
  same action.
- `checking` is everything from the start of a node to its body: collection of
  inputs, breaker, validation of inputs, creation of the node. `executing` is the
  only phase in which an abort is heard, as the listener is added by
  `executeWithRetry`. A timeout is one of the ways a body "throws".
- `row` is the database row; `active`, `status`, `completed`, `failed` and
  `rollbackStack` are the entry of `activeExecutions`. After a run the state
  object lives on for the calls that hold it, so these variables keep their
  values until `CreateExecutionState` makes a new one.
- A call `c` of a user is one-shot: `BeginCancel`, `BeginPause`, `BeginResume`
  (check and assignment, up to the first await), `RollbackNext` (one rollback),
  `WriteCommand`, `FinishCommand`. A call that finds no entry, or not the
  status it needs, throws and changes nothing: it is not a step.
- `ProcessorThrows` is any awaited call of the processor that rejects;
  `HandleThrow` its `catch`; `RetryOrGiveUp` Bull's attempts. `Crash` is the loss
  of the process; Bull hands a stalled job out again `StalledLimit` times.
- `bus` holds the events of the last step, for `MonitoredExecution`. `tried` and
  `cmd[c].of` are history: which rollbacks were tried, and in which delivery a
  call was made.

Abstractions, and what they leave out: the topological order is a constant that
lists every node once (`FlowGraph` computes it); `ValidateFlow` accepts or
rejects, `CheckNode` and `BodyEnds` choose any outcome; the collection of inputs
and the checks before the body are one phase, which adds interleavings and hides
none; a write that rejects has not been applied, except in `StoreResults`, where
`update` reads the row back after the write; the job carries the id of its
execution (jobs that do not are in `Scheduling`); a worker that is alive but
stalled, and so runs beside its successor, is not modelled. No node of node-core
returns `rollbackData`; `Rollbackable` stands for nodes that do, as the interface
allows.

### Metrics, RealtimeGateway, MonitoredExecution

EventEmitter2 calls listeners synchronously, so `Engine` conjoins a step of
`FlowExecution` with `Listen`, which folds the handlers over the events of the
step. Both services live in the process: `Restart` conjoins `Crash` with their
reset. `Cleanup` is the hourly cron job at any time; that the entry is a day old
is left out, which only adds behaviours.

### Scheduling

Time is counted in minutes: `calculateNextRun` answers now + 60 s whatever the cron
expression says. A round of the watcher is `StartRound` (the snapshot of due
schedules), then for each schedule `ExecuteSchedule` (the row), `AddScheduledJob`,
`UpdateLastRun`, with an await between each two; a rejected await ends the round
(`RoundRejected`, `RoundFails`). Several rounds may be in flight. A call of a user is
a chain of steps on the ids of its list; a bulk call goes on after an error. The
delayed job of a schedule carries no execution id, so the worker makes a row; the jobs
of the watcher and of `retryExecution` name theirs. Any await of a call may reject
(`CallRejected`), also the `queue.add` of a retry that has made its row.

A job is delayed or waiting, until one of the `Workers` (Bull runs one job of a queue at a
time for each `@Process`) takes it (`TakeJob`), finds or makes its row (`LoadRow`) and
writes RUNNING (`MarkRunning`). What happens between that and the end of the
attempt is `FlowExecution`; here it ends by `CompleteJob`, by `ThrowJob`, which writes FAILED,
or by `JobRejected`, which writes nothing, as what failed was a query before the row was
known, or the FAILED write itself. `CompleteJob` and `ThrowJob` make one step of the write and of
what Bull does next. `Crash` takes rounds, calls and workers; a stalled job waits again unless
it has stalled more often than `StalledLimit`. The row of a job that is out is
PENDING, RUNNING or ended: pause, resume and cancel of the orchestrator have no caller in the
engine, and `FlowExecution` has what they do to a row.

Foreign keys are modelled: a row needs its flow and its schedule, the deletion of a
schedule sets the id of its executions to NULL, that of a flow takes schedules and
rows with it. `fate`, `served`, `excused`, `alone`, `ran` are bookkeeping. The fate of a row is `open`
until its call or round ends without adding its job (`unqueued`), a disable, update or
delete removes that job (`cancelled`), or an attempt of it ends without a write and does not come back to
the row (`abandoned`).

### NodeRunner

`executeNode` for runs of one type: `Start` (breaker and entry), `Validate`, the race of
the body against timeout and abort (`racing`), `Log`, the deletion of the entry. The
body goes its own way, as nothing stops it: connect with retries, operate,
disconnect. Two runs may have one key (an execution whose job was handed out twice).
Time is the age of the breaker's last failure, in minutes.

### ExecutionGraph, FlowGraph, NodeTypes, NodeData, ExecutionContexts

`FlowGraph` takes every flow of its nodes with up to `MaxConnections` connections
through validation, the search for cycles, the topological order and the loop of either
executor, with every outcome of every node. Both graph algorithms are depth-first searches
with a set of visited nodes that all roots share. Their recursion is kept in `calls`, one entry
for each call under way with the edges it has still to follow, and a step is one turn of a loop
(`NextNode`, `FollowEdge`) or the end of a call (`Return`): what the recursion relies on at each
moment can then be stated, and proved. Between two of these steps nothing else runs, as the code has
no await there. In `NodeData` a field is named by a text that may have a dot in it: the nodes look for a field of
that name (`item[<<f>>]`), the transformations of connections follow the path it says (`GetNestedValue`). An item
has values, or objects, at the places that such names and paths can mean. `NodeData` answers one task at a time (`DataNext`); its tasks are all conditions, mappings and operations up
to the bounds. In `ExecutionContexts` the maps of contexts are places in a heap, since
the code shares some of them and copies others.

### Flows, Catalog

Each call is a chain of awaited queries and other calls run between them. A version of
a flow counts up; a rollback writes back the whole row it has read. A start of the
engine walks through node-core's types; any query may fail and the engine may stop
anywhere; the HTTP server listens only after the start. Versions are ordered as text
(`ByText`), as the query does it.

### The client

- `ListPage`: a request may be answered, lost (and repeated, whatever its method, up to
  `Retries` times) or given up. Neither stops the server, which may work on such a try later
  (`ServeLate`). A change, once answered, loads again with the filter of the render it was clicked in. The engine and
  other clients change the table as well (`OthersChange`), among them the server when it works on a try of a request that has
  ended on the page. `excused` records what the page cannot know.
- `FlowBuilder`: the canvas is state of a mounted component; an effect fills it whenever
  the store gets another flow. `ValidateSubmit` is what the client makes of the wrapped
  answer of the server.
- `NodePalette`: the panel asks for the definition of the selected node's type and fills
  in the defaults that are missing, by the settings of the render that asked.
- `ScheduleForm`: a field of an expression is a number or a range or list that begins with one, and
  `Number` is `parseInt(field) || default`, so that 0 becomes the default. The builder has two effects; one writes the expression the choices mean,
  one reads that of the form. `Render` runs both in their order, as React does.
- `RealtimeClient` with `ExecutionDetails`: messages both ways in order, a connection that
  may be lost and is opened again, with requests for details beside it. The status of an execution
  changes any number of times between the values of `Statuses` (`StatusChanges`), as the engine writes RUNNING over
  FAILED when Bull repeats a job; `hadFailed` is history. The server of the socket is external: it is
  modelled from what the client sends and understands. `MaxChannel` bounds the messages under way in either direction.
- `LoadingState`: one flag, one reference to a timer, any number of calls of a page.

## 3. The checks

`tlc -workers 2 -config X.cfg M` runs a configuration X on the module M of the table.

| run | module | bounds | distinct states | shows |
|---|---|---|---|---|
| `FlowExecution_safety` | `MC_FlowExecution` | 2 nodes, both with rollback data, the second critical; 2 calls of any kind; failing calls; 2 attempts; 1 crash | 436 000 | `SuccessIsEarned`, `CancelNeverSucceeds`, `RollbackMissesAtMostInFlight`, `ImplementsLifecycle` |
| `FlowExecution_liveness` | `MC_FlowExecution` | 2 calls, no failing call, 2 crashes, of which Bull redelivers the job after the first only; fair | 103 000 | `CancelEndsRun`, `JobEndsOrWaits`, `RowSettles` |
| `MonitoredExecution` | `MC_MonitoredExecution` | 1 cancel or pause, failing calls, 2 attempts, 1 crash with its redelivery | 1 480 000 | `NodeCountsAgree`, `EveryStartIsCounted`, `DoneIsNotActive`, `VerdictIsLast` |
| `Scheduling_watcher` | `MC_Scheduling` | 2 schedules that are both due, 2 rounds, 1 update or delete of a schedule, 1 fault, times 0 to 1, 2 jobs, 2 rows, 1 attempt; fair rounds | 688 000 | `DuplicateHasACause`, `DueIsServed` |
| `Scheduling_calls` | `MC_Scheduling` | 1 schedule with its delayed job and 1 to create, 1 round, 2 users with 2 calls (create, enable, disable, retry, delete the flow), lists of one and of two ids, at most 2 rounds and calls at a time, 1 fault, times 0 to 1, 2 jobs, 2 rows, 1 worker, 1 attempt (2 of delayed jobs), a stalled job redelivered once | 3 570 000 | `PendingIsQueued`, `RunningHasAWorker`, `DisableLeavesOnlyRunJobs` |
| `NodeRunner` | `MC_NodeRunner` | 3 runs, two of one key; threshold 2, cool-down 0, 2 attempts to connect; fair bodies | 507 000 | `BreakerCounts`, `OrphanHasACause`, `RunHasItsEntry`, `HalfOpenSettles`, no deadlock |
| `Algorithms` | `MC_Algorithms` | 3 nodes, at most 3 connections over 2 pins, a plain and a dotted name of fields, lists of at most 2 items, at most 2 conditions, 2 executions, templates of at most 3 placeholders | 2 640 000 | `CyclesAreFound`, `OrderRespectsConnections`, `InputsComeFromSources`, `TransformationsAgree`, `ValidatedOperationsRun`, `TemplatesAreFilledIn`, `OnlyOneContextChanges` |
| `Services` | `MC_Services` | 2 users, 2 flow ids, versions up to 2; 2 starts, 1 failure, node versions "1.9.0" and "1.10.0" | 770 000 | `TableIsConsistent`, `VersionsOnlyCount`, `BuiltInsAreListed`, `RegisteredNodesSurvive`, `CompatibleIsExecutable` |
| `Client` | `MC_Client` | 2 requests, 1 repetition, 2 flows and drawings of at most 2 nodes, 2 node types, 7 typed expressions, 2 executions with 2 statuses, 1 reconnect, 4 timers | 3 220 000 | `RowsAreTheTables`, `ClickIsAppliedOnce`, `CanvasShowsTheFlow`, `UntouchedIsKept`, `DetailsAreCurrent`, `RetriedHadFailed`, `SettingsAreOfTheNode`, `LoadingIsTimed` |
| `FlowExecution_v_cancelled_stays` | `MC_FlowExecution` | 1 cancel | - | `CancelledStays` is violated (finding) |
| `FlowGraph_v_connected_config` | `MC_Algorithms` | 1 connection | - | `ConnectedNodesAreConfigured` is violated (finding) |
| `FlowBuilder_v_update` | `MC_Client` | those of `Client` | - | `SubmittedIsStored` is violated (finding) |

`MC_Algorithms`, `MC_Services` and `MC_Client` instantiate several components that share
nothing. Their next-state relation lets one component leave its initial state, chosen by the
first step, so that the state space is the sum of the components' and not their product.

**Why the bounds are enough.** The properties of a run relate one node to the one before it,
or one call to one run: two nodes give a critical one after an uncritical one and a rollback
stack with something beneath the node in flight; two calls give a cancel that meets a
cancel, a pause or a resume; a second attempt and a crash give a run that meets the
leavings of the run before it; one crash more than `StalledLimit` is a job that Bull gives up.
Two rounds are what it takes for one to overtake another, and two schedules make a snapshot that has a
rest when a round ends early. Both schedules are due at minute 1; a round that serves one then
writes a `nextRun` of 2, and a second service of the same time is what `DuplicateHasACause` is about. In
`Scheduling_calls` one fault is a crash at any step, a call that rejects after its row was made, or a job whose
FAILED write rejects, and the flow and its schedules may be deleted under a job that runs. A breaker with threshold 2 has a failure that does not open it and one that does, and a third run
meets it half open. Three nodes make a cycle that is not a loop of two, and a node that is reached on two ways.
Two versions are one update and one that meets it. On the side of the client two
requests can be answered in the wrong order, and one repetition is what it takes to
apply a click twice. The properties of most components are also proved without bounds
(section 4); in `Scheduling_watcher` the bounds on rows and jobs do end a run,
which `DueIsServed` says.

**Deadlock** is checked where a run cannot stop of itself, in `NodeRunner`. Everywhere else the
system does stop: an execution ends, the bounds on rows, minutes, calls and versions are used
up, a page waits for a user.

**Symmetry** is used in the runs without liveness: calls, schedules, callers and requests of the same kind are interchangeable.
`Initial` breaks the symmetry of the schedules where it distinguishes them.

**Fairness.** `FlowExecution` (`FairSpec`) assumes weak fairness of the step of the run and of each
call that has begun: the event loop of Node.js takes up every function whose awaited
operation has settled, and the operations settle, as a node's body has a timeout and a driver
answers or rejects. A waiting job is delivered in the end, as the engine has workers for its
queue. Nobody has to make a call, nothing has to fail, no process has to die. `Scheduling`
assumes weak fairness of each round of the watcher, as `setInterval` starts rounds for ever, and nothing of users
and workers. `NodeRunner` assumes it of the steps of each run and of each body.

**What the properties say.** A comment above each states it in full; here they are by what could
go wrong.

- *The row of an execution* is written by processor and calls without a look at what it says.
  Still, SUCCESS is written only by a run that settled every node without a critical failure
  (`SuccessIsEarned`), and never in a delivery in which a cancel was accepted
  (`CancelNeverSucceeds`). If nobody pauses and no call of the processor fails, the row becomes terminal for good
  through crashes, redelivery and cancels, unless a job that stalled once too often is given up by Bull (`GivenUpByBull`): then
  its row says RUNNING for ever (`RowSettles`). A job ends, or its run waits for
  a resume for ever (`JobEndsOrWaits`). A cancel during a node brings the run to the end of its loop (`CancelEndsRun`).
- *Rollback.* The cancel copies the stack while the run goes on pushing: it misses at most the
  node in flight (`RollbackMissesAtMostInFlight`).
- *Lifecycle.* `ImplementsLifecycle` is the refinement of `ExecutionLifecycle`: nodes start one by
  one, in order and only while the execution is RUNNING, CANCELLED is final within a run, and success is
  for a run that was not cancelled and gave every node its turn.
- *Monitoring.* The counters of an entry agree with the orchestrator's sets through retries,
  redelivery and cancels (`NodeCountsAgree`); every start has been counted once as success or
  failure but for the ones named (`EveryStartIsCounted`); what is done is not counted as active
  (`DoneIsNotActive`); a room that was told a verdict is not watching a run that goes on (`VerdictIsLast`).
- *Scheduling.* What is due is served (`DueIsServed`), and one due time twice by the watcher only if two rounds overlapped
  on the schedule, a round ended between the job and `updateLastRun`, or an update wrote back
  an older `nextRun` (`DuplicateHasACause`). A pending row has its job (`PendingIsQueued`), a running
  one a worker or a job that waits (`RunningHasAWorker`), exactly if it was not lost in one of the ways that `fate`
  names: a row of which the fate is still open is never without, and one that was lost stays without. A disable that nobody interferes with leaves nothing in the queue but jobs a worker
  had meanwhile (`DisableLeavesOnlyRunJobs`).
- *Runs of nodes.* The breaker is closed exactly below its threshold, in whatever order runs end
  (`BreakerCounts`); it does not stay half open (`HalfOpenSettles`); a body without its run was timed
  out or cancelled (`OrphanHasACause`); a run can be cancelled by its key unless it met another run of the key
  (`RunHasItsEntry`).
- *Algorithms.* A flow is refused for a cycle exactly if it has one; the order is complete and puts
  sources first; a node's inputs are what its sources answered; the data filter and the
  filter transformation agree on items where a name and the path it says have the same value (`SameReading`), and mapper and map transformation
  exactly there; an operation that was validated is
  carried out and its records are those it touched; templates are filled in; contexts are independent.
- *Services.* The checks of `FlowsService` hold of the table but for calls that overlapped in the
  ways named (`TableIsConsistent`); versions only count (`VersionsOnlyCount`). After a start without a failing query the
  built-in nodes are listed, whatever earlier starts left undone (`BuiltInsAreListed`); a user's node is lost only to
  the resynchronisation (`RegisteredNodesSurvive`); what the catalog calls compatible the validator of flows accepts
  (`CompatibleIsExecutable`).
- *Client.* A page at rest shows the rows of the table, but for the reasons named
  (`RowsAreTheTables`); a click is applied twice, however late, only if an error hid what became of a try (`ClickIsAppliedOnce`); an unedited
  canvas shows the flow (`CanvasShowsTheFlow`); the builder of cron expressions gives back what it was
  given exactly if it can mean it (`UntouchedIsKept`); the dialog shows the execution it is open for
  with the status it has, however often that changed (`DetailsAreCurrent`), and asks for a retry of what has failed at some time
  (`RetriedHadFailed`, of the step that asks: the execution may be running again by then); settings are of the node they are shown for
  (`SettingsAreOfTheNode`); a page does not load for ever (`LoadingIsTimed`).

**Findings.** Three runs expect a violation; each is a disagreement of the code with
its own tests or comments.

1. `CancelledStays`: `test/execution-e2e.spec.ts:545` expects a cancelled execution to be CANCELLED.
   The run then leaves its loop with `success = false`, and the processor writes FAILED
   over the row (`scheduler/flow-execution.processor.ts:146-148`).
2. `ConnectedNodesAreConfigured`: the flow of `test/execution-e2e.spec.ts:48-95` connects a data filter that has its
   conditions in its configuration, and expects SUCCESS. The configuration is merged only into inputs of
   nodes without connections (`execution/node-execution.manager.ts:124`, `:441`), so the
   filter is refused for want of `conditions`.
3. `SubmittedIsStored`: the server wraps every answer, `validateFlow` hands the wrapper on
   (`packages/scheduler-ui/src/services/flow-service.ts:78`), and the dialog throws on it
   before it sends the update of a flow that exists (`FlowSaveModal.tsx:92`).

**Mutants.** A definition `X_name` beside a definition `X` is `X` with a plausible bug: a guard
dropped, an entry not removed, a wrong source of a time, a lost await. No definition
uses it. Replacing the body of `X` by it makes TLC refute the property that
`PROJECT.json` names with it, in the same configuration: this shows that the property sees
the code, and that the bounds are large enough for it to see it.

## 4. The proofs

`tlapm M.tla` checks the module M. The proofs are for every value of the constants: any
number of nodes, calls, schedules, rounds, workers, jobs, rows, attempts and crashes, under
the named assumptions of the modules, which TLC evaluates in the runs. Most only say of the constants what they
are, and that a distinguished value is not in a set. Those that say more: the order of a flow lists every node once
(`NodesAssumption`), a cron expression is a list of fields and choices are numbers (`ExpressionsAssumption`),
the database orders every version that is ever stored (`CatalogAssumption`), the nodes of a flow are a list of its
nodes, in which one may be listed twice (`GraphAssumption`).

| module | theorems |
|---|---|
| `FlowExecutionProofs` | `TypeCorrect`, `SuccessEarned`, `CancelIsNoSuccess`, `RollbackComplete`, `RunImplementsLifecycle` |
| `SchedulingProofs` | `PendingRowsAreQueued`, `RunningRowsHaveAWorker` |
| `MonitoredExecutionProofs` | `CountsAgree`, `StartsAreCounted`, `DoneHasVerdict`, `VerdictComesLast` |
| `WatcherProofs` | `SchedulingTypes`, `DuplicatesHaveACause`, `DisablesLeaveOnlyRunJobs` |
| `NodeRunnerProofs` | `RunnerTypeCorrect`, `BreakerCountsFailures`, `HalfOpenFailureReopens`, `OrphansHaveACause`, `RunsKeepTheirEntry` |
| `ServicesProofs` | `TheTableIsConsistent`, `VersionsAreOnlyRaised` (`Flows`); `BuiltInsAlwaysListed`, `RegisteredNodesAreKept`, `CompatibleIsAlwaysExecutable` (`Catalog`) |
| `ClientProofs` | `ClickIsAlwaysAppliedOnce`, `RowsAreAlwaysTheTables`, `CanvasAlwaysShowsTheFlow`, `SettingsStayOfTheNode`, `OneCreateAtAnyTime`, `UntouchedIsAlwaysKept`, `DetailsStayCurrent`, `OnlyTheFailedAreRetried`, `LoadingIsAlwaysTimed` |
| `AlgorithmsProofs` | `CyclesAreAlwaysFound`, `OrderAlwaysRespectsConnections`, `InputsAlwaysComeFromSources` (`FlowGraph`); `TransformationsAlwaysAgree`, `ValidatedOperationsAlwaysRun` (`NodeData`); `TemplatesAreAlwaysFilledIn`, `OnlyOneContextEverChanges` (`ExecutionContexts`) |

Each theorem rests on an inductive invariant that says more than the property.

- **FlowExecution.** `TypeInv` adds to `TypeOK` where the loop can be: at a node of the order whenever
  it runs or waits. `RunInv` relates the loop to the entry: as long as the run is live, the
  settled nodes are those before its place and no critical one failed; a result "ok" is
  earned, and nothing but such a result puts SUCCESS in the row. Without it `SuccessIsEarned` is not
  inductive, as the step that writes SUCCESS does not look at the nodes. `CancelInv` says that the
  stack holds what there is to undo, and that what is left done and is not in the copy of a cancel
  is nothing while the run is in its loop, and one node at most after it. The
  refinement uses both: run by run, a step of the code is a step of the lifecycle or a stutter.
- **Scheduling.** `QueueInv` is the two properties with what makes them inductive. Rows and jobs are
  numbered as they are made (`RowPrefix`, `JobPrefix`), so that the free number is free and
  a new job overwrites none. A worker's row is that of its job, or one it has made, when that is gone
  (`WorkerInv`). What a round or a retry is about to add has been made (`AddInv`), and what a call
  removes has been in the queue (`TodoInv`). One job at most is at a row or will come to it (`OneJob`), and one round or
  call at most is about to add it (`OneAdder`): whoever loses it loses it for good. `KeptInv` is the two
  properties in one: the fate of a row that is not over is open exactly if somebody keeps it.
- **The watcher.** `TimesInv` of `WatcherProofs`: a time that was queued lies in the past; a schedule without
  an excuse is in one round at most; what that round will queue comes after all that was
  queued of the schedule; and so does its `nextRun`, unless the round has queued the job and not yet
  written the new one. Each excuse is where one of these would break: a second round starts on a
  schedule still in another's snapshot, a round ends between job and `updateLastRun`, an update writes what
  it read before the round wrote. The proof needs `TypeOK` of every step, to compare times.
- **A disable.** `DisableInv` of `WatcherProofs` says of every call marked as alone: it is a disable in one of its
  steps (`Disabling`); no other call, no retry and no round of the watcher has its schedules on its list (`Away`), so that
  nothing adds a job of them; and of the jobs in the queue that no worker has had since it began none is of a
  schedule it is through with, and those of the one it is at are still on its list of jobs to remove (`Swept`).
  Workers may take, throw and queue a job again between any two of these: hence the exception of the property.
- **NodeRunner.** `BreakerInv` adds to `BreakerCounts` that a run is under way only when the breaker
  was asked; `BodyInv` adds to `OrphanHasACause` that a run that validates has no body yet; `EntryInv` adds to
  `RunHasItsEntry` that two runs of one key that are both under way have met.
- **Monitoring.** `MonitorInv` relates the state of the listeners to that of the run at every step: how many starts
  of a node are open (`StartsInv`), that the counts are back at 0 before the first node of a delivery (`CountsInv`), that the
  verdict is in the entry from the end of `executeFlow` on (`DoneInv`), and that the start of a delivery takes
  back what the rooms were told (`ToldInv`). It is proved of each step with the events the
  step emits, on top of the invariants of `FlowExecutionProofs`.
- **Flows.** `FlowsInv` says of every call between its queries what it still knows of the table: the name it
  has found free is free, and only one call gives names (`NamingInv`); what an update was validated with is still there
  (`EditingInv`); a rollback is alone and saves what the table has (`RollbackInv`), each unless `overlaps` says
  otherwise.
- **Catalog.** `CatalogInv`: the types a start without a failure has come past are listed, and the resynchronisation takes one
  row of one type (`StartInv`); each start but the first loses one registered version at most (`LostInv`).
  The last is a count: the proof goes by the cardinality of what is lost.
- **The list page.** `SoundInv` says of every request that the server has worked on each of its tries
  once at most, and on one before the present only if an error hid what became of it. `TableInv` adds what a page without an
  excuse can rely on: the answer of a load, the rows shown and the answer of a creation are true to the table
  together with the rows that creations answered later will put in front (`LoadsInv`, `PageInv`, `NewsInv`), unless they
  are in `Doubt`, when a later load or a change that will load again is under way; and the server has worked in the
  order of the requests (`OrderInv`). `AloneInv` is what lets a load that met no other request end the excuse.
- **The flow builder.** `BuilderInv`: a flow the client has read is stored as it read it, or deleted.
- **The panel.** `PanelInv`: of a node that was never selected across another's request only its own definition is
  awaited, is shown unless one is awaited, and names every setting the panel has of it.
- **The schedule form.** `MakingInv`: the form's flag stands while a create is out. `UntouchedInv`: without a
  touch the choices are those that `ParseCronExpression` makes of the form's expression, so that what
  the two effects leave is decided by the expression alone; a case for each type of the builder shows that this is
  `Kept`. `CronTypeOK` makes the numbers numbers.
- **The details dialog.** `TruthInv`: nobody is told that an execution has failed that never had, by an answer, an update
  or what is shown as its own. `ListensInv`: only the execution the dialog is open for is listened to, and nothing is under way
  without a connection. `ShownInv`: as long as nothing excuses the dialog it waits for one execution only; the last update of it
  under way tells its present status (`Newest`); and what is shown, or answered and not passed by an update, is that status or
  such an update is still to come (`Told`), however often the status has changed in between.
- **The searches.** `SearchInv`: the calls under way are a path of the graph (`CallsInv`), what they have followed led to
  finished nodes, a finished node leads to finished nodes only (`ClosedInv`), and among the finished nodes no set leads
  round in a circle (`CyclesInv`), nor does one stand on the stack below a node it leads to (`OrderInv`). An edge back to the
  recursion stack closes a circle of calls (`CircleCloses`); when a call returns, its node cannot be on a circle, as all it leads
  to was finished before. A search that has ended has finished every node (`AllAreFinished`), and a circle would be one of finished
  nodes. The second search relies on the verdict of the first: without cycles an edge to a visited node leads to a finished one.
- **The loop over the nodes.** `LoopInv`: the nodes that ran are the first of the order. A node that runs fills no pin of one
  that ran before (`FedStays`), because the order puts sources first.
- **Data.** An answer is what its action computes of its task (`AnswerInv`); the rest is about the operators. Where one is
  a recursive function, its values are found by exhibiting a function that satisfies the recursion and showing that any two that do
  agree, by the least place where they would not (`SameSteps`): that is how `KeptNone` and `TemplateIsFilled` are proved.
  After k placeholders the first k places of a template are filled in, and the first occurrence of the next name is its own
  place (`FirstIsThere`): before it stand values, which are no names, and names without a value.
- **Contexts.** `PlacesInv`: every context has two maps of its own, so that a write to one is read by no other.
- **The loading hook.** `LoadingInv`: the timer known is that of a call that is out, and any other that of one overtaken.

**Only model-checked:** liveness (`CancelEndsRun`, `JobEndsOrWaits`, `RowSettles`, `DueIsServed`,
`HalfOpenSettles`), as the prover has neither fairness nor ENABLED. Every other property of a run that passes is also
a theorem.

## 5. Where code and documents part

What modelling brought up besides the findings, each modelled as the code does it.

Engine
- A cancel of a paused run leaves it in the wait for a resume, for ever.
- A failed run rolls nothing back; only a cancel does. The documents speak of rollback on failure.
- A node that answers `success: false` is logged as SUCCESS in its node execution.
- A run that ends FAILED is not retried: the job completes, and only a throw makes Bull try again;
  `shouldRetryJob` of the processor (253) has no effect on the queue.
- A success is counted twice in the totals of the metrics, by the processor's event and the
  orchestrator's; `recordsProcessed` is read from a field that no event has.
- `validateInputs` is looked up on the registered type and never found.
- Versions of nodes are ordered as text by the catalog's query (`catalog/catalog.service.ts:587`).
- `rollbackToVersion` only counts the version up, and nothing else does: a new flow has version 1 and accepts
  no version above 0. `forceResync` deletes a user's version of `postgresql-query`.
- Dynamic variables always resolve to undefined; the engine never calls `cleanupContext`;
  `env.EXECUTION_ID` of a child context is its parent's.
- Two of the transformations suggested for connections always throw: `first`, unknown to `reduce`, and
  `map` on an object.
- An enabled schedule is queued as a delayed job and found by the watcher too: one due time runs twice.

Client
- An import while a flow is open empties the canvas; `/flow-builder/:id` asks for its flow again
  and again; `isDirty` is true after the first render; names and categories of nodes are lost
  by saving.
- The server has no route for `POST /scheduler/executions` nor for the cancel of an execution;
  the list of flows reads `response.total`, which no answer has; UI and gateway speak different
  protocols on the socket.
- `useLoadingState`: a change does not await the reload it starts, so the spinner stops at once and the
  change's timer reports "Operation timed out" 30 s later. No page throws from the body it hands to the hook, so its error
  is never set. `cancelRequests` aborts a controller no request uses.
- The reload after a change uses the filter of the render the click was made in.
- The properties panel asks which defaults are missing of the settings of the render that asked, and
  takes a late definition for the type of the selected node.
- The schedule form's default `0 9 * * 1-5` is refused by its own validation; opening the
  builder on it and taking the result gives Mondays only; hour 0, Sunday and the month are lost on the way.
- The retry button of the details dialog is not disabled while loading, and goes by the status of the
  execution shown before. Subscriptions are not sent again after a reconnect.

## 6. Not modelled

- **Within modelled parts.** Two cancels of one execution that both roll back (`cmd` calls are checked for their effect on the
  row, not for a node that is rolled back twice); the deletion by key of the entry of a newer
  attempt (`execution-orchestrator.service.ts:209`); a worker that is alive but stalled;
  the listeners a run leaves on the abort controller; the cap of the history of metrics; the loading of log lines in the
  details dialog. The hazards in `PROJECT.json` that no property covers carry a note.
- **External.** Bull, PostgreSQL, MongoDB, React's scheduler and socket.io are modelled from how the code
  uses them: at-least-once delivery, atomic queries, effects in order, ordered messages
  on one connection.
- **Parts left out.** `SchedulerStore` and `BulkOperationsPanel` (nothing imports them);
  the node documentation of the UI (static text); layout, formatting and translations; DTOs, guards,
  filters, interceptors other than `TransformInterceptor`, health checks, configuration, Swagger and
  scripts (no state); connections of the gateway beyond its rooms; the legacy log streaming; network and
  authentication.
- **Limits.** Liveness is not proved (section 4). Data is abstract: an item has a value, an object or nothing at each place that a name of a field can mean, a message
  is its kind, its execution and a status.
