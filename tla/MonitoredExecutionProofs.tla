---------------------- MODULE MonitoredExecutionProofs ----------------------
(***************************************************************************)
(* Proofs about MonitoredExecution: what monitoring and the rooms of the   *)
(* gateway show of an execution, for every flow, any number of calls,      *)
(* retries and crashes.  They rest on the invariants of the execution.     *)
(***************************************************************************)
EXTENDS MonitoredExecution, FlowExecutionProofs, FiniteSetTheorems

-----------------------------------------------------------------------------
(***************************************************************************)
(* The listeners, event by event.                                          *)
(***************************************************************************)

EntryType == [status : {"none", "running", "completed", "failed"},
              completedNodes : Nat, failedNodes : Nat]

FlowType == [executionCount : Nat, successCount : Nat, failureCount : Nat]

MetricsType ==
  [entry : EntryType,
   totalExecutions : Nat, successfulExecutions : Nat, failedExecutions : Nat,
   nodeExecutions : [Nodes -> Nat], nodeSuccesses : [Nodes -> Nat],
   nodeFailures : [Nodes -> Nat],
   flow : FlowType]

ToldType == [RG!Rooms -> {"none", "running", "paused", "cancelled", "success", "failed"}]

MonitorTypeOK == metrics \in MetricsType /\ told \in ToldType

\* What a step that emits none, one, two or three events makes of both.
LEMMA HearsNothing ==
  ASSUME Listen, bus' = <<>>
  PROVE  metrics' = metrics /\ told' = told
BY DEF Listen, Taken

LEMMA HearsOne ==
  ASSUME NEW a, Listen, bus' = <<a>>
  PROVE  metrics' = MS!Collect(metrics, a) /\ told' = RG!Broadcast(told, a)
BY DEF Listen, Taken

LEMMA HearsTwo ==
  ASSUME NEW a, NEW b, Listen, Len(bus') = 2, bus'[1] = a, bus'[2] = b
  PROVE  /\ metrics' = MS!Collect(MS!Collect(metrics, a), b)
         /\ told' = RG!Broadcast(RG!Broadcast(told, a), b)
BY DEF Listen, Taken

LEMMA HearsThree ==
  ASSUME NEW a, NEW b, NEW c, Listen, Len(bus') = 3,
         bus'[1] = a, bus'[2] = b, bus'[3] = c
  PROVE  /\ metrics' = MS!Collect(MS!Collect(MS!Collect(metrics, a), b), c)
         /\ told' = RG!Broadcast(RG!Broadcast(RG!Broadcast(told, a), b), c)
BY DEF Listen, Taken

\* An entry, and a total, that are replaced.
NodeCountersKept(k, m) ==
  /\ k.nodeExecutions = m.nodeExecutions
  /\ k.nodeSuccesses = m.nodeSuccesses
  /\ k.nodeFailures = m.nodeFailures

LEMMA EntryReplaced ==
  ASSUME NEW m \in MetricsType, NEW e \in EntryType, NEW t \in Nat
  PROVE  /\ LET k == [m EXCEPT !.entry = e, !.successfulExecutions = t]
            IN k \in MetricsType /\ k.entry = e /\ NodeCountersKept(k, m)
         /\ LET k == [m EXCEPT !.entry = e, !.failedExecutions = t]
            IN k \in MetricsType /\ k.entry = e /\ NodeCountersKept(k, m)
<1>1. LET k == [m EXCEPT !.entry = e, !.successfulExecutions = t]
      IN k \in MetricsType /\ k.entry = e /\ NodeCountersKept(k, m)
  BY DEF MetricsType, NodeCountersKept
<1>2. LET k == [m EXCEPT !.entry = e, !.failedExecutions = t]
      IN k \in MetricsType /\ k.entry = e /\ NodeCountersKept(k, m)
  BY DEF MetricsType, NodeCountersKept
<1> QED BY <1>1, <1>2

\* The counters by flow leave the others alone.
LEMMA UpdateFlowType ==
  ASSUME NEW m \in MetricsType
  PROVE  LET k == MS!UpdateFlowMetrics(m)
         IN k \in MetricsType /\ k.entry = m.entry /\ NodeCountersKept(k, m)
<1> DEFINE a == m.flow.executionCount + 1
           b == IF m.entry.status = "completed" THEN m.flow.successCount + 1
                ELSE m.flow.successCount
           c == IF m.entry.status = "failed" THEN m.flow.failureCount + 1
                ELSE m.flow.failureCount
           f == [m.flow EXCEPT !.executionCount = a, !.successCount = b, !.failureCount = c]
<1>1. m.flow \in FlowType
  BY DEF MetricsType
<1>2. a \in Nat /\ b \in Nat /\ c \in Nat
  BY <1>1 DEF FlowType
<1>3. MS!UpdateFlowMetrics(m) = [m EXCEPT !.flow = f]
  BY <1>1 DEF MetricsType, FlowType, MS!UpdateFlowMetrics
<1> HIDE DEF a, b, c
<1>4. f \in FlowType
  BY <1>1, <1>2 DEF FlowType
<1> HIDE DEF f
<1> QED BY <1>3, <1>4 DEF MetricsType, NodeCountersKept

\* What the counters of the execution and of its nodes are after an event.
LEMMA CollectStarted ==
  ASSUME NEW m \in MetricsType
  PROVE  LET k == MS!Collect(m, ExecutionEvent("execution.started"))
         IN /\ k \in MetricsType /\ NodeCountersKept(k, m)
            /\ k.entry = [status |-> "running", completedNodes |-> 0, failedNodes |-> 0]
<1> DEFINE begun == [status |-> "running", completedNodes |-> 0, failedNodes |-> 0]
           t == m.totalExecutions + 1
<1>1. [MS!NoEntry EXCEPT !.status = "running"] = begun
  BY DEF MS!NoEntry
<1>2. MS!Collect(m, ExecutionEvent("execution.started"))
        = [m EXCEPT !.entry = begun, !.totalExecutions = t]
  BY <1>1 DEF MS!Collect, ExecutionEvent, MS!OnExecutionStarted
<1>3. begun \in EntryType /\ t \in Nat
  BY DEF EntryType, MetricsType
<1> HIDE DEF begun, t
<1> DEFINE k == [m EXCEPT !.entry = begun, !.totalExecutions = t]
<1>4. k \in MetricsType /\ k.entry = begun /\ NodeCountersKept(k, m)
  BY <1>3 DEF MetricsType, NodeCountersKept
<1>5. k = MS!Collect(m, ExecutionEvent("execution.started"))
  BY <1>2
<1> HIDE DEF k
<1> QED BY <1>4, <1>5 DEF begun

LEMMA CollectEnded ==
  ASSUME NEW m \in MetricsType, NEW type \in {"execution.completed", "execution.failed"}
  PROVE  LET k == MS!Collect(m, ExecutionEvent(type))
         IN /\ k \in MetricsType /\ NodeCountersKept(k, m)
            /\ MS!Present(k) <=> MS!Present(m)
            /\ MS!Present(m) => k.entry.status = IF type = "execution.failed" THEN "failed"
                                                 ELSE "completed"
            /\ k.entry.completedNodes = m.entry.completedNodes
            /\ k.entry.failedNodes = m.entry.failedNodes
<1> DEFINE k == MS!Collect(m, ExecutionEvent(type))
<1>1. CASE ~MS!Present(m)
  <2>1. k = m
    BY <1>1 DEF ExecutionEvent, MS!Collect, MS!OnExecutionCompleted, MS!OnExecutionFailed
  <2> QED BY <1>1, <2>1 DEF NodeCountersKept
<1>2. CASE MS!Present(m) /\ type = "execution.completed"
  <2> DEFINE entry == [m.entry EXCEPT !.status = "completed"]
             t == m.successfulExecutions + 1
             ended == [m EXCEPT !.entry = entry, !.successfulExecutions = t]
  <2>1. /\ entry \in EntryType /\ entry.status = "completed" /\ t \in Nat
        /\ entry.completedNodes = m.entry.completedNodes
        /\ entry.failedNodes = m.entry.failedNodes
    BY DEF MetricsType, EntryType
  <2>2. k = MS!UpdateFlowMetrics(ended)
    BY <1>2 DEF ExecutionEvent, MS!Collect, MS!OnExecutionCompleted
  <2> HIDE DEF entry, t
  <2>3. ended \in MetricsType /\ ended.entry = entry /\ NodeCountersKept(ended, m)
    BY <2>1, EntryReplaced
  <2> HIDE DEF ended, k
  <2>4. k \in MetricsType /\ k.entry = entry /\ NodeCountersKept(k, m)
    BY <2>2, <2>3, UpdateFlowType DEF NodeCountersKept
  <2> QED BY <1>2, <2>1, <2>4 DEF MS!Present, k
<1>3. CASE MS!Present(m) /\ type = "execution.failed"
  <2> DEFINE entry == [m.entry EXCEPT !.status = "failed"]
             t == m.failedExecutions + 1
             ended == [m EXCEPT !.entry = entry, !.failedExecutions = t]
  <2>1. /\ entry \in EntryType /\ entry.status = "failed" /\ t \in Nat
        /\ entry.completedNodes = m.entry.completedNodes
        /\ entry.failedNodes = m.entry.failedNodes
    BY DEF MetricsType, EntryType
  <2>2. k = MS!UpdateFlowMetrics(ended)
    BY <1>3 DEF ExecutionEvent, MS!Collect, MS!OnExecutionFailed
  <2> HIDE DEF entry, t
  <2>3. ended \in MetricsType /\ ended.entry = entry /\ NodeCountersKept(ended, m)
    BY <2>1, EntryReplaced
  <2> HIDE DEF ended, k
  <2>4. k \in MetricsType /\ k.entry = entry /\ NodeCountersKept(k, m)
    BY <2>2, <2>3, UpdateFlowType DEF NodeCountersKept
  <2> QED BY <1>3, <2>1, <2>4 DEF MS!Present, k
<1> QED BY <1>1, <1>2, <1>3

LEMMA CollectNodeStarted ==
  ASSUME NEW m \in MetricsType, NEW n \in Nodes
  PROVE  LET k == MS!Collect(m, NodeEvent("execution.node.started", n, "none"))
         IN /\ k \in MetricsType
            /\ k.entry = m.entry
            /\ k.nodeExecutions = [m.nodeExecutions EXCEPT ![n] = @ + 1]
            /\ k.nodeSuccesses = m.nodeSuccesses
            /\ k.nodeFailures = m.nodeFailures
BY DEF MetricsType, NodeEvent, MS!Collect, MS!OnNodeStarted

LEMMA CollectNodeSucceeded ==
  ASSUME NEW m \in MetricsType, NEW n \in Nodes
  PROVE  LET k == MS!Collect(m, NodeEvent("execution.node.completed", n, "success"))
         IN /\ k \in MetricsType
            /\ k.entry.status = m.entry.status
            /\ MS!Present(m) => k.entry.completedNodes = m.entry.completedNodes + 1
            /\ k.entry.failedNodes = m.entry.failedNodes
            /\ k.nodeExecutions = m.nodeExecutions
            /\ k.nodeSuccesses = [m.nodeSuccesses EXCEPT ![n] = @ + 1]
            /\ k.nodeFailures = m.nodeFailures
BY DEF MetricsType, EntryType, NodeEvent, MS!Collect, MS!OnNodeCompleted, MS!Present

LEMMA CollectNodeFailed ==
  ASSUME NEW m \in MetricsType, NEW n \in Nodes
  PROVE  LET k == MS!Collect(m, NodeEvent("execution.node.completed", n, "failed"))
         IN /\ k \in MetricsType
            /\ k.entry.status = m.entry.status
            /\ MS!Present(m) => k.entry.failedNodes = m.entry.failedNodes + 1
            /\ k.entry.completedNodes = m.entry.completedNodes
            /\ k.nodeExecutions = m.nodeExecutions
            /\ k.nodeFailures = [m.nodeFailures EXCEPT ![n] = @ + 1]
            /\ k.nodeSuccesses = m.nodeSuccesses
BY DEF MetricsType, EntryType, NodeEvent, MS!Collect, MS!OnNodeCompleted, MS!Present

\* The service has no handler for the rest.
LEMMA CollectOther ==
  ASSUME NEW m, NEW e,
         e.type \in {"execution.cancelled", "execution.paused", "execution.resumed",
                     "execution.node.failed"}
  PROVE  MS!Collect(m, e) = m
BY DEF MS!Collect

\* What a room is told by an event.  Only the end of an execution is a verdict.
Verdicts == {"success", "failed"}

LEMMA BroadcastType ==
  ASSUME NEW t \in ToldType, NEW e
  PROVE  /\ RG!Broadcast(t, e) \in ToldType
         /\ e.type \notin {"execution.completed", "execution.failed"} =>
              \A room \in RG!Rooms : t[room] \notin Verdicts => RG!Broadcast(t, e)[room] \notin Verdicts
         /\ e.type = "execution.started" =>
              \A room \in RG!Rooms : RG!Broadcast(t, e)[room] = "running"
BY DEF ToldType, Verdicts, RG!Broadcast, RG!BroadcastStatus, RG!Hears, RG!Rooms

-----------------------------------------------------------------------------
(***************************************************************************)
(* The invariant.                                                          *)
(***************************************************************************)

Loaded == {"queued", "begun", "marked"}

\* Starts of n that nobody counted as ended, but for the one in flight.
Open(n) ==
  metrics.nodeExecutions[n] - metrics.nodeSuccesses[n] - metrics.nodeFailures[n]
    - (IF n \in CurrentNode THEN 1 ELSE 0)

\* A retry takes over the start that the delivery before it left behind.
StartsInv ==
  \A n \in Nodes :
    /\ 0 <= Open(n)
    /\ Open(n) <= retries + (IF n \in Uncollected /\ pc \notin Loaded THEN 1 ELSE 0)

\* execution.started has set the counts back before the first node is run.
CountsInv ==
  /\ NodeCountsAgree
  /\ pc = "marked" /\ MS!Present(metrics) =>
       metrics.entry.completedNodes = 0 /\ metrics.entry.failedNodes = 0
  /\ pc \in LivePcs => outcome # "uncollected"

\* The verdict is in the entry from the end of executeFlow on.
DoneInv ==
  pc \in {"finishing", "storing", "done"} /\ MS!Present(metrics) =>
    metrics.entry.status = IF result = "error" THEN "failed" ELSE "completed"

\* execution.started takes back the verdict of the delivery before.
ToldInv ==
  pc \in LivePcs \union {"marked"} => \A room \in RG!Rooms : told[room] \notin Verdicts

MonitorInv == MonitorTypeOK /\ StartsInv /\ CountsInv /\ DoneInv /\ ToldInv

\* The nodes are finitely many, and so are those settled; one more counts for one.
LEMMA NodesFinite ==
  /\ IsFiniteSet(Nodes)
  /\ \A S \in SUBSET Nodes :
       /\ Cardinality(S) \in Nat
       /\ \A n \in Nodes : n \notin S => Cardinality(S \union {n}) = Cardinality(S) + 1
<1>1. IsFiniteSet(1..Len(Order))
  BY OrderedNode, FS_Interval
<1>2. Order \in Surjection(1..Len(Order), Nodes)
  BY NodesAssumption, OrderedNode DEF Surjection
<1>3. IsFiniteSet(Nodes)
  BY <1>1, <1>2, FS_Surjection
<1>4. \A S \in SUBSET Nodes : IsFiniteSet(S)
  BY <1>3, FS_Subset
<1> QED BY <1>3, <1>4, FS_CardinalityType, FS_AddElement

LEMMA MonitorInitInv == MonitorInit => MonitorInv
<1> SUFFICES ASSUME MonitorInit PROVE MonitorInv
  OBVIOUS
<1>0. /\ pc = "queued" /\ outcome = "none" /\ retries = 0
      /\ metrics = MS!NoMetrics /\ told = NothingTold
  BY DEF MonitorInit, Init
<1>1. MonitorTypeOK
  BY <1>0 DEF MonitorTypeOK, MetricsType, EntryType, FlowType, ToldType, MS!NoMetrics,
              MS!NoEntry, NothingTold
<1>2. StartsInv
  <2>1. CurrentNode = {} /\ Uncollected = {}
    BY <1>0 DEF CurrentNode, NodePcs, Uncollected
  <2>2. ASSUME NEW n \in Nodes
        PROVE  /\ metrics.nodeExecutions[n] = 0 /\ metrics.nodeSuccesses[n] = 0
               /\ metrics.nodeFailures[n] = 0
    BY <1>0 DEF MS!NoMetrics
  <2>3. ASSUME NEW n \in Nodes PROVE Open(n) = 0
    BY <2>1, <2>2 DEF Open
  <2>4. ASSUME NEW n \in Nodes PROVE 0 <= Open(n) /\ Open(n) <= retries + 0
    BY <1>0, <2>3
  <2> QED BY <2>1, <2>4 DEF StartsInv
<1>3. CountsInv /\ DoneInv /\ ToldInv
  BY <1>0 DEF CountsInv, NodeCountsAgree, Here, LivePcs, NodePcs, DoneInv, ToldInv
<1> QED BY <1>1, <1>2, <1>3 DEF MonitorInv

\* A step without an event that counts, in which the run stays where it is or goes on without
\* settling a node.
LEMMA NothingCounted ==
  ASSUME TypeInv, MonitorInv, UNCHANGED <<metrics, retries, completed, failed, result, idx>>,
         told' \in ToldType,
         \A room \in RG!Rooms : told[room] \notin Verdicts => told'[room] \notin Verdicts,
         \/ UNCHANGED <<pc, outcome>>
         \/ pc \in NodePcs /\ pc' \in NodePcs /\ outcome' # "uncollected"
         \/ pc \in {"finishing", "storing"} /\ pc' \in {"storing", "done"} /\ outcome' = outcome
         \/ pc \notin LivePcs /\ pc' = "failing" /\ outcome' = outcome
         \/ pc = "queued" /\ pc' = "begun" /\ outcome' = outcome
  PROVE  MonitorInv'
<1>1. MonitorTypeOK'
  BY DEF MonitorInv, MonitorTypeOK
<1>2. StartsInv'
  <2>1. CurrentNode' = CurrentNode
    BY DEF CurrentNode, NodePcs, LivePcs
  <2>2. ASSUME NEW n \in Nodes PROVE Open(n)' = Open(n)
    BY <2>1 DEF Open
  <2>3. ASSUME NEW n \in Nodes, n \in Uncollected, pc \notin Loaded
        PROVE  n \in Uncollected' /\ pc' \notin Loaded
    BY <2>3 DEF Uncollected, Loaded, NodePcs, LivePcs, MonitorInv, CountsInv
  <2>4. ASSUME NEW n \in Nodes
        PROVE  Open(n) \in Int /\ retries \in Nat
    BY DEF Open, MonitorInv, MonitorTypeOK, MetricsType, TypeInv, TypeOK
  <2> HIDE DEF Open
  <2> QED BY <2>2, <2>3, <2>4 DEF MonitorInv, StartsInv
<1>3. CountsInv'
  BY DEF MonitorInv, CountsInv, NodeCountsAgree, Here, LivePcs, NodePcs, Uncollected
<1>4. DoneInv' /\ ToldInv'
  BY DEF MonitorInv, DoneInv, ToldInv, LivePcs, NodePcs
<1> QED BY <1>1, <1>2, <1>3, <1>4 DEF MonitorInv

\* Between two turns of the loop m counts every start as ended, but for those left
\* behind, and the nodes that will be settled.
Between(m, t) ==
  /\ m \in MetricsType /\ t \in ToldType
  /\ \A n \in Nodes :
       LET open == m.nodeExecutions[n] - m.nodeSuccesses[n] - m.nodeFailures[n]
       IN 0 <= open /\ open <= retries + (IF n \in Uncollected' THEN 1 ELSE 0)
  /\ MS!Present(m) => /\ m.entry.completedNodes = Cardinality(completed')
                      /\ m.entry.failedNodes = Cardinality(failed' \ Uncollected')
  /\ \A room \in RG!Rooms : t[room] \notin Verdicts

\* What the listeners make of the last event of the loop's head, or of none.
HearsLast(m, t, emitted) ==
  /\ bus' = emitted => metrics' = m /\ told' = t
  /\ \A e : bus' = emitted \o <<e>> =>
       metrics' = MS!Collect(m, e) /\ told' = RG!Broadcast(t, e)

\* The end of the run: its verdict is counted and told.
LEMMA RunEndsMonitor ==
  ASSUME TypeInv, TypeInv', NEW m, NEW t, Between(m, t), retries' = retries, pc' = "finishing",
         NEW type \in {"execution.completed", "execution.failed"},
         metrics' = MS!Collect(m, ExecutionEvent(type)),
         told' = RG!Broadcast(t, ExecutionEvent(type)),
         result' = "error" <=> type = "execution.failed"
  PROVE  MonitorInv'
<1>1. MonitorTypeOK'
  BY CollectEnded, BroadcastType DEF Between, MonitorTypeOK
<1>2. /\ NodeCountersKept(metrics', m)
      /\ MS!Present(metrics') <=> MS!Present(m)
      /\ MS!Present(m) => metrics'.entry.status = IF type = "execution.failed" THEN "failed"
                                                 ELSE "completed"
      /\ metrics'.entry.completedNodes = m.entry.completedNodes
      /\ metrics'.entry.failedNodes = m.entry.failedNodes
  BY CollectEnded DEF Between
<1>3. StartsInv'
  <2>1. CurrentNode' = {}
    BY DEF CurrentNode, NodePcs
  <2>2. ASSUME NEW k \in Nodes
        PROVE  Open(k)' = m.nodeExecutions[k] - m.nodeSuccesses[k] - m.nodeFailures[k]
    BY <1>2, <2>1 DEF Open, NodeCountersKept, Between, MetricsType
  <2> QED BY <2>2 DEF Between, StartsInv, Loaded
<1>4. CountsInv'
  BY <1>2 DEF Between, CountsInv, NodeCountsAgree, LivePcs, NodePcs
<1>5. DoneInv' /\ ToldInv'
  BY <1>2 DEF DoneInv, ToldInv, LivePcs, NodePcs
<1> QED BY <1>1, <1>3, <1>4, <1>5 DEF MonitorInv

\* The start of a node: it is the one in flight.
LEMMA NodeStartsMonitor ==
  ASSUME TypeInv, TypeInv', NEW m, NEW t, Between(m, t), retries' = retries,
         pc' = "checking", outcome' # "uncollected", NEW n \in Nodes, n = Order[idx'],
         LET e == NodeEvent("execution.node.started", n, "none")
         IN metrics' = MS!Collect(m, e) /\ told' = RG!Broadcast(t, e)
  PROVE  MonitorInv'
<1> DEFINE e == NodeEvent("execution.node.started", n, "none")
<1>0. m \in MetricsType /\ t \in ToldType
  BY DEF Between
<1>1. /\ metrics' \in MetricsType /\ metrics'.entry = m.entry
      /\ metrics'.nodeExecutions = [m.nodeExecutions EXCEPT ![n] = @ + 1]
      /\ metrics'.nodeSuccesses = m.nodeSuccesses
      /\ metrics'.nodeFailures = m.nodeFailures
  BY <1>0, CollectNodeStarted
<1>2. told' \in ToldType /\ \A room \in RG!Rooms : told'[room] \notin Verdicts
  <2>1. e.type = "execution.node.started"
    BY DEF NodeEvent
  <2> QED BY <1>0, <2>1, BroadcastType DEF Between
<1>3. StartsInv'
  <2>1. CurrentNode' = {n} /\ Uncollected' = {}
    BY DEF CurrentNode, NodePcs, Uncollected
  <2>2. ASSUME NEW k \in Nodes
        PROVE  Open(k)' = m.nodeExecutions[k] - m.nodeSuccesses[k] - m.nodeFailures[k]
    BY <1>0, <1>1, <2>1 DEF Open, MetricsType
  <2> QED BY <2>1, <2>2 DEF Between, StartsInv
<1>4. CountsInv'
  BY <1>1 DEF Between, CountsInv, NodeCountsAgree, MS!Present
<1>5. DoneInv' /\ ToldInv'
  BY <1>2 DEF DoneInv, ToldInv
<1> QED BY <1>1, <1>2, <1>3, <1>4, <1>5 DEF MonitorInv, MonitorTypeOK

LEMMA LoopHeadMonitor ==
  ASSUME TypeInv, TypeInv', NEW m, NEW t, Between(m, t), retries' = retries,
         outcome' # "uncollected", NEW i \in 1..(Len(Order) + 1), NEW emitted,
         LoopHead(i, emitted), HearsLast(m, t, emitted), result = "none"
  PROVE  MonitorInv'
<1>1. CASE ReturnResult(i, emitted)
  BY <1>1, RunEndsMonitor DEF ReturnResult, LoopResult, HearsLast
<1>2. CASE WaitAt(i, emitted)
  <2>1. metrics' = m /\ told' = t /\ pc' = "waiting"
    BY <1>2 DEF WaitAt, HearsLast
  <2>2. CurrentNode' = {} /\ Uncollected' = {}
    BY <2>1 DEF CurrentNode, NodePcs, Uncollected
  <2>3. StartsInv'
    BY <2>1, <2>2 DEF Between, StartsInv, Open, MetricsType
  <2>4. MonitorTypeOK' /\ CountsInv' /\ DoneInv' /\ ToldInv'
    BY <2>1 DEF Between, MonitorTypeOK, CountsInv, NodeCountsAgree, DoneInv, ToldInv
  <2> QED BY <2>3, <2>4 DEF MonitorInv
<1>3. CASE StartNode(i, emitted) /\ i <= Len(Order)
  <2>1. Order[i] \in Nodes /\ i = idx' /\ pc' = "checking"
    BY <1>3, OrderedNode DEF StartNode
  <2>2. LET e == NodeEvent("execution.node.started", Order[i], "none")
        IN metrics' = MS!Collect(m, e) /\ told' = RG!Broadcast(t, e)
    BY <1>3 DEF StartNode, HearsLast
  <2> QED BY <2>1, <2>2, NodeStartsMonitor
<1> QED BY <1>1, <1>2, <1>3 DEF LoopHead

LEMMA ReturnErrorMonitor ==
  ASSUME TypeInv, TypeInv', NEW m, NEW t, Between(m, t), retries' = retries,
         NEW emitted, ReturnError(emitted), HearsLast(m, t, emitted)
  PROVE  MonitorInv'
BY RunEndsMonitor DEF ReturnError, HearsLast

LEMMA OneMoreEvent ==
  ASSUME NEW S, NEW s \in Seq(S), NEW e \in S
  PROVE  /\ Len(s \o <<e>>) = Len(s) + 1 /\ (s \o <<e>>)[Len(s) + 1] = e
         /\ \A i \in 1..Len(s) : (s \o <<e>>)[i] = s[i]
<1>1. Len(s \o <<e>>) = Len(s) + 1
  OBVIOUS
<1>2. (s \o <<e>>)[Len(s) + 1] = e
  OBVIOUS
<1>3. \A i \in 1..Len(s) : (s \o <<e>>)[i] = s[i]
  OBVIOUS
<1> QED BY <1>1, <1>2, <1>3

\* The listeners after the events that a step emits before the last one.
LEMMA HearsBefore ==
  ASSUME Listen
  PROVE  /\ HearsLast(metrics, told, <<>>)
         /\ \A a : HearsLast(MS!Collect(metrics, a), RG!Broadcast(told, a), <<a>>)
         /\ \A a, b : HearsLast(MS!Collect(MS!Collect(metrics, a), b),
                              RG!Broadcast(RG!Broadcast(told, a), b), <<a>> \o <<b>>)
<1>1. HearsLast(metrics, told, <<>>)
  <2>1. \A e : <<>> \o <<e>> = <<e>>
    OBVIOUS
  <2> QED BY <2>1, HearsNothing, HearsOne DEF HearsLast
<1>2. ASSUME NEW a
      PROVE  HearsLast(MS!Collect(metrics, a), RG!Broadcast(told, a), <<a>>)
  <2>1. ASSUME NEW e
        PROVE  LET es == <<a>> \o <<e>> IN Len(es) = 2 /\ es[1] = a /\ es[2] = e
    <3>1. <<a>> \in Seq({a, e}) /\ <<e>> \in Seq({a, e})
      OBVIOUS
    <3> QED BY <3>1
  <2>2. bus' = <<a>> => metrics' = MS!Collect(metrics, a) /\ told' = RG!Broadcast(told, a)
    BY HearsOne
  <2>3. ASSUME NEW e, bus' = <<a>> \o <<e>>
        PROVE  /\ metrics' = MS!Collect(MS!Collect(metrics, a), e)
               /\ told' = RG!Broadcast(RG!Broadcast(told, a), e)
    BY <2>1, <2>3, HearsTwo
  <2> QED BY <2>2, <2>3 DEF HearsLast
<1>3. ASSUME NEW a, NEW b
      PROVE  HearsLast(MS!Collect(MS!Collect(metrics, a), b),
                       RG!Broadcast(RG!Broadcast(told, a), b), <<a>> \o <<b>>)
  <2>1. ASSUME NEW e
        PROVE  LET es == (<<a>> \o <<b>>) \o <<e>>
               IN Len(es) = 3 /\ es[1] = a /\ es[2] = b /\ es[3] = e
    <3> DEFINE S == {a, b, e}
               ab == <<a>> \o <<b>>
    <3>1. <<a>> \in Seq(S) /\ <<b>> \in Seq(S) /\ <<e>> \in Seq(S)
      OBVIOUS
    <3>2. ab \in Seq(S)
      BY <3>1
    <3>6. Len(ab) = 2 /\ ab[1] = a /\ ab[2] = b
      BY <3>1
    <3> HIDE DEF ab, S
    <3> DEFINE es == ab \o <<e>>
    <3>3. e \in S
      BY DEF S
    <3>4. /\ Len(es) = Len(ab) + 1 /\ es[Len(ab) + 1] = e
          /\ \A i \in 1..Len(ab) : es[i] = ab[i]
      BY <3>2, <3>3, OneMoreEvent
    <3> HIDE DEF es
    <3>5. Len(es) = 3 /\ es[1] = a /\ es[2] = b /\ es[3] = e
      BY <3>4, <3>6
    <3> QED BY <3>5 DEF es, ab
  <2>2. bus' = <<a>> \o <<b>> => /\ metrics' = MS!Collect(MS!Collect(metrics, a), b)
                                 /\ told' = RG!Broadcast(RG!Broadcast(told, a), b)
    <3>1. <<a>> \in Seq({a, b}) /\ <<b>> \in Seq({a, b})
      OBVIOUS
    <3>2. LET es == <<a>> \o <<b>> IN Len(es) = 2 /\ es[1] = a /\ es[2] = b
      BY <3>1
    <3> QED BY <3>2, HearsTwo
  <2>3. ASSUME NEW e, bus' = (<<a>> \o <<b>>) \o <<e>>
        PROVE  /\ metrics' = MS!Collect(MS!Collect(MS!Collect(metrics, a), b), e)
               /\ told' = RG!Broadcast(RG!Broadcast(RG!Broadcast(told, a), b), e)
    BY <2>1, <2>3, HearsThree
  <2> QED BY <2>2, <2>3 DEF HearsLast
<1> QED BY <1>1, <1>2, <1>3

\* The node in flight has not been settled, and is the only one.
LEMMA InFlight ==
  ASSUME TypeInv, RunInv, pc \in NodePcs
  PROVE  /\ idx \in 1..Len(Order) /\ Order[idx] \in Nodes
         /\ Order[idx] \notin completed /\ Order[idx] \notin failed
         /\ CurrentNode = {Order[idx]} /\ result = "none"
<1>1. idx \in 1..Len(Order) /\ Order[idx] \in Nodes
  BY OrderedNode DEF TypeInv, PositionOK
<1>2. Order[idx] \notin Before(idx)
  <2>1. ASSUME NEW j \in 1..(idx - 1) PROVE Order[j] # Order[idx]
    <3>1. j \in 1..Len(Order) /\ j # idx
      BY <1>1, OrderedNode
    <3> QED BY <1>1, <3>1, NodesAssumption
  <2> QED BY <2>1 DEF Before
<1>3. Settled = Before(idx) /\ result = "none"
  BY DEF RunInv, LoopInv, LivePcs
<1> QED BY <1>1, <1>2, <1>3 DEF Settled, CurrentNode

\* The inputs cannot be collected: one start more that nothing counts as ended.
LEMMA CollectThrowsMonitor ==
  ASSUME TypeInv, TypeInv', RunInv, MonitorInv, CollectInputsThrows, Listen
  PROVE  MonitorInv'
<1> DEFINE n == Order[idx]
           e == NodeEvent("execution.node.failed", n, "failed")
           t == RG!Broadcast(told, e)
<1>1. /\ pc = "checking" /\ outcome' = "uncollected" /\ failed' = failed \union {n}
      /\ ReturnError(<<e>>) /\ completed' = completed /\ retries' = retries /\ idx' = idx
  BY DEF CollectInputsThrows, ReturnError, jobVars
<1>2. /\ n \in Nodes /\ n \notin failed /\ CurrentNode = {n}
  BY <1>1, InFlight DEF NodePcs
<1>3. e.type = "execution.node.failed"
  BY DEF NodeEvent
<1>4. HearsLast(metrics, t, <<e>>)
  BY <1>3, HearsBefore, CollectOther
<1>5. t \in ToldType /\ \A room \in RG!Rooms : t[room] \notin Verdicts
  BY <1>1, <1>3, BroadcastType DEF MonitorInv, MonitorTypeOK, ToldInv, LivePcs, NodePcs
<1>6. Uncollected' = {n} /\ failed' \ Uncollected' = failed /\ Uncollected = {}
  BY <1>1, <1>2 DEF Uncollected, MonitorInv, CountsInv, LivePcs, NodePcs
<1>7. /\ metrics \in MetricsType
      /\ MS!Present(metrics) => /\ metrics.entry.completedNodes = Cardinality(completed)
                                /\ metrics.entry.failedNodes = Cardinality(failed)
  BY <1>1, <1>6 DEF MonitorInv, MonitorTypeOK, CountsInv, NodeCountsAgree, Here, LivePcs, NodePcs
<1>8. ASSUME NEW k \in Nodes
      PROVE  LET open == metrics.nodeExecutions[k] - metrics.nodeSuccesses[k]
                           - metrics.nodeFailures[k]
             IN 0 <= open /\ open <= retries + (IF k \in Uncollected' THEN 1 ELSE 0)
  <2>1. 0 <= Open(k) /\ Open(k) <= retries + 0 /\ retries \in Nat
    BY <1>6 DEF MonitorInv, StartsInv, TypeInv, TypeOK
  <2> QED BY <1>2, <1>6, <1>7, <2>1 DEF Open, MetricsType
<1> HIDE DEF t, e, n
<1>9. Between(metrics, t)
  BY <1>1, <1>5, <1>6, <1>7, <1>8 DEF Between
<1> QED BY <1>1, <1>4, <1>9, ReturnErrorMonitor

\* A node is recorded: its start is counted as ended, and the node as settled.
LEMMA RecordNodeMonitor ==
  ASSUME TypeInv, TypeInv', RunInv, MonitorInv, RecordNode, Listen
  PROVE  MonitorInv'
<1> DEFINE n == Order[idx]
           e == NodeEvent("execution.node.completed", n, SuccessIf(outcome = "ok"))
           f == NodeEvent("execution.node.failed", n, "failed")
           m == MS!Collect(metrics, e)
           t == RG!Broadcast(told, e)
<1>1. /\ pc = "logging" /\ outcome' = "none" /\ retries' = retries
      /\ idx \in 1..Len(Order) /\ n \in Nodes /\ n \notin completed /\ n \notin failed
      /\ CurrentNode = {n} /\ result = "none"
  BY InFlight DEF RecordNode, jobVars, NodePcs
<1>2. Uncollected' = {} /\ Uncollected = {}
  BY <1>1 DEF Uncollected, MonitorInv, CountsInv, LivePcs, NodePcs
<1>3. /\ metrics \in MetricsType /\ completed \subseteq Nodes /\ failed \subseteq Nodes
      /\ MS!Present(metrics) => /\ metrics.entry.completedNodes = Cardinality(completed)
                                /\ metrics.entry.failedNodes = Cardinality(failed)
  BY <1>1, <1>2 DEF MonitorInv, MonitorTypeOK, CountsInv, NodeCountsAgree, Here, LivePcs, NodePcs,
                    TypeInv, TypeOK
<1>4. t \in ToldType /\ \A room \in RG!Rooms : t[room] \notin Verdicts
  <2>1. e.type = "execution.node.completed"
    BY DEF NodeEvent
  <2> QED BY <1>1, <2>1, BroadcastType DEF MonitorInv, MonitorTypeOK, ToldInv, LivePcs, NodePcs
<1>5. HearsLast(m, t, <<e>>)
  BY HearsBefore
<1>6. ASSUME NEW k \in Nodes
      PROVE  LET open == metrics.nodeExecutions[k] - metrics.nodeSuccesses[k]
                           - metrics.nodeFailures[k]
             IN /\ IF k = n THEN 1 <= open /\ open <= retries + 1
                            ELSE 0 <= open /\ open <= retries
                /\ retries \in Nat
  <2>1. 0 <= Open(k) /\ Open(k) <= retries + 0 /\ retries \in Nat
    BY <1>2 DEF MonitorInv, StartsInv, TypeInv, TypeOK
  <2> QED BY <1>1, <1>3, <2>1 DEF Open, MetricsType
<1>7. idx + 1 \in 1..(Len(Order) + 1)
  BY <1>1, OrderedNode
<1>8. CASE /\ outcome = "ok" /\ completed' = completed \union {n} /\ failed' = failed
           /\ LoopHead(idx + 1, <<e>>)
  <2>1. e = NodeEvent("execution.node.completed", n, "success")
    BY <1>8 DEF SuccessIf
  <2> HIDE DEF n, e
  <2>2. /\ m \in MetricsType /\ m.entry.status = metrics.entry.status
        /\ MS!Present(metrics) => m.entry.completedNodes = metrics.entry.completedNodes + 1
        /\ m.entry.failedNodes = metrics.entry.failedNodes
        /\ m.nodeExecutions = metrics.nodeExecutions
        /\ m.nodeSuccesses = [metrics.nodeSuccesses EXCEPT ![n] = @ + 1]
        /\ m.nodeFailures = metrics.nodeFailures
    BY <1>1, <1>3, <2>1, CollectNodeSucceeded
  <2> HIDE DEF m, t
  <2>3. ASSUME NEW k \in Nodes
        PROVE  LET open == m.nodeExecutions[k] - m.nodeSuccesses[k] - m.nodeFailures[k]
               IN 0 <= open /\ open <= retries
    <3>1. /\ metrics.nodeExecutions[k] \in Nat /\ metrics.nodeSuccesses[k] \in Nat
          /\ metrics.nodeFailures[k] \in Nat
          /\ m.nodeSuccesses[k] = metrics.nodeSuccesses[k] + (IF k = n THEN 1 ELSE 0)
          /\ m.nodeExecutions[k] = metrics.nodeExecutions[k]
          /\ m.nodeFailures[k] = metrics.nodeFailures[k]
      BY <1>3, <2>2 DEF MetricsType
    <3> QED BY <1>6, <3>1
  <2>4. Cardinality(completed') = Cardinality(completed) + 1 /\ failed' \ Uncollected' = failed
    BY <1>1, <1>2, <1>3, <1>8, NodesFinite
  <2>5. Between(m, t)
    BY <1>2, <1>3, <1>4, <1>6, <2>2, <2>3, <2>4 DEF Between, MS!Present
  <2> QED BY <1>1, <1>5, <1>7, <1>8, <2>5, LoopHeadMonitor
<1>9. CASE /\ outcome # "ok" /\ completed' = completed /\ failed' = failed \union {n}
           /\ \/ LoopHead(idx + 1, <<e>>)
              \/ ReturnError(<<e>> \o <<f>>)
  <2>1. e = NodeEvent("execution.node.completed", n, "failed")
    BY <1>9 DEF SuccessIf
  <2>0. f.type = "execution.node.failed"
    BY DEF NodeEvent
  <2>6. HearsLast(MS!Collect(m, f), RG!Broadcast(t, f), <<e>> \o <<f>>)
    BY HearsBefore
  <2> HIDE DEF n, e, f
  <2>2. /\ m \in MetricsType /\ m.entry.status = metrics.entry.status
        /\ MS!Present(metrics) => m.entry.failedNodes = metrics.entry.failedNodes + 1
        /\ m.entry.completedNodes = metrics.entry.completedNodes
        /\ m.nodeExecutions = metrics.nodeExecutions
        /\ m.nodeFailures = [metrics.nodeFailures EXCEPT ![n] = @ + 1]
        /\ m.nodeSuccesses = metrics.nodeSuccesses
    BY <1>1, <1>3, <2>1, CollectNodeFailed
  <2> HIDE DEF m, t
  <2>3. ASSUME NEW k \in Nodes
        PROVE  LET open == m.nodeExecutions[k] - m.nodeSuccesses[k] - m.nodeFailures[k]
               IN 0 <= open /\ open <= retries
    <3>1. /\ metrics.nodeExecutions[k] \in Nat /\ metrics.nodeSuccesses[k] \in Nat
          /\ metrics.nodeFailures[k] \in Nat
          /\ m.nodeFailures[k] = metrics.nodeFailures[k] + (IF k = n THEN 1 ELSE 0)
          /\ m.nodeExecutions[k] = metrics.nodeExecutions[k]
          /\ m.nodeSuccesses[k] = metrics.nodeSuccesses[k]
      BY <1>3, <2>2 DEF MetricsType
    <3> QED BY <1>6, <3>1
  <2>4. /\ Cardinality(failed') = Cardinality(failed) + 1 /\ failed' \ Uncollected' = failed'
    BY <1>1, <1>2, <1>3, <1>9, NodesFinite
  <2>5. Between(m, t)
    BY <1>2, <1>3, <1>4, <1>6, <1>9, <2>2, <2>3, <2>4 DEF Between, MS!Present
  <2>7. CASE LoopHead(idx + 1, <<e>>)
    BY <1>1, <1>5, <1>7, <2>5, <2>7, LoopHeadMonitor
  <2>8. CASE ReturnError(<<e>> \o <<f>>)
    <3>1. HearsLast(m, RG!Broadcast(t, f), <<e>> \o <<f>>)
      BY <2>0, <2>6, CollectOther
    <3>2. /\ RG!Broadcast(t, f) \in ToldType
          /\ \A room \in RG!Rooms : RG!Broadcast(t, f)[room] \notin Verdicts
      BY <1>4, <2>0, BroadcastType
    <3>3. Between(m, RG!Broadcast(t, f))
      BY <2>5, <3>2 DEF Between
    <3> QED BY <1>1, <2>8, <3>1, <3>3, ReturnErrorMonitor
  <2> QED BY <1>9, <2>7, <2>8
<1> QED BY <1>8, <1>9 DEF RecordNode

\* The process dies: the listeners forget.
LEMMA RestartMonitor ==
  ASSUME TypeInv, Restart
  PROVE  MonitorInv'
<1>1. /\ pc' \in {"queued", "dead"} /\ outcome' = "none" /\ retries' = retries
      /\ metrics' = MS!NoMetrics /\ told' = NothingTold /\ retries \in Nat
  BY DEF Restart, Crash, TypeInv, TypeOK
<1>2. MonitorTypeOK'
  BY <1>1 DEF MonitorTypeOK, MetricsType, EntryType, FlowType, ToldType, MS!NoMetrics,
              MS!NoEntry, NothingTold
<1>3. StartsInv'
  <2>1. CurrentNode' = {} /\ Uncollected' = {}
    BY <1>1 DEF CurrentNode, NodePcs, Uncollected
  <2>2. ASSUME NEW n \in Nodes
        PROVE  /\ metrics'.nodeExecutions[n] = 0 /\ metrics'.nodeSuccesses[n] = 0
               /\ metrics'.nodeFailures[n] = 0
    BY <1>1 DEF MS!NoMetrics
  <2>3. ASSUME NEW n \in Nodes PROVE Open(n)' = 0
    BY <2>1, <2>2 DEF Open
  <2>4. ASSUME NEW n \in Nodes PROVE 0 <= Open(n)' /\ Open(n)' <= retries' + 0
    BY <1>1, <2>3
  <2> QED BY <2>1, <2>4 DEF StartsInv
<1>4. CountsInv' /\ DoneInv' /\ ToldInv'
  BY <1>1 DEF CountsInv, NodeCountsAgree, Here, LivePcs, NodePcs, DoneInv, ToldInv
<1> QED BY <1>2, <1>3, <1>4 DEF MonitorInv

\* The entry is dropped, and nothing else.
LEMMA CleanupMonitor ==
  ASSUME TypeInv, MonitorInv, Cleanup
  PROVE  MonitorInv'
<1>1. CASE metrics.entry.status = "running"
  <2>1. UNCHANGED monitorVars
    BY <1>1 DEF Cleanup, MS!CleanupOldMetrics, monitorVars
  <2> QED BY <2>1, NothingCounted DEF monitorVars, vars, runVars, stateVars, jobVars, MonitorInv,
                                  MonitorTypeOK
<1>2. CASE metrics.entry.status # "running"
  <2>1. metrics' = [metrics EXCEPT !.entry = MS!NoEntry] /\ UNCHANGED <<vars, told>>
    BY <1>2 DEF Cleanup, MS!CleanupOldMetrics
  <2>2. MS!NoEntry \in EntryType /\ MS!NoEntry.status = "none"
    BY DEF EntryType, MS!NoEntry
  <2>3. /\ metrics' \in MetricsType /\ NodeCountersKept(metrics', metrics)
        /\ ~MS!Present(metrics')
    BY <2>1, <2>2 DEF MetricsType, NodeCountersKept, MonitorInv, MonitorTypeOK, MS!Present
  <2>4. StartsInv'
    BY <2>1, <2>3 DEF MonitorInv, StartsInv, Open, NodeCountersKept, CurrentNode, Uncollected,
                      vars, runVars, jobVars
  <2>5. MonitorTypeOK' /\ CountsInv' /\ DoneInv' /\ ToldInv'
    BY <2>1, <2>3 DEF MonitorInv, MonitorTypeOK, CountsInv, NodeCountsAgree, DoneInv, ToldInv,
                      vars, runVars
  <2> QED BY <2>4, <2>5 DEF MonitorInv
<1> QED BY <1>1, <1>2

\* The execution begins, again perhaps: the counts start over, and the rooms see it run.
LEMMA MarkRunningMonitor ==
  ASSUME TypeInv, MonitorInv, MarkRunning, Listen
  PROVE  MonitorInv'
<1> DEFINE e == ExecutionEvent("execution.started")
<1>1. /\ pc = "begun" /\ pc' = "marked" /\ metrics' = MS!Collect(metrics, e)
      /\ told' = RG!Broadcast(told, e) /\ UNCHANGED <<idx, outcome, retries>>
  BY HearsOne DEF MarkRunning, jobVars
<1>2. metrics' \in MetricsType /\ NodeCountersKept(metrics', metrics)
  BY <1>1, CollectStarted DEF MonitorInv, MonitorTypeOK
<1>3. metrics'.entry.completedNodes = 0 /\ metrics'.entry.failedNodes = 0
  BY <1>1, CollectStarted DEF MonitorInv, MonitorTypeOK
<1>4. told' \in ToldType /\ \A room \in RG!Rooms : told'[room] \notin Verdicts
  BY <1>1, BroadcastType DEF MonitorInv, MonitorTypeOK, ExecutionEvent, Verdicts
<1>5. StartsInv'
  <2>1. ASSUME NEW n \in Nodes PROVE Open(n)' = Open(n)
    BY <1>1, <1>2 DEF Open, NodeCountersKept, CurrentNode, NodePcs
  <2>2. ASSUME NEW n \in Nodes PROVE 0 <= Open(n) /\ Open(n) <= retries + 0
    BY <1>1 DEF MonitorInv, StartsInv, Loaded
  <2> QED BY <1>1, <2>1, <2>2 DEF StartsInv, Loaded
<1>6. CountsInv' /\ DoneInv' /\ ToldInv'
  BY <1>1, <1>3, <1>4 DEF CountsInv, NodeCountsAgree, Here, LivePcs, NodePcs, DoneInv, ToldInv
<1> QED BY <1>2, <1>4, <1>5, <1>6 DEF MonitorInv, MonitorTypeOK

\* The job is retried: what is still counted as started is of the delivery that ends.
LEMMA HandleThrowMonitor ==
  ASSUME TypeInv, MonitorInv, HandleThrow, Listen
  PROVE  MonitorInv'
<1> DEFINE e == ExecutionEvent("execution.failed")
<1>1. /\ pc = "failing" /\ UNCHANGED <<idx, outcome>>
      /\ \/ pc' = "queued" /\ retries' = retries + 1
         \/ pc' = "dead" /\ retries' = retries
  BY DEF HandleThrow, RetryOrGiveUp
<1>2. \/ metrics' = metrics /\ told' = told
      \/ metrics' = MS!Collect(metrics, e) /\ told' = RG!Broadcast(told, e)
  BY HearsNothing, HearsOne DEF HandleThrow
<1>3. /\ metrics' \in MetricsType /\ NodeCountersKept(metrics', metrics)
      /\ told' \in ToldType
  BY <1>2, CollectEnded, BroadcastType DEF MonitorInv, MonitorTypeOK, NodeCountersKept
<1>4. StartsInv'
  <2>1. ASSUME NEW n \in Nodes PROVE Open(n)' = Open(n)
    BY <1>1, <1>3 DEF Open, NodeCountersKept, CurrentNode, NodePcs
  <2>2. ASSUME NEW n \in Nodes
        PROVE  /\ 0 <= Open(n) /\ retries \in Nat
               /\ Open(n) <= retries + (IF n \in Uncollected THEN 1 ELSE 0)
    BY <1>1 DEF MonitorInv, StartsInv, Loaded, TypeInv, TypeOK
  <2>3. Uncollected' = Uncollected
    BY <1>1 DEF Uncollected
  <2>4. CASE pc' = "queued"
    <3>1. ASSUME NEW n \in Nodes PROVE 0 <= Open(n)' /\ Open(n)' <= retries' + 0
      <4>1. Open(n) \in Int
        BY DEF Open, MonitorInv, MonitorTypeOK, MetricsType
      <4> HIDE DEF Open
      <4>2. Open(n) <= retries + 1
        BY <2>2, <4>1
      <4> QED BY <1>1, <2>1, <2>2, <2>4, <4>1, <4>2
    <3> QED BY <2>4, <3>1 DEF StartsInv, Loaded
  <2>5. CASE pc' = "dead"
    BY <1>1, <2>1, <2>2, <2>3, <2>5 DEF StartsInv, Loaded
  <2> QED BY <1>1, <2>4, <2>5
<1>5. CountsInv' /\ DoneInv' /\ ToldInv'
  BY <1>1 DEF CountsInv, NodeCountsAgree, Here, LivePcs, NodePcs, DoneInv, ToldInv
<1> QED BY <1>3, <1>4, <1>5 DEF MonitorInv, MonitorTypeOK

\* The state of the execution is new, and so are the counts since MarkRunning.
LEMMA CreateStateMonitor ==
  ASSUME TypeInv, MonitorInv, CreateExecutionState, Listen
  PROVE  MonitorInv'
<1>1. /\ pc = "marked" /\ pc' = "validating" /\ outcome' = "none" /\ retries' = retries
      /\ completed' = {} /\ failed' = {} /\ metrics' = metrics /\ told' = told
  BY HearsNothing DEF CreateExecutionState, jobVars
<1>2. StartsInv'
  <2>1. ASSUME NEW n \in Nodes PROVE Open(n)' = Open(n)
    BY <1>1 DEF Open, CurrentNode, NodePcs
  <2>2. ASSUME NEW n \in Nodes PROVE 0 <= Open(n) /\ Open(n) <= retries + 0
    BY <1>1 DEF MonitorInv, StartsInv, Loaded
  <2>3. Uncollected' = {}
    BY <1>1 DEF Uncollected
  <2> QED BY <1>1, <2>1, <2>2, <2>3 DEF StartsInv
<1>3. CountsInv'
  BY <1>1, FS_EmptySet DEF MonitorInv, CountsInv, NodeCountsAgree, LivePcs, NodePcs
<1>4. DoneInv' /\ ToldInv' /\ MonitorTypeOK'
  BY <1>1 DEF MonitorInv, DoneInv, ToldInv, MonitorTypeOK
<1> QED BY <1>2, <1>3, <1>4 DEF MonitorInv

\* Before the loop and where it waits no node is in flight: m and t are as they are.
LEMMA BetweenNow ==
  ASSUME TypeInv, MonitorInv, pc \in {"validating", "waiting"},
         UNCHANGED <<outcome, completed, failed, retries>>
  PROVE  Between(metrics, told) /\ outcome' # "uncollected"
<1>1. outcome # "uncollected" /\ Uncollected = {} /\ Uncollected' = {} /\ CurrentNode = {}
  BY DEF MonitorInv, CountsInv, LivePcs, NodePcs, Uncollected, CurrentNode
<1>2. metrics \in MetricsType /\ told \in ToldType
  BY DEF MonitorInv, MonitorTypeOK
<1>3. ASSUME NEW n \in Nodes
      PROVE  LET open == metrics.nodeExecutions[n] - metrics.nodeSuccesses[n]
                           - metrics.nodeFailures[n]
             IN 0 <= open /\ open <= retries + 0
  <2>1. 0 <= Open(n) /\ Open(n) <= retries + 0
    BY <1>1 DEF MonitorInv, StartsInv
  <2> QED BY <1>1, <1>2, <2>1 DEF Open, MetricsType
<1>4. /\ MS!Present(metrics) => /\ metrics.entry.completedNodes = Cardinality(completed')
                                /\ metrics.entry.failedNodes = Cardinality(failed' \ Uncollected')
      /\ \A room \in RG!Rooms : told[room] \notin Verdicts
  BY <1>1 DEF MonitorInv, CountsInv, NodeCountsAgree, Here, LivePcs, NodePcs, ToldInv
<1> QED BY <1>1, <1>2, <1>3, <1>4 DEF Between

LEMMA ValidateFlowMonitor ==
  ASSUME TypeInv, TypeInv', RunInv, MonitorInv, ValidateFlow, Listen
  PROVE  MonitorInv'
<1>1. /\ pc = "validating" /\ result = "none"
      /\ UNCHANGED <<outcome, completed, failed, retries>>
      /\ LoopHead(1, <<>>) \/ ReturnError(<<>>)
  BY DEF ValidateFlow, jobVars, RunInv, LoopInv, LivePcs
<1>2. 1 \in 1..(Len(Order) + 1)
  BY OrderedNode
<1> QED BY <1>1, <1>2, BetweenNow, HearsBefore, LoopHeadMonitor, ReturnErrorMonitor

LEMMA LeaveWaitMonitor ==
  ASSUME TypeInv, TypeInv', MonitorInv, LeaveWait, Listen
  PROVE  MonitorInv'
<1>1. /\ pc = "waiting" /\ UNCHANGED <<outcome, completed, failed, retries>>
      /\ StartNode(idx, <<>>)
  BY DEF LeaveWait, jobVars
<1>2. Order[idx] \in Nodes
  BY <1>1, OrderedNode DEF TypeInv, PositionOK
<1>3. LET e == NodeEvent("execution.node.started", Order[idx], "none")
      IN metrics' = MS!Collect(metrics, e) /\ told' = RG!Broadcast(told, e)
  BY <1>1, HearsBefore DEF StartNode, HearsLast
<1> QED BY <1>1, <1>2, <1>3, BetweenNow, NodeStartsMonitor DEF StartNode

\* The second execution.completed of a run that succeeded says what the first said.
LEMMA StoreResultsMonitor ==
  ASSUME TypeInv, MonitorInv, StoreResults, Listen
  PROVE  MonitorInv'
<1>1. /\ pc = "storing" /\ pc' = "done"
      /\ UNCHANGED <<idx, outcome, result, completed, failed, retries>>
  BY DEF StoreResults, stateVars, jobVars
<1>2. CASE result # "ok"
  <2>1. metrics' = metrics /\ told' = told
    BY <1>2, HearsNothing DEF StoreResults
  <2> QED BY <1>1, <2>1, NothingCounted DEF MonitorInv, MonitorTypeOK
<1>3. CASE result = "ok"
  <2> DEFINE e == ExecutionEvent("execution.completed")
  <2>1. metrics' = MS!Collect(metrics, e) /\ told' = RG!Broadcast(told, e)
    BY <1>3, HearsOne DEF StoreResults
  <2>2. /\ metrics' \in MetricsType /\ NodeCountersKept(metrics', metrics)
        /\ MS!Present(metrics') <=> MS!Present(metrics)
        /\ MS!Present(metrics) => metrics'.entry.status = "completed"
        /\ metrics'.entry.completedNodes = metrics.entry.completedNodes
        /\ metrics'.entry.failedNodes = metrics.entry.failedNodes
        /\ told' \in ToldType
    BY <2>1, CollectEnded, BroadcastType DEF MonitorInv, MonitorTypeOK
  <2>3. Uncollected' = Uncollected /\ CurrentNode' = CurrentNode
    BY <1>1 DEF Uncollected, CurrentNode, NodePcs
  <2>4. StartsInv'
    BY <1>1, <2>2, <2>3 DEF MonitorInv, StartsInv, Open, NodeCountersKept, Loaded
  <2>5. CountsInv'
    BY <1>1, <2>2, <2>3 DEF MonitorInv, CountsInv, NodeCountsAgree, Here, LivePcs, NodePcs
  <2>6. DoneInv' /\ ToldInv' /\ MonitorTypeOK'
    BY <1>1, <1>3, <2>2 DEF MonitorInv, DoneInv, ToldInv, MonitorTypeOK, LivePcs, NodePcs
  <2> QED BY <2>4, <2>5, <2>6 DEF MonitorInv
<1> QED BY <1>2, <1>3

\* The end of a call: monitoring does not listen, and it is no verdict for the rooms.
LEMMA FinishCommandMonitor ==
  ASSUME TypeInv, MonitorInv, NEW c \in Commands, FinishCommand(c), Listen
  PROVE  MonitorInv'
<1> DEFINE e == ExecutionEvent(CommandEvent(cmd[c].kind))
<1>1. metrics' = MS!Collect(metrics, e) /\ told' = RG!Broadcast(told, e)
  BY HearsOne DEF FinishCommand
<1>2. e.type \in {"execution.cancelled", "execution.paused", "execution.resumed"}
  BY DEF ExecutionEvent, CommandEvent
<1> HIDE DEF e
<1>3. /\ metrics' = metrics /\ told' \in ToldType
      /\ \A room \in RG!Rooms : told[room] \notin Verdicts => told'[room] \notin Verdicts
  BY <1>1, <1>2, CollectOther, BroadcastType DEF MonitorInv, MonitorTypeOK
<1> QED BY <1>3, NothingCounted DEF FinishCommand, runVars, jobVars

\* The steps that emit nothing and settle no node.
LEMMA QuietMonitor ==
  ASSUME TypeInv, MonitorInv, Listen,
         \/ Deliver \/ CheckNode \/ BodyEnds \/ WriteOutcome \/ ProcessorThrows
         \/ \E c \in Commands : \/ BeginCommand(c) \/ CommandFails(c)
                                \/ RollbackNext(c) \/ WriteCommand(c)
  PROVE  MonitorInv'
<1>1. bus' = <<>>
  BY DEF Deliver, CheckNode, BodyEnds, WriteOutcome, ProcessorThrows, BeginCommand, BeginCancel,
         BeginPause, BeginResume, SwitchStatus, CommandFails, RollbackNext, WriteCommand
<1>2. /\ metrics' = metrics /\ told' = told /\ told' \in ToldType
  BY <1>1, HearsNothing DEF MonitorInv, MonitorTypeOK
<1>3. CASE Deliver
  BY <1>2, <1>3, NothingCounted DEF Deliver, stateVars, jobVars
<1>4. CASE CheckNode
  BY <1>2, <1>4, NothingCounted DEF CheckNode, stateVars, jobVars, NodePcs
<1>5. CASE BodyEnds
  BY <1>2, <1>5, NothingCounted DEF BodyEnds, stateVars, jobVars, NodePcs
<1>6. CASE WriteOutcome
  BY <1>2, <1>6, NothingCounted DEF WriteOutcome, stateVars, jobVars
<1>7. CASE ProcessorThrows
  BY <1>2, <1>7, NothingCounted DEF ProcessorThrows, stateVars, jobVars, LivePcs, NodePcs
<1>8. CASE \E c \in Commands : BeginCommand(c)
  <2>1. PICK c \in Commands : BeginCommand(c)
    BY <1>8
  <2>2. CASE BeginCancel(c)
    BY <1>2, <2>2, NothingCounted DEF BeginCancel, AbortNode, jobVars, NodePcs
  <2>3. CASE BeginPause(c) \/ BeginResume(c)
    BY <1>2, <2>3, NothingCounted DEF BeginPause, BeginResume, SwitchStatus, runVars, jobVars
  <2> QED BY <2>1, <2>2, <2>3 DEF BeginCommand
<1>9. CASE \E c \in Commands : CommandFails(c) \/ RollbackNext(c) \/ WriteCommand(c)
  BY <1>2, <1>9, NothingCounted DEF CommandFails, RollbackNext, WriteCommand, runVars, stateVars,
                                    jobVars
<1> QED BY <1>3, <1>4, <1>5, <1>6, <1>7, <1>8, <1>9

LEMMA MonitorNextInv ==
  TypeInv /\ TypeInv' /\ RunInv /\ MonitorInv /\ [MonitorNext]_monitorVars => MonitorInv'
<1> SUFFICES ASSUME TypeInv, TypeInv', RunInv, MonitorInv, [MonitorNext]_monitorVars
             PROVE  MonitorInv'
  OBVIOUS
<1>1. CASE Engine
  <2>1. Listen /\ Next /\ ~Crash
    <3>1. crashes' = crashes /\ crashes \in Nat
      BY <1>1 DEF Engine, TypeInv, TypeOK
    <3> QED BY <1>1, <3>1 DEF Engine, Crash
  <2>2. CASE \/ Deliver \/ CheckNode \/ BodyEnds \/ WriteOutcome \/ ProcessorThrows
             \/ \E c \in Commands : \/ BeginCommand(c) \/ CommandFails(c)
                                    \/ RollbackNext(c) \/ WriteCommand(c)
    BY <2>1, <2>2, QuietMonitor
  <2>3. CASE MarkRunning
    BY <2>1, <2>3, MarkRunningMonitor
  <2>4. CASE CreateExecutionState
    BY <2>1, <2>4, CreateStateMonitor
  <2>5. CASE ValidateFlow
    BY <2>1, <2>5, ValidateFlowMonitor
  <2>6. CASE LeaveWait
    BY <2>1, <2>6, LeaveWaitMonitor
  <2>7. CASE CollectInputsThrows
    BY <2>1, <2>7, CollectThrowsMonitor
  <2>8. CASE RecordNode
    BY <2>1, <2>8, RecordNodeMonitor
  <2>9. CASE StoreResults
    BY <2>1, <2>9, StoreResultsMonitor
  <2>10. CASE HandleThrow
    BY <2>1, <2>10, HandleThrowMonitor
  <2>11. CASE \E c \in Commands : FinishCommand(c)
    BY <2>1, <2>11, FinishCommandMonitor
  <2> QED BY <2>1, <2>2, <2>3, <2>4, <2>5, <2>6, <2>7, <2>8, <2>9, <2>10, <2>11
          DEF Next, RunStep, CommandStep
<1>2. CASE Restart
  BY <1>2, RestartMonitor
<1>3. CASE Cleanup
  BY <1>3, CleanupMonitor
<1>4. CASE UNCHANGED monitorVars
  BY <1>4, NothingCounted DEF monitorVars, vars, runVars, stateVars, jobVars, MonitorInv,
                              MonitorTypeOK
<1> QED BY <1>1, <1>2, <1>3, <1>4 DEF MonitorNext

\* The monitored execution is an execution: its invariants hold.
LEMMA MonitoredRuns == MonitorSpec => Spec
<1>1. MonitorInit => Init
  BY DEF MonitorInit
<1>2. [MonitorNext]_monitorVars => [Next]_vars
  BY DEF MonitorNext, Engine, Restart, Next, Cleanup, monitorVars
<1> QED BY <1>1, <1>2, PTL DEF MonitorSpec, Spec

LEMMA MonitorCorrect == MonitorSpec => []MonitorInv
<1>1. MonitorSpec => []TypeInv /\ []RunInv
  BY MonitoredRuns, TypeCorrect, RunCorrect, PTL
<1> QED BY <1>1, MonitorInitInv, MonitorNextInv, PTL DEF MonitorSpec

-----------------------------------------------------------------------------
\* As long as MetricsService keeps the entry, its counts of completed and failed
\* nodes are those of the orchestrator, but for the node that got no inputs.
THEOREM CountsAgree == MonitorSpec => []NodeCountsAgree
<1>1. MonitorInv => NodeCountsAgree
  BY DEF MonitorInv, CountsInv
<1> QED BY <1>1, MonitorCorrect, PTL

\* onNodeStarted and onNodeCompleted come in pairs, but for one start that each
\* retry may leave behind and the node that got no inputs in this delivery.
THEOREM StartsAreCounted == MonitorSpec => []EveryStartIsCounted
<1>1. TypeInv /\ MonitorInv => EveryStartIsCounted
  <2> SUFFICES ASSUME TypeInv, MonitorInv, NEW n \in Nodes
               PROVE  Open(n) \in 0..(retries + (IF n \in Uncollected THEN 1 ELSE 0))
    BY DEF EveryStartIsCounted, Open
  <2>1. Open(n) \in Int /\ retries \in Nat
    <3>1. metrics \in MetricsType /\ retries \in Nat
      BY DEF MonitorInv, MonitorTypeOK, TypeInv, TypeOK
    <3> QED BY <3>1 DEF Open, MetricsType
  <2>2. /\ 0 <= Open(n)
        /\ Open(n) <= retries + (IF n \in Uncollected /\ pc \notin Loaded THEN 1 ELSE 0)
    BY DEF MonitorInv, StartsInv
  <2> HIDE DEF Open
  <2> QED BY <2>1, <2>2
<1>2. MonitorSpec => []TypeInv
  BY MonitoredRuns, TypeCorrect, PTL
<1> QED BY <1>1, <1>2, MonitorCorrect, PTL

\* The entry of a job that is done has the verdict of executeFlow, whatever
\* retries came before and though execution.completed is emitted twice.
THEOREM DoneHasVerdict == MonitorSpec => []DoneIsNotActive
<1>1. MonitorInv => DoneIsNotActive
  BY DEF MonitorInv, DoneInv, DoneIsNotActive
<1> QED BY <1>1, MonitorCorrect, PTL

\* A room of the gateway that was told SUCCESS or FAILED last does not watch a
\* run that goes on: execution.started reaches both rooms before the loop.
THEOREM VerdictComesLast == MonitorSpec => []VerdictIsLast
<1>1. MonitorInv => VerdictIsLast
  BY DEF MonitorInv, ToldInv, Verdicts, VerdictIsLast
<1> QED BY <1>1, MonitorCorrect, PTL
=============================================================================
