------------------------ MODULE FlowExecutionProofs ------------------------
(***************************************************************************)
(* Proofs about FlowExecution, for every flow, every number of calls and   *)
(* every bound on retries and crashes.                                     *)
(***************************************************************************)
EXTENDS FlowExecution, TLAPS

-----------------------------------------------------------------------------
(***************************************************************************)
(* Type correctness.                                                       *)
(***************************************************************************)

\* Where the run has a position in the loop, it is the position of a node.
PositionOK == pc \in NodePcs \union {"waiting"} => idx \in 1..Len(Order)

\* The rollback of a cancel has something left to undo.
TodoOK == \A c \in Commands : cmd[c].at = "rollback" => cmd[c].todo # <<>>

TypeInv == TypeOK /\ PositionOK /\ TodoOK

\* A position of the order holds a node, and the length is a number.
LEMMA OrderedNode ==
  /\ Len(Order) \in Nat
  /\ \A i \in 1..Len(Order) : Order[i] \in Nodes
BY NodesAssumption

\* The constructors of events make events.
LEMMA ExecutionEventType ==
  ASSUME NEW t \in EventTypes
  PROVE  /\ ExecutionEvent(t) \in Event
         /\ <<ExecutionEvent(t)>> \in Seq(Event)
BY DEF Event, ExecutionEvent

LEMMA NodeEventType ==
  ASSUME NEW t \in EventTypes, NEW n \in Nodes, NEW st \in {"none", "success", "failed"}
  PROVE  /\ NodeEvent(t, n, st) \in Event
         /\ <<NodeEvent(t, n, st)>> \in Seq(Event)
BY DEF Event, NodeEvent

\* Adding an event to those of a step gives the events of a step.
LEMMA EmitExecution ==
  ASSUME NEW emitted \in Seq(Event), NEW t \in EventTypes
  PROVE  emitted \o <<ExecutionEvent(t)>> \in Seq(Event)
BY ExecutionEventType

LEMMA EmitNode ==
  ASSUME NEW emitted \in Seq(Event), NEW t \in EventTypes, NEW n \in Nodes,
         NEW st \in {"none", "success", "failed"}
  PROVE  emitted \o <<NodeEvent(t, n, st)>> \in Seq(Event)
BY NodeEventType

\* Writing a status, or the node executions, of a row leaves a row.
LEMMA RowWritten ==
  ASSUME row \in Row
  PROVE  /\ \A st \in Statuses : [row EXCEPT !.status = st] \in Row
         /\ \A ns \in SUBSET NodeExecution : [row EXCEPT !.nodes = ns] \in Row
BY DEF Row

\* Replacing one call leaves calls.
LEMMA CommandWritten ==
  ASSUME cmd \in [Commands -> Command], NEW c \in Commands, NEW r \in Command
  PROVE  [cmd EXCEPT ![c] = r] \in [Commands -> Command]
OBVIOUS

\* Dropping the last element of a sequence leaves a sequence.
LEMMA FrontType ==
  ASSUME NEW S, NEW s \in Seq(S), s # <<>>
  PROVE  /\ SubSeq(s, 1, Len(s) - 1) \in Seq(S)
         /\ s[Len(s)] \in S
OBVIOUS

\* What the head of the loop leaves behind, at any position it is called with.
LEMMA LoopHeadType ==
  ASSUME TypeOK, NEW i \in 1..(Len(Order) + 1), NEW emitted \in Seq(Event),
         LoopHead(i, emitted)
  PROVE  /\ pc' \in {"finishing", "waiting", "checking"}
         /\ idx' = i
         /\ pc' \in {"waiting", "checking"} => idx' \in 1..Len(Order)
         /\ result' \in {"none", "ok", "stopped", "error"}
         /\ active' \in BOOLEAN
         /\ bus' \in Seq(Event)
<1>1. CASE ReturnResult(i, emitted)
  <2>1. bus' \in Seq(Event)
    <3>1. "execution.completed" \in EventTypes
      BY DEF EventTypes
    <3> QED BY <1>1, <3>1, EmitExecution DEF ReturnResult, LoopResult
  <2> QED BY <1>1, <2>1 DEF ReturnResult, LoopResult, TypeOK
<1>2. CASE WaitAt(i, emitted) /\ i <= Len(Order)
  BY <1>2, OrderedNode DEF WaitAt, TypeOK
<1>3. CASE StartNode(i, emitted) /\ i <= Len(Order)
  <2>0. i \in 1..Len(Order) /\ Order[i] \in Nodes
    BY <1>3, OrderedNode
  <2>1. bus' \in Seq(Event)
    <3>1. "execution.node.started" \in EventTypes
      BY DEF EventTypes
    <3> QED BY <1>3, <2>0, <3>1, EmitNode DEF StartNode
  <2> QED BY <1>3, <2>0, <2>1 DEF StartNode, TypeOK
<1> QED BY <1>1, <1>2, <1>3 DEF LoopHead

LEMMA ReturnErrorType ==
  ASSUME TypeOK, NEW emitted \in Seq(Event), ReturnError(emitted)
  PROVE  /\ pc' = "finishing" /\ idx' = idx /\ result' = "error"
         /\ active' = FALSE /\ bus' \in Seq(Event)
<1>1. "execution.failed" \in EventTypes
  BY DEF EventTypes
<1> QED BY <1>1, EmitExecution DEF ReturnError

LEMMA TypeInit == Init => TypeInv
<1> SUFFICES ASSUME Init PROVE TypeInv
  OBVIOUS
<1>1. cmd \in [Commands -> Command] /\ TodoOK
  BY DEF Init, Command, NoCommand, TodoOK
<1>2. row \in Row
  BY DEF Init, Row, Statuses
<1>3. PositionOK
  BY DEF Init, PositionOK, NodePcs
<1>4. idx \in 1..(Len(Order) + 1)
  BY OrderedNode DEF Init
<1>5. /\ pc \in Pcs
      /\ rollbackStack \in Seq(Nodes) /\ bus \in Seq(Event)
      /\ tried \in [Nodes -> Nat]
  BY DEF Init, Pcs
<1> QED BY <1>1, <1>2, <1>3, <1>4, <1>5 DEF Init, TypeInv, TypeOK

LEMMA TypeNext == TypeInv /\ [Next]_vars => TypeInv'
<1> SUFFICES ASSUME TypeInv, [Next]_vars PROVE TypeInv'
  OBVIOUS
<1> USE DEF TypeInv
<1>1. CASE Deliver
  BY <1>1 DEF Deliver, TypeOK, PositionOK, TodoOK, Pcs, NodePcs, stateVars, jobVars
<1>2. CASE MarkRunning
  <2>1. bus' \in Seq(Event)
    BY <1>2, ExecutionEventType DEF MarkRunning, EventTypes
  <2>2. row' \in Row
    BY <1>2, RowWritten DEF MarkRunning, TypeOK, Statuses
  <2> QED BY <1>2, <2>1, <2>2
          DEF MarkRunning, TypeOK, PositionOK, TodoOK, Pcs, NodePcs,
              stateVars, jobVars
<1>3. CASE CreateExecutionState
  BY <1>3, OrderedNode
     DEF CreateExecutionState, TypeOK, PositionOK, TodoOK, Pcs, NodePcs, LivePcs,
         jobVars
<1>4. CASE ValidateFlow
  <2>1. /\ pc' \in {"finishing", "waiting", "checking"}
        /\ idx' \in 1..(Len(Order) + 1)
        /\ pc' \in {"waiting", "checking"} => idx' \in 1..Len(Order)
        /\ result' \in {"none", "ok", "stopped", "error"}
        /\ active' \in BOOLEAN
        /\ bus' \in Seq(Event)
    <3>1. <<>> \in Seq(Event) /\ 1 \in 1..(Len(Order) + 1)
      BY OrderedNode
    <3>2. CASE LoopHead(1, <<>>)
      BY <3>1, <3>2, LoopHeadType
    <3>3. CASE ReturnError(<<>>)
      BY <3>1, <3>3, ReturnErrorType DEF TypeOK
    <3> QED BY <1>4, <3>2, <3>3 DEF ValidateFlow
  <2> QED BY <1>4, <2>1
          DEF ValidateFlow, TypeOK, PositionOK, TodoOK, Pcs, NodePcs, LivePcs, jobVars
<1>5. CASE LeaveWait
  <2>1. idx \in 1..Len(Order) /\ Order[idx] \in Nodes
    BY <1>5, OrderedNode DEF LeaveWait, PositionOK
  <2>2. bus' \in Seq(Event)
    <3>1. <<>> \in Seq(Event) /\ "execution.node.started" \in EventTypes
      BY DEF EventTypes
    <3> QED BY <1>5, <2>1, <3>1, EmitNode DEF LeaveWait, StartNode
  <2> QED BY <1>5, <2>1, <2>2
          DEF LeaveWait, StartNode, TypeOK, PositionOK, TodoOK, Pcs, NodePcs,
              LivePcs, jobVars
<1>6. CASE CheckNode
  BY <1>6 DEF CheckNode, TypeOK, PositionOK, TodoOK, Pcs, NodePcs, LivePcs,
              stateVars, jobVars
<1>7. CASE BodyEnds
  BY <1>7 DEF BodyEnds, TypeOK, PositionOK, TodoOK, Pcs, NodePcs, LivePcs,
              stateVars, jobVars
<1>8. CASE CollectInputsThrows
  <2> DEFINE told == <<NodeEvent("execution.node.failed", Order[idx], "failed")>>
  <2>1. idx \in 1..Len(Order) /\ Order[idx] \in Nodes
    BY <1>8, OrderedNode DEF CollectInputsThrows, PositionOK, NodePcs
  <2>2. told \in Seq(Event)
    <3>1. "execution.node.failed" \in EventTypes
      BY DEF EventTypes
    <3> QED BY <2>1, <3>1, NodeEventType
  <2> HIDE DEF told
  <2>3. /\ pc' = "finishing" /\ idx' = idx /\ result' = "error"
        /\ active' = FALSE /\ bus' \in Seq(Event)
    <3>1. ReturnError(told)
      BY <1>8 DEF CollectInputsThrows, told
    <3> QED BY <2>2, <3>1, ReturnErrorType
  <2>4. /\ outcome' = "uncollected" /\ failed' = failed \union {Order[idx]}
        /\ UNCHANGED <<status, completed, rollbackStack, cmd, row, jobVars, tried>>
    BY <1>8 DEF CollectInputsThrows
  <2> QED BY <2>1, <2>3, <2>4
          DEF TypeOK, PositionOK, TodoOK, Pcs, NodePcs, LivePcs, jobVars
<1>9. CASE RecordNode
  <2> DEFINE n == Order[idx]
             said == <<NodeEvent("execution.node.completed", n,
             SuccessIf(outcome = "ok"))>>
             broken == said \o <<NodeEvent("execution.node.failed", n, "failed")>>
  <2>1. idx \in 1..Len(Order) /\ n \in Nodes /\ idx + 1 \in 1..(Len(Order) + 1)
    BY <1>9, OrderedNode DEF RecordNode, PositionOK, NodePcs
  <2>2. said \in Seq(Event) /\ broken \in Seq(Event)
    <3>1. /\ "execution.node.completed" \in EventTypes
          /\ "execution.node.failed" \in EventTypes
      BY DEF EventTypes
    <3>2. SuccessIf(outcome = "ok") \in {"none", "success", "failed"}
      BY DEF SuccessIf
    <3>4. said \in Seq(Event)
      BY <2>1, <3>1, <3>2, NodeEventType
    <3> HIDE DEF said
    <3>5. broken \in Seq(Event)
      BY <2>1, <3>1, <3>4, EmitNode
    <3> QED BY <3>4, <3>5
  <2> HIDE DEF said, broken
  <2>3. LoopHead(idx + 1, said) \/ ReturnError(broken)
    BY <1>9 DEF RecordNode, said, broken
  <2>4. /\ pc' \in {"finishing", "waiting", "checking"}
        /\ idx' \in 1..(Len(Order) + 1)
        /\ pc' \in {"waiting", "checking"} => idx' \in 1..Len(Order)
        /\ result' \in {"none", "ok", "stopped", "error"}
        /\ active' \in BOOLEAN
        /\ bus' \in Seq(Event)
    <3>1. CASE LoopHead(idx + 1, said)
      BY <3>1, <2>1, <2>2, LoopHeadType
    <3>2. CASE ReturnError(broken)
      BY <3>2, <2>2, ReturnErrorType DEF TypeOK
    <3> QED BY <2>3, <3>1, <3>2
  <2>5. row' \in Row
    <3>1. [node |-> n, status |-> SuccessIf(outcome # "threw")] \in NodeExecution
      BY <2>1 DEF SuccessIf, NodeExecution
    <3>2. \/ row' = [row EXCEPT !.nodes = row.nodes \union
                       {[node |-> n, status |-> SuccessIf(outcome # "threw")]}]
          \/ row' = row
      BY <1>9 DEF RecordNode, LogNodeExecution, LoggedStatus
    <3>3. row.nodes \union {[node |-> n, status |-> SuccessIf(outcome # "threw")]}
            \in SUBSET NodeExecution
      BY <3>1 DEF TypeOK, Row
    <3> QED BY <3>2, <3>3, RowWritten DEF TypeOK
  <2>6. completed' \subseteq Nodes /\ failed' \subseteq Nodes
    BY <1>9, <2>1 DEF RecordNode, TypeOK
  <2>7. rollbackStack' \in Seq(Nodes)
    <3>1. Append(rollbackStack, n) \in Seq(Nodes)
      BY <2>1 DEF TypeOK
    <3> QED BY <1>9, <3>1 DEF RecordNode, TypeOK
  <2> QED
    <3>1. /\ outcome' = "none"
          /\ UNCHANGED <<status, cmd, jobVars, tried>>
      BY <1>9 DEF RecordNode
    <3> QED BY <2>4, <2>5, <2>6, <2>7, <3>1
            DEF TypeOK, PositionOK, TodoOK, Pcs, NodePcs, LivePcs, jobVars
<1>10. CASE WriteOutcome
  <2>1. row' \in Row
    BY <1>10, RowWritten DEF WriteOutcome, OutcomeStatus, TypeOK, Statuses
  <2> QED BY <1>10, <2>1
          DEF WriteOutcome, OutcomeStatus, TypeOK, PositionOK, TodoOK, Pcs, NodePcs,
              LivePcs,
              stateVars, jobVars
<1>11. [row EXCEPT !.nodes = StoredNodes] \in Row
  <2>1. NodeResults \subseteq NodeExecution
    BY DEF NodeResults, NodeExecution, SuccessIf, Settled, TypeOK
  <2>2. StoredNodes \subseteq NodeExecution
    BY <2>1 DEF StoredNodes, TypeOK, Row
  <2> QED BY <2>2, RowWritten DEF TypeOK
<1>12. CASE StoreResults
  <2>1. bus' \in Seq(Event)
    BY <1>12, ExecutionEventType DEF StoreResults, EventTypes
  <2> HIDE DEF StoredNodes
  <2> QED BY <1>11, <1>12, <2>1
          DEF StoreResults, TypeOK, PositionOK, TodoOK, Pcs, NodePcs, LivePcs, EndPcs,
              stateVars, jobVars
<1>13. CASE ProcessorThrows
  <2>1. row' \in Row
    <3>1. row' = row \/ row' = [row EXCEPT !.nodes = StoredNodes]
      BY <1>13 DEF ProcessorThrows
    <3> QED BY <1>11, <3>1 DEF TypeOK
  <2>2. /\ pc' = "failing" /\ bus' = <<>>
        /\ UNCHANGED <<idx, outcome, result, stateVars, cmd, jobVars, tried>>
    BY <1>13 DEF ProcessorThrows
  <2> QED BY <2>1, <2>2
          DEF TypeOK, PositionOK, TodoOK, Pcs, NodePcs, LivePcs, stateVars, jobVars
<1>14. CASE HandleThrow
  <2>1. bus' \in Seq(Event)
    <3>1. bus' = <<ExecutionEvent("execution.failed")>> \/ bus' = <<>>
      BY <1>14 DEF HandleThrow
    <3>2. "execution.failed" \in EventTypes
      BY DEF EventTypes
    <3>3. <<>> \in Seq(Event)
      OBVIOUS
    <3>4. <<ExecutionEvent("execution.failed")>> \in Seq(Event)
      BY <3>2, ExecutionEventType
    <3> QED BY <3>1, <3>3, <3>4
  <2>2. row' \in Row
    BY <1>14, RowWritten DEF HandleThrow, TypeOK, Statuses
  <2>3. pc' \in {"queued", "dead"} /\ retries' \in Nat
    BY <1>14 DEF HandleThrow, RetryOrGiveUp, TypeOK
  <2> QED BY <1>14, <2>1, <2>2, <2>3
          DEF HandleThrow, TypeOK, PositionOK, TodoOK, Pcs, NodePcs,
              LivePcs, EndPcs, stateVars
<1>15. CASE Crash
  <2>1. cmd' \in [Commands -> Command] /\ TodoOK'
    BY <1>15 DEF Crash, TypeOK, Command, TodoOK
  <2>2. bus' \in Seq(Event)
    BY <1>15 DEF Crash
  <2>3. pc' \in {"queued", "dead"} /\ crashes' \in Nat
    BY <1>15 DEF Crash, TypeOK
  <2>4. /\ active' = FALSE /\ outcome' = "none"
        /\ UNCHANGED <<idx, result, status, completed, failed, rollbackStack, row,
                       retries, tried>>
    BY <1>15 DEF Crash
  <2> QED BY <2>1, <2>2, <2>3, <2>4
          DEF TypeOK, PositionOK, Pcs, NodePcs, LivePcs, EndPcs
<1>16. ASSUME NEW c \in Commands, BeginCommand(c)
       PROVE  TypeInv'
  <2>1. CASE BeginCancel(c)
    <3>1. Delivery \in Nat
      BY DEF Delivery, TypeOK
    <3>2. /\ pc' \in Pcs /\ outcome' \in {"none", "ok", "soft", "threw", "uncollected"}
          /\ pc' \in NodePcs \union {"waiting"} => pc \in NodePcs \union {"waiting"}
      BY <2>1 DEF BeginCancel, AbortNode, TypeOK, Pcs, LivePcs, NodePcs
    <3>3. cmd' \in [Commands -> Command] /\ TodoOK'
      BY <2>1, <3>1 DEF BeginCancel, TypeOK, TodoOK, Command
    <3>4. status' = "cancelled" /\ bus' = <<>>
      BY <2>1 DEF BeginCancel
    <3>5. UNCHANGED <<idx, result, active, completed, failed, rollbackStack, row, retries,
                      crashes, tried>>
      BY <2>1 DEF BeginCancel, jobVars
    <3> QED
      BY <3>2, <3>3, <3>4, <3>5 DEF TypeOK, PositionOK
  <2>2. ASSUME NEW kind \in {"pause", "resume"}, NEW to \in {"running", "paused"},
               NEW from, SwitchStatus(c, kind, from, to)
        PROVE  TypeInv'
    <3>1. Delivery \in Nat
      BY DEF Delivery, TypeOK
    <3> QED BY <2>2, <3>1
            DEF SwitchStatus, TypeOK, PositionOK, TodoOK, Command, runVars, jobVars
  <2> QED BY <1>16, <2>1, <2>2 DEF BeginCommand, BeginPause, BeginResume
<1>17. ASSUME NEW c \in Commands, CommandStep(c)
       PROVE  TypeInv'
  <2>1. CASE RollbackNext(c)
    <3>1. /\ SubSeq(cmd[c].todo, 1, Len(cmd[c].todo) - 1) \in Seq(Nodes)
          /\ cmd[c].todo[Len(cmd[c].todo)] \in Nodes
      BY <2>1, FrontType DEF RollbackNext, TodoOK, TypeOK, Command
    <3>2. cmd' \in [Commands -> Command]
      <4> DEFINE rest == SubSeq(cmd[c].todo, 1, Len(cmd[c].todo) - 1)
                 r == [cmd[c] EXCEPT !.todo = rest,
                                     !.at = IF rest = <<>> THEN "write" ELSE "rollback"]
      <4>1. r \in Command
        BY <3>1 DEF TypeOK, Command
      <4>2. cmd' = [cmd EXCEPT ![c] = r]
        BY <2>1 DEF RollbackNext, TypeOK, Command
      <4> QED BY <4>1, <4>2, CommandWritten DEF TypeOK
    <3>3. TodoOK'
      BY <2>1, <3>1 DEF RollbackNext, TypeOK, Command, TodoOK
    <3>4. tried' \in [Nodes -> Nat]
      BY <2>1, <3>1 DEF RollbackNext, TypeOK
    <3> QED BY <2>1, <3>2, <3>3, <3>4
            DEF RollbackNext, TypeOK, PositionOK, runVars, stateVars, jobVars
  <2>2. CASE WriteCommand(c)
    <3>1. row' \in Row
      BY <2>2, RowWritten DEF WriteCommand, WrittenStatus, TypeOK, Statuses
    <3>2. cmd' \in [Commands -> Command] /\ TodoOK'
      BY <2>2 DEF WriteCommand, TypeOK, Command, TodoOK
    <3> QED BY <2>2, <3>1, <3>2
            DEF WriteCommand, TypeOK, PositionOK, runVars, stateVars, jobVars
  <2>3. CASE FinishCommand(c)
    <3>1. bus' \in Seq(Event)
      BY <2>3, ExecutionEventType DEF FinishCommand, CommandEvent, EventTypes
    <3>2. cmd' \in [Commands -> Command] /\ TodoOK'
      BY <2>3 DEF FinishCommand, TypeOK, Command, TodoOK
    <3> QED BY <2>3, <3>1, <3>2
            DEF FinishCommand, TypeOK, PositionOK, runVars, jobVars
  <2> QED BY <1>17, <2>1, <2>2, <2>3 DEF CommandStep
<1>18. ASSUME NEW c \in Commands, CommandFails(c)
       PROVE  TypeInv'
  <2>1. cmd' \in [Commands -> Command] /\ TodoOK'
    BY <1>18 DEF CommandFails, TypeOK, Command, TodoOK
  <2> QED BY <1>18, <2>1
          DEF CommandFails, TypeOK, PositionOK, runVars, stateVars, jobVars
<1>20. CASE UNCHANGED vars
  BY <1>20 DEF vars, TypeOK, PositionOK, TodoOK, runVars, stateVars, jobVars
<1> QED BY <1>1, <1>2, <1>3, <1>4, <1>5, <1>6, <1>7, <1>8, <1>9, <1>10, <1>12,
           <1>13, <1>14, <1>15, <1>16, <1>17, <1>18, <1>20
        DEF Next, RunStep

\* Every variable always has its type.
THEOREM TypeCorrect == Spec => []TypeInv
<1> QED BY TypeInit, TypeNext, PTL DEF Spec
-----------------------------------------------------------------------------
(***************************************************************************)
(* A row that says SUCCESS has been earned.                                *)
(***************************************************************************)

\* The nodes whose turn came before position i.
Before(i) == {Order[j] : j \in 1..(i - 1)}

\* While the run is live its settled nodes are those before its position, none
\* of the failed ones is critical, and no result is there yet.
LoopInv ==
  /\ active => pc \in LivePcs
  /\ pc \in LivePcs => result = "none" /\ failed \intersect Critical = {}
  /\ pc = "validating" => Settled = {}
  /\ pc \in NodePcs \union {"waiting"} => Settled = Before(idx)

\* A result "ok" is earned, only such a result puts SUCCESS in the row, and
\* there is none in the row from MarkRunning to the end of the loop.
EarnedInv ==
  /\ result = "ok" => /\ Settled = Nodes
                      /\ failed \intersect Critical = {}
                      /\ status # "cancelled"
  /\ pc \in LivePcs \union {"marked"} => row.status # "success"
  /\ row.status = "success" => result = "ok"

RunInv == LoopInv /\ EarnedInv

\* Taking the turn of position i adds its node to those before.
LEMMA BeforeNext ==
  ASSUME NEW i \in 1..Len(Order)
  PROVE  /\ Before(1) = {}
         /\ Before(i + 1) = Before(i) \union {Order[i]}
BY OrderedNode DEF Before

\* After the last position every node has had its turn.
LEMMA BeforeAll ==
  ASSUME NEW i \in 1..(Len(Order) + 1), i > Len(Order)
  PROVE  Before(i) = Nodes
<1>1. i = Len(Order) + 1
  BY OrderedNode
<1>2. Before(i) = {Order[j] : j \in 1..Len(Order)}
  BY <1>1, OrderedNode DEF Before
<1> QED BY <1>2, NodesAssumption

\* What the head of the loop makes of a run whose settled nodes are in order.
LEMMA LoopHeadRun ==
  ASSUME TypeOK, NEW i \in 1..(Len(Order) + 1), NEW emitted, LoopHead(i, emitted),
         result = "none", active => pc \in LivePcs,
         failed' \intersect Critical = {},
         Settled' = Before(i), status' = status,
         row'.status # "success"
  PROVE  RunInv'
<1>1. CASE ReturnResult(i, emitted) /\ i > Len(Order)
  <2>1. Settled' = Nodes
    BY <1>1, BeforeAll
  <2> QED BY <1>1, <2>1
          DEF ReturnResult, LoopResult, RunInv, LoopInv, EarnedInv, LivePcs, NodePcs
<1>2. CASE ReturnResult(i, emitted) /\ status = "cancelled"
  BY <1>2 DEF ReturnResult, LoopResult, RunInv, LoopInv, EarnedInv, LivePcs, NodePcs
<1>3. CASE WaitAt(i, emitted)
  BY <1>3 DEF WaitAt, RunInv, LoopInv, EarnedInv, LivePcs, NodePcs
<1>4. CASE StartNode(i, emitted)
  BY <1>4 DEF StartNode, RunInv, LoopInv, EarnedInv, LivePcs, NodePcs
<1> QED BY <1>1, <1>2, <1>3, <1>4 DEF LoopHead

LEMMA ReturnErrorRun ==
  ASSUME NEW emitted, ReturnError(emitted), row'.status # "success"
  PROVE  RunInv'
BY DEF ReturnError, RunInv, LoopInv, EarnedInv, LivePcs, NodePcs

LEMMA RunInit == Init => RunInv
BY DEF Init, RunInv, LoopInv, EarnedInv, LivePcs, NodePcs, Settled

\* A step that leaves the run and its state alone, and writes no SUCCESS.
LEMMA BystanderRun ==
  ASSUME TypeInv, RunInv, UNCHANGED <<pc, idx, result, status, completed, failed>>,
         active' => active,
         row'.status \in {row.status, "running", "paused", "cancelled", "failed"}
  PROVE  RunInv'
BY DEF RunInv, LoopInv, EarnedInv, Settled, Before

LEMMA RunNext == TypeInv /\ RunInv /\ [Next]_vars => RunInv'
<1> SUFFICES ASSUME TypeInv, RunInv, [Next]_vars PROVE RunInv'
  OBVIOUS
<1> USE DEF TypeInv
<1>1. CASE Deliver
  BY <1>1 DEF Deliver, RunInv, LoopInv, EarnedInv, LivePcs, NodePcs, Settled, stateVars
<1>2. CASE MarkRunning
  BY <1>2 DEF MarkRunning, RunInv, LoopInv, EarnedInv, LivePcs, NodePcs, Settled,
              stateVars, TypeOK, Row
<1>3. CASE CreateExecutionState
  BY <1>3 DEF CreateExecutionState, RunInv, LoopInv, EarnedInv, LivePcs, NodePcs,
              Settled
<1>4. CASE ValidateFlow
  <2>1. /\ result = "none" /\ failed' \intersect Critical = {}
        /\ Settled' = {} /\ status' = status /\ row'.status # "success"
        /\ active => pc \in LivePcs
    BY <1>4 DEF ValidateFlow, RunInv, LoopInv, EarnedInv, LivePcs, Settled
  <2>2. 1 \in 1..(Len(Order) + 1) /\ Before(1) = {}
    BY OrderedNode DEF Before
  <2>3. CASE LoopHead(1, <<>>)
    BY <2>1, <2>2, <2>3, LoopHeadRun
  <2>4. CASE ReturnError(<<>>)
    BY <2>1, <2>4, ReturnErrorRun
  <2> QED BY <1>4, <2>3, <2>4 DEF ValidateFlow
<1>5. CASE LeaveWait
  BY <1>5 DEF LeaveWait, StartNode, RunInv, LoopInv, EarnedInv, LivePcs, NodePcs,
              Settled, Before
<1>5b. CASE CollectInputsThrows
  <2>1. row'.status # "success"
    BY <1>5b DEF CollectInputsThrows, RunInv, LoopInv, EarnedInv, LivePcs, NodePcs
  <2> QED BY <1>5b, <2>1, ReturnErrorRun DEF CollectInputsThrows
<1>6. CASE CheckNode \/ BodyEnds
  <2>1. /\ pc \in NodePcs /\ pc' \in NodePcs
        /\ UNCHANGED <<idx, result, active, status, completed, failed, row>>
    BY <1>6 DEF CheckNode, BodyEnds, NodePcs, stateVars
  <2> QED BY <2>1 DEF RunInv, LoopInv, EarnedInv, LivePcs, NodePcs, Settled, Before
<1>7. CASE RecordNode
  <2> DEFINE n == Order[idx]
             said == <<NodeEvent("execution.node.completed", n,
             SuccessIf(outcome = "ok"))>>
             broken == said \o <<NodeEvent("execution.node.failed", n, "failed")>>
  <2>1. idx \in 1..Len(Order) /\ idx + 1 \in 1..(Len(Order) + 1)
    BY <1>7, OrderedNode DEF RecordNode, PositionOK, NodePcs
  <2>2. /\ result = "none" /\ failed \intersect Critical = {}
        /\ Settled = Before(idx) /\ row.status # "success"
        /\ active => pc \in LivePcs
    BY <1>7 DEF RecordNode, RunInv, LoopInv, EarnedInv, LivePcs, NodePcs
  <2>3. row'.status # "success"
    BY <1>7, <2>2 DEF RecordNode, LogNodeExecution, LoggedStatus, TypeOK, Row
  <2>4. Settled' = Before(idx + 1)
    <3>1. Settled' = Settled \union {n}
      BY <1>7 DEF RecordNode, Settled
    <3> QED BY <2>1, <2>2, <3>1, BeforeNext
  <2>5. status' = status
    BY <1>7 DEF RecordNode
  <2> HIDE DEF said, broken
  <2>6. CASE ReturnError(broken)
    BY <2>3, <2>6, ReturnErrorRun
  <2>7. CASE LoopHead(idx + 1, said) /\ failed' \intersect Critical = {}
    BY <2>1, <2>2, <2>3, <2>4, <2>5, <2>7, LoopHeadRun
  <2>8. ReturnError(broken) \/ (LoopHead(idx + 1,
  said) /\ failed' \intersect Critical = {})
    <3>1. CASE outcome = "ok"
      BY <1>7, <2>2, <3>1 DEF RecordNode, said
    <3>2. CASE outcome # "ok"
      BY <1>7, <2>2, <3>2 DEF RecordNode, said, broken
    <3> QED BY <3>1, <3>2
  <2> QED BY <2>6, <2>7, <2>8
<1>8. CASE WriteOutcome
  BY <1>8 DEF WriteOutcome, OutcomeStatus, RunInv, LoopInv, EarnedInv, LivePcs,
              NodePcs, Settled,
              stateVars, TypeOK, Row
<1>9. CASE StoreResults
  BY <1>9 DEF StoreResults, RunInv, LoopInv, EarnedInv, LivePcs, NodePcs, Settled,
              stateVars, TypeOK, Row
<1>10. CASE ProcessorThrows
  <2>1. row'.status = row.status
    BY <1>10 DEF ProcessorThrows, TypeOK, Row
  <2>2. pc' = "failing" /\ UNCHANGED <<idx, result, stateVars>>
    BY <1>10 DEF ProcessorThrows
  <2>3. active = FALSE
    BY <1>10 DEF ProcessorThrows, RunInv, LoopInv, LivePcs, NodePcs, TypeOK
  <2> QED BY <2>1, <2>2, <2>3
          DEF RunInv, LoopInv, EarnedInv, LivePcs, NodePcs, Settled, stateVars
<1>11. CASE HandleThrow
  <2>1. row'.status \in {row.status, "failed"}
    BY <1>11 DEF HandleThrow, TypeOK, Row
  <2>2. pc' \in {"queued", "dead"} /\ UNCHANGED <<idx, result, stateVars>>
    BY <1>11 DEF HandleThrow, RetryOrGiveUp
  <2>3. active = FALSE
    BY <1>11 DEF HandleThrow, RunInv, LoopInv, LivePcs, NodePcs, TypeOK
  <2> QED BY <2>1, <2>2, <2>3
          DEF RunInv, LoopInv, EarnedInv, LivePcs, NodePcs, Settled, stateVars
<1>12. CASE Crash
  <2>1. /\ pc' \in {"queued", "dead"} /\ active' = FALSE
        /\ UNCHANGED <<idx, result, status, completed, failed, row>>
    BY <1>12 DEF Crash
  <2> QED BY <2>1 DEF RunInv, LoopInv, EarnedInv, LivePcs, NodePcs, Settled
<1>13. ASSUME NEW c \in Commands, BeginCancel(c)
       PROVE  RunInv'
  <2>1. /\ pc \in LivePcs /\ result = "none" /\ row.status # "success"
    BY <1>13 DEF BeginCancel, AbortNode, RunInv, LoopInv, EarnedInv
  <2>2. /\ pc' = pc \/ (pc = "executing" /\ pc' = "logging")
        /\ UNCHANGED <<idx, result, active, completed, failed, row>>
    BY <1>13 DEF BeginCancel, AbortNode
  <2> QED BY <2>1, <2>2 DEF RunInv, LoopInv, EarnedInv, LivePcs, NodePcs, Settled,
                            Before
<1>14. ASSUME NEW c \in Commands, BeginPause(c) \/ BeginResume(c)
       PROVE  RunInv'
  <2>1. active /\ UNCHANGED <<pc, idx, result, active, completed, failed, row>>
    BY <1>14 DEF BeginPause, BeginResume, SwitchStatus, runVars
  <2>2. pc \in LivePcs /\ result = "none" /\ row.status # "success"
    BY <2>1 DEF RunInv, LoopInv, EarnedInv
  <2> QED BY <2>1, <2>2 DEF RunInv, LoopInv, EarnedInv, Settled, Before
<1>15. ASSUME NEW c \in Commands, CommandStep(c) \/ CommandFails(c)
       PROVE  RunInv'
  <2>1. UNCHANGED <<pc, idx, result, status, completed, failed>>
    BY <1>15 DEF CommandStep, RollbackNext, WriteCommand, FinishCommand, CommandFails,
                 runVars, stateVars
  <2>3. active' => active
    BY <1>15 DEF CommandStep, RollbackNext, WriteCommand, FinishCommand, CommandFails,
                 stateVars
  <2>2. row'.status \in {row.status, "running", "paused", "cancelled"}
    BY <1>15 DEF CommandStep, RollbackNext, WriteCommand, FinishCommand, CommandFails,
                 WrittenStatus, TypeOK, Row
  <2> QED BY <2>1, <2>2, <2>3, BystanderRun
<1>16. CASE UNCHANGED vars
  <2>1. UNCHANGED <<pc, idx, result, status, completed, failed, active, row>>
    BY <1>16 DEF vars, runVars, stateVars
  <2> QED BY <2>1, BystanderRun
<1> QED BY <1>1, <1>2, <1>3, <1>4, <1>5, <1>5b, <1>6, <1>7, <1>8, <1>9, <1>10,
           <1>11, <1>12, <1>13, <1>14, <1>15, <1>16
        DEF Next, RunStep, BeginCommand

LEMMA RunCorrect == Spec => []RunInv
<1> QED BY RunInit, RunNext, TypeCorrect, PTL DEF Spec

\* A row that says SUCCESS stands for a run that settled every node of the flow
\* without a critical failure.
THEOREM SuccessEarned == Spec => []SuccessIsEarned
<1>1. RunInv => SuccessIsEarned
  BY DEF RunInv, EarnedInv, SuccessIsEarned
<1> QED BY <1>1, RunCorrect, PTL

\* A delivery in which a cancel was accepted never ends as SUCCESS.
THEOREM CancelIsNoSuccess == Spec => []CancelNeverSucceeds
<1>1. RunInv => CancelNeverSucceeds
  BY DEF RunInv, EarnedInv, CancelNeverSucceeds
<1> QED BY <1>1, RunCorrect, PTL
-----------------------------------------------------------------------------
(***************************************************************************)
(* A run implements ExecutionLifecycle.                                    *)
(***************************************************************************)

\* A step of the lifecycle, or none.
LifecycleStep == [Lifecycle!Next]_(Lifecycle!lifecycleVars)

\* The head of the loop starts the next node, ends the run or waits.
LEMMA LoopHeadRefines ==
  ASSUME TypeOK, NEW i \in 1..(Len(Order) + 1), NEW emitted, LoopHead(i, emitted),
         pc \in LivePcs, result = "none",
         Settled \union CurrentNode = Before(i), Settled' = Before(i),
         status' = status
  PROVE  LifecycleStep
<1>1. ASSUME NEW p, p \notin NodePcs, pc' = p PROVE CurrentNode' = {}
  BY <1>1 DEF CurrentNode
<1>2. CASE ReturnResult(i, emitted) /\ status = "cancelled"
  <2>1. CurrentNode' = {}
    BY <1>1, <1>2 DEF ReturnResult, LoopResult, NodePcs
  <2>2. Lifecycle!Fail
    BY <1>2, <2>1 DEF ReturnResult, LoopResult, Lifecycle!Fail, LivePcs, NodePcs
  <2> QED BY <2>2 DEF LifecycleStep, Lifecycle!Next
<1>3. CASE ReturnResult(i, emitted) /\ i > Len(Order) /\ status # "cancelled"
  <2>1. CurrentNode' = {}
    BY <1>1, <1>3 DEF ReturnResult, LoopResult, NodePcs
  <2>2. Before(i) = Nodes
    BY <1>3, BeforeAll
  <2>3. Lifecycle!Succeed
    BY <1>3, <2>1, <2>2 DEF ReturnResult, LoopResult, Lifecycle!Succeed, LivePcs,
                            NodePcs
  <2> QED BY <2>3 DEF LifecycleStep, Lifecycle!Next
<1>4. CASE WaitAt(i, emitted)
  <2>1. CurrentNode' = {}
    BY <1>1, <1>4 DEF WaitAt, NodePcs
  <2> QED BY <1>4, <2>1
          DEF WaitAt, LifecycleStep, Lifecycle!lifecycleVars, LivePcs, NodePcs
<1>5. CASE StartNode(i, emitted) /\ i <= Len(Order) /\ status = "running"
  <2>1. CurrentNode' = {Order[i]}
    BY <1>5 DEF StartNode, CurrentNode, NodePcs
  <2>2. Lifecycle!Start(i)
    BY <1>5, <2>1 DEF StartNode, Lifecycle!Start, LivePcs, NodePcs, Before
  <2>3. i \in 1..Len(Order)
    BY <1>5, OrderedNode
  <2> QED BY <2>2, <2>3 DEF LifecycleStep, Lifecycle!Next
<1> QED BY <1>2, <1>3, <1>4, <1>5 DEF LoopHead

\* An error ends the run in failure.
LEMMA ReturnErrorRefines ==
  ASSUME NEW emitted, ReturnError(emitted), pc \in LivePcs,
         Settled \union CurrentNode = Settled', status' = status
  PROVE  LifecycleStep
<1>1. CurrentNode' = {}
  BY DEF ReturnError, CurrentNode, NodePcs
<1>2. Lifecycle!Fail
  BY <1>1 DEF ReturnError, Lifecycle!Fail, LivePcs, NodePcs
<1> QED BY <1>2 DEF LifecycleStep, Lifecycle!Next

\* Steps that neither open nor close a run, nor change what it has started.
LEMMA Stutters ==
  ASSUME UNCHANGED <<idx, result, status, completed, failed>>,
         \/ pc \in NodePcs /\ pc' \in NodePcs
         \/ pc \notin LivePcs /\ pc' \notin LivePcs
         \/ pc' = pc
  PROVE  LifecycleStep
BY DEF LifecycleStep, Lifecycle!lifecycleVars, Settled, CurrentNode, LivePcs, NodePcs

LEMMA RefineInit == Init => Lifecycle!Init
BY DEF Init, Lifecycle!Init, Settled, CurrentNode, LivePcs, NodePcs

LEMMA RefineNext == TypeInv /\ RunInv /\ [Next]_vars => LifecycleStep
<1> SUFFICES ASSUME TypeInv, RunInv, [Next]_vars PROVE LifecycleStep
  OBVIOUS
<1> USE DEF TypeInv
<1>1. CASE Deliver \/ MarkRunning \/ WriteOutcome \/ StoreResults
  BY <1>1, Stutters
     DEF Deliver, MarkRunning, WriteOutcome, StoreResults, stateVars, LivePcs, NodePcs
<1>2. CASE CreateExecutionState
  <2>1. Settled' = {} /\ CurrentNode' = {}
    BY <1>2 DEF CreateExecutionState, Settled, CurrentNode, NodePcs
  <2>2. Lifecycle!Open
    BY <1>2, <2>1 DEF CreateExecutionState, Lifecycle!Open, LivePcs, NodePcs
  <2> QED BY <2>2 DEF LifecycleStep, Lifecycle!Next
<1>3. CASE ValidateFlow
  <2>1. /\ pc \in LivePcs /\ result = "none" /\ status' = status
        /\ Settled = {} /\ Settled' = {} /\ CurrentNode = {}
    BY <1>3 DEF ValidateFlow, RunInv, LoopInv, LivePcs, NodePcs, Settled, CurrentNode
  <2>2. 1 \in 1..(Len(Order) + 1) /\ Before(1) = {}
    BY OrderedNode DEF Before
  <2>3. CASE LoopHead(1, <<>>)
    BY <2>1, <2>2, <2>3, LoopHeadRefines
  <2>4. CASE ReturnError(<<>>)
    BY <2>1, <2>4, ReturnErrorRefines
  <2> QED BY <1>3, <2>3, <2>4 DEF ValidateFlow
<1>4. CASE LeaveWait
  <2>1. idx \in 1..Len(Order) /\ Settled = Before(idx)
    BY <1>4, OrderedNode DEF LeaveWait, PositionOK, RunInv, LoopInv
  <2>2. CurrentNode = {} /\ CurrentNode' = {Order[idx]} /\ Settled' = Settled
    BY <1>4 DEF LeaveWait, StartNode, CurrentNode, NodePcs, Settled
  <2>3. Lifecycle!Start(idx)
    BY <1>4, <2>1, <2>2
       DEF LeaveWait, Resumed, StartNode, Lifecycle!Start, LivePcs, NodePcs, Before
  <2> QED BY <2>1, <2>3 DEF LifecycleStep, Lifecycle!Next
<1>4b. CASE CollectInputsThrows
  <2>1. /\ pc \in LivePcs /\ status' = status
        /\ Settled \union CurrentNode = Settled'
    BY <1>4b DEF CollectInputsThrows, Settled, CurrentNode, LivePcs, NodePcs
  <2> QED BY <1>4b, <2>1, ReturnErrorRefines DEF CollectInputsThrows
<1>5. CASE CheckNode \/ BodyEnds
  <2>1. /\ pc \in NodePcs /\ pc' \in NodePcs
        /\ UNCHANGED <<idx, result, status, completed, failed>>
    BY <1>5 DEF CheckNode, BodyEnds, NodePcs, stateVars
  <2> QED BY <2>1, Stutters
<1>6. CASE RecordNode
  <2> DEFINE n == Order[idx]
             said == <<NodeEvent("execution.node.completed", n,
             SuccessIf(outcome = "ok"))>>
             broken == said \o <<NodeEvent("execution.node.failed", n, "failed")>>
  <2>1. idx \in 1..Len(Order) /\ idx + 1 \in 1..(Len(Order) + 1)
    BY <1>6, OrderedNode DEF RecordNode, PositionOK, NodePcs
  <2>2. /\ pc \in LivePcs /\ result = "none" /\ Settled = Before(idx)
        /\ status' = status
    BY <1>6 DEF RecordNode, RunInv, LoopInv, LivePcs, NodePcs
  <2>3. Settled' = Settled \union {n}
    BY <1>6 DEF RecordNode, Settled
  <2>4. CurrentNode = {n}
    BY <1>6 DEF RecordNode, CurrentNode, NodePcs
  <2>5. Before(idx + 1) = Before(idx) \union {n}
    BY <2>1, BeforeNext
  <2> HIDE DEF said, broken
  <2>6. CASE ReturnError(broken)
    BY <2>2, <2>3, <2>4, <2>6, ReturnErrorRefines
  <2>7. CASE LoopHead(idx + 1, said)
    BY <2>1, <2>2, <2>3, <2>4, <2>5, <2>7, LoopHeadRefines
  <2> QED BY <1>6, <2>6, <2>7 DEF RecordNode, said, broken
<1>7. CASE ProcessorThrows \/ HandleThrow
  BY <1>7, Stutters
     DEF ProcessorThrows, HandleThrow, RetryOrGiveUp, stateVars, LivePcs, NodePcs
<1>8. CASE Crash
  <2>1. CASE pc \in LivePcs
    <3>1. Settled' = Settled /\ CurrentNode' = {}
      BY <1>8 DEF Crash, Settled, CurrentNode, NodePcs
    <3>2. Lifecycle!Vanish
      BY <1>8, <2>1, <3>1 DEF Crash, Lifecycle!Vanish, LivePcs, NodePcs
    <3> QED BY <3>2 DEF LifecycleStep, Lifecycle!Next
  <2>2. CASE pc \notin LivePcs
    BY <1>8, <2>2, Stutters DEF Crash, LivePcs, NodePcs
  <2> QED BY <2>1, <2>2
<1>9. ASSUME NEW c \in Commands, BeginCommand(c)
      PROVE  LifecycleStep
  <2>1. pc \in LivePcs
    BY <1>9 DEF BeginCommand, BeginCancel, AbortNode, BeginPause, BeginResume,
                SwitchStatus,
                RunInv, LoopInv
  <2>2. /\ pc' \in LivePcs /\ Settled' = Settled /\ result' = result
        /\ CurrentNode' = CurrentNode
    BY <1>9, <2>1 DEF BeginCommand, BeginCancel, AbortNode, BeginPause, BeginResume,
                      SwitchStatus,
                      runVars, Settled, CurrentNode, LivePcs, NodePcs
  <2>3. \/ status \in {"running", "paused"} /\ status' = "cancelled"
        \/ status = "running" /\ status' = "paused"
        \/ status = "paused" /\ status' = "running"
        \/ status' = status
    BY <1>9 DEF BeginCommand, BeginCancel, AbortNode, BeginPause, BeginResume,
                SwitchStatus, TypeOK
  <2>4. \/ Lifecycle!Cancel \/ Lifecycle!Pause \/ Lifecycle!Resume
        \/ UNCHANGED Lifecycle!lifecycleVars
    BY <2>1, <2>2, <2>3 DEF Lifecycle!Cancel, Lifecycle!Pause, Lifecycle!Resume,
                            Lifecycle!Switch, Lifecycle!lifecycleVars
  <2> QED BY <2>4 DEF LifecycleStep, Lifecycle!Next
<1>10. CASE \/ \E c \in Commands : CommandStep(c) \/ CommandFails(c)
            \/ UNCHANGED vars
  <2>1. UNCHANGED <<pc, idx, result, status, completed, failed>>
    BY <1>10 DEF CommandStep, RollbackNext, WriteCommand, FinishCommand, CommandFails,
                 vars, runVars, stateVars
  <2> QED BY <2>1, Stutters
<1> QED BY <1>1, <1>2, <1>3, <1>4, <1>4b, <1>5, <1>6, <1>7, <1>8, <1>9, <1>10
        DEF Next, RunStep

\* Every run the engine makes is a run of the lifecycle: nodes start one by one,
\* in order and only while RUNNING; CANCELLED is final for the run; success is
\* for a run that was not cancelled and started every node.
THEOREM RunImplementsLifecycle == Spec => ImplementsLifecycle
<1> QED BY RefineInit, RefineNext, TypeCorrect, RunCorrect, PTL
        DEF Spec, ImplementsLifecycle, Lifecycle!Spec, LifecycleStep
-----------------------------------------------------------------------------
(***************************************************************************)
(* What a cancel leaves undone.                                            *)
(***************************************************************************)

Elements(s) == {s[i] : i \in 1..Len(s)}

\* While the run is live its rollback stack holds the nodes there is to undo.
StackInv == pc \in LivePcs => Elements(rollbackStack) = completed \intersect Rollbackable

\* A cancel of this delivery that has not failed.
Cancelling(c) ==
  /\ cmd[c].kind = "cancel"
  /\ cmd[c].at \in {"rollback", "write", "finish", "done"}
  /\ cmd[c].of = Delivery

\* What is left done and not on the way to be undone: nothing while the run has
\* not left its loop, at most one node after it did.
UndoInv(c) ==
  /\ cmd[c].of \in 0..Delivery
  /\ Cancelling(c) =>
       /\ pc \notin {"queued", "begun", "marked"} /\ status = "cancelled"
       /\ pc \in LivePcs => LeftDone \subseteq Elements(cmd[c].todo)
       /\ \A m, n \in LeftDone \ Elements(cmd[c].todo) : m = n
       /\ cmd[c].at # "rollback" => cmd[c].todo = <<>>

CancelInv == StackInv /\ \A c \in Commands : UndoInv(c)

\* What the operations of the rollback stack do to its elements.
LEMMA ElementsOf ==
  ASSUME NEW S, NEW s \in Seq(S)
  PROVE  /\ Elements(<<>>) = {}
         /\ \A e \in S : Elements(Append(s, e)) = Elements(s) \union {e}
         /\ s # <<>> =>
              Elements(s) = Elements(SubSeq(s, 1, Len(s) - 1)) \union {s[Len(s)]}
<1>1. Elements(<<>>) = {}
  BY DEF Elements
<1>2. ASSUME NEW e \in S
      PROVE  Elements(Append(s, e)) = Elements(s) \union {e}
  <2> DEFINE t == Append(s, e)
  <2>1. Len(t) = Len(s) + 1 /\ t[Len(s) + 1] = e /\ \A i \in 1..Len(s) : t[i] = s[i]
    OBVIOUS
  <2>2. 1..(Len(s) + 1) = (1..Len(s)) \union {Len(s) + 1}
    OBVIOUS
  <2> QED BY <2>1, <2>2 DEF Elements
<1>3. ASSUME s # <<>>
      PROVE  Elements(s) = Elements(SubSeq(s, 1, Len(s) - 1)) \union {s[Len(s)]}
  <2> DEFINE t == SubSeq(s, 1, Len(s) - 1)
  <2>1. Len(s) \in Nat /\ Len(s) > 0
    BY <1>3
  <2>2. Len(t) = Len(s) - 1
    <3>1. CASE Len(s) = 1
      BY <3>1
    <3>2. CASE Len(s) > 1
      BY <3>2
    <3>3. \A k \in Nat : k > 0 => k = 1 \/ k > 1
      OBVIOUS
    <3>4. Len(s) = 1 \/ Len(s) > 1
      BY <2>1, <3>3, Zenon
    <3> HIDE DEF t
    <3> QED BY <3>1, <3>2, <3>4
  <2>4. \A i \in 1..(Len(s) - 1) : t[i] = s[i]
    BY <2>1
  <2>3. 1..Len(s) = (1..(Len(s) - 1)) \union {Len(s)}
    BY <2>1
  <2> QED BY <2>2, <2>3, <2>4 DEF Elements
<1> QED BY <1>1, <1>2, <1>3

LEMMA StackNext == TypeInv /\ StackInv /\ [Next]_vars => StackInv'
<1> SUFFICES ASSUME TypeInv, StackInv, [Next]_vars PROVE StackInv'
  OBVIOUS
<1> USE DEF TypeInv
<1>1. CASE CreateExecutionState
  BY <1>1 DEF CreateExecutionState, StackInv, Elements
<1>2. CASE RecordNode
  <2> DEFINE n == Order[idx]
  <2>1. pc \in LivePcs /\ n \in Nodes
    BY <1>2, OrderedNode DEF RecordNode, PositionOK, LivePcs, NodePcs
  <2>2. CASE outcome = "ok" /\ n \in Rollbackable
    <3>1. /\ rollbackStack' = Append(rollbackStack, n)
          /\ completed' = completed \union {n}
      BY <1>2, <2>2 DEF RecordNode
    <3>2. Elements(rollbackStack') = Elements(rollbackStack) \union {n}
      BY <2>1, <3>1, ElementsOf DEF TypeOK
    <3> QED BY <2>1, <2>2, <3>1, <3>2 DEF StackInv
  <2>3. CASE outcome = "ok" /\ n \notin Rollbackable
    BY <1>2, <2>1, <2>3 DEF RecordNode, StackInv
  <2>4. CASE outcome # "ok"
    BY <1>2, <2>1, <2>4 DEF RecordNode, StackInv
  <2> QED BY <2>2, <2>3, <2>4
<1>3. CASE \/ Deliver \/ MarkRunning \/ ValidateFlow \/ LeaveWait \/ CheckNode
           \/ CollectInputsThrows \/ BodyEnds \/ WriteOutcome \/ StoreResults
           \/ ProcessorThrows \/ HandleThrow \/ Crash
           \/ \E c \in Commands : BeginCommand(c) \/ CommandStep(c) \/ CommandFails(c)
           \/ UNCHANGED vars
  <2>1. UNCHANGED <<completed, rollbackStack>>
    BY <1>3 DEF Deliver, MarkRunning, ValidateFlow, LeaveWait, CheckNode, BodyEnds,
       CollectInputsThrows, WriteOutcome, StoreResults, ProcessorThrows, HandleThrow,
       Crash,
       BeginCommand, BeginCancel, BeginPause, BeginResume, SwitchStatus, CommandStep,
       RollbackNext, WriteCommand, FinishCommand, CommandFails, vars,
       stateVars
  <2>2. pc' \in LivePcs => pc \in LivePcs
    <3>1. CASE \/ ValidateFlow \/ LeaveWait \/ CheckNode \/ BodyEnds
               \/ CollectInputsThrows
      BY <3>1 DEF ValidateFlow, LeaveWait, CheckNode, BodyEnds, CollectInputsThrows,
                  LivePcs, NodePcs
    <3>2. CASE \/ Deliver \/ MarkRunning \/ WriteOutcome \/ StoreResults
               \/ ProcessorThrows \/ HandleThrow \/ Crash
      BY <3>2 DEF Deliver, MarkRunning, WriteOutcome, StoreResults, ProcessorThrows,
                  HandleThrow, RetryOrGiveUp, Crash, LivePcs, NodePcs
    <3>3. CASE \/ \E c \in Commands : BeginCommand(c) \/ CommandStep(c) \/ CommandFails(c)
               \/ UNCHANGED vars
      BY <3>3 DEF BeginCommand, BeginCancel, AbortNode, BeginPause, BeginResume,
                  SwitchStatus,
                  CommandStep, RollbackNext, WriteCommand, FinishCommand, CommandFails,
                  vars, runVars, LivePcs, NodePcs
    <3> QED BY <1>3, <3>1, <3>2, <3>3
  <2> QED BY <2>1, <2>2 DEF StackInv
<1> QED BY <1>1, <1>2, <1>3 DEF Next, RunStep

\* A call that does not move keeps its invariant while less is left done and the
\* run does not begin anew.
LEMMA UndoKept ==
  ASSUME NEW c \in Commands, UndoInv(c),
         cmd'[c] = cmd[c], Delivery' = Delivery, LeftDone' \subseteq LeftDone,
         status' \in {status, "cancelled"},
         pc' \in {"queued", "begun", "marked"} => pc \in {"queued", "begun", "marked"},
         pc' \in LivePcs => pc \in LivePcs
  PROVE  UndoInv(c)'
BY DEF UndoInv, Cancelling

LEMMA UndoNext ==
  ASSUME TypeInv, RunInv, StackInv, [Next]_vars, NEW c \in Commands, UndoInv(c)
  PROVE  UndoInv(c)'
<1> USE DEF TypeInv
<1>0. Delivery \in Nat
  BY DEF Delivery, TypeOK
<1>1. CASE \/ Deliver \/ MarkRunning \/ ValidateFlow \/ LeaveWait \/ CheckNode
           \/ CollectInputsThrows \/ BodyEnds \/ WriteOutcome \/ StoreResults
           \/ ProcessorThrows \/ UNCHANGED vars
  <2>1. UNCHANGED <<completed, tried, cmd, jobVars, status>>
    BY <1>1 DEF Deliver, MarkRunning, ValidateFlow, LeaveWait, CheckNode, BodyEnds,
                CollectInputsThrows, WriteOutcome, StoreResults, ProcessorThrows,
                vars, stateVars
  <2>2. LeftDone' = LeftDone /\ Delivery' = Delivery
    BY <2>1 DEF LeftDone, Delivery, jobVars
  <2>3. /\ pc' \in {"queued", "begun", "marked"} => pc \in {"queued", "begun", "marked"}
        /\ pc' \in LivePcs => pc \in LivePcs
    <3>1. CASE \/ ValidateFlow \/ LeaveWait \/ CheckNode \/ BodyEnds
               \/ CollectInputsThrows
      BY <3>1 DEF CollectInputsThrows, ValidateFlow, LoopHead, ReturnResult,
                  LoopResult, ReturnError, WaitAt, StartNode,
                  LeaveWait, CheckNode, BodyEnds, LivePcs, NodePcs
    <3>2. CASE \/ Deliver \/ MarkRunning \/ WriteOutcome \/ StoreResults
               \/ ProcessorThrows \/ UNCHANGED vars
      BY <3>2 DEF Deliver, MarkRunning, WriteOutcome, StoreResults, ProcessorThrows,
                  vars, runVars, LivePcs, NodePcs
    <3> QED BY <1>1, <3>1, <3>2
  <2> QED BY <2>1, <2>2, <2>3, UndoKept
<1>2. CASE CreateExecutionState
  <2>1. ~Cancelling(c) /\ cmd' = cmd /\ Delivery' = Delivery
    BY <1>2 DEF CreateExecutionState, UndoInv, Delivery, jobVars
  <2> QED BY <2>1 DEF UndoInv, Cancelling
<1>3. CASE RecordNode
  <2> DEFINE n == Order[idx]
  <2>1. cmd' = cmd /\ Delivery' = Delivery /\ status' = status
    BY <1>3 DEF RecordNode, Delivery, jobVars
  <2>2. LeftDone' \subseteq LeftDone \union {n}
    BY <1>3 DEF RecordNode, LeftDone
  <2>3. CASE ~Cancelling(c)
    BY <2>1, <2>3 DEF UndoInv, Cancelling
  <2>4. CASE Cancelling(c)
    <3>1. status = "cancelled" /\ LeftDone \subseteq Elements(cmd[c].todo)
      BY <1>3, <2>4 DEF UndoInv, RecordNode, LivePcs, NodePcs
    <3>2. pc' = "finishing"
      BY <1>3, <3>1 DEF RecordNode, LoopHead, ReturnResult, LoopResult, ReturnError
    <3>3. \A m, k \in LeftDone' \ Elements(cmd[c].todo) : m = k
      BY <2>2, <3>1
    <3> QED BY <2>1, <2>4, <3>1, <3>2, <3>3 DEF UndoInv, Cancelling, LivePcs, NodePcs
  <2> QED BY <2>3, <2>4
<1>4. CASE HandleThrow
  <2>1. /\ UNCHANGED <<completed, tried, cmd, status, crashes>>
        /\ pc' = "dead" \/ pc' = "queued"
    BY <1>4 DEF HandleThrow, RetryOrGiveUp, stateVars
  <2>2. CASE retries' = retries + 1
    BY <1>0, <2>1, <2>2 DEF UndoInv, Cancelling, Delivery, TypeOK
  <2>3. CASE retries' = retries /\ pc' = "dead"
    <3>1. LeftDone' = LeftDone /\ Delivery' = Delivery
      BY <2>1, <2>3 DEF LeftDone, Delivery
    <3> QED BY <2>1, <2>3, <3>1, UndoKept DEF LivePcs, NodePcs
  <2> QED BY <1>4, <2>2, <2>3 DEF HandleThrow, RetryOrGiveUp
<1>5. CASE Crash
  <2>1. cmd'[c].of = cmd[c].of
    BY <1>5 DEF Crash, TypeOK, Command
  <2>2. Delivery' = Delivery + 1
    BY <1>5 DEF Crash, Delivery, TypeOK
  <2> QED BY <1>0, <2>1, <2>2 DEF UndoInv, Cancelling
<1>6. ASSUME NEW d \in Commands, BeginCancel(d)
      PROVE  UndoInv(c)'
  <2>1. /\ pc \in LivePcs /\ pc' \in LivePcs /\ status' = "cancelled"
        /\ UNCHANGED <<completed, tried, jobVars>>
    BY <1>6 DEF BeginCancel, AbortNode, RunInv, LoopInv, LivePcs, NodePcs
  <2>2. LeftDone' = LeftDone /\ Delivery' = Delivery
    BY <2>1 DEF LeftDone, Delivery, jobVars
  <2>3. CASE c # d
    BY <1>6, <2>1, <2>2, <2>3, UndoKept DEF BeginCancel, AbortNode, TypeOK
  <2>4. CASE c = d
    <3>1. /\ cmd'[c].todo = rollbackStack /\ cmd'[c].of = Delivery
          /\ cmd'[c].at = "rollback" \/ cmd'[c].todo = <<>>
      BY <1>6, <2>4 DEF BeginCancel, AbortNode, TypeOK, Command
    <3>2. LeftDone' \subseteq Elements(cmd'[c].todo)
      BY <2>1, <2>2, <3>1 DEF StackInv, LeftDone
    <3> QED BY <1>0, <2>1, <2>2, <3>1, <3>2
            DEF UndoInv, Cancelling, LivePcs, NodePcs
  <2> QED BY <2>3, <2>4
<1>7. ASSUME NEW d \in Commands, BeginPause(d) \/ BeginResume(d)
      PROVE  UndoInv(c)'
  <2>1. status # "cancelled" /\ Delivery' = Delivery
    BY <1>7 DEF BeginPause, BeginResume, SwitchStatus, Delivery, jobVars
  <2>2. ~Cancelling(c)
    BY <2>1 DEF UndoInv
  <2>3. CASE c # d
    <3>1. cmd'[c] = cmd[c]
      BY <1>7, <2>3 DEF BeginPause, BeginResume, SwitchStatus, TypeOK
    <3> QED BY <2>1, <2>2, <3>1 DEF UndoInv, Cancelling
  <2>4. CASE c = d
    <3>1. cmd'[c].of = Delivery /\ cmd'[c].kind # "cancel"
      BY <1>7, <2>4 DEF BeginPause, BeginResume, SwitchStatus, TypeOK
    <3> QED BY <1>0, <2>1, <3>1 DEF UndoInv, Cancelling
  <2> QED BY <2>3, <2>4
<1>8. ASSUME NEW d \in Commands, RollbackNext(d)
      PROVE  UndoInv(c)'
  <2> DEFINE todo == cmd[d].todo
             n == todo[Len(todo)]
             rest == SubSeq(todo, 1, Len(todo) - 1)
  <2>1. UNCHANGED <<pc, status, completed>> /\ Delivery' = Delivery
    BY <1>8 DEF RollbackNext, Delivery, runVars, stateVars, jobVars
  <2>2. todo \in Seq(Nodes) /\ todo # <<>> /\ n \in Nodes
    BY <1>8, FrontType DEF RollbackNext, TypeOK, Command, TodoOK
  <2>3. LeftDone' \subseteq LeftDone
    BY <1>8, <2>1, <2>2 DEF RollbackNext, LeftDone, TypeOK
  <2>4. CASE c # d
    <3>1. cmd'[c] = cmd[c]
      BY <1>8, <2>4 DEF RollbackNext, TypeOK
    <3> QED BY <2>1, <2>3, <3>1, UndoKept
  <2>5. CASE c = d /\ ~Cancelling(c)
    BY <1>8, <2>1, <2>5 DEF RollbackNext, UndoInv, Cancelling, TypeOK, Command
  <2>6. CASE c = d /\ Cancelling(c)
    <3>1. /\ cmd'[c].todo = rest /\ cmd'[c].of = cmd[c].of
          /\ cmd'[c].at = "rollback" \/ rest = <<>>
      BY <1>8, <2>6 DEF RollbackNext, TypeOK, Command
    <3>2. n \notin LeftDone'
      BY <1>8, <2>2, <2>6 DEF RollbackNext, LeftDone, TypeOK, Cancelling
    <3>3. Elements(todo) = Elements(rest) \union {n}
      BY <2>2, ElementsOf
    <3>4. LeftDone' \ Elements(rest) \subseteq LeftDone \ Elements(todo)
      BY <2>3, <3>2, <3>3
    <3> HIDE DEF rest, n
    <3>5. /\ pc' \in LivePcs => LeftDone' \subseteq Elements(rest)
          /\ \A m, k \in LeftDone' \ Elements(rest) : m = k
      BY <2>1, <2>3, <2>6, <3>2, <3>3, <3>4 DEF UndoInv
    <3> QED BY <2>1, <2>6, <3>1, <3>5 DEF UndoInv
  <2> QED BY <2>4, <2>5, <2>6
<1>9. ASSUME NEW d \in Commands, WriteCommand(d) \/ FinishCommand(d) \/ CommandFails(d)
      PROVE  UndoInv(c)'
  <2>1. /\ UNCHANGED <<pc, status, completed, tried>> /\ Delivery' = Delivery
        /\ LeftDone' = LeftDone
    BY <1>9 DEF WriteCommand, FinishCommand, CommandFails, Delivery, LeftDone,
                runVars, stateVars, jobVars
  <2>2. CASE c # d
    <3>1. cmd'[c] = cmd[c]
      BY <1>9, <2>2 DEF WriteCommand, FinishCommand, CommandFails, TypeOK
    <3> QED BY <2>1, <3>1, UndoKept
  <2>3. CASE c = d
    <3>1. /\ cmd[c].at \in {"write", "finish"}
          /\ cmd'[c].at \in {"finish", "done", "lost"}
          /\ cmd'[c].kind = cmd[c].kind /\ cmd'[c].todo = cmd[c].todo
          /\ cmd'[c].of = cmd[c].of
      BY <1>9, <2>3 DEF WriteCommand, FinishCommand, CommandFails, TypeOK, Command
    <3> QED BY <2>1, <3>1 DEF UndoInv, Cancelling
  <2> QED BY <2>2, <2>3
<1> QED BY <1>1, <1>2, <1>3, <1>4, <1>5, <1>6, <1>7, <1>8, <1>9
        DEF Next, RunStep, BeginCommand, CommandStep

LEMMA CancelInit == Init => CancelInv
BY ElementsOf
   DEF Init, CancelInv, StackInv, UndoInv, Cancelling, NoCommand, Delivery, LivePcs,
       NodePcs

LEMMA CancelNext == TypeInv /\ RunInv /\ CancelInv /\ [Next]_vars => CancelInv'
BY StackNext, UndoNext DEF CancelInv

\* Whatever else happens to the execution, a cancel that is not lost undoes every
\* node that was done, but at most the one that was in flight.
THEOREM RollbackComplete == Spec => []RollbackMissesAtMostInFlight
<1>1. CancelInv => RollbackMissesAtMostInFlight
  <2> SUFFICES ASSUME CancelInv, NEW c \in Commands, cmd[c].kind = "cancel",
                      cmd[c].at \in {"write", "finish", "done"},
                      cmd[c].of = Delivery,
                      NEW m \in LeftDone, NEW n \in LeftDone
               PROVE  m = n
    BY DEF RollbackMissesAtMostInFlight
  <2>1. cmd[c].todo = <<>> /\ \A k, l \in LeftDone \ Elements(cmd[c].todo) : k = l
    BY DEF CancelInv, UndoInv, Cancelling
  <2> QED BY <2>1 DEF Elements
<1> QED BY <1>1, CancelInit, CancelNext, TypeCorrect, RunCorrect, PTL DEF Spec
=============================================================================
