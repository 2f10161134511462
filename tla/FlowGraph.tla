----------------------------- MODULE FlowGraph -----------------------------
(***************************************************************************)
(* A flow from its definition to the inputs of its last node: the checks   *)
(* before a run, the searches of its ExecutionGraph, and the loop that     *)
(* collects the inputs of each node and runs it.  Both executors of the    *)
(* engine are here: the orchestrator (with DataFlowManager) and            *)
(* ExecutionService, which it replaced but which is still part of the      *)
(* module.  What interrupts a run (cancel, pause, crash, a failing         *)
(* database) is in FlowExecution.                                          *)
(***************************************************************************)
EXTENDS ExecutionGraph, NodeTypes

CONSTANTS
  TypeOf,  \* the type of each node
  Config   \* the inputs each node finds in its config

VARIABLES
  executor,  \* which service runs the flow
  phase,     \* "defined", "searching", "running", "succeeded", "failed" or "refused"
  order,     \* the topological order
  done,      \* how many nodes of it the loop is through
  results,   \* nodeResults: what each node that ran answered
  given      \* the inputs each node was run with: which source is on a pin

loopVars == <<order, done, results, given>>
graphVars == <<connections, executor, phase, searchVars, loopVars>>

Executors == {"orchestrator", "legacy"}
Answers == {"data", "bare", "failed"}  \* bare: success, without the output pin
Failures == {"failed", "invalid"}      \* invalid: refused before its body ran

-----------------------------------------------------------------------------
(* The checks before a run. *)

\* validateDataCompatibility of one connection, and validateFlowConnections.
Fits(c) == ValidatorAccepts(TypeOf[c.from], TypeOf[c.to])
             /\ c.pin \in NodeMetadata(TypeOf[c.to]).inputs
ConnectionsFit ==
  \A c \in Range(connections) : {c.from, c.to} \subseteq Nodes /\ Fits(c)

\* validateFlow, which only the orchestrator has.
Valid == executor = "orchestrator" => NodeList # <<>> /\ ConnectionsFit

\* executeFlow up to the search for cycles.
Begin ==
  /\ phase = "defined"
  /\ \/ ~Valid /\ phase' = "refused" /\ UNCHANGED searchVars
     \/ Valid /\ phase' = "searching" /\ Begins("cycles")
  /\ UNCHANGED <<connections, executor, loopVars>>

Search ==
  /\ phase = "searching"
  /\ NextNode \/ FollowEdge \/ Return
  /\ UNCHANGED <<connections, executor, phase, loopVars>>

\* A flow with a cycle is refused; another one is put in order.
Judge ==
  /\ phase = "searching" /\ search = "cycles" /\ Ended
  /\ \/ found /\ phase' = "refused" /\ UNCHANGED searchVars
     \/ ~found /\ phase' = phase /\ Begins("order")
  /\ UNCHANGED <<connections, executor, loopVars>>

PutInOrder ==
  /\ phase = "searching" /\ search = "order" /\ Ended
  /\ phase' = "running" /\ order' = TopologicalOrder
  /\ UNCHANGED <<connections, executor, searchVars, done, results, given>>

-----------------------------------------------------------------------------
(* The loop. *)

\* getIncomingEdges.
Incoming(n) == {c \in Range(connections) : c.to = n}

\* collectNodeInputs, the pins it sets: a source that did not succeed is passed
\* over, and by the orchestrator also one whose data lacks the output pin (the
\* legacy executor sets the pin to undefined).
Collected_ofAnyAnswer(n) == {c.pin : c \in {d \in Incoming(n) : d.from \in DOMAIN results}}
Collected(n) ==
  {c.pin : c \in {d \in Incoming(n) :
     d.from \in DOMAIN results /\ results[d.from] \in
       (IF executor = "legacy" THEN {"data", "bare"} ELSE {"data"})}}

\* The inputs of a node.  The orchestrator takes a node that got no input at all
\* for a source and gives it its config; one that got some goes without.
InputsOf(n) ==
  IF executor = "orchestrator" /\ Collected(n) = {} THEN Config[n] ELSE Collected(n)

Required(n) == NodeMetadata(TypeOf[n]).required

\* What a node can answer.  The orchestrator's validateNodeInput knows no more than
\* which inputs are required (no node has the method validateInputs it looks for)
\* and fails the node without running it; the legacy executor runs it anyway.
AnswersOf(n) ==
  IF executor = "orchestrator" /\ ~(Required(n) \subseteq InputsOf(n))
  THEN {"invalid"} ELSE Answers

Put(f, k, v) == [x \in DOMAIN f \union {k} |-> IF x = k THEN v ELSE f[x]]

\* A node runs and answers; one that fails ends the run if it is critical, that is
\* if config.critical is not false.
RunNode ==
  /\ phase = "running" /\ done < Len(order) /\ order[done + 1] \in Nodes
  /\ LET n == order[done + 1]
     IN \E answer \in AnswersOf(n), critical \in BOOLEAN :
          /\ given' = Put(given, n, InputsOf(n))
          /\ results' = Put(results, n, answer)
          /\ done' = done + 1
          /\ phase' = IF answer \in Failures /\ critical THEN "failed" ELSE phase
  /\ UNCHANGED <<connections, executor, order, searchVars>>

\* The order holds an id that is not a node: getNode answers undefined.
MissingNode ==
  /\ phase = "running" /\ done < Len(order) /\ order[done + 1] \notin Nodes
  /\ phase' = "failed"
  /\ UNCHANGED <<connections, executor, searchVars, loopVars>>

\* Nodes that failed without being critical do not matter to the result.
Finish ==
  /\ phase = "running" /\ done = Len(order)
  /\ phase' = "succeeded"
  /\ UNCHANGED <<connections, executor, searchVars, loopVars>>

GraphInit ==
  /\ connections \in UNION {[1..k -> Connection] : k \in 0..MaxConnections}
  /\ executor \in Executors /\ SearchInit
  /\ phase = "defined" /\ order = <<>> /\ done = 0 /\ results = <<>> /\ given = <<>>

GraphNext == Begin \/ Search \/ Judge \/ PutInOrder \/ RunNode \/ MissingNode \/ Finish

-----------------------------------------------------------------------------
(* Reference definitions. *)

Edges == {<<c.from, c.to>> : c \in Range(connections)}

\* There are ids, a node among them, each of which leads to one of them: as the ids are
\* finitely many, whoever follows the connections from that node goes in a circle.
Cyclic == \E S \in SUBSET Ids : S \intersect Nodes # {}
                                /\ \A x \in S : \E y \in S : <<x, y>> \in Edges

\* The search for cycles finds one exactly if there is one.  (A cycle of ids that are
\* not nodes is seen only from a node.)
CyclesAreFound ==
  (search = "cycles" /\ Ended) \/ search = "order" => (found <=> Cyclic)

\* Every node of the flow is in the order once, and after every node that leads
\* to it, so that its inputs are there when it runs.
OrderRespectsConnections ==
  phase \in {"running", "succeeded", "failed"} =>
    /\ Nodes \subseteq Range(order)
    /\ \A i, j \in DOMAIN order :
         /\ order[i] = order[j] => i = j
         /\ <<order[i], order[j]>> \in Edges => i < j

\* Once a node has run, its inputs are in keeping with all that its sources ever
\* answer in the run: each connection whose source succeeds with data has filled
\* its pin, and only if there is none the node ran as a source, on its config.
InputsComeFromSources ==
  executor = "orchestrator" => \A n \in DOMAIN given :
    LET fed == {c.pin : c \in {d \in Incoming(n) :
                                 d.from \in DOMAIN results /\ results[d.from] = "data"}}
    IN given[n] = IF fed = {} THEN Config[n] ELSE fed

\* test/execution-e2e.spec.ts runs a chain whose data filter has its data from a
\* connection and its conditions in its config, and expects SUCCESS: a node that
\* finds every required input in one of the two places is executed.
ConnectedNodesAreConfigured ==
  executor = "orchestrator" => \A n \in DOMAIN results :
    Required(n) \subseteq given[n] \union Config[n] => results[n] # "invalid"
=============================================================================
