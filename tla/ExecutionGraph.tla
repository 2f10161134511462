--------------------------- MODULE ExecutionGraph ---------------------------
(***************************************************************************)
(* The class ExecutionGraph, of which each of the two executors has the    *)
(* same copy: the edges of a flow, the search for cycles and the           *)
(* topological order.  Both are depth-first searches: a step is one turn   *)
(* of a loop or the return of a call, and the calls of the recursion that  *)
(* are under way are kept in calls, the innermost last.                    *)
(*                                                                         *)
(* A connection may name a node that is not in the flow: Stranger stands   *)
(* for its id.                                                             *)
(***************************************************************************)
EXTENDS Naturals, FiniteSets, Sequences, SequencesExt

CONSTANTS
  Nodes,          \* the ids of the flow's nodes
  NodeList,       \* flow.nodes: their order
  Stranger,       \* an id that no node has
  Pins,           \* bound: the input pins that connections lead to
  MaxConnections  \* bound: connections of a flow

ASSUME GraphAssumption ==
  /\ NodeList \in Seq(Nodes) /\ \A n \in Nodes : \E i \in DOMAIN NodeList : NodeList[i] = n
  /\ Stranger \notin Nodes
  /\ MaxConnections \in Nat

Ids == Nodes \union {Stranger}
Connection == [from : Ids, to : Ids, pin : Pins]

VARIABLES
  connections,     \* flow.connections
  search,          \* the search under way: "none", "cycles" or "order"
  todo,            \* the nodes its loop has still to come to
  calls,           \* its calls: of which node, and the edges it has still to follow
  visited,
  recursionStack,  \* the nodes with a call, in the search for cycles
  found,           \* its answer
  stack            \* the nodes whose calls have returned, in the other search

searchVars == <<search, todo, calls, visited, recursionStack, found, stack>>

\* edges.get(n): the connections of n, by their places in the flow.
EdgesOf(n) == {i \in DOMAIN connections : connections[i].from = n}

SearchInit ==
  /\ search = "none" /\ todo = <<>> /\ calls = <<>> /\ visited = {} /\ recursionStack = {}
  /\ found = FALSE /\ stack = <<>>

\* hasCycles and getTopologicalOrder up to their loops over the nodes.
Begins(kind) ==
  /\ search' = kind /\ todo' = NodeList /\ calls' = <<>> /\ visited' = {}
  /\ recursionStack' = {} /\ found' = FALSE /\ stack' = <<>>

\* hasCycleDFS and topologicalSortDFS up to their loops over the edges; outer are the
\* calls around it.
Call(n, outer) ==
  /\ calls' = Append(outer, [node |-> n, edges |-> EdgesOf(n)])
  /\ visited' = visited \union {n}
  /\ recursionStack' = IF search = "cycles" THEN recursionStack \union {n} ELSE recursionStack

\* The loop over the nodes.
NextNode ==
  /\ calls = <<>> /\ todo # <<>> /\ ~found
  /\ todo' = Tail(todo)
  /\ \/ Head(todo) \in visited /\ UNCHANGED <<calls, visited, recursionStack>>
     \/ Head(todo) \notin visited /\ Call(Head(todo), <<>>)
  /\ UNCHANGED <<search, found, stack>>

\* The loop over the edges, which are followed in their order.  A target that is on the
\* recursion stack closes a cycle, and all calls return true.
FollowEdge ==
  /\ calls # <<>>
  /\ \E i \in Last(calls).edges :
       /\ \A j \in Last(calls).edges : i <= j
       /\ LET target == connections[i].to
              rest == [calls EXCEPT ![Len(calls)].edges = @ \ {i}]
          IN \/ target \notin visited /\ Call(target, rest) /\ UNCHANGED found
             \/ /\ target \in visited /\ target \in recursionStack
                /\ found' = TRUE /\ calls' = <<>>
                /\ UNCHANGED <<visited, recursionStack>>
             \/ /\ target \in visited /\ target \notin recursionStack
                /\ calls' = rest
                /\ UNCHANGED <<visited, recursionStack, found>>
  /\ UNCHANGED <<search, todo, stack>>

\* A call that has followed its edges returns.
Return_withoutDelete ==
  /\ calls # <<>> /\ Last(calls).edges = {}
  /\ calls' = Front(calls)
  /\ stack' = IF search = "order" THEN Append(stack, Last(calls).node) ELSE stack
  /\ UNCHANGED <<search, todo, visited, recursionStack, found>>
Return ==
  /\ calls # <<>> /\ Last(calls).edges = {}
  /\ calls' = Front(calls)
  /\ recursionStack' = recursionStack \ {Last(calls).node}
  /\ stack' = IF search = "order" THEN Append(stack, Last(calls).node) ELSE stack
  /\ UNCHANGED <<search, todo, visited, found>>

\* hasCycles returns, or getTopologicalOrder does.
Ended == found \/ (calls = <<>> /\ todo = <<>>)
TopologicalOrder_notReversed == stack
TopologicalOrder == Reverse(stack)
=============================================================================
