--------------------------- MODULE AlgorithmsProofs ---------------------------
(***************************************************************************)
(* Proofs about the engine's algorithms: the depth-first searches of a     *)
(* flow's graph and the loop that runs its nodes, for every flow; the      *)
(* filters and mappings of data; the contexts of executions.               *)
(***************************************************************************)
EXTENDS FlowGraph, NodeData, ExecutionContexts, TLAPS, NaturalsInduction, WellFoundedInduction,
        SequenceTheorems

-----------------------------------------------------------------------------
(***************************************************************************)
(* The searches of the graph.                                              *)
(***************************************************************************)

GraphSpec == GraphInit /\ [][GraphNext]_graphVars

Frame == [node : Ids, edges : SUBSET (DOMAIN connections)]

SearchTypeOK ==
  /\ connections \in Seq(Connection)
  /\ search \in {"none", "cycles", "order"} /\ found \in BOOLEAN
  /\ todo \in Seq(Nodes) /\ visited \subseteq Ids
  /\ calls \in Seq(Frame)
  /\ stack \in Seq(Ids)

\* The nodes whose calls are under way, and those whose calls have returned.
Calling == {calls[k].node : k \in DOMAIN calls}
Finished == visited \ Calling

\* The calls lead from a node of the flow to one another, and what they have followed
\* led to nodes that are finished, but for the edge to the next call.
CallsInv ==
  /\ Calling \subseteq visited
  /\ \A k, l \in DOMAIN calls : calls[k].node = calls[l].node => k = l
  /\ calls # <<>> => calls[1].node \in Nodes
  /\ \A k \in DOMAIN calls :
       /\ calls[k].edges \subseteq EdgesOf(calls[k].node)
       /\ k + 1 \in DOMAIN calls => <<calls[k].node, calls[k + 1].node>> \in Edges
       /\ \A i \in EdgesOf(calls[k].node) \ calls[k].edges :
            \/ connections[i].to \in Finished
            \/ k + 1 \in DOMAIN calls /\ connections[i].to = calls[k + 1].node

\* A finished node leads to finished nodes, and every node is visited or to come.
ClosedInv == \A x \in Finished : \A i \in EdgesOf(x) : connections[i].to \in Finished
RootsInv == \A n \in Nodes : n \in visited \/ \E i \in DOMAIN todo : todo[i] = n

\* A set of ids each of which leads to one of them.
Circular(S) == \A x \in S : \E y \in S : <<x, y>> \in Edges
CyclesInv == search = "cycles" => /\ recursionStack = Calling
                                  /\ \A S \in SUBSET Finished : Circular(S) => S = {}

\* The finished nodes are on the stack, each above those it leads to.
OrderInv ==
  search = "order" =>
    /\ ~Cyclic /\ recursionStack = {}
    /\ Range(stack) = Finished
    /\ \A i, j \in DOMAIN stack : /\ stack[i] = stack[j] => i = j
                                  /\ <<stack[i], stack[j]>> \in Edges => j < i

SearchInv ==
  /\ found => Cyclic /\ search = "cycles" /\ calls = <<>>
  /\ search # "none" /\ ~found => CallsInv /\ ClosedInv /\ RootsInv /\ CyclesInv /\ OrderInv
PhaseInv ==
  /\ phase = "defined" => search = "none"
  /\ phase = "searching" => search # "none"
  /\ phase \in {"running", "succeeded", "failed"} =>
       search = "order" /\ Ended /\ order = TopologicalOrder

\* The nodes that have run are the first of the order.
LoopInv ==
  /\ phase \in {"defined", "searching", "refused"} => done = 0
  /\ done \in 0..Len(order)
  /\ DOMAIN results = {order[i] : i \in 1..done} /\ DOMAIN given = DOMAIN results
  /\ InputsComeFromSources
GraphInv == SearchTypeOK /\ SearchInv /\ PhaseInv /\ LoopInv

-----------------------------------------------------------------------------
(* Edges and calls. *)

LEMMA EdgeIs ==
  ASSUME SearchTypeOK
  PROVE  \A x, y : <<x, y>> \in Edges <=> \E i \in EdgesOf(x) : connections[i].to = y
BY DEF SearchTypeOK, Edges, EdgesOf, Range

\* Whoever leads back to a call closes a circle of the calls.
LEMMA CircleCloses ==
  ASSUME SearchTypeOK, CallsInv, calls # <<>>, NEW t \in Calling,
         <<Last(calls).node, t>> \in Edges
  PROVE  Cyclic
<1>0. calls \in Seq(Frame)
  BY DEF SearchTypeOK
<1>1. /\ Len(calls) \in Nat /\ Len(calls) # 0 /\ DOMAIN calls = 1..Len(calls)
      /\ Last(calls) = calls[Len(calls)]
  BY <1>0 DEF Last
<1>2. Calling \in SUBSET Ids /\ calls[1].node \in Calling \intersect Nodes
  <2>1. \A k \in DOMAIN calls : calls[k] \in Frame
    BY <1>0
  <2>2. \A k \in DOMAIN calls : calls[k].node \in Ids
    BY <2>1 DEF Frame
  <2>3. 1 \in DOMAIN calls
    BY <1>1
  <2>4. calls[1].node \in Nodes
    BY DEF CallsInv
  <2> QED BY <2>2, <2>3, <2>4 DEF Calling
<1>3. ASSUME NEW x \in Calling PROVE \E y \in Calling : <<x, y>> \in Edges
  <2>1. PICK k \in 1..Len(calls) : x = calls[k].node
    BY <1>1 DEF Calling
  <2>2. CASE k = Len(calls)
    BY <1>1, <2>1, <2>2
  <2>3. CASE k # Len(calls)
    <3> DEFINE n == Len(calls)
    <3>0. n \in Nat /\ k \in 1..n /\ k # n
      BY <1>1, <2>3
    <3> HIDE DEF n
    <3>1. k + 1 \in 1..n
      BY <3>0
    <3>2. <<x, calls[k + 1].node>> \in Edges
      BY <1>1, <2>1, <3>1 DEF CallsInv, n
    <3> QED BY <1>1, <3>1, <3>2 DEF Calling, n
  <2> QED BY <2>2, <2>3
<1> QED BY <1>2, <1>3 DEF Cyclic

\* A list with one place changed.
LEMMA ExceptIs ==
  ASSUME NEW S, NEW s \in Seq(S), NEW i \in 1..Len(s), NEW e \in S, NEW t, t = [s EXCEPT ![i] = e]
  PROVE  /\ t \in Seq(S) /\ Len(t) = Len(s)
         /\ \A j \in 1..Len(s) : t[j] = IF j = i THEN e ELSE s[j]
BY ExceptSeq

\* The calls after one edge has been taken off the innermost.
Rest(i) == [calls EXCEPT ![Len(calls)].edges = @ \ {i}]
LEMMA RestIs ==
  ASSUME SearchTypeOK, calls # <<>>, NEW i, NEW rest, rest = Rest(i)
  PROVE  /\ rest \in Seq(Frame) /\ Len(rest) = Len(calls)
         /\ \A k \in 1..Len(calls) : /\ rest[k].node = calls[k].node
                                     /\ k # Len(calls) => rest[k] = calls[k]
         /\ rest[Len(calls)].edges = calls[Len(calls)].edges \ {i}
<1>1. calls \in Seq(Frame) /\ Len(calls) \in 1..Len(calls)
  BY DEF SearchTypeOK
<1>2. calls[Len(calls)] \in Frame
  BY <1>1
<1>3. PICK f : f = [calls[Len(calls)] EXCEPT !.edges = @ \ {i}]
  OBVIOUS
<1>4. f \in Frame /\ f.node = calls[Len(calls)].node /\ f.edges = calls[Len(calls)].edges \ {i}
  BY <1>2, <1>3 DEF Frame
<1>5. PICK L : L = Len(calls)
  OBVIOUS
<1>6. rest = [calls EXCEPT ![L] = f]
  BY <1>1, <1>3, <1>5 DEF Rest
<1>7. L \in 1..Len(calls)
  BY <1>1, <1>5
<1>8. /\ rest \in Seq(Frame) /\ Len(rest) = Len(calls)
      /\ \A j \in 1..Len(calls) : rest[j] = IF j = L THEN f ELSE calls[j]
  BY ONLY <1>1, <1>4, <1>6, <1>7, ExceptIs
<1> QED BY <1>1, <1>4, <1>5, <1>8

-----------------------------------------------------------------------------
(* The steps of a search. *)

LEMMA SameGraph ==
  ASSUME connections' = connections
  PROVE  /\ Edges' = Edges /\ Cyclic' = Cyclic /\ Frame' = Frame
         /\ \A x : EdgesOf(x)' = EdgesOf(x)
BY DEF Edges, Cyclic, Frame, EdgesOf

\* A call of a node that is not yet visited, from the calls around it.
LEMMA CallKeeps ==
  ASSUME SearchTypeOK, SearchInv, search # "none", ~found,
         UNCHANGED <<connections, search, found, stack>>, todo' \in Seq(Nodes),
         NEW t \in Ids \ visited, NEW outer \in Seq(Frame), Call(t, outer),
         Len(outer) = Len(calls),
         \A k \in 1..Len(outer) : /\ outer[k].node = calls[k].node
                                  /\ outer[k].edges \subseteq EdgesOf(outer[k].node),
         \A k \in 1..Len(outer) : \A i \in EdgesOf(outer[k].node) \ outer[k].edges :
            \/ connections[i].to \in Finished
            \/ k + 1 \in 1..Len(outer) /\ connections[i].to = outer[k + 1].node
            \/ k = Len(outer) /\ connections[i].to = t,
         Len(outer) = 0 => t \in Nodes,
         Len(outer) # 0 => <<outer[Len(outer)].node, t>> \in Edges,
         \A n \in Nodes : n \in visited \union {t} \/ \E i \in DOMAIN todo' : todo'[i] = n
  PROVE  SearchTypeOK' /\ SearchInv'
<1> DEFINE L == Len(outer)
<1>0. /\ calls \in Seq(Frame) /\ visited \subseteq Ids /\ t \in Ids
      /\ L \in Nat /\ L = Len(calls) /\ DOMAIN calls = 1..L
  BY DEF SearchTypeOK
<1>1. [node |-> t, edges |-> EdgesOf(t)] \in Frame
  BY DEF Frame, EdgesOf
<1>2. /\ calls' \in Seq(Frame) /\ Len(calls') = L + 1 /\ DOMAIN calls' = 1..(L + 1)
      /\ \A k \in 1..L : calls'[k] = outer[k]
      /\ calls'[L + 1] = [node |-> t, edges |-> EdgesOf(t)]
  BY <1>1 DEF Call
<1>3. visited' = visited \union {t}
  BY DEF Call
<1> HIDE DEF L
<1>4. /\ \A k \in 1..L : k \in 1..(L + 1)
      /\ \A k \in 1..(L + 1) : k \in 1..L \/ k = L + 1
      /\ L + 1 \in 1..(L + 1) /\ L + 1 \notin 1..L
  <2>1. L \in Nat
    BY <1>0
  <2> QED BY ONLY <2>1
<1>5. calls'[L + 1].node = t /\ calls'[L + 1].edges = EdgesOf(t)
  BY <1>2
<1>6. \A k \in 1..L : calls'[k].node = calls[k].node
  BY <1>2 DEF L
<1>7. Calling' = Calling \union {t}
  <2>1. Calling' = {calls'[k].node : k \in 1..(L + 1)}
    BY <1>2 DEF Calling
  <2>2. Calling = {calls[k].node : k \in 1..L}
    BY <1>0 DEF Calling
  <2>3. \A k \in 1..(L + 1) : calls'[k].node \in Calling \union {t}
    BY <2>2, <1>4, <1>5, <1>6
  <2>4. \A k \in 1..L : calls[k].node \in Calling'
    BY <2>1, <1>4, <1>6
  <2>5. t \in Calling'
    BY <2>1, <1>4, <1>5
  <2>6. Calling' \subseteq Calling \union {t}
    BY <2>1, <2>3
  <2>7. Calling \subseteq Calling'
    BY <2>2, <2>4
  <2> QED BY <2>5, <2>6, <2>7
<1>8. /\ CallsInv /\ ClosedInv /\ RootsInv /\ CyclesInv /\ OrderInv
  BY DEF SearchInv
<1>9. Calling \subseteq visited /\ t \notin Calling /\ Finished' = Finished
  BY <1>3, <1>7, <1>8 DEF CallsInv, Finished
<1>10. SearchTypeOK'
  BY <1>0, <1>2, <1>3, SameGraph DEF SearchTypeOK
<1>11. CallsInv'
  <2>1. Calling' \subseteq visited'
    BY <1>3, <1>7, <1>9
  <2>2. ASSUME NEW k \in 1..(L + 1), NEW l \in 1..(L + 1), calls'[k].node = calls'[l].node
        PROVE  k = l
    <3>1. \A m \in 1..L : calls[m].node \in Calling
      BY <1>0 DEF Calling
    <3>2. CASE k \in 1..L /\ l \in 1..L
      BY <1>0, <1>6, <1>8, <2>2, <3>2 DEF CallsInv
    <3> QED BY <1>4, <1>5, <1>6, <1>9, <2>2, <3>1, <3>2
  <2>3. calls'[1].node \in Nodes
    <3>1. CASE L = 0
      BY <1>5, <3>1 DEF L
    <3>2. CASE L # 0
      <4>1. 1 \in 1..L /\ calls # <<>>
        BY <1>0, <3>2
      <4> QED BY <1>6, <1>8, <4>1 DEF CallsInv
    <3> QED BY <3>1, <3>2
  <2>4. ASSUME NEW k \in 1..(L + 1)
        PROVE  /\ calls'[k].edges \subseteq EdgesOf(calls'[k].node)
               /\ k + 1 \in 1..(L + 1) => <<calls'[k].node, calls'[k + 1].node>> \in Edges
               /\ \A i \in EdgesOf(calls'[k].node) \ calls'[k].edges :
                    \/ connections[i].to \in Finished
                    \/ k + 1 \in 1..(L + 1) /\ connections[i].to = calls'[k + 1].node
    <3>1. CASE k = L + 1
      <4>1. k + 1 \notin 1..(L + 1)
        BY <1>0, <3>1
      <4> QED BY <1>5, <3>1, <4>1
    <3>2. CASE k \in 1..L
      <4>1. calls'[k] = outer[k]
        BY <1>2, <3>2
      <4>2. calls'[k].edges \subseteq EdgesOf(calls'[k].node)
        BY <4>1, <3>2 DEF L
      <4>3. CASE k = L
        <5>1. L # 0 /\ k + 1 = L + 1 /\ k + 1 \notin 1..L
          BY <1>0, <3>2, <4>3
        <5>2. <<calls'[k].node, calls'[k + 1].node>> \in Edges
          BY <1>5, <4>1, <4>3, <5>1 DEF L
        <5> QED BY <1>4, <1>5, <3>2, <4>1, <4>2, <4>3, <5>1, <5>2 DEF L
      <4>4. CASE k # L
        <5>1. k + 1 \in 1..L
          BY <1>0, <3>2, <4>4
        <5>2. <<calls'[k].node, calls'[k + 1].node>> \in Edges
          BY <1>0, <1>6, <1>8, <3>2, <5>1 DEF CallsInv
        <5>3. \A i \in EdgesOf(outer[k].node) \ outer[k].edges :
                \/ connections[i].to \in Finished
                \/ connections[i].to = outer[k + 1].node
          BY <3>2, <4>4 DEF L
        <5>4. outer[k + 1].node = calls'[k + 1].node
          BY <1>2, <5>1
        <5> QED BY <1>4, <4>1, <4>2, <5>1, <5>2, <5>3, <5>4
      <4> QED BY <4>3, <4>4
    <3> QED BY <1>4, <3>1, <3>2
  <2>5. Edges' = Edges /\ \A x : EdgesOf(x)' = EdgesOf(x)
    BY SameGraph
  <2>6. /\ \A k, l \in DOMAIN calls' : calls'[k].node = calls'[l].node => k = l
        /\ calls' # <<>> => calls'[1].node \in Nodes
    BY <1>2, <2>2, <2>3
  <2>7. \A k \in DOMAIN calls' :
          /\ calls'[k].edges \subseteq EdgesOf(calls'[k].node)
          /\ k + 1 \in DOMAIN calls' => <<calls'[k].node, calls'[k + 1].node>> \in Edges'
          /\ \A i \in EdgesOf(calls'[k].node) \ calls'[k].edges :
               \/ connections'[i].to \in Finished'
               \/ k + 1 \in DOMAIN calls' /\ connections'[i].to = calls'[k + 1].node
    BY <1>2, <1>9, <2>4, <2>5 DEF EdgesOf
  <2> QED BY <2>1, <2>6, <2>7 DEF CallsInv, EdgesOf
<1>12. ClosedInv'
  BY <1>8, <1>9, SameGraph DEF ClosedInv
<1>13. RootsInv'
  BY <1>3 DEF RootsInv
<1>14. CyclesInv'
  BY <1>7, <1>8, <1>9, SameGraph DEF CyclesInv, Circular, Call
<1>15. OrderInv'
  BY <1>8, <1>9, SameGraph DEF OrderInv, Call
<1> QED BY <1>10, <1>11, <1>12, <1>13, <1>14, <1>15 DEF SearchInv

LEMMA NextNodeKeeps ==
  ASSUME SearchTypeOK, SearchInv, search # "none", NextNode, UNCHANGED connections
  PROVE  SearchTypeOK' /\ SearchInv'
<1> DEFINE h == Head(todo)
<1>1. /\ calls = <<>> /\ ~found /\ UNCHANGED <<connections, search, found, stack>>
      /\ h \in Nodes /\ todo' = Tail(todo) /\ todo' \in Seq(Nodes)
  BY DEF NextNode, SearchTypeOK
<1>2. \A i \in DOMAIN todo : todo[i] = h \/ \E j \in DOMAIN todo' : todo'[j] = todo[i]
  <2>1. PICK s \in Seq(Nodes) : s = todo /\ s # <<>>
    BY DEF NextNode, SearchTypeOK
  <2>2. ASSUME NEW i \in DOMAIN s, i # 1
        PROVE  i - 1 \in DOMAIN Tail(s) /\ Tail(s)[i - 1] = s[i]
    BY <2>1, <2>2
  <2>3. s[1] = h
    BY <2>1
  <2> QED BY <1>1, <2>1, <2>2, <2>3
<1> HIDE DEF h
<1>3. CASE h \in visited /\ UNCHANGED <<calls, visited, recursionStack>>
  <2>1. SearchTypeOK'
    BY <1>1, <1>3, SameGraph DEF SearchTypeOK
  <2>2. Calling' = Calling /\ Finished' = Finished
    BY <1>3 DEF Calling, Finished
  <2>3. CallsInv /\ ClosedInv /\ RootsInv /\ CyclesInv /\ OrderInv
    BY <1>1 DEF SearchInv
  <2>4. CallsInv' /\ ClosedInv'
    BY <1>1, <1>3, <2>2, <2>3, SameGraph DEF CallsInv, ClosedInv
  <2>5. RootsInv'
    BY <1>2, <1>3, <2>3 DEF RootsInv
  <2>6. CyclesInv'
    BY <1>1, <1>3, <2>2, <2>3, SameGraph DEF CyclesInv, Circular
  <2>7. OrderInv'
    BY <1>1, <1>3, <2>2, <2>3, SameGraph DEF OrderInv
  <2> QED BY <1>1, <2>1, <2>4, <2>5, <2>6, <2>7 DEF SearchInv
<1>4. CASE h \notin visited /\ Call(h, <<>>)
  <2>1. RootsInv
    BY <1>1 DEF SearchInv
  <2>2. \A n \in Nodes : n \in visited \union {h} \/ \E i \in DOMAIN todo' : todo'[i] = n
    BY <1>2, <2>1 DEF RootsInv
  <2>3. h \in Ids \ visited
    BY <1>1, <1>4 DEF Ids
  <2>4. <<>> \in Seq(Frame) /\ Len(<<>>) = 0 /\ 1..0 = {}
    OBVIOUS
  <2> QED BY <1>1, <1>4, <2>2, <2>3, <2>4, CallKeeps
<1> QED BY <1>3, <1>4 DEF NextNode, h

LEMMA FollowEdgeKeeps ==
  ASSUME SearchTypeOK, SearchInv, search # "none", FollowEdge, UNCHANGED connections
  PROVE  SearchTypeOK' /\ SearchInv'
<1>1. /\ calls # <<>> /\ ~found /\ UNCHANGED <<connections, search, todo, stack>>
      /\ calls \in Seq(Frame)
  BY DEF FollowEdge, SearchInv, SearchTypeOK
<1>2. CallsInv /\ ClosedInv /\ RootsInv /\ CyclesInv /\ OrderInv
  BY <1>1 DEF SearchInv
<1>3. PICK i \in Last(calls).edges :
        LET target == connections[i].to
            rest == [calls EXCEPT ![Len(calls)].edges = @ \ {i}]
        IN \/ target \notin visited /\ Call(target, rest) /\ UNCHANGED found
           \/ /\ target \in visited /\ target \in recursionStack
              /\ found' = TRUE /\ calls' = <<>>
              /\ UNCHANGED <<visited, recursionStack>>
           \/ /\ target \in visited /\ target \notin recursionStack
              /\ calls' = rest
              /\ UNCHANGED <<visited, recursionStack, found>>
  BY DEF FollowEdge
<1> DEFINE t == connections[i].to
<1> DEFINE L == Len(calls)
<1>4. PICK rest : rest = Rest(i)
  OBVIOUS
<1>5. /\ rest \in Seq(Frame) /\ Len(rest) = L
      /\ \A k \in 1..L : /\ rest[k].node = calls[k].node
                         /\ k # L => rest[k] = calls[k]
      /\ rest[L].edges = calls[L].edges \ {i}
  <2>1. /\ rest \in Seq(Frame) /\ Len(rest) = Len(calls)
        /\ \A k \in 1..Len(calls) : /\ rest[k].node = calls[k].node
                                    /\ k # Len(calls) => rest[k] = calls[k]
        /\ rest[Len(calls)].edges = calls[Len(calls)].edges \ {i}
    BY <1>1, <1>4, RestIs
  <2> QED BY <2>1
<1>6. L \in Nat /\ L # 0 /\ L \in 1..L /\ DOMAIN calls = 1..L /\ DOMAIN rest = 1..L
      /\ Last(calls) = calls[L] /\ Last(calls).node = calls[L].node
  BY <1>1, <1>5 DEF Last
<1>7. i \in EdgesOf(calls[L].node) /\ t \in Ids
  <2>1. i \in EdgesOf(calls[L].node)
    BY <1>2, <1>3, <1>6 DEF CallsInv
  <2>2. i \in DOMAIN connections
    BY <2>1 DEF EdgesOf
  <2>3. connections[i] \in Connection
    BY <2>2 DEF SearchTypeOK
  <2> QED BY <2>1, <2>3 DEF Connection
<1>8. <<calls[L].node, t>> \in Edges
  BY <1>7, EdgeIs
<1>9. \/ t \notin visited /\ Call(t, rest) /\ UNCHANGED found
      \/ /\ t \in visited /\ t \in recursionStack
         /\ found' = TRUE /\ calls' = <<>>
         /\ UNCHANGED <<visited, recursionStack>>
      \/ /\ t \in visited /\ t \notin recursionStack
         /\ calls' = rest
         /\ UNCHANGED <<visited, recursionStack, found>>
  BY <1>3, <1>4 DEF Rest
<1> HIDE DEF t
<1>10. ASSUME NEW k \in 1..L
       PROVE  rest[k].edges \subseteq EdgesOf(rest[k].node)
  <2>1. calls[k].edges \subseteq EdgesOf(calls[k].node)
    BY <1>2, <1>6 DEF CallsInv
  <2> QED BY <1>5, <2>1
<1>11. ASSUME NEW k \in 1..L, NEW e \in EdgesOf(rest[k].node) \ rest[k].edges
       PROVE  \/ connections[e].to \in Finished
              \/ k + 1 \in 1..L /\ connections[e].to = rest[k + 1].node
              \/ k = L /\ connections[e].to = t
  <2>1. CASE e \in EdgesOf(calls[k].node) \ calls[k].edges
    <3>1. \/ connections[e].to \in Finished
          \/ k + 1 \in 1..L /\ connections[e].to = calls[k + 1].node
      BY <1>2, <1>6, <2>1 DEF CallsInv
    <3> QED BY <1>5, <3>1
  <2>2. CASE e \notin EdgesOf(calls[k].node) \ calls[k].edges
    <3>1. k = L /\ e = i
      BY <1>5, <1>11, <2>2
    <3> QED BY <3>1 DEF t
  <2> QED BY <2>1, <2>2
<1>12. CASE t \notin visited /\ Call(t, rest) /\ UNCHANGED found
  <2>1. <<rest[Len(rest)].node, t>> \in Edges /\ Len(rest) # 0
    BY <1>5, <1>6, <1>8
  <2>2. \A n \in Nodes : n \in visited \union {t} \/ \E j \in DOMAIN todo' : todo'[j] = n
    BY <1>1, <1>2 DEF RootsInv
  <2>3. t \in Ids \ visited /\ todo' \in Seq(Nodes)
    BY <1>1, <1>7, <1>12 DEF SearchTypeOK
  <2>4. /\ \A k \in 1..Len(rest) : /\ rest[k].node = calls[k].node
                                   /\ rest[k].edges \subseteq EdgesOf(rest[k].node)
        /\ \A k \in 1..Len(rest) : \A e \in EdgesOf(rest[k].node) \ rest[k].edges :
             \/ connections[e].to \in Finished
             \/ k + 1 \in 1..Len(rest) /\ connections[e].to = rest[k + 1].node
             \/ k = Len(rest) /\ connections[e].to = t
    BY <1>5, <1>10, <1>11
  <2> HIDE DEF L
  <2> QED BY <1>1, <1>5, <1>12, <2>1, <2>2, <2>3, <2>4, CallKeeps DEF L
<1>13. CASE /\ t \in visited /\ t \in recursionStack
            /\ found' = TRUE /\ calls' = <<>>
            /\ UNCHANGED <<visited, recursionStack>>
  <2>1. search = "cycles"
    BY <1>2, <1>13 DEF OrderInv, SearchTypeOK
  <2>2. Cyclic
    BY <1>1, <1>2, <1>6, <1>8, <1>13, <2>1, CircleCloses DEF CyclesInv
  <2>3. SearchTypeOK'
    BY <1>1, <1>13, SameGraph DEF SearchTypeOK
  <2>4. SearchInv'
    BY <1>1, <1>13, <2>1, <2>2, SameGraph DEF SearchInv
  <2> QED BY <2>3, <2>4
<1>14. CASE /\ t \in visited /\ t \notin recursionStack
            /\ calls' = rest
            /\ UNCHANGED <<visited, recursionStack, found>>
  <2>1. t \in Finished
    <3>1. CASE search = "cycles"
      BY <1>2, <1>14, <3>1 DEF CyclesInv, Finished
    <3>2. CASE search = "order"
      <4>1. t \notin Calling
        BY <1>1, <1>2, <1>6, <1>8, <3>2, CircleCloses DEF OrderInv
      <4> QED BY <1>14, <4>1 DEF Finished
    <3> QED BY <3>1, <3>2 DEF SearchTypeOK
  <2>2. Calling' = Calling /\ Finished' = Finished
    <3>1. Calling = {calls[k].node : k \in 1..L}
      BY <1>6 DEF Calling
    <3>2. Calling' = {rest[k].node : k \in 1..L}
      BY <1>6, <1>14 DEF Calling
    <3>3. Calling' = Calling
      BY <1>5, <3>1, <3>2
    <3> QED BY <1>14, <3>3 DEF Finished
  <2>3. SearchTypeOK'
    BY <1>1, <1>5, <1>14, SameGraph DEF SearchTypeOK
  <2>4. CallsInv'
    <3>1. Calling' \subseteq visited'
      BY <1>2, <1>14, <2>2 DEF CallsInv
    <3>2. /\ \A k, l \in 1..L : rest[k].node = rest[l].node => k = l
          /\ rest[1].node \in Nodes
      <4>1. 1 \in 1..L
        BY <1>6
      <4> QED BY <1>1, <1>2, <1>5, <1>6, <4>1 DEF CallsInv
    <3>3. ASSUME NEW k \in 1..L
          PROVE  /\ k + 1 \in 1..L => <<rest[k].node, rest[k + 1].node>> \in Edges
                 /\ \A e \in EdgesOf(rest[k].node) \ rest[k].edges :
                      \/ connections[e].to \in Finished
                      \/ k + 1 \in 1..L /\ connections[e].to = rest[k + 1].node
      <4>1. k + 1 \in 1..L => <<calls[k].node, calls[k + 1].node>> \in Edges
        BY <1>2, <1>6 DEF CallsInv
      <4> QED BY <1>5, <1>11, <2>1, <4>1
    <3> QED BY <1>1, <1>6, <1>10, <1>14, <2>2, <3>1, <3>2, <3>3, SameGraph DEF CallsInv
  <2>5. ClosedInv' /\ RootsInv'
    BY <1>1, <1>2, <1>14, <2>2, SameGraph DEF ClosedInv, RootsInv
  <2>6. CyclesInv'
    BY <1>1, <1>2, <1>14, <2>2, SameGraph DEF CyclesInv, Circular
  <2>7. OrderInv'
    BY <1>1, <1>2, <1>14, <2>2, SameGraph DEF OrderInv
  <2> QED BY <1>1, <1>14, <2>3, <2>4, <2>5, <2>6, <2>7 DEF SearchInv
<1> QED BY <1>9, <1>12, <1>13, <1>14

LEMMA ReturnKeeps ==
  ASSUME SearchTypeOK, SearchInv, search # "none", Return, UNCHANGED connections
  PROVE  SearchTypeOK' /\ SearchInv'
<1>1. /\ calls # <<>> /\ ~found /\ UNCHANGED <<connections, search, todo, visited, found>>
      /\ calls \in Seq(Frame) /\ Last(calls).edges = {}
  BY DEF Return, SearchInv, SearchTypeOK
<1>2. CallsInv /\ ClosedInv /\ RootsInv /\ CyclesInv /\ OrderInv
  BY <1>1 DEF SearchInv
<1> DEFINE n == Last(calls).node
<1> DEFINE L == Len(calls)
<1>3. L \in Nat /\ L # 0 /\ L \in 1..L /\ DOMAIN calls = 1..L /\ Last(calls) = calls[L]
  BY <1>1 DEF Last
<1>4. n = calls[L].node /\ calls[L].edges = {} /\ n \in Ids
  <2>1. calls[L] \in Frame
    BY <1>1, <1>3
  <2> QED BY <1>1, <1>3, <2>1 DEF Frame
<1>5. /\ calls' \in Seq(Frame) /\ Len(calls') = L - 1 /\ DOMAIN calls' = 1..(L - 1)
      /\ \A k \in 1..(L - 1) : calls'[k] = calls[k]
  BY <1>1, <1>3, SubSeqProperties DEF Return, Front
<1>6. /\ recursionStack' = recursionStack \ {n}
      /\ stack' = IF search = "order" THEN Append(stack, n) ELSE stack
  BY DEF Return
<1> HIDE DEF n, L
<1>7. /\ \A k \in 1..(L - 1) : k \in 1..L /\ k # L /\ k + 1 \in 1..L
      /\ \A k \in 1..L : k \in 1..(L - 1) \/ k = L
      /\ \A k \in 1..L : k + 1 \in 1..L => k \in 1..(L - 1) /\ (k + 1 \in 1..(L - 1) \/ k + 1 = L)
      /\ L + 1 \notin 1..L
  <2>1. L \in Nat
    BY <1>3
  <2> QED BY ONLY <2>1
<1>8. Calling' = Calling \ {n} /\ n \in Calling
  <2>1. Calling = {calls[k].node : k \in 1..L} /\ Calling' = {calls'[k].node : k \in 1..(L - 1)}
    BY <1>3, <1>5 DEF Calling
  <2>2. \A k \in 1..(L - 1) : calls'[k].node = calls[k].node /\ calls[k].node # n
    BY <1>2, <1>3, <1>4, <1>5, <1>7 DEF CallsInv
  <2>3. Calling' \subseteq Calling \ {n}
    BY <1>7, <2>1, <2>2
  <2>4. Calling \ {n} \subseteq Calling'
    BY <1>4, <1>7, <2>1, <2>2
  <2> QED BY <1>3, <1>4, <2>1, <2>3, <2>4
<1>9. Finished' = Finished \union {n} /\ n \notin Finished
  BY <1>1, <1>2, <1>8 DEF Finished, CallsInv
<1>10. \A i \in EdgesOf(n) : connections[i].to \in Finished
  BY <1>2, <1>3, <1>4, <1>7 DEF CallsInv
<1>11. \A y : <<n, y>> \in Edges => y \in Finished
  BY <1>10, EdgeIs
<1>12. \A x \in Finished : \A y : <<x, y>> \in Edges => y \in Finished
  BY <1>2, EdgeIs DEF ClosedInv
<1>13. stack' \in Seq(Ids)
  BY <1>4, <1>6 DEF SearchTypeOK
<1>14. SearchTypeOK'
  BY <1>1, <1>5, <1>13, SameGraph DEF SearchTypeOK
<1>15. CallsInv'
  <2>1. Calling' \subseteq visited'
    BY <1>1, <1>2, <1>8 DEF CallsInv
  <2>2. \A k, l \in 1..(L - 1) : calls'[k].node = calls'[l].node => k = l
    BY <1>2, <1>3, <1>5, <1>7 DEF CallsInv
  <2>3. calls' # <<>> => calls'[1].node \in Nodes
    <3>1. ASSUME calls' # <<>> PROVE 1 \in 1..(L - 1)
      BY <1>3, <1>5, <3>1
    <3> QED BY <1>1, <1>2, <1>5, <3>1 DEF CallsInv
  <2>4. ASSUME NEW k \in 1..(L - 1)
        PROVE  /\ calls'[k].edges \subseteq EdgesOf(calls'[k].node)
               /\ k + 1 \in 1..(L - 1) => <<calls'[k].node, calls'[k + 1].node>> \in Edges
               /\ \A i \in EdgesOf(calls'[k].node) \ calls'[k].edges :
                    \/ connections[i].to \in Finished \union {n}
                    \/ k + 1 \in 1..(L - 1) /\ connections[i].to = calls'[k + 1].node
    <3>1. k \in 1..L /\ k + 1 \in 1..L /\ calls'[k] = calls[k]
      BY <1>5, <1>7
    <3>2. /\ calls[k].edges \subseteq EdgesOf(calls[k].node)
          /\ <<calls[k].node, calls[k + 1].node>> \in Edges
          /\ \A i \in EdgesOf(calls[k].node) \ calls[k].edges :
               \/ connections[i].to \in Finished
               \/ connections[i].to = calls[k + 1].node
      BY <1>2, <1>3, <3>1 DEF CallsInv
    <3>3. CASE k + 1 \in 1..(L - 1)
      BY <1>5, <3>1, <3>2, <3>3
    <3>4. CASE k + 1 \notin 1..(L - 1)
      <4>1. k + 1 = L
        BY <1>7, <3>1, <3>4
      <4>2. calls[k + 1].node = n
        BY <1>4, <4>1
      <4> QED BY <3>1, <3>2, <3>4, <4>2
    <3> QED BY <3>3, <3>4
  <2>5. /\ \A k, l \in DOMAIN calls' : calls'[k].node = calls'[l].node => k = l
        /\ \A k \in DOMAIN calls' :
             /\ calls'[k].edges \subseteq EdgesOf(calls'[k].node)
             /\ k + 1 \in DOMAIN calls' => <<calls'[k].node, calls'[k + 1].node>> \in Edges'
             /\ \A i \in EdgesOf(calls'[k].node) \ calls'[k].edges :
                  \/ connections'[i].to \in Finished'
                  \/ k + 1 \in DOMAIN calls' /\ connections'[i].to = calls'[k + 1].node
    BY <1>1, <1>5, <1>9, <2>2, <2>4, SameGraph
  <2> QED BY <1>1, <2>1, <2>3, <2>5 DEF CallsInv, EdgesOf
<1>16. ClosedInv'
  BY <1>1, <1>2, <1>9, <1>10, SameGraph DEF ClosedInv
<1>17. RootsInv'
  BY <1>1, <1>2 DEF RootsInv
<1>18. CyclesInv'
  <2> SUFFICES ASSUME search = "cycles"
               PROVE  /\ recursionStack' = Calling'
                      /\ \A S \in SUBSET Finished' : Circular(S)' => S = {}
    BY <1>1 DEF CyclesInv
  <2>1. recursionStack' = Calling'
    BY <1>2, <1>6, <1>8 DEF CyclesInv
  <2>2. ASSUME NEW S \in SUBSET (Finished \union {n}), \A x \in S : \E y \in S : <<x, y>> \in Edges
        PROVE  S = {}
    <3>1. S \ {n} \in SUBSET Finished
      OBVIOUS
    <3>2. \A x \in S \ {n} : \E y \in S \ {n} : <<x, y>> \in Edges
      BY <1>9, <1>12, <2>2
    <3>3. S \ {n} = {}
      BY <1>2, <3>1, <3>2 DEF CyclesInv, Circular
    <3>4. n \notin S
      BY <1>9, <1>11, <2>2, <3>3
    <3> QED BY <3>3, <3>4
  <2> QED BY <1>1, <1>9, <2>1, <2>2, SameGraph DEF Circular
<1>19. OrderInv'
  <2> SUFFICES ASSUME search = "order"
               PROVE  /\ ~Cyclic' /\ recursionStack' = {} /\ Range(stack)' = Finished'
                      /\ \A i, j \in DOMAIN stack' :
                           /\ stack'[i] = stack'[j] => i = j
                           /\ <<stack'[i], stack'[j]>> \in Edges' => j < i
    BY <1>1 DEF OrderInv
  <2>1. ~Cyclic' /\ recursionStack' = {}
    BY <1>1, <1>2, <1>6, SameGraph DEF OrderInv
  <2>2. PICK m \in Nat : m = Len(stack)
    BY DEF SearchTypeOK
  <2>3. /\ DOMAIN stack = 1..m /\ DOMAIN stack' = 1..(m + 1)
        /\ \A i \in 1..m : stack'[i] = stack[i]
        /\ stack'[m + 1] = n
    BY <1>4, <1>6, <2>2 DEF SearchTypeOK
  <2>4. \A i \in 1..m : stack[i] \in Finished
    BY <1>2, <2>3 DEF OrderInv, Range
  <2>5. \A i \in 1..(m + 1) : i \in 1..m \/ i = m + 1
    BY <2>2
  <2>6. Range(stack)' = Finished'
    <3>1. Range(stack)' = {stack'[i] : i \in 1..(m + 1)} /\ Range(stack) = {stack[i] : i \in 1..m}
      BY <2>3 DEF Range
    <3>2. Range(stack) = Finished
      BY <1>2 DEF OrderInv
    <3>3. Range(stack)' \subseteq Finished \union {n}
      BY <2>3, <2>4, <2>5, <3>1
    <3>4. \A i \in 1..m : i \in 1..(m + 1)
      BY <2>2
    <3>5. m + 1 \in 1..(m + 1)
      BY <2>2
    <3>6. Finished \union {n} \subseteq Range(stack)'
      BY <2>3, <3>1, <3>2, <3>4, <3>5
    <3> QED BY <1>9, <3>3, <3>6
  <2>7. ASSUME NEW i \in 1..(m + 1), NEW j \in 1..(m + 1)
        PROVE  /\ stack'[i] = stack'[j] => i = j
               /\ <<stack'[i], stack'[j]>> \in Edges => j < i
    <3>1. CASE i \in 1..m /\ j \in 1..m
      BY <1>2, <2>3, <3>1 DEF OrderInv
    <3>2. CASE i \in 1..m /\ j = m + 1
      BY <1>9, <1>12, <2>3, <2>4, <3>2
    <3>3. CASE i = m + 1 /\ j \in 1..m
      <4>1. j < i
        BY <2>2, <3>3
      <4> QED BY <1>9, <2>3, <2>4, <3>3, <4>1
    <3>4. CASE i = m + 1 /\ j = m + 1
      BY <1>9, <1>11, <2>3, <3>4
    <3> QED BY <2>5, <3>1, <3>2, <3>3, <3>4
  <2> QED BY <1>1, <2>1, <2>3, <2>6, <2>7, SameGraph
<1> QED BY <1>1, <1>14, <1>15, <1>16, <1>17, <1>18, <1>19 DEF SearchInv

LEMMA SearchStands ==
  ASSUME SearchTypeOK, SearchInv, UNCHANGED <<connections, searchVars>>
  PROVE  SearchTypeOK' /\ SearchInv' /\ Ended' = Ended /\ TopologicalOrder' = TopologicalOrder
<1>1. Calling' = Calling /\ Finished' = Finished
  BY DEF Calling, Finished, searchVars
<1>2. SearchTypeOK'
  BY SameGraph DEF SearchTypeOK, searchVars
<1>3. CallsInv' = CallsInv /\ ClosedInv' = ClosedInv /\ RootsInv' = RootsInv
  BY <1>1, SameGraph DEF CallsInv, ClosedInv, RootsInv, searchVars
<1>4. CyclesInv' = CyclesInv
  BY <1>1, SameGraph DEF CyclesInv, Circular, searchVars
<1>5. OrderInv' = OrderInv
  BY <1>1, SameGraph DEF OrderInv, searchVars
<1> QED BY <1>2, <1>3, <1>4, <1>5, SameGraph DEF SearchInv, Ended, TopologicalOrder, searchVars

LEMMA BeginsKeeps ==
  ASSUME SearchTypeOK, NEW kind \in {"cycles", "order"}, Begins(kind), UNCHANGED connections,
         kind = "order" => ~Cyclic
  PROVE  SearchTypeOK' /\ SearchInv'
<1>1. /\ search' = kind /\ todo' = NodeList /\ calls' = <<>> /\ visited' = {}
      /\ recursionStack' = {} /\ found' = FALSE /\ stack' = <<>>
  BY DEF Begins
<1>2. Calling' = {} /\ Finished' = {}
  BY <1>1 DEF Calling, Finished
<1>3. SearchTypeOK'
  <2>1. <<>> \in Seq(Frame) /\ <<>> \in Seq(Ids) /\ {} \subseteq Ids
    OBVIOUS
  <2>2. connections' \in Seq(Connection) /\ Frame' = Frame
    BY SameGraph DEF SearchTypeOK
  <2>3. todo' \in Seq(Nodes)
    BY <1>1, GraphAssumption
  <2>4. search' \in {"none", "cycles", "order"} /\ found' \in BOOLEAN
    BY <1>1
  <2>5. calls' \in Seq(Frame) /\ stack' \in Seq(Ids) /\ visited' \subseteq Ids
    BY <1>1, <2>1
  <2> QED BY <2>2, <2>3, <2>4, <2>5 DEF SearchTypeOK
<1>4. CallsInv' /\ ClosedInv'
  BY <1>1, <1>2 DEF CallsInv, ClosedInv
<1>5. RootsInv'
  BY <1>1, GraphAssumption DEF RootsInv
<1>6. CyclesInv'
  BY <1>1, <1>2 DEF CyclesInv
<1>7. OrderInv'
  <2>1. Range(<<>>) = {} /\ DOMAIN <<>> = {}
    BY DEF Range
  <2>2. stack' = <<>> /\ Finished' = {} /\ recursionStack' = {}
    BY <1>1, <1>2
  <2>3. search' = "order" => ~Cyclic'
    BY <1>1, SameGraph
  <2> QED BY <2>1, <2>2, <2>3 DEF OrderInv, Range
<1> QED BY <1>1, <1>3, <1>4, <1>5, <1>6, <1>7 DEF SearchInv

-----------------------------------------------------------------------------
(* What a search has found when it ends. *)

LEMMA AllAreFinished ==
  ASSUME SearchTypeOK, SearchInv, search # "none", ~found, Ended
  PROVE  Finished = visited /\ Nodes \subseteq Finished
<1>1. calls = <<>> /\ todo = <<>>
  BY DEF Ended
<1>2. Calling = {}
  BY <1>1 DEF Calling
<1>3. RootsInv
  BY DEF SearchInv
<1>4. \A n \in Nodes : n \in visited
  BY <1>1, <1>3 DEF RootsInv
<1> QED BY <1>2, <1>4 DEF Finished

\* If the search for cycles ends, it has found one exactly if there is one: of a set
\* of ids that lead to one another, those that are finished do so as well.
LEMMA SearchFindsCycles ==
  ASSUME SearchTypeOK, SearchInv, search = "cycles", Ended
  PROVE  found <=> Cyclic
<1>1. CASE found
  BY <1>1 DEF SearchInv
<1>2. CASE ~found
  <2> SUFFICES ASSUME Cyclic PROVE FALSE
    BY <1>2
  <2>1. PICK S \in SUBSET Ids : S \intersect Nodes # {} /\ Circular(S)
    BY DEF Cyclic, Circular
  <2>2. ClosedInv /\ CyclesInv
    BY <1>2 DEF SearchInv
  <2>3. \A x \in Finished : \A y : <<x, y>> \in Edges => y \in Finished
    BY <2>2, EdgeIs DEF ClosedInv
  <2>4. Circular(S \intersect Finished)
    BY <2>1, <2>3 DEF Circular
  <2>5. S \intersect Finished = {}
    BY <2>2, <2>4 DEF CyclesInv
  <2> QED BY <1>2, <2>1, <2>5, AllAreFinished
<1> QED BY <1>1, <1>2 DEF SearchTypeOK

\* The reverse of the stack has every node once, after the nodes that lead to it.
LEMMA OrderIsRight ==
  ASSUME SearchTypeOK, SearchInv, search = "order", Ended, order = TopologicalOrder
  PROVE  /\ order \in Seq(Ids) /\ Nodes \subseteq Range(order)
         /\ \A i, j \in DOMAIN order : /\ order[i] = order[j] => i = j
                                       /\ <<order[i], order[j]>> \in Edges => i < j
<1>1. ~found /\ OrderInv /\ stack \in Seq(Ids)
  BY DEF SearchInv, SearchTypeOK
<1>2. PICK m \in Nat : m = Len(stack)
  BY <1>1
<1>3. /\ DOMAIN stack = 1..m /\ DOMAIN order = 1..m /\ Len(order) = m
      /\ \A i \in 1..m : order[i] = stack[m - i + 1]
      /\ order \in Seq(Ids)
  <2>1. order = [i \in 1..m |-> stack[m - i + 1]]
    BY <1>2 DEF TopologicalOrder, Reverse
  <2>2. \A i \in 1..m : m - i + 1 \in 1..m
    BY <1>2
  <2>3. \A i \in 1..m : stack[m - i + 1] \in Ids
    BY <1>1, <1>2, <2>2
  <2> QED BY <1>1, <1>2, <2>1, <2>3
<1>4. \A i \in 1..m : m - i + 1 \in 1..m /\ m - (m - i + 1) + 1 = i
  BY <1>2
<1>5. Nodes \subseteq Range(stack)
  BY <1>1, AllAreFinished DEF OrderInv
<1>6. Range(stack) = {stack[i] : i \in 1..m} /\ Range(order) = {order[i] : i \in 1..m}
  BY <1>3 DEF Range
<1>7. \A i \in 1..m : stack[i] \in Range(order)
  BY <1>3, <1>4, <1>6
<1>8. ASSUME NEW i \in 1..m, NEW j \in 1..m
      PROVE  /\ order[i] = order[j] => i = j
             /\ <<order[i], order[j]>> \in Edges => i < j
  <2>1. order[i] = stack[m - i + 1] /\ order[j] = stack[m - j + 1]
    BY <1>3
  <2>2. /\ stack[m - i + 1] = stack[m - j + 1] => m - i + 1 = m - j + 1
        /\ <<stack[m - i + 1], stack[m - j + 1]>> \in Edges => m - j + 1 < m - i + 1
    BY <1>1, <1>3, <1>4 DEF OrderInv
  <2>3. /\ m - i + 1 = m - j + 1 => i = j
        /\ m - j + 1 < m - i + 1 => i < j
    BY <1>2
  <2> QED BY <2>1, <2>2, <2>3
<1>9. Nodes \subseteq Range(order)
  BY <1>5, <1>6, <1>7
<1>10. \A i, j \in DOMAIN order : /\ order[i] = order[j] => i = j
                                  /\ <<order[i], order[j]>> \in Edges => i < j
  BY <1>3, <1>8
<1> QED BY <1>3, <1>9, <1>10

-----------------------------------------------------------------------------
(* The invariant of a flow's run. *)

\* The pins that sources have filled with data.
Fed(n) == {c.pin : c \in {d \in Incoming(n) :
                            d.from \in DOMAIN results /\ results[d.from] = "data"}}

\* A node that runs fills no pin of a node that it does not lead to.
LEMMA FedStays ==
  ASSUME connections' = connections, NEW n, NEW m, <<n, m>> \notin Edges, NEW a,
         results' = Put(results, n, a)
  PROVE  Fed(m)' = Fed(m)
<1>1. Incoming(m)' = Incoming(m)
  BY DEF Incoming
<1>2. \A d \in Incoming(m) : d.from # n
  <2> SUFFICES ASSUME NEW d \in Incoming(m) PROVE <<d.from, m>> \in Edges
    OBVIOUS
  <2> QED BY DEF Incoming, Edges
<1>3. \A k : k # n => /\ k \in DOMAIN results' <=> k \in DOMAIN results
                      /\ k \in DOMAIN results => results'[k] = results[k]
  BY DEF Put
<1>4. {d \in Incoming(m) : d.from \in DOMAIN results' /\ results'[d.from] = "data"}
        = {d \in Incoming(m) : d.from \in DOMAIN results /\ results[d.from] = "data"}
  BY <1>2, <1>3
<1> QED BY <1>1, <1>4 DEF Fed

LEMMA InputsAre ==
  InputsComeFromSources <=>
    (executor = "orchestrator" => \A n \in DOMAIN given :
       given[n] = IF Fed(n) = {} THEN Config[n] ELSE Fed(n))
BY DEF InputsComeFromSources, Fed

\* The first of the order have run, and one more does.
LEMMA RunKeepsLoopInv ==
  ASSUME GraphInv, RunNode
  PROVE  LoopInv'
<1>1. /\ phase = "running" /\ done < Len(order) /\ order[done + 1] \in Nodes
      /\ UNCHANGED <<connections, executor, order, searchVars>>
  BY DEF RunNode
<1>2. /\ order \in Seq(Ids)
      /\ \A i, j \in DOMAIN order : /\ order[i] = order[j] => i = j
                                    /\ <<order[i], order[j]>> \in Edges => i < j
  BY <1>1, OrderIsRight DEF GraphInv, PhaseInv
<1>3. LoopInv /\ done \in Nat /\ Len(order) \in Nat
  BY <1>2 DEF GraphInv, LoopInv
<1>4. PICK n : n = order[done + 1]
  OBVIOUS
<1>5. PICK a \in AnswersOf(n) :
        /\ given' = Put(given, n, InputsOf(n))
        /\ results' = Put(results, n, a)
        /\ done' = done + 1
        /\ phase' \in {"failed", phase}
  BY <1>4 DEF RunNode
<1>6. /\ done' \in 0..Len(order) /\ done + 1 \in DOMAIN order
      /\ \A i \in 1..done : i \in DOMAIN order /\ i # done + 1 /\ ~(done + 1 < i) /\ i \in 1..(done + 1)
      /\ \A i \in 1..(done + 1) : i \in 1..done \/ i = done + 1
      /\ done + 1 \in 1..(done + 1) /\ ~(done + 1 < done + 1)
  BY <1>1, <1>2, <1>3, <1>5
<1>7. DOMAIN results' = DOMAIN results \union {n} /\ DOMAIN given' = DOMAIN given \union {n}
  BY <1>5 DEF Put
<1>8. DOMAIN results = {order[i] : i \in 1..done} /\ DOMAIN given = DOMAIN results
  BY <1>3 DEF LoopInv
<1>9. DOMAIN results' = {order[i] : i \in 1..(done + 1)} /\ DOMAIN given' = DOMAIN results'
  <2>1. \A i \in 1..(done + 1) : order[i] \in DOMAIN results'
    BY <1>4, <1>6, <1>7, <1>8
  <2>2. \A x \in DOMAIN results' : \E i \in 1..(done + 1) : x = order[i]
    BY <1>4, <1>6, <1>7, <1>8
  <2>3. DOMAIN results' = {order[i] : i \in 1..(done + 1)}
    BY <2>1, <2>2
  <2> QED BY <1>7, <1>8, <2>3
<1>10. \A m \in DOMAIN given : m # n /\ <<n, m>> \notin Edges
  BY <1>2, <1>4, <1>6, <1>8
<1>11. <<n, n>> \notin Edges
  BY <1>2, <1>4, <1>6
<1>12. InputsComeFromSources'
  <2> SUFFICES ASSUME executor = "orchestrator", NEW m \in DOMAIN given'
               PROVE  given'[m] = IF Fed(m)' = {} THEN Config[m] ELSE Fed(m)'
    BY <1>1 DEF InputsComeFromSources, Fed
  <2>1. CASE m = n
    <3>1. Fed(n)' = Fed(n)
      BY <1>1, <1>5, <1>11, FedStays
    <3>2. Collected(n) = Fed(n)
      BY DEF Collected, Fed
    <3>3. given'[n] = InputsOf(n)
      BY <1>5, <1>7 DEF Put
    <3> QED BY <2>1, <3>1, <3>2, <3>3 DEF InputsOf
  <2>2. CASE m # n
    <3>1. m \in DOMAIN given /\ given'[m] = given[m]
      BY <1>5, <1>7, <2>2 DEF Put
    <3>2. Fed(m)' = Fed(m)
      BY <1>1, <1>5, <1>10, <3>1, FedStays
    <3>3. given[m] = IF Fed(m) = {} THEN Config[m] ELSE Fed(m)
      BY <1>3, <3>1, InputsAre DEF LoopInv
    <3> QED BY <3>1, <3>2, <3>3
  <2> QED BY <2>1, <2>2
<1>13. phase' \notin {"defined", "searching", "refused"}
  BY <1>1, <1>5
<1> QED BY <1>1, <1>5, <1>6, <1>9, <1>12, <1>13 DEF LoopInv

LEMMA GraphStarts ==
  GraphInit => GraphInv
<1> SUFFICES ASSUME GraphInit PROVE GraphInv
  OBVIOUS
<1>1. /\ search = "none" /\ todo = <<>> /\ calls = <<>> /\ visited = {} /\ found = FALSE
      /\ stack = <<>> /\ phase = "defined" /\ done = 0 /\ order = <<>>
      /\ results = <<>> /\ given = <<>>
  BY DEF GraphInit, SearchInit
<1>2. connections \in Seq(Connection)
  <2>1. PICK k \in 0..MaxConnections : connections \in [1..k -> Connection]
    BY DEF GraphInit
  <2>2. k \in Nat
    BY <2>1, GraphAssumption
  <2> QED BY <2>1, <2>2
<1>3. SearchTypeOK
  <2>1. <<>> \in Seq(Frame) /\ <<>> \in Seq(Ids) /\ <<>> \in Seq(Nodes)
    OBVIOUS
  <2> QED BY <1>1, <1>2, <2>1 DEF SearchTypeOK
<1>4. SearchInv /\ PhaseInv
  BY <1>1 DEF SearchInv, PhaseInv
<1>5. LoopInv
  BY <1>1 DEF LoopInv, InputsComeFromSources
<1> QED BY <1>3, <1>4, <1>5 DEF GraphInv

\* The loop has not begun, or is at its beginning.
LEMMA LoopStarts ==
  ASSUME LoopInv, done = 0, UNCHANGED <<done, results, given>>, order' \in Seq(Ids)
  PROVE  LoopInv'
<1>1. 1..0 = {}
  OBVIOUS
<1>2. DOMAIN results = {} /\ DOMAIN given = {}
  BY <1>1 DEF LoopInv
<1>3. 0 \in 0..Len(order') /\ {order'[i] : i \in 1..0} = {}
  OBVIOUS
<1>4. InputsComeFromSources'
  BY <1>2 DEF InputsComeFromSources
<1> QED BY <1>2, <1>3, <1>4 DEF LoopInv

LEMMA GraphSteps ==
  GraphInv /\ [GraphNext]_graphVars => GraphInv'
<1> SUFFICES ASSUME GraphInv, [GraphNext]_graphVars PROVE GraphInv'
  OBVIOUS
<1>0. SearchTypeOK /\ SearchInv /\ PhaseInv /\ LoopInv
  BY DEF GraphInv
<1>1. CASE Begin
  <2>1. CASE ~Valid /\ phase' = "refused" /\ UNCHANGED searchVars
    BY <1>0, <1>1, <2>1, SearchStands
       DEF Begin, GraphInv, PhaseInv, LoopInv, loopVars, InputsComeFromSources, Incoming
  <2>2. CASE Valid /\ phase' = "searching" /\ Begins("cycles")
    <3>1. SearchTypeOK' /\ SearchInv'
      BY <1>0, <1>1, <2>2, BeginsKeeps DEF Begin
    <3> QED BY <1>0, <1>1, <2>2, <3>1
            DEF Begin, Begins, GraphInv, PhaseInv, LoopInv, loopVars, InputsComeFromSources, Incoming
  <2> QED BY <1>1, <2>1, <2>2 DEF Begin
<1>2. CASE Search
  <2>1. search # "none" /\ UNCHANGED connections /\ (NextNode \/ FollowEdge \/ Return)
    BY <1>0, <1>2 DEF Search, PhaseInv
  <2>2. SearchTypeOK' /\ SearchInv'
    BY <1>0, <2>1, NextNodeKeeps, FollowEdgeKeeps, ReturnKeeps
  <2>3. search' = search
    BY <2>1 DEF NextNode, FollowEdge, Return
  <2> QED BY <1>0, <1>2, <2>1, <2>2, <2>3
          DEF Search, GraphInv, PhaseInv, LoopInv, loopVars, InputsComeFromSources, Incoming
<1>3. CASE Judge
  <2>1. CASE found /\ phase' = "refused" /\ UNCHANGED searchVars
    BY <1>0, <1>3, <2>1, SearchStands
       DEF Judge, GraphInv, PhaseInv, LoopInv, loopVars, InputsComeFromSources, Incoming
  <2>2. CASE ~found /\ phase' = phase /\ Begins("order")
    <3>1. ~Cyclic
      BY <1>0, <1>3, <2>2, SearchFindsCycles DEF Judge
    <3>2. SearchTypeOK' /\ SearchInv'
      BY <1>0, <1>3, <2>2, <3>1, BeginsKeeps DEF Judge
    <3> QED BY <1>0, <1>3, <2>2, <3>2
            DEF Judge, Begins, GraphInv, PhaseInv, LoopInv, loopVars, InputsComeFromSources, Incoming
  <2> QED BY <1>3, <2>1, <2>2 DEF Judge
<1>4. CASE PutInOrder
  <2>1. /\ phase = "searching" /\ search = "order" /\ Ended
        /\ phase' = "running" /\ order' = TopologicalOrder
        /\ UNCHANGED <<connections, executor, searchVars, done, results, given>>
    BY <1>4 DEF PutInOrder
  <2>2. SearchTypeOK' /\ SearchInv' /\ Ended' /\ order' = TopologicalOrder' /\ search' = "order"
    BY <1>0, <2>1, SearchStands DEF searchVars
  <2>3. PhaseInv'
    BY <2>1, <2>2 DEF PhaseInv
  <2>4. order' \in Seq(Ids)
    BY <2>2, OrderIsRight, <2>1 DEF SearchTypeOK, TopologicalOrder, Reverse
  <2>5. LoopInv'
    BY <1>0, <2>1, <2>4, LoopStarts DEF LoopInv
  <2> QED BY <2>2, <2>3, <2>5 DEF GraphInv
<1>5. CASE RunNode
  <2>1. /\ UNCHANGED <<connections, executor, order, searchVars>> /\ phase = "running"
        /\ phase' \in {"failed", "running"}
    BY <1>5 DEF RunNode
  <2>2. SearchTypeOK' /\ SearchInv' /\ Ended' = Ended /\ TopologicalOrder' = TopologicalOrder
    BY <1>0, <2>1, SearchStands
  <2>3. PhaseInv'
    BY <1>0, <2>1, <2>2 DEF PhaseInv, searchVars
  <2> QED BY <1>5, <2>2, <2>3, RunKeepsLoopInv DEF GraphInv
<1>6. CASE MissingNode \/ Finish
  <2>1. /\ UNCHANGED <<connections, executor, searchVars, loopVars>> /\ phase = "running"
        /\ phase' \in {"failed", "succeeded"}
    BY <1>6 DEF MissingNode, Finish
  <2>2. SearchTypeOK' /\ SearchInv' /\ Ended' = Ended /\ TopologicalOrder' = TopologicalOrder
    BY <1>0, <2>1, SearchStands
  <2>3. PhaseInv'
    BY <1>0, <2>1, <2>2 DEF PhaseInv, searchVars, loopVars
  <2>4. LoopInv'
    BY <1>0, <2>1 DEF LoopInv, loopVars, InputsComeFromSources, Incoming
  <2> QED BY <2>2, <2>3, <2>4 DEF GraphInv
<1>7. CASE UNCHANGED graphVars
  <2>1. UNCHANGED <<connections, executor, phase, searchVars, loopVars>>
    BY <1>7 DEF graphVars
  <2>2. SearchTypeOK' /\ SearchInv' /\ Ended' = Ended /\ TopologicalOrder' = TopologicalOrder
    BY <1>0, <2>1, SearchStands
  <2>3. PhaseInv'
    BY <1>0, <2>1, <2>2 DEF PhaseInv, searchVars, loopVars
  <2>4. LoopInv'
    BY <1>0, <2>1 DEF LoopInv, loopVars, InputsComeFromSources, Incoming
  <2> QED BY <2>2, <2>3, <2>4 DEF GraphInv
<1> QED BY <1>1, <1>2, <1>3, <1>4, <1>5, <1>6, <1>7 DEF GraphNext

LEMMA GraphInvHolds ==
  GraphSpec => []GraphInv
BY GraphStarts, GraphSteps, PTL DEF GraphSpec

-----------------------------------------------------------------------------
(* What it makes of a flow. *)

\* hasCycles answers true exactly if the connections go in a circle that a node of the
\* flow leads to, and a flow with one is never put in order.
THEOREM CyclesAreAlwaysFound ==
  GraphSpec => []CyclesAreFound
<1>1. GraphInv => CyclesAreFound
  BY SearchFindsCycles DEF GraphInv, CyclesAreFound, SearchInv, OrderInv
<1> QED BY <1>1, GraphInvHolds, PTL

\* getTopologicalOrder has every node of the flow once, after all that lead to it.
THEOREM OrderAlwaysRespectsConnections ==
  GraphSpec => []OrderRespectsConnections
<1>1. GraphInv => OrderRespectsConnections
  BY OrderIsRight DEF GraphInv, PhaseInv, OrderRespectsConnections
<1> QED BY <1>1, GraphInvHolds, PTL

\* A node runs on what its sources answer in the whole of the run, or on its config if
\* none of them answers with data.
THEOREM InputsAlwaysComeFromSources ==
  GraphSpec => []InputsComeFromSources
<1>1. GraphInv => InputsComeFromSources
  BY DEF GraphInv, LoopInv
<1> QED BY <1>1, GraphInvHolds, PTL

-----------------------------------------------------------------------------
(***************************************************************************)
(* The nodes' work on data.                                                *)
(***************************************************************************)

DataSpec == DataInit /\ [][DataNext]_dataVars

\* A task is answered as its action answers it.
AnswerInv ==
  \/ answer = Unanswered
  \/ /\ task \in FilterTask
     /\ answer = [kind |-> "filtered", node |-> DataFilter(task.data, task.conditions),
                  transformation |-> FilterTransformation(task.data, task.conditions)]
  \/ task \in MapTask /\ answer = [kind |-> "mapped", item |-> FieldMapper(task.item, task.mapping)]
  \/ /\ task \in MongoTask
     /\ MongoRefuses(task.in) \/ DriverRefuses(task.in)
     /\ answer = [kind |-> "thrown"]
  \/ /\ task \in MongoTask
     /\ \E e \in Effects(task.in) :
          answer = [kind |-> "operated", effect |-> e, records |-> RecordsProcessed(task.in, e)]
  \/ /\ task \in SuggestTask
     /\ \E t \in SuggestedTransformations(task.output, task.input, task.alike) :
          answer = [kind |-> "suggested", transformation |-> t, applied |-> Applies(t, task.output)]
DataInv == task \in FilterTask \union MapTask \union MongoTask \union SuggestTask /\ AnswerInv

LEMMA KindOfTask ==
  /\ \A t \in FilterTask : t.kind = "filter"
  /\ \A t \in MapTask : t.kind = "map"
  /\ \A t \in MongoTask : t.kind = "mongo" /\ t.in \in MongoInput
  /\ \A t \in SuggestTask : t.kind = "suggest"
BY DEF FilterTask, MapTask, MongoTask, SuggestTask

LEMMA DataInvHolds ==
  DataSpec => []DataInv
<1>1. DataInit => DataInv
  BY DEF DataInit, DataInv, AnswerInv
<1>2. DataInv /\ [DataNext]_dataVars => DataInv'
  <2> SUFFICES ASSUME DataInv, [DataNext]_dataVars PROVE DataInv'
    OBVIOUS
  <2>1. CASE Filter
    <3>1. task \in FilterTask
      BY <2>1, KindOfTask DEF Filter, DataInv
    <3> QED BY <2>1, <3>1 DEF Filter, DataInv, AnswerInv
  <2>2. CASE Map
    <3>1. task \in MapTask
      BY <2>2, KindOfTask DEF Map, DataInv
    <3> QED BY <2>2, <3>1 DEF Map, DataInv, AnswerInv
  <2>3. CASE Operate
    <3>1. task \in MongoTask
      BY <2>3, KindOfTask DEF Operate, DataInv
    <3> QED BY <2>3, <3>1 DEF Operate, DataInv, AnswerInv
  <2>4. CASE Suggest
    <3>1. task \in SuggestTask
      BY <2>4, KindOfTask DEF Suggest, DataInv
    <3> QED BY <2>4, <3>1 DEF Suggest, DataInv, AnswerInv
  <2>5. CASE UNCHANGED dataVars
    BY <2>5 DEF dataVars, DataInv, AnswerInv
  <2> QED BY <2>1, <2>2, <2>3, <2>4, <2>5 DEF DataNext
<1> QED BY <1>1, <1>2, PTL DEF DataSpec

\* Two functions on 0..n that begin and go on in the same way are the same.
LEMMA SameSteps ==
  ASSUME NEW n \in Nat, NEW f, NEW g, f[0] = g[0],
         \A k \in 1..n : f[k - 1] = g[k - 1] => f[k] = g[k]
  PROVE  f[n] = g[n]
<1> DEFINE B == {k \in 0..n : f[k] # g[k]}
<1>1. B = {}
  <2> SUFFICES ASSUME B # {} PROVE FALSE
    OBVIOUS
  <2>1. B \subseteq Nat
    OBVIOUS
  <2>2. PICK k \in B : \A j \in B : <<j, k>> \notin OpToRel(<, Nat)
    BY <2>1, NatLessThanWellFounded, WFMin
  <2>3. \A j \in B : ~(j < k)
    BY <2>1, <2>2 DEF OpToRel
  <2>4. k \in 1..n /\ k - 1 \in 0..n /\ k - 1 < k
    OBVIOUS
  <2>5. k - 1 \in B
    BY <2>4
  <2> QED BY <2>3, <2>4, <2>5
<1>2. n \in 0..n /\ n \notin B
  BY <1>1
<1> QED BY <1>2

\* A filter that keeps no item answers the empty list.
LEMMA KeptNone ==
  ASSUME NEW S, NEW data \in Seq(S)
  PROVE  Kept(data, {}) = <<>>
<1>1. PICK n \in Nat : n = Len(data)
  OBVIOUS
<1> DEFINE F(f) == [k \in 0..n |-> IF k = 0 THEN <<>>
                                   ELSE IF data[k] \in {} THEN Append(f[k - 1], data[k])
                                   ELSE f[k - 1]]
<1>2. Kept(data, {}) = (CHOOSE f : f = F(f))[n]
  BY <1>1 DEF Kept
<1>3. PICK g : g = [k \in 0..n |-> <<>>]
  OBVIOUS
<1>4. g = F(g)
  <2>1. \A k \in 0..n : k # 0 => k - 1 \in 0..n
    BY <1>1
  <2> QED BY <1>3, <2>1
<1>5. PICK f : f = F(f) /\ Kept(data, {}) = f[n]
  BY <1>2, <1>4
<1>6. f[0] = g[0] /\ \A k \in 1..n : f[k] = f[k - 1] /\ g[k] = g[k - 1]
  BY <1>3, <1>5
<1>7. f[n] = g[n]
  <2>1. \A k \in 1..n : f[k - 1] = g[k - 1] => f[k] = g[k]
    BY <1>6
  <2> HIDE DEF F
  <2> QED BY <1>6, <2>1, SameSteps
<1>8. n \in 0..n
  OBVIOUS
<1> QED BY <1>3, <1>5, <1>7, <1>8

\* On the operators they share, and values that they both read, the two filters keep the
\* same items.
LEMMA FiltersAgree ==
  ASSUME NEW t \in FilterTask
  PROVE  IF \A c \in Range(t.conditions) : c.operator \in Shared
         THEN (\A c \in Range(t.conditions), item \in Range(t.data) : SameReading(item, c.field))
                => DataFilter(t.data, t.conditions) = FilterTransformation(t.data, t.conditions)
         ELSE DataFilter(t.data, t.conditions) = <<>>
<1>1. t.data \in Seq(Items)
  BY DataAssumption DEF FilterTask
<1>2. CASE \A c \in Range(t.conditions) : c.operator \in Shared
  <2> SUFFICES ASSUME \A c \in Range(t.conditions), item \in Range(t.data) : SameReading(item, c.field)
               PROVE  DataFilter(t.data, t.conditions) = FilterTransformation(t.data, t.conditions)
    BY <1>2
  <2>1. ASSUME NEW item \in Range(t.data), NEW c \in Range(t.conditions)
        PROVE  NodeKeeps(item, c) <=> TransformationKeeps(item, c)
    <3>1. PICK x : x = item[<<c.field>>] /\ x = GetNestedValue(item, c.field)
      BY DEF SameReading
    <3>2. c.operator \in {"equals", "not_equals", "greater_than", "less_than", "contains"}
      BY <1>2 DEF Shared
    <3>3. CASE c.operator = "equals"
      BY <3>1, <3>3 DEF NodeKeeps, TransformationKeeps
    <3>4. CASE c.operator = "not_equals"
      BY <3>1, <3>4 DEF NodeKeeps, TransformationKeeps
    <3>5. CASE c.operator = "greater_than"
      BY <3>1, <3>5 DEF NodeKeeps, TransformationKeeps
    <3>6. CASE c.operator = "less_than"
      BY <3>1, <3>6 DEF NodeKeeps, TransformationKeeps
    <3>7. CASE c.operator = "contains"
      BY <3>1, <3>7 DEF NodeKeeps, TransformationKeeps
    <3> QED BY <3>2, <3>3, <3>4, <3>5, <3>6, <3>7
  <2>2. {item \in Range(t.data) : \A c \in Range(t.conditions) : NodeKeeps(item, c)}
          = {item \in Range(t.data) : \A c \in Range(t.conditions) : TransformationKeeps(item, c)}
    BY <2>1
  <2> QED BY <2>2 DEF DataFilter, FilterTransformation
<1>3. CASE ~(\A c \in Range(t.conditions) : c.operator \in Shared)
  <2>1. {item \in Range(t.data) : \A c \in Range(t.conditions) : NodeKeeps(item, c)} = {}
    BY <1>3 DEF NodeKeeps, Shared
  <2>2. Kept(t.data, {}) = <<>>
    BY <1>1, KeptNone
  <2> QED BY <1>3, <2>1, <2>2 DEF DataFilter
<1> QED BY <1>2, <1>3

\* Every nonempty set of numbers up to n has a largest one.
LEMMA Largest ==
  ASSUME NEW n \in Nat, NEW T \in SUBSET (0..n), T # {}
  PROVE  \E m \in T : \A x \in T : x <= m
<1> DEFINE U == {n - x : x \in T}
<1>1. U \subseteq Nat /\ U # {}
  <2>1. \A x \in T : x \in Nat /\ n - x \in Nat
    OBVIOUS
  <2>2. PICK x \in T : TRUE
    OBVIOUS
  <2>3. n - x \in U
    OBVIOUS
  <2> QED BY <2>1, <2>3
<1>2. IsWellFoundedOn(OpToRel(<, Nat), Nat)
  BY NatLessThanWellFounded
<1>3. PICK u \in U : \A y \in U : <<y, u>> \notin OpToRel(<, Nat)
  BY <1>1, <1>2, WFMin
<1>4. \A y \in U : ~(y < u)
  BY <1>1, <1>3 DEF OpToRel
<1>5. PICK m \in T : u = n - m
  OBVIOUS
<1>6. ASSUME NEW x \in T PROVE x <= m
  <2>1. ~(n - x < n - m)
    BY <1>4, <1>5
  <2> QED BY <2>1
<1> QED BY <1>6

\* A mapping of renames, the last pair of each target counting: both answer the same item
\* just when they read the same values of it.
LEMMA MappersAgree ==
  ASSUME NEW item, NEW m \in Lists(Entry), \A e \in Range(m) : e.transformation = "rename",
         NEW fieldMappings,
         fieldMappings = [t \in {e.to : e \in Range(m)} |->
           m[CHOOSE i \in DOMAIN m : m[i].to = t /\ \A j \in DOMAIN m : m[j].to = t => j <= i].from]
  PROVE  FieldMapper(item, m) = MapTransformation(item, fieldMappings)
           <=> \A t \in DOMAIN fieldMappings : SameReading(item, fieldMappings[t])
<1>1. PICK k \in 0..MaxConditions : m \in [1..k -> Entry]
  BY DEF Lists
<1>2. k \in Nat /\ DOMAIN m = 1..k /\ DOMAIN fieldMappings = {e.to : e \in Range(m)}
  BY <1>1
<1>3. \A i \in 1..k : m[i] \in Range(m) /\ m[i].transformation = "rename"
  BY <1>2 DEF Range
<1>4. ASSUME NEW f \in Fields
      PROVE  FieldMapper(item, m)[f] = MapTransformation(item, fieldMappings)[f]
               <=> (f \in DOMAIN fieldMappings => SameReading(item, fieldMappings[f]))
  <2> DEFINE writes == {i \in DOMAIN m : m[i].to = f /\ m[i].transformation # "other"}
  <2>1. writes = {i \in 1..k : m[i].to = f}
    BY <1>2, <1>3
  <2>2. FieldMapper(item, m)[f] =
          IF writes = {} THEN Absent
          ELSE Written(item, m[CHOOSE i \in writes : \A j \in writes : j <= i])
    BY DEF FieldMapper
  <2>3. MapTransformation(item, fieldMappings)[f] =
          IF f \in DOMAIN fieldMappings THEN GetNestedValue(item, fieldMappings[f]) ELSE Absent
    BY DEF MapTransformation
  <2>4. f \in DOMAIN fieldMappings <=> writes # {}
    BY <1>2, <1>3, <2>1 DEF Range
  <2> HIDE DEF writes
  <2>5. CASE writes = {}
    BY <2>2, <2>3, <2>4, <2>5
  <2>6. CASE writes # {}
    <3>1. writes \in SUBSET (0..k)
      BY <1>2, <2>1
    <3>2. PICK last \in writes : \A j \in writes : j <= last
      BY <1>2, <2>6, <3>1, Largest
    <3>3. \A i \in writes : (\A j \in writes : j <= i) => i = last
      BY <1>2, <3>1, <3>2
    <3>4. (CHOOSE i \in writes : \A j \in writes : j <= i) = last
      BY <3>2, <3>3
    <3>5. \A i : (i \in DOMAIN m /\ m[i].to = f /\ \A j \in DOMAIN m : m[j].to = f => j <= i)
                   <=> i = last
      BY <1>2, <2>1, <3>2, <3>3
    <3>6. (CHOOSE i \in DOMAIN m : m[i].to = f /\ \A j \in DOMAIN m : m[j].to = f => j <= i) = last
      BY <3>5
    <3>7. fieldMappings[f] = m[last].from
      BY <1>2, <2>4, <2>6, <3>6
    <3>8. Written(item, m[last]) = item[<<m[last].from>>]
      BY <1>3, <2>1, <3>2 DEF Written
    <3> QED BY <2>2, <2>3, <2>4, <2>6, <3>4, <3>7, <3>8 DEF SameReading
  <2> QED BY <2>5, <2>6
<1>5. /\ DOMAIN FieldMapper(item, m) = Fields
      /\ DOMAIN MapTransformation(item, fieldMappings) = Fields
      /\ FieldMapper(item, m) = [f \in Fields |-> FieldMapper(item, m)[f]]
      /\ MapTransformation(item, fieldMappings) = [f \in Fields |-> MapTransformation(item, fieldMappings)[f]]
  BY DEF FieldMapper, MapTransformation
<1>6. FieldMapper(item, m) = MapTransformation(item, fieldMappings)
        <=> \A f \in Fields : FieldMapper(item, m)[f] = MapTransformation(item, fieldMappings)[f]
  BY <1>5
<1>7. DOMAIN fieldMappings \subseteq Fields
  <2>1. \A i \in 1..k : m[i].to \in Fields
    BY <1>1 DEF Entry
  <2> QED BY <1>2, <2>1 DEF Range
<1> QED BY <1>4, <1>6, <1>7

\* The data filter and the field mapper do what the transformations of the same meaning
\* do as far as they read the same values, and of the suggested transformations only the mapping of fields can be applied.
THEOREM TransformationsAlwaysAgree ==
  DataSpec => []TransformationsAgree
<1>1. ASSUME DataInv PROVE TransformationsAgree
  <2>1. answer.kind = "filtered" =>
          task \in FilterTask /\ answer.node = DataFilter(task.data, task.conditions)
            /\ answer.transformation = FilterTransformation(task.data, task.conditions)
    BY <1>1 DEF DataInv, AnswerInv, Unanswered
  <2>2. answer.kind = "mapped" =>
          task \in MapTask /\ answer.item = FieldMapper(task.item, task.mapping)
    BY <1>1 DEF DataInv, AnswerInv, Unanswered
  <2>3. answer.kind = "suggested" =>
          \E t \in SuggestedTransformations(task.output, task.input, task.alike) :
            answer.transformation = t /\ answer.applied = Applies(t, task.output)
    BY <1>1 DEF DataInv, AnswerInv, Unanswered
  <2>4. answer.kind = "filtered" =>
          IF \A c \in Range(task.conditions) : c.operator \in Shared
          THEN (\A c \in Range(task.conditions), item \in Range(task.data) : SameReading(item, c.field))
                 => answer.node = answer.transformation
          ELSE answer.node = <<>>
    BY <2>1, FiltersAgree
  <2>5. ASSUME answer.kind = "mapped", \A e \in Range(task.mapping) : e.transformation = "rename",
               NEW fieldMappings,
               fieldMappings = [t \in {e.to : e \in Range(task.mapping)} |->
                 task.mapping[CHOOSE i \in DOMAIN task.mapping : task.mapping[i].to = t
                   /\ \A j \in DOMAIN task.mapping : task.mapping[j].to = t => j <= i].from]
        PROVE  answer.item = MapTransformation(task.item, fieldMappings)
                 <=> \A t \in DOMAIN fieldMappings : SameReading(task.item, fieldMappings[t])
    <3>1. task.mapping \in Lists(Entry)
      BY <2>2, <2>5 DEF MapTask
    <3>2. PICK m \in Lists(Entry) : m = task.mapping
      BY <3>1
    <3>3. \A e \in Range(m) : e.transformation = "rename"
      BY <2>5, <3>2
    <3>4. fieldMappings = [t \in {e.to : e \in Range(m)} |->
            m[CHOOSE i \in DOMAIN m : m[i].to = t /\ \A j \in DOMAIN m : m[j].to = t => j <= i].from]
      BY <2>5, <3>2
    <3>5. FieldMapper(task.item, m) = MapTransformation(task.item, fieldMappings)
            <=> \A t \in DOMAIN fieldMappings : SameReading(task.item, fieldMappings[t])
      BY <3>3, <3>4, MappersAgree
    <3> QED BY <2>2, <2>5, <3>2, <3>5
  <2>6. answer.kind = "suggested" =>
          (answer.applied <=> answer.transformation.operation = "fields" /\ task.output = "array")
    <3> SUFFICES ASSUME NEW t \in SuggestedTransformations(task.output, task.input, task.alike)
                 PROVE  Applies(t, task.output) <=> t.operation = "fields" /\ task.output = "array"
      BY <2>3
    <3> QED BY DEF SuggestedTransformations, Suggestion, Applies, ReduceOperations
  <2> QED BY <2>4, <2>5, <2>6 DEF TransformationsAgree
<1>2. DataInv => TransformationsAgree
  BY <1>1
<1> QED BY <1>2, DataInvHolds, PTL

\* What the MongoDB node's validate accepts is neither refused by the node nor for its
\* arguments by the driver, and the records are counted as the operation's effects.
THEOREM ValidatedOperationsAlwaysRun ==
  DataSpec => []ValidatedOperationsRun
<1>1. ASSUME DataInv, task.kind = "mongo", MongoValidate(task.in)
      PROVE  /\ answer.kind # "thrown"
             /\ answer.kind = "operated" =>
                  answer.records + (IF task.in.operation \in Updates THEN answer.effect.inserted ELSE 0) =
                    (IF task.in.operation \in Finds THEN answer.effect.matched
                     ELSE answer.effect.changed + answer.effect.inserted)
  <2>1. ~MongoRefuses(task.in) /\ ~DriverRefuses(task.in)
    BY <1>1 DEF MongoValidate, MongoRefuses, DriverRefuses, Operations, Updates, Finds, Deletes
  <2>2. answer.kind # "thrown"
    BY <1>1, <2>1 DEF DataInv, AnswerInv, Unanswered
  <2>3. ASSUME NEW e \in Effects(task.in)
        PROVE  RecordsProcessed(task.in, e) + (IF task.in.operation \in Updates THEN e.inserted ELSE 0) =
                 (IF task.in.operation \in Finds THEN e.matched ELSE e.changed + e.inserted)
    <3>1. task.in.operation \in Finds \union Updates \union Deletes \union {"insertOne", "insertMany"}
      BY <1>1 DEF MongoValidate, Operations
    <3>2. CASE task.in.operation \in Finds
      <4>1. e.matched \in Int
        BY <3>2 DEF Effects
      <4>2. RecordsProcessed(task.in, e) = e.matched
        BY <3>2 DEF RecordsProcessed, Finds, Updates, Deletes
      <4>3. task.in.operation \notin Updates
        BY <3>2 DEF Finds, Updates
      <4> QED BY <3>2, <4>1, <4>2, <4>3
    <3>3. CASE task.in.operation \in Updates
      <4>1. e.changed \in Int /\ e.inserted \in Int
        BY <3>3 DEF Effects, Finds, Updates, Deletes
      <4> QED BY <3>3, <4>1 DEF RecordsProcessed, Finds, Updates
    <3>4. CASE task.in.operation \in Deletes
      <4>1. e.changed \in Int /\ e.inserted = 0
        BY <3>4 DEF Effects, Finds, Updates, Deletes
      <4> QED BY <3>4, <4>1 DEF RecordsProcessed, Finds, Updates, Deletes
    <3>5. CASE task.in.operation \in {"insertOne", "insertMany"}
      <4>1. e.changed = 0 /\ e.inserted \in Int
        BY <3>5 DEF Effects, Finds, Updates, Deletes
      <4> QED BY <3>5, <4>1 DEF RecordsProcessed, Finds, Updates, Deletes
    <3> QED BY <3>1, <3>2, <3>3, <3>4, <3>5
  <2>4. answer.kind = "operated" =>
          \E e \in Effects(task.in) :
            answer.effect = e /\ answer.records = RecordsProcessed(task.in, e)
    BY <1>1 DEF DataInv, AnswerInv, Unanswered
  <2> QED BY <2>2, <2>3, <2>4
<1>2. DataInv => ValidatedOperationsRun
  BY <1>1 DEF ValidatedOperationsRun
<1> QED BY <1>2, DataInvHolds, PTL

-----------------------------------------------------------------------------
(***************************************************************************)
(* The contexts.                                                           *)
(***************************************************************************)

ContextSpec == ContextInit /\ [][ContextNext]_contextVars

\* A template after the placeholders of its first k places have been replaced.
Filled(t, v, k) == [i \in DOMAIN t |-> IF i <= k /\ v[t[i]] # Undefined THEN v[t[i]] ELSE t[i]]

\* The first occurrence of the name at place k is there: before it, there are values, and
\* names that have none.
LEMMA FirstIsThere ==
  ASSUME NEW n \in Nat, NEW t \in [1..n -> Placeholders], NEW v,
         \A x \in Placeholders : v[x] \notin Placeholders, NEW k \in 1..n
  PROVE  ReplaceFirst(Filled(t, v, k - 1), t[k], v[t[k]]) = Filled(t, v, k)
<1> DEFINE text == Filled(t, v, k - 1)
<1>1. /\ DOMAIN text = 1..n /\ DOMAIN Filled(t, v, k) = 1..n
      /\ \A i \in 1..n : i < k => text[i] = (IF v[t[i]] # Undefined THEN v[t[i]] ELSE t[i])
      /\ \A i \in 1..n : ~(i < k) => text[i] = t[i]
  BY DEF Filled
<1>2. \A i \in 1..n : Filled(t, v, k)[i] = IF i = k /\ v[t[i]] # Undefined THEN v[t[i]] ELSE text[i]
  <2> TAKE i \in 1..n
  <2>1. CASE i < k
    BY <1>1, <2>1 DEF Filled
  <2>2. CASE i = k
    BY <1>1, <2>2 DEF Filled
  <2>3. CASE k < i
    BY <1>1, <2>3 DEF Filled
  <2> QED BY <2>1, <2>2, <2>3
<1>3. /\ text = [i \in 1..n |-> text[i]]
      /\ Filled(t, v, k) = [i \in 1..n |-> Filled(t, v, k)[i]]
  BY DEF Filled
<1> HIDE DEF text
<1>4. CASE v[t[k]] = Undefined
  <2>1. \A i \in 1..n : Filled(t, v, k)[i] = text[i]
    BY <1>2, <1>4
  <2>2. Filled(t, v, k) = text
    BY <1>3, <2>1
  <2> QED BY <1>4, <2>2 DEF ReplaceFirst, text
<1>5. CASE v[t[k]] # Undefined
  <2> DEFINE at == {i \in DOMAIN text : text[i] = t[k]}
  <2>1. k \in at
    BY <1>1
  <2>2. ASSUME NEW i \in at PROVE ~(i < k)
    <3> SUFFICES ASSUME i < k PROVE FALSE
      OBVIOUS
    <3>1. i \in 1..n /\ text[i] = t[k] /\ t[i] \in Placeholders /\ t[k] \in Placeholders
      BY <1>1
    <3>2. CASE v[t[i]] = Undefined
      BY <1>1, <1>5, <3>1, <3>2
    <3>3. CASE v[t[i]] # Undefined
      <4>1. text[i] = v[t[i]]
        BY <1>1, <3>1, <3>3
      <4> QED BY <3>1, <4>1
    <3> QED BY <3>2, <3>3
  <2>3. at \subseteq Nat
    BY <1>1
  <2>4. k \in at /\ \A j \in at : k <= j
    BY <2>1, <2>2, <2>3
  <2>5. \A i \in at : (\A j \in at : i <= j) => i = k
    BY <2>3, <2>4
  <2> HIDE DEF at
  <2>6. (CHOOSE i \in at : \A j \in at : i <= j) = k
    BY <2>4, <2>5
  <2>7. ReplaceFirst(text, t[k], v[t[k]]) = [text EXCEPT ![k] = v[t[k]]]
    BY <1>5, <2>4, <2>6 DEF ReplaceFirst, at
  <2>8. \A i \in 1..n : Filled(t, v, k)[i] = [text EXCEPT ![k] = v[t[k]]][i]
    BY <1>1, <1>2, <1>3, <1>5
  <2>9. [text EXCEPT ![k] = v[t[k]]] = [i \in 1..n |-> [text EXCEPT ![k] = v[t[k]]][i]]
    BY <1>1
  <2>10. Filled(t, v, k) = [text EXCEPT ![k] = v[t[k]]]
    BY <1>3, <2>8, <2>9
  <2> QED BY <2>7, <2>10 DEF text
<1> QED BY <1>4, <1>5

LEMMA TemplateIsFilled ==
  ASSUME NEW e, \A x \in Placeholders : ResolveVariable(e, x) \notin Placeholders,
         NEW t \in Templates
  PROVE  InterpolateVariables(e, t) =
           [i \in DOMAIN t |-> LET v == ResolveVariable(e, t[i])
                               IN IF v = Undefined THEN t[i] ELSE v]
<1>1. PICK n \in Nat : t \in [1..n -> Placeholders]
  BY DEF Templates
<1>2. Len(t) = n /\ DOMAIN t = 1..n /\ \A i \in 1..n : t[i] \in Placeholders
  BY <1>1
<1>3. PICK v : v = [x \in Placeholders |-> ResolveVariable(e, x)]
  OBVIOUS
<1>4. \A x \in Placeholders : v[x] = ResolveVariable(e, x) /\ v[x] \notin Placeholders
  BY <1>3
<1> DEFINE F(f) == [k \in 0..n |-> IF k = 0 THEN t
                                   ELSE ReplaceFirst(f[k - 1], t[k], ResolveVariable(e, t[k]))]
<1>5. InterpolateVariables(e, t) = (CHOOSE f : f = F(f))[n]
  BY <1>2 DEF InterpolateVariables
<1>6. PICK g : g = [k \in 0..n |-> Filled(t, v, k)]
  OBVIOUS
<1>7. Filled(t, v, 0) = t
  BY <1>1, <1>2 DEF Filled
<1>8. \A k \in 1..n : ReplaceFirst(g[k - 1], t[k], ResolveVariable(e, t[k])) = Filled(t, v, k)
  <2> TAKE k \in 1..n
  <2>1. k - 1 \in 0..n /\ g[k - 1] = Filled(t, v, k - 1)
    BY <1>6
  <2>2. ReplaceFirst(Filled(t, v, k - 1), t[k], v[t[k]]) = Filled(t, v, k)
    BY <1>1, <1>4, FirstIsThere
  <2> QED BY <1>2, <1>4, <2>1, <2>2
<1>9. g = F(g)
  <2>1. \A k \in 0..n : k # 0 => k \in 1..n
    OBVIOUS
  <2>2. \A k \in 0..n : Filled(t, v, k) =
          IF k = 0 THEN t ELSE ReplaceFirst(g[k - 1], t[k], ResolveVariable(e, t[k]))
    BY <1>7, <1>8, <2>1
  <2> QED BY <1>6, <2>2
<1>10. PICK f : f = F(f) /\ InterpolateVariables(e, t) = f[n]
  BY <1>5, <1>9
<1>11. f[n] = g[n]
  <2>1. f[0] = g[0]
    BY <1>6, <1>7, <1>10
  <2>2. ASSUME NEW k \in 1..n, f[k - 1] = g[k - 1] PROVE f[k] = g[k]
    <3>1. k \in 0..n /\ k # 0
      OBVIOUS
    <3>2. f[k] = ReplaceFirst(f[k - 1], t[k], ResolveVariable(e, t[k]))
      BY <1>10, <3>1
    <3>3. g[k] = Filled(t, v, k)
      BY <1>6, <3>1
    <3> QED BY <1>8, <2>2, <3>2, <3>3
  <2> HIDE DEF F
  <2> QED BY <2>1, <2>2, SameSteps
<1>12. g[n] = Filled(t, v, n)
  BY <1>6
<1>13. \A i \in 1..n : i <= n
  OBVIOUS
<1> QED BY <1>2, <1>4, <1>10, <1>11, <1>12, <1>13 DEF Filled

\* interpolateVariables replaces every placeholder that has a value and no other.
THEOREM TemplatesAreAlwaysFilledIn ==
  ContextSpec => []TemplatesAreFilledIn
<1>1. TemplatesAreFilledIn
  BY TemplateIsFilled DEF TemplatesAreFilledIn
<1> QED BY <1>1, PTL

-----------------------------------------------------------------------------
(* Whose maps are whose. *)

\* heap is a list.
HeapOK == Len(heap) \in Nat /\ heap = [p \in 1..Len(heap) |-> heap[p]]

Context == [retryCount : {0, 1}, variables : 1..Len(heap), secrets : 1..Len(heap)]
OwnPlaces(e) == {contexts[e].variables, contexts[e].secrets}

\* Every context has two maps of its own.
PlacesInv ==
  /\ HeapOK
  /\ contexts \in [DOMAIN contexts -> Context]
  /\ \A e \in DOMAIN contexts : contexts[e].variables # contexts[e].secrets
  /\ \A d, e \in DOMAIN contexts : d # e => OwnPlaces(d) \intersect OwnPlaces(e) = {}

LEMMA PlacesAre ==
  ASSUME PlacesInv, NEW e \in DOMAIN contexts
  PROVE  /\ contexts[e] \in Context
         /\ contexts[e].variables \in 1..Len(heap) /\ contexts[e].secrets \in 1..Len(heap)
BY DEF PlacesInv, Context

\* What a name stands for in a context depends on the maps at its places.
LEMMA SameMapsSameValues ==
  ASSUME NEW o, contexts'[o].variables = contexts[o].variables,
         contexts'[o].secrets = contexts[o].secrets,
         \A p \in OwnPlaces(o) : heap'[p] = heap[p]
  PROVE  \A n \in Names : ResolveVariable(o, n)' = ResolveVariable(o, n)
<1>1. Variables(o)' = Variables(o) /\ Secrets(o)' = Secrets(o)
  BY DEF Variables, Secrets, OwnPlaces
<1> QED BY <1>1 DEF ResolveVariable

\* Two maps are added to the heap.
LEMMA TwoMore ==
  ASSUME HeapOK, NEW a, NEW b, heap' = heap \o <<a, b>>
  PROVE  /\ HeapOK' /\ Len(heap') = Len(heap) + 2
         /\ \A p \in 1..Len(heap) : heap'[p] = heap[p]
<1> DEFINE S == {heap[p] : p \in 1..Len(heap)} \union {a, b}
<1>1. heap \in Seq(S) /\ <<a, b>> \in Seq(S) /\ Len(<<a, b>>) = 2
  BY DEF HeapOK
<1> HIDE DEF S
<1>2. /\ heap' \in Seq(S) /\ Len(heap') = Len(heap) + 2
      /\ \A p \in 1..Len(heap) : heap'[p] = heap[p]
  BY <1>1
<1> QED BY <1>2 DEF HeapOK

\* The others keep their contexts and maps.
OthersKeep(e) ==
  \A o \in (DOMAIN contexts \intersect DOMAIN contexts') \ {e} :
    \A n \in Names : ResolveVariable(o, n)' = ResolveVariable(o, n)

\* A context with two new maps.
LEMMA NewContext ==
  ASSUME PlacesInv, NEW e, NEW a, NEW b, heap' = heap \o <<a, b>>,
         contexts' = With(contexts, e, [retryCount |-> 0, variables |-> Len(heap) + 1,
                                        secrets |-> Len(heap) + 2])
  PROVE  PlacesInv' /\ DOMAIN contexts \ DOMAIN contexts' = {} /\ OthersKeep(e)
<1> DEFINE c == [retryCount |-> 0, variables |-> Len(heap) + 1, secrets |-> Len(heap) + 2]
<1>1. /\ HeapOK' /\ Len(heap') = Len(heap) + 2 /\ Len(heap) \in Nat
      /\ \A p \in 1..Len(heap) : heap'[p] = heap[p]
  BY TwoMore DEF PlacesInv, HeapOK
<1>2. /\ DOMAIN contexts' = DOMAIN contexts \union {e}
      /\ contexts'[e] = c
      /\ \A o \in DOMAIN contexts \ {e} : contexts'[o] = contexts[o]
      /\ contexts' = [x \in DOMAIN contexts' |-> contexts'[x]]
  BY DEF With
<1>3. c \in Context' /\ c.variables # c.secrets
  BY <1>1 DEF Context
<1>4. \A o \in DOMAIN contexts : contexts[o] \in Context'
  <2> TAKE o \in DOMAIN contexts
  <2>1. \A p \in 1..Len(heap) : p \in 1..Len(heap')
    BY <1>1
  <2> QED BY <2>1, PlacesAre DEF Context
<1>5. \A o \in DOMAIN contexts : OwnPlaces(o) \intersect {c.variables, c.secrets} = {}
  <2> TAKE o \in DOMAIN contexts
  <2>1. contexts[o].variables \in 1..Len(heap) /\ contexts[o].secrets \in 1..Len(heap)
    BY PlacesAre
  <2> QED BY <1>1, <2>1 DEF OwnPlaces
<1> HIDE DEF c
<1>6. contexts' \in [DOMAIN contexts' -> Context']
  BY <1>2, <1>3, <1>4
<1>7. \A o \in DOMAIN contexts' : contexts'[o].variables # contexts'[o].secrets
  BY <1>2, <1>3 DEF PlacesInv
<1>8. ASSUME NEW o \in DOMAIN contexts', NEW d \in DOMAIN contexts', o # d
      PROVE  {contexts'[o].variables, contexts'[o].secrets}
               \intersect {contexts'[d].variables, contexts'[d].secrets} = {}
  <2>1. CASE o # e /\ d # e
    BY <1>2, <1>8, <2>1 DEF PlacesInv, OwnPlaces
  <2>2. CASE o = e
    BY <1>2, <1>5, <1>8, <2>2 DEF OwnPlaces
  <2>3. CASE d = e
    BY <1>2, <1>5, <1>8, <2>3 DEF OwnPlaces
  <2> QED BY <2>1, <2>2, <2>3
<1>9. PlacesInv'
  BY <1>1, <1>6, <1>7, <1>8 DEF PlacesInv, OwnPlaces
<1>10. ASSUME NEW o \in (DOMAIN contexts \intersect DOMAIN contexts') \ {e}
       PROVE  \A n \in Names : ResolveVariable(o, n)' = ResolveVariable(o, n)
  <2>1. contexts'[o] = contexts[o]
    BY <1>2
  <2>2. \A p \in OwnPlaces(o) : heap'[p] = heap[p]
    BY <1>1, PlacesAre DEF OwnPlaces
  <2> QED BY <2>1, <2>2, SameMapsSameValues
<1> QED BY <1>2, <1>9, <1>10 DEF OthersKeep

\* A map of one context changes, and the context stays or goes.
LEMMA OneMapChanges ==
  ASSUME PlacesInv, NEW e \in DOMAIN contexts, NEW p \in OwnPlaces(e), NEW m,
         heap' = [heap EXCEPT ![p] = m],
         contexts' = contexts \/ contexts' = [x \in DOMAIN contexts \ {e} |-> contexts[x]]
  PROVE  PlacesInv' /\ DOMAIN contexts \ DOMAIN contexts' \subseteq {e} /\ OthersKeep(e)
<1>1. p \in 1..Len(heap)
  BY PlacesAre DEF OwnPlaces
<1>2. /\ Len(heap') = Len(heap) /\ HeapOK'
      /\ \A q \in 1..Len(heap) : q # p => heap'[q] = heap[q]
  <2>1. Len(heap) \in Nat /\ heap = [q \in 1..Len(heap) |-> heap[q]]
    BY DEF PlacesInv, HeapOK
  <2>2. DOMAIN heap' = 1..Len(heap) /\ heap' = [q \in 1..Len(heap) |-> heap'[q]]
    BY <2>1
  <2>3. Len(heap') = Len(heap)
    BY <2>1, <2>2
  <2>4. \A q \in 1..Len(heap) : q # p => heap'[q] = heap[q]
    BY <2>1
  <2> QED BY <2>1, <2>2, <2>3, <2>4 DEF HeapOK
<1>3. /\ DOMAIN contexts' \subseteq DOMAIN contexts /\ DOMAIN contexts \ DOMAIN contexts' \subseteq {e}
      /\ \A o \in DOMAIN contexts' : contexts'[o] = contexts[o]
      /\ contexts' = [x \in DOMAIN contexts' |-> contexts'[x]]
  BY DEF PlacesInv
<1>4. Context' = Context
  BY <1>2 DEF Context
<1>5. PlacesInv'
  <2>1. contexts' \in [DOMAIN contexts' -> Context']
    BY <1>3, <1>4, PlacesAre
  <2>2. \A o \in DOMAIN contexts' : contexts'[o].variables # contexts'[o].secrets
    BY <1>3 DEF PlacesInv
  <2>3. \A o, d \in DOMAIN contexts' : o # d =>
          {contexts'[o].variables, contexts'[o].secrets}
            \intersect {contexts'[d].variables, contexts'[d].secrets} = {}
    BY <1>3 DEF PlacesInv, OwnPlaces
  <2> QED BY <1>2, <2>1, <2>2, <2>3 DEF PlacesInv, OwnPlaces
<1>6. ASSUME NEW o \in (DOMAIN contexts \intersect DOMAIN contexts') \ {e}
      PROVE  \A n \in Names : ResolveVariable(o, n)' = ResolveVariable(o, n)
  <2>1. p \notin OwnPlaces(o)
    BY DEF PlacesInv
  <2>2. \A q \in OwnPlaces(o) : heap'[q] = heap[q]
    BY <1>2, <2>1, PlacesAre DEF OwnPlaces
  <2> QED BY <1>3, <2>2, SameMapsSameValues
<1> QED BY <1>3, <1>5, <1>6 DEF OthersKeep

\* The retry count of a context changes.
LEMMA NoMapChanges ==
  ASSUME PlacesInv, NEW e \in DOMAIN contexts, UpdateContext(e)
  PROVE  PlacesInv' /\ DOMAIN contexts \ DOMAIN contexts' = {} /\ OthersKeep(e)
<1>1. heap' = heap /\ contexts' = [contexts EXCEPT ![e].retryCount = 1]
  BY DEF UpdateContext
<1>2. contexts \in [DOMAIN contexts -> Context]
  BY DEF PlacesInv
<1>3. PICK c : c = [contexts[e] EXCEPT !.retryCount = 1]
  OBVIOUS
<1>4. c \in Context /\ c.variables = contexts[e].variables /\ c.secrets = contexts[e].secrets
  <2>1. contexts[e] \in Context
    BY PlacesAre
  <2> QED BY <1>3, <2>1 DEF Context
<1>5. contexts' = [contexts EXCEPT ![e] = c]
  BY <1>1, <1>3
<1>6. /\ DOMAIN contexts' = DOMAIN contexts /\ contexts' \in [DOMAIN contexts -> Context]
      /\ \A o \in DOMAIN contexts : /\ contexts'[o].variables = contexts[o].variables
                                    /\ contexts'[o].secrets = contexts[o].secrets
  BY <1>2, <1>4, <1>5
<1>7. HeapOK' /\ Context' = Context
  BY <1>1 DEF PlacesInv, HeapOK, Context
<1>8. PlacesInv'
  <2>1. \A o \in DOMAIN contexts' : contexts'[o].variables # contexts'[o].secrets
    BY <1>6 DEF PlacesInv
  <2>2. \A o, d \in DOMAIN contexts' : o # d =>
          {contexts'[o].variables, contexts'[o].secrets}
            \intersect {contexts'[d].variables, contexts'[d].secrets} = {}
    BY <1>6 DEF PlacesInv, OwnPlaces
  <2> QED BY <1>6, <1>7, <2>1, <2>2 DEF PlacesInv, OwnPlaces
<1>9. ASSUME NEW o \in DOMAIN contexts
      PROVE  \A n \in Names : ResolveVariable(o, n)' = ResolveVariable(o, n)
  BY <1>1, <1>6, SameMapsSameValues
<1> QED BY <1>6, <1>8, <1>9 DEF OthersKeep

\* Each step is one of one context.
LEMMA ContextSteps ==
  ASSUME PlacesInv, ContextNext
  PROVE  PlacesInv' /\ \E e \in Executions : DOMAIN contexts \ DOMAIN contexts' \subseteq {e}
                                             /\ OthersKeep(e)
<1>1. ASSUME NEW e \in Executions, NEW flow \in Flows, CreateExecutionContext(e, flow)
      PROVE  PlacesInv' /\ DOMAIN contexts \ DOMAIN contexts' \subseteq {e} /\ OthersKeep(e)
  BY <1>1, NewContext DEF CreateExecutionContext
<1>2. ASSUME NEW p \in Executions, NEW e \in Executions, CreateChildContext(p, e)
      PROVE  PlacesInv' /\ DOMAIN contexts \ DOMAIN contexts' \subseteq {e} /\ OthersKeep(e)
  BY <1>2, NewContext DEF CreateChildContext
<1>3. ASSUME NEW e \in Executions, NEW n \in Names, NEW v \in Literals, SetVariable(e, n, v)
      PROVE  PlacesInv' /\ DOMAIN contexts \ DOMAIN contexts' \subseteq {e} /\ OthersKeep(e)
  <2>1. PICK p, m : /\ p = contexts[e].variables
                    /\ m = Store(heap[p], n, v)
    OBVIOUS
  <2>2. e \in DOMAIN contexts /\ p \in OwnPlaces(e)
    BY <1>3, <2>1 DEF SetVariable, OwnPlaces
  <2>3. heap' = [heap EXCEPT ![p] = m] /\ contexts' = contexts
    BY <1>3, <2>1 DEF SetVariable
  <2> QED BY <2>2, <2>3, OneMapChanges
<1>4. ASSUME NEW e \in Executions, UpdateContext(e)
      PROVE  PlacesInv' /\ DOMAIN contexts \ DOMAIN contexts' \subseteq {e} /\ OthersKeep(e)
  <2>1. e \in DOMAIN contexts
    BY <1>4 DEF UpdateContext
  <2> QED BY <1>4, <2>1, NoMapChanges
<1>5. ASSUME NEW e \in Executions, CleanupContext(e)
      PROVE  PlacesInv' /\ DOMAIN contexts \ DOMAIN contexts' \subseteq {e} /\ OthersKeep(e)
  <2>1. PICK p : p = contexts[e].secrets
    OBVIOUS
  <2>2. e \in DOMAIN contexts /\ p \in OwnPlaces(e)
    BY <1>5, <2>1 DEF CleanupContext, OwnPlaces
  <2>3. /\ heap' = [heap EXCEPT ![p] = <<>>]
        /\ contexts' = [x \in DOMAIN contexts \ {e} |-> contexts[x]]
    BY <1>5, <2>1 DEF CleanupContext
  <2> QED BY <2>2, <2>3, OneMapChanges
<1> QED BY <1>1, <1>2, <1>3, <1>4, <1>5 DEF ContextNext

\* Whatever is done to one context, what a name resolves to in another stays.
THEOREM OnlyOneContextEverChanges ==
  ContextSpec => OnlyOneContextChanges
<1>1. ContextInit => PlacesInv
  BY DEF ContextInit, PlacesInv, HeapOK
<1>2. PlacesInv /\ [ContextNext]_contextVars => PlacesInv'
  <2>1. ASSUME PlacesInv, UNCHANGED contextVars PROVE PlacesInv'
    BY <2>1 DEF PlacesInv, HeapOK, Context, OwnPlaces, contextVars
  <2> QED BY <2>1, ContextSteps
<1>3. PlacesInv /\ [ContextNext]_contextVars =>
        [\E e \in Executions :
           /\ DOMAIN contexts \ DOMAIN contexts' \subseteq {e}
           /\ \A o \in (DOMAIN contexts \intersect DOMAIN contexts') \ {e} :
                \A n \in Names : ResolveVariable(o, n)' = ResolveVariable(o, n)]_contextVars
  BY ContextSteps DEF OthersKeep
<1> QED BY <1>1, <1>2, <1>3, PTL DEF ContextSpec, OnlyOneContextChanges
=============================================================================
