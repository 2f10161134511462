------------------------------ MODULE ServicesProofs ------------------------------
(* Proofs about the two services of the engine that keep tables of their own:      *)
(* FlowsService for any number of callers, flows and bodies, and CatalogService    *)
(* for any definitions, requests, starts and failures.                             *)
EXTENDS Flows, Catalog, FiniteSetTheorems, WellFoundedInduction, TLAPS

-----------------------------------------------------------------------------
(***************************************************************************)
(* FlowsService.                                                           *)
(***************************************************************************)

FlowsSpec == FlowsInit /\ [][FlowsNext]_flowVars

Columns == {"name", "nodes", "links", "version"}
Naming(call) == call.op \in {"create", "update"}

\* The fields of a call, whichever it is.
Shape(k) ==
  \/ k.op = "idle"
  \/ k.op = "create" /\ k.at \in {"check", "insert"} /\ {"op", "at", "body"} \subseteq DOMAIN k
  \/ /\ k.op = "update" /\ k.at \in {"find", "checkName", "write"}
     /\ {"op", "at", "flow", "update"} \subseteq DOMAIN k
     /\ k.at = "checkName" => "read" \in DOMAIN k
  \/ k.op = "delete" /\ k.at \in {"find", "delete"} /\ {"op", "at", "flow"} \subseteq DOMAIN k
  \/ /\ k.op = "rollback" /\ k.at \in {"find", "read", "save"}
     /\ {"op", "at", "flow"} \subseteq DOMAIN k
     /\ k.at = "save" => "read" \in DOMAIN k /\ DOMAIN k.read = Columns

ShapeInv ==
  /\ DOMAIN calls = Callers /\ \A c \in Callers : Shape(calls[c])
  /\ DOMAIN flows \subseteq used /\ \A f \in DOMAIN flows : DOMAIN flows[f] = Columns
  /\ \A c \in Callers : calls[c].op \in {"update", "rollback"} /\ calls[c].at # "find" =>
       calls[c].flow \in used

\* A rollback that nothing overlaps is alone and saves what the table has.
RollbackInv ==
  "rollback" \notin overlaps =>
    \A c \in Callers : calls[c].op = "rollback" =>
      /\ \A o \in Callers \ {c} : calls[o].op = "idle"
      /\ calls[c].at = "save" =>
           calls[c].flow \in DOMAIN flows /\ calls[c].read = flows[calls[c].flow]

\* Of the calls that give names there is one, and what it has looked up still holds.
NamesInOrder ==
  /\ \A f, g \in DOMAIN flows : flows[f].name = flows[g].name => f = g
  /\ \A c, o \in Callers : Naming(calls[c]) /\ Naming(calls[o]) => c = o
  /\ \A c \in Callers : calls[c].op = "create" /\ calls[c].at = "insert" =>
       \A g \in DOMAIN flows : flows[g].name # calls[c].body.name
  /\ \A c \in Callers : calls[c].op = "update" /\ calls[c].at = "write" =>
       \/ calls[c].update.name = Same
       \/ \A g \in DOMAIN flows : flows[g].name = calls[c].update.name => g = calls[c].flow
NamingInv == "naming" \notin overlaps /\ "rollback" \notin overlaps => NamesInOrder

\* Of the updates there is one, and what it was validated with is still there.
EditsInOrder ==
  /\ \A f \in DOMAIN flows : Validate(flows[f].nodes, flows[f].links)
  /\ \A c, o \in Callers : calls[c].op = "update" /\ calls[o].op = "update" => c = o
  /\ \A c \in Callers : calls[c].op = "create" /\ calls[c].at = "insert" =>
       Validate(calls[c].body.nodes, calls[c].body.links)
  /\ \A c \in Callers : calls[c].op = "update" /\ calls[c].flow \in DOMAIN flows =>
       /\ calls[c].at = "checkName" => calls[c].read = flows[calls[c].flow]
       /\ calls[c].at = "write" => ValidateUpdate(calls[c].update, flows[calls[c].flow])
EditingInv == "editing" \notin overlaps /\ "rollback" \notin overlaps => EditsInOrder

FlowsInv == ShapeInv /\ RollbackInv /\ NamingInv /\ EditingInv

\* What a call overlaps with, by its kind and the others'.
LEMMA OverlapsNoted ==
  ASSUME NEW call, NEW others
  PROVE  /\ Naming(call) /\ (\E o \in others : Naming(o)) => "naming" \in Overlapping(call, others)
         /\ call.op = "update" /\ (\E o \in others : o.op = "update")
              => "editing" \in Overlapping(call, others)
         /\ call.op = "rollback"
              /\ (\E o \in others : o.op \in {"create", "update", "delete", "rollback"})
              => "rollback" \in Overlapping(call, others)
         /\ call.op \in {"create", "update", "delete", "rollback"}
              /\ (\E o \in others : o.op = "rollback") => "rollback" \in Overlapping(call, others)
<1>1. ASSUME NEW k \in {"naming", "editing"}, k \in Kinds(call), NEW o \in others, k \in Kinds(o)
      PROVE  k \in Overlapping(call, others)
  <2>1. Kinds(o) \in {Kinds(p) : p \in others}
    OBVIOUS
  <2>2. k \in UNION {Kinds(p) : p \in others}
    BY <1>1, <2>1
  <2>3. k \in Kinds(call) \intersect {"naming", "editing"} \intersect UNION {Kinds(p) : p \in others}
    BY <1>1, <2>2
  <2> QED BY <2>3 DEF Overlapping
<1>2. \A k : Naming(k) => "naming" \in Kinds(k)
  BY DEF Naming, Kinds
<1>3. \A k : k.op = "update" => "editing" \in Kinds(k)
  BY DEF Kinds
<1>4. \A k : k.op \in {"create", "update", "delete", "rollback"} => "writing" \in Kinds(k)
  BY DEF Kinds
<1>5. ASSUME \/ call.op = "rollback" /\ \E o \in others : "writing" \in Kinds(o)
             \/ "writing" \in Kinds(call) /\ \E o \in others : o.op = "rollback"
      PROVE  "rollback" \in Overlapping(call, others)
  BY <1>5 DEF Overlapping
<1> QED BY <1>1, <1>2, <1>3, <1>4, <1>5

\* A request arrives.
LEMMA BeginKeeps ==
  ASSUME FlowsInv, NEW c \in Callers, NEW call, Begin(c, call), Shape(call),
         call.op # "idle", call.at \in {"check", "find"}
  PROVE  FlowsInv'
<1> DEFINE Others == {calls[o] : o \in Callers \ {c}}
<1>1. calls' = [calls EXCEPT ![c] = call] /\ flows' = flows /\ used' = used
  BY DEF Begin
<1>2. overlaps' = overlaps \union Overlapping(call, Others)
  BY DEF Begin
<1>3. calls'[c] = call /\ \A o \in Callers \ {c} : calls'[o] = calls[o]
  BY <1>1 DEF FlowsInv, ShapeInv
<1>4. DOMAIN calls' = Callers
  BY <1>1 DEF FlowsInv, ShapeInv
<1>5. \A o \in Callers \ {c} : calls[o] \in Others
  OBVIOUS
<1>6. call.op \in {"create", "update", "delete", "rollback"}
  BY DEF Shape
<1>7. \A o \in Callers : calls[o].op \in {"idle", "create", "update", "delete", "rollback"}
  BY DEF FlowsInv, ShapeInv, Shape
<1> HIDE DEF Others
<1>8. ShapeInv'
  <2>1. (DOMAIN flows \subseteq used /\ \A f \in DOMAIN flows : DOMAIN flows[f] = Columns)'
    BY <1>1 DEF FlowsInv, ShapeInv
  <2>2. \A d \in Callers : Shape(calls'[d])
    BY <1>3 DEF FlowsInv, ShapeInv
  <2>3. \A d \in Callers : calls'[d].op \in {"update", "rollback"} /\ calls'[d].at # "find" =>
          calls'[d].flow \in used'
    <3> SUFFICES ASSUME NEW d \in Callers, calls'[d].op \in {"update", "rollback"}, calls'[d].at # "find"
                 PROVE  calls'[d].flow \in used
      BY <1>1
    <3>1. d # c
      BY <1>3 DEF Shape
    <3> QED BY <3>1, <1>3 DEF FlowsInv, ShapeInv
  <2> QED BY <2>1, <2>2, <2>3, <1>4 DEF ShapeInv, Shape
<1>9. RollbackInv'
  <2> SUFFICES ASSUME "rollback" \notin overlaps', NEW d \in Callers, calls'[d].op = "rollback"
               PROVE  /\ \A o \in Callers \ {d} : calls'[o].op = "idle"
                      /\ calls'[d].at = "save" =>
                           calls'[d].flow \in DOMAIN flows' /\ calls'[d].read = flows'[calls'[d].flow]
    BY DEF RollbackInv
  <2>1. "rollback" \notin Overlapping(call, Others) /\ "rollback" \notin overlaps
    BY <1>2
  <2>2. \A o \in Others : o.op # "rollback"
    BY <2>1, <1>6, OverlapsNoted
  <2>3. d = c
    BY <2>2, <1>3, <1>5
  <2>4. \A o \in Others : o.op \notin {"create", "update", "delete", "rollback"}
    BY <2>1, <2>3, <1>3, OverlapsNoted
  <2> QED BY <2>3, <2>4, <1>3, <1>5, <1>7
<1>10. NamingInv'
  <2> SUFFICES ASSUME "naming" \notin overlaps', "rollback" \notin overlaps'
               PROVE  NamesInOrder'
    BY DEF NamingInv
  <2>1. NamesInOrder /\ "naming" \notin Overlapping(call, Others)
    BY <1>2 DEF FlowsInv, NamingInv
  <2>2. ASSUME NEW d \in Callers, NEW o \in Callers, Naming(calls'[d]), Naming(calls'[o])
        PROVE  d = o
    <3>1. CASE d # c /\ o # c
      BY <3>1, <2>1, <2>2, <1>3 DEF NamesInOrder
    <3>2. CASE d = c /\ o # c
      BY <3>2, <2>1, <2>2, <1>3, <1>5, OverlapsNoted
    <3>3. CASE d # c /\ o = c
      BY <3>3, <2>1, <2>2, <1>3, <1>5, OverlapsNoted
    <3> QED BY <3>1, <3>2, <3>3
  <2>3. \A d \in Callers : calls'[d].at \in {"insert", "write"} => calls'[d] = calls[d]
    BY <1>3
  <2> QED BY <2>1, <2>2, <2>3, <1>1 DEF NamesInOrder
<1>11. EditingInv'
  <2> SUFFICES ASSUME "editing" \notin overlaps', "rollback" \notin overlaps'
               PROVE  EditsInOrder'
    BY DEF EditingInv
  <2>1. EditsInOrder /\ "editing" \notin Overlapping(call, Others)
    BY <1>2 DEF FlowsInv, EditingInv
  <2>2. ASSUME NEW d \in Callers, NEW o \in Callers, calls'[d].op = "update", calls'[o].op = "update"
        PROVE  d = o
    <3>1. CASE d # c /\ o # c
      BY <3>1, <2>1, <2>2, <1>3 DEF EditsInOrder
    <3>2. CASE d = c /\ o # c
      BY <3>2, <2>1, <2>2, <1>3, <1>5, OverlapsNoted
    <3>3. CASE d # c /\ o = c
      BY <3>3, <2>1, <2>2, <1>3, <1>5, OverlapsNoted
    <3> QED BY <3>1, <3>2, <3>3
  <2>3. \A d \in Callers : calls'[d].at \in {"insert", "checkName", "write"} => calls'[d] = calls[d]
    BY <1>3
  <2> QED BY <2>1, <2>2, <2>3, <1>1 DEF EditsInOrder
<1> QED BY <1>8, <1>9, <1>10, <1>11 DEF FlowsInv
\* A request is over, and nothing is written.
LEMMA RefuseKeeps ==
  ASSUME FlowsInv, NEW c \in Callers, Refuse(c)
  PROVE  FlowsInv'
<1>1. UNCHANGED <<flows, used, overlaps>> /\ calls' = [calls EXCEPT ![c] = Idle]
  BY DEF Refuse, Answer
<1>2. /\ DOMAIN calls' = Callers /\ calls'[c].op = "idle"
      /\ \A o \in Callers \ {c} : calls'[o] = calls[o]
  BY <1>1 DEF FlowsInv, ShapeInv, Idle
<1>3. ShapeInv'
  BY <1>1, <1>2 DEF FlowsInv, ShapeInv, Shape
<1>4. RollbackInv'
  BY <1>1, <1>2 DEF FlowsInv, RollbackInv
<1>5. NamingInv'
  BY <1>1, <1>2 DEF FlowsInv, NamingInv, NamesInOrder, Naming
<1>6. EditingInv'
  BY <1>1, <1>2 DEF FlowsInv, EditingInv, EditsInOrder
<1> QED BY <1>3, <1>4, <1>5, <1>6 DEF FlowsInv

\* A request goes on to its next query.
LEMMA GotoMoves ==
  ASSUME ShapeInv, NEW c \in Callers, NEW at, Goto(c, at), calls[c].op # "idle"
  PROVE  /\ UNCHANGED <<flows, used, overlaps>>
         /\ DOMAIN calls' = Callers /\ DOMAIN calls'[c] = DOMAIN calls[c]
         /\ calls'[c].op = calls[c].op /\ calls'[c].at = at
         /\ \A field \in DOMAIN calls[c] \ {"at"} : calls'[c][field] = calls[c][field]
         /\ \A o \in Callers \ {c} : calls'[o] = calls[o]
<1>1. Shape(calls[c]) /\ {"op", "at"} \subseteq DOMAIN calls[c]
  BY DEF ShapeInv, Shape
<1>2. calls'[c] = [calls[c] EXCEPT !.at = at]
  BY DEF Goto, ShapeInv
<1> QED BY <1>1, <1>2 DEF Goto, ShapeInv

\* A request that was refused, or went on with what its query has shown.
LEMMA CreateCheckKeeps ==
  ASSUME FlowsInv, NEW c \in Callers, CreateCheck(c)
  PROVE  FlowsInv'
<1>1. CASE Refuse(c)
  BY <1>1, RefuseKeeps
<1>2. CASE /\ Goto(c, "insert")
           /\ Named(calls[c].body.name) = {} /\ Validate(calls[c].body.nodes, calls[c].body.links)
  <2>1. calls[c].op = "create" /\ ShapeInv /\ {"op", "at", "body"} \subseteq DOMAIN calls[c]
    BY DEF CreateCheck, At, FlowsInv, ShapeInv, Shape
  <2>2. /\ UNCHANGED <<flows, used, overlaps>> /\ DOMAIN calls' = Callers
        /\ DOMAIN calls'[c] = DOMAIN calls[c]
        /\ calls'[c].op = "create" /\ calls'[c].at = "insert" /\ calls'[c].body = calls[c].body
        /\ \A o \in Callers \ {c} : calls'[o] = calls[o]
    BY <1>2, <2>1, GotoMoves
  <2>3. ShapeInv'
    BY <2>1, <2>2 DEF FlowsInv, ShapeInv, Shape
  <2>4. RollbackInv'
    <3>1. \A d \in Callers : calls'[d].op = calls[d].op
      BY <2>1, <2>2
    <3> QED BY <2>1, <2>2, <3>1 DEF FlowsInv, RollbackInv
  <2>5. NamingInv'
    BY <1>2, <2>1, <2>2 DEF FlowsInv, NamingInv, NamesInOrder, Naming, Named
  <2>6. EditingInv'
    BY <1>2, <2>1, <2>2 DEF FlowsInv, EditingInv, EditsInOrder
  <2> QED BY <2>3, <2>4, <2>5, <2>6 DEF FlowsInv
<1> QED BY <1>1, <1>2 DEF CreateCheck

LEMMA UpdateFindKeeps ==
  ASSUME FlowsInv, NEW c \in Callers, UpdateFind(c)
  PROVE  FlowsInv'
<1> DEFINE f == calls[c].flow
           u == calls[c].update
<1>1. CASE Refuse(c)
  BY <1>1, RefuseKeeps
<1>2. CASE /\ f \in DOMAIN flows /\ UNCHANGED <<flows, used, overlaps>>
           /\ calls' = [calls EXCEPT ![c] = [op |-> "update", at |-> "checkName", flow |-> f,
                                             update |-> u, read |-> flows[f]]]
  <2>1. calls[c].op = "update" /\ calls[c].at = "find"
    BY DEF UpdateFind, At
  <2>2. /\ DOMAIN calls' = Callers /\ {"op", "at", "flow", "update", "read"} \subseteq DOMAIN calls'[c]
        /\ calls'[c].op = "update" /\ calls'[c].at = "checkName" /\ calls'[c].flow = f
        /\ calls'[c].read = flows[f]
        /\ \A o \in Callers \ {c} : calls'[o] = calls[o]
    BY <1>2 DEF FlowsInv, ShapeInv
  <2>3. ShapeInv'
    BY <1>2, <2>1, <2>2 DEF FlowsInv, ShapeInv, Shape
  <2>4. RollbackInv'
    <3>1. \A d \in Callers : calls'[d].op = calls[d].op
      BY <2>1, <2>2
    <3> QED BY <1>2, <2>1, <2>2, <3>1 DEF FlowsInv, RollbackInv
  <2>5. NamingInv'
    BY <1>2, <2>1, <2>2 DEF FlowsInv, NamingInv, NamesInOrder, Naming
  <2>6. EditingInv'
    BY <1>2, <2>1, <2>2 DEF FlowsInv, EditingInv, EditsInOrder
  <2> QED BY <2>3, <2>4, <2>5, <2>6 DEF FlowsInv
<1>3. CASE /\ f \in DOMAIN flows /\ u.name \in {Same, flows[f].name}
           /\ ValidateUpdate(u, flows[f]) /\ Goto(c, "write")
  <2>1. /\ calls[c].op = "update" /\ calls[c].at = "find" /\ ShapeInv
        /\ {"op", "at", "flow", "update"} \subseteq DOMAIN calls[c]
    BY DEF UpdateFind, At, FlowsInv, ShapeInv, Shape
  <2>2. /\ UNCHANGED <<flows, used, overlaps>> /\ DOMAIN calls' = Callers
        /\ DOMAIN calls'[c] = DOMAIN calls[c]
        /\ calls'[c].op = "update" /\ calls'[c].at = "write" /\ calls'[c].flow = f
        /\ calls'[c].update = u
        /\ \A o \in Callers \ {c} : calls'[o] = calls[o]
    BY <1>3, <2>1, GotoMoves
  <2>3. ShapeInv'
    BY <1>3, <2>1, <2>2 DEF FlowsInv, ShapeInv, Shape
  <2>4. RollbackInv'
    <3>1. \A d \in Callers : calls'[d].op = calls[d].op
      BY <2>1, <2>2
    <3> QED BY <2>1, <2>2, <3>1 DEF FlowsInv, RollbackInv
  <2>5. NamingInv'
    BY <1>3, <2>1, <2>2 DEF FlowsInv, NamingInv, NamesInOrder, Naming
  <2>6. EditingInv'
    BY <1>3, <2>1, <2>2 DEF FlowsInv, EditingInv, EditsInOrder
  <2> QED BY <2>3, <2>4, <2>5, <2>6 DEF FlowsInv
<1> QED BY <1>1, <1>2, <1>3 DEF UpdateFind

LEMMA UpdateCheckNameKeeps ==
  ASSUME FlowsInv, NEW c \in Callers, UpdateCheckName(c)
  PROVE  FlowsInv'
<1>1. CASE Refuse(c)
  BY <1>1, RefuseKeeps
<1>2. CASE /\ Goto(c, "write") /\ Named(calls[c].update.name) = {}
           /\ ValidateUpdate(calls[c].update, calls[c].read)
  <2>1. /\ calls[c].op = "update" /\ calls[c].at = "checkName" /\ ShapeInv
        /\ {"op", "at", "flow", "update"} \subseteq DOMAIN calls[c]
    BY DEF UpdateCheckName, At, FlowsInv, ShapeInv, Shape
  <2>2. /\ UNCHANGED <<flows, used, overlaps>> /\ DOMAIN calls' = Callers
        /\ DOMAIN calls'[c] = DOMAIN calls[c]
        /\ calls'[c].op = "update" /\ calls'[c].at = "write" /\ calls'[c].flow = calls[c].flow
        /\ calls'[c].update = calls[c].update
        /\ \A o \in Callers \ {c} : calls'[o] = calls[o]
    BY <1>2, <2>1, GotoMoves
  <2>3. ShapeInv'
    BY <2>1, <2>2 DEF FlowsInv, ShapeInv, Shape
  <2>4. RollbackInv'
    <3>1. \A d \in Callers : calls'[d].op = calls[d].op
      BY <2>1, <2>2
    <3> QED BY <2>1, <2>2, <3>1 DEF FlowsInv, RollbackInv
  <2>5. NamingInv'
    BY <1>2, <2>1, <2>2 DEF FlowsInv, NamingInv, NamesInOrder, Naming, Named
  <2>6. EditingInv'
    BY <1>2, <2>1, <2>2 DEF FlowsInv, EditingInv, EditsInOrder
  <2> QED BY <2>3, <2>4, <2>5, <2>6 DEF FlowsInv
<1> QED BY <1>1, <1>2 DEF UpdateCheckName
\* A request that goes on, of a flow that is deleted or rolled back.
LEMMA GoesOn ==
  ASSUME FlowsInv, NEW c \in Callers, NEW at, Goto(c, at),
         \/ calls[c].op = "delete" /\ at = "delete"
         \/ calls[c].op = "rollback" /\ at = "read" /\ calls[c].flow \in DOMAIN flows
  PROVE  FlowsInv'
<1>1. ShapeInv /\ {"op", "at", "flow"} \subseteq DOMAIN calls[c] /\ calls[c].op # "idle"
  BY DEF FlowsInv, ShapeInv, Shape
<1>2. /\ UNCHANGED <<flows, used, overlaps>> /\ DOMAIN calls' = Callers
      /\ DOMAIN calls'[c] = DOMAIN calls[c] /\ calls'[c].op = calls[c].op /\ calls'[c].at = at
      /\ calls'[c].flow = calls[c].flow /\ \A o \in Callers \ {c} : calls'[o] = calls[o]
  BY <1>1, GotoMoves
<1>3. ShapeInv'
  BY <1>1, <1>2 DEF FlowsInv, ShapeInv, Shape
<1>4. RollbackInv'
  <2>1. \A d \in Callers : calls'[d].op = calls[d].op
    BY <1>1, <1>2
  <2> QED BY <1>1, <1>2, <2>1 DEF FlowsInv, RollbackInv
<1>5. NamingInv'
  BY <1>1, <1>2 DEF FlowsInv, NamingInv, NamesInOrder, Naming
<1>6. EditingInv'
  BY <1>1, <1>2 DEF FlowsInv, EditingInv, EditsInOrder
<1> QED BY <1>3, <1>4, <1>5, <1>6 DEF FlowsInv

LEMMA RollbackReadKeeps ==
  ASSUME FlowsInv, NEW c \in Callers, RollbackRead(c)
  PROVE  FlowsInv'
<1>1. CASE Refuse(c)
  BY <1>1, RefuseKeeps
<1>2. CASE /\ calls[c].flow \in DOMAIN flows /\ UNCHANGED <<flows, used, overlaps>>
           /\ calls' = [calls EXCEPT ![c] = [op |-> "rollback", at |-> "save", flow |-> calls[c].flow,
                                             read |-> flows[calls[c].flow]]]
  <2>1. calls[c].op = "rollback"
    BY DEF RollbackRead, At
  <2>2. /\ DOMAIN calls' = Callers /\ {"op", "at", "flow", "read"} \subseteq DOMAIN calls'[c]
        /\ calls'[c].op = "rollback" /\ calls'[c].at = "save" /\ calls'[c].flow = calls[c].flow
        /\ calls'[c].read = flows[calls[c].flow]
        /\ \A o \in Callers \ {c} : calls'[o] = calls[o]
    BY <1>2 DEF FlowsInv, ShapeInv
  <2>3. ShapeInv'
    BY <1>2, <2>1, <2>2 DEF FlowsInv, ShapeInv, Shape
  <2>4. RollbackInv'
    BY <1>2, <2>1, <2>2 DEF FlowsInv, RollbackInv
  <2>5. NamingInv'
    BY <1>2, <2>1, <2>2 DEF FlowsInv, NamingInv, NamesInOrder, Naming
  <2>6. EditingInv'
    BY <1>2, <2>1, <2>2 DEF FlowsInv, EditingInv, EditsInOrder
  <2> QED BY <2>3, <2>4, <2>5, <2>6 DEF FlowsInv
<1> QED BY <1>1, <1>2 DEF RollbackRead

\* What the requests write.
LEMMA AnswerEnds ==
  ASSUME FlowsInv, NEW c \in Callers, Answer(c)
  PROVE  /\ overlaps' = overlaps /\ DOMAIN calls' = Callers /\ calls'[c].op = "idle"
         /\ \A o \in Callers \ {c} : calls'[o] = calls[o]
BY DEF Answer, FlowsInv, ShapeInv, Idle

LEMMA CreateInsertKeeps ==
  ASSUME FlowsInv, NEW c \in Callers, CreateInsert(c)
  PROVE  FlowsInv'
<1> DEFINE b == calls[c].body
<1>1. PICK f \in FlowIds \ used :
        /\ used' = used \union {f}
        /\ flows' = [x \in DOMAIN flows \union {f} |->
             IF x \in DOMAIN flows THEN flows[x]
             ELSE [name |-> b.name, nodes |-> b.nodes, links |-> b.links, version |-> 1]]
  BY DEF CreateInsert
<1>2. f \notin DOMAIN flows /\ calls[c].op = "create" /\ calls[c].at = "insert"
  BY DEF FlowsInv, ShapeInv, CreateInsert, At
<1>3. /\ DOMAIN flows' = DOMAIN flows \union {f} /\ \A x \in DOMAIN flows : flows'[x] = flows[x]
      /\ flows'[f].name = b.name /\ flows'[f].nodes = b.nodes /\ flows'[f].links = b.links
      /\ DOMAIN flows'[f] = Columns
  BY <1>1, <1>2 DEF Columns
<1>4. /\ overlaps' = overlaps /\ DOMAIN calls' = Callers /\ calls'[c].op = "idle"
      /\ \A o \in Callers \ {c} : calls'[o] = calls[o]
  BY AnswerEnds DEF CreateInsert
<1>5. ShapeInv'
  BY <1>1, <1>3, <1>4 DEF FlowsInv, ShapeInv, Shape
<1>6. RollbackInv'
  BY <1>2, <1>3, <1>4 DEF FlowsInv, RollbackInv
<1>7. NamingInv'
  BY <1>2, <1>3, <1>4 DEF FlowsInv, NamingInv, NamesInOrder, Naming
<1>8. EditingInv'
  BY <1>1, <1>2, <1>3, <1>4 DEF FlowsInv, ShapeInv, EditingInv, EditsInOrder
<1> QED BY <1>5, <1>6, <1>7, <1>8 DEF FlowsInv

LEMMA UpdateWriteKeeps ==
  ASSUME FlowsInv, NEW c \in Callers, UpdateWrite(c)
  PROVE  FlowsInv'
<1> DEFINE u == calls[c].update
           f == calls[c].flow
<1>1. calls[c].op = "update" /\ calls[c].at = "write" /\ used' = used
  BY DEF UpdateWrite, At
<1>2. /\ DOMAIN flows' = DOMAIN flows /\ \A x \in DOMAIN flows \ {f} : flows'[x] = flows[x]
      /\ f \in DOMAIN flows =>
           /\ flows'[f].name = Merge(flows[f].name, u.name) /\ DOMAIN flows'[f] = Columns
           /\ flows'[f].nodes = Merge(flows[f].nodes, u.nodes)
           /\ flows'[f].links = Merge(flows[f].links, u.links)
  BY DEF UpdateWrite, Columns
<1>3. /\ overlaps' = overlaps /\ DOMAIN calls' = Callers /\ calls'[c].op = "idle"
      /\ \A o \in Callers \ {c} : calls'[o] = calls[o]
  BY AnswerEnds DEF UpdateWrite
<1>4. ShapeInv'
  BY <1>1, <1>2, <1>3 DEF FlowsInv, ShapeInv, Shape
<1>5. RollbackInv'
  BY <1>1, <1>2, <1>3 DEF FlowsInv, RollbackInv
<1>6. NamingInv'
  BY <1>1, <1>2, <1>3 DEF FlowsInv, NamingInv, NamesInOrder, Naming, Merge
<1>7. EditingInv'
  BY <1>1, <1>2, <1>3 DEF FlowsInv, EditingInv, EditsInOrder, ValidateUpdate, Merge
<1> QED BY <1>4, <1>5, <1>6, <1>7 DEF FlowsInv

LEMMA DeleteRowKeeps ==
  ASSUME FlowsInv, NEW c \in Callers, DeleteRow(c)
  PROVE  FlowsInv'
<1>1. calls[c].op = "delete" /\ used' = used
  BY DEF DeleteRow, At
<1>2. DOMAIN flows' = DOMAIN flows \ {calls[c].flow} /\ \A x \in DOMAIN flows' : flows'[x] = flows[x]
  BY DEF DeleteRow
<1>3. /\ overlaps' = overlaps /\ DOMAIN calls' = Callers /\ calls'[c].op = "idle"
      /\ \A o \in Callers \ {c} : calls'[o] = calls[o]
  BY AnswerEnds DEF DeleteRow
<1>4. ShapeInv'
  BY <1>1, <1>2, <1>3 DEF FlowsInv, ShapeInv, Shape
<1>5. RollbackInv'
  BY <1>1, <1>2, <1>3 DEF FlowsInv, RollbackInv
<1>6. NamingInv'
  BY <1>1, <1>2, <1>3 DEF FlowsInv, NamingInv, NamesInOrder, Naming
<1>7. EditingInv'
  BY <1>1, <1>2, <1>3 DEF FlowsInv, EditingInv, EditsInOrder
<1> QED BY <1>4, <1>5, <1>6, <1>7 DEF FlowsInv

LEMMA RollbackSaveKeeps ==
  ASSUME FlowsInv, NEW c \in Callers, RollbackSave(c)
  PROVE  FlowsInv'
<1> DEFINE f == calls[c].flow
           saved == [calls[c].read EXCEPT !.version = @ + 1]
<1>1. calls[c].op = "rollback" /\ calls[c].at = "save" /\ used' = used
  BY DEF RollbackSave, At
<1>2. /\ DOMAIN flows' = DOMAIN flows \union {f} /\ flows'[f] = saved
      /\ \A x \in DOMAIN flows \ {f} : flows'[x] = flows[x]
  BY DEF RollbackSave
<1>3. /\ saved.name = calls[c].read.name /\ saved.nodes = calls[c].read.nodes
      /\ saved.links = calls[c].read.links /\ DOMAIN saved = Columns
  BY <1>1 DEF FlowsInv, ShapeInv, Shape, Columns
<1>4. /\ overlaps' = overlaps /\ DOMAIN calls' = Callers /\ calls'[c].op = "idle"
      /\ \A o \in Callers \ {c} : calls'[o] = calls[o]
  BY AnswerEnds DEF RollbackSave
<1> HIDE DEF saved
<1>5. ShapeInv'
  BY <1>1, <1>2, <1>3, <1>4 DEF FlowsInv, ShapeInv, Shape
<1>6. RollbackInv'
  BY <1>1, <1>2, <1>4 DEF FlowsInv, RollbackInv
<1>7. NamingInv'
  BY <1>1, <1>2, <1>3, <1>4 DEF FlowsInv, RollbackInv, NamingInv, NamesInOrder, Naming
<1>8. EditingInv'
  BY <1>1, <1>2, <1>3, <1>4 DEF FlowsInv, RollbackInv, EditingInv, EditsInOrder
<1> QED BY <1>5, <1>6, <1>7, <1>8 DEF FlowsInv
\* Every step of the service keeps the invariant.
LEMMA FlowsStep ==
  ASSUME FlowsInv, [FlowsNext]_flowVars
  PROVE  FlowsInv'
<1>1. CASE UNCHANGED flowVars
  BY <1>1 DEF flowVars, FlowsInv, ShapeInv, RollbackInv, NamingInv, NamesInOrder, EditingInv,
              EditsInOrder
<1>2. ASSUME NEW c \in Callers, NEW b \in Bodies,
             Begin(c, [op |-> "create", at |-> "check", body |-> b])
      PROVE  FlowsInv'
  BY <1>2, BeginKeeps DEF Shape
<1>3. ASSUME NEW c \in Callers, NEW f \in FlowIds, NEW u \in Updates,
             Begin(c, [op |-> "update", at |-> "find", flow |-> f, update |-> u])
      PROVE  FlowsInv'
  BY <1>3, BeginKeeps DEF Shape
<1>4. ASSUME NEW c \in Callers, NEW f \in FlowIds,
             Begin(c, [op |-> "delete", at |-> "find", flow |-> f])
      PROVE  FlowsInv'
  BY <1>4, BeginKeeps DEF Shape
<1>5. ASSUME NEW c \in Callers, NEW f \in FlowIds, NEW version \in 0..MaxVersion,
             Begin(c, [op |-> "rollback", at |-> "find", flow |-> f, version |-> version])
      PROVE  FlowsInv'
  BY <1>5, BeginKeeps DEF Shape
<1>6. ASSUME NEW c \in Callers, DeleteFind(c) PROVE FlowsInv'
  <2>1. calls[c].op = "delete" /\ (Refuse(c) \/ Goto(c, "delete"))
    BY <1>6 DEF DeleteFind, At
  <2> QED BY <2>1, RefuseKeeps, GoesOn
<1>7. ASSUME NEW c \in Callers, RollbackFind(c) PROVE FlowsInv'
  <2>1. /\ calls[c].op = "rollback"
        /\ Refuse(c) \/ (Goto(c, "read") /\ calls[c].flow \in DOMAIN flows)
    BY <1>7 DEF RollbackFind, At
  <2> QED BY <2>1, RefuseKeeps, GoesOn
<1> QED
  BY <1>1, <1>2, <1>3, <1>4, <1>5, <1>6, <1>7, CreateCheckKeeps, CreateInsertKeeps, UpdateFindKeeps,
     UpdateCheckNameKeeps, UpdateWriteKeeps, DeleteRowKeeps, RollbackReadKeeps, RollbackSaveKeeps
  DEF FlowsNext, NewCreate, NewUpdate, NewDelete, NewRollback

LEMMA FlowsStart == FlowsInit => FlowsInv
BY DEF FlowsInit, FlowsInv, ShapeInv, RollbackInv, NamingInv, NamesInOrder, EditingInv, EditsInOrder,
       Idle, Shape, Naming

\* No two flows have one name and every flow connects only nodes it has, as long as no
\* two calls of a kind that disturbs this ran at the same time: of FlowsService, which
\* checks a request, and neither locks the table nor looks at a row's version.
THEOREM TheTableIsConsistent == FlowsSpec => []TableIsConsistent
<1>1. FlowsInv => TableIsConsistent
  BY DEF FlowsInv, NamingInv, NamesInOrder, EditingInv, EditsInOrder, TableIsConsistent
<1> QED BY <1>1, FlowsStart, FlowsStep, PTL DEF FlowsSpec

\* Without a rollback among other calls, a version is only raised, with the content it
\* had, and a flow that is gone stays gone: of FlowsService's saves of whole rows.
THEOREM VersionsAreOnlyRaised == FlowsSpec => VersionsOnlyCount
<1> DEFINE Counts ==
      \/ "rollback" \in overlaps
      \/ /\ \A f \in DOMAIN flows \intersect DOMAIN flows' :
              \/ flows'[f].version = flows[f].version
              \/ flows'[f] = [flows[f] EXCEPT !.version = @ + 1]
         /\ (DOMAIN flows' \ DOMAIN flows) \intersect used = {}
<1>1. ASSUME UNCHANGED flows PROVE Counts
  BY <1>1
<1>2. ASSUME FlowsInv, NEW c \in Callers, CreateInsert(c) PROVE Counts
  BY <1>2 DEF CreateInsert, FlowsInv, ShapeInv
<1>3. ASSUME FlowsInv, NEW c \in Callers, UpdateWrite(c) PROVE Counts
  BY <1>3 DEF UpdateWrite
<1>4. ASSUME FlowsInv, NEW c \in Callers, DeleteRow(c) PROVE Counts
  BY <1>4 DEF DeleteRow
<1>5. ASSUME FlowsInv, NEW c \in Callers, RollbackSave(c) PROVE Counts
  <2> DEFINE f == calls[c].flow
  <2>1. CASE "rollback" \notin overlaps
    <3>1. f \in DOMAIN flows /\ calls[c].read = flows[f]
      BY <1>5, <2>1 DEF RollbackSave, At, FlowsInv, RollbackInv
    <3>2. DOMAIN flows' = DOMAIN flows /\ \A x \in DOMAIN flows : flows'[x] =
            IF x # f THEN flows[x] ELSE [flows[f] EXCEPT !.version = @ + 1]
      BY <1>5, <3>1 DEF RollbackSave
    <3> QED BY <3>2
  <2> QED BY <2>1
<1> HIDE DEF Counts
<1>6. ASSUME FlowsInv, [FlowsNext]_flowVars PROVE [Counts]_flowVars
  <2>1. CASE UNCHANGED flowVars
    BY <2>1
  <2>2. ASSUME NEW c \in Callers,
               NewCreate(c) \/ NewUpdate(c) \/ NewDelete(c) \/ NewRollback(c)
        PROVE  UNCHANGED flows
    BY <2>2 DEF NewCreate, NewUpdate, NewDelete, NewRollback, Begin
  <2>3. ASSUME NEW c \in Callers,
               CreateCheck(c) \/ UpdateFind(c) \/ UpdateCheckName(c) \/ DeleteFind(c)
                 \/ RollbackFind(c) \/ RollbackRead(c)
        PROVE  UNCHANGED flows
    BY <2>3 DEF CreateCheck, UpdateFind, UpdateCheckName, DeleteFind, RollbackFind, RollbackRead,
                Refuse, Goto
  <2> QED BY <1>1, <1>2, <1>3, <1>4, <1>5, <1>6, <2>1, <2>2, <2>3 DEF FlowsNext
<1>7. FlowsSpec => []FlowsInv
  BY FlowsStart, FlowsStep, PTL DEF FlowsSpec
<1>8. [][Counts]_flowVars => VersionsOnlyCount
  BY DEF VersionsOnlyCount, Counts
<1> QED BY <1>6, <1>7, <1>8, PTL DEF FlowsSpec

-----------------------------------------------------------------------------
(***************************************************************************)
(* CatalogService.                                                         *)
(***************************************************************************)

CatalogSpec == CatalogInit /\ [][CatalogNext]_catalogVars

BuiltInTypes == {BuiltIn[i] : i \in DOMAIN BuiltIn}
BuiltInRows == {<<type, FirstVersion>> : type \in BuiltInTypes}
ResyncedRow == <<Resynced, FirstVersion>>
OldRows == OldTypes \X {FirstVersion}
Lost == registered \ DOMAIN rows

\* Requests are served after a start; what node-core has not, a user has registered.
RowsInv ==
  /\ boot \in {"down", "sync", "resync", "delete", "create", "up"}
  /\ DOMAIN requests = Requests
  /\ \A r \in Requests : requests[r] \in Definitions \union {NoRequest}
  /\ boot # "up" => \A r \in Requests : requests[r] = NoRequest
  /\ \A k \in DOMAIN rows : IF rows[k] = "custom" THEN k \in registered
                            ELSE k \in BuiltInRows \/ (rows[k] = "old" /\ k \in OldRows)
  /\ registered \subseteq Definitions

\* The types that a start without a failure has come past are listed; the resync takes
\* one row of one type, and only of that type may the first version be missing then.
StartInv ==
  /\ boot = "sync" => \E n \in 1..4 :
       /\ todo \in Seq(BuiltInTypes) /\ Len(todo) = 5 - n
       /\ \A i \in 1..Len(todo) : todo[i] = BuiltIn[n + i - 1]
       /\ ~failed => \A i \in 1..4 : i < n => <<BuiltIn[i], FirstVersion>> \in DOMAIN rows
  /\ boot \in {"resync", "delete", "create", "up"} /\ ~failed =>
       \A k \in BuiltInRows : k \in DOMAIN rows \/ (boot = "create" /\ k = ResyncedRow)
  /\ boot = "delete" => todo \in RowsOf(Resynced)
  /\ boot = "create" \/ (boot = "up" /\ ~failed) =>
       \/ ResyncedRow \notin DOMAIN rows
       \/ rows[ResyncedRow] = "current"
       \/ \E k \in registered : k[1] = Resynced

\* Each start but the first loses one registered version at most.
LostInv ==
  /\ boots \in Nat /\ (boots = 0 => boot = "down" /\ registered = {})
  /\ boots = 1 /\ boot \notin {"down", "up"} => registered = {}
  /\ \A k \in Lost : k[1] = Resynced
  /\ IsFiniteSet(Lost)
  /\ Cardinality(Lost) = 0 \/ Cardinality(Lost) < boots
  /\ boot \in {"sync", "resync", "delete"} => Cardinality(Lost) = 0 \/ Cardinality(Lost) + 1 < boots

CatalogInv == RowsInv /\ StartInv /\ LostInv

-----------------------------------------------------------------------------
(* The look-ups. *)

LEMMA BuiltInIs ==
  /\ DOMAIN BuiltIn = 1..4 /\ BuiltIn \in Seq(BuiltInTypes) /\ Len(BuiltIn) = 4
  /\ BuiltIn[1] = Resynced /\ BuiltInTypes = {BuiltIn[1], BuiltIn[2], BuiltIn[3], BuiltIn[4]}
  /\ BuiltIn[2] # Resynced /\ BuiltIn[3] # Resynced /\ BuiltIn[4] # Resynced
BY DEF BuiltIn, BuiltInTypes, Resynced

\* Every nonempty set of numbers up to n has a largest one.
LEMMA Largest ==
  ASSUME NEW n \in Nat, NEW T \in SUBSET (0..n), T # {}
  PROVE  \E m \in T : \A x \in T : x <= m
<1> DEFINE U == {n - x : x \in T}
<1>1. U \subseteq Nat /\ U # {}
  <2>1. \A x \in T : x \in Nat /\ n - x \in Nat
    OBVIOUS
  <2>2. PICK x \in T : TRUE
    OBVIOUS
  <2>3. n - x \in U
    OBVIOUS
  <2> QED BY <2>1, <2>3
<1>2. IsWellFoundedOn(OpToRel(<, Nat), Nat)
  BY NatLessThanWellFounded
<1>3. PICK u \in U : \A y \in U : <<y, u>> \notin OpToRel(<, Nat)
  BY <1>1, <1>2, WFMin
<1>4. \A y \in U : ~(y < u)
  BY <1>1, <1>3 DEF OpToRel
<1>5. PICK m \in T : u = n - m
  OBVIOUS
<1>6. ASSUME NEW x \in T PROVE x <= m
  <2>1. ~(n - x < n - m)
    BY <1>4, <1>5
  <2> QED BY <2>1
<1> QED BY <1>6

\* The look-up of a type finds one of its versions.
LEMMA LatestIsARow ==
  ASSUME RowsInv, NEW type, RowsOf(type) # {}
  PROVE  Latest(type) \in RowsOf(type)
<1> DEFINE T == {Position(k[2]) : k \in RowsOf(type)}
<1>1. ASSUME NEW k \in RowsOf(type) PROVE Position(k[2]) \in 0..Len(ByText)
  <2>1. k \in Definitions \/ k[2] = FirstVersion
    BY DEF RowsInv, RowsOf, BuiltInRows, OldRows
  <2>2. \E i \in DOMAIN ByText : ByText[i] = k[2]
    BY <2>1, CatalogAssumption
  <2>3. Position(k[2]) \in DOMAIN ByText
    BY <2>2 DEF Position
  <2> QED BY <2>3, CatalogAssumption
<1>2. PICK m \in T : \A x \in T : x <= m
  <2>1. T \in SUBSET (0..Len(ByText)) /\ T # {} /\ Len(ByText) \in Nat
    BY <1>1, CatalogAssumption
  <2> QED BY <2>1, Largest
<1>3. \E k \in RowsOf(type) : \A o \in RowsOf(type) : Position(o[2]) <= Position(k[2])
  BY <1>2
<1> QED BY <1>3 DEF Latest

-----------------------------------------------------------------------------
(* The steps of a start. *)

\* Inserting a row.
LEMMA InsertAdds ==
  ASSUME NEW k, NEW metadata, k \notin DOMAIN rows, Insert(k, metadata)
  PROVE  /\ DOMAIN rows' = DOMAIN rows \union {k} /\ rows'[k] = metadata
         /\ \A x \in DOMAIN rows : rows'[x] = rows[x]
BY DEF Insert

\* What is lost does not grow while rows are only added, and the starts only counted.
LEMMA NothingLost ==
  ASSUME LostInv, DOMAIN rows \subseteq DOMAIN rows', registered' \ DOMAIN rows' \subseteq Lost
  PROVE  /\ \A k \in Lost' : k[1] = Resynced
         /\ IsFiniteSet(Lost') /\ Cardinality(Lost') \in Nat /\ Cardinality(Lost) \in Nat
         /\ Cardinality(Lost') <= Cardinality(Lost)
<1>1. Lost' \in SUBSET Lost
  BY DEF Lost
<1> QED BY <1>1, FS_Subset, FS_CardinalityType DEF LostInv

LEMMA StartKeeps ==
  ASSUME CatalogInv, Start
  PROVE  CatalogInv'
<1>1. RowsInv'
  BY DEF CatalogInv, RowsInv, Start
<1>2. StartInv'
  <2>1. /\ boot' = "sync" /\ todo' = BuiltIn
    BY DEF Start
  <2>2. \A i \in 1..4 : todo'[i] = BuiltIn[1 + i - 1]
    BY <2>1
  <2> QED BY <2>1, <2>2, BuiltInIs DEF StartInv
<1>3. LostInv'
  <2>1. Lost' = Lost /\ boots \in Nat /\ boots' = boots + 1 /\ boot' = "sync" /\ boot = "down"
    BY DEF Start, Lost, CatalogInv, LostInv
  <2>2. Cardinality(Lost) \in Nat
    BY FS_CardinalityType DEF CatalogInv, LostInv
  <2>3. registered' = registered
    BY DEF Start
  <2>4. boots = 0 => registered = {}
    BY DEF CatalogInv, LostInv
  <2>5. Cardinality(Lost) = 0 \/ Cardinality(Lost) < boots
    BY DEF CatalogInv, LostInv
  <2>6. (\A k \in Lost : k[1] = Resynced) /\ IsFiniteSet(Lost)
    BY DEF CatalogInv, LostInv
  <2> QED BY <2>1, <2>2, <2>3, <2>4, <2>5, <2>6 DEF LostInv
<1> QED BY <1>1, <1>2, <1>3 DEF CatalogInv

\* A step of a start that adds a row of node-core or none.
LEMMA RowsKept ==
  ASSUME CatalogInv, UNCHANGED <<boots, requests, registered>>,
         boot \notin {"down", "up"}, boot' \in {"sync", "resync", "delete", "create", "up"},
         boot' \in {"sync", "resync", "delete"} => boot \in {"sync", "resync", "delete"},
         \/ UNCHANGED rows
         \/ \E k \in BuiltInRows : k \notin DOMAIN rows /\ Insert(k, "current")
  PROVE  RowsInv' /\ LostInv' /\ DOMAIN rows \subseteq DOMAIN rows'
<1>1. /\ DOMAIN rows \subseteq DOMAIN rows'
      /\ \A x \in DOMAIN rows : rows'[x] = rows[x]
      /\ \A x \in DOMAIN rows' \ DOMAIN rows : x \in BuiltInRows /\ rows'[x] = "current"
  <2>1. CASE UNCHANGED rows
    BY <2>1
  <2>2. ASSUME NEW k \in BuiltInRows, k \notin DOMAIN rows, Insert(k, "current")
        PROVE  /\ DOMAIN rows' = DOMAIN rows \union {k} /\ rows'[k] = "current"
               /\ \A x \in DOMAIN rows : rows'[x] = rows[x]
    BY <2>2, InsertAdds
  <2> QED BY <2>1, <2>2
<1>2. RowsInv'
  <2>1. \A k \in DOMAIN rows' : IF rows'[k] = "custom" THEN k \in registered
                                ELSE k \in BuiltInRows \/ (rows'[k] = "old" /\ k \in OldRows)
    BY <1>1 DEF CatalogInv, RowsInv
  <2> QED BY <2>1 DEF CatalogInv, RowsInv
<1>3. LostInv'
  <2>1. /\ \A k \in Lost' : k[1] = Resynced
        /\ IsFiniteSet(Lost') /\ Cardinality(Lost') \in Nat /\ Cardinality(Lost) \in Nat
        /\ Cardinality(Lost') <= Cardinality(Lost)
    BY <1>1, NothingLost DEF CatalogInv, Lost
  <2>2. boots' = boots /\ registered' = registered /\ boots \in Nat
    BY DEF CatalogInv, LostInv
  <2>3. Cardinality(Lost) = 0 \/ Cardinality(Lost) < boots
    BY DEF CatalogInv, LostInv
  <2>4. boot' \in {"sync", "resync", "delete"} => Cardinality(Lost) = 0 \/ Cardinality(Lost) + 1 < boots
    BY DEF CatalogInv, LostInv
  <2>5. Cardinality(Lost') = 0 \/ Cardinality(Lost') < boots
    BY <2>1, <2>2, <2>3
  <2>6. boot' \in {"sync", "resync", "delete"} => Cardinality(Lost') = 0 \/ Cardinality(Lost') + 1 < boots
    BY <2>1, <2>2, <2>4
  <2>7. (boots = 0 => boot' = "down" /\ registered = {}) /\ (boots = 1 => registered = {})
    BY DEF CatalogInv, LostInv
  <2> QED BY <2>1, <2>2, <2>5, <2>6, <2>7 DEF LostInv
<1> QED BY <1>1, <1>2, <1>3

\* A query that fails ends what was to be shown of this start.
LEMMA FailsKeeps ==
  ASSUME CatalogInv, NEW next \in {"resync", "up"}, Fails(next), boot \notin {"down", "up"},
         next = "resync" => boot = "sync"
  PROVE  CatalogInv'
<1>1. UNCHANGED <<rows, boots, requests, registered>> /\ failed' = TRUE /\ boot' = next
  BY DEF Fails
<1>2. RowsInv' /\ LostInv'
  BY <1>1, RowsKept
<1>3. StartInv'
  BY <1>1 DEF StartInv
<1> QED BY <1>2, <1>3 DEF CatalogInv

LEMMA SyncNodeKeeps ==
  ASSUME CatalogInv, SyncNode
  PROVE  CatalogInv'
<1> DEFINE k == <<Head(todo), FirstVersion>>
<1>1. PICK n \in 1..4 :
       /\ todo \in Seq(BuiltInTypes) /\ Len(todo) = 5 - n
       /\ \A i \in 1..Len(todo) : todo[i] = BuiltIn[n + i - 1]
       /\ ~failed => \A i \in 1..4 : i < n => <<BuiltIn[i], FirstVersion>> \in DOMAIN rows
  BY DEF SyncNode, CatalogInv, StartInv
<1>2. Head(todo) = BuiltIn[n] /\ Head(todo) \in BuiltInTypes
  BY <1>1
<1>3. k \in BuiltInRows
  BY <1>2 DEF BuiltInRows
<1>4. boot = "sync" /\ todo' = Tail(todo)
  BY DEF SyncNode
<1>5. /\ todo' \in Seq(BuiltInTypes) /\ Len(todo') = 5 - (n + 1)
      /\ \A i \in 1..Len(todo') : todo'[i] = BuiltIn[(n + 1) + i - 1]
  <2>1. todo' \in Seq(BuiltInTypes) /\ Len(todo') = Len(todo) - 1
    BY <1>1, <1>4
  <2>2. \A i \in 1..Len(todo') : todo'[i] = todo[i + 1] /\ i + 1 \in 1..Len(todo)
    BY <1>1, <1>4, <2>1
  <2> QED BY <1>1, <2>1, <2>2
<1>6. (AfterSync = "sync" <=> n # 4) /\ (AfterSync = "resync" <=> n = 4)
  BY <1>1 DEF AfterSync
<1>7. \/ Fails(AfterSync)
      \/ /\ Works(AfterSync)
         /\ \/ k \in DOMAIN rows /\ UNCHANGED rows
            \/ k \notin DOMAIN rows /\ Insert(k, "current")
  BY DEF SyncNode
<1>8. RowsInv' /\ LostInv'
  <2>1. UNCHANGED <<boots, requests, registered>> /\ boot' \in {"sync", "resync"}
    BY <1>6, <1>7 DEF Fails, Works
  <2>2. UNCHANGED rows \/ (k \notin DOMAIN rows /\ Insert(k, "current"))
    BY <1>7 DEF Fails
  <2> QED BY <1>3, <1>4, <2>1, <2>2, RowsKept
<1>9. ~failed' => Works(AfterSync) /\ ~failed /\ DOMAIN rows' = DOMAIN rows \union {k}
  <2>1. CASE Fails(AfterSync)
    BY <2>1 DEF Fails
  <2>2. CASE Works(AfterSync) /\ k \in DOMAIN rows /\ UNCHANGED rows
    BY <2>2 DEF Works
  <2>3. CASE Works(AfterSync) /\ k \notin DOMAIN rows /\ Insert(k, "current")
    BY <2>3, InsertAdds DEF Works
  <2> QED BY <1>7, <2>1, <2>2, <2>3
<1>10. ~failed' => \A i \in 1..4 : i < n + 1 => <<BuiltIn[i], FirstVersion>> \in DOMAIN rows'
  <2> SUFFICES ASSUME ~failed', NEW i \in 1..4, i < n + 1
               PROVE  <<BuiltIn[i], FirstVersion>> \in DOMAIN rows'
    OBVIOUS
  <2>1. ~failed /\ DOMAIN rows' = DOMAIN rows \union {k}
    BY <1>9
  <2>2. CASE i < n
    <3>1. <<BuiltIn[i], FirstVersion>> \in DOMAIN rows
      BY <1>1, <2>1, <2>2
    <3> QED BY <2>1, <3>1
  <2>3. CASE i = n
    <3>1. <<BuiltIn[i], FirstVersion>> = k
      BY <1>2, <2>3
    <3> QED BY <2>1, <3>1
  <2> QED BY <2>2, <2>3
<1> HIDE DEF k
<1>11. boot' = AfterSync
  BY <1>7 DEF Fails, Works
<1>12. StartInv'
  <2>1. CASE n # 4
    <3>1. boot' = "sync" /\ n + 1 \in 1..4
      BY <2>1, <1>6, <1>11
    <3> QED BY <3>1, <1>5, <1>10 DEF StartInv
  <2>2. CASE n = 4
    <3>1. boot' = "resync"
      BY <2>2, <1>6, <1>11
    <3>2. ~failed' => \A i \in 1..4 : <<BuiltIn[i], FirstVersion>> \in DOMAIN rows'
      BY <2>2, <1>10
    <3>3. ~failed' => \A x \in BuiltInRows : x \in DOMAIN rows'
      BY <3>2, BuiltInIs DEF BuiltInRows
    <3> QED BY <3>1, <3>3 DEF StartInv
  <2> QED BY <2>1, <2>2
<1> QED BY <1>8, <1>12 DEF CatalogInv

LEMMA ResyncFindKeeps ==
  ASSUME CatalogInv, ResyncFind
  PROVE  CatalogInv'
<1>1. CASE Fails("up")
  BY <1>1, FailsKeeps DEF ResyncFind
<1>2. CASE /\ UNCHANGED rows
           /\ \/ RowsOf(Resynced) # {} /\ todo' = Latest(Resynced) /\ Works("delete")
              \/ RowsOf(Resynced) = {} /\ Works("create")
  <2>1. UNCHANGED <<boots, requests, registered, failed>> /\ boot = "resync"
    BY <1>2 DEF Works, ResyncFind
  <2>2. RowsInv' /\ LostInv'
    BY <1>2, <2>1, RowsKept DEF Works
  <2>3. CASE RowsOf(Resynced) # {} /\ todo' = Latest(Resynced) /\ Works("delete")
    <3>1. todo' \in RowsOf(Resynced)
      BY <2>3, LatestIsARow DEF CatalogInv
    <3>2. (todo \in RowsOf(Resynced))'
      BY <1>2, <3>1 DEF RowsOf
    <3> QED BY <1>2, <2>1, <2>2, <2>3, <3>2 DEF CatalogInv, StartInv, Works
  <2>4. CASE RowsOf(Resynced) = {} /\ Works("create")
    <3>1. ResyncedRow \notin DOMAIN rows
      BY <2>4 DEF RowsOf, ResyncedRow
    <3> QED BY <1>2, <2>1, <2>2, <2>4, <3>1 DEF CatalogInv, StartInv, Works
  <2> QED BY <1>2, <2>3, <2>4
<1> QED BY <1>1, <1>2 DEF ResyncFind

\* The row that is deleted is node-core's, or one that a user registered.
LEMMA ResyncDeleteKeeps ==
  ASSUME CatalogInv, ResyncDelete
  PROVE  CatalogInv'
<1>1. CASE Fails("up")
  BY <1>1, FailsKeeps DEF ResyncDelete
<1>2. CASE Works("create") /\ Delete({todo})
  <2>1. /\ UNCHANGED <<boots, requests, registered, failed>> /\ boot = "delete" /\ boot' = "create"
    BY <1>2 DEF Works, ResyncDelete
  <2>2. todo \in DOMAIN rows /\ todo[1] = Resynced
    BY <2>1 DEF CatalogInv, StartInv, RowsOf
  <2>3. DOMAIN rows' = DOMAIN rows \ {todo} /\ \A x \in DOMAIN rows' : rows'[x] = rows[x]
    BY <1>2 DEF Delete
  <2>4. RowsInv'
    BY <2>1, <2>3 DEF CatalogInv, RowsInv
  <2>5. \A x \in BuiltInRows : x[1] = Resynced => x = ResyncedRow
    BY DEF BuiltInRows, ResyncedRow
  <2>6. \A x \in BuiltInRows : x # ResyncedRow => x # todo
    BY <2>2, <2>5
  <2>7. ResyncedRow \notin DOMAIN rows' \/ todo \in registered
    <3>1. \A x \in OldRows : x[1] = Resynced => x = ResyncedRow
      BY DEF OldRows, ResyncedRow
    <3> QED BY <2>2, <2>3, <2>5, <3>1 DEF CatalogInv, RowsInv
  <2>8. StartInv'
    BY <2>1, <2>2, <2>3, <2>6, <2>7 DEF CatalogInv, StartInv
  <2>9. LostInv'
    <3>1. /\ boots \in Nat /\ IsFiniteSet(Lost) /\ boots # 0 /\ (boots = 1 => registered = {})
          /\ \A k \in Lost : k[1] = Resynced
          /\ Cardinality(Lost) = 0 \/ Cardinality(Lost) + 1 < boots
      BY <2>1 DEF CatalogInv, LostInv
    <3>2. Cardinality(Lost) \in Nat
      BY <3>1, FS_CardinalityType
    <3>3. /\ IsFiniteSet(Lost \union {todo}) /\ Cardinality(Lost \union {todo}) \in Nat
          /\ Cardinality(Lost \union {todo}) <= Cardinality(Lost) + 1
      BY <3>1, <3>2, FS_AddElement, FS_CardinalityType
    <3>4. Lost' \in SUBSET (Lost \union {todo})
      BY <2>1, <2>3 DEF Lost
    <3>5. /\ IsFiniteSet(Lost') /\ Cardinality(Lost') \in Nat
          /\ Cardinality(Lost') <= Cardinality(Lost) + 1
      BY <3>2, <3>3, <3>4, FS_Subset, FS_CardinalityType
    <3>6. Cardinality(Lost') = 0 \/ Cardinality(Lost') < boots
      <4>1. CASE boots = 1
        <5>1. Lost' = {}
          BY <4>1, <2>1, <3>1 DEF Lost
        <5> QED BY <5>1, FS_EmptySet
      <4>2. CASE boots # 1
        <5>1. boots > 1
          BY <4>2, <3>1
        <5> QED BY <5>1, <3>1, <3>2, <3>5
      <4> QED BY <4>1, <4>2
    <3>7. \A k \in Lost' : k[1] = Resynced
      BY <3>1, <3>4, <2>2
    <3> QED BY <2>1, <3>1, <3>5, <3>6, <3>7 DEF LostInv
  <2> QED BY <2>4, <2>8, <2>9 DEF CatalogInv
<1> QED BY <1>1, <1>2 DEF ResyncDelete

LEMMA ResyncCreateKeeps ==
  ASSUME CatalogInv, ResyncCreate
  PROVE  CatalogInv'
<1>1. CASE Fails("up")
  BY <1>1, FailsKeeps DEF ResyncCreate
<1>2. CASE /\ Works("up")
           /\ \/ ResyncedRow \in DOMAIN rows /\ UNCHANGED rows
              \/ ResyncedRow \notin DOMAIN rows /\ Insert(ResyncedRow, "current")
  <2>1. UNCHANGED <<boots, requests, registered, failed>> /\ boot = "create" /\ boot' = "up"
    BY <1>2 DEF Works, ResyncCreate
  <2>2. ResyncedRow \in BuiltInRows
    BY BuiltInIs DEF ResyncedRow, BuiltInRows
  <2>3. RowsInv' /\ LostInv'
    BY <1>2, <2>1, <2>2, RowsKept
  <2>4. CASE ResyncedRow \in DOMAIN rows /\ UNCHANGED rows
    BY <2>1, <2>3, <2>4 DEF CatalogInv, StartInv
  <2>5. CASE ResyncedRow \notin DOMAIN rows /\ Insert(ResyncedRow, "current")
    <3>1. DOMAIN rows' = DOMAIN rows \union {ResyncedRow} /\ rows'[ResyncedRow] = "current"
      BY <2>5, InsertAdds
    <3> QED BY <2>1, <2>3, <3>1 DEF CatalogInv, StartInv
  <2> QED BY <1>2, <2>4, <2>5
<1> QED BY <1>1, <1>2 DEF ResyncCreate, ResyncedRow

LEMMA StopKeeps ==
  ASSUME CatalogInv, Stop
  PROVE  CatalogInv'
<1>1. UNCHANGED <<rows, boots, failed, registered>> /\ boot' = "down"
  BY DEF Stop
<1>2. RowsInv'
  BY <1>1 DEF CatalogInv, RowsInv, Stop
<1>3. StartInv'
  BY <1>1 DEF StartInv
<1>4. LostInv'
  <2>1. Lost' = Lost
    BY <1>1 DEF Lost
  <2>2. boots = 0 => registered = {}
    BY DEF CatalogInv, LostInv
  <2> QED BY <1>1, <2>1, <2>2 DEF CatalogInv, LostInv
<1> QED BY <1>2, <1>3, <1>4 DEF CatalogInv

LEMMA RegisterCheckKeeps ==
  ASSUME CatalogInv, NEW r \in Requests, RegisterCheck(r)
  PROVE  CatalogInv'
<1>1. UNCHANGED <<rows, boot, todo, boots, failed, registered>> /\ boot = "up"
  BY DEF RegisterCheck
<1>2. RowsInv'
  <2>1. PICK k \in Definitions : requests' = [requests EXCEPT ![r] = k]
    BY DEF RegisterCheck
  <2>2. DOMAIN requests' = Requests /\ \A q \in Requests : requests'[q] \in {requests[q], k}
    BY <2>1 DEF CatalogInv, RowsInv
  <2> QED BY <1>1, <2>2 DEF CatalogInv, RowsInv
<1>3. StartInv'
  BY <1>1 DEF CatalogInv, StartInv, RowsOf
<1>4. LostInv'
  <2>1. Lost' = Lost
    BY <1>1 DEF Lost
  <2> QED BY <1>1, <2>1 DEF CatalogInv, LostInv
<1> QED BY <1>2, <1>3, <1>4 DEF CatalogInv

\* A registration is answered with its row in the table.
LEMMA RegisterInsertKeeps ==
  ASSUME CatalogInv, NEW r \in Requests, RegisterInsert(r)
  PROVE  CatalogInv'
<1> DEFINE k == requests[r]
<1>1. UNCHANGED <<boot, todo, boots, failed>> /\ requests' = [requests EXCEPT ![r] = NoRequest]
  BY DEF RegisterInsert
<1>2. boot = "up" /\ k \in Definitions
  BY DEF RegisterInsert, CatalogInv, RowsInv
<1>3. /\ DOMAIN requests' = Requests /\ \A q \in Requests : requests'[q] \in {requests[q], NoRequest}
  BY <1>1 DEF CatalogInv, RowsInv
<1>4. CASE k \in DOMAIN rows /\ UNCHANGED <<rows, registered>>
  <2>1. RowsInv'
    BY <1>1, <1>2, <1>3, <1>4 DEF CatalogInv, RowsInv
  <2>2. StartInv'
    BY <1>1, <1>2, <1>4 DEF CatalogInv, StartInv
  <2>3. Lost' = Lost
    BY <1>4 DEF Lost
  <2>4. LostInv'
    BY <1>1, <1>2, <1>4, <2>3 DEF CatalogInv, LostInv
  <2> QED BY <2>1, <2>2, <2>4 DEF CatalogInv
<1>5. CASE k \notin DOMAIN rows /\ Insert(k, "custom") /\ registered' = registered \union {k}
  <2>1. /\ DOMAIN rows' = DOMAIN rows \union {k} /\ rows'[k] = "custom"
        /\ \A x \in DOMAIN rows : rows'[x] = rows[x]
    BY <1>5, InsertAdds
  <2>2. RowsInv'
    <3>1. \A x \in DOMAIN rows' : IF rows'[x] = "custom" THEN x \in registered'
                                  ELSE x \in BuiltInRows \/ (rows'[x] = "old" /\ x \in OldRows)
      BY <1>5, <2>1 DEF CatalogInv, RowsInv
    <3> QED BY <1>1, <1>2, <1>3, <1>5, <3>1 DEF CatalogInv, RowsInv
  <2>3. StartInv'
    <3>1. ~failed' => \A x \in BuiltInRows : x \in DOMAIN rows'
      BY <1>1, <1>2, <2>1 DEF CatalogInv, StartInv
    <3>2. ~failed' => \/ rows'[ResyncedRow] = "current"
                      \/ \E x \in registered' : x[1] = Resynced
      <4> SUFFICES ASSUME ~failed' PROVE rows'[ResyncedRow] = "current"
                                         \/ \E x \in registered' : x[1] = Resynced
        OBVIOUS
      <4>1. ResyncedRow \in DOMAIN rows
        BY <1>1, <1>2, BuiltInIs DEF CatalogInv, StartInv, ResyncedRow, BuiltInRows
      <4>2. rows[ResyncedRow] = "current" \/ \E x \in registered : x[1] = Resynced
        BY <1>1, <1>2, <4>1 DEF CatalogInv, StartInv
      <4> QED BY <1>5, <2>1, <4>1, <4>2
    <3> QED BY <1>1, <1>2, <3>1, <3>2 DEF StartInv
  <2>4. LostInv'
    <3>1. registered' \ DOMAIN rows' \subseteq Lost /\ DOMAIN rows \subseteq DOMAIN rows'
      BY <1>5, <2>1 DEF Lost
    <3>2. /\ \A x \in Lost' : x[1] = Resynced
          /\ IsFiniteSet(Lost') /\ Cardinality(Lost') \in Nat /\ Cardinality(Lost) \in Nat
          /\ Cardinality(Lost') <= Cardinality(Lost)
      BY <3>1, NothingLost DEF CatalogInv
    <3>3. boots \in Nat /\ boots # 0 /\ (Cardinality(Lost) = 0 \/ Cardinality(Lost) < boots)
      BY <1>2 DEF CatalogInv, LostInv
    <3>4. Cardinality(Lost') = 0 \/ Cardinality(Lost') < boots
      BY <3>2, <3>3
    <3> QED BY <1>1, <1>2, <3>2, <3>3, <3>4 DEF LostInv
  <2> QED BY <2>2, <2>3, <2>4 DEF CatalogInv
<1> QED BY <1>4, <1>5 DEF RegisterInsert

LEMMA CatalogStep ==
  ASSUME CatalogInv, [CatalogNext]_catalogVars
  PROVE  CatalogInv'
<1>1. CASE UNCHANGED catalogVars
  <2>1. Lost' = Lost
    BY <1>1 DEF catalogVars, Lost
  <2>2. RowsInv' /\ StartInv'
    BY <1>1 DEF catalogVars, CatalogInv, RowsInv, StartInv, RowsOf
  <2>3. LostInv'
    BY <1>1, <2>1 DEF catalogVars, CatalogInv, LostInv
  <2> QED BY <2>2, <2>3 DEF CatalogInv
<1> QED
  BY <1>1, StartKeeps, SyncNodeKeeps, ResyncFindKeeps, ResyncDeleteKeeps, ResyncCreateKeeps, StopKeeps,
     RegisterCheckKeeps, RegisterInsertKeeps DEF CatalogNext

LEMMA CatalogStart == CatalogInit => CatalogInv
<1> SUFFICES ASSUME CatalogInit PROVE CatalogInv
  OBVIOUS
<1>1. boot = "down" /\ registered = {} /\ boots = 0 /\ Lost = {}
  BY DEF CatalogInit, Lost
<1>2. ASSUME NEW k \in DOMAIN rows PROVE rows[k] = "old" /\ k \in OldRows
  <2>1. CASE rows = <<>>
    BY <1>2, <2>1
  <2>2. CASE rows = [x \in OldRows |-> "old"]
    BY <1>2, <2>2
  <2> QED BY <2>1, <2>2 DEF CatalogInit, OldRows
<1>3. RowsInv
  BY <1>1, <1>2 DEF CatalogInit, RowsInv
<1>4. StartInv
  BY <1>1 DEF StartInv
<1>5. LostInv
  BY <1>1, FS_EmptySet DEF LostInv
<1> QED BY <1>3, <1>4, <1>5 DEF CatalogInv

LEMMA CatalogAlways == CatalogSpec => []CatalogInv
BY CatalogStart, CatalogStep, PTL DEF CatalogSpec

\* After a start without a failing query every type of node-core is listed, with its
\* current metadata where the resync reached it: of onModuleInit, whatever was stored,
\* wherever earlier starts ended and whatever users have registered.
THEOREM BuiltInsAlwaysListed == CatalogSpec => []BuiltInsAreListed
<1>1. CatalogInv => BuiltInsAreListed
  <2> SUFFICES ASSUME CatalogInv, boot = "up", ~failed
               PROVE  /\ \A i \in DOMAIN BuiltIn : <<BuiltIn[i], FirstVersion>> \in DOMAIN rows
                      /\ \/ rows[<<Resynced, FirstVersion>>] = "current"
                         \/ \E k \in registered : k[1] = Resynced
    BY DEF BuiltInsAreListed
  <2>1. \A k \in BuiltInRows : k \in DOMAIN rows
    BY DEF CatalogInv, StartInv
  <2>2. \A i \in DOMAIN BuiltIn : <<BuiltIn[i], FirstVersion>> \in BuiltInRows
    BY DEF BuiltInRows, BuiltInTypes
  <2>3. ResyncedRow \in DOMAIN rows
    BY <2>1, BuiltInIs DEF BuiltInRows, ResyncedRow
  <2> QED BY <2>1, <2>2, <2>3 DEF CatalogInv, StartInv, ResyncedRow
<1> QED BY <1>1, CatalogAlways, PTL

\* No start loses more than one of the registered definitions, the first none, and none
\* that is not of postgresql-query: of forceResyncNodes, for any number of starts.
THEOREM RegisteredNodesAreKept == CatalogSpec => []RegisteredNodesSurvive
<1>1. CatalogInv => RegisteredNodesSurvive
  <2> SUFFICES ASSUME CatalogInv PROVE RegisteredNodesSurvive
    OBVIOUS
  <2>1. IsFiniteSet(Lost) /\ (\A k \in Lost : k[1] = Resynced)
        /\ (Cardinality(Lost) = 0 \/ Cardinality(Lost) < boots)
    BY DEF CatalogInv, LostInv
  <2>2. Cardinality(Lost) < boots \/ Lost = {}
    BY <2>1, FS_EmptySet
  <2> QED BY <2>1, <2>2 DEF RegisteredNodesSurvive, Lost
<1> QED BY <1>1, CatalogAlways, PTL

\* A connection that the catalog's rules allow is one that the orchestrator executes:
\* of the rules in node-core's metadata and the table of CompatibilityValidator, at any
\* time of any start.
THEOREM CompatibleIsAlwaysExecutable == CatalogSpec => []CompatibleIsExecutable
<1>1. ASSUME NEW s \in BuiltInTypes, NEW t \in BuiltInTypes, NEW out, NEW in,
             NEW d \in {CurrentMetadata(s), OldMetadata(s)}, <<out, t, in>> \in d.rules
      PROVE  ValidatorAccepts(s, t)
  <2>1. s \in {"postgresql-query", "data-filter", "field-mapper", "mongodb-operations"}
        /\ t \in {"postgresql-query", "data-filter", "field-mapper", "mongodb-operations"}
    BY BuiltInIs DEF BuiltIn
  <2>2. <<out, t, in>> \in NodeMetadata(s).rules
    BY <1>1, <2>1 DEF CurrentMetadata, OldMetadata, Metadata, PostgreSQLQueryNode
  <2>3. CASE s = "postgresql-query"
    BY <2>1, <2>2, <2>3 DEF NodeMetadata, PostgreSQLQueryNode, Metadata, ValidatorAccepts, Databases,
                            Transformations
  <2>4. CASE s = "data-filter"
    BY <2>1, <2>2, <2>4 DEF NodeMetadata, DataFilterNode, Metadata, ValidatorAccepts, Databases,
                            Transformations
  <2>5. CASE s = "field-mapper"
    BY <2>1, <2>2, <2>5 DEF NodeMetadata, FieldMapperNode, Metadata, ValidatorAccepts, Databases,
                            Transformations
  <2>6. CASE s = "mongodb-operations"
    BY <2>1, <2>2, <2>6 DEF NodeMetadata, MongoDBOperationsNode, Metadata, ValidatorAccepts, Databases,
                            Transformations
  <2> QED BY <2>1, <2>3, <2>4, <2>5, <2>6
<1>2. CatalogInv => CompatibleIsExecutable
  <2> DEFINE S == {k \in DOMAIN rows : rows[k] # "custom" /\ Latest(k[1]) = k}
  <2> SUFFICES ASSUME CatalogInv, NEW s \in S, NEW t \in S, NEW out, NEW in,
                      CheckCompatibility(s, t, out, in)
               PROVE  OrchestratorAccepts(s[1], t[1], out, in)
    BY DEF CompatibleIsExecutable
  <2>1. s \in BuiltInRows /\ t \in BuiltInRows
    <3>1. ASSUME NEW k \in S, k \notin BuiltInRows
          PROVE  Definition(k).rules = {} /\ Definition(k).inputs = {}
      <4>1. rows[k] = "old" /\ k \in OldRows /\ k # ResyncedRow
        BY <3>1, BuiltInIs DEF CatalogInv, RowsInv, BuiltInRows, ResyncedRow
      <4>2. k[1] # "postgresql-query"
        BY <4>1 DEF OldRows, ResyncedRow, Resynced
      <4> QED BY <4>1, <4>2 DEF Definition, OldMetadata, Metadata
    <3> QED BY <3>1 DEF CheckCompatibility
  <2>2. s[1] \in BuiltInTypes /\ t[1] \in BuiltInTypes
    BY <2>1 DEF BuiltInRows
  <2>3. /\ <<out, t[1], in>> \in Definition(s).rules
        /\ out \in Definition(s).outputs /\ in \in Definition(t).inputs
    BY DEF CheckCompatibility
  <2>4. Definition(s) \in {CurrentMetadata(s[1]), OldMetadata(s[1])}
    BY DEF Definition
  <2>5. ValidatorAccepts(s[1], t[1])
    BY <1>1, <2>2, <2>3, <2>4
  <2>6. s \in RowsOf(s[1]) /\ t \in RowsOf(t[1]) /\ Latest(s[1]) = s /\ Latest(t[1]) = t
    BY DEF RowsOf
  <2> HIDE DEF S
  <2> QED BY <2>3, <2>5, <2>6 DEF OrchestratorAccepts
<1> QED BY <1>2, CatalogAlways, PTL
=============================================================================
