------------------------------- MODULE Flows -------------------------------
(***************************************************************************)
(* FlowsService on the table of flows: create, update, delete and rollback *)
(* of flows, called by several clients at once.  Each call is a chain of   *)
(* awaited queries, and other calls run between them; nothing is locked    *)
(* and no row has a version check, and the name has an index that is not   *)
(* unique.                                                                 *)
(***************************************************************************)
EXTENDS Naturals, FiniteSets

CONSTANTS
  Callers,     \* concurrent requests
  FlowIds,     \* bound: ids the table ever gives out
  Bodies,      \* what is created: [name, nodes, links], links being pairs of nodes
  Updates,     \* what is updated: the same, a field of which may be Same
  MaxVersion,  \* bound: a flow is rolled back up to this version
  Same         \* a field that an update leaves alone

ASSUME FlowsAssumption == MaxVersion \in Nat

VARIABLES
  flows,    \* the table: id -> row, for those it has
  used,     \* the ids given out so far
  calls,    \* what each caller is doing
  overlaps  \* which kinds of calls have run at the same time

flowVars == <<flows, used, calls, overlaps>>

Idle == [op |-> "idle"]

-----------------------------------------------------------------------------
\* validateFlow: nodes, and connections between them; an orphaned node is a warning.
Validate(nodes, links) == nodes # {} /\ links \subseteq nodes \X nodes

Named(name) == {f \in DOMAIN flows : flows[f].name = name}  \* findByName

\* Two calls are of a kind that may disturb each other: both give a flow a name; both
\* edit what is validated; or one is a rollback and the other writes anything.
Kinds(call) ==
  (IF call.op = "create" THEN {"naming", "writing"} ELSE {}) \union
  (IF call.op = "update" THEN {"naming", "editing", "writing"} ELSE {}) \union
  (IF call.op = "rollback" THEN {"rollback", "writing"} ELSE {}) \union
  (IF call.op = "delete" THEN {"writing"} ELSE {})
Overlapping(call, others) ==
  (Kinds(call) \intersect {"naming", "editing"} \intersect UNION {Kinds(o) : o \in others}) \union
  (IF \/ call.op = "rollback" /\ \E o \in others : "writing" \in Kinds(o)
      \/ "writing" \in Kinds(call) /\ \E o \in others : o.op = "rollback"
   THEN {"rollback"} ELSE {})

\* A request arrives, and waits for its first query.
Begin(c, call) ==
  /\ calls[c] = Idle
  /\ calls' = [calls EXCEPT ![c] = call]
  /\ overlaps' = overlaps \union Overlapping(call, {calls[o] : o \in Callers \ {c}})
  /\ UNCHANGED <<flows, used>>

Goto(c, at) == calls' = [calls EXCEPT ![c].at = at] /\ UNCHANGED <<flows, used, overlaps>>
Answer(c) == calls' = [calls EXCEPT ![c] = Idle] /\ UNCHANGED overlaps
Refuse(c) == Answer(c) /\ UNCHANGED <<flows, used>>
At(c, op, at) == calls[c].op = op /\ calls[c].at = at

-----------------------------------------------------------------------------
(* createFlow. *)

NewCreate(c) == \E b \in Bodies : Begin(c, [op |-> "create", at |-> "check", body |-> b])

\* The name is looked up, and the flow is validated.
CreateCheck(c) ==
  /\ At(c, "create", "check")
  /\ LET b == calls[c].body
     IN IF Named(b.name) = {} /\ Validate(b.nodes, b.links) THEN Goto(c, "insert") ELSE Refuse(c)

CreateInsert(c) ==
  /\ At(c, "create", "insert")
  /\ \E f \in FlowIds \ used :
       /\ used' = used \union {f}
       /\ flows' = [x \in DOMAIN flows \union {f} |->
            IF x \in DOMAIN flows THEN flows[x]
            ELSE LET b == calls[c].body
                 IN [name |-> b.name, nodes |-> b.nodes, links |-> b.links, version |-> 1]]
  /\ Answer(c)

-----------------------------------------------------------------------------
(* updateFlow. *)

NewUpdate(c) == \E f \in FlowIds, u \in Updates :
  Begin(c, [op |-> "update", at |-> "find", flow |-> f, update |-> u])

Merge(old, new) == IF new = Same THEN old ELSE new

\* The update is validated together with the flow that was read, if it has nodes or
\* connections at all, and then waits for its write.
ValidateUpdate_alone(u, row) ==
  (u.nodes # Same /\ u.links # Same) => Validate(u.nodes, u.links)
ValidateUpdate(u, row) ==
  (u.nodes # Same \/ u.links # Same) => Validate(Merge(row.nodes, u.nodes), Merge(row.links, u.links))

\* A new name is looked up first, while the flow that was read may change.
UpdateFind(c) ==
  /\ At(c, "update", "find")
  /\ LET f == calls[c].flow
         u == calls[c].update
     IN \/ f \notin DOMAIN flows /\ Refuse(c)
        \/ /\ f \in DOMAIN flows /\ u.name \notin {Same, flows[f].name}
           /\ calls' = [calls EXCEPT ![c] = [op |-> "update", at |-> "checkName", flow |-> f,
                                             update |-> u, read |-> flows[f]]]
           /\ UNCHANGED <<flows, used, overlaps>>
        \/ /\ f \in DOMAIN flows /\ u.name \in {Same, flows[f].name}
           /\ IF ValidateUpdate(u, flows[f]) THEN Goto(c, "write") ELSE Refuse(c)

UpdateCheckName(c) ==
  /\ At(c, "update", "checkName")
  /\ IF Named(calls[c].update.name) = {} /\ ValidateUpdate(calls[c].update, calls[c].read)
     THEN Goto(c, "write") ELSE Refuse(c)

\* Only the fields of the update are written, to the row if it is still there.
UpdateWrite(c) ==
  /\ At(c, "update", "write")
  /\ LET u == calls[c].update
     IN flows' = [x \in DOMAIN flows |-> IF x # calls[c].flow THEN flows[x]
          ELSE [name |-> Merge(flows[x].name, u.name), nodes |-> Merge(flows[x].nodes, u.nodes),
                links |-> Merge(flows[x].links, u.links), version |-> flows[x].version]]
  /\ Answer(c) /\ UNCHANGED used

-----------------------------------------------------------------------------
(* deleteFlow and rollbackToVersion. *)

NewDelete(c) == \E f \in FlowIds : Begin(c, [op |-> "delete", at |-> "find", flow |-> f])

\* A flow with an enabled schedule is not deleted.
DeleteFind(c) ==
  /\ At(c, "delete", "find")
  /\ \E activeSchedules \in BOOLEAN :
       IF calls[c].flow \notin DOMAIN flows \/ activeSchedules THEN Refuse(c) ELSE Goto(c, "delete")

DeleteRow(c) ==
  /\ At(c, "delete", "delete")
  /\ flows' = [x \in DOMAIN flows \ {calls[c].flow} |-> flows[x]]
  /\ Answer(c) /\ UNCHANGED used

NewRollback(c) == \E f \in FlowIds, version \in 0..MaxVersion :
  Begin(c, [op |-> "rollback", at |-> "find", flow |-> f, version |-> version])

\* Older versions are not stored: a rollback only checks that its version, any
\* integer, is lower.  Nothing else raises the version, which starts at 1.
RollbackFind(c) ==
  /\ At(c, "rollback", "find")
  /\ IF \/ calls[c].flow \notin DOMAIN flows
        \/ calls[c].version >= flows[calls[c].flow].version
     THEN Refuse(c) ELSE Goto(c, "read")

\* incrementVersion reads the flow once more ...
RollbackRead(c) ==
  /\ At(c, "rollback", "read")
  /\ LET f == calls[c].flow
     IN IF f \notin DOMAIN flows \/ flows[f].version >= MaxVersion THEN Refuse(c)
        ELSE /\ calls' = [calls EXCEPT ![c] =
                   [op |-> "rollback", at |-> "save", flow |-> f, read |-> flows[f]]]
             /\ UNCHANGED <<flows, used, overlaps>>

\* ... and saves all of it: over what was written since, and as a new row if the flow
\* was deleted since.
RollbackSave_withoutLinks(c) ==
  /\ At(c, "rollback", "save")
  /\ flows' = [x \in DOMAIN flows \union {calls[c].flow} |->
       IF x # calls[c].flow THEN flows[x] ELSE [calls[c].read EXCEPT !.links = {}, !.version = @ + 1]]
  /\ Answer(c) /\ UNCHANGED used
RollbackSave(c) ==
  /\ At(c, "rollback", "save")
  /\ flows' = [x \in DOMAIN flows \union {calls[c].flow} |->
       IF x # calls[c].flow THEN flows[x] ELSE [calls[c].read EXCEPT !.version = @ + 1]]
  /\ Answer(c) /\ UNCHANGED used

-----------------------------------------------------------------------------
FlowsInit ==
  /\ flows = <<>> /\ used = {} /\ overlaps = {}
  /\ calls = [c \in Callers |-> Idle]

FlowsNext == \E c \in Callers :
  \/ NewCreate(c) \/ CreateCheck(c) \/ CreateInsert(c)
  \/ NewUpdate(c) \/ UpdateFind(c) \/ UpdateCheckName(c) \/ UpdateWrite(c)
  \/ NewDelete(c) \/ DeleteFind(c) \/ DeleteRow(c)
  \/ NewRollback(c) \/ RollbackFind(c) \/ RollbackRead(c) \/ RollbackSave(c)

-----------------------------------------------------------------------------
\* The checks of FlowsService hold of the table, and not only of the request: no two
\* flows have one name, and every flow has nodes and connects only those.  Only calls
\* that ran at the same time break this: two that give names the first, two updates
\* the second (each is validated with what the other has not yet written), and a
\* rollback, which saves an old row, both.
TableIsConsistent ==
  /\ overlaps \intersect {"naming", "rollback"} = {} =>
       \A f, g \in DOMAIN flows : flows[f].name = flows[g].name => f = g
  /\ overlaps \intersect {"editing", "rollback"} = {} =>
       \A f \in DOMAIN flows : Validate(flows[f].nodes, flows[f].links)

\* A version never goes back, a new version has the content of the old one, and a
\* flow that is gone does not return, unless a rollback ran while something else was
\* written.
VersionsOnlyCount ==
  [][\/ "rollback" \in overlaps
     \/ /\ \A f \in DOMAIN flows \intersect DOMAIN flows' :
             \/ flows'[f].version = flows[f].version
             \/ flows'[f] = [flows[f] EXCEPT !.version = @ + 1]
        /\ (DOMAIN flows' \ DOMAIN flows) \intersect used = {}]_flowVars
=============================================================================
