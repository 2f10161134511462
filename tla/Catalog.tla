------------------------------ MODULE Catalog ------------------------------
(***************************************************************************)
(* CatalogService: the table of node definitions, its synchronisation with *)
(* node-core's registry at every start of the engine, the registration of  *)
(* further versions by users, and the look-ups.  A start is a chain of     *)
(* awaited queries, each of which may fail, and the engine may stop        *)
(* anywhere.  The HTTP server listens only after the start.                *)
(*                                                                         *)
(* A definition is its metadata: "current" as node-core has it now, "old"  *)
(* as it was stored while nodes had no getMetadata and the service's own   *)
(* defaults were used, "custom" as a user registered it.                   *)
(***************************************************************************)
EXTENDS Naturals, FiniteSets, Sequences, NodeTypes

CONSTANTS
  Definitions,  \* what users register: pairs <<type, version>>
  ByText,       \* the versions, as strings, in the order the database sorts them
  Requests,     \* concurrent registrations
  MaxBoots,     \* bound: starts of the engine
  MaxFailures   \* bound: queries that fail

VARIABLES
  rows,        \* the table: <<type, version>> -> metadata; the pair is unique
  boot,        \* where the start is: "down", "sync", "resync", "delete", "create", "up"
  todo,        \* types still to synchronise, or the row that resync found
  boots,       \* starts so far
  failed,      \* a query failed during this start
  failures,    \* queries that failed so far
  requests,    \* the registrations in progress
  registered   \* the definitions whose registration was answered with 201

catalogVars == <<rows, boot, todo, boots, failed, failures, requests, registered>>

Resynced == "postgresql-query"
FirstVersion == "1.0.0"  \* the version of all metadata in node-core
NoRequest == <<>>

\* The database sorts every version that is ever stored.
ASSUME CatalogAssumption ==
  /\ MaxBoots \in Nat /\ MaxFailures \in Nat /\ ByText \in Seq(STRING)
  /\ \A v \in {FirstVersion} \union {k[2] : k \in Definitions} : \E i \in DOMAIN ByText : ByText[i] = v

-----------------------------------------------------------------------------
(* Definitions. *)

\* extractNodeMetadata, from getMetadata and without it.
CurrentMetadata(type) == NodeMetadata(type)
OldMetadata(type) ==
  IF type = "postgresql-query" THEN [PostgreSQLQueryNode EXCEPT !.rules = {}]
  ELSE Metadata({}, {}, {}, {})

-----------------------------------------------------------------------------
(* The queries. *)

Position(v) == CHOOSE i \in DOMAIN ByText : ByText[i] = v
RowsOf(type) == {k \in DOMAIN rows : k[1] = type}

\* findByType and getNodeDefinitionByType: the last version in text order.
Latest(type) == CHOOSE k \in RowsOf(type) : \A o \in RowsOf(type) : Position(o[2]) <= Position(k[2])

\* The definition of a row (what users register is not looked into).
Definition(k) == IF rows[k] = "current" THEN CurrentMetadata(k[1]) ELSE OldMetadata(k[1])

\* checkCompatibility of two rows: a rule for the two pins, and both pins exist.
CheckCompatibility_byRule(s, t, out, in) == <<out, t[1], in>> \in Definition(s).rules
CheckCompatibility(s, t, out, in) ==
  /\ <<out, t[1], in>> \in Definition(s).rules
  /\ out \in Definition(s).outputs /\ in \in Definition(t).inputs

\* validateDataCompatibility, which the orchestrator asks about each connection.
OrchestratorAccepts(source, target, out, in) ==
  /\ RowsOf(source) # {} /\ RowsOf(target) # {}
  /\ out \in Definition(Latest(source)).outputs /\ in \in Definition(Latest(target)).inputs
  /\ ValidatorAccepts(source, target)

Insert(k, metadata) ==
  rows' = [x \in DOMAIN rows \union {k} |-> IF x = k THEN metadata ELSE rows[x]]
Delete(K) == rows' = [x \in DOMAIN rows \ K |-> rows[x]]

\* A query fails; what called it goes on at next.
Fails(next) ==
  /\ failures < MaxFailures
  /\ failures' = failures + 1 /\ failed' = TRUE /\ boot' = next
  /\ UNCHANGED <<rows, boots, requests, registered>>
Works(next) == boot' = next /\ UNCHANGED <<boots, failed, failures, requests, registered>>

-----------------------------------------------------------------------------
(* onModuleInit. *)

Start ==
  /\ boot = "down" /\ boots < MaxBoots
  /\ boot' = "sync" /\ todo' = BuiltIn /\ boots' = boots + 1 /\ failed' = FALSE
  /\ UNCHANGED <<rows, failures, requests, registered>>

\* syncNodesFromRegistry: a type that is stored with its version is left as it is; one
\* whose query fails is skipped.
AfterSync == IF Len(todo) = 1 THEN "resync" ELSE "sync"
SyncNode ==
  /\ boot = "sync"
  /\ todo' = Tail(todo)
  /\ LET k == <<Head(todo), FirstVersion>>
     IN \/ Fails(AfterSync)
        \/ k \in DOMAIN rows /\ Works(AfterSync) /\ UNCHANGED rows
        \/ k \notin DOMAIN rows /\ Works(AfterSync) /\ Insert(k, "current")

\* forceResyncNodes takes the last version of postgresql-query, deletes it and creates
\* the current one; a failing query ends it.
ResyncFind ==
  /\ boot = "resync"
  /\ \/ Fails("up") /\ todo' = <<>>
     \/ RowsOf(Resynced) # {} /\ todo' = Latest(Resynced) /\ Works("delete") /\ UNCHANGED rows
     \/ RowsOf(Resynced) = {} /\ todo' = <<>> /\ Works("create") /\ UNCHANGED rows

ResyncDelete_everyVersion ==
  /\ boot = "delete" /\ todo' = <<>>
  /\ Fails("up") \/ (Works("create") /\ Delete(RowsOf(Resynced)))
ResyncDelete ==
  /\ boot = "delete" /\ todo' = <<>>
  /\ Fails("up") \/ (Works("create") /\ Delete({todo}))

\* If the row that was deleted is of another version, the current one is still there
\* and the insert violates the unique constraint.
ResyncCreate_onlyUpdates ==
  /\ boot = "create" /\ Works("up") /\ UNCHANGED <<rows, todo>>
ResyncCreate ==
  /\ boot = "create" /\ UNCHANGED todo
  /\ LET k == <<Resynced, FirstVersion>>
     IN \/ Fails("up")
        \/ k \in DOMAIN rows /\ Works("up") /\ UNCHANGED rows
        \/ k \notin DOMAIN rows /\ Works("up") /\ Insert(k, "current")

Stop ==
  /\ boot # "down"
  /\ boot' = "down" /\ todo' = <<>> /\ requests' = [r \in Requests |-> NoRequest]
  /\ UNCHANGED <<rows, boots, failed, failures, registered>>

-----------------------------------------------------------------------------
(* registerNode. *)

\* The definition is looked up and validated; a request that is refused is over.
RegisterCheck(r) ==
  /\ boot = "up" /\ requests[r] = NoRequest
  /\ \E k \in Definitions : k \notin DOMAIN rows /\ requests' = [requests EXCEPT ![r] = k]
  /\ UNCHANGED <<rows, boot, todo, boots, failed, failures, registered>>

\* The insert: of two requests that passed the check, one violates the constraint.
RegisterInsert(r) ==
  /\ requests[r] # NoRequest
  /\ requests' = [requests EXCEPT ![r] = NoRequest]
  /\ \/ /\ requests[r] \notin DOMAIN rows
        /\ Insert(requests[r], "custom") /\ registered' = registered \union {requests[r]}
     \/ requests[r] \in DOMAIN rows /\ UNCHANGED <<rows, registered>>
  /\ UNCHANGED <<boot, todo, boots, failed, failures>>

\* What the service called the types of nodes without getMetadata: but for the one that
\* it knows, by the names of their classes
OldTypes == {"postgresql-query", "datafilter", "fieldmapper", "mongodboperations"}

\* The table is new, or an earlier release has filled it.
CatalogInit ==
  /\ rows \in {<<>>, [k \in OldTypes \X {FirstVersion} |-> "old"]}
  /\ boot = "down" /\ todo = <<>> /\ boots = 0 /\ failed = FALSE /\ failures = 0
  /\ requests = [r \in Requests |-> NoRequest] /\ registered = {}

CatalogNext ==
  \/ Start \/ SyncNode \/ ResyncFind \/ ResyncDelete \/ ResyncCreate \/ Stop
  \/ \E r \in Requests : RegisterCheck(r) \/ RegisterInsert(r)

-----------------------------------------------------------------------------
\* After a start in which no query failed, every node type of node-core is in the
\* catalog, whatever earlier starts left undone and wherever they stopped, and
\* postgresql-query has current metadata unless a user's version of it is there.
BuiltInsAreListed ==
  (boot = "up" /\ ~failed) =>
    /\ \A i \in DOMAIN BuiltIn : <<BuiltIn[i], FirstVersion>> \in DOMAIN rows
    /\ \/ rows[<<Resynced, FirstVersion>>] = "current"
       \/ \E k \in registered : k[1] = Resynced

\* What a user registered is only lost to the resync of postgresql-query, which at
\* each start takes the last of its versions, the user's own before node-core's.
RegisteredNodesSurvive ==
  LET lost == registered \ DOMAIN rows
  IN (\A k \in lost : k[1] = Resynced) /\ (Cardinality(lost) < boots \/ lost = {})

\* Two descriptions of compatibility: the rules of the node classes, which the catalog
\* stores and answers from, and the table of CompatibilityValidator, which decides
\* whether a flow is executed.  What the first allows, at any time of any start, the
\* second accepts, as long as no version that a user registered is the latest.
CompatibleIsExecutable ==
  \A s, t \in {k \in DOMAIN rows : rows[k] # "custom" /\ Latest(k[1]) = k} :
    \A out \in Definition(s).outputs, in \in UNION {{r[3]} : r \in Definition(s).rules} :
      CheckCompatibility(s, t, out, in) => OrchestratorAccepts(s[1], t[1], out, in)
=============================================================================
