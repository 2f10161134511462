----------------------------- MODULE NodeTypes -----------------------------
(***************************************************************************)
(* The node types of node-core: the pins of each, the connections their    *)
(* compatibility rules name, and the table of CompatibilityValidator.      *)
(***************************************************************************)

\* getMetadata: input pins, those of them that are required, output pins, and rules
\* <<output pin, target type, target's input pin>>.
Metadata(required, optional, outputs, rules) ==
  [inputs |-> required \union optional, required |-> required, outputs |-> outputs, rules |-> rules]

PostgreSQLQueryNode == Metadata(
  {"connectionString", "query"}, {"parameters"},
  {"result", "rowCount"},
  {<<"result", "data-filter", "data">>, <<"result", "field-mapper", "source">>})

MongoDBOperationsNode == Metadata(
  {"connectionString", "database", "collection", "operation"},
  {"query", "document", "update", "pipeline"},
  {"result", "matchedCount", "modifiedCount", "insertedCount", "deletedCount"},
  {<<"result", "data-filter", "data">>, <<"result", "field-mapper", "source">>})

DataFilterNode == Metadata(
  {"data", "conditions"}, {},
  {"filtered", "filtered_count"},
  {<<"filtered", "field-mapper", "source">>, <<"filtered", "mongodb-operations", "data">>})

FieldMapperNode == Metadata(
  {"source", "mapping"}, {},
  {"mapped"},
  {<<"mapped", "data-filter", "data">>, <<"mapped", "mongodb-operations", "data">>})

\* The registry: what initializeNodeRegistry registers, in its order, and the metadata
\* of a type.
BuiltIn == <<"postgresql-query", "data-filter", "field-mapper", "mongodb-operations">>
NodeMetadata(type) ==
  CASE type = "postgresql-query" -> PostgreSQLQueryNode
    [] type = "data-filter" -> DataFilterNode
    [] type = "field-mapper" -> FieldMapperNode
    [] type = "mongodb-operations" -> MongoDBOperationsNode

\* CompatibilityValidator.check: the pairs of types with a level other than none.
Transformations == {"data-filter", "field-mapper"}
Databases == {"postgresql-query", "mongodb-operations"}
ValidatorAccepts(source, target) ==
  \/ source \in Databases /\ target \in Transformations
  \/ source \in Transformations /\ target \in (Transformations \ {source}) \union Databases
  \/ source = "mongodb-operations" /\ target \in Databases
  \/ source = "postgresql-query" /\ target = "mongodb-operations"
=============================================================================
