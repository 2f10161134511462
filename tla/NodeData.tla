------------------------------ MODULE NodeData ------------------------------
(***************************************************************************)
(* What the nodes of node-core do to data: the data filter and the field   *)
(* mapper, next to the filter and map transformations of DataFlowManager,  *)
(* which are a second implementation of them, and the checks and counts of *)
(* the MongoDB node.  A task is one call on one input; DataNext answers it.*)
(* How a database node connects, fails and is given up is in NodeRunner.   *)
(*                                                                         *)
(* A field is named by a text, which may have dots in it.  The nodes look  *)
(* for a field of that name; the transformations follow the path it says,  *)
(* through the objects that the item holds.                                *)
(***************************************************************************)
EXTENDS Naturals, FiniteSets, Sequences, SequencesExt

CONSTANTS
  Fields,         \* the names of fields
  PathOf,         \* of each the keys that it says, split at its dots
  Absent,         \* undefined
  Object,         \* a value that has fields of its own
  MaxItems,       \* bound: items of a list
  MaxConditions,  \* bound: conditions of a filter, entries of a mapping
  MaxMatched      \* bound: documents that a database operation matches

ASSUME DataAssumption == MaxItems \in Nat

VARIABLES task, answer

dataVars == <<task, answer>>

\* Numbers, of which 12 contains 1 as text
Values == {1, 12}

\* Where an item may hold a value: a key of its own, also one with a dot in it, or a key
\* of an object that it holds.
Places == {<<f>> : f \in Fields} \union UNION {{SubSeq(PathOf[f], 1, n) : n \in 1..Len(PathOf[f])} : f \in Fields}
Items == {item \in [Places -> Values \union {Absent, Object}] :
            \A p \in Places : Len(p) > 1 /\ item[p] # Absent => item[SubSeq(p, 1, Len(p) - 1)] = Object}
Unanswered == [kind |-> "none"]

-----------------------------------------------------------------------------
(* Filters. *)

\* The operators that both know: undefined and objects are neither greater nor less than
\* a number, and their texts contain none.
Shared == {"equals", "not_equals", "greater_than", "less_than", "contains"}
Condition == [field : Fields, operator : Shared \union {"exists", "other"}, value : Values]

\* data.filter(item => ...): the items of data that keeps has, in their order.
Kept(data, keeps) ==
  LET upTo[k \in 0..Len(data)] == IF k = 0 THEN <<>>
                                  ELSE IF data[k] \in keeps THEN Append(upTo[k - 1], data[k])
                                  ELSE upTo[k - 1]
  IN upTo[Len(data)]

\* The data filter drops every item on an operator that it does not know.
NodeKeeps(item, c) ==
  LET x == item[<<c.field>>]
  IN \/ c.operator = "equals" /\ x = c.value
     \/ c.operator = "not_equals" /\ x # c.value
     \/ x \in Values /\ (\/ c.operator = "greater_than" /\ x > c.value
                         \/ c.operator = "less_than" /\ x < c.value
                         \/ c.operator = "contains" /\ x \in {c.value, 12})
DataFilter_anyCondition(data, conditions) ==
  Kept(data, {item \in Range(data) : \E c \in Range(conditions) : NodeKeeps(item, c)})
DataFilter(data, conditions) ==
  Kept(data, {item \in Range(data) : \A c \in Range(conditions) : NodeKeeps(item, c)})

\* getNestedValue: of a field that a value on the way does not have, undefined.
GetNestedValue(item, f) == item[PathOf[f]]

\* The filter transformation knows exists as well, and ignores an unknown operator.
TransformationKeeps(item, c) ==
  LET x == GetNestedValue(item, c.field)
  IN CASE c.operator = "equals" -> x = c.value
       [] c.operator = "not_equals" -> x # c.value
       [] c.operator = "greater_than" -> x \in Values /\ x > c.value
       [] c.operator = "less_than" -> x \in Values /\ x < c.value
       [] c.operator = "contains" -> x \in Values /\ x \in {c.value, 12}
       [] c.operator = "exists" -> x # Absent
       [] OTHER -> TRUE
FilterTransformation(data, conditions) ==
  Kept(data, {item \in Range(data) : \A c \in Range(conditions) : TransformationKeeps(item, c)})

-----------------------------------------------------------------------------
(* Mappings. *)

\* An entry of a mapping: rename copies; constant writes its constant (1); computed
\* applies a function to the value (it answers 12), and one that has no function or
\* whose function throws copies; an unknown transformation writes nothing.
Entry == [from : Fields, to : Fields,
          transformation : {"rename", "constant", "computed", "throws", "other"}]
Written(item, e) == CASE e.transformation = "constant" -> 1
                      [] e.transformation = "computed" -> 12
                      [] OTHER -> item[<<e.from>>]

\* Later entries overwrite earlier ones; a field that no entry writes is absent.
FieldMapper(item, mapping) ==
  [f \in Fields |->
     LET writes == {i \in DOMAIN mapping : mapping[i].to = f /\ mapping[i].transformation # "other"}
     IN IF writes = {} THEN Absent
        ELSE Written(item, mapping[CHOOSE i \in writes : \A j \in writes : j <= i])]

\* fieldMappings: for each target field the path of its source.
MapTransformation(item, fieldMappings) ==
  [f \in Fields |-> IF f \in DOMAIN fieldMappings THEN GetNestedValue(item, fieldMappings[f]) ELSE Absent]

\* The operations of the reduce transformation, which takes a list as the others do.
ReduceOperations == {"sum", "count", "avg", "max", "min", "group_by"}
Applies(transformation, type) ==
  /\ type = "array"
  /\ transformation.type = "reduce" => transformation.operation \in ReduceOperations

\* What is suggested for an output and an input that are not compatible: by their types,
\* and by the names of their properties.
Suggestion(type, operation) == [type |-> type, operation |-> operation]
SuggestedTransformations(output, input, alike) ==
  (IF output = "array" /\ input = "object" THEN {Suggestion("reduce", "first")} ELSE {})
  \union (IF output = "object" /\ input = "array" THEN {Suggestion("map", "nothing")} ELSE {})
  \union (IF alike THEN {Suggestion("map", "fields")} ELSE {})

-----------------------------------------------------------------------------
(* The MongoDB node. *)

Finds == {"find", "aggregate", "findOne"}
Updates == {"updateOne", "updateMany"}
Deletes == {"deleteOne", "deleteMany"}
Operations == Finds \union Updates \union Deletes \union {"insertOne", "insertMany"}

\* Its input, as far as its checks look: addressed is whether connection string,
\* database and collection are given; document, update and pipeline may be absent,
\* and the document or the pipeline a list, which may be empty.
MongoInput == [operation : Operations \union {"other"}, addressed : BOOLEAN,
               document : {"absent", "single", "list", "empty"},
               update : {"absent", "given"},
               pipeline : {"absent", "single", "list", "empty"},
               upsert : BOOLEAN]

\* validate.
MongoValidate_forgetsUpdate(in) ==
  /\ in.addressed /\ in.operation \in Operations
  /\ in.operation = "insertOne" => in.document = "single"
  /\ in.operation = "insertMany" => in.document = "list"
  /\ in.operation = "aggregate" => in.pipeline = "list"
MongoValidate(in) ==
  /\ in.addressed /\ in.operation \in Operations
  /\ in.operation = "insertOne" => in.document = "single"
  /\ in.operation = "insertMany" => in.document = "list"
  /\ in.operation \in Updates => in.update = "given"
  /\ in.operation = "aggregate" => in.pipeline = "list"

\* executeOperation throws before it calls the driver.
MongoRefuses(in) ==
  \/ in.operation \notin Operations
  \/ in.operation = "insertOne" /\ in.document # "single"
  \/ in.operation = "insertMany" /\ in.document \notin {"list", "empty"}
  \/ in.operation \in Updates /\ in.update = "absent"
  \/ in.operation = "aggregate" /\ in.pipeline = "absent"

\* The driver refuses no documents to insert, and a pipeline that is not a list.
DriverRefuses(in) ==
  \/ in.operation = "insertMany" /\ in.document = "empty"
  \/ in.operation = "aggregate" /\ in.pipeline = "single"

\* What the collection answers: how many documents matched, were changed, and were
\* newly inserted (by an insert, or by an update with upsert that matches none).
Effects(in) ==
  LET AtMost == IF in.operation \in {"findOne", "updateOne", "deleteOne"} THEN 1 ELSE MaxMatched
  IN CASE in.operation \in Finds -> [matched : 0..AtMost, changed : {0}, inserted : {0}]
       [] in.operation \in Deletes -> {[matched |-> m, changed |-> m, inserted |-> 0] : m \in 0..AtMost}
       [] in.operation \in Updates ->
            {e \in [matched : 0..AtMost, changed : 0..AtMost, inserted : {0, 1}] :
               e.changed <= e.matched /\ (e.inserted = 1 <=> in.upsert /\ e.matched = 0)}
       [] in.operation = "insertOne" -> {[matched |-> 0, changed |-> 0, inserted |-> 1]}
       [] OTHER -> [matched : {0}, changed : {0}, inserted : 1..MaxMatched]

\* getRecordsProcessed: an update counts what it modified, and so not an upsert.
RecordsProcessed(in, e) ==
  CASE in.operation \in Finds -> e.matched
    [] in.operation \in Updates \union Deletes -> e.changed
    [] OTHER -> e.inserted

-----------------------------------------------------------------------------
Lists(S) == UNION {[1..k -> S] : k \in 0..MaxConditions}
FilterTask == [kind : {"filter"}, data : [1..MaxItems -> Items], conditions : Lists(Condition)]
MapTask == [kind : {"map"}, item : Items, mapping : Lists(Entry)]
Schemas == {"array", "object", "string"}
MongoTask == [kind : {"mongo"}, in : MongoInput]
SuggestTask == [kind : {"suggest"}, output : Schemas, input : Schemas, alike : BOOLEAN]

DataInit == /\ answer = Unanswered
            /\ task \in FilterTask \union MapTask \union MongoTask \union SuggestTask

Filter ==
  /\ task.kind = "filter" /\ answer = Unanswered
  /\ answer' = [kind |-> "filtered", node |-> DataFilter(task.data, task.conditions),
                transformation |-> FilterTransformation(task.data, task.conditions)]
  /\ UNCHANGED task

Map ==
  /\ task.kind = "map" /\ answer = Unanswered
  /\ answer' = [kind |-> "mapped", item |-> FieldMapper(task.item, task.mapping)]
  /\ UNCHANGED task

Operate ==
  /\ task.kind = "mongo" /\ answer = Unanswered
  /\ \/ /\ MongoRefuses(task.in) \/ DriverRefuses(task.in)
        /\ answer' = [kind |-> "thrown"]
     \/ /\ ~MongoRefuses(task.in) /\ ~DriverRefuses(task.in)
        /\ \E e \in Effects(task.in) :
             answer' = [kind |-> "operated", effect |-> e, records |-> RecordsProcessed(task.in, e)]
  /\ UNCHANGED task

\* Each suggestion is applied to data of the output's type.
Suggest ==
  /\ task.kind = "suggest" /\ answer = Unanswered
  /\ \E t \in SuggestedTransformations(task.output, task.input, task.alike) :
       answer' = [kind |-> "suggested", transformation |-> t, applied |-> Applies(t, task.output)]
  /\ UNCHANGED task

DataNext == Filter \/ Map \/ Operate \/ Suggest

-----------------------------------------------------------------------------
\* The node and the transformation find the same value: a name with a dot in it is a
\* field of the item for one and a path for the other.
SameReading(item, f) == item[<<f>>] = GetNestedValue(item, f)

\* The two implementations agree as far as they read the same values.  The data filter and
\* the filter transformation keep the same items in the same order as long as the
\* conditions use the operators both know (on another one the node keeps nothing).  A
\* mapping of renames only does what the map transformation does with the same pairs, the
\* last pair of a target counting, just when the pairs that count read the same: no entry
\* sees what an earlier one wrote, so two may swap two fields.  And of the transformations
\* that are suggested only the mapping of fields with one name can be applied, and only
\* to a list: the two that are meant to bridge the types both throw.
TransformationsAgree ==
  /\ answer.kind = "filtered" =>
       IF \A c \in Range(task.conditions) : c.operator \in Shared
       THEN (\A c \in Range(task.conditions), item \in Range(task.data) : SameReading(item, c.field))
              => answer.node = answer.transformation
       ELSE answer.node = <<>>
  /\ (answer.kind = "mapped" /\ \A e \in Range(task.mapping) : e.transformation = "rename") =>
       LET m == task.mapping
           fieldMappings == [t \in {e.to : e \in Range(m)} |->
             m[CHOOSE i \in DOMAIN m : m[i].to = t /\ \A j \in DOMAIN m : m[j].to = t => j <= i].from]
       IN answer.item = MapTransformation(task.item, fieldMappings)
            <=> \A t \in DOMAIN fieldMappings : SameReading(task.item, fieldMappings[t])
  /\ answer.kind = "suggested" =>
       (answer.applied <=> answer.transformation.operation = "fields" /\ task.output = "array")

\* An input that the MongoDB node's validate accepts is never refused for its
\* arguments when it is executed, and the records counted are the documents the
\* operation read, removed, inserted or modified, but for one inserted by an upsert.
ValidatedOperationsRun ==
  (task.kind = "mongo" /\ MongoValidate(task.in)) =>
    /\ answer.kind # "thrown"
    /\ answer.kind = "operated" =>
         LET e == answer.effect
         IN answer.records + (IF task.in.operation \in Updates THEN e.inserted ELSE 0) =
              (IF task.in.operation \in Finds THEN e.matched ELSE e.changed + e.inserted)
=============================================================================
