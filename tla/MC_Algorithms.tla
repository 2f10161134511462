--------------------------- MODULE MC_Algorithms ---------------------------
(***************************************************************************)
(* Three parts of the engine that do not interact but through their        *)
(* results: the execution of a flow's graph, the nodes' work on data, and  *)
(* the execution contexts.  A behaviour is one of one of them; the others  *)
(* rest in the state given here.                                           *)
(***************************************************************************)
EXTENDS FlowGraph, NodeData, ExecutionContexts

MCNodes == 1..3
MCNodeList == <<1, 2, 3>>
MCTypeOf == <<"postgresql-query", "data-filter", "field-mapper">>
MCConfig == <<{"connectionString", "query"}, {"conditions"}, {"source", "mapping"}>>

\* A plain name, and a path through an object of that name
MCPathOf == [f \in {"x", "x.y"} |-> IF f = "x" THEN <<"x">> ELSE <<"x", "y">>]

Variable(n, k, v) == [name |-> n, kind |-> k, value |-> v]
MCFlows ==
  {[variables |-> <<Variable("a", "static", "1"), Variable("b", "secret", "2"), Variable("b", "other", "2")>>,
    secrets |-> [x \in {"b"} |-> "3"]],
   [variables |-> <<Variable("b", "dynamic", "1"), Variable("a", "static", "b")>>,
    secrets |-> [x \in {"b"} |-> "3"]]}

GraphRests == connections = <<>> /\ executor = "orchestrator" /\ phase = "refused" /\ SearchInit
              /\ order = <<>> /\ done = 0 /\ results = <<>> /\ given = <<>>
DataRests == task = Unanswered /\ answer = Unanswered

MCInit == \/ GraphInit /\ DataRests /\ ContextInit
          \/ GraphRests /\ DataInit /\ ContextInit
          \/ GraphRests /\ DataRests /\ ContextInit

MCNext == \/ GraphNext /\ UNCHANGED <<dataVars, contextVars>>
          \/ DataNext /\ UNCHANGED <<graphVars, contextVars>>
          \/ phase = "refused" /\ connections = <<>> /\ task = Unanswered
             /\ ContextNext /\ UNCHANGED <<graphVars, dataVars>>

MCSpec == MCInit /\ [][MCNext]_<<graphVars, dataVars, contextVars>>
=============================================================================
