---------------------------- MODULE MC_Services ----------------------------
(***************************************************************************)
(* FlowsService and CatalogService, which share no state: a behaviour is   *)
(* one of either, and the other rests in its first state.                  *)
(***************************************************************************)
EXTENDS Flows, Catalog, TLC

Link == {<<"n1", "n2">>}
Body(name, nodes, links) == [name |-> name, nodes |-> nodes, links |-> links]
MCBodies == {Body("x", {"n1", "n2"}, {}), Body("y", {"n1", "n2"}, Link), Body("y", {"n1"}, Link)}
MCUpdates == {Body("y", Same, Same), Body(Same, {"n1"}, Same), Body(Same, Same, Link),
              Body("x", {"n1", "n2"}, {})}
MCDefinitions == {<<"postgresql-query", "1.9.0">>, <<"postgresql-query", "1.10.0">>,
                  <<"data-filter", "1.0.0">>, <<"custom", "1.0.0">>}
MCByText == <<"1.0.0", "1.10.0", "1.9.0">>

MCInit == FlowsInit /\ CatalogInit

MCNext == \/ boots = 0 /\ rows = <<>> /\ FlowsNext /\ UNCHANGED catalogVars
          \/ used = {} /\ (\A c \in Callers : calls[c] = Idle) /\ CatalogNext /\ UNCHANGED flowVars

MCSpec == MCInit /\ [][MCNext]_<<flowVars, catalogVars>>

MCSymmetry == Permutations(Callers) \union Permutations(FlowIds) \union Permutations(Requests)
=============================================================================
