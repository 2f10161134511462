-------------------------------- MODULE NodePalette --------------------------------
(* What the flow builder knows of the types of its nodes: the one                  *)
(* DynamicNodeCatalogService of the client with its cache, the sidebar that lists   *)
(* the types, and the panel with the properties of the node that is selected        *)
(* (PropertiesPanel), which asks for the definition of its type and fills in the    *)
(* defaults.  The canvas has one node of each type.                                 *)
EXTENDS Naturals, Sequences

CONSTANTS Types,     \* the types, which name their nodes as well
          Shared,    \* a setting that every type has
          NoType,
          MaxAsked   \* bound: requests for the catalog in flight

ASSUME PaletteAssumption == MaxAsked \in Nat /\ NoType \notin Types /\ Shared \notin Types

VARIABLES cached,      \* the service's cache is valid: not empty and not past its time
          catalogLoads,\* requests in flight: who asked, and for which node
          sidebar,     \* loading, the types, or an error
          configs,     \* the settings that each node of the canvas has
          selected,    \* the node the panel is of
          local,       \* localConfig: the settings it has
          metadata,    \* nodeMetadata: the type it shows the settings of
          waiting,     \* loadingMetadata
          crossed      \* history: nodes selected while another's definition was awaited

panelVars == <<configs, selected, local, metadata, waiting, crossed>>
paletteVars == <<cached, catalogLoads, sidebar, panelVars>>

\* The settings of a type, each with a default: one of its own and the shared one.
Inputs(t) == {t, Shared}

PaletteInit ==
  /\ cached = FALSE /\ sidebar = "loading"
  /\ catalogLoads = <<[by |-> "sidebar", node |-> NoType, had |-> {}]>>
  /\ configs = [t \in Types |-> {}]
  /\ selected = NoType /\ local = {} /\ metadata = NoType /\ waiting = FALSE
  /\ crossed = {}

----------------------------------------------------------------------------
(* The service *)

\* getDynamicNodeDefinitions without a valid cache
AskForCatalog(by, node, had) ==
  /\ Len(catalogLoads) < MaxAsked
  /\ catalogLoads' = Append(catalogLoads, [by |-> by, node |-> node, had |-> had])

\* Five minutes after it was filled.
Expire ==
  /\ cached /\ cached' = FALSE
  /\ UNCHANGED <<catalogLoads, sidebar, panelVars>>

\* The catalog's page asks the same service.
Browse ==
  /\ ~cached /\ AskForCatalog("page", NoType, {})
  /\ UNCHANGED <<cached, sidebar, panelVars>>

----------------------------------------------------------------------------
(* The sidebar *)

\* clearCache, and then a load that cannot find it valid.
RefreshNodes ==
  /\ cached' = FALSE /\ sidebar' = "loading"
  /\ AskForCatalog("sidebar", NoType, {})
  /\ UNCHANGED panelVars

----------------------------------------------------------------------------
(* The panel *)

Defaults(t, had) == Inputs(t) \ had

\* The settings of the node that was selected before stay.
ShowNode_keepsTheLast(n, config) ==
  /\ local' = local \union config \union (IF cached THEN Defaults(n, local) ELSE {})
  /\ metadata' = (IF cached THEN n ELSE metadata) /\ waiting' = ~cached
  /\ IF cached THEN UNCHANGED catalogLoads ELSE AskForCatalog("panel", n, local)

\* The effect on the selected node shows its settings and asks for its definition: in
\* the cache, or over HTTP.  Which defaults the node lacks is asked of the settings of
\* the render before, those of the last node.
ShowNode(n, config) ==
  IF cached
  THEN /\ local' = config \union Defaults(n, local)
       /\ metadata' = n /\ waiting' = FALSE
       /\ UNCHANGED catalogLoads
  ELSE /\ local' = config
       /\ metadata' = metadata /\ waiting' = TRUE
       /\ AskForCatalog("panel", n, local)

Awaited == {catalogLoads[i].node : i \in DOMAIN catalogLoads} \ {NoType}

Crossing(n) == crossed' = IF Awaited \subseteq {n} THEN crossed ELSE crossed \union {n}

\* A click on a node, or a change of the node that is selected: it is another object.
Select ==
  /\ \E n \in Types : selected' = n /\ ShowNode(n, configs[n]) /\ Crossing(n)
  /\ UNCHANGED <<cached, sidebar, configs>>

\* a click on the canvas
Deselect ==
  /\ selected # NoType
  /\ selected' = NoType /\ local' = {} /\ metadata' = NoType
  /\ UNCHANGED <<cached, catalogLoads, sidebar, configs, waiting, crossed>>

\* The settings are shown: the inputs of the type.
Shown == selected # NoType /\ ~waiting /\ metadata # NoType

HandleLocalChange(k) == local' = local \union {k}

Change ==
  /\ Shown
  /\ \E k \in Inputs(metadata) : HandleLocalChange(k)
  /\ UNCHANGED <<cached, catalogLoads, sidebar, configs, selected, metadata, waiting, crossed>>

\* The canvas gets the settings, and the node it gets is another object, which the panel
\* shows afresh.
UpdateNodeConfig(n, config) ==
  /\ configs' = [configs EXCEPT ![n] = @ \union config]
  /\ ShowNode(n, configs'[n]) /\ Crossing(n)

\* when an input loses the focus
CommitConfig ==
  /\ Shown
  /\ UpdateNodeConfig(selected, local)
  /\ UNCHANGED <<cached, sidebar, selected>>

----------------------------------------------------------------------------
(* The answers, in any order *)

TakeAnswer(i) ==
  catalogLoads' = [j \in 1..(Len(catalogLoads) - 1) |->
                     IF j < i THEN catalogLoads[j] ELSE catalogLoads[j + 1]]

LoadDynamicNodes(load, shows) ==
  sidebar' = IF load.by = "sidebar" THEN shows ELSE sidebar

\* The panel takes an answer, whichever node it is of by now.
LoadNodeMetadata(load, definition, defaults) ==
  IF load.by = "panel"
  THEN metadata' = definition /\ local' = local \union defaults /\ waiting' = FALSE
  ELSE UNCHANGED <<metadata, local, waiting>>

\* The definitions fill the cache and go to whoever asked.
Definitions ==
  /\ \E i \in DOMAIN catalogLoads :
       LET load == catalogLoads[i]
       IN /\ TakeAnswer(i)
          /\ LoadDynamicNodes(load, "shown")
          /\ LoadNodeMetadata(load, load.node, Defaults(load.node, load.had))
  /\ cached' = TRUE
  /\ UNCHANGED <<configs, selected, crossed>>

\* The service answers an error with no definitions.
NoDefinitions ==
  /\ \E i \in DOMAIN catalogLoads :
       LET load == catalogLoads[i]
       IN /\ TakeAnswer(i)
          /\ LoadDynamicNodes(load, "error")
          /\ LoadNodeMetadata(load, NoType, {})
  /\ UNCHANGED <<cached, configs, selected, crossed>>

PaletteNext ==
  \/ Expire \/ Browse \/ RefreshNodes
  \/ Select \/ Deselect \/ Change \/ CommitConfig
  \/ Definitions \/ NoDefinitions

----------------------------------------------------------------------------
\* The panel shows the settings of the node it is of, and a node is given those of its
\* own type only, unless it was selected while the definition of another's type was
\* awaited, whose answer comes later and is taken for the node's.
SettingsAreOfTheNode ==
  /\ selected \notin crossed \union {NoType} /\ ~waiting => metadata \in {selected, NoType}
  /\ \A n \in Types \ crossed : configs[n] \subseteq Inputs(n)
=============================================================================
