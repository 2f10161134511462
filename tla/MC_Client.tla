----------------------------- MODULE MC_Client -----------------------------
(***************************************************************************)
(* The parts of the web client, which share no state: a behaviour is one   *)
(* of a list page, of the flow builder, of the builder's palette and panel, *)
(* of the schedule dialog, of the execution dialog or of the loading hook, *)
(* and the others stay in their first state.                               *)
(***************************************************************************)
EXTENDS ListPage, FlowBuilder, NodePalette, ScheduleForm, ExecutionDetails, LoadingState, TLC

VARIABLE page   \* the part that is used

MCVars == <<page, listVars, builderVars, paletteVars, formVars, cronVars, detailsVars, loadingVars>>

\* Drawings of two nodes that the builder has numbered, and of one that it has not
MCFiles == {[nodes |-> <<1, 2>>, details |-> {}], [nodes |-> <<2>>, details |-> {}]}

\* No expression of five fields; 9:00 on every day; midnight; a month; ranges, one of
\* them from zero; a Sunday
MCTyped ==
  {<<Star, Star>>, <<0, 9, Star, Star, Star>>, <<0, 0, Star, Star, Star>>,
   <<30, 9, Star, 1, Star>>, <<0, 9, 1, 1, UpFrom(1)>>, <<30, 9, Star, Star, 0>>,
   <<0, UpFrom(0), Star, Star, Star>>}

MCInit ==
  /\ page \in {"list", "builder", "palette", "schedule", "details", "loading"}
  /\ ListInit /\ BuilderInit /\ PaletteInit /\ FormInit /\ DetailsInit /\ LoadingInit
  /\ page # "list" => table = {}
  /\ page # "builder" => DOMAIN stored = {}
  /\ page # "details" => socket = "none"
  /\ \A e \in Executions : status[e] = "running"

List == ListNext /\ UNCHANGED <<builderVars, paletteVars, formVars, cronVars, detailsVars, loadingVars>>
Builder == BuilderNext /\ UNCHANGED <<listVars, paletteVars, formVars, cronVars, detailsVars, loadingVars>>
Palette == PaletteNext /\ UNCHANGED <<listVars, builderVars, formVars, cronVars, detailsVars, loadingVars>>
Form == FormNext /\ UNCHANGED <<listVars, builderVars, paletteVars, detailsVars, loadingVars>>
Dialog == DetailsNext /\ UNCHANGED <<listVars, builderVars, paletteVars, formVars, cronVars, loadingVars>>
Hook == LoadingNext /\ UNCHANGED <<listVars, builderVars, paletteVars, formVars, cronVars, detailsVars>>

MCNext ==
  /\ UNCHANGED page
  /\ \/ page = "list" /\ List
     \/ page = "builder" /\ Builder
     \/ page = "palette" /\ Palette
     \/ page = "schedule" /\ Form
     \/ page = "details" /\ Dialog
     \/ page = "loading" /\ Hook

MCSpec == MCInit /\ [][MCNext]_MCVars

\* One pair of names for all of them
ASSUME MCNames == Rows = SavedIds /\ Rows = Types /\ Rows = Executions

MCSymmetry == Permutations(Rows)
=============================================================================
