------------------------------ MODULE FlowBuilder ------------------------------
(* The flow builder of the web client: its canvas, the flow the store calls      *)
(* current, the toolbar with its save and load dialogs, and the server's flows.  *)
(* The canvas is the state of a component that lives while its page is shown; it *)
(* is filled again from the current flow whenever the store gets another one.    *)
EXTENDS Naturals, Sequences

CONSTANTS SavedIds,   \* identifiers the server may give a flow
          Details,   \* edges, and configurations of nodes, that a drawing may have
          Files,     \* what an imported file may hold: drawings
          MaxNodes,  \* bound: nodes on the canvas
          NoFlow

ASSUME BuilderAssumption == MaxNodes \in Nat /\ NoFlow \notin SavedIds

VARIABLES stored,    \* the server's flows: drawings by id, NoFlow for one that was deleted
          current,   \* store: the flow that is open, or NoFlow
          open,      \* the builder's page is shown
          canvas,    \* its drawing
          saving,    \* the submitted form of the save dialog
          fetching,  \* the flow whose answer is on its way to the load dialog
          edited,    \* history: the canvas was edited since a flow was put on it
          unsaved    \* history: a submit ended well that did not store its drawing

builderVars == <<stored, current, open, canvas, saving, fetching, edited, unsaved>>

\* A drawing: the ids of its nodes in the order they were added, and its details
Empty == [nodes |-> <<>>, details |-> {}]
Flow(id, d) == [id |-> id, drawing |-> d]
NotSaving == [stage |-> "none"]
Stored == {id \in DOMAIN stored : stored[id] # NoFlow}

BuilderInit ==
  /\ stored \in {[i \in {} |-> Empty]} \cup [SavedIds -> Files]
  /\ current = NoFlow /\ open = TRUE /\ canvas = Empty
  /\ saving = NotSaving /\ fetching = NoFlow
  /\ edited = FALSE /\ unsaved = FALSE

----------------------------------------------------------------------------
\* The store gets flow f and the canvas is told to show d: after the render the effect on
\* the store's flow has the last word, if the flow is another object than before
Rendered(f, d) ==
  IF f = NoFlow
  THEN IF current = NoFlow THEN d ELSE Empty
  ELSE f.drawing

Show(f, d) ==
  LET shown == Rendered(f, d)
  IN  /\ current' = f
      /\ canvas' = IF open THEN shown ELSE Empty
      /\ edited' = FALSE

(* Edits *)

Edit(d) ==
  /\ open /\ canvas' = d /\ edited' = TRUE
  /\ UNCHANGED <<stored, current, open, saving, fetching, unsaved>>

\* a node from the sidebar is numbered by the length of the canvas
AddNode ==
  /\ Len(canvas.nodes) < MaxNodes
  /\ Edit([canvas EXCEPT !.nodes = Append(@, Len(@) + 1)])

\* an edge between two nodes (onConnect), or a node's configuration in the properties panel
EditDetail ==
  /\ canvas.nodes # <<>>
  /\ \E x \in Details \ canvas.details : Edit([canvas EXCEPT !.details = @ \cup {x}])

----------------------------------------------------------------------------
(* The save dialog *)

\* the submit keeps the flow and the drawing of its render; only a flow that exists is
\* validated by the server first
Submit ==
  /\ open /\ saving = NotSaving /\ canvas.nodes # <<>>
  /\ saving' = [stage |-> IF current = NoFlow THEN "create" ELSE "validate",
                flow |-> current, drawing |-> canvas]
  /\ UNCHANGED <<stored, current, open, canvas, fetching, edited, unsaved>>

\* POST /flows, refused for a name that is taken or a drawing that is invalid
ServeCreate ==
  /\ saving.stage = "create"
  /\ \/ \E id \in SavedIds \ DOMAIN stored :
          /\ stored' = [i \in DOMAIN stored \cup {id} |-> IF i = id THEN saving.drawing ELSE stored[i]]
          /\ saving' = [saving EXCEPT !.stage = "created", !.flow = Flow(id, saving.drawing)]
     \/ UNCHANGED stored /\ saving' = [saving EXCEPT !.stage = "failed"]
  /\ UNCHANGED <<current, open, canvas, fetching, edited, unsaved>>

\* POST /flows/:id/validate checks the stored flow
ServeValidate ==
  /\ saving.stage = "validate"
  /\ saving' = [saving EXCEPT !.stage = IF saving.flow.id \in Stored THEN "validated" ELSE "failed"]
  /\ UNCHANGED <<stored, current, open, canvas, fetching, edited, unsaved>>

SaveCreated ==
  /\ saving.stage = "created"
  /\ saving' = NotSaving
  /\ Show(saving.flow, canvas)
  /\ UNCHANGED <<stored, open, fetching, unsaved>>

\* Every answer of the server is wrapped in {data, ...}.  The other calls of FlowService take
\* data out of it, validateFlow does not: the dialog finds neither valid nor errors, reports
\* that the flow could not be validated and never sends the update.
SaveValidated ==
  /\ saving.stage = "validated"
  /\ saving' = NotSaving
  /\ unsaved' = (unsaved \/ (saving.flow.id \in Stored /\ stored[saving.flow.id] # saving.drawing))
  /\ UNCHANGED <<stored, current, open, canvas, fetching, edited>>

\* the server refuses, or the request is given up at any time
SaveFailed ==
  /\ saving # NotSaving /\ saving' = NotSaving
  /\ UNCHANGED <<stored, current, open, canvas, fetching, edited, unsaved>>

----------------------------------------------------------------------------
(* Loading, importing, clearing, and leaving the page *)

\* a row of the load dialog, or the edit button of the list of flows
Fetch ==
  /\ fetching = NoFlow
  /\ \E id \in Stored : fetching' = Flow(id, stored[id])
  /\ UNCHANGED <<stored, current, open, canvas, saving, edited, unsaved>>

\* the answer becomes the current flow, also when its dialog's page has been left
Loaded ==
  /\ fetching # NoFlow
  /\ Show(fetching, fetching.drawing)
  /\ fetching' = NoFlow
  /\ UNCHANGED <<stored, open, saving, unsaved>>

FetchFailed ==
  /\ fetching # NoFlow /\ fetching' = NoFlow
  /\ UNCHANGED <<stored, current, open, canvas, saving, edited, unsaved>>

DeleteFlow ==
  /\ \E id \in Stored : stored' = [stored EXCEPT ![id] = NoFlow]
  /\ UNCHANGED <<current, open, canvas, saving, fetching, edited, unsaved>>

\* mutant: the flow that was current stays so
Import_keepsTheFlow ==
  /\ open
  /\ \E d \in Files : canvas' = d /\ edited' = FALSE
  /\ UNCHANGED <<stored, current, open, saving, fetching, unsaved>>

\* the imported drawing is put on the canvas, and no flow is current any more: if one was,
\* the effect empties the canvas
Import ==
  /\ open
  /\ \E d \in Files : Show(NoFlow, d)
  /\ UNCHANGED <<stored, open, saving, fetching, unsaved>>

Clear ==
  /\ open /\ canvas.nodes # <<>>
  /\ Show(NoFlow, Empty)
  /\ UNCHANGED <<stored, open, saving, fetching, unsaved>>

\* the canvas is lost with its page
Leave ==
  /\ open /\ open' = FALSE /\ canvas' = Empty /\ edited' = FALSE
  /\ UNCHANGED <<stored, current, saving, fetching, unsaved>>

\* the list of flows: a new flow, the flow that was asked for, or back to the current one
Enter ==
  /\ ~open /\ open' = TRUE
  /\ \/ current' = NoFlow /\ UNCHANGED fetching
     \/ fetching # NoFlow /\ current' = fetching /\ fetching' = NoFlow
     \/ UNCHANGED <<current, fetching>>
  /\ canvas' = IF current' = NoFlow THEN Empty ELSE current'.drawing
  /\ edited' = FALSE
  /\ UNCHANGED <<stored, saving, unsaved>>

BuilderNext ==
  \/ AddNode \/ EditDetail
  \/ Submit \/ ServeCreate \/ ServeValidate \/ SaveCreated \/ SaveValidated \/ SaveFailed
  \/ Fetch \/ Loaded \/ FetchFailed \/ DeleteFlow
  \/ Import \/ Clear \/ Leave \/ Enter

----------------------------------------------------------------------------
(* What is run or updated is the flow on the screen: with no edits since it was  *)
(* put there, the canvas shows the current flow, and the server, unless it has   *)
(* deleted that flow, stores it so.  Edits that an answer overwrites count as    *)
(* none.                                                                         *)
CanvasShowsTheFlow ==
  open /\ current # NoFlow /\ ~edited =>
    /\ canvas = current.drawing
    /\ current.id \in Stored => stored[current.id] = canvas

(* What the save dialog is there for: a submit whose requests the server has     *)
(* answered stores the drawing it was made with.                                 *)
SubmittedIsStored == ~unsaved
==============================================================================
