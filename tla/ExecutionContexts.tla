------------------------- MODULE ExecutionContexts -------------------------
(***************************************************************************)
(* ExecutionContextManager: the contexts it keeps for executions, with     *)
(* their variables and secrets, how a name is resolved in one and how a    *)
(* template is filled in.  The orchestrator only creates contexts; the     *)
(* other methods are the manager's interface and are called here as they   *)
(* may be.  Each context owns a variables map and a secrets map; maps are  *)
(* objects, so a context holds their places in the heap.                   *)
(*                                                                         *)
(* A value is a number, Undefined, or the text of a placeholder ("a" for   *)
(* ${a}); a template is a sequence of such placeholders.                   *)
(***************************************************************************)
EXTENDS Naturals, FiniteSets, Sequences, SequencesExt

CONSTANTS
  Executions,   \* ids of executions
  Flows,        \* the flows they run: [variables, secrets]
  Names,        \* names of variables and secrets
  Literals,     \* values that variables are set to
  Undefined,
  MaxMaps,      \* bound: maps that are ever made
  MaxTemplate   \* bound: placeholders of a template

VARIABLES
  contexts,  \* the manager's Map: execution -> context, for those it has
  heap       \* the maps, in the order they were made

contextVars == <<contexts, heap>>

-----------------------------------------------------------------------------
(* Creating a context. *)

\* A flow defines variables, each [name, kind, value] of kind static, dynamic or
\* secret (from the environment or a vault), and secrets of its own, by name.
Store(m, name, value) == [x \in DOMAIN m \union {name} |-> IF x = name THEN value ELSE m[x]]

\* loadFlowVariables.  A dynamic one is undefined, whatever its expression: the
\* function made of it holds "use strict" and with, which do not go together, so
\* that making it throws.  A secret goes to the secrets map.
LoadVariable(maps, v) ==
  CASE v.kind = "static" -> [maps EXCEPT !.variables = Store(@, v.name, v.value)]
    [] v.kind = "dynamic" -> [maps EXCEPT !.variables = Store(@, v.name, Undefined)]
    [] v.kind = "secret" -> [maps EXCEPT !.secrets = Store(@, v.name, v.value)]
    [] OTHER -> maps
LoadFlowVariables(variables) ==
  FoldLeft(LoadVariable, [variables |-> <<>>, secrets |-> <<>>], variables)

\* loadSecrets: the flow's own secrets overwrite.
LoadSecrets(maps, secrets) ==
  [maps EXCEPT !.secrets = [x \in DOMAIN @ \union DOMAIN secrets |->
                              IF x \in DOMAIN secrets THEN secrets[x] ELSE @[x]]]

\* loadEnvironmentVariables adds, among others, the execution's own id.
LoadEnvironment(maps, e) == [maps EXCEPT !.variables = Store(@, "env.EXECUTION_ID", e)]

With(m, e, c) == [x \in DOMAIN m \union {e} |-> IF x = e THEN c ELSE m[x]]

\* createExecutionContext replaces the context of an execution that is run again.
CreateExecutionContext(e, flow) ==
  LET maps == LoadEnvironment(LoadSecrets(LoadFlowVariables(flow.variables), flow.secrets), e)
  IN /\ Len(heap) + 2 <= MaxMaps
     /\ heap' = heap \o <<maps.variables, maps.secrets>>
     /\ contexts' = With(contexts, e, [retryCount |-> 0, variables |-> Len(heap) + 1,
                                      secrets |-> Len(heap) + 2])

\* createChildContext copies both maps of the parent, its env.EXECUTION_ID with them.
CreateChildContext_sharesSecrets(p, c) ==
  /\ p \in DOMAIN contexts /\ Len(heap) + 1 <= MaxMaps
  /\ heap' = Append(heap, heap[contexts[p].variables])
  /\ contexts' = With(contexts, c, [retryCount |-> 0, variables |-> Len(heap) + 1,
                                   secrets |-> contexts[p].secrets])
CreateChildContext(p, c) ==
  /\ p \in DOMAIN contexts /\ Len(heap) + 2 <= MaxMaps
  /\ heap' = heap \o <<heap[contexts[p].variables], heap[contexts[p].secrets]>>
  /\ contexts' = With(contexts, c, [retryCount |-> 0, variables |-> Len(heap) + 1,
                                   secrets |-> Len(heap) + 2])

\* setVariable; it throws for an execution without a context.
SetVariable(e, name, value) ==
  /\ e \in DOMAIN contexts
  /\ heap' = [heap EXCEPT ![contexts[e].variables] = Store(@, name, value)]
  /\ UNCHANGED contexts

\* updateContext assigns properties; the retry count stands for all of them.
UpdateContext(e) ==
  /\ e \in DOMAIN contexts
  /\ contexts' = [contexts EXCEPT ![e].retryCount = 1]
  /\ UNCHANGED heap

\* cleanupContext, which nothing in the engine calls.
CleanupContext(e) ==
  /\ e \in DOMAIN contexts
  /\ heap' = [heap EXCEPT ![contexts[e].secrets] = <<>>]
  /\ contexts' = [x \in DOMAIN contexts \ {e} |-> contexts[x]]

ContextInit == contexts = <<>> /\ heap = <<>>

ContextNext ==
  \/ \E e \in Executions, flow \in Flows : CreateExecutionContext(e, flow)
  \/ \E p, c \in Executions : p # c /\ CreateChildContext(p, c)
  \/ \E e \in Executions, n \in Names, v \in Literals : SetVariable(e, n, v)
  \/ \E e \in Executions : UpdateContext(e) \/ CleanupContext(e)

-----------------------------------------------------------------------------
(* Reading a context. *)

Variables(e) == heap[contexts[e].variables]
Secrets(e) == heap[contexts[e].secrets]

\* resolveVariable: variables, then secrets, then what the context itself knows.
ResolveVariable(e, name) ==
  IF name \in DOMAIN Variables(e) THEN Variables(e)[name]
  ELSE IF name \in DOMAIN Secrets(e) THEN Secrets(e)[name]
  ELSE IF name = "execution.id" THEN e
  ELSE Undefined

\* interpolateVariables goes through the placeholders of the template and replaces
\* the first occurrence of each in what has become of the text so far.
ReplaceFirst(text, name, value) ==
  LET at == {i \in DOMAIN text : text[i] = name}
  IN IF value = Undefined \/ at = {} THEN text
     ELSE [text EXCEPT ![CHOOSE i \in at : \A j \in at : i <= j] = value]
InterpolateVariables_once(e, template) ==  \* each name once, not each occurrence
  FoldLeft(LAMBDA text, name : ReplaceFirst(text, name, ResolveVariable(e, name)),
           template, SetToSeq(Range(template)))
InterpolateVariables(e, template) ==
  LET text[k \in 0..Len(template)] ==
        IF k = 0 THEN template
        ELSE ReplaceFirst(text[k - 1], template[k], ResolveVariable(e, template[k]))
  IN text[Len(template)]

-----------------------------------------------------------------------------
Placeholders == Names \union {"execution.id"}
Templates == UNION {[1..k -> Placeholders] : k \in 0..MaxTemplate}

\* As long as no value holds a placeholder itself, filling in a template replaces
\* every placeholder whose name has a value, also repeated ones, and leaves the
\* others where they are; a variable hides a secret of its name, even when it is
\* undefined.
TemplatesAreFilledIn ==
  \A e \in DOMAIN contexts :
    (\A n \in Placeholders : ResolveVariable(e, n) \notin Placeholders) =>
      \A template \in Templates :
        InterpolateVariables(e, template) =
          [i \in DOMAIN template |-> LET v == ResolveVariable(e, template[i])
                                     IN IF v = Undefined THEN template[i] ELSE v]

\* Contexts are independent: creating, setting, updating or cleaning up one never
\* changes what a name resolves to in another, so a child keeps its secrets when its
\* parent is cleaned up, and does not see what is set in the parent later.
OnlyOneContextChanges ==
  [][\E e \in Executions :
       /\ DOMAIN contexts \ DOMAIN contexts' \subseteq {e}
       /\ \A o \in (DOMAIN contexts \intersect DOMAIN contexts') \ {e} :
            \A n \in Names : ResolveVariable(o, n)' = ResolveVariable(o, n)]_contextVars
=============================================================================
