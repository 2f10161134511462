------------------------- MODULE ExecutionLifecycle -------------------------
(***************************************************************************)
(* What the execution engine promises about one execution to whoever asks  *)
(* the orchestrator for its state: the abstract specification that         *)
(* FlowExecution implements.                                               *)
(***************************************************************************)
EXTENDS Integers, Sequences

CONSTANTS Nodes, Order

VARIABLES
  phase,    \* "open" while a run of the flow is going on
  status,   \* the status of the execution in memory
  started,  \* the nodes whose turn has come in this run
  verdict   \* what the last run to end has reported

lifecycleVars == <<phase, status, started, verdict>>

Init ==
  /\ phase = "closed" /\ status = "running"
  /\ started = {} /\ verdict = "none"

\* A run begins, the first one or a repeated one.
Open ==
  /\ phase = "closed"
  /\ phase' = "open" /\ status' = "running"
  /\ started' = {} /\ verdict' = "none"

Switch(from, to) ==
  /\ phase = "open" /\ status \in from
  /\ status' = to
  /\ UNCHANGED <<phase, started, verdict>>

Pause == Switch({"running"}, "paused")
Resume == Switch({"paused"}, "running")
Cancel == Switch({"running", "paused"}, "cancelled")

\* The next node in order gets its turn, only while the execution is RUNNING.
Start(i) ==
  /\ phase = "open" /\ status = "running"
  /\ started = {Order[j] : j \in 1..(i - 1)}
  /\ started' = started \union {Order[i]}
  /\ UNCHANGED <<phase, status, verdict>>

\* Success is for a run that was not cancelled and gave every node its turn.
Succeed ==
  /\ phase = "open" /\ status # "cancelled" /\ started = Nodes
  /\ phase' = "closed" /\ verdict' = "success"
  /\ UNCHANGED <<status, started>>

Fail ==
  /\ phase = "open"
  /\ phase' = "closed" /\ verdict' = "failure"
  /\ UNCHANGED <<status, started>>

\* The process is lost with the run in it.
Vanish ==
  /\ phase = "open"
  /\ phase' = "closed"
  /\ started' \subseteq started
  /\ UNCHANGED <<status, verdict>>

Next ==
  \/ Open \/ Pause \/ Resume \/ Cancel
  \/ \E i \in 1..Len(Order) : Start(i)
  \/ Succeed \/ Fail \/ Vanish

Spec == Init /\ [][Next]_lifecycleVars
=============================================================================
