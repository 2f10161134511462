-------------------------- MODULE RealtimeGateway --------------------------
(***************************************************************************)
(* RealtimeGateway: which status the gateway tells the rooms of an         *)
(* execution and of its flow, event by event.                              *)
(*                                                                         *)
(* X_fault is X with a bug that X could have had (README, "Mutants").      *)
(***************************************************************************)

Rooms == {"execution", "flow"}

\* The status an event is broadcast with.  Every event of a node says RUNNING,
\* and every execution.completed SUCCESS, whatever its result.
BroadcastStatus(type) ==
  CASE type = "execution.completed" -> "success"
    [] type = "execution.failed" -> "failed"
    [] type = "execution.cancelled" -> "cancelled"
    [] type = "execution.paused" -> "paused"
    [] OTHER -> "running"

\* The room of the flow hears of the end only.
Hears_endsOnly(room, type) ==
  room = "execution" \/ type \in {"execution.completed", "execution.failed"}

\* The room of the flow hears of the start and the end only.
Hears(room, type) ==
  \/ room = "execution"
  \/ type \in {"execution.started", "execution.completed", "execution.failed"}

\* What the rooms were told last, after event e.
Broadcast(told, e) ==
  [room \in Rooms |-> IF Hears(room, e.type) THEN BroadcastStatus(e.type)
                      ELSE told[room]]
=============================================================================
