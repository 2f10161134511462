------------------------------ MODULE RealtimeClient ------------------------------
(* RealtimeService: the one WebSocket of the web client, with its reconnects, its  *)
(* heartbeat and the handlers of its channels.  The server of the socket is        *)
(* external, modelled from what the service sends to it and understands of it.     *)
EXTENDS Naturals, Sequences

CONSTANTS Executions,
          MaxReconnectAttempts,
          MaxChannel     \* bound: messages under way on the socket, both directions

ASSUME RealtimeAssumption == MaxReconnectAttempts \in Nat /\ MaxChannel \in Nat

VARIABLES topics,     \* server: the executions the socket is subscribed to
          upward,     \* messages to the server
          downward,   \* messages to the client
          socket,     \* the state of ws
          attempts,   \* reconnectAttempts
          reconnect,  \* the timer of the next attempt is set
          beating,    \* heartbeatInterval
          listeners   \* the executions whose channel has a handler

connectionVars == <<downward, socket, attempts, reconnect, beating>>
realtimeVars == <<topics, upward, listeners, connectionVars>>

Message(type, e, s) == [type |-> type, id |-> e, status |-> s]

RealtimeInit ==
  /\ topics = {} /\ upward = <<>> /\ downward = <<>> /\ listeners = {}
  /\ socket \in {"none", "connecting"}   \* connect() on import, in production only
  /\ attempts = 0 /\ reconnect = FALSE /\ beating = FALSE

IsConnected == socket = "open"

\* send: a message is dropped, unless the socket is open
Tell(message) ==
  upward' = IF IsConnected THEN Append(upward, message) ELSE upward

Room == Len(upward) + Len(downward) < MaxChannel

Subscribe(e) ==
  /\ Room /\ listeners' = listeners \union {e}
  /\ Tell(Message("subscribe", e, "none"))

\* The channel keeps its list, without the handler.
Unsubscribe(e) ==
  /\ Room /\ listeners' = listeners \ {e}
  /\ Tell(Message("unsubscribe", e, "none"))

\* onopen
Connected ==
  /\ socket = "connecting"
  /\ socket' = "open" /\ attempts' = 0 /\ beating' = TRUE
  /\ UNCHANGED <<topics, upward, listeners, downward, reconnect>>

\* onclose, after onerror if there was no connection yet.  The next socket will be
\* subscribed to nothing: nobody sends the subscriptions again.
Closed ==
  /\ socket \in {"connecting", "open"}
  /\ socket' = "closed" /\ beating' = FALSE
  /\ topics' = {} /\ upward' = <<>> /\ downward' = <<>>
  /\ \E wasClean \in BOOLEAN :
       /\ wasClean => socket = "open"
       /\ reconnect' = (~wasClean /\ attempts < MaxReconnectAttempts)
  /\ UNCHANGED <<attempts, listeners>>

Reconnect ==
  /\ reconnect /\ reconnect' = FALSE
  /\ attempts' = attempts + 1 /\ socket' = "connecting"
  /\ UNCHANGED <<topics, upward, listeners, downward, beating>>

\* the interval; bound: when nothing is under way
Heartbeat ==
  /\ beating /\ upward = <<>> /\ downward = <<>>
  /\ Tell(Message("ping", "none", "none"))
  /\ UNCHANGED <<topics, listeners, connectionVars>>

\* handleMessage: only updates of executions have handlers here
Understood(message) == message.type = "execution_update"

\* notifyListeners
Notifies(message) == Understood(message) /\ message.id \in listeners

Receive ==
  /\ downward # <<>> /\ downward' = Tail(downward)
  /\ UNCHANGED <<topics, upward, listeners, socket, attempts, reconnect, beating>>

----------------------------------------------------------------------------
(* The server (external) *)

Push(message) == downward' = Append(downward, message)

TakeMessage ==
  /\ upward # <<>> /\ upward' = Tail(upward)
  /\ LET m == Head(upward)
     IN /\ topics' = CASE m.type = "subscribe" -> topics \union {m.id}
                       [] m.type = "unsubscribe" -> topics \ {m.id}
                       [] OTHER -> topics
        /\ IF m.type = "ping" THEN Push(Message("pong", "none", "none")) ELSE UNCHANGED downward
  /\ UNCHANGED <<listeners, socket, attempts, reconnect, beating>>

\* An update goes to the socket if it is subscribed.
Publish(e, s) ==
  /\ IF e \in topics THEN Room /\ Push(Message("execution_update", e, s)) ELSE UNCHANGED downward
  /\ UNCHANGED <<topics, upward, listeners, socket, attempts, reconnect, beating>>
=============================================================================
