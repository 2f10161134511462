----------------------------- MODULE ExecutionDetails -----------------------------
(* The dialog with the details of an execution (ExecutionDetailsModal), which      *)
(* loads them and the log over HTTP and hears updates from RealtimeClient.  The    *)
(* dialog stays mounted: what it showed last is there when it is opened for the    *)
(* next execution.                                                                 *)
(*                                                                                 *)
(* X_fault is X with a bug that X could have had (README, "Mutants").              *)
EXTENDS RealtimeClient

CONSTANTS NoExecution,
          Statuses,      \* ExecutionStatus
          MaxLoads       \* bound: requests for details in flight

ASSUME DetailsAssumption ==
  /\ MaxLoads \in Nat /\ NoExecution \notin Executions
  /\ "failed" \in Statuses /\ "none" \notin Statuses

VARIABLES status,     \* the engine's row of each execution: its status
          hadFailed,  \* history: the executions that were failed at some time
          opened,     \* the execution the dialog is open for
          details,    \* what it shows: nothing, or an execution and a status;
                      \* own (history): the status is one of this execution
          loads,      \* its requests for details, oldest first
          loadingDetails, failed,
          isRetrying, \* the request to retry is in flight
          outdated    \* history: the details may be old, for a reason

dialogVars == <<details, loads, loadingDetails, failed, isRetrying>>
engineVars == <<status, hadFailed>>
detailsVars == <<realtimeVars, engineVars, opened, dialogVars, outdated>>

Nothing == [id |-> NoExecution, status |-> "none", own |-> TRUE]
Indices == DOMAIN loads
ToCome(e) == \E i \in DOMAIN downward : downward[i].id = e   \* an update of it
Without(i) == [j \in 1..(Len(loads) - 1) |-> IF j < i THEN loads[j] ELSE loads[j + 1]]

DetailsInit ==
  /\ RealtimeInit
  /\ status \in [Executions -> Statuses]
  /\ hadFailed = {e \in Executions : status[e] = "failed"}
  /\ opened = NoExecution /\ details = Nothing
  /\ loads = <<>> /\ loadingDetails = FALSE /\ failed = FALSE
  /\ isRetrying = FALSE /\ outdated = FALSE

----------------------------------------------------------------------------
(* The connection *)

\* What the service does on its own.  A lost connection takes updates with it.
Connection ==
  /\ \/ (Connected \/ Reconnect \/ Heartbeat \/ TakeMessage) /\ UNCHANGED outdated
     \/ Closed /\ outdated' = (outdated \/ (IsConnected /\ opened # NoExecution))
  /\ UNCHANGED <<engineVars, opened, dialogVars>>

\* handleRealtimeUpdate changes the status of what is shown, whichever execution that
\* is, and does nothing before the first details are there.
HandleRealtimeUpdate(update) ==
  details' = IF details = Nothing THEN details
             ELSE [details EXCEPT !.status = update.status, !.own = @ /\ details.id = update.id]

Hear ==
  /\ Receive
  /\ LET message == Head(downward)
     IN IF Notifies(message)
        THEN /\ HandleRealtimeUpdate(message)
             /\ loads' = [i \in Indices |->
                  [loads[i] EXCEPT !.overtaken =
                     @ \/ (loads[i].id = message.id /\ loads[i].answer # "none")]]
        ELSE UNCHANGED <<details, loads>>
  /\ UNCHANGED <<engineVars, opened, loadingDetails, failed, isRetrying, outdated>>

----------------------------------------------------------------------------
(* The engine *)

\* The row of an execution gets another status: one job may run it, fail it and, when
\* Bull repeats it, run it again.  The update goes to the socket if it is subscribed.  The
\* dialog does not find out by it if it is not, nor by a request that has been served
\* already; and what it finds out by one is undone by an update from before.
StatusChanges ==
  /\ \E e \in Executions, s \in Statuses :
       /\ s # status[e] /\ status' = [status EXCEPT ![e] = s]
       /\ hadFailed' = IF s = "failed" THEN hadFailed \union {e} ELSE hadFailed
       /\ Publish(e, s)
       /\ outdated' = (outdated \/ (/\ opened = e /\ e \notin topics
                                    /\ \/ \A i \in Indices : loads[i].answer # "none"
                                       \/ ToCome(e)))
  /\ UNCHANGED <<opened, dialogVars>>

ServeDetails ==
  /\ \E i \in Indices :
       /\ loads[i].answer = "none"
       /\ loads' = [loads EXCEPT ![i].answer = status[loads[i].id]]
  /\ UNCHANGED <<realtimeVars, engineVars, opened, details, loadingDetails, failed, isRetrying, outdated>>

----------------------------------------------------------------------------
(* The dialog *)

LoadExecutionDetails(e) ==
  /\ Len(loads) < MaxLoads
  /\ loads' = Append(loads, [id |-> e, answer |-> "none", overtaken |-> FALSE])
  /\ loadingDetails' = TRUE /\ failed' = FALSE

\* Answers and updates from before may still come.
OldOnesToCome(e) == loads # <<>> \/ ToCome(e)

\* What is shown already is not loaded again.
OpenDetails_loadsOnce ==
  /\ opened = NoExecution
  /\ \E e \in Executions :
       /\ opened' = e /\ Subscribe(e) /\ outdated' = OldOnesToCome(e)
       /\ \/ details.id = e /\ UNCHANGED <<loads, loadingDetails, failed>>
          \/ details.id # e /\ LoadExecutionDetails(e)
  /\ UNCHANGED <<topics, connectionVars, engineVars, details, isRetrying>>

\* The effect of opening loads, and subscribes at once.
OpenDetails ==
  /\ opened = NoExecution
  /\ \E e \in Executions :
       /\ opened' = e /\ LoadExecutionDetails(e) /\ Subscribe(e) /\ outdated' = OldOnesToCome(e)
  /\ UNCHANGED <<topics, connectionVars, engineVars, details, isRetrying>>

\* onClose, and the cleanup of the effect
Shut == opened' = NoExecution /\ Unsubscribe(opened) /\ outdated' = FALSE

CloseDetails ==
  /\ opened # NoExecution /\ Shut
  /\ UNCHANGED <<topics, connectionVars, engineVars, dialogVars>>

\* Answers arrive in any order, and each is shown, for whichever execution it is.
DetailsArrive ==
  /\ \E i \in Indices :
       /\ loads[i].answer # "none" /\ loads' = Without(i)
       /\ details' = [id |-> loads[i].id, status |-> loads[i].answer, own |-> TRUE]
       /\ outdated' = (outdated \/ loads[i].overtaken)
  /\ loadingDetails' = FALSE
  /\ UNCHANGED <<realtimeVars, engineVars, opened, failed, isRetrying>>

DetailsFail ==
  /\ \E i \in Indices : loads' = Without(i)
  /\ loadingDetails' = FALSE /\ failed' = TRUE
  /\ UNCHANGED <<realtimeVars, engineVars, opened, details, isRetrying, outdated>>

TryAgain ==
  /\ opened # NoExecution /\ failed /\ ~loadingDetails
  /\ LoadExecutionDetails(opened)
  /\ outdated' = (outdated \/ loads # <<>>)
  /\ UNCHANGED <<realtimeVars, engineVars, opened, details, isRetrying>>

\* The button is there whatever the status.
HandleRetry_always ==
  /\ opened # NoExecution /\ details # Nothing /\ ~isRetrying
  /\ isRetrying' = TRUE
  /\ UNCHANGED <<realtimeVars, engineVars, opened, details, loads, loadingDetails, failed, outdated>>

\* The header has the button while the details are loading or have failed to load, too.
HandleRetry ==
  /\ opened # NoExecution /\ details.status = "failed" /\ ~isRetrying
  /\ isRetrying' = TRUE
  /\ UNCHANGED <<realtimeVars, engineVars, opened, details, loads, loadingDetails, failed, outdated>>

\* The answer closes the dialog, whatever it has been opened for since.
RetryEnds ==
  /\ isRetrying /\ isRetrying' = FALSE
  /\ \/ opened # NoExecution /\ Shut
     \/ UNCHANGED <<opened, listeners, upward, outdated>>
  /\ UNCHANGED <<topics, connectionVars, engineVars, details, loads, loadingDetails, failed>>

DetailsNext ==
  \/ Connection \/ Hear \/ StatusChanges \/ ServeDetails
  \/ OpenDetails \/ CloseDetails \/ DetailsArrive \/ DetailsFail \/ TryAgain
  \/ HandleRetry \/ RetryEnds

----------------------------------------------------------------------------
(* Properties *)

\* When everything under way has arrived, an open dialog shows the execution it is open
\* for, with the status it has, however often that has changed, unless there is one of
\* these reasons: the connection was lost, or the dialog was not subscribed, when the status
\* changed; an answer was passed by an update; or something from before the dialog was
\* opened, or was subscribed, was still to come.
DetailsAreCurrent ==
  opened # NoExecution /\ loads = <<>> /\ downward = <<>> /\ ~failed /\ ~outdated =>
    details.id = opened /\ details.status = status[opened]

\* Every retry that is asked for is of an execution that has failed, though it may be
\* running again by then, but for those asked for while the dialog still shows another, or
\* a status it heard of another.
RetriedHadFailed ==
  [][~isRetrying /\ isRetrying' /\ details.own /\ details.id = opened =>
       opened \in hadFailed]_detailsVars
=============================================================================
