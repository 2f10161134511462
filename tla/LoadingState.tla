------------------------------- MODULE LoadingState -------------------------------
(* The hook useLoadingState as the list pages use it: one flag and one reference   *)
(* to a timer for all the calls of a page.  A page makes a load, by itself or for  *)
(* a filter or an interval, or a change, whose body starts a load and does not     *)
(* wait for it.  The bodies catch what the client throws, so that every call ends  *)
(* without an error.                                                               *)
EXTENDS Naturals

CONSTANT Timers    \* bound: names of timers, and of the calls that set them

ASSUME TimersAssumption == 0 \notin Timers

VARIABLES isLoading,
          timedOut,    \* error, which is "Operation timed out" or null
          changing,    \* the changes that are out
          reading,     \* the loads that are out
          timers,      \* the timers that are set
          timeoutRef,  \* the timer that is known, or 0
          overtaken    \* history: another call began while this one was out

loadingVars == <<isLoading, timedOut, changing, reading, timers, timeoutRef, overtaken>>

Out == changing \union reading
Free == Timers \ (Out \union timers \union {timeoutRef})

\* The first render starts the page's load in its effect.
LoadingInit ==
  /\ isLoading = FALSE /\ timedOut = FALSE
  /\ changing = {} /\ reading = {} /\ timers = {} /\ timeoutRef = 0 /\ overtaken = {}

\* A timer is set only if none is known.
StartLoading_keepsTheFirst(c) ==
  /\ isLoading' = TRUE /\ timedOut' = FALSE
  /\ timers' = IF timeoutRef = 0 THEN timers \union {c} ELSE timers
  /\ timeoutRef' = IF timeoutRef = 0 THEN c ELSE timeoutRef
  /\ overtaken' = (overtaken \intersect timers) \union Out

\* setLoading(true): the timer known so far is forgotten, not cleared
StartLoading(c) ==
  /\ isLoading' = TRUE /\ timedOut' = FALSE
  /\ timers' = timers \union {c} /\ timeoutRef' = c
  /\ overtaken' = (overtaken \intersect timers) \union Out

\* setLoading(false), for whichever call
StopLoading ==
  /\ isLoading' = FALSE
  /\ timers' = timers \ {timeoutRef} /\ timeoutRef' = 0
  /\ UNCHANGED timedOut

\* the effect on the filters, the interval while an execution is running
LoadPage ==
  /\ \E c \in Free : StartLoading(c) /\ reading' = reading \union {c}
  /\ UNCHANGED changing

\* a click: delete, enable, retry, cancel, copy
ChangeRow ==
  /\ \E c \in Free : StartLoading(c) /\ changing' = changing \union {c}
  /\ UNCHANGED reading

LoadEnds ==
  /\ \E c \in reading : reading' = reading \ {c}
  /\ StopLoading
  /\ UNCHANGED <<changing, overtaken>>

\* The body starts a load, and its own end then clears the timer of that load, ends
\* the flag, and leaves the change's own timer set.
ChangeEnds ==
  /\ \E c \in changing, l \in Free :
       changing' = changing \ {c} /\ reading' = reading \union {l}
  /\ isLoading' = FALSE /\ timedOut' = FALSE
  /\ timeoutRef' = 0 /\ overtaken' = (overtaken \intersect timers) \union Out
  /\ UNCHANGED timers

\* a change that the server refuses, or the run of a flow: no load
ChangeEndsAlone ==
  /\ \E c \in changing : changing' = changing \ {c}
  /\ StopLoading
  /\ UNCHANGED <<reading, overtaken>>

\* The timer is not a call's: the page stops loading, whatever is out.
Timeout ==
  /\ \E t \in timers : timers' = timers \ {t}
  /\ isLoading' = FALSE /\ timedOut' = TRUE
  /\ UNCHANGED <<changing, reading, timeoutRef, overtaken>>

LoadingNext ==
  \/ LoadPage \/ ChangeRow \/ LoadEnds \/ ChangeEnds \/ ChangeEndsAlone \/ Timeout

----------------------------------------------------------------------------
\* A page never loads for ever: while it says so, the timer that would stop it is set
\* and known.  And a timer that is left when its call has ended, to report a timeout of
\* nothing half a minute later, is that of a call during which another began, if only
\* the load a change starts itself.
LoadingIsTimed ==
  /\ isLoading => timeoutRef \in timers
  /\ timers \ Out \subseteq overtaken
=============================================================================
