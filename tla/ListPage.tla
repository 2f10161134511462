-------------------------------- MODULE ListPage --------------------------------
(* A list page of the web client (SchedulesList, ExecutionsList, FlowsList), the *)
(* requests its clicks start and the table of rows the server keeps.  The three  *)
(* pages are one shape: a load for each change of the filters, a click that asks *)
(* the server for a change and then loads again with the filters of the render   *)
(* it was clicked in, and the dialog's new row, put in front without a load.     *)
(* Requests go through ApiClient.request, which repeats a request after a        *)
(* network error, whatever its method, and gives up on a timeout or an answer    *)
(* that is an error.  Neither a network error nor the abort of a request stops   *)
(* the server, which may work on such a try later.  Nor is the table the page's  *)
(* own: the engine and other clients change it as well.                          *)
EXTENDS Naturals, Sequences

CONSTANTS Rows,      \* identifiers the server may give a row
          Retries,   \* how often a request is repeated (config.retries)
          MaxFlights \* bound: requests of the page at one time

ASSUME ListAssumption == Retries \in Nat /\ MaxFlights \in Nat

VARIABLES table,     \* the server's rows
          list,      \* the page's rows
          filter,    \* the page's filter: "all", or the enabled rows only
          fetches,   \* the requests in flight, in the order they were sent
          excused    \* history: the list may differ from the table, for a reason

listVars == <<table, list, filter, fetches, excused>>

Filters == {"all", "on"}
Matching(set, f) == {r \in set : f = "all" \/ r.on}

Flights == DOMAIN fetches
NoRow == [id |-> "none", on |-> FALSE]   \* a request about no row

\* answer: {} or the rows of it.  The last four fields are history: whether it met no
\* other, how often the server has applied it, whether a network error hid what became of
\* a try, and whether a later one has ended.
Request(op, row, f) ==
  [op |-> op, row |-> row, filter |-> f, phase |-> "asked", tries |-> 0, answer |-> {},
   alone |-> op = "load" /\ Flights = {}, applied |-> 0, lost |-> FALSE, overtaken |-> FALSE]

\* the first effect of the page loads it
ListInit ==
  /\ table \in {{}} \cup {{[id |-> i, on |-> TRUE]} : i \in Rows}
  /\ list = {} /\ filter = "all" /\ fetches = <<>> /\ excused = TRUE

Send(fetch) == Len(fetches) < MaxFlights /\ fetches' = Append(fetches, fetch)

----------------------------------------------------------------------------
(* The page *)

\* a change of the filters: the effect loads with the new ones
ChangeFilter ==
  /\ \E f \in Filters \ {filter} : filter' = f /\ Send(Request("load", NoRow, f))
  /\ UNCHANGED <<table, list, excused>>

\* the first load, the refresh button, the interval while an execution is running
Refresh ==
  /\ Send(Request("load", NoRow, filter))
  /\ UNCHANGED <<table, list, filter, excused>>

\* A click on a row that is shown: the row is the one of the last render.  Of a row that
\* is copied or run again the request needs no more than that it is shown.
ClickRow(op) ==
  /\ \E r \in Matching(list, filter) : Send(Request(op, IF op = "add" THEN NoRow ELSE r, filter))
  /\ UNCHANGED <<table, list, filter, excused>>

\* the creation dialog: its new row is put in front of the list, without a load
SubmitNew ==
  /\ Send(Request("new", NoRow, "all"))
  /\ UNCHANGED <<table, list, filter, excused>>

----------------------------------------------------------------------------
(* The server *)

Remove(q) == \E r \in table : r.id = q.row.id /\ table' = table \ {r}

\* enable or disable, by the state of the row as it was clicked
Toggle(q) ==
  \E r \in table : r.id = q.row.id /\ table' = (table \ {r}) \cup {[r EXCEPT !.on = ~q.row.on]}

\* a retried execution, a copy of a flow, a new schedule: one more row
NewRows == [id : Rows \ {r.id : r \in table}, on : {TRUE}]

Answered(c, answer, change) ==
  /\ fetches' = [fetches EXCEPT ![c].phase = "answered", ![c].answer = answer,
                                ![c].applied = @ + change]
  /\ excused' = (excused \/ \E d \in 1..(c - 1) : fetches[d].phase = "asked")

Asked(c, ops) == fetches[c].phase = "asked" /\ fetches[c].op \in ops

ServeLoad(c) ==
  /\ Asked(c, {"load"})
  /\ Answered(c, Matching(table, fetches[c].filter), 0)
  /\ UNCHANGED table

ServeRemove(c) == Asked(c, {"remove"}) /\ Remove(fetches[c]) /\ Answered(c, {}, 1)
ServeToggle(c) == Asked(c, {"toggle"}) /\ Toggle(fetches[c]) /\ Answered(c, {}, 1)
ServeAdd(c) ==
  /\ Asked(c, {"add", "new"})
  /\ \E new \in NewRows :
       /\ table' = table \cup {new}
       /\ Answered(c, IF fetches[c].op = "new" THEN {new} ELSE {}, 1)

Serve(c) ==
  /\ \/ ServeLoad(c) \/ ServeRemove(c) \/ ServeToggle(c) \/ ServeAdd(c)
  /\ UNCHANGED <<list, filter>>

\* The table changes by what the page does not know of: the answer of a load is old.
Unknown(f) == [d \in DOMAIN f |-> [f[d] EXCEPT !.alone = @ /\ f[d].phase = "asked"]]

\* The server works on a try that the client has given up.
Late(q) ==
  /\ q.applied < IF q.phase = "asked" THEN q.tries ELSE q.tries + 1
  /\ \/ q.op = "remove" /\ Remove(q)
     \/ q.op = "toggle" /\ Toggle(q)
     \/ q.op \in {"add", "new"} /\ \E new \in NewRows : table' = table \cup {new}
  /\ excused' = TRUE

ServeLate(c) ==
  /\ Late(fetches[c])
  /\ fetches' = Unknown([fetches EXCEPT ![c].applied = @ + 1])
  /\ UNCHANGED <<list, filter>>

\* The engine makes an execution or gives it another status; another client changes,
\* makes or removes a row; the server works on a try of a request that has ended here.
OthersChange ==
  /\ \/ \E r \in table : \/ table' = (table \ {r}) \cup {[r EXCEPT !.on = ~r.on]}
                         \/ table' = table \ {r}
     \/ \E new \in NewRows : table' = table \cup {new}
  /\ fetches' = Unknown(fetches) /\ excused' = TRUE
  /\ UNCHANGED <<list, filter>>

----------------------------------------------------------------------------
(* ApiClient.request *)

\* c has ended: it leaves, and those sent before it are overtaken
Landed(c) ==
  [d \in 1..(Len(fetches) - 1) |->
     IF d < c THEN [fetches[d] EXCEPT !.overtaken = TRUE] ELSE fetches[d + 1]]

\* the request is given up: a page whose load fails shows no rows
Throw(c) ==
  /\ fetches' = Landed(c)
  /\ list' = IF fetches[c].op = "load" THEN {} ELSE list
  /\ excused' = (excused \/ fetches[c].op = "load" \/ fetches[c].applied > 0)
  /\ UNCHANGED <<table, filter>>

\* Sent once more, after a wait: the server may have worked on the last try, may do so
\* later (ServeLate), or was never reached by it.
Resend(c, lost) ==
  /\ fetches[c].tries < Retries
  /\ fetches' = [fetches EXCEPT ![c].tries = @ + 1, ![c].phase = "asked", ![c].answer = {},
                                ![c].lost = @ \/ lost]
  /\ UNCHANGED <<table, list, filter, excused>>

\* a TypeError of fetch, before the server has worked or after it
NetworkError(c) ==
  \/ Resend(c, TRUE)
  \/ fetches[c].tries >= Retries /\ Throw(c)

\* mutant: a timeout is tried again as a network error is
GiveUp_retried(c) == Resend(c, FALSE) \/ Throw(c)

\* The abort of the controller is no TypeError, nor is an answer that is an error (a row
\* that is gone, a name that is taken, a failure inside): neither is tried again.
GiveUp(c) == Throw(c)

----------------------------------------------------------------------------
(* The answer reaches the page *)

Disordered(c) == c > 1 \/ fetches[c].overtaken

\* the load's rows replace the list, whatever was asked after it
ArriveLoad(c) ==
  /\ fetches[c].op = "load"
  /\ fetches' = Landed(c)
  /\ list' = fetches[c].answer
  /\ excused' = (\/ fetches[c].filter # filter
                 \/ Disordered(c)
                 \/ (excused /\ ~(fetches[c].alone /\ Flights = {c})))

\* mutant: the server's row is changed and the page not loaded again
ArriveChange_withoutLoad(c) ==
  /\ fetches[c].op \in {"remove", "toggle", "add"}
  /\ fetches' = Landed(c)
  /\ excused' = (excused \/ Disordered(c))
  /\ UNCHANGED list

\* the handler goes on in the render of its click: it loads with that filter
ArriveChange(c) ==
  /\ fetches[c].op \in {"remove", "toggle", "add"}
  /\ fetches' = Append(Landed(c), [Request("load", NoRow, fetches[c].filter)
                                    EXCEPT !.alone = Flights = {c}])
  /\ excused' = (excused \/ Disordered(c))
  /\ UNCHANGED list

\* the dialog knows the row of the last answer only
ArriveNew(c) ==
  /\ fetches[c].op = "new"
  /\ fetches' = Landed(c)
  /\ list' = fetches[c].answer \cup list
  /\ excused' = (excused \/ Disordered(c) \/ fetches[c].applied > 1)

Arrive(c) ==
  /\ fetches[c].phase = "answered"
  /\ ArriveLoad(c) \/ ArriveChange(c) \/ ArriveNew(c)
  /\ UNCHANGED <<table, filter>>

ListNext ==
  \/ ChangeFilter \/ Refresh \/ SubmitNew
  \/ \E op \in {"remove", "toggle", "add"} : ClickRow(op)
  \/ OthersChange
  \/ \E c \in Flights : Serve(c) \/ ServeLate(c) \/ NetworkError(c) \/ GiveUp(c) \/ Arrive(c)

----------------------------------------------------------------------------
(* A page at rest shows the server's rows under its filter, unless, since it was *)
(* last loaded by a request that met no other, a request was served or answered  *)
(* before one that was sent earlier, a handler loaded with the filter of an older*)
(* render, a load or a change the server had made was given up, a creation was   *)
(* repeated, the server worked on a try that the page had given up, or somebody  *)
(* else changed the table.                                                       *)
RowsAreTheTables ==
  fetches = <<>> /\ ~excused => Matching(list, filter) = Matching(table, filter)

(* The server works on a click more than once, on whichever of its tries and     *)
(* however late, only if a network error hid what had become of one, and never   *)
(* more often than the request is sent.                                          *)
ClickIsAppliedOnce ==
  \A c \in Flights : /\ fetches[c].applied > 1 => fetches[c].lost
                      /\ fetches[c].applied <= Retries + 1
==============================================================================
