------------------------------ MODULE ClientProofs ------------------------------
(* Proofs about the parts of the web client.  The parts share no state, and each  *)
(* is proved about by itself: for any number of rows, requests, flows, drawings,  *)
(* calls, types, executions and messages.                                         *)
EXTENDS ListPage, FlowBuilder, NodePalette, ScheduleForm, ExecutionDetails, LoadingState, TLAPS

-----------------------------------------------------------------------------
(***************************************************************************)
(* The list pages: a click is applied once.                                *)
(***************************************************************************)

ListSpec == ListInit /\ [][ListNext]_listVars

\* What counts of a request: the server has worked on each of its tries at most once,
\* and on the present one only if it is answered; the earlier ones were lost.
Sound(q) ==
  /\ q.phase \in {"asked", "answered"} /\ q.tries \in 0..Retries /\ q.applied \in Nat
  /\ q.tries > 0 => q.lost
  /\ LET before == IF q.phase = "asked" THEN 0 ELSE 1
     IN q.applied <= q.tries + before /\ (q.applied > before => q.lost)

\* What a request has to count by.
Fields(q) == {"phase", "tries", "applied", "lost"} \subseteq DOMAIN q

\* The requests are a list of sound ones.
Good(S) == \A q \in S : Fields(q) /\ Sound(q)
SoundInv == \E S : fetches \in Seq(S) /\ Good(S)

\* Making a request, answering it, repeating it, passing it by.
LEMMA RequestSound ==
  ASSUME NEW op, NEW r, NEW f, NEW a
  PROVE  /\ Fields(Request(op, r, f)) /\ Sound(Request(op, r, f))
         /\ Fields([Request(op, r, f) EXCEPT !.alone = a])
         /\ Sound([Request(op, r, f) EXCEPT !.alone = a])
<1>1. Retries \in Nat
  BY ListAssumption
<1> QED
  BY <1>1 DEF Request, Fields, Sound

LEMMA AnsweredSound ==
  ASSUME NEW q, Fields(q), Sound(q), q.phase = "asked", NEW a, NEW n \in {0, 1}
  PROVE  LET p == [q EXCEPT !.phase = "answered", !.answer = a, !.applied = @ + n]
         IN Fields(p) /\ Sound(p)
<1> DEFINE p == [q EXCEPT !.phase = "answered", !.answer = a, !.applied = @ + n]
<1>1. /\ p.phase = "answered" /\ p.tries = q.tries /\ p.applied = q.applied + n
      /\ p.lost = q.lost /\ DOMAIN p = DOMAIN q
  BY DEF Fields
<1>2. /\ q.tries \in 0..Retries /\ q.applied \in Nat /\ q.applied <= q.tries
      /\ q.applied > 0 => q.lost
      /\ q.tries > 0 => q.lost
  BY DEF Sound
<1>3. Retries \in Nat
  BY ListAssumption
<1> HIDE DEF p
<1>4. Fields(p)
  BY <1>1 DEF Fields
<1>5. Sound(p)
  BY <1>1, <1>2, <1>3 DEF Sound
<1> QED
  BY <1>4, <1>5 DEF p

LEMMA ResentSound ==
  ASSUME NEW q, Fields(q), Sound(q), q.tries < Retries
  PROVE  LET p == [q EXCEPT !.tries = @ + 1, !.phase = "asked", !.answer = {},
                            !.lost = @ \/ TRUE]
         IN Fields(p) /\ Sound(p)
<1> DEFINE p == [q EXCEPT !.tries = @ + 1, !.phase = "asked", !.answer = {}, !.lost = @ \/ TRUE]
<1>1. /\ p.phase = "asked" /\ p.tries = q.tries + 1 /\ p.applied = q.applied
      /\ p.lost = TRUE /\ DOMAIN p = DOMAIN q
  BY DEF Fields
<1>2. q.tries \in 0..Retries /\ q.applied \in Nat /\ q.applied <= q.tries + 1
  BY DEF Sound
<1>3. Retries \in Nat
  BY ListAssumption
<1> HIDE DEF p
<1>4. Fields(p)
  BY <1>1 DEF Fields
<1>5. Sound(p)
  BY <1>1, <1>2, <1>3 DEF Sound
<1> QED
  BY <1>4, <1>5 DEF p

\* An earlier try, if there is one, is worked on.
LEMMA LateSound ==
  ASSUME NEW q, Fields(q), Sound(q), q.applied < IF q.phase = "asked" THEN q.tries ELSE q.tries + 1
  PROVE  LET p == [q EXCEPT !.applied = @ + 1] IN Fields(p) /\ Sound(p)
<1> DEFINE p == [q EXCEPT !.applied = @ + 1]
<1>1. /\ p.phase = q.phase /\ p.tries = q.tries /\ p.applied = q.applied + 1
      /\ p.lost = q.lost /\ DOMAIN p = DOMAIN q
  BY DEF Fields
<1> HIDE DEF p
<1>2. Fields(p)
  BY <1>1 DEF Fields
<1>3. /\ q.phase \in {"asked", "answered"} /\ q.tries \in 0..Retries /\ q.applied \in Nat
      /\ q.tries > 0 => q.lost
  BY DEF Sound
<1>4. Retries \in Nat
  BY ListAssumption
<1>5. Sound(p)
  BY <1>1, <1>3, <1>4 DEF Sound
<1> QED
  BY <1>2, <1>5 DEF p

LEMMA OvertakenSound ==
  ASSUME NEW q, Fields(q), Sound(q)
  PROVE  Fields([q EXCEPT !.overtaken = TRUE]) /\ Sound([q EXCEPT !.overtaken = TRUE])
<1> DEFINE p == [q EXCEPT !.overtaken = TRUE]
<1>1. /\ p.phase = q.phase /\ p.tries = q.tries /\ p.applied = q.applied
      /\ p.lost = q.lost /\ DOMAIN p = DOMAIN q
  BY DEF Fields
<1> HIDE DEF p
<1>2. Fields(p) /\ Sound(p)
  BY <1>1 DEF Fields, Sound
<1> QED
  BY <1>2 DEF p

\* The three ways in which the requests change.
LEMMA OneMore ==
  ASSUME SoundInv, NEW q, Fields(q), Sound(q), fetches' = Append(fetches, q)
  PROVE  SoundInv'
<1>1. PICK S : fetches \in Seq(S) /\ Good(S)
  BY DEF SoundInv
<1>2. fetches' \in Seq(S \union {q}) /\ Good(S \union {q})
  BY <1>1 DEF Good
<1> QED
  BY <1>2 DEF SoundInv, Good

LEMMA OneChanged ==
  ASSUME SoundInv, NEW c \in Flights, NEW q, Fields(q), Sound(q),
         fetches' = [fetches EXCEPT ![c] = q]
  PROVE  SoundInv'
<1>1. PICK S : fetches \in Seq(S) /\ Good(S)
  BY DEF SoundInv
<1>2. fetches' \in Seq(S \union {q})
  BY <1>1 DEF Flights
<1>3. Good(S \union {q})
  BY <1>1 DEF Good
<1> QED
  BY <1>2, <1>3 DEF SoundInv, Good

LEMMA OneLess ==
  ASSUME SoundInv, NEW c \in Flights
  PROVE  \E S : Landed(c) \in Seq(S) /\ Good(S)
<1>1. PICK S : fetches \in Seq(S) /\ Good(S)
  BY DEF SoundInv
<1> DEFINE T == S \union {[q EXCEPT !.overtaken = TRUE] : q \in S}
<1>2. Good(T)
  BY <1>1, OvertakenSound DEF Good
<1>3. Len(fetches) \in Nat /\ DOMAIN fetches = 1..Len(fetches)
  BY <1>1
<1>4. Len(fetches) - 1 \in Nat
  BY <1>3 DEF Flights
<1>5. ASSUME NEW d \in 1..(Len(fetches) - 1)
      PROVE  (IF d < c THEN [fetches[d] EXCEPT !.overtaken = TRUE] ELSE fetches[d + 1]) \in T
  <2>1. fetches[d] \in S /\ fetches[d + 1] \in S
    BY <1>1, <1>3, <1>5
  <2> QED
    BY <2>1
<1> HIDE DEF T
<1>6. Landed(c) \in Seq(T)
  BY <1>4, <1>5 DEF Landed
<1> QED
  BY <1>2, <1>6

LEMMA UnknownSound ==
  ASSUME NEW S, NEW f \in Seq(S), Good(S), fetches' = Unknown(f)
  PROVE  SoundInv'
<1> DEFINE U(q) == [q EXCEPT !.alone = @ /\ q.phase = "asked"]
           T == {U(q) : q \in S}
<1>1. ASSUME NEW q \in S PROVE Fields(U(q)) /\ Sound(U(q))
  <2> DEFINE p == U(q)
  <2>1. /\ p.phase = q.phase /\ p.tries = q.tries /\ p.applied = q.applied
        /\ p.lost = q.lost /\ DOMAIN p = DOMAIN q
    BY DEF Good, Fields
  <2>2. Fields(q) /\ Sound(q)
    BY DEF Good
  <2> HIDE DEF p
  <2>3. Fields(p) /\ Sound(p)
    BY <2>1, <2>2 DEF Fields, Sound
  <2> QED
    BY <2>3 DEF p
<1>2. Good(T)
  BY <1>1 DEF Good
<1>3. ASSUME NEW d \in DOMAIN f PROVE U(f[d]) \in T
  <2>1. f[d] \in S
    OBVIOUS
  <2> HIDE DEF U
  <2> QED
    BY <2>1
<1>4. fetches' = [d \in 1..Len(f) |-> U(f[d])]
  BY DEF Unknown
<1> HIDE DEF U, T
<1>5. fetches' \in Seq(T)
  BY <1>3, <1>4
<1> QED
  BY <1>2, <1>5 DEF SoundInv, Good

LEMMA SoundInvStep == SoundInv /\ [ListNext]_listVars => SoundInv'
<1> SUFFICES ASSUME SoundInv, [ListNext]_listVars PROVE SoundInv'
  OBVIOUS
<1>1. ASSUME NEW c \in Flights PROVE Fields(fetches[c]) /\ Sound(fetches[c])
  <2>1. PICK S : fetches \in Seq(S) /\ Good(S)
    BY DEF SoundInv
  <2> QED
    BY <1>1, <2>1 DEF Flights, Good
<1>2. ASSUME NEW op, NEW r, NEW f, Send(Request(op, r, f)) PROVE SoundInv'
  BY <1>2, OneMore, RequestSound DEF Send
<1>3. ASSUME NEW c \in Flights, NEW a, NEW n \in {0, 1}, fetches[c].phase = "asked",
             Answered(c, a, n)
      PROVE  SoundInv'
  <2> DEFINE p == [fetches[c] EXCEPT !.phase = "answered", !.answer = a, !.applied = @ + n]
  <2>1. Fields(p) /\ Sound(p)
    BY <1>1, <1>3, AnsweredSound
  <2>2. fetches' = [fetches EXCEPT ![c] = p]
    BY <1>3 DEF Answered
  <2> HIDE DEF p
  <2> QED
    BY <2>1, <2>2, OneChanged
<1>4. ASSUME NEW c \in Flights, Serve(c) PROVE SoundInv'
  <2>1. fetches[c].phase = "asked" /\ \E a, n : n \in {0, 1} /\ Answered(c, a, n)
    BY <1>4 DEF Serve, ServeLoad, ServeRemove, ServeToggle, ServeAdd, Asked
  <2> QED
    BY <1>3, <2>1
<1>5. ASSUME NEW c \in Flights, fetches' = Landed(c) PROVE SoundInv'
  BY <1>5, OneLess DEF SoundInv, Good
<1>6. ASSUME NEW c \in Flights, NetworkError(c) PROVE SoundInv'
  <2>1. CASE Throw(c)
    BY <1>5, <2>1 DEF Throw
  <2>2. CASE Resend(c, TRUE)
    <3> DEFINE p == [fetches[c] EXCEPT !.tries = @ + 1, !.phase = "asked", !.answer = {},
                                       !.lost = @ \/ TRUE]
    <3>1. Fields(p) /\ Sound(p)
      BY <1>1, <2>2, ResentSound DEF Resend
    <3>2. fetches' = [fetches EXCEPT ![c] = p]
      BY <2>2 DEF Resend
    <3> HIDE DEF p
    <3> QED
      BY <3>1, <3>2, OneChanged
  <2> QED
    BY <1>6, <2>1, <2>2 DEF NetworkError
<1>7. ASSUME NEW c \in Flights, Arrive(c) PROVE SoundInv'
  <2>1. CASE fetches' = Landed(c)
    BY <1>5, <2>1
  <2>2. ASSUME NEW q, Fields(q), Sound(q), fetches' = Append(Landed(c), q) PROVE SoundInv'
    <3>1. PICK S : Landed(c) \in Seq(S) /\ Good(S)
      BY OneLess
    <3>2. fetches' \in Seq(S \union {q}) /\ Good(S \union {q})
      BY <2>2, <3>1 DEF Good
    <3> QED
      BY <3>2 DEF SoundInv, Good
  <2>3. CASE ArriveChange(c)
    <3> DEFINE q == [Request("load", NoRow, fetches[c].filter) EXCEPT !.alone = Flights = {c}]
    <3>1. Fields(q) /\ Sound(q)
      BY RequestSound
    <3>2. fetches' = Append(Landed(c), q)
      BY <2>3 DEF ArriveChange
    <3> HIDE DEF q
    <3> QED
      BY <2>2, <3>1, <3>2
  <2> QED
    BY <1>7, <2>1, <2>3 DEF Arrive, ArriveLoad, ArriveNew
<1>8. CASE UNCHANGED listVars
  BY <1>8 DEF listVars, SoundInv
<1>9. CASE OthersChange
  <2>1. fetches' = Unknown(fetches)
    BY <1>9 DEF OthersChange
  <2> QED
    BY <2>1, UnknownSound DEF SoundInv
<1>10. ASSUME NEW c \in Flights, ServeLate(c) PROVE SoundInv'
  <2> DEFINE p == [fetches[c] EXCEPT !.applied = @ + 1]
  <2>1. Fields(p) /\ Sound(p)
    BY <1>1, <1>10, LateSound DEF ServeLate, Late
  <2>2. fetches' = Unknown([fetches EXCEPT ![c] = p])
    BY <1>10 DEF ServeLate
  <2> HIDE DEF p
  <2>3. PICK S : fetches \in Seq(S) /\ Good(S)
    BY DEF SoundInv
  <2>4. [fetches EXCEPT ![c] = p] \in Seq(S \union {p}) /\ Good(S \union {p})
    BY <2>1, <2>3 DEF Flights, Good
  <2> QED
    BY <2>2, <2>4, UnknownSound
<1> QED
  BY <1>2, <1>4, <1>5, <1>6, <1>7, <1>8, <1>9, <1>10
  DEF ListNext, ChangeFilter, Refresh, SubmitNew, ClickRow, GiveUp, Throw

\* However requests are answered, lost, repeated, given up, passed by and worked on late:
\* the server works on a click more than once only if a network error hid what had become
\* of a try, and never more often than the client sends it.
THEOREM ClickIsAlwaysAppliedOnce == ListSpec => []ClickIsAppliedOnce
<1>1. ListInit => SoundInv
  <2>1. <<>> \in Seq({}) /\ Good({})
    BY DEF Good
  <2> QED
    BY <2>1 DEF ListInit, SoundInv
<1>2. SoundInv => ClickIsAppliedOnce
  <2> SUFFICES ASSUME SoundInv, NEW c \in Flights
               PROVE  /\ fetches[c].applied > 1 => fetches[c].lost
                      /\ fetches[c].applied <= Retries + 1
    BY DEF ClickIsAppliedOnce
  <2>1. PICK S : fetches \in Seq(S) /\ Good(S)
    BY DEF SoundInv
  <2>2. Sound(fetches[c])
    BY <2>1 DEF Flights, Good
  <2> QED
    BY <2>2, ListAssumption DEF Sound
<1> QED
  BY <1>1, <1>2, SoundInvStep, PTL DEF ListSpec
----------------------------------------------------------------------------
(***************************************************************************)
(* The list pages: a page at rest shows the rows of the table.             *)
(***************************************************************************)

AllFields == {"op", "row", "filter", "phase", "tries", "answer", "alone", "applied", "lost", "overtaken"}
Whole(q) ==
  /\ AllFields \subseteq DOMAIN q /\ q.phase \in {"asked", "answered"} /\ q.applied \in Nat
  /\ q.phase = "answered" /\ q.op # "load" => q.applied > 0
WholeInv == \A c \in Flights : Whole(fetches[c])

\* A change that the server has made for a request which is still under way: its answer
\* will load the page again.  Of a creation it is a second one, or one whose answer was
\* lost, and excuses the page when the request ends.
Dirty(q) ==
  \/ q.op \in {"remove", "toggle", "add"} /\ q.applied > 0
  \/ q.op = "new" /\ (q.applied > 1 \/ (q.applied = 1 /\ q.phase = "asked"))

\* What was known when c was answered is still to be replaced.
Doubt(c) == \E d \in Flights : (fetches[d].op = "load" /\ d > c) \/ Dirty(fetches[d])

\* The rows that answers after c will put in front.
IsNew(q) == q.op = "new" /\ q.phase = "answered"
News(c) == UNION {fetches[d].answer : d \in {e \in Flights : e > c /\ IsNew(fetches[e])}}
Agrees(set, f, c) == Matching(set \union News(c), f) = Matching(table, f)

\* The answer of a load, the page's own rows (as an answer before all others) and the
\* answer of a creation are true to the table, or in doubt.
LoadsInv == \A c \in Flights : fetches[c].op = "load" /\ fetches[c].phase = "answered" =>
              Doubt(c) \/ Agrees(fetches[c].answer, fetches[c].filter, c)
PageInv == Doubt(0) \/ Agrees(list, filter, 0)
NewsInv == \A c \in Flights : IsNew(fetches[c]) => Doubt(c) \/ fetches[c].answer \subseteq table

\* The server has worked in the order of the requests, but for what is asked again.
OrderInv == \A c, d \in Flights :
              d < c /\ fetches[c].phase = "answered" /\ fetches[d].phase = "asked" =>
                fetches[d].op = "load" \/ fetches[d].applied > 0

\* A load that met no other request and that none has passed tells what the table holds.
AloneInv == \A c \in Flights : fetches[c].alone =>
              /\ c = 1 /\ fetches[c].op = "load"
              /\ ~fetches[c].overtaken /\ fetches[c].phase = "answered" /\ Len(fetches) = 1 =>
                   fetches[c].answer = Matching(table, fetches[c].filter)

TrueInv == ~excused => LoadsInv /\ PageInv /\ NewsInv /\ OrderInv
TableInv == SoundInv /\ WholeInv /\ AloneInv /\ TrueInv

----------------------------------------------------------------------------
(* The three shapes of a change of the requests, position by position.           *)

LEMMA FlightsAre ==
  ASSUME SoundInv
  PROVE  Len(fetches) \in Nat /\ Flights = 1..Len(fetches)
BY DEF SoundInv, Flights

LEMMA AppendIs ==
  ASSUME SoundInv, NEW q, fetches' = Append(fetches, q)
  PROVE  /\ Len(fetches)' = Len(fetches) + 1 /\ Flights' = 1..(Len(fetches) + 1)
         /\ fetches'[Len(fetches) + 1] = q
         /\ \A d \in Flights : fetches'[d] = fetches[d]
BY DEF SoundInv, Flights

LEMMA ChangeIs ==
  ASSUME SoundInv, NEW c \in Flights, NEW q, fetches' = [fetches EXCEPT ![c] = q]
  PROVE  /\ Len(fetches)' = Len(fetches) /\ Flights' = Flights
         /\ fetches'[c] = q /\ \A d \in Flights \ {c} : fetches'[d] = fetches[d]
BY DEF SoundInv, Flights

\* All of a request but that it was overtaken.
Alike(p, q) ==
  /\ p.op = q.op /\ p.filter = q.filter /\ p.phase = q.phase /\ p.answer = q.answer
  /\ p.applied = q.applied /\ p.alone = q.alone /\ DOMAIN p = DOMAIN q

\* Where a request was before c has left.
Was(c, d) == IF d < c THEN d ELSE d + 1

LEMMA LandedIs ==
  ASSUME SoundInv, WholeInv, NEW c \in Flights
  PROVE  /\ Len(Landed(c)) = Len(fetches) - 1 /\ DOMAIN Landed(c) = 1..(Len(fetches) - 1)
         /\ Len(fetches) - 1 \in Nat /\ \E S : Landed(c) \in Seq(S)
         /\ \A d \in 1..(Len(fetches) - 1) :
              /\ Was(c, d) \in Flights \ {c} /\ Alike(Landed(c)[d], fetches[Was(c, d)])
              /\ Landed(c)[d].overtaken <=> d < c \/ fetches[Was(c, d)].overtaken
<1>1. Len(fetches) \in Nat /\ Flights = 1..Len(fetches) /\ Len(fetches) - 1 \in Nat
  BY FlightsAre
<1>2. PICK S : Landed(c) \in Seq(S)
  BY OneLess
<1>3. DOMAIN Landed(c) = 1..(Len(fetches) - 1)
  BY DEF Landed
<1>4. Len(Landed(c)) = Len(fetches) - 1
  BY <1>1, <1>2, <1>3
<1>5. ASSUME NEW d \in 1..(Len(fetches) - 1)
      PROVE  /\ Was(c, d) \in Flights \ {c} /\ Alike(Landed(c)[d], fetches[Was(c, d)])
             /\ Landed(c)[d].overtaken <=> d < c \/ fetches[Was(c, d)].overtaken
  <2>1. Was(c, d) \in Flights \ {c}
    BY <1>1 DEF Was
  <2>2. Landed(c)[d] = IF d < c THEN [fetches[d] EXCEPT !.overtaken = TRUE] ELSE fetches[d + 1]
    BY DEF Landed
  <2>3. CASE d < c
    <3>1. AllFields \subseteq DOMAIN fetches[d] /\ Was(c, d) = d
      BY <2>1, <2>3 DEF WholeInv, Whole, Was
    <3> QED BY <2>1, <2>2, <2>3, <3>1 DEF Alike, AllFields
  <2>4. CASE ~(d < c)
    BY <2>1, <2>2, <2>4 DEF Was, Alike
  <2> QED BY <2>3, <2>4
<1> QED BY <1>1, <1>2, <1>3, <1>4, <1>5

LEMMA UnknownLength ==
  ASSUME SoundInv, NEW f, DOMAIN f = Flights, fetches' = Unknown(f)
  PROVE  Len(fetches') = Len(fetches)
<1>1. Len(fetches) \in Nat /\ Flights = 1..Len(fetches)
  BY FlightsAre
<1> DEFINE U(d) == [f[d] EXCEPT !.alone = @ /\ f[d].phase = "asked"]
<1>2. fetches' = [d \in 1..Len(fetches) |-> U(d)]
  BY <1>1 DEF Unknown
<1> HIDE DEF U
<1>3. fetches' \in Seq({U(d) : d \in 1..Len(fetches)})
  BY <1>1, <1>2
<1>4. DOMAIN fetches' = 1..Len(fetches)
  BY <1>2
<1> QED
  BY <1>1, <1>3, <1>4

LEMMA NewsAre ==
  ASSUME NEW c, NEW r
  PROVE  r \in News(c) <=> \E d \in Flights : d > c /\ IsNew(fetches[d]) /\ r \in fetches[d].answer
BY DEF News

----------------------------------------------------------------------------
(* A request is sent.                                                            *)

LEMMA SentKeeps ==
  ASSUME TableInv, NEW q, Whole(q), q.phase = "asked", q.applied = 0,
         q.alone => q.op = "load" /\ Flights = {},
         fetches' = Append(fetches, q), UNCHANGED <<table, list, excused>>,
         q.op = "load" \/ filter' = filter
  PROVE  WholeInv' /\ AloneInv' /\ TrueInv'
<1> DEFINE n == Len(fetches)
<1> USE DEF TableInv
<1>1. n \in Nat /\ Flights = 1..n
  BY FlightsAre
<1>2. /\ Len(fetches)' = n + 1 /\ Flights' = 1..(n + 1) /\ fetches'[n + 1] = q
      /\ \A d \in Flights : fetches'[d] = fetches[d]
  BY AppendIs
<1> HIDE DEF n
<1>3. Flights' = Flights \union {n + 1} /\ n + 1 \notin Flights
  BY <1>1, <1>2
<1>4. WholeInv'
  <2> SUFFICES ASSUME NEW c \in Flights' PROVE Whole(fetches'[c])
    BY DEF WholeInv, Whole
  <2> QED
    BY <1>2, <1>3 DEF WholeInv
<1>5. AloneInv'
  <2> SUFFICES ASSUME NEW c \in Flights', fetches'[c].alone
               PROVE  /\ c = 1 /\ fetches'[c].op = "load"
                      /\ fetches'[c].phase = "answered" => Len(fetches)' # 1
    BY DEF AloneInv
  <2>1. CASE c = n + 1
    BY <1>1, <1>2, <2>1
  <2>2. CASE c \in Flights
    <3>1. fetches[c].alone /\ Len(fetches)' # 1
      BY <1>1, <1>2, <2>2
    <3> QED
      BY <1>2, <2>2, <3>1 DEF AloneInv
  <2> QED
    BY <1>3, <2>1, <2>2
<1>6. \A c : Doubt(c) => Doubt(c)'
  BY <1>2, <1>3 DEF Doubt, Dirty
<1>7. ASSUME NEW c PROVE News(c)' = News(c)
  <2> SUFFICES ASSUME NEW r PROVE r \in News(c)' <=> r \in News(c)
    OBVIOUS
  <2>1. r \in News(c)' <=> \E d \in Flights' : d > c /\ IsNew(fetches'[d]) /\ r \in fetches'[d].answer
    BY DEF News, IsNew
  <2>2. ~IsNew(q)
    BY DEF IsNew
  <2> QED
    BY <1>2, <1>3, <2>1, <2>2, NewsAre
<1>8. q.op = "load" => \A c \in Flights \union {0} : Doubt(c)'
  BY <1>1, <1>2, <1>3 DEF Doubt
<1>9. ASSUME ~excused' PROVE LoadsInv' /\ PageInv' /\ NewsInv' /\ OrderInv'
  <2>1. LoadsInv /\ PageInv /\ NewsInv /\ OrderInv
    BY <1>9 DEF TrueInv
  <2>2. LoadsInv'
    <3> SUFFICES ASSUME NEW c \in Flights', fetches'[c].op = "load", fetches'[c].phase = "answered"
                 PROVE  Doubt(c)' \/ Agrees(fetches[c].answer, fetches[c].filter, c)'
      BY DEF LoadsInv
    <3>1. c \in Flights /\ fetches'[c] = fetches[c]
      BY <1>2, <1>3
    <3> QED
      BY <1>6, <1>7, <2>1, <3>1 DEF LoadsInv, Agrees
  <2>3. PageInv'
    BY <1>6, <1>7, <1>8, <2>1 DEF PageInv, Agrees
  <2>4. NewsInv'
    <3> SUFFICES ASSUME NEW c \in Flights', IsNew(fetches'[c])
                 PROVE  Doubt(c)' \/ fetches'[c].answer \subseteq table'
      BY DEF NewsInv, IsNew
    <3>1. c \in Flights /\ fetches'[c] = fetches[c]
      BY <1>2, <1>3 DEF IsNew
    <3> QED
      BY <1>6, <2>1, <3>1 DEF NewsInv
  <2>5. OrderInv'
    <3> SUFFICES ASSUME NEW c \in Flights', NEW d \in Flights', d < c,
                        fetches'[c].phase = "answered", fetches'[d].phase = "asked"
                 PROVE  fetches'[d].op = "load" \/ fetches'[d].applied > 0
      BY DEF OrderInv
    <3>1. c \in Flights /\ d \in Flights
      BY <1>1, <1>2, <1>3
    <3> QED
      BY <1>2, <2>1, <3>1 DEF OrderInv
  <2> QED
    BY <2>2, <2>3, <2>4, <2>5
<1> QED
  BY <1>4, <1>5, <1>9 DEF TrueInv

----------------------------------------------------------------------------
(* A request leaves.                                                             *)

LEMMA WasOrder ==
  ASSUME NEW c \in Nat, NEW d \in Nat, NEW e \in Nat
  PROVE  /\ Was(c, d) \in Nat /\ (d < e <=> Was(c, d) < Was(c, e))
         /\ Was(c, d) # c
         /\ c > 0 => Was(c, 0) = 0
BY DEF Was

LEMMA WasAll ==
  ASSUME NEW c \in Nat, NEW n \in Nat, NEW d \in (1..n) \ {c}, c \in 1..n
  PROVE  \E e \in 1..(n - 1) : Was(c, e) = d
<1>1. CASE d < c
  BY <1>1 DEF Was
<1>2. CASE d > c
  <2>1. d - 1 \in 1..(n - 1) /\ Was(c, d - 1) = d
    BY <1>2 DEF Was
  <2> QED
    BY <2>1
<1> QED
  BY <1>1, <1>2

LEMMA AlikeIs ==
  ASSUME NEW p, NEW q, Alike(p, q)
  PROVE  /\ Whole(q) => Whole(p)
         /\ Dirty(p) <=> Dirty(q)
         /\ IsNew(p) <=> IsNew(q)
BY DEF Alike, Whole, Dirty, IsNew

\* What holds of the requests that stay, whoever leaves.
LEMMA LeavingIs ==
  ASSUME SoundInv, WholeInv, NEW c \in Flights, fetches' = Landed(c)
  PROVE  /\ Len(fetches) \in Nat /\ Len(fetches) - 1 \in Nat /\ Flights = 1..Len(fetches)
         /\ Len(fetches)' = Len(fetches) - 1 /\ Flights' = 1..(Len(fetches) - 1)
         /\ \A d \in Flights' :
              /\ Was(c, d) \in Flights \ {c} /\ Alike(fetches'[d], fetches[Was(c, d)])
              /\ fetches'[d].overtaken <=> d < c \/ fetches[Was(c, d)].overtaken
<1>1. Len(fetches) \in Nat /\ Flights = 1..Len(fetches)
  BY FlightsAre
<1>2. Flights' = 1..(Len(fetches) - 1)
  BY LandedIs DEF Flights
<1> QED
  BY <1>1, <1>2, LandedIs

LEMMA LeavingKeeps ==
  ASSUME SoundInv, WholeInv, AloneInv, NEW c \in Flights, fetches' = Landed(c)
  PROVE  WholeInv' /\ AloneInv' /\ (OrderInv => OrderInv')
<1>1. WholeInv'
  <2> SUFFICES ASSUME NEW d \in Flights' PROVE Whole(fetches'[d])
    BY DEF WholeInv, Whole
  <2> QED
    BY LeavingIs, AlikeIs DEF WholeInv
<1>2. AloneInv'
  <2> SUFFICES ASSUME NEW d \in Flights', fetches'[d].alone
               PROVE  d = 1 /\ fetches'[d].op = "load" /\ fetches'[d].overtaken
    BY DEF AloneInv
  <2>1. /\ Was(c, d) \in Flights /\ fetches'[d].op = fetches[Was(c, d)].op
        /\ fetches[Was(c, d)].alone
    BY LeavingIs DEF Alike
  <2>2. Was(c, d) = 1 /\ fetches[Was(c, d)].op = "load"
    BY <2>1 DEF AloneInv
  <2>3. d \in Nat /\ d > 0 /\ c \in Nat
    BY LeavingIs
  <2>4. d = 1 /\ d < c
    BY <2>2, <2>3 DEF Was
  <2> QED
    BY <2>1, <2>2, <2>4, LeavingIs
<1>3. ASSUME OrderInv PROVE OrderInv'
  <2> SUFFICES ASSUME NEW e \in Flights', NEW d \in Flights', d < e,
                      fetches'[e].phase = "answered", fetches'[d].phase = "asked"
               PROVE  fetches'[d].op = "load" \/ fetches'[d].applied > 0
    BY DEF OrderInv
  <2>1. d \in Nat /\ e \in Nat /\ c \in Nat
    BY LeavingIs
  <2>2. /\ Was(c, d) \in Flights /\ Was(c, e) \in Flights /\ Was(c, d) < Was(c, e)
    BY <2>1, WasOrder, LeavingIs
  <2>3. Alike(fetches'[d], fetches[Was(c, d)]) /\ Alike(fetches'[e], fetches[Was(c, e)])
    BY LeavingIs
  <2> QED
    BY <1>3, <2>2, <2>3 DEF OrderInv, Alike
<1> QED
  BY <1>1, <1>2, <1>3

LEMMA LeavingDoubt ==
  ASSUME SoundInv, WholeInv, NEW c \in Flights, fetches' = Landed(c),
         NEW e \in 0..(Len(fetches) - 1), Doubt(Was(c, e)), ~Dirty(fetches[c]),
         fetches[c].op = "load" => c <= Was(c, e)
  PROVE  Doubt(e)'
<1>1. /\ Len(fetches) \in Nat /\ Flights = 1..Len(fetches) /\ Flights' = 1..(Len(fetches) - 1)
      /\ c \in Nat /\ e \in Nat /\ Was(c, e) \in Nat
  <2>1. /\ Len(fetches) \in Nat /\ Flights = 1..Len(fetches) /\ Flights' = 1..(Len(fetches) - 1)
        /\ c \in Nat /\ e \in Nat
    BY LeavingIs
  <2> QED
    BY <2>1, WasOrder
<1>2. PICK d \in Flights : (fetches[d].op = "load" /\ d > Was(c, e)) \/ Dirty(fetches[d])
  BY DEF Doubt
<1>3. d # c
  BY <1>1, <1>2
<1>4. PICK f \in 1..(Len(fetches) - 1) : Was(c, f) = d
  BY <1>1, <1>3, WasAll
<1>5. f \in Flights' /\ f \in Nat /\ Alike(fetches'[f], fetches[d])
  BY <1>1, <1>4, LeavingIs
<1>6. d > Was(c, e) => f > e
  BY <1>1, <1>4, <1>5, WasOrder
<1>7. CASE fetches[d].op = "load" /\ d > Was(c, e)
  <2>1. fetches'[f].op = "load" /\ f > e
    BY <1>5, <1>6, <1>7 DEF Alike
  <2> QED
    BY <1>5, <2>1 DEF Doubt
<1>8. CASE Dirty(fetches[d])
  <2>1. Dirty(fetches'[f])
    BY <1>5, <1>8, AlikeIs
  <2> QED
    BY <1>5, <2>1 DEF Doubt, Dirty
<1> QED
  BY <1>2, <1>7, <1>8

LEMMA LeavingNews ==
  ASSUME SoundInv, WholeInv, NEW c \in Flights, fetches' = Landed(c),
         NEW e \in 0..(Len(fetches) - 1)
  PROVE  News(Was(c, e)) = News(e)' \union
                           (IF IsNew(fetches[c]) /\ c > Was(c, e) THEN fetches[c].answer ELSE {})
<1> SUFFICES ASSUME NEW r
             PROVE  r \in News(Was(c, e)) <=>
                      \/ r \in News(e)'
                      \/ IsNew(fetches[c]) /\ c > Was(c, e) /\ r \in fetches[c].answer
  OBVIOUS
<1>1. /\ Len(fetches) \in Nat /\ Flights = 1..Len(fetches) /\ Flights' = 1..(Len(fetches) - 1)
      /\ c \in Nat /\ e \in Nat /\ Was(c, e) \in Nat
  <2>1. /\ Len(fetches) \in Nat /\ Flights = 1..Len(fetches) /\ Flights' = 1..(Len(fetches) - 1)
        /\ c \in Nat /\ e \in Nat
    BY LeavingIs
  <2> QED
    BY <2>1, WasOrder
<1>2. r \in News(e)' <=> \E d \in Flights' : d > e /\ IsNew(fetches'[d]) /\ r \in fetches'[d].answer
  BY DEF News, IsNew
<1>3. r \in News(Was(c, e)) <=>
        \E d \in Flights : d > Was(c, e) /\ IsNew(fetches[d]) /\ r \in fetches[d].answer
  BY NewsAre
<1>4. ASSUME NEW d \in Flights'
      PROVE  /\ Was(c, d) \in Flights \ {c} /\ (d > e <=> Was(c, d) > Was(c, e))
             /\ IsNew(fetches'[d]) <=> IsNew(fetches[Was(c, d)])
             /\ fetches'[d].answer = fetches[Was(c, d)].answer
  <2>1. Was(c, d) \in Flights \ {c} /\ Alike(fetches'[d], fetches[Was(c, d)])
    BY LeavingIs
  <2>2. d \in Nat
    BY <1>1
  <2>3. d > e <=> Was(c, d) > Was(c, e)
    BY <1>1, <2>2, WasOrder
  <2> QED
    BY <2>1, <2>3, AlikeIs DEF Alike
<1>5. ASSUME NEW d \in Flights \ {c} PROVE \E f \in Flights' : Was(c, f) = d
  BY <1>1, WasAll
<1> QED
  BY <1>2, <1>3, <1>4, <1>5

\* c leaves and neither reloads the page nor is awaited: what is told of the answers
\* of those that stay does not change.
LEMMA LeavingTells ==
  ASSUME SoundInv, WholeInv, NEW c \in Flights, fetches' = Landed(c), table' = table,
         ~Dirty(fetches[c]), c = 1 \/ ~(fetches[c].op = "load" \/ IsNew(fetches[c])),
         LoadsInv, NewsInv
  PROVE  LoadsInv' /\ NewsInv'
<1>1. /\ Len(fetches) \in Nat /\ Flights = 1..Len(fetches) /\ Flights' = 1..(Len(fetches) - 1)
      /\ c \in Nat
  BY LeavingIs
<1>2. ASSUME NEW e \in Flights'
      PROVE  /\ Was(c, e) \in Flights /\ Alike(fetches'[e], fetches[Was(c, e)])
             /\ Doubt(Was(c, e)) => Doubt(e)'
             /\ News(e)' = News(Was(c, e))
  <2>1. e \in 0..(Len(fetches) - 1) /\ e > 0
    BY <1>1
  <2>2. c = 1 => c <= Was(c, e)
    BY <2>1 DEF Was
  <2>3. News(e)' = News(Was(c, e))
    <3>1. ~(IsNew(fetches[c]) /\ c > Was(c, e))
      BY <1>1, <2>1, <2>2 DEF Was
    <3> QED
      BY <2>1, <3>1, LeavingNews
  <2> QED
    BY <2>1, <2>2, <2>3, LeavingIs, LeavingDoubt
<1>3. LoadsInv'
  <2> SUFFICES ASSUME NEW e \in Flights', fetches'[e].op = "load", fetches'[e].phase = "answered"
               PROVE  Doubt(e)' \/ Agrees(fetches[e].answer, fetches[e].filter, e)'
    BY DEF LoadsInv
  <2> DEFINE q == fetches[Was(c, e)]
  <2>1. q.op = "load" /\ q.phase = "answered" /\ q.answer = fetches'[e].answer /\ q.filter = fetches'[e].filter
    BY <1>2 DEF Alike
  <2>2. Doubt(Was(c, e)) \/ Agrees(q.answer, q.filter, Was(c, e))
    BY <1>2, <2>1 DEF LoadsInv
  <2> HIDE DEF q
  <2> QED
    BY <1>2, <2>1, <2>2 DEF Agrees, Matching
<1>4. NewsInv'
  <2> SUFFICES ASSUME NEW e \in Flights', IsNew(fetches'[e])
               PROVE  Doubt(e)' \/ fetches'[e].answer \subseteq table'
    BY DEF NewsInv, IsNew
  <2>1. IsNew(fetches[Was(c, e)]) /\ fetches[Was(c, e)].answer = fetches'[e].answer
    BY <1>2, AlikeIs DEF Alike
  <2> QED
    BY <1>2, <2>1 DEF NewsInv
<1> QED
  BY <1>3, <1>4

----------------------------------------------------------------------------
(* A request changes.                                                            *)

LEMMA ChangedDoubt ==
  ASSUME SoundInv, NEW c \in Flights, NEW q, fetches' = [fetches EXCEPT ![c] = q],
         q.op = fetches[c].op
  PROVE  /\ (Dirty(fetches[c]) => Dirty(q)) => \A e : Doubt(e) => Doubt(e)'
         /\ Dirty(q) => LoadsInv' /\ PageInv' /\ NewsInv'
<1>1. /\ Flights' = Flights /\ fetches'[c] = q
      /\ \A d \in Flights \ {c} : fetches'[d] = fetches[d]
  BY ChangeIs
<1>2. ASSUME NEW e, Doubt(e), Dirty(fetches[c]) => Dirty(q) PROVE Doubt(e)'
  <2>1. PICK d \in Flights : (fetches[d].op = "load" /\ d > e) \/ Dirty(fetches[d])
    BY <1>2 DEF Doubt
  <2>2. (fetches'[d].op = "load" /\ d > e) \/ Dirty(fetches'[d])
    BY <1>1, <1>2, <2>1
  <2> QED
    BY <1>1, <2>2 DEF Doubt, Dirty
<1>3. ASSUME Dirty(q), NEW e PROVE Doubt(e)'
  <2>1. c \in Flights' /\ Dirty(fetches'[c])
    BY <1>1, <1>3
  <2> QED
    BY <2>1 DEF Doubt, Dirty
<1>4. ASSUME Dirty(q) PROVE LoadsInv' /\ PageInv' /\ NewsInv'
  BY <1>3, <1>4 DEF LoadsInv, PageInv, NewsInv
<1> QED
  BY <1>2, <1>4

LEMMA ChangedNews ==
  ASSUME SoundInv, NEW c \in Flights, NEW q, fetches' = [fetches EXCEPT ![c] = q],
         ~IsNew(fetches[c]), NEW e
  PROVE  News(e)' = News(e) \union (IF IsNew(q) /\ c > e THEN q.answer ELSE {})
<1> SUFFICES ASSUME NEW r
             PROVE  r \in News(e)' <=> \/ r \in News(e)
                                       \/ IsNew(q) /\ c > e /\ r \in q.answer
  OBVIOUS
<1>1. /\ Flights' = Flights /\ fetches'[c] = q
      /\ \A d \in Flights \ {c} : fetches'[d] = fetches[d]
  BY ChangeIs
<1>2. r \in News(e)' <=> \E d \in Flights' : d > e /\ IsNew(fetches'[d]) /\ r \in fetches'[d].answer
  BY DEF News, IsNew
<1>3. r \in News(e) <=> \E d \in Flights : d > e /\ IsNew(fetches[d]) /\ r \in fetches[d].answer
  BY NewsAre
<1> QED
  BY <1>1, <1>2, <1>3

\* What an answer, or asking again, leaves of a request.
Kin(p, q) ==
  /\ p.op = q.op /\ p.filter = q.filter /\ p.alone = q.alone /\ p.overtaken = q.overtaken
  /\ DOMAIN p = DOMAIN q

LEMMA AnsweredIs ==
  ASSUME WholeInv, NEW c \in Flights, NEW a, NEW k \in {0, 1}, Answered(c, a, k),
         k = 0 <=> fetches[c].op = "load"
  PROVE  \E q : /\ fetches' = [fetches EXCEPT ![c] = q] /\ Kin(q, fetches[c]) /\ Whole(q)
                /\ q.phase = "answered" /\ q.answer = a /\ q.applied = fetches[c].applied + k
<1> DEFINE q == [fetches[c] EXCEPT !.phase = "answered", !.answer = a, !.applied = @ + k]
<1>1. Whole(fetches[c])
  BY DEF WholeInv
<1>2. fetches' = [fetches EXCEPT ![c] = q]
  BY DEF Answered
<1>3. AllFields \subseteq DOMAIN fetches[c] /\ DOMAIN q = DOMAIN fetches[c]
  BY <1>1 DEF Whole
<1>4. /\ q.phase = "answered" /\ q.answer = a /\ q.applied = fetches[c].applied + k
      /\ q.op = fetches[c].op /\ q.filter = fetches[c].filter
      /\ q.alone = fetches[c].alone /\ q.overtaken = fetches[c].overtaken
  BY <1>3 DEF AllFields
<1> HIDE DEF q
<1>5. Kin(q, fetches[c])
  BY <1>3, <1>4 DEF Kin
<1>6. Whole(q)
  BY <1>1, <1>3, <1>4 DEF Whole
<1> QED
  BY <1>2, <1>4, <1>5, <1>6

LEMMA ResentIs ==
  ASSUME WholeInv, NEW c \in Flights, NEW l, Resend(c, l)
  PROVE  \E q : /\ fetches' = [fetches EXCEPT ![c] = q] /\ Kin(q, fetches[c]) /\ Whole(q)
                /\ q.phase = "asked" /\ q.applied = fetches[c].applied
<1> DEFINE q == [fetches[c] EXCEPT !.tries = @ + 1, !.phase = "asked", !.answer = {},
                                   !.lost = @ \/ l]
<1>1. Whole(fetches[c])
  BY DEF WholeInv
<1>2. fetches' = [fetches EXCEPT ![c] = q]
  BY DEF Resend
<1>3. AllFields \subseteq DOMAIN fetches[c] /\ DOMAIN q = DOMAIN fetches[c]
  BY <1>1 DEF Whole
<1>4. /\ q.phase = "asked" /\ q.applied = fetches[c].applied
      /\ q.op = fetches[c].op /\ q.filter = fetches[c].filter
      /\ q.alone = fetches[c].alone /\ q.overtaken = fetches[c].overtaken
  BY <1>3 DEF AllFields
<1> HIDE DEF q
<1>5. Kin(q, fetches[c])
  BY <1>3, <1>4 DEF Kin
<1>6. Whole(q)
  BY <1>1, <1>3, <1>4 DEF Whole
<1> QED
  BY <1>2, <1>4, <1>5, <1>6

LEMMA ChangedWhole ==
  ASSUME SoundInv, WholeInv, NEW c \in Flights, NEW q, fetches' = [fetches EXCEPT ![c] = q],
         Whole(q)
  PROVE  WholeInv'
<1>1. /\ Flights' = Flights /\ fetches'[c] = q
      /\ \A d \in Flights \ {c} : fetches'[d] = fetches[d]
  BY ChangeIs
<1> SUFFICES ASSUME NEW d \in Flights' PROVE Whole(fetches'[d])
  BY DEF WholeInv, Whole
<1> QED
  BY <1>1 DEF WholeInv

\* The only request of a page, if it is a load, is the one that changes.
LEMMA ChangedAlone ==
  ASSUME SoundInv, AloneInv, NEW c \in Flights, NEW q, fetches' = [fetches EXCEPT ![c] = q],
         Kin(q, fetches[c]),
         q.op = "load" /\ q.phase = "answered" => q.answer = Matching(table', q.filter),
         q.op = "load" => table' = table
  PROVE  AloneInv'
<1>1. /\ Len(fetches)' = Len(fetches) /\ Flights' = Flights /\ fetches'[c] = q
      /\ \A d \in Flights \ {c} : fetches'[d] = fetches[d]
  BY ChangeIs
<1> SUFFICES ASSUME NEW d \in Flights', fetches'[d].alone
             PROVE  /\ d = 1 /\ fetches'[d].op = "load"
                    /\ ~fetches'[d].overtaken /\ fetches'[d].phase = "answered" /\ Len(fetches)' = 1 =>
                         fetches'[d].answer = Matching(table', fetches'[d].filter)
  BY DEF AloneInv, Matching
<1>2. d \in Flights /\ fetches[d].alone /\ fetches'[d].op = fetches[d].op
  BY <1>1 DEF Kin
<1>3. d = 1 /\ fetches[d].op = "load"
  BY <1>2 DEF AloneInv
<1>4. CASE d = c
  BY <1>1, <1>2, <1>3, <1>4 DEF Kin
<1>5. CASE d # c
  <2>1. Len(fetches)' # 1
    BY <1>1, <1>2, <1>3, <1>5, FlightsAre
  <2> QED
    BY <1>2, <1>3, <2>1
<1> QED
  BY <1>4, <1>5

LEMMA ChangedOrder ==
  ASSUME SoundInv, OrderInv, NEW c \in Flights, NEW q, fetches' = [fetches EXCEPT ![c] = q],
         q.op = fetches[c].op,
         \/ q.phase = "answered" /\ \A d \in 1..(c - 1) : fetches[d].phase # "asked"
         \/ /\ q.phase = "asked" /\ q.applied = fetches[c].applied /\ Whole(fetches[c])
  PROVE  OrderInv'
<1>1. /\ Flights' = Flights /\ fetches'[c] = q
      /\ \A d \in Flights \ {c} : fetches'[d] = fetches[d]
  BY ChangeIs
<1> SUFFICES ASSUME NEW e \in Flights', NEW d \in Flights', d < e,
                    fetches'[e].phase = "answered", fetches'[d].phase = "asked"
             PROVE  fetches'[d].op = "load" \/ fetches'[d].applied > 0
  BY DEF OrderInv
<1>2. d \in Flights /\ e \in Flights /\ Flights = 1..Len(fetches) /\ Len(fetches) \in Nat
  BY <1>1, FlightsAre
<1>3. CASE e = c
  <2>1. d # c /\ d \in 1..(c - 1) /\ fetches[d].phase = "asked"
    BY <1>1, <1>2, <1>3
  <2> QED
    BY <1>1, <1>3, <2>1
<1>4. CASE e # c /\ d = c
  <2>1. q.phase = "asked" /\ fetches[e].phase = "answered"
    BY <1>1, <1>2, <1>4
  <2>2. CASE fetches[c].phase = "asked"
    BY <1>1, <1>2, <1>4, <2>1, <2>2 DEF OrderInv
  <2>3. CASE fetches[c].phase = "answered"
    BY <1>1, <1>4, <2>1, <2>3 DEF Whole
  <2> QED
    BY <2>1, <2>2, <2>3 DEF Whole
<1>5. CASE e # c /\ d # c
  BY <1>1, <1>2, <1>5 DEF OrderInv
<1> QED
  BY <1>3, <1>4, <1>5

----------------------------------------------------------------------------
(* The steps.                                                                    *)

LEMMA LoadServedKeeps ==
  ASSUME TableInv, NEW c \in Flights, ServeLoad(c), UNCHANGED <<list, filter>>
  PROVE  WholeInv' /\ AloneInv' /\ TrueInv'
<1> USE DEF TableInv
<1> DEFINE a == Matching(table, fetches[c].filter)
<1>1. fetches[c].op = "load" /\ fetches[c].phase = "asked" /\ Answered(c, a, 0) /\ table' = table
  BY DEF ServeLoad, Asked
<1> HIDE DEF a
<1>2. PICK q : /\ fetches' = [fetches EXCEPT ![c] = q] /\ Kin(q, fetches[c]) /\ Whole(q)
               /\ q.phase = "answered" /\ q.answer = a /\ q.applied = fetches[c].applied + 0
  BY <1>1, AnsweredIs
<1>3. /\ Flights' = Flights /\ fetches'[c] = q
      /\ \A d \in Flights \ {c} : fetches'[d] = fetches[d]
  BY <1>2, ChangeIs
<1>4. q.op = "load" /\ q.filter = fetches[c].filter /\ ~Dirty(fetches[c]) /\ ~IsNew(fetches[c])
  BY <1>1, <1>2 DEF Kin, Dirty, IsNew
<1>5. WholeInv'
  BY <1>2, ChangedWhole
<1>6. AloneInv'
  <2>1. q.answer = Matching(table', q.filter)
    BY <1>1, <1>2, <1>4 DEF a
  <2> QED
    BY <1>1, <1>2, <2>1, ChangedAlone
<1>7. ASSUME ~excused' PROVE LoadsInv' /\ PageInv' /\ NewsInv' /\ OrderInv'
  <2>1. ~excused /\ \A d \in 1..(c - 1) : fetches[d].phase # "asked"
    BY <1>1, <1>7 DEF Answered
  <2>2. LoadsInv /\ PageInv /\ NewsInv /\ OrderInv
    BY <2>1 DEF TrueInv
  <2>3. \A e : Doubt(e) => Doubt(e)'
    BY <1>1, <1>2, <1>4, ChangedDoubt
  <2>4. ASSUME NEW e PROVE News(e)' = News(e)
    <3>1. ~IsNew(q)
      BY <1>4 DEF IsNew
    <3> QED
      BY <1>2, <1>4, <3>1, ChangedNews
  <2>5. LoadsInv'
    <3> SUFFICES ASSUME NEW e \in Flights', fetches'[e].op = "load", fetches'[e].phase = "answered"
                 PROVE  Doubt(e)' \/ Agrees(fetches[e].answer, fetches[e].filter, e)'
      BY DEF LoadsInv
    <3>1. CASE e # c
      <4>1. e \in Flights /\ fetches'[e] = fetches[e]
        BY <1>3, <3>1
      <4> QED
        BY <1>1, <2>2, <2>3, <2>4, <4>1 DEF LoadsInv, Agrees, Matching
    <3>2. CASE e = c /\ ~Doubt(c)
      <4>1. News(c) \subseteq table
        <5> SUFFICES ASSUME NEW r, r \in News(c) PROVE r \in table
          OBVIOUS
        <5>1. PICK d \in Flights : d > c /\ IsNew(fetches[d]) /\ r \in fetches[d].answer
          BY NewsAre
        <5>2. ~Doubt(d)
          <6>1. Flights = 1..Len(fetches) /\ Len(fetches) \in Nat
            BY FlightsAre
          <6> QED
            BY <3>2, <5>1, <6>1 DEF Doubt
        <5> QED
          BY <2>2, <5>1, <5>2 DEF NewsInv
      <4>2. fetches'[e].answer = Matching(table, fetches'[e].filter)
        BY <1>2, <1>3, <1>4, <3>2 DEF a
      <4> QED
        BY <1>1, <2>4, <3>2, <4>1, <4>2 DEF Agrees, Matching
    <3> QED
      BY <2>3, <3>1, <3>2
  <2>6. PageInv'
    BY <1>1, <2>2, <2>3, <2>4 DEF PageInv, Agrees, Matching
  <2>7. NewsInv'
    <3> SUFFICES ASSUME NEW e \in Flights', IsNew(fetches'[e])
                 PROVE  Doubt(e)' \/ fetches'[e].answer \subseteq table'
      BY DEF NewsInv, IsNew
    <3>1. e # c
      BY <1>3, <1>4 DEF IsNew
    <3> QED
      BY <1>1, <1>3, <2>2, <2>3, <3>1 DEF NewsInv
  <2>8. OrderInv'
    BY <1>2, <2>1, <2>2, ChangedOrder DEF Kin
  <2> QED
    BY <2>5, <2>6, <2>7, <2>8
<1> QED
  BY <1>5, <1>6, <1>7 DEF TrueInv

\* A change of the table: by a request that has not been applied, in doubt or not.
LEMMA ChangeServedKeeps ==
  ASSUME TableInv, NEW c \in Flights, NEW a, UNCHANGED <<list, filter>>,
         Asked(c, {"remove", "toggle", "add", "new"}), Answered(c, a, 1),
         fetches[c].op = "new" => table' = table \union a
  PROVE  WholeInv' /\ AloneInv' /\ TrueInv'
<1> USE DEF TableInv
<1>1. fetches[c].op \in {"remove", "toggle", "add", "new"} /\ fetches[c].phase = "asked"
  BY DEF Asked
<1>2. PICK q : /\ fetches' = [fetches EXCEPT ![c] = q] /\ Kin(q, fetches[c]) /\ Whole(q)
               /\ q.phase = "answered" /\ q.answer = a /\ q.applied = fetches[c].applied + 1
  BY <1>1, AnsweredIs
<1>3. /\ Flights' = Flights /\ fetches'[c] = q
      /\ \A d \in Flights \ {c} : fetches'[d] = fetches[d]
  BY <1>2, ChangeIs
<1>4. q.op = fetches[c].op /\ q.op # "load" /\ fetches[c].applied \in Nat /\ ~IsNew(fetches[c])
  BY <1>1, <1>2 DEF Kin, IsNew, WholeInv, Whole
<1>5. WholeInv'
  BY <1>2, ChangedWhole
<1>6. AloneInv'
  BY <1>2, <1>4, ChangedAlone
<1>7. ASSUME ~excused' PROVE LoadsInv' /\ PageInv' /\ NewsInv' /\ OrderInv'
  <2>1. ~excused /\ \A d \in 1..(c - 1) : fetches[d].phase # "asked"
    BY <1>7 DEF Answered
  <2>2. LoadsInv /\ PageInv /\ NewsInv /\ OrderInv
    BY <2>1 DEF TrueInv
  <2>3. OrderInv'
    BY <1>2, <1>4, <2>1, <2>2, ChangedOrder
  <2>4. CASE Dirty(q)
    BY <1>2, <1>4, <2>3, <2>4, ChangedDoubt
  <2>5. CASE ~Dirty(q)
    <3>1. q.op = "new" /\ fetches[c].applied = 0 /\ IsNew(q)
      BY <1>1, <1>2, <1>4, <2>5 DEF Dirty, IsNew
    <3>2. table' = table \union a
      BY <1>4, <3>1
    <3>3. \A e : Doubt(e) => Doubt(e)'
      <4>1. ~Dirty(fetches[c])
        BY <1>1, <1>4, <3>1 DEF Dirty
      <4> QED
        BY <1>2, <1>4, <4>1, ChangedDoubt
    <3>4. ASSUME NEW e PROVE News(e)' = News(e) \union (IF c > e THEN a ELSE {})
      BY <1>2, <1>4, <3>1, ChangedNews
    <3>5. Flights = 1..Len(fetches) /\ Len(fetches) \in Nat
      BY FlightsAre
    <3>6. LoadsInv'
      <4> SUFFICES ASSUME NEW e \in Flights', fetches'[e].op = "load", fetches'[e].phase = "answered"
                   PROVE  Doubt(e)' \/ Agrees(fetches[e].answer, fetches[e].filter, e)'
        BY DEF LoadsInv
      <4>1. e \in Flights /\ e # c /\ fetches'[e] = fetches[e]
        BY <1>3, <1>4
      <4>2. c > e
        <5>1. ~(c < e)
          <6>1. fetches[e].phase = "answered" /\ fetches[c].op # "load" /\ ~(fetches[c].applied > 0)
            BY <1>4, <3>1, <4>1
          <6> QED
            BY <1>1, <2>2, <4>1, <6>1 DEF OrderInv
        <5> QED
          BY <3>5, <4>1, <5>1
      <4>3. News(e)' = News(e) \union a
        BY <3>4, <4>2
      <4>4. Doubt(e) \/ Agrees(fetches[e].answer, fetches[e].filter, e)
        BY <2>2, <4>1 DEF LoadsInv
      <4> QED
        BY <3>2, <3>3, <4>1, <4>3, <4>4 DEF Agrees, Matching
    <3>7. PageInv'
      <4>1. News(0)' = News(0) \union a
        BY <3>4, <3>5
      <4> QED
        BY <2>2, <3>2, <3>3, <4>1 DEF PageInv, Agrees, Matching
    <3>8. NewsInv'
      <4> SUFFICES ASSUME NEW e \in Flights', IsNew(fetches'[e])
                   PROVE  Doubt(e)' \/ fetches'[e].answer \subseteq table'
        BY DEF NewsInv, IsNew
      <4>1. CASE e = c
        BY <1>2, <1>3, <3>2, <4>1
      <4>2. CASE e # c
        <5>1. e \in Flights /\ fetches'[e] = fetches[e] /\ table \subseteq table'
          BY <1>3, <3>2, <4>2
        <5> QED
          BY <2>2, <3>3, <5>1 DEF NewsInv
      <4> QED
        BY <4>1, <4>2
    <3> QED
      BY <2>3, <3>6, <3>7, <3>8
  <2> QED
    BY <2>4, <2>5
<1> QED
  BY <1>5, <1>6, <1>7 DEF TrueInv

LEMMA ServedKeeps ==
  ASSUME TableInv, NEW c \in Flights, Serve(c)
  PROVE  WholeInv' /\ AloneInv' /\ TrueInv'
<1>1. UNCHANGED <<list, filter>>
  BY DEF Serve
<1>2. CASE ServeLoad(c)
  BY <1>1, <1>2, LoadServedKeeps
<1>3. CASE ServeRemove(c) \/ ServeToggle(c)
  <2>1. Answered(c, {}, 1) /\ Asked(c, {"remove", "toggle", "add", "new"}) /\ fetches[c].op # "new"
    BY <1>3 DEF ServeRemove, ServeToggle, Asked
  <2> QED
    BY <1>1, <2>1, ChangeServedKeeps
<1>4. CASE ServeAdd(c)
  <2>1. PICK new : /\ table' = table \union {new}
                   /\ Answered(c, IF fetches[c].op = "new" THEN {new} ELSE {}, 1)
    BY <1>4 DEF ServeAdd
  <2>2. Asked(c, {"remove", "toggle", "add", "new"})
    BY <1>4 DEF ServeAdd, Asked
  <2> QED
    BY <1>1, <2>1, <2>2, ChangeServedKeeps
<1> QED
  BY <1>2, <1>3, <1>4 DEF Serve

LEMMA ResentKeeps ==
  ASSUME TableInv, NEW c \in Flights, NEW l, Resend(c, l)
  PROVE  WholeInv' /\ AloneInv' /\ TrueInv'
<1> USE DEF TableInv
<1>1. table' = table /\ list' = list /\ filter' = filter /\ excused' = excused
  BY DEF Resend
<1>2. PICK q : /\ fetches' = [fetches EXCEPT ![c] = q] /\ Kin(q, fetches[c]) /\ Whole(q)
               /\ q.phase = "asked" /\ q.applied = fetches[c].applied
  BY ResentIs
<1>3. /\ Flights' = Flights /\ fetches'[c] = q
      /\ \A d \in Flights \ {c} : fetches'[d] = fetches[d]
  BY <1>2, ChangeIs
<1>4. q.op = fetches[c].op /\ Whole(fetches[c])
  BY <1>2 DEF Kin, WholeInv
<1>5. WholeInv'
  BY <1>2, ChangedWhole
<1>6. AloneInv'
  BY <1>1, <1>2, ChangedAlone
<1>7. ASSUME ~excused' PROVE LoadsInv' /\ PageInv' /\ NewsInv' /\ OrderInv'
  <2>1. LoadsInv /\ PageInv /\ NewsInv /\ OrderInv
    BY <1>1, <1>7 DEF TrueInv
  <2>2. OrderInv'
    BY <1>2, <1>4, <2>1, ChangedOrder
  <2>3. CASE IsNew(fetches[c])
    <3>1. fetches[c].applied \in Nat /\ fetches[c].applied > 0
      BY <1>4, <2>3 DEF Whole, IsNew
    <3>2. Dirty(q)
      BY <1>2, <1>4, <2>3, <3>1 DEF Dirty, IsNew
    <3> QED
      BY <1>2, <1>4, <2>2, <3>2, ChangedDoubt
  <2>4. CASE ~IsNew(fetches[c])
    <3>1. \A e : Doubt(e) => Doubt(e)'
      <4>1. Dirty(fetches[c]) => Dirty(q)
        BY <1>2, <1>4 DEF Dirty
      <4> QED
        BY <1>2, <1>4, <4>1, ChangedDoubt
    <3>2. ASSUME NEW e PROVE News(e)' = News(e)
      <4>1. ~IsNew(q)
        BY <1>2 DEF IsNew
      <4> QED
        BY <1>2, <2>4, <4>1, ChangedNews
    <3>3. LoadsInv'
      <4> SUFFICES ASSUME NEW e \in Flights', fetches'[e].op = "load", fetches'[e].phase = "answered"
                   PROVE  Doubt(e)' \/ Agrees(fetches[e].answer, fetches[e].filter, e)'
        BY DEF LoadsInv
      <4>1. e \in Flights /\ fetches'[e] = fetches[e]
        BY <1>2, <1>3
      <4> QED
        BY <1>1, <2>1, <3>1, <3>2, <4>1 DEF LoadsInv, Agrees, Matching
    <3>4. PageInv'
      BY <1>1, <2>1, <3>1, <3>2 DEF PageInv, Agrees, Matching
    <3>5. NewsInv'
      <4> SUFFICES ASSUME NEW e \in Flights', IsNew(fetches'[e])
                   PROVE  Doubt(e)' \/ fetches'[e].answer \subseteq table'
        BY DEF NewsInv, IsNew
      <4>1. e # c
        BY <1>2, <1>3 DEF IsNew
      <4> QED
        BY <1>1, <1>3, <2>1, <3>1, <4>1 DEF NewsInv
    <3> QED
      BY <2>2, <3>3, <3>4, <3>5
  <2> QED
    BY <2>3, <2>4
<1> QED
  BY <1>5, <1>6, <1>7 DEF TrueInv

LEMMA ThrownKeeps ==
  ASSUME TableInv, NEW c \in Flights, Throw(c)
  PROVE  WholeInv' /\ AloneInv' /\ TrueInv'
<1> USE DEF TableInv
<1>1. fetches' = Landed(c) /\ table' = table /\ filter' = filter
  BY DEF Throw
<1>2. WholeInv' /\ AloneInv' /\ (OrderInv => OrderInv')
  BY <1>1, LeavingKeeps
<1>3. ASSUME ~excused' PROVE LoadsInv' /\ PageInv' /\ NewsInv' /\ OrderInv'
  <2>1. ~excused /\ fetches[c].op # "load" /\ ~(fetches[c].applied > 0) /\ list' = list
    BY <1>3 DEF Throw
  <2>2. LoadsInv /\ PageInv /\ NewsInv /\ OrderInv
    BY <2>1 DEF TrueInv
  <2>3. ~Dirty(fetches[c]) /\ ~IsNew(fetches[c])
    <3>1. Whole(fetches[c])
      BY DEF WholeInv
    <3> QED
      BY <2>1, <3>1 DEF Whole, Dirty, IsNew
  <2>4. LoadsInv' /\ NewsInv'
    BY <1>1, <2>1, <2>2, <2>3, LeavingTells
  <2>5. PageInv'
    <3>1. 0 \in 0..(Len(fetches) - 1) /\ Was(c, 0) = 0
      BY <1>1, LeavingIs DEF Was
    <3>2. Doubt(0) => Doubt(0)'
      BY <1>1, <2>1, <2>3, <3>1, LeavingDoubt
    <3>3. News(0)' = News(0)
      BY <1>1, <2>3, <3>1, LeavingNews
    <3> QED
      BY <1>1, <2>1, <2>2, <3>2, <3>3 DEF PageInv, Agrees, Matching
  <2> QED
    BY <1>2, <2>2, <2>4, <2>5
<1> QED
  BY <1>2, <1>3 DEF TrueInv

LEMMA LoadArrivedKeeps ==
  ASSUME TableInv, NEW c \in Flights, fetches[c].phase = "answered", ArriveLoad(c),
         UNCHANGED <<table, filter>>
  PROVE  WholeInv' /\ AloneInv' /\ TrueInv'
<1> USE DEF TableInv
<1>1. /\ fetches[c].op = "load" /\ fetches' = Landed(c) /\ list' = fetches[c].answer
      /\ table' = table /\ filter' = filter
  BY DEF ArriveLoad
<1>2. WholeInv' /\ AloneInv' /\ (OrderInv => OrderInv')
  BY <1>1, LeavingKeeps
<1>3. ~Dirty(fetches[c]) /\ ~IsNew(fetches[c])
  BY <1>1 DEF Dirty, IsNew
<1>4. /\ Len(fetches) \in Nat /\ Flights = 1..Len(fetches) /\ Flights' = 1..(Len(fetches) - 1)
  BY <1>1, LeavingIs
<1>5. ASSUME ~excused' PROVE LoadsInv' /\ PageInv' /\ NewsInv' /\ OrderInv'
  <2>1. /\ fetches[c].filter = filter /\ c = 1 /\ ~fetches[c].overtaken
        /\ excused => fetches[c].alone /\ Flights = {c}
    <3>1. ~(c > 1)
      BY <1>5 DEF ArriveLoad, Disordered
    <3> QED
      BY <1>4, <1>5, <3>1 DEF ArriveLoad, Disordered
  <2>2. CASE excused
    <3>1. Len(fetches) = 1 /\ Flights' = {}
      <4>1. Flights = {1}
        BY <2>1, <2>2
      <4>2. Len(fetches) = 1
        <5>1. Len(fetches) > 0 => Len(fetches) \in Flights
          BY <1>4
        <5>2. Len(fetches) > 0
          BY <1>4, <4>1
        <5> QED
          BY <4>1, <5>1, <5>2
      <4>3. 1..(1 - 1) = {}
        OBVIOUS
      <4> QED
        BY <1>4, <4>2, <4>3
    <3>2. list' = Matching(table, filter)
      BY <1>1, <2>1, <2>2, <3>1 DEF AloneInv
    <3>3. News(0)' = {}
      BY <3>1 DEF News
    <3>4. PageInv'
      BY <1>1, <3>2, <3>3 DEF PageInv, Agrees, Matching
    <3> QED
      BY <3>1, <3>4 DEF LoadsInv, NewsInv, OrderInv
  <2>3. CASE ~excused
    <3>1. LoadsInv /\ PageInv /\ NewsInv /\ OrderInv
      BY <2>3 DEF TrueInv
    <3>2. LoadsInv' /\ NewsInv'
      BY <1>1, <1>3, <2>1, <3>1, LeavingTells
    <3>3. PageInv'
      <4>1. CASE Doubt(1)
        <5>1. PICK d \in Flights : (fetches[d].op = "load" /\ d > 1) \/ Dirty(fetches[d])
          BY <4>1 DEF Doubt
        <5>2. d # c /\ d > 1
          BY <1>3, <1>4, <2>1, <5>1
        <5>3. d - 1 \in Flights' /\ d - 1 > 0 /\ Was(c, d - 1) = d
          BY <1>4, <2>1, <5>2 DEF Was
        <5>4. Alike(fetches'[d - 1], fetches[d])
          BY <1>1, <5>3, LeavingIs
        <5>5. fetches'[d - 1].op = "load" \/ Dirty(fetches'[d - 1])
          BY <5>1, <5>4, AlikeIs DEF Alike
        <5>6. Doubt(0)'
          BY <5>3, <5>5 DEF Doubt, Dirty
        <5> QED
          BY <5>6 DEF PageInv
      <4>2. CASE Agrees(list', filter, 1)
        <5>1. 0 \in 0..(Len(fetches) - 1) /\ Was(c, 0) = 0
          BY <1>4 DEF Was
        <5>2. News(0)' = News(0)
          BY <1>1, <1>3, <5>1, LeavingNews
        <5>3. News(0) = News(1)
          <6> SUFFICES ASSUME NEW r PROVE r \in News(0) <=> r \in News(1)
            OBVIOUS
          <6>1. \A d \in Flights : IsNew(fetches[d]) => (d > 0 <=> d > 1)
            BY <1>3, <1>4, <2>1
          <6> QED
            BY <6>1, NewsAre
        <5>4. Agrees(list, filter, 0)'
          BY <1>1, <4>2, <5>2, <5>3 DEF Agrees, Matching
        <5> QED
          BY <5>4 DEF PageInv
      <4> QED
        BY <1>1, <2>1, <3>1, <4>1, <4>2 DEF LoadsInv
    <3> QED
      BY <1>2, <3>1, <3>2, <3>3
  <2> QED
    BY <2>2, <2>3
<1> QED
  BY <1>2, <1>5 DEF TrueInv

LEMMA NewArrivedKeeps ==
  ASSUME TableInv, NEW c \in Flights, fetches[c].phase = "answered", ArriveNew(c),
         UNCHANGED <<table, filter>>
  PROVE  WholeInv' /\ AloneInv' /\ TrueInv'
<1> USE DEF TableInv
<1>1. /\ fetches[c].op = "new" /\ fetches' = Landed(c) /\ list' = fetches[c].answer \union list
      /\ table' = table /\ filter' = filter /\ IsNew(fetches[c])
  BY DEF ArriveNew, IsNew
<1>2. WholeInv' /\ AloneInv' /\ (OrderInv => OrderInv')
  BY <1>1, LeavingKeeps
<1>3. ASSUME ~excused' PROVE LoadsInv' /\ PageInv' /\ NewsInv' /\ OrderInv'
  <2>1. ~excused /\ ~(fetches[c].applied > 1) /\ ~(c > 1)
    BY <1>3 DEF ArriveNew, Disordered
  <2>2. LoadsInv /\ PageInv /\ NewsInv /\ OrderInv
    BY <2>1 DEF TrueInv
  <2>3. ~Dirty(fetches[c])
    BY <1>1, <2>1 DEF Dirty
  <2>4. c = 1 /\ 0 \in 0..(Len(fetches) - 1) /\ Was(c, 0) = 0
    <3>1. Len(fetches) \in Nat /\ Flights = 1..Len(fetches)
      BY FlightsAre
    <3> QED
      BY <2>1, <3>1 DEF Was
  <2>5. LoadsInv' /\ NewsInv'
    BY <1>1, <2>2, <2>3, <2>4, LeavingTells
  <2>6. PageInv'
    <3>1. Doubt(0) => Doubt(0)'
      BY <1>1, <2>3, <2>4, LeavingDoubt
    <3>2. News(0) = News(0)' \union fetches[c].answer
      BY <1>1, <2>4, LeavingNews
    <3>3. list' \union News(0)' = list \union News(0)
      BY <1>1, <3>2
    <3>4. Agrees(list, filter, 0) => Agrees(list, filter, 0)'
      BY <1>1, <3>3 DEF Agrees, Matching
    <3> QED
      BY <2>2, <3>1, <3>4 DEF PageInv
  <2> QED
    BY <1>2, <2>2, <2>5, <2>6
<1> QED
  BY <1>2, <1>3 DEF TrueInv

LEMMA ChangeArrivedKeeps ==
  ASSUME TableInv, NEW c \in Flights, fetches[c].phase = "answered", ArriveChange(c),
         UNCHANGED <<table, filter>>
  PROVE  WholeInv' /\ AloneInv' /\ TrueInv'
<1> USE DEF TableInv
<1> DEFINE n == Len(fetches)
           q == [Request("load", NoRow, fetches[c].filter) EXCEPT !.alone = Flights = {c}]
<1>1. fetches' = Append(Landed(c), q)
  BY DEF ArriveChange
<1>2. /\ Whole(q) /\ q.op = "load" /\ q.phase = "asked"
      /\ q.alone => Flights = {c}
  BY DEF Whole, AllFields, Request
<1> HIDE DEF q
<1>3. /\ n \in Nat /\ n - 1 \in Nat /\ Flights = 1..n /\ c \in Nat /\ c > 0 /\ n > 0
  BY FlightsAre
<1>4. /\ Len(fetches)' = n /\ Flights' = 1..n /\ fetches'[n] = q
      /\ \A d \in 1..(n - 1) : fetches'[d] = Landed(c)[d]
  <2>1. PICK S : Landed(c) \in Seq(S)
    BY LandedIs
  <2>2. Len(Landed(c)) = n - 1
    BY LandedIs
  <2> HIDE DEF n
  <2>3. /\ Len(fetches') = n /\ DOMAIN fetches' = 1..n /\ fetches'[n] = q
        /\ \A d \in 1..(n - 1) : fetches'[d] = Landed(c)[d]
    BY <1>1, <1>3, <2>1, <2>2
  <2> QED
    BY <2>3 DEF Flights
<1>5. ASSUME NEW d \in 1..(n - 1)
      PROVE  /\ Was(c, d) \in Flights \ {c} /\ Alike(fetches'[d], fetches[Was(c, d)])
             /\ fetches'[d].overtaken <=> d < c \/ fetches[Was(c, d)].overtaken
  BY <1>4, LandedIs
<1> HIDE DEF n
<1>6. Flights' = (1..(n - 1)) \union {n}
  BY <1>3, <1>4
<1>7. WholeInv'
  <2> SUFFICES ASSUME NEW d \in Flights' PROVE Whole(fetches'[d])
    BY DEF WholeInv, Whole
  <2>1. CASE d = n
    BY <1>2, <1>4, <2>1
  <2>2. CASE d \in 1..(n - 1)
    BY <1>5, <2>2, AlikeIs DEF WholeInv
  <2> QED
    BY <1>6, <2>1, <2>2
<1>8. AloneInv'
  <2> SUFFICES ASSUME NEW d \in Flights', fetches'[d].alone
               PROVE  /\ d = 1 /\ fetches'[d].op = "load"
                      /\ fetches'[d].phase = "answered" => Len(fetches)' # 1
    BY DEF AloneInv
  <2>1. CASE d = n
    <3>1. Flights = {c}
      BY <1>2, <1>4, <2>1
    <3>2. n = 1
      BY <1>3, <3>1
    <3> QED
      BY <1>2, <1>4, <2>1, <3>2
  <2>2. CASE d \in 1..(n - 1)
    <3>1. /\ Was(c, d) \in Flights /\ fetches'[d].op = fetches[Was(c, d)].op
          /\ fetches[Was(c, d)].alone
      BY <1>5, <2>2 DEF Alike
    <3>2. Was(c, d) = 1 /\ fetches[Was(c, d)].op = "load"
      BY <3>1 DEF AloneInv
    <3>3. d = 1 /\ n # 1
      BY <1>3, <2>2, <3>2 DEF Was
    <3> QED
      BY <1>4, <3>1, <3>2, <3>3
  <2> QED
    BY <1>6, <2>1, <2>2
<1>9. ASSUME ~excused' PROVE LoadsInv' /\ PageInv' /\ NewsInv' /\ OrderInv'
  <2>1. LoadsInv /\ PageInv /\ NewsInv /\ OrderInv
    BY <1>9 DEF TrueInv, ArriveChange
  <2>2. n \in Flights' /\ fetches'[n].op = "load"
    BY <1>2, <1>4, <1>6
  <2>3. ASSUME NEW e, n > e PROVE Doubt(e)'
    BY <2>2, <2>3 DEF Doubt
  <2>4. LoadsInv'
    <3> SUFFICES ASSUME NEW e \in Flights', fetches'[e].op = "load", fetches'[e].phase = "answered"
                 PROVE  Doubt(e)'
      BY DEF LoadsInv
    <3>1. e # n
      BY <1>2, <1>4
    <3> QED
      BY <1>3, <1>6, <2>3, <3>1
  <2>5. PageInv'
    BY <1>3, <2>3 DEF PageInv
  <2>6. NewsInv'
    <3> SUFFICES ASSUME NEW e \in Flights', IsNew(fetches'[e]) PROVE Doubt(e)'
      BY DEF NewsInv, IsNew
    <3>1. e # n
      BY <1>2, <1>4 DEF IsNew
    <3> QED
      BY <1>3, <1>6, <2>3, <3>1
  <2>7. OrderInv'
    <3> SUFFICES ASSUME NEW e \in Flights', NEW d \in Flights', d < e,
                        fetches'[e].phase = "answered", fetches'[d].phase = "asked"
                 PROVE  fetches'[d].op = "load" \/ fetches'[d].applied > 0
      BY DEF OrderInv
    <3>1. e # n
      BY <1>2, <1>4
    <3>2. e \in 1..(n - 1) /\ d \in 1..(n - 1) /\ d \in Nat /\ e \in Nat
      BY <1>3, <1>4, <1>6, <3>1
    <3>3. /\ Was(c, d) \in Flights /\ Was(c, e) \in Flights /\ Was(c, d) < Was(c, e)
      BY <1>3, <1>5, <3>2, WasOrder
    <3>4. Alike(fetches'[d], fetches[Was(c, d)]) /\ Alike(fetches'[e], fetches[Was(c, e)])
      BY <1>5, <3>2
    <3> QED
      BY <2>1, <3>3, <3>4 DEF OrderInv, Alike
  <2> QED
    BY <2>4, <2>5, <2>6, <2>7
<1> QED
  BY <1>7, <1>8, <1>9 DEF TrueInv

\* Somebody changes the table: only of a load that is not answered yet is it known what
\* it will tell.
LEMMA OthersKeep ==
  ASSUME TableInv, excused', NEW f, fetches' = Unknown(f), DOMAIN f = Flights,
         Len(fetches') = Len(fetches),
         \A d \in Flights : /\ Whole(f[d]) /\ f[d].op = fetches[d].op
                            /\ f[d].alone = fetches[d].alone
  PROVE  WholeInv' /\ AloneInv' /\ TrueInv'
<1> USE DEF TableInv
<1>1. ASSUME NEW d \in Flights
      PROVE  LET q == fetches'[d]
             IN  /\ Whole(q) /\ q.op = fetches[d].op /\ q.phase = f[d].phase
                 /\ q.alone => fetches[d].alone /\ q.phase = "asked"
  <2> DEFINE q == fetches'[d]
  <2>1. q = [f[d] EXCEPT !.alone = @ /\ f[d].phase = "asked"]
    BY DEF Unknown
  <2>2. Whole(f[d]) /\ AllFields \subseteq DOMAIN f[d]
    BY DEF Whole
  <2>3. /\ q.op = f[d].op /\ q.phase = f[d].phase /\ q.applied = f[d].applied
        /\ q.alone = (f[d].alone /\ f[d].phase = "asked") /\ DOMAIN q = DOMAIN f[d]
    BY <2>1, <2>2 DEF AllFields
  <2> HIDE DEF q
  <2>4. Whole(q)
    BY <2>2, <2>3 DEF Whole
  <2>5. q.op = fetches[d].op /\ (q.alone => fetches[d].alone /\ q.phase = "asked")
    BY <2>3
  <2> QED
    BY <2>3, <2>4, <2>5 DEF q
<1>2. Flights' = Flights
  BY DEF Unknown, Flights
<1>3. WholeInv'
  BY <1>1, <1>2 DEF WholeInv, Whole
<1>4. AloneInv'
  <2> SUFFICES ASSUME NEW d \in Flights', fetches'[d].alone
               PROVE  d = 1 /\ fetches'[d].op = "load" /\ fetches'[d].phase # "answered"
    BY DEF AloneInv
  <2> QED
    BY <1>1, <1>2 DEF AloneInv
<1> QED
  BY <1>3, <1>4 DEF TrueInv

LEMMA LateKeeps ==
  ASSUME TableInv, NEW c \in Flights, ServeLate(c)
  PROVE  WholeInv' /\ AloneInv' /\ TrueInv'
<1> USE DEF TableInv
<1> DEFINE q == [fetches[c] EXCEPT !.applied = @ + 1]
           f == [fetches EXCEPT ![c] = q]
<1>1. excused' /\ fetches' = Unknown(f) /\ fetches[c].op # "load"
  BY DEF ServeLate, Late
<1>2. AllFields \subseteq DOMAIN fetches[c] /\ Whole(fetches[c])
  BY DEF WholeInv, Whole
<1>3. /\ q.op = fetches[c].op /\ q.phase = fetches[c].phase /\ q.alone = fetches[c].alone
      /\ q.applied = fetches[c].applied + 1 /\ DOMAIN q = DOMAIN fetches[c]
  BY <1>2 DEF AllFields
<1> HIDE DEF q
<1>4. Whole(q)
  BY <1>2, <1>3 DEF Whole
<1>5. /\ DOMAIN f = Flights /\ f[c] = q
      /\ \A d \in Flights \ {c} : f[d] = fetches[d]
  BY DEF Flights
<1> HIDE DEF f
<1>6. \A d \in Flights : Whole(f[d]) /\ f[d].op = fetches[d].op /\ f[d].alone = fetches[d].alone
  BY <1>3, <1>4, <1>5 DEF WholeInv
<1>7. Len(fetches') = Len(fetches)
  BY <1>1, <1>5, UnknownLength
<1> QED
  BY <1>1, <1>5, <1>6, <1>7, OthersKeep

LEMMA TableInvStep == TableInv /\ [ListNext]_listVars => TableInv'
<1> SUFFICES ASSUME TableInv, [ListNext]_listVars PROVE WholeInv' /\ AloneInv' /\ TrueInv'
  BY SoundInvStep DEF TableInv
<1>1. ASSUME NEW op, NEW r, NEW f
      PROVE  LET q == Request(op, r, f)
             IN  /\ Whole(q) /\ q.op = op /\ q.phase = "asked" /\ q.applied = 0
                 /\ q.alone => q.op = "load" /\ Flights = {}
  BY DEF Request, Whole, AllFields
<1>2. CASE ChangeFilter
  <2>1. PICK f : /\ fetches' = Append(fetches, Request("load", NoRow, f))
                 /\ UNCHANGED <<table, list, excused>>
    BY <1>2 DEF ChangeFilter, Send
  <2> QED
    BY <1>1, <2>1, SentKeeps
<1>3. CASE Refresh \/ SubmitNew \/ \E op \in {"remove", "toggle", "add"} : ClickRow(op)
  <2>1. PICK op, r, f : /\ fetches' = Append(fetches, Request(op, r, f))
                        /\ UNCHANGED <<table, list, filter, excused>>
    BY <1>3 DEF Refresh, SubmitNew, ClickRow, Send
  <2> QED
    BY <1>1, <2>1, SentKeeps
<1>4. ASSUME NEW c \in Flights, Arrive(c) PROVE WholeInv' /\ AloneInv' /\ TrueInv'
  BY <1>4, LoadArrivedKeeps, ChangeArrivedKeeps, NewArrivedKeeps DEF Arrive
<1>5. ASSUME NEW c \in Flights, Serve(c) \/ NetworkError(c) \/ GiveUp(c)
      PROVE  WholeInv' /\ AloneInv' /\ TrueInv'
  BY <1>5, ServedKeeps, ResentKeeps, ThrownKeeps DEF NetworkError, GiveUp
<1>7. CASE OthersChange
  <2>1. excused' /\ fetches' = Unknown(fetches)
    BY <1>7 DEF OthersChange
  <2>2. Len(fetches') = Len(fetches) /\ DOMAIN fetches = Flights
    BY <2>1, UnknownLength DEF TableInv, Flights
  <2> QED
    BY <2>1, <2>2, OthersKeep DEF TableInv, WholeInv
<1>6. CASE UNCHANGED listVars
  BY <1>6 DEF listVars, TableInv, WholeInv, Whole, AloneInv, TrueInv, LoadsInv, PageInv, NewsInv,
              OrderInv, Doubt, Dirty, News, IsNew, Agrees, Matching, Flights
<1> QED
  BY <1>2, <1>3, <1>4, <1>5, <1>6, <1>7, LateKeeps DEF ListNext

\* Whatever requests overlap, are answered late, repeated, given up or worked on after
\* that, and whoever else changes the table: unless one of the named reasons came
\* between since the last load that met no other request, a page at rest shows the rows of
\* the server's table under its filter.
THEOREM RowsAreAlwaysTheTables == ListSpec => []RowsAreTheTables
<1>1. ListInit => TableInv
  <2> SUFFICES ASSUME ListInit PROVE TableInv
    OBVIOUS
  <2>1. fetches = <<>> /\ excused = TRUE /\ <<>> \in Seq({}) /\ Good({})
    BY DEF ListInit, Good
  <2>2. Flights = {}
    BY <2>1 DEF Flights
  <2> QED
    BY <2>1, <2>2 DEF TableInv, SoundInv, WholeInv, AloneInv, TrueInv
<1>2. TableInv => RowsAreTheTables
  <2> SUFFICES ASSUME TableInv, fetches = <<>>, ~excused
               PROVE  Matching(list, filter) = Matching(table, filter)
    BY DEF RowsAreTheTables
  <2>1. Flights = {}
    BY DEF Flights
  <2>2. ~Doubt(0) /\ News(0) = {}
    BY <2>1 DEF Doubt, News
  <2>3. Agrees(list, filter, 0)
    BY <2>2 DEF TableInv, TrueInv, PageInv
  <2> QED
    BY <2>2, <2>3 DEF Agrees, Matching
<1> QED
  BY <1>1, <1>2, TableInvStep, PTL DEF ListSpec

-----------------------------------------------------------------------------
(***************************************************************************)
(* The flow builder: the canvas shows the current flow.                    *)
(***************************************************************************)

BuilderSpec == BuilderInit /\ [][BuilderNext]_builderVars

\* A flow that was read or made: the server has it so, unless it has deleted it.
AsStored(f) == /\ f.id \in DOMAIN stored
               /\ stored[f.id] # NoFlow => stored[f.id] = f.drawing

\* The saving of a form, field by field.
Form == [stage |-> saving.stage, flow |-> saving.flow, drawing |-> saving.drawing]

BuilderInv ==
  /\ saving = NotSaving \/ saving = Form
  /\ current # NoFlow => AsStored(current)
  /\ fetching # NoFlow => AsStored(fetching)
  /\ saving.stage = "created" => AsStored(saving.flow)
  /\ open /\ current # NoFlow /\ ~edited => canvas = current.drawing

\* The flows the client knows outlive what the server adds and deletes.
LEMMA StoredStays ==
  ASSUME NEW f, AsStored(f),
         \/ \E id \in SavedIds \ DOMAIN stored : \E d :
              stored' = [i \in DOMAIN stored \cup {id} |-> IF i = id THEN d ELSE stored[i]]
         \/ \E id \in Stored : stored' = [stored EXCEPT ![id] = NoFlow]
  PROVE  f.id \in DOMAIN stored' /\ (stored'[f.id] # NoFlow => stored'[f.id] = f.drawing)
BY DEF AsStored, Stored

\* The store's new flow is on the canvas.
LEMMA ShownFlow ==
  ASSUME NEW f, NEW d, Show(f, d), UNCHANGED open
  PROVE  current' = f /\ (open' /\ current' # NoFlow => canvas' = current'.drawing)
BY DEF Show, Rendered

LEMMA BuilderInvStep == BuilderInv /\ [BuilderNext]_builderVars => BuilderInv'
<1> SUFFICES ASSUME BuilderInv, [BuilderNext]_builderVars PROVE BuilderInv'
  OBVIOUS
<1>1. ASSUME NEW d, Edit(d) PROVE BuilderInv'
  BY <1>1 DEF Edit, Form, BuilderInv, AsStored
<1>2. CASE Submit
  BY <1>2 DEF Submit, Form, BuilderInv, AsStored
<1>3. CASE ServeCreate
  <2>0. saving.stage = "create"
    BY <1>3 DEF ServeCreate
  <2>1. saving = Form
    BY <2>0 DEF BuilderInv, NotSaving
  <2>2. CASE \E id \in SavedIds \ DOMAIN stored :
               /\ stored' = [i \in DOMAIN stored \cup {id} |->
                               IF i = id THEN saving.drawing ELSE stored[i]]
               /\ saving' = [saving EXCEPT !.stage = "created", !.flow = Flow(id, saving.drawing)]
    <3>1. PICK id \in SavedIds \ DOMAIN stored :
             /\ stored' = [i \in DOMAIN stored \cup {id} |->
                             IF i = id THEN saving.drawing ELSE stored[i]]
             /\ saving' = [saving EXCEPT !.stage = "created", !.flow = Flow(id, saving.drawing)]
      BY <2>2
    <3>2. /\ current # NoFlow => AsStored(current)'
          /\ fetching # NoFlow => AsStored(fetching)'
      <4>1. UNCHANGED <<current, fetching>>
        BY <1>3 DEF ServeCreate
      <4>2. \E i \in SavedIds \ DOMAIN stored : \E d :
               stored' = [j \in DOMAIN stored \cup {i} |-> IF j = i THEN d ELSE stored[j]]
        BY <3>1
      <4> QED
        BY <4>1, <4>2, StoredStays DEF BuilderInv, AsStored
    <3>3. saving' = [stage |-> "created", flow |-> Flow(id, saving.drawing),
                     drawing |-> saving.drawing]
      BY <2>1, <3>1 DEF Form
    <3>4. AsStored(saving.flow)'
      BY <3>1, <3>3 DEF AsStored, Flow
    <3> QED
      BY <1>3, <3>2, <3>3, <3>4 DEF ServeCreate, Form, BuilderInv
  <2>3. CASE UNCHANGED stored /\ saving' = [saving EXCEPT !.stage = "failed"]
    <3>1. saving' = [stage |-> "failed", flow |-> saving.flow, drawing |-> saving.drawing]
      BY <2>1, <2>3 DEF Form
    <3> QED
      BY <1>3, <2>3, <3>1 DEF ServeCreate, Form, BuilderInv, AsStored
  <2> QED
    BY <1>3, <2>2, <2>3 DEF ServeCreate
<1>4. CASE ServeValidate
  <2>1. saving = Form
    BY <1>4 DEF ServeValidate, BuilderInv, NotSaving
  <2>2. \E st \in {"validated", "failed"} :
           saving' = [stage |-> st, flow |-> saving.flow, drawing |-> saving.drawing]
    BY <1>4, <2>1 DEF ServeValidate, Form
  <2> QED
    BY <1>4, <2>2 DEF ServeValidate, Form, BuilderInv, AsStored
<1>5. CASE SaveCreated
  BY <1>5, ShownFlow DEF SaveCreated, NotSaving, Form, BuilderInv, AsStored
<1>6. CASE SaveValidated \/ SaveFailed
  BY <1>6 DEF SaveValidated, SaveFailed, NotSaving, Form, BuilderInv, AsStored
<1>7. CASE Fetch
  BY <1>7 DEF Fetch, Flow, Stored, Form, BuilderInv, AsStored
<1>8. CASE Loaded
  BY <1>8, ShownFlow DEF Loaded, Form, BuilderInv, AsStored
<1>9. CASE FetchFailed
  BY <1>9 DEF FetchFailed, Form, BuilderInv, AsStored
<1>10. CASE DeleteFlow
  BY <1>10, StoredStays DEF DeleteFlow, Form, BuilderInv, AsStored
<1>11. CASE Import \/ Clear
  BY <1>11, ShownFlow DEF Import, Clear, Form, BuilderInv, AsStored
<1>12. CASE Leave
  BY <1>12 DEF Leave, Form, BuilderInv, AsStored
<1>13. CASE Enter
  BY <1>13 DEF Enter, Form, BuilderInv, AsStored
<1>14. CASE UNCHANGED builderVars
  BY <1>14 DEF builderVars, Form, BuilderInv, AsStored
<1> QED
  BY <1>1, <1>2, <1>3, <1>4, <1>5, <1>6, <1>7, <1>8, <1>9, <1>10, <1>11, <1>12, <1>13, <1>14
  DEF BuilderNext, AddNode, EditDetail

\* Whatever is saved, loaded, imported, cleared and left in between, a canvas without
\* edits shows the flow that a click on run or update is about, as the server stores it.
THEOREM CanvasAlwaysShowsTheFlow == BuilderSpec => []CanvasShowsTheFlow
<1>1. BuilderInit => BuilderInv
  BY DEF BuilderInit, NotSaving, BuilderInv
<1>2. BuilderInv => CanvasShowsTheFlow
  BY DEF BuilderInv, AsStored, Stored, CanvasShowsTheFlow
<1> QED
  BY <1>1, <1>2, BuilderInvStep, PTL DEF BuilderSpec

-----------------------------------------------------------------------------
(***************************************************************************)
(* The loading hook: the spinner of a page is always timed.                *)
(***************************************************************************)

LoadingSpec == LoadingInit /\ [][LoadingNext]_loadingVars

\* The timer that is known belongs to a call that is out; every other one was left by a
\* call that another overtook.
LoadingInv ==
  /\ timers \subseteq Timers
  /\ isLoading => timeoutRef \in timers
  /\ timeoutRef \in timers => timeoutRef \in Out
  /\ timers \ {timeoutRef} \subseteq overtaken

LEMMA LoadingInvStep == LoadingInv /\ [LoadingNext]_loadingVars => LoadingInv'
<1> SUFFICES ASSUME LoadingInv, [LoadingNext]_loadingVars PROVE LoadingInv'
  OBVIOUS
<1>1. 0 \notin timers
  BY TimersAssumption DEF LoadingInv
<1>2. ASSUME NEW c \in Free, StartLoading(c),
             \/ reading' = reading \union {c} /\ UNCHANGED changing
             \/ changing' = changing \union {c} /\ UNCHANGED reading
      PROVE  LoadingInv'
  BY <1>2 DEF LoadingInv, StartLoading, Free, Out
<1>3. CASE LoadEnds \/ ChangeEndsAlone
  BY <1>1, <1>3 DEF LoadEnds, ChangeEndsAlone, StopLoading, LoadingInv
<1>4. CASE ChangeEnds
  BY <1>1, <1>4 DEF ChangeEnds, LoadingInv
<1>5. CASE Timeout
  BY <1>5 DEF Timeout, LoadingInv, Out
<1>6. CASE UNCHANGED loadingVars
  BY <1>6 DEF loadingVars, LoadingInv, Out
<1> QED
  BY <1>2, <1>3, <1>4, <1>5, <1>6 DEF LoadingNext, LoadPage, ChangeRow

\* However loads, changes and timeouts of a page interleave, it never shows its spinner
\* without a timer that will end it, and a timer is left over only by a call during
\* which another began.
THEOREM LoadingIsAlwaysTimed == LoadingSpec => []LoadingIsTimed
<1>1. LoadingInit => LoadingInv
  BY DEF LoadingInit, LoadingInv, Out
<1>2. LoadingInv => LoadingIsTimed
  BY DEF LoadingInv, LoadingIsTimed
<1> QED
  BY <1>1, <1>2, LoadingInvStep, PTL DEF LoadingSpec

-----------------------------------------------------------------------------
(***************************************************************************)
(* The schedule dialog: one schedule is asked for at a time.               *)
(***************************************************************************)

FormSpec == FormInit /\ [][FormNext]_<<formVars, cronVars>>

\* isLoading is the request that is out.
MakingInv == creates \in {0, 1} /\ (creates = 1 => making)

LEMMA MakingInvStep == MakingInv /\ [FormNext]_<<formVars, cronVars>> => MakingInv'
<1> SUFFICES ASSUME MakingInv, [FormNext]_<<formVars, cronVars>> PROVE MakingInv'
  OBVIOUS
<1>1. CASE UNCHANGED <<making, creates>>
  BY <1>1 DEF MakingInv
<1>2. CASE SubmitForm
  BY <1>2 DEF SubmitForm, CanSubmit, MakingInv
<1>3. CASE Saved \/ NotSaved
  BY <1>3 DEF Saved, NotSaved, MakingInv
<1> QED
  BY <1>1, <1>2, <1>3
  DEF FormNext, formVars, OpenForm, FlowsArrive, ChooseFlow, TypeCron, OpenBuilder, CloseForm,
      RunEffects, ChooseType, ChooseTime, TypeCustom, ChoosePreset, UseThisSchedule, CancelBuilder

\* A dialog that is closed and opened again while its schedule is being made keeps the
\* mark that one is, so that no second request is sent before the first is answered.
THEOREM OneCreateAtAnyTime == FormSpec => []OneCreateAtATime
<1>1. FormInit => MakingInv
  BY DEF FormInit, MakingInv
<1>2. MakingInv => OneCreateAtATime
  BY DEF MakingInv, OneCreateAtATime
<1> QED
  BY <1>1, <1>2, MakingInvStep, PTL DEF FormSpec

-----------------------------------------------------------------------------
(* The builder of cron expressions: used without a choice, what it gives back. *)

Frequencies == {"minute", "hourly", "daily", "weekly", "monthly", "custom"}
Config == [type : Frequencies, minute : Nat, hour : Nat, dayOfMonth : Nat, dayOfWeek : Nat,
           expression : Seq(Field)]

\* What the builder gives back of an expression that it reads: the expression itself of
\* a custom schedule or of the first choices, and what the choices mean of the others.
First(e) == DefaultConfig("daily", e)
Read(e) ==
  IF ParseCronExpression(e).type # "custom" /\ Choices(ParseCronExpression(e)) # Choices(First(e))
  THEN [ParseCronExpression(e) EXCEPT !.expression = BuildCronExpression(ParseCronExpression(e))]
  ELSE ParseCronExpression(e)
GivenBack(e) == IF ParseCronExpression(e).type = "custom" THEN e ELSE Read(e).expression

LEMMA NumberIs ==
  ASSUME NEW f \in Field
  PROVE  /\ Number(f, 0) \in Nat /\ (Number(f, 0) = f <=> f \in 0..99)
         /\ Number(f, 1) \in Nat /\ (Number(f, 1) = f <=> f \in 1..99)
         /\ Number(f, 9) \in Nat /\ (Number(f, 9) = f <=> f \in 1..99)
BY DEF Number, Field, Star, Every

\* The type that is read of five fields, and the numbers it takes from them.
LEMMA ParsedAs ==
  ASSUME NEW e \in Seq(Field), Len(e) = 5
  PROVE  LET P == ParseCronExpression(e)
             minute == Number(e[1], 0)
             hour == Number(e[2], 9)
         IN /\ e[3] # Star /\ e[5] # Star => P = DefaultConfig("custom", e)
            /\ e[3] = Star /\ e[5] # Star => P = ConfigOf("weekly", minute, hour, 1, Number(e[5], 1), e)
            /\ e[3] # Star /\ e[5] = Star => P = ConfigOf("monthly", minute, hour, Number(e[3], 1), 1, e)
            /\ e[3] = Star /\ e[5] = Star =>
                 IF e[2] # Star THEN P = ConfigOf("daily", minute, hour, 1, 1, e)
                 ELSE IF e[1] = Star THEN P = DefaultConfig("minute", e)
                 ELSE P = ConfigOf("hourly", minute, 9, 1, 1, e)
<1> DEFINE any == {i \in {1, 2, 3, 5} : e[i] = Star}
<1>1. ParseCronExpression(e) =
        CASE any = {1, 2, 3, 5} -> DefaultConfig("minute", e)
          [] any = {2, 3, 5} -> ConfigOf("hourly", Number(e[1], 0), 9, 1, 1, e)
          [] 3 \in any /\ 5 \notin any ->
               ConfigOf("weekly", Number(e[1], 0), Number(e[2], 9), 1, Number(e[5], 1), e)
          [] 3 \notin any /\ 5 \in any ->
               ConfigOf("monthly", Number(e[1], 0), Number(e[2], 9), Number(e[3], 1), 1, e)
          [] {3, 5} \subseteq any /\ 2 \notin any ->
               ConfigOf("daily", Number(e[1], 0), Number(e[2], 9), 1, 1, e)
          [] OTHER -> DefaultConfig("custom", e)
  BY DEF ParseCronExpression
<1>2. /\ \A i \in {1, 2, 3, 5} : i \in any <=> e[i] = Star
      /\ any \subseteq {1, 2, 3, 5}
  OBVIOUS
<1> HIDE DEF any
<1>3. /\ e[3] # Star /\ e[5] # Star => ParseCronExpression(e) = DefaultConfig("custom", e)
      /\ e[3] = Star /\ e[5] # Star => ParseCronExpression(e) =
           ConfigOf("weekly", Number(e[1], 0), Number(e[2], 9), 1, Number(e[5], 1), e)
      /\ e[3] # Star /\ e[5] = Star => ParseCronExpression(e) =
           ConfigOf("monthly", Number(e[1], 0), Number(e[2], 9), Number(e[3], 1), 1, e)
      /\ e[3] = Star /\ e[5] = Star /\ e[2] # Star => ParseCronExpression(e) =
           ConfigOf("daily", Number(e[1], 0), Number(e[2], 9), 1, 1, e)
  BY <1>1, <1>2
<1>4. CASE e[3] = Star /\ e[5] = Star /\ e[2] = Star /\ e[1] = Star
  <2>1. any = {1, 2, 3, 5}
    BY <1>2, <1>4
  <2> QED BY <1>1, <1>4, <2>1
<1>5. CASE e[3] = Star /\ e[5] = Star /\ e[2] = Star /\ e[1] # Star
  <2>1. any = {2, 3, 5} /\ any # {1, 2, 3, 5}
    BY <1>2, <1>5
  <2> QED BY <1>1, <1>5, <2>1
<1> QED BY <1>3, <1>4, <1>5

LEMMA ElementsAre ==
  ASSUME NEW S, NEW e \in Seq(S)
  PROVE  \A i \in 1..Len(e) : e[i] \in S
OBVIOUS

LEMMA FieldsAre ==
  ASSUME NEW e \in Seq(Field), Len(e) = 5
  PROVE  \A i \in 1..5 : e[i] \in Field
<1>1. \A i \in 1..Len(e) : e[i] \in Field
  BY ElementsAre
<1> QED BY <1>1

\* Two expressions are one if their fields are.
LEMMA FieldsAgree ==
  ASSUME NEW e \in Seq(Field), Len(e) = 5, NEW a, NEW b, NEW c, NEW d, NEW f
  PROVE  <<a, b, c, d, f>> = e <=> e[1] = a /\ e[2] = b /\ e[3] = c /\ e[4] = d /\ e[5] = f
OBVIOUS

\* What the builder gives back of an expression is the expression if Kept says so.
Dated(e) == {i \in {3, 5} : e[i] # Star}

LEMMA KeptIs ==
  ASSUME NEW e, e # NoText
  PROVE  Kept(e) <=>
           \/ Len(e) # 5
           \/ Dated(e) = {3, 5}
           \/ Dated(e) = {} /\ e[2] = Star /\ e[4] = Star /\ (e[1] = Star \/ e[1] \in 0..99)
           \/ Dated(e) = {} /\ e[2] # Star /\ e[4] = Star /\ e[1] \in 0..99 /\ e[2] \in 1..99
           \/ Dated(e) = {} /\ e[2] # Star /\ Number(e[1], 0) = 0 /\ Number(e[2], 9) = 9
           \/ /\ Dated(e) \in {{3}, {5}} /\ e[4] = Star /\ e[1] \in 0..99 /\ e[2] \in 1..99
              /\ \A i \in Dated(e) : e[i] \in 1..99
BY DEF Kept, Dated

LEMMA SetsDiffer == {} # {3, 5} /\ {3} # {3, 5} /\ {5} # {3, 5} /\ {3} # {} /\ {5} # {}
<1>1. 3 \in {3, 5} /\ 5 \in {3, 5} /\ 3 \notin {5} /\ 5 \notin {3}
  OBVIOUS
<1> QED BY <1>1

LEMMA GivenBackIsKept ==
  ASSUME NEW e \in Seq(Field), e # NoText
  PROVE  GivenBack(e) = e <=> Kept(e)
<1> DEFINE P == ParseCronExpression(e)
<1>1. CASE Len(e) # 5
  <2>1. P.type = "custom"
    BY <1>1 DEF ParseCronExpression, DefaultConfig, ConfigOf
  <2>2. Kept(e)
    BY <1>1, KeptIs
  <2> QED BY <2>1, <2>2 DEF GivenBack
<1>2. CASE Len(e) = 5
  <2>1. \A i \in 1..5 : e[i] \in Field
    BY <1>2, FieldsAre
  <2>2. /\ Dated(e) = {} <=> e[3] = Star /\ e[5] = Star
        /\ Dated(e) = {3, 5} <=> e[3] # Star /\ e[5] # Star
        /\ e[3] = Star /\ e[5] # Star => Dated(e) = {5}
        /\ e[3] # Star /\ e[5] = Star => Dated(e) = {3}
    BY DEF Dated
  <2>3. /\ \A i \in 1..5 : Number(e[i], 0) = e[i] <=> e[i] \in 0..99
        /\ \A i \in 1..5 : Number(e[i], 1) = e[i] <=> e[i] \in 1..99
        /\ \A i \in 1..5 : Number(e[i], 9) = e[i] <=> e[i] \in 1..99
    <3> SUFFICES ASSUME NEW i \in 1..5
                 PROVE  /\ Number(e[i], 0) = e[i] <=> e[i] \in 0..99
                        /\ Number(e[i], 1) = e[i] <=> e[i] \in 1..99
                        /\ Number(e[i], 9) = e[i] <=> e[i] \in 1..99
      OBVIOUS
    <3> QED BY <2>1, NumberIs
  <2>5. CASE e[3] # Star /\ e[5] # Star
    <3>1. P.type = "custom"
      BY <1>2, <2>5, ParsedAs DEF DefaultConfig, ConfigOf
    <3>2. Kept(e)
      BY <2>2, <2>5, KeptIs
    <3> QED BY <3>1, <3>2 DEF GivenBack
  <2>6. CASE e[3] = Star /\ e[5] # Star
    <3>1. P = ConfigOf("weekly", Number(e[1], 0), Number(e[2], 9), 1, Number(e[5], 1), e)
      BY <1>2, <2>6, ParsedAs
    <3>2. GivenBack(e) = <<Number(e[1], 0), Number(e[2], 9), Star, Star, Number(e[5], 1)>>
      BY <3>1 DEF GivenBack, Read, Choices, First, DefaultConfig, ConfigOf, BuildCronExpression
    <3>3. Dated(e) = {5} /\ {5} # {} /\ {5} # {3, 5}
      BY <2>2, <2>6
    <3>4. Kept(e) <=> e[4] = Star /\ e[1] \in 0..99 /\ e[2] \in 1..99 /\ e[5] \in 1..99
      BY <1>2, <3>3, KeptIs, SetsDiffer
    <3>5. GivenBack(e) = e <=> /\ e[1] = Number(e[1], 0) /\ e[2] = Number(e[2], 9) /\ e[4] = Star
                               /\ e[5] = Number(e[5], 1)
      BY <1>2, <2>6, <3>2, FieldsAgree
    <3> QED BY <2>3, <3>4, <3>5
  <2>7. CASE e[3] # Star /\ e[5] = Star
    <3>1. P = ConfigOf("monthly", Number(e[1], 0), Number(e[2], 9), Number(e[3], 1), 1, e)
      BY <1>2, <2>7, ParsedAs
    <3>2. GivenBack(e) = <<Number(e[1], 0), Number(e[2], 9), Number(e[3], 1), Star, Star>>
      BY <3>1 DEF GivenBack, Read, Choices, First, DefaultConfig, ConfigOf, BuildCronExpression
    <3>3. Dated(e) = {3} /\ {3} # {} /\ {3} # {3, 5}
      BY <2>2, <2>7
    <3>4. Kept(e) <=> e[4] = Star /\ e[1] \in 0..99 /\ e[2] \in 1..99 /\ e[3] \in 1..99
      BY <1>2, <3>3, KeptIs, SetsDiffer
    <3>5. GivenBack(e) = e <=> /\ e[1] = Number(e[1], 0) /\ e[2] = Number(e[2], 9) /\ e[4] = Star
                               /\ e[3] = Number(e[3], 1)
      BY <1>2, <2>7, <3>2, FieldsAgree
    <3> QED BY <2>3, <3>4, <3>5
  <2>8. CASE e[3] = Star /\ e[5] = Star /\ e[2] # Star
    <3>1. P = ConfigOf("daily", Number(e[1], 0), Number(e[2], 9), 1, 1, e)
      BY <1>2, <2>8, ParsedAs
    <3>2. GivenBack(e) = IF Number(e[1], 0) = 0 /\ Number(e[2], 9) = 9 THEN e
                         ELSE <<Number(e[1], 0), Number(e[2], 9), Star, Star, Star>>
      BY <3>1 DEF GivenBack, Read, Choices, First, DefaultConfig, ConfigOf, BuildCronExpression
    <3>3. Dated(e) = {}
      BY <2>2, <2>8
    <3>4. Kept(e) <=> (e[4] = Star /\ e[1] \in 0..99 /\ e[2] \in 1..99)
                   \/ (Number(e[1], 0) = 0 /\ Number(e[2], 9) = 9)
      BY <1>2, <2>8, <3>3, KeptIs, SetsDiffer
    <3>5. GivenBack(e) = e <=> (Number(e[1], 0) = 0 /\ Number(e[2], 9) = 9)
                               \/ (e[1] = Number(e[1], 0) /\ e[2] = Number(e[2], 9) /\ e[4] = Star)
      BY <1>2, <2>8, <3>2, FieldsAgree
    <3> QED BY <2>3, <3>4, <3>5
  <2>9. CASE e[3] = Star /\ e[5] = Star /\ e[2] = Star /\ e[1] = Star
    <3>1. P = DefaultConfig("minute", e)
      BY <1>2, <2>9, ParsedAs
    <3>2. GivenBack(e) = <<Star, Star, Star, Star, Star>>
      BY <3>1 DEF GivenBack, Read, Choices, First, DefaultConfig, ConfigOf, BuildCronExpression
    <3>3. Dated(e) = {}
      BY <2>2, <2>9
    <3>4. Kept(e) <=> e[4] = Star
      BY <1>2, <2>9, <3>3, KeptIs, SetsDiffer
    <3>5. GivenBack(e) = e <=> e[4] = Star
      BY <1>2, <2>9, <3>2, FieldsAgree
    <3> QED BY <2>3, <3>4, <3>5
  <2>10. CASE e[3] = Star /\ e[5] = Star /\ e[2] = Star /\ e[1] # Star
    <3>1. P = ConfigOf("hourly", Number(e[1], 0), 9, 1, 1, e)
      BY <1>2, <2>10, ParsedAs
    <3>2. GivenBack(e) = <<Number(e[1], 0), Star, Star, Star, Star>>
      BY <3>1 DEF GivenBack, Read, Choices, First, DefaultConfig, ConfigOf, BuildCronExpression
    <3>3. Dated(e) = {}
      BY <2>2, <2>10
    <3>4. Kept(e) <=> e[4] = Star /\ e[1] \in 0..99
      BY <1>2, <2>10, <3>3, KeptIs, SetsDiffer
    <3>5. GivenBack(e) = e <=> e[1] = Number(e[1], 0) /\ e[4] = Star
      BY <1>2, <2>10, <3>2, FieldsAgree
    <3> QED BY <2>3, <3>4, <3>5
  <2> QED BY <2>5, <2>6, <2>7, <2>8, <2>9, <2>10
<1> QED BY <1>1, <1>2

\* What is read and what is built, of any expression and any choices.
LEMMA ConfigOfIs ==
  ASSUME NEW type \in Frequencies, NEW m \in Nat, NEW h \in Nat, NEW d \in Nat, NEW w \in Nat,
         NEW e \in Seq(Field)
  PROVE  ConfigOf(type, m, h, d, w, e) \in Config
BY DEF ConfigOf, Config

LEMMA DefaultConfigIs ==
  ASSUME NEW type \in Frequencies, NEW e \in Seq(Field)
  PROVE  DefaultConfig(type, e) \in Config
BY ConfigOfIs DEF DefaultConfig

LEMMA ParsedIs ==
  ASSUME NEW e \in Seq(Field)
  PROVE  ParseCronExpression(e) \in Config
<1>1. CASE Len(e) # 5
  BY <1>1, DefaultConfigIs DEF ParseCronExpression, Frequencies
<1>2. CASE Len(e) = 5
  <2>1. \A i \in 1..5 : e[i] \in Field
    BY <1>2, FieldsAre
  <2>2. /\ Number(e[1], 0) \in Nat /\ Number(e[2], 9) \in Nat
        /\ Number(e[3], 1) \in Nat /\ Number(e[5], 1) \in Nat
    <3>1. e[1] \in Field /\ e[2] \in Field /\ e[3] \in Field /\ e[5] \in Field
      BY <2>1
    <3> QED BY <3>1, NumberIs
  <2>3. /\ DefaultConfig("custom", e) \in Config /\ DefaultConfig("minute", e) \in Config
        /\ ConfigOf("weekly", Number(e[1], 0), Number(e[2], 9), 1, Number(e[5], 1), e) \in Config
        /\ ConfigOf("monthly", Number(e[1], 0), Number(e[2], 9), Number(e[3], 1), 1, e) \in Config
        /\ ConfigOf("daily", Number(e[1], 0), Number(e[2], 9), 1, 1, e) \in Config
        /\ ConfigOf("hourly", Number(e[1], 0), 9, 1, 1, e) \in Config
    BY <2>2, ConfigOfIs, DefaultConfigIs DEF Frequencies
  <2> QED BY <1>2, <2>3, ParsedAs
<1> QED BY <1>1, <1>2

LEMMA SigilsAre == Star \in Field /\ Every \in Field /\ Nat \subseteq Field
BY DEF Field

LEMMA FiveFields ==
  ASSUME NEW a \in Field, NEW b \in Field, NEW c \in Field, NEW d \in Field, NEW f \in Field
  PROVE  <<a, b, c, d, f>> \in Seq(Field)
OBVIOUS

LEMMA BuiltIs ==
  ASSUME NEW c \in Config, c.type # "custom"
  PROVE  BuildCronExpression(c) \in Seq(Field)
<1>1. /\ c.minute \in Field /\ c.hour \in Field /\ c.dayOfMonth \in Field /\ c.dayOfWeek \in Field
      /\ c.type \in Frequencies
  BY SigilsAre DEF Config
<1>2. CASE c.type = "minute"
  BY <1>1, <1>2, SigilsAre, FiveFields DEF BuildCronExpression
<1>3. CASE c.type = "hourly"
  BY <1>1, <1>3, SigilsAre, FiveFields DEF BuildCronExpression
<1>4. CASE c.type = "daily"
  BY <1>1, <1>4, SigilsAre, FiveFields DEF BuildCronExpression
<1>5. CASE c.type = "weekly"
  BY <1>1, <1>5, SigilsAre, FiveFields DEF BuildCronExpression
<1>6. CASE c.type = "monthly"
  BY <1>1, <1>6, SigilsAre, FiveFields DEF BuildCronExpression
<1> QED BY <1>1, <1>2, <1>3, <1>4, <1>5, <1>6 DEF Frequencies

LEMMA WeekdaysIs == Weekdays \in Seq(Field) /\ NoText \in Seq(Field)
<1>1. UpFrom(1) \in Nat
  BY DEF UpFrom
<1>2. 0 \in Nat /\ 9 \in Nat
  OBVIOUS
<1> QED BY <1>1, <1>2, SigilsAre, FiveFields DEF Weekdays, NoText

LEMMA PresetsAre == Presets \subseteq Seq(Field)
<1>1. {0, 1, 9, 18} \subseteq Field
  BY SigilsAre
<1>2. \A m \in {Star, Every, 0} : <<m, Star, Star, Star, Star>> \in Seq(Field)
  BY <1>1, SigilsAre, FiveFields
<1>3. \A h \in {Every, 9, 18} : <<0, h, Star, Star, Star>> \in Seq(Field)
  BY <1>1, SigilsAre, FiveFields
<1>4. <<0, 9, Star, Star, 1>> \in Seq(Field) /\ <<0, 9, 1, Star, Star>> \in Seq(Field)
  BY <1>1, SigilsAre, FiveFields
<1> QED BY <1>2, <1>3, <1>4, WeekdaysIs DEF Presets

\* Building keeps the choices.
LEMMA ExpressionIsNoChoice ==
  ASSUME NEW c \in Config, NEW e \in Seq(Field)
  PROVE  /\ [c EXCEPT !.expression = e] \in Config
         /\ Choices([c EXCEPT !.expression = e]) = Choices(c)
         /\ [c EXCEPT !.expression = e].type = c.type
         /\ [c EXCEPT !.expression = e].expression = e
BY DEF Config, Choices

\* The expressions of the form and of the builder are fields.
CronTypeOK ==
  /\ cron \in Seq(Field) /\ custom \in Seq(Field) /\ config \in Config
  /\ touches \in Nat

\* Until the user chooses something, the builder is as it was mounted, has read the form's
\* expression, has built another of what it read, or was mounted on none.
UntouchedInv ==
  building /\ touches = 0 =>
    /\ custom = cron
    /\ \/ effects = <<Never, Never>> /\ config = First(cron)
       \/ /\ cron # NoText /\ effects = <<Choices(First(cron)), cron>>
          /\ config = ParseCronExpression(cron)
       \/ /\ cron # NoText /\ effects = <<Choices(ParseCronExpression(cron)), cron>>
          /\ config = Read(cron)
       \/ /\ cron = NoText /\ effects = <<Choices(First(cron)), cron>>
          /\ config = [First(cron) EXCEPT !.expression = BuildCronExpression(First(cron))]

LEMMA FirstIs == CronTypeOK => First(cron) \in Config /\ First(cron).type = "daily"
BY DefaultConfigIs DEF CronTypeOK, First, DefaultConfig, ConfigOf, Frequencies

LEMMA RebuiltIs ==
  ASSUME CronTypeOK
  PROVE  Rebuilt \in Config /\ Choices(Rebuilt) = Choices(config)
<1>1. CASE Choices(config) # effects[1] /\ config.type # "custom"
  BY <1>1, BuiltIs, ExpressionIsNoChoice DEF Rebuilt, CronTypeOK
<1>2. CASE ~(Choices(config) # effects[1] /\ config.type # "custom")
  BY <1>2 DEF Rebuilt, CronTypeOK
<1> QED BY <1>1, <1>2

LEMMA RunEffectsKeeps ==
  ASSUME CronTypeOK, UntouchedInv, RunEffects
  PROVE  (CronTypeOK /\ UntouchedInv)'
<1>1. UNCHANGED <<cron, building, touches>> /\ effects' = <<Choices(config), cron>> /\ ~Settled
  BY DEF RunEffects, formVars
<1>2. CronTypeOK'
  <2>1. CASE config' = ParseCronExpression(cron) /\ custom' = cron
    BY <1>1, <2>1, ParsedIs DEF CronTypeOK
  <2>2. CASE config' = Rebuilt /\ UNCHANGED custom
    BY <1>1, <2>2, RebuiltIs DEF CronTypeOK
  <2> QED BY <2>1, <2>2 DEF RunEffects
<1>3. UntouchedInv'
  <2> SUFFICES ASSUME building, touches = 0
               PROVE  UntouchedInv'
    BY <1>1 DEF UntouchedInv
  <2>1. CASE effects = <<Never, Never>> /\ config = First(cron)
    <3>1. effects[1] = Never /\ effects[2] = NoText
      BY <2>1 DEF Never, NoText
    <3>2. CASE cron # NoText
      <4>1. config' = ParseCronExpression(cron) /\ custom' = cron
        BY <3>1, <3>2 DEF RunEffects
      <4> QED BY <1>1, <2>1, <3>2, <4>1 DEF UntouchedInv
    <3>3. CASE cron = NoText
      <4>1. config' = Rebuilt /\ custom' = custom
        BY <3>3 DEF RunEffects
      <4>2. Choices(config) # Never /\ config.type = "daily"
        BY <2>1, FirstIs DEF Choices, Never
      <4>3. config' = [First(cron) EXCEPT !.expression = BuildCronExpression(First(cron))]
        BY <2>1, <3>1, <4>1, <4>2 DEF Rebuilt
      <4> QED BY <1>1, <2>1, <3>3, <4>1, <4>3 DEF UntouchedInv
    <3> QED BY <3>2, <3>3
  <2>2. CASE /\ cron # NoText /\ effects = <<Choices(First(cron)), cron>>
             /\ config = ParseCronExpression(cron)
    <3>1. config' = Rebuilt /\ custom' = custom
      BY <2>2 DEF RunEffects
    <3>2. config' = Read(cron)
      BY <2>2, <3>1 DEF Rebuilt, Read
    <3> QED BY <1>1, <2>2, <3>1, <3>2 DEF UntouchedInv
  <2>3. CASE /\ cron # NoText /\ effects = <<Choices(ParseCronExpression(cron)), cron>>
             /\ config = Read(cron)
    <3>1. Choices(Read(cron)) = Choices(ParseCronExpression(cron))
      BY ParsedIs, BuiltIs, ExpressionIsNoChoice DEF Read, CronTypeOK
    <3> QED BY <1>1, <2>3, <3>1 DEF Settled
  <2>4. CASE /\ cron = NoText /\ effects = <<Choices(First(cron)), cron>>
             /\ config = [First(cron) EXCEPT !.expression = BuildCronExpression(First(cron))]
    <3>1. Choices(config) = Choices(First(cron))
      BY <2>4, FirstIs, BuiltIs, ExpressionIsNoChoice
    <3> QED BY <1>1, <2>4, <3>1 DEF Settled
  <2> QED BY <2>1, <2>2, <2>3, <2>4 DEF UntouchedInv
<1> QED BY <1>2, <1>3

\* An expression of the form is one of those that are known to be fields.
LEMMA OtherCrons ==
  ASSUME CronTypeOK, FormNext, ~RunEffects
  PROVE  (CronTypeOK /\ UntouchedInv)' \/ UNCHANGED <<cron, cronVars>>
<1>1. DefaultConfig("daily", NoText) \in Config /\ DefaultConfig("daily", cron) \in Config
  BY WeekdaysIs, DefaultConfigIs DEF CronTypeOK, Frequencies
<1>2. CASE OpenForm \/ FlowsArrive \/ ChooseFlow \/ SubmitForm \/ NotSaved
  BY <1>2 DEF OpenForm, FlowsArrive, ChooseFlow, SubmitForm, NotSaved
<1>3. CASE TypeCron
  <2>1. cron' \in Seq(Field) /\ UNCHANGED cronVars /\ ~building
    BY <1>3, WeekdaysIs, ExpressionsAssumption DEF TypeCron
  <2> QED BY <2>1 DEF cronVars, CronTypeOK, UntouchedInv
<1>4. CASE OpenBuilder
  BY <1>1, <1>4 DEF OpenBuilder, Mount, formVars, CronTypeOK, UntouchedInv, First
<1>5. CASE CloseForm \/ Saved
  BY <1>1, <1>5, WeekdaysIs DEF CloseForm, Saved, HandleClose, Unmount, CronTypeOK, UntouchedInv
<1>6. CASE ChooseType
  <2>1. config' \in Config
    BY <1>6 DEF ChooseType, CronTypeOK, Config, Frequencies
  <2>2. UNCHANGED <<cron, custom>> /\ touches' \in Nat /\ touches' # 0
    BY <1>6 DEF ChooseType, Touch, formVars, CronTypeOK
  <2> QED BY <2>1, <2>2 DEF CronTypeOK, UntouchedInv
<1>7. CASE ChooseTime
  <2>1. config' \in Config
    <3>1. Minutes \subseteq Nat /\ Hours \subseteq Nat /\ DaysOfMonth \subseteq Nat /\ DaysOfWeek \subseteq Nat
      BY ExpressionsAssumption
    <3> QED BY <1>7, <3>1 DEF ChooseTime, CronTypeOK, Config
  <2>2. UNCHANGED <<cron, custom>> /\ touches' \in Nat /\ touches' # 0
    BY <1>7 DEF ChooseTime, Touch, formVars, CronTypeOK
  <2> QED BY <2>1, <2>2 DEF CronTypeOK, UntouchedInv
<1>8. CASE TypeCustom
  BY <1>8, ExpressionsAssumption DEF TypeCustom, Touch, formVars, CronTypeOK, UntouchedInv
<1>9. CASE ChoosePreset
  <2>1. cron' \in Seq(Field) /\ custom' \in Seq(Field) /\ config' \in Config
    BY <1>9, PresetsAre, ParsedIs DEF ChoosePreset
  <2>2. touches' \in Nat /\ touches' # 0
    BY <1>9 DEF ChoosePreset, Touch, CronTypeOK
  <2> QED BY <2>1, <2>2 DEF CronTypeOK, UntouchedInv
<1>10. CASE UseThisSchedule
  <2>1. FinalExpression \in Seq(Field)
    BY DEF FinalExpression, CronTypeOK, Config
  <2> QED BY <1>1, <1>10, <2>1, WeekdaysIs DEF UseThisSchedule, Unmount, CronTypeOK, UntouchedInv
<1>11. CASE CancelBuilder
  BY <1>1, <1>11, WeekdaysIs DEF CancelBuilder, Unmount, formVars, CronTypeOK, UntouchedInv
<1> QED
  BY <1>2, <1>3, <1>4, <1>5, <1>6, <1>7, <1>8, <1>9, <1>10, <1>11 DEF FormNext

\* Until the user chooses something, what the builder would give back is what it read.
LEMMA UntouchedGives ==
  ASSUME CronTypeOK, UntouchedInv, building, Settled, touches = 0
  PROVE  FinalExpression = cron <=> Kept(cron)
<1>1. CASE effects = <<Never, Never>> /\ config = First(cron)
  <2>1. Choices(config) = Never
    BY <1>1 DEF Settled
  <2> QED BY <2>1 DEF Choices, Never
<1>2. CASE /\ cron # NoText /\ effects = <<Choices(First(cron)), cron>>
           /\ config = ParseCronExpression(cron)
  <2>1. Choices(ParseCronExpression(cron)) = Choices(First(cron))
    BY <1>2 DEF Settled
  <2>2. FinalExpression = GivenBack(cron)
    BY <1>2, <2>1 DEF FinalExpression, GivenBack, Read, UntouchedInv
  <2> QED BY <1>2, <2>2, GivenBackIsKept DEF CronTypeOK
<1>3. CASE /\ cron # NoText /\ effects = <<Choices(ParseCronExpression(cron)), cron>>
           /\ config = Read(cron)
  <2>1. Read(cron).type = ParseCronExpression(cron).type
    BY ParsedIs, BuiltIs, ExpressionIsNoChoice DEF Read, CronTypeOK
  <2>2. FinalExpression = GivenBack(cron)
    BY <1>3, <2>1 DEF FinalExpression, GivenBack, UntouchedInv
  <2> QED BY <1>3, <2>2, GivenBackIsKept DEF CronTypeOK
<1>4. CASE /\ cron = NoText
           /\ config = [First(cron) EXCEPT !.expression = BuildCronExpression(First(cron))]
  <2>1. FinalExpression = BuildCronExpression(First(cron))
    BY <1>4, FirstIs, BuiltIs, ExpressionIsNoChoice DEF FinalExpression
  <2>2. Len(BuildCronExpression(First(cron))) = 5
    BY FirstIs DEF BuildCronExpression
  <2>3. FinalExpression # cron
    BY <1>4, <2>1, <2>2 DEF NoText
  <2>4. ~Kept(cron)
    BY <1>4 DEF Kept
  <2> QED BY <2>3, <2>4
<1> QED BY <1>1, <1>2, <1>3, <1>4 DEF UntouchedInv

\* Opened and used without a choice, the builder gives back the form's expression just when
\* Kept says that it does: of CronExpressionBuilder's two effects, for every expression that
\* a user may type.
THEOREM UntouchedIsAlwaysKept == FormSpec => []UntouchedIsKept
<1>1. FormInit => CronTypeOK /\ UntouchedInv
  <2>1. DefaultConfig("daily", NoText) \in Config
    BY WeekdaysIs, DefaultConfigIs DEF Frequencies
  <2> QED BY <2>1, WeekdaysIs DEF FormInit, CronTypeOK, UntouchedInv
<1>2. ASSUME CronTypeOK, UntouchedInv, [FormNext]_<<formVars, cronVars>>
      PROVE  (CronTypeOK /\ UntouchedInv)'
  <2>1. CASE UNCHANGED <<cron, cronVars>>
    BY <1>2, <2>1 DEF cronVars, CronTypeOK, UntouchedInv
  <2> QED BY <1>2, <2>1, OtherCrons, RunEffectsKeeps DEF formVars
<1>3. CronTypeOK /\ UntouchedInv => UntouchedIsKept
  BY UntouchedGives DEF UntouchedIsKept
<1> QED BY <1>1, <1>2, <1>3, PTL DEF FormSpec

-----------------------------------------------------------------------------
(***************************************************************************)
(* The palette and the panel: the settings are those of the node.          *)
(***************************************************************************)

PaletteSpec == PaletteInit /\ [][PaletteNext]_paletteVars

Settings == Types \union {Shared}
CatalogLoad == [by : {"sidebar", "page", "panel"}, node : Types \union {NoType},
                had : SUBSET Settings]

PaletteTypeOK ==
  /\ catalogLoads \in Seq(CatalogLoad)
  /\ \A i \in DOMAIN catalogLoads : catalogLoads[i].by = "panel" <=> catalogLoads[i].node # NoType
  /\ configs \in [Types -> SUBSET Settings]
  /\ selected \in Types \union {NoType} /\ metadata \in Types \union {NoType}
  /\ local \subseteq Settings
  /\ cached \in BOOLEAN /\ waiting \in BOOLEAN

\* A node that was never selected across another's request: only its own definition is
\* awaited, is shown unless one is awaited, and names every setting the panel has of it.
PanelInv ==
  /\ selected \notin crossed \union {NoType} =>
       /\ Awaited \subseteq {selected}
       /\ ~waiting => metadata \in {selected, NoType}
       /\ local \subseteq Inputs(selected)
  /\ \A n \in Types \ crossed : configs[n] \subseteq Inputs(n)

PaletteInv == PaletteTypeOK /\ PanelInv

\* One more request, and one less.
LEMMA AskType ==
  ASSUME PaletteTypeOK, NEW by \in {"sidebar", "page", "panel"}, NEW n \in Types \union {NoType},
         NEW had \in SUBSET Settings, AskForCatalog(by, n, had), by = "panel" <=> n # NoType
  PROVE  /\ catalogLoads' \in Seq(CatalogLoad)
         /\ \A i \in DOMAIN catalogLoads' :
              catalogLoads'[i].by = "panel" <=> catalogLoads'[i].node # NoType
         /\ Awaited' = Awaited \union ({n} \ {NoType})
<1> DEFINE q == [by |-> by, node |-> n, had |-> had]
<1>1. q \in CatalogLoad
  BY DEF CatalogLoad
<1>2. catalogLoads' = Append(catalogLoads, q) /\ catalogLoads \in Seq(CatalogLoad)
  BY DEF AskForCatalog, PaletteTypeOK
<1>3. q.by = by /\ q.node = n
  OBVIOUS
<1> HIDE DEF q
<1>4. /\ catalogLoads' \in Seq(CatalogLoad)
      /\ Len(catalogLoads) \in Nat
      /\ DOMAIN catalogLoads = 1..Len(catalogLoads)
      /\ DOMAIN catalogLoads' = 1..(Len(catalogLoads) + 1)
      /\ \A i \in DOMAIN catalogLoads : catalogLoads'[i] = catalogLoads[i]
      /\ catalogLoads'[Len(catalogLoads) + 1] = q
  BY <1>1, <1>2
<1>5. \A i \in DOMAIN catalogLoads' : i \in DOMAIN catalogLoads \/ i = Len(catalogLoads) + 1
  BY <1>4
<1>6. \A i \in DOMAIN catalogLoads' : catalogLoads'[i].by = "panel" <=> catalogLoads'[i].node # NoType
  BY <1>3, <1>4, <1>5 DEF PaletteTypeOK
<1>7. DOMAIN catalogLoads' = DOMAIN catalogLoads \union {Len(catalogLoads) + 1}
  BY <1>4
<1>8. Awaited' = Awaited \union ({n} \ {NoType})
  BY <1>3, <1>4, <1>7 DEF Awaited
<1> QED BY <1>4, <1>6, <1>8

LEMMA TakeType ==
  ASSUME PaletteTypeOK, NEW i \in DOMAIN catalogLoads, TakeAnswer(i)
  PROVE  /\ catalogLoads' \in Seq(CatalogLoad)
         /\ \A j \in DOMAIN catalogLoads' :
              catalogLoads'[j].by = "panel" <=> catalogLoads'[j].node # NoType
         /\ Awaited' \subseteq Awaited
         /\ catalogLoads[i] \in CatalogLoad
         /\ catalogLoads[i].by = "panel" => catalogLoads[i].node \in Awaited
<1>1. /\ Len(catalogLoads) \in Nat /\ DOMAIN catalogLoads = 1..Len(catalogLoads)
      /\ i \in 1..Len(catalogLoads)
  BY DEF PaletteTypeOK
<1>2. \A j \in 1..(Len(catalogLoads) - 1) :
        \E k \in DOMAIN catalogLoads : catalogLoads'[j] = catalogLoads[k]
  BY <1>1 DEF TakeAnswer
<1>3. DOMAIN catalogLoads' = 1..(Len(catalogLoads) - 1) /\ Len(catalogLoads) - 1 \in Nat
  BY <1>1 DEF TakeAnswer
<1>4. \A k \in DOMAIN catalogLoads : catalogLoads[k] \in CatalogLoad
  BY DEF PaletteTypeOK
<1>5. catalogLoads' \in Seq(CatalogLoad)
  <2>1. \A j \in 1..(Len(catalogLoads) - 1) :
          (IF j < i THEN catalogLoads[j] ELSE catalogLoads[j + 1]) \in CatalogLoad
    BY <1>1, <1>4
  <2> QED BY <1>3, <2>1 DEF TakeAnswer
<1>6. \A j \in DOMAIN catalogLoads' :
        \E k \in DOMAIN catalogLoads : catalogLoads'[j] = catalogLoads[k]
  BY <1>2, <1>3
<1>7. \A j \in DOMAIN catalogLoads' :
        catalogLoads'[j].by = "panel" <=> catalogLoads'[j].node # NoType
  BY <1>6 DEF PaletteTypeOK
<1>8. Awaited' \subseteq Awaited
  BY <1>6 DEF Awaited
<1>9. catalogLoads[i].by = "panel" => catalogLoads[i].node \in Awaited
  BY DEF PaletteTypeOK, Awaited
<1> QED BY <1>4, <1>5, <1>7, <1>8, <1>9

\* The node that is shown from now on: its settings are its own, if it was not crossed.
LEMMA ShowNodeInv ==
  ASSUME PaletteInv, NEW n \in Types, NEW own \in SUBSET Settings,
         ShowNode(n, own), Crossing(n), selected' = n, UNCHANGED cached,
         configs' \in [Types -> SUBSET Settings],
         n \notin crossed' => own \subseteq Inputs(n),
         \A m \in Types \ crossed' : configs'[m] \subseteq Inputs(m)
  PROVE  PaletteInv'
<1>1. n # NoType /\ Inputs(n) \subseteq Settings
  BY PaletteAssumption DEF Inputs, Settings
<1>2. /\ catalogLoads' \in Seq(CatalogLoad)
      /\ \A i \in DOMAIN catalogLoads' :
           catalogLoads'[i].by = "panel" <=> catalogLoads'[i].node # NoType
      /\ Awaited' \subseteq Awaited \union {n}
  <2>1. CASE cached
    BY <2>1 DEF ShowNode, PaletteInv, PaletteTypeOK, Awaited
  <2>2. CASE ~cached
    <3>1. AskForCatalog("panel", n, local)
      BY <2>2 DEF ShowNode
    <3> QED BY <1>1, <3>1, AskType DEF PaletteInv, PaletteTypeOK
  <2> QED BY <2>1, <2>2
<1>3. /\ local' \subseteq own \union Inputs(n)
      /\ ~cached => local' = own
      /\ local' \subseteq Settings
      /\ ~waiting' => metadata' = n
      /\ metadata' \in Types \union {NoType} /\ waiting' \in BOOLEAN
  BY <1>1 DEF ShowNode, Defaults, PaletteInv, PaletteTypeOK
<1>4. PaletteTypeOK'
  BY <1>2, <1>3 DEF PaletteInv, PaletteTypeOK
<1>5. n \notin crossed' => Awaited \subseteq {n}
  BY DEF Crossing
<1>6. PanelInv'
  BY <1>2, <1>3, <1>5 DEF PanelInv
<1> QED BY <1>4, <1>6 DEF PaletteInv

LEMMA PaletteInvStep == PaletteInv /\ [PaletteNext]_paletteVars => PaletteInv'
<1> SUFFICES ASSUME PaletteInv, [PaletteNext]_paletteVars PROVE PaletteInv'
  OBVIOUS
<1>0. \A n \in Types : n # NoType /\ Inputs(n) \subseteq Settings
  BY PaletteAssumption DEF Inputs, Settings
<1>1. CASE Expire \/ UNCHANGED paletteVars
  BY <1>1 DEF Expire, paletteVars, panelVars, PaletteInv, PaletteTypeOK, PanelInv, Awaited
<1>2. ASSUME NEW by \in {"sidebar", "page"}, AskForCatalog(by, NoType, {}), UNCHANGED panelVars,
             cached' \in BOOLEAN
      PROVE  PaletteInv'
  <2>1. /\ catalogLoads' \in Seq(CatalogLoad)
        /\ \A i \in DOMAIN catalogLoads' :
             catalogLoads'[i].by = "panel" <=> catalogLoads'[i].node # NoType
        /\ Awaited' = Awaited
    <3>1. {} \in SUBSET Settings /\ NoType \in Types \union {NoType} /\ by # "panel"
      OBVIOUS
    <3> QED BY <1>2, <3>1, AskType DEF PaletteInv
  <2> QED BY <1>2, <2>1 DEF panelVars, PaletteInv, PaletteTypeOK, PanelInv
<1>3. CASE Browse
  BY <1>2, <1>3 DEF Browse, PaletteInv, PaletteTypeOK
<1>4. CASE RefreshNodes
  BY <1>2, <1>4 DEF RefreshNodes
<1>5. CASE Select
  <2>1. PICK n \in Types : selected' = n /\ ShowNode(n, configs[n]) /\ Crossing(n)
    BY <1>5 DEF Select
  <2>2. configs' = configs /\ cached' = cached /\ crossed \subseteq crossed'
    BY <1>5, <2>1 DEF Select, Crossing
  <2> QED BY <2>1, <2>2, ShowNodeInv DEF PaletteInv, PaletteTypeOK, PanelInv
<1>6. CASE Deselect
  BY <1>6 DEF Deselect, PaletteInv, PaletteTypeOK, PanelInv, Awaited
<1>7. CASE Change
  <2>1. PICK k \in Inputs(metadata) : local' = local \union {k}
    BY <1>7 DEF Change, HandleLocalChange
  <2>2. metadata \in Types
    BY <1>7 DEF Change, Shown, PaletteInv, PaletteTypeOK
  <2> QED BY <1>0, <1>7, <2>1, <2>2 DEF Change, Shown, PaletteInv, PaletteTypeOK, PanelInv, Awaited
<1>8. CASE CommitConfig
  <2>1. /\ selected \in Types /\ selected' = selected /\ UNCHANGED cached
        /\ configs' = [configs EXCEPT ![selected] = @ \union local]
        /\ ShowNode(selected, configs'[selected]) /\ Crossing(selected)
    BY <1>8 DEF CommitConfig, Shown, UpdateNodeConfig, PaletteInv, PaletteTypeOK
  <2>2. /\ configs' \in [Types -> SUBSET Settings]
        /\ configs'[selected] = configs[selected] \union local
        /\ \A m \in Types \ {selected} : configs'[m] = configs[m]
    BY <2>1 DEF PaletteInv, PaletteTypeOK
  <2>3. crossed \subseteq crossed'
    BY <2>1 DEF Crossing
  <2>4. selected \notin crossed' => configs'[selected] \subseteq Inputs(selected)
    BY <1>0, <2>1, <2>2, <2>3 DEF PaletteInv, PanelInv
  <2>5. \A m \in Types \ crossed' : configs'[m] \subseteq Inputs(m)
    BY <2>2, <2>3, <2>4 DEF PaletteInv, PanelInv
  <2> QED BY <2>1, <2>2, <2>4, <2>5, ShowNodeInv
<1>9. ASSUME NEW i \in DOMAIN catalogLoads, TakeAnswer(i), UNCHANGED <<configs, selected, crossed>>,
             NEW definition \in {catalogLoads[i].node, NoType}, NEW defaults,
             catalogLoads[i].by = "panel" =>
               defaults \subseteq Inputs(catalogLoads[i].node),
             LoadNodeMetadata(catalogLoads[i], definition, defaults), cached' \in BOOLEAN
      PROVE  PaletteInv'
  <2>1. /\ catalogLoads' \in Seq(CatalogLoad)
        /\ \A j \in DOMAIN catalogLoads' :
             catalogLoads'[j].by = "panel" <=> catalogLoads'[j].node # NoType
        /\ Awaited' \subseteq Awaited
        /\ catalogLoads[i].node \in Types \union {NoType}
        /\ catalogLoads[i].by = "panel" => catalogLoads[i].node \in Awaited
    BY <1>9, TakeType DEF PaletteInv, CatalogLoad
  <2>4. catalogLoads[i].by = "panel" => defaults \subseteq Settings
    BY <1>0, <1>9, <2>1 DEF Awaited
  <2>2. PaletteTypeOK'
    BY <1>9, <2>1, <2>4 DEF LoadNodeMetadata, PaletteInv, PaletteTypeOK
  <2>3. PanelInv'
    BY <1>9, <2>1 DEF LoadNodeMetadata, PaletteInv, PanelInv
  <2> QED BY <2>2, <2>3 DEF PaletteInv
<1>10. CASE Definitions
  <2>1. PICK i \in DOMAIN catalogLoads :
          /\ TakeAnswer(i)
          /\ LoadNodeMetadata(catalogLoads[i], catalogLoads[i].node,
                              Defaults(catalogLoads[i].node, catalogLoads[i].had))
    BY <1>10 DEF Definitions
  <2>2. Defaults(catalogLoads[i].node, catalogLoads[i].had) \subseteq Inputs(catalogLoads[i].node)
    BY DEF Defaults
  <2>3. UNCHANGED <<configs, selected, crossed>> /\ cached' \in BOOLEAN
    BY <1>10 DEF Definitions
  <2> QED BY <1>9, <2>1, <2>2, <2>3
<1>11. CASE NoDefinitions
  BY <1>9, <1>11 DEF NoDefinitions, PaletteInv, PaletteTypeOK
<1> QED
  BY <1>1, <1>3, <1>4, <1>5, <1>6, <1>7, <1>8, <1>10, <1>11 DEF PaletteNext

\* Whatever is selected, changed, refreshed and answered in any order: the panel shows the
\* settings of its node, and updateNodeConfig gives a node those of its own type, but for
\* a node that was selected while loadNodeMetadata awaited another's.
THEOREM SettingsStayOfTheNode == PaletteSpec => []SettingsAreOfTheNode
<1>1. PaletteInit => PaletteInv
  <2> SUFFICES ASSUME PaletteInit PROVE PaletteInv
    OBVIOUS
  <2> DEFINE q == [by |-> "sidebar", node |-> NoType, had |-> {}]
  <2>1. catalogLoads = <<q>> /\ q \in CatalogLoad /\ q.by = "sidebar" /\ q.node = NoType
    BY DEF PaletteInit, CatalogLoad
  <2> HIDE DEF q
  <2>2. catalogLoads \in Seq(CatalogLoad) /\ DOMAIN catalogLoads = {1} /\ catalogLoads[1] = q
    BY <2>1
  <2>3. PaletteTypeOK
    BY <2>1, <2>2 DEF PaletteInit, PaletteTypeOK
  <2>4. PanelInv
    BY DEF PaletteInit, PanelInv
  <2> QED BY <2>3, <2>4 DEF PaletteInv
<1>2. PaletteInv => SettingsAreOfTheNode
  BY DEF PaletteInv, PanelInv, SettingsAreOfTheNode
<1> QED BY <1>1, <1>2, PaletteInvStep, PTL DEF PaletteSpec

-----------------------------------------------------------------------------
(***************************************************************************)
(* The execution dialog: what it shows, and what it asks to be retried.    *)
(***************************************************************************)

DetailsSpec == DetailsInit /\ [][DetailsNext]_detailsVars

Update == [type : {"execution_update", "pong"}, id : Executions \union {"none"},
           status : {"none"} \union Statuses]
DetailsLoad == [id : Executions, answer : {"none"} \union Statuses, overtaken : BOOLEAN]

DetailsTypeOK ==
  /\ status \in [Executions -> Statuses]
  /\ opened \in Executions \union {NoExecution}
  /\ details \in [id : Executions \union {NoExecution},
                  status : {"none"} \union Statuses, own : BOOLEAN]
  /\ loads \in Seq(DetailsLoad)
  /\ downward \in Seq(Update)
  /\ outdated \in BOOLEAN /\ failed \in BOOLEAN

\* Nobody is told that an execution has failed that never had.
True(id, s) == s = "failed" => id \in hadFailed

Messages == {downward[i] : i \in DOMAIN downward}

TruthInv ==
  /\ \A e \in Executions : True(e, status[e])
  /\ details.own => True(details.id, details.status)
  /\ \A i \in Indices : True(loads[i].id, loads[i].answer)
  /\ \A m \in Messages : m.type = "execution_update" => True(m.id, m.status)

\* Only the execution the dialog is open for is listened to, and nothing is under way
\* without a connection.
ListensInv ==
  /\ socket # "open" => upward = <<>> /\ downward = <<>> /\ topics = {}
  /\ reconnect => socket = "closed"
  /\ listeners = IF opened = NoExecution THEN {} ELSE {opened}

IsUpdate(m, e) == m.type = "execution_update" /\ m.id = e

\* The last update of e tells s.
Newest(q, e, s) ==
  \A i \in DOMAIN q : /\ IsUpdate(q[i], e)
                      /\ \A j \in DOMAIN q : j > i => ~IsUpdate(q[j], e)
                      => q[i].status = s

\* The status is the present one, or an update is on its way.
Told(s) == s = status[opened] \/ \E m \in Messages : IsUpdate(m, opened)

\* As long as nothing excuses the dialog it waits for one answer at most, the last update
\* under way tells the present status, and so will what it shows, or is about to show.
UpToDate ==
  /\ Len(loads) <= 1
  /\ \A i \in Indices : loads[i].id = opened
  /\ Newest(downward, opened, status[opened])
  /\ loads = <<>> /\ ~failed => details.id = opened /\ Told(details.status)
  /\ \A i \in Indices : loads[i].answer # "none" /\ ~loads[i].overtaken => Told(loads[i].answer)

ShownInv == opened # NoExecution /\ ~outdated => UpToDate

DetailsInv == DetailsTypeOK /\ TruthInv /\ ListensInv /\ ShownInv

\* The messages after one that is pushed, and after one that is received.
LEMMA Pushed ==
  ASSUME DetailsTypeOK, NEW m \in Update, Push(m)
  PROVE  downward' \in Seq(Update) /\ Messages' = Messages \union {m}
<1>1. downward' = Append(downward, m) /\ downward \in Seq(Update)
  BY DEF Push, DetailsTypeOK
<1>2. /\ downward' \in Seq(Update) /\ Len(downward) \in Nat
      /\ DOMAIN downward = 1..Len(downward)
      /\ DOMAIN downward' = 1..(Len(downward) + 1)
      /\ \A i \in DOMAIN downward : downward'[i] = downward[i]
      /\ downward'[Len(downward) + 1] = m
  BY <1>1
<1>3. DOMAIN downward' = DOMAIN downward \union {Len(downward) + 1}
  BY <1>2
<1> QED BY <1>2, <1>3 DEF Messages

LEMMA Received ==
  ASSUME DetailsTypeOK, downward # <<>>, downward' = Tail(downward)
  PROVE  /\ downward' \in Seq(Update)
         /\ Head(downward) \in Update
         /\ Messages = Messages' \union {Head(downward)}
<1>1. downward \in Seq(Update)
  BY DEF DetailsTypeOK
<1>2. /\ downward' \in Seq(Update) /\ Head(downward) \in Update
      /\ Len(downward) \in Nat /\ DOMAIN downward = 1..Len(downward) /\ Len(downward) # 0
      /\ DOMAIN downward' = 1..(Len(downward) - 1)
      /\ \A i \in DOMAIN downward' : downward'[i] = downward[i + 1]
      /\ Head(downward) = downward[1]
  BY <1>1
<1>3. ASSUME NEW i \in DOMAIN downward, i # 1
      PROVE  i - 1 \in DOMAIN downward' /\ downward[i] = downward'[i - 1]
  BY <1>2, <1>3
<1>4. \A i \in DOMAIN downward' : i + 1 \in DOMAIN downward
  BY <1>2
<1>5. 1 \in DOMAIN downward
  BY <1>2
<1>6. Messages \subseteq Messages' \union {Head(downward)}
  <2>1. ASSUME NEW i \in DOMAIN downward
        PROVE  downward[i] \in {downward'[j] : j \in DOMAIN downward'} \union {Head(downward)}
    <3>1. CASE i = 1
      BY <1>2, <3>1
    <3>2. CASE i # 1
      BY <1>3, <3>2
    <3> QED BY <3>1, <3>2
  <2> QED BY <2>1 DEF Messages
<1>7. Messages' \union {Head(downward)} \subseteq Messages
  BY <1>2, <1>4, <1>5 DEF Messages
<1> QED BY <1>2, <1>6, <1>7

\* What the last update tells, after one that is pushed, and after one that is received.
LEMMA NewestPushed ==
  ASSUME NEW S, NEW q \in Seq(S), NEW m, NEW e, NEW s
  PROVE  /\ IsUpdate(m, e) /\ m.status = s => Newest(Append(q, m), e, s)
         /\ ~IsUpdate(m, e) /\ Newest(q, e, s) => Newest(Append(q, m), e, s)
<1> DEFINE n == Len(q)
           p == Append(q, m)
<1>1. /\ n \in Nat /\ DOMAIN q = 1..n /\ DOMAIN p = 1..(n + 1)
      /\ \A i \in 1..n : p[i] = q[i]
      /\ p[n + 1] = m
  OBVIOUS
<1> HIDE DEF n, p
<1>2. \A i \in 1..(n + 1) : i \in 1..n \/ i = n + 1
  BY <1>1
<1>3. n + 1 \in 1..(n + 1) /\ (\A i \in 1..n : n + 1 > i /\ i \in 1..(n + 1))
  BY <1>1
<1>4. ASSUME IsUpdate(m, e), m.status = s PROVE Newest(p, e, s)
  BY <1>1, <1>2, <1>3, <1>4 DEF Newest
<1>5. ASSUME ~IsUpdate(m, e), Newest(q, e, s) PROVE Newest(p, e, s)
  <2> SUFFICES ASSUME NEW i \in DOMAIN p, IsUpdate(p[i], e),
                      \A j \in DOMAIN p : j > i => ~IsUpdate(p[j], e)
               PROVE  p[i].status = s
    BY DEF Newest
  <2>1. i \in 1..n /\ p[i] = q[i]
    BY <1>1, <1>2, <1>5
  <2>2. \A j \in DOMAIN q : j > i => ~IsUpdate(q[j], e)
    BY <1>1, <1>3
  <2> QED BY <1>1, <1>5, <2>1, <2>2 DEF Newest
<1> QED BY <1>4, <1>5 DEF p

LEMMA NewestReceived ==
  ASSUME NEW S, NEW q \in Seq(S), q # <<>>, NEW e, NEW s, Newest(q, e, s)
  PROVE  /\ Newest(Tail(q), e, s)
         /\ \/ \E i \in DOMAIN Tail(q) : IsUpdate(Tail(q)[i], e)
            \/ IsUpdate(Head(q), e) => Head(q).status = s
<1> DEFINE n == Len(q)
           t == Tail(q)
<1>1. /\ n \in Nat /\ n > 0 /\ DOMAIN q = 1..n /\ DOMAIN t = 1..(n - 1) /\ Head(q) = q[1]
      /\ \A i \in 1..(n - 1) : t[i] = q[i + 1]
  OBVIOUS
<1> HIDE DEF n, t
<1>2. /\ \A i \in 1..(n - 1) : i + 1 \in 1..n
      /\ \A j \in 1..n : j = 1 \/ (j - 1 \in 1..(n - 1) /\ q[j] = t[j - 1])
      /\ 1 \in 1..n
  BY <1>1
<1>3. Newest(t, e, s)
  <2> SUFFICES ASSUME NEW i \in 1..(n - 1), IsUpdate(t[i], e),
                      \A j \in 1..(n - 1) : j > i => ~IsUpdate(t[j], e)
               PROVE  t[i].status = s
    BY <1>1 DEF Newest
  <2>1. ASSUME NEW j \in 1..n, j > i + 1 PROVE ~IsUpdate(q[j], e)
    <3>1. j - 1 \in 1..(n - 1) /\ j - 1 > i /\ q[j] = t[j - 1]
      BY <1>1, <1>2, <2>1
    <3> QED BY <3>1
  <2> QED BY <1>1, <1>2, <2>1 DEF Newest
<1>4. ASSUME \A i \in 1..(n - 1) : ~IsUpdate(t[i], e), IsUpdate(q[1], e) PROVE q[1].status = s
  <2>1. \A j \in 1..n : j > 1 => ~IsUpdate(q[j], e)
    BY <1>2, <1>4
  <2> QED BY <1>1, <1>2, <1>4, <2>1 DEF Newest
<1> QED BY <1>1, <1>3, <1>4 DEF t

LEMMA NewestNone ==
  ASSUME NEW q, NEW e, NEW s, \A i \in DOMAIN q : q[i].id # e
  PROVE  Newest(q, e, s)
BY DEF Newest, IsUpdate

\* The requests after one more, and without one.
LEMMA Loading ==
  ASSUME DetailsTypeOK, NEW e \in Executions, LoadExecutionDetails(e)
  PROVE  LET q == [id |-> e, answer |-> "none", overtaken |-> FALSE]
         IN /\ loads' \in Seq(DetailsLoad) /\ loads' # <<>>
            /\ Indices' = Indices \union {Len(loads) + 1}
            /\ \A i \in Indices : loads'[i] = loads[i]
            /\ loads'[Len(loads) + 1] = q
            /\ loads = <<>> => Len(loads') = 1 /\ Indices = {}
<1> DEFINE q == [id |-> e, answer |-> "none", overtaken |-> FALSE]
<1>1. q \in DetailsLoad
  BY DEF DetailsLoad
<1>2. loads' = Append(loads, q) /\ loads \in Seq(DetailsLoad)
  BY DEF LoadExecutionDetails, DetailsTypeOK
<1> HIDE DEF q
<1>3. /\ loads' \in Seq(DetailsLoad) /\ loads' # <<>> /\ Len(loads) \in Nat
      /\ DOMAIN loads = 1..Len(loads) /\ DOMAIN loads' = 1..(Len(loads) + 1)
      /\ \A i \in DOMAIN loads : loads'[i] = loads[i]
      /\ loads'[Len(loads) + 1] = q
      /\ Len(loads') = Len(loads) + 1
  BY <1>1, <1>2
<1>4. loads = <<>> => Len(loads') = 1 /\ DOMAIN loads = {}
  BY <1>3
<1> QED BY <1>3, <1>4 DEF Indices, q

LEMMA Unloading ==
  ASSUME DetailsTypeOK, NEW i \in Indices, loads' = Without(i)
  PROVE  /\ loads' \in Seq(DetailsLoad)
         /\ \A j \in Indices' : \E k \in Indices : loads'[j] = loads[k]
         /\ Len(loads) <= 1 => loads' = <<>> /\ Indices' = {}
<1>1. /\ Len(loads) \in Nat /\ DOMAIN loads = 1..Len(loads) /\ i \in 1..Len(loads)
      /\ \A k \in DOMAIN loads : loads[k] \in DetailsLoad
  BY DEF DetailsTypeOK, Indices
<1>2. Len(loads) - 1 \in Nat /\ DOMAIN loads' = 1..(Len(loads) - 1)
  BY <1>1 DEF Without
<1>3. \A j \in 1..(Len(loads) - 1) : \E k \in DOMAIN loads : loads'[j] = loads[k]
  BY <1>1 DEF Without
<1>4. loads' \in Seq(DetailsLoad)
  <2>1. \A j \in 1..(Len(loads) - 1) :
          (IF j < i THEN loads[j] ELSE loads[j + 1]) \in DetailsLoad
    BY <1>1
  <2> QED BY <1>2, <2>1 DEF Without
<1>5. ASSUME Len(loads) <= 1 PROVE loads' = <<>> /\ DOMAIN loads' = {}
  <2>1. Len(loads') = 0
    BY <1>1, <1>2, <1>4, <1>5
  <2> QED BY <1>4, <2>1
<1> QED BY <1>2, <1>3, <1>4, <1>5 DEF Indices

\* Steps that leave the statuses, the requests and the messages alone, or only lose messages
\* for a reason.
LEMMA StaysTrue ==
  ASSUME DetailsTypeOK, TruthInv, UNCHANGED <<engineVars, details>>,
         \A m \in Messages' : m \in Messages \/ m.type # "execution_update",
         \A i \in Indices' : \/ loads'[i].answer = "none"
                             \/ \E k \in Indices : /\ loads'[i].id = loads[k].id
                                                   /\ loads'[i].answer = loads[k].answer
  PROVE  TruthInv'
<1>1. \A id, s : True(id, s)' <=> True(id, s)
  BY DEF True, engineVars
<1>2. \A id : True(id, "none")
  BY DEF True
<1>3. status' = status
  BY DEF engineVars
<1>4. \A e \in Executions : True(e, status[e])'
  BY <1>3 DEF TruthInv, True, engineVars
<1> QED BY <1>1, <1>2, <1>4 DEF TruthInv, True

\* The connection: it closes, opens, and carries messages to the server.
LEMMA ConnectionInv ==
  ASSUME DetailsInv, Connection
  PROVE  DetailsInv'
<1>0. UNCHANGED <<engineVars, status, opened, details, loads, failed>> /\ outdated' \in BOOLEAN
  BY DEF Connection, dialogVars, engineVars, DetailsInv, DetailsTypeOK
<1>1. CASE UNCHANGED <<downward, outdated>> /\ (Connected \/ Reconnect \/ Heartbeat \/ TakeMessage)
  <2>1. Messages' = Messages /\ Indices' = Indices
    BY <1>0, <1>1 DEF Messages, Indices
  <2>2. DetailsTypeOK' /\ TruthInv'
    BY <1>0, <1>1, <2>1, StaysTrue DEF DetailsInv, DetailsTypeOK
  <2>3. ShownInv'
    BY <1>0, <1>1, <2>1 DEF DetailsInv, ShownInv, UpToDate, Told, Newest, IsUpdate
  <2>4. ListensInv'
    BY <1>0, <1>1 DEF Connected, Reconnect, Heartbeat, Tell, TakeMessage, IsConnected,
                      DetailsInv, ListensInv, connectionVars
  <2> QED BY <2>2, <2>3, <2>4 DEF DetailsInv
<1>2. CASE TakeMessage /\ UNCHANGED outdated /\ downward' # downward
  <2> DEFINE m == Message("pong", "none", "none")
  <2>1. Push(m) /\ m \in Update /\ m.type = "pong"
    BY <1>2 DEF TakeMessage, Message, Update
  <2>2. downward' \in Seq(Update) /\ Messages' = Messages \union {m}
    BY <2>1, Pushed DEF DetailsInv
  <2> HIDE DEF m
  <2>3. Indices' = Indices
    BY <1>0 DEF Indices
  <2>4. DetailsTypeOK' /\ TruthInv'
    BY <1>0, <1>2, <2>1, <2>2, <2>3, StaysTrue DEF DetailsInv, DetailsTypeOK
  <2>5. ShownInv'
    <3> SUFFICES ASSUME opened # NoExecution, ~outdated PROVE UpToDate'
      BY <1>0, <1>2 DEF ShownInv
    <3>1. UpToDate
      BY DEF DetailsInv, ShownInv
    <3>2. Newest(downward', opened, status[opened])
      <4>1. downward' = Append(downward, m) /\ downward \in Seq(Update) /\ ~IsUpdate(m, opened)
        BY <2>1 DEF Push, DetailsInv, DetailsTypeOK, IsUpdate
      <4>2. PICK d : d = downward
        OBVIOUS
      <4>3. Newest(d, opened, status[opened])
        BY <3>1, <4>2 DEF UpToDate
      <4> QED BY <4>1, <4>2, <4>3, NewestPushed
    <3>3. \A x : Told(x) => Told(x)'
      BY <1>0, <2>2 DEF Told, IsUpdate
    <3> QED BY <1>0, <2>3, <3>1, <3>2, <3>3 DEF UpToDate
  <2>6. ListensInv'
    BY <1>0, <1>2 DEF TakeMessage, DetailsInv, ListensInv
  <2> QED BY <2>4, <2>5, <2>6 DEF DetailsInv
<1>3. CASE Closed /\ outdated' = (outdated \/ (IsConnected /\ opened # NoExecution))
  <2>1. /\ socket' = "closed" /\ downward' = <<>> /\ upward' = <<>> /\ topics' = {}
        /\ listeners' = listeners
    BY <1>3 DEF Closed
  <2>2. downward' \in Seq(Update) /\ Messages' = {}
    BY <2>1 DEF Messages
  <2>3. Indices' = Indices
    BY <1>0 DEF Indices
  <2>4. DetailsTypeOK' /\ TruthInv'
    BY <1>0, <2>2, <2>3, StaysTrue DEF DetailsInv, DetailsTypeOK
  <2>5. ListensInv'
    BY <1>0, <2>1 DEF DetailsInv, ListensInv
  <2>6. ShownInv'
    <3>1. CASE IsConnected
      BY <1>0, <1>3, <3>1 DEF ShownInv
    <3>2. CASE ~IsConnected
      <4>1. downward' = downward
        BY <2>1, <3>2 DEF IsConnected, DetailsInv, ListensInv
      <4>2. Messages' = Messages
        BY <4>1 DEF Messages
      <4> QED BY <1>0, <1>3, <2>3, <3>2, <4>1, <4>2
              DEF DetailsInv, ShownInv, UpToDate, Told, Newest, IsUpdate
    <3> QED BY <3>1, <3>2
  <2> QED BY <2>4, <2>5, <2>6 DEF DetailsInv
<1> QED BY <1>1, <1>2, <1>3 DEF Connection, Connected, Reconnect, Heartbeat, connectionVars

\* An update is heard: it is about the execution the dialog is open for.
LEMMA HearInv ==
  ASSUME DetailsInv, Hear
  PROVE  DetailsInv'
<1> DEFINE m == Head(downward)
<1>1. /\ downward' \in Seq(Update) /\ m \in Update /\ Messages = Messages' \union {m}
      /\ UNCHANGED <<engineVars, status, opened, failed, outdated, socket, reconnect, listeners,
                     topics, upward>>
      /\ downward # <<>>
  BY Received DEF Hear, Receive, DetailsInv, engineVars
<1>5. ASSUME opened # NoExecution, ~outdated
      PROVE  /\ Newest(downward, opened, status[opened])'
             /\ \/ \E k \in Messages' : IsUpdate(k, opened)
                \/ IsUpdate(m, opened) => m.status = status[opened]
  <2>1. Newest(downward, opened, status[opened])
    BY <1>5 DEF DetailsInv, ShownInv, UpToDate
  <2>2. downward' = Tail(downward) /\ downward \in Seq(Update)
    BY DEF Hear, Receive, DetailsInv, DetailsTypeOK
  <2>3. PICK e, st : e = opened /\ st = status[opened]
    OBVIOUS
  <2>4. /\ Newest(Tail(downward), e, st)
        /\ \/ \E i \in DOMAIN Tail(downward) : IsUpdate(Tail(downward)[i], e)
           \/ IsUpdate(Head(downward), e) => Head(downward).status = st
    BY <1>1, <2>1, <2>2, <2>3, NewestReceived
  <2>5. (\E i \in DOMAIN downward' : IsUpdate(downward'[i], e)) => \E k \in Messages' : IsUpdate(k, e)
    BY DEF Messages
  <2>6. Newest(downward', e, st) <=> Newest(downward, opened, status[opened])'
    BY <1>1, <2>3 DEF Newest, IsUpdate
  <2> QED BY <2>2, <2>3, <2>4, <2>5, <2>6
<1>2. ListensInv'
  BY <1>1 DEF DetailsInv, ListensInv
<1> HIDE DEF m
<1>3. CASE ~Notifies(m)
  <2>1. UNCHANGED <<details, loads>> /\ Indices' = Indices
    BY <1>3 DEF Hear, Indices, m
  <2>2. DetailsTypeOK' /\ TruthInv'
    BY <1>1, <2>1, StaysTrue DEF DetailsInv, DetailsTypeOK
  <2>3. opened # NoExecution => ~(m.type = "execution_update" /\ m.id = opened)
    BY <1>3 DEF Notifies, Understood, DetailsInv, ListensInv
  <2>4. ShownInv'
    <3> SUFFICES ASSUME opened # NoExecution, ~outdated PROVE UpToDate'
      BY <1>1 DEF ShownInv
    <3>1. UpToDate
      BY DEF DetailsInv, ShownInv
    <3>2. \A x : Told(x) => Told(x)'
      BY <1>1, <2>3 DEF Told, IsUpdate
    <3> QED BY <1>1, <1>5, <2>1, <3>1, <3>2 DEF UpToDate
  <2> QED BY <1>2, <2>2, <2>4 DEF DetailsInv
<1>4. CASE Notifies(m)
  <2>1. /\ IsUpdate(m, opened) /\ m.type = "execution_update" /\ m.id = opened
        /\ opened \in Executions /\ opened # NoExecution
        /\ m.status \in {"none"} \union Statuses /\ True(opened, m.status)
    <3>1. m.type = "execution_update" /\ m.id = opened /\ opened # NoExecution
      BY <1>1, <1>4 DEF Notifies, Understood, DetailsInv, ListensInv
    <3>2. opened \in Executions /\ m.status \in {"none"} \union Statuses
      BY <1>1, <3>1 DEF DetailsInv, DetailsTypeOK, Update
    <3>3. True(opened, m.status)
      BY <1>1, <3>1 DEF DetailsInv, TruthInv
    <3> QED BY <3>1, <3>2, <3>3 DEF IsUpdate
  <2>2. details' = IF details = Nothing THEN details
                   ELSE [details EXCEPT !.status = m.status, !.own = @ /\ details.id = m.id]
    BY <1>4 DEF Hear, HandleRealtimeUpdate, m
  <2>3. /\ loads' = [i \in Indices |-> [loads[i] EXCEPT !.overtaken =
                         @ \/ (loads[i].id = m.id /\ loads[i].answer # "none")]]
    BY <1>4 DEF Hear, m
  <2>4. /\ details' \in [id : Executions \union {NoExecution},
                         status : {"none"} \union Statuses, own : BOOLEAN]
        /\ details'.id = details.id
        /\ details.id = opened => details'.status = m.status
        /\ details'.own => \/ details.own /\ details'.status = details.status
                           \/ details'.status = m.status /\ details'.id = opened
    <3>1. CASE details = Nothing
      BY <2>1, <2>2, <3>1, DetailsAssumption DEF DetailsInv, DetailsTypeOK, Nothing
    <3>2. CASE details # Nothing
      <4>1. details \in [id : Executions \union {NoExecution},
                        status : {"none"} \union Statuses, own : BOOLEAN]
        BY DEF DetailsInv, DetailsTypeOK
      <4>2. details' = [details EXCEPT !.status = m.status, !.own = @ /\ details.id = m.id]
        BY <2>2, <3>2
      <4>3. /\ details'.id = details.id /\ details'.status = m.status
            /\ details'.own = (details.own /\ details.id = m.id)
        BY <4>1, <4>2
      <4> QED BY <2>1, <4>1, <4>2, <4>3
    <3> QED BY <3>1, <3>2
  <2>5. /\ loads \in Seq(DetailsLoad) /\ Len(loads) \in Nat /\ Indices = 1..Len(loads)
        /\ \A i \in Indices : loads[i] \in DetailsLoad
    BY DEF DetailsInv, DetailsTypeOK, Indices
  <2>6. /\ Indices' = Indices
        /\ \A i \in Indices : /\ loads'[i] \in DetailsLoad
                              /\ loads'[i].id = loads[i].id
                              /\ loads'[i].answer = loads[i].answer
                              /\ (loads[i].id = m.id /\ loads[i].answer # "none") =>
                                   loads'[i].overtaken
    BY <2>3, <2>5 DEF DetailsLoad, Indices
  <2>7. /\ loads' \in Seq(DetailsLoad) /\ Len(loads') = Len(loads)
        /\ loads' = <<>> => loads = <<>>
    <3>1. loads' \in Seq(DetailsLoad)
      <4>1. loads' \in [1..Len(loads) -> DetailsLoad]
        BY <2>3, <2>5, <2>6
      <4> QED BY <2>5, <4>1
    <3>2. Len(loads') = Len(loads)
      BY <2>3, <2>5, <3>1
    <3> QED BY <2>5, <3>1, <3>2
  <2>8. DetailsTypeOK'
    BY <1>1, <2>4, <2>7 DEF DetailsInv, DetailsTypeOK
  <2>9. TruthInv'
    <3>1. \A id, s : True(id, s)' <=> True(id, s)
      BY <1>1 DEF True, engineVars
    <3>2. details'.own => True(details'.id, details'.status)
      <4>1. CASE details.own /\ details'.status = details.status
        BY <2>4, <4>1 DEF DetailsInv, TruthInv
      <4>2. CASE details'.status = m.status /\ details'.id = opened
        BY <2>1, <4>2
      <4> QED BY <2>4, <4>1, <4>2
    <3>3. \A e \in Executions : True(e, status'[e])
      BY <1>1 DEF DetailsInv, TruthInv
    <3>4. \A i \in Indices' : True(loads'[i].id, loads'[i].answer)
      BY <2>6 DEF DetailsInv, TruthInv
    <3>5. \A k \in Messages' : k.type = "execution_update" => True(k.id, k.status)
      BY <1>1 DEF DetailsInv, TruthInv
    <3> QED BY <1>1, <3>1, <3>2, <3>3, <3>4, <3>5 DEF TruthInv, True, engineVars
  <2>10. ShownInv'
    <3> SUFFICES ASSUME opened # NoExecution, ~outdated PROVE UpToDate'
      BY <1>1 DEF ShownInv
    <3>1. Len(loads') <= 1 /\ \A i \in Indices' : loads'[i].id = opened'
      BY <1>1, <2>6, <2>7 DEF DetailsInv, ShownInv, UpToDate
    <3>2. \A i \in Indices' : ~(loads'[i].answer # "none" /\ ~loads'[i].overtaken)
      BY <2>1, <2>6 DEF DetailsInv, ShownInv, UpToDate
    <3>3. loads' = <<>> /\ ~failed' => details'.id = opened' /\ Told(details.status)'
      <4> SUFFICES ASSUME loads' = <<>>, ~failed' PROVE details'.id = opened' /\ Told(details.status)'
        OBVIOUS
      <4>1. details.id = opened
        BY <1>1, <2>7 DEF DetailsInv, ShownInv, UpToDate
      <4>2. details'.id = opened' /\ details'.status = m.status
        BY <1>1, <2>4, <4>1
      <4>3. m.status = status[opened] \/ \E k \in Messages' : IsUpdate(k, opened)
        BY <1>5, <2>1
      <4> QED BY <1>1, <4>2, <4>3 DEF Told, IsUpdate
    <3> QED BY <1>1, <1>5, <3>1, <3>2, <3>3 DEF UpToDate
  <2> QED BY <1>2, <2>8, <2>9, <2>10 DEF DetailsInv
<1> QED BY <1>3, <1>4

\* A status changes: who is told of it by then is told by its update, or will be served it.
LEMMA StatusChangesInv ==
  ASSUME DetailsInv, StatusChanges
  PROVE  DetailsInv'
<1>1. PICK e \in Executions, s \in Statuses :
         /\ status' = [status EXCEPT ![e] = s]
         /\ hadFailed' = IF s = "failed" THEN hadFailed \union {e} ELSE hadFailed
         /\ Publish(e, s)
         /\ outdated' = (outdated \/ (/\ opened = e /\ e \notin topics
                                      /\ \/ \A i \in Indices : loads[i].answer # "none"
                                         \/ ToCome(e)))
  BY DEF StatusChanges
<1> DEFINE m == Message("execution_update", e, s)
<1>2. m \in Update /\ m.type = "execution_update" /\ m.id = e /\ m.status = s
  BY DEF Message, Update
<1>3. /\ downward' \in Seq(Update) /\ downward \in Seq(Update)
      /\ e \in topics => Messages' = Messages \union {m} /\ downward' = Append(downward, m)
      /\ e \notin topics => Messages' = Messages /\ downward' = downward
  <2>1. CASE e \in topics
    BY <1>1, <1>2, <2>1, Pushed DEF Publish, Push, DetailsInv, DetailsTypeOK
  <2>2. CASE e \notin topics
    BY <1>1, <2>2 DEF Publish, DetailsInv, DetailsTypeOK, Messages
  <2> QED BY <2>1, <2>2
<1> HIDE DEF m
<1>4. /\ UNCHANGED <<opened, details, loads, failed, socket, reconnect, listeners, topics, upward>>
      /\ Indices' = Indices
  BY <1>1 DEF StatusChanges, dialogVars, Publish, Indices
<1>5. status \in [Executions -> Statuses]
  BY DEF DetailsInv, DetailsTypeOK
<1>6. status'[e] = s /\ \A x \in Executions \ {e} : status'[x] = status[x]
  BY <1>1, <1>5
<1>7. DetailsTypeOK'
  <2>1. outdated' \in BOOLEAN /\ status' \in [Executions -> Statuses]
    BY <1>1, <1>5 DEF DetailsInv, DetailsTypeOK
  <2> QED BY <1>3, <1>4, <2>1 DEF DetailsInv, DetailsTypeOK
<1>8. TruthInv'
  <2>1. ASSUME NEW id, NEW st, True(id, st) PROVE True(id, st)'
    BY <1>1, <2>1 DEF True
  <2>2. True(e, s)'
    BY <1>1 DEF True
  <2>3. ASSUME NEW k \in Messages', k.type = "execution_update"
        PROVE  True(k.id, k.status)'
    BY <1>2, <1>3, <2>1, <2>2, <2>3 DEF DetailsInv, TruthInv
  <2>4. ASSUME NEW x \in Executions PROVE True(x, status[x])'
    <3>1. CASE x = e
      BY <1>6, <2>2, <3>1 DEF True
    <3>2. CASE x # e
      <4>1. True(x, status[x]) /\ status'[x] = status[x]
        BY <1>6, <3>2 DEF DetailsInv, TruthInv
      <4> QED BY <2>1, <4>1 DEF True
    <3> QED BY <3>1, <3>2
  <2>5. details'.own => True(details.id, details.status)'
    BY <1>4, <2>1 DEF DetailsInv, TruthInv, True
  <2>6. \A i \in Indices' : True(loads[i].id, loads[i].answer)'
    BY <1>4, <2>1 DEF DetailsInv, TruthInv, True
  <2> QED BY <2>3, <2>4, <2>5, <2>6 DEF TruthInv, True
<1>9. ListensInv'
  BY <1>3, <1>4 DEF DetailsInv, ListensInv
<1>10. ShownInv'
  <2> SUFFICES ASSUME opened # NoExecution, ~outdated' PROVE UpToDate'
    BY <1>4 DEF ShownInv
  <2>1. UpToDate
    BY <1>1 DEF DetailsInv, ShownInv
  <2>2. CASE opened # e
    <3>0. opened \in Executions /\ status'[opened] = status[opened]
      BY <1>6, <2>2 DEF DetailsInv, DetailsTypeOK
    <3>1. \A x : Told(x) => Told(x)'
      BY <1>3, <1>4, <3>0 DEF Told, IsUpdate
    <3>2. Newest(downward', opened, status[opened])
      <4>1. ~IsUpdate(m, opened)
        BY <1>2, <2>2 DEF IsUpdate
      <4>2. PICK o, st : o = opened /\ st = status[opened]
        OBVIOUS
      <4>3. Newest(downward, o, st)
        BY <2>1, <4>2 DEF UpToDate
      <4> QED BY <1>3, <4>1, <4>2, <4>3, NewestPushed
    <3>3. Newest(downward, opened, status[opened])'
      BY <1>4, <3>0, <3>2
    <3> QED BY <1>4, <2>1, <3>1, <3>3 DEF UpToDate
  <2>3. CASE opened = e /\ e \in topics
    <3>1. \A x : Told(x)'
      BY <1>2, <1>3, <1>4, <2>3 DEF Told, IsUpdate
    <3>2. Newest(downward', e, s)
      <4>1. IsUpdate(m, e)
        BY <1>2 DEF IsUpdate
      <4> QED BY <1>2, <1>3, <2>3, <4>1, NewestPushed
    <3>3. Newest(downward, opened, status[opened])'
      BY <1>4, <1>6, <2>3, <3>2
    <3> QED BY <1>4, <2>1, <3>1, <3>3 DEF UpToDate
  <2>4. CASE opened = e /\ e \notin topics
    <3>0. ~ToCome(e) /\ ~(\A i \in Indices : loads[i].answer # "none")
      BY <1>1, <2>4
    <3>1. PICK i \in Indices : loads[i].answer = "none"
      BY <3>0
    <3>2. Len(loads) \in Nat /\ Indices = 1..Len(loads) /\ (loads = <<>> => Len(loads) = 0)
      BY DEF DetailsInv, DetailsTypeOK, Indices
    <3>3. loads # <<>> /\ \A j \in Indices : j = i
      BY <2>1, <3>2 DEF UpToDate
    <3>4. Newest(downward', e, s)
      BY <1>3, <2>4, <3>0, NewestNone DEF ToCome
    <3>5. Newest(downward, opened, status[opened])'
      BY <1>4, <1>6, <2>4, <3>4
    <3> QED BY <1>4, <2>1, <3>1, <3>3, <3>5 DEF UpToDate
  <2> QED BY <2>2, <2>3, <2>4
<1> QED BY <1>7, <1>8, <1>9, <1>10 DEF DetailsInv

\* A request is served: its answer is the present status.
LEMMA ServeDetailsInv ==
  ASSUME DetailsInv, ServeDetails
  PROVE  DetailsInv'
<1>1. PICK i \in Indices : /\ loads[i].answer = "none"
                           /\ loads' = [loads EXCEPT ![i].answer = status[loads[i].id]]
  BY DEF ServeDetails
<1>2. /\ UNCHANGED <<realtimeVars, engineVars, status, downward, opened, details, failed, outdated>>
      /\ Messages' = Messages
  BY DEF ServeDetails, realtimeVars, connectionVars, engineVars, Messages
<1>3. /\ loads \in Seq(DetailsLoad) /\ Len(loads) \in Nat /\ Indices = 1..Len(loads)
      /\ loads[i] \in DetailsLoad /\ status[loads[i].id] \in Statuses
  <2>1. loads \in Seq(DetailsLoad) /\ status \in [Executions -> Statuses]
    BY DEF DetailsInv, DetailsTypeOK
  <2>2. Len(loads) \in Nat /\ Indices = 1..Len(loads) /\ loads[i] \in DetailsLoad
    BY <2>1 DEF Indices
  <2>3. loads[i].id \in Executions
    BY <2>2 DEF DetailsLoad
  <2> QED BY <2>1, <2>2, <2>3
<1> DEFINE q == [loads[i] EXCEPT !.answer = status[loads[i].id]]
<1>4. /\ q \in DetailsLoad /\ q.id = loads[i].id /\ q.answer = status[q.id]
      /\ q.overtaken = loads[i].overtaken /\ q.id \in Executions
  BY <1>3 DEF DetailsLoad
<1>5. loads' = [loads EXCEPT ![i] = q]
  BY <1>1
<1> HIDE DEF q
<1>6. /\ loads' \in Seq(DetailsLoad) /\ Indices' = Indices /\ Len(loads') = Len(loads)
      /\ loads'[i] = q /\ \A j \in Indices \ {i} : loads'[j] = loads[j]
      /\ loads # <<>> /\ loads' # <<>>
  BY <1>3, <1>4, <1>5 DEF Indices
<1>7. DetailsTypeOK' /\ ListensInv'
  BY <1>2, <1>6 DEF DetailsInv, DetailsTypeOK, ListensInv, realtimeVars, connectionVars
<1>8. TruthInv'
  <2>1. \A id, st : True(id, st)' <=> True(id, st)
    BY <1>2 DEF True, engineVars
  <2>2. True(q.id, q.answer)
    BY <1>4 DEF DetailsInv, TruthInv
  <2>3. /\ \A e \in Executions : True(e, status'[e])
        /\ details'.own => True(details'.id, details'.status)
        /\ \A m \in Messages' : m.type = "execution_update" => True(m.id, m.status)
    BY <1>2 DEF DetailsInv, TruthInv
  <2>4. \A j \in Indices' : True(loads'[j].id, loads'[j].answer)
    BY <1>6, <2>2 DEF DetailsInv, TruthInv
  <2> QED BY <1>2, <2>1, <2>3, <2>4 DEF TruthInv, True, engineVars
<1>9. ShownInv'
  <2> SUFFICES ASSUME opened # NoExecution, ~outdated PROVE UpToDate'
    BY <1>2 DEF ShownInv
  <2>1. UpToDate
    BY DEF DetailsInv, ShownInv
  <2>2. \A x : Told(x)' <=> Told(x)
    BY <1>2 DEF Told, IsUpdate
  <2>3. q.id = opened /\ Told(q.answer)
    BY <1>4, <2>1 DEF UpToDate, Told
  <2>4. Newest(downward, opened, status[opened])'
    BY <1>2, <2>1 DEF UpToDate
  <2> QED BY <1>2, <1>6, <2>1, <2>2, <2>3, <2>4 DEF UpToDate
<1> QED BY <1>7, <1>8, <1>9 DEF DetailsInv

\* The dialog is opened or tries again: one request more, the only one unless excused.
LEMMA LoadInv ==
  ASSUME DetailsInv, NEW e \in Executions, LoadExecutionDetails(e),
         opened' = e, listeners' = {e}, upward' = upward \/ IsConnected,
         UNCHANGED <<topics, connectionVars, engineVars, details>>, outdated' \in BOOLEAN,
         ~outdated' => loads = <<>> /\ Newest(downward, e, status[e])
  PROVE  DetailsInv'
<1> DEFINE q == [id |-> e, answer |-> "none", overtaken |-> FALSE]
<1>1. /\ loads' \in Seq(DetailsLoad) /\ loads' # <<>>
      /\ Indices' = Indices \union {Len(loads) + 1}
      /\ \A i \in Indices : loads'[i] = loads[i]
      /\ loads'[Len(loads) + 1] = q
      /\ loads = <<>> => Len(loads') = 1 /\ Indices = {}
  BY Loading DEF DetailsInv
<1>2. q.id = e /\ q.answer = "none"
  OBVIOUS
<1> HIDE DEF q
<1>3. UNCHANGED <<downward, socket, reconnect, status>> /\ Messages' = Messages
  BY DEF connectionVars, engineVars, Messages
<1>4. e # NoExecution
  BY DetailsAssumption
<1>5. DetailsTypeOK'
  BY <1>1, <1>3 DEF DetailsInv, DetailsTypeOK, LoadExecutionDetails
<1>6. TruthInv'
  BY <1>1, <1>2, <1>3, StaysTrue DEF DetailsInv
<1>7. ListensInv'
  BY <1>3, <1>4 DEF DetailsInv, ListensInv, IsConnected
<1>8. ShownInv'
  <2> SUFFICES ASSUME ~outdated' PROVE UpToDate'
    BY DEF ShownInv
  <2>1. Len(loads') = 1 /\ loads' # <<>>
    BY <1>1
  <2>2. \A i \in Indices' : loads'[i] = q
    BY <1>1
  <2>3. Len(loads') <= 1
    BY <2>1
  <2>4. Newest(downward, opened, status[opened])'
    BY <1>3
  <2> QED BY <1>2, <2>1, <2>2, <2>3, <2>4 DEF UpToDate
<1> QED BY <1>5, <1>6, <1>7, <1>8 DEF DetailsInv

\* The dialog is closed, perhaps: what is under way goes on.
LEMMA ShutInv ==
  ASSUME DetailsInv, UNCHANGED <<topics, connectionVars, engineVars, details, loads, failed>>,
         \/ opened # NoExecution /\ Shut
         \/ UNCHANGED <<opened, listeners, upward, outdated>>
  PROVE  DetailsInv'
<1>1. /\ UNCHANGED <<downward, socket, reconnect, status>> /\ Messages' = Messages
      /\ Indices' = Indices
  BY DEF connectionVars, engineVars, Messages, Indices
<1>2. TruthInv'
  BY <1>1, StaysTrue DEF DetailsInv
<1>3. DetailsTypeOK'
  BY <1>1 DEF DetailsInv, DetailsTypeOK, Shut
<1>4. ListensInv'
  BY <1>1 DEF DetailsInv, ListensInv, Shut, Unsubscribe, Tell, IsConnected
<1>5. ShownInv'
  BY <1>1 DEF DetailsInv, ShownInv, UpToDate, Told, Newest, IsUpdate, Shut
<1> QED BY <1>2, <1>3, <1>4, <1>5 DEF DetailsInv

\* An answer arrives, or an error.
LEMMA AnswerInv ==
  ASSUME DetailsInv, DetailsArrive \/ DetailsFail
  PROVE  DetailsInv'
<1>1. PICK i \in Indices :
        /\ loads' = Without(i)
        /\ \/ /\ loads[i].answer # "none" /\ failed' = failed
              /\ details' = [id |-> loads[i].id, status |-> loads[i].answer, own |-> TRUE]
              /\ outdated' = (outdated \/ loads[i].overtaken)
           \/ failed' = TRUE /\ UNCHANGED <<details, outdated>>
  BY DEF DetailsArrive, DetailsFail
<1>2. UNCHANGED <<realtimeVars, engineVars, status, downward, opened>> /\ Messages' = Messages
  BY DEF DetailsArrive, DetailsFail, realtimeVars, connectionVars, engineVars, Messages
<1>3. /\ loads' \in Seq(DetailsLoad)
      /\ \A j \in Indices' : \E k \in Indices : loads'[j] = loads[k]
      /\ Len(loads) <= 1 => loads' = <<>> /\ Indices' = {}
  BY <1>1, Unloading DEF DetailsInv
<1>4. loads[i] \in DetailsLoad
  BY DEF DetailsInv, DetailsTypeOK, Indices
<1>5. DetailsTypeOK'
  <2>1. details' = details \/ details' \in [id : Executions, status : Statuses,
                                           own : BOOLEAN]
    <3>1. /\ loads[i].id \in Executions
          /\ loads[i].answer # "none" => loads[i].answer \in Statuses
      BY <1>4 DEF DetailsLoad
    <3>2. \A a \in Executions, b \in Statuses :
            [id |-> a, status |-> b, own |-> TRUE]
              \in [id : Executions, status : Statuses, own : BOOLEAN]
      OBVIOUS
    <3>3. CASE details' = details
      BY <3>3
    <3>4. CASE /\ loads[i].answer # "none"
               /\ details' = [id |-> loads[i].id, status |-> loads[i].answer, own |-> TRUE]
      BY <3>1, <3>2, <3>4
    <3> QED BY <1>1, <3>3, <3>4
  <2>2. outdated' \in BOOLEAN /\ failed' \in BOOLEAN
    BY <1>1, <1>4 DEF DetailsInv, DetailsTypeOK, DetailsLoad
  <2>3. details' \in [id : Executions \union {NoExecution},
                     status : {"none"} \union Statuses, own : BOOLEAN]
    BY <2>1 DEF DetailsInv, DetailsTypeOK
  <2> QED BY <1>2, <1>3, <2>2, <2>3 DEF DetailsInv, DetailsTypeOK, realtimeVars, connectionVars
<1>6. TruthInv'
  <2>1. \A id, st : True(id, st)' <=> True(id, st)
    BY <1>2 DEF True, engineVars
  <2>2. \A i2 \in Indices : True(loads[i2].id, loads[i2].answer)
    BY DEF DetailsInv, TruthInv
  <2>3. \A j \in Indices' : True(loads'[j].id, loads'[j].answer)
    BY <1>3, <2>2
  <2>4. details'.own => True(details'.id, details'.status)
    BY <1>1, <2>2 DEF DetailsInv, TruthInv
  <2>5. /\ \A e \in Executions : True(e, status'[e])
        /\ \A m \in Messages' : m.type = "execution_update" => True(m.id, m.status)
    BY <1>2 DEF DetailsInv, TruthInv
  <2> QED BY <1>2, <2>1, <2>3, <2>4, <2>5 DEF TruthInv, True, engineVars
<1>7. ListensInv'
  BY <1>2 DEF DetailsInv, ListensInv, realtimeVars, connectionVars
<1>8. ShownInv'
  <2> SUFFICES ASSUME opened # NoExecution, ~outdated' PROVE UpToDate'
    BY <1>2 DEF ShownInv
  <2>1. UpToDate
    BY <1>1, <1>4 DEF DetailsInv, ShownInv, DetailsTypeOK, DetailsLoad
  <2>2. \A x : Told(x)' <=> Told(x)
    BY <1>2 DEF Told, IsUpdate
  <2>5. Newest(downward, opened, status[opened])'
    BY <1>2, <2>1 DEF UpToDate
  <2>3. loads' = <<>> /\ Indices' = {} /\ Len(loads') <= 1
    <3>1. Len(<<>>) <= 1
      OBVIOUS
    <3> QED BY <1>3, <2>1, <3>1 DEF UpToDate
  <2>4. ~failed' => details'.id = opened /\ Told(details'.status)
    BY <1>1, <1>4, <2>1 DEF UpToDate, DetailsLoad
  <2> QED BY <1>2, <2>2, <2>3, <2>4, <2>5 DEF UpToDate
<1> QED BY <1>5, <1>6, <1>7, <1>8 DEF DetailsInv

LEMMA DetailsInvStep == DetailsInv /\ [DetailsNext]_detailsVars => DetailsInv'
<1> SUFFICES ASSUME DetailsInv, [DetailsNext]_detailsVars PROVE DetailsInv'
  OBVIOUS
<1>1. CASE OpenDetails
  <2>1. PICK e \in Executions : /\ opened' = e /\ LoadExecutionDetails(e) /\ Subscribe(e)
                                /\ outdated' = OldOnesToCome(e)
    BY <1>1 DEF OpenDetails
  <2>2. /\ listeners' = {e} /\ (upward' = upward \/ IsConnected)
        /\ UNCHANGED <<topics, connectionVars, engineVars, details>>
    BY <1>1, <2>1 DEF OpenDetails, Subscribe, Tell, DetailsInv, ListensInv
  <2>3. outdated' \in BOOLEAN /\ (~outdated' => loads = <<>> /\ Newest(downward, e, status[e]))
    BY <2>1, NewestNone DEF OldOnesToCome, ToCome
  <2> QED BY <2>1, <2>2, <2>3, LoadInv
<1>2. CASE TryAgain
  <2>1. /\ opened \in Executions /\ LoadExecutionDetails(opened) /\ listeners' = {opened}
        /\ UNCHANGED <<opened, topics, upward, connectionVars, engineVars, details>>
        /\ outdated' = (outdated \/ loads # <<>>)
    BY <1>2 DEF TryAgain, realtimeVars, DetailsInv, DetailsTypeOK, ListensInv
  <2>2. ~outdated' => loads = <<>> /\ Newest(downward, opened, status[opened])
    BY <1>2, <2>1 DEF TryAgain, DetailsInv, ShownInv, UpToDate
  <2>3. outdated' \in BOOLEAN
    BY <2>1 DEF DetailsInv, DetailsTypeOK
  <2> QED BY <2>1, <2>2, <2>3, LoadInv
<1>3. CASE CloseDetails \/ RetryEnds
  BY <1>3, ShutInv DEF CloseDetails, RetryEnds, dialogVars
<1>4. CASE HandleRetry \/ UNCHANGED detailsVars
  BY <1>4, ShutInv DEF HandleRetry, detailsVars, dialogVars, realtimeVars
<1> QED
  BY <1>1, <1>2, <1>3, <1>4, ConnectionInv, HearInv, StatusChangesInv, ServeDetailsInv, AnswerInv
  DEF DetailsNext

LEMMA DetailsCorrect == DetailsSpec => []DetailsInv
<1>1. DetailsInit => DetailsInv
  <2> SUFFICES ASSUME DetailsInit PROVE DetailsInv
    OBVIOUS
  <2>1. DetailsTypeOK
    <3>1. Nothing \in [id : Executions \union {NoExecution},
                      status : {"none"} \union Statuses, own : BOOLEAN]
      BY DEF Nothing
    <3>2. status \in [Executions -> Statuses]
      BY DEF DetailsInit
    <3>3. loads \in Seq(DetailsLoad) /\ downward \in Seq(Update)
      BY DEF DetailsInit, RealtimeInit
    <3>4. details = Nothing /\ opened = NoExecution /\ outdated = FALSE /\ failed = FALSE
      BY DEF DetailsInit
    <3> QED BY <3>1, <3>2, <3>3, <3>4 DEF DetailsTypeOK
  <2>2. TruthInv
    BY DEF DetailsInit, RealtimeInit, TruthInv, Nothing, True, Indices, Messages
  <2>3. ListensInv /\ ShownInv
    BY DEF DetailsInit, RealtimeInit, ListensInv, ShownInv
  <2> QED BY <2>1, <2>2, <2>3 DEF DetailsInv
<1> QED BY <1>1, DetailsInvStep, PTL DEF DetailsSpec

\* When everything under way has arrived, an open dialog shows its execution with the
\* status it has, however often the engine has changed it, through reconnects, updates that
\* pass answers and executions that are shown one after the other, but for the reasons that
\* "outdated" names.
THEOREM DetailsStayCurrent == DetailsSpec => []DetailsAreCurrent
<1>1. DetailsInv => DetailsAreCurrent
  BY DEF DetailsInv, ShownInv, UpToDate, Told, Messages, DetailsAreCurrent
<1> QED BY <1>1, DetailsCorrect, PTL

\* handleRetry asks for a retry of an execution that has never failed only while the dialog
\* shows another one, or a status that handleRealtimeUpdate put on another, however the
\* engine goes on with a failed one.
THEOREM OnlyTheFailedAreRetried == DetailsSpec => RetriedHadFailed
<1>1. DetailsInv /\ [DetailsNext]_detailsVars =>
        [~isRetrying /\ isRetrying' /\ details.own /\ details.id = opened =>
           opened \in hadFailed]_detailsVars
  <2> SUFFICES ASSUME DetailsInv, [DetailsNext]_detailsVars, ~isRetrying, isRetrying',
                      details.own, details.id = opened
               PROVE  opened \in hadFailed
    OBVIOUS
  <2>1. HandleRetry
    BY DEF DetailsNext, detailsVars, dialogVars, Connection, Hear, StatusChanges, ServeDetails,
           OpenDetails, CloseDetails, DetailsArrive, DetailsFail, TryAgain, RetryEnds
  <2>2. details.status = "failed"
    BY <2>1 DEF HandleRetry
  <2> QED BY <2>2 DEF DetailsInv, TruthInv, True
<1> QED BY <1>1, DetailsCorrect, PTL DEF DetailsSpec, RetriedHadFailed
=============================================================================
