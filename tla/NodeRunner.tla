----------------------------- MODULE NodeRunner -----------------------------
(***************************************************************************)
(* NodeExecutionManager.executeNode for nodes of one type, run by several  *)
(* executions at once: the circuit breaker they share, the abort           *)
(* controllers in activeNodeExecutions, the race of a node's body against  *)
(* its timeout, and the body of a database node (connect with retry,       *)
(* operate, disconnect), which nothing stops once the race is lost.        *)
(*                                                                         *)
(* Time is what the breaker sees of it: the age of the last failure, in    *)
(* minutes and no further than one past the cooldown.                      *)
(*                                                                         *)
(* A definition X_fault is X with a bug that X could have had; no other    *)
(* definition uses it.  Each one breaks a property (README, "Mutants").    *)
(***************************************************************************)
EXTENDS Integers

CONSTANTS
  Runs,        \* calls of executeNode, one value each
  Keys,        \* execution:node pairs
  KeyOf,       \* the key of each run; a job run twice has two runs of one key
  NoRun,       \* no entry for a key
  Threshold,   \* failures that open the breaker (5)
  Cooldown,    \* minutes it stays open after the last failure (1)
  Retries,     \* connection attempts of a body
  MaxFailures  \* bound: the failure counter is not counted further

ASSUME RunnerAssumption ==
  /\ KeyOf \in [Runs -> Keys] /\ NoRun \notin Runs
  /\ Threshold \in Nat \ {0} /\ Cooldown \in Nat /\ Retries \in Nat \ {0}
  /\ MaxFailures \in Nat /\ MaxFailures >= Threshold

VARIABLES
  known,     \* circuitBreakerState has an entry for the type
  state,     \* its state
  failures,  \* its failures
  age,       \* minutes since its lastFailureTime
  pc,        \* where each run of executeNode is
  verdict,   \* how its try block ended, until the run and its body are over
  entry,     \* activeNodeExecutions: the run whose controller a key holds
  shared,    \* runs that met another run of their key
  body,      \* where the body of each run is
  attempt    \* its connection attempt

breaker == <<known, state, failures, age>>
runVars == <<pc, verdict, entry, shared>>
bodyVars == <<body, attempt>>
vars == <<breaker, runVars, bodyVars>>

Verdicts == {"none", "ok", "thrown", "rejected", "timeout", "cancelled"}

Init ==
  /\ known = FALSE /\ state = "closed" /\ failures = 0 /\ age = Cooldown + 1
  /\ pc = [r \in Runs |-> "idle"] /\ verdict = [r \in Runs |-> "none"]
  /\ entry = [k \in Keys |-> NoRun] /\ shared = {}
  /\ body = [r \in Runs |-> "idle"] /\ attempt = [r \in Runs |-> 0]

-----------------------------------------------------------------------------
(* The breaker. *)

\* checkCircuitBreaker refuses.
Refuses == state = "open" /\ age <= Cooldown

\* checkCircuitBreaker lets the run pass: there is no limit on the probes of a
\* half-open breaker, and half-open keeps the count of failures.
CheckCircuitBreaker ==
  /\ ~Refuses
  /\ known' = TRUE
  /\ state' = IF state = "open" THEN "half-open" ELSE state
  /\ UNCHANGED <<failures, age>>

BreakerSuccess == state' = "closed" /\ failures' = 0 /\ UNCHANGED <<known, age>>

More == IF failures < MaxFailures THEN failures + 1 ELSE failures
BreakerFailure_offByOne ==
  /\ failures' = More /\ age' = 0
  /\ state' = IF failures >= Threshold THEN "open" ELSE state
  /\ UNCHANGED known
BreakerFailure_onlyClosed ==
  /\ failures' = IF state = "closed" THEN More ELSE failures
  /\ age' = 0
  /\ state' = IF state = "closed" /\ More >= Threshold THEN "open" ELSE state
  /\ UNCHANGED known
BreakerFailure ==
  /\ failures' = More /\ age' = 0
  /\ state' = IF More >= Threshold THEN "open" ELSE state
  /\ UNCHANGED known

-----------------------------------------------------------------------------
(* executeNode. *)

\* The entry is made and the breaker asked in one go.  A refused run counts as
\* a failure like any other, so that refusals prolong the cooldown.
Start(r) ==
  /\ pc[r] = "idle" /\ body[r] = "idle"
  /\ entry' = [entry EXCEPT ![KeyOf[r]] = r]
  /\ shared' = LET met == {q \in Runs \ {r} : KeyOf[q] = KeyOf[r] /\ pc[q] # "idle"}
               IN shared \union met \union (IF met = {} THEN {} ELSE {r})
  /\ \/ /\ CheckCircuitBreaker
        /\ pc' = [pc EXCEPT ![r] = "validating"]
        /\ verdict' = [verdict EXCEPT ![r] = "none"]
     \/ /\ Refuses /\ BreakerFailure
        /\ pc' = [pc EXCEPT ![r] = "logging"]
        /\ verdict' = [verdict EXCEPT ![r] = "rejected"]
  /\ UNCHANGED bodyVars

End(r, v) ==
  /\ pc' = [pc EXCEPT ![r] = "logging"]
  /\ verdict' = [verdict EXCEPT ![r] = v]
  /\ IF v = "ok" THEN BreakerSuccess ELSE BreakerFailure
  /\ UNCHANGED <<entry, shared>>

\* execute() is called: a database node starts to connect.
Body(r) == /\ body' = [body EXCEPT ![r] = "connecting"]
           /\ attempt' = [attempt EXCEPT ![r] = 1]

\* validateNodeInputs has read the catalog: the inputs are wrong (or the type
\* is unknown), or the instance is made and its body races with the timeout.
Validate_notAwaited(r) ==
  /\ pc[r] = "validating" /\ Body(r)
  /\ \/ End(r, "thrown")
     \/ /\ pc' = [pc EXCEPT ![r] = "racing"]
        /\ UNCHANGED <<breaker, verdict, entry, shared>>
Validate(r) ==
  /\ pc[r] = "validating"
  /\ \/ End(r, "thrown") /\ UNCHANGED bodyVars
     \/ /\ Body(r)
        /\ pc' = [pc EXCEPT ![r] = "racing"]
        /\ UNCHANGED <<breaker, verdict, entry, shared>>

\* The timer of executeWithRetry.
Timeout(r) == pc[r] = "racing" /\ End(r, "timeout") /\ UNCHANGED bodyVars

Cancel_dropsEntry(k) ==
  /\ entry[k] # NoRun
  /\ pc[entry[k]] = "racing"
  /\ pc' = [pc EXCEPT ![entry[k]] = "logging"]
  /\ verdict' = [verdict EXCEPT ![entry[k]] = "cancelled"]
  /\ BreakerFailure
  /\ entry' = [entry EXCEPT ![k] = NoRun]
  /\ UNCHANGED <<shared, bodyVars>>
\* cancelNodeExecution aborts the controller the key holds.  The listener is
\* there only during the race: an abort before it is never heard.
Cancel(k) ==
  /\ entry[k] # NoRun
  /\ pc[entry[k]] = "racing" /\ End(entry[k], "cancelled")
  /\ UNCHANGED bodyVars

\* logNodeExecution is over; finally deletes the key, whoever holds it.
Log(r) ==
  /\ pc[r] = "logging"
  /\ pc' = [pc EXCEPT ![r] = "idle"]
  /\ entry' = [entry EXCEPT ![KeyOf[r]] = NoRun]
  /\ verdict' = [verdict EXCEPT ![r] = IF body[r] = "idle" THEN "none" ELSE @]
  /\ shared' = shared \ {r}
  /\ UNCHANGED <<breaker, bodyVars>>

-----------------------------------------------------------------------------
(* The body of a database node. *)

\* connectWithRetry: connected, or the next attempt after a backoff, or none is
\* left.
Connect(r) ==
  /\ body[r] = "connecting"
  /\ \/ body' = [body EXCEPT ![r] = "operating"] /\ UNCHANGED attempt
     \/ /\ attempt[r] < Retries
        /\ attempt' = [attempt EXCEPT ![r] = @ + 1] /\ UNCHANGED body
     \/ /\ attempt[r] = Retries
        /\ body' = [body EXCEPT ![r] = "closing"] /\ UNCHANGED attempt
  /\ UNCHANGED <<breaker, runVars>>

\* The operation succeeds, fails, or loses to the node's own timeout; the error
\* is caught.
Operate(r) ==
  /\ body[r] = "operating"
  /\ body' = [body EXCEPT ![r] = "closing"]
  /\ UNCHANGED <<attempt, breaker, runVars>>

\* finally: disconnect; then execute() has settled.  If its run still races it
\* goes on with the answer.  An error of a database node is answered as
\* success = false, which the breaker takes for success; the body of another
\* kind of node may throw.
Disconnect(r) ==
  /\ body[r] = "closing"
  /\ body' = [body EXCEPT ![r] = "idle"] /\ attempt' = [attempt EXCEPT ![r] = 0]
  /\ \/ pc[r] = "racing" /\ (End(r, "ok") \/ End(r, "thrown"))
     \/ /\ pc[r] # "racing"
        /\ verdict' = [verdict EXCEPT ![r] = IF pc[r] = "idle" THEN "none" ELSE @]
        /\ UNCHANGED <<breaker, pc, entry, shared>>

Tick == age <= Cooldown /\ age' = age + 1
        /\ UNCHANGED <<known, state, failures, runVars, bodyVars>>

-----------------------------------------------------------------------------
Run(r) == Validate(r) \/ Timeout(r) \/ Log(r)
BodyStep(r) == Connect(r) \/ Operate(r) \/ Disconnect(r)

Next == \/ \E r \in Runs : Start(r) \/ Run(r) \/ BodyStep(r)
        \/ \E k \in Keys : Cancel(k)
        \/ Tick

Fairness == \A r \in Runs : WF_vars(Run(r)) /\ WF_vars(BodyStep(r))
Spec == Init /\ [][Next]_vars /\ Fairness

-----------------------------------------------------------------------------
TypeOK ==
  /\ known \in BOOLEAN /\ state \in {"closed", "open", "half-open"}
  /\ failures \in 0..MaxFailures /\ age \in 0..(Cooldown + 1)
  /\ pc \in [Runs -> {"idle", "validating", "racing", "logging"}]
  /\ verdict \in [Runs -> Verdicts]
  /\ entry \in [Keys -> Runs \union {NoRun}] /\ shared \subseteq Runs
  /\ body \in [Runs -> {"idle", "connecting", "operating", "closing"}]
  /\ attempt \in [Runs -> 0..Retries]

\* The state and the counter agree, whatever order runs end in: closed below the
\* threshold, open or half-open from it on, and a breaker nobody asked is closed.
BreakerCounts ==
  /\ state = "closed" <=> failures < Threshold
  /\ ~known => state = "closed" /\ failures = 0

\* A run that fails while the breaker is half-open opens it again, be it the
\* probe or a run that started long before it.
HalfOpenReopens ==
  [][\A r \in Runs :
       state = "half-open" /\ pc'[r] # pc[r] /\ pc'[r] = "logging" /\ verdict'[r] # "ok"
         => state' = "open"]_vars

\* A body goes on without its run only if the run lost the race against the
\* timeout or was cancelled: no other end leaves work behind.
OrphanHasACause ==
  \A r \in Runs : body[r] # "idle" /\ pc[r] # "racing" =>
    verdict[r] \in {"timeout", "cancelled"}

\* A run in progress can be cancelled through its key, unless another run of the
\* same key was under way and took or deleted the entry.
RunHasItsEntry ==
  \A r \in Runs : pc[r] # "idle" /\ r \notin shared => entry[KeyOf[r]] = r

\* A half-open breaker does not stay so: its probe succeeds, fails or times out.
HalfOpenSettles == state = "half-open" ~> state # "half-open"
=============================================================================
