--------------------------- MODULE NodeRunnerProofs ---------------------------
(***************************************************************************)
(* Proofs about NodeRunner, for any number of runs, keys and attempts and  *)
(* any threshold and cooldown of the breaker.                              *)
(***************************************************************************)
EXTENDS NodeRunner, TLAPS

-----------------------------------------------------------------------------
(***************************************************************************)
(* Type correctness.                                                       *)
(***************************************************************************)

BreakerType ==
  /\ known \in BOOLEAN /\ state \in {"closed", "open", "half-open"}
  /\ failures \in 0..MaxFailures /\ age \in 0..(Cooldown + 1)

RunType ==
  /\ pc \in [Runs -> {"idle", "validating", "racing", "logging"}]
  /\ verdict \in [Runs -> Verdicts]
  /\ entry \in [Keys -> Runs \union {NoRun}] /\ shared \subseteq Runs
  /\ body \in [Runs -> {"idle", "connecting", "operating", "closing"}]
  /\ attempt \in [Runs -> 0..Retries]

\* What a step may do to the breaker.
BreakerMoves == \/ CheckCircuitBreaker
                \/ BreakerSuccess
                \/ Refuses /\ BreakerFailure
                \/ BreakerFailure
                \/ age <= Cooldown /\ age' = age + 1 /\ UNCHANGED <<known, state, failures>>
                \/ UNCHANGED breaker

\* Every step moves the breaker in one of these ways.
LEMMA StepMovesBreaker == [Next]_vars => BreakerMoves
<1> SUFFICES ASSUME [Next]_vars PROVE BreakerMoves
  OBVIOUS
<1>1. CASE UNCHANGED vars
  BY <1>1 DEF vars, BreakerMoves
<1>2. ASSUME NEW r \in Runs, Start(r) PROVE BreakerMoves
  BY <1>2 DEF Start, BreakerMoves
<1>3. ASSUME NEW r \in Runs, NEW v, End(r, v) PROVE BreakerMoves
  BY <1>3 DEF End, BreakerMoves
<1>4. ASSUME NEW r \in Runs, Run(r) PROVE BreakerMoves
  BY <1>3, <1>4 DEF Run, Validate, Timeout, Log, BreakerMoves
<1>5. ASSUME NEW r \in Runs, BodyStep(r) PROVE BreakerMoves
  BY <1>3, <1>5 DEF BodyStep, Connect, Operate, Disconnect, BreakerMoves
<1>6. ASSUME NEW k \in Keys, Cancel(k) PROVE BreakerMoves
  BY <1>6 DEF Cancel, End, BreakerMoves
<1>7. CASE Tick
  BY <1>7 DEF Tick, BreakerMoves
<1> QED
  BY <1>1, <1>2, <1>4, <1>5, <1>6, <1>7 DEF Next

LEMMA BreakerTypeStep == BreakerType /\ [Next]_vars => BreakerType'
<1> SUFFICES ASSUME BreakerType, BreakerMoves PROVE BreakerType'
  BY StepMovesBreaker
<1>1. Threshold \in Nat \ {0} /\ Cooldown \in Nat /\ MaxFailures \in Nat
  BY RunnerAssumption
<1>2. More \in 0..MaxFailures
  BY <1>1 DEF BreakerType, More
<1>3. known' \in BOOLEAN
  BY Zenon
  DEF BreakerType, BreakerMoves, breaker, CheckCircuitBreaker, BreakerSuccess, BreakerFailure
<1>4. state' \in {"closed", "open", "half-open"} /\ failures' \in 0..MaxFailures
  <2>1. /\ state \in {"closed", "open", "half-open"} /\ failures \in 0..MaxFailures
        /\ 0 \in 0..MaxFailures
    BY <1>1 DEF BreakerType
  <2>2. /\ state' \in {state, "open", "half-open", "closed"}
        /\ failures' \in {failures, 0, More}
    BY DEF BreakerMoves, breaker, CheckCircuitBreaker, BreakerSuccess, BreakerFailure
  <2> QED
    BY <1>2, <2>1, <2>2
<1>5. age' \in {age, 0} \/ (age <= Cooldown /\ age' = age + 1)
  BY DEF BreakerMoves, breaker, CheckCircuitBreaker, BreakerSuccess, BreakerFailure
<1>6. age' \in 0..(Cooldown + 1)
  BY <1>1, <1>5 DEF BreakerType
<1> QED
  BY <1>3, <1>4, <1>6 DEF BreakerType

\* A run that ends keeps the types of the runs.
LEMMA EndType ==
  ASSUME RunType, NEW r \in Runs, NEW v \in Verdicts, End(r, v)
  PROVE  /\ pc' \in [Runs -> {"idle", "validating", "racing", "logging"}]
         /\ verdict' \in [Runs -> Verdicts]
         /\ entry' = entry /\ shared' = shared
BY DEF RunType, End

LEMMA RunTypeStep == RunType /\ [Next]_vars => RunType'
<1> SUFFICES ASSUME RunType, [Next]_vars PROVE RunType'
  OBVIOUS
<1>1. /\ KeyOf \in [Runs -> Keys] /\ Retries \in Nat \ {0}
      /\ {"none", "ok", "thrown", "rejected", "timeout", "cancelled"} = Verdicts
  BY RunnerAssumption DEF Verdicts
<1>2. CASE UNCHANGED vars
  BY <1>2 DEF vars, runVars, bodyVars, RunType
<1>3. ASSUME NEW r \in Runs, Start(r) PROVE RunType'
  BY <1>1, <1>3 DEF Start, RunType, bodyVars
<1>4. ASSUME NEW r \in Runs, Validate(r) PROVE RunType'
  <2>1. CASE End(r, "thrown") /\ UNCHANGED bodyVars
    BY <2>1, <1>1, EndType DEF RunType, bodyVars
  <2>2. CASE ~End(r, "thrown")
    BY <2>2, <1>1, <1>4 DEF Validate, Body, RunType
  <2> QED
    BY <2>1, <2>2, <1>1, <1>4, EndType DEF Validate, Body, RunType, bodyVars
<1>5. ASSUME NEW r \in Runs, Timeout(r) PROVE RunType'
  BY <1>1, <1>5, EndType DEF Timeout, RunType, bodyVars
<1>6. ASSUME NEW r \in Runs, Log(r) PROVE RunType'
  BY <1>1, <1>6 DEF Log, RunType, bodyVars
<1>7. ASSUME NEW r \in Runs, Connect(r) \/ Operate(r) PROVE RunType'
  BY <1>1, <1>7 DEF Connect, Operate, RunType, runVars
<1>8. ASSUME NEW r \in Runs, Disconnect(r) PROVE RunType'
  <2>1. /\ body' \in [Runs -> {"idle", "connecting", "operating", "closing"}]
        /\ attempt' \in [Runs -> 0..Retries]
    BY <1>1, <1>8 DEF Disconnect, RunType
  <2>2. CASE End(r, "ok") \/ End(r, "thrown")
    BY <2>1, <2>2, <1>1, EndType DEF RunType
  <2>3. CASE /\ verdict' = [verdict EXCEPT ![r] = IF pc[r] = "idle" THEN "none" ELSE @]
             /\ UNCHANGED <<breaker, pc, entry, shared>>
    BY <2>1, <2>3, <1>1 DEF RunType
  <2> QED
    BY <2>2, <2>3, <1>8 DEF Disconnect
<1>9. ASSUME NEW k \in Keys, Cancel(k) PROVE RunType'
  <2>1. entry[k] \in Runs
    BY <1>9 DEF Cancel, RunType
  <2> QED
    BY <2>1, <1>1, <1>9, EndType DEF Cancel, RunType, bodyVars
<1>10. CASE Tick
  BY <1>10 DEF Tick, RunType, runVars, bodyVars
<1> QED
  BY <1>2, <1>3, <1>4, <1>5, <1>6, <1>7, <1>8, <1>9, <1>10 DEF Next, Run, BodyStep

\* Every variable keeps its type, the bounded ones their bounds: failures and age
\* stop where the model counts no further, an attempt is never beyond Retries.
THEOREM RunnerTypeCorrect == Spec => []TypeOK
<1>1. TypeOK <=> BreakerType /\ RunType
  BY DEF TypeOK, BreakerType, RunType
<1>2. Init => TypeOK
  <2>1. /\ Threshold \in Nat \ {0} /\ Cooldown \in Nat /\ MaxFailures \in Nat
        /\ Retries \in Nat \ {0}
    BY RunnerAssumption
  <2>2. Init => BreakerType
    <3>1. Init => known \in BOOLEAN
      BY Zenon DEF Init
    <3> QED
      BY <2>1, <3>1 DEF Init, BreakerType
  <2>3. Init => RunType
    BY <2>1 DEF Init, RunType, Verdicts
  <2> QED
    BY <1>1, <2>2, <2>3
<1>3. TypeOK /\ [Next]_vars => TypeOK'
  BY BreakerTypeStep, RunTypeStep DEF TypeOK, BreakerType, RunType
<1> QED
  BY <1>2, <1>3, PTL DEF Spec

-----------------------------------------------------------------------------
(***************************************************************************)
(* The breaker: its state is a function of its counter, which is what makes*)
(* a single failure open a half-open breaker.                              *)
(***************************************************************************)

\* A run is under way only when the breaker has been asked.
KnownInv == \A r \in Runs : pc[r] # "idle" => known

BreakerInv == KnownInv /\ BreakerCounts

LEMMA KnownStep ==
  ASSUME BreakerType, RunType, BreakerInv, [Next]_vars
  PROVE  KnownInv' /\ (known' \/ UNCHANGED <<known, state, failures>>)
<1> DEFINE Goal == KnownInv' /\ (known' \/ UNCHANGED <<known, state, failures>>)
<1>1. CASE UNCHANGED vars
  BY <1>1 DEF vars, runVars, breaker, BreakerInv, KnownInv
<1>2. ASSUME NEW r \in Runs, Start(r) PROVE Goal
  <2>1. CASE CheckCircuitBreaker
    BY <2>1, <1>2 DEF CheckCircuitBreaker, KnownInv
  <2>2. CASE Refuses /\ BreakerFailure
    BY <2>2, <1>2 DEF Refuses, BreakerFailure, BreakerInv, BreakerCounts, KnownInv
  <2> QED
    BY <2>1, <2>2, <1>2 DEF Start
<1>3. ASSUME NEW r \in Runs, NEW v, pc[r] # "idle", End(r, v) PROVE Goal
  BY <1>3 DEF End, BreakerSuccess, BreakerFailure, BreakerInv, KnownInv
<1>4. ASSUME NEW r \in Runs, Run(r) PROVE Goal
  <2>1. CASE Validate(r) \/ Timeout(r)
    BY <2>1, <1>3 DEF Validate, Timeout, BreakerInv, KnownInv, breaker, RunType
  <2>2. CASE Log(r)
    BY <2>2 DEF Log, BreakerInv, KnownInv, breaker, RunType
  <2> QED
    BY <2>1, <2>2, <1>4 DEF Run
<1>5. ASSUME NEW r \in Runs, BodyStep(r) PROVE Goal
  <2>1. CASE pc[r] = "racing" /\ (End(r, "ok") \/ End(r, "thrown"))
    BY <2>1, <1>3
  <2>2. CASE UNCHANGED <<breaker, pc>>
    BY <2>2 DEF BreakerInv, KnownInv, breaker
  <2> QED
    BY <2>1, <2>2, <1>5 DEF BodyStep, Connect, Operate, Disconnect, runVars
<1>6. ASSUME NEW k \in Keys, Cancel(k) PROVE Goal
  <2>1. entry[k] \in Runs
    BY <1>6 DEF Cancel, RunType
  <2> QED
    BY <2>1, <1>3, <1>6 DEF Cancel
<1>7. CASE Tick
  BY <1>7 DEF Tick, BreakerInv, KnownInv, runVars
<1> QED
  BY <1>1, <1>2, <1>4, <1>5, <1>6, <1>7 DEF Next

LEMMA BreakerCountsStep ==
  ASSUME BreakerType, RunType, BreakerInv, [Next]_vars
  PROVE  BreakerInv'
<1>1. /\ Threshold \in Nat \ {0} /\ MaxFailures \in Nat /\ MaxFailures >= Threshold
      /\ failures \in Nat /\ failures <= MaxFailures
  BY RunnerAssumption DEF BreakerType
<1>2. state = "closed" <=> failures < Threshold
  BY DEF BreakerInv, BreakerCounts
<1>3. state' = "closed" <=> failures' < Threshold
  <2>1. CASE CheckCircuitBreaker
    BY <1>2, <2>1 DEF CheckCircuitBreaker
  <2>2. CASE BreakerSuccess
    BY <1>1, <2>2 DEF BreakerSuccess
  <2>3. CASE BreakerFailure
    BY <1>1, <1>2, <2>3 DEF BreakerFailure, More
  <2>4. CASE UNCHANGED <<known, state, failures>>
    BY <1>2, <2>4
  <2> QED
    BY <2>1, <2>2, <2>3, <2>4, StepMovesBreaker DEF BreakerMoves, breaker
<1>4. ~known' => state' = "closed" /\ failures' = 0
  BY KnownStep DEF BreakerInv, BreakerCounts
<1> QED
  BY <1>3, <1>4, KnownStep DEF BreakerInv, BreakerCounts

LEMMA BreakerInvariant == Spec => [](TypeOK /\ BreakerInv)
<1>1. Init => BreakerInv
  BY RunnerAssumption DEF Init, BreakerInv, KnownInv, BreakerCounts
<1>2. TypeOK /\ BreakerInv /\ [Next]_vars => BreakerInv'
  BY BreakerCountsStep DEF TypeOK, BreakerType, RunType
<1> QED
  BY <1>1, <1>2, RunnerTypeCorrect, PTL DEF Spec

\* Whatever order runs succeed, fail, time out or are cancelled in, the breaker is
\* closed exactly below the threshold of failures, and one that nobody has asked is
\* closed.
THEOREM BreakerCountsFailures == Spec => []BreakerCounts
<1>1. BreakerInv => BreakerCounts
  BY DEF BreakerInv
<1> QED
  BY <1>1, BreakerInvariant, PTL

\* What a run does that is told it has failed.
LEMMA FailedRunFails ==
  ASSUME TypeOK, [Next]_vars, NEW r \in Runs,
         pc'[r] # pc[r], pc'[r] = "logging", verdict'[r] # "ok", ~Refuses
  PROVE  BreakerFailure
<1>1. RunType
  BY DEF TypeOK, RunType
<1>2. ASSUME NEW q \in Runs, NEW v, End(q, v) PROVE BreakerFailure
  <2>1. q = r
    BY <1>1, <1>2 DEF End, RunType
  <2>2. v = verdict'[r]
    BY <1>1, <1>2, <2>1 DEF End, RunType
  <2> QED
    BY <1>2, <2>2 DEF End
<1>3. CASE UNCHANGED pc
  BY <1>3
<1>4. ASSUME NEW q \in Runs, Start(q) PROVE BreakerFailure
  BY <1>1, <1>4 DEF Start, RunType
<1>5. ASSUME NEW q \in Runs, Run(q) PROVE BreakerFailure
  <2>1. CASE \E v \in Verdicts : End(q, v)
    BY <2>1, <1>2
  <2>2. CASE pc' = [pc EXCEPT ![q] = "racing"] \/ pc' = [pc EXCEPT ![q] = "idle"]
    BY <2>2, <1>1 DEF RunType
  <2> QED
    BY <2>1, <2>2, <1>5 DEF Run, Validate, Timeout, Log, Verdicts
<1>6. ASSUME NEW q \in Runs, BodyStep(q) PROVE BreakerFailure
  BY <1>2, <1>3, <1>6 DEF BodyStep, Connect, Operate, Disconnect, runVars
<1>7. ASSUME NEW k \in Keys, Cancel(k) PROVE BreakerFailure
  BY <1>1, <1>2, <1>7 DEF Cancel, RunType
<1> QED
  BY <1>3, <1>4, <1>5, <1>6, <1>7 DEF Next, Tick, runVars, vars

\* A run that fails while the breaker is half-open opens it again, be it the probe or
\* a run that started long before it: no failure is tolerated in half-open.
THEOREM HalfOpenFailureReopens == Spec => HalfOpenReopens
<1>1. ASSUME TypeOK, BreakerInv, [Next]_vars, NEW r \in Runs, state = "half-open",
             pc'[r] # pc[r], pc'[r] = "logging", verdict'[r] # "ok"
      PROVE  state' = "open"
  <2>1. BreakerFailure
    BY <1>1, FailedRunFails DEF Refuses
  <2>2. /\ failures \in Nat /\ failures >= Threshold /\ Threshold \in Nat
    BY <1>1, RunnerAssumption DEF BreakerInv, BreakerCounts, TypeOK
  <2> QED
    BY <2>1, <2>2 DEF BreakerFailure, More
<1>2. TypeOK /\ BreakerInv /\ [Next]_vars
        => [\A r \in Runs :
              state = "half-open" /\ pc'[r] # pc[r] /\ pc'[r] = "logging" /\ verdict'[r] # "ok"
                => state' = "open"]_vars
  BY <1>1
<1> QED
  BY <1>2, BreakerInvariant, PTL DEF Spec, HalfOpenReopens

-----------------------------------------------------------------------------
(***************************************************************************)
(* Bodies and entries.                                                     *)
(***************************************************************************)

\* A run that is still validating has no body yet.
BodyInv ==
  /\ \A r \in Runs : pc[r] = "validating" => body[r] = "idle"
  /\ OrphanHasACause

LEMMA BodyInvStep ==
  ASSUME RunType, BodyInv, [Next]_vars
  PROVE  BodyInv'
<1>1. CASE UNCHANGED <<pc, verdict, body>>
  BY <1>1 DEF BodyInv, OrphanHasACause
<1>2. ASSUME NEW r \in Runs, Start(r) PROVE BodyInv'
  BY <1>2 DEF Start, BodyInv, OrphanHasACause, RunType, bodyVars
<1>3. ASSUME NEW r \in Runs, Validate(r) PROVE BodyInv'
  <2>1. CASE End(r, "thrown") /\ UNCHANGED bodyVars
    BY <1>3, <2>1 DEF Validate, End, BodyInv, OrphanHasACause, RunType, bodyVars
  <2>2. CASE Body(r) /\ pc' = [pc EXCEPT ![r] = "racing"] /\ UNCHANGED verdict
    BY <1>3, <2>2 DEF Validate, Body, BodyInv, OrphanHasACause, RunType
  <2> QED
    BY <1>3, <2>1, <2>2 DEF Validate
<1>4. ASSUME NEW r \in Runs, pc[r] = "racing", NEW v \in {"timeout", "cancelled"},
             End(r, v), UNCHANGED bodyVars
      PROVE  BodyInv'
  BY <1>4 DEF End, BodyInv, OrphanHasACause, RunType, bodyVars
<1>5. ASSUME NEW r \in Runs, Log(r) PROVE BodyInv'
  BY <1>5 DEF Log, BodyInv, OrphanHasACause, RunType, bodyVars
<1>6. ASSUME NEW r \in Runs, Connect(r) \/ Operate(r) PROVE BodyInv'
  BY <1>6 DEF Connect, Operate, BodyInv, OrphanHasACause, RunType, runVars
<1>7. ASSUME NEW r \in Runs, Disconnect(r) PROVE BodyInv'
  <2>1. CASE End(r, "ok") \/ End(r, "thrown")
    BY <1>7, <2>1 DEF Disconnect, End, BodyInv, OrphanHasACause, RunType
  <2>2. CASE /\ verdict' = [verdict EXCEPT ![r] = IF pc[r] = "idle" THEN "none" ELSE @]
             /\ UNCHANGED pc
    BY <1>7, <2>2 DEF Disconnect, BodyInv, OrphanHasACause, RunType
  <2> QED
    BY <1>7, <2>1, <2>2 DEF Disconnect
<1>8. ASSUME NEW k \in Keys, Cancel(k) PROVE BodyInv'
  <2>1. entry[k] \in Runs
    BY <1>8 DEF Cancel, RunType
  <2> QED
    BY <1>4, <1>8, <2>1 DEF Cancel
<1> QED
  BY <1>1, <1>2, <1>3, <1>4, <1>5, <1>6, <1>7, <1>8
  DEF Next, Run, BodyStep, Timeout, Tick, vars, runVars, bodyVars

\* Work goes on in the background only after a timeout or a cancel: a run that was
\* refused, or whose validation or body threw, leaves nothing behind.
THEOREM OrphansHaveACause == Spec => []OrphanHasACause
<1>1. Init => BodyInv
  BY DEF Init, BodyInv, OrphanHasACause
<1>2. TypeOK /\ BodyInv /\ [Next]_vars => BodyInv'
  BY BodyInvStep DEF TypeOK, RunType
<1>3. BodyInv => OrphanHasACause
  BY DEF BodyInv
<1> QED
  BY <1>1, <1>2, <1>3, RunnerTypeCorrect, PTL DEF Spec

\* Two runs of one key that are both under way have met.
EntryInv ==
  /\ \A r, q \in Runs :
       r # q /\ KeyOf[r] = KeyOf[q] /\ pc[r] # "idle" /\ pc[q] # "idle" => r \in shared
  /\ RunHasItsEntry

LEMMA EntryInvStep ==
  ASSUME RunType, EntryInv, [Next]_vars
  PROVE  EntryInv'
<1> USE RunnerAssumption
<1>1. CASE UNCHANGED <<entry, shared>> /\ \A r \in Runs : pc'[r] # "idle" => pc[r] # "idle"
  BY <1>1 DEF EntryInv, RunHasItsEntry
<1>2. CASE UNCHANGED <<pc, entry, shared>>
  BY <1>2 DEF EntryInv, RunHasItsEntry
<1>3. ASSUME NEW r \in Runs, Start(r) PROVE EntryInv'
  <2> DEFINE met == {q \in Runs \ {r} : KeyOf[q] = KeyOf[r] /\ pc[q] # "idle"}
  <2>1. /\ shared' = shared \union met \union (IF met = {} THEN {} ELSE {r})
        /\ entry' = [entry EXCEPT ![KeyOf[r]] = r]
    BY <1>3 DEF Start
  <2>2. \A q \in Runs : q # r => pc'[q] = pc[q]
    BY <1>3 DEF Start, RunType
  <2>3. ASSUME NEW q \in Runs, q # r, KeyOf[q] = KeyOf[r], pc[q] # "idle"
        PROVE  q \in shared' /\ r \in shared'
    BY <2>1, <2>3
  <2>4. (\A p, q \in Runs :
           p # q /\ KeyOf[p] = KeyOf[q] /\ pc[p] # "idle" /\ pc[q] # "idle" => p \in shared)'
    BY <2>1, <2>2, <2>3 DEF EntryInv
  <2>5. ASSUME NEW q \in Runs, pc'[q] # "idle", q \notin shared' PROVE entry'[KeyOf[q]] = q
    <3>1. CASE q = r
      BY <2>1, <3>1 DEF RunType
    <3>2. CASE q # r
      <4>1. pc[q] # "idle" /\ q \notin shared
        BY <2>1, <2>2, <2>5, <3>2
      <4>2. KeyOf[q] # KeyOf[r]
        BY <2>3, <2>5, <3>2, <4>1
      <4> QED
        BY <2>1, <4>1, <4>2 DEF EntryInv, RunHasItsEntry, RunType
    <3> QED
      BY <3>1, <3>2
  <2> QED
    BY <2>4, <2>5 DEF EntryInv, RunHasItsEntry
<1>4. ASSUME NEW r \in Runs, NEW v, End(r, v), pc[r] # "idle" PROVE EntryInv'
  BY <1>1, <1>4 DEF End, RunType
<1>5. ASSUME NEW r \in Runs, Validate(r) \/ Timeout(r) PROVE EntryInv'
  BY <1>1, <1>4, <1>5 DEF Validate, Timeout, RunType
<1>6. ASSUME NEW r \in Runs, Log(r) PROVE EntryInv'
  <2>1. /\ \A q \in Runs : pc'[q] # "idle" => q # r /\ pc'[q] = pc[q]
        /\ shared' = shared \ {r} /\ entry' = [entry EXCEPT ![KeyOf[r]] = NoRun]
        /\ pc[r] # "idle"
    BY <1>6 DEF Log, RunType
  <2>2. ASSUME NEW q \in Runs, pc'[q] # "idle", q \notin shared'
        PROVE  entry'[KeyOf[q]] = q
    <3>1. q # r /\ q \notin shared /\ pc[q] # "idle"
      BY <2>1, <2>2
    <3>2. KeyOf[q] # KeyOf[r]
      BY <2>1, <3>1 DEF EntryInv
    <3> QED
      BY <2>1, <3>1, <3>2 DEF EntryInv, RunHasItsEntry, RunType
  <2> QED
    BY <2>1, <2>2 DEF EntryInv, RunHasItsEntry
<1>7. ASSUME NEW r \in Runs, BodyStep(r) PROVE EntryInv'
  BY <1>2, <1>4, <1>7 DEF BodyStep, Connect, Operate, Disconnect, runVars
<1>8. ASSUME NEW k \in Keys, Cancel(k) PROVE EntryInv'
  <2>1. entry[k] \in Runs
    BY <1>8 DEF Cancel, RunType
  <2> QED
    BY <1>4, <1>8, <2>1 DEF Cancel
<1> QED
  BY <1>2, <1>3, <1>5, <1>6, <1>7, <1>8 DEF Next, Run, Tick, vars, runVars

\* A run can be cancelled by its key from its start to the end of its log, unless
\* another run of the key was under way at the same time.
THEOREM RunsKeepTheirEntry == Spec => []RunHasItsEntry
<1>1. Init => EntryInv
  BY DEF Init, EntryInv, RunHasItsEntry
<1>2. TypeOK /\ EntryInv /\ [Next]_vars => EntryInv'
  BY EntryInvStep DEF TypeOK, RunType
<1>3. EntryInv => RunHasItsEntry
  BY DEF EntryInv
<1> QED
  BY <1>1, <1>2, <1>3, RunnerTypeCorrect, PTL DEF Spec
=============================================================================
