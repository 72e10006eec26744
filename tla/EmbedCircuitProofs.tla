------------------------- MODULE EmbedCircuitProofs -------------------------
(***************************************************************************)
(* Proofs about EmbedCircuit, for every set of documents.                  *)
(***************************************************************************)
EXTENDS EmbedCircuit, TLAPS

\* A document that is to be tried again has been tried less than three times.
RetriesLeft == \A d \in Docs : embed[d].pc = "backoff" => embed[d].tries < Attempts

CircuitInv == TypeOK /\ RetriesLeft /\ HealthAgrees

\* What the loops are to be after a call of the circuit.
Phase == {"idle", "waiting", "embedding", "backoff", "done", "gaveup"}

LoopsOK(e) ==
  /\ e \in [Docs -> [pc : Phase, tries : 0..Attempts]]
  /\ \A d \in Docs : e[d].pc = "backoff" => e[d].tries < Attempts

ScalarsOK ==
  /\ up \in BOOLEAN /\ open \in BOOLEAN /\ writer \in {"circuit", "settings", "status"}
  /\ fails \in 0..Threshold /\ health \in {"none", "up", "down"}
  /\ monitor \in [pc : {"sleep", "probe"}, interval : {30, 60, 120, 240, 300}]
  /\ HealthAgrees

LEMMA InvParts ==
  /\ CircuitInv <=> ScalarsOK /\ LoopsOK(embed)
  /\ CircuitInv' <=> ScalarsOK' /\ LoopsOK(embed)'
  BY DEF CircuitInv, TypeOK, RetriesLeft, ScalarsOK, LoopsOK, Phase

LEMMA MinOfTwo ==
  ASSUME NEW a \in Int, NEW b \in Int
  PROVE  Min({a, b}) = IF a <= b THEN a ELSE b
<1>. DEFINE m == IF a <= b THEN a ELSE b
<1>1. m \in {a, b} /\ \A y \in {a, b} : m <= y
  OBVIOUS
<1>2. \A x \in {a, b} : (\A y \in {a, b} : x <= y) => x = m
  OBVIOUS
<1>. QED  BY <1>1, <1>2 DEF Min

\* Waking those that wait keeps the loops in order.
LEMMA ReleasedKeeps ==
  ASSUME NEW e, LoopsOK(e)
  PROVE  LoopsOK(Released(e))
  BY DEF LoopsOK, Released, Phase

\* One document goes over to another record.
LEMMA SetKeeps ==
  ASSUME NEW e, LoopsOK(e), NEW d \in Docs, NEW p \in Phase, NEW n \in 0..Attempts,
         p = "backoff" => n < Attempts
  PROVE  LoopsOK([e EXCEPT ![d] = [pc |-> p, tries |-> n]])
  BY DEF LoopsOK

LEMMA SetPcKeeps ==
  ASSUME NEW e, LoopsOK(e), NEW d \in Docs, NEW p \in Phase,
         p = "backoff" => e[d].tries < Attempts
  PROVE  LoopsOK([e EXCEPT ![d].pc = p])
  BY DEF LoopsOK

LEMMA RecordSuccessKeeps ==
  ASSUME ScalarsOK, NEW e, LoopsOK(e), RecordSuccess(e), UNCHANGED up,
         monitor' \in [pc : {"sleep", "probe"}, interval : {30, 60, 120, 240, 300}]
  PROVE  ScalarsOK' /\ LoopsOK(embed)'
<1>1. ScalarsOK'
  <2>1. up' \in BOOLEAN /\ open' \in BOOLEAN /\ writer' \in {"circuit", "settings", "status"}
    BY Zenon DEF ScalarsOK, RecordSuccess
  <2>2. fails' \in 0..Threshold /\ health' \in {"none", "up", "down"} /\ health' # "down" /\ ~open'
    BY DEF RecordSuccess, HealthAfterSuccess, Threshold
  <2>. QED  BY <2>1, <2>2, Zenon DEF ScalarsOK, HealthAgrees
<1>2. LoopsOK(Released(e))
  BY ReleasedKeeps
<1>3. embed' = Released(e)
  BY DEF RecordSuccess, Freed
<1>. QED  BY <1>1, <1>2, <1>3 DEF LoopsOK

LEMMA RecordFailureKeeps ==
  ASSUME ScalarsOK, NEW e, LoopsOK(e), RecordFailure(e), UNCHANGED <<up, monitor>>
  PROVE  ScalarsOK' /\ LoopsOK(embed)'
<1>1. fails + 1 \in Int /\ Threshold \in Int
  BY DEF ScalarsOK, Threshold
<1>2. fails' = IF fails + 1 <= Threshold THEN fails + 1 ELSE Threshold
  BY <1>1, MinOfTwo DEF RecordFailure
<1>3. ScalarsOK'
  <2>1. up' \in BOOLEAN /\ open' \in BOOLEAN /\ writer' \in {"circuit", "settings", "status"}
    BY Zenon DEF ScalarsOK, RecordFailure
  <2>2. fails' \in 0..Threshold
    BY <1>2 DEF ScalarsOK, Threshold
  <2>3. CASE fails + 1 >= Threshold
    <3>1. open' /\ health' = "down"  BY <2>3, Zenon DEF RecordFailure
    <3>. QED  BY <2>1, <2>2, <3>1, Zenon DEF ScalarsOK, HealthAgrees
  <2>4. CASE ~(fails + 1 >= Threshold)
    <3>1. fails + 1 < Threshold  BY <2>4 DEF ScalarsOK, Threshold
    <3>2. open' = open /\ health' = health /\ writer' = writer
      BY <2>4, <3>1, Zenon DEF ScalarsOK, RecordFailure
    <3>. QED  BY <2>1, <2>2, <3>2, Zenon DEF ScalarsOK, HealthAgrees
  <2>. QED  BY <2>3, <2>4
<1>4. LoopsOK(embed)'
  BY DEF LoopsOK, RecordFailure
<1>. QED  BY <1>3, <1>4

-----------------------------------------------------------------------------
LEMMA InitInv == Init => CircuitInv
<1>. SUFFICES ASSUME Init PROVE ScalarsOK /\ LoopsOK(embed)
  BY InvParts
<1>1. ScalarsOK
  <2>1. fails \in 0..Threshold /\ health = "none"  BY DEF Init, Threshold
  <2>2. monitor \in [pc : {"sleep", "probe"}, interval : {30, 60, 120, 240, 300}]
    BY DEF Init, MinInterval
  <2>3. up \in BOOLEAN /\ open \in BOOLEAN /\ writer \in {"circuit", "settings", "status"}  BY Zenon DEF Init
  <2>4. health \in {"none", "up", "down"} /\ health # "down" /\ ~open  BY <2>1 DEF Init
  <2>. QED  BY <2>2, <2>1, <2>3, <2>4, Zenon DEF ScalarsOK, HealthAgrees
<1>2. LoopsOK(embed)  BY DEF Init, LoopsOK, Phase, Attempts
<1>. QED  BY <1>1, <1>2

LEMMA LoopInv ==
  ASSUME CircuitInv, NEW d \in Docs, Arrive(d) \/ Loop(d) \/ Mismatch(d)
  PROVE  CircuitInv'
<1>. USE InvParts
<1>0. embed[d].pc \in Phase /\ embed[d].tries \in 0..Attempts
  BY DEF LoopsOK
<1>a. /\ Attempt(d) \in Phase /\ Attempt(d) # "backoff"
      /\ {"done", "gaveup", "backoff"} \subseteq Phase
  BY DEF Attempt, Phase
<1>1. CASE Arrive(d)
  <2>1. ScalarsOK'  BY <1>1 DEF Arrive, ScalarsOK, circuit, HealthAgrees
  <2>2. LoopsOK([embed EXCEPT ![d] = [pc |-> Attempt(d), tries |-> 1]])
    <3>1. 1 \in 0..Attempts  BY DEF Attempts
    <3>. HIDE DEF Attempts
    <3>. QED  BY <1>a, <3>1, SetKeeps
  <2>. QED  BY <1>1, <2>1, <2>2 DEF Arrive, LoopsOK
<1>2. CASE Succeed(d)
  <2>. DEFINE e == [embed EXCEPT ![d].pc = "done"]
  <2>1. LoopsOK(e)  BY <1>a, SetPcKeeps
  <2>2. RecordSuccess(e) /\ UNCHANGED <<up, monitor>>  BY <1>2 DEF Succeed
  <2>3. monitor' \in [pc : {"sleep", "probe"}, interval : {30, 60, 120, 240, 300}]
    BY <2>2 DEF ScalarsOK
  <2>. QED  BY <2>1, <2>2, <2>3, RecordSuccessKeeps
<1>3. CASE Fail(d)
  <2>. DEFINE p == IF embed[d].tries < Attempts THEN "backoff" ELSE "gaveup"
              e == [embed EXCEPT ![d].pc = p]
  <2>1. p \in Phase /\ (p = "backoff" => embed[d].tries < Attempts)  BY <1>a
  <2>2. LoopsOK(e)
    <3>. HIDE DEF p
    <3>. QED  BY <2>1, SetPcKeeps
  <2>3. RecordFailure(e) /\ UNCHANGED <<up, monitor>>  BY <1>3 DEF Fail
  <2>. HIDE DEF e
  <2>. QED  BY <2>2, <2>3, RecordFailureKeeps
<1>4. CASE Retry(d)
  <2>1. ScalarsOK'  BY <1>4 DEF Retry, ScalarsOK, circuit, HealthAgrees
  <2>2. embed[d].tries + 1 \in 0..Attempts
    BY <1>0, <1>4 DEF Retry, LoopsOK, Attempts
  <2>3. LoopsOK([embed EXCEPT ![d] = [pc |-> Attempt(d), tries |-> embed[d].tries + 1]])
    BY <1>a, <2>2, SetKeeps
  <2>. QED  BY <1>4, <2>1, <2>3 DEF Retry, LoopsOK
<1>5. CASE Mismatch(d)
  <2>1. ScalarsOK'  BY <1>5 DEF Mismatch, ScalarsOK, circuit, HealthAgrees
  <2>2. LoopsOK(embed)'  BY <1>a, <1>5 DEF Mismatch, LoopsOK
  <2>. QED  BY <2>1, <2>2
<1>. QED  BY <1>1, <1>2, <1>3, <1>4, <1>5 DEF Loop

LEMMA MonitorInv ==
  ASSUME CircuitInv, Monitor
  PROVE  CircuitInv'
<1>. USE InvParts
<1>1. CASE Look
  BY <1>1 DEF Look, ScalarsOK, LoopsOK, circuit, HealthAgrees, MinInterval
<1>2. CASE ProbeSucceeds
  <2>1. monitor' \in [pc : {"sleep", "probe"}, interval : {30, 60, 120, 240, 300}]
    BY <1>2 DEF ProbeSucceeds, MinInterval
  <2>. QED  BY <1>2, <2>1, RecordSuccessKeeps DEF ProbeSucceeds
<1>3. CASE ProbeFails
  <2>1. monitor.interval \in {30, 60, 120, 240, 300}  BY DEF ScalarsOK
  <2>2. Backoff(monitor.interval) \in {30, 60, 120, 240, 300}
    <3>1. 2 * monitor.interval \in Int /\ MaxInterval \in Int
      BY <2>1 DEF MaxInterval
    <3>. QED  BY <2>1, <3>1, MinOfTwo DEF Backoff, MaxInterval
  <2>. QED  BY <1>3, <2>2 DEF ProbeFails, ScalarsOK, LoopsOK, circuit, HealthAgrees
<1>4. CASE ProbeTimesOut
  BY <1>4 DEF ProbeTimesOut, ScalarsOK, LoopsOK, circuit, HealthAgrees
<1>. QED  BY <1>1, <1>2, <1>3, <1>4 DEF Monitor

LEMMA EnvironmentInv ==
  ASSUME CircuitInv, ResetCircuit \/ StatusCheck \/ Flip
  PROVE  CircuitInv'
<1>. USE InvParts
<1>1. CASE ResetCircuit
  <2>1. LoopsOK(Released(embed))  BY ReleasedKeeps
  <2>2. LoopsOK(embed)'  BY <1>1, <2>1 DEF ResetCircuit, LoopsOK
  <2>3. ScalarsOK'
    <3>1. fails' \in 0..Threshold  BY <1>1 DEF ResetCircuit, Threshold
    <3>2. /\ up' \in BOOLEAN /\ open' \in BOOLEAN /\ writer' \in {"circuit", "settings", "status"}
          /\ health' = health /\ monitor' = monitor /\ ~open'
          /\ (writer' = "circuit" => writer = "circuit" /\ ~open)
      BY <1>1, Zenon DEF ResetCircuit, ScalarsOK
    <3>. QED  BY <3>1, <3>2, Zenon DEF ScalarsOK, HealthAgrees
  <2>. QED  BY <2>2, <2>3
<1>2. CASE Flip
  BY <1>2 DEF Flip, ScalarsOK, LoopsOK, circuit, HealthAgrees
<1>3. CASE StatusCheck
  <2>1. LoopsOK(embed)'  BY <1>3 DEF StatusCheck, LoopsOK
  <2>2. /\ up' \in BOOLEAN /\ open' \in BOOLEAN /\ writer' = "status"
        /\ health' \in {"none", "up", "down"} /\ monitor' = monitor /\ fails' = fails
    BY <1>3, Zenon DEF StatusCheck, ScalarsOK
  <2>3. writer' \in {"circuit", "settings", "status"} /\ writer' # "circuit"  BY <2>2
  <2>4. ScalarsOK'  BY <2>2, <2>3, Zenon DEF ScalarsOK, HealthAgrees
  <2>. QED  BY <2>1, <2>4
<1>. QED  BY <1>1, <1>2, <1>3

LEMMA StutterInv ==
  ASSUME CircuitInv, UNCHANGED vars
  PROVE  CircuitInv'
  BY InvParts DEF vars, circuit, ScalarsOK, LoopsOK, HealthAgrees

\* The inductive invariant of the circuit (ollama_queue.py:106-166).
THEOREM CircuitInvariant == Spec => []CircuitInv
<1>1. CircuitInv /\ [Next]_vars => CircuitInv'
  BY LoopInv, MonitorInv, EnvironmentInv, StutterInv DEF Next
<1>. QED  BY InitInv, <1>1, PTL DEF Spec

\* Whatever fails, in whatever order, and however often: no document is tried more than
\* three times, and the monitor never waits longer than five minutes
\* (main.py:461-504, 573-608, 3722-3748).
THEOREM TypeCorrect == Spec => []TypeOK
<1>1. CircuitInv => TypeOK  BY DEF CircuitInv
<1>. QED  BY CircuitInvariant, <1>1, PTL

\* As long as the circuit was the last to write the cached health, it says down exactly
\* while the circuit is open, through every failure, probe and retry; a change of the
\* settings and the status page end that (ollama_queue.py:106-161, main.py:3402-3427).
THEOREM HealthAgreesHolds == Spec => []HealthAgrees
<1>1. CircuitInv => HealthAgrees  BY DEF CircuitInv
<1>. QED  BY CircuitInvariant, <1>1, PTL
=============================================================================
