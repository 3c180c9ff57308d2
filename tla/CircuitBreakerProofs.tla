------------------------ MODULE CircuitBreakerProofs ------------------------
(***************************************************************************)
(* Proofs about CircuitBreaker for every set of keys, every threshold and  *)
(* every bound.  The argument goes through View, the record getData        *)
(* returns: lemmas on the pure transition functions first, then what each  *)
(* action does to View, then the inductive invariant.                      *)
(***************************************************************************)
EXTENDS CircuitBreaker, TLAPS

\* cooldownMs is a proper span of time.
LEMMA CooldownSpan == cooldownMs \in Nat \ {0}
  BY ThresholdAssumption DEF cooldownMs

\* The initial record of state_machine.ts is a well-formed, coherent record.
LEMMA DefaultRecord ==
    ASSUME NEW t \in Nat
    PROVE  /\ createDefaultCircuitBreakerData \in CircuitBreakerData
           /\ Coherent(createDefaultCircuitBreakerData, t)
           /\ evaluateCooldown(createDefaultCircuitBreakerData, t)
                = createDefaultCircuitBreakerData
  BY ThresholdAssumption, CooldownSpan
  DEF createDefaultCircuitBreakerData, CircuitBreakerData,
      CircuitBreakerState, Null, Coherent, evaluateCooldown, CooldownElapsed

\* evaluateCooldown keeps a record well-formed and coherent, and evaluating it
\* again, at the same time or later, gives what a single evaluation gives.
LEMMA Cooldown ==
    ASSUME NEW d \in CircuitBreakerData, NEW t \in Nat
    PROVE  /\ evaluateCooldown(d, t) \in CircuitBreakerData
           /\ evaluateCooldown(evaluateCooldown(d, t), t) = evaluateCooldown(d, t)
           /\ evaluateCooldown(evaluateCooldown(d, t), t + 1)
                = evaluateCooldown(d, t + 1)
           /\ Coherent(d, t) => Coherent(evaluateCooldown(d, t), t)
           /\ evaluateCooldown(d, t).state = "CLOSED" <=> d.state = "CLOSED"
           /\ evaluateCooldown(d, t).consecutiveFailures = d.consecutiveFailures
           /\ Coherent(d, t) => Coherent(d, t + 1)
           /\ ~CooldownElapsed(evaluateCooldown(d, t), t)
  <1> USE ThresholdAssumption, CooldownSpan DEF CircuitBreakerData, CircuitBreakerState, Null
  <1>1. CASE CooldownElapsed(d, t)
    <2> DEFINE e == [d EXCEPT !.state = "HALF_OPEN", !.consecutiveSuccesses = 0]
    <2>1. evaluateCooldown(d, t) = e /\ evaluateCooldown(d, t + 1) = e
      BY <1>1 DEF evaluateCooldown, CooldownElapsed
    <2>2. e \in CircuitBreakerData /\ e.state = "HALF_OPEN"
      OBVIOUS
    <2>3. evaluateCooldown(e, t) = e /\ evaluateCooldown(e, t + 1) = e
      BY <2>2 DEF evaluateCooldown, CooldownElapsed
    <2>4. Coherent(d, t) => Coherent(e, t) /\ Coherent(d, t + 1)
      BY <1>1 DEF Coherent, CooldownElapsed
    <2>5. ~CooldownElapsed(e, t)
      BY <2>2 DEF CooldownElapsed
    <2>6. d.state # "CLOSED" /\ e.consecutiveFailures = d.consecutiveFailures
      BY <1>1 DEF CooldownElapsed
    <2> HIDE DEF e
    <2> QED BY <2>1, <2>2, <2>3, <2>4, <2>5, <2>6
  <1>2. CASE ~CooldownElapsed(d, t)
    <2>1. evaluateCooldown(d, t) = d
      BY <1>2 DEF evaluateCooldown
    <2>2. Coherent(d, t) => Coherent(d, t + 1)
      BY DEF Coherent
    <2> QED BY <1>2, <2>1, <2>2
  <1> QED BY <1>1, <1>2

\* applySuccess, applyFailure, applyTrip: a well-formed record stays one.
LEMMA TransitionTypes ==
    ASSUME NEW d \in CircuitBreakerData, NEW t \in Nat
    PROVE  /\ applySuccess(d) \in CircuitBreakerData
           /\ applyFailure(d, t) \in CircuitBreakerData
           /\ applyTrip(d, t) \in CircuitBreakerData
           /\ applyReset(d) \in CircuitBreakerData
  <1> USE ThresholdAssumption, CooldownSpan DEF CircuitBreakerData, CircuitBreakerState, Null
  <1>0. Close(d) \in CircuitBreakerData /\ Reopen(d, t) \in CircuitBreakerData
    <2>1. Close(d) \in CircuitBreakerData
      BY DEF Close
    <2>2. d.consecutiveFailures + 1 \in Nat
      OBVIOUS
    <2>3. Reopen(d, t) \in CircuitBreakerData
      BY <2>2 DEF Reopen
    <2> QED BY <2>1, <2>3
  <1>1. applySuccess(d) \in CircuitBreakerData
    <2>1. CASE d.state = "HALF_OPEN"
      BY <1>0, <2>1 DEF applySuccess
    <2>2. CASE d.state = "CLOSED"
      BY <2>2 DEF applySuccess
    <2>3. CASE d.state = "OPEN"
      BY <1>0, <2>3 DEF applySuccess
    <2> QED BY <2>1, <2>2, <2>3
  <1>2. applyFailure(d, t) \in CircuitBreakerData
    <2>1. CASE d.state = "HALF_OPEN"
      BY <1>0, <2>1 DEF applyFailure
    <2>2. CASE d.state = "CLOSED"
      BY <1>0, <2>2 DEF applyFailure
    <2>3. CASE d.state = "OPEN"
      BY <2>3 DEF applyFailure
    <2> QED BY <2>1, <2>2, <2>3
  <1>3. applyTrip(d, t) \in CircuitBreakerData
    BY DEF applyTrip
  <1>4. applyReset(d) \in CircuitBreakerData
    BY DEF applyReset, createDefaultCircuitBreakerData
  <1> QED BY <1>1, <1>2, <1>3, <1>4

\* applySuccess, applyFailure, applyTrip keep a coherent record coherent.
LEMMA TransitionsCoherent ==
    ASSUME NEW d \in CircuitBreakerData, NEW t \in Nat, Coherent(d, t)
    PROVE  /\ Coherent(applySuccess(d), t)
           /\ Coherent(applyFailure(d, t), t)
           /\ Coherent(applyTrip(d, t), t)
           /\ Coherent(applyReset(d), t)
  <1>1. Coherent(applySuccess(d), t)
    BY ThresholdAssumption, CooldownSpan
    DEF CircuitBreakerData, CircuitBreakerState, Null, Coherent, applySuccess, Close
  <1>2. Coherent(applyFailure(d, t), t)
    BY ThresholdAssumption, CooldownSpan
    DEF CircuitBreakerData, CircuitBreakerState, Null, Coherent, applyFailure, Reopen
  <1>3. Coherent(applyTrip(d, t), t)
    BY ThresholdAssumption, CooldownSpan
    DEF CircuitBreakerData, CircuitBreakerState, Null, Coherent, applyTrip
  <1>4. Coherent(applyReset(d), t)
    BY DefaultRecord DEF applyReset
  <1> QED BY <1>1, <1>2, <1>3, <1>4

\* A record stored by an operation is not one whose cooldown is already over.
LEMMA TransitionsSettled ==
    ASSUME NEW d \in CircuitBreakerData, NEW t \in Nat
    PROVE  /\ evaluateCooldown(applySuccess(d), t) = applySuccess(d)
           /\ ~CooldownElapsed(d, t) =>
                evaluateCooldown(applyFailure(d, t), t) = applyFailure(d, t)
           /\ evaluateCooldown(applyTrip(d, t), t) = applyTrip(d, t)
           /\ evaluateCooldown(applyReset(d), t) = applyReset(d)
  <1>1. evaluateCooldown(applySuccess(d), t) = applySuccess(d)
    BY ThresholdAssumption, CooldownSpan
    DEF CircuitBreakerData, CircuitBreakerState, Null, applySuccess, Close,
        evaluateCooldown, CooldownElapsed
  <1>2. ASSUME ~CooldownElapsed(d, t)
        PROVE  evaluateCooldown(applyFailure(d, t), t) = applyFailure(d, t)
    BY <1>2, ThresholdAssumption, CooldownSpan
    DEF CircuitBreakerData, CircuitBreakerState, Null, applyFailure, Reopen,
        evaluateCooldown, CooldownElapsed
  <1>3. evaluateCooldown(applyTrip(d, t), t) = applyTrip(d, t)
    BY ThresholdAssumption, CooldownSpan
    DEF CircuitBreakerData, CircuitBreakerState, Null, applyTrip,
        evaluateCooldown, CooldownElapsed
  <1>4. evaluateCooldown(applyReset(d), t) = applyReset(d)
    BY DefaultRecord DEF applyReset
  <1> QED BY <1>1, <1>2, <1>3, <1>4

-----------------------------------------------------------------------------
\* The inductive invariant: type correctness, the agreement of memory and
\* storage, coherent records, and the failure count of CLOSED breakers.
IndInv == TypeOK /\ EvictionTransparent /\ EveryRecordCoherent /\ ClosedCountsStreak

\* Under the invariant the loaded record and View(k) are well-formed records.
LEMMA ViewType ==
    ASSUME TypeOK, NEW k \in Keys
    PROVE  /\ load(k) \in CircuitBreakerData
           /\ View(k) \in CircuitBreakerData
           /\ ~CooldownElapsed(View(k), now)
  <1>1. load(k) \in CircuitBreakerData
    BY DEF TypeOK, load
  <1> QED BY <1>1, Cooldown DEF TypeOK, View

\* An operation that stores a settled record d for key k changes that key's
\* record and no other, and leaves memory and storage in agreement.
LEMMA StoreStep ==
    ASSUME TypeOK, EvictionTransparent, EveryRecordCoherent, UNCHANGED now,
           NEW k \in Keys, NEW d \in CircuitBreakerData,
           evaluateCooldown(d, now) = d, Coherent(d, now), Store(k, d)
    PROVE  /\ loaded' \subseteq Keys
           /\ mem' \in [Keys -> CircuitBreakerData]
           /\ disk' \in [Keys -> CircuitBreakerData]
           /\ \A j \in Keys : View(j)' = IF j = k THEN d ELSE View(j)
           /\ EvictionTransparent'
           /\ EveryRecordCoherent'
  <1>1. /\ loaded' \subseteq Keys
        /\ mem' \in [Keys -> CircuitBreakerData]
        /\ disk' \in [Keys -> CircuitBreakerData]
    BY DEF TypeOK, Store
  <1>2. \A j \in Keys : load(j)' = IF j = k THEN d ELSE load(j)
    BY DEF TypeOK, Store, load
  <1>3. \A j \in Keys : disk'[j] = IF j = k THEN d ELSE disk[j]
    BY DEF TypeOK, Store
  <1>4. \A j \in Keys : View(j)' = IF j = k THEN d ELSE View(j)
    BY <1>2 DEF View
  <1>5. EvictionTransparent'
    BY <1>3, <1>4 DEF EvictionTransparent
  <1>6. EveryRecordCoherent'
    BY <1>2, <1>3 DEF EveryRecordCoherent
  <1> QED BY <1>1, <1>4, <1>5, <1>6

\* getData leaves every answer as it was, and memory and storage in agreement.
LEMMA ReadStep ==
    ASSUME TypeOK, EvictionTransparent, EveryRecordCoherent, UNCHANGED now,
           NEW k \in Keys, getData(k)
    PROVE  /\ loaded' \subseteq Keys
           /\ mem' \in [Keys -> CircuitBreakerData]
           /\ disk' \in [Keys -> CircuitBreakerData]
           /\ \A j \in Keys : View(j)' = View(j)
           /\ EvictionTransparent'
           /\ EveryRecordCoherent'
  <1>0. now \in Nat
    BY DEF TypeOK
  <1>1. /\ loaded' \subseteq Keys
        /\ mem' \in [Keys -> CircuitBreakerData]
        /\ disk' \in [Keys -> CircuitBreakerData]
    BY ViewType DEF TypeOK, getData
  <1>2. \A j \in Keys : load(j)' = IF j = k THEN View(k) ELSE load(j)
    BY DEF TypeOK, getData, load
  <1>3. \A j \in Keys : (disk'[j] = disk[j]) \/ (j = k /\ disk'[j] = View(k))
    BY DEF TypeOK, getData
  <1>4. \A j \in Keys : View(j)' = View(j)
    BY <1>0, <1>2, ViewType, Cooldown DEF View
  <1>5. EvictionTransparent'
    BY <1>0, <1>3, <1>4, ViewType, Cooldown DEF EvictionTransparent, View
  <1>6. Coherent(View(k), now)
    BY <1>0, ViewType, Cooldown DEF EveryRecordCoherent, View
  <1>7. EveryRecordCoherent'
    BY <1>2, <1>3, <1>6 DEF EveryRecordCoherent
  <1> QED BY <1>1, <1>4, <1>5, <1>7

\* A step that changes no answer and no history keeps the failure count right.
LEMMA SameViewKeepsCount ==
    ASSUME ClosedCountsStreak, \A j \in Keys : View(j)' = View(j),
           UNCHANGED streak
    PROVE  ClosedCountsStreak'
  BY DEF ClosedCountsStreak

\* Initially nothing is stored, so the invariant holds.
LEMMA InitInv == Init => IndInv
  <1> SUFFICES ASSUME Init PROVE IndInv
    OBVIOUS
  <1>1. TypeOK
    BY DefaultRecord DEF Init, TypeOK
  <1>2. \A k \in Keys : load(k) = createDefaultCircuitBreakerData
                        /\ disk[k] = createDefaultCircuitBreakerData
    BY DEF Init, load
  <1>3. \A k \in Keys : View(k) = createDefaultCircuitBreakerData
    BY <1>1, <1>2, DefaultRecord DEF View, TypeOK
  <1>4. EvictionTransparent
    BY <1>2 DEF EvictionTransparent, View
  <1>5. EveryRecordCoherent
    BY <1>1, <1>2, DefaultRecord DEF EveryRecordCoherent, TypeOK
  <1>6. ClosedCountsStreak
    BY <1>3, ThresholdAssumption, CooldownSpan
    DEF ClosedCountsStreak, createDefaultCircuitBreakerData, Init
  <1> QED BY <1>1, <1>4, <1>5, <1>6 DEF IndInv

\* A reported success: streak and failure count restart together.
LEMMA SuccessInv ==
    ASSUME IndInv, NEW k \in Keys, recordSuccess(k)
    PROVE  IndInv' /\ \A j \in Keys :
             View(j)' = IF j = k THEN applySuccess(View(k)) ELSE View(j)
  <1> DEFINE d == applySuccess(View(k))
  <1>0. TypeOK /\ EvictionTransparent /\ EveryRecordCoherent /\ now \in Nat
        /\ View(k) \in CircuitBreakerData /\ Coherent(View(k), now)
    BY ViewType, Cooldown DEF IndInv, TypeOK, EveryRecordCoherent, View
  <1>1. /\ d \in CircuitBreakerData /\ Coherent(d, now)
        /\ evaluateCooldown(d, now) = d
    BY <1>0, TransitionTypes, TransitionsCoherent, TransitionsSettled
  <1>2. /\ UNCHANGED now /\ Store(k, d)
        /\ pending' = [pending EXCEPT ![k] = @ - 1] /\ pending[k] > 0
        /\ streak' = [streak EXCEPT ![k] = 0]
        /\ probes' = [probes EXCEPT ![k] = 0]
    BY DEF recordSuccess
  <1>types. pending' \in [Keys -> Nat] /\ streak' \in [Keys -> Nat]
        /\ probes' \in [Keys -> Nat]
    BY <1>0, <1>2 DEF TypeOK
  <1>3. d.state = "CLOSED" => d.consecutiveFailures = 0
    BY <1>0 DEF applySuccess, Close, CircuitBreakerData, CircuitBreakerState
  <1> HIDE DEF d
  <1>4. /\ loaded' \subseteq Keys
        /\ mem' \in [Keys -> CircuitBreakerData]
        /\ disk' \in [Keys -> CircuitBreakerData]
        /\ \A j \in Keys : View(j)' = IF j = k THEN d ELSE View(j)
        /\ EvictionTransparent' /\ EveryRecordCoherent'
    BY <1>0, <1>1, <1>2, StoreStep
  <1>5. TypeOK'
    BY <1>0, <1>2, <1>4, <1>types DEF TypeOK
  <1>6. ClosedCountsStreak'
    BY <1>0, <1>2, <1>3, <1>4, ThresholdAssumption, CooldownSpan
    DEF IndInv, ClosedCountsStreak, TypeOK
  <1> QED BY <1>4, <1>5, <1>6 DEF IndInv, d

\* A reported failure: one more in a row, and the breaker opens at the limit.
LEMMA FailureInv ==
    ASSUME IndInv, NEW k \in Keys, recordFailure(k)
    PROVE  IndInv' /\ \A j \in Keys :
             View(j)' = IF j = k THEN applyFailure(View(k), now) ELSE View(j)
  <1> DEFINE d == applyFailure(View(k), now)
  <1>0. TypeOK /\ EvictionTransparent /\ EveryRecordCoherent /\ now \in Nat
        /\ View(k) \in CircuitBreakerData /\ Coherent(View(k), now)
        /\ ~CooldownElapsed(View(k), now)
    BY ViewType, Cooldown DEF IndInv, TypeOK, EveryRecordCoherent, View
  <1>1. /\ d \in CircuitBreakerData /\ Coherent(d, now)
        /\ evaluateCooldown(d, now) = d
    BY <1>0, TransitionTypes, TransitionsCoherent, TransitionsSettled
  <1>2. /\ UNCHANGED now /\ Store(k, d)
        /\ pending' = [pending EXCEPT ![k] = @ - 1] /\ pending[k] > 0
        /\ streak' = [streak EXCEPT ![k] = @ + 1]
        /\ probes' = [probes EXCEPT ![k] = 0]
    BY DEF recordFailure
  <1>types. pending' \in [Keys -> Nat] /\ streak' \in [Keys -> Nat]
        /\ probes' \in [Keys -> Nat]
    BY <1>0, <1>2 DEF TypeOK
  <1>3. d.state = "CLOSED" =>
            /\ View(k).state = "CLOSED"
            /\ d.consecutiveFailures = View(k).consecutiveFailures + 1
            /\ d.consecutiveFailures < FailureThreshold
    BY <1>0, ThresholdAssumption, CooldownSpan
    DEF applyFailure, Reopen, CircuitBreakerData, CircuitBreakerState
  <1> HIDE DEF d
  <1>4. /\ loaded' \subseteq Keys
        /\ mem' \in [Keys -> CircuitBreakerData]
        /\ disk' \in [Keys -> CircuitBreakerData]
        /\ \A j \in Keys : View(j)' = IF j = k THEN d ELSE View(j)
        /\ EvictionTransparent' /\ EveryRecordCoherent'
    BY <1>0, <1>1, <1>2, StoreStep
  <1>5. TypeOK'
    BY <1>0, <1>2, <1>4, <1>types DEF TypeOK
  <1>6. ClosedCountsStreak'
    BY <1>0, <1>2, <1>3, <1>4 DEF IndInv, ClosedCountsStreak, TypeOK
  <1> QED BY <1>4, <1>5, <1>6 DEF IndInv, d

\* A manual trip opens the breaker and leaves the reports' history alone.
LEMMA TripInv ==
    ASSUME IndInv, NEW k \in Keys, trip(k)
    PROVE  IndInv' /\ \A j \in Keys :
             View(j)' = IF j = k THEN applyTrip(View(k), now) ELSE View(j)
  <1> DEFINE d == applyTrip(View(k), now)
  <1>0. TypeOK /\ EvictionTransparent /\ EveryRecordCoherent /\ now \in Nat
        /\ View(k) \in CircuitBreakerData /\ Coherent(View(k), now)
    BY ViewType, Cooldown DEF IndInv, TypeOK, EveryRecordCoherent, View
  <1>1. /\ d \in CircuitBreakerData /\ Coherent(d, now)
        /\ evaluateCooldown(d, now) = d
    BY <1>0, TransitionTypes, TransitionsCoherent, TransitionsSettled
  <1>2. UNCHANGED <<now, pending, streak>> /\ Store(k, d)
        /\ probes' = [probes EXCEPT ![k] = 0]
    BY DEF trip
  <1>3. d.state = "OPEN"
    BY <1>0 DEF applyTrip, CircuitBreakerData
  <1> HIDE DEF d
  <1>4. /\ loaded' \subseteq Keys
        /\ mem' \in [Keys -> CircuitBreakerData]
        /\ disk' \in [Keys -> CircuitBreakerData]
        /\ \A j \in Keys : View(j)' = IF j = k THEN d ELSE View(j)
        /\ EvictionTransparent' /\ EveryRecordCoherent'
    BY <1>0, <1>1, <1>2, StoreStep
  <1>5. TypeOK'
    BY <1>0, <1>2, <1>4 DEF TypeOK
  <1>6. ClosedCountsStreak'
    BY <1>0, <1>2, <1>3, <1>4 DEF IndInv, ClosedCountsStreak, TypeOK
  <1> QED BY <1>4, <1>5, <1>6 DEF IndInv, d

\* A manual reset gives the key a fresh record and a fresh history.
LEMMA ResetInv ==
    ASSUME IndInv, NEW k \in Keys, reset(k)
    PROVE  IndInv' /\ \A j \in Keys :
             View(j)' = IF j = k THEN applyReset(View(k)) ELSE View(j)
  <1> DEFINE d == applyReset(View(k))
  <1>0. TypeOK /\ EvictionTransparent /\ EveryRecordCoherent /\ now \in Nat
    BY DEF IndInv, TypeOK
  <1>1. /\ d \in CircuitBreakerData /\ Coherent(d, now)
        /\ evaluateCooldown(d, now) = d
    BY <1>0, DefaultRecord DEF applyReset
  <1>2. UNCHANGED <<now, pending>> /\ Store(k, d)
        /\ streak' = [streak EXCEPT ![k] = 0]
        /\ probes' = [probes EXCEPT ![k] = 0]
    BY DEF reset
  <1>3. d.consecutiveFailures = 0
    BY DEF applyReset, createDefaultCircuitBreakerData
  <1> HIDE DEF d
  <1>4. /\ loaded' \subseteq Keys
        /\ mem' \in [Keys -> CircuitBreakerData]
        /\ disk' \in [Keys -> CircuitBreakerData]
        /\ \A j \in Keys : View(j)' = IF j = k THEN d ELSE View(j)
        /\ EvictionTransparent' /\ EveryRecordCoherent'
    BY <1>0, <1>1, <1>2, StoreStep
  <1>5. TypeOK'
    BY <1>0, <1>2, <1>4 DEF TypeOK
  <1>6. ClosedCountsStreak'
    BY <1>0, <1>2, <1>3, <1>4, ThresholdAssumption, CooldownSpan
    DEF IndInv, ClosedCountsStreak, TypeOK
  <1> QED BY <1>4, <1>5, <1>6 DEF IndInv, d

\* Reads, admissions, lost reports and evictions change no answer.
LEMMA QuietInv ==
    ASSUME IndInv, NEW k \in Keys,
           Read(k) \/ Admit(k) \/ ReadSync(k) \/ DropReport(k) \/ Evict
    PROVE  IndInv' /\ UNCHANGED now /\ \A j \in Keys : View(j)' = View(j)
  <1>0. TypeOK /\ EvictionTransparent /\ EveryRecordCoherent /\ ClosedCountsStreak
        /\ now \in Nat
    BY DEF IndInv, TypeOK
  <1>1. CASE Read(k)
    <2>1. getData(k) /\ UNCHANGED <<now, pending, streak, probes>>
      BY <1>1 DEF Read
    <2>2. /\ loaded' \subseteq Keys
          /\ mem' \in [Keys -> CircuitBreakerData]
          /\ disk' \in [Keys -> CircuitBreakerData]
          /\ \A j \in Keys : View(j)' = View(j)
          /\ EvictionTransparent' /\ EveryRecordCoherent'
      BY <1>0, <2>1, ReadStep
    <2>3. TypeOK'
      BY <1>0, <2>1, <2>2 DEF TypeOK
    <2> QED BY <1>0, <2>1, <2>2, <2>3, SameViewKeepsCount DEF IndInv
  <1>2. CASE Admit(k)
    <2>1. /\ getData(k) /\ UNCHANGED <<now, streak>>
          /\ pending' = [pending EXCEPT ![k] = @ + ReportsPerRequest]
          /\ probes' = [probes EXCEPT ![k] =
                           IF View(k).state = "HALF_OPEN" /\ @ < 2 THEN @ + 1 ELSE @]
      BY <1>2 DEF Admit
    <2>2. /\ loaded' \subseteq Keys
          /\ mem' \in [Keys -> CircuitBreakerData]
          /\ disk' \in [Keys -> CircuitBreakerData]
          /\ \A j \in Keys : View(j)' = View(j)
          /\ EvictionTransparent' /\ EveryRecordCoherent'
      BY <1>0, <2>1, ReadStep
    <2>3. pending' \in [Keys -> Nat] /\ probes' \in [Keys -> Nat]
      BY <1>0, <2>1, BoundAssumption DEF TypeOK
    <2>4. TypeOK'
      BY <1>0, <2>1, <2>2, <2>3 DEF TypeOK
    <2> QED BY <1>0, <2>1, <2>2, <2>4, SameViewKeepsCount DEF IndInv
  <1>3. CASE ReadSync(k)
    <2>1. /\ UNCHANGED <<loaded, disk, now, pending, streak, probes>>
          /\ mem' = [mem EXCEPT ![k] = View(k)] /\ k \in loaded
      BY <1>3 DEF ReadSync
    <2>2. \A j \in Keys : load(j)' = IF j = k THEN View(k) ELSE load(j)
      BY <1>0, <2>1 DEF load, TypeOK
    <2>3. \A j \in Keys : View(j)' = View(j)
      BY <1>0, <2>1, <2>2, ViewType, Cooldown DEF View
    <2>4. EvictionTransparent'
      BY <1>0, <2>1, <2>3 DEF EvictionTransparent
    <2>5. Coherent(View(k), now)
      BY <1>0, ViewType, Cooldown DEF EveryRecordCoherent, View
    <2>6. EveryRecordCoherent'
      BY <1>0, <2>1, <2>2, <2>5 DEF EveryRecordCoherent
    <2>7. TypeOK'
      BY <1>0, <2>1, ViewType DEF TypeOK
    <2> QED BY <1>0, <2>1, <2>3, <2>4, <2>6, <2>7, SameViewKeepsCount DEF IndInv
  <1>4. CASE DropReport(k)
    <2>1. /\ UNCHANGED <<loaded, mem, disk, now, streak, probes>>
          /\ pending' = [pending EXCEPT ![k] = @ - 1] /\ pending[k] > 0
      BY <1>4 DEF DropReport, breakerVars
    <2>2. pending' \in [Keys -> Nat]
      BY <1>0, <2>1 DEF TypeOK
    <2>3. TypeOK'
      BY <1>0, <2>1, <2>2 DEF TypeOK
    <2>4. \A j \in Keys : View(j)' = View(j) /\ load(j)' = load(j)
      BY <2>1 DEF View, load
    <2>5. EvictionTransparent' /\ EveryRecordCoherent'
      BY <1>0, <2>1, <2>4 DEF EvictionTransparent, EveryRecordCoherent
    <2> QED BY <1>0, <2>1, <2>3, <2>4, <2>5, SameViewKeepsCount DEF IndInv
  <1>5. CASE Evict
    <2>1. /\ UNCHANGED <<disk, now, pending, streak, probes>> /\ loaded' = {}
          /\ mem' = [j \in Keys |-> createDefaultCircuitBreakerData]
      BY <1>5 DEF Evict
    <2>2. \A j \in Keys : load(j)' = disk[j]
      BY <2>1 DEF load
    <2>3. \A j \in Keys : View(j)' = View(j)
      BY <1>0, <2>1, <2>2 DEF View, EvictionTransparent
    <2>4. EvictionTransparent' /\ EveryRecordCoherent'
      BY <1>0, <2>1, <2>2, <2>3 DEF EvictionTransparent, EveryRecordCoherent
    <2>5. TypeOK'
      BY <1>0, <2>1, DefaultRecord DEF TypeOK
    <2> QED BY <1>0, <2>1, <2>3, <2>4, <2>5, SameViewKeepsCount DEF IndInv
  <1> QED BY <1>1, <1>2, <1>3, <1>4, <1>5

\* A second passes: cooldowns may end, and nothing else changes.
LEMMA TickInv ==
    ASSUME IndInv, Tick
    PROVE  IndInv' /\ now' = now + 1
           /\ \A j \in Keys : View(j)' = evaluateCooldown(View(j), now + 1)
  <1>0. TypeOK /\ EvictionTransparent /\ EveryRecordCoherent /\ ClosedCountsStreak
        /\ now \in Nat /\ now + 1 \in Nat /\ now' = now + 1
        /\ UNCHANGED <<loaded, mem, disk, pending, streak, probes>>
    BY DEF IndInv, TypeOK, Tick, breakerVars
  <1>1. \A j \in Keys : load(j)' = load(j) /\ disk[j] \in CircuitBreakerData
    BY <1>0 DEF load, TypeOK
  <1>2. \A j \in Keys : View(j)' = evaluateCooldown(View(j), now + 1)
    BY <1>0, <1>1, ViewType, Cooldown DEF View
  <1>3. EvictionTransparent'
    BY <1>0, <1>1, <1>2, Cooldown DEF EvictionTransparent
  <1>4. EveryRecordCoherent'
    BY <1>0, <1>1, ViewType, Cooldown DEF EveryRecordCoherent
  <1>5. ClosedCountsStreak'
    BY <1>0, <1>2, ViewType, Cooldown DEF ClosedCountsStreak
  <1>6. TypeOK'
    BY <1>0 DEF TypeOK
  <1> QED BY <1>0, <1>2, <1>3, <1>4, <1>5, <1>6 DEF IndInv

\* Every step of the breaker keeps the inductive invariant.
LEMMA NextInv == IndInv /\ [Next]_vars => IndInv'
  <1> SUFFICES ASSUME IndInv, [Next]_vars PROVE IndInv'
    OBVIOUS
  <1>1. ASSUME NEW k \in Keys, KeyStep(k) PROVE IndInv'
    BY <1>1, QuietInv, SuccessInv, FailureInv, TripInv, ResetInv DEF KeyStep
  <1>2. CASE Evict
    <2>1. CASE Keys = {}
      BY <1>2, <2>1 DEF IndInv, TypeOK, Evict, EvictionTransparent,
         EveryRecordCoherent, ClosedCountsStreak
    <2>2. CASE Keys # {}
      BY <1>2, <2>2, QuietInv
    <2> QED BY <2>1, <2>2
  <1>3. CASE Tick
    BY <1>3, TickInv
  <1>4. CASE UNCHANGED vars
    BY <1>4 DEF vars, IndInv, TypeOK, EvictionTransparent, EveryRecordCoherent,
       ClosedCountsStreak, View, load
  <1> QED BY <1>1, <1>2, <1>3, <1>4 DEF Next

\* The inductive invariant holds in every reachable state.
THEOREM Invariance == Spec => []IndInv
  BY InitInv, NextInv, PTL DEF Spec

\* Type correctness of breaker.ts's memory map and storage records.
THEOREM TypeCorrect == Spec => []TypeOK
  <1>1. IndInv => TypeOK
    BY DEF IndInv
  <1> QED BY <1>1, Invariance, PTL

\* Losing the object's memory never changes what getData answers.
THEOREM EvictionSafe == Spec => []EvictionTransparent
  <1>1. IndInv => EvictionTransparent
    BY DEF IndInv
  <1> QED BY <1>1, Invariance, PTL

\* A breaker opens exactly at FailureThreshold reported failures in a row.
THEOREM OpensAtThreshold == Spec => []ClosedCountsStreak
  <1>1. IndInv => ClosedCountsStreak
    BY DEF IndInv
  <1> QED BY <1>1, Invariance, PTL

\* Every record's fields agree with its state: no breaker can get stuck OPEN
\* without a deadline.
THEOREM AlwaysCoherent == Spec => []RecordsCoherent
  <1>1. IndInv => RecordsCoherent
    BY DEF IndInv, RecordsCoherent
  <1> QED BY <1>1, Invariance, PTL

-----------------------------------------------------------------------------
\* Math.ceil(ms / 1000): whole seconds that reach a span of time, which one
\* second less does not.
LEMMA CeilReaches ==
    ASSUME NEW y \in Nat \ {0}, NEW c, c = (y + SecondMs - 1) \div SecondMs
    PROVE  /\ c \in Nat \ {0} /\ c * SecondMs \in Nat /\ (c - 1) * SecondMs \in Nat
           /\ y <= c * SecondMs /\ (c - 1) * SecondMs < y
<1>. DEFINE M == SecondMs
            z == y + M - 1
            u == z % M
<1>1. M \in Nat \ {0}
  BY ThresholdAssumption
<1>. HIDE DEF M
<1>2. z \in Nat
  BY <1>1
<1>3. c = z \div M
  BY DEF M
<1>4. z = M * c + u /\ u \in 0..(M - 1) /\ c \in Int
  <2>. DEFINE q == z \div M
  <2>1. z = M * q + u /\ u \in 0..(M - 1) /\ q \in Int
    <3>. HIDE DEF z
    <3>. QED  BY <1>1, <1>2
  <2>. QED  BY <1>3, <2>1
<1>. HIDE DEF u
<1>5. M * c \in Int /\ y <= M * c /\ M * c < y + M
  <2>1. M * c \in Int
    BY <1>1, <1>4
  <2>. DEFINE a == M * c
  <2>. HIDE DEF a
  <2>. QED  BY <1>1, <1>4, <2>1 DEF a
<1>6. c \in Nat \ {0}
  <2>1. CASE c <= 0
    <3>1. PICK d \in Nat : c = 0 - d
      BY <1>4, <2>1
    <3>2. M * d \in Nat /\ M * c = 0 - M * d
      BY <1>1, <3>1
    <3>. QED  BY <1>5, <3>2
  <2>. QED  BY <1>4, <2>1
<1>7. c * M = M * c /\ (c - 1) * M = M * c - M /\ (c - 1) * M \in Nat
  <2>1. PICK d \in Nat : c = d + 1
    BY <1>6
  <2>2. d * M \in Nat
    BY <1>1
  <2>. QED  BY <1>1, <2>1, <2>2
<1>8. c * M \in Nat /\ y <= c * M /\ (c - 1) * M < y
  BY <1>5, <1>6, <1>7, <1>1
<1>. QED  BY <1>6, <1>7, <1>8 DEF M

\* The seconds getRetryAfterSeconds promises are neither too many nor too few.
LEMMA RetryAfterRight ==
    ASSUME NEW d \in CircuitBreakerData, NEW t \in Nat,
           Coherent(d, t), ~CooldownElapsed(d, t)
    PROVE  LET r == getRetryAfterSeconds(d, t) IN
           /\ canExecute(evaluateCooldown(d, t + r * SecondMs))
           /\ r > 0 => ~canExecute(evaluateCooldown(d, t + (r - 1) * SecondMs))
  <1> USE ThresholdAssumption, CooldownSpan DEF CircuitBreakerData, CircuitBreakerState, Null
  <1>1. CASE d.state = "OPEN"
    <2> DEFINE y == d.openedAt + cooldownMs - t
               r == getRetryAfterSeconds(d, t)
               a == r * SecondMs
               b == (r - 1) * SecondMs
    <2>1. y \in Nat \ {0} /\ r = (y + SecondMs - 1) \div SecondMs
      BY <1>1 DEF getRetryAfterSeconds, Coherent, CooldownElapsed
    <2>2. d.openedAt \in Nat /\ y = d.openedAt + cooldownMs - t
      BY <1>1 DEF Coherent
    <2> HIDE DEF y, r
    <2>3. a \in Nat /\ b \in Nat /\ y <= a /\ b < y
      BY ONLY <2>1, CeilReaches
    <2> HIDE DEF a, b
    <2>4. CooldownElapsed(d, t + a) /\ ~CooldownElapsed(d, t + b)
      BY <1>1, <2>2, <2>3 DEF CooldownElapsed
    <2>5. canExecute(evaluateCooldown(d, t + a))
      BY <1>1, <2>4 DEF evaluateCooldown, canExecute
    <2>6. ~canExecute(evaluateCooldown(d, t + b))
      BY <1>1, <2>4 DEF evaluateCooldown, canExecute
    <2> QED BY <2>5, <2>6 DEF a, b, r
  <1>2. CASE d.state # "OPEN"
    <2>1. getRetryAfterSeconds(d, t) = 0
      BY <1>2 DEF getRetryAfterSeconds
    <2>2. evaluateCooldown(d, t + 0 * SecondMs) = d
      BY <1>2 DEF evaluateCooldown, CooldownElapsed
    <2> QED BY <1>2, <2>1, <2>2 DEF canExecute
  <1> QED BY <1>1, <1>2

\* A client told to come back after r seconds finds the key usable then, and
\* would not have found it usable a second earlier, whatever the millisecond
\* it asked at.
THEOREM RetryAfterSound == Spec => []RetryAfterExact
  <1>1. IndInv => RetryAfterExact
    <2> SUFFICES ASSUME IndInv, NEW k \in Keys
                 PROVE  LET r == getRetryAfterSeconds(View(k), now) IN
                        /\ canExecute(evaluateCooldown(View(k), now + r * SecondMs))
                        /\ r > 0 => ~canExecute(evaluateCooldown(View(k), now + (r - 1) * SecondMs))
      BY DEF RetryAfterExact
    <2>1. TypeOK /\ now \in Nat /\ Coherent(load(k), now)
      BY DEF IndInv, TypeOK, EveryRecordCoherent
    <2>2. /\ View(k) \in CircuitBreakerData /\ Coherent(View(k), now)
          /\ ~CooldownElapsed(View(k), now)
      BY <2>1, ViewType, Cooldown DEF View
    <2> QED BY <2>1, <2>2, RetryAfterRight
  <1> QED BY <1>1, Invariance, PTL

\* No report postpones the end of a cooldown, and nothing ends it early into
\* HALF_OPEN.
THEOREM DeadlineSafe == Spec => DeadlineKept
  <1> DEFINE Kept(k) ==
        View(k).state = "OPEN" =>
          /\ View(k)'.state = "HALF_OPEN" =>
               now' >= View(k).openedAt + cooldownMs
          /\ View(k)'.state = "OPEN" /\ pending'[k] # pending[k] =>
               View(k)'.openedAt = View(k).openedAt
  <1>1. ASSUME IndInv, Next, NEW k \in Keys PROVE Kept(k)
    <2> SUFFICES ASSUME View(k).state = "OPEN"
                 PROVE  /\ View(k)'.state = "HALF_OPEN" =>
                             now' >= View(k).openedAt + cooldownMs
                        /\ View(k)'.state = "OPEN" /\ pending'[k] # pending[k] =>
                             View(k)'.openedAt = View(k).openedAt
      OBVIOUS
    <2>0. View(k) \in CircuitBreakerData /\ now \in Nat
          /\ pending \in [Keys -> Nat]
      BY <1>1, ViewType DEF IndInv, TypeOK
    <2>1. ASSUME NEW j \in Keys, KeyStep(j) \/ Evict
          PROVE  /\ View(k)'.state # "HALF_OPEN"
                 /\ View(k)'.state = "OPEN" /\ pending'[k] # pending[k] =>
                      View(k)'.openedAt = View(k).openedAt
      <3>1. CASE Read(j) \/ Admit(j) \/ ReadSync(j) \/ DropReport(j) \/ Evict
        BY <1>1, <3>1, QuietInv
      <3>2. CASE recordSuccess(j)
        <4>1. View(k)' = IF k = j THEN applySuccess(View(k)) ELSE View(k)
          BY <1>1, <3>2, SuccessInv
        <4>2. applySuccess(View(k)).state = "CLOSED"
          BY <2>0 DEF applySuccess, Close, CircuitBreakerData
        <4> QED BY <4>1, <4>2
      <3>3. CASE recordFailure(j)
        <4>1. View(k)' = IF k = j THEN applyFailure(View(k), now) ELSE View(k)
          BY <1>1, <3>3, FailureInv
        <4>2. applyFailure(View(k), now).state = "OPEN"
              /\ applyFailure(View(k), now).openedAt = View(k).openedAt
          BY <2>0 DEF applyFailure, CircuitBreakerData
        <4> QED BY <4>1, <4>2
      <3>4. CASE trip(j)
        <4>1. View(k)' = IF k = j THEN applyTrip(View(k), now) ELSE View(k)
          BY <1>1, <3>4, TripInv
        <4>2. applyTrip(View(k), now).state = "OPEN"
          BY <2>0 DEF applyTrip, CircuitBreakerData
        <4>3. pending' = pending
          BY <3>4 DEF trip
        <4> QED BY <4>1, <4>2, <4>3
      <3>5. CASE reset(j)
        <4>1. View(k)' = IF k = j THEN applyReset(View(k)) ELSE View(k)
          BY <1>1, <3>5, ResetInv
        <4>2. applyReset(View(k)).state = "CLOSED"
          BY DEF applyReset, createDefaultCircuitBreakerData
        <4> QED BY <4>1, <4>2
      <3> QED BY <2>1, <3>1, <3>2, <3>3, <3>4, <3>5 DEF KeyStep
    <2>2. CASE Tick
      <3>1. View(k)' = evaluateCooldown(View(k), now + 1) /\ now' = now + 1
            /\ pending' = pending
        BY <1>1, <2>2, TickInv DEF Tick
      <3>2. evaluateCooldown(View(k), now + 1).state = "HALF_OPEN" =>
              now + 1 >= View(k).openedAt + cooldownMs
        BY <2>0, ThresholdAssumption, CooldownSpan
        DEF evaluateCooldown, CooldownElapsed, CircuitBreakerData, Null
      <3> QED BY <3>1, <3>2
    <2> QED BY <1>1, <2>1, <2>2 DEF Next
  <1>2. ASSUME UNCHANGED vars, NEW k \in Keys PROVE View(k)' = View(k)
    BY <1>2 DEF vars, View, load
  <1>3. IndInv /\ [Next]_vars => [\A k \in Keys : Kept(k)]_vars
    BY <1>1, <1>2
  <1> QED BY <1>3, Invariance, PTL DEF Spec, DeadlineKept

\* BreakerSpec and CircuitBreaker share the transitions of state_machine.ts.
LEMMA SameTransitions ==
    /\ Promise!createDefaultCircuitBreakerData = createDefaultCircuitBreakerData
    /\ \A d, t : /\ Promise!evaluateCooldown(d, t) = evaluateCooldown(d, t)
                 /\ Promise!applySuccess(d) = applySuccess(d)
                 /\ Promise!applyFailure(d, t) = applyFailure(d, t)
                 /\ Promise!applyTrip(d, t) = applyTrip(d, t)
                 /\ Promise!applyReset(d) = applyReset(d)
  BY Zenon
  DEF Promise!createDefaultCircuitBreakerData, createDefaultCircuitBreakerData,
      Promise!evaluateCooldown, evaluateCooldown, Promise!CooldownElapsed,
      CooldownElapsed, Promise!applySuccess, applySuccess, Promise!Close, Close,
      Promise!applyFailure, applyFailure, Promise!Reopen, Reopen,
      Promise!applyTrip, applyTrip, Promise!applyReset, applyReset,
      Promise!Null, Null, Promise!cooldownMs, cooldownMs

\* What one step does to the records that getData shows: one of BreakerSpec's
\* steps, or nothing.
LEMMA StepRefines ==
    ASSUME IndInv, [Next]_vars
    PROVE  [Promise!SpecNext]_(Promise!specVars)
  <1> DEFINE brk == [k \in Keys |-> View(k)]
  <1>1. ASSUME NEW k \in Keys, KeyStep(k)
        PROVE  [Promise!SpecNext]_(Promise!specVars)
    <2>1. CASE Read(k) \/ Admit(k) \/ ReadSync(k) \/ DropReport(k)
      <3>1. UNCHANGED <<now, streak>> /\ \A j \in Keys : View(j)' = View(j)
        BY <2>1, QuietInv DEF Read, Admit, ReadSync, DropReport
      <3> QED BY <3>1 DEF Promise!specVars
    <2>2. CASE recordSuccess(k)
      <3>1. UNCHANGED now /\ brk' = [brk EXCEPT ![k] = applySuccess(brk[k])]
        BY <2>2, SuccessInv DEF recordSuccess
      <3>2. streak' = [streak EXCEPT ![k] = 0]
        BY <2>2 DEF recordSuccess
      <3> QED BY <3>1, <3>2, SameTransitions DEF Promise!SpecNext, Promise!Succeed, Promise!Update
    <2>3. CASE recordFailure(k)
      <3>1. UNCHANGED now /\ brk' = [brk EXCEPT ![k] = applyFailure(brk[k], now)]
        BY <2>3, FailureInv DEF recordFailure
      <3>2. streak' = [streak EXCEPT ![k] = streak[k] + 1]
        BY <2>3 DEF recordFailure
      <3> QED BY <3>1, <3>2, SameTransitions DEF Promise!SpecNext, Promise!Fail, Promise!Update
    <2>4. CASE trip(k)
      <3>1. UNCHANGED now /\ brk' = [brk EXCEPT ![k] = applyTrip(brk[k], now)]
        BY <2>4, TripInv DEF trip
      <3>2. streak' = [streak EXCEPT ![k] = streak[k]]
        BY <2>4 DEF trip, IndInv, TypeOK
      <3> QED BY <3>1, <3>2, SameTransitions DEF Promise!SpecNext, Promise!TripOpen, Promise!Update
    <2>5. CASE reset(k)
      <3>1. UNCHANGED now /\ brk' = [brk EXCEPT ![k] = applyReset(brk[k])]
        BY <2>5, ResetInv DEF reset
      <3>2. streak' = [streak EXCEPT ![k] = 0]
        BY <2>5 DEF reset
      <3> QED BY <3>1, <3>2, SameTransitions DEF Promise!SpecNext, Promise!Clear, Promise!Update
    <2> QED BY <1>1, <2>1, <2>2, <2>3, <2>4, <2>5 DEF KeyStep
  <1>2. CASE Evict
    <2>1. UNCHANGED <<now, streak>> /\ \A j \in Keys : View(j)' = View(j)
      BY <1>2, QuietInv DEF Evict
    <2> QED BY <2>1 DEF Promise!specVars
  <1>3. CASE Tick
    <2>1. UNCHANGED streak
      BY <1>3 DEF Tick
    <2>2. now' = now + 1 /\ brk' = [k \in Keys |-> evaluateCooldown(brk[k], now + 1)]
      BY <1>3, TickInv
    <2> QED BY <2>1, <2>2, SameTransitions DEF Promise!SpecNext, Promise!PassTime
  <1>4. CASE UNCHANGED vars
    <2>1. UNCHANGED <<now, streak>> /\ \A j \in Keys : View(j)' = View(j)
      BY <1>4 DEF vars, View, load
    <2> QED BY <2>1 DEF Promise!specVars
  <1> QED BY <1>1, <1>2, <1>3, <1>4 DEF Next

\* The two-copy breaker of breaker.ts and storage.ts implements the single
\* record per key of BreakerSpec.
THEOREM Refinement == Spec => KeepsPromise
  <1>1. Init => Promise!SpecInit
    <2> SUFFICES ASSUME Init PROVE Promise!SpecInit
      OBVIOUS
    <2>1. /\ now = 0 /\ streak = [k \in Keys |-> 0]
          /\ \A k \in Keys : load(k) = createDefaultCircuitBreakerData
      BY DEF Init, load
    <2>2. \A k \in Keys : View(k) = createDefaultCircuitBreakerData
      BY <2>1, DefaultRecord DEF View
    <2> QED BY <2>1, <2>2, SameTransitions DEF Promise!SpecInit
  <1>2. IndInv /\ [Next]_vars => [Promise!SpecNext]_(Promise!specVars)
    BY StepRefines
  <1> QED BY <1>1, <1>2, Invariance, PTL DEF Spec, KeepsPromise, Promise!BreakerPromise

=============================================================================
