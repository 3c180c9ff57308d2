---------------------------- MODULE CascadeProofs ----------------------------
(***************************************************************************)
(* Proofs about Cascade for every set of requests, every list of candidate *)
(* models, every assignment of keys and every threshold.  What a report    *)
(* does to a breaker is bounded by the calls that failed: the invariant    *)
(* adds the reports and repeats that are still under way to those that     *)
(* have arrived, and bounds the repeats by the reports.                    *)
(***************************************************************************)
EXTENDS Cascade, SequenceTheorems, TLAPS

\* What a request may be: it is at one of its candidates, and it holds a key
\* exactly while it calls the provider.
RequestOK(q) ==
    /\ q \in [at : {"idle", "ended"} \cup Awaits, i : 1..Len(candidatesToTry),
              key : Keys \cup {NoKey}, stream : BOOLEAN, aborted : BOOLEAN]
    /\ q.key # NoKey <=> q.at \in Awaits \ {"key"}

\* Every request is in such a state.
RequestsOK ==
    /\ DOMAIN req = Requests
    /\ req = [r \in Requests |-> req[r]]
    /\ \A r \in Requests : RequestOK(req[r])

\* The object's variables and the history.
ObjectOK ==
    /\ brk \in [Keys -> CircuitBreakerData]
    /\ counted \in [Keys -> Nat]
    /\ failed \in [Keys -> Nat]
    /\ answered \in [Keys -> Nat]
    /\ reports \in [Keys -> [Kinds -> Nat]]
    /\ again \in [Keys -> [Kinds -> Nat]]
    /\ repeated \in [Keys -> [Kinds -> Nat]]
    /\ now \in Nat

\* The failures a breaker was told of since it was last closed, as far as its
\* record shows them.
Charged(d) == IF d.state = "CLOSED" THEN d.consecutiveFailures ELSE FailureThreshold

\* Those and the ones that are still to be reported come from calls that
\* failed, of which each is reported at most twice, and from repeats, of which
\* there is at most one of each report that has arrived.
FailuresBacked ==
    \A k \in Keys :
        /\ Charged(brk[k]) + reports[k]["failure"] + again[k]["failure"]
               <= 2 * failed[k] + repeated[k]["failure"]
        /\ repeated[k]["failure"] + reports[k]["failure"] <= 2 * failed[k]

\* The inductive invariant: types, and the failures behind the reports.
IndInv == RequestsOK /\ ObjectOK /\ FailuresBacked /\ UsageNotOvercounted

-----------------------------------------------------------------------------
\* At least one candidate is tried and at most MaxFallbacks more, and the keys
\* of each that is tried are keys of the model.
LEMMA CandidatesTried ==
    /\ Len(candidatesToTry) \in 1..(1 + MaxFallbacks)
    /\ \A i \in 1..Len(candidatesToTry) : KeysOf[candidatesToTry[i]] \subseteq Keys
  <1> DEFINE n == IF Len(Candidates) <= 1 + MaxFallbacks
                  THEN Len(Candidates) ELSE 1 + MaxFallbacks
  <1>1. /\ Candidates \in Seq(Providers) /\ Len(Candidates) \in Nat \ {0}
        /\ MaxFallbacks \in Nat
    BY CascadeAssumption, LenProperties, EmptySeq
  <1>2. n \in 1..(1 + MaxFallbacks) /\ n \in 1..Len(Candidates)
    BY <1>1
  <1>3. /\ candidatesToTry = SubSeq(Candidates, 1, n)
    BY DEF candidatesToTry
  <1> HIDE DEF n
  <1>4. /\ Len(candidatesToTry) = n
        /\ \A i \in 1..n : candidatesToTry[i] = Candidates[i]
    BY <1>1, <1>2, <1>3, SubSeqProperties
  <1>5. \A i \in 1..n : Candidates[i] \in Providers
    BY <1>1, <1>2, ElementOfSeq
  <1>6. \A p \in Providers : KeysOf[p] \subseteq Keys
    BY DEF Keys
  <1> QED BY <1>2, <1>4, <1>5, <1>6


-----------------------------------------------------------------------------
(* Steps of a request.                                                     *)

\* The step leaves requests that were aborted at their candidate.
AbortedStay == \A r \in Requests : req[r].aborted => req'[r].i = req[r].i

\* A step that changes one request to a proper one.
LEMMA RequestMoves ==
    ASSUME RequestsOK, NEW r \in Requests, NEW q, RequestOK(q),
           req' = [req EXCEPT ![r] = q], req[r].aborted => q.i = req[r].i
    PROVE  RequestsOK' /\ AbortedStay
  <1>1. DOMAIN req' = Requests /\ req' = [s \in Requests |-> req'[s]]
    BY DEF RequestsOK
  <1>2. \A s \in Requests : req'[s] = IF s = r THEN q ELSE req[s]
    BY DEF RequestsOK
  <1>3. \A s \in Requests : RequestOK(req'[s])
    BY <1>2 DEF RequestsOK
  <1>4. RequestsOK' <=> /\ DOMAIN req' = Requests
                        /\ req' = [s \in Requests |-> req'[s]]
                        /\ \A s \in Requests : RequestOK(req'[s])
    BY DEF RequestsOK, RequestOK, candidatesToTry
  <1> QED BY <1>1, <1>2, <1>3, <1>4 DEF AbortedStay

\* A request that ends gives its key back, and stays where it is if aborted.
LEMMA EndOK ==
    ASSUME RequestsOK, NEW r \in Requests, End(r)
    PROVE  RequestsOK' /\ AbortedStay
  <1> DEFINE q == [req[r] EXCEPT !.at = "ended", !.key = NoKey]
  <1>1. req' = [req EXCEPT ![r] = q]
    BY DEF End, RequestsOK
  <1>2. RequestOK(q) /\ q.i = req[r].i
    BY DEF RequestsOK, RequestOK, Awaits
  <1> HIDE DEF q
  <1> QED BY <1>1, <1>2, RequestMoves

\* To the next candidate, if there is one and the client is there.
LEMMA EscalateOK ==
    ASSUME RequestsOK, NEW r \in Requests, Escalate(r)
    PROVE  RequestsOK' /\ AbortedStay
  <1>1. CASE req[r].i = Len(candidatesToTry) \/ req[r].aborted
    BY <1>1, EndOK DEF Escalate
  <1>2. CASE ~(req[r].i = Len(candidatesToTry) \/ req[r].aborted)
    <2> DEFINE q == [req[r] EXCEPT !.at = "key", !.i = @ + 1, !.key = NoKey]
    <2>1. req' = [req EXCEPT ![r] = q]
      BY <1>2 DEF Escalate, RequestsOK
    <2>2. req[r].i + 1 \in 1..Len(candidatesToTry)
      BY <1>2, CandidatesTried DEF RequestsOK, RequestOK
    <2>3. RequestOK(q)
      BY <2>2 DEF RequestsOK, RequestOK, Awaits
    <2> HIDE DEF q
    <2> QED BY <1>2, <2>1, <2>3, RequestMoves
  <1> QED BY <1>1, <1>2

\* A request that waits on for another part of the same answer.
LEMMA WaitsOn ==
    ASSUME RequestsOK, NEW r \in Requests, req[r].at \in Awaits \ {"key"},
           NEW at \in Awaits \ {"key"}, req' = [req EXCEPT ![r].at = at]
    PROVE  RequestsOK' /\ AbortedStay
  <1> DEFINE q == [req[r] EXCEPT !.at = at]
  <1>1. req' = [req EXCEPT ![r] = q]
    BY DEF RequestsOK
  <1>2. RequestOK(q) /\ q.i = req[r].i
    BY DEF RequestsOK, RequestOK, Awaits
  <1> HIDE DEF q
  <1> QED BY <1>1, <1>2, RequestMoves

\* While it calls the provider, a request has a key.
LEMMA KeyHeld ==
    ASSUME RequestsOK, NEW r \in Requests, req[r].at \in Awaits \ {"key"}
    PROVE  req[r].key \in Keys
  BY DEF RequestsOK, RequestOK

-----------------------------------------------------------------------------
(* Steps that concern the object.                                          *)

\* Sending reports of some kinds adds one of each of them to a key's.
LEMMA SentReports ==
    ASSUME ObjectOK, NEW k \in Keys, NEW kinds \in SUBSET Kinds
    PROVE  /\ Sent(k, kinds) \in [Keys -> [Kinds -> Nat]]
           /\ \A j \in Keys, d \in Kinds :
                 Sent(k, kinds)[j][d] = reports[j][d] + (IF j = k /\ d \in kinds THEN 1 ELSE 0)
  BY DEF ObjectOK, Sent

\* A step of a request that calls nothing and reports nothing.
LEMMA Unreported ==
    ASSUME IndInv, RequestsOK', UNCHANGED <<objectVars, reports, now, failed, answered>>
    PROVE  IndInv'
  BY DEF IndInv, ObjectOK, FailuresBacked, UsageNotOvercounted, objectVars

\* Successes that are reported concern no count of failures.
LEMMA SuccessReported ==
    ASSUME IndInv, RequestsOK', NEW k \in Keys, reports' = Sent(k, {"success"}),
           UNCHANGED <<objectVars, now, failed, answered>>
    PROVE  IndInv'
  <1>1. ObjectOK
    BY DEF IndInv
  <1>2. /\ reports' \in [Keys -> [Kinds -> Nat]]
        /\ \A j \in Keys : /\ reports'[j]["failure"] = reports[j]["failure"]
                           /\ reports'[j]["usage"] = reports[j]["usage"]
    <2>1. /\ Sent(k, {"success"}) \in [Keys -> [Kinds -> Nat]]
          /\ \A j \in Keys, d \in Kinds : Sent(k, {"success"})[j][d] =
                 reports[j][d] + (IF j = k /\ d \in {"success"} THEN 1 ELSE 0)
      BY <1>1, SentReports DEF Kinds
    <2> QED BY <1>1, <2>1 DEF ObjectOK, Kinds
  <1>3. ObjectOK'
    BY <1>1, <1>2 DEF ObjectOK, objectVars
  <1> QED BY <1>2, <1>3 DEF IndInv, FailuresBacked, UsageNotOvercounted, objectVars

\* An answered call counts before its use is reported, once or not at all.
LEMMA CallAnswered ==
    ASSUME IndInv, RequestsOK', NEW r \in Requests, req[r].key \in Keys,
           NEW kinds \in SUBSET {"success", "usage"}, Answered(r, kinds)
    PROVE  IndInv'
  <1> DEFINE k == req[r].key
  <1>1. ObjectOK
    BY DEF IndInv
  <1>2. kinds \in SUBSET Kinds
    BY DEF Kinds
  <1>3. /\ reports' \in [Keys -> [Kinds -> Nat]]
        /\ \A j \in Keys : /\ reports'[j]["failure"] = reports[j]["failure"]
                           /\ reports'[j]["usage"] =
                                reports[j]["usage"] + (IF j = k /\ "usage" \in kinds THEN 1 ELSE 0)
    BY <1>1, <1>2, SentReports DEF Kinds, ObjectOK, Answered
  <1>4. /\ answered' \in [Keys -> Nat]
        /\ \A j \in Keys : answered'[j] = answered[j] + (IF j = k THEN 1 ELSE 0)
    BY <1>1 DEF ObjectOK, Answered, Count
  <1>5. UNCHANGED <<objectVars, now, failed>>
    BY DEF Answered
  <1>6. ObjectOK'
    BY <1>1, <1>3, <1>4, <1>5 DEF ObjectOK, objectVars
  <1>7. FailuresBacked'
    BY <1>3, <1>5 DEF IndInv, FailuresBacked, objectVars
  <1>8. UsageNotOvercounted'
    BY <1>1, <1>3, <1>4, <1>5 DEF IndInv, UsageNotOvercounted, objectVars, ObjectOK, Kinds
  <1> QED BY <1>6, <1>7, <1>8 DEF IndInv

\* A failed call is reported by the client, by the cascade, by both or by none.
LEMMA CallFails ==
    ASSUME IndInv, NEW r \in Requests, req[r].at \in Awaits \ {"key"},
           NEW clientReports \in SUBSET {"failure"}, CatchFailure(r, clientReports)
    PROVE  IndInv' /\ AbortedStay
  <1> DEFINE k == req[r].key
  <1>1. ObjectOK /\ RequestsOK /\ k \in Keys
    BY KeyHeld DEF IndInv
  <1>2. clientReports \in SUBSET Kinds
    BY DEF Kinds
  <1>3. RequestsOK' /\ AbortedStay
    BY <1>1, EndOK, EscalateOK DEF CatchFailure
  <1>4. /\ reports' \in [Keys -> [Kinds -> Nat]]
        /\ \A j \in Keys : /\ reports'[j]["failure"] <=
                                reports[j]["failure"] + (IF j = k THEN 2 ELSE 0)
                           /\ reports'[j]["usage"] = reports[j]["usage"]
    <2>0. /\ Sent(k, clientReports) \in [Keys -> [Kinds -> Nat]]
          /\ \A j \in Keys, d \in Kinds : Sent(k, clientReports)[j][d] =
                 reports[j][d] + (IF j = k /\ d \in clientReports THEN 1 ELSE 0)
      BY <1>1, <1>2, SentReports
    <2>1. /\ Sent(k, clientReports) \in [Keys -> [Kinds -> Nat]]
          /\ \A j \in Keys : /\ Sent(k, clientReports)[j]["failure"] <=
                                  reports[j]["failure"] + (IF j = k THEN 1 ELSE 0)
                             /\ Sent(k, clientReports)[j]["usage"] = reports[j]["usage"]
      <3>1. "usage" \notin clientReports
        OBVIOUS
      <3>2. \A j \in Keys : reports[j]["failure"] \in Nat /\ reports[j]["usage"] \in Nat
        BY <1>1 DEF ObjectOK, Kinds
      <3> QED BY <2>0, <3>1, <3>2 DEF Kinds
    <2>2. \/ reports' = Sent(k, clientReports)
          \/ reports' = [Sent(k, clientReports) EXCEPT ![k]["failure"] = @ + 1]
      BY DEF CatchFailure
    <2>3. \A j \in Keys : Sent(k, clientReports)[j]["failure"] \in Nat /\ reports[j]["failure"] \in Nat
      BY <1>1, <2>1 DEF Kinds, ObjectOK
    <2> HIDE DEF k
    <2> QED BY <1>1, <2>1, <2>2, <2>3 DEF Kinds
  <1>5. /\ failed' \in [Keys -> Nat]
        /\ \A j \in Keys : failed'[j] = failed[j] + (IF j = k THEN 1 ELSE 0)
    BY <1>1 DEF ObjectOK, CatchFailure, Count
  <1>6. UNCHANGED <<objectVars, now, answered>>
    BY DEF CatchFailure
  <1>7. ObjectOK'
    BY <1>1, <1>4, <1>5, <1>6 DEF ObjectOK, objectVars
  <1>8. \A j \in Keys : /\ Charged(brk[j]) \in Nat /\ reports[j]["failure"] \in Nat
                        /\ reports'[j]["failure"] \in Nat /\ failed[j] \in Nat
                        /\ again[j]["failure"] \in Nat /\ repeated[j]["failure"] \in Nat
    BY <1>1, <1>4, ThresholdAssumption DEF ObjectOK, Charged, CircuitBreakerData, Kinds
  <1>9. FailuresBacked'
    BY <1>4, <1>5, <1>6, <1>8 DEF IndInv, FailuresBacked, objectVars
  <1>10. UsageNotOvercounted'
    BY <1>4, <1>6 DEF IndInv, UsageNotOvercounted, objectVars
  <1> QED BY <1>3, <1>7, <1>9, <1>10 DEF IndInv

\* What the transitions do to a record: success takes away what was charged,
\* failure adds one, and the end of a cooldown changes nothing of it.
LEMMA Charges ==
    ASSUME NEW d \in CircuitBreakerData, NEW t \in Nat
    PROVE  /\ Charged(d) \in Nat
           /\ evaluateCooldown(d, t) \in CircuitBreakerData
           /\ Charged(evaluateCooldown(d, t)) = Charged(d)
           /\ applySuccess(d) \in CircuitBreakerData
           /\ Charged(applySuccess(d)) <= Charged(d)
           /\ applyFailure(d, t) \in CircuitBreakerData
           /\ Charged(applyFailure(d, t)) <= Charged(d) + 1
  <1> USE ThresholdAssumption DEF CircuitBreakerData, CircuitBreakerState, Null, Charged
  <1>1. Charged(d) \in Nat
    OBVIOUS
  <1>2. /\ evaluateCooldown(d, t) \in CircuitBreakerData
        /\ Charged(evaluateCooldown(d, t)) = Charged(d)
    BY DEF evaluateCooldown, CooldownElapsed
  <1>3. Close(d) \in CircuitBreakerData /\ Charged(Close(d)) = 0
    BY DEF Close
  <1>4. d.consecutiveFailures + 1 \in Nat /\ d.consecutiveSuccesses + 1 \in Nat
    OBVIOUS
  <1>5. Reopen(d, t) \in CircuitBreakerData /\ Charged(Reopen(d, t)) = FailureThreshold
    BY <1>4 DEF Reopen
  <1>6. applySuccess(d) \in CircuitBreakerData /\ Charged(applySuccess(d)) <= Charged(d)
    BY <1>1, <1>3, <1>4 DEF applySuccess
  <1>7. applyFailure(d, t) \in CircuitBreakerData /\ Charged(applyFailure(d, t)) <= Charged(d) + 1
    BY <1>1, <1>4, <1>5 DEF applyFailure
  <1> QED BY <1>1, <1>2, <1>6, <1>7

\* What is still to arrive of a kind on a key, beyond what was repeated of it.
Due(j, d) == reports[j][d] + again[j][d] - repeated[j][d]

\* A report arrives or is lost, and may be repeated: one less is due, and the
\* repeats grow only as the reports become fewer.
LEMMA Taken ==
    ASSUME ObjectOK, NEW k \in Keys, NEW kind \in Kinds,
           Take(k, kind) \/ TakeAndRepeat(k, kind) \/ TakeRepeat(k, kind)
    PROVE  /\ reports' \in [Keys -> [Kinds -> Nat]]
           /\ again' \in [Keys -> [Kinds -> Nat]]
           /\ repeated' \in [Keys -> [Kinds -> Nat]]
           /\ \A j \in Keys, d \in Kinds :
                 /\ Due(j, d)' = Due(j, d) - (IF j = k /\ d = kind THEN 1 ELSE 0)
                 /\ repeated'[j][d] + reports'[j][d] <= repeated[j][d] + reports[j][d]
  <1>1. \A j \in Keys, d \in Kinds :
            reports[j][d] \in Nat /\ again[j][d] \in Nat /\ repeated[j][d] \in Nat
    BY DEF ObjectOK
  <1>2. ASSUME NEW f \in [Keys -> [Kinds -> Nat]], NEW n \in Nat
        PROVE  /\ [f EXCEPT ![k][kind] = n] \in [Keys -> [Kinds -> Nat]]
               /\ \A j \in Keys, d \in Kinds : [f EXCEPT ![k][kind] = n][j][d] =
                     IF j = k /\ d = kind THEN n ELSE f[j][d]
    OBVIOUS
  <1>3. /\ reports \in [Keys -> [Kinds -> Nat]] /\ again \in [Keys -> [Kinds -> Nat]]
        /\ repeated \in [Keys -> [Kinds -> Nat]]
    BY DEF ObjectOK
  <1>4. CASE Take(k, kind)
    <2>1. /\ reports' = [reports EXCEPT ![k][kind] = reports[k][kind] - 1]
          /\ reports[k][kind] - 1 \in Nat /\ again' = again /\ repeated' = repeated
      BY <1>1, <1>4 DEF Take
    <2>2. /\ reports' \in [Keys -> [Kinds -> Nat]]
          /\ \A j \in Keys, d \in Kinds : reports'[j][d] =
                IF j = k /\ d = kind THEN reports[k][kind] - 1 ELSE reports[j][d]
      BY <1>2, <1>3, <2>1
    <2> QED BY <1>1, <1>3, <2>1, <2>2 DEF Due
  <1>5. CASE TakeAndRepeat(k, kind)
    <2>1. /\ reports' = [reports EXCEPT ![k][kind] = reports[k][kind] - 1]
          /\ again' = [again EXCEPT ![k][kind] = again[k][kind] + 1]
          /\ repeated' = [repeated EXCEPT ![k][kind] = repeated[k][kind] + 1]
          /\ reports[k][kind] - 1 \in Nat /\ again[k][kind] + 1 \in Nat
          /\ repeated[k][kind] + 1 \in Nat
      BY <1>1, <1>5 DEF TakeAndRepeat
    <2>2. /\ reports' \in [Keys -> [Kinds -> Nat]]
          /\ \A j \in Keys, d \in Kinds : reports'[j][d] =
                IF j = k /\ d = kind THEN reports[k][kind] - 1 ELSE reports[j][d]
      BY <1>2, <1>3, <2>1
    <2>3. /\ again' \in [Keys -> [Kinds -> Nat]]
          /\ \A j \in Keys, d \in Kinds : again'[j][d] =
                IF j = k /\ d = kind THEN again[k][kind] + 1 ELSE again[j][d]
      BY <1>2, <1>3, <2>1
    <2>4. /\ repeated' \in [Keys -> [Kinds -> Nat]]
          /\ \A j \in Keys, d \in Kinds : repeated'[j][d] =
                IF j = k /\ d = kind THEN repeated[k][kind] + 1 ELSE repeated[j][d]
      BY <1>2, <1>3, <2>1
    <2>5. \A j \in Keys, d \in Kinds :
              /\ reports'[j][d] = reports[j][d] - (IF j = k /\ d = kind THEN 1 ELSE 0)
              /\ again'[j][d] = again[j][d] + (IF j = k /\ d = kind THEN 1 ELSE 0)
              /\ repeated'[j][d] = repeated[j][d] + (IF j = k /\ d = kind THEN 1 ELSE 0)
      BY <1>1, <2>2, <2>3, <2>4
    <2>6. ASSUME NEW j \in Keys, NEW d \in Kinds
          PROVE  /\ Due(j, d)' = Due(j, d) - (IF j = k /\ d = kind THEN 1 ELSE 0)
                 /\ repeated'[j][d] + reports'[j][d] <= repeated[j][d] + reports[j][d]
      <3> DEFINE one == IF j = k /\ d = kind THEN 1 ELSE 0
      <3>1. /\ reports'[j][d] = reports[j][d] - one /\ again'[j][d] = again[j][d] + one
            /\ repeated'[j][d] = repeated[j][d] + one /\ one \in Nat
        BY <2>5
      <3>2. reports[j][d] \in Nat /\ again[j][d] \in Nat /\ repeated[j][d] \in Nat
        BY <1>1
      <3> HIDE DEF one
      <3>3. /\ Due(j, d)' = Due(j, d) - one
            /\ repeated'[j][d] + reports'[j][d] <= repeated[j][d] + reports[j][d]
        BY <3>1, <3>2 DEF Due
      <3> QED BY <3>3 DEF one
    <2> QED BY <2>2, <2>3, <2>4, <2>6
  <1>6. CASE TakeRepeat(k, kind)
    <2>1. /\ again' = [again EXCEPT ![k][kind] = again[k][kind] - 1]
          /\ again[k][kind] - 1 \in Nat /\ reports' = reports /\ repeated' = repeated
      BY <1>1, <1>6 DEF TakeRepeat
    <2>2. /\ again' \in [Keys -> [Kinds -> Nat]]
          /\ \A j \in Keys, d \in Kinds : again'[j][d] =
                IF j = k /\ d = kind THEN again[k][kind] - 1 ELSE again[j][d]
      BY <1>2, <1>3, <2>1
    <2> QED BY <1>1, <1>3, <2>1, <2>2 DEF Due
  <1> QED BY <1>4, <1>5, <1>6

\* The object is told of a success or a failure, or of a use, or of nothing.
LEMMA ObjectStepOK ==
    ASSUME IndInv, NEW k \in Keys, ObjectStep(k)
    PROVE  IndInv' /\ UNCHANGED req
  <1>0. ObjectOK /\ now \in Nat /\ brk[k] \in CircuitBreakerData
    BY DEF IndInv, ObjectOK
  <1>1. /\ View(k) \in CircuitBreakerData
        /\ Charged(View(k)) = Charged(brk[k])
        /\ Charged(brk[k]) \in Nat
    BY <1>0, Charges DEF View
  <1>2. PICK kind \in Kinds :
            /\ Take(k, kind) \/ TakeAndRepeat(k, kind) \/ TakeRepeat(k, kind)
            /\ UNCHANGED <<req, now, failed, answered>>
            /\ \/ kind = "success" /\ RecordSuccess(k)
               \/ kind = "failure" /\ RecordFailure(k)
               \/ kind = "usage" /\ RecordUsage(k)
               \/ LoseReport(k, kind)
    BY DEF ObjectStep, RecordSuccess, RecordFailure, RecordUsage, LoseReport, Arrives, Kinds
  <1>3. /\ reports' \in [Keys -> [Kinds -> Nat]]
        /\ again' \in [Keys -> [Kinds -> Nat]]
        /\ repeated' \in [Keys -> [Kinds -> Nat]]
        /\ \A j \in Keys, d \in Kinds :
              /\ Due(j, d)' = Due(j, d) - (IF j = k /\ d = kind THEN 1 ELSE 0)
              /\ repeated'[j][d] + reports'[j][d] <= repeated[j][d] + reports[j][d]
        /\ UNCHANGED <<req, now, failed, answered>>
    BY <1>0, <1>2, Taken
  <1>4. RequestsOK'
    BY <1>3 DEF IndInv, RequestsOK, RequestOK, candidatesToTry
  <1>5. /\ brk' \in [Keys -> CircuitBreakerData]
        /\ \A j \in Keys : Charged(brk'[j]) <=
               Charged(brk[j]) + (IF j = k /\ kind = "failure" THEN 1 ELSE 0)
    <2>0. \A j \in Keys : brk[j] \in CircuitBreakerData /\ Charged(brk[j]) \in Nat
      BY <1>0, Charges DEF ObjectOK
    <2>1. CASE kind = "success" /\ RecordSuccess(k)
      <3>1. brk' = [brk EXCEPT ![k] = applySuccess(View(k))]
        BY <2>1 DEF RecordSuccess
      <3>2. /\ applySuccess(View(k)) \in CircuitBreakerData
            /\ Charged(applySuccess(View(k))) <= Charged(brk[k])
        BY <1>0, <1>1, Charges
      <3> QED BY <1>0, <2>0, <2>1, <3>1, <3>2 DEF ObjectOK
    <2>2. CASE kind = "failure" /\ RecordFailure(k)
      <3>1. brk' = [brk EXCEPT ![k] = applyFailure(View(k), now)]
        BY <2>2 DEF RecordFailure
      <3>2. /\ applyFailure(View(k), now) \in CircuitBreakerData
            /\ Charged(applyFailure(View(k), now)) <= Charged(brk[k]) + 1
        BY <1>0, <1>1, Charges
      <3> QED BY <1>0, <2>0, <2>2, <3>1, <3>2 DEF ObjectOK
    <2>3. CASE (kind = "usage" /\ RecordUsage(k)) \/ LoseReport(k, kind)
      <3>1. brk' = brk
        BY <2>3 DEF RecordUsage, LoseReport, objectVars
      <3> QED BY <1>0, <2>0, <3>1 DEF ObjectOK
    <2> QED BY <1>2, <2>1, <2>2, <2>3
  <1>6. /\ counted' \in [Keys -> Nat]
        /\ \A j \in Keys : counted'[j] <= counted[j] + (IF j = k /\ kind = "usage" THEN 1 ELSE 0)
    <2>0. counted \in [Keys -> Nat] /\ \A j \in Keys : counted[j] \in Nat
      BY <1>0 DEF ObjectOK
    <2>1. CASE kind = "usage" /\ RecordUsage(k)
      <3>1. counted' = [counted EXCEPT ![k] = @ + 1]
        BY <2>1 DEF RecordUsage
      <3> QED BY <2>0, <2>1, <3>1
    <2>2. CASE \/ RecordSuccess(k) \/ RecordFailure(k) \/ LoseReport(k, kind)
      <3>1. counted' = counted
        BY <2>2 DEF RecordSuccess, RecordFailure, LoseReport, objectVars
      <3> QED BY <2>0, <3>1
    <2> QED BY <1>2, <2>1, <2>2
  <1>7. ObjectOK'
    BY <1>0, <1>3, <1>5, <1>6 DEF ObjectOK
  <1>8. \A j \in Keys : /\ Charged(brk[j]) \in Nat /\ Charged(brk'[j]) \in Nat
                        /\ reports[j]["failure"] \in Nat /\ reports[j]["usage"] \in Nat
                        /\ failed[j] \in Nat /\ answered[j] \in Nat
                        /\ counted[j] \in Nat /\ counted'[j] \in Nat
                        /\ again[j]["failure"] \in Nat /\ again[j]["usage"] \in Nat
                        /\ repeated[j]["failure"] \in Nat /\ repeated[j]["usage"] \in Nat
    <2>1. \A j \in Keys : brk[j] \in CircuitBreakerData /\ brk'[j] \in CircuitBreakerData
      BY <1>0, <1>5 DEF ObjectOK
    <2>2. \A j \in Keys : Charged(brk[j]) \in Nat /\ Charged(brk'[j]) \in Nat
      BY <1>0, <2>1, Charges
    <2>3. \A j \in Keys, d \in {"failure", "usage"} :
              reports[j][d] \in Nat /\ again[j][d] \in Nat /\ repeated[j][d] \in Nat
      BY <1>0 DEF ObjectOK, Kinds
    <2>4. \A j \in Keys : /\ failed[j] \in Nat /\ answered[j] \in Nat
                          /\ counted[j] \in Nat /\ counted'[j] \in Nat
      BY <1>0, <1>6 DEF ObjectOK
    <2> QED BY <2>2, <2>3, <2>4
  <1>9. FailuresBacked'
    <2>1. \A j \in Keys :
            /\ Due(j, "failure")' =
                 Due(j, "failure") - (IF j = k /\ kind = "failure" THEN 1 ELSE 0)
            /\ repeated'[j]["failure"] + reports'[j]["failure"]
                 <= repeated[j]["failure"] + reports[j]["failure"]
      BY <1>3 DEF Kinds
    <2>2. \A j \in Keys : /\ reports'[j]["failure"] \in Nat /\ again'[j]["failure"] \in Nat
                          /\ repeated'[j]["failure"] \in Nat
      BY <1>3 DEF Kinds
    <2>3. ASSUME NEW j \in Keys
          PROVE  /\ Charged(brk'[j]) + reports'[j]["failure"] + again'[j]["failure"]
                      <= 2 * failed[j] + repeated'[j]["failure"]
                 /\ repeated'[j]["failure"] + reports'[j]["failure"] <= 2 * failed[j]
      <3>1. /\ Charged(brk[j]) + reports[j]["failure"] + again[j]["failure"]
                 <= 2 * failed[j] + repeated[j]["failure"]
            /\ repeated[j]["failure"] + reports[j]["failure"] <= 2 * failed[j]
        BY DEF IndInv, FailuresBacked
      <3>2. Charged(brk'[j]) <= Charged(brk[j]) + (IF j = k /\ kind = "failure" THEN 1 ELSE 0)
        BY <1>5
      <3>3. reports'[j]["failure"] + again'[j]["failure"] - repeated'[j]["failure"] =
              reports[j]["failure"] + again[j]["failure"] - repeated[j]["failure"]
                - (IF j = k /\ kind = "failure" THEN 1 ELSE 0)
        BY <1>8, <2>1, <2>2 DEF Due
      <3> QED BY <1>8, <2>1, <2>2, <3>1, <3>2, <3>3
    <2> QED BY <1>3, <2>3 DEF FailuresBacked
  <1>10. UsageNotOvercounted'
    <2>1. \A j \in Keys :
            /\ Due(j, "usage")' = Due(j, "usage") - (IF j = k /\ kind = "usage" THEN 1 ELSE 0)
            /\ repeated'[j]["usage"] + reports'[j]["usage"]
                 <= repeated[j]["usage"] + reports[j]["usage"]
      BY <1>3 DEF Kinds
    <2>2. \A j \in Keys : /\ reports'[j]["usage"] \in Nat /\ again'[j]["usage"] \in Nat
                          /\ repeated'[j]["usage"] \in Nat
      BY <1>3 DEF Kinds
    <2>3. ASSUME NEW j \in Keys
          PROVE  /\ counted'[j] + reports'[j]["usage"] + again'[j]["usage"]
                      <= answered[j] + repeated'[j]["usage"]
                 /\ repeated'[j]["usage"] + reports'[j]["usage"] <= answered[j]
      <3>1. /\ counted[j] + reports[j]["usage"] + again[j]["usage"]
                 <= answered[j] + repeated[j]["usage"]
            /\ repeated[j]["usage"] + reports[j]["usage"] <= answered[j]
        BY DEF IndInv, UsageNotOvercounted
      <3>2. reports'[j]["usage"] + again'[j]["usage"] - repeated'[j]["usage"] =
              reports[j]["usage"] + again[j]["usage"] - repeated[j]["usage"]
                - (IF j = k /\ kind = "usage" THEN 1 ELSE 0)
        BY <1>8, <2>1, <2>2 DEF Due
      <3> QED BY <1>6, <1>8, <2>1, <2>2, <3>1, <3>2
    <2> QED BY <1>3, <2>3 DEF UsageNotOvercounted
  <1> QED BY <1>3, <1>4, <1>7, <1>9, <1>10 DEF IndInv

-----------------------------------------------------------------------------
(* The invariant and what follows of it.                                   *)

\* The system starts with idle requests, closed breakers and nothing reported.
LEMMA InitIndInv == Init => IndInv
  <1> SUFFICES ASSUME Init PROVE IndInv
    OBVIOUS
  <1> USE ThresholdAssumption, CascadeAssumption
  <1>1. RequestsOK
    <2>1. 1 \in 1..Len(candidatesToTry)
      BY CandidatesTried
    <2>2. \A r \in Requests : RequestOK(req[r])
      BY <2>1 DEF Init, RequestOK, Awaits
    <2> QED BY <2>2 DEF Init, RequestsOK
  <1>2. createDefaultCircuitBreakerData \in CircuitBreakerData
        /\ Charged(createDefaultCircuitBreakerData) = 0
    BY DEF createDefaultCircuitBreakerData, CircuitBreakerData, CircuitBreakerState, Null, Charged
  <1>3. ObjectOK
    BY <1>2 DEF Init, ObjectOK
  <1>4. FailuresBacked
    BY <1>2 DEF Init, FailuresBacked, Kinds
  <1>5. UsageNotOvercounted
    BY DEF Init, UsageNotOvercounted, Kinds
  <1> QED BY <1>1, <1>3, <1>4, <1>5 DEF IndInv

\* A request that is given a key holds one of the keys of its candidate, and
\* the object's triage only ends the cooldowns that are over.
LEMMA GetKeyOK ==
    ASSUME IndInv, NEW r \in Requests, GetKey(r)
    PROVE  IndInv' /\ AbortedStay
  <1> DEFINE keys == KeysOf[candidatesToTry[req[r].i]]
  <1>1. RequestsOK /\ ObjectOK /\ req[r].at = "key" /\ req[r].i \in 1..Len(candidatesToTry)
    BY DEF IndInv, GetKey, RequestsOK, RequestOK
  <1>2. keys \subseteq Keys
    BY <1>1, CandidatesTried
  <1>3. PICK k \in keys : req' = [req EXCEPT ![r].at = "headers", ![r].key = k]
    BY DEF GetKey
  <1>4. RequestsOK' /\ AbortedStay
    <2> DEFINE q == [req[r] EXCEPT !.at = "headers", !.key = k]
    <2>1. req' = [req EXCEPT ![r] = q]
      BY <1>1, <1>3 DEF RequestsOK
    <2>2. k \in Keys /\ k # NoKey
      BY <1>2, CascadeAssumption
    <2>3. RequestOK(q) /\ q.i = req[r].i
      BY <1>1, <2>2 DEF RequestsOK, RequestOK, Awaits
    <2> HIDE DEF q
    <2> QED BY <1>1, <2>1, <2>3, RequestMoves
  <1>5. /\ brk' = [j \in Keys |-> IF j \in keys THEN View(j) ELSE brk[j]]
        /\ UNCHANGED <<reports, again, counted, now, failed, answered, repeated>>
    BY DEF GetKey
  <1>6. /\ brk' \in [Keys -> CircuitBreakerData]
        /\ \A j \in Keys : Charged(brk'[j]) = Charged(brk[j])
    <2>1. \A j \in Keys : /\ brk[j] \in CircuitBreakerData
                          /\ View(j) \in CircuitBreakerData
                          /\ Charged(View(j)) = Charged(brk[j])
      BY <1>1, Charges DEF ObjectOK, View
    <2> HIDE DEF keys
    <2> QED BY <1>5, <2>1
  <1>7. ObjectOK'
    BY <1>1, <1>5, <1>6 DEF ObjectOK
  <1>8. FailuresBacked'
    BY <1>5, <1>6 DEF IndInv, FailuresBacked
  <1>9. UsageNotOvercounted'
    BY <1>5 DEF IndInv, UsageNotOvercounted
  <1> QED BY <1>4, <1>7, <1>8, <1>9 DEF IndInv

\* Every step of a request keeps the invariant, and none takes a request that
\* was aborted to another candidate.
LEMMA RequestStepOK ==
    ASSUME IndInv, NEW r \in Requests, RequestStep(r)
    PROVE  IndInv' /\ AbortedStay
  <1>0. RequestsOK /\ RequestOK(req[r])
    BY DEF IndInv, RequestsOK
  <1>1. ASSUME NEW stream \in BOOLEAN, Route(r, stream)
        PROVE  IndInv' /\ AbortedStay
    <2> DEFINE q == [req[r] EXCEPT !.at = "key", !.stream = stream]
    <2>1. req' = [req EXCEPT ![r] = q]
      BY <1>0, <1>1 DEF Route, RequestsOK
    <2>2. RequestOK(q) /\ q.i = req[r].i
      BY <1>0, <1>1 DEF Route, RequestOK, Awaits
    <2> HIDE DEF q
    <2>3. RequestsOK' /\ AbortedStay
      BY <1>0, <2>1, <2>2, RequestMoves
    <2> QED BY <1>1, <2>3, Unreported DEF Route
  <1>2. CASE Abort(r)
    <2> DEFINE q == [req[r] EXCEPT !.aborted = TRUE]
    <2>1. req' = [req EXCEPT ![r] = q]
      BY <1>0, <1>2 DEF Abort, RequestsOK
    <2>2. RequestOK(q) /\ q.i = req[r].i
      BY <1>0 DEF RequestOK
    <2> HIDE DEF q
    <2>3. RequestsOK' /\ AbortedStay
      BY <1>0, <2>1, <2>2, RequestMoves
    <2> QED BY <1>2, <2>3, Unreported DEF Abort
  <1>3. CASE GetKey(r)
    BY <1>3, GetKeyOK
  <1>4. CASE GetKeyFails(r)
    BY <1>0, <1>4, EscalateOK, Unreported DEF GetKeyFails
  <1>5. CASE FetchFails(r)
    BY <1>5, CallFails DEF FetchFails, Awaits
  <1>6. CASE SendThrows(r)
    BY <1>6, CallFails DEF SendThrows, Awaits
  <1>7. CASE ErrorHeaders(r)
    <2>1. RequestsOK' /\ AbortedStay
      BY <1>0, <1>7, WaitsOn DEF ErrorHeaders, Awaits
    <2> QED BY <1>7, <2>1, Unreported DEF ErrorHeaders
  <1>8. CASE ErrorBody(r)
    BY <1>8, CallFails DEF ErrorBody, Awaits
  <1>9. CASE GoodHeaders(r)
    <2>1. RequestsOK' /\ AbortedStay
      BY <1>0, <1>9, WaitsOn DEF GoodHeaders, Awaits
    <2>2. req[r].key \in Keys
      BY <1>0, <1>9, KeyHeld DEF GoodHeaders, Awaits
    <2> QED BY <1>9, <2>1, <2>2, SuccessReported DEF GoodHeaders
  <1>10. CASE BodyBroken(r)
    BY <1>10, CallFails DEF BodyBroken, Awaits
  <1>11. ASSUME NEW priced \in BOOLEAN, BodyRead(r, priced)
         PROVE  IndInv' /\ AbortedStay
    <2>1. RequestsOK' /\ AbortedStay
      BY <1>0, <1>11, EndOK DEF BodyRead
    <2>2. req[r].key \in Keys
      BY <1>0, <1>11, KeyHeld DEF BodyRead, Awaits
    <2> QED BY <1>11, <2>1, <2>2, CallAnswered DEF BodyRead
  <1>12. CASE StreamHeaders(r)
    <2>1. RequestsOK' /\ AbortedStay
      BY <1>0, <1>12, WaitsOn DEF StreamHeaders, Awaits
    <2>2. req[r].key \in Keys
      BY <1>0, <1>12, KeyHeld DEF StreamHeaders, Awaits
    <2> QED BY <1>12, <2>1, <2>2, CallAnswered DEF StreamHeaders
  <1>13. CASE StreamDone(r)
    <2>1. RequestsOK' /\ AbortedStay
      BY <1>0, <1>13, EndOK DEF StreamDone
    <2>2. req[r].key \in Keys
      BY <1>0, <1>13, KeyHeld DEF StreamDone, Awaits
    <2> QED BY <1>13, <2>1, <2>2, SuccessReported DEF StreamDone
  <1>14. CASE StreamBreaks(r)
    BY <1>0, <1>14, EndOK, Unreported DEF StreamBreaks
  <1> QED BY <1>1, <1>2, <1>3, <1>4, <1>5, <1>6, <1>7, <1>8, <1>9, <1>10,
             <1>11, <1>12, <1>13, <1>14 DEF RequestStep

\* Every step of the system does.
LEMMA StepOK == IndInv /\ [Next]_vars => IndInv' /\ (AbortedStay \/ UNCHANGED vars)
  <1> SUFFICES ASSUME IndInv, [Next]_vars
               PROVE  IndInv' /\ (AbortedStay \/ UNCHANGED vars)
    OBVIOUS
  <1> USE DEF IndInv
  <1>1. ASSUME NEW r \in Requests, RequestStep(r) PROVE IndInv' /\ AbortedStay
    BY <1>1, RequestStepOK
  <1>2. ASSUME NEW k \in Keys, ObjectStep(k) PROVE IndInv' /\ AbortedStay
    BY <1>2, ObjectStepOK DEF AbortedStay
  <1>3. CASE Tick
    <2>1. now' \in Nat
      BY <1>3 DEF Tick, ObjectOK
    <2> QED BY <1>3, <2>1 DEF Tick, RequestsOK, RequestOK, candidatesToTry, ObjectOK,
                  FailuresBacked, UsageNotOvercounted, AbortedStay, objectVars
  <1>4. CASE UNCHANGED vars
    BY <1>4 DEF vars, RequestsOK, RequestOK, candidatesToTry, ObjectOK, FailuresBacked,
                UsageNotOvercounted, objectVars
  <1> QED BY <1>1, <1>2, <1>3, <1>4 DEF Next

\* The reports of a failed call are never more than two, and the repeats of
\* each never more than one, whether they have reached the breaker, are under
\* way or are lost.
THEOREM Invariance == Spec => []IndInv
  <1>1. IndInv /\ [Next]_vars => IndInv'
    BY StepOK
  <1> QED BY InitIndInv, <1>1, PTL DEF Spec

\* The state is well typed: a request tries no more candidates than it may,
\* and it holds a key exactly while it calls the provider.
THEOREM TypeCorrect == Spec => []TypeOK
  <1>1. IndInv => TypeOK
    <2> SUFFICES ASSUME IndInv PROVE TypeOK
      OBVIOUS
    <2>1. req \in [Requests -> [at : {"idle", "ended"} \cup Awaits,
                                i : 1..(1 + MaxFallbacks), key : Keys \cup {NoKey},
                                stream : BOOLEAN, aborted : BOOLEAN]]
      <3>1. 1..Len(candidatesToTry) \subseteq 1..(1 + MaxFallbacks)
        BY CandidatesTried, CascadeAssumption
      <3> QED BY <3>1 DEF IndInv, RequestsOK, RequestOK
    <2>2. \A r \in Requests : req[r].key # NoKey <=> req[r].at \in Awaits \ {"key"}
      BY DEF IndInv, RequestsOK, RequestOK
    <2> QED BY <2>1, <2>2 DEF IndInv, ObjectOK, TypeOK
  <1> QED BY Invariance, <1>1, PTL

\* A breaker opens on failed calls only: what opens it are the reports of calls
\* with that key that failed, at most two of each, and their repeats, at most
\* one of each.
THEOREM OpeningIsEarned == Spec => []OpensOnFailures
  <1>1. IndInv /\ TypeOK => OpensOnFailures
    <2> SUFFICES ASSUME IndInv, TypeOK, NEW k \in Keys
                 PROVE  /\ repeated[k]["failure"] <= 2 * failed[k]
                        /\ brk[k].state # "CLOSED" =>
                              2 * failed[k] + repeated[k]["failure"] >= FailureThreshold
      BY DEF OpensOnFailures
    <2>1. /\ reports[k]["failure"] \in Nat /\ again[k]["failure"] \in Nat
          /\ repeated[k]["failure"] \in Nat /\ failed[k] \in Nat
          /\ brk[k].state # "CLOSED" => Charged(brk[k]) = FailureThreshold
      BY DEF Charged, IndInv, ObjectOK, Kinds
    <2>2. /\ Charged(brk[k]) + reports[k]["failure"] + again[k]["failure"]
               <= 2 * failed[k] + repeated[k]["failure"]
          /\ repeated[k]["failure"] + reports[k]["failure"] <= 2 * failed[k]
      BY DEF IndInv, FailuresBacked
    <2> QED BY <2>1, <2>2, ThresholdAssumption
  <1> QED BY Invariance, TypeCorrect, <1>1, PTL

\* The rate limiter of a key counts a call once, and twice at most: those of
\* which the report arrived and was repeated.
THEOREM UseIsCountedOnceOrRepeated == Spec => []UsageNotOvercounted
  <1>1. IndInv => UsageNotOvercounted
    BY DEF IndInv
  <1> QED BY Invariance, <1>1, PTL

\* A request whose client is gone is never tried with a further candidate.
THEOREM AbortIsFinal == Spec => AbortStopsCascade
  <1>1. IndInv /\ [Next]_vars => [AbortedStay]_vars
    BY StepOK
  <1>2. [AbortedStay]_vars <=> [\A r \in Requests : req[r].aborted => req'[r].i = req[r].i]_vars
    BY DEF AbortedStay
  <1> QED BY Invariance, <1>1, <1>2, PTL DEF Spec, AbortStopsCascade

=============================================================================
