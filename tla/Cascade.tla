------------------------------ MODULE Cascade ------------------------------
(***************************************************************************)
(* Chat requests on their way through the cascade                          *)
(* (router/cascade/fallback.ts), the upstream client                       *)
(* (proxy/upstream/client.ts) and the circuit breakers of the key pool.    *)
(*                                                                         *)
(* A request tries its candidate models in order: it acquires a key of the *)
(* candidate's provider from the tenant's object, calls the provider, and  *)
(* on any failure goes to the next candidate.  Both layers tell the object *)
(* what became of the call, without waiting: a report is delivered later,  *)
(* in any order, or is lost.  If the answer to a report ends in an         *)
(* "internal error", the tenant's client (worker/router/do_client.ts)      *)
(* repeats by fetch what the object may have counted already.  Requests    *)
(* interleave wherever one awaits the object, the provider's headers or    *)
(* its body.                                                               *)
(*                                                                         *)
(* The object's breaker is the one record per key that CircuitBreaker is   *)
(* shown to implement (BreakerSpec).  Which keys the rate limiter excludes *)
(* is left open: getKey may fail at any time.                              *)
(*                                                                         *)
(* The chat handler passes neither apiKey nor tenantId, so keys come from  *)
(* the pool and the self-key check does not run.                           *)
(***************************************************************************)
EXTENDS BreakerStateMachine, Sequences

CONSTANTS
    Requests,
    Candidates,     \* the provider of each candidate model, best first
    KeysOf,         \* the keys of each provider
    MaxFallbacks,   \* candidates tried after the first, 5
    NoKey,          \* keyId is undefined
    MaxRepeats,     \* bound: reports on a key that are repeated
    MaxTime         \* bound: last second of the modelled run

Providers == {Candidates[i] : i \in DOMAIN Candidates}
Keys == UNION {KeysOf[p] : p \in Providers}

ASSUME CascadeAssumption ==
    /\ Candidates \in Seq(Providers) /\ Candidates # <<>>
    /\ MaxFallbacks \in Nat
    /\ {MaxRepeats, MaxTime} \subseteq Nat
    /\ NoKey \notin Keys

VARIABLES
    req,       \* the state of each request
    brk,       \* the breaker of each key
    reports,   \* reports to the object that are under way, per key and kind
    again,     \* of those that have arrived, the repeats that are under way
    counted,   \* entries in the rate limiter's log of each key
    now,       \* Date.now()
    failed,    \* history: calls with each key that failed
    answered,  \* history: calls with each key that were answered
    repeated   \* history: reports that arrived and were repeated

objectVars == <<brk, counted, again, repeated>>
vars == <<req, reports, objectVars, now, failed, answered>>

-----------------------------------------------------------------------------
candidatesToTry ==
    SubSeq(Candidates, 1, IF Len(Candidates) <= 1 + MaxFallbacks
                          THEN Len(Candidates) ELSE 1 + MaxFallbacks)

\* Where a request waits: for a key, for the headers of the answer, for the
\* body of a good or of a bad answer, for the end of a stream.
Awaits == {"key", "headers", "body", "errorBody", "stream"}

Kinds == {"success", "failure", "usage"}

\* The object's view of a breaker: getData evaluates the cooldown first.
View(k) == evaluateCooldown(brk[k], now)

\* reports, with a report of each of the given kinds on key k added.
Sent(k, kinds) ==
    [reports EXCEPT ![k] = [d \in Kinds |-> @[d] + (IF d \in kinds THEN 1 ELSE 0)]]

Count(h, k) == [h EXCEPT ![k] = @ + 1]

Init ==
    /\ req = [r \in Requests |-> [at |-> "idle", i |-> 1, key |-> NoKey,
                                  stream |-> FALSE, aborted |-> FALSE]]
    /\ brk = [k \in Keys |-> createDefaultCircuitBreakerData]
    /\ reports = [k \in Keys |-> [d \in Kinds |-> 0]]
    /\ again = reports /\ repeated = reports
    /\ counted = [k \in Keys |-> 0]
    /\ now = 0
    /\ failed = [k \in Keys |-> 0]
    /\ answered = [k \in Keys |-> 0]

-----------------------------------------------------------------------------
(* executeCascadeRouting *)

End(r) == req' = [req EXCEPT ![r].at = "ended", ![r].key = NoKey]

\* Wrong: the signal is not looked at before the next candidate.
EscalateAnyway(r) ==
    IF req[r].i = Len(candidatesToTry)
    THEN End(r)
    ELSE req' = [req EXCEPT ![r].at = "key", ![r].i = @ + 1, ![r].key = NoKey]

\* The head of the loop: the next candidate, FallbackExhaustedError, or, if
\* the client is gone, AbortError.
Escalate(r) ==
    IF req[r].i = Len(candidatesToTry) \/ req[r].aborted
    THEN End(r)
    ELSE req' = [req EXCEPT ![r].at = "key", ![r].i = @ + 1, ![r].key = NoKey]

\* The catch clause, with the reports that the client has sent already.  A
\* request that was aborted is reported no further and tried no further.
CatchFailure(r, clientReports) ==
    LET k == req[r].key IN
    /\ IF req[r].aborted
       THEN End(r) /\ reports' = Sent(k, clientReports)
       ELSE /\ Escalate(r)
            /\ reports' = [Sent(k, clientReports) EXCEPT ![k]["failure"] = @ + 1]
    /\ failed' = Count(failed, k)
    /\ UNCHANGED <<objectVars, now, answered>>

Route(r, stream) ==
    /\ req[r].at = "idle"
    /\ req' = [req EXCEPT ![r].at = "key", ![r].stream = stream]
    /\ UNCHANGED <<objectVars, reports, now, failed, answered>>

\* The client closes the connection: request.signal.
Abort(r) ==
    /\ req[r].at \in Awaits \ {"stream"} /\ ~req[r].aborted
    /\ req' = [req EXCEPT ![r].aborted = TRUE]
    /\ UNCHANGED <<objectVars, reports, now, failed, answered>>

\* keyPool.getKey returns a key whose breaker lets it through; the object's
\* triage evaluates the cooldown of all keys of the provider.
GetKey(r) ==
    LET keys == KeysOf[candidatesToTry[req[r].i]] IN
    /\ req[r].at = "key"
    /\ \E k \in keys :
         /\ canExecute(View(k))
         /\ req' = [req EXCEPT ![r].at = "headers", ![r].key = k]
    /\ brk' = [k \in Keys |-> IF k \in keys THEN View(k) ELSE brk[k]]
    /\ UNCHANGED <<reports, again, counted, now, failed, answered, repeated>>

\* getKey throws: no healthy key, or the call of the object failed.
GetKeyFails(r) ==
    /\ req[r].at = "key"
    /\ Escalate(r)
    /\ UNCHANGED <<objectVars, reports, now, failed, answered>>

-----------------------------------------------------------------------------
(* UpstreamClient.send and chat *)

\* Wrong: a stream's request is sent without a timer.
FetchFailsUntimed(r) ==
    /\ req[r].at = "headers" /\ ~req[r].stream
    /\ CatchFailure(r, {"failure"})

\* fetch throws: the network failed or the timer went off.
FetchFails(r) ==
    /\ req[r].at = "headers"
    /\ CatchFailure(r, {"failure"})

\* No usable key, or a stream without a body: the client throws unreported.
SendThrows(r) ==
    /\ req[r].at = "headers"
    /\ CatchFailure(r, {})

\* A status that is not 2xx: the client reads the error's text, untimed.
ErrorHeaders(r) ==
    /\ req[r].at = "headers"
    /\ req' = [req EXCEPT ![r].at = "errorBody"]
    /\ UNCHANGED <<objectVars, reports, now, failed, answered>>

ErrorBody(r) ==
    /\ req[r].at = "errorBody"
    /\ CatchFailure(r, {"failure"})

\* A 2xx answer to a plain request: reported as a success before its body is
\* read, and the timer is off from here on.
GoodHeaders(r) ==
    /\ req[r].at = "headers" /\ ~req[r].stream
    /\ req' = [req EXCEPT ![r].at = "body"]
    /\ reports' = Sent(req[r].key, {"success"})
    /\ UNCHANGED <<objectVars, now, failed, answered>>

\* The body cannot be read or is not JSON.
BodyBroken(r) ==
    /\ req[r].at = "body"
    /\ CatchFailure(r, {})

\* The request is answered: the cascade reports the success, and the usage if
\* the model has a price.
Answered(r, kinds) ==
    /\ reports' = Sent(req[r].key, kinds)
    /\ answered' = Count(answered, req[r].key)
    /\ UNCHANGED <<objectVars, now, failed>>

\* Wrong: the client, given a costCalculator, reports the usage as well.
BodyReadTwiceCounted(r, priced) ==
    /\ req[r].at = "body"
    /\ End(r)
    /\ answered' = Count(answered, req[r].key)
    /\ reports' = IF priced
                  THEN [Sent(req[r].key, {"success"}) EXCEPT
                            ![req[r].key]["usage"] = @ + 2]
                  ELSE Sent(req[r].key, {"success"})
    /\ UNCHANGED <<objectVars, now, failed>>

BodyRead(r, priced) ==
    /\ req[r].at = "body"
    /\ End(r)
    /\ Answered(r, IF priced THEN {"success", "usage"} ELSE {"success"})

\* A 2xx answer to a stream's request has no usage yet, hence no cost.
StreamHeaders(r) ==
    /\ req[r].at = "headers" /\ req[r].stream
    /\ req' = [req EXCEPT ![r].at = "stream"]
    /\ Answered(r, {"success"})

\* The stream's flush: the client reports the success again.
StreamDone(r) ==
    /\ req[r].at = "stream"
    /\ End(r)
    /\ reports' = Sent(req[r].key, {"success"})
    /\ UNCHANGED <<objectVars, now, failed, answered>>

\* Wrong: a client that hangs up is held against the key.
StreamBreaksReported(r) ==
    /\ req[r].at = "stream"
    /\ End(r)
    /\ reports' = [Sent(req[r].key, {}) EXCEPT ![req[r].key]["failure"] = @ + 2]
    /\ UNCHANGED <<objectVars, now, failed, answered>>

\* The provider breaks the stream off, or the client hangs up: no report.
StreamBreaks(r) ==
    /\ req[r].at = "stream"
    /\ End(r)
    /\ UNCHANGED <<objectVars, reports, now, failed, answered>>

-----------------------------------------------------------------------------
(* The object *)

\* The report of a kind on a key is under way no more.
Take(k, kind) ==
    /\ reports[k][kind] > 0
    /\ reports' = [reports EXCEPT ![k][kind] = @ - 1]
    /\ UNCHANGED <<again, repeated>>

Repeats(k) == repeated[k]["success"] + repeated[k]["failure"] + repeated[k]["usage"]

\* It has arrived, but its answer has not, and it is repeated.
TakeAndRepeat(k, kind) ==
    /\ reports[k][kind] > 0
    /\ Repeats(k) < MaxRepeats
    /\ reports' = [reports EXCEPT ![k][kind] = @ - 1]
    /\ again' = [again EXCEPT ![k][kind] = @ + 1]
    /\ repeated' = [repeated EXCEPT ![k][kind] = @ + 1]

\* The repeat is under way no more: there is no other.
TakeRepeat(k, kind) ==
    /\ again[k][kind] > 0
    /\ again' = [again EXCEPT ![k][kind] = @ - 1]
    /\ UNCHANGED <<reports, repeated>>

\* A report reaches the object, by RPC or by the fetch that repeats it.
Arrives(k, kind) ==
    /\ Take(k, kind) \/ TakeAndRepeat(k, kind) \/ TakeRepeat(k, kind)
    /\ UNCHANGED <<req, now, failed, answered>>

\* recordResult and recordUsage of KeyPoolDO.
RecordSuccess(k) ==
    /\ Arrives(k, "success")
    /\ brk' = [brk EXCEPT ![k] = applySuccess(View(k))]
    /\ UNCHANGED counted

RecordFailure(k) ==
    /\ Arrives(k, "failure")
    /\ brk' = [brk EXCEPT ![k] = applyFailure(View(k), now)]
    /\ UNCHANGED counted

RecordUsage(k) ==
    /\ Arrives(k, "usage")
    /\ counted' = [counted EXCEPT ![k] = @ + 1]
    /\ UNCHANGED brk

\* The call of the object fails: .catch(() => {}).
LoseReport(k, kind) ==
    /\ Take(k, kind) \/ TakeRepeat(k, kind)
    /\ UNCHANGED <<req, brk, counted, now, failed, answered>>

Tick ==
    /\ now < MaxTime
    /\ now' = now + 1
    /\ UNCHANGED <<req, reports, objectVars, failed, answered>>

-----------------------------------------------------------------------------
RequestStep(r) ==
    \/ \E stream \in BOOLEAN : Route(r, stream)
    \/ Abort(r)
    \/ GetKey(r) \/ GetKeyFails(r)
    \/ FetchFails(r) \/ SendThrows(r)
    \/ ErrorHeaders(r) \/ ErrorBody(r)
    \/ GoodHeaders(r) \/ BodyBroken(r)
    \/ \E priced \in BOOLEAN : BodyRead(r, priced)
    \/ StreamHeaders(r) \/ StreamDone(r) \/ StreamBreaks(r)

ObjectStep(k) ==
    \/ RecordSuccess(k) \/ RecordFailure(k) \/ RecordUsage(k)
    \/ \E kind \in Kinds : LoseReport(k, kind)

Next ==
    \/ \E r \in Requests : RequestStep(r)
    \/ \E k \in Keys : ObjectStep(k)
    \/ Tick

Spec == Init /\ [][Next]_vars

\* The object and D1 answer every call, and the timer ends the wait for
\* headers; of a body that does not come, nothing is assumed.
FairSpec ==
    /\ Spec
    /\ \A r \in Requests : WF_vars(GetKey(r) \/ GetKeyFails(r))
    /\ \A r \in Requests : WF_vars(FetchFails(r))

-----------------------------------------------------------------------------
\* The type of each variable: a request tries at most 1 + MaxFallbacks
\* candidates, and holds a key exactly while it calls the provider.
TypeOK ==
    /\ req \in [Requests -> [at : {"idle", "ended"} \cup Awaits,
                             i : 1..(1 + MaxFallbacks),
                             key : Keys \cup {NoKey},
                             stream : BOOLEAN, aborted : BOOLEAN]]
    /\ \A r \in Requests : req[r].key # NoKey <=> req[r].at \in Awaits \ {"key"}
    /\ brk \in [Keys -> CircuitBreakerData]
    /\ {reports, again, repeated} \subseteq [Keys -> [Kinds -> Nat]]
    /\ {counted, failed, answered} \subseteq [Keys -> Nat]
    /\ now \in Nat

\* The state is well typed, and a breaker opens on failed calls only: each is
\* reported at most twice, by the client and by the cascade, and each of the
\* reports repeated at most once, so it takes at least a quarter as many as the
\* threshold, and half as many if no answer of the object is lost.  Neither a
\* client that hangs up nor a slow report of another key's failure counts
\* against a key.
OpensOnFailures ==
    /\ TypeOK
    /\ \A k \in Keys :
         /\ repeated[k]["failure"] <= 2 * failed[k]
         /\ brk[k].state # "CLOSED" =>
               2 * failed[k] + repeated[k]["failure"] >= FailureThreshold

\* The rate limiter counts a key's call once, although the cascade and the
\* client both report to it, but for calls whose report was repeated after it
\* had arrived: those twice, and no call more often.
UsageNotOvercounted ==
    \A k \in Keys :
        /\ counted[k] + reports[k]["usage"] + again[k]["usage"]
               <= answered[k] + repeated[k]["usage"]
        /\ repeated[k]["usage"] + reports[k]["usage"] <= answered[k]

\* A request whose client is gone never escalates to a further candidate, at
\* whichever await the client left.
AbortStopsCascade ==
    [][\A r \in Requests : req[r].aborted => req'[r].i = req[r].i]_vars

\* However calls fail, a request comes to its end or waits for a body: nothing
\* else can hold it.
Settles ==
    \A r \in Requests :
        \/ <>[](req[r].at = "idle")
        \/ <>[](req[r].at \in {"ended", "body", "errorBody", "stream"})
=============================================================================
