---------------------------- MODULE BreakerSpec -----------------------------
(***************************************************************************)
(* What the circuit breaker promises to the key selector: one record per   *)
(* key that never gets lost.  There is no memory, no storage and no        *)
(* eviction; a cooldown ends by itself when its time comes.  A record is   *)
(* changed only by what is reported, and the count of failures reported    *)
(* since the last success or reset is visible: a record that returns to    *)
(* CLOSED without one of the two breaks the promise.                       *)
(***************************************************************************)
EXTENDS BreakerStateMachine

CONSTANT Keys

VARIABLES brk, now, streak

specVars == <<brk, now, streak>>

SpecInit ==
    /\ brk = [k \in Keys |-> createDefaultCircuitBreakerData]
    /\ now = 0
    /\ streak = [k \in Keys |-> 0]

Update(k, d, failures) ==
    /\ brk' = [brk EXCEPT ![k] = d]
    /\ streak' = [streak EXCEPT ![k] = failures]
    /\ UNCHANGED now

Succeed(k)  == Update(k, applySuccess(brk[k]), 0)
Fail(k)     == Update(k, applyFailure(brk[k], now), streak[k] + 1)
TripOpen(k) == Update(k, applyTrip(brk[k], now), streak[k])
Clear(k)    == Update(k, applyReset(brk[k]), 0)

PassTime ==
    /\ now' = now + 1
    /\ brk' = [k \in Keys |-> evaluateCooldown(brk[k], now + 1)]
    /\ UNCHANGED streak

SpecNext ==
    \/ \E k \in Keys : Succeed(k) \/ Fail(k) \/ TripOpen(k) \/ Clear(k)
    \/ PassTime

BreakerPromise == SpecInit /\ [][SpecNext]_specVars

=============================================================================
