------------------------- MODULE BreakerStateMachine -------------------------
(***************************************************************************)
(* The pure transition functions of the circuit breaker                    *)
(* (durable_objects/circuit_breaker/state_machine.ts and types.ts).        *)
(*                                                                         *)
(* A CircuitBreakerData record is kept without lastFailureTime and         *)
(* lastSuccessTime: they are written by every transition and read by none. *)
(* Times are milliseconds, but for the two constants that say seconds.     *)
(***************************************************************************)
EXTENDS Integers

CONSTANTS
    FailureThreshold,          \* failures in a row that open a CLOSED breaker
    CooldownSeconds,           \* time OPEN lasts before a probe is allowed
    SecondMs,                  \* milliseconds in a second, 1000 in the code
    HalfOpenSuccessThreshold   \* successes in a row that close a HALF_OPEN one

ASSUME ThresholdAssumption ==
    /\ FailureThreshold \in Nat \ {0}
    /\ CooldownSeconds \in Nat \ {0}
    /\ SecondMs \in Nat \ {0}
    /\ HalfOpenSuccessThreshold \in Nat \ {0}

cooldownMs == CooldownSeconds * SecondMs

CircuitBreakerState == {"CLOSED", "OPEN", "HALF_OPEN"}

Null == -1   \* openedAt of a breaker that is not open

CircuitBreakerData ==
    [ state                : CircuitBreakerState,
      consecutiveFailures  : Nat,
      consecutiveSuccesses : Nat,
      openedAt             : Nat \cup {Null} ]

createDefaultCircuitBreakerData ==
    [ state |-> "CLOSED", consecutiveFailures |-> 0,
      consecutiveSuccesses |-> 0, openedAt |-> Null ]

-----------------------------------------------------------------------------

CooldownElapsed(d, t) ==
    d.state = "OPEN" /\ d.openedAt # Null /\ t - d.openedAt >= cooldownMs

evaluateCooldown(d, t) ==
    IF CooldownElapsed(d, t)
    THEN [d EXCEPT !.state = "HALF_OPEN", !.consecutiveSuccesses = 0]
    ELSE d

\* Wrong: the breaker opens without noting when.
applyTripUntimed(d, t) ==
    [d EXCEPT !.state = "OPEN", !.consecutiveFailures = FailureThreshold,
              !.consecutiveSuccesses = 0]

applyTrip(d, t) ==
    [d EXCEPT !.state = "OPEN", !.openedAt = t,
              !.consecutiveFailures = IF @ >= FailureThreshold
                                      THEN @ ELSE FailureThreshold,
              !.consecutiveSuccesses = 0]

applyReset(d) == createDefaultCircuitBreakerData

Close(d) ==
    [d EXCEPT !.state = "CLOSED", !.consecutiveFailures = 0,
              !.consecutiveSuccesses = 0, !.openedAt = Null]

\* Wrong: a success of a CLOSED breaker does not end the row of failures.
applySuccessKeepsCount(d) == IF d.state = "CLOSED" THEN d ELSE Close(d)

applySuccess(d) ==
    CASE d.state = "HALF_OPEN" ->
            IF d.consecutiveSuccesses + 1 >= HalfOpenSuccessThreshold
            THEN Close(d)
            ELSE [d EXCEPT !.consecutiveSuccesses = @ + 1]
      [] d.state = "CLOSED" -> [d EXCEPT !.consecutiveFailures = 0]
      [] d.state = "OPEN"   -> Close(d)

\* Wrong: the success count of HALF_OPEN is carried into OPEN.
ReopenKeepsSuccesses(d, t) ==
    [d EXCEPT !.state = "OPEN", !.openedAt = t, !.consecutiveFailures = @ + 1]

Reopen(d, t) ==
    [d EXCEPT !.state = "OPEN", !.openedAt = t, !.consecutiveSuccesses = 0,
              !.consecutiveFailures = @ + 1]

\* Wrong: a late failure restarts the cooldown of an OPEN breaker.
applyFailureRestarts(d, t) ==
    IF d.consecutiveFailures + 1 >= FailureThreshold
    THEN Reopen(d, t)
    ELSE [d EXCEPT !.consecutiveFailures = @ + 1]

applyFailure(d, t) ==
    CASE d.state = "CLOSED" ->
            IF d.consecutiveFailures + 1 >= FailureThreshold
            THEN Reopen(d, t)
            ELSE [d EXCEPT !.consecutiveFailures = @ + 1]
      [] d.state = "HALF_OPEN" -> Reopen(d, t)
      [] d.state = "OPEN" -> [d EXCEPT !.consecutiveFailures = @ + 1]

canExecute(d) == d.state \in {"CLOSED", "HALF_OPEN"}

\* Wrong: the begun second is not counted (Math.floor).
getRetryAfterSecondsShort(d, t) ==
    IF d.state = "OPEN" /\ d.openedAt # Null /\ d.openedAt + cooldownMs > t
    THEN (d.openedAt + cooldownMs - t) \div SecondMs
    ELSE 0

\* Seconds until an OPEN breaker lets a probe through (getRetryAfterSeconds):
\* Math.ceil of the milliseconds that remain.
getRetryAfterSeconds(d, t) ==
    IF d.state = "OPEN" /\ d.openedAt # Null /\ d.openedAt + cooldownMs > t
    THEN (d.openedAt + cooldownMs - t + SecondMs - 1) \div SecondMs
    ELSE 0

=============================================================================
