--------------------------- MODULE CircuitBreaker ---------------------------
(***************************************************************************)
(* The circuit breaker of a KeyPoolDO                                      *)
(* (durable_objects/circuit_breaker/breaker.ts and storage.ts): one record *)
(* per key, kept twice, in the object's memory map and in its durable      *)
(* storage.  The runtime may evict the object between any two events and   *)
(* drop the memory.                                                        *)
(*                                                                         *)
(* An operation of the breaker awaits nothing but storage, and the runtime *)
(* delivers no other event to the object while storage is pending (its     *)
(* input gate), so each operation is one step.  An eviction between the    *)
(* two writes of a recorded result (the cooldown's and the result's own)   *)
(* is the behaviour Read, Evict, with the report lost.                     *)
(*                                                                         *)
(* A request let through by canExecute is reported later, by the worker    *)
(* that made the upstream call: a report can be late, lost, or made again  *)
(* (the cascade router and the upstream client both report a request, and  *)
(* a report whose answer was lost is repeated).                            *)
(***************************************************************************)
EXTENDS BreakerStateMachine

CONSTANTS
    Keys,              \* ids of the API keys
    ReportsPerRequest, \* how often one request may be reported
    MaxPending,        \* bound: reports outstanding for one key
    MaxTime            \* bound: last millisecond of the modelled run

ASSUME BoundAssumption ==
    /\ ReportsPerRequest \in Nat \ {0}
    /\ MaxPending \in Nat
    /\ MaxTime \in Nat

VARIABLES
    loaded,   \* keys that have a record in the memory map
    mem,      \* memory.get(key); the default record where nothing is loaded
    disk,     \* storage.get("cb:" + key); an absent record reads as the default
    now,      \* Date.now()
    pending,  \* reports still to come for requests let through, per key
    streak,   \* history: failures reported since the last success or reset
    probes    \* history: requests let through while HALF_OPEN since the last
              \* report, counted up to two

breakerVars == <<loaded, mem, disk>>
vars == <<loaded, mem, disk, now, pending, streak, probes>>

-----------------------------------------------------------------------------
\* Wrong: a record that is not in memory is taken for a new one.
loadMemoryOnly(k) == mem[k]

\* CircuitBreakerStorage.load: the memory's record, or else the stored one.
load(k) == IF k \in loaded THEN mem[k] ELSE disk[k]

\* What getData returns: the loaded record after its cooldown was evaluated.
View(k) == evaluateCooldown(load(k), now)

\* Wrong: the record is not written to storage.
StoreUnpersisted(k, d) ==
    /\ loaded' = loaded \cup {k}
    /\ mem' = [mem EXCEPT ![k] = d]
    /\ UNCHANGED disk

\* setMemory and persist of one record.
Store(k, d) ==
    /\ loaded' = loaded \cup {k}
    /\ mem' = [mem EXCEPT ![k] = d]
    /\ disk' = [disk EXCEPT ![k] = d]

\* getData's side effects: the record enters the memory; it is written back
\* only if the cooldown moved it to HALF_OPEN.
getData(k) ==
    /\ loaded' = loaded \cup {k}
    /\ mem' = [mem EXCEPT ![k] = View(k)]
    /\ disk' = IF CooldownElapsed(load(k), now)
               THEN [disk EXCEPT ![k] = View(k)] ELSE disk

\* The last cooldown that starts within the horizon also ends within it.
WithinHorizon == now + cooldownMs <= MaxTime

-----------------------------------------------------------------------------
Init ==
    /\ loaded = {}
    /\ mem = [k \in Keys |-> createDefaultCircuitBreakerData]
    /\ disk = [k \in Keys |-> createDefaultCircuitBreakerData]
    /\ now = 0
    /\ pending = [k \in Keys |-> 0]
    /\ streak = [k \in Keys |-> 0]
    /\ probes = [k \in Keys |-> 0]

\* getState, getCircuitOpenUntil, getRetryAfterSeconds, and a canExecute whose
\* caller sends no request.
Read(k) ==
    /\ getData(k)
    /\ UNCHANGED <<now, pending, streak, probes>>

\* canExecute answers true and the caller sends a request with the key.
Admit(k) ==
    /\ canExecute(View(k))
    /\ pending[k] + ReportsPerRequest <= MaxPending
    /\ getData(k)
    /\ pending' = [pending EXCEPT ![k] = @ + ReportsPerRequest]
    /\ probes' = [probes EXCEPT ![k] =
                     IF View(k).state = "HALF_OPEN" /\ @ < 2 THEN @ + 1 ELSE @]
    /\ UNCHANGED <<now, streak>>

\* getDataSync, getStateSync: the cooldown changes the memory's record only.
ReadSync(k) ==
    /\ k \in loaded
    /\ mem' = [mem EXCEPT ![k] = View(k)]
    /\ UNCHANGED <<loaded, disk, now, pending, streak, probes>>

recordSuccess(k) ==
    /\ pending[k] > 0
    /\ Store(k, applySuccess(View(k)))
    /\ pending' = [pending EXCEPT ![k] = @ - 1]
    /\ streak' = [streak EXCEPT ![k] = 0]
    /\ probes' = [probes EXCEPT ![k] = 0]
    /\ UNCHANGED now

recordFailure(k) ==
    /\ pending[k] > 0
    /\ WithinHorizon
    /\ Store(k, applyFailure(View(k), now))
    /\ pending' = [pending EXCEPT ![k] = @ - 1]
    /\ streak' = [streak EXCEPT ![k] = @ + 1]
    /\ probes' = [probes EXCEPT ![k] = 0]
    /\ UNCHANGED now

\* recordStatusCode with a code that is neither 2xx nor a tripping one, and a
\* report that is lost: the breaker never hears of the request.
DropReport(k) ==
    /\ pending[k] > 0
    /\ pending' = [pending EXCEPT ![k] = @ - 1]
    /\ UNCHANGED <<breakerVars, now, streak, probes>>

trip(k) ==
    /\ WithinHorizon
    /\ Store(k, applyTrip(View(k), now))
    /\ probes' = [probes EXCEPT ![k] = 0]
    /\ UNCHANGED <<now, pending, streak>>

reset(k) ==
    /\ Store(k, applyReset(View(k)))
    /\ streak' = [streak EXCEPT ![k] = 0]
    /\ probes' = [probes EXCEPT ![k] = 0]
    /\ UNCHANGED <<now, pending>>

\* The runtime drops the object's memory; clearMemoryCache does the same.
Evict ==
    /\ loaded' = {}
    /\ mem' = [k \in Keys |-> createDefaultCircuitBreakerData]
    /\ UNCHANGED <<disk, now, pending, streak, probes>>

Tick ==
    /\ now < MaxTime
    /\ now' = now + 1
    /\ UNCHANGED <<breakerVars, pending, streak, probes>>

KeyStep(k) ==
    \/ Read(k) \/ Admit(k) \/ ReadSync(k)
    \/ recordSuccess(k) \/ recordFailure(k) \/ DropReport(k)
    \/ trip(k) \/ reset(k)

Next == (\E k \in Keys : KeyStep(k)) \/ Evict \/ Tick

Spec == Init /\ [][Next]_vars

\* Time passes, and every request for a provider triages (reads) each of its
\* keys, so under traffic every key is read again and again.
Fairness == WF_vars(Tick) /\ \A k \in Keys : WF_vars(Read(k))

FairSpec == Spec /\ Fairness

-----------------------------------------------------------------------------
\* Type correctness of the memory, the storage and the history.
TypeOK ==
    /\ loaded \subseteq Keys
    /\ mem \in [Keys -> CircuitBreakerData]
    /\ disk \in [Keys -> CircuitBreakerData]
    /\ now \in Nat
    /\ pending \in [Keys -> Nat]
    /\ streak \in [Keys -> Nat]
    /\ probes \in [Keys -> Nat]

\* Losing the memory changes no answer: the record the next getData returns is
\* the one it would return had the object been evicted first, although a
\* cooldown evaluated by getDataSync is never written to storage.
EvictionTransparent ==
    \A k \in Keys : View(k) = evaluateCooldown(disk[k], now)

\* A breaker is CLOSED exactly as long as fewer than FailureThreshold failures
\* in a row were reported, counted across evictions, cooldowns and duplicates.
ClosedCountsStreak ==
    \A k \in Keys : View(k).state = "CLOSED" =>
        /\ View(k).consecutiveFailures = streak[k]
        /\ streak[k] < FailureThreshold

\* The fields of one record agree with its state: an OPEN breaker has a
\* deadline (or it would stay OPEN for ever), only a breaker whose cooldown
\* ran out is HALF_OPEN, and a success count survives in HALF_OPEN only.
Coherent(d, t) ==
    /\ d.openedAt <= t
    /\ d.state = "CLOSED" =>
         /\ d.openedAt = Null
         /\ d.consecutiveSuccesses = 0
         /\ d.consecutiveFailures < FailureThreshold
    /\ d.state \in {"OPEN", "HALF_OPEN"} =>
         /\ d.openedAt # Null
         /\ d.consecutiveFailures >= FailureThreshold
    /\ d.state = "OPEN" => d.consecutiveSuccesses = 0
    /\ d.state = "HALF_OPEN" =>
         /\ t - d.openedAt >= cooldownMs
         /\ d.consecutiveSuccesses < HalfOpenSuccessThreshold

EveryRecordCoherent ==
    \A k \in Keys : Coherent(load(k), now) /\ Coherent(disk[k], now)

\* So do all, in memory and in storage, and have their types.
RecordsCoherent == TypeOK /\ EveryRecordCoherent

\* The retry-after answer, in whole seconds, is right to the second wherever
\* between two seconds it is asked for: after that many without a report the
\* key can be used, and after one fewer it cannot.
RetryAfterExact ==
    \A k \in Keys :
        LET r == getRetryAfterSeconds(View(k), now) IN
        /\ canExecute(evaluateCooldown(View(k), now + r * SecondMs))
        /\ r > 0 => ~canExecute(evaluateCooldown(View(k), now + (r - 1) * SecondMs))

\* Reports of requests sent before the breaker opened never postpone the end
\* of its cooldown, and nothing makes it HALF_OPEN before that end.
DeadlineKept ==
    [][\A k \in Keys : View(k).state = "OPEN" =>
         /\ View(k)'.state = "HALF_OPEN" =>
              now' >= View(k).openedAt + cooldownMs
         /\ View(k)'.state = "OPEN" /\ pending'[k] # pending[k] =>
              View(k)'.openedAt = View(k).openedAt]_vars

\* The breaker keeps its promise to the key selector: seen through getData it
\* is one record per key that evictions, reads and lost reports cannot touch,
\* and that returns to CLOSED only on a success or a reset.
Promise == INSTANCE BreakerSpec WITH brk <- [k \in Keys |-> View(k)]

KeepsPromise == Promise!BreakerPromise

\* A key whose breaker is OPEN becomes usable again: a read finds the cooldown
\* over, however often the object is evicted in between.
Recovers == \A k \in Keys : (load(k).state = "OPEN") ~> canExecute(load(k))

-----------------------------------------------------------------------------
\* state_machine.ts, header: "Deterministic Transitions: CLOSED -> OPEN ->
\* HALF_OPEN -> CLOSED".  A report never takes a breaker from OPEN to CLOSED.
ClosesThroughHalfOpen ==
    [][\A k \in Keys :
         View(k).state = "OPEN" /\ pending'[k] < pending[k]
           => View(k)'.state # "CLOSED"]_vars

\* docs/study_guide/06_exercises_and_challenges.md: after the cooldown "A
\* single probe request is permitted".
SingleProbe == \A k \in Keys : probes[k] <= 1

=============================================================================
