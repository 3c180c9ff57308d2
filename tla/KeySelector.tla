---------------------------- MODULE KeySelector ----------------------------
(***************************************************************************)
(* Triage and choice of a key (durable_objects/key_selector): what the     *)
(* selector of a KeyPoolDO makes of the answers of its circuit breaker and *)
(* its rate limiter, and its four strategies.  KeyPool models the lists of *)
(* keys and the index in storage, CircuitBreaker and RateLimiter where the *)
(* records come from; here a selector is                                   *)
(*                                                                         *)
(*   [keys, breakers, limiters, guarded, inMemory, usage, index, now]      *)
(*                                                                         *)
(* its keys in order, each key's breaker and limiter record, whether it    *)
(* was given a breaker and a limiter, the ids of the records that are in   *)
(* memory, the selections of each key, each provider's index, and the time *)
(* in milliseconds.  A key is  [id, provider, status, priority, rpmLimit,  *)
(* circuitOpenUntil]; an absent priority is 0, an absent rpmLimit the      *)
(* default, an absent circuitOpenUntil 0, as the code reads them.          *)
(***************************************************************************)
EXTENDS BreakerStateMachine, SlidingWindow, SequencesExt

CONSTANTS
    RRModulus,   \* the index counts modulo this, 1_000_000
    NoKey        \* no key is returned: KeyExhaustedError, or null

-----------------------------------------------------------------------------
(* Triage *)

isStatusPermitted(k) == k.status \notin {"disabled", "invalid", "exhausted"}

OrDefault(seconds) == IF seconds > 0 THEN seconds ELSE DefaultRetryAfterSeconds

\* The breaker's record as it is read, and as it is known without waiting.
Breaker(s, k) == evaluateCooldown(s.breakers[k.id], s.now)
BreakerInMemory(s, k) ==
    IF k.id \in s.inMemory THEN Breaker(s, k) ELSE createDefaultCircuitBreakerData

\* The seconds for which the breaker, or else the key's own deadline, holds a
\* key back, if it does.
HeldBack(s, k, record) ==
    IF s.guarded
    THEN IF canExecute(record) THEN {} ELSE {OrDefault(getRetryAfterSeconds(record, s.now))}
    ELSE IF k.circuitOpenUntil > s.now THEN {CeilSeconds(k.circuitOpenUntil - s.now)} ELSE {}

\* The same of the limiter, awaited and not.
Limited(s, k, cost) ==
    LET d == s.limiters[k.id] IN
    IF s.guarded /\ checkLimit(d, s.now, cost) # "allowed"
    THEN {OrDefault(retryAfterSeconds(d, s.now, cost))} ELSE {}
LimitedInMemory(s, k, cost) ==
    IF k.id \in s.inMemory /\ Limited(s, k, cost) # {} THEN {DefaultRetryAfterSeconds} ELSE {}

\* Of three obstacles in turn, the first; only the later two end by waiting.
Verdict(k, heldBack, limited) ==
    [healthy |-> isStatusPermitted(k) /\ heldBack = {} /\ limited = {},
     retry |-> IF ~isStatusPermitted(k) THEN {} ELSE IF heldBack # {} THEN heldBack ELSE limited]

\* Wrong: the last key to come back is announced.
TriagedByLast(candidates, verdict) ==
    LET delays == UNION {verdict[k].retry : k \in Range(candidates)} IN
    [totalKeys |-> Len(candidates),
     healthyKeys |-> SelectSeq(candidates, LAMBDA k : verdict[k].healthy),
     minRetryAfterSeconds |-> IF delays = {} THEN DefaultRetryAfterSeconds ELSE Max(delays)]

Triaged(candidates, verdict) ==
    LET delays == UNION {verdict[k].retry : k \in Range(candidates)} IN
    [totalKeys |-> Len(candidates),
     healthyKeys |-> SelectSeq(candidates, LAMBDA k : verdict[k].healthy),
     minRetryAfterSeconds |-> IF delays = {} THEN DefaultRetryAfterSeconds ELSE Min(delays)]

triageKeys(s, candidates, cost) ==
    Triaged(candidates,
        [k \in Range(candidates) |->
            Verdict(k, HeldBack(s, k, Breaker(s, k)), Limited(s, k, cost))])

triageKeysSync(s, candidates, cost) ==
    Triaged(candidates,
        [k \in Range(candidates) |->
            Verdict(k, HeldBack(s, k, BreakerInMemory(s, k)), LimitedInMemory(s, k, cost))])

getKeys(s, provider) ==
    SelectSeq(s.keys, LAMBDA k : provider \in {"*", k.provider})

-----------------------------------------------------------------------------
(* Strategies: the keys that may be taken, with the index afterwards *)

Taken(s, key) == [key |-> key, index |-> s.index]

selectRoundRobin(s, provider, healthy) ==
    { [key |-> healthy[(s.index[provider] % Len(healthy)) + 1],
       index |-> [s.index EXCEPT ![provider] = (@ + 1) % RRModulus]] }

\* What a key has to do: the requests of the last minute, or, when nothing is
\* awaited, of the day that the record goes back.
Load(s, k) ==
    IF s.guarded THEN calculateRpm(s.limiters[k.id], s.now) ELSE s.usage[k.id]
LoadInMemory(s, k) ==
    CASE ~s.guarded -> s.usage[k.id]
      [] s.guarded /\ k.id \in s.inMemory -> calculateRpd(s.limiters[k.id], s.now)
      [] OTHER -> 0

\* The first of the least loaded keys that were selected least often.
LeastUsed(s, healthy, load) ==
    FoldLeft(LAMBDA best, k :
                 IF \/ load[k] < load[best]
                    \/ load[k] = load[best] /\ s.usage[k.id] < s.usage[best.id]
                 THEN k ELSE best,
             Head(healthy), healthy)
selectLeastUsed(s, healthy) ==
    {Taken(s, LeastUsed(s, healthy, [k \in Range(healthy) |-> Load(s, k)]))}
selectLeastUsedSync(s, healthy) ==
    {Taken(s, LeastUsed(s, healthy, [k \in Range(healthy) |-> LoadInMemory(s, k)]))}

\* Keys of the highest priority take turns; one alone leaves the index as it is.
selectPriority(s, provider, healthy) ==
    LET top == SelectSeq(healthy, LAMBDA k :
                   \A other \in Range(healthy) : other.priority <= k.priority) IN
    IF Len(top) = 1 THEN {Taken(s, Head(top))} ELSE selectRoundRobin(s, provider, top)

selectRandom(s, healthy) == {Taken(s, key) : key \in Range(healthy)}

Dispatch(s, strategy, provider, healthy) ==
    CASE strategy \in {"least-used", "load-balanced"} -> selectLeastUsed(s, healthy)
      [] strategy = "priority" -> selectPriority(s, provider, healthy)
      [] strategy = "random" -> selectRandom(s, healthy)
      [] OTHER -> selectRoundRobin(s, provider, healthy)
DispatchSync(s, strategy, provider, healthy) ==
    IF strategy \in {"least-used", "load-balanced"} THEN selectLeastUsedSync(s, healthy)
    ELSE Dispatch(s, strategy, provider, healthy)

-----------------------------------------------------------------------------
(* selectKey and selectKeySync *)

Asked(s, provider, options) ==
    IF options.candidateKeys # {} THEN CHOOSE keys \in options.candidateKeys : TRUE
    ELSE getKeys(s, provider)

\* With no healthy key among those asked for, all of the pool may be asked for,
\* also those beside the candidateKeys.
Offered(options, asked, any) ==
    IF asked.healthyKeys = <<>> /\ options.fallbackToAnyProvider /\ any.healthyKeys # <<>>
    THEN any ELSE asked

recordUsage(s, id) == [s EXCEPT !.usage[id] = @ + 1]

\* What may come of a call: when to come again, if there is no healthy key, or
\* one of those that may be taken, with the selector afterwards.
Exhausted(s, triage) ==
    { [key |-> NoKey, totalKeys |-> triage.totalKeys,
       retryAfterSeconds |-> triage.minRetryAfterSeconds, selector |-> s] }
Selected(s, triage, choices) ==
    { [key |-> taken.key, totalKeys |-> triage.totalKeys, retryAfterSeconds |-> 0,
       selector |-> [recordUsage(s, taken.key.id) EXCEPT !.index = taken.index]] :
      taken \in choices }

selectKey(s, provider, options) ==
    LET cost == options.costMicrodollars
        triage == Offered(options, triageKeys(s, Asked(s, provider, options), cost),
                          triageKeys(s, s.keys, cost))
        healthy == triage.healthyKeys
    IN IF healthy = <<>> THEN Exhausted(s, triage)
       ELSE Selected(s, triage, Dispatch(s, options.strategy, Head(healthy).provider, healthy))

selectKeySync(s, provider, options) ==
    LET cost == options.costMicrodollars
        triage == Offered(options, triageKeysSync(s, Asked(s, provider, options), cost),
                          triageKeysSync(s, s.keys, cost))
        healthy == triage.healthyKeys
    IN IF healthy = <<>> THEN Exhausted(s, triage)
       ELSE Selected(s, triage, DispatchSync(s, options.strategy, Head(healthy).provider, healthy))

getCapacitySummary(s, provider) ==
    LET keys == getKeys(s, provider)
        SumOf(Of(_)) == FoldLeft(LAMBDA sum, k : sum + Of(k), 0, keys)
        total == SumOf(LAMBDA k : k.rpmLimit)
        current == SumOf(LAMBDA k : IF s.guarded THEN calculateRpm(s.limiters[k.id], s.now) ELSE 0)
    IN [totalKeys |-> Len(keys), healthyKeys |-> Len(triageKeys(s, keys, 0).healthyKeys),
        totalRpmLimit |-> total, currentRpm |-> current,
        remainingRpm |-> Max({0, total - current}),
        utilizationPercent |-> IF total = 0 THEN 0
                               ELSE Min({100, (200 * current + total) \div (2 * total)})]

-----------------------------------------------------------------------------
(* What a selector promises; MCCascade says of which selectors *)

\* A client that is told to come back is not told too late: until then no key
\* of the provider becomes healthy by waiting.
WaitNeverTooLong(s, provider, cost) ==
    LET at(ms) == triageKeys([s EXCEPT !.now = @ + ms], getKeys(s, provider), cost) IN
    at(0).healthyKeys = <<>> =>
        \A ms \in 1..(at(0).minRetryAfterSeconds - 1) * MsPerSecond : at(ms).healthyKeys = <<>>

\* Without waiting, a key is held for healthy that is, and beyond those only
\* keys whose records are not in memory.
MemoryIsOptimistic(s, provider, cost) ==
    LET known == Range(triageKeysSync(s, getKeys(s, provider), cost).healthyKeys)
        healthy == Range(triageKeys(s, getKeys(s, provider), cost).healthyKeys)
    IN healthy \subseteq known /\ \A k \in known \ healthy : k.id \notin s.inMemory

\* A call fails only without a healthy key; the key it returns is healthy, of
\* the provider while that has a healthy one, and the best by its strategy.
SelectsTheBest(s, provider, options) ==
    LET Healthy(p) == Range(triageKeys(s, getKeys(s, p), options.costMicrodollars).healthyKeys)
        eligible == IF Healthy(provider) = {} /\ options.fallbackToAnyProvider
                    THEN Healthy("*") ELSE Healthy(provider)
    IN \A outcome \in selectKey(s, provider, options) :
           IF outcome.key = NoKey THEN eligible = {}
           ELSE /\ outcome.key \in eligible
                /\ CASE options.strategy = "priority" ->
                           \A k \in eligible : k.priority <= outcome.key.priority
                     [] options.strategy = "least-used" ->
                           \A k \in eligible : Load(s, outcome.key) <= Load(s, k)
                     [] OTHER -> TRUE

\* With all records in memory nothing need be awaited, but for the least used:
\* the same keys may be selected.
MemoryChoosesAlike(s, provider, options) ==
    DOMAIN s.usage \subseteq s.inMemory /\ options.strategy # "least-used" =>
        {[o EXCEPT !.retryAfterSeconds = 0] : o \in selectKeySync(s, provider, options)}
            = {[o EXCEPT !.retryAfterSeconds = 0] : o \in selectKey(s, provider, options)}

\* As many selections in turn as there are healthy keys take each of them once,
\* but across the wrap of the index.
AllTakeTurns(s, provider) ==
    LET options == [strategy |-> "round-robin", costMicrodollars |-> 0, candidateKeys |-> {},
                    fallbackToAnyProvider |-> FALSE]
        healthy == Range(triageKeys(s, getKeys(s, provider), 0).healthyKeys)
        turns == FoldLeft(LAMBDA d, turn :
                     LET outcome == CHOOSE o \in selectKey(d.selector, provider, options) : TRUE
                     IN [selector |-> outcome.selector, taken |-> d.taken \cup {outcome.key}],
                     [selector |-> s, taken |-> {}], [i \in 1..Cardinality(healthy) |-> i])
    IN s.index[provider] + Cardinality(healthy) <= RRModulus => turns.taken = healthy

\* While the summary shows requests left, and keys are limited as the limiter
\* limits them, some key is below its minute's limit.
CapacityMeansRoom(s, provider) ==
    getCapacitySummary(s, provider).remainingRpm > 0 =>
        \E k \in Range(getKeys(s, provider)) :
            ~s.guarded \/ calculateRpm(s.limiters[k.id], s.now) < k.rpmLimit
=============================================================================
