---------------------------- MODULE RateLimiter ----------------------------
(***************************************************************************)
(* The sliding-window rate limiter of a KeyPoolDO                          *)
(* (durable_objects/rate_limiter/limiter.ts).  Each key's record is in the *)
(* object's memory map and, written by increment and reset only, in        *)
(* durable storage; loading prunes the memory's copy alone.                *)
(*                                                                         *)
(* The check and the increment are two calls: the key selector checks when *)
(* it hands the key out, and the worker reports the use after the upstream *)
(* call (KeyPoolDO.recordUsage).  Between the two the object is open to    *)
(* other requests and to eviction; a report can be lost, or applied twice  *)
(* (the worker's client repeats over fetch a call whose RPC failed).       *)
(* Each call awaits storage only, so it is one step (see CircuitBreaker).  *)
(***************************************************************************)
EXTENDS SlidingWindow

CONSTANTS
    Keys,              \* ids of the API keys
    Costs,             \* costs a report may carry
    ReportsPerRequest, \* how often one request may be reported
    MaxPending,        \* bound: reports outstanding for one key
    MaxRecords,        \* bound: reports of one key in the modelled run
    MaxTime            \* bound: last millisecond of the modelled run

ASSUME BoundAssumption ==
    /\ Costs \subseteq Nat
    /\ ReportsPerRequest \in Nat \ {0}
    /\ {MaxPending, MaxRecords, MaxTime} \subseteq Nat

VARIABLES
    loaded,   \* keys that have a record in the memory map
    mem,      \* memory.get(key); the empty record where nothing is loaded
    disk,     \* storage.get("rl:" + key); an absent record reads as empty
    now,      \* Date.now()
    pending,  \* reports still to come for requests let through, per key
    log       \* history: the reports counted since the last reset

vars == <<loaded, mem, disk, now, pending, log>>

-----------------------------------------------------------------------------
\* What getData returns: the loaded record without the entries of past days.
View(k) ==
    pruneExpiredEntries(IF k \in loaded THEN mem[k] ELSE disk[k], now)

\* getData's side effect: the pruned record enters the memory.
getData(k) ==
    /\ loaded' = loaded \cup {k}
    /\ mem' = [mem EXCEPT ![k] = View(k)]
    /\ UNCHANGED disk

\* Wrong: the counter is kept in memory only.
StoreUnpersisted(k, d) ==
    /\ loaded' = loaded \cup {k}
    /\ mem' = [mem EXCEPT ![k] = d]
    /\ UNCHANGED disk

\* memory.set and persist.
Store(k, d) ==
    /\ loaded' = loaded \cup {k}
    /\ mem' = [mem EXCEPT ![k] = d]
    /\ disk' = [disk EXCEPT ![k] = d]

Init ==
    /\ loaded = {}
    /\ mem = [k \in Keys |-> createDefaultRateLimiterData]
    /\ disk = [k \in Keys |-> createDefaultRateLimiterData]
    /\ now = 0
    /\ pending = [k \in Keys |-> 0]
    /\ log = [k \in Keys |-> <<>>]

\* The getters, getMetrics, and a check whose caller sends no request.
Read(k) ==
    /\ getData(k)
    /\ UNCHANGED <<now, pending, log>>

\* checkLimitDetailed allows a request of the given cost, and it is sent.
Admit(k, cost) ==
    /\ checkLimit(View(k), now, cost) = "allowed"
    /\ pending[k] + ReportsPerRequest <= MaxPending
    /\ getData(k)
    /\ pending' = [pending EXCEPT ![k] = @ + ReportsPerRequest]
    /\ UNCHANGED <<now, log>>

\* getDataSync and checkLimitSync: what is in memory is pruned.
ReadSync(k) ==
    /\ k \in loaded
    /\ mem' = [mem EXCEPT ![k] = View(k)]
    /\ UNCHANGED <<loaded, disk, now, pending, log>>

increment(k, cost) ==
    /\ pending[k] > 0
    /\ Len(log[k]) < MaxRecords
    /\ Store(k, pruneExpiredEntries(append(View(k), now, cost), now))
    /\ pending' = [pending EXCEPT ![k] = @ - 1]
    /\ log' = [log EXCEPT ![k] = Append(@, [timestamp |-> now, cost |-> cost])]
    /\ UNCHANGED now

\* A report that never arrives.
DropReport(k) ==
    /\ pending[k] > 0
    /\ pending' = [pending EXCEPT ![k] = @ - 1]
    /\ UNCHANGED <<loaded, mem, disk, now, log>>

reset(k) ==
    /\ Store(k, createDefaultRateLimiterData)
    /\ log' = [log EXCEPT ![k] = <<>>]
    /\ UNCHANGED <<now, pending>>

\* The runtime drops the object's memory; clearMemoryCache does the same.
Evict ==
    /\ loaded' = {}
    /\ mem' = [k \in Keys |-> createDefaultRateLimiterData]
    /\ UNCHANGED <<disk, now, pending, log>>

Tick ==
    /\ now < MaxTime
    /\ now' = now + 1
    /\ UNCHANGED <<loaded, mem, disk, pending, log>>

Next ==
    \/ \E k \in Keys :
          \/ Read(k)
          \/ \E cost \in Costs : Admit(k, cost)
          \/ ReadSync(k)
          \/ \E cost \in Costs : increment(k, cost)
          \/ DropReport(k)
          \/ reset(k)
    \/ Evict
    \/ Tick

Spec == Init /\ [][Next]_vars

-----------------------------------------------------------------------------
RateLimiterData == [entries : Seq(RateLimitEntry), totalCost : Nat]

\* The variables hold what the code's types say, and only loaded keys have a
\* record in memory.
TypeOK ==
    /\ loaded \subseteq Keys
    /\ mem \in [Keys -> RateLimiterData]
    /\ disk \in [Keys -> RateLimiterData]
    /\ now \in 0..MaxTime
    /\ pending \in [Keys -> 0..MaxPending]
    /\ log \in [Keys -> Seq([timestamp : 0..MaxTime, cost : Costs])]
    /\ \A k \in Keys \ loaded : mem[k] = createDefaultRateLimiterData

\* The reports of a key within a window that ends at time t.
Recorded(k, t, size) ==
    {i \in DOMAIN log[k] : InWindow(log[k][i], t, size)}

\* The record is well typed, and whatever was merged into one entry, pruned,
\* evicted and loaded again, the two counters are the numbers of reports within
\* the last minute and day, and the cost is that of all reports since the reset
\* (getCurrentRpm, getCurrentRpd, getAccumulatedCost): the stored record, once
\* loaded and pruned, is the one in memory.
CountsExact ==
    /\ TypeOK
    /\ \A k \in Keys :
        /\ calculateRpm(View(k), now) = Cardinality(Recorded(k, now, windowSizeMs))
        /\ calculateRpd(View(k), now) = Cardinality(Recorded(k, now, dayWindowMs))
        /\ View(k).totalCost = Total([i \in DOMAIN log[k] |-> log[k][i].cost], DOMAIN log[k])
    /\ \A k \in loaded : View(k) = pruneExpiredEntries(disk[k], now)

\* Requests are counted when they are reported, not when they are let
\* through: both counters can pass their limit, but by fewer than the reports
\* that may be outstanding.
OvershootBounded ==
    \A k \in Keys :
        /\ Cardinality(Recorded(k, now, windowSizeMs)) + pending[k]
              < rpmLimit + MaxPending
        /\ Cardinality(Recorded(k, now, dayWindowMs)) + pending[k]
              < rpdLimit + MaxPending

\* The oldest report of the window of the given size leaves it within the
\* second that ends r seconds from now.
LeavesWithin(k, size, r) ==
    /\ Recorded(k, now + r * MsPerSecond, size) # Recorded(k, now, size)
    /\ Recorded(k, now + (r - 1) * MsPerSecond, size) = Recorded(k, now, size)

\* The retryAfterSeconds of a refused request is right to the second: a second
\* earlier nothing has left the window that refused it, and by then something
\* has (calculateRpmRetryAfter, calculateRpdRetryAfter).
RetryAfterExact ==
    \A k \in Keys :
        LET r == retryAfterSeconds(View(k), now, 0)
        IN  /\ checkLimit(View(k), now, 0) = "rpm_limit_exceeded"
                  => LeavesWithin(k, windowSizeMs, r)
            /\ checkLimit(View(k), now, 0) = "rpd_limit_exceeded"
                  => LeavesWithin(k, dayWindowMs, r)
=============================================================================
