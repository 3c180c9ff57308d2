--------------------------- MODULE SlidingWindow ---------------------------
(***************************************************************************)
(* The pure operators of the rate limiter                                  *)
(* (durable_objects/rate_limiter/window.ts, data.ts and the decision of    *)
(* limiter.ts).  A key's record is the list of the moments at which it was *)
(* used, one entry per millisecond with a count, and its total cost.       *)
(*                                                                         *)
(* An entry's own cost and the time of the last request are written by the *)
(* code and never read: they are left out.  The record of a key that was   *)
(* never used is the empty one.                                            *)
(***************************************************************************)
EXTENDS Lists, Sequences

CONSTANTS
    MsPerSecond,              \* 1000 in the code
    windowSizeMs,             \* the RPM window, 60 s
    dayWindowMs,              \* the RPD window, 24 h
    rpmLimit, rpdLimit,       \* requests allowed within each
    maxBudgetMicrodollars,    \* total cost allowed; undefined in the code is a
                              \* budget no run can spend
    DefaultRetryAfterSeconds  \* DEFAULT_RETRY_AFTER_SECONDS

ASSUME WindowAssumption ==
    /\ {MsPerSecond, windowSizeMs, rpmLimit, rpdLimit} \subseteq Nat \ {0}
    /\ dayWindowMs \in Nat
    /\ windowSizeMs <= dayWindowMs
    /\ maxBudgetMicrodollars \in Nat
    /\ DefaultRetryAfterSeconds \in Nat

RateLimitEntry == [timestamp : Nat, count : Nat \ {0}]

createDefaultRateLimiterData == [entries |-> <<>>, totalCost |-> 0]

InWindow(e, t, size) == e.timestamp > t - size

-----------------------------------------------------------------------------
\* The entries within the window.
Live(s, t, size) == Through(s, {i \in DOMAIN s : InWindow(s[i], t, size)})

\* The requests counted by some of the entries.
CountAt(s, places) == Total([i \in DOMAIN s |-> s[i].count], places)

-----------------------------------------------------------------------------
\* Wrong: what leaves the RPM window is pruned, the day's counter with it.
pruneExpiredEntriesByMinute(d, t) ==
    [d EXCEPT !.entries = Live(@, t, windowSizeMs)]

pruneExpiredEntries(d, t) == [d EXCEPT !.entries = Live(@, t, dayWindowMs)]

\* The code scans from the newest entry and stops at the first one outside
\* the window.
calculateRpm(d, t) ==
    CountAt(d.entries,
            {i \in DOMAIN d.entries : \A j \in i..Len(d.entries) :
                                          InWindow(d.entries[j], t, windowSizeMs)})

calculateRpd(d, t) ==
    CountAt(d.entries, {i \in DOMAIN d.entries : InWindow(d.entries[i], t, dayWindowMs)})

\* Math.ceil(ms / 1000)
CeilSeconds(ms) == (ms + MsPerSecond - 1) \div MsPerSecond

\* Wrong: the newest entry's exit from the window is announced, not the
\* oldest one's.
retryAfterOfNewest(d, t, size) ==
    LET live == Live(d.entries, t, size)
    IN  IF live = <<>> THEN DefaultRetryAfterSeconds
        ELSE CeilSeconds(live[Len(live)].timestamp + size - t)

\* calculateRpmRetryAfter and calculateRpdRetryAfter: when the oldest entry
\* of the window leaves it.
calculateRetryAfter(d, t, size) ==
    LET live == Live(d.entries, t, size)
    IN  IF live = <<>> THEN DefaultRetryAfterSeconds
        ELSE CeilSeconds(live[1].timestamp + size - t)

\* Wrong: the request that reaches the limit does not block the next one.
checkLimitLate(d, t, cost) ==
    CASE calculateRpm(d, t) > rpmLimit -> "rpm_limit_exceeded"
      [] calculateRpm(d, t) <= rpmLimit /\ calculateRpd(d, t) > rpdLimit ->
            "rpd_limit_exceeded"
      [] OTHER -> IF d.totalCost + cost > maxBudgetMicrodollars
                  THEN "budget_exceeded" ELSE "allowed"

\* The decision of checkLimitDetailed, and of checkLimitSync where the record
\* is in memory.
checkLimit(d, t, cost) ==
    IF calculateRpm(d, t) >= rpmLimit THEN "rpm_limit_exceeded"
    ELSE IF calculateRpd(d, t) >= rpdLimit THEN "rpd_limit_exceeded"
    ELSE IF d.totalCost + cost > maxBudgetMicrodollars THEN "budget_exceeded"
    ELSE "allowed"

\* The retryAfterSeconds that checkLimitDetailed returns.
retryAfterSeconds(d, t, cost) ==
    LET reason == checkLimit(d, t, cost) IN
    IF reason = "rpm_limit_exceeded" THEN calculateRetryAfter(d, t, windowSizeMs)
    ELSE IF reason = "rpd_limit_exceeded" THEN calculateRetryAfter(d, t, dayWindowMs)
    ELSE IF reason = "budget_exceeded" THEN DefaultRetryAfterSeconds
    ELSE 0

\* increment: the cost is added; a request in the same millisecond as the
\* last entry is counted by that entry.
append(d, t, cost) ==
    [entries   |-> IF d.entries # <<>> /\ d.entries[Len(d.entries)].timestamp = t
                   THEN [d.entries EXCEPT ![Len(d.entries)].count = @ + 1]
                   ELSE Append(d.entries, [timestamp |-> t, count |-> 1]),
     totalCost |-> d.totalCost + cost]
=============================================================================
