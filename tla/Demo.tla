-------------------------------- MODULE Demo --------------------------------
(***************************************************************************)
(* The demo sandbox: one Durable Object for everybody without an account   *)
(* (auth/demo/do.ts, sandbox.ts, storage.ts).  It hands out one token for  *)
(* all, replaced by an alarm every ROTATION, and counts requests per       *)
(* address and in all.                                                     *)
(*                                                                         *)
(* The token is kept in memory and in storage under two keys, written one  *)
(* after the other; the alarm is set last.  The counts are in memory only. *)
(* Storage awaits keep other events out, so a rotation is one step, unless *)
(* the object is lost on the way: then some of its writes have landed.     *)
(* The runtime delivers an alarm at least once: it is repeated until its   *)
(* handler ends.                                                           *)
(*                                                                         *)
(* The names that TenantQuota has as well begin with Demo here, so that    *)
(* TenantQuotaProofs can extend both.                                      *)
(***************************************************************************)
EXTENDS Lists, Sequences

CONSTANTS
    Ips,
    IpRpmLimit, IpRpdLimit, GlobalRpmLimit, GlobalRpdLimit,
    MINUTE, DAY,
    ROTATION,      \* rotationIntervalMs
    STALE,         \* stalePruneMs
    MaxClock, MaxTokens, MaxEvictions,   \* bounds
    NONE

ASSUME DemoAssumption ==
    /\ {IpRpmLimit, IpRpdLimit, GlobalRpmLimit, GlobalRpdLimit} \subseteq Nat \ {0}
    /\ {MINUTE, DAY, ROTATION, STALE, MaxClock, MaxTokens, MaxEvictions} \subseteq Nat \ {0}
    /\ MINUTE <= STALE /\ STALE <= DAY
    /\ NONE \notin Nat \cup Seq(Nat)

VARIABLES
    clock,
    up,            \* the object is in memory and initialized
    currentToken, tokenExpiresAt,      \* in memory
    ipSlidingWindows,                  \* per address, times; NONE without entry
    globalTimestamps,
    storage,       \* [token, expiry]: what is stored under the two keys
    alarmAt,       \* when the next alarm is due; NONE
    firing,        \* an alarm is being delivered and its handler has not ended
    issued,        \* how many tokens were generated; they are numbered
    evictions,
    log,           \* history: admitted requests since the object was built
    promise        \* history: the answer to GET /token, until a new token

memory == <<currentToken, tokenExpiresAt, ipSlidingWindows, globalTimestamps>>
demoVars == <<clock, up, memory, storage, alarmAt, firing, issued, evictions, log, promise>>

-----------------------------------------------------------------------------
(* DemoSandbox *)

Recent(times, span) == Through(times, {i \in DOMAIN times : times[i] > clock - span})

Times(ip) == IF ipSlidingWindows[ip] = NONE THEN <<>> ELSE ipSlidingWindows[ip]

\* Wrong: the window of a day is compared with the limit of a minute.
checkRateLimitMixed(ip) ==
    /\ Len(Recent(Times(ip), MINUTE)) < IpRpmLimit
    /\ Len(Recent(Times(ip), MINUTE)) < IpRpdLimit
    /\ Len(Recent(globalTimestamps, MINUTE)) < GlobalRpmLimit
    /\ Len(Recent(globalTimestamps, DAY)) < GlobalRpdLimit

\* checkRateLimit: four windows, in this order.
checkRateLimit(ip) ==
    /\ Len(Recent(Times(ip), MINUTE)) < IpRpmLimit
    /\ Len(Recent(Times(ip), DAY)) < IpRpdLimit
    /\ Len(Recent(globalTimestamps, MINUTE)) < GlobalRpmLimit
    /\ Len(Recent(globalTimestamps, DAY)) < GlobalRpdLimit

\* recordRequest of an admitted request.
recordRequest(ip) ==
    /\ globalTimestamps' = Append(Recent(globalTimestamps, DAY), clock)
    /\ ipSlidingWindows' =
           [ipSlidingWindows EXCEPT ![ip] = Append(Recent(Times(ip), DAY), clock)]

\* pruneStaleWindows: addresses whose last request was before now - STALE.
pruneStaleWindows(windows) ==
    [ip \in Ips |->
        IF windows[ip] # NONE /\ windows[ip][Len(windows[ip])] < clock - STALE
        THEN NONE ELSE windows[ip]]

validateDemoToken(token) == token = currentToken /\ clock < tokenExpiresAt

NoWindows == [ip \in Ips |-> NONE]

-----------------------------------------------------------------------------
(* DemoDO *)

DemoInit ==
    /\ clock = 0
    /\ up = FALSE
    /\ currentToken = 0 /\ tokenExpiresAt = 0
    /\ ipSlidingWindows = NoWindows
    /\ globalTimestamps = <<>>
    /\ storage = [token |-> NONE, expiry |-> NONE]
    /\ alarmAt = NONE
    /\ firing = FALSE
    /\ issued = 0
    /\ evictions = 0
    /\ log = <<>>
    /\ promise = NONE

FreshToken == issued + 1

\* Wrong: the alarm is left to the constructor.
rotateTokenOnce(windows) ==
    /\ issued < MaxTokens
    /\ issued' = FreshToken
    /\ currentToken' = FreshToken /\ tokenExpiresAt' = clock + ROTATION
    /\ storage' = [token |-> FreshToken, expiry |-> clock + ROTATION]
    /\ ipSlidingWindows' = pruneStaleWindows(windows)
    /\ promise' = NONE
    /\ UNCHANGED alarmAt

\* rotateToken, to its end: the token in memory, its two keys, the windows,
\* the alarm.
rotateToken(windows) ==
    /\ issued < MaxTokens
    /\ issued' = FreshToken
    /\ currentToken' = FreshToken /\ tokenExpiresAt' = clock + ROTATION
    /\ storage' = [token |-> FreshToken, expiry |-> clock + ROTATION]
    /\ ipSlidingWindows' = pruneStaleWindows(windows)
    /\ promise' = NONE
    /\ alarmAt' = clock + ROTATION

\* What storage holds is of use: both keys are there and the time is not over.
Restorable == storage.token # NONE /\ storage.expiry # NONE /\ storage.expiry > clock

\* Wrong: a stored token is good for a whole interval again.
ensureInitializedAnew ==
    IF Restorable
    THEN /\ currentToken' = storage.token /\ tokenExpiresAt' = clock + ROTATION
         /\ alarmAt' = tokenExpiresAt'
         /\ UNCHANGED <<ipSlidingWindows, storage, issued, promise>>
    ELSE rotateToken(NoWindows)

\* ensureInitialized: the stored token if its time is not over, or a new one.
ensureInitialized ==
    IF Restorable
    THEN /\ currentToken' = storage.token /\ tokenExpiresAt' = storage.expiry
         /\ alarmAt' = storage.expiry
         /\ UNCHANGED <<ipSlidingWindows, storage, issued, promise>>
    ELSE rotateToken(NoWindows)

\* The constructor, before any event is delivered.
Boot ==
    /\ ~up
    /\ up' = TRUE
    /\ ensureInitialized
    /\ UNCHANGED <<clock, globalTimestamps, firing, evictions, log>>

\* The memory is lost, and the count of what it has admitted with it.
Forget ==
    /\ evictions < MaxEvictions
    /\ evictions' = evictions + 1
    /\ up' = FALSE
    /\ currentToken' = 0 /\ tokenExpiresAt' = 0
    /\ ipSlidingWindows' = NoWindows /\ globalTimestamps' = <<>>
    /\ log' = <<>>

\* Evicted between two events.
DemoEvict ==
    /\ up
    /\ Forget
    /\ UNCHANGED <<clock, storage, alarmAt, firing, issued, promise>>

\* Lost in the middle of a rotation, after one or two of its three writes.
LostInRotation ==
    /\ ~(~up /\ Restorable)
    /\ issued < MaxTokens
    /\ issued' = FreshToken
    /\ \/ storage' = [storage EXCEPT !.token = FreshToken]
       \/ storage' = [token |-> FreshToken, expiry |-> clock + ROTATION]
    /\ promise' = NONE
    /\ Forget
    /\ UNCHANGED <<clock, alarmAt, firing>>

\* The alarm is due; it is no longer set, and its handler has to run.
Deliver ==
    /\ alarmAt # NONE /\ alarmAt <= clock /\ ~firing
    /\ firing' = TRUE
    /\ alarmAt' = NONE
    /\ UNCHANGED <<clock, up, memory, storage, issued, evictions, log, promise>>

\* alarm
rotationAlarm ==
    /\ up /\ firing
    /\ rotateToken(ipSlidingWindows)
    /\ firing' = FALSE
    /\ UNCHANGED <<clock, up, globalTimestamps, evictions, log>>

\* POST /rotate
rotate ==
    /\ up
    /\ rotateToken(ipSlidingWindows)
    /\ UNCHANGED <<clock, up, globalTimestamps, firing, evictions, log>>

\* GET /token, for the worker's /v1/demo/token.
getActiveDemoToken ==
    /\ up
    /\ promise' = [token |-> currentToken, expiresAt |-> tokenExpiresAt]
    /\ UNCHANGED <<clock, up, memory, storage, alarmAt, firing, issued, evictions, log>>

\* POST /consume, for authenticate.  A token that is not the current one, or a
\* full window, changes nothing; nor do /limits and /verify.
checkAndConsume(ip, token) ==
    /\ up
    /\ validateDemoToken(token)
    /\ checkRateLimit(ip)
    /\ recordRequest(ip)
    /\ log' = Append(log, [ip |-> ip, at |-> clock])
    /\ UNCHANGED <<clock, up, currentToken, tokenExpiresAt, storage, alarmAt, firing,
                   issued, evictions, promise>>

\* Time passes.
DemoTick ==
    /\ clock < MaxClock
    /\ clock' = clock + 1
    /\ UNCHANGED <<up, memory, storage, alarmAt, firing, issued, evictions, log, promise>>

DemoNext ==
    \/ Boot \/ DemoEvict \/ LostInRotation
    \/ Deliver \/ rotationAlarm \/ rotate
    \/ getActiveDemoToken
    \/ \E ip \in Ips, token \in 1..issued : checkAndConsume(ip, token)
    \/ DemoTick

\* The runtime starts the object and repeats an alarm until it is handled,
\* although the object may be lost again and again.
Fairness == WF_demoVars(Deliver) /\ WF_demoVars(Boot) /\ SF_demoVars(rotationAlarm)

DemoSpec == DemoInit /\ [][DemoNext]_demoVars /\ Fairness

-----------------------------------------------------------------------------
\* The types of the variables; an address with a window has an entry in it
\* (recordRequest, pruneStaleWindows).
DemoTypeOK ==
    /\ clock \in 0..MaxClock /\ up \in BOOLEAN /\ firing \in BOOLEAN
    /\ currentToken \in 0..issued /\ issued \in 0..MaxTokens
    /\ tokenExpiresAt \in 0..(MaxClock + ROTATION)
    /\ \A ip \in Ips : ipSlidingWindows[ip] # NONE =>
           ipSlidingWindows[ip] \in Seq(0..clock) \ {<<>>}
    /\ globalTimestamps \in Seq(0..clock)
    /\ alarmAt \in 0..(MaxClock + ROTATION) \cup {NONE}

\* Of the requests of a list, those in the span that ends with the i-th.
Span(times, i, span) == {j \in 1..i : times[j] > times[i] - span}

AtMostIn(times, span, limit) ==
    \A i \in 1..Len(times) : Cardinality(Span(times, i, span)) <= limit

Admitted == [i \in 1..Len(log) |-> log[i].at]

AdmittedTo(ip) == Through(Admitted, {i \in DOMAIN log : log[i].ip = ip})

\* Between any two of the times the address was never silent for STALE.
Steady(times, i, j) == \A k \in i..(j - 1) : times[k + 1] - times[k] <= STALE

\* The windows of sandbox.ts: no minute and no day since the object was built
\* has admitted more than the limits, of all requests or, in a minute, of one
\* address; and an address gets past its limit of a day only by staying away so
\* long that it is forgotten, whatever rotations have pruned in between.
CapsHold ==
    /\ DemoTypeOK
    /\ AtMostIn(Admitted, MINUTE, GlobalRpmLimit)
    /\ AtMostIn(Admitted, DAY, GlobalRpdLimit)
    /\ \A ip \in Ips :
           LET times == AdmittedTo(ip) IN
           /\ AtMostIn(times, MINUTE, IpRpmLimit)
           /\ \A i, j \in 1..Len(times) :
                  /\ i <= j /\ times[j] - times[i] < DAY
                  /\ Steady(times, i, j)
                  => j - i + 1 <= IpRpdLimit

\* A token that was handed out keeps its time: as long as no other is made, it
\* is the one that the object accepts, until the second that the client was
\* told and no longer, also by an object that has lost its memory meanwhile.
PromiseKept ==
    up /\ promise # NONE =>
        currentToken = promise.token /\ tokenExpiresAt = promise.expiresAt

\* An expired token is replaced in the end (unless the model's tokens run out),
\* however often the object is lost on the way.
ExpiredIsReplaced ==
    (up /\ clock >= tokenExpiresAt) ~> (clock < tokenExpiresAt \/ issued = MaxTokens)
=============================================================================
