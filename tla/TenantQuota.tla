---------------------------- MODULE TenantQuota ----------------------------
(***************************************************************************)
(* One tenant's TenantQuotaDO (quota/tenant/tenant_do.ts, evaluator.ts,    *)
(* debt.ts): the sliding-window quota that worker/auth/middleware.ts       *)
(* consumes before each request, and the tenant's debt to the community.   *)
(*                                                                         *)
(* One record holds both and is written to storage as a whole.  Nothing    *)
(* but storage is awaited, so each call is one step (see CircuitBreaker).  *)
(* A call for another tenant is refused by assertTenant.  Costs are left   *)
(* out: they are added up and compared with nothing.  Times are            *)
(* milliseconds.                                                           *)
(*                                                                         *)
(* In this repository no code calls accrueDebt, decrementDebt, setTier and *)
(* reset; they are modelled as the calls the object offers.                *)
(***************************************************************************)
EXTENDS Lists, Sequences

CONSTANTS
    Tiers, DefaultTier,      \* "builder"
    RpmLimit, RpdLimit,      \* per tier; Unlimited for Infinity
    Unlimited,
    Projects, NoProject,
    SubCaps, NoSubCap,       \* projectMaxSubCap
    Counts,                  \* request.count, or the default 1
    RpmWindow, RpdWindow,    \* 60 s and 24 h, in milliseconds
    MsPerSecond,             \* 1000 in the code
    Weights,                 \* amounts of debt accrued or worked off
    TrustDays,               \* debt-free days before a tenant is trusted, 30
    MaxTime, MaxDebt, MaxContributed, MaxDays   \* bounds

ASSUME QuotaAssumption ==
    /\ DefaultTier \in Tiers
    /\ Unlimited \notin Nat
    /\ {RpmLimit, RpdLimit} \subseteq [Tiers -> Nat \cup {Unlimited}]
    /\ NoProject \notin Projects /\ NoSubCap \notin SubCaps
    /\ Counts \subseteq Nat \ {0} /\ SubCaps \subseteq Nat
    /\ {RpmWindow, MsPerSecond} \subseteq Nat \ {0}
    /\ RpdWindow \in Nat /\ RpdWindow >= RpmWindow
    /\ Weights \subseteq Nat \ {0}
    /\ {TrustDays, MaxTime, MaxDebt, MaxContributed, MaxDays} \subseteq Nat

VARIABLES
    isLoaded,
    mem,      \* tier, entries and debt fields of the object
    disk,     \* storage.get("quota:data"); its initial value if absent
    now,
    granted   \* history: the quota granted since the last reset, oldest first

vars == <<isLoaded, mem, disk, now, granted>>

-----------------------------------------------------------------------------
(* debt.ts *)

\* The debt in percent of the day's contribution.
DebtRatio(debt, contributed) ==
    IF contributed > 0 THEN (debt * 100) \div contributed
    ELSE IF debt > 0 THEN 1000 ELSE 0

calculateMultiplierCeiling(debt, contributed, trusted) ==
    LET ratio == DebtRatio(debt, contributed) IN
    CASE ratio > 100 -> 100
      [] ratio > 50 /\ ratio <= 100 -> 150
      [] OTHER -> IF trusted THEN 500 ELSE 450

determineJailStatus(debt, ceiling) ==
    CASE debt > 0 /\ ceiling = 100 -> "HARD_JAIL"
      [] debt > 0 /\ ceiling = 150 -> "SOFT_WARNING"
      [] OTHER -> "PRISTINE"

\* updateMultiplierCeiling
WithCeiling(d) ==
    [d EXCEPT !.ceiling = calculateMultiplierCeiling(d.debt, d.contributed, d.trusted)]

\* Wrong: the ceiling is computed before trust is withdrawn.
processDailyDebtResetStale(d) ==
    [d EXCEPT !.contributed = 0,
              !.days = IF d.debt = 0 THEN @ + 1 ELSE 0,
              !.trusted = IF d.debt = 0 THEN @ \/ d.days + 1 > TrustDays ELSE FALSE,
              !.debt = @ - (2 * @) \div 10,
              !.ceiling = calculateMultiplierCeiling(d.debt, d.contributed, d.trusted)]

\* Wrong: a day in debt does not start the count of days anew.
processDailyDebtResetKeepsDays(d) ==
    WithCeiling(
        [d EXCEPT !.contributed = 0,
                  !.days = IF d.debt = 0 THEN @ + 1 ELSE @,
                  !.trusted = @ \/ d.days + 1 > TrustDays,
                  !.debt = @ - (2 * @) \div 10])

\* A day without debt counts towards trust; a day in debt ends it, and the
\* debt decays by a fifth, for trust was withdrawn before the rate is chosen.
processDailyDebtReset(d) ==
    WithCeiling(
        IF d.debt = 0
        THEN [d EXCEPT !.contributed = 0, !.days = @ + 1,
                       !.trusted = @ \/ d.days + 1 > TrustDays]
        ELSE [d EXCEPT !.contributed = 0, !.days = 0, !.trusted = FALSE,
                       !.debt = @ - (2 * @) \div 10])

-----------------------------------------------------------------------------
(* evaluator.ts *)

\* The places of the entries in the window that ends at time t.
Within(entries, t, window) ==
    {i \in DOMAIN entries : entries[i].timestamp > t - window}

\* What is left of a list at time t: the entries of the day.
PruneAt(entries, t) == Through(entries, Within(entries, t, RpdWindow))
Prune(entries) == PruneAt(entries, now)

\* The units that the entries at some places stand for.
CountAt(entries, places) == Total([i \in DOMAIN entries |-> entries[i].count], places)

\* Wrong: an entry counts as one, whatever was asked for.
calculateUsageOfEntries(entries, window) == Cardinality(Within(entries, now, window))

calculateUsage(entries, window) == CountAt(entries, Within(entries, now, window))

calculateProjectUsage(entries, p) ==
    CountAt(entries, {i \in Within(entries, now, RpmWindow) : entries[i].project = p})

\* Wrong: the second that is under way is taken for over.
SecondsToWaitFloor(ms) == Max({1, ms \div MsPerSecond})

\* Math.max(1, Math.ceil(ms / 1000))
SecondsToWait(ms) == Max({1, (ms + MsPerSecond - 1) \div MsPerSecond})

\* Seconds until the first entry in the window leaves it; 60 if there is none
\* (a request for more than the whole limit).
calculateRpmRetryAfter(entries) ==
    LET recent == Within(entries, now, RpmWindow) IN
    IF recent = {} THEN 60
    ELSE SecondsToWait(entries[Min(recent)].timestamp + RpmWindow - now)

Exceeds(n, limit) == limit # Unlimited /\ n > limit

\* calculateProjectQuota: the smaller of the tier's limit and the sub-cap.
calculateProjectQuota(tier, cap) ==
    IF cap = NoSubCap THEN RpmLimit[tier]
    ELSE IF RpmLimit[tier] = Unlimited \/ cap < RpmLimit[tier] THEN cap
    ELSE RpmLimit[tier]

RpmExceeded(entries, tier, count) ==
    Exceeds(calculateUsage(entries, RpmWindow) + count, RpmLimit[tier])

RpdExceeded(entries, tier, count) ==
    Exceeds(calculateUsage(entries, RpdWindow) + count, RpdLimit[tier])

ProjectExceeded(entries, tier, p, cap, count) ==
    /\ p # NoProject
    /\ Exceeds(calculateProjectUsage(entries, p) + count,
               calculateProjectQuota(tier, cap))

-----------------------------------------------------------------------------
(* The object *)

initialData ==
    [ tier |-> DefaultTier, entries |-> <<>>, debt |-> 0, contributed |-> 0,
      trusted |-> FALSE, days |-> 0, ceiling |-> 150 ]

\* ensureLoaded
Loaded == IF isLoaded THEN mem
          ELSE [disk EXCEPT !.entries = Prune(@)]

Init ==
    /\ isLoaded = FALSE
    /\ mem = initialData
    /\ disk = initialData
    /\ now = 0
    /\ granted = <<>>

persist(d) ==
    /\ isLoaded' = TRUE
    /\ mem' = [d EXCEPT !.entries = Prune(@)]
    /\ disk' = mem'

\* A call that only reads, and consumeQuota refused or with checkOnly: the
\* record is loaded and pruned, and not stored.
Read ==
    /\ isLoaded' = TRUE
    /\ mem' = [Loaded EXCEPT !.entries = Prune(@)]
    /\ UNCHANGED <<disk, now, granted>>

\* consumeQuota, granted.  A request may name the tier; the middleware leaves
\* it to the object.  A sub-cap without a project is unused.
consumeQuota(tier, p, cap, count) ==
    LET entries == Prune(Loaded.entries)
        entry == [timestamp |-> now, count |-> count, project |-> p] IN
    /\ p = NoProject => cap = NoSubCap
    /\ ~RpmExceeded(entries, tier, count)
    /\ ~RpdExceeded(entries, tier, count)
    /\ ~ProjectExceeded(entries, tier, p, cap, count)
    /\ persist([Loaded EXCEPT !.entries = Append(entries, entry)])
    /\ granted' = Append(granted, [timestamp |-> now, count |-> count,
                                   project |-> p, tier |-> tier, cap |-> cap])
    /\ UNCHANGED now

setTier(tier) ==
    /\ persist([Loaded EXCEPT !.tier = tier])
    /\ UNCHANGED <<now, granted>>

reset ==
    /\ persist([Loaded EXCEPT !.entries = <<>>])
    /\ granted' = <<>>
    /\ UNCHANGED now

accrueDebt(w) ==
    /\ Loaded.debt + w <= MaxDebt
    /\ persist(WithCeiling([Loaded EXCEPT !.debt = @ + w]))
    /\ UNCHANGED <<now, granted>>

decrementDebt(w) ==
    /\ Loaded.contributed + w <= MaxContributed
    /\ persist(WithCeiling([Loaded EXCEPT !.debt = IF @ > w THEN @ - w ELSE 0,
                                          !.contributed = @ + w]))
    /\ UNCHANGED <<now, granted>>

\* The alarm at midnight, which the runtime delivers at least once.
alarm ==
    /\ Loaded.debt = 0 => Loaded.days < MaxDays
    /\ persist(processDailyDebtReset(Loaded))
    /\ UNCHANGED <<now, granted>>

\* The runtime drops the object's memory, or clearMemoryCache does.
Evict ==
    /\ isLoaded' = FALSE
    /\ mem' = initialData
    /\ UNCHANGED <<disk, now, granted>>

Tick ==
    /\ now < MaxTime
    /\ now' = now + 1
    /\ granted' = PruneAt(granted, now')
    /\ UNCHANGED <<isLoaded, mem, disk>>

Next ==
    \/ Read
    \/ \E tier \in Tiers :
          \/ \E p \in Projects \cup {NoProject}, cap \in SubCaps \cup {NoSubCap},
                count \in Counts : consumeQuota(tier, p, cap, count)
          \/ setTier(tier)
    \/ reset
    \/ \E w \in Weights : accrueDebt(w) \/ decrementDebt(w)
    \/ alarm
    \/ Evict
    \/ Tick

Spec == Init /\ [][Next]_vars

-----------------------------------------------------------------------------
Data ==
    [ tier : Tiers,
      entries : Seq([timestamp : 0..now, count : Counts,
                     project : Projects \cup {NoProject}]),
      debt : 0..MaxDebt, contributed : 0..MaxContributed, trusted : BOOLEAN,
      days : 0..MaxDays, ceiling : {100, 150, 450, 500} ]

\* The type of each variable.
TypeOK ==
    /\ isLoaded \in BOOLEAN
    /\ mem \in Data /\ disk \in Data
    /\ now \in Nat
    /\ granted \in Seq([timestamp : 0..now, count : Counts,
                       project : Projects \cup {NoProject},
                       tier : Tiers, cap : SubCaps \cup {NoSubCap}])

\* The state is well typed, and an eviction changes neither the quota that is
\* left nor the debt, although a refused request prunes the memory and not the
\* storage.
EvictionTransparent ==
    /\ TypeOK
    /\ isLoaded => [mem EXCEPT !.entries = Prune(@)] = [disk EXCEPT !.entries = Prune(@)]

\* The grants in the window that ends with the j-th of them.
UpTo(grants, j, window) == {i \in 1..j : grants[i].timestamp > grants[j].timestamp - window}

\* When the j-th was granted, no limit of its tier and project was passed.
LimitsKept(grants, j) ==
    LET g == grants[j]
        ofProject == {i \in UpTo(grants, j, RpmWindow) : grants[i].project = g.project} IN
    /\ ~Exceeds(CountAt(grants, UpTo(grants, j, RpmWindow)), RpmLimit[g.tier])
    /\ ~Exceeds(CountAt(grants, UpTo(grants, j, RpdWindow)), RpdLimit[g.tier])
    /\ g.project # NoProject =>
         ~Exceeds(CountAt(grants, ofProject), calculateProjectQuota(g.tier, g.cap))

\* At no grant had the tenant been granted more than its tier allows in the
\* minute and in the day before, nor a project more than its sub-cap, through
\* evictions, pruning, refusals and changes of tier.
NeverOvergranted == \A j \in DOMAIN granted : LimitsKept(granted, j)

\* A request for one, refused because the minute's limit of its tier is used
\* up, is not refused for that limit after as many seconds as it was told to
\* wait, and still is after one fewer, whatever the millisecond it came at.
RetryAfterExact ==
    LET entries == Prune(Loaded.entries)
        r == calculateRpmRetryAfter(entries)
        usageAt(t) == CountAt(entries, Within(entries, t, RpmWindow)) IN
    \A limit \in {RpmLimit[tier] : tier \in Tiers} \ {0} :
        calculateUsage(entries, RpmWindow) = limit =>
            /\ ~Exceeds(usageAt(now + r * MsPerSecond) + 1, limit)
            /\ Exceeds(usageAt(now + (r - 1) * MsPerSecond) + 1, limit)

\* The ceiling that the object caches is the one of its debt, whatever changed
\* last, and a tenant is trusted only after more than TrustDays days without
\* debt: the debt of a trusted tenant is younger than the last midnight.
CoherentDebt(d) ==
    /\ d.ceiling = calculateMultiplierCeiling(d.debt, d.contributed, d.trusted)
         \/ d = [initialData EXCEPT !.tier = d.tier, !.entries = d.entries]
    /\ d.trusted => d.days > TrustDays
    /\ determineJailStatus(d.debt, d.ceiling) = "HARD_JAIL" <=>
           d.debt > 0 /\ 100 * d.debt >= 101 * d.contributed

DebtCoherent == CoherentDebt(Loaded)

\* Both: the record survives evictions and what is cached in it is current
\* (tenant_do.ts: load and persist around every change of debt.ts).
RecordExact == EvictionTransparent /\ DebtCoherent
=============================================================================
