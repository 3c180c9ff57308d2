# Key Collective: a TLA+ model

Key Collective is a router for language-model requests that runs on Cloudflare Workers.
Tenants pool the API keys of many providers; a worker authenticates a request, charges the
tenant's quota, chooses candidate models, takes a key from the tenant's key pool, calls the
provider, falls back to the next candidate when a call fails, and reports what happened.
Its state is in Durable Objects (memory plus storage), in a D1 database, and, for the
dashboard, in a browser.

This directory holds TLA+ modules of these parts, TLC configurations that check them on
small instances, and proofs checked by TLAPS. Source paths below are relative to `src/src/`
of the repository, unless they begin with `ui/`. `PROJECT.json` maps each definition to the
lines it models and lists the hazards each property is about.

## The system

| Part | State | Operations | Talks to |
|---|---|---|---|
| Circuit breaker, `durable_objects/circuit_breaker/` | per key: state, two counts, openedAt; in memory and in storage | canExecute, recordSuccess / Failure / Result / StatusCode, trip, reset, getters | key selector reads it, workers report to it |
| Rate limiter, `durable_objects/rate_limiter/` | per key: entries (time, count), total cost; in memory and in storage | checkLimit, increment, reset, getters | as above |
| Key pool, `durable_objects/key_pool/` and `key_selector/` | key list in the object, in its selector, in storage, in D1; round-robin index | ensureLoaded, addKey(s), setKeys, removeKey, clearKeys, getKey, recordUsage / Result | D1, breaker, limiter, worker |
| Models: registry, capability filter, candidate evaluator, `router/registry/`, `capability/`, `cascade/evaluator.ts` | the table of models in a worker's memory | register, unregister, aliases, requirements, audit, sort, candidates | cascade |
| Cascade router and upstream client, `router/cascade/`, `proxy/upstream/`, `proxy/sse/`, `proxy/cost_calculator.ts` | per request: candidate, key, what it waits for; per stream: buffer, event, usage | route, getKey, fetch, body, stream, reports, prices | key pool, providers |
| Ingress, routes and errors, `worker/gateway/`, `worker/router/core/`, `errors/` | none | route by host and path, credentials, answers | everything |
| Auth middleware, budget and ledger, `worker/auth/`, `worker/router/chat/`, `storage/repositories/` | token's spend, ledger and rollup rows in D1 | authenticate, check budget before, record spend after, reconcile | D1, quota, brake |
| Pool coordinator, `pool/coordinator_do.ts` | volumes of five minutes (memory), brakes and providers (memory and storage) | report-volume, brake-status, update-provider, alarm | chat handler |
| Tenant quota, `quota/tenant/` | tier, entries, debt, trust; memory and storage | consumeQuota, setTier, reset, accrueDebt, decrementDebt, alarm | auth middleware |
| Demo sandbox, `auth/demo/` | windows per address and global (memory), token (memory and storage) | consume, rotate, alarm | chat handler |
| Keys outside the pools, `worker/router/dashboard/keys/`, `worker/gateway/admin_handler.ts`, `worker/router/core/key_resolver.ts`, `crypto/`, `ops/` | rows of api_keys and of the registry of projects, a cache of secrets per isolate | add, take over, rotate, release, report, delete, change pool, look up, migrate | D1, key pools |
| Sessions, tokens, projects and the console, `worker/router/dashboard/`, `ui/src/` | auth_tokens and projects in D1; localStorage, cookie and lists in the browser | log in and out, list, create, rotate, delete, poll | each other |
| Sybil checks, `auth/sybil/` | registrations per subnet in memory | grade, record | GitHub, Turnstile |

What makes it hard is the same everywhere:

* **Two copies of the state.** An object's memory may be dropped between any two events;
  storage stays. Some operations change the memory alone (pruning, synchronous reads). A
  key's secret is in D1 and in every isolate's cache; a list is in D1 and in the browser.
* **Reports without waiting.** Workers send results and usage with `.catch(() => {})`: a
  report is late, overtaken, lost, or applied twice (the client repeats over `fetch` a call
  whose RPC failed, also one that was applied; the cascade and the upstream client both
  report).
* **Check now, count later.** A limit or a budget is checked before the work and counted
  when the work is over; a project is found free and registered two statements later.
* **Awaits that let others in.** The runtime delivers no event to an object while its
  *storage* is pending (the input gate), but D1 queries, upstream calls, bodies and the
  browser's fetches are not gated.
* **Several writes that belong together.** Ledger and spend, ledger and rollup, token,
  expiry and alarm, D1 row and notice to the pool, each key of a list and its storing: each
  may happen without the next.

### Execution model

One operation of an object that awaits storage only is **one step**; a D1 statement or
batch is a step; a query whose answer may come late is split into its start, its evaluation
and its arrival; a request is a process with a step for each await; a call of the browser is
sent, served and received. `Evict`, `Restart` or `Lose` may happen between any two steps.
Time is a counter that `Tick` advances; `MaxTime` ends it. (`Demo` and `Workbench` share a
module of proofs with another component, and their names differ where both have one:
`DemoEvict`, `DemoTick`, `MaxClock`, `WorkbenchSpec`.)

## Modules

| Module | Models |
|---|---|
| `BreakerStateMachine` | the transition functions of `state_machine.ts`, same names |
| `CircuitBreaker` | `breaker.ts` and `storage.ts`: `loaded`, `mem`, `disk` are the memory map and storage; `pending` counts reports still to come; `streak` and `probes` are history |
| `BreakerSpec` | abstract specification: one record per key, never lost, and the failures in a row it was told of |
| `Lists` | `filter` and `reduce` on arrays, written so that facts about them can be proved; used by `SlidingWindow`, `PoolCoordinator` and `TenantQuota` |
| `SlidingWindow` | `window.ts`, `data.ts` and the decision of `limiter.ts` |
| `RateLimiter` | `limiter.ts`: memory, storage, reports; `log` is history |
| `KeyPool` | `key_pool_do.ts`, `selector.ts`, `strategies.ts`: D1 rows, both key maps, storage, loads under way, round-robin index |
| `KeySelector` | `triage.ts`, `strategies.ts`, `selector.ts` as functions of the records of `BreakerStateMachine` and `SlidingWindow`: triage, the four strategies, the fallback to other providers, awaited and from memory |
| `ModelRegistry`, `ModelCatalog` | `router/registry/`: a registry is a value; the models a worker starts with |
| `CapabilityFilter` | `router/capability/`: requirements of a request, audit of a model, sorting |
| `CandidateEvaluator` | `evaluator.ts`, with what the chat handler makes of a body |
| `Cascade` | `fallback.ts`, `client.ts` and the breakers they report to; extends `BreakerStateMachine`, whose records stand for the breaker because `CircuitBreaker` implements `BreakerSpec` |
| `SSE` | `proxy/sse/`: lines, events, what is sent on, usage in the formats of the providers |
| `CostCalculator` | `proxy/cost_calculator.ts`: the proxy's own table of prices |
| `PoolCoordinator` | `coordinator_do.ts` |
| `TenantQuota` | `tenant_do.ts`, `evaluator.ts`, `debt.ts` |
| `Errors` | `errors/` and the answers made of them, by the objects, the middleware and the router |
| `Gateway` | `worker/gateway/main_worker.ts`, `router/core/dispatcher.ts`, `admin_verifier.ts`: where a request goes, as a function of the request and the environment |
| `CostLedger` | `cost_ledger/repository.ts`: events, rollups, batches, reconciliation |
| `ChatRequest` | `middleware.ts`, `chat/handler.ts`, `non_streaming.ts`, `stream.ts`, `auth_tokens/repository.ts`; extends `CostLedger`, `Gateway` and `Errors`, so that a request goes in by its host and path and comes out as a status and a code |
| `Demo` | `auth/demo/` |
| `Sybil` | `auth/sybil/`: both graders and the registrations of a subnet |
| `Encoding` | `crypto/utils.ts`, `digest.ts`: bytes, base64 and hexadecimal, digit by digit |
| `KeySecrets` | `crypto/encryption/`, `durable_objects/crypto.ts`, `api_keys/crypto.ts`: symbolic keys, ciphertexts and the four attempts to find a stored secret |
| `KeyMigration` | `ops/migrate_keys_hkdf.ts`, beside an owner who rotates |
| `KeyConsole` | the handlers that write `api_keys` and the registry of projects, their notices to the pools, and the look-up with its cache; uses `KeySecrets` |
| `Session` | the dashboard's API: whom a request is from, sessions, tokens, projects, lists |
| `Workbench` | `ui/src/App.svelte`, `lib/api.ts`, `lib/OAuthModal.svelte`, `lib/Workbench.svelte`, beside `Session` |
| `CircuitBreakerProofs`, `RateLimiterProofs`, `CascadeProofs`, `KeyConsoleProofs`, `ChatRequestProofs`, `KeyPoolProofs`, `PoolCoordinatorProofs`, `TenantQuotaProofs` | theorems and their proofs, see below |
| `MC*` | constants for TLC; `MCCascade` and `MCDemo` also state the properties of the pure modules over the inputs they list |

Actions bear the names of the methods they model; helpers keep the source's names. An
operator whose comment begins with "Wrong:" is a plausible mistake in the definition that
follows it. `PROJECT.json` lists them under `mutants`; no specification uses them, and
putting one in the place of the right definition makes the named property fail.

Where a module stands in for another, the detail is checked next door: `Cascade` takes a
breaker for `BreakerSpec`'s record, `KeyConsole` a key pool for the set that `KeyPool`
stores, `ChatRequest` the brake for any answer and the quota for a counter, `Workbench` a
spent quota for any moment. `BrakeLasts` and `NeverOvergranted` say of the real ones what
those abstractions leave open.

## Runs

| Run | Shows | Bounds |
|---|---|---|
| `breaker` | evictions change no answer; CLOSED exactly below the threshold; records coherent; retry-after exact; late failures do not postpone the deadline; implements `BreakerSpec`; an OPEN key recovers | one key: keys do not interact. Reports come twice per request, three failures open and two successes close; two "milliseconds" to the second and a cooldown of two seconds, which begins at either and can run twice |
| `limiter` | both counters exact through merging, pruning and eviction; overshoot bounded by what is outstanding; retry-after right to the second | one key; both windows begin and end within the run; two "milliseconds" to the second, so that rounding matters |
| `keypool` | selector and object agree, storage is the pool (`SelectorAgrees`), also when a call throws half-way through its list; removed keys stay out; tied keys take turns, across evictions | two keys of equal priority, two loads at once, an index that wraps at 3, which the tier's size does not divide |
| `keypool_replace` | violated: after `PUT /keys` replaced keys are still selected | same, one load |
| `cascade` | breakers open on that key's failures only; use is counted twice only where its report was repeated; a cancelled request is not tried further; requests end; and `SelectionRight`, below | two requests, three candidates of two providers of which two are tried; two candidates share a key; one report on each key is applied, and then repeated by `fetch` |
| `coordinator` | the window is exact since construction and a restart is transparent unless storage could not be read (`StateExact`); brakes are set on spikes, never shortened, and survive evictions | three tenants (so that a share can be below 35%), two volumes, window 2, three reports per window |
| `quota` | never granted more than tier, day and sub-cap allow; retry exact; the ceiling follows the debt and eviction is transparent (`RecordExact`) | two tiers, one project with a sub-cap, requests for one and two units; two "milliseconds" to the second, and windows of 3 and 4 of them in 5 |
| `chat` | a token is charged each request once; a budget is overspent by less than what was let in together, as long as no two `recordSpend`s overlap; ledger, token and answers agree (`LedgerAndAnswers`); a rollup is never above the ledger and what was added to it without an event; a reconciliation repairs | two requests of one token, two other ledger jobs, entries of the rollup alone and a reconciliation over two days, at most two events; 3 kinds of input, and some 21,000 probes of the gateway in four environments |
| `demo` | limits hold in every window between two losses (`CapsHold`); a token keeps its promise; an expired one is replaced; newcomers are graded by what is known (`GradesRight`) | two addresses, a minute of 2, a day of 6, a rotation of 3 ticks, three tokens, one loss; all combinations of signals; three newcomers, in turn or assessed together |
| `console` | one key per project; no secret outlives the caches; no take-over loses a key and stored secrets stay readable (`ReadableUntilRotated`); an observed key stays home, but for a load that was asked for earlier | two keys of one project, one contributor beside the default tenant, two secrets, one change of a row, one isolate, one notice and one load under way, but no load beside a look-up (`Apart`: a look-up asks only that some pool has the key) |
| `workbench` | page, storage and token are one tenant's where the page's address has no token; tokens shown as active are accepted; the list of keys becomes the API's | two tenants of whom one signs in first, one own key, one community key, one project, three tokens, two calls under way; five plans of what the user does, each up to three actions, of which one begins at an address with a token, and one has a failure |
| `migration_complete` | violated: every other batch of the migration is skipped | four rows in batches of two, of which one may have the status `invalid` |

The pure modules are checked as part of the run of the component that uses them, so that one
property states what the run's user relies on:

* `SelectionRight` (`cascade`) is evaluated for every routed request: the candidates the
  requests try are the evaluator's; over the catalogue and six changes of it, and 560
  requests in two contexts, candidates are those that can serve the request, ranked, under
  the names the registry knows, at the price the registry adds up; a stream is read the
  same wherever it is cut (all texts of up to four or five symbols), what is sent on can be
  read again, and its usage is what the provider told last in each format; a price is found
  for every name and is the registry's where both tables have the model; and whatever the
  breakers and limiters of two or three keys say, the selector returns the best healthy key
  by its strategy or a waiting time that is not too long.
* `LedgerAndAnswers` (`chat`) contains `RoutesAgree`: the same request finds the same route
  with and without `/v1` and on the console's host, a freeze stops every route it should,
  and a tenant named in a header is the credential's own.
* `GradesRight` (`demo`): better signals are graded no worse by either grader, GitHub's
  silence helps nobody, and a subnet has one builder a window, or as many as were assessed
  together: the count and the record have an await between them (scoring.ts:226, 371). What
  it does not say is that a signal has to be there: a missing Turnstile token, bot score,
  network or e-mail verification counts as a good one in `calculateSybilScore`.
* `ReadableUntilRotated` (`console`) contains `SecretsKept`: every form in which a secret is
  stored is found by the look-up, and by nobody else's key.

Deadlock is not checked where the system may stop (requests have ended, time and reports
have run out, the user has gone). Time bounds are a little longer than the longest window or
cooldown, so that each can begin, end and begin again; the other bounds let the counters
pass their limits. Each bound is a named constant in the guard of the action it limits, but
for `Bound` of `MCChatRequest`, which ends runs with more than two events, and `Apart` of
`MCKeyConsole`.

### Fairness

* `CircuitBreaker`: time passes (`Tick`), and each key is read again and again (`Read`). A
  request for a provider triages every key of it, so this is traffic, not a timer: without
  requests an OPEN breaker stays OPEN, which harms nobody. Reports are not fair.
* `Cascade`: the object answers or fails (`GetKey`, `GetKeyFails`), and the timer of
  `client.ts` ends the wait for headers (`FetchFails`). Nothing is assumed of bodies: the
  timer is cleared before they are read.
* `Demo`: the runtime delivers a due alarm and boots the object for it (weak), and an alarm
  that is delivered again and again is in the end handled without a loss (strong): the
  platform repeats an alarm until its handler ends.
* `Workbench`: the API answers what it was sent, the browser takes answers up, and the
  refresh timer of `App.svelte` keeps firing. A call may be lost, finitely often.

### Disagreements with the documentation

With a run that shows it:

1. `key_pool_do.ts:327`, `setKeys` clears the object's map, not the selector's. The test
   "replaces entire pool with setKeys()" looks at the object's map only (`keypool_replace`).
2. `ops/migrate_keys_hkdf.ts`: the offset moves on although the rows just marked leave the
   selection, so every other batch stays as it was (`migration_complete`).

Seen while modelling; the models do what the code does:

* **Breaker and cascade.** A late success closes an OPEN breaker without a probe, and
  HALF_OPEN admits any number of requests, though `state_machine.ts` and the study guide
  speak of one probe. Each failed call is reported by `fallback.ts:191` and by the client:
  the "3rd consecutive failure" that opens a breaker is the second failed call. Streams are
  not counted by a key's limiter, since their cost is zero when the cascade looks.
  `fallback.ts` passes no abort signal to `chat()`. A report whose RPC was applied and then
  failed is sent again by `fetch` (do_client.ts:126-181) and counts twice.
* **Key pool.** A list that `addKeysSync` refuses half-way leaves its first keys in memory and
  nothing in storage; for `PUT /keys` the keys that were there are gone from memory and come
  back with the next eviction (key_pool_do.ts:321-332).
* **Key selection.** `fallbackToAnyProvider` ignores `candidateKeys`, and then turns by the
  index of whichever provider the first healthy key has. Least-used without waiting counts
  the day's requests, not the minute's. Each use is counted by the selection and again by
  `recordUsage`. A key's own `rpmLimit` is shown in the summary, the limiter's is enforced.
  `recordDispatch` is missing from the worker's client, so dispatch counters stay zero.
* **Coordinator and quota.** A storage read that fails in `initStorage` is logged, the object
  starts without brakes and providers, and its next write replaces those that are stored
  (coordinator_do.ts:35). The volumes are not stored, so the 35% are of what was reported
  since the object was built, not "in 5 min". Trust is withdrawn before the rate of decay
  is chosen, so the 30% promised to trusted contributors never apply; the PRD speaks of 7
  days where the code has 30. A debt below 5 never decays.
* **Chat, budget, answers.** `upsertDailyRollup` and `saveRollup` grow a rollup's row without
  an event, which the next reconciliation takes back; nothing calls them. `recordSpend` reads and then writes: two requests that finish
  together lose one cost. A stream that is cancelled is ledgered with cost 0, one that is
  stopped not at all. A budget of 0 is none. Braked, malformed and failed requests have used
  a unit of quota. The chat handler passes `maxTokens` where the extractor reads
  `max_tokens`; `tool_choice: null` counts as needing tools; streaming is never audited.
  All keys exhausted surfaces as 502, an abort as 500, and the brake's 429 carries no
  Retry-After. In a freeze `/v1/health` answers 200 on the api host and 503 on the console's.
* **Prices.** `gpt-4o-mini-2024…` is priced as `gpt-4o` by the proxy's prefix search; a price
  registered under a provider's prefix is never found; reasoning tokens are charged beside
  the completion tokens that contain them; cached tokens beside the prompt's.
* **Keys.** `pool_type: "community"` is stored as COMMUNITY without the check of a GitHub
  account (post_key.ts:61, 102). A pool that waits for D1 may take in a key that was put under
  observation meanwhile. The INSERTs into `project_hash_registry` and `consent_attestations` do not fit
  the tables of `migrations/0006` and `0007`; registry rows are never released; a report
  revokes all keys that share a prefix of eight characters and tells no pool; a change of
  pool type tells none either and answers success if no row matched; an administrator's
  REVOKED writes nothing; a rotation clears only its own isolate's cache; a key taken from
  the default tenant and rotated can be read by its owner alone; rotated and new rows are
  not marked as migrated.
* **Console.** A `?token=` or `?admin_token=` in the page's address is written back to
  localStorage by every call (api.ts:25-33), also after a logout or another's login. Logging out cannot remove the HttpOnly cookie; late answers bring a session
  back into localStorage; `POST /api/tokens/:id/rotate` is no route; lists change whatever
  is answered; a switch to COMMUNITY is always refused in the UI, since no login sets the
  GitHub id; polling uses the tenant's quota, and when it is spent reads go on as another
  tenant. Deleting a project deletes its row, not "all associated keys".
* **Demo and newcomers.** The header says 3 requests a minute and 25 a day per address, the
  code allows 1 and 5, and 5 and 20 in all. No handler calls either grader; they disagree on
  whom they make a builder; `calculateSybilScore` gives full points for no Turnstile token
  where a failing one suspends (scoring.ts:203-220), and takes an address nobody vouches for
  as verified (266), which `evaluateAntiSybil` does not; `golden_tests/v3_cases.yaml`
  (tc-v3-02) expects "probationary" where the code gives "suspended".

## Proofs

`CircuitBreakerProofs` proves for every set of keys, every threshold, cooldown and bound:

| Theorem | Property |
|---|---|
| `TypeCorrect` | `TypeOK`, the first half of `RecordsCoherent` |
| `EvictionSafe` | `EvictionTransparent` |
| `OpensAtThreshold` | `ClosedCountsStreak` |
| `AlwaysCoherent` | `RecordsCoherent` |
| `RetryAfterSound` | `RetryAfterExact` |
| `DeadlineSafe` | `DeadlineKept` |
| `Refinement` | `KeepsPromise`: `CircuitBreaker` implements `BreakerSpec` |

Assumptions: `ThresholdAssumption` and `BoundAssumption`, that is, positive thresholds and
cooldown and natural bounds; TLC evaluates both.

None of these is inductive alone. `EvictionTransparent` compares a record in memory with the
stored one after both were brought up to date; to show that a report keeps them equal one
must know that an OPEN record has a deadline (or the cooldown could not be evaluated), hence
coherence; coherence of a record that is read back from storage needs the same of storage,
and `ClosedCountsStreak` needs that the record a report builds on is the one the streak was
counted for, hence `EvictionTransparent`. Their conjunction with `TypeOK`, `IndInv`, is
inductive (`EveryRecordCoherent`, the other half of `RecordsCoherent`, speaks of both copies). Lemmas on the transition functions (each
keeps types and coherence, and `evaluateCooldown` is idempotent) carry the arithmetic, one
step per action carries the rest.
The refinement follows from the invariant: `Read`, `ReadSync`, `Admit`, `DropReport` and
`Evict` leave `View` and `streak` unchanged; `recordSuccess`, `recordFailure`, `trip` and
`reset` are `Succeed`, `Fail`, `TripOpen` and `Clear`; `Tick` is `PassTime`. `RetryAfterExact`
rests on `CeilReaches`: the whole seconds that are announced reach the end of the cooldown, and
a second less does not. The streak is
visible in `BreakerSpec`, or an eviction that lost a record could pass for a `Clear`.

`CascadeProofs`, for all requests, candidates, assignments of keys and thresholds
(`CascadeAssumption`: natural bounds, at least one candidate, keys that are keys):

| Theorem | Property |
|---|---|
| `TypeCorrect` | `TypeOK` |
| `OpeningIsEarned` | `OpensOnFailures` |
| `UseIsCountedOnceOrRepeated` | `UsageNotOvercounted` |
| `AbortIsFinal` | `AbortStopsCascade` |

`OpensOnFailures` relates a breaker to calls that failed; between the two are reports that are
late, repeated or lost. The invariant, `FailuresBacked`, counts both ends: what the breaker
shows to have been told (`Charged`) and what it will be told, by a report (`reports`) or its
repetition (`again`), is at most two for each failed call and one for each report that was
repeated. A failed call adds at most two reports to the right side's allowance, an arrival moves
one from `reports` or `again` to `Charged`, a repetition adds one to `again` and to what is
allowed, a loss drops one, and a success only lowers `Charged`. No report is repeated twice.

`KeyConsoleProofs`, for all keys, tenants, projects, isolates, cache and lookup times
(`KeyConsoleAssumption`):

| Theorem | Property |
|---|---|
| `ProjectsHaveOneKey` | `OneKeyPerProject` |
| `OldSecretsExpire` | `StaleAtMost` |
| `ObservedKeysStayHome` | `ObservationStaysHome` |
| `NeverRotatedIsReadable` | `SecretsKept => ReadableUntilRotated` |

The invariant follows a project from the request that registered it to its row
(`ProjectsApart`: one key claims it, in either place) and a secret from its row through a
lookup into a cache (`SecretsAge`: a lookup that has a retired secret read it before it was
retired, and is done within `LATENCY`; a cached one expires within `TTL + LATENCY` of the
retirement). `NoticesHome` says that a pool is told of a key only by the request that added
it for that pool, also where the notice waits for a load. Of a load the theorem says what the
code gives: when D1 evaluated it, the pool was entitled to its rows; they are added whatever
has become of them since. `SecretsKept`, which `ReadableUntilRotated` contains, is a statement about
`KeySecrets` alone, without variables: TLC evaluates it over every form of storage, and the
theorem supposes it.

`ChatRequestProofs`, for any finite sets of requests, tokens, tenants and jobs and any costs
and budgets (`LedgerAssumption`, `ChatAssumption`, `RouteAssumption`; the last says that the
errors of the route are none of the middleware's, and TLC evaluates it on the answers built
in `Errors`):

| Theorem | Property |
|---|---|
| `TypeCorrect` | `TypeOK` |
| `SpendIsExact` | `SpendExact` |
| `OverspendIsBounded` | `OverspendBounded` |
| `AnswersAndLedgerTell` | `RoutesAgree => LedgerAndAnswers` |
| `RollupIsBacked` | `RollupBacked` |
| `ReconciliationRepairs` | `ReconcileRepairs` |

A token's spend, a rollup and a period's summary are sums over sets of any finite size. The
lemmas on `Total` (what it is of a set with one element more, that it is monotone, that it
is a number) are proved by the smallest counterexample: a set of counterexamples within the
subsets of a finite set has a member that holds no other, since proper inclusion of finite
sets is well founded. The inductive invariant adds to the properties what a half-done step
has in its hands: what a `recordSpend` that has read will write (`SpendKept`), what a
reconciliation has read (`AuditsBacked`: the ledger's aggregate still, unless an event came
since), the answer of a request by its phase (`Courses`), the quota used as the number of
requests that used it (`QuotaExact`, between two bounds, for a call of the quota that failed
may have counted), and the room the budget leaves to the requests in
flight (`BudgetKept`: spent plus the largest cost for each in flight is less than the budget
plus the largest cost for each of the most that were ever in flight together).

The attempt to prove `OverspendBounded` as it was first stated failed, and rightly. Two
`recordSpend`s that overlap lose one of the costs; the next requests are let in on the sum
that is too low, and by the time it passes the budget the money spent is above it by more
than what was ever in flight together: costs 5, 1, 5, 5, 5 with a budget of 5 and at most three
at once come to 20 or more. The bounds of the run were too small for that. The property now
speaks of tokens whose `recordSpend`s did not overlap (`disturbed`), and `SpendExact` says
what is left for the others: the spend shown is never above the true one.

`KeyPoolProofs`, for any finite set of keys, any priorities, number of loads and size of the
round-robin index (`KeyPoolAssumption`):

| Theorem | Property |
|---|---|
| `TypeCorrect` | `TypeOK` |
| `SelectorIsRight` | `SelectorAgrees` |
| `RemovedKeysStayOut` | `RemovedStaysOut` |
| `TiesAlternate` | `TakesTurns` |

What two overlapping loads, `PUT /keys` and a call that throws half-way can do to the object
is in the properties themselves (`overlapped`, `replaced`, `torn`). The invariant says what a load that waits for
D1 has in its hands: it was asked while nothing was stored, and until the object is loaded
the rows it brings hold no key that was removed since (`LoadsFresh`); removed keys have no
row (`GoneHaveNoRow`); the index, in memory and in storage, is one past the last tie
(`IndexMoved`). The lists of ids are built with `InOrder` and `Through`, about which the
lemmas say that they name what they should once each, in order, and what `SetAll` and
`DeleteKey` do to them.

The second half of that module is about `Workbench`, which it extends beside `KeyPool`; the two
share no constant and no variable. It is the other side of the same list: what the console
shows of keys and tokens while the objects and tables change. For any set of tenants, any
starters among them and any numbers of tokens and calls (`SessionAssumption`,
`WorkbenchAssumption`, which TLC evaluates in the run `workbench`):

| Theorem | Property |
|---|---|
| `WorkbenchInductive` | `WorkbenchInv` |
| `WorkbenchSessionCoherent` | `SessionCoherent` |
| `WorkbenchShownSecretsWork` | `ShownSecretsWork` |

The page acts on answers that come in any order, so an invariant must say of every call under
way what its answer may do. `Follows` says it for the session: a call that nothing has
overtaken, of the page that is open, speaks of the session that the page has. A login or
logout overtakes the calls before it, and an answer that comes all the same sets `session` to
neither "in" nor "out", so `SessionCoherent` promises nothing from then on: that is the code's
behaviour, not the proof's convenience, and the run `workbench` reaches it. So is "url", the
state of a page whose address has another's token. For secrets the
danger is a deletion and a creation of one token that pass each other. `NewTokenOK` says of a
creation's answer that nothing has overtaken that its token still works, and that whoever
deletes it is known to have overtaken it; `RowOK` says of a row shown with its secret that
the page waits for each deletion of its token, so that a reload, which forgets the calls,
forgets the row as well. That tokens are numbered in the order they are made gives each a row
and an owner for good (`ServerOK`). Most actions only send, weaken or drop calls; the lemmas
`QuietOK` and `RowsStayOK` settle those at once.

`RateLimiterProofs`, for any keys, costs, windows, limits and budget, and any length of the
log (`WindowAssumption`: positive limits, a minute's window that is positive and no longer
than the day's; `BoundAssumption`: natural costs and bounds):

| Theorem | Property |
|---|---|
| `TypeCorrect` | `TypeOK` |
| `CountersAreExact` | `CountsExact` |
| `OvershootIsBounded` | `OvershootBounded` |
| `RetryAfterIsExact` | `RetryAfterExact` |

The properties compare a list of entries, one for each millisecond, with the log of all
reports since the last reset. The invariant says when a record is `Exact`: its entries ascend in
time, each counts all reports of its moment, and every report of the last day has its entry.
A record that was not pruned for days is as exact as one that was pruned a moment ago, which
is why the invariant can hold of the stored record and of the loaded one alike
(`RecordsExact`), and two exact records are the same once they are pruned (`PrunedAgree`):
this is what makes an eviction invisible. `PruneExact`, `AppendExact`, `EmptyExact` and
`LaterExact` say that the operations and the clock keep a record exact; `CountIsExact` that
the sum of the counts of a window is the number of its reports (reports of different moments
are disjoint sets), and `ScanStops` that the scan which breaks at the first old entry misses
none. `OvershootBounded` is inductive on top of that: a check that lets a request through has
seen the exact counters below their limits, and a report that arrives is one fewer to come.
For the waiting time, `OldestEntry` finds the oldest report of the window by the oldest entry
that is live, and `Ceil` is the arithmetic of `Math.ceil`. The filter and the sums are
written with ranks and with sums over sets (`Through`, `Total`), about which facts can be
proved, and not with the recursive `SelectSeq` and folds over sequences.

`PoolCoordinatorProofs`, for any finite set of tenants and any volumes, window, brake time
and length of the log (`CoordinatorAssumption`: positive volumes and times, natural bounds):

| Theorem | Property |
|---|---|
| `TypeCorrect` | `TypeOK` |
| `StateIsExact` | `StateExact` |
| `BrakesLast` | `BrakeLasts` |
| `SpikesAreBraked` | `BrakesTheSpiker` |

`StateExact` compares what is left of a tenant's list with the log, now. That is not
inductive: some report or alarm of the past pruned the list, the clock prunes the log, and
when it moves on it is the reports after the new cutoff that must agree, of which the
equality of two sums says nothing. The invariant, `Kept`, has the equality at every cutoff
from the window's beginning on: pruning changes nothing at these cutoffs (`KeptPruned`), a
report adds the same to both sides (`KeptReport`), an eviction leaves nothing on either
(`KeptWiped`), and a later clock asks for fewer cutoffs (`KeptLater`). Beside it stand
`RestartTransparent` (memory is storage, but for what could not be read at the last start, which
`unread` names until it is written again) and that the log holds nothing older than the window. `ThroughVolume`
and `AppendVolume` reduce the lists to sums over the places of the reports that pass, by
`SumMoved` (a sum does not depend on where the places are) and `SumUnion`. For
`BrakesTheSpiker` the pool's volume, a sum of the tenants' sums in the code and one sum over
the log in the property, is the same by `SumOfParts`. `BrakeLasts` needs from the invariant
that the brakes in memory are those on disk, unless they could not be read, and reach no further than the brake time from
now, or a new brake or an eviction could shorten one.

`TenantQuotaProofs`, for any tiers, limits, windows, projects and sub-caps, any sizes of
requests and amounts of debt (`QuotaAssumption`: positive sizes and amounts, a minute's window
that is positive and no longer than the day's, natural bounds):

| Theorem | Property |
|---|---|
| `TypeCorrect` | `TypeOK` |
| `QuotaKept` | `NeverOvergranted` |
| `RetryIsExact` | `RetryAfterExact` |
| `RecordIsExact` | `RecordExact` |

A request is measured against the entries of the record it finds; `NeverOvergranted` speaks of
the grants. The invariant, `Right`, ties the two together through every pruning: the stored
record and the loaded one, each pruned at this moment, have exactly the entries of the day's
grants, in their order (`Current`). A refused request prunes the memory and not the storage,
which changes nothing here, because what was pruned before is pruned the same (`PruneTwice`);
the clock prunes records and grants alike (`IssuedPruned`, `CurrentLater`); a grant's entry
is the last of both lists (`PruneAppend`, `IssuedAppend`). The day's grants are `Sound`: no
limit was passed at any of them. A new grant keeps that since its windows hold what the
request was measured against and its own units (`NextWindow`, `NextCount`), and pruning does
since what is left of a window has no more units than the window had (`CountPicked`). That
the grants ascend in time makes the first entry of the minute the one that leaves it first
(`OldestLeaves`); `RetryAfterExact` needs that and the arithmetic of `SecondsToWait`; an empty minute, of which the code
answers 60 seconds, cannot have used up a limit other than 0. For the debt, each operation
but `setTier` and `reset` ends with `updateMultiplierCeiling` (`CeilingCoherent`), and the
jail begins where the rounded percentage passes 100 (`AboveHundred`).

The last third of the module is about `Demo`, which it extends beside `TenantQuota` and whose
windows are filtered and counted as the quota's entries are. For all addresses, limits, spans
of minute, day, rotation and silence (`DemoAssumption`, which TLC evaluates in the run `demo`:
positive sizes, a minute no longer than the silence that is forgotten, and that no longer than
a day):

| Theorem | Property |
|---|---|
| `DemoInductive` | `DemoInv` |
| `DemoPromiseKept` | `PromiseKept` |
| `DemoCapsHold` | `CapsHold` |

`PromiseKept` follows from `DemoToken`: whatever is in memory, or was promised, is what is
stored, and the same step that stores another token withdraws the promise. `CapsHold` compares
the windows that a request is measured against with the log of those admitted, and here the
two may differ: a rotation drops the window of an address that was silent longer than
`STALE`, although it counts the day as well. The invariant says what is not forgotten. The
list of all, cut to the last day, is the log cut to the last day (`AllOK`); for an address
there is a place `c` in its times after which a silence longer than `STALE` began, or 0, and
its window, cut to the last day, is what came after `c` (`Remembers`). A minute is no longer
than `STALE`, so nothing of the last minute is before `c` (`SilentMinute`), and the limit of the
minute holds of the log itself; the limit of the day holds of each run of times without such a
silence (`DayKept`, `DayLimitKept`), and of no more: an address that stays away so long starts
its day anew. That cutting twice is cutting once (`SinceTwice`), that a new time is appended
behind the cut (`SinceAppend`), and that lists which agree on a day agree on every later one
(`AgreeLater`) carry the windows from step to step.

Only model-checked: `Recovers`, `Settles`, `ExpiredIsReplaced` and `ViewConverges` (liveness
under fairness is out of the prover's reach); the properties of the pure modules
(`SelectionRight`, `GradesRight`, `RoutesAgree`, `SecretsKept`), which are about functions of
inputs that TLC lists, folded over lists of any length: what such a fold computes is found by
induction over data. Every other invariant and action property of a passing run is a theorem.

## Not modelled

* Repositories that no live handler uses (`ApiKeyRepository`, `ModelRegistryRepository`), and
  the SQL text of the others.
* The OAuth client library (`auth/oauth/`), which the worker does not import; the callback
  it serves is in `Session`.
* Telemetry and the audit log: written, never read back. The OpenAPI document, CORS headers,
  pages and their figures, the administrator's view and its tiers of tenants, designs under
  `docs/`.
* In `KeyPool`: dispatch counters and the daily classification made of them, since nothing
  calls `recordDispatch`. Which keys breaker and limiter hold healthy is an arbitrary subset
  at each selection there; `KeySelector` says which.
* In `Cascade`: a provider that answers a plain request with an event stream, the self-key
  check (it does not run, for the chat handler passes no tenantId), and rate limits (`getKey`
  may fail at any time instead). Headers, URLs, payloads and the adaptive timeout's length.
* In `SSE`: a JSON text over several `data:` lines, the decoder of split characters, and the
  timers. In `CostCalculator`: dollars given as numbers, which go through `toFixed`.
* In `Session`: renaming a project, expiry dates of tokens, the administrator's master key.
* Floating point: the 35% of the coordinator is compared exactly.
* Cryptography is symbolic: a ciphertext opens under its key and nonce and tells nothing
  else.

## Plan

What is left is out of the prover's reach (above) or of the model (the section before). When
the code changes, the run of the component comes first, then its proof: the leaf that fails
names the step that the change has broken. The modules of proofs do not depend on each other:
the lemmas on filters and on sums over finite sets stand in each of those that need them, so
that each can be read and checked alone; two of them hold a second component
(whose module gives its specification a name of its own).
