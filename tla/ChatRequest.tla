---------------------------- MODULE ChatRequest ----------------------------
(***************************************************************************)
(* A chat request from its bearer token to its last bookkeeping:           *)
(* AuthMiddleware.authenticate (worker/auth/middleware.ts), the dispatch   *)
(* (worker/router/core/dispatcher.ts), the brake and the route             *)
(* (worker/router/chat/handler.ts), the answer (non_streaming.ts,          *)
(* stream.ts), and the token table behind it                               *)
(* (storage/repositories/auth_tokens/repository.ts).                       *)
(*                                                                         *)
(* The worker keeps no state of its own: a request carries what it read    *)
(* from D1 when it was authenticated, and every await (D1, a Durable       *)
(* Object, the provider) lets other requests run, in the same isolate or   *)
(* another.  One step is what happens between two awaits.  The bookkeeping *)
(* runs after the answer in ctx.waitUntil; each of its parts may fail      *)
(* without the others, and the runtime may stop it anywhere.               *)
(*                                                                         *)
(* A request is answered once, with what Gateway and Errors make of how it *)
(* ended; a chat that found a provider is answered 200 before its          *)
(* bookkeeping.                                                            *)
(*                                                                         *)
(* Left out: whether a provider answers (Cascade), whether a tenant's quota *)
(* has room (TenantQuota: here either answer, and the units its requests    *)
(* have used), when the brake is on (PoolCoordinator: here either answer),  *)
(* and the reports to both, on which nothing here depends.  So are the      *)
(* branches for a quota stub without consumeQuota: under the compatibility  *)
(* date of wrangler.jsonc every stub answers to a method's name.  The other *)
(* writers of the cost tables (CostLedger) run beside the requests.         *)
(***************************************************************************)
EXTENDS CostLedger, Gateway

CONSTANTS
    Requests,
    Tokens,        \* ids of rows of auth_tokens
    Owner,         \* the tenant of each credential
    Guests,        \* credentials without a row: the administrator's master
                   \* key, and a demo token that DemoDO accepts
    Budgets,       \* budget_microdollars; 0 is no limit
    CostEstimate,  \* costMicrodollars of the middleware's options; 0 by default
    Env,           \* the worker's bindings
    Inputs,        \* requests other than a chat with a good body
    Envs, Probes,  \* environments and requests to compare routes by
    RouteErrors,   \* what router.route may throw, of RoutingErrors
    Unanswered,
    NoToken

ASSUME ChatAssumption ==
    /\ Owner \in [Tokens \cup Guests -> Tenants]
    /\ Guests \cap Tokens = {}
    /\ Budgets \subseteq Nat
    /\ CostEstimate \in Nat
    /\ IsFiniteSet(Requests) /\ Requests \cap Jobs = {}
    /\ IsFiniteSet(Costs) /\ Costs # {}
    /\ NoToken \notin Tokens \cup Guests
    /\ Never \notin Nat

VARIABLES
    tokens,      \* the rows of auth_tokens, for the ids that have one
    quota,       \* units of each tenant's quota that requests have used
    pc,          \* where each request stands
    cred,        \* the credential it came with
    cost,        \* the cost of its answer
    read,        \* spent_microdollars as recordSpend has read it
    answer,      \* what each request has been answered
    charged,     \* history: requests whose spend was written
    disturbed,   \* history: tokens with two spends that overlapped
    unlogged,    \* history: requests whose event D1 did not take
    peak         \* history: most requests of a token in flight at once when
                 \* one was let in

reqVars == <<pc, cred, cost, read, answer>>
history == <<charged, disturbed, unlogged, peak>>
chatVars == <<tokens, quota, reqVars, history>>
vars == <<ledgerVars, chatVars>>

-----------------------------------------------------------------------------
(* Tokens *)

HasRow(k) == k \in DOMAIN tokens

\* Wrong: a token may be spent once more when its budget is just used up.
BudgetRefusesLate(tok) == tok.budget > 0 /\ tok.spent > tok.budget

\* No headroom, or none for the estimated cost; a budget of 0 is no limit.
BudgetRefuses(tok) ==
    /\ tok.budget > 0
    /\ \/ tok.spent >= tok.budget
       \/ CostEstimate > 0 /\ tok.spent + CostEstimate > tok.budget

\* createToken, from the dashboard.
createToken(k, budget) ==
    /\ ~HasRow(k) /\ \A r \in Requests : cred[r] # k
    /\ tokens' = [j \in DOMAIN tokens \cup {k} |->
                     IF j = k THEN [budget |-> budget, spent |-> 0,
                                    expired |-> FALSE]
                     ELSE tokens[j]]
    /\ UNCHANGED <<ledgerVars, quota, reqVars, history>>

\* updateBudget, updateToken: of the columns, the budget alone; only raised
\* here, so that a limit is not passed by being lowered.
updateBudget(k, budget) ==
    /\ HasRow(k)
    /\ tokens[k].budget > 0 /\ budget > tokens[k].budget
    /\ tokens' = [tokens EXCEPT ![k].budget = budget]
    /\ UNCHANGED <<ledgerVars, quota, reqVars, history>>

\* revokeToken, or the time has come: expires_at is past.
revokeToken(k) ==
    /\ HasRow(k) /\ ~tokens[k].expired
    /\ tokens' = [tokens EXCEPT ![k].expired = TRUE]
    /\ UNCHANGED <<ledgerVars, quota, reqVars, history>>

deleteToken(k) ==
    /\ HasRow(k)
    /\ tokens' = [j \in DOMAIN tokens \ {k} |-> tokens[j]]
    /\ UNCHANGED <<ledgerVars, quota, reqVars, history>>

-----------------------------------------------------------------------------
(* The way in *)

\* Past the budget check, and the spend not yet recorded or given up.
InFlight(k) ==
    {r \in Requests : cred[r] = k /\ pc[r] \notin {"new", "refused", "failed", "done", "stopped"}}

Goto(r, at) == pc' = [pc EXCEPT ![r] = at] /\ UNCHANGED answer

\* A step that answers.
Reply(r, at, a) ==
    /\ pc' = [pc EXCEPT ![r] = at]
    /\ answer' = [answer EXCEPT ![r] = a]

Refuse(r, e) == Reply(r, "refused", formatRouterError(e))

\* router.route: the evaluator's errors, the last one of the cascade, and an
\* abort or a failure that is none of the program's errors.
RoutingErrors ==
    {UnknownModelAliasError, ModelNotFoundError, CapabilityMismatchError,
     ContextWindowExceededError, NoAvailableProviderError,
     FallbackExhaustedError, Exception}

ChatInit ==
    /\ tokens = [k \in {} |-> 0]
    /\ quota = [t \in Tenants |-> 0]
    /\ pc = [r \in Requests |-> "new"]
    /\ cred = [r \in Requests |-> NoToken]
    /\ cost = [r \in Requests |-> 0]
    /\ read = [r \in Requests |-> 0]
    /\ answer = [r \in Requests |-> Unanswered]
    /\ charged = {}
    /\ disturbed = {}
    /\ unlogged = {}
    /\ peak = [k \in Tokens |-> 0]

\* findByToken, then expiry and budget of the row as it was read; a token
\* without a row is the master key, a demo token, or refused.
Known(k) == k \in Guests \/ (HasRow(k) /\ ~tokens[k].expired)

OverBudget(k) == HasRow(k) /\ BudgetRefuses(tokens[k])

Admits(k) == Known(k) /\ ~OverBudget(k)

AtMost(a, b) == IF a >= b THEN a ELSE b

OpenAnswers ==
    {fetch(Env, q).answer : q \in {p \in Inputs : ~Authenticates(Env, p)}}

OtherAnswers ==
    {dispatchRoute(Env, q).answer : q \in {p \in Inputs : Authenticates(Env, p)}}

RouteFailures ==
    {formatRouterError(e) : e \in RouteErrors \cup {RouterError(502, "EMPTY_STREAM_BODY")}}

\* What AuthMiddleware and the brake refuse with; an exception is D1's or a
\* Durable Object's.
Refusals ==
    {formatRouterError(e) :
        e \in {AuthenticationError, QuotaExceededError, RateLimitExceededError(1),
               Exception, RouterError(429, "EMERGENCY_BRAKE_ACTIVE")}}

ASSUME RouteAssumption ==
    /\ RouteErrors \subseteq RoutingErrors
    /\ Unanswered \notin
           {OK} \cup OpenAnswers \cup OtherAnswers \cup RouteFailures \cup Refusals

\* A request that is answered without asking who it is.
AnswerAnyone(r) ==
    /\ pc[r] = "new"
    /\ \E a \in OpenAnswers : Reply(r, "refused", a)
    /\ UNCHANGED <<ledgerVars, tokens, quota, cred, cost, read, history>>

\* authenticate, up to its first await after the D1 lookup.  The master key
\* and a demo token skip the tenant's quota (DemoDO has counted the latter).
Authenticate(r, k) ==
    /\ pc[r] = "new"
    /\ cred' = [cred EXCEPT ![r] = k]
    /\ IF ~Known(k) THEN Refuse(r, AuthenticationError)
       ELSE IF OverBudget(k) THEN Refuse(r, QuotaExceededError)
       ELSE Goto(r, IF k \in Tokens THEN "checked" ELSE "metered")
    /\ peak' = IF k \in Tokens /\ Admits(k)
               THEN [peak EXCEPT ![k] = AtMost(@, 1 + Cardinality(InFlight(k)))]
               ELSE peak
    /\ UNCHANGED <<ledgerVars, tokens, quota, cost, read, charged,
                   disturbed, unlogged>>

\* The lookup itself fails: D1, or the DemoDO that a demo token is asked of.
LookupFails(r, k) ==
    /\ pc[r] = "new"
    /\ cred' = [cred EXCEPT ![r] = k]
    /\ Refuse(r, Exception)
    /\ UNCHANGED <<ledgerVars, tokens, quota, cost, read, history>>

\* The request uses one unit of its tenant's quota.
UseUnit(r) == quota' = [quota EXCEPT ![Owner[cred[r]]] = @ + 1]

\* The minute's limit is reached, or the day's (or a limiter's budget).
NoRoom(r) ==
    /\ \/ Refuse(r, RateLimitExceededError(1))
       \/ Refuse(r, QuotaExceededError)
    /\ UNCHANGED quota

\* consumeQuota of the tenant's TenantQuotaDO: one unit, or 429, or the call
\* fails before the object has counted the unit or after.
ConsumeQuota(r) ==
    /\ pc[r] = "checked"
    /\ \/ UseUnit(r) /\ Goto(r, "metered")
       \/ NoRoom(r)
       \/ Refuse(r, Exception) /\ (UseUnit(r) \/ UNCHANGED quota)
    /\ UNCHANGED <<ledgerVars, tokens, cred, cost, read, history>>

\* Where no quota object is bound, the limiter in memory is asked first ...
checkLimitDetailed(r) ==
    /\ pc[r] = "checked"
    /\ \/ Goto(r, "limited") /\ UNCHANGED quota
       \/ NoRoom(r)
    /\ UNCHANGED <<ledgerVars, tokens, cred, cost, read, history>>

\* ... and counts in a second call.
increment(r) ==
    /\ pc[r] = "limited"
    /\ UseUnit(r) /\ Goto(r, "metered")
    /\ UNCHANGED <<ledgerVars, tokens, cred, cost, read, history>>

\* dispatchRoute: the x-tenant-id header names another tenant, the path is that
\* of no chat, the body is no JSON or its messages are no array.  The unit is
\* used up all the same.
dispatchElsewhere(r) ==
    /\ pc[r] = "metered"
    /\ \E a \in OtherAnswers : Reply(r, "refused", a)
    /\ UNCHANGED <<ledgerVars, tokens, quota, cred, cost, read, history>>

\* GET brake-status of the tenant, whatever it is by now; a coordinator that
\* fails lets the request pass.
CheckBrake(r) ==
    /\ pc[r] = "metered"
    /\ \/ Refuse(r, RouterError(429, "EMERGENCY_BRAKE_ACTIVE"))
       \/ Goto(r, "routing")
    /\ UNCHANGED <<ledgerVars, tokens, quota, cred, cost, read, history>>

-----------------------------------------------------------------------------
(* The answer *)

\* router.route throws, or a stream comes without a body.
RouteFails(r) ==
    /\ pc[r] = "routing"
    /\ \E a \in RouteFailures : Reply(r, "failed", a)
    /\ UNCHANGED <<ledgerVars, tokens, quota, cred, cost, read, history>>

\* handleNonStreamingResponse: the answer is sent, the cost is known.
AnswerPlain(r, c) ==
    /\ pc[r] = "routing"
    /\ cost' = [cost EXCEPT ![r] = c]
    /\ Reply(r, "answered", OK)
    /\ UNCHANGED <<ledgerVars, tokens, quota, cred, read, history>>

\* handleStreamingResponse: the headers are sent.
AnswerStream(r) ==
    /\ pc[r] = "routing"
    /\ Reply(r, "streaming", OK)
    /\ UNCHANGED <<ledgerVars, tokens, quota, cred, cost, read, history>>

\* flush: the stream has ended, and getUsage(200) has an answer or not.
StreamFlush(r, c) ==
    /\ pc[r] = "streaming"
    /\ cost' = [cost EXCEPT ![r] = c]
    /\ Goto(r, "answered")
    /\ UNCHANGED <<ledgerVars, tokens, quota, cred, read, history>>

\* Wrong: what has streamed so far is billed by the output alone.
StreamCancelBilled(r) ==
    /\ pc[r] = "streaming"
    /\ \E c \in Costs : cost' = [cost EXCEPT ![r] = c]
    /\ Goto(r, "ledgered")
    /\ UNCHANGED <<ledgerVars, tokens, quota, cred, read, history>>

\* cancel: the client is gone, no usage will come, the cost is taken to be 0.
StreamCancel(r) ==
    /\ pc[r] = "streaming"
    /\ Goto(r, "answered")
    /\ UNCHANGED <<ledgerVars, tokens, quota, cred, cost, read, history>>

-----------------------------------------------------------------------------
(* The bookkeeping: postWork, finalizeStream *)

\* The usage report to the key pool names the model, not a key: it is refused
\* there and changes nothing.  The event joins the ledger, or D1 fails, which
\* is caught.
RecordLedger(r) ==
    /\ pc[r] = "answered"
    /\ Goto(r, "ledgered")
    /\ \/ recordEvent(Event(r, Owner[cred[r]], cost[r])) /\ UNCHANGED unlogged
       \/ unlogged' = unlogged \cup {r} /\ UNCHANGED ledgerVars
    /\ UNCHANGED <<tokens, quota, cred, cost, read, charged, disturbed,
                   peak>>

\* recordSpend, first statement: findById.  A token without a row (deleted, a
\* demo token, the master key) makes it throw, which is caught.
SpendRead(r) ==
    LET k == cred[r] IN
    /\ pc[r] = "ledgered"
    /\ IF cost[r] > 0 /\ HasRow(k)
       THEN /\ read' = [read EXCEPT ![r] = tokens[k].spent]
            /\ Goto(r, "spending")
            /\ disturbed' = IF \E q \in Requests : cred[q] = k /\ pc[q] = "spending"
                            THEN disturbed \cup {k} ELSE disturbed
       ELSE UNCHANGED <<read, disturbed>> /\ Goto(r, "done")
    /\ UNCHANGED <<ledgerVars, tokens, quota, cred, cost, charged,
                   unlogged, peak>>

\* Wrong: the cost replaces what was spent before.
SpendReplace(r) ==
    LET k == cred[r] IN
    /\ pc[r] = "spending"
    /\ tokens' = IF HasRow(k) THEN [tokens EXCEPT ![k].spent = cost[r]] ELSE tokens
    /\ charged' = charged \cup {r}
    /\ Goto(r, "done")
    /\ UNCHANGED <<ledgerVars, quota, cred, cost, read, disturbed,
                   unlogged, peak>>

\* Second statement: UPDATE, which finds no row if the token is gone by now.
SpendWrite(r) ==
    LET k == cred[r] IN
    /\ pc[r] = "spending"
    /\ tokens' = IF HasRow(k) THEN [tokens EXCEPT ![k].spent = read[r] + cost[r]]
                 ELSE tokens
    /\ charged' = charged \cup {r}
    /\ Goto(r, "done")
    /\ UNCHANGED <<ledgerVars, quota, cred, cost, read, disturbed,
                   unlogged, peak>>

\* The runtime stops the request's background work (the client has gone, or
\* its time is up), or a statement of recordSpend fails.
Stop(r) ==
    /\ pc[r] \in {"streaming", "answered", "ledgered", "spending"}
    /\ Goto(r, "stopped")
    /\ UNCHANGED <<ledgerVars, tokens, quota, cred, cost, read, history>>

Step(r) ==
    \/ AnswerAnyone(r)
    \/ \E k \in (Tokens \cup Guests) : Authenticate(r, k) \/ LookupFails(r, k)
    \/ ConsumeQuota(r) \/ checkLimitDetailed(r) \/ increment(r)
    \/ dispatchElsewhere(r) \/ CheckBrake(r)
    \/ RouteFails(r)
    \/ \E c \in Costs : AnswerPlain(r, c) \/ StreamFlush(r, c)
    \/ AnswerStream(r) \/ StreamCancel(r)
    \/ RecordLedger(r) \/ SpendRead(r) \/ SpendWrite(r)
    \/ Stop(r)

TokenNext ==
    \E k \in Tokens :
        \/ \E b \in Budgets : createToken(k, b) \/ updateBudget(k, b)
        \/ revokeToken(k)
        \/ deleteToken(k)

Init == LedgerInit /\ ChatInit

Next ==
    \/ \E r \in Requests : Step(r)
    \/ TokenNext
    \/ LedgerNext /\ UNCHANGED chatVars

Spec == Init /\ [][Next]_vars

-----------------------------------------------------------------------------
Phases ==
    {"new", "checked", "limited", "metered", "routing", "streaming", "answered",
     "ledgered", "spending", "done", "refused", "failed", "stopped"}

CostOf(rs) == Total(cost, rs)

ChargedTo(k) == {r \in charged : cred[r] = k}

\* The types of the variables, the ledger's included.
TypeOK ==
    /\ LedgerTypeOK
    /\ DOMAIN tokens \subseteq Tokens
    /\ \A k \in DOMAIN tokens :
           tokens[k] \in [budget : Budgets, spent : Nat, expired : BOOLEAN]
    /\ quota \in [Tenants -> Nat]
    /\ pc \in [Requests -> Phases]
    /\ cred \in [Requests -> (Tokens \cup Guests) \cup {NoToken}]
    /\ cost \in [Requests -> Costs \cup {0}]
    /\ charged \cup unlogged \subseteq Requests /\ disturbed \subseteq Tokens

\* The state is well typed, and the spend of a token is the cost of the
\* requests charged to it, no request twice, and nothing else: exactly so if no
\* two recordSpends of the token overlapped, and never more in any case.
SpendExact ==
    /\ TypeOK
    /\ \A k \in DOMAIN tokens :
        /\ tokens[k].spent <= CostOf(ChargedTo(k))
        /\ k \notin disturbed => tokens[k].spent = CostOf(ChargedTo(k))

\* A budget is overspent by less than what the requests let in together cost:
\* one at a time, by less than one request.  This needs that no two
\* recordSpends of the token overlapped: one of them may write an older sum, a
\* request is let in on it, and what the other read is added to all the same.
OverspendBounded ==
    \A k \in DOMAIN tokens :
        tokens[k].budget > 0 /\ k \notin disturbed =>
            tokens[k].spent < tokens[k].budget + Max(Costs) * peak[k]

\* The ledger names each request whose bookkeeping got that far once, with its
\* tenant and the cost that its token is charged, unless D1 failed; and no
\* request that was refused, found no provider or is still being answered.
LedgerExact ==
    \A r \in Requests :
        LET rows == {e \in ledger : e.requestId = r} IN
        /\ \A e \in rows : e.tenantId = Owner[cred[r]] /\ e.cost = cost[r]
        /\ pc[r] \in {"ledgered", "spending", "done"} /\ r \notin unlogged
               => rows # {}
        /\ pc[r] \notin {"ledgered", "spending", "done", "stopped"} => rows = {}

\* Of the answers to a token's requests, those that say that no unit of its
\* tenant's quota was used: the code tells them from every later refusal.
Free == {"AUTHENTICATION_FAILED", "QUOTA_EXCEEDED", "RATE_LIMIT_EXCEEDED"}

\* An answer of an unexpected exception, which may have come anywhere.
Open == Free \cup {"INTERNAL_ROUTING_ERROR"}

\* A tenant's requests that are past the quota and were not answered with one
\* of these codes.
UsersOf(t, codes) ==
    {r \in Requests :
        /\ cred[r] \in Tokens /\ Owner[cred[r]] = t
        /\ pc[r] \notin {"checked", "limited"}
        /\ answer[r] = Unanswered \/ answer[r].code \notin codes}

\* The client can tell from the answer what the request has cost: the units
\* used are those of the requests that were let in and told nothing else, where
\* only an unexpected exception leaves open whether its request used one; what
\* was refused or failed is neither charged nor in the ledger; and a refusal
\* for now says when to come back, but for the emergency brake's.
AnswersTell ==
    /\ \A t \in Tenants :
           /\ Cardinality(UsersOf(t, Open)) <= quota[t]
           /\ quota[t] <= Cardinality(UsersOf(t, Free))
    /\ \A r \in {q \in Requests : answer[q] # Unanswered} :
             /\ (answer[r].status >= 400
                    => r \notin charged /\ \A e \in ledger : e.requestId # r)
             /\ (answer[r].status = 429 /\ answer[r].retryAfter = Never
                    => answer[r].code = "EMERGENCY_BRAKE_ACTIVE")

\* However a request comes in, it finds the same route.
RoutesAgree ==
    \A e \in Envs, q \in Probes :
        ConsoleAgrees(e, q) /\ VersionsAgree(e, q) /\ FreezeStops(e, q) /\ TenantHeld(e, q)

LedgerAndAnswers == RoutesAgree /\ LedgerExact /\ AnswersTell
=============================================================================
