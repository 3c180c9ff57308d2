------------------------------ MODULE Gateway -------------------------------
(***************************************************************************)
(* Where a request goes: MainWorker.fetch (worker/gateway) by the host's   *)
(* name, then dispatchRoute (worker/router/core/dispatcher.ts) by the path,*)
(* and what both answer themselves.  The errors are those of Errors.       *)
(*                                                                         *)
(* A request is a record: host, the labels of the host's name; method;     *)
(* path, its segments, without slashes at the end; tenant, the x-tenant-id *)
(* header ("none", "own" or "other" than the credential's); json, whether  *)
(* the body parses; messages, whether it has an array of them or none;     *)
(* html, whether the accept header has text/html; bearer, the token that   *)
(* comes in a header, the query or the cookie.  An environment is a record *)
(* of the bindings and variables it has.  A path whose last segment only   *)
(* starts like a route's (/keysmith) is left out.                          *)
(***************************************************************************)
EXTENDS Errors, Sequences, SequencesExt

\* The answer to a request, or who gives it.
By(who) == [by |-> who, answer |-> OK]
Here(status, code) == [by |-> "worker", answer |-> Answer(status, code, Never, FALSE)]
Thrown(e) == [by |-> "worker", answer |-> formatRouterError(e)]

-----------------------------------------------------------------------------
(* The host.                                                               *)

parseSubdomain(host) ==
    IF host # <<>> /\ host[1] \in {"api", "console", "admin"} THEN host[1] ELSE "apex"

resolveHostRoute(host) ==
    LET subdomain == parseSubdomain(host) IN
    [subdomain |-> subdomain,
     requiresAdminAuth |-> subdomain = "admin",
     isApiGateway |-> subdomain = "api",
     isConsoleSpa |-> subdomain = "console"]

Apex == <<"key-col", "axe08", "tech">>

Under(path, prefix) == IsPrefix(prefix, path) /\ Len(path) > Len(prefix)

-----------------------------------------------------------------------------
(* The administrator.                                                      *)

\* A user of D1 with the administrator's rights, by role or by address.
AdminUser(env, user) ==
    /\ user \in DOMAIN env.users
    /\ ~env.users[user].quarantined
    /\ env.users[user].admin \/ env.users[user].email \in env.ADMIN_EMAILS

Quarantined(env, user) == user \in DOMAIN env.users /\ env.users[user].quarantined

\* verifyAdminRequest without the hooks of its options, which no caller gives.
\* A token's row decides against an expired token or a quarantined tenant;
\* otherwise the token may still be the id of a user.
verifyAdminRequest(env, bearer) ==
    LET row == env.auth_tokens[bearer] IN
    /\ bearer # "none"
    /\ \/ bearer = env.ADMIN_TOKEN
       \/ /\ env.DB
          /\ bearer \in DOMAIN env.auth_tokens =>
                 ~row.expired /\ (row.tenant # "admin" => ~Quarantined(env, row.tenant))
          /\ \/ /\ bearer \in DOMAIN env.auth_tokens
                /\ row.tenant = "admin" \/ AdminUser(env, row.tenant)
             \/ AdminUser(env, bearer)

-----------------------------------------------------------------------------
(* The routes.                                                             *)

\* RouterContextResolver.getKeyPool, without a factory or a router.
getKeyPool(env) ==
    IF env.KEY_POOL THEN By("pool")
    ELSE Thrown(RouterError(500, "MISSING_KEY_POOL_BINDING"))

handleHealth == Here(200, "healthy")

\* handleReport: authenticated by a secret of its own.
handleReport(env, q) ==
    IF q.bearer # "none" /\ q.bearer = env.REPORT_WEBHOOK_SECRET THEN Here(200, "accepted")
    ELSE Here(401, "Unauthorized")

handleDemoTokenRequest(env) ==
    IF env.DEMO_POOL THEN By("demo") ELSE Here(503, "NO_DEMO_POOL")

\* handleGetModel; the dispatcher answers for a model that it does not know.
handleGetModel(env, q) ==
    IF q.path # <<>> /\ Last(q.path) \in env.models THEN Here(200, "model")
    ELSE Here(404, "MODEL_NOT_FOUND")

Versioned(path, names) == \E n \in names : path = <<n>> \/ path = <<"v1", n>>

PoolPath(path) ==
    \E n \in {"keys", "metrics", "capacity"} :
        IsPrefix(<<n>>, path) \/ IsPrefix(<<"v1", n>>, path)

ChatPath(path) ==
    path \in {<<"v1", "chat", "completions">>, <<"chat", "completions">>,
              <<"v1", "route">>, <<>>}

\* The result of the first condition that holds: a list of early returns.
First(returns) ==
    LET n == CHOOSE i \in DOMAIN returns :
                 returns[i][1] /\ \A j \in 1..i-1 : ~returns[j][1]
    IN returns[n][2]

IsHealth(q) == Versioned(q.path, {"health"})
IsModel(q) ==
    q.method = "GET" /\ (Under(q.path, <<"v1", "models">>) \/ Under(q.path, <<"models">>))
IsDemo(q) ==
    /\ q.method \in {"GET", "POST"}
    /\ q.path \in {<<"v1", "demo", "token">>, <<"demo", "token">>,
                   <<"api", "demo", "token">>}

\* The routes of dispatchRoute that come before it asks who it is.
publicRoutes(env, q) ==
    << <<env.MIDNIGHT_FREEZE, Here(503, "MIDNIGHT_FREEZE")>>,
       <<IsHealth(q), handleHealth>>,
       <<q.method = "POST" /\ Versioned(q.path, {"report"}), handleReport(env, q)>>,
       <<q.method = "GET" /\ Versioned(q.path, {"openapi.json"}), Here(200, "openapi")>>,
       <<IsDemo(q), handleDemoTokenRequest(env)>>,
       <<q.method = "GET" /\ Versioned(q.path, {"models"}), Here(200, "models")>>,
       <<IsModel(q), handleGetModel(env, q)>>,
       <<Under(q.path, <<"api">>), By("dashboard")>> >>

\* Wrong: the tenant of the header is compared for a chat alone.
authenticatedRoutesLate(env, q) ==
    << <<PoolPath(q.path), getKeyPool(env)>>,
       <<q.tenant = "other", Thrown(TenantIsolationError)>>,
       <<TRUE, Here(404, "ROUTE_NOT_FOUND")>> >>

\* Those after: the tenant of the header first, whatever the path; the body of
\* a chat, read here and in handleChatCompletions.
authenticatedRoutes(env, q) ==
    LET chat == q.method = "POST" /\ ChatPath(q.path) IN
    << <<q.tenant = "other", Thrown(TenantIsolationError)>>,
       <<PoolPath(q.path), getKeyPool(env)>>,
       <<chat /\ ~q.json, Thrown(RouterError(400, "INVALID_REQUEST_BODY"))>>,
       <<chat /\ ~q.messages, Thrown(RouterError(400, "INVALID_MESSAGES_PARAMETER"))>>,
       <<chat /\ ~env.KEY_POOL, getKeyPool(env)>>,
       <<chat, By("chat")>>,
       <<TRUE, Here(404, "ROUTE_NOT_FOUND")>> >>

dispatchRoute(env, q) == First(publicRoutes(env, q) \o authenticatedRoutes(env, q))

\* Whether dispatchRoute asks AuthMiddleware, which uses up a unit of quota.
Authenticates(env, q) == \A n \in DOMAIN publicRoutes(env, q) : ~publicRoutes(env, q)[n][1]

-----------------------------------------------------------------------------
(* The worker.                                                             *)

\* handleConsoleRequest: the page for any path, where no file is.
handleConsoleRequest(env, q) ==
    First(<< <<q.method = "GET" /\ IsHealth(q), handleHealth>>,
             <<q.method = "GET" /\ env.ASSETS, By("assets")>>,
             <<q.method = "GET", Here(200, "page")>>,
             <<TRUE, Here(405, "METHOD_NOT_ALLOWED")>> >>)

\* The paths of console.* that are the router's.
ConsoleApi(path) ==
    Under(path, <<"api">>) \/ Under(path, <<"v1">>) \/ path = <<"openapi.json">>

\* What the apex gives from its files.
IsAsset(q) ==
    \/ Under(q.path, <<"assets">>)
    \/ q.path \in {<<"favicon.ico">>, <<"favicon.svg">>, <<"dashboard">>}
    \/ q.path = <<>> /\ q.html

\* MainWorker.fetch.
fetch(env, q) ==
    LET route == parseSubdomain(q.host) IN
    First(<< <<q.method = "OPTIONS", Here(204, "preflight")>>,
             <<route = "admin" /\ ~verifyAdminRequest(env, q.bearer), Here(404, "NOT_FOUND")>>,
             <<route = "admin", By("admin")>>,
             <<route = "console" /\ ConsoleApi(q.path), dispatchRoute(env, q)>>,
             <<route = "console", handleConsoleRequest(env, q)>>,
             <<q.host = Apex /\ q.path = <<>>, Here(302, "console")>>,
             <<q.method = "GET" /\ IsHealth(q), handleHealth>>,
             <<route = "apex" /\ env.ASSETS /\ q.method = "GET" /\ IsAsset(q), By("assets")>>,
             <<q.method = "GET" /\ q.path = <<>>, Here(200, "ready")>>,
             <<TRUE, dispatchRoute(env, q)>> >>)

-----------------------------------------------------------------------------
(* What the routes promise.                                                *)

\* The console's API is that of api.*, but for the health probe, which the
\* console's worker leaves to the router and its freeze.
ConsoleAgrees(env, q) ==
    q.host = <<"console">> /\ ConsoleApi(q.path) /\ ~IsHealth(q)
        => fetch(env, q) = fetch(env, [q EXCEPT !.host = <<"api">>])

\* A path is the same with and without /v1, where both are routes.
VersionsAgree(env, q) ==
    q.host = <<"api">> /\ q.path \notin {<<>>, <<"route">>} /\ q.path[1] \notin {"v1", "api"}
        => fetch(env, q) = fetch(env, [q EXCEPT !.path = <<"v1">> \o q.path])

\* In a freeze nothing but the administrator's pages reaches what keeps state.
FreezeStops(env, q) ==
    env.MIDNIGHT_FREEZE
        => fetch(env, q).by \in {"worker", "assets", "admin"}

\* Nobody else's tenant is named by a request that reaches a pool or a chat.
TenantHeld(env, q) ==
    q.tenant = "other" => fetch(env, q).by \notin {"pool", "chat"}

=============================================================================
