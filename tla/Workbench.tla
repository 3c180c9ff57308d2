----------------------------- MODULE Workbench -----------------------------
(***************************************************************************)
(* The console in the browser beside the API it calls (Session): the page  *)
(* with its session and the pool's list of keys (ui/src/App.svelte,        *)
(* lib/api.ts, lib/OAuthModal.svelte), and the Workbench tab with its      *)
(* lists of projects and of gateway tokens (lib/Workbench.svelte).         *)
(*                                                                         *)
(* A call is a fetch: it is sent with what localStorage and the cookie     *)
(* jar held then, the API answers it at some moment, and the continuation  *)
(* after the await runs at a later one, in any order with others and with  *)
(* what the user does.  Either message may be lost.  Of an answer to the   *)
(* Workbench's two lists, the headers arrive before the body, and only     *)
(* before the body is it asked whether the effect was cancelled.  A reload *)
(* leaves localStorage, the cookie, the page's address and the API.        *)
(*                                                                         *)
(* Left out: logs, statistics and the other figures of a page, which are   *)
(* loaded like the keys; tiers, names and secrets of rows; the demo        *)
(* sandbox (Demo); the tabs that change nothing; what the user types.      *)
(*                                                                         *)
(* The names that KeyPool has as well begin with Workbench here, so that   *)
(* KeyPoolProofs can extend both.                                          *)
(***************************************************************************)
EXTENDS Session

CONSTANTS
    FALLBACK,      \* id of a project row that only the page knows
    Starters,      \* bound: who may have signed in at first
    Plans,         \* bound: how much the user does, of each of three kinds,
                   \* how many loads are under way before the timer starts
                   \* another, and how many messages are lost and writes fail
    MaxCalls       \* bound: calls under way at once

ASSUME WorkbenchAssumption == Starters \subseteq Tenants

VARIABLES
    storage,       \* localStorage: kc_user and kc_auth_token
    cookie,        \* kc_auth_token, and whether it is HttpOnly
    url,           \* the token in the page's address, which nothing removes
    account,       \* userAccount.id
    tab,           \* activeTab: "pool" or "workbench"
    autoRefresh,
    keys,          \* the pool's list
    localProjects, localKeys,   \* the Workbench's lists
    calls,
    ops,           \* what is left of the plan
    session        \* history: what became of the latest login

page == <<storage, cookie, url, account, tab, autoRefresh, keys>>
others == <<cookie, url, account, tab, autoRefresh, keys>>
lists == <<localProjects, localKeys>>
workbenchVars == <<server, page, lists, calls, ops, session>>

-----------------------------------------------------------------------------
(* Calls.                                                                  *)

\* api.ts takes the tenant from kc_user, Workbench.svelte from the account.
Credentials(user, token, jar) == [header |-> user, token |-> token, cookie |-> jar.token]

\* The token of the page's address goes before the one that is saved.
UrlFirst(token) == IF url # NONE THEN url ELSE token

\* And every call of api.ts saves it first.
Resaves == storage' = [storage EXCEPT !.token = UrlFirst(@)]

getAuthHeaders == Credentials(storage.user, UrlFirst(storage.token), cookie)

getRequestHeaders == Credentials(account, storage.token, cookie)

Blank == [header |-> NONE, token |-> NONE, cookie |-> NONE]

\* live: no later login, logout or run of the effect has overtaken the call;
\* mine: the page or tab that made it has not been left.
Call(op, arg, creds) ==
    [op |-> op, arg |-> arg, creds |-> creds, at |-> "sent", ok |-> FALSE,
     ids |-> {}, id |-> NONE, known |-> FALSE, live |-> TRUE, mine |-> TRUE]

Room == Cardinality(calls) < MaxCalls

ListCalls == {"projects", "tokens"}
SessionCalls == {"sync", "resync", "session"}
WorkbenchCalls == ListCalls \cup {"newToken", "rotate", "revoke", "drop", "newProject", "dropProject"}

Overtaken(cs, kinds) == {[c EXCEPT !.live = @ /\ c.op \notin kinds] : c \in cs}

\* The effects of the Workbench read the account, and run again when it is
\* replaced.
Effects(user, token, jar) ==
    IF tab = "workbench"
    THEN {Call(op, NONE, Credentials(user, token, jar)) : op \in ListCalls}
    ELSE {}

AfterLogin(cs, user, token, jar, more) ==
    Overtaken(cs, SessionCalls \cup ListCalls) \cup Effects(user, token, jar) \cup more

Load(user, token, jar) == Call("load", NONE, Credentials(user, token, jar))

-----------------------------------------------------------------------------
(* The session.                                                            *)

\* The page at an address with a token or without.  Whether to save a session
\* anew is decided before the address is looked at.
OnMount(address) ==
    LET user == storage.user
        token == IF address # NONE THEN address ELSE storage.token IN
    /\ url' = address
    /\ storage' = [user |-> user, token |-> token]
    /\ account' = user
    /\ tab' = "pool" /\ autoRefresh' = TRUE
    /\ keys' = {} /\ localProjects' = {} /\ localKeys' = {}
    /\ calls' =
        {[c EXCEPT !.mine = FALSE] : c \in {d \in calls : d.at = "sent"}}
        \cup {Call("session", NONE, Credentials(user, token, cookie)),
              Load(user, token, cookie)}
        \cup (IF user # NONE /\ storage.token = NONE
              THEN {Call("resync", user, Blank)} ELSE {})
    /\ UNCHANGED cookie

\* shown: with its secret; back: shown as active although it was deleted.
Row(s, p, shown) == [id |-> s, project |-> p, shown |-> shown, revoked |-> FALSE, back |-> FALSE]

\* The page has been opened and has loaded: nobody is signed in yet, or
\* somebody has, and may have a project and be at the Workbench.
WorkbenchInit ==
    /\ \E u \in Starters \cup {NONE} :
          LET token == IF u = NONE THEN NONE ELSE 1 IN
          /\ made = IF u = NONE THEN <<>> ELSE <<u>>
          /\ auth_tokens = [s \in 1..MaxTokens |-> IF s = token THEN u ELSE NONE]
          /\ storage = [user |-> u, token |-> token]
          /\ cookie = [token |-> token, httpOnly |-> u # NONE]
          /\ url = NONE
          /\ account = u
          /\ session = IF u = NONE THEN "out" ELSE "in"
    /\ ops \in Plans
    /\ projects \in [Projects -> IF ops.bench > 0 THEN {account, NONE} ELSE {NONE}]
    /\ api_keys = [k \in Keys |-> NONE]
    /\ autoRefresh = TRUE
    /\ keys = Commons
    /\ \/ tab = "pool" /\ localProjects = {} /\ localKeys = {}
       \/ /\ account # NONE /\ ops.bench > 0
          /\ tab = "workbench"
          /\ localProjects = handleGetProjects(account)
          /\ localKeys = {Row(s, NONE, FALSE) : s \in handleGetTokens(account)}
    /\ calls = {}

Acts(kind) == ops[kind] > 0 /\ ops' = [ops EXCEPT ![kind] = @ - 1]

Fault == ops.faults > 0 /\ ops' = [ops EXCEPT !.faults = @ - 1]

\* A script can neither replace nor remove an HttpOnly cookie.
Written(jar, token) == IF jar.httpOnly THEN jar ELSE [token |-> token, httpOnly |-> FALSE]

Reload ==
    /\ Acts("session")
    /\ OnMount(url)
    /\ session' = IF storage.user # NONE /\ storage.token = NONE THEN "pending" ELSE session
    /\ UNCHANGED server

\* GitHub sends the browser to the callback, which sends it to /?token=.
GithubSignIn(u) ==
    /\ ops.session > 0
    /\ \E stored \in BOOLEAN :
          /\ stored \/ ops.faults > 0
          /\ ops' = [ops EXCEPT !.session = @ - 1, !.faults = IF stored THEN @ ELSE @ - 1]
          /\ handleOAuthGithubCallback(u, stored)
    /\ OnMount(NextToken)
    /\ session' = IF storage.user = u THEN "in" ELSE "pending"

\* The popup has closed; the modal saves the session before it signs in.
GoogleSignIn(u) ==
    /\ Acts("session") /\ Room
    /\ calls' = calls \cup {Call("signin", u, Blank)}
    /\ UNCHANGED <<server, page, lists, session>>

\* u is signed in, unless the page's address has another's token.
SignedInAs(u) == IF url # NONE /\ made[url] # u THEN "url" ELSE "in"

\* A bug: a token that is saved already is not replaced.
SimulateLoginKeepsToken(cs, u, token, jar) ==
    LET kept == IF storage.token # NONE THEN storage.token ELSE UrlFirst(token) IN
    /\ storage' = [user |-> u, token |-> kept]
    /\ account' = u
    /\ cookie' = jar
    /\ calls' = AfterLogin(cs, u, kept, jar,
                    {IF token = NONE THEN Call("sync", u, Blank) ELSE Load(u, kept, jar)})
    /\ session' = IF token = NONE THEN "pending" ELSE SignedInAs(u)
    /\ UNCHANGED <<server, url, tab, autoRefresh, keys, lists>>

\* handleSimulateLogin, with the token of the session or without.
SimulateLogin(cs, u, token, jar) ==
    LET kept == IF token = NONE THEN storage.token ELSE UrlFirst(token) IN
    /\ storage' = [user |-> u, token |-> kept]
    /\ account' = u
    /\ cookie' = jar
    /\ calls' = AfterLogin(cs, u, kept, jar,
                    {IF token = NONE THEN Call("sync", u, Blank) ELSE Load(u, kept, jar)})
    /\ session' = IF token = NONE THEN "pending" ELSE SignedInAs(u)
    /\ UNCHANGED <<server, url, tab, autoRefresh, keys, lists>>

\* The load that follows saves the token of the page's address again.
Logout ==
    /\ Acts("session") /\ Room
    /\ account # NONE
    /\ storage' = [user |-> NONE, token |-> url]
    /\ cookie' = Written(cookie, NONE)
    /\ account' = NONE
    /\ keys' = {}
    /\ calls' = AfterLogin(calls, NONE, url, cookie', {Load(NONE, url, cookie')})
    /\ session' = IF url = NONE THEN "out" ELSE "url"
    /\ UNCHANGED <<server, url, tab, autoRefresh, lists>>

\* The cookie of the answer is set before the continuation runs.
Jar(c) == IF c.ok THEN [token |-> c.id, httpOnly |-> TRUE] ELSE cookie

SignedIn(c) ==
    /\ c.op = "signin"
    /\ SimulateLogin(calls \ {c}, c.arg, c.id, Jar(c))

\* handleSimulateLogin loads the page's data afterwards, onMount does not.
Synced(c) ==
    /\ c.op \in {"sync", "resync"}
    /\ LET rest == IF c.ok THEN Overtaken(calls \ {c}, SessionCalls) ELSE calls \ {c}
           saved == IF c.ok THEN c.id ELSE storage.token
           token == IF c.op = "sync" THEN UrlFirst(saved) ELSE saved IN
       /\ storage' = [storage EXCEPT !.token = token]
       /\ cookie' = Jar(c)
       /\ calls' = rest \cup (IF c.op = "sync" THEN {Load(storage.user, token, Jar(c))} ELSE {})
    /\ session' = IF ~c.live THEN IF c.ok THEN "late" ELSE session
                  ELSE IF c.ok \/ url # NONE THEN SignedInAs(storage.user) ELSE "failed"
    /\ UNCHANGED <<server, url, account, tab, autoRefresh, keys, lists>>

GotSession(c) ==
    /\ c.op = "session"
    /\ IF c.ok /\ c.id # NONE
       THEN /\ account' = c.id
            /\ storage' = [storage EXCEPT !.user = c.id]
            /\ calls' = Overtaken(calls \ {c}, SessionCalls \cup ListCalls)
                          \cup Effects(c.id, storage.token, cookie)
            /\ session' = IF ~c.live THEN "late" ELSE IF c.known THEN "in" ELSE session
       ELSE /\ calls' = calls \ {c}
            /\ UNCHANGED <<account, storage, session>>
    /\ UNCHANGED <<server, cookie, url, tab, autoRefresh, keys, lists>>

-----------------------------------------------------------------------------
(* The pool's list.                                                        *)

ToggleAutoRefresh ==
    /\ Acts("pool")
    /\ autoRefresh' = ~autoRefresh
    /\ UNCHANGED <<server, storage, cookie, url, account, tab, keys, lists, calls, session>>

\* Every three seconds.
Poll ==
    /\ autoRefresh /\ tab = "pool"
    /\ Room /\ Cardinality({c \in calls : c.op = "load"}) < ops.loads
    /\ Resaves
    /\ calls' = calls \cup {Load(storage.user, UrlFirst(storage.token), cookie)}
    /\ UNCHANGED <<server, others, lists, ops, session>>

\* A bug: only a page without a list takes one.
LoadedOnce(c) ==
    /\ c.op = "load"
    /\ keys' = IF keys = {} THEN c.ids ELSE keys
    /\ Resaves
    /\ calls' = calls \ {c}
    /\ UNCHANGED <<server, cookie, url, account, tab, autoRefresh, lists, session>>

\* A list that cannot be loaded is shown as empty.  Then, as in the two other
\* continuations, the statistics are asked for.
Loaded(c) ==
    /\ c.op = "load"
    /\ keys' = c.ids
    /\ Resaves
    /\ calls' = calls \ {c}
    /\ UNCHANGED <<server, cookie, url, account, tab, autoRefresh, lists, session>>

AddKey(k) ==
    /\ Acts("pool") /\ Room
    /\ api_keys[k] = NONE
    /\ Resaves
    /\ calls' = calls \cup {Call("add", k, getAuthHeaders)}
    /\ UNCHANGED <<server, others, lists, session>>

Added(c) ==
    /\ c.op = "add"
    /\ IF c.ok THEN keys' = keys \cup {c.arg} /\ Resaves ELSE UNCHANGED <<keys, storage>>
    /\ calls' = calls \ {c}
    /\ UNCHANGED <<server, cookie, url, account, tab, autoRefresh, lists, session>>

deleteKey(k) ==
    /\ Acts("pool") /\ Room
    /\ k \in keys
    /\ Resaves
    /\ calls' = calls \cup {Call("remove", k, getAuthHeaders)}
    /\ UNCHANGED <<server, others, lists, session>>

\* Whatever was answered.
Removed(c) ==
    /\ c.op = "remove"
    /\ keys' = keys \ {c.arg}
    /\ Resaves
    /\ calls' = calls \ {c}
    /\ UNCHANGED <<server, cookie, url, account, tab, autoRefresh, lists, session>>

-----------------------------------------------------------------------------
(* The Workbench.                                                          *)

\* Without keys to show, the tab asks api.ts for them first.
OpenWorkbench ==
    /\ Acts("bench")
    /\ tab = "pool" /\ tab' = "workbench"
    /\ localProjects' = {} /\ localKeys' = {}
    /\ IF keys = {} THEN Resaves ELSE UNCHANGED storage
    /\ calls' = calls \cup
          {Call(op, NONE, Credentials(account, storage'.token, cookie)) : op \in ListCalls}
    /\ UNCHANGED <<server, cookie, url, account, autoRefresh, keys, session>>

\* The component is gone: what its calls bring changes nothing on the page.
LeaveWorkbench ==
    /\ Acts("bench")
    /\ tab = "workbench" /\ tab' = "pool"
    /\ localProjects' = {} /\ localKeys' = {}
    /\ calls' = {[c EXCEPT !.mine = @ /\ c.op \notin WorkbenchCalls] : c \in calls}
    /\ UNCHANGED <<server, storage, cookie, url, account, autoRefresh, keys, session>>

\* The headers of a list: without it there is nothing to show, and a run of
\* the effect that was cancelled ends here.
ListArrives(c) ==
    /\ c.op \in ListCalls /\ c.at = "answered"
    /\ LET shows == ~c.ok /\ c.live IN
       /\ calls' = (calls \ {c}) \cup
                      (IF c.ok /\ c.live THEN {[c EXCEPT !.at = "body"]} ELSE {})
       /\ localProjects' = IF shows /\ c.op = "projects" THEN {} ELSE localProjects
       /\ localKeys' = IF shows /\ c.op = "tokens" THEN {} ELSE localKeys
    /\ UNCHANGED <<server, page, session>>

\* The body.  The API's rows of tokens have neither a project nor a secret.
ListRead(c) ==
    /\ c.op \in ListCalls /\ c.at = "body"
    /\ LET applies == c.live \/ c.ids # {} IN
       /\ localProjects' = IF applies /\ c.op = "projects" THEN c.ids ELSE localProjects
       /\ localKeys' = IF applies /\ c.op = "tokens"
                       THEN {Row(s, NONE, FALSE) : s \in c.ids} ELSE localKeys
    /\ calls' = calls \ {c}
    /\ UNCHANGED <<server, page, session>>

Asks(op, arg) ==
    /\ Acts("bench") /\ Room
    /\ tab = "workbench"
    /\ calls' = calls \cup {Call(op, arg, getRequestHeaders)}
    /\ UNCHANGED <<server, page, lists, session>>

handleCreateNewKey(p) == p \in localProjects /\ Asks("newToken", p)

Rows(p) == {r \in localKeys : r.project = p /\ ~r.revoked}

\* With a token of the project, that is to be replaced; else a new one is made.
handleRotateProjectKey(p) ==
    /\ p \in localProjects
    /\ \/ \E r \in Rows(p) : Asks("rotate", r.id)
       \/ Rows(p) = {} /\ Asks("newToken", p)

\* The list may have brought the token before its creation is answered.
AsksToDelete(op, s) ==
    /\ Acts("bench") /\ Room
    /\ calls' = {[c EXCEPT !.live = @ /\ c.id # s] : c \in calls}
                 \cup {Call(op, s, getRequestHeaders)}
    /\ UNCHANGED <<server, page, lists, session>>

handleRevokeKey(r) == ~r.revoked /\ AsksToDelete("revoke", r.id)
handleDeleteToken_(r) == AsksToDelete("drop", r.id)
handleDeleteProject_(p) == p \in localProjects /\ Asks("dropProject", p)
handleCreateNewProject == Asks("newProject", NONE)

\* What was revoked is shown as active again; nothing is sent.
handleToggleKey(r) ==
    /\ Acts("bench")
    /\ r.revoked
    /\ localKeys' = (localKeys \ {r}) \cup {[r EXCEPT !.revoked = FALSE, !.back = TRUE]}
    /\ UNCHANGED <<server, page, localProjects, calls, session>>

Created(c) ==
    /\ c.op = "newToken" /\ c.ok
    /\ localKeys' = localKeys \cup {[Row(c.id, c.arg, TRUE) EXCEPT !.back = ~c.live]}
    /\ UNCHANGED localProjects

\* POST /api/tokens/:id/rotate is no route of the API: always 404.
Rotated(c) == c.op = "rotate" /\ UNCHANGED lists

\* A bug: only what was confirmed is shown as revoked.
RevokedIfConfirmed(c) ==
    /\ c.op = "revoke"
    /\ localKeys' = {IF c.ok /\ r.id = c.arg THEN [r EXCEPT !.revoked = TRUE] ELSE r :
                        r \in localKeys}
    /\ UNCHANGED localProjects

\* Whatever was answered, as in the next two.
Revoked(c) ==
    /\ c.op = "revoke"
    /\ localKeys' = {IF r.id = c.arg THEN [r EXCEPT !.revoked = TRUE] ELSE r : r \in localKeys}
    /\ UNCHANGED localProjects

Dropped(c) ==
    /\ c.op = "drop"
    /\ localKeys' = {r \in localKeys : r.id # c.arg}
    /\ UNCHANGED localProjects

ProjectDropped(c) ==
    /\ c.op = "dropProject"
    /\ localProjects' = localProjects \ {c.arg}
    /\ localKeys' = {r \in localKeys : r.project # c.arg}

\* A project the API did not create is shown all the same.
ProjectCreated(c) ==
    /\ c.op = "newProject"
    /\ localProjects' = localProjects \cup {IF c.ok THEN c.id ELSE FALLBACK}
    /\ UNCHANGED localKeys

Changed(c) ==
    /\ \/ Created(c) \/ Rotated(c) \/ Revoked(c) \/ Dropped(c)
       \/ ProjectDropped(c) \/ ProjectCreated(c)
       \/ c.op = "newToken" /\ ~c.ok /\ UNCHANGED lists
    /\ calls' = calls \ {c}
    /\ UNCHANGED <<server, page, session>>

-----------------------------------------------------------------------------
(* The API, and the way to it.                                             *)

Method(op) ==
    CASE op \in {"load", "session", "projects", "tokens"} -> "GET"
      [] op \in {"remove", "revoke", "drop", "dropProject"} -> "DELETE"
      [] OTHER -> "POST"

Answer(c, ok, ids, id, known) ==
    calls' = (calls \ {c}) \cup
        {[c EXCEPT !.at = "answered", !.ok = ok, !.ids = ids, !.id = id,
                   !.known = known, !.creds = Blank]}

\* GET: a list, or who one is.
Reads(c, t, known) ==
    /\ CASE c.op = "load" -> Answer(c, TRUE, handleGetKeys(t), NONE, known)
         [] c.op = "session" -> Answer(c, TRUE, {}, t, known)
         [] c.op = "projects" -> Answer(c, t # NONE, handleGetProjects(t), NONE, known)
         [] c.op = "tokens" -> Answer(c, t # NONE, handleGetTokens(t), NONE, known)
    /\ UNCHANGED server

\* What is asked for is done for tenant t; the answer names what was made.
Changes(c, t) ==
    CASE c.op = "add" -> handlePostKeys(t, c.arg) /\ Answer(c, TRUE, {}, c.arg, TRUE)
      [] c.op = "remove" -> handleDeleteKey(t, c.arg) /\ Answer(c, TRUE, {}, c.arg, TRUE)
      [] c.op = "newToken" -> handlePostTokens(t) /\ Answer(c, TRUE, {}, NextToken, TRUE)
      [] c.op \in {"revoke", "drop"} ->
            /\ handleDeleteToken(t, c.arg)
            /\ Answer(c, auth_tokens[c.arg] = t, {}, NONE, TRUE)
      [] c.op = "newProject" ->
            \E p \in Projects : handlePostProjects(t, p) /\ Answer(c, TRUE, {}, p, TRUE)
      [] c.op = "dropProject" /\ c.arg # FALLBACK ->
            /\ handleDeleteProject(t, c.arg)
            /\ Answer(c, projects[c.arg] = t, {}, NONE, TRUE)
      [] OTHER -> FALSE

Declines(c) == Answer(c, FALSE, {}, NONE, FALSE) /\ UNCHANGED server

\* The quota of the token's tenant may be spent, as by the page's own polls.
Serve(c) ==
    /\ c.at = "sent"
    /\ c.op \notin {"signin", "sync", "resync"}
    /\ \E throttled \in BOOLEAN :
          LET t == TenantOf(c.creds, throttled) IN
          IF Method(c.op) = "GET"
          THEN Reads(c, t, Accepted(c.creds, throttled))
          ELSE \/ /\ ~Refused(c.creds, Method(c.op), throttled) /\ t # NONE
                  /\ Changes(c, t)
               \/ /\ \/ Refused(c.creds, Method(c.op), throttled) \/ t = NONE
                     \/ c.op \in {"rotate", "newProject", "add"} \/ c.arg = FALLBACK
                  /\ Declines(c)
    /\ UNCHANGED <<page, lists, ops, session>>

SaveSession(c) ==
    /\ c.at = "sent"
    /\ c.op \in {"signin", "sync", "resync"}
    /\ \E stored \in BOOLEAN :
          /\ IF stored THEN UNCHANGED ops ELSE Fault
          /\ handleSyncSession(c.arg, stored)
    /\ Answer(c, TRUE, {}, NextToken, TRUE)
    /\ UNCHANGED <<page, lists, session>>

\* On its way there, or on its way back.
Lose(c) ==
    /\ c.at \in {"sent", "answered"}
    /\ Fault
    /\ calls' = (calls \ {c}) \cup
           {[c EXCEPT !.at = "answered", !.ok = FALSE, !.ids = {}, !.id = NONE,
                      !.known = FALSE, !.creds = Blank]}
    /\ UNCHANGED <<server, page, lists, session>>

\* Nobody waits for the answer any more.
Discard(c) ==
    /\ c.at # "sent" /\ ~c.mine
    /\ calls' = calls \ {c}
    /\ UNCHANGED <<server, page, lists, session>>

Receive(c) ==
    /\ \/ Discard(c)
       \/ /\ c.at = "answered" /\ c.mine
          /\ \/ SignedIn(c) \/ Synced(c) \/ GotSession(c)
             \/ Loaded(c) \/ Added(c) \/ Removed(c)
             \/ Changed(c)
       \/ c.mine /\ (ListArrives(c) \/ ListRead(c))
    /\ UNCHANGED ops

User ==
    \/ Reload \/ Logout \/ ToggleAutoRefresh
    \/ \E u \in Tenants : GithubSignIn(u) \/ GoogleSignIn(u)
    \/ \E k \in Keys : AddKey(k)
    \/ \E k \in Keys \cup Commons : deleteKey(k)
    \/ OpenWorkbench \/ LeaveWorkbench
    \/ \E p \in Projects \cup {FALLBACK} :
          handleCreateNewKey(p) \/ handleRotateProjectKey(p) \/ handleDeleteProject_(p)
    \/ handleCreateNewProject
    \/ \E r \in localKeys : handleRevokeKey(r) \/ handleDeleteToken_(r) \/ handleToggleKey(r)

WorkbenchNext ==
    \/ User
    \/ Poll
    \/ \E c \in calls : Serve(c) \/ SaveSession(c) \/ Lose(c) \/ Receive(c)

WorkbenchSpec == WorkbenchInit /\ [][WorkbenchNext]_workbenchVars

\* The API answers, an answer is taken up, and the timer goes off.
Fairness ==
    /\ WF_workbenchVars(\E c \in calls : Serve(c) \/ SaveSession(c))
    /\ WF_workbenchVars(\E c \in calls : Receive(c))
    /\ WF_workbenchVars(Poll)

FairSpec == WorkbenchSpec /\ Fairness

-----------------------------------------------------------------------------
(* Properties.                                                             *)

Owner(token) == IF token = NONE THEN NONE ELSE made[token]

\* The account shown, the tenant sent and the token sent are one tenant's
\* (App.svelte: handleSimulateLogin, handleLogout, the two callbacks of
\* onMount; api.ts: getAuthHeaders).  Except after an answer that a later
\* login, logout or answer had overtaken, where the session could not be
\* saved, and where the page's address has a token: it comes back after a
\* logout, and after the login of another.
SessionCoherent ==
    /\ session = "in" =>
          /\ account # NONE
          /\ account = storage.user
          /\ account = Owner(RawToken(getAuthHeaders))
    /\ session = "out" => account = NONE /\ storage = [user |-> NONE, token |-> NONE]

\* A token that the Workbench shows with its secret and as active is one the
\* API accepts, or it is being deleted right now; unless the user has
\* switched it on again, or had it deleted before its creation was answered
\* (Workbench.svelte: the lists are changed after the await, and loaded
\* meanwhile).
ShownSecretsWork ==
    \A r \in localKeys :
        r.shown /\ ~r.revoked /\ ~r.back =>
            \/ auth_tokens[r.id] # NONE
            \/ \E c \in calls : c.op \in {"revoke", "drop"} /\ c.arg = r.id

\* The credentials mean one tenant, whether the token's quota is spent or not.
OneTenant == \A throttled \in BOOLEAN : TenantOf(getAuthHeaders, throttled) = storage.user

\* Where the page refreshes itself, the list of keys becomes what the API has
\* for the user and stays so, whatever old answers are still to come
\* (App.svelte: loadData of the timer, of a login, of a logout).  Not so where
\* the token of the page's address is not the user's: such a page sends it for
\* ever.
ViewConverges ==
    <>[](autoRefresh /\ tab = "pool" /\ OneTenant)
        => <>[](keys = handleGetKeys(storage.user))
=============================================================================
