------------------------------ MODULE Session ------------------------------
(***************************************************************************)
(* The dashboard's API as the console calls it: whom a request is taken    *)
(* to be from (worker/router/dashboard/handler.ts), the handlers that open *)
(* sessions (auth_routes.ts), those of gateway tokens (token_routes.ts)    *)
(* and of projects (project_routes.ts), and the list of provider keys      *)
(* (keys/get_keys.ts).                                                     *)
(*                                                                         *)
(* Tokens are numbered in the order they are made; a row of auth_tokens is *)
(* known by the token it is the hash of.  How provider keys are stored and *)
(* removed is KeyConsole's subject, and how a tenant's quota is counted is *)
(* TenantQuota's: here a token may be refused at any time for a spent      *)
(* quota.  Left out: the administrator's master key and tier, expiry       *)
(* dates, and the data a row carries beside its id and its tenant.         *)
(***************************************************************************)
EXTENDS Integers, Sequences, FiniteSets

CONSTANTS
    Tenants,
    Keys,          \* ids of provider keys that tenants may add
    Commons,       \* ids of community keys, which everyone is shown
    Projects,      \* ids that projects are given
    MaxTokens,     \* bound
    NONE           \* no tenant: anonymous; also no token, and no answer

ASSUME SessionAssumption ==
    /\ MaxTokens \in Nat \ {0}
    /\ NONE \notin Nat \cup Tenants

VARIABLES
    auth_tokens,   \* the tenant of each row, NONE for a token without one
    made,          \* the tenant of every token made, in order
    projects,      \* the tenant of each project, NONE for an id without one
    api_keys       \* the same of each private provider key

server == <<auth_tokens, made, projects, api_keys>>

Made == DOMAIN made

-----------------------------------------------------------------------------
(* Who calls: a bearer token, or else the cookie; the header x-tenant-id   *)
(* stands in where they name nobody.                                       *)

RawToken(creds) == IF creds.token # NONE THEN creds.token ELSE creds.cookie

Accepted(creds, throttled) ==
    /\ RawToken(creds) # NONE
    /\ auth_tokens[RawToken(creds)] # NONE
    /\ ~throttled

Refused(creds, method, throttled) ==
    /\ method # "GET"
    /\ RawToken(creds) # NONE
    /\ ~Accepted(creds, throttled)

TenantOf(creds, throttled) ==
    IF Accepted(creds, throttled) THEN auth_tokens[RawToken(creds)]
                                  ELSE creds.header

-----------------------------------------------------------------------------
(* A new token, of 16 hexadecimal digits or of 48: never one made before.  *)

NextToken == Len(made) + 1

NewToken(t, stored) ==
    /\ NextToken <= MaxTokens
    /\ made' = Append(made, t)
    /\ auth_tokens' = IF stored THEN [auth_tokens EXCEPT ![NextToken] = t]
                                ELSE auth_tokens

\* The user's row and the token's are written in one try: when D1 fails,
\* the token is given out all the same.
handleSyncSession(t, stored) ==
    /\ NewToken(t, stored)
    /\ UNCHANGED <<projects, api_keys>>

handleOAuthGithubCallback(t, stored) ==
    /\ NewToken(t, stored)
    /\ UNCHANGED <<projects, api_keys>>

handleGetTokens(t) == {s \in Made : t # NONE /\ auth_tokens[s] = t}

handlePostTokens(t) ==
    /\ NewToken(t, TRUE)
    /\ UNCHANGED <<projects, api_keys>>

handleDeleteToken(t, s) ==
    /\ auth_tokens' = [auth_tokens EXCEPT ![s] = IF @ = t THEN NONE ELSE @]
    /\ UNCHANGED <<made, projects, api_keys>>

handleGetProjects(t) == {p \in Projects : t # NONE /\ projects[p] = t}

handlePostProjects(t, p) ==
    /\ projects[p] = NONE
    /\ projects' = [projects EXCEPT ![p] = t]
    /\ UNCHANGED <<auth_tokens, made, api_keys>>

\* Only the row goes: the UPDATE of the table keys fails, as there is none,
\* and auth_tokens has no column for a project.
handleDeleteProject(t, p) ==
    /\ projects' = [projects EXCEPT ![p] = IF @ = t THEN NONE ELSE @]
    /\ UNCHANGED <<auth_tokens, made, api_keys>>

-----------------------------------------------------------------------------
handleGetKeys(t) ==
    Commons \cup {k \in Keys : t # NONE /\ api_keys[k] = t}

\* External here: KeyConsole has the steps of both handlers.
handlePostKeys(t, k) ==
    /\ api_keys[k] = NONE
    /\ api_keys' = [api_keys EXCEPT ![k] = t]
    /\ UNCHANGED <<auth_tokens, made, projects>>

handleDeleteKey(t, k) ==
    /\ api_keys' = [api_keys EXCEPT ![k] = IF @ = t THEN NONE ELSE @]
    /\ UNCHANGED <<auth_tokens, made, projects>>
=============================================================================
