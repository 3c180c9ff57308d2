----------------------------- MODULE KeyConsole -----------------------------
(***************************************************************************)
(* The life of a provider key outside the key pools: the dashboard's and   *)
(* the administrator's handlers that write the table api_keys              *)
(* (worker/router/dashboard/keys, worker/gateway/admin_handler.ts,         *)
(* abuse_routes.ts), the registry of cloud projects that a new key is      *)
(* checked against, and the lookup that turns a key's id into its secret   *)
(* for a request (worker/router/core/key_resolver.ts).                     *)
(*                                                                         *)
(* Every await on D1 lets other requests in, so a handler is a sequence of *)
(* actions.  A statement of handlePostKeys may fail at any time; with the  *)
(* tables of migrations/0006 and 0007 the INSERTs into the registry and    *)
(* into consent_attestations always do.                                    *)
(*                                                                         *)
(* A key pool is what KeyPool models in detail; here it is the set of its  *)
(* keys, filled from D1 only while that set is empty.  D1 evaluates the    *)
(* query at one moment and the rows arrive at another.  A secret is a      *)
(* number; it is encrypted under a tenant's key, derived from the master   *)
(* key, as KeySecrets has it.                                              *)
(***************************************************************************)
EXTENDS KeySecrets

CONSTANTS
    Keys,          \* ids of keys; an id is used once
    Tenants,       \* tenants that may call the dashboard
    GitHub,        \* those of them with a GitHub account
    Projects,      \* cloud projects a key may belong to
    Isolates,      \* of the worker; each has a cache of decrypted keys
    TTL,           \* CACHE_TTL_MS
    LATENCY,       \* bound: how long a lookup may wait for D1 and decrypt
    MaxTime, MaxSecrets,   \* bounds
    MaxChanges,    \* bound: the operations on stored keys
    MaxNotices,    \* bound: the notices on their way at once
    MaxLoads,      \* bound: the loads under way at once
    NONE

ASSUME KeyConsoleAssumption ==
    /\ GitHub \subseteq Tenants
    /\ DEFAULT \notin Tenants
    /\ {TTL, LATENCY, MaxTime, MaxSecrets, MaxChanges, MaxNotices, MaxLoads} \subseteq Nat
    /\ NONE \notin Nat \cup Tenants \cup Projects

VARIABLES
    now,
    rows,          \* api_keys: a record per id, or NONE
    registry,      \* project_hash_registry: the projects in state ACTIVE
    posts,         \* per id, the handlePostKeys that inserts it
    notices,       \* calls of key pools that handlers have still to make
    pools,         \* per tenant, the keys that its key pool has
    loads,         \* of pools, on their way from D1 (and history, l.astray: the
                   \* keys among them that were not the pool's to have then)
    cache,         \* per isolate, decryptedKeyCache
    lookups,       \* per isolate, a lookup that waits
    secrets,       \* how many secrets there are; they are numbered
    changes,       \* how many operations on stored keys there were
    retired,       \* history: per secret, when it stopped being a row's
    rotated        \* history: ids whose secret was replaced

table == <<rows, registry>>
worker == <<posts, notices, cache, lookups>>
objects == <<pools, loads>>
counts == <<secrets, changes>>
history == <<retired, rotated>>
vars == <<now, table, worker, objects, counts, history>>

Pooled == Tenants \cup {DEFAULT}

Present == {k \in Keys : rows[k] # NONE}

Idle == [at |-> "idle"]

Over(k) == [at |-> "over", tenant |-> posts[k].tenant]

Init ==
    /\ now = 0
    /\ rows = [k \in Keys |-> NONE]
    /\ registry = {}
    /\ posts = [k \in Keys |-> Idle]
    /\ notices = {}
    /\ pools = [t \in Pooled |-> {}] /\ loads = {}
    /\ cache = [i \in Isolates |-> [k \in Keys |-> NONE]]
    /\ lookups = [i \in Isolates |-> NONE]
    /\ secrets = 0
    /\ changes = 0
    /\ retired = [s \in 1..MaxSecrets |-> NONE]
    /\ rotated = {}

-----------------------------------------------------------------------------
(* Writing rows *)

\* A write of rows.
Observe(new) ==
    /\ rows' = new
    /\ retired' =
           [s \in 1..MaxSecrets |->
               IF /\ \E k \in Present : rows[k].secret = s
                  /\ \A k \in Keys : new[k] # NONE => new[k].secret # s
               THEN now ELSE retired[s]]

\* UPDATE api_keys SET ... WHERE id IN ids
Update(ids, change(_)) ==
    Observe([k \in Keys |-> IF k \in ids \cap Present THEN change(rows[k]) ELSE rows[k]])

Delete(ids) == Observe([k \in Keys |-> IF k \in ids THEN NONE ELSE rows[k]])

\* The routing that goes with a pool type when the owner chooses it.
RoutingOf(pool) == IF pool = "COMMUNITY" THEN "OBSERVATION" ELSE "NULL"

MayContribute(t) == t \in GitHub

Change ==
    /\ changes < MaxChanges
    /\ changes' = changes + 1

Tell(n) ==
    /\ Cardinality(notices) < MaxNotices
    /\ notices' = notices \cup {n}

-----------------------------------------------------------------------------
(* handlePostKeys *)

\* Up to the check of the registry.  Anybody may add to the community pool: that
\* only GitHub accounts may is asked of "COMMUNITY" so spelled, and "community"
\* is made that afterwards.  The administrator adds for any tenant.
PostKey(k, t, project, pool) ==
    /\ posts[k] = Idle
    /\ secrets < MaxSecrets
    /\ project \notin registry
    /\ posts' = [posts EXCEPT ![k] =
           [at |-> IF project = NONE THEN "registered" ELSE "checked",
            tenant |-> t, project |-> project, pool |-> pool]]
    /\ UNCHANGED <<now, table, notices, objects, cache, lookups, counts, history>>

\* Wrong: the project is registered over another.
PostRegisterOver(k) ==
    /\ posts[k].at = "checked"
    /\ registry' = registry \cup {posts[k].project}
    /\ posts' = [posts EXCEPT ![k].at = "registered"]
    /\ UNCHANGED <<now, rows, notices, objects, cache, lookups, counts, history>>

\* INSERT INTO project_hash_registry; the project is its primary key.
PostRegister(k) ==
    /\ posts[k].at = "checked"
    /\ posts[k].project \notin registry
    /\ registry' = registry \cup {posts[k].project}
    /\ posts' = [posts EXCEPT ![k].at = "registered"]
    /\ UNCHANGED <<now, rows, notices, objects, cache, lookups, counts, history>>

\* INSERT INTO api_keys
PostStore(k) ==
    /\ posts[k].at = "registered"
    /\ secrets < MaxSecrets
    /\ secrets' = secrets + 1
    /\ posts' = [posts EXCEPT ![k].at = "stored"]
    /\ Observe([rows EXCEPT ![k] =
           [tenant |-> posts[k].tenant,
            secret |-> secrets', under |-> posts[k].tenant,
            project |-> posts[k].project,
            pool |-> posts[k].pool, routing |-> RoutingOf(posts[k].pool),
            status |-> "Healthy"]])
    /\ UNCHANGED <<now, registry, notices, objects, cache, lookups, changes, rotated>>

\* The two attestations are stored and the key pool is to be told.
PostAttest(k) ==
    /\ posts[k].at = "stored"
    /\ posts' = [posts EXCEPT ![k] = Over(k)]
    /\ Tell([call |-> "add", key |-> k, pool |-> posts[k].tenant])
    /\ UNCHANGED <<now, table, objects, cache, lookups, counts, history>>

\* One of the statements fails, and the request with it.  What the ones before
\* it wrote stays.
PostFails(k) ==
    /\ posts[k].at \in {"checked", "registered", "stored"}
    /\ posts' = [posts EXCEPT ![k] = Over(k)]
    /\ UNCHANGED <<now, table, notices, objects, cache, lookups, counts, history>>

-----------------------------------------------------------------------------
(* The owner's other operations (keys/ops.ts) *)

Mine(t) == {k \in Present : rows[k].tenant = t}

\* Keys of DEFAULT are everybody's to rotate and to take over.
MineOrDefault(t) == Mine(t) \cup Mine(DEFAULT)

\* handleDeleteKey of a tenant; its pool is told even if the row was not its.
DeleteKey(k, t) ==
    /\ posts[k] # Idle
    /\ Delete({k} \cap Mine(t))
    /\ Tell([call |-> "remove", key |-> k, pool |-> t])
    /\ Change
    /\ UNCHANGED <<now, registry, posts, objects, cache, lookups, secrets, rotated>>

\* Of the administrator, whose header names the pool to tell, or it is DEFAULT's.
DeleteKeyAdmin(k, header) ==
    /\ posts[k] # Idle
    /\ Delete({k})
    /\ Tell([call |-> "remove", key |-> k, pool |-> header])
    /\ Change
    /\ UNCHANGED <<now, registry, posts, objects, cache, lookups, secrets, rotated>>

ClearCache(i) == cache' = [cache EXCEPT ![i] = [k \in Keys |-> NONE]]

\* handlePoolMode, outside the hour around midnight: a key of DEFAULT becomes
\* the caller's.
PoolMode(i, k, t, pool) ==
    /\ pool = "COMMUNITY" => MayContribute(t)
    /\ Update({k} \cap MineOrDefault(t),
              LAMBDA r : [r EXCEPT !.pool = pool, !.routing = RoutingOf(pool), !.tenant = t])
    /\ ClearCache(i)
    /\ Change
    /\ UNCHANGED <<now, registry, posts, notices, objects, lookups, secrets, rotated>>

PoolModeAdmin(i, k, pool) ==
    /\ Update({k}, LAMBDA r : [r EXCEPT !.pool = pool, !.routing = RoutingOf(pool)])
    /\ ClearCache(i)
    /\ Change
    /\ UNCHANGED <<now, registry, posts, notices, objects, lookups, secrets, rotated>>

\* handleRotateKeySecret: the new secret is encrypted for the caller, or for the
\* tenant of the administrator's header; the row stays whose it was.
Rotate(i, k, target) ==
    /\ secrets < MaxSecrets
    /\ k \in Present
    /\ secrets' = secrets + 1
    /\ Update({k}, LAMBDA r : [r EXCEPT !.secret = secrets', !.under = target])
    /\ rotated' = rotated \cup {k}
    /\ ClearCache(i)
    /\ Change
    /\ UNCHANGED <<now, registry, posts, notices, objects, lookups>>

RotateKeySecret(i, k, t) == k \in MineOrDefault(t) /\ Rotate(i, k, t)

RotateKeySecretAdmin(i, k, header) == Rotate(i, k, header)

-----------------------------------------------------------------------------
(* The administrator (admin_handler.ts) and reports of abuse *)

OnlyRows == Change /\ UNCHANGED <<now, registry, worker, objects, secrets, rotated>>

\* POST /api/admin/keys/:id/routing-status; REVOKED is answered and not stored.
RoutingStatus(k, status) ==
    /\ k \in Present
    /\ Update({k}, LAMBDA r :
           [r EXCEPT !.routing = status,
                     !.status = IF status = "QUARANTINED" THEN "quarantined" ELSE "Healthy"])
    /\ OnlyRows

\* POST /api/admin/keys/:id/pool-mode: the routing stays as it is.
AdminPoolMode(k, pool) ==
    /\ k \in Present
    /\ Update({k}, LAMBDA r : [r EXCEPT !.pool = pool])
    /\ OnlyRows

\* DELETE /api/admin/keys/:id, and PURGE_ALL_KEYS: no pool is told.
AdminDelete(ids) ==
    /\ ids \subseteq Present
    /\ Delete(ids)
    /\ OnlyRows

\* ACTIVATE_ALL_OBSERVATION
ActivateAll ==
    /\ Update({k \in Present : rows[k].pool = "COMMUNITY" /\ rows[k].routing = "OBSERVATION"},
              LAMBDA r : [r EXCEPT !.routing = "ACTIVE"])
    /\ OnlyRows

\* PURGE_QUARANTINED
PurgeQuarantined ==
    /\ Delete({k \in Present : rows[k].routing = "QUARANTINED" \/ rows[k].status = "invalid"})
    /\ OnlyRows

\* POST /api/abuse/report-key: a key by its id, or those that share the prefix of
\* the reported one.  The registry is searched for the hash of the key where it
\* holds the hash of the project, so that nothing is ever TOMBSTONED.
ReportKeyAbuse(ids) ==
    /\ ids \subseteq Present
    /\ Update(ids, LAMBDA r : [r EXCEPT !.status = "invalid", !.routing = "REVOKED"])
    /\ OnlyRows

-----------------------------------------------------------------------------
(* Key pools *)

\* Wrong: community keys are taken before they are active.
SelectedEarly(t) ==
    {k \in Present : /\ rows[k].status = "Healthy"
                     /\ rows[k].tenant = t \/ rows[k].pool = "COMMUNITY"}

\* The rows that a key pool loads.
Selected(t) ==
    {k \in Present : /\ rows[k].status = "Healthy"
                     /\ \/ rows[k].tenant = t
                        \/ rows[k].pool = "COMMUNITY" /\ rows[k].routing = "ACTIVE"}

\* What a notice that has arrived makes of the keys (NONE is none).
Told(keys, n) ==
    IF n = NONE THEN keys
    ELSE IF n.call = "add" THEN keys \cup {n.key} ELSE keys \ {n.key}

\* The keys that a pool may be given now.
Entitled(t) == {k \in Present : rows[k].tenant = t \/ rows[k].routing = "ACTIVE"}

\* ensureLoaded up to the await: D1 evaluates the query, for a request or for the
\* notice that has arrived.  A query that finds nothing changes nothing.
Query(t, notice) ==
    /\ pools[t] = {} /\ Selected(t) # {}
    /\ Cardinality(loads) < MaxLoads
    /\ loads' = loads \cup {[pool |-> t, keys |-> Selected(t), notice |-> notice,
                            astray |-> Selected(t) \ Entitled(t)]}
    /\ UNCHANGED pools

LoadPool(t) ==
    /\ Query(t, NONE)
    /\ UNCHANGED <<now, table, worker, counts, history>>

\* The rows arrive, whatever has become of them or of the pool meanwhile.
LoadArrives(l) ==
    /\ l \in loads
    /\ loads' = loads \ {l}
    /\ pools' = [pools EXCEPT ![l.pool] = Told(@ \cup l.keys, l.notice)]
    /\ UNCHANGED <<now, table, worker, counts, history>>

\* D1 fails, which is caught, or the object is lost.
LoadFails(l) ==
    /\ l \in loads
    /\ loads' = loads \ {l}
    /\ \/ pools' = [pools EXCEPT ![l.pool] = Told(@, l.notice)]
       \/ UNCHANGED pools
    /\ UNCHANGED <<now, table, worker, counts, history>>

\* A pool is told of a key that was added or removed; one that has no keys loads
\* them first.
Notify(n) ==
    /\ n \in notices
    /\ notices' = notices \ {n}
    /\ \/ Query(n.pool, n)
       \/ /\ pools[n.pool] # {} \/ Selected(n.pool) = {}
          /\ pools' = [pools EXCEPT ![n.pool] = Told(@, n)]
          /\ UNCHANGED loads
    /\ UNCHANGED <<now, table, posts, cache, lookups, counts, history>>

\* The call fails and the handler goes on.
NotifyFails(n) ==
    /\ n \in notices
    /\ notices' = notices \ {n}
    /\ UNCHANGED <<now, table, posts, objects, cache, lookups, counts, history>>

-----------------------------------------------------------------------------
(* resolvePlaintextKey *)

\* Wrong: entries do not expire.
CachedForever(i, k) == cache[i][k] # NONE

\* An entry that a lookup answers at once, which changes nothing.
Cached(i, k) == cache[i][k] # NONE /\ cache[i][k].expiresAt > now

\* For a request that its pool gave the key, or for the owner's test of it.
Asks(k, t) == k \in pools[t] \/ k \in Mine(t)

KC_MASTER_KEY == Passphrase("KC_MASTER_KEY", 32, FALSE)

\* The columns of a row of tenant t as handlePostKeys and handleRotateKeySecret
\* have written them.
StoredKey(t, under) ==
    [encryptPlaintextKey(Secret, under, KC_MASTER_KEY, Bytes(12, "nonce")) EXCEPT !.tenant = t]

\* By whose keys, encrypted for whom, a caller is served.
Readable ==
    [t \in Pooled |-> [under \in Pooled |->
        {caller \in Pooled :
            resolvePlaintextKey(StoredKey(t, under), caller, KC_MASTER_KEY) = Secret}]]

Decrypts(row, caller) == caller \in Readable[row.tenant][row.under]

\* The row is read.  Without it, or if D1 fails, the id stands in for the secret,
\* which changes nothing here.
LookupRow(i, k, t) ==
    /\ Asks(k, t)
    /\ lookups[i] = NONE
    /\ ~Cached(i, k)
    /\ k \in Present
    /\ lookups' = [lookups EXCEPT ![i] =
           [key |-> k, secret |-> rows[k].secret, reads |-> Decrypts(rows[k], t), at |-> now]]
    /\ UNCHANGED <<now, table, posts, notices, cache, objects, counts, history>>

\* The secret is cached and returned, or the id is returned (NONE).
LookupDone(i) ==
    /\ lookups[i] # NONE
    /\ LET l == lookups[i] IN
       cache' = IF l.reads
                THEN [cache EXCEPT ![i][l.key] =
                          [secret |-> l.secret, expiresAt |-> now + TTL]]
                ELSE cache
    /\ lookups' = [lookups EXCEPT ![i] = NONE]
    /\ UNCHANGED <<now, table, posts, notices, objects, counts, history>>

-----------------------------------------------------------------------------
Tick ==
    /\ now < MaxTime
    /\ \A i \in Isolates : lookups[i] # NONE => now < lookups[i].at + LATENCY
    /\ now' = now + 1
    /\ UNCHANGED <<table, worker, objects, counts, history>>

Posting ==
    \E k \in Keys :
        \/ \E project \in Projects \cup {NONE}, t \in Pooled, pool \in {"PRIVATE", "COMMUNITY"} :
               PostKey(k, t, project, pool)
        \/ PostRegister(k) \/ PostStore(k) \/ PostAttest(k) \/ PostFails(k)

Owning ==
    \E k \in Keys, t \in Tenants :
        \/ DeleteKey(k, t)
        \/ \E i \in Isolates :
               \/ \E pool \in {"PRIVATE", "COMMUNITY"} : PoolMode(i, k, t, pool)
               \/ RotateKeySecret(i, k, t)

Administering ==
    \/ \E k \in Keys, header \in Pooled :
           \/ DeleteKeyAdmin(k, header)
           \/ \E i \in Isolates : RotateKeySecretAdmin(i, k, header)
    \/ \E k \in Keys, pool \in {"PRIVATE", "COMMUNITY"} :
           \/ AdminPoolMode(k, pool)
           \/ \E i \in Isolates : PoolModeAdmin(i, k, pool)
    \/ \E k \in Keys, status \in {"ACTIVE", "OBSERVATION", "QUARANTINED"} :
           RoutingStatus(k, status)
    \/ \E ids \in SUBSET Keys \ {{}} : AdminDelete(ids) \/ ReportKeyAbuse(ids)
    \/ ActivateAll \/ PurgeQuarantined

Using ==
    \/ \E t \in Pooled : LoadPool(t)
    \/ \E l \in loads : LoadArrives(l) \/ LoadFails(l)
    \/ \E n \in notices : Notify(n) \/ NotifyFails(n)
    \/ \E i \in Isolates, k \in Keys, t \in Pooled : LookupRow(i, k, t)
    \/ \E i \in Isolates : LookupDone(i)

Next == Posting \/ Owning \/ Administering \/ Using \/ Tick

Spec == Init /\ [][Next]_vars

-----------------------------------------------------------------------------
(* Properties *)

Row == [tenant : Pooled, secret : 1..MaxSecrets, under : Pooled,
        project : Projects \cup {NONE}, pool : {"PRIVATE", "COMMUNITY"},
        routing : {"ACTIVE", "OBSERVATION", "QUARANTINED", "REVOKED", "NULL"},
        status : {"Healthy", "quarantined", "invalid"}]

TypeOK ==
    /\ rows \in [Keys -> Row \cup {NONE}]
    /\ registry \subseteq Projects
    /\ pools \in [Pooled -> SUBSET Keys]
    /\ \A n \in notices : n.call \in {"add", "remove"} /\ n.key \in Keys /\ n.pool \in Pooled
    /\ \A i \in Isolates, k \in Keys : cache[i][k] # NONE => cache[i][k].secret \in 1..secrets

\* The state is well typed, and of the keys whose secret was never replaced at
\* most one is of a given cloud project: the check of handlePostKeys and its
\* INSERT are two statements, and two dashboards may be between them at once, or
\* one may have failed after it.
OneKeyPerProject ==
    /\ TypeOK
    /\ \A k, l \in Present \ rotated :
           rows[k].project # NONE /\ rows[k].project = rows[l].project => k = l

\* No cache would still hand out a secret longer than its time, and the time a
\* lookup may take, after the secret was replaced or its key deleted: the
\* handlers clear the cache of their own isolate only, and a lookup that read the
\* row before may put the old secret into a cache afterwards.
StaleAtMost ==
    \A i \in Isolates, k \in Keys :
        Cached(i, k) /\ retired[cache[i][k].secret] # NONE
            => now < retired[cache[i][k].secret] + TTL + LATENCY

\* A key whose secret was never replaced can be decrypted by whoever asks for
\* it, whoever added it and whoever has taken it over since; and a stored secret is
\* kept from other keys, other tenants' ones included, through every form it takes.
ReadableUntilRotated ==
    /\ SecretsKept
    /\ \A k \in Present \ rotated, t \in Pooled : Decrypts(rows[k], t)

\* No step brings a key that is not active, such as a contribution under
\* observation, into a pool that is neither of the tenant that added it nor of
\* its owner, but for rows that arrive late (key_pool_do.ts:198-262): a key that
\* was active, or the pool's own, when D1 was asked may come after it is so no
\* more.  That is whatever the order of the loads, the notices and the changes.
ObservationStaysHome ==
    [][\A t \in Pooled : \A k \in pools'[t] \ pools[t] :
           \/ t = posts[k].tenant
           \/ k \in Entitled(t)
           \/ \E l \in loads \ loads' : l.pool = t /\ k \in l.keys \ l.astray]_vars
=============================================================================
