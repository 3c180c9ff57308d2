-------------------------- MODULE KeyConsoleProofs --------------------------
(***************************************************************************)
(* Proofs about KeyConsole for all sets of keys, tenants, projects and     *)
(* isolates and for every cache and lookup time.                           *)
(***************************************************************************)
EXTENDS KeyConsole, TLAPS

\* The pool a key is registered for.
PoolTypes == {"PRIVATE", "COMMUNITY"}

\* What a request that adds a key may be: it has not begun, it has checked its
\* project, it has registered it or stored the row, or it is over.
Post ==
    {Idle} \cup [at : {"over"}, tenant : Pooled]
           \cup [at : {"checked"}, tenant : Pooled, project : Projects, pool : PoolTypes]
           \cup [at : {"registered", "stored"}, tenant : Pooled,
                 project : Projects \cup {NONE}, pool : PoolTypes]

\* A call to a key pool that was made and has not arrived.
Notice == [call : {"add", "remove"}, key : Keys, pool : Pooled]

\* A load of a pool under way, with the notice it was begun for.
Load == [pool : Pooled, keys : SUBSET Keys, notice : Notice \cup {NONE}, astray : SUBSET Keys]

\* What an isolate keeps of a secret, until it expires.
Entry == [secret : 1..MaxSecrets, expiresAt : Nat]

\* A look-up under way: the secret that was read, and when.
Lookup == [key : Keys, secret : 1..MaxSecrets, reads : BOOLEAN, at : Nat]

\* The values of the variables.
Shapes ==
    /\ now \in Nat /\ secrets \in 0..MaxSecrets
    /\ rows \in [Keys -> Row \cup {NONE}]
    /\ registry \subseteq Projects
    /\ posts \in [Keys -> Post]
    /\ notices \subseteq Notice
    /\ pools \in [Pooled -> SUBSET Keys]
    /\ loads \subseteq Load
    /\ cache \in [Isolates -> [Keys -> Entry \cup {NONE}]]
    /\ lookups \in [Isolates -> Lookup \cup {NONE}]
    /\ retired \in [1..MaxSecrets -> Nat \cup {NONE}]

\* A key claims its project from the registration on: in its request until the
\* row is stored, in the row from then on.
Claims(k, p) ==
    \/ posts[k].at = "registered" /\ posts[k].project = p
    \/ rows[k] # NONE /\ rows[k].project = p

\* Each project that is claimed is registered, and one key alone claims it.
ProjectsApart ==
    \A p \in Projects, k, l \in Keys :
        Claims(k, p) => p \in registry /\ (Claims(l, p) => k = l)

\* A secret that is not retired may be anywhere.  Of one that is retired, a
\* waiting lookup has read it before, and a cache holds it no longer than a
\* lookup that was waiting then may have put it there for.
SecretsAge ==
    /\ \A s \in 1..MaxSecrets : retired[s] # NONE => s <= secrets /\ retired[s] <= now
    /\ \A k \in Keys : rows[k] # NONE =>
           rows[k].secret <= secrets /\ retired[rows[k].secret] = NONE
    /\ \A i \in Isolates : lookups[i] # NONE =>
           LET l == lookups[i] IN
           /\ l.secret <= secrets /\ l.at <= now /\ now <= l.at + LATENCY
           /\ retired[l.secret] # NONE => l.at <= retired[l.secret]
    /\ \A i \in Isolates, k \in Keys : cache[i][k] # NONE =>
           LET c == cache[i][k] IN
           /\ c.secret <= secrets /\ c.expiresAt <= now + TTL
           /\ retired[c.secret] # NONE => c.expiresAt <= retired[c.secret] + TTL + LATENCY

\* A notice that is told of a new key is told to the pool of who has added it.
ToItsHome(n) == n.call = "add" => posts[n.key].at = "over" /\ posts[n.key].tenant = n.pool

\* A pool is told of new keys only that its own tenant has added, also when it
\* loads first; and no query has found keys that were not the pool's to have.
NoticesHome ==
    /\ \A n \in notices : ToItsHome(n)
    /\ \A l \in loads : /\ l.notice # NONE => ToItsHome(l.notice) /\ l.notice.pool = l.pool
                       /\ l.astray = {}

\* A key is encrypted for its owner or, whoever has taken it over, for everybody.
KeptReadable ==
    \A k \in Keys \ rotated :
        rows[k] # NONE => rows[k].under \in {rows[k].tenant, DEFAULT}

\* The inductive invariant.
IndInv == Shapes /\ ProjectsApart /\ SecretsAge /\ NoticesHome /\ KeptReadable

-----------------------------------------------------------------------------
USE DEF objects, ToItsHome

\* At first there is nothing.
LEMMA InitIndInv == Init => IndInv
  <1> SUFFICES ASSUME Init PROVE IndInv
    OBVIOUS
  <1> USE KeyConsoleAssumption DEF Init
  <1>1. Shapes
    BY DEF Shapes, Post, Entry, Lookup, Row, Notice
  <1>2. ProjectsApart
    BY DEF ProjectsApart, Claims, Idle
  <1>3. SecretsAge
    BY DEF SecretsAge
  <1>4. NoticesHome /\ KeptReadable
    BY DEF NoticesHome, KeptReadable
  <1> QED BY <1>1, <1>2, <1>3, <1>4 DEF IndInv

\* What a write of rows retires: the secrets that no row has any longer.
LEMMA Observed ==
    ASSUME Shapes, NEW new, Observe(new)
    PROVE  /\ rows' = new
           /\ retired' \in [1..MaxSecrets -> Nat \cup {NONE}]
           /\ \A s \in 1..MaxSecrets :
                 \/ retired'[s] = retired[s]
                 \/ /\ retired'[s] = now
                    /\ \E k \in Keys : rows[k] # NONE /\ rows[k].secret = s
                    /\ \A k \in Keys : new[k] # NONE => new[k].secret # s
  BY DEF Observe, Shapes, Present

\* The caches of all isolates but one stay as they are; that one may be cleared.
CachesKept == cache' = cache \/ \E i \in Isolates : ClearCache(i)

\* A change of the caches takes entries off and adds none.
LEMMA Cleared ==
    ASSUME Shapes, CachesKept
    PROVE  /\ cache' \in [Isolates -> [Keys -> Entry \cup {NONE}]]
           /\ \A i \in Isolates, k \in Keys : cache'[i][k] # NONE => cache'[i][k] = cache[i][k]
  <1>1. cache \in [Isolates -> [Keys -> Entry \cup {NONE}]]
    BY DEF Shapes
  <1>2. ASSUME NEW i \in Isolates, ClearCache(i)
        PROVE  /\ cache' \in [Isolates -> [Keys -> Entry \cup {NONE}]]
               /\ \A j \in Isolates, k \in Keys : cache'[j][k] # NONE => cache'[j][k] = cache[j][k]
    <2> DEFINE empty == [k \in Keys |-> NONE]
    <2>1. empty \in [Keys -> Entry \cup {NONE}] /\ \A k \in Keys : empty[k] = NONE
      OBVIOUS
    <2>2. cache' = [cache EXCEPT ![i] = empty]
      BY <1>2 DEF ClearCache
    <2> HIDE DEF empty
    <2> QED BY <1>1, <2>1, <2>2
  <1> QED BY <1>1, <1>2 DEF CachesKept

\* Whatever a write does to the other columns: the secrets age as they should
\* if each row keeps its secret or gets one that was never used.
LEMMA WriteAges ==
    ASSUME IndInv, NEW new \in [Keys -> Row \cup {NONE}], Observe(new),
           \A k \in Keys : new[k] # NONE =>
               \/ rows[k] # NONE /\ new[k].secret = rows[k].secret
               \/ secrets < new[k].secret /\ new[k].secret <= secrets',
           secrets' \in secrets..MaxSecrets, UNCHANGED <<now, lookups>>, CachesKept
    PROVE  SecretsAge'
  <1> USE DEF IndInv
  <1>1. /\ rows' = new
        /\ retired' \in [1..MaxSecrets -> Nat \cup {NONE}]
        /\ \A s \in 1..MaxSecrets :
              \/ retired'[s] = retired[s]
              \/ /\ retired'[s] = now
                 /\ \E k \in Keys : rows[k] # NONE /\ rows[k].secret = s
                 /\ \A k \in Keys : new[k] # NONE => new[k].secret # s
    BY Observed
  <1>2. \A i \in Isolates, k \in Keys : cache'[i][k] # NONE => cache'[i][k] = cache[i][k]
    BY Cleared
  <1>3. /\ secrets \in Nat /\ secrets' \in Nat /\ secrets <= secrets' /\ now \in Nat
        /\ TTL \in Nat /\ LATENCY \in Nat /\ MaxSecrets \in Nat
    BY KeyConsoleAssumption DEF Shapes
  <1>4. \A s \in 1..MaxSecrets : retired[s] # NONE => s <= secrets /\ retired[s] <= now
    BY DEF SecretsAge
  <1>5. \A k \in Keys : rows[k] # NONE =>
            /\ rows[k].secret \in 1..MaxSecrets /\ rows[k].secret <= secrets
            /\ retired[rows[k].secret] = NONE
    BY DEF SecretsAge, Shapes, Row
  <1>6. \A s \in 1..MaxSecrets :
            /\ retired'[s] # NONE => s <= secrets /\ retired'[s] <= now
            /\ retired'[s] # NONE => retired'[s] = now \/ retired'[s] = retired[s]
    BY <1>1, <1>3, <1>4, <1>5
  <1>7. \A k \in Keys : rows'[k] # NONE =>
            rows'[k].secret <= secrets' /\ retired'[rows'[k].secret] = NONE
    <2> SUFFICES ASSUME NEW k \in Keys, rows'[k] # NONE
                 PROVE  rows'[k].secret <= secrets' /\ retired'[rows'[k].secret] = NONE
      OBVIOUS
    <2>1. rows'[k].secret \in 1..MaxSecrets /\ rows'[k].secret = new[k].secret
      BY <1>1 DEF Row
    <2>2. CASE rows[k] # NONE /\ new[k].secret = rows[k].secret
      BY <1>1, <1>3, <1>5, <2>1, <2>2
    <2>3. CASE secrets < new[k].secret /\ new[k].secret <= secrets'
      BY <1>3, <1>6, <2>1, <2>3
    <2> QED BY <1>1, <2>2, <2>3
  <1>8. \A i \in Isolates : lookups[i] # NONE =>
            LET l == lookups[i] IN
            /\ l.secret <= secrets' /\ l.at <= now /\ now <= l.at + LATENCY
            /\ retired'[l.secret] # NONE => l.at <= retired'[l.secret]
    <2> SUFFICES ASSUME NEW i \in Isolates, lookups[i] # NONE
                 PROVE  LET l == lookups[i] IN
                        /\ l.secret <= secrets' /\ l.at <= now /\ now <= l.at + LATENCY
                        /\ retired'[l.secret] # NONE => l.at <= retired'[l.secret]
      OBVIOUS
    <2> DEFINE l == lookups[i]
    <2>1. /\ l.secret \in 1..MaxSecrets /\ l.at \in Nat
          /\ l.secret <= secrets /\ l.at <= now /\ now <= l.at + LATENCY
          /\ retired[l.secret] # NONE => l.at <= retired[l.secret]
      BY DEF SecretsAge, Shapes, Lookup
    <2> HIDE DEF l
    <2>2. /\ l.secret <= secrets' /\ l.at <= now /\ now <= l.at + LATENCY
          /\ retired'[l.secret] # NONE => l.at <= retired'[l.secret]
      BY <1>3, <1>6, <2>1
    <2> QED BY <2>2 DEF l
  <1>9. \A i \in Isolates, k \in Keys : cache[i][k] # NONE =>
            LET c == cache[i][k] IN
            /\ c.secret <= secrets' /\ c.expiresAt <= now + TTL
            /\ retired'[c.secret] # NONE => c.expiresAt <= retired'[c.secret] + TTL + LATENCY
    <2> SUFFICES ASSUME NEW i \in Isolates, NEW k \in Keys, cache[i][k] # NONE
                 PROVE  LET c == cache[i][k] IN
                        /\ c.secret <= secrets' /\ c.expiresAt <= now + TTL
                        /\ retired'[c.secret] # NONE =>
                              c.expiresAt <= retired'[c.secret] + TTL + LATENCY
      OBVIOUS
    <2> DEFINE c == cache[i][k]
    <2>1. /\ c.secret \in 1..MaxSecrets /\ c.expiresAt \in Nat
          /\ c.secret <= secrets /\ c.expiresAt <= now + TTL
          /\ retired[c.secret] # NONE => c.expiresAt <= retired[c.secret] + TTL + LATENCY
      BY DEF SecretsAge, Shapes, Entry
    <2> HIDE DEF c
    <2>2. /\ c.secret <= secrets' /\ c.expiresAt <= now + TTL
          /\ retired'[c.secret] # NONE => c.expiresAt <= retired'[c.secret] + TTL + LATENCY
      BY <1>3, <1>6, <2>1
    <2> QED BY <2>2 DEF c
  <1>10. \A s \in 1..MaxSecrets : retired'[s] # NONE => s <= secrets' /\ retired'[s] <= now
    BY <1>3, <1>6
  <1> QED BY <1>2, <1>7, <1>8, <1>9, <1>10 DEF SecretsAge

\* What a row may become: its secret and its project stay, and only a key of
\* DEFAULT changes hands.
Becomes(row, r) ==
    /\ row # NONE /\ r \in Row
    /\ r.secret = row.secret /\ r.project = row.project /\ r.under = row.under
    /\ row.tenant \in {r.tenant, DEFAULT}

\* What the operations on rows leave alone.
RowsOnly ==
    /\ UNCHANGED <<now, registry, posts, objects, lookups, secrets, rotated>>
    /\ notices' \subseteq notices \cup [call : {"remove"}, key : Keys, pool : Pooled]
    /\ CachesKept

\* A write that adds no key.
LEMMA RowsChange ==
    ASSUME IndInv, NEW new, Observe(new), new = [k \in Keys |-> new[k]],
           \A k \in Keys : new[k] = NONE \/ Becomes(rows[k], new[k]), RowsOnly
    PROVE  IndInv'
  <1> USE DEF IndInv, RowsOnly, Becomes
  <1>0. new \in [Keys -> Row \cup {NONE}]
    OBVIOUS
  <1>1. rows' = new /\ retired' \in [1..MaxSecrets -> Nat \cup {NONE}]
    BY Observed
  <1>2. cache' \in [Isolates -> [Keys -> Entry \cup {NONE}]]
    BY Cleared
  <1>3. Shapes'
    BY <1>0, <1>1, <1>2 DEF Shapes, Notice
  <1>4. ProjectsApart'
    <2>1. \A k \in Keys, p \in Projects : Claims(k, p)' => Claims(k, p)
      BY <1>1 DEF Claims
    <2>2. UNCHANGED registry
      OBVIOUS
    <2> QED BY <2>1, <2>2 DEF ProjectsApart
  <1>5. SecretsAge'
    <2>1. secrets' \in secrets..MaxSecrets
      BY KeyConsoleAssumption DEF Shapes
    <2> QED BY <1>0, <2>1, WriteAges
  <1>6. NoticesHome'
    BY DEF NoticesHome
  <1>7. KeptReadable'
    BY <1>1 DEF KeptReadable
  <1> QED BY <1>3, <1>4, <1>5, <1>6, <1>7

-----------------------------------------------------------------------------
(* handlePostKeys                                                          *)

\* A step of a request that adds a key, up to the INSERT of its row.
LEMMA PostMoves ==
    ASSUME IndInv, NEW k \in Keys, NEW p \in Post,
           posts' = [posts EXCEPT ![k] = p],
           posts[k].at # "over",
           \A q \in Projects : p.at = "registered" /\ p.project = q =>
               \/ posts[k].at = "registered" /\ posts[k].project = q
               \/ q \notin registry,
           registry \subseteq registry', registry' \subseteq Projects,
           p.at = "registered" /\ p.project \in Projects => p.project \in registry',
           notices' \subseteq notices \cup
               (IF p.at = "over" THEN {[call |-> "add", key |-> k, pool |-> p.tenant]} ELSE {}),
           notices' \subseteq Notice,
           UNCHANGED <<now, rows, objects, cache, lookups, counts, history>>
    PROVE  IndInv'
  <1> USE DEF IndInv
  <1>1. /\ posts' \in [Keys -> Post]
        /\ \A l \in Keys : posts'[l] = IF l = k THEN p ELSE posts[l]
    BY DEF Shapes
  <1>2. Shapes'
    BY <1>1 DEF Shapes, counts, history
  <1>3. ProjectsApart'
    <2>1. \A l \in Keys, q \in Projects : Claims(l, q)' =>
              \/ Claims(l, q)
              \/ l = k /\ p.at = "registered" /\ p.project = q /\ q \notin registry
      BY <1>1 DEF Claims
    <2> QED BY <1>1, <2>1 DEF ProjectsApart
  <1>4. SecretsAge'
    BY DEF SecretsAge, counts, history
  <1>5. NoticesHome'
    <2> SUFFICES ASSUME NEW n \in notices', n.call = "add"
                 PROVE  posts'[n.key].at = "over" /\ posts'[n.key].tenant = n.pool
      BY DEF NoticesHome
    <2>1. CASE n \in notices
      BY <1>1, <2>1 DEF NoticesHome, Shapes, Notice
    <2>2. CASE n \notin notices
      BY <1>1, <2>2
    <2> QED BY <2>1, <2>2
  <1>6. KeptReadable'
    BY DEF KeptReadable, history
  <1> QED BY <1>2, <1>3, <1>4, <1>5, <1>6

\* A request to add a key begins: with a project it has yet to register it.
LEMMA PostKeyOK ==
    ASSUME IndInv, NEW k \in Keys, NEW t \in Pooled, NEW project \in Projects \cup {NONE},
           NEW pool \in PoolTypes, PostKey(k, t, project, pool)
    PROVE  IndInv'
  <1> DEFINE p == [at |-> IF project = NONE THEN "registered" ELSE "checked",
                   tenant |-> t, project |-> project, pool |-> pool]
  <1>1. p \in Post /\ p.at # "over" /\ (p.at = "registered" => p.project = NONE)
    BY DEF Post
  <1>2. posts' = [posts EXCEPT ![k] = p] /\ posts[k].at # "over"
    BY DEF PostKey, Idle
  <1>3. UNCHANGED <<now, table, notices, objects, cache, lookups, counts, history>>
    BY DEF PostKey
  <1>4. NONE \notin Projects
    BY KeyConsoleAssumption
  <1> HIDE DEF p
  <1>5. registry \subseteq Projects /\ notices \subseteq Notice
    BY DEF IndInv, Shapes
  <1> QED BY <1>1, <1>2, <1>3, <1>4, <1>5, PostMoves DEF table

\* The project is registered: no row and no other request has it.
LEMMA PostRegisterOK ==
    ASSUME IndInv, NEW k \in Keys, PostRegister(k)
    PROVE  IndInv'
  <1> DEFINE p == [posts[k] EXCEPT !.at = "registered"]
  <1>1. posts[k] \in Post /\ posts[k].at = "checked"
    BY DEF PostRegister, IndInv, Shapes
  <1>2. p \in Post /\ p.at = "registered" /\ p.project = posts[k].project
    BY <1>1 DEF Post, Idle
  <1>3. posts' = [posts EXCEPT ![k] = p]
    BY DEF PostRegister, IndInv, Shapes
  <1>4. posts[k].project \notin registry /\ registry' = registry \cup {posts[k].project}
    BY DEF PostRegister
  <1>5. posts[k].project \in Projects
    BY <1>1 DEF Post, Idle
  <1>6. /\ registry \subseteq registry' /\ registry' \subseteq Projects
        /\ notices' \subseteq Notice /\ p.project \in registry'
        /\ UNCHANGED <<now, rows, notices, objects, cache, lookups, counts, history>>
    BY <1>2, <1>4, <1>5 DEF PostRegister, IndInv, Shapes
  <1>7. posts[k].at # "over" /\ p.at # "over" /\ p.project \notin registry
    BY <1>1, <1>2, <1>4
  <1> HIDE DEF p
  <1> QED BY <1>2, <1>3, <1>6, <1>7, PostMoves

\* A request to add a key ends, with its pool told or with an error.
LEMMA PostEndsOK ==
    ASSUME IndInv, NEW k \in Keys, PostAttest(k) \/ PostFails(k)
    PROVE  IndInv'
  <1> DEFINE p == Over(k)
  <1>1. posts[k] \in Post /\ posts[k].at \in {"checked", "registered", "stored"}
    BY DEF PostAttest, PostFails, IndInv, Shapes
  <1>2. p \in Post /\ p.at = "over" /\ p.tenant = posts[k].tenant /\ posts[k].tenant \in Pooled
    BY <1>1 DEF Post, Idle, Over
  <1>3. posts' = [posts EXCEPT ![k] = p]
    BY DEF PostAttest, PostFails
  <1>4. /\ notices' \subseteq notices \cup {[call |-> "add", key |-> k, pool |-> p.tenant]}
        /\ UNCHANGED <<now, table, objects, cache, lookups, counts, history>>
    BY <1>2 DEF PostAttest, PostFails, Tell
  <1>5. registry \subseteq Projects /\ notices \subseteq Notice
    BY DEF IndInv, Shapes
  <1>6. notices' \subseteq Notice
    BY <1>2, <1>4, <1>5 DEF Notice
  <1> HIDE DEF p
  <1> QED BY <1>1, <1>2, <1>3, <1>4, <1>5, <1>6, PostMoves DEF table

\* The INSERT: the claim of the request becomes that of the row.
LEMMA PostStoreOK ==
    ASSUME IndInv, NEW k \in Keys, PostStore(k)
    PROVE  IndInv'
  <1> USE DEF IndInv
  <1> DEFINE r == [tenant |-> posts[k].tenant,
                   secret |-> secrets', under |-> posts[k].tenant,
                   project |-> posts[k].project,
                   pool |-> posts[k].pool, routing |-> RoutingOf(posts[k].pool),
                   status |-> "Healthy"]
             new == [rows EXCEPT ![k] = r]
             p == [posts[k] EXCEPT !.at = "stored"]
  <1>1. /\ posts[k] \in Post /\ posts[k].at = "registered"
        /\ secrets' = secrets + 1 /\ secrets' \in secrets..MaxSecrets
    BY KeyConsoleAssumption DEF PostStore, Shapes
  <1>2. /\ posts[k].tenant \in Pooled /\ posts[k].project \in Projects \cup {NONE}
        /\ posts[k].pool \in PoolTypes /\ p \in Post /\ p.at = "stored"
    BY <1>1 DEF Post, Idle
  <1>3. r \in Row /\ r.secret = secrets + 1 /\ r.project = posts[k].project /\ r.under = r.tenant
    BY <1>1, <1>2 DEF Row, RoutingOf, PoolTypes, Shapes
  <1>4. /\ posts' = [posts EXCEPT ![k] = p] /\ Observe(new)
        /\ UNCHANGED <<now, registry, notices, objects, cache, lookups, changes, rotated>>
    BY DEF PostStore, Shapes
  <1> HIDE DEF r, p
  <1>5. /\ new \in [Keys -> Row \cup {NONE}]
        /\ \A l \in Keys : new[l] = IF l = k THEN r ELSE rows[l]
    BY <1>3 DEF Shapes
  <1> HIDE DEF new
  <1>6. rows' = new /\ retired' \in [1..MaxSecrets -> Nat \cup {NONE}]
    BY <1>4, Observed
  <1>7. /\ posts' \in [Keys -> Post]
        /\ \A l \in Keys : posts'[l] = IF l = k THEN p ELSE posts[l]
    BY <1>2, <1>4 DEF Shapes
  <1>8. Shapes'
    BY <1>1, <1>4, <1>5, <1>6, <1>7 DEF Shapes
  <1>9. ProjectsApart'
    <2>1. \A l \in Keys, q \in Projects : Claims(l, q)' => Claims(l, q)
      BY <1>1, <1>2, <1>3, <1>5, <1>6, <1>7 DEF Claims
    <2> QED BY <1>4, <2>1 DEF ProjectsApart
  <1>10. SecretsAge'
    <2>1. \A l \in Keys : new[l] # NONE =>
              \/ rows[l] # NONE /\ new[l].secret = rows[l].secret
              \/ secrets < new[l].secret /\ new[l].secret <= secrets'
      BY <1>1, <1>3, <1>5 DEF Shapes
    <2> QED BY <1>1, <1>4, <1>5, <2>1, WriteAges DEF CachesKept
  <1>11. NoticesHome'
    BY <1>1, <1>4, <1>7 DEF NoticesHome, Shapes, Notice
  <1>12. KeptReadable'
    BY <1>3, <1>4, <1>5, <1>6 DEF KeptReadable
  <1> QED BY <1>8, <1>9, <1>10, <1>11, <1>12

-----------------------------------------------------------------------------
(* The owner and the administrator                                         *)

\* A secret is replaced by one that was never used.
LEMMA RotateOK ==
    ASSUME IndInv, NEW i \in Isolates, NEW k \in Keys, NEW target \in Pooled,
           Rotate(i, k, target)
    PROVE  IndInv'
  <1> USE DEF IndInv
  <1> DEFINE r == [rows[k] EXCEPT !.secret = secrets', !.under = target]
             new == [l \in Keys |-> IF l \in {k} \cap Present
                                    THEN [rows[l] EXCEPT !.secret = secrets', !.under = target]
                                    ELSE rows[l]]
  <1>1. /\ rows[k] \in Row /\ rows[k] # NONE
        /\ secrets' = secrets + 1 /\ secrets' \in secrets..MaxSecrets
    BY KeyConsoleAssumption DEF Rotate, Present, Shapes
  <1>2. r \in Row /\ r.secret = secrets + 1 /\ r.project = rows[k].project
    <2>1. secrets' \in 1..MaxSecrets
      BY <1>1 DEF Shapes
    <2>2. r \in Row
      BY <1>1, <2>1 DEF Row
    <2> QED BY <1>1, <2>2 DEF Row
  <1>3. /\ Observe(new) /\ ClearCache(i) /\ rotated' = rotated \cup {k}
        /\ UNCHANGED <<now, registry, posts, notices, objects, lookups>>
    BY DEF Rotate, Update
  <1>4. \A l \in Keys : new[l] = IF l = k THEN r ELSE rows[l]
    BY <1>1 DEF Present
  <1>5. new \in [Keys -> Row \cup {NONE}]
    BY <1>2, <1>4 DEF Shapes
  <1> HIDE DEF r, new
  <1>6. rows' = new /\ retired' \in [1..MaxSecrets -> Nat \cup {NONE}]
    BY <1>3, Observed
  <1>7. CachesKept /\ cache' \in [Isolates -> [Keys -> Entry \cup {NONE}]]
    <2>1. CachesKept
      BY <1>3 DEF CachesKept
    <2> QED BY <2>1, Cleared
  <1>8. Shapes'
    BY <1>1, <1>3, <1>5, <1>6, <1>7 DEF Shapes
  <1>9. ProjectsApart'
    <2>1. \A l \in Keys, q \in Projects : Claims(l, q)' => Claims(l, q)
      BY <1>1, <1>2, <1>3, <1>4, <1>6 DEF Claims
    <2> QED BY <1>3, <2>1 DEF ProjectsApart
  <1>10. SecretsAge'
    <2>1. \A l \in Keys : new[l] # NONE =>
              \/ rows[l] # NONE /\ new[l].secret = rows[l].secret
              \/ secrets < new[l].secret /\ new[l].secret <= secrets'
      BY <1>1, <1>2, <1>4 DEF Shapes
    <2> QED BY <1>1, <1>3, <1>5, <1>7, <2>1, WriteAges
  <1>11. NoticesHome'
    BY <1>3 DEF NoticesHome
  <1>12. KeptReadable'
    BY <1>3, <1>4, <1>6 DEF KeptReadable
  <1> QED BY <1>8, <1>9, <1>10, <1>11, <1>12

\* The rows that are gone.
LEMMA Deleted ==
    ASSUME IndInv, NEW ids, Delete(ids), RowsOnly
    PROVE  IndInv'
  <1> DEFINE new == [k \in Keys |-> IF k \in ids THEN NONE ELSE rows[k]]
  <1>1. Observe(new)
    BY DEF Delete
  <1>2. \A k \in Keys : new[k] = NONE \/ Becomes(rows[k], new[k])
    BY DEF IndInv, Shapes, Becomes
  <1>3. new = [k \in Keys |-> new[k]]
    OBVIOUS
  <1> HIDE DEF new
  <1> QED BY <1>1, <1>2, <1>3, RowsChange

\* A key is deleted by its owner or for an administrator.
LEMMA DeletesOK ==
    ASSUME IndInv, NEW k \in Keys, NEW t \in Pooled, DeleteKey(k, t) \/ DeleteKeyAdmin(k, t)
    PROVE  IndInv'
  <1>1. RowsOnly
    BY DEF DeleteKey, DeleteKeyAdmin, Tell, Change, RowsOnly, CachesKept
  <1> QED BY <1>1, Deleted DEF DeleteKey, DeleteKeyAdmin

\* An administrator deletes keys, or all those in quarantine.
LEMMA AdminDeletesOK ==
    ASSUME IndInv, (\E ids \in SUBSET Keys : AdminDelete(ids)) \/ PurgeQuarantined
    PROVE  IndInv'
  <1>1. RowsOnly
    BY DEF AdminDelete, PurgeQuarantined, OnlyRows, Change, RowsOnly, CachesKept, worker
  <1> QED BY <1>1, Deleted DEF AdminDelete, PurgeQuarantined

\* UPDATE: the rows of some ids become others.
LEMMA Updated ==
    ASSUME IndInv, NEW ids, NEW c, RowsOnly,
           \A k \in ids \cap Present : Becomes(rows[k], c[k]),
           Observe([k \in Keys |-> IF k \in ids \cap Present THEN c[k] ELSE rows[k]])
    PROVE  IndInv'
  <1> DEFINE new == [k \in Keys |-> IF k \in ids \cap Present THEN c[k] ELSE rows[k]]
  <1>1. \A k \in Keys : new[k] = NONE \/ Becomes(rows[k], new[k])
    BY DEF IndInv, Shapes, Becomes
  <1>2. Observe(new) /\ new = [k \in Keys |-> new[k]]
    OBVIOUS
  <1> HIDE DEF new
  <1> QED BY <1>1, <1>2, RowsChange

\* The pool type of a key: an owner may take over a key of DEFAULT with it.
LEMMA PoolModeOK ==
    ASSUME IndInv, NEW i \in Isolates, NEW k \in Keys, NEW t \in Tenants,
           NEW pool \in PoolTypes, PoolMode(i, k, t, pool)
    PROVE  IndInv'
  <1> DEFINE ids == {k} \cap MineOrDefault(t)
             c == [l \in Keys |-> [rows[l] EXCEPT !.pool = pool,
                                       !.routing = RoutingOf(pool), !.tenant = t]]
  <1>1. RowsOnly
    BY DEF PoolMode, Change, RowsOnly, CachesKept
  <1>2. Observe([l \in Keys |-> IF l \in ids \cap Present THEN c[l] ELSE rows[l]])
    BY DEF PoolMode, Update
  <1>3. ASSUME NEW l \in ids \cap Present PROVE Becomes(rows[l], c[l])
    <2>1. rows[l] \in Row /\ rows[l] # NONE /\ l \in Keys
      BY DEF IndInv, Shapes, Present
    <2> QED BY <2>1 DEF MineOrDefault, Mine, Becomes, Row, RoutingOf, PoolTypes, Pooled
  <1> HIDE DEF ids, c
  <1> QED BY <1>1, <1>2, <1>3, Updated

\* An administrator moves a key to the other pool.
LEMMA AdminPoolModesOK ==
    ASSUME IndInv, NEW k \in Keys, NEW pool \in PoolTypes,
           AdminPoolMode(k, pool) \/ \E i \in Isolates : PoolModeAdmin(i, k, pool)
    PROVE  IndInv'
  <1> DEFINE ids == {k}
  <1>1. RowsOnly
    BY DEF AdminPoolMode, PoolModeAdmin, OnlyRows, Change, RowsOnly, CachesKept, worker
  <1>2. CASE AdminPoolMode(k, pool)
    <2> DEFINE c == [l \in Keys |-> [rows[l] EXCEPT !.pool = pool]]
    <2>1. Observe([l \in Keys |-> IF l \in ids \cap Present THEN c[l] ELSE rows[l]])
      BY <1>2 DEF AdminPoolMode, Update
    <2>2. \A l \in ids \cap Present : Becomes(rows[l], c[l])
      BY DEF IndInv, Shapes, Present, Becomes, Row, PoolTypes
    <2> HIDE DEF ids, c
    <2> QED BY <1>1, <2>1, <2>2, Updated
  <1>3. CASE \E i \in Isolates : PoolModeAdmin(i, k, pool)
    <2> DEFINE c == [l \in Keys |-> [rows[l] EXCEPT !.pool = pool, !.routing = RoutingOf(pool)]]
    <2>1. Observe([l \in Keys |-> IF l \in ids \cap Present THEN c[l] ELSE rows[l]])
      BY <1>3 DEF PoolModeAdmin, Update
    <2>2. ASSUME NEW l \in ids \cap Present PROVE Becomes(rows[l], c[l])
      <3>1. rows[l] \in Row /\ rows[l] # NONE /\ l \in Keys
        BY DEF IndInv, Shapes, Present
      <3> QED BY <3>1 DEF Becomes, Row, PoolTypes, RoutingOf
    <2> HIDE DEF ids, c
    <2> QED BY <1>1, <2>1, <2>2, Updated
  <1> QED BY <1>2, <1>3

\* An administrator sets the routing status of a key.
LEMMA RoutingStatusOK ==
    ASSUME IndInv, NEW k \in Keys, NEW status \in {"ACTIVE", "OBSERVATION", "QUARANTINED"},
           RoutingStatus(k, status)
    PROVE  IndInv'
  <1> DEFINE ids == {k}
             c == [l \in Keys |-> [rows[l] EXCEPT !.routing = status,
                      !.status = IF status = "QUARANTINED" THEN "quarantined" ELSE "Healthy"]]
  <1>1. RowsOnly
    BY DEF RoutingStatus, OnlyRows, Change, RowsOnly, CachesKept, worker
  <1>2. Observe([l \in Keys |-> IF l \in ids \cap Present THEN c[l] ELSE rows[l]])
    BY DEF RoutingStatus, Update
  <1>3. ASSUME NEW l \in ids \cap Present PROVE Becomes(rows[l], c[l])
    <2>1. rows[l] \in Row /\ rows[l] # NONE /\ l \in Keys
      BY DEF IndInv, Shapes, Present
    <2> QED BY <2>1 DEF Becomes, Row
  <1> HIDE DEF ids, c
  <1> QED BY <1>1, <1>2, <1>3, Updated

\* An administrator lets all keys under observation in.
LEMMA ActivateAllOK ==
    ASSUME IndInv, ActivateAll
    PROVE  IndInv'
  <1> DEFINE ids == {k \in Present : rows[k].pool = "COMMUNITY" /\ rows[k].routing = "OBSERVATION"}
             c == [l \in Keys |-> [rows[l] EXCEPT !.routing = "ACTIVE"]]
  <1>1. RowsOnly
    BY DEF ActivateAll, OnlyRows, Change, RowsOnly, CachesKept, worker
  <1>2. Observe([l \in Keys |-> IF l \in ids \cap Present THEN c[l] ELSE rows[l]])
    BY DEF ActivateAll, Update
  <1>3. ASSUME NEW l \in ids \cap Present PROVE Becomes(rows[l], c[l])
    <2>1. rows[l] \in Row /\ rows[l] # NONE /\ l \in Keys
      BY DEF IndInv, Shapes, Present
    <2> QED BY <2>1 DEF Becomes, Row
  <1> HIDE DEF ids, c
  <1> QED BY <1>1, <1>2, <1>3, Updated

\* Keys whose abuse is reported are revoked.
LEMMA ReportKeyAbuseOK ==
    ASSUME IndInv, NEW ids \in SUBSET Keys, ReportKeyAbuse(ids)
    PROVE  IndInv'
  <1> DEFINE c == [l \in Keys |-> [rows[l] EXCEPT !.status = "invalid", !.routing = "REVOKED"]]
  <1>1. RowsOnly
    BY DEF ReportKeyAbuse, OnlyRows, Change, RowsOnly, CachesKept, worker
  <1>2. Observe([l \in Keys |-> IF l \in ids \cap Present THEN c[l] ELSE rows[l]])
    BY DEF ReportKeyAbuse, Update
  <1>3. ASSUME NEW l \in ids \cap Present PROVE Becomes(rows[l], c[l])
    <2>1. rows[l] \in Row /\ rows[l] # NONE /\ l \in Keys
      BY DEF IndInv, Shapes, Present
    <2> QED BY <2>1 DEF Becomes, Row
  <1> HIDE DEF c
  <1> QED BY <1>1, <1>2, <1>3, Updated

-----------------------------------------------------------------------------
(* Pools, lookups and the clock                                            *)

\* What is in a load when D1 is asked, for the notice that has come or for none:
\* keys that are the pool's to have.
LEMMA Queried ==
    ASSUME IndInv, NEW t \in Pooled, NEW n, Query(t, n),
           n = NONE \/ (n \in notices /\ n.pool = t)
    PROVE  /\ pools' = pools /\ loads' \subseteq Load
           /\ \A l \in loads' : /\ l.notice # NONE => ToItsHome(l.notice) /\ l.notice.pool = l.pool
                               /\ l.astray = {}
  <1> USE DEF IndInv
  <1> DEFINE new == [pool |-> t, keys |-> Selected(t), notice |-> n,
                     astray |-> Selected(t) \ Entitled(t)]
  <1>1. pools' = pools /\ loads' = loads \cup {new}
    BY DEF Query
  <1>2. Selected(t) \subseteq Keys /\ Selected(t) \ Entitled(t) = {}
    BY DEF Selected, Entitled, Present
  <1>3. n \in Notice \cup {NONE} /\ (n # NONE => ToItsHome(n) /\ n.pool = t)
    BY DEF Shapes, NoticesHome
  <1>4. new \in Load /\ new.astray = {} /\ new.notice = n /\ new.pool = t
    BY <1>2, <1>3 DEF Load
  <1> HIDE DEF new
  <1>5. loads \subseteq Load
    BY DEF Shapes
  <1> QED BY <1>1, <1>3, <1>4, <1>5 DEF NoticesHome

\* A load or a notice brings keys to one pool only: those of the load, and the
\* key of the notice.
LEMMA Filled ==
    ASSUME pools \in [Pooled -> SUBSET Keys],
           NEW t \in Pooled, NEW n \in Notice \cup {NONE}, NEW ks \in SUBSET Keys,
           pools' = [pools EXCEPT ![t] = Told(pools[t] \cup ks, n)]
    PROVE  /\ pools' \in [Pooled -> SUBSET Keys]
           /\ \A u \in Pooled : \A k \in pools'[u] \ pools[u] :
                  u = t /\ (k \in ks \/ (n # NONE /\ n.call = "add" /\ k = n.key))
  <1>1. pools \in [Pooled -> SUBSET Keys]
    OBVIOUS
  <1> DEFINE new == Told(pools[t] \cup ks, n)
  <1>2. n # NONE => n.key \in Keys
    BY DEF Notice
  <1>3. /\ new \subseteq Keys
        /\ \A k \in new : k \in pools[t] \/ k \in ks \/ (n # NONE /\ n.call = "add" /\ k = n.key)
    BY <1>1, <1>2 DEF Told
  <1>4. pools' = [pools EXCEPT ![t] = new]
    OBVIOUS
  <1> HIDE DEF new
  <1> QED BY <1>1, <1>3, <1>4

\* What a step does to the pools and to what is on its way to them.
PoolsFill ==
    /\ pools' \in [Pooled -> SUBSET Keys] /\ loads' \subseteq Load
    /\ \A l \in loads' : /\ l.notice # NONE => ToItsHome(l.notice) /\ l.notice.pool = l.pool
                        /\ l.astray = {}
    /\ \A u \in Pooled : \A k \in pools'[u] \ pools[u] :
           \/ u = posts[k].tenant
           \/ \E l \in loads \ loads' : l.pool = u /\ k \in l.keys \ l.astray

\* The pools' own steps do no more.
LEMMA PoolStepDoes ==
    ASSUME IndInv,
           \/ \E t \in Pooled : LoadPool(t)
           \/ \E l \in loads : LoadArrives(l) \/ LoadFails(l)
           \/ \E n \in notices : Notify(n) \/ NotifyFails(n)
    PROVE  PoolsFill
  <1> USE DEF PoolsFill
  <1> USE DEF IndInv
  <1>1. /\ pools \in [Pooled -> SUBSET Keys] /\ loads \subseteq Load /\ notices \subseteq Notice
        /\ \A l \in loads : /\ l.notice # NONE => ToItsHome(l.notice) /\ l.notice.pool = l.pool
                            /\ l.astray = {}
        /\ \A n \in notices : ToItsHome(n)
    BY DEF Shapes, NoticesHome
  <1>2. ASSUME NEW t \in Pooled, LoadPool(t) PROVE PoolsFill
    BY <1>1, <1>2, Queried DEF LoadPool
  <1>3. ASSUME NEW l \in loads, LoadArrives(l) \/ LoadFails(l) PROVE PoolsFill
    <2>1. /\ l \in Load /\ l.pool \in Pooled /\ l.keys \subseteq Keys
          /\ l.notice \in Notice \cup {NONE} /\ l.astray = {}
      BY <1>1 DEF Load
    <2>2. loads' = loads \ {l}
      BY <1>3 DEF LoadArrives, LoadFails
    <2>3. CASE LoadArrives(l)
      <3>1. pools' = [pools EXCEPT ![l.pool] = Told(pools[l.pool] \cup l.keys, l.notice)]
        BY <2>3 DEF LoadArrives
      <3>2. /\ pools' \in [Pooled -> SUBSET Keys]
            /\ \A u \in Pooled : \A k \in pools'[u] \ pools[u] :
                   /\ u = l.pool
                   /\ k \in l.keys \/ (l.notice # NONE /\ l.notice.call = "add" /\ k = l.notice.key)
        <4>1. pools \in [Pooled -> SUBSET Keys] /\ l.keys \in SUBSET Keys
          BY <1>1, <2>1
        <4>2. PICK t \in Pooled, n \in Notice \cup {NONE}, ks \in SUBSET Keys :
                  t = l.pool /\ n = l.notice /\ ks = l.keys
          BY <2>1, <4>1
        <4>3. pools' = [pools EXCEPT ![t] = Told(pools[t] \cup ks, n)]
          BY <3>1, <4>2
        <4>4. /\ pools' \in [Pooled -> SUBSET Keys]
              /\ \A u \in Pooled : \A k \in pools'[u] \ pools[u] :
                     u = t /\ (k \in ks \/ (n # NONE /\ n.call = "add" /\ k = n.key))
          BY ONLY <4>1, <4>3, Filled
        <4> QED BY ONLY <4>2, <4>4
      <3>3. ASSUME NEW u \in Pooled, NEW k \in pools'[u] \ pools[u]
            PROVE  \/ u = posts[k].tenant
                   \/ \E m \in loads \ loads' : m.pool = u /\ k \in m.keys \ m.astray
        <4>1. CASE k \in l.keys
          <5>1. l \in loads \ loads' /\ l.pool = u /\ k \in l.keys \ l.astray
            BY <2>1, <2>2, <3>2, <4>1
          <5> QED BY <5>1
        <4>2. CASE l.notice # NONE /\ l.notice.call = "add" /\ k = l.notice.key
          <5>1. posts[l.notice.key].tenant = l.notice.pool /\ l.notice.pool = l.pool
            BY <1>1, <4>2
          <5> QED BY <3>2, <4>2, <5>1
        <4> QED BY <3>2, <4>1, <4>2
      <3> QED BY <1>1, <2>2, <3>2, <3>3
    <2>4. CASE UNCHANGED pools
      BY <1>1, <2>2, <2>4
    <2>5. CASE pools' = [pools EXCEPT ![l.pool] = Told(pools[l.pool], l.notice)]
      <3>1. pools' = [pools EXCEPT ![l.pool] = Told(pools[l.pool] \cup {}, l.notice)]
        BY <2>5
      <3>2. {} \in SUBSET Keys
        OBVIOUS
      <3>3. /\ pools' \in [Pooled -> SUBSET Keys]
            /\ \A u \in Pooled : \A k \in pools'[u] \ pools[u] :
                   /\ u = l.pool
                   /\ l.notice # NONE /\ l.notice.call = "add" /\ k = l.notice.key
        <4>1. pools \in [Pooled -> SUBSET Keys]
          BY <1>1
        <4>2. PICK t \in Pooled, m \in Notice \cup {NONE}, ks \in SUBSET Keys :
                  t = l.pool /\ m = l.notice /\ ks = {}
          BY <2>1, <3>2
        <4>3. pools' = [pools EXCEPT ![t] = Told(pools[t] \cup ks, m)]
          BY <3>1, <4>2
        <4>4. /\ pools' \in [Pooled -> SUBSET Keys]
              /\ \A u \in Pooled : \A k \in pools'[u] \ pools[u] :
                     u = t /\ (k \in ks \/ (m # NONE /\ m.call = "add" /\ k = m.key))
          BY ONLY <4>1, <4>3, Filled
        <4> QED BY ONLY <4>2, <4>4
      <3>4. ASSUME NEW u \in Pooled, NEW k \in pools'[u] \ pools[u]
            PROVE  \/ u = posts[k].tenant
                   \/ \E m \in loads \ loads' : m.pool = u /\ k \in m.keys \ m.astray
        <4>1. posts[l.notice.key].tenant = l.notice.pool /\ l.notice.pool = l.pool
          BY <1>1, <3>3
        <4> QED BY <3>3, <4>1
      <3> QED BY <1>1, <2>2, <3>3, <3>4
    <2> QED BY <1>3, <2>3, <2>4, <2>5 DEF LoadFails
  <1>4. ASSUME NEW n \in notices, Notify(n) PROVE PoolsFill
    <2>1. n \in Notice /\ n.pool \in Pooled
      BY <1>1 DEF Notice
    <2>2. CASE Query(n.pool, n)
      BY <1>1, <2>1, <2>2, Queried
    <2>3. CASE pools' = [pools EXCEPT ![n.pool] = Told(pools[n.pool], n)] /\ UNCHANGED loads
      <3>1. pools' = [pools EXCEPT ![n.pool] = Told(pools[n.pool] \cup {}, n)]
        BY <2>3
      <3>2. {} \in SUBSET Keys
        OBVIOUS
      <3>3. /\ pools' \in [Pooled -> SUBSET Keys]
            /\ \A u \in Pooled : \A k \in pools'[u] \ pools[u] :
                   u = n.pool /\ n.call = "add" /\ k = n.key
        <4>1. pools \in [Pooled -> SUBSET Keys]
          BY <1>1
        <4>2. PICK t \in Pooled, m \in Notice \cup {NONE}, ks \in SUBSET Keys :
                  t = n.pool /\ m = n /\ ks = {}
          BY <2>1, <3>2
        <4>3. pools' = [pools EXCEPT ![t] = Told(pools[t] \cup ks, m)]
          BY <3>1, <4>2
        <4>4. /\ pools' \in [Pooled -> SUBSET Keys]
              /\ \A u \in Pooled : \A k \in pools'[u] \ pools[u] :
                     u = t /\ (k \in ks \/ (m # NONE /\ m.call = "add" /\ k = m.key))
          BY ONLY <4>1, <4>3, Filled
        <4> QED BY ONLY <4>2, <4>4
      <3>4. loads' = loads
        BY <2>3
      <3>5. n.call = "add" => posts[n.key].tenant = n.pool
        BY <1>1
      <3> QED BY ONLY <1>1, <3>3, <3>4, <3>5 DEF PoolsFill
    <2> QED BY <1>4, <2>2, <2>3 DEF Notify
  <1>5. ASSUME NEW n \in notices, NotifyFails(n) PROVE PoolsFill
    BY <1>1, <1>5 DEF NotifyFails
  <1> QED BY <1>2, <1>3, <1>4, <1>5

\* A pool is loaded, or told of a key that was added or removed.
LEMMA PoolStepOK ==
    ASSUME IndInv,
           \/ \E t \in Pooled : LoadPool(t)
           \/ \E l \in loads : LoadArrives(l) \/ LoadFails(l)
           \/ \E n \in notices : Notify(n) \/ NotifyFails(n)
    PROVE  IndInv'
  <1> USE DEF IndInv
  <1>1. UNCHANGED <<now, table, posts, cache, lookups, counts, history>>
    BY DEF LoadPool, LoadArrives, LoadFails, Notify, NotifyFails, worker
  <1>2. notices' \subseteq notices
    BY DEF LoadPool, LoadArrives, LoadFails, Notify, NotifyFails, worker
  <1>3. /\ pools' \in [Pooled -> SUBSET Keys] /\ loads' \subseteq Load
        /\ \A l \in loads' : /\ l.notice # NONE => ToItsHome(l.notice) /\ l.notice.pool = l.pool
                            /\ l.astray = {}
    BY PoolStepDoes DEF PoolsFill
  <1>4. Shapes'
    BY <1>1, <1>2, <1>3 DEF Shapes, table, counts, history
  <1>5. ProjectsApart' /\ SecretsAge' /\ KeptReadable'
    BY <1>1 DEF ProjectsApart, Claims, SecretsAge, KeptReadable, table, counts, history
  <1>6. NoticesHome'
    BY <1>1, <1>2, <1>3 DEF NoticesHome
  <1> QED BY <1>4, <1>5, <1>6

\* A lookup reads the secret of a row, which is not retired at that moment.
LEMMA LookupRowOK ==
    ASSUME IndInv, NEW i \in Isolates, NEW k \in Keys, NEW t \in Pooled, LookupRow(i, k, t)
    PROVE  IndInv'
  <1> USE DEF IndInv
  <1> DEFINE l == [key |-> k, secret |-> rows[k].secret, reads |-> Decrypts(rows[k], t), at |-> now]
  <1>1. /\ lookups' = [lookups EXCEPT ![i] = l] /\ rows[k] # NONE
        /\ UNCHANGED <<now, table, posts, notices, cache, objects, counts, history>>
    BY DEF LookupRow, Present
  <1>2. /\ rows[k].secret \in 1..MaxSecrets /\ rows[k].secret <= secrets
        /\ retired[rows[k].secret] = NONE /\ now \in Nat /\ LATENCY \in Nat
    BY <1>1, KeyConsoleAssumption DEF Shapes, SecretsAge, Row
  <1>3. /\ l \in Lookup /\ l.secret = rows[k].secret /\ l.at = now
    BY <1>2 DEF Lookup, Decrypts
  <1> HIDE DEF l
  <1>4. \A j \in Isolates : lookups'[j] = IF j = i THEN l ELSE lookups[j]
    BY <1>1 DEF Shapes
  <1>5. Shapes'
    BY <1>1, <1>3 DEF Shapes, table, counts, history
  <1>6. SecretsAge'
    BY <1>1, <1>2, <1>3, <1>4 DEF SecretsAge, table, counts, history
  <1>7. ProjectsApart' /\ NoticesHome' /\ KeptReadable'
    BY <1>1 DEF ProjectsApart, Claims, NoticesHome, KeptReadable, table, history
  <1> QED BY <1>5, <1>6, <1>7

\* What a lookup caches it has read no longer than LATENCY ago.
LEMMA LookupDoneOK ==
    ASSUME IndInv, NEW i \in Isolates, LookupDone(i)
    PROVE  IndInv'
  <1> USE DEF IndInv
  <1> DEFINE l == lookups[i]
             c == [secret |-> l.secret, expiresAt |-> now + TTL]
  <1>1. /\ lookups' = [lookups EXCEPT ![i] = NONE] /\ l # NONE
        /\ cache' = cache \/ cache' = [cache EXCEPT ![i][l.key] = c]
        /\ UNCHANGED <<now, table, posts, notices, objects, counts, history>>
    BY DEF LookupDone
  <1>2. /\ l \in Lookup /\ l.secret <= secrets /\ l.at <= now /\ now <= l.at + LATENCY
        /\ retired[l.secret] # NONE => l.at <= retired[l.secret]
        /\ now \in Nat /\ LATENCY \in Nat /\ TTL \in Nat
    BY <1>1, KeyConsoleAssumption DEF Shapes, SecretsAge
  <1>3. /\ c \in Entry /\ c.secret = l.secret /\ c.expiresAt = now + TTL
        /\ l.key \in Keys /\ l.at \in Nat /\ l.secret \in 1..MaxSecrets
    BY <1>2 DEF Entry, Lookup
  <1> HIDE DEF c, l
  <1>4. /\ cache' \in [Isolates -> [Keys -> Entry \cup {NONE}]]
        /\ \A j \in Isolates, k \in Keys : cache'[j][k] = cache[j][k] \/ cache'[j][k] = c
    <2>1. cache \in [Isolates -> [Keys -> Entry \cup {NONE}]]
      BY DEF Shapes
    <2>2. CASE cache' = [cache EXCEPT ![i][l.key] = c]
      <3> DEFINE one == [cache[i] EXCEPT ![l.key] = c]
      <3>1. /\ one \in [Keys -> Entry \cup {NONE}]
            /\ \A k \in Keys : one[k] = cache[i][k] \/ one[k] = c
        BY <1>3, <2>1
      <3>2. cache' = [cache EXCEPT ![i] = one]
        BY <2>1, <2>2
      <3> HIDE DEF one
      <3> QED BY <2>1, <3>1, <3>2
    <2> QED BY <1>1, <2>1, <2>2
  <1>5. /\ lookups' \in [Isolates -> Lookup \cup {NONE}]
        /\ \A j \in Isolates : lookups'[j] # NONE => lookups'[j] = lookups[j]
    BY <1>1 DEF Shapes
  <1>6. Shapes'
    BY <1>1, <1>4, <1>5 DEF Shapes, table, counts, history
  <1>7. SecretsAge'
    <2>1. /\ c.secret <= secrets /\ c.expiresAt <= now + TTL
          /\ retired[c.secret] # NONE => c.expiresAt <= retired[c.secret] + TTL + LATENCY
      BY <1>2, <1>3 DEF Shapes
    <2> QED BY <1>1, <1>4, <1>5, <2>1 DEF SecretsAge, table, counts, history
  <1>8. ProjectsApart' /\ NoticesHome' /\ KeptReadable'
    BY <1>1 DEF ProjectsApart, Claims, NoticesHome, KeptReadable, table, history
  <1> QED BY <1>6, <1>7, <1>8

\* Time passes no lookup by that has waited for LATENCY.
LEMMA TickOK ==
    ASSUME IndInv, Tick
    PROVE  IndInv'
  <1> USE DEF IndInv
  <1>1. /\ now' = now + 1 /\ now \in Nat /\ now' \in Nat /\ LATENCY \in Nat /\ TTL \in Nat
        /\ \A i \in Isolates : lookups[i] # NONE => now < lookups[i].at + LATENCY
        /\ UNCHANGED <<table, worker, objects, counts, history>>
    BY KeyConsoleAssumption DEF Tick, Shapes
  <1>2. Shapes'
    BY <1>1 DEF Shapes, table, worker, counts, history
  <1>3. SecretsAge'
    <2>1. \A s \in 1..MaxSecrets : retired[s] # NONE => retired[s] \in Nat
      BY DEF Shapes
    <2>2. \A i \in Isolates : lookups[i] # NONE => lookups[i].at \in Nat
      BY DEF Shapes, Lookup
    <2>3. \A i \in Isolates, k \in Keys : cache[i][k] # NONE => cache[i][k].expiresAt \in Nat
      BY DEF Shapes, Entry
    <2> QED BY <1>1, <2>1, <2>2, <2>3 DEF SecretsAge, table, worker, counts, history
  <1>4. ProjectsApart' /\ NoticesHome' /\ KeptReadable'
    BY <1>1 DEF ProjectsApart, Claims, NoticesHome, KeptReadable, table, worker, history
  <1> QED BY <1>2, <1>3, <1>4

-----------------------------------------------------------------------------
(* The invariant and what follows of it                                    *)

LEMMA PostingOK == ASSUME IndInv, Posting PROVE IndInv'
  <1>1. PICK k \in Keys :
            \/ \E project \in Projects \cup {NONE}, t \in Pooled, pool \in PoolTypes :
                   PostKey(k, t, project, pool)
            \/ PostRegister(k) \/ PostStore(k) \/ PostAttest(k) \/ PostFails(k)
    BY DEF Posting, PoolTypes
  <1>3. ASSUME NEW project \in Projects \cup {NONE}, NEW t \in Pooled, NEW pool \in PoolTypes,
               PostKey(k, t, project, pool)
        PROVE  IndInv'
    BY <1>3, PostKeyOK
  <1>5. CASE PostRegister(k)
    BY <1>5, PostRegisterOK
  <1>6. CASE PostStore(k)
    BY <1>6, PostStoreOK
  <1>7. CASE PostAttest(k) \/ PostFails(k)
    BY <1>7, PostEndsOK
  <1> QED BY <1>1, <1>3, <1>5, <1>6, <1>7

\* The owners' handlers.
LEMMA OwningOK == ASSUME IndInv, Owning PROVE IndInv'
  <1>1. PICK k \in Keys, t \in Tenants :
            \/ DeleteKey(k, t)
            \/ \E i \in Isolates :
                   \/ \E pool \in PoolTypes : PoolMode(i, k, t, pool)
                   \/ RotateKeySecret(i, k, t)
    BY DEF Owning, PoolTypes
  <1>2. t \in Pooled
    BY DEF Pooled
  <1>3. CASE DeleteKey(k, t)
    BY <1>2, <1>3, DeletesOK
  <1>4. ASSUME NEW i \in Isolates, NEW pool \in PoolTypes, PoolMode(i, k, t, pool) PROVE IndInv'
    BY <1>4, PoolModeOK
  <1>5. ASSUME NEW i \in Isolates, RotateKeySecret(i, k, t) PROVE IndInv'
    BY <1>2, <1>5, RotateOK DEF RotateKeySecret
  <1> QED BY <1>1, <1>3, <1>4, <1>5

\* The administrators' handlers.
LEMMA AdministeringOK == ASSUME IndInv, Administering PROVE IndInv'
  <1>1. ASSUME NEW k \in Keys, NEW header \in Pooled, DeleteKeyAdmin(k, header) PROVE IndInv'
    BY <1>1, DeletesOK
  <1>2. ASSUME NEW k \in Keys, NEW header \in Pooled, NEW i \in Isolates,
               RotateKeySecretAdmin(i, k, header)
        PROVE  IndInv'
    BY <1>2, RotateOK DEF RotateKeySecretAdmin
  <1>3. ASSUME NEW k \in Keys, NEW pool \in PoolTypes,
               AdminPoolMode(k, pool) \/ \E i \in Isolates : PoolModeAdmin(i, k, pool)
        PROVE  IndInv'
    BY <1>3, AdminPoolModesOK
  <1>4. ASSUME NEW k \in Keys, NEW status \in {"ACTIVE", "OBSERVATION", "QUARANTINED"},
               RoutingStatus(k, status)
        PROVE  IndInv'
    BY <1>4, RoutingStatusOK
  <1>5. ASSUME NEW ids \in SUBSET Keys, AdminDelete(ids) PROVE IndInv'
    BY <1>5, AdminDeletesOK
  <1>6. ASSUME NEW ids \in SUBSET Keys, ReportKeyAbuse(ids) PROVE IndInv'
    BY <1>6, ReportKeyAbuseOK
  <1>7. CASE ActivateAll
    BY <1>7, ActivateAllOK
  <1>8. CASE PurgeQuarantined
    BY <1>8, AdminDeletesOK
  <1> QED BY <1>1, <1>2, <1>3, <1>4, <1>5, <1>6, <1>7, <1>8 DEF Administering, PoolTypes

\* Notices that arrive and look-ups of secrets.
LEMMA UsingOK == ASSUME IndInv, Using PROVE IndInv'
  BY PoolStepOK, LookupRowOK, LookupDoneOK DEF Using

\* Every step keeps the invariant.
LEMMA StepOK == IndInv /\ [Next]_vars => IndInv'
  <1> SUFFICES ASSUME IndInv, [Next]_vars PROVE IndInv'
    OBVIOUS
  <1>1. CASE UNCHANGED vars
    BY <1>1 DEF IndInv, Shapes, ProjectsApart, Claims, SecretsAge, NoticesHome, KeptReadable,
                vars, table, worker, counts, history
  <1> QED BY <1>1, PostingOK, OwningOK, AdministeringOK, UsingOK, TickOK DEF Next

\* Projects are claimed once and secrets age as they should, in every state.
THEOREM Invariance == Spec => []IndInv
  <1> QED BY InitIndInv, StepOK, PTL DEF Spec

\* However the requests that add keys interleave and fail, no two keys whose
\* secret was never replaced are of one cloud project.
THEOREM ProjectsHaveOneKey == Spec => []OneKeyPerProject
  <1>1. IndInv => OneKeyPerProject
    <2> SUFFICES ASSUME IndInv PROVE OneKeyPerProject
      OBVIOUS
    <2>1. \A n \in notices : n.call \in {"add", "remove"} /\ n.key \in Keys /\ n.pool \in Pooled
      BY DEF IndInv, Shapes, Notice
    <2>2. \A i \in Isolates, k \in Keys : cache[i][k] # NONE => cache[i][k].secret \in 1..secrets
      BY DEF IndInv, Shapes, SecretsAge, Entry
    <2>3. TypeOK
      BY <2>1, <2>2 DEF IndInv, Shapes, TypeOK
    <2>4. ASSUME NEW k \in Present \ rotated, NEW l \in Present \ rotated,
                 rows[k].project # NONE, rows[k].project = rows[l].project
          PROVE  k = l
      <3>1. rows[k].project \in Projects
        BY <2>4 DEF IndInv, Shapes, Present, Row
      <3> QED BY <2>4, <3>1 DEF IndInv, ProjectsApart, Claims, Present
    <2> QED BY <2>3, <2>4 DEF OneKeyPerProject
  <1> QED BY Invariance, <1>1, PTL

\* A secret that was replaced or deleted is handed out no longer than a cached
\* entry lives and a lookup takes, in every isolate.
THEOREM OldSecretsExpire == Spec => []StaleAtMost
  <1>1. IndInv => StaleAtMost
    <2> SUFFICES ASSUME IndInv, NEW i \in Isolates, NEW k \in Keys,
                        Cached(i, k), retired[cache[i][k].secret] # NONE
                 PROVE  now < retired[cache[i][k].secret] + TTL + LATENCY
      BY DEF StaleAtMost
    <2>1. /\ cache[i][k].expiresAt > now /\ cache[i][k].expiresAt \in Nat
          /\ cache[i][k].expiresAt <= retired[cache[i][k].secret] + TTL + LATENCY
          /\ cache[i][k].secret \in 1..MaxSecrets
      BY DEF Cached, IndInv, Shapes, SecretsAge, Entry
    <2>2. retired[cache[i][k].secret] \in Nat /\ now \in Nat /\ TTL \in Nat /\ LATENCY \in Nat
      BY <2>1, KeyConsoleAssumption DEF IndInv, Shapes
    <2> QED BY <2>1, <2>2
  <1> QED BY Invariance, <1>1, PTL

\* The keys that a step brings into a pool.
Home ==
    \A t \in Pooled : \A k \in pools'[t] \ pools[t] :
        \/ t = posts[k].tenant
        \/ k \in Entitled(t)
        \/ \E l \in loads \ loads' : l.pool = t /\ k \in l.keys \ l.astray

\* No load and no notice brings a key under observation into the pool of a
\* tenant that neither added nor owns it, unless the key was active, or the
\* tenant's, when D1 was asked for the rows that have arrived.
THEOREM ObservedKeysStayHome == Spec => ObservationStaysHome
  <1>1. IndInv /\ [Next]_vars => [Home]_vars
    <2> SUFFICES ASSUME IndInv, Next PROVE Home
      OBVIOUS
    <2> USE DEF Home
    <2>1. ASSUME \/ \E t \in Pooled : LoadPool(t)
                 \/ \E l \in loads : LoadArrives(l) \/ LoadFails(l)
                 \/ \E n \in notices : Notify(n) \/ NotifyFails(n)
          PROVE  Home
      BY <2>1, PoolStepDoes DEF PoolsFill
    <2>2. ASSUME UNCHANGED pools PROVE Home
      BY <2>2
    <2>3. Posting \/ Owning \/ Administering \/ Tick => UNCHANGED pools
      BY DEF Posting, PostKey, PostRegister, PostStore, PostAttest, PostFails,
             Owning, DeleteKey, PoolMode, RotateKeySecret, Rotate,
             Administering, DeleteKeyAdmin, RotateKeySecretAdmin, AdminPoolMode, PoolModeAdmin,
             RoutingStatus, AdminDelete, ReportKeyAbuse, ActivateAll, PurgeQuarantined,
             OnlyRows, Tick
    <2>4. ASSUME NEW i \in Isolates PROVE
              /\ LookupDone(i) => UNCHANGED pools
              /\ \A k \in Keys, t \in Pooled : LookupRow(i, k, t) => UNCHANGED pools
      BY DEF LookupDone, LookupRow
    <2> QED BY <2>1, <2>2, <2>3, <2>4 DEF Next, Using
  <1>2. [Home]_vars <=>
        [\A t \in Pooled : \A k \in pools'[t] \ pools[t] :
             \/ t = posts[k].tenant
             \/ k \in Entitled(t)
             \/ \E l \in loads \ loads' : l.pool = t /\ k \in l.keys \ l.astray]_vars
    BY DEF Home
  <1> QED BY Invariance, <1>1, <1>2, PTL DEF Spec, ObservationStaysHome

-----------------------------------------------------------------------------
(* Who can decrypt a key                                                   *)

Nonce == Bytes(12, "nonce")

\* A stored ciphertext opens under the key it was made with alone.
LEMMA OpensAlone ==
    ASSUME NEW key, key.is = "key", NEW other, other.is = "key"
    PROVE  LET stored == Payload(Text("base64", Sealed(Secret, other, Nonce)), Text("base64", Nonce)) IN
           decrypt(stored, key, NoNonce) = IF key = other THEN Secret ELSE Failure
  <1> DEFINE sealed == Sealed(Secret, other, Nonce)
             stored == Payload(Text("base64", sealed), Text("base64", Nonce))
             parts == <<Nonce, sealed>>
  <1>1. key # Failure /\ resolveKey(key) = key
    BY DEF Failure, resolveKey
  <1>2. /\ Nonce.is = "bytes" /\ Nonce.length = 12
        /\ sealed.is = "bytes" /\ sealed.length = 55
        /\ sealed.value.key = other /\ sealed.value.nonce = Nonce /\ sealed.value.plain = Secret
    BY DEF Nonce, Sealed, Bytes, Secret, TAG_LENGTH_BYTES
  <1>3. sealed # Failure /\ Nonce # Failure
    BY <1>2 DEF Failure
  <1> HIDE DEF sealed
  <1>4. /\ AsBytes(stored.nonce) = Nonce /\ AsBytes(stored.ciphertext) = sealed
        /\ stored.is = "payload"
    BY DEF AsBytes, Text, Payload, FromBase64
  <1>5. parseDecryptionInput(stored, NoNonce) = Payload(sealed, Nonce)
    <2>1. Failure \notin {parts[i] : i \in DOMAIN parts}
      BY <1>3
    <2> QED BY <1>4, <2>1 DEF parseDecryptionInput
  <1>6. Payload(sealed, Nonce) # Failure
    BY DEF Payload, Failure
  <1>7. Open(sealed, key, Nonce) = IF key = other THEN Secret ELSE Failure
    BY <1>1, <1>2 DEF Open, TAG_LENGTH_BYTES
  <1> HIDE DEF stored
  <1>8. decrypt(stored, key, NoNonce) = IF key = other THEN Secret ELSE Failure
    BY <1>1, <1>2, <1>5, <1>6, <1>7 DEF decrypt, isValidNonceLength, NONCE_LENGTH_BYTES, Payload
  <1> QED BY <1>8 DEF stored, sealed

\* A key that is encrypted for its owner or for everybody is read by everybody
\* that a pool gives it to.
LEMMA ReadByAll ==
    ASSUME NEW t \in Pooled, NEW under \in {t, DEFAULT}, NEW caller \in Pooled
    PROVE  resolvePlaintextKey(StoredKey(t, under), caller, KC_MASTER_KEY) = Secret
  <1> DEFINE key(u) == Key("HKDF", "KC_MASTER_KEY", u)
             sealed == Sealed(Secret, key(under), Nonce)
             row == StoredKey(t, under)
             keys == Attempts(row, caller, KC_MASTER_KEY)
             tried(i) == IF keys[i] = Failure THEN Failure
                         ELSE decrypt(Payload(row.ciphertext, row.nonce), keys[i], NoNonce)
             good == {i \in DOMAIN keys : tried(i) # Failure /\ tried(i).length > 0}
  <1>1. \A u : deriveTenantKey(KC_MASTER_KEY, u) = key(u) /\ key(u).is = "key" /\ key(u) # Failure
    BY DEF deriveTenantKey, KC_MASTER_KEY, Passphrase, Key, Failure
  <1>2. row.tenant = t /\ row.ciphertext = Text("base64", sealed) /\ row.nonce = Text("base64", Nonce)
    <2>1. resolveKey(key(under)) = key(under)
      BY <1>1 DEF resolveKey
    <2>2. isValidNonceLength(Nonce.length)
      BY DEF isValidNonceLength, Nonce, Bytes, NONCE_LENGTH_BYTES
    <2>3. /\ encrypt(Secret, key(under), Nonce).ciphertextB64 = Text("base64", sealed)
          /\ encrypt(Secret, key(under), Nonce).nonceB64 = Text("base64", Nonce)
      BY <1>1, <2>1, <2>2 DEF encrypt
    <2> QED BY <1>1, <2>3 DEF StoredKey, encryptPlaintextKey, Nonce
  <1>3. keys = <<key(t), key(caller), Key("SHA-256", "KC_MASTER_KEY", "none"), key(DEFAULT)>>
    <2>1. resolveKey(KC_MASTER_KEY) = Key("SHA-256", "KC_MASTER_KEY", "none")
      BY DEF resolveKey, deriveKey, KC_MASTER_KEY, Passphrase
    <2> QED BY <1>1, <1>2, <2>1 DEF Attempts
  <1>4. DOMAIN keys = 1..4 /\ \A i \in 1..4 : keys[i].is = "key" /\ keys[i] # Failure
    BY <1>1, <1>3 DEF Key, Failure
  <1>5. \E i \in 1..4 : keys[i] = key(under)
    BY <1>3
  <1> HIDE DEF keys, row
  <1>6. \A i \in 1..4 : tried(i) = IF keys[i] = key(under) THEN Secret ELSE Failure
    BY <1>1, <1>2, <1>4, OpensAlone
  <1>7. Secret # Failure /\ Secret.length = 39
    BY DEF Secret, Failure, Bytes
  <1>8. \A i \in good : i \in 1..4 /\ tried(i) = Secret
    BY <1>4, <1>6, <1>7
  <1>9. \E i \in good : \A j \in good : i <= j
    <2>1. good # {} /\ \A i \in good : i = 1 \/ i = 2 \/ i = 3 \/ i = 4
      BY <1>4, <1>5, <1>6, <1>7
    <2> HIDE DEF good
    <2>2. CASE 1 \in good
      BY <2>1, <2>2
    <2>3. CASE 1 \notin good /\ 2 \in good
      BY <2>1, <2>3
    <2>4. CASE 1 \notin good /\ 2 \notin good /\ 3 \in good
      BY <2>1, <2>4
    <2>5. CASE 1 \notin good /\ 2 \notin good /\ 3 \notin good
      BY <2>1, <2>5
    <2> QED BY <2>2, <2>3, <2>4, <2>5
  <1>10. resolvePlaintextKey(row, caller, KC_MASTER_KEY) =
             IF good = {} THEN Failure ELSE tried(CHOOSE i \in good : \A j \in good : i <= j)
    BY DEF resolvePlaintextKey, keys
  <1> HIDE DEF good, tried
  <1>11. (CHOOSE i \in good : \A j \in good : i <= j) \in good
    BY <1>9
  <1> QED BY <1>8, <1>9, <1>10, <1>11 DEF row

\* A key whose secret was never replaced can be decrypted by whoever asks for
\* it, through every change of owner; that a stored secret is kept from others
\* is a statement about encryption alone, and no state's matter.
THEOREM NeverRotatedIsReadable == Spec => [](SecretsKept => ReadableUntilRotated)
  <1>1. IndInv => (SecretsKept => ReadableUntilRotated)
    <2> SUFFICES ASSUME IndInv, NEW k \in Present \ rotated, NEW t \in Pooled
                 PROVE  Decrypts(rows[k], t)
      BY DEF ReadableUntilRotated
    <2>1. /\ rows[k].tenant \in Pooled /\ rows[k].under \in Pooled
          /\ rows[k].under \in {rows[k].tenant, DEFAULT}
      BY DEF IndInv, KeptReadable, Present, Shapes, Row
    <2>2. resolvePlaintextKey(StoredKey(rows[k].tenant, rows[k].under), t, KC_MASTER_KEY) = Secret
      BY <2>1, ReadByAll
    <2> QED BY <2>1, <2>2 DEF Decrypts, Readable
  <1> QED BY Invariance, <1>1, PTL

=============================================================================
