------------------------------ MODULE KeyPool ------------------------------
(***************************************************************************)
(* The key list of one tenant's KeyPoolDO                                  *)
(* (durable_objects/key_pool/key_pool_do.ts) and the selection of a key    *)
(* from it (durable_objects/key_selector).                                 *)
(*                                                                         *)
(* A key is known in four places: as a row of the D1 table api_keys, in    *)
(* the object's keysMap, in its selector's own keysMap, and in durable     *)
(* storage.  Whoever writes D1 may tell the object (the dashboard does,    *)
(* and goes on if that fails; an administrator's delete does not), and a   *)
(* tenant may call the object and leave D1 alone (/v1/keys, forwarded by   *)
(* worker/router/core/dispatcher.ts): the two change independently.        *)
(*                                                                         *)
(* Storage is gated (see CircuitBreaker), but a D1 query is not: while     *)
(* ensureLoaded waits for its rows, other calls run, and each that finds   *)
(* isLoaded false starts a query of its own.  A call that awaits           *)
(* ensureLoaded is a step of its own, taken when the object is loaded.     *)
(*                                                                         *)
(* One provider is modelled, and all keys are of the object's tenant: a    *)
(* call for another tenant is refused by assertTenant before it reads or   *)
(* writes anything.  Of a list of keys, though, those before a malformed   *)
(* or foreign one are taken, and the call throws before it stores them.    *)
(* Which keys the circuit breaker and the rate limiter hold healthy at a   *)
(* selection is left open here.                                            *)
(***************************************************************************)
EXTENDS Integers, Sequences, FiniteSets, Functions

CONSTANTS
    Ids,         \* key ids, in the order in which D1 returns their rows
    Priority,    \* the priority of each key
    RRModulus,   \* the round-robin index counts modulo this, 1_000_000
    Loads        \* bound: calls of ensureLoaded that may wait for D1 at once

ASSUME KeyPoolAssumption ==
    /\ Ids \subseteq Int /\ IsFiniteSet(Ids)
    /\ Priority \in [Ids -> Int]
    /\ RRModulus \in Nat \ {0}

VARIABLES
    rows,       \* external: ids of the D1 rows that the query selects
    isLoaded,
    keysMap,    \* the object's keys, in insertion order
    selector,   \* the selector's keys, in insertion order
    disk,       \* storage.get("pool:keys"); absent and empty read the same
    loads,      \* calls of ensureLoaded that wait for D1
    rrMem,      \* the selector's round-robin index; NotRead until first used
    rrDisk,     \* storage.get("ks:rr:" + provider)
    last,       \* history: the last tie between keys that the index broke, and
                \* whether it was the first, third, ... one
    gone,       \* history: keys removed by removeKey that had no row, and were
                \* not given to the object or to D1 since
    replaced,   \* history: setKeys ran in this instance of the object
    torn,       \* history: a list of keys was taken in part, and not stored since
    overlapped  \* history: rows arrived at an object that was loaded already

history == <<last, gone, replaced, torn, overlapped>>
vars == <<rows, isLoaded, keysMap, selector, disk, loads, rrMem, rrDisk, history>>

-----------------------------------------------------------------------------
NotRead == -1
NoTie == [tier |-> <<>>, index |-> NotRead, key |-> NotRead, odd |-> FALSE]

Idle == [at |-> "idle", rows |-> {}]
Asked == [at |-> "asked", rows |-> {}]
Answered(ids) == [at |-> "answered", rows |-> ids]

InOrder(ids) ==
    CHOOSE s \in [1..Cardinality(ids) -> ids] :
        \A i, j \in 1..Cardinality(ids) : i < j => s[i] < s[j]

\* What a filter lets through: the elements of s at some places, in their order.
Through(s, places) == [i \in 1..Cardinality(places) |-> s[InOrder(places)[i]]]

\* Map.delete.
DeleteKey(m, k) == Through(m, {i \in DOMAIN m : m[i] # k})

\* Map.set of each element of s in turn, where s repeats none: a new key goes to
\* the end, a known one stays.
SetAll(m, s) == m \o Through(s, {i \in DOMAIN s : s[i] \notin Range(m)})

Init ==
    /\ rows \in SUBSET Ids
    /\ isLoaded = FALSE
    /\ keysMap = <<>>
    /\ selector = <<>>
    /\ disk = <<>>
    /\ loads = [l \in Loads |-> Idle]
    /\ rrMem = NotRead
    /\ rrDisk = 0
    /\ last = NoTie
    /\ gone = {}
    /\ replaced = FALSE /\ torn = FALSE
    /\ overlapped = FALSE

-----------------------------------------------------------------------------
(* The D1 table *)

\* handlePostKey inserts a row; an administrator activates a community key.
InsertRow(k) ==
    /\ k \notin rows
    /\ rows' = rows \cup {k}
    /\ gone' = gone \ {k}
    /\ UNCHANGED <<isLoaded, keysMap, selector, disk, loads, rrMem, rrDisk,
                   last, replaced, torn, overlapped>>

\* handleDeleteKey, an administrator's delete, purge or quarantine.
DeleteRow(k) ==
    /\ k \in rows
    /\ rows' = rows \ {k}
    /\ UNCHANGED <<isLoaded, keysMap, selector, disk, loads, rrMem, rrDisk,
                   history>>

-----------------------------------------------------------------------------
(* ensureLoaded *)

\* Storage has keys: they are the pool.
LoadStored ==
    /\ ~isLoaded
    /\ disk # <<>>
    /\ keysMap' = SetAll(keysMap, disk)
    /\ selector' = keysMap'
    /\ isLoaded' = TRUE
    /\ UNCHANGED <<rows, loads, rrMem, disk, rrDisk, history>>

\* Storage has none.  An empty list makes the selector's keys the object's, no
\* list at all leaves them alone.
NothingStored ==
    /\ ~isLoaded
    /\ disk = <<>>
    /\ selector' \in {keysMap, selector}

\* D1 is asked, and the object stays open to other calls.
AskD1(l) ==
    /\ NothingStored
    /\ keysMap = <<>>
    /\ loads[l] = Idle
    /\ loads' = [loads EXCEPT ![l] = Asked]
    /\ UNCHANGED <<rows, isLoaded, keysMap, rrMem, disk, rrDisk, history>>

\* The object has keys that a call left there when it threw: D1 is not asked.
LoadNothing ==
    /\ NothingStored
    /\ keysMap # <<>>
    /\ isLoaded' = TRUE
    /\ UNCHANGED <<rows, keysMap, loads, rrMem, disk, rrDisk, history>>

\* D1 evaluates the query.
AnswerD1(l) ==
    /\ loads[l] = Asked
    /\ loads' = [loads EXCEPT ![l] = Answered(rows)]
    /\ UNCHANGED <<rows, isLoaded, keysMap, selector, rrMem, disk, rrDisk,
                   history>>

\* The rows arrive: they join the pool, and they alone are stored.  No row,
\* or a failed query, leaves the pool as it is.
FinishLoad(l) ==
    /\ loads[l].at = "answered"
    /\ loads' = [loads EXCEPT ![l] = Idle]
    /\ isLoaded' = TRUE
    /\ IF loads[l].rows # {}
       THEN /\ keysMap' = SetAll(keysMap, InOrder(loads[l].rows))
            /\ selector' = keysMap'
            /\ disk' = InOrder(loads[l].rows)
            /\ overlapped' = (overlapped \/ isLoaded)
       ELSE UNCHANGED <<keysMap, selector, disk, overlapped>>
    /\ UNCHANGED <<rows, rrMem, rrDisk, last, gone, replaced, torn>>

FailLoad(l) ==
    /\ loads[l].at = "asked"
    /\ loads' = [loads EXCEPT ![l] = Idle]
    /\ isLoaded' = TRUE
    /\ UNCHANGED <<rows, keysMap, selector, rrMem, disk, rrDisk, history>>

-----------------------------------------------------------------------------
(* Calls of the object *)

\* addKeysSync
addKeysSync(ids) ==
    /\ keysMap' = SetAll(keysMap, InOrder(ids))
    /\ selector' = SetAll(selector, InOrder(ids))
    /\ gone' = gone \ ids
    /\ UNCHANGED <<rows, loads, rrMem, rrDisk, last, overlapped>>

\* Wrong: the keys are added in memory only.
addKeysUnpersisted(ids) ==
    /\ isLoaded
    /\ addKeysSync(ids)
    /\ torn' = FALSE
    /\ UNCHANGED <<isLoaded, disk, replaced>>

\* addKey and addKeys: the dashboard's notice, POST /v1/keys.
addKeys(ids) ==
    /\ isLoaded
    /\ addKeysSync(ids)
    /\ disk' = keysMap'
    /\ torn' = FALSE
    /\ UNCHANGED <<isLoaded, replaced>>

\* The entry after these keys is malformed or of another tenant.
addKeysThrows(ids) ==
    /\ isLoaded
    /\ addKeysSync(ids)
    /\ torn' = (torn \/ keysMap' # keysMap)
    /\ UNCHANGED <<isLoaded, disk, replaced>>

\* Wrong: the selector is not told.
removeKeyFromMapOnly(k) ==
    /\ isLoaded
    /\ keysMap' = DeleteKey(keysMap, k)
    /\ disk' = IF k \in Range(keysMap) THEN keysMap' ELSE disk
    /\ torn' = (torn /\ k \notin Range(keysMap))
    /\ gone' = gone \cup ({k} \ rows)
    /\ UNCHANGED <<rows, isLoaded, selector, loads, rrMem, rrDisk, last,
                   replaced, overlapped>>

\* Wrong: the removal is not stored.
removeKeyUnpersisted(k) ==
    /\ isLoaded
    /\ keysMap' = DeleteKey(keysMap, k)
    /\ selector' = DeleteKey(selector, k)
    /\ gone' = gone \cup ({k} \ rows)
    /\ UNCHANGED <<rows, isLoaded, disk, loads, rrMem, rrDisk, last, replaced,
                   torn, overlapped>>

\* The dashboard's notice, DELETE /v1/keys/:id.
removeKey(k) ==
    /\ isLoaded
    /\ keysMap' = DeleteKey(keysMap, k)
    /\ selector' = DeleteKey(selector, k)
    /\ IF k \in Range(keysMap) \cup Range(selector)
       THEN disk' = keysMap' /\ torn' = FALSE
       ELSE UNCHANGED <<disk, torn>>
    /\ gone' = gone \cup ({k} \ rows)
    /\ UNCHANGED <<rows, isLoaded, loads, rrMem, rrDisk, last, replaced,
                   overlapped>>

\* The object's keys are cleared, the selector's are added to.  ensureLoaded is
\* not called.
Replace(ids) ==
    /\ keysMap' = InOrder(ids)
    /\ selector' = SetAll(selector, InOrder(ids))
    /\ gone' = gone \ ids
    /\ replaced' = TRUE
    /\ UNCHANGED <<rows, loads, rrMem, rrDisk, last, overlapped>>

\* PUT /v1/keys
setKeys(ids) ==
    /\ Replace(ids)
    /\ isLoaded' = TRUE
    /\ disk' = keysMap'
    /\ torn' = FALSE

\* The entry after these keys is malformed or of another tenant: what was there
\* is cleared already.
setKeysThrows(ids) ==
    /\ Replace(ids)
    /\ torn' = TRUE
    /\ UNCHANGED <<isLoaded, disk>>

\* clearKeys: the index in memory is dropped, the stored one is kept.
clearKeys ==
    /\ keysMap' = <<>>
    /\ selector' = <<>>
    /\ rrMem' = NotRead
    /\ isLoaded' = TRUE
    /\ disk' = <<>>
    /\ torn' = FALSE
    /\ UNCHANGED <<rows, loads, rrDisk, last, gone, replaced, overlapped>>

-----------------------------------------------------------------------------
(* getKey and getKeyDetails: KeySelector.selectKey by priority *)

\* Of the healthy keys, those of the highest priority, in the pool's order.
TopTier(healthy) ==
    Through(selector, {i \in DOMAIN selector :
        /\ selector[i] \in healthy
        /\ \A h \in healthy : Priority[h] <= Priority[selector[i]]})

\* getOrLoadRoundRobinIndex
RoundRobinIndex == IF rrMem = NotRead THEN rrDisk ELSE rrMem

\* The key that the index points at.
Take(tier) ==
    last' = [tier |-> tier, index |-> RoundRobinIndex, odd |-> ~last.odd,
             key |-> tier[(RoundRobinIndex % Len(tier)) + 1]]

\* Wrong: the index advances in memory only.
selectRoundRobinUnpersisted(tier) ==
    /\ rrMem' = (RoundRobinIndex + 1) % RRModulus
    /\ Take(tier)
    /\ UNCHANGED rrDisk

\* selectRoundRobin among equals; the index is stored before the key is used.
selectRoundRobin(tier) ==
    /\ rrMem' = (RoundRobinIndex + 1) % RRModulus
    /\ rrDisk' = rrMem'
    /\ Take(tier)

\* A tier of one is returned without touching the index, and with no healthy
\* key at all the call throws: neither is a step.
getKey(healthy) ==
    /\ isLoaded
    /\ Len(TopTier(healthy)) > 1
    /\ selectRoundRobin(TopTier(healthy))
    /\ UNCHANGED <<rows, isLoaded, keysMap, selector, loads, disk, gone,
                   replaced, torn, overlapped>>

-----------------------------------------------------------------------------
\* The runtime drops the object's memory, and the calls that wait with it.
Evict ==
    /\ isLoaded' = FALSE
    /\ keysMap' = <<>>
    /\ selector' = <<>>
    /\ loads' = [l \in Loads |-> Idle]
    /\ rrMem' = NotRead
    /\ replaced' = FALSE /\ torn' = FALSE
    /\ UNCHANGED <<rows, disk, rrDisk, last, gone, overlapped>>

Next ==
    \/ \E k \in Ids : InsertRow(k) \/ DeleteRow(k) \/ removeKey(k)
    \/ LoadStored \/ LoadNothing
    \/ \E l \in Loads : AskD1(l) \/ AnswerD1(l) \/ FinishLoad(l) \/ FailLoad(l)
    \/ \E ids \in SUBSET Ids : \/ addKeys(ids) \/ addKeysThrows(ids)
                              \/ setKeys(ids) \/ setKeysThrows(ids)
    \/ clearKeys
    \/ \E healthy \in SUBSET Range(selector) : getKey(healthy)
    \/ Evict

Spec == Init /\ [][Next]_vars

-----------------------------------------------------------------------------
\* A list of key ids without repetition, as a Map holds them.
IsKeyList(s) == s \in Seq(Ids) /\ IsInjective(s)

\* The variables hold what the code's types say; an object that is not loaded
\* has no keys but those of a call that threw.
TypeOK ==
    /\ rows \subseteq Ids /\ gone \subseteq Ids
    /\ {isLoaded, replaced, torn, overlapped} \subseteq BOOLEAN
    /\ IsKeyList(keysMap) /\ IsKeyList(selector) /\ IsKeyList(disk)
    /\ loads \in [Loads -> {Idle, Asked} \cup {Answered(ids) : ids \in SUBSET Ids}]
    /\ rrMem \in {NotRead} \cup 0..(RRModulus - 1)
    /\ rrDisk \in 0..(RRModulus - 1)
    /\ ~isLoaded /\ ~torn => keysMap = <<>> /\ selector = <<>>

\* The state is well typed, every key of the pool can be selected, and a key
\* can be selected only if the object knows it, so that its reports are
\* accepted, as long as no PUT /keys has replaced the pool of this instance.
\* What an eviction leaves behind is the pool, in its order, unless the rows of
\* a second load overwrote it, or a list of keys was taken in part by a call
\* that threw, and no call has stored the pool since.
SelectorAgrees ==
    /\ TypeOK
    /\ Range(keysMap) \subseteq Range(selector)
    /\ ~replaced => Range(selector) = Range(keysMap)
    /\ isLoaded /\ ~overlapped /\ ~torn => disk = keysMap

\* A key that was removed from the object and from D1 is nowhere in the object
\* and is not loaded again, until it is given to one of them anew, unless a
\* load that read D1 before the removal came in late.
RemovedStaysOut ==
    ~overlapped =>
        gone \cap (Range(keysMap) \cup Range(selector) \cup Range(disk)) = {}

\* Requests that find the same keys tied take turns, across evictions too,
\* but for the wrap of the index.
TakesTurns ==
    [][last'.odd # last.odd /\ last'.tier = last.tier
            /\ last.index # RRModulus - 1
          => last'.key # last.key]_vars

\* test/durable_objects/key_pool_do.test.ts, "replaces entire pool with
\* setKeys()": what can be selected is the pool.
SelectsFromPool == isLoaded => Range(selector) = Range(keysMap)
=============================================================================
