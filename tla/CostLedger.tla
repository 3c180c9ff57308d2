----------------------------- MODULE CostLedger -----------------------------
(***************************************************************************)
(* The two cost tables in D1 and the repository in front of them           *)
(* (storage/repositories/cost_ledger/repository.ts): cost_ledger, to which *)
(* events are only ever added, and daily_spend_rollup, one row per tenant  *)
(* and day, that is kept up to date by some writers, not kept by others,   *)
(* and rebuilt from the ledger on demand.                                  *)
(*                                                                         *)
(* A D1 statement and a batch of statements are one step; two awaited      *)
(* statements are two, and anything may happen between them.  The chat     *)
(* handler records events without the rollup (see ChatRequest); nothing in *)
(* the worker calls the other operations yet, they are modelled as a job   *)
(* that does.  Provider and model are part of the key of a rollup row, and *)
(* one of each is modelled.  Every query is filtered by tenant_id.         *)
(***************************************************************************)
EXTENDS Integers, FiniteSets, FiniteSetsExt

CONSTANTS
    Tenants,
    Jobs,        \* ids of the events that jobs record
    Audits,      \* calls of reconcileDailyRollupFromLedger
    Days,        \* calendar days, 1..n
    Costs        \* microdollars of one event

ASSUME LedgerAssumption ==
    /\ IsFiniteSet(Jobs)
    /\ Costs \subseteq Nat
    /\ Days \subseteq Nat
    /\ 1 \in Days

VARIABLES
    ledger,      \* the rows of cost_ledger
    rollup,      \* the rows of daily_spend_rollup, per tenant and day
    audit,       \* what each reconciliation has read and not yet written
    day,         \* the current calendar day
    raced,       \* history: the rows that an event reached while a
                 \* reconciliation of them was between its read and its write
    added        \* history: what upsertDailyRollup has added to each row since
                 \* it was last rebuilt

ledgerVars == <<ledger, rollup, audit, day, raced, added>>

-----------------------------------------------------------------------------
Row == Tenants \X Days

\* CostLedgerEvent: the columns that anything here depends on.
Event(id, tenant, cost) ==
    [requestId |-> id, tenantId |-> tenant, cost |-> cost, day |-> day]

Zero == [requests |-> 0, cost |-> 0]

Plus(a, b) == [requests |-> a.requests + b.requests, cost |-> a.cost + b.cost]

\* SUM of f over the rows of S.
Total(f, S) == MapThenSumSet(LAMBDA x : f[x], S)

\* The events of a tenant's day.
EventsOf(row) == {e \in ledger : e.tenantId = row[1] /\ e.day = row[2]}

\* SELECT COUNT(star), SUM(cost_microdollars) of a tenant's day.
Aggregate(row) ==
    [requests |-> Cardinality(EventsOf(row)),
     cost |-> Total([e \in EventsOf(row) |-> e.cost], EventsOf(row))]

\* The days from one to another.
Period(first, last) == {d \in Days : first <= d /\ d <= last}

\* getTenantSpendSummary: the sum of the rollup rows of a period.
SpendSummary(tenant, first, last) ==
    Total([d \in Days |-> rollup[<<tenant, d>>].cost], Period(first, last))

\* The rows that a reconciliation is about to overwrite.
UnderAudit(row) == \E a \in Audits : audit[a].at = "read" /\ audit[a].row = row

NoAudit == [at |-> "idle"]
Stopped == [at |-> "stopped"]

LedgerInit ==
    /\ ledger = {}
    /\ rollup = [row \in Row |-> Zero]
    /\ audit = [a \in Audits |-> NoAudit]
    /\ day = 1
    /\ raced = {}
    /\ added = [row \in Row |-> Zero]

-----------------------------------------------------------------------------
\* An event joins the ledger; the history notes a reconciliation it escapes.
Insert(e) ==
    /\ ledger' = ledger \cup {e}
    /\ raced' = IF UnderAudit(<<e.tenantId, e.day>>)
                THEN raced \cup {<<e.tenantId, e.day>>} ELSE raced

\* recordEvent: the ledger alone.
recordEvent(e) ==
    /\ Insert(e)
    /\ UNCHANGED <<rollup, audit, day, added>>

Recorded(id) == \E e \in ledger : e.requestId = id

\* ON CONFLICT DO UPDATE: the row grows by the event.
Accumulate(e) ==
    rollup' = [rollup EXCEPT ![<<e.tenantId, e.day>>] =
                  Plus(@, [requests |-> 1, cost |-> e.cost])]

\* recordEventWithRollup: ledger and rollup in one batch, or neither.
recordEventWithRollup(id, tenant, cost) ==
    LET e == Event(id, tenant, cost) IN
    /\ ~Recorded(id)
    /\ Insert(e)
    /\ Accumulate(e)
    /\ UNCHANGED <<audit, day, added>>

\* recordBatch: several events in one batch, without the rollup.
recordBatch(ids, tenant, cost) ==
    LET events == {Event(id, tenant, cost) : id \in ids} IN
    /\ Cardinality(ids) > 1
    /\ \A id \in ids : ~Recorded(id)
    /\ ledger' = ledger \cup events
    /\ raced' = IF UnderAudit(<<tenant, day>>)
                THEN raced \cup {<<tenant, day>>} ELSE raced
    /\ UNCHANGED <<rollup, audit, day, added>>

\* upsertDailyRollup, and saveRollup of storage/d1: the row of any day grows by
\* figures of the caller's, and no event goes with them.
upsertDailyRollup(row, delta) ==
    /\ rollup' = [rollup EXCEPT ![row] = Plus(@, delta)]
    /\ added' = [added EXCEPT ![row] = Plus(@, delta)]
    /\ UNCHANGED <<ledger, audit, day, raced>>

\* reconcileDailyRollupFromLedger, first statement: the aggregate is read.
ReconcileRead(a, row) ==
    /\ audit[a] = NoAudit
    /\ row[2] <= day
    /\ audit' = [audit EXCEPT ![a] = [at |-> "read", row |-> row,
                                      total |-> Aggregate(row)]]
    /\ raced' = IF UnderAudit(row) THEN raced ELSE raced \ {row}
    /\ UNCHANGED <<ledger, rollup, day, added>>

\* Wrong: a row that exists is left as it is.
ReconcileIgnores(a) ==
    /\ audit[a].at = "read"
    /\ rollup' = [rollup EXCEPT ![audit[a].row] =
                      IF @ = Zero THEN audit[a].total ELSE @]
    /\ audit' = [audit EXCEPT ![a] = NoAudit]
    /\ UNCHANGED <<ledger, day, raced, added>>

\* Wrong: the rows are added to what the table holds.
ReconcileAdds(a) ==
    /\ audit[a].at = "read"
    /\ rollup' = [rollup EXCEPT ![audit[a].row] = Plus(@, audit[a].total)]
    /\ audit' = [audit EXCEPT ![a] = NoAudit]
    /\ UNCHANGED <<ledger, day, raced, added>>

\* Second statement: the rows are deleted and written anew in one batch.
ReconcileWrite(a) ==
    /\ audit[a].at = "read"
    /\ rollup' = [rollup EXCEPT ![audit[a].row] = audit[a].total]
    /\ added' = [added EXCEPT ![audit[a].row] = Zero]
    /\ audit' = [audit EXCEPT ![a] = NoAudit]
    /\ UNCHANGED <<ledger, day, raced>>

\* The worker is stopped between the two statements.
ReconcileStops(a) ==
    /\ audit[a].at = "read"
    /\ audit' = [audit EXCEPT ![a] = Stopped]
    /\ UNCHANGED <<ledger, rollup, day, raced, added>>

NextDay ==
    /\ day + 1 \in Days
    /\ day' = day + 1
    /\ UNCHANGED <<ledger, rollup, audit, raced, added>>

LedgerNext ==
    \/ \E t \in Tenants, c \in Costs :
           \/ \E id \in Jobs : ~Recorded(id) /\ recordEvent(Event(id, t, c))
           \/ \E id \in Jobs : recordEventWithRollup(id, t, c)
           \/ \E ids \in SUBSET Jobs : recordBatch(ids, t, c)
           \/ \E d \in Days, n \in {0, 1} :
                  upsertDailyRollup(<<t, d>>, [requests |-> n, cost |-> c])
    \/ \E a \in Audits :
           \/ \E row \in Row : ReconcileRead(a, row)
           \/ ReconcileWrite(a)
           \/ ReconcileStops(a)
    \/ NextDay

-----------------------------------------------------------------------------
\* The types of the tables; a request is in the ledger at most once.
LedgerTypeOK ==
    /\ \A e \in ledger : e.tenantId \in Tenants /\ e.cost \in Nat /\ e.day \in 1..day
    /\ \A e, f \in ledger : e.requestId = f.requestId => e = f
    /\ {rollup, added} \subseteq [Row -> [requests : Nat, cost : Nat]]
    /\ day \in Days /\ raced \subseteq Row

\* What accounts for a row: the ledger's events, and what upsertDailyRollup
\* added without any since the row was last rebuilt.
Accounted(row) == Plus(Aggregate(row), added[row])

\* A rollup never shows more requests or more money than the ledger holds for
\* that tenant and day and upsertDailyRollup has put there beside it since the
\* row was last rebuilt, whichever writers and reconciliations overlapped; so no
\* period's summary exceeds what accounts for it, and a reconciliation takes
\* out again whatever has no event.
RollupBacked ==
    LET due == [row \in Row |-> Accounted(row)] IN
    /\ \A row \in Row : rollup[row].requests <= due[row].requests
    /\ \A t \in Tenants : \A first, last \in Days :
           SpendSummary(t, first, last) <=
               Total([d \in Days |-> due[<<t, d>>].cost], Period(first, last))

\* A reconciliation that no event overtook leaves the row equal to the ledger,
\* whatever it held before.
ReconcileRepairs ==
    [][\A a \in Audits :
         /\ audit[a].at = "read" /\ audit'[a] = NoAudit
         /\ audit[a].row \notin raced
         => rollup'[audit[a].row] = Aggregate(audit[a].row)]_ledgerVars
=============================================================================
