--------------------------- MODULE MCChatRequest ---------------------------
(* Two requests with one token, beside two events of other jobs and a        *)
(* reconciliation, over two days.  A request that is cancelled costs         *)
(* nothing, any other one microdollar.                                       *)
EXTENDS ChatRequest, TLC

MCOwner == [k \in Tokens \cup Guests |-> CHOOSE t \in Tenants : TRUE]

MCEnv ==
    [MIDNIGHT_FREEZE |-> FALSE, KEY_POOL |-> TRUE, DEMO_POOL |-> TRUE, ASSETS |-> TRUE,
     DB |-> TRUE, ADMIN_TOKEN |-> "adm", ADMIN_EMAILS |-> {"a@x"},
     REPORT_WEBHOOK_SECRET |-> "hook", models |-> {"gpt"},
     users |-> [u \in {"u1", "u2"} |->
                   [quarantined |-> u = "u2", admin |-> FALSE, email |-> "a@x"]],
     auth_tokens |-> [k \in {"tok1", "tok2", "tok3"} |->
                         [expired |-> k = "tok3", tenant |-> IF k = "tok2" THEN "u2" ELSE "u1"]]]

MCEnvs ==
    {[MCEnv EXCEPT !.MIDNIGHT_FREEZE = f, !.KEY_POOL = p, !.ASSETS = p] :
        f \in BOOLEAN, p \in BOOLEAN}

Request(host, method, path, tenant, json, bearer) ==
    [host |-> host, method |-> method, path |-> path, tenant |-> tenant, json |-> json,
     messages |-> TRUE, html |-> TRUE, bearer |-> bearer]

\* An abort; a stream without a body is the other failure of a route.
MCRouteErrors == {Exception}

\* A probe, another tenant's name.
MCInputs ==
    {Request(<<"api">>, "GET", <<"health">>, "none", TRUE, "none"),
     Request(<<"api">>, "POST", <<"v1", "chat", "completions">>, "other", TRUE, "none")}

Names == {<<"health">>, <<"models">>, <<"models", "gpt">>, <<"models", "none">>, <<"report">>,
          <<"openapi.json">>, <<"demo", "token">>, <<"keys">>, <<"keys", "k1">>, <<"metrics">>,
          <<"capacity">>, <<"chat", "completions">>, <<"route">>, <<"assets", "a.js">>,
          <<"favicon.ico">>, <<"dashboard">>, <<"nowhere">>, <<>>}

MCProbes ==
    {Request(h, m, p, t, j, b) :
        h \in {<<"api">>, <<"console">>, <<"admin">>, <<"localhost">>, Apex},
        m \in {"GET", "POST", "DELETE", "OPTIONS"},
        p \in Names \cup {<<"v1">> \o n : n \in Names} \cup {<<"api", "keys">>, <<"api", "demo", "token">>},
        t \in {"none", "other"}, j \in BOOLEAN,
        b \in {"none", "hook", "adm", "u1", "tok1", "tok2", "tok3"}}

MCSymmetry == Permutations(Requests) \cup Permutations(Jobs)

\* At most two events, and nothing is reconciled before the first; a row is
\* added to before the first request comes, and once before it is rebuilt.
Bound ==
    /\ Cardinality(ledger) <= 2
    /\ \/ added = [row \in Row |-> Zero]
       \/ /\ Total([row \in Row |-> added[row].cost], Row) <= 1
          /\ \A r \in Requests : pc[r] = "new"
    /\ ledger = {} => day = 1 /\ \A a \in Audits : audit[a] = NoAudit
=============================================================================
