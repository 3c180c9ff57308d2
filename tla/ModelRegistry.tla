--------------------------- MODULE ModelRegistry ---------------------------
(***************************************************************************)
(* The table of models that a worker holds in memory (router/registry): a  *)
(* Map of models in the order of registration, the names that stand for    *)
(* them, their windows and their prices.                                   *)
(*                                                                         *)
(* A registry is a value [models, overrides]: a sequence of models, each   *)
(* id once, and a function from explicit aliases to ids.  Names and ids    *)
(* are compared in lower case and trimmed; here they are values in that    *)
(* form.  Prices are micro-dollars per MTok tokens.                        *)
(***************************************************************************)
EXTENDS Integers, Sequences, FiniteSets

LOCAL INSTANCE SequencesExt
LOCAL INSTANCE TLC

CONSTANTS
    MTok,          \* MICRODOLLAR_MULTIPLIER, 1 000 000
    Unknown        \* undefined

ASSUME MTokAssumption == MTok \in Nat \ {0}

\* What the registry makes of a definition: names trimmed and no empty one
\* (Unknown), and a model is active unless it says otherwise.
normalizeModelDef(m) ==
    [m EXCEPT !.logicalAliases = @ \ {Unknown}, !.isActive = @ # FALSE]

Empty == [models |-> <<>>, overrides |-> <<>>]

Positions(r, id) == {i \in DOMAIN r.models : r.models[i].id = id}

hasModel(r, id) == Positions(r, id) # {}

\* getModel; getModelOrThrow throws where it is Unknown.
getModel(r, id) ==
    IF hasModel(r, id) THEN r.models[CHOOSE i \in Positions(r, id) : TRUE] ELSE Unknown

\* A model registered again keeps its place, as in a Map.
registerModel(r, def) ==
    LET m == normalizeModelDef(def) IN
    [r EXCEPT !.models = IF hasModel(r, m.id)
                         THEN [i \in DOMAIN @ |-> IF @[i].id = m.id THEN m ELSE @[i]]
                         ELSE Append(@, m)]

registerModels(r, ms) == FoldLeft(registerModel, r, ms)

\* Wrong: aliases of the model stay.
unregisterModelOnly(r, id) == [r EXCEPT !.models = SelectSeq(@, LAMBDA m : m.id # id)]

unregisterModel(r, id) ==
    [models    |-> SelectSeq(r.models, LAMBDA m : m.id # id),
     overrides |-> [a \in {b \in DOMAIN r.overrides : r.overrides[b] # id} |-> r.overrides[a]]]

registerAlias(r, a, id) == [r EXCEPT !.overrides = (a :> id) @@ @]

unregisterAlias(r, a) ==
    [r EXCEPT !.overrides = [b \in DOMAIN @ \ {a} |-> @[b]]]

\* The constructor: a catalogue and its aliases.
NewRegistry(ms, overrides) == [registerModels(Empty, ms) EXCEPT !.overrides = overrides]

getAllModels(r, onlyActive) == SelectSeq(r.models, LAMBDA m : onlyActive => m.isActive)

getModelsByProvider(r, p, onlyActive) ==
    SelectSeq(getAllModels(r, onlyActive), LAMBDA m : m.provider = p)

-----------------------------------------------------------------------------
(* Names *)

\* The first of the cheapest: each later model must be strictly cheaper.
getCheapestModel(ms) ==
    IF ms = <<>> THEN Unknown
    ELSE ms[CHOOSE i \in DOMAIN ms :
                /\ \A j \in DOMAIN ms : ms[i].inputCost <= ms[j].inputCost
                /\ \A j \in 1..(i - 1) : ms[i].inputCost < ms[j].inputCost]

\* A stable sort: an element comes after those before which it does not go.
SortedBy(ms, Less(_, _)) ==
    LET ahead(i, j) == Less(ms[j], ms[i]) \/ (~Less(ms[i], ms[j]) /\ j <= i)
        place == [i \in DOMAIN ms |-> Cardinality({j \in DOMAIN ms : ahead(i, j)})]
    IN  [n \in DOMAIN ms |-> ms[CHOOSE i \in DOMAIN ms : place[i] = n]]

compareByCost(m, n) == m.inputCost < n.inputCost

ByCost(ms) == SortedBy(ms, compareByCost)

CalledBy(ms, a) == SelectSeq(ms, LAMBDA m : a \in m.logicalAliases)

IdOf(m) == IF m = Unknown THEN Unknown ELSE m.id

\* An explicit alias before the cheapest active model that lists the name.
resolveAlias(r, a) ==
    IF a \in DOMAIN r.overrides THEN r.overrides[a]
    ELSE IdOf(getCheapestModel(CalledBy(getAllModels(r, TRUE), a)))

\* resolveModel; an id hides an alias of the same name, also when its model is
\* not active.  resolveModelOrThrow throws where it is Unknown.
resolveModel(r, name, onlyActive) ==
    LET m == getModel(r, IF hasModel(r, name) THEN name ELSE resolveAlias(r, name)) IN
    IF m # Unknown /\ onlyActive /\ ~m.isActive THEN Unknown ELSE m

hasAlias(r, a) == a \in DOMAIN r.overrides \/ CalledBy(r.models, a) # <<>>

getAliasesForModel(r, id) ==
    (IF hasModel(r, id) THEN getModel(r, id).logicalAliases ELSE {})
        \cup {a \in DOMAIN r.overrides : r.overrides[a] = id}

\* Models by cost, each taking the names that none before it took; an explicit
\* alias of a model that is not active is left out and hides no other.
getAliasMap(r, onlyActive) ==
    LET ms == getAllModels(r, onlyActive)
        byCost == ByCost(ms)
        listed == UNION {ms[i].logicalAliases : i \in DOMAIN ms}
        shown == {a \in DOMAIN r.overrides :
                      onlyActive => hasModel(r, r.overrides[a]) /\ getModel(r, r.overrides[a]).isActive} IN
    [a \in listed \cup shown |->
        IF a \in shown THEN r.overrides[a]
        ELSE LET first == CHOOSE i \in DOMAIN byCost :
                     /\ a \in byCost[i].logicalAliases
                     /\ \A j \in 1..(i - 1) : a \notin byCost[j].logicalAliases
             IN  byCost[first].id]

-----------------------------------------------------------------------------
(* Windows *)

fitsContextWindow(m, prompt, output) == prompt + output <= m.contextWindow

\* assertWithinContextWindow throws where it is FALSE.
assertWithinContextWindow(m, prompt, output) == ~(prompt + output > m.contextWindow)

getRemainingContextWindow(m, prompt) ==
    IF prompt <= m.contextWindow THEN m.contextWindow - prompt ELSE 0

\* What is wrong with a request; output is Unknown if it does not name a limit.
validateTokenLimits(m, prompt, output) ==
    CASE prompt > m.contextWindow -> "prompt"
      [] prompt <= m.contextWindow /\ output # Unknown /\ output > m.maxOutputTokens -> "output"
      [] prompt <= m.contextWindow /\ output # Unknown /\ output <= m.maxOutputTokens
            /\ prompt + output > m.contextWindow -> "total"
      [] OTHER -> "valid"

-----------------------------------------------------------------------------
(* Prices *)

calculateTokenCost(tokens, price) == (tokens * price) \div MTok

\* Wrong: reasoning is charged apart, and rounded apart.
calculateCostForModelApart(m, u) ==
    calculateTokenCost(u.prompt, m.inputCost) + calculateTokenCost(u.completion, m.outputCost)
        + calculateTokenCost(u.reasoning, m.outputCost)
        + calculateTokenCost(u.cached, m.cacheCost)

\* calculateCost.  Cached tokens are charged beside the prompt's, of which
\* providers report them as a part.
calculateCostForModel(m, u) ==
    calculateTokenCost(u.prompt, m.inputCost)
        + calculateTokenCost(u.completion + u.reasoning, m.outputCost)
        + calculateTokenCost(u.cached, m.cacheCost)

calculateEstimatedCost(m, prompt, completion) ==
    calculateCostForModel(m, [prompt |-> prompt, completion |-> completion,
                              reasoning |-> 0, cached |-> 0])

calculateCostBreakdown(m, u) ==
    [prompt     |-> calculateTokenCost(u.prompt, m.inputCost),
     completion |-> calculateTokenCost(u.completion, m.outputCost),
     reasoning  |-> calculateTokenCost(u.reasoning, m.outputCost),
     cacheRead  |-> calculateTokenCost(u.cached, m.cacheCost),
     total      |-> calculateTokenCost(u.prompt, m.inputCost)
                      + calculateTokenCost(u.completion + u.reasoning, m.outputCost)
                      + calculateTokenCost(u.cached, m.cacheCost)]

-----------------------------------------------------------------------------
\* findCandidates; Unknown stands for a criterion that is not given.
findCandidates(r, c) ==
    ByCost(SelectSeq(getAllModels(r, c.onlyActive),
                     LAMBDA m : /\ c.provider = Unknown \/ m.provider = c.provider
                                /\ c.minContext = Unknown \/ m.contextWindow >= c.minContext
                                /\ c.maxCost = Unknown \/ m.inputCost <= c.maxCost
                                /\ c.tools => m.supportsTools
                                /\ c.vision => m.supportsVision
                                /\ c.json => m.supportsJsonSchema))
=============================================================================
