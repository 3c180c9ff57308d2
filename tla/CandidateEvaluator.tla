------------------------- MODULE CandidateEvaluator -------------------------
(***************************************************************************)
(* The candidate models of a chat request, best first                      *)
(* (router/cascade/evaluator.ts), from the request that the chat handler   *)
(* makes of a body (worker/router/chat/handler.ts).                        *)
(***************************************************************************)
EXTENDS CapabilityFilter

LOCAL INSTANCE SequencesExt

CONSTANTS
    Registries,     \* bound: the registries tried
    Bodies,         \* bound: the bodies of chat requests tried
    Contexts,       \* bound: the router's options tried
    ModelsPriced,   \* bound: the models whose prices are tried
    Usages          \* bound: the token counts tried

\* Names that ask for any model.
Generic == {"", "auto", "cheapest", "default", "cascade"}

isGenericRoutingKeyword(name) == name \in Generic

\* What the chat handler makes of a body: the limit, under whichever name it
\* came, goes on as maxTokens.
RouteRequestOf(body) ==
    [modelAlias            |-> IF body.model = Unknown THEN "auto" ELSE body.model,
     messages              |-> body.messages,
     tools                 |-> body.tools,
     functions             |-> body.functions,
     tool_choice           |-> body.tool_choice,
     function_call         |-> body.function_call,
     response_format       |-> body.response_format,
     system                |-> 0,
     maxTokens             |-> IF body.max_tokens # Unknown THEN body.max_tokens
                               ELSE IF body.maxTokens # Unknown THEN body.maxTokens
                               ELSE body.max_completion_tokens,
     max_tokens            |-> Unknown,
     max_completion_tokens |-> Unknown,
     estimatedPromptTokens |-> IF body.estimatedPromptTokens # Unknown
                               THEN body.estimatedPromptTokens
                               ELSE IF body.messages # <<>>
                               THEN estimateTokens(body.messages) ELSE Unknown,
     fallbackModels        |-> Unknown]

Accepted(models) == [models |-> models, error |-> "none"]
Refused(error) == [models |-> <<>>, error |-> error]

\* m, unless it is there already or not capable.
AppendCandidate(ms, m, needs) ==
    IF m = Unknown \/ m \in {ms[i] : i \in DOMAIN ms} \/ ~isCapable(m, needs)
    THEN ms ELSE Append(ms, m)

\* Wrong: the rest may name a fallback again.
AppendAll(named, rest) == named \o rest

AppendRemaining(named, rest) ==
    named \o SelectSeq(rest, LAMBDA m : m \notin {named[i] : i \in DOMAIN named})

\* The named model, the request's fallbacks or else the router's, and all
\* others that are capable, by cost.
NamedCandidates(target, r, request, needs, context) ==
    LET names == IF request.fallbackModels # Unknown THEN request.fallbackModels ELSE context.fallbackModels
        first == IF isCapable(target, needs) THEN <<target>> ELSE <<>>
        named == FoldLeft(LAMBDA ms, n : AppendCandidate(ms, resolveModel(r, n, TRUE), needs),
                          first, names)
    IN  AppendRemaining(named, filterRegistry(r, needs, context.sortBy))

\* The models found, or why there are none.
AnswerOf(models, error) == IF models # <<>> THEN Accepted(models) ELSE Refused(error)

\* A request that names a model gets it unless it lacks what is needed.
resolveNamed(target, missing, r, request, needs, context) ==
    IF target = Unknown THEN Refused("ModelNotFound")
    ELSE IF "context_length" \in missing THEN Refused("ContextWindowExceeded")
    ELSE IF missing # {} /\ ~context.allowMismatchEscalation THEN Refused("CapabilityMismatch")
    ELSE AnswerOf(NamedCandidates(target, r, request, needs, context), "CapabilityMismatch")

resolveCandidates(r, request, context) ==
    LET needs  == extractRequirements(request)
        target == resolveModel(r, request.modelAlias, TRUE)
    IN  IF isGenericRoutingKeyword(request.modelAlias)
        THEN AnswerOf(filterRegistry(r, needs, context.sortBy),
                      IF getCapabilityNames(needs) # {} THEN "CapabilityMismatch"
                                                        ELSE "NoAvailableProvider")
        ELSE resolveNamed(target, missingCapabilities(target, needs), r, request, needs, context)

selectPrimaryCandidate(ms) == ms[1]

selectFallbackCandidates(ms, max) ==
    SubSeq(ms, 2, IF Len(ms) < 1 + max THEN Len(ms) ELSE 1 + max)

-----------------------------------------------------------------------------
\* What a body needs, said of each model on its own.
Serves(m, body) ==
    LET request == RouteRequestOf(body) IN
    /\ m.isActive
    /\ body.tools # <<>> \/ body.functions # <<>> => m.supportsTools
    /\ NeedsVision(request) => m.supportsVision
    /\ body.response_format \in {"json_object", "json_schema"} => m.supportsJsonSchema
    /\ PromptTokens(request) <= m.contextWindow

Elements(s) == {s[i] : i \in DOMAIN s}

\* The answer out lists each of the models that are able, once, the target and
\* then the fallbacks first, the others by price; or refuses the request.
IsRanking(out, able, named, target, fallbacks) ==
    LET ms   == out.models
        lead == IF named THEN 1 + Len(fallbacks) ELSE 0
    IN  /\ out.error = "none" <=> IF named THEN target \in able ELSE able # {}
        /\ out.error = "none" => /\ Elements(ms) = able
                                 /\ Cardinality(able) = Len(ms)
                                 /\ named => selectPrimaryCandidate(ms) = target
        /\ \A i, j \in DOMAIN ms : lead < i /\ i < j => ms[i].inputCost <= ms[j].inputCost

\* Whichever models are registered and whatever the request needs, the list is
\* each model that can serve it, once, the named one first and then fallbacks,
\* the others by price; a request is refused exactly if the model that it names
\* cannot serve it, or if it names none and none can.
RankedRight ==
    \A r \in Registries, body \in Bodies, context \in Contexts :
        LET request == RouteRequestOf(body) IN
        IsRanking(resolveCandidates(r, request, context),
                  {m \in Elements(r.models) : Serves(m, body)},
                  ~isGenericRoutingKeyword(request.modelAlias),
                  resolveModel(r, request.modelAlias, TRUE), context.fallbackModels)

\* The map of aliases and the look-up of one name agree, unless an explicit
\* alias names a model that is not active; and a model that is unregistered
\* leaves no name that stands for it and takes no other name with it.
NamesAgree ==
    \A r \in Registries :
        LET map == getAliasMap(r, TRUE) IN
        /\ \A a \in DOMAIN map :
              \/ hasModel(r, a)
              \/ IdOf(resolveModel(r, a, TRUE)) = map[a]
              \/ a \in DOMAIN r.overrides /\ resolveModel(r, a, TRUE) = Unknown
        /\ \A m \in Elements(r.models), a \in DOMAIN map :
              LET rest == unregisterModel(r, m.id)
                  is   == resolveModel(rest, a, TRUE) IN
              IF resolveAlias(r, a) # m.id THEN is = resolveModel(r, a, TRUE)
              ELSE IF \E n \in Elements(rest.models) : n.isActive /\ a \in n.logicalAliases
              THEN is = getCheapestModel(CalledBy(getAllModels(rest, TRUE), a))
              ELSE is = Unknown

\* A request's price is that of its parts, of which each is rounded down, short
\* of one micro-dollar at most; splitting a request in two never costs more.
CostsAddUp ==
    \A m \in Elements(ModelsPriced), u, v \in Usages :
        LET parts == calculateCostBreakdown(m, u)
            both == [prompt     |-> u.prompt + v.prompt,
                     completion |-> u.completion + v.completion,
                     reasoning  |-> u.reasoning + v.reasoning,
                     cached     |-> u.cached + v.cached] IN
        /\ parts.total = calculateCostForModel(m, u)
        /\ parts.total - (parts.prompt + parts.completion + parts.reasoning + parts.cacheRead) \in 0..1
        /\ calculateCostForModel(m, u) + calculateCostForModel(m, v) <= calculateCostForModel(m, both)
=============================================================================
