----------------------------- MODULE MCCascade -----------------------------
(* Two requests over the candidates that the evaluator finds among three     *)
(* models for a request that names none: two models of the same provider, as *)
(* fallbacks often are, and one of another, of which two are tried.  Each    *)
(* provider has one key.                                                     *)
(*                                                                           *)
(* The evaluator itself is checked over the whole catalogue, as it is and    *)
(* changed: a model that is not active, one without tools, a cheaper one     *)
(* registered again, an alias of its own, a model gone.                      *)
(*                                                                           *)
(* Streams are read from all texts of up to five symbols, and two real ones, *)
(* wherever they are cut, and from up to two payloads in the formats of the  *)
(* providers; both tables of prices are asked for the same names.  The key   *)
(* selector is asked for one of two or three keys, whatever their breakers   *)
(* and limiters say.                                                         *)
EXTENDS Cascade, CandidateEvaluator, ModelCatalog, SSE, TLC

LOCAL INSTANCE SequencesExt

Prices == INSTANCE CostCalculator

MCIdOrder == <<
    "claude-3-5-haiku", "claude-3-5-sonnet", "deepseek-chat",
    "deepseek/deepseek-r1-distill-llama-70b", "gemini-1.5-pro", "gemini-2.0-flash",
    "gemini-2.5-flash", "gemini-3.1-pro-preview", "gemini-3.5-flash",
    "gemini-3.5-flash-lite", "gemini-3.8-flash", "gpt-4o", "gpt-4o-mini",
    "llama-3.3-70b-versatile", "openai/gpt-oss-120b", "openai/gpt-oss-20b",
    "qwen/qwen3.6-27b", "qwen/qwen3.8-27b" >>

Catalogue == NewRegistry(ALL_MODEL_DEFINITIONS, <<>>)

Changed(id, change) == registerModel(Catalogue, change @@ getModel(Catalogue, id))

MCRegistries == {
    Catalogue,
    Changed("gemini-3.5-flash-lite", [isActive |-> FALSE]),
    Changed("gemini-3.5-flash-lite", [supportsTools |-> FALSE]),
    Changed("claude-3-5-haiku", [inputCost |-> 1]),
    registerAlias(Catalogue, "smart-fast", "claude-3-5-haiku"),
    registerAlias(Changed("gpt-4o", [isActive |-> FALSE]), "smart-fast", "gpt-4o"),
    unregisterModel(Catalogue, "gemini-2.0-flash") }

Text(length) == [role |-> 4, parts |-> Unknown, text |-> length, inlineImage |-> FALSE,
                 images |-> FALSE, tool_calls |-> <<>>]
Picture == [Text(0) EXCEPT !.parts = << [type |-> "text", length |-> 8], [type |-> "image", length |-> 0] >>]

MCBodies == [
    model : {Unknown, "cheapest", "smart-fast", "vision", "deepseek-chat", "gpt-4o", "unheard-of"},
    messages : { <<Text(12)>>, <<Text(0), Picture>> },
    tools : { <<>>, <<40>> }, functions : { <<>> },
    tool_choice : {Unknown}, function_call : {Unknown},
    response_format : {Unknown, "json_object"},
    max_tokens : {Unknown, 9000}, maxTokens : {Unknown}, max_completion_tokens : {Unknown},
    estimatedPromptTokens : {Unknown, 64000, 64001, 2048 * K, 2048 * K + 1} ]

MCContexts == {
    [fallbackModels |-> <<>>, sortBy |-> "cost-asc", allowMismatchEscalation |-> FALSE],
    [fallbackModels |-> <<"economy", "gpt-4o">>, sortBy |-> "cost-asc",
     allowMismatchEscalation |-> FALSE] }

MCUsages == [prompt : {0, 1, 9}, completion : {0, 3}, reasoning : {0, 1, 3}, cached : {0, 7}]

MCModelsPriced == ALL_MODEL_DEFINITIONS

Few == NewRegistry(SubSeq(FREE_TIER_MODEL_DEFINITIONS, 1, 2) \o <<DEFAULT_MODEL_DEFINITIONS[8]>>, <<>>)
Plain == [b \in {"model", "response_format", "tool_choice", "function_call", "max_tokens",
                 "maxTokens", "max_completion_tokens", "estimatedPromptTokens"} |-> Unknown]
         @@ [b \in {"tools", "functions"} |-> <<>>] @@ [messages |-> <<Text(12)>>]

Found ==
    resolveCandidates(Few, RouteRequestOf(Plain),
        [fallbackModels |-> <<>>, sortBy |-> "cost-asc", allowMismatchEscalation |-> FALSE]).models
ProvidersFound == [i \in DOMAIN Found |-> Found[i].provider]
MCCandidates == ProvidersFound

-----------------------------------------------------------------------------
\* What a provider says in each format, and the counts that it means.
MCJson == [
    openai    |-> [usage |-> [prompt_tokens |-> 15, completion_tokens |-> 35, total_tokens |-> 50,
                              prompt_tokens_details |-> [cached_tokens |-> 5],
                              completion_tokens_details |-> [reasoning_tokens |-> 10]],
                   names |-> [model |-> "gpt-4o"]],
    short     |-> [usage |-> [promptTokens |-> 4, completionTokens |-> 6]],
    groq      |-> [x_groq |-> [prompt_tokens |-> 22],
                   names |-> [model |-> "llama", finish_reason |-> "stop"]],
    gemini    |-> [usageMetadata |-> [promptTokenCount |-> 100, candidatesTokenCount |-> 250,
                                      totalTokenCount |-> 360, thoughtsTokenCount |-> 10]],
    start     |-> [message |-> [input_tokens |-> 30, output_tokens |-> 1,
                                cache_read_input_tokens |-> 3]],
    delta     |-> [usage |-> [output_tokens |-> 40], names |-> [finish_reason |-> "length"]],
    billed    |-> ("meta.billed_units" :> [input_tokens |-> 7, output_tokens |-> 8]),
    bedrock   |-> ("amazon-bedrock-invocationMetrics" :>
                      [inputTokenCount |-> 12, outputTokenCount |-> 13]),
    rooted    |-> [root |-> [prompt_tokens |-> 10, completion_tokens |-> 20]],
    cachedAlone |-> [usage |-> [cached_tokens |-> 2]],
    text      |-> [names |-> [model |-> "gpt-4o-mini"]] ]

Told == [
    openai |-> Tell({15}, {35}, {50}, {5}, {10}), short |-> Tell({4}, {6}, {}, {}, {}),
    groq |-> Tell({22}, {}, {}, {}, {}), gemini |-> Tell({100}, {250}, {360}, {}, {10}),
    start |-> Tell({30}, {1}, {}, {3}, {}), delta |-> Tell({}, {40}, {}, {}, {}),
    billed |-> Tell({7}, {8}, {}, {}, {}), bedrock |-> Tell({12}, {13}, {}, {}, {}),
    rooted |-> Tell({10}, {20}, {}, {}, {}), cachedAlone |-> Tell({}, {}, {}, {}, {}),
    text |-> Tell({}, {}, {}, {}, {}) ]

MCNumbers == {"3000"}

Texts ==
    SeqOf({"CR", "LF", "data:", "event:", "SP", "openai"}, 4)
    \cup SeqOf({"CR", "LF", "data:", "openai"}, 5) \cup {
        <<"event:", "SP", "start", "CR", "LF", "data:", "start", "CR", "LF", "CR", "LF",
          "data:", "delta", "LF">>,
        <<":", "SP", "hello", "LF", "LF", "retry:", "SP", "3000", "CR", "CR", "id:", "x",
          "LF", "data", "LF", "data:", "LF">> }

\* Wherever a stream is cut, what is read of it is the same, what a client is
\* sent can be read again, and the usage is what the provider told last.
StreamsReadRight ==
    /\ \A text \in Texts : CutsDoNotMatter(text) /\ EventsSurvive(text)
    /\ \A ps \in SeqOf(DOMAIN MCJson, 2) : UsageIsLastTold(ps, Told)

ModelNames == Prices!Listed \cup {
    <<"gpt-4", "o", "-2024-08-06">>, <<"openai", "/", "gpt-4", "o", "-mini">>, <<"o1", "-preview">>,
    <<"openai", "/", "vendor", "/", "o1">>, <<"unheard-of">> }
Customs == {<<>>, (<<"gpt-4">> :> Prices!ModelPricing(1, 2))}
TokensUsed == [prompt : {0, 1, 3, 20}, completion : {0, 1, 7}]

InTable(m) == CASE m.id = "gpt-4o" -> <<"gpt-4", "o">>
                [] m.id = "gpt-4o-mini" -> <<"gpt-4", "o", "-mini">>
                [] OTHER -> <<m.id>>

\* A price is found for every name, rounded within a micro-dollar a part, and
\* is the model registry's where both have the model.
PricesRight ==
    /\ \A custom \in Customs, name \in ModelNames :
           /\ Prices!PriceFound(custom, name, "azure")
           /\ \A tokens \in TokensUsed : Prices!CostIsRounded(custom, name, tokens)
    /\ \A n \in DOMAIN MCModelsPriced, tokens \in TokensUsed :
           LET m == MCModelsPriced[n] IN
           InTable(m) \in Prices!Listed =>
               Prices!calculateCost(<<>>, InTable(m), tokens, FALSE)
                   = calculateEstimatedCost(m, tokens.prompt, tokens.completion)
    /\ \A dollars \in {-2500000, -1, 0, 1, 70, 1000000, 1234560, 1500000}, decimals \in 0..7 :
           Prices!DollarsSurvive(dollars, decimals)

-----------------------------------------------------------------------------
Selector == INSTANCE KeySelector WITH
    FailureThreshold <- 2, CooldownSeconds <- 2, SecondMs <- 2,
    HalfOpenSuccessThreshold <- 1, MsPerSecond <- 2, windowSizeMs <- 3, dayWindowMs <- 8, rpmLimit <- 2, rpdLimit <- 3,
    maxBudgetMicrodollars <- 1, DefaultRetryAfterSeconds <- 5, RRModulus <- 7

BreakerRecord(state, openedAt) ==
    [state |-> state, consecutiveFailures |-> 2, consecutiveSuccesses |-> 0, openedAt |-> openedAt]
LimiterRecord(times, cost) ==
    [entries |-> [i \in DOMAIN times |-> [timestamp |-> times[i], count |-> 1]], totalCost |-> cost]

\* At millisecond 4: breakers that let a key through, hold it back, and are just
\* over; limiters that let it through, with and without a request in the last
\* minute, and stop it for the minute, for the day, and for good.
Breakers == {[BreakerRecord("CLOSED", -1) EXCEPT !.consecutiveFailures = 1],
             BreakerRecord("OPEN", 1), BreakerRecord("OPEN", 3), BreakerRecord("OPEN", 0)}
Limiters == {LimiterRecord(<<>>, 0), LimiterRecord(<<1, 2>>, 1), LimiterRecord(<<3, 4>>, 0),
             LimiterRecord(<<0, 1, 2>>, 0), LimiterRecord(<<0>>, 2)}

KeyOf(id, provider, status, priority) ==
    [id |-> id, provider |-> provider, status |-> status, priority |-> priority,
     rpmLimit |-> 2, circuitOpenUntil |-> 4 + 3 * priority]
SelectorOf(keys, breakers, limiters, guarded, inMemory) ==
    [keys |-> keys, breakers |-> breakers, limiters |-> limiters, guarded |-> guarded,
     inMemory |-> inMemory, usage |-> [id \in DOMAIN keys |-> id % 2],
     index |-> [p \in {"p", "q"} |-> 3], now |-> 4]

TwoKeys == {
    SelectorOf(<<KeyOf(1, "p", "active", 0), KeyOf(2, "p", status, 1)>>,
               breakers, limiters, guarded, inMemory) :
        status \in {"active", "disabled"}, breakers \in [1..2 -> Breakers],
        limiters \in [1..2 -> Limiters], guarded \in BOOLEAN, inMemory \in {{1}, {1, 2}} }
ThreeKeys == {
    SelectorOf([id \in 1..3 |-> KeyOf(id, IF id = 3 THEN third ELSE "p", "active", priority[id])],
               [id \in 1..3 |-> BreakerRecord("OPEN", 0)], limiters, TRUE, 1..3) :
        third \in {"p", "q"}, priority \in [1..3 -> {0, 1}], limiters \in [1..3 -> Limiters] }
SelectOptions == [
    strategy : {"round-robin", "least-used", "priority", "random"}, costMicrodollars : {0},
    candidateKeys : {{}}, fallbackToAnyProvider : BOOLEAN ]

\* Whatever breakers and limiters say of two or three keys, the selector takes
\* the best key there is, or tells when to come again.
KeysSelectedRight ==
    /\ \A s \in TwoKeys :
           /\ \A cost \in {0, 1} : /\ Selector!WaitNeverTooLong(s, "p", cost)
                                   /\ Selector!MemoryIsOptimistic(s, "p", cost)
           /\ Selector!CapacityMeansRoom(s, "p")
    /\ \A s \in ThreeKeys :
           /\ \A options \in SelectOptions : /\ Selector!SelectsTheBest(s, "p", options)
                                             /\ Selector!MemoryChoosesAlike(s, "p", options)
           /\ Selector!AllTakeTurns(s, "p")

-----------------------------------------------------------------------------
\* A request that is routed tries the providers of the models that can serve it
\* in the evaluator's order, and the evaluator finds which models a request may
\* use, in which order, under which names and at which price; what the provider
\* says in a stream of the tokens used is read as it was meant, and priced;
\* and the key pool's selector gives it the best key that is healthy.
SelectionRight ==
    \A r \in Requests : req[r].at # "idle" =>
        /\ candidatesToTry[req[r].i] = Found[req[r].i].provider
        /\ RankedRight /\ NamesAgree /\ CostsAddUp
        /\ StreamsReadRight /\ PricesRight /\ KeysSelectedRight

MCKeysOf == [google |-> {"g1"}, groq |-> {"q1"}]
=============================================================================
