--------------------------- MODULE CostCalculator ---------------------------
(***************************************************************************)
(* The proxy's own prices (proxy/cost_calculator.ts), a table beside the   *)
(* model registry's: how a price is found for a model's name, what tokens  *)
(* cost, and dollars written and read.                                     *)
(*                                                                         *)
(* A name is a sequence of pieces, in lower case and trimmed; "/" is one,  *)
(* and a piece is no longer than what two names of the table share.  Of    *)
(* numbers for dollars, which toFixed turns into text first, only text is  *)
(* modelled: a sign, a whole part and decimals.                            *)
(***************************************************************************)
EXTENDS Integers, Sequences

LOCAL INSTANCE SequencesExt
LOCAL INSTANCE Functions
LOCAL INSTANCE TLC

MICRODOLLARS_PER_USD == 1000000
TOKENS_PER_MILLION == 1000000

\* Micro-dollars per million tokens.
ModelPricing(prompt, completion) == [prompt |-> prompt, completion |-> completion]

DEFAULT_MODEL_PRICING == <<
    << <<"gpt-4", "o">>,            ModelPricing(2500000, 10000000) >>,
    << <<"gpt-4", "o", "-mini">>,   ModelPricing(150000, 600000) >>,
    << <<"gpt-4", "-turbo">>,       ModelPricing(10000000, 30000000) >>,
    << <<"gpt-4">>,                 ModelPricing(30000000, 60000000) >>,
    << <<"gpt-3.5-turbo">>,         ModelPricing(500000, 1500000) >>,
    << <<"o1">>,                    ModelPricing(15000000, 60000000) >>,
    << <<"o1", "-mini">>,           ModelPricing(3000000, 12000000) >>,
    << <<"text-embedding-3-small">>, ModelPricing(20000, 0) >>,
    << <<"text-embedding-3-large">>, ModelPricing(130000, 0) >>,
    << <<"claude-3-5-sonnet">>,     ModelPricing(3000000, 15000000) >>,
    << <<"claude-3-5-haiku">>,      ModelPricing(800000, 4000000) >>,
    << <<"claude-3-opus">>,         ModelPricing(15000000, 75000000) >>,
    << <<"claude-3-sonnet">>,       ModelPricing(3000000, 15000000) >>,
    << <<"claude-3-haiku">>,        ModelPricing(250000, 1250000) >>,
    << <<"default">>,               ModelPricing(1000000, 3000000) >> >>

Listed == {DEFAULT_MODEL_PRICING[i][1] : i \in DOMAIN DEFAULT_MODEL_PRICING}

PriceAt(i) == DEFAULT_MODEL_PRICING[i][2]

\* customModelPricing: a function from names to prices.
registerModelPricing(custom, model, pricing) == (model :> pricing) @@ custom

clearCustomModelPricing == <<>>

\* Without the provider before the first slash.
normalizeModelName(model) ==
    LET slashes == {i \in DOMAIN model : model[i] = "/"} IN
    IF slashes = {} THEN model
    ELSE SubSeq(model, 1 + CHOOSE i \in slashes : \A j \in slashes : i <= j, Len(model))

\* Wrong: a name is looked for by its beginning only.
getModelPricingByPrefix(custom, model) ==
    LET name == normalizeModelName(model)
        begins == {i \in DOMAIN DEFAULT_MODEL_PRICING :
                       IsPrefix(DEFAULT_MODEL_PRICING[i][1], name)}
    IN IF name \in DOMAIN custom THEN custom[name]
       ELSE PriceAt(IF begins = {} THEN Len(DEFAULT_MODEL_PRICING)
                    ELSE CHOOSE i \in begins : \A j \in begins : i <= j)

\* The custom price, the listed one, that of the first in the table with which
\* the name begins, or the default.
getModelPricing(custom, model) ==
    LET name == normalizeModelName(model)
        same == {i \in DOMAIN DEFAULT_MODEL_PRICING : DEFAULT_MODEL_PRICING[i][1] = name}
        begins == {i \in DOMAIN DEFAULT_MODEL_PRICING :
                       /\ DEFAULT_MODEL_PRICING[i][1] # <<"default">>
                       /\ IsPrefix(DEFAULT_MODEL_PRICING[i][1], name)}
        found == IF same # {} THEN same
                 ELSE IF begins # {} THEN begins ELSE {Len(DEFAULT_MODEL_PRICING)}
    IN IF name \in DOMAIN custom THEN custom[name]
       ELSE PriceAt(CHOOSE i \in found : \A j \in found : i <= j)

calculateTokenCost(tokens, ratePerMillion, roundUp) ==
    IF tokens <= 0 \/ ratePerMillion <= 0 THEN 0
    ELSE (tokens * ratePerMillion + (IF roundUp THEN TOKENS_PER_MILLION - 1 ELSE 0))
             \div TOKENS_PER_MILLION

calculateCostBreakdown(custom, model, usage, roundUp) ==
    LET pricing == getModelPricing(custom, model)
        prompt == calculateTokenCost(usage.prompt, pricing.prompt, roundUp)
        completion == calculateTokenCost(usage.completion, pricing.completion, roundUp)
    IN [prompt |-> prompt, completion |-> completion, total |-> prompt + completion]

calculateCost(custom, model, usage, roundUp) ==
    calculateCostBreakdown(custom, model, usage, roundUp).total

\* usdToMicrodollars: decimals beyond the sixth are cut off.
usdToMicrodollars(usd) ==
    LET digit(i) == IF i \in DOMAIN usd.decimals THEN usd.decimals[i] ELSE 0
        fraction == FoldLeft(LAMBDA n, i : 10 * n + digit(i), 0, <<1, 2, 3, 4, 5, 6>>)
        amount == usd.whole * MICRODOLLARS_PER_USD + fraction
    IN IF usd.negative THEN -amount ELSE amount

\* microdollarsToUsdString without its dollar sign: zeros at the end go, down
\* to minDecimals.
microdollarsToUsdString(microdollars, minDecimals) ==
    LET amount == IF microdollars < 0 THEN -microdollars ELSE microdollars
        fraction == amount % MICRODOLLARS_PER_USD
        digits == [i \in 1..6 |-> (fraction \div (10 ^ (6 - i))) % 10]
        \* how many must be kept, at least
        needed == {n \in 0..6 : n >= minDecimals /\ \A i \in n+1..6 : digits[i] = 0}
        kept == IF minDecimals >= 6 THEN 6
                ELSE CHOOSE n \in needed : \A m \in needed : n <= m
    IN [negative |-> microdollars < 0, whole |-> amount \div MICRODOLLARS_PER_USD,
        decimals |-> SubSeq(digits, 1, kept)]

-----------------------------------------------------------------------------
(* What the prices promise.                                                *)

\* A listed name has its own price, also where another listed name begins it,
\* whatever provider stands before it; a price of its own goes before the
\* table's; and every name has a price.
PriceFound(custom, model, provider) ==
    LET name == normalizeModelName(model) IN
    /\ \A i \in DOMAIN DEFAULT_MODEL_PRICING :
           DEFAULT_MODEL_PRICING[i][1] = name /\ name \notin DOMAIN custom
               => getModelPricing(custom, model) = PriceAt(i)
    /\ "/" \notin Range(name) =>
           getModelPricing(custom, <<provider, "/">> \o name) = getModelPricing(custom, name)
    /\ LET own == registerModelPricing(custom, name, ModelPricing(7, 9)) IN
       /\ getModelPricing(own, model) = ModelPricing(7, 9)
       /\ getModelPricing(clearCustomModelPricing, model) # ModelPricing(7, 9)

\* Rounded up, nothing is given away and less than a micro-dollar of each part
\* is taken more; rounded down, the reverse; the total is that of the parts.
CostIsRounded(custom, model, usage) ==
    LET pricing == getModelPricing(custom, model)
        exact == usage.prompt * pricing.prompt + usage.completion * pricing.completion
        up == TOKENS_PER_MILLION * calculateCost(custom, model, usage, TRUE)
        down == TOKENS_PER_MILLION * calculateCost(custom, model, usage, FALSE)
    IN /\ exact <= up /\ up < exact + 2 * TOKENS_PER_MILLION
       /\ down <= exact /\ exact < down + 2 * TOKENS_PER_MILLION

\* An amount that is written and read again is the same.
DollarsSurvive(microdollars, minDecimals) ==
    usdToMicrodollars(microdollarsToUsdString(microdollars, minDecimals)) = microdollars

=============================================================================
