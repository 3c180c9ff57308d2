-------------------------- MODULE CapabilityFilter --------------------------
(***************************************************************************)
(* What a chat request needs of a model (router/capability): the           *)
(* requirements are read off the request, each model is audited against    *)
(* them, and those that pass are sorted.                                   *)
(*                                                                         *)
(* A text is its length in characters; a message is the length of its      *)
(* role, its content (a text, or parts of text and images) and the JSON    *)
(* length of each tool call.  Tools and functions are their JSON lengths.  *)
(***************************************************************************)
EXTENDS ModelRegistry

LOCAL INSTANCE SequencesExt
LOCAL INSTANCE TLC

CONSTANT IdOrder      \* every id, in the order of localeCompare

IdRank(id) == CHOOSE i \in DOMAIN IdOrder : IdOrder[i] = id

-----------------------------------------------------------------------------
(* estimateTokens *)

OneToken == 1
ImageTokens == 800
FrameTokens == 4

\* Four characters a token; what is there counts for one at least.
TextTokens(length) == (length + 3) \div 4
SomeTokens(length) == IF length = 0 THEN OneToken ELSE TextTokens(length)

\* Every element of an array has a frame.
ArrayTokens(elements, Tokens(_)) ==
    FoldLeft(LAMBDA total, e : total + Tokens(e) + FrameTokens, 0, elements)

PartTokens(part) == IF part.type = "image" THEN ImageTokens ELSE SomeTokens(part.length)

\* A message's frame, role, content and tool calls.
MessageTokens(m) ==
    FrameTokens + SomeTokens(m.role)
        + (IF m.parts = Unknown THEN TextTokens(m.text) ELSE ArrayTokens(m.parts, PartTokens))
        + ArrayTokens(m.tool_calls, SomeTokens)

estimateTokens(messages) == ArrayTokens(messages, MessageTokens)

-----------------------------------------------------------------------------
(* extractRequirements *)

\* Tools, functions, or a choice between them that is not "none"; null is one.
NeedsTools(request) ==
    \/ request.tools # <<>> \/ request.functions # <<>>
    \/ request.tool_choice \notin {Unknown, "none"}
    \/ request.function_call \notin {Unknown, "none"}

NeedsVision(request) ==
    \E i \in DOMAIN request.messages :
        LET m == request.messages[i] IN
        \/ m.parts # Unknown /\ \E j \in DOMAIN m.parts : m.parts[j].type = "image"
        \/ m.parts = Unknown /\ m.inlineImage
        \/ m.images

NeedsJsonSchema(request) == request.response_format \in {"json_object", "json_schema"}

\* The first limit that is given.
MaxOutput(request) ==
    CASE request.max_tokens # Unknown /\ request.max_tokens > 0 -> request.max_tokens
      [] ~(request.max_tokens # Unknown /\ request.max_tokens > 0)
            /\ request.max_completion_tokens # Unknown /\ request.max_completion_tokens > 0
                -> request.max_completion_tokens
      [] OTHER -> Unknown

\* The estimate given, or one of messages, system prompt and tools.
PromptTokens(request) ==
    IF request.estimatedPromptTokens # Unknown /\ request.estimatedPromptTokens >= 0
    THEN request.estimatedPromptTokens
    ELSE estimateTokens(request.messages) + TextTokens(request.system)
            + ArrayTokens(request.tools, SomeTokens) + ArrayTokens(request.functions, SomeTokens)

\* Wrong: the prompt alone.
extractPromptOnly(request) ==
    [requiresTools      |-> NeedsTools(request),
     requiresVision     |-> NeedsVision(request),
     requiresJsonSchema |-> NeedsJsonSchema(request),
     minContextLength   |-> IF PromptTokens(request) > 0 THEN PromptTokens(request) ELSE Unknown,
     maxOutputTokens    |-> MaxOutput(request),
     onlyActive         |-> TRUE,
     provider           |-> Unknown,
     maxCost            |-> Unknown]

extractRequirements(request) ==
    LET output == MaxOutput(request)
        total == PromptTokens(request) + (IF output = Unknown THEN 0 ELSE output) IN
    [requiresTools      |-> NeedsTools(request),
     requiresVision     |-> NeedsVision(request),
     requiresJsonSchema |-> NeedsJsonSchema(request),
     minContextLength   |-> IF total > 0 THEN total ELSE Unknown,
     maxOutputTokens    |-> output,
     onlyActive         |-> TRUE,
     provider           |-> Unknown,
     maxCost            |-> Unknown]

-----------------------------------------------------------------------------
(* checkCapabilities *)

\* The names of the requirements that a model does not meet.
missingCapabilities(m, needs) ==
    {c \in {"active", "tools", "vision", "json_schema", "context_length",
            "max_output_tokens", "provider", "cost_limit"} :
        CASE c = "active"         -> needs.onlyActive /\ ~m.isActive
          [] c = "tools"          -> needs.requiresTools /\ ~m.supportsTools
          [] c = "vision"         -> needs.requiresVision /\ ~m.supportsVision
          [] c = "json_schema"    -> needs.requiresJsonSchema /\ ~m.supportsJsonSchema
          [] c = "context_length" -> /\ needs.minContextLength # Unknown
                                     /\ m.contextWindow < needs.minContextLength
          [] c = "max_output_tokens" -> /\ needs.maxOutputTokens # Unknown
                                        /\ m.maxOutputTokens < needs.maxOutputTokens
          [] c = "provider"       -> needs.provider # Unknown /\ m.provider # needs.provider
          [] c = "cost_limit"     -> needs.maxCost # Unknown /\ m.inputCost > needs.maxCost}

isCapable(m, needs) == missingCapabilities(m, needs) = {}

\* getCapabilityNames of the evaluator: what an error says was needed.
getCapabilityNames(needs) ==
    {c \in {"tools", "vision", "json_schema", "context_length", "max_output_tokens"} :
        CASE c = "tools"             -> needs.requiresTools
          [] c = "vision"            -> needs.requiresVision
          [] c = "json_schema"       -> needs.requiresJsonSchema
          [] c = "context_length"    -> needs.minContextLength # Unknown
          [] c = "max_output_tokens" -> needs.maxOutputTokens # Unknown}

-----------------------------------------------------------------------------
(* sortCandidates *)

\* The first pair of unequal numbers decides; the smaller goes first.
SmallerFirst(pairs) ==
    \E i \in DOMAIN pairs : /\ pairs[i][1] < pairs[i][2]
                            /\ \A j \in 1..(i - 1) : pairs[j][1] = pairs[j][2]

CostAscending(m, n) ==
    SmallerFirst(<< <<m.inputCost, n.inputCost>>, <<m.outputCost, n.outputCost>>,
                    <<n.contextWindow, m.contextWindow>>, <<IdRank(m.id), IdRank(n.id)>> >>)

CostDescending(m, n) ==
    SmallerFirst(<< <<n.inputCost, m.inputCost>>, <<IdRank(n.id), IdRank(m.id)>> >>)

ContextDescending(m, n) ==
    SmallerFirst(<< <<n.contextWindow, m.contextWindow>>, <<m.inputCost, n.inputCost>>,
                    <<IdRank(m.id), IdRank(n.id)>> >>)

sortCandidates(ms, strategy) ==
    CASE strategy = "cost-asc"     -> SortSeq(ms, CostAscending)
      [] strategy = "cost-desc"    -> SortSeq(ms, CostDescending)
      [] strategy = "context-desc" -> SortSeq(ms, ContextDescending)
      [] OTHER                     -> ms

\* filterCandidatesOrThrow throws where it is empty.
filterCandidates(ms, needs, sortBy) ==
    sortCandidates(SelectSeq(ms, LAMBDA m : isCapable(m, needs)), sortBy)

selectOptimalCandidate(ms, needs) ==
    LET found == filterCandidates(ms, needs, "cost-asc") IN
    IF found = <<>> THEN Unknown ELSE found[1]

filterRegistry(r, needs, sortBy) ==
    filterCandidates(getAllModels(r, needs.onlyActive), needs, sortBy)
=============================================================================
