-------------------------------- MODULE SSE ---------------------------------
(***************************************************************************)
(* How the answer of a provider that streams is read on its way to the     *)
(* client (proxy/sse): SSEStreamTransformer cuts the text into lines and   *)
(* lines into events, and gathers from the events' JSON what the provider  *)
(* says of the tokens used, of which the cost is made.                     *)
(*                                                                         *)
(* A text is a sequence of symbols: CR, LF, SP, the field names with their *)
(* colon, the colon of a comment, and values.  The decoder that joins the  *)
(* bytes of a character cut in two, and the clock readings, are left out.  *)
(* A field that is undefined is {}, one with the value v is {v}.           *)
(***************************************************************************)
EXTENDS Naturals, Sequences

LOCAL INSTANCE SequencesExt

CONSTANTS
    Json,      \* the payloads: what each symbol that is JSON parses to
    Numbers    \* the symbols that parseInt takes

OrElse(new, old) == IF new # {} THEN new ELSE old

-----------------------------------------------------------------------------
(* extractUsageFromPayload.  A payload is a function from the objects that *)
(* it has to their fields: "usage", "x_groq", "message" and "meta" stand   *)
(* for what is nested in them, "root" for the payload's own numbers.       *)

Counts == {"promptTokens", "completionTokens", "totalTokens", "cachedTokens",
           "reasoningTokens"}

\* The first of the named fields that the object has.
FirstOf(object, names) ==
    LET has == {i \in DOMAIN names : names[i] \in DOMAIN object} IN
    IF has = {} THEN {}
    ELSE {object[names[CHOOSE i \in has : \A j \in has : i <= j]]}

ObjectAt(payload, name) == IF name \in DOMAIN payload THEN payload[name] ELSE <<>>

Tell(prompt, completion, total, cached, reasoning) ==
    [promptTokens |-> prompt, completionTokens |-> completion, totalTokens |-> total,
     cachedTokens |-> cached, reasoningTokens |-> reasoning]

\* A number that may be among an object's details; where it has details, it is
\* looked for nowhere else.
Detail(object, details, name) ==
    IF details \in DOMAIN object THEN FirstOf(object[details], <<name>>)
    ELSE FirstOf(object, <<name>>)

standardUsage(payload) ==
    LET u == IF "usage" \in DOMAIN payload THEN payload["usage"] ELSE ObjectAt(payload, "x_groq")
    IN Tell(FirstOf(u, <<"prompt_tokens", "promptTokens", "input_tokens">>),
            FirstOf(u, <<"completion_tokens", "completionTokens", "output_tokens">>),
            FirstOf(u, <<"total_tokens", "totalTokens">>),
            Detail(u, "prompt_tokens_details", "cached_tokens"),
            Detail(u, "completion_tokens_details", "reasoning_tokens"))

geminiUsage(payload) ==
    LET u == ObjectAt(payload, "usageMetadata") IN
    Tell(FirstOf(u, <<"promptTokenCount", "prompt_token_count">>),
         FirstOf(u, <<"candidatesTokenCount", "candidates_token_count">>),
         FirstOf(u, <<"totalTokenCount", "total_token_count">>),
         FirstOf(u, <<"cachedContentTokenCount", "cached_content_token_count">>),
         FirstOf(u, <<"thoughtsTokenCount", "thoughts_token_count">>))

anthropicUsage(payload) ==
    LET u == ObjectAt(payload, "message") IN
    Tell(FirstOf(u, <<"input_tokens">>), FirstOf(u, <<"output_tokens">>), {},
         FirstOf(u, <<"cache_read_input_tokens">>), {})

cohereUsage(payload) ==
    LET u == IF "meta.tokens" \in DOMAIN payload THEN payload["meta.tokens"]
             ELSE ObjectAt(payload, "meta.billed_units")
    IN Tell(FirstOf(u, <<"input_tokens">>), FirstOf(u, <<"output_tokens">>), {}, {}, {})

bedrockUsage(payload) ==
    LET u == ObjectAt(payload, "amazon-bedrock-invocationMetrics") IN
    Tell(FirstOf(u, <<"inputTokenCount">>), FirstOf(u, <<"outputTokenCount">>), {}, {}, {})

rootUsage(payload) ==
    LET u == ObjectAt(payload, "root") IN
    Tell(FirstOf(u, <<"prompt_tokens">>), FirstOf(u, <<"completion_tokens">>),
         FirstOf(u, <<"total_tokens">>), {}, {})

Later(old, new) == [c \in Counts |-> OrElse(new[c], old[c])]

\* Cached or reasoning tokens alone are no usage.
IsUsage(u) == \E c \in {"promptTokens", "completionTokens", "totalTokens"} : u[c] # {}

\* The payload's own numbers count if no object of it had any.
WithRoot(u, payload) == IF IsUsage(u) THEN u ELSE Later(u, rootUsage(payload))

\* Each format adds to those before it, and replaces what they said.  {} stands
\* for null.
extractUsageFromPayload(payload) ==
    LET inObjects == FoldLeft(Later, standardUsage(payload),
                              << geminiUsage(payload), anthropicUsage(payload),
                                 cohereUsage(payload), bedrockUsage(payload) >>)
    IN {u \in {WithRoot(inObjects, payload)} : IsUsage(u)}

-----------------------------------------------------------------------------
(* The transformer.                                                        *)

\* mode is "passthrough" or "events"; out is what the client has been sent.
NewTransformer(mode) ==
    [mode |-> mode, out |-> <<>>, buffer |-> <<>>, data |-> <<>>, raw |-> <<>>,
     type |-> {}, id |-> {}, retry |-> {}, events |-> <<>>,
     counts |-> [c \in Counts |-> {}], usage |-> {},
     model |-> {}, systemFingerprint |-> {}, finishReason |-> {}]

\* applyUsageUpdate: a count that was told stands until it is told again; the
\* total is the update's own or the sum of the two that are known.
applyUsageUpdate(t, update) ==
    LET known == Later(t.counts, update)
        Number(c) == IF known[c] = {} THEN 0 ELSE CHOOSE n \in known[c] : TRUE
        sum == Number("promptTokens") + Number("completionTokens")
    IN [t EXCEPT !.counts = known,
                 !.usage = {[c \in Counts |->
                     IF c # "totalTokens" THEN Number(c)
                     ELSE IF update[c] = {} THEN sum ELSE CHOOSE n \in update[c] : TRUE]}]

\* The event's data without the spaces around it.
Payload(event) ==
    LET text == SelectSeq(FlattenSeq(event.data), LAMBDA x : x # "SP") IN
    IF Len(text) = 1 /\ text[1] \in DOMAIN Json THEN {Json[text[1]]} ELSE {}

\* The first model and fingerprint that were named, the last reason.
Named(t, names) ==
    [t EXCEPT !.model = OrElse(@, FirstOf(names, <<"model">>)),
              !.systemFingerprint = OrElse(@, FirstOf(names, <<"system_fingerprint">>)),
              !.finishReason = OrElse(FirstOf(names, <<"finish_reason">>), @)]

applyAnyUpdate(t, updates) ==
    IF updates = {} THEN t ELSE applyUsageUpdate(t, CHOOSE u \in updates : TRUE)

Inspected(t, json) ==
    applyAnyUpdate(Named(t, ObjectAt(json, "names")), extractUsageFromPayload(json))

inspectEventPayload(t, event) ==
    IF Payload(event) = {} THEN t ELSE Inspected(t, CHOOSE p \in Payload(event) : TRUE)

FieldLine(name, values) ==
    IF values = {} THEN <<>> ELSE <<name, "SP">> \o (CHOOSE v \in values : TRUE) \o <<"LF">>

\* What the client is sent for an event when it is sent events.
sseFormatted(event) ==
    FieldLine("event:", event.event) \o FieldLine("id:", event.id)
        \o FieldLine("retry:", {<<n>> : n \in event.retry})
        \o FlattenSeq([i \in DOMAIN event.data |-> FieldLine("data:", {event.data[i]})])
        \o <<"LF">>

\* A retry alone makes no event: it waits for the next.
Pending(t) == t.data # <<>> \/ t.type # {} \/ t.id # {}

\* dispatchEvent.  The lines of the data are joined, none as one empty line.
dispatchEvent(t) ==
    LET event == [event |-> t.type, id |-> t.id, retry |-> t.retry, raw |-> t.raw,
                  data |-> IF t.data = <<>> THEN << <<>> >> ELSE t.data]
    IN inspectEventPayload(
           [t EXCEPT !.data = <<>>, !.raw = <<>>, !.type = {}, !.id = {}, !.retry = {},
                     !.events = Append(@, event),
                     !.out = IF t.mode = "events" THEN @ \o sseFormatted(event) ELSE @],
           event)

dispatchPending(t) == IF Pending(t) THEN dispatchEvent(t) ELSE t

\* A field's value, less one space in front.
FieldValue(line) ==
    IF Len(line) > 1 /\ line[2] = "SP" THEN SubSeq(line, 3, Len(line)) ELSE Tail(line)

\* parseInt of a retry field's value; NaN is {}.
RetryOf(line) ==
    LET value == SelectSeq(Tail(line), LAMBDA x : x # "SP") IN
    IF value # <<>> /\ value[1] \in Numbers THEN {value[1]} ELSE {}

\* processLine: a comment and a field of another name are kept in raw alone.
processLine(t, line) ==
    LET kept == [t EXCEPT !.raw = Append(@, line)] IN
    CASE line = <<>> -> dispatchPending(t)
      [] line = <<"data">> -> [kept EXCEPT !.data = Append(@, <<>>)]
      [] line # <<>> /\ line[1] = "data:" -> [kept EXCEPT !.data = Append(@, FieldValue(line))]
      [] line # <<>> /\ line[1] = "event:" -> [kept EXCEPT !.type = {FieldValue(line)}]
      [] line # <<>> /\ line[1] = "id:" -> [kept EXCEPT !.id = {FieldValue(line)}]
      [] line # <<>> /\ line[1] = "retry:" -> [kept EXCEPT !.retry = OrElse(RetryOf(line), @)]
      [] OTHER -> kept

\* Wrong: a CR at the end of what has arrived ends a line at once.
findNextNewlineIndexAtOnce(buffer, isFlushing) ==
    LET ends == {i \in DOMAIN buffer : buffer[i] \in {"CR", "LF"}} IN
    IF ends = {} THEN 0 ELSE CHOOSE i \in ends : \A j \in ends : i <= j

\* Where the first line ends, 0 for nowhere.  A CR at the end of what has
\* arrived may be the half of a CR LF, and waits.
findNextNewlineIndex(buffer, isFlushing) ==
    LET ends == {i \in DOMAIN buffer : buffer[i] \in {"CR", "LF"}}
        first == CHOOSE i \in ends : \A j \in ends : i <= j
    IN IF \/ ends = {}
          \/ buffer[first] = "CR" /\ first = Len(buffer) /\ ~isFlushing
       THEN 0 ELSE first

\* The body of parseBuffer's loop, which ends where no line does.
takeLine(t, isFlushing) ==
    LET n == findNextNewlineIndex(t.buffer, isFlushing)
        isCRLF == IsPrefix(<<"CR", "LF">>, SubSeq(t.buffer, n, Len(t.buffer)))
        rest == SubSeq(t.buffer, n + (IF isCRLF THEN 2 ELSE 1), Len(t.buffer))
    IN IF n = 0 THEN t
       ELSE processLine([t EXCEPT !.buffer = rest], SubSeq(t.buffer, 1, n - 1))

\* There are no more lines than symbols.
parseBuffer(t, isFlushing) ==
    FoldLeft(LAMBDA u, symbol : takeLine(u, isFlushing), t, t.buffer)

handleTransform(t, chunk) ==
    parseBuffer([t EXCEPT !.buffer = @ \o chunk,
                          !.out = IF t.mode = "passthrough" THEN @ \o chunk ELSE @], FALSE)

\* handleFlush: what is left is a line, and an event that no empty line ended.
lastLine(t) ==
    IF t.buffer = <<>> THEN t ELSE processLine([t EXCEPT !.buffer = <<>>], t.buffer)

handleFlush(t) == dispatchPending(lastLine(parseBuffer(t, TRUE)))

\* The transformer after a stream that came in these chunks.
Streamed(mode, chunks) == handleFlush(FoldLeft(handleTransform, NewTransformer(mode), chunks))

-----------------------------------------------------------------------------
(* What a reader may rely on.                                              *)

\* A text cut after each of these positions.
Chunks(text, positions) ==
    LET at == SetToSortSeq(positions \cup {Len(text)}, <) IN
    [i \in DOMAIN at |-> SubSeq(text, IF i = 1 THEN 1 ELSE at[i-1] + 1, at[i])]

\* Wherever a text is cut, once or twice, the same events, usage and names are
\* read of it, and a client that is passed the text gets it whole.
CutsDoNotMatter(text) ==
    \A mode \in {"passthrough", "events"} :
        LET whole == Streamed(mode, <<text>>) IN
        /\ \A m, n \in 1..Len(text) - 1 :
               m <= n => Streamed(mode, Chunks(text, {m, n})) = whole
        /\ mode = "passthrough" => whole.out = text

\* A client that is sent events reads those that the provider sent.
EventsSurvive(text) ==
    LET sent == Streamed("events", <<text>>)
        Read(events) == [i \in DOMAIN events |-> [events[i] EXCEPT !.raw = <<>>]]
    IN Read(Streamed("passthrough", <<sent.out>>).events) = Read(sent.events)

\* After a stream of payloads, of which each tells the counts in told, the
\* usage is what was last told of each count, and what was never told is 0; the
\* total is the last payload's, if that told one.
UsageIsLastTold(payloads, told) ==
    LET sent == FlattenSeq([i \in DOMAIN payloads |-> <<"data:", payloads[i], "LF", "LF">>])
        tells(i, c) == told[payloads[i]][c] # {}
        Latest(S) == CHOOSE i \in S : \A j \in S : j <= i
        Final(c) == LET by == {i \in DOMAIN payloads : tells(i, c)} IN
                    IF by = {} THEN {0} ELSE told[payloads[Latest(by)]][c]
        updates == {i \in DOMAIN payloads : \E c \in Counts : tells(i, c)}
        usage == Streamed("passthrough", <<sent>>).usage
    IN IF updates = {} THEN usage = {}
       ELSE \E u \in usage :
                /\ \A c \in Counts \ {"totalTokens"} : {u[c]} = Final(c)
                /\ {u["totalTokens"]} =
                       IF tells(Latest(updates), "totalTokens") THEN Final("totalTokens")
                       ELSE {u["promptTokens"] + u["completionTokens"]}

=============================================================================
