----------------------------- MODULE TokenUsage -----------------------------
(* From the token counts that instrumentation reports to what a trace cost *)
(* (otel_transform.py, tokens/buckets.py, tokens/pricing.py), and back to  *)
(* the parts of that cost (span_cost_details of trace_reader.py): one call *)
(* of a model, its span, and the wrapper span around it.                   *)
(*                                                                         *)
(* Every count is priced by a rate per token. Reported input includes the  *)
(* cached tokens; emitters that leave them out are not modelled.           *)
EXTENDS Integers

CONSTANTS
    MaxTokens, \* _MAX_PLAUSIBLE_TOKENS
    Rate,      \* the prices of the model
    CallCount  \* bound: tokens of each kind in the call

ASSUME TokenAssumption ==
    /\ MaxTokens \in Nat /\ CallCount \in Nat /\ 3 * CallCount <= MaxTokens
    /\ Rate \in [{"input", "read", "write", "hour", "output"} -> Nat]

(* How the counts of the call reach the two spans. *)
Emitters ==
    {"counted",  \* the model's span has them, the wrapper only the text
     "restated", \* both have them, in the attributes of the Vercel AI SDK
     "summed",   \* both have them, the wrapper as an aggregating operation
     "garbled",  \* as "restated", and unusable values in the better attributes
     "manual",   \* set by hand on the model's span
     "doubled",  \* as "counted", and others set by hand
     "result",   \* only the wrapper has them, from a scope that does so
     "text"}     \* nobody has them, both have the text

VARIABLES
    call,    \* the tokens of the call
    emitter,
    stored,  \* the spans in ClickHouse
    row      \* their columns

tokenVars == <<call, emitter, stored, row>>

Spans == {"model", "wrapper"}
Calls == {c \in [{"fresh", "read", "write", "hour", "output"} -> 0 .. CallCount] :
             c.hour <= c.write}

NoCounts == [input |-> 0, output |-> 0, read |-> 0, write |-> 0, hour |-> 0, cost |-> 0]

TokenInit ==
    /\ emitter \in Emitters
    /\ call \in Calls
    /\ emitter = "text" => call.read = 0 /\ call.write = 0
    /\ stored = {}
    /\ row = [x \in Spans |-> NoCounts]

-----------------------------------------------------------------------------
(* The attributes of a span. A value that is missing, negative or beyond   *)
(* MaxTokens is not usable.                                                *)
NotUsable == -1
Unusable  == MaxTokens + 1
Usable(n) == 0 <= n /\ n <= MaxTokens

Nothing == [input |-> NotUsable, output |-> NotUsable, read |-> NotUsable,
            write |-> NotUsable, hour |-> NotUsable]

Reported(c) == [input |-> c.fresh + c.read + c.write, output |-> c.output,
                read |-> c.read, write |-> c.write, hour |-> c.hour]

Other(c) == [Reported(c) EXCEPT !.input = c.fresh, !.output = NotUsable]

(* No key of the Vercel SDK holds the one-hour portion. *)
Vercel(c) == [Reported(c) EXCEPT !.hour = NotUsable]

Attributes(x) ==
    [kind      |-> IF x = "model" THEN "LLM" ELSE "AGENT",
     aggregate |-> emitter = "summed" /\ x = "wrapper",
     skipped   |-> emitter = "result",
     api       |-> CASE \/ emitter \in {"counted", "doubled"} /\ x = "model"
                        \/ emitter = "summed"
                        \/ emitter = "result" /\ x = "wrapper"    -> Reported(call)
                     [] emitter = "garbled" ->
                          [Nothing EXCEPT !.input = Unusable, !.read = Unusable, !.hour = call.hour]
                     [] emitter = "restated" -> [Nothing EXCEPT !.hour = call.hour]
                     [] OTHER -> Nothing,
     ai        |-> IF emitter \in {"restated", "garbled"} THEN Vercel(call) ELSE Nothing,
     manual    |-> IF x = "model" /\ emitter = "manual" THEN Reported(call)
                   ELSE IF x = "model" /\ emitter = "doubled" THEN Other(call)
                   ELSE Nothing]

-----------------------------------------------------------------------------
(* otel_transform.py: the first usable value of the attributes.            *)
First(n, m) == IF Usable(n) THEN n ELSE m

(* The raw totals count on the model's span only.                          *)
RawTotals(s) == s.ai

RawOfModel(s) == IF s.kind = "LLM" THEN s.ai ELSE Nothing

FromInstrumentor(s) ==
    [input  |-> First(s.api.input, RawOfModel(s).input),
     output |-> First(s.api.output, RawOfModel(s).output),
     read   |-> First(s.api.read, s.ai.read),
     write  |-> First(s.api.write, s.ai.write),
     hour   |-> s.api.hour]

Counted(u) == Usable(u.input) \/ Usable(u.output)

(* Counts set by hand are taken whole, when there are no others.           *)
Usage(s) ==
    IF ~s.aggregate /\ ~Counted(FromInstrumentor(s)) /\ Counted(s.manual)
    THEN s.manual
    ELSE FromInstrumentor(s)

IntOrZero(n) == IF Usable(n) THEN n ELSE 0

-----------------------------------------------------------------------------
(* tokens/buckets.py and tokens/pricing.py *)

Floor(n) == IF n > 0 THEN n ELSE 0

Least(n, m) == IF n < m THEN n ELSE m

(* reconcile_cache_write_1h *)
Hour(write, hour) == Least(Floor(hour), Floor(write))

(* normalize_token_usage: disjoint buckets, and the part of the writes     *)
(* that has its own rate.                                                  *)
Buckets(u) ==
    [uncached |-> Floor(Floor(u.input) - Floor(u.read) - Floor(u.write)),
     output |-> Floor(u.output), read |-> Floor(u.read), write |-> Floor(u.write),
     hour |-> Hour(Floor(u.write), u.hour)]

(* _bucket_cost_terms *)
WriteCost(b) ==
    (Floor(b.write) - Hour(b.write, b.hour)) * Rate["write"] + Hour(b.write, b.hour) * Rate["hour"]

CostOf(b) ==
    Floor(b.uncached) * Rate["input"] + Floor(b.read) * Rate["read"]
        + WriteCost(b) + Floor(b.output) * Rate["output"]

(* The columns: input_tokens with the cached ones, output_tokens,          *)
(* usage_details and cost.                                                 *)
RowOf(u) ==
    LET b == Buckets([f \in DOMAIN u |-> IntOrZero(u[f])]) IN
    [input |-> b.uncached + b.read + b.write, output |-> b.output,
     read |-> b.read, write |-> b.write, hour |-> b.hour, cost |-> CostOf(b)]

(* calculate_cost, of the tokens in the text. *)
Estimate(c) ==
    RowOf([Nothing EXCEPT !.input = c.fresh + c.read + c.write, !.output = c.output])

ColumnsOf(s) ==
    IF s.aggregate                              THEN NoCounts
    ELSE IF Counted(Usage(s))                   THEN RowOf(Usage(s))
    ELSE IF s.kind = "LLM" /\ ~s.skipped        THEN Estimate(call)
    ELSE NoCounts

Transform(x) ==
    /\ row' = [row EXCEPT ![x] = ColumnsOf(Attributes(x))]
    /\ stored' = stored \cup {x}
    /\ UNCHANGED <<call, emitter>>

TokenNext == \E x \in Spans : Transform(x)

TokenSpec == TokenInit /\ [][TokenNext]_tokenVars

-----------------------------------------------------------------------------
(* span_cost_details: the buckets again, from the columns. *)
BucketsOfRow(r) ==
    [uncached |-> Floor(r.input - r.read - r.write), output |-> r.output,
     read |-> r.read, write |-> r.write, hour |-> Hour(r.write, r.hour)]

(* What the call costs, each token at its rate. *)
PriceOf(c) ==
    c.fresh * Rate["input"] + c.read * Rate["read"] + (c.write - c.hour) * Rate["write"]
        + c.hour * Rate["hour"] + c.output * Rate["output"]

(* The parts a reader is shown are parts of the stored cost. ("the values  *)
(* sum to the span's stored cost when rates are unchanged",                *)
(* span_cost_details)                                                      *)
BreakdownIsCost == \A x \in stored : CostOf(BucketsOfRow(row[x])) = row[x].cost

(* However the counts were reported, and by however many spans, the trace  *)
(* costs what the call did and has its tokens. ("Each physical token is    *)
(* therefore priced exactly once", tokens/buckets.py; "Adopting them       *)
(* prices every token twice", otel_transform.py)                           *)
TokensPricedOnce ==
    /\ BreakdownIsCost
    /\ stored = Spans =>
        /\ row["model"].cost + row["wrapper"].cost = PriceOf(call)
        /\ row["model"].input + row["wrapper"].input = call.fresh + call.read + call.write
        /\ row["model"].output + row["wrapper"].output = call.output
=============================================================================
