--------------------------- MODULE TransformProofs ---------------------------
(***************************************************************************)
(* What transform_otel_to_clickhouse makes of spans: what a call costs,    *)
(* for any prices, any token counts and any emitter; and the record of a   *)
(* trace, for any number of spans in any order.                            *)
(***************************************************************************)
EXTENDS TokenUsage, TraceRecord, TLAPS

(***************************************************************************)
(* The price of a call. Each span's columns are either empty or those of   *)
(* the whole call, so the sums over the two spans and the breakdown of     *)
(* each need no more than knowing which span has them.                     *)
(***************************************************************************)
(* The columns of the span that the call is entered on. *)
CallRow == [input  |-> call.fresh + call.read + call.write, output |-> call.output,
            read   |-> call.read, write |-> call.write, hour |-> call.hour,
            cost   |-> PriceOf(call)]

PricedAt == IF emitter = "result" THEN "wrapper" ELSE "model"

TokenType ==
    /\ call \in Calls
    /\ emitter \in Emitters
    /\ emitter = "text" => call.read = 0 /\ call.write = 0
    /\ stored \subseteq Spans

(* What each step preserves: a column is what the two inputs make of it.   *)
RowsMade ==
    /\ row \in [Spans -> [{"input", "output", "read", "write", "hour", "cost"} -> Int]]
    /\ \A x \in Spans :
          row[x] = IF x \in stored /\ x = PricedAt THEN CallRow ELSE NoCounts

-----------------------------------------------------------------------------
(* The counts of a call are naturals, and the one-hour part one of its     *)
(* writes.                                                                 *)
LEMMA CallCounts ==
    ASSUME call \in Calls
    PROVE  /\ call.fresh \in Nat /\ call.read \in Nat /\ call.write \in Nat
           /\ call.hour \in Nat /\ call.output \in Nat /\ call.hour <= call.write
           /\ Usable(call.fresh + call.read + call.write) /\ Usable(call.fresh)
           /\ Usable(call.read) /\ Usable(call.write) /\ Usable(call.hour)
           /\ Usable(call.output)
  BY TokenAssumption DEF Calls, Usable

LEMMA Rates ==
    /\ Rate["input"] \in Nat /\ Rate["read"] \in Nat /\ Rate["write"] \in Nat
    /\ Rate["hour"] \in Nat /\ Rate["output"] \in Nat
  BY TokenAssumption

LEMMA NotUsableIsNot ==
    /\ ~Usable(NotUsable) /\ ~Usable(Unusable)
  BY TokenAssumption DEF Usable, NotUsable, Unusable

(* calculate_cost and cost_from_buckets on the counts of the call.         *)
LEMMA CostOfCall ==
    ASSUME call \in Calls,
           NEW b, b = [uncached |-> call.fresh, output |-> call.output, read |-> call.read,
                       write |-> call.write, hour |-> call.hour]
    PROVE  CostOf(b) = PriceOf(call)
<1>1. /\ Floor(b.uncached) = call.fresh /\ Floor(b.read) = call.read
      /\ Floor(b.output) = call.output /\ Floor(b.write) = call.write
      /\ Hour(b.write, b.hour) = call.hour
  BY CallCounts DEF Floor, Hour, Least
<1>2. WriteCost(b) = (call.write - call.hour) * Rate["write"] + call.hour * Rate["hour"]
  BY <1>1 DEF WriteCost
<1>3. CostOf(b) = call.fresh * Rate["input"] + call.read * Rate["read"]
                    + ((call.write - call.hour) * Rate["write"] + call.hour * Rate["hour"])
                    + call.output * Rate["output"]
  BY <1>1, <1>2 DEF CostOf
<1>4. ASSUME NEW i \in Int, NEW r \in Int, NEW w \in Int, NEW h \in Int, NEW o \in Int
      PROVE  i + r + (w + h) + o = i + r + w + h + o
  OBVIOUS
<1>5. /\ call.fresh * Rate["input"] \in Int /\ call.read * Rate["read"] \in Int
      /\ (call.write - call.hour) * Rate["write"] \in Int
      /\ call.hour * Rate["hour"] \in Int /\ call.output * Rate["output"] \in Int
  BY CallCounts, Rates
<1> QED  BY <1>3, <1>4, <1>5 DEF PriceOf

LEMMA CostOfNothing ==
    ASSUME NEW b, b = [uncached |-> 0, output |-> 0, read |-> 0, write |-> 0, hour |-> 0]
    PROVE  CostOf(b) = 0
<1>1. /\ Floor(b.uncached) = 0 /\ Floor(b.read) = 0 /\ Floor(b.output) = 0
      /\ Floor(b.write) = 0 /\ Hour(b.write, b.hour) = 0
  BY DEF Floor, Hour, Least
<1>2. WriteCost(b) = 0  BY <1>1, Rates DEF WriteCost
<1> QED  BY <1>1, <1>2, Rates DEF CostOf

(* The row of the reported counts of the call. *)
LEMMA BucketsOfCall ==
    ASSUME call \in Calls, NEW v,
           v.input = call.fresh + call.read + call.write, v.output = call.output,
           v.read = call.read, v.write = call.write, v.hour = call.hour
    PROVE  Buckets(v) = [uncached |-> call.fresh, output |-> call.output,
                         read |-> call.read, write |-> call.write, hour |-> call.hour]
<1>1. /\ Floor(v.input) = call.fresh + call.read + call.write
      /\ Floor(v.output) = call.output /\ Floor(v.read) = call.read
      /\ Floor(v.write) = call.write
  BY CallCounts DEF Floor
<1>2. Floor(Floor(v.input) - Floor(v.read) - Floor(v.write)) = call.fresh
  BY <1>1, CallCounts DEF Floor
<1>3. Hour(Floor(v.write), v.hour) = call.hour
  BY <1>1, CallCounts DEF Hour, Floor, Least
<1> QED  BY <1>1, <1>2, <1>3 DEF Buckets

LEMMA RowOfCounts ==
    ASSUME call \in Calls, NEW u,
           DOMAIN u = {"input", "output", "read", "write", "hour"},
           IntOrZero(u.input) = call.fresh + call.read + call.write,
           IntOrZero(u.output) = call.output, IntOrZero(u.read) = call.read,
           IntOrZero(u.write) = call.write, IntOrZero(u.hour) = call.hour
    PROVE  RowOf(u) = CallRow
<1> DEFINE v == [f \in DOMAIN u |-> IntOrZero(u[f])]
<1>1. /\ v.input = call.fresh + call.read + call.write /\ v.output = call.output
      /\ v.read = call.read /\ v.write = call.write /\ v.hour = call.hour
  OBVIOUS
<1> HIDE DEF v
<1>2. Buckets(v) = [uncached |-> call.fresh, output |-> call.output, read |-> call.read,
                    write |-> call.write, hour |-> call.hour]
  BY <1>1, BucketsOfCall
<1>3. CostOf(Buckets(v)) = PriceOf(call)  BY <1>2, CostOfCall
<1>4. RowOf(u) = [input |-> Buckets(v).uncached + Buckets(v).read + Buckets(v).write,
                  output |-> Buckets(v).output, read |-> Buckets(v).read,
                  write |-> Buckets(v).write, hour |-> Buckets(v).hour,
                  cost |-> CostOf(Buckets(v))]
  BY DEF RowOf, v
<1> QED  BY <1>2, <1>3, <1>4, CallCounts DEF CallRow

LEMMA RowOfCall ==
    ASSUME call \in Calls
    PROVE  RowOf(Reported(call)) = CallRow
<1>1. /\ IntOrZero(Reported(call).input) = call.fresh + call.read + call.write
      /\ IntOrZero(Reported(call).output) = call.output
      /\ IntOrZero(Reported(call).read) = call.read
      /\ IntOrZero(Reported(call).write) = call.write
      /\ IntOrZero(Reported(call).hour) = call.hour
  BY CallCounts DEF IntOrZero, Reported
<1>2. DOMAIN Reported(call) = {"input", "output", "read", "write", "hour"}
  BY DEF Reported
<1> QED  BY <1>1, <1>2, RowOfCounts

(* calculate_cost of the text, which has no cached tokens. *)
LEMMA EstimateOfCall ==
    ASSUME call \in Calls, call.read = 0, call.write = 0
    PROVE  Estimate(call) = CallRow
<1> DEFINE u == [Nothing EXCEPT !.input = call.fresh + call.read + call.write,
                                !.output = call.output]
<1>1. call.hour = 0  BY CallCounts
<1>2. /\ DOMAIN u = {"input", "output", "read", "write", "hour"}
      /\ u.input = call.fresh + call.read + call.write /\ u.output = call.output
      /\ u.read = NotUsable /\ u.write = NotUsable /\ u.hour = NotUsable
  BY DEF Nothing
<1>3. /\ IntOrZero(u.input) = call.fresh + call.read + call.write
      /\ IntOrZero(u.output) = call.output /\ IntOrZero(u.read) = call.read
      /\ IntOrZero(u.write) = call.write /\ IntOrZero(u.hour) = call.hour
  BY <1>1, <1>2, CallCounts, NotUsableIsNot DEF IntOrZero
<1>4. RowOf(u) = CallRow  BY <1>2, <1>3, RowOfCounts
<1> QED  BY <1>4 DEF Estimate

-----------------------------------------------------------------------------
(* Nothing and the wrapper's empty attributes price nothing. *)
LEMMA NothingCounted == ~Counted(Nothing)
  BY NotUsableIsNot DEF Counted, Nothing

LEMMA ReportedCounted == call \in Calls => Counted(Reported(call))
  BY CallCounts DEF Counted, Reported

(* What the transform takes as the usage of a span that reports nothing,   *)
(* and of one that the counts of the call reach.                           *)
LEMMA UsageOfNothing ==
    ASSUME NEW x \in Spans, Attributes(x).api = Nothing,
           Attributes(x).ai = Nothing, Attributes(x).manual = Nothing
    PROVE  ~Counted(Usage(Attributes(x)))
<1>1. FromInstrumentor(Attributes(x)) = Nothing
  BY NotUsableIsNot DEF FromInstrumentor, Nothing, First, RawOfModel
<1> QED  BY <1>1, NothingCounted DEF Usage

LEMMA UsageOfApi ==
    ASSUME call \in Calls, NEW x \in Spans, Attributes(x).api = Reported(call)
    PROVE  Usage(Attributes(x)) = Reported(call)
<1>1. FromInstrumentor(Attributes(x)) = Reported(call)
  BY CallCounts DEF FromInstrumentor, First, Reported
<1> QED  BY <1>1, ReportedCounted DEF Usage

(* The raw counts of the Vercel SDK: they are the model's own, whether the *)
(* better attributes are missing or unusable.                              *)
LEMMA UsageOfVercel ==
    ASSUME call \in Calls, NEW x \in Spans, Attributes(x).kind = "LLM",
           ~Usable(Attributes(x).api.input), ~Usable(Attributes(x).api.output),
           ~Usable(Attributes(x).api.read), ~Usable(Attributes(x).api.write),
           Attributes(x).api.hour = call.hour, Attributes(x).ai = Vercel(call)
    PROVE  Usage(Attributes(x)) = Reported(call)
<1>1. FromInstrumentor(Attributes(x)) = Reported(call)
  BY DEF FromInstrumentor, First, RawOfModel, Vercel, Reported
<1> QED  BY <1>1, ReportedCounted DEF Usage

LEMMA NotOfWrapper ==
    ASSUME call \in Calls, NEW x \in Spans, Attributes(x).kind # "LLM",
           ~Usable(Attributes(x).api.input), ~Usable(Attributes(x).api.output),
           Attributes(x).manual = Nothing
    PROVE  ~Counted(Usage(Attributes(x)))
<1>1. /\ FromInstrumentor(Attributes(x)).input = NotUsable
      /\ FromInstrumentor(Attributes(x)).output = NotUsable
  BY DEF FromInstrumentor, First, RawOfModel, Nothing
<1> QED  BY <1>1, NotUsableIsNot, NothingCounted DEF Usage, Counted

LEMMA UsageOfManual ==
    ASSUME call \in Calls, NEW x \in Spans, Attributes(x).api = Nothing,
           Attributes(x).ai = Nothing, ~Attributes(x).aggregate,
           Attributes(x).manual = Reported(call)
    PROVE  Usage(Attributes(x)) = Reported(call)
<1>1. FromInstrumentor(Attributes(x)) = Nothing
  BY NotUsableIsNot DEF FromInstrumentor, Nothing, First, RawOfModel
<1> QED  BY <1>1, NothingCounted, ReportedCounted DEF Usage

-----------------------------------------------------------------------------
(* The model's span is entered with the counts of the call, unless a scope *)
(* reports only results.                                                   *)
LEMMA ColumnsOfModel ==
    ASSUME TokenType
    PROVE  ColumnsOf(Attributes("model")) =
               IF PricedAt = "model" THEN CallRow ELSE NoCounts
<1> DEFINE s == Attributes("model")
<1>0. /\ call \in Calls /\ "model" \in Spans /\ s.kind = "LLM" /\ ~s.aggregate
      /\ s.skipped = (emitter = "result")
  BY DEF TokenType, Attributes, Spans
<1>1. ASSUME Usage(s) = Reported(call), emitter # "result"
      PROVE  ColumnsOf(s) = CallRow /\ PricedAt = "model"
  BY <1>0, <1>1, ReportedCounted, RowOfCall DEF ColumnsOf, PricedAt
<1>2. CASE emitter \in {"counted", "doubled", "summed"}
  <2>1. s.api = Reported(call)  BY <1>2 DEF Attributes
  <2> QED  BY <1>0, <1>1, <1>2, <2>1, UsageOfApi
<1>3. CASE emitter = "restated"
  <2>1. /\ s.api = [Nothing EXCEPT !.hour = call.hour]
        /\ s.ai = Vercel(call)
    BY <1>3 DEF Attributes
  <2>2. /\ ~Usable(s.api.input) /\ ~Usable(s.api.output) /\ ~Usable(s.api.read)
        /\ ~Usable(s.api.write) /\ s.api.hour = call.hour
    BY <2>1, NotUsableIsNot DEF Nothing
  <2> QED  BY <1>0, <1>1, <1>3, <2>1, <2>2, UsageOfVercel
<1>4. CASE emitter = "garbled"
  <2>1. /\ s.api = [Nothing EXCEPT !.input = Unusable, !.read = Unusable, !.hour = call.hour]
        /\ s.ai = Vercel(call)
    BY <1>4 DEF Attributes
  <2>2. /\ ~Usable(s.api.input) /\ ~Usable(s.api.output) /\ ~Usable(s.api.read)
        /\ ~Usable(s.api.write) /\ s.api.hour = call.hour
    BY <2>1, NotUsableIsNot DEF Nothing
  <2> QED  BY <1>0, <1>1, <1>4, <2>1, <2>2, UsageOfVercel
<1>5. CASE emitter = "manual"
  <2>1. s.api = Nothing /\ s.ai = Nothing /\ s.manual = Reported(call)
    BY <1>5 DEF Attributes
  <2> QED  BY <1>0, <1>1, <1>5, <2>1, UsageOfManual
<1>6. CASE emitter \in {"result", "text"}
  <2>1. s.api = Nothing /\ s.ai = Nothing /\ s.manual = Nothing
    BY <1>6 DEF Attributes
  <2>2. ~Counted(Usage(s))  BY <1>0, <2>1, UsageOfNothing
  <2>3. CASE emitter = "result"
    BY <1>0, <2>2, <2>3 DEF ColumnsOf, PricedAt
  <2>4. CASE emitter = "text"
    <3>1. Estimate(call) = CallRow  BY <2>4, EstimateOfCall DEF TokenType
    <3> QED  BY <1>0, <2>2, <2>4, <3>1 DEF ColumnsOf, PricedAt
  <2> QED  BY <1>6, <2>3, <2>4
<1>7. emitter \in {"counted", "restated", "summed", "garbled", "manual", "doubled",
                   "result", "text"}
  BY DEF TokenType, Emitters
<1> QED  BY <1>2, <1>3, <1>4, <1>5, <1>6, <1>7

(* The wrapper's span is entered with them in that case only.              *)
LEMMA ColumnsOfWrapper ==
    ASSUME TokenType
    PROVE  ColumnsOf(Attributes("wrapper")) =
               IF PricedAt = "wrapper" THEN CallRow ELSE NoCounts
<1> DEFINE s == Attributes("wrapper")
<1>0. /\ call \in Calls /\ "wrapper" \in Spans /\ s.kind # "LLM"
      /\ s.aggregate = (emitter = "summed") /\ s.manual = Nothing
  BY DEF TokenType, Attributes, Spans
<1>1. CASE emitter = "summed"
  BY <1>0, <1>1 DEF ColumnsOf, PricedAt
<1>2. CASE emitter = "result"
  <2>1. s.api = Reported(call)  BY <1>2 DEF Attributes
  <2>2. Usage(s) = Reported(call)  BY <1>0, <2>1, UsageOfApi
  <2> QED  BY <1>0, <1>2, <2>2, ReportedCounted, RowOfCall DEF ColumnsOf, PricedAt
<1>3. CASE emitter \in {"counted", "restated", "garbled", "manual", "doubled", "text"}
  <2>1. \/ s.api = Nothing
        \/ s.api = [Nothing EXCEPT !.hour = call.hour]
        \/ s.api = [Nothing EXCEPT !.input = Unusable, !.read = Unusable, !.hour = call.hour]
    BY <1>3 DEF Attributes
  <2>2. ~Usable(s.api.input) /\ ~Usable(s.api.output)
    <3>1. CASE s.api = Nothing  BY <3>1, NotUsableIsNot DEF Nothing
    <3>2. CASE s.api = [Nothing EXCEPT !.hour = call.hour]
      BY <3>2, NotUsableIsNot DEF Nothing
    <3>3. CASE s.api = [Nothing EXCEPT !.input = Unusable, !.read = Unusable,
                                       !.hour = call.hour]
      BY <3>3, NotUsableIsNot DEF Nothing
    <3> QED  BY <2>1, <3>1, <3>2, <3>3
  <2>3. ~Counted(Usage(s))  BY <1>0, <2>2, NotOfWrapper
  <2> QED  BY <1>0, <1>3, <2>3 DEF ColumnsOf, PricedAt
<1>4. emitter \in {"counted", "restated", "summed", "garbled", "manual", "doubled",
                   "result", "text"}
  BY DEF TokenType, Emitters
<1> QED  BY <1>1, <1>2, <1>3, <1>4

-----------------------------------------------------------------------------
LEMMA RowTypes ==
    ASSUME call \in Calls
    PROVE  /\ CallRow \in [{"input", "output", "read", "write", "hour", "cost"} -> Int]
           /\ NoCounts \in [{"input", "output", "read", "write", "hour", "cost"} -> Int]
<1>1. ASSUME NEW n \in Nat, NEW r \in Nat PROVE n * r \in Int  OBVIOUS
<1>2. /\ call.fresh * Rate["input"] \in Int /\ call.read * Rate["read"] \in Int
      /\ (call.write - call.hour) * Rate["write"] \in Int
      /\ call.hour * Rate["hour"] \in Int /\ call.output * Rate["output"] \in Int
  BY CallCounts, Rates, <1>1
<1>3. PriceOf(call) \in Int  BY <1>2 DEF PriceOf
<1> QED  BY <1>3, CallCounts DEF CallRow, NoCounts

TokenInv == TokenType /\ RowsMade

LEMMA TokenInvInit == TokenInit => TokenInv
<1> SUFFICES ASSUME TokenInit PROVE TokenInv  OBVIOUS
<1>1. TokenType  BY DEF TokenInit, TokenType
<1>2. RowsMade  BY <1>1, RowTypes DEF TokenInit, RowsMade, TokenType
<1> QED  BY <1>1, <1>2 DEF TokenInv

LEMMA TokenInvNext == TokenInv /\ [TokenNext]_tokenVars => TokenInv'
<1> SUFFICES ASSUME TokenInv, [TokenNext]_tokenVars PROVE TokenInv'  OBVIOUS
<1>1. ASSUME NEW x \in Spans, Transform(x) PROVE TokenInv'
  <2>1. /\ call' = call /\ emitter' = emitter /\ stored' = stored \cup {x}
        /\ row' = [row EXCEPT ![x] = ColumnsOf(Attributes(x))]
    BY <1>1 DEF Transform
  <2>2. TokenType'  BY <2>1, Zenon DEF TokenInv, TokenType
  <2>3. CallRow' = CallRow /\ PricedAt' = PricedAt
    BY <2>1 DEF CallRow, PriceOf, PricedAt
  <2>4. ColumnsOf(Attributes(x)) = IF x = PricedAt THEN CallRow ELSE NoCounts
    BY ColumnsOfModel, ColumnsOfWrapper DEF TokenInv, Spans, PricedAt
  <2>5. RowsMade'
    BY <2>1, <2>3, <2>4, RowTypes DEF TokenInv, TokenType, RowsMade
  <2> QED  BY <2>2, <2>5 DEF TokenInv
<1>2. CASE UNCHANGED tokenVars
  BY <1>2 DEF tokenVars, TokenInv, TokenType, RowsMade, CallRow, PricedAt, PriceOf
<1> QED  BY <1>1, <1>2 DEF TokenNext

(* The parts of the cost that a reader is shown, of either kind of row.    *)
LEMMA BreakdownOfRow ==
    ASSUME call \in Calls
    PROVE  /\ CostOf(BucketsOfRow(CallRow)) = CallRow.cost
           /\ CostOf(BucketsOfRow(NoCounts)) = NoCounts.cost
<1>1. BucketsOfRow(CallRow) = [uncached |-> call.fresh, output |-> call.output,
                               read |-> call.read, write |-> call.write, hour |-> call.hour]
  BY CallCounts DEF BucketsOfRow, CallRow, Floor, Hour, Least
<1>2. BucketsOfRow(NoCounts) = [uncached |-> 0, output |-> 0, read |-> 0, write |-> 0,
                                hour |-> 0]
  BY DEF BucketsOfRow, NoCounts, Floor, Hour, Least
<1>3. CallRow.cost = PriceOf(call) /\ NoCounts.cost = 0  BY DEF CallRow, NoCounts
<1> QED  BY <1>1, <1>2, <1>3, CostOfCall, CostOfNothing

LEMMA TokenInvPrices == TokenInv => TokensPricedOnce
<1> SUFFICES ASSUME TokenInv PROVE TokensPricedOnce  OBVIOUS
<1>1. call \in Calls  BY DEF TokenInv, TokenType
<1>2. BreakdownIsCost
  <2> SUFFICES ASSUME NEW x \in stored PROVE CostOf(BucketsOfRow(row[x])) = row[x].cost
    BY DEF BreakdownIsCost
  <2>1. row[x] = CallRow \/ row[x] = NoCounts  BY DEF TokenInv, TokenType, RowsMade
  <2> QED  BY <1>1, <2>1, BreakdownOfRow
<1>3. ASSUME stored = Spans
      PROVE  /\ row["model"].cost + row["wrapper"].cost = PriceOf(call)
             /\ row["model"].input + row["wrapper"].input
                  = call.fresh + call.read + call.write
             /\ row["model"].output + row["wrapper"].output = call.output
  <2>1. \/ row["model"] = CallRow /\ row["wrapper"] = NoCounts
        \/ row["model"] = NoCounts /\ row["wrapper"] = CallRow
    BY <1>3 DEF TokenInv, RowsMade, PricedAt, Spans
  <2>2. /\ CallRow.cost = PriceOf(call) /\ CallRow.output = call.output
        /\ CallRow.input = call.fresh + call.read + call.write
        /\ NoCounts.cost = 0 /\ NoCounts.output = 0 /\ NoCounts.input = 0
    BY DEF CallRow, NoCounts
  <2>3. CallRow.cost \in Int  BY <1>1, RowTypes
  <2> QED  BY <1>1, <2>1, <2>2, <2>3, CallCounts
<1> QED  BY <1>2, <1>3 DEF TokensPricedOnce

(* However its counts were reported, a call costs the trace what it cost,  *)
(* once: the transform takes them for one of its two spans only, and the   *)
(* breakdown recovers the buckets that were priced (otel_transform.py,     *)
(* buckets.py, pricing.py, span_cost_details).                             *)
THEOREM PricedOnce == TokenSpec => []TokensPricedOnce
<1>1. TokenInit => TokenInv  BY TokenInvInit
<1>2. TokenInv /\ [TokenNext]_tokenVars => TokenInv'  BY TokenInvNext
<1>3. TokenInv => TokensPricedOnce  BY TokenInvPrices
<1> QED  BY <1>1, <1>2, <1>3, PTL DEF TokenSpec

(***************************************************************************)
(* The record of a batch.                                                  *)
(***************************************************************************)
SaysUser == {i \in DOMAIN batch : batch[i].user}
SaysGit  == {i \in DOMAIN batch : batch[i].git}

(* The greatest and the least element, where there is one.                 *)
Biggest(n, S) == n \in S /\ \A k \in S : k <= n
Smallest(n, S)    == n \in S /\ \A k \in S : n <= k

(* n is the last root that says it, else the first child, else unset.      *)
Speaks(n, says, roots) ==
    /\ says \cap roots # {} => Biggest(n, says \cap roots)
    /\ says \cap roots = {} /\ says # {} => Smallest(n, says)
    /\ says = {} => n = Unset

(* The first of the children closest to the root.                          *)
Closest(c) ==
    /\ c \in DOMAIN batch
    /\ \A k \in DOMAIN batch : /\ batch[c].depth <= batch[k].depth
                               /\ batch[c].depth = batch[k].depth => c <= k

RecordType ==
    /\ batch \in Seq(Shapes)
    /\ corrected \in BOOLEAN
    /\ attrs \in [user : Nat, git : Nat]
    /\ traceRow \in [start : Nat, name : Nat, user : Nat, git : Nat]
    /\ candidate \in [depth : Nat, name : Nat]

(* The attributes follow the priority at every moment of the loop, and the *)
(* record never has one that they do not have.                             *)
AttrsFollow ==
    /\ Speaks(attrs.user, SaysUser, RootSpans)
    /\ Speaks(attrs.git, SaysGit, RootSpans)
    /\ traceRow.user \in {Unset, attrs.user}
    /\ attrs.git = Unset => traceRow.git = Unset

(* So does the best candidate.                                             *)
CandidateFollows ==
    /\ batch = <<>> => candidate.depth = NoDepth
    /\ RootSpans # {} => candidate.depth = 0 /\ Biggest(candidate.name, RootSpans)
    /\ batch # <<>> /\ RootSpans = {} =>
         \E c \in DOMAIN batch :
            /\ Closest(c)
            /\ candidate = [depth |-> batch[c].depth,
                            name  |-> IF batch[c].pathed THEN PathName ELSE c]

(* The record starts with the last root, or with the first span.           *)
StartFollows ==
    /\ batch = <<>> <=> traceRow = NoRecord
    /\ batch # <<>> => traceRow.start # Unset
    /\ RootSpans # {} => Biggest(traceRow.start, RootSpans)
    /\ batch # <<>> /\ RootSpans = {} => traceRow.start = 1
    /\ corrected => /\ batch # <<>> /\ traceRow.name = candidate.name
                    /\ traceRow.user = attrs.user /\ traceRow.git = attrs.git

RecordInv == RecordType /\ AttrsFollow /\ CandidateFollows /\ StartFollows

-----------------------------------------------------------------------------
LEMMA GreatestIsMax ==
    ASSUME NEW S \in SUBSET Nat, NEW n, Biggest(n, S)
    PROVE  Max(S) = n
<1>1. n \in S /\ \A k \in S : n >= k  BY DEF Biggest
<1>2. ASSUME NEW m \in S, \A k \in S : m >= k PROVE m = n
  BY <1>1, <1>2
<1> QED  BY <1>1, <1>2 DEF Max

LEMMA LeastIsMin ==
    ASSUME NEW S \in SUBSET Nat, NEW n, Smallest(n, S)
    PROVE  Min(S) = n
<1>1. n \in S /\ \A k \in S : n <= k  BY DEF Smallest
<1>2. ASSUME NEW m \in S, \A k \in S : m <= k PROVE m = n
  BY <1>1, <1>2
<1> QED  BY <1>1, <1>2 DEF Min

(* One more span that says it, or does not.                                *)
LEMMA SpeaksOn ==
    ASSUME NEW n \in Nat, NEW says \in SUBSET (1 .. n), NEW roots \in SUBSET (1 .. n),
           NEW v \in Nat, Speaks(v, says, roots),
           NEW root \in BOOLEAN, NEW has \in BOOLEAN, NEW says2, NEW roots2, NEW v2,
           says2  = says \cup (IF has THEN {n + 1} ELSE {}),
           roots2 = roots \cup (IF root THEN {n + 1} ELSE {}),
           v2 = IF root THEN Or(Said(has, n + 1), v) ELSE Or(v, Said(has, n + 1))
    PROVE  Speaks(v2, says2, roots2)
<1>1. CASE ~has
  <2>1. says2 = says /\ says2 \cap roots2 = says \cap roots  BY <1>1
  <2>2. Or(Said(has, n + 1), v) = v /\ Or(v, Said(has, n + 1)) = v
    BY <1>1 DEF Or, Said, Unset
  <2> QED  BY <2>1, <2>2 DEF Speaks
<1>2. CASE has /\ root
  <2>1. says2 \cap roots2 = (says \cap roots) \cup {n + 1}  BY <1>2
  <2>2. Or(Said(has, n + 1), v) = n + 1  BY <1>2 DEF Or, Said, Unset
  <2>3. Biggest(n + 1, says2 \cap roots2)  BY <2>1 DEF Biggest
  <2> QED  BY <1>2, <2>1, <2>2, <2>3 DEF Speaks
<1>3. CASE has /\ ~root
  <2>1. says2 \cap roots2 = says \cap roots /\ says2 = says \cup {n + 1}  BY <1>3
  <2>2. CASE says = {}
    <3>1. v = 0 /\ Or(v, Said(has, n + 1)) = n + 1
      BY <1>3, <2>2 DEF Speaks, Or, Said, Unset
    <3>2. says2 = {n + 1} /\ says2 \cap roots2 = {}  BY <2>1, <2>2
    <3>3. Smallest(n + 1, says2)  BY <3>2 DEF Smallest
    <3> QED  BY <1>3, <3>1, <3>2, <3>3 DEF Speaks
  <2>3. CASE says # {}
    <3>1. v \in says  BY <2>3 DEF Speaks, Biggest, Smallest
    <3>2. Or(v, Said(has, n + 1)) = v  BY <3>1 DEF Or, Unset
    <3>3. Smallest(v, says) => Smallest(v, says2)  BY <2>1, <3>1 DEF Smallest
    <3> QED  BY <1>3, <2>1, <2>3, <3>2, <3>3 DEF Speaks
  <2> QED  BY <2>2, <2>3
<1> QED  BY <1>1, <1>2, <1>3

LEMMA ShapeFields ==
    ASSUME NEW s \in Shapes
    PROVE  /\ s.root \in BOOLEAN /\ s.pathed \in BOOLEAN /\ s.user \in BOOLEAN
           /\ s.git \in BOOLEAN /\ s.depth \in 0 .. MaxDepth /\ s.depth \in Nat
           /\ s.root => s.depth = 0 /\ ~s.pathed
<1>1. 0 \in 0 .. MaxDepth /\ 1 \in 0 .. MaxDepth /\ 0 .. MaxDepth \subseteq Nat
  BY RecordAssumption
<1>2. CASE s \in [root : {TRUE}, depth : {0}, pathed : {FALSE}, user : BOOLEAN, git : BOOLEAN]
  BY <1>1, <1>2
<1>3. CASE s \in [root : {FALSE}, depth : 0 .. MaxDepth, pathed : {TRUE}, user : BOOLEAN,
                  git : BOOLEAN]
  BY <1>1, <1>3
<1>4. CASE s \in [root : {FALSE}, depth : {1}, pathed : {FALSE}, user : BOOLEAN, git : BOOLEAN]
  BY <1>1, <1>4
<1> QED  BY <1>2, <1>3, <1>4 DEF Shapes

(* What the loop knows of the spans after one more.                        *)
LEMMA BatchGrows ==
    ASSUME RecordType, NEW s \in Shapes, batch' = Append(batch, s)
    PROVE  LET n == Len(batch) IN
           /\ n \in Nat /\ DOMAIN batch = 1 .. n /\ DOMAIN batch' = 1 .. n + 1
           /\ \A k \in 1 .. n : batch'[k] = batch[k] /\ batch[k] \in Shapes
           /\ batch'[n + 1] = s /\ batch' \in Seq(Shapes) /\ batch' # <<>>
           /\ batch = <<>> <=> n = 0
           /\ SaysUser \in SUBSET (1 .. n) /\ SaysGit \in SUBSET (1 .. n)
           /\ RootSpans \in SUBSET (1 .. n)
           /\ SaysUser' = SaysUser \cup (IF s.user THEN {n + 1} ELSE {})
           /\ SaysGit' = SaysGit \cup (IF s.git THEN {n + 1} ELSE {})
           /\ RootSpans' = RootSpans \cup (IF s.root THEN {n + 1} ELSE {})
<1> DEFINE n == Len(batch)
<1>1. /\ n \in Nat /\ DOMAIN batch = 1 .. n /\ DOMAIN batch' = 1 .. n + 1
      /\ \A k \in 1 .. n : batch'[k] = batch[k] /\ batch[k] \in Shapes
      /\ batch'[n + 1] = s /\ batch' \in Seq(Shapes) /\ batch' # <<>>
      /\ batch = <<>> <=> n = 0
  BY DEF RecordType
<1> HIDE DEF n
<1>2. /\ SaysUser \in SUBSET (1 .. n) /\ SaysGit \in SUBSET (1 .. n)
      /\ RootSpans \in SUBSET (1 .. n)
  BY <1>1 DEF SaysUser, SaysGit, RootSpans
<1>3. \A k \in 1 .. n + 1 : k \in 1 .. n \/ k = n + 1
  BY <1>1
<1>4. SaysUser' = SaysUser \cup (IF s.user THEN {n + 1} ELSE {})
  BY <1>1, <1>3 DEF SaysUser
<1>5. SaysGit' = SaysGit \cup (IF s.git THEN {n + 1} ELSE {})
  BY <1>1, <1>3 DEF SaysGit
<1>6. RootSpans' = RootSpans \cup (IF s.root THEN {n + 1} ELSE {})
  BY <1>1, <1>3 DEF RootSpans
<1> QED  BY <1>1, <1>2, <1>4, <1>5, <1>6 DEF n

LEMMA RecordInvInit == RecordInit => RecordInv
<1> SUFFICES ASSUME RecordInit PROVE RecordInv  OBVIOUS
<1>1. /\ batch = <<>> /\ DOMAIN batch = {} /\ corrected = FALSE
      /\ traceRow = [start |-> 0, name |-> 0, user |-> 0, git |-> 0]
      /\ attrs = [user |-> 0, git |-> 0]
      /\ candidate = [depth |-> NoDepth, name |-> 0]
  BY DEF RecordInit, NoRecord, Unset
<1>2. RecordType
  <2>1. batch \in Seq(Shapes)  BY <1>1
  <2>2. corrected \in BOOLEAN  BY <1>1
  <2>3. NoDepth \in Nat  BY RecordAssumption DEF NoDepth
  <2> QED  BY <1>1, <2>1, <2>2, <2>3 DEF RecordType
<1>3. SaysUser = {} /\ SaysGit = {} /\ RootSpans = {}
  BY <1>1 DEF SaysUser, SaysGit, RootSpans
<1>4. AttrsFollow  BY <1>1, <1>3 DEF AttrsFollow, Speaks, Unset
<1>5. CandidateFollows  BY <1>1, <1>3 DEF CandidateFollows
<1>6. StartFollows  BY <1>1, <1>3 DEF StartFollows, NoRecord, Unset
<1> QED  BY <1>2, <1>4, <1>5, <1>6 DEF RecordInv

LEMMA ReadNext ==
    ASSUME RecordInv, NEW s \in Shapes, ReadSpan(s)
    PROVE  RecordInv'
<1>0. PICK n, user, git :
         /\ n = Len(batch)
         /\ user = IF s.root THEN Or(Said(s.user, n + 1), attrs.user)
                             ELSE Or(attrs.user, Said(s.user, n + 1))
         /\ git = IF s.root THEN Or(Said(s.git, n + 1), attrs.git)
                            ELSE Or(attrs.git, Said(s.git, n + 1))
  OBVIOUS
<1>1. /\ ~corrected /\ corrected' = corrected /\ batch' = Append(batch, s)
      /\ attrs' = AttrsWith(s, n + 1) /\ candidate' = CandidateWith(s, n + 1)
      /\ traceRow' = RecordWith(s, n + 1)
  BY <1>0 DEF ReadSpan
<1>2. RecordType  BY DEF RecordInv
<1>3. /\ n \in Nat /\ DOMAIN batch = 1 .. n /\ DOMAIN batch' = 1 .. n + 1
      /\ \A k \in 1 .. n : batch'[k] = batch[k] /\ batch[k] \in Shapes
      /\ batch'[n + 1] = s /\ batch' \in Seq(Shapes) /\ batch' # <<>>
      /\ batch = <<>> <=> n = 0
  BY <1>0, <1>1, <1>2, BatchGrows
<1>4. /\ SaysUser \in SUBSET (1 .. n) /\ SaysGit \in SUBSET (1 .. n)
      /\ RootSpans \in SUBSET (1 .. n)
      /\ SaysUser' = SaysUser \cup (IF s.user THEN {n + 1} ELSE {})
      /\ SaysGit' = SaysGit \cup (IF s.git THEN {n + 1} ELSE {})
      /\ RootSpans' = RootSpans \cup (IF s.root THEN {n + 1} ELSE {})
  BY <1>0, <1>1, <1>2, BatchGrows
<1>5. attrs.user \in Nat /\ attrs.git \in Nat /\ user \in Nat /\ git \in Nat
  BY <1>0, <1>2, <1>3 DEF RecordType, Or, Said, Unset
<1>6. attrs' = [user |-> user, git |-> git]
  BY <1>0, <1>1 DEF AttrsWith, Preferred
<1>7. traceRow' = IF s.root
                  THEN [start |-> n + 1, name |-> n + 1, user |-> user,
                        git |-> Or(git, traceRow.git)]
                  ELSE IF traceRow = NoRecord
                       THEN [start |-> n + 1, name |-> n + 1, user |-> user, git |-> git]
                       ELSE traceRow
  BY <1>0, <1>1, <1>6 DEF RecordWith, AttrsWith, Preferred
<1>8. /\ Speaks(attrs.user, SaysUser, RootSpans) /\ Speaks(attrs.git, SaysGit, RootSpans)
      /\ s.root \in BOOLEAN /\ s.user \in BOOLEAN /\ s.git \in BOOLEAN
  BY ShapeFields DEF RecordInv, AttrsFollow
<1>9. Speaks(user, SaysUser', RootSpans')
  <2>1. PICK root, has, says, roots, says2, roots2 :
           /\ root = s.root /\ has = s.user /\ says = SaysUser /\ roots = RootSpans
           /\ says2 = SaysUser' /\ roots2 = RootSpans'
    OBVIOUS
  <2>2. /\ root \in BOOLEAN /\ has \in BOOLEAN
        /\ says \in SUBSET (1 .. n) /\ roots \in SUBSET (1 .. n)
        /\ says2 = says \cup (IF has THEN {n + 1} ELSE {})
        /\ roots2 = roots \cup (IF root THEN {n + 1} ELSE {})
        /\ Speaks(attrs.user, says, roots)
        /\ user = IF root THEN Or(Said(has, n + 1), attrs.user)
                        ELSE Or(attrs.user, Said(has, n + 1))
    BY <1>0, <1>4, <1>8, <2>1
  <2>3. Speaks(user, says2, roots2)  BY <1>3, <1>5, <2>2, SpeaksOn
  <2> QED  BY <2>1, <2>3
<1>10. Speaks(git, SaysGit', RootSpans')
  <2>1. PICK root, has, says, roots, says2, roots2 :
           /\ root = s.root /\ has = s.git /\ says = SaysGit /\ roots = RootSpans
           /\ says2 = SaysGit' /\ roots2 = RootSpans'
    OBVIOUS
  <2>2. /\ root \in BOOLEAN /\ has \in BOOLEAN
        /\ says \in SUBSET (1 .. n) /\ roots \in SUBSET (1 .. n)
        /\ says2 = says \cup (IF has THEN {n + 1} ELSE {})
        /\ roots2 = roots \cup (IF root THEN {n + 1} ELSE {})
        /\ Speaks(attrs.git, says, roots)
        /\ git = IF root THEN Or(Said(has, n + 1), attrs.git)
                        ELSE Or(attrs.git, Said(has, n + 1))
    BY <1>0, <1>4, <1>8, <2>1
  <2>3. Speaks(git, says2, roots2)  BY <1>3, <1>5, <2>2, SpeaksOn
  <2> QED  BY <2>1, <2>3
<1>11. ~s.root /\ attrs.user # Unset => user = attrs.user
  BY <1>0 DEF Or
<1>12. git = Unset => attrs.git = Unset
  BY <1>0 DEF Or
<1>13. /\ traceRow \in [start : Nat, name : Nat, user : Nat, git : Nat]
       /\ candidate \in [depth : Nat, name : Nat] /\ s.depth \in Nat
  BY <1>2, ShapeFields DEF RecordType
<1>14. RecordType'
  <2>1. Or(git, traceRow.git) \in Nat  BY <1>5, <1>13 DEF Or
  <2>2. traceRow' \in [start : Nat, name : Nat, user : Nat, git : Nat]
    BY <1>3, <1>5, <1>7, <1>13, <2>1
  <2>3. candidate' \in [depth : Nat, name : Nat]
    BY <1>1, <1>3, <1>13, RecordAssumption DEF CandidateWith, PathName
  <2>4. attrs' \in [user : Nat, git : Nat]  BY <1>5, <1>6
  <2>5. corrected' \in BOOLEAN  BY <1>1 DEF RecordInv, RecordType
  <2> QED  BY <1>3, <2>2, <2>3, <2>4, <2>5 DEF RecordType
<1>15. AttrsFollow'
  <2>1. attrs'.user = user /\ attrs'.git = git  BY <1>6
  <2>2. Or(git, traceRow.git) = IF git # Unset THEN git ELSE traceRow.git  BY DEF Or
  <2>3. traceRow'.user \in {Unset, user}
    BY <1>7, <1>11 DEF RecordInv, AttrsFollow
  <2>4. git = Unset => traceRow'.git = Unset
    BY <1>7, <1>12, <2>2 DEF RecordInv, AttrsFollow
  <2> QED  BY <1>9, <1>10, <2>1, <2>3, <2>4 DEF AttrsFollow
<1>16. CandidateFollows'
  <2>1. candidate' = IF s.root \/ s.depth < candidate.depth
                     THEN [depth |-> s.depth, name |-> IF s.pathed THEN PathName ELSE n + 1]
                     ELSE candidate
    BY <1>1 DEF CandidateWith
  <2>2. CASE s.root
    <3>1. candidate' = [depth |-> 0, name |-> n + 1]
      BY <2>1, <2>2, ShapeFields
    <3>2. Biggest(n + 1, RootSpans')  BY <1>3, <1>4, <2>2 DEF Biggest
    <3>3. RootSpans' # {}  BY <1>4, <2>2
    <3> QED  BY <1>3, <3>1, <3>2, <3>3 DEF CandidateFollows
  <2>3. CASE ~s.root /\ RootSpans # {}
    <3>1. RootSpans' = RootSpans  BY <1>4, <2>3
    <3>2. candidate' = candidate
      BY <1>13, <2>1, <2>3 DEF RecordInv, CandidateFollows
    <3> QED  BY <1>3, <2>3, <3>1, <3>2 DEF RecordInv, CandidateFollows
  <2>4. CASE ~s.root /\ RootSpans = {} /\ batch = <<>>
    <3>1. candidate.depth = MaxDepth + 1 /\ n = 0
      BY <1>3, <2>4 DEF RecordInv, CandidateFollows, NoDepth
    <3>2. candidate' = [depth |-> s.depth, name |-> IF s.pathed THEN PathName ELSE 1]
      BY <2>1, <2>4, <3>1, ShapeFields, RecordAssumption
    <3>3. Closest(1)'
      <4>1. DOMAIN batch' = {1} /\ s.depth <= s.depth /\ batch'[1] = s  BY <1>3, <1>13, <3>1
      <4> QED  BY <4>1 DEF Closest
    <3>4. batch'[1] = s /\ 1 \in DOMAIN batch' /\ RootSpans' = {}
      BY <1>3, <1>4, <2>4, <3>1
    <3> QED  BY <1>3, <3>2, <3>3, <3>4 DEF CandidateFollows
  <2>5. CASE ~s.root /\ RootSpans = {} /\ batch # <<>>
    <3>1. PICK c \in DOMAIN batch :
             /\ Closest(c)
             /\ candidate = [depth |-> batch[c].depth,
                             name  |-> IF batch[c].pathed THEN PathName ELSE c]
      BY <2>5 DEF RecordInv, CandidateFollows
    <3>2. RootSpans' = {}  BY <1>4, <2>5
    <3>3. c \in 1 .. n /\ batch'[c] = batch[c] /\ candidate.depth = batch[c].depth
      BY <1>3, <3>1
    <3>4. \A k \in 1 .. n : batch[k].depth \in Nat
      BY <1>3, ShapeFields
    <3>5. CASE s.depth < candidate.depth
      <4>1. \A k \in 1 .. n : s.depth < batch[k].depth
        <5>1. \A k \in 1 .. n : batch[c].depth <= batch[k].depth
          BY <1>3, <3>1 DEF Closest
        <5>2. s.depth < batch[c].depth  BY <3>3, <3>5
        <5>3. s.depth \in Nat /\ batch[c].depth \in Nat  BY <1>13, <3>3, <3>4
        <5> QED  BY <3>4, <5>1, <5>2, <5>3
      <4>2. \A k \in 1 .. n + 1 : /\ s.depth <= batch'[k].depth
                                  /\ s.depth = batch'[k].depth => n + 1 <= k
        <5>1. \A k \in 1 .. n + 1 : k \in 1 .. n \/ k = n + 1  BY <1>3
        <5>2. \A k \in 1 .. n : s.depth < batch'[k].depth /\ batch'[k].depth \in Nat
          BY <1>3, <3>4, <4>1
        <5> QED  BY <1>3, <1>13, <5>1, <5>2
      <4>3. Closest(n + 1)'  BY <1>3, <4>2 DEF Closest
      <4>4. candidate' = [depth |-> batch'[n + 1].depth,
                          name |-> IF batch'[n + 1].pathed THEN PathName ELSE n + 1]
        BY <1>3, <2>1, <3>5
      <4> QED  BY <1>3, <3>2, <4>3, <4>4 DEF CandidateFollows
    <3>6. CASE ~(s.depth < candidate.depth)
      <4>1. candidate' = candidate  BY <2>1, <2>5, <3>6
      <4>2. \A k \in 1 .. n + 1 : /\ batch[c].depth <= batch'[k].depth
                                  /\ batch[c].depth = batch'[k].depth => c <= k
        <5>1. \A k \in 1 .. n : /\ batch[c].depth <= batch[k].depth
                                /\ batch[c].depth = batch[k].depth => c <= k
          BY <1>3, <3>1 DEF Closest
        <5>2. batch[c].depth <= s.depth /\ c <= n + 1
          BY <1>3, <1>13, <3>3, <3>4, <3>6
        <5>3. \A k \in 1 .. n + 1 : k \in 1 .. n \/ k = n + 1  BY <1>3
        <5> QED  BY <1>3, <5>1, <5>2, <5>3
      <4>3. Closest(c)'  BY <1>3, <3>3, <4>2 DEF Closest
      <4> QED  BY <1>3, <3>1, <3>2, <3>3, <4>1, <4>3 DEF CandidateFollows
    <3> QED  BY <3>5, <3>6
  <2> QED  BY <2>2, <2>3, <2>4, <2>5
<1>17. StartFollows'
  <2>1. traceRow = NoRecord <=> n = 0
    BY <1>3 DEF RecordInv, StartFollows
  <2>2. traceRow'.start # Unset /\ traceRow' # NoRecord
    BY <1>3, <1>7, <2>1 DEF RecordInv, StartFollows, NoRecord, Unset
  <2>3. RootSpans' # {} => Biggest(traceRow'.start, RootSpans')
    <3>1. CASE s.root
      BY <1>3, <1>4, <1>7, <3>1 DEF Biggest
    <3>2. CASE ~s.root
      <4>1. RootSpans' = RootSpans /\ (RootSpans # {} => traceRow' = traceRow)
        <5>1. RootSpans' = RootSpans  BY <1>4, <3>2
        <5>2. RootSpans # {} => n # 0
          <6>1. RootSpans \subseteq 1 .. n  BY <1>4
          <6>2. n = 0 => 1 .. n = {}  BY <1>3
          <6> QED  BY <6>1, <6>2
        <5>3. RootSpans # {} => traceRow # NoRecord  BY <2>1, <5>2
        <5> QED  BY <1>7, <3>2, <5>1, <5>3
      <4> QED  BY <4>1 DEF RecordInv, StartFollows
    <3> QED  BY <3>1, <3>2
  <2>4. RootSpans' = {} => traceRow'.start = 1
    BY <1>3, <1>4, <1>7, <2>1 DEF RecordInv, StartFollows
  <2> QED  BY <1>1, <1>3, <2>2, <2>3, <2>4 DEF StartFollows
<1> QED  BY <1>14, <1>15, <1>16, <1>17 DEF RecordInv

LEMMA CorrectNext ==
    ASSUME RecordInv, Correct
    PROVE  RecordInv'
<1>1. /\ batch # <<>> /\ corrected' = TRUE /\ batch' = batch /\ attrs' = attrs
      /\ candidate' = candidate
      /\ traceRow' = [traceRow EXCEPT !.name = candidate.name,
                                 !.user = Or(traceRow.user, attrs.user),
                                 !.git  = Or(attrs.git, traceRow.git)]
  BY DEF Correct
<1>2. Or(traceRow.user, attrs.user) = attrs.user /\ Or(attrs.git, traceRow.git) = attrs.git
  BY DEF RecordInv, AttrsFollow, Or, Unset
<1>3. /\ traceRow' \in [start : Nat, name : Nat, user : Nat, git : Nat]
      /\ traceRow'.start = traceRow.start /\ traceRow'.name = candidate.name
      /\ traceRow'.user = attrs.user /\ traceRow'.git = attrs.git
  BY <1>1, <1>2 DEF RecordInv, RecordType
<1>4. RecordType'  BY <1>1, <1>3 DEF RecordInv, RecordType
<1>5. SaysUser' = SaysUser /\ SaysGit' = SaysGit /\ RootSpans' = RootSpans
  BY <1>1 DEF SaysUser, SaysGit, RootSpans
<1>6. AttrsFollow'  BY <1>1, <1>3, <1>5 DEF RecordInv, AttrsFollow
<1>7. CandidateFollows'  BY <1>1, <1>5 DEF RecordInv, CandidateFollows, Closest
<1>8. StartFollows'
  <2>1. traceRow.start # Unset  BY <1>1 DEF RecordInv, StartFollows
  <2>2. traceRow' # NoRecord  BY <1>3, <2>1 DEF NoRecord
  <2> QED  BY <1>1, <1>3, <1>5, <2>1, <2>2 DEF RecordInv, StartFollows
<1> QED  BY <1>4, <1>6, <1>7, <1>8 DEF RecordInv

LEMMA AuthorityIs ==
    ASSUME RecordType, NEW says \in SUBSET DOMAIN batch, NEW v, Speaks(v, says, RootSpans)
    PROVE  v = Authority(says)
<1>1. DOMAIN batch \in SUBSET Nat  BY DEF RecordType
<1>2. says \in SUBSET Nat /\ says \cap RootSpans \in SUBSET Nat  BY <1>1
<1>3. CASE says \cap RootSpans # {}
  BY <1>2, <1>3, GreatestIsMax DEF Speaks, Authority
<1>4. CASE says \cap RootSpans = {} /\ says # {}
  BY <1>2, <1>4, LeastIsMin DEF Speaks, Authority
<1>5. CASE says = {}
  BY <1>5 DEF Speaks, Authority
<1> QED  BY <1>3, <1>4, <1>5

(* However many spans of whatever shape come in whatever order, the record *)
(* has the name and start of a root, or the name of the shallowest child,  *)
(* and a root's user and git reference before a child's                    *)
(* (transform_otel_to_clickhouse).                                         *)
THEOREM RecordPrefersRoots == RecordSpec => []RecordFollowsPriority
<1>1. RecordInv /\ [RecordNext]_recordVars => RecordInv'
  <2> SUFFICES ASSUME RecordInv, [RecordNext]_recordVars PROVE RecordInv'  OBVIOUS
  <2>1. CASE UNCHANGED recordVars
    BY <2>1 DEF recordVars, RecordInv, RecordType, AttrsFollow, CandidateFollows,
       StartFollows, SaysUser, SaysGit, RootSpans, Closest
  <2> QED  BY <2>1, ReadNext, CorrectNext DEF RecordNext
<1>2. RecordInv => RecordFollowsPriority
  <2> SUFFICES ASSUME RecordInv, corrected PROVE RecordFollowsPriority
    BY DEF RecordFollowsPriority
  <2>1. RecordType /\ SaysUser \in SUBSET DOMAIN batch /\ SaysGit \in SUBSET DOMAIN batch
    BY DEF RecordInv, SaysUser, SaysGit
  <2>2. DOMAIN batch \in SUBSET Nat /\ RootSpans \in SUBSET Nat
    BY <2>1 DEF RecordType, RootSpans
  <2>3. traceRow.user = Authority(SaysUser) /\ traceRow.git = Authority(SaysGit)
    BY <2>1, AuthorityIs DEF RecordInv, AttrsFollow, StartFollows
  <2>4. RootSpans # {} => traceRow.start = Max(RootSpans) /\ traceRow.name = Max(RootSpans)
    BY <2>2, GreatestIsMax DEF RecordInv, StartFollows, CandidateFollows
  <2>5. ASSUME RootSpans = {}
        PROVE  /\ traceRow.start = 1
               /\ traceRow.name = IF batch[Shallowest].pathed THEN PathName ELSE Shallowest
    <3>1. batch # <<>> /\ traceRow.start = 1 /\ traceRow.name = candidate.name
      BY <2>5 DEF RecordInv, StartFollows
    <3>2. PICK c \in DOMAIN batch :
             /\ Closest(c)
             /\ candidate = [depth |-> batch[c].depth,
                             name  |-> IF batch[c].pathed THEN PathName ELSE c]
      BY <2>5, <3>1 DEF RecordInv, CandidateFollows
    <3>3. Others = DOMAIN batch  BY <2>5 DEF Others
    <3>4. \A k \in DOMAIN batch : batch[k].depth \in Nat
      BY <2>1, ShapeFields DEF RecordType
    <3> DEFINE S == {k \in Others : \A j \in Others : batch[k].depth <= batch[j].depth}
    <3>5. S \in SUBSET Nat  BY <2>2, <3>3
    <3>6. Smallest(c, S)
      <4>1. c \in S  BY <3>2, <3>3 DEF Closest
      <4>2. ASSUME NEW k \in S PROVE c <= k
        <5>1. k \in DOMAIN batch /\ batch[k].depth <= batch[c].depth  BY <3>3
        <5>2. batch[c].depth <= batch[k].depth  BY <3>2, <5>1 DEF Closest
        <5>3. batch[c].depth = batch[k].depth  BY <3>4, <5>1, <5>2
        <5> QED  BY <3>2, <5>1, <5>3 DEF Closest
      <4> QED  BY <4>1, <4>2 DEF Smallest
    <3>7. Shallowest = c  BY <3>5, <3>6, LeastIsMin DEF Shallowest
    <3> QED  BY <3>1, <3>2, <3>7
  <2> QED  BY <2>3, <2>4, <2>5 DEF RecordFollowsPriority, SaysUser, SaysGit
<1> QED  BY <1>1, <1>2, RecordInvInit, PTL DEF RecordSpec
=============================================================================
