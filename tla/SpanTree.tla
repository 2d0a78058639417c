------------------------------ MODULE SpanTree ------------------------------
(* The two panels of the trace viewer, the tree and the timeline (ui:      *)
(* features/traces). Both are scrolled together row by row, and each       *)
(* derives its rows from the spans in the query cache by code of its own:  *)
(* the tree recursively, dropping rows below a collapsed span afterwards,  *)
(* the timeline with a stack that never enters a collapsed span. Spans     *)
(* arrive children first, so both put placeholders for the ancestors that  *)
(* a span names and nobody has sent yet (enrichSpansWithPending).          *)
(*                                                                         *)
(* The order of the cached array is left out, as every use of it sorts.    *)
EXTENDS Naturals, FiniteSets
LOCAL INSTANCE SequencesExt

CONSTANTS
    Id,      \* spans of the trace, in the order of their ids
    Above,   \* Above[x]: parent_span_id, or NoSpan
    Path,    \* Path[x]: traceroot.span.ids_path, <<>> of a span without one
    StartOf, \* span_start_time
    EndOf,   \* span_end_time, once the span ended
    Opens    \* spans that are exported when they start, too

NoSpan   == 0
Endless  == 1000  \* +Infinity, the end of what has not ended
Versions == {"none", "open", "ended"}

ASSUME SpanAssumption ==
    /\ Id \subseteq Nat \ {NoSpan} /\ Opens \subseteq Id
    /\ \A x \in Id :
        /\ Above[x] \in Id \cup {NoSpan} /\ StartOf[x] \in Nat /\ EndOf[x] < Endless
        /\ Path[x] # <<>> => Path[x] = Append(Path[Above[x]], Above[x])

VARIABLES
    sent,      \* the version of each span that is stored
    answer,    \* what a fetch under way has read, or NoFetch
    cache,     \* the spans of the trace in the query cache, or NothingFetched
    collapsed, \* collapsedIds, "trace" not among them
    folded     \* whether "trace" is among them

treeVars == <<sent, answer, cache, collapsed, folded>>

NoFetch == <<>>
NothingFetched == {[id |-> NoSpan]}

TreeInit ==
    /\ sent = [x \in Id |-> "none"]
    /\ answer = NoFetch /\ cache = NothingFetched
    /\ collapsed = {} /\ folded = FALSE

-----------------------------------------------------------------------------
(* utils/index.ts *)

Ids(spans) == {s.id : s \in spans}

SpanOf(x, version) ==
    [id |-> x, parent |-> Above[x], start |-> StartOf[x], pending |-> FALSE,
     end |-> IF version = "ended" THEN EndOf[x] ELSE Endless]

(* compareSpansForStableDisplay: start, end, id. *)
Before(a, b) ==
    \/ a.start < b.start
    \/ a.start = b.start /\ a.end < b.end
    \/ a.start = b.start /\ a.end = b.end /\ a.id < b.id

(* enrichSpansWithPending: a placeholder for every ancestor that a path    *)
(* names, from the earliest of the spans that name it.                     *)
Naming(spans, x) == {s \in spans : ~s.pending /\ Contains(Path[s.id], x)}

Earliest(starts) == CHOOSE t \in starts : \A u \in starts : t <= u

FirstSeen(spans, x) ==
    LET old == {s.start : s \in {o \in spans : o.pending /\ o.id = x}} IN
    Earliest(IF old # {} THEN old ELSE {s.start : s \in Naming(spans, x)})

PlaceholderStart(spans, x) ==
    Earliest({s.start : s \in Naming(spans, x) \cup {o \in spans : o.pending /\ o.id = x}})

Placeholder(spans, x) ==
    LET path == Path[(CHOOSE s \in Naming(spans, x) : TRUE).id]
        i == CHOOSE n \in DOMAIN path : path[n] = x
    IN  [id |-> x, parent |-> IF i > 1 THEN path[i - 1] ELSE NoSpan,
         start |-> PlaceholderStart(spans, x), end |-> Endless, pending |-> TRUE]

Enriched(spans) ==
    LET received == {s \in spans : ~s.pending}
        named == UNION {ToSet(Path[s.id]) : s \in received}
    IN  received \cup {Placeholder(spans, x) : x \in named \ Ids(received)}

Children(spans, x) == {s \in spans : s.parent = x}

(* Roots, and orphans: spans whose parent has not arrived. *)
TopLevel(spans) ==
    {s \in spans : s.parent = NoSpan \/ s.parent \notin Ids(spans)}

Sorted(spans) == SetToSortSeq(spans, Before)

-----------------------------------------------------------------------------
(* SpanTreeView: buildSpanTree, getVisibleSpanRows and buildTreeRows. *)

RECURSIVE Traverse(_, _)
Traverse(spans, row) ==
    LET below == Sorted(Children(spans, row.id)) IN
    <<row>> \o FlattenSeq([i \in DOMAIN below |-> Traverse(spans, below[i])])

(* One of the ancestors from x on is collapsed. The walk looks at the      *)
(* first one that is absent, too, and ends there.                          *)
RECURSIVE UnderCollapsed(_, _)
UnderCollapsed(spans, x) ==
    \/ x \in collapsed
    \/ \E s \in spans : s.id = x /\ UnderCollapsed(spans, s.parent)

Visible(spans, row) == ~UnderCollapsed(spans, row.parent)

TreeRows ==
    LET spans == Enriched(cache)
        top   == Sorted(TopLevel(spans))
        rows  == FlattenSeq([i \in DOMAIN top |-> Traverse(spans, top[i])])
    IN  IF folded THEN <<>> ELSE SelectSeq(rows, LAMBDA row : Visible(spans, row))

(* SpanTimelineView: flattenTreeWithMetrics. *)

RECURSIVE Drain(_, _)
Drain(spans, stack) ==
    IF stack = <<>> THEN <<>>
    ELSE LET row  == Last(stack)
             next == IF row.id \in collapsed THEN {} ELSE Children(spans, row.id)
         IN  <<row>> \o Drain(spans, Front(stack) \o Reverse(Sorted(next)))

TimelineRows ==
    LET spans == Enriched(cache) IN
    IF folded THEN <<>> ELSE Drain(spans, Reverse(Sorted(TopLevel(spans))))

-----------------------------------------------------------------------------
(* The worker stores a version of a span. *)
Store(x, version) ==
    /\ \/ sent[x] = "none" /\ (version = "ended" \/ x \in Opens)
       \/ sent[x] = "open" /\ version = "ended"
    /\ version # "none"
    /\ sent' = [sent EXCEPT ![x] = version]
    /\ UNCHANGED <<answer, cache, collapsed, folded>>

(* The "spans" event: mergeSpans, then enrichSpansWithPending. It may come *)
(* late, and a trace that was not fetched takes no spans.                  *)
Merged(x, version) == {s \in cache : s.id # x} \cup {SpanOf(x, version)}

Deliver(x, version) ==
    /\ sent[x] # "none" /\ version \in {sent[x]} \cup {v \in {"open"} : x \in Opens}
    /\ cache # NothingFetched
    /\ cache' = Enriched(Merged(x, version))
    /\ UNCHANGED <<sent, answer, collapsed, folded>>

(* The trace is fetched when the panel opens, when it is complete, and     *)
(* when the window is focused; the answer takes the place of the cache.    *)
BeginFetch ==
    /\ answer = NoFetch
    /\ \E x \in Id : sent[x] # "none"
    /\ answer' = sent
    /\ UNCHANGED <<sent, cache, collapsed, folded>>

Answer ==
    /\ answer # NoFetch
    /\ cache' = {SpanOf(x, answer[x]) : x \in {y \in Id : answer[y] # "none"}}
    /\ answer' = NoFetch
    /\ UNCHANGED <<sent, collapsed, folded>>

(* handleToggleCollapse, from the arrow of a visible row with children. *)
Toggle(x) ==
    /\ cache # NothingFetched /\ ~folded
    /\ LET spans == Enriched(cache) IN
         /\ Children(spans, x) # {}
         /\ \E s \in spans : s.id = x /\ Visible(spans, s)
    /\ collapsed' = IF x \in collapsed THEN collapsed \ {x} ELSE collapsed \cup {x}
    /\ UNCHANGED <<sent, answer, cache, folded>>

(* From the arrow of the trace, which is there as soon as a root is. *)
ToggleTrace ==
    /\ cache # NothingFetched
    /\ Children(Enriched(cache), NoSpan) # {}
    /\ folded' = ~folded
    /\ UNCHANGED <<sent, answer, cache, collapsed>>

(* The viewer goes to another trace and back. *)
Revisit ==
    /\ collapsed' = {} /\ folded' = FALSE
    /\ UNCHANGED <<sent, answer, cache>>

TreeNext ==
    \/ \E x \in Id :
        \/ \E version \in Versions : Store(x, version) \/ Deliver(x, version)
        \/ Toggle(x)
    \/ BeginFetch \/ Answer \/ ToggleTrace \/ Revisit

TreeSpec == TreeInit /\ [][TreeNext]_treeVars

-----------------------------------------------------------------------------
(* What the panels ought to show, in terms of the received spans only. *)

Received == {s \in cache : ~s.pending}
Shown    == Ids(Received) \cup UNION {ToSet(Path[x]) : x \in Ids(Received)}

(* The shown ancestors of x from the top, and x. *)
Lineage[x \in Id] ==
    IF Above[x] \in Shown THEN Append(Lineage[Above[x]], x) ELSE <<x>>

ShownSpan(x) ==
    IF x \in Ids(Received) THEN CHOOSE s \in Received : s.id = x
    ELSE [SpanOf(x, "open") EXCEPT !.start =
            Earliest({s.start : s \in Naming(Received, x)})]

(* Rows of ancestors come first, then siblings by start, end and id. *)
Precedes(x, y) ==
    LET a == Lineage[x]  b == Lineage[y]
        fork == Earliest({i \in 1 .. Len(a) + 1 : i > Len(a) \/ i > Len(b) \/ a[i] # b[i]})
    IN  \/ fork > Len(a)
        \/ fork <= Len(b) /\ Before(ShownSpan(a[fork]), ShownSpan(b[fork]))

(* Whatever arrived in whatever order, both panels have the same rows: one *)
(* for every received span and every ancestor named by one, orphans        *)
(* included, except below a collapsed row, each after its parent and       *)
(* siblings by start, end and id. ("any divergence silently misaligns      *)
(* them", buildTreeRows and flattenTreeWithMetrics; "Orphans are always    *)
(* visible", buildSpanTree.) An answer that was read before a collapsed    *)
(* span was stored can take that span out of the cache: until it is back   *)
(* the tree still hides what is below it, and the timeline does not.       *)
PanelsShowReceived ==
    cache # NothingFetched /\ collapsed \subseteq Shown =>
        LET tree == TreeRows
            rows == [i \in DOMAIN tree |-> tree[i].id]
            open == {x \in Shown : \A y \in ToSet(Lineage[x]) : y \in collapsed => y = x}
        IN  /\ tree = TimelineRows
            /\ ToSet(rows) = IF folded THEN {} ELSE open
            /\ \A i, j \in DOMAIN rows : i < j => Precedes(rows[i], rows[j])
=============================================================================
