---------------------------- MODULE TraceRecord -----------------------------
(* The trace record that transform_otel_to_clickhouse makes of the spans   *)
(* of one trace in one batch (otel_transform.py). The spans come in any    *)
(* order: an exporter sends a span when it ends, children first. The       *)
(* record is built as they are read, and corrected after the last.         *)
(*                                                                         *)
(* What a span says is told apart by its place in the batch: the name, the *)
(* user (and in the same way the session) and the git reference of the     *)
(* span at place i are i.                                                  *)
EXTENDS Naturals, Sequences, FiniteSetsExt

CONSTANTS MaxSpans, MaxDepth \* bounds: spans of the batch, length of a path

ASSUME RecordAssumption == MaxSpans \in Nat /\ MaxDepth \in Nat \ {0}

VARIABLES
    batch,     \* the spans read so far
    traceRow,  \* the record in traces, or NoRecord
    attrs,     \* trace_attrs and trace_git_attrs: the user and the git reference
    candidate, \* _trace_name_candidates: the best name so far, and its depth
    corrected  \* whether the corrections after the loop are made

recordVars == <<batch, traceRow, attrs, candidate, corrected>>

Unset    == 0
PathName == MaxSpans + 1  \* path[0], the name of the root in the path of any span
NoDepth  == MaxDepth + 1

(* depth is the length of the path of ids of a child, 1 without a path.    *)
Shapes ==
    [root : {TRUE}, depth : {0}, pathed : {FALSE}, user : BOOLEAN, git : BOOLEAN]
    \cup [root : {FALSE}, depth : 0 .. MaxDepth, pathed : {TRUE}, user : BOOLEAN, git : BOOLEAN]
    \cup [root : {FALSE}, depth : {1}, pathed : {FALSE}, user : BOOLEAN, git : BOOLEAN]

NoRecord == [start |-> Unset, name |-> Unset, user |-> Unset, git |-> Unset]

RecordInit ==
    /\ batch = <<>> /\ corrected = FALSE
    /\ traceRow = NoRecord
    /\ attrs = [user |-> Unset, git |-> Unset]
    /\ candidate = [depth |-> NoDepth, name |-> Unset]

-----------------------------------------------------------------------------
(* A root overwrites what is known, a child adds what is not.              *)
Or(a, b) == IF a # Unset THEN a ELSE b

FirstSaid(s, known, said) == Or(known, said)

Preferred(s, known, said) == IF s.root THEN Or(said, known) ELSE Or(known, said)

Said(has, i) == IF has THEN i ELSE Unset

AttrsWith(s, i) ==
    [user |-> Preferred(s, attrs.user, Said(s.user, i)),
     git  |-> Preferred(s, attrs.git, Said(s.git, i))]

(* A root is the best candidate, then the child closest to it.             *)
CandidateWith(s, i) ==
    IF s.root \/ s.depth < candidate.depth
    THEN [depth |-> s.depth, name |-> IF s.pathed THEN PathName ELSE i]
    ELSE candidate

(* The first span of the trace makes a shallow record, a root a full one.  *)
RecordWith(s, i) ==
    LET now == AttrsWith(s, i) IN
    IF s.root
    THEN [start |-> i, name |-> i, user |-> now.user, git |-> Or(now.git, traceRow.git)]
    ELSE IF traceRow = NoRecord
         THEN [start |-> i, name |-> i, user |-> now.user, git |-> now.git]
         ELSE traceRow

ReadSpan(s) ==
    LET i == Len(batch) + 1 IN
    /\ ~corrected /\ i <= MaxSpans
    /\ batch' = Append(batch, s)
    /\ attrs' = AttrsWith(s, i)
    /\ candidate' = CandidateWith(s, i)
    /\ traceRow' = RecordWith(s, i)
    /\ UNCHANGED corrected

(* After the loop: the name of the best candidate, the user if it is       *)
(* missing, the git reference if there is one.                             *)
Correct ==
    /\ ~corrected /\ batch # <<>>
    /\ traceRow' = [traceRow EXCEPT !.name = candidate.name,
                                !.user = Or(traceRow.user, attrs.user),
                                !.git  = Or(attrs.git, traceRow.git)]
    /\ corrected' = TRUE
    /\ UNCHANGED <<batch, attrs, candidate>>

RecordNext == Correct \/ \E s \in Shapes : ReadSpan(s)

RecordSpec == RecordInit /\ [][RecordNext]_recordVars

-----------------------------------------------------------------------------
RootSpans  == {i \in DOMAIN batch : batch[i].root}
Others == DOMAIN batch \ RootSpans

(* The last root that says it, else the first child. *)
Authority(says) ==
    IF says \cap RootSpans # {} THEN Max(says \cap RootSpans)
    ELSE IF says # {} THEN Min(says) ELSE Unset

Shallowest ==
    Min({i \in Others : \A j \in Others : batch[i].depth <= batch[j].depth})

(* In whatever order the spans of a batch come, a root gives the record    *)
(* its name and start, and without one the shallowest child its name; the  *)
(* user and the git reference are the root's, and of a child only where no *)
(* root has them. ("Priority: root span values > first child span values"; *)
(* "Batches may contain spans out of depth order, so the first span        *)
(* processed might not be the shallowest one", otel_transform.py)          *)
RecordFollowsPriority ==
    corrected =>
        /\ traceRow.user = Authority({i \in DOMAIN batch : batch[i].user})
        /\ traceRow.git  = Authority({i \in DOMAIN batch : batch[i].git})
        /\ RootSpans # {} => traceRow.start = Max(RootSpans) /\ traceRow.name = Max(RootSpans)
        /\ RootSpans = {} =>
             /\ traceRow.start = 1
             /\ traceRow.name = IF batch[Shallowest].pathed THEN PathName ELSE Shallowest
=============================================================================
