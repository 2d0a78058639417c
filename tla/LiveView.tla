------------------------------ MODULE LiveView ------------------------------
(***************************************************************************)
(* Watching a trace that is still being ingested: the ingest worker stores *)
(* a batch in ClickHouse and then publishes it on the trace's Redis        *)
(* channel (_publish_live_spans), the SSE endpoint forwards the channel    *)
(* (rest/routers/live.py), and the browser merges the events into the      *)
(* trace it fetched (use-trace-stream.ts).                                 *)
(*                                                                         *)
(* Deadlines are what is left of them, in ticks, and saturate at zero.     *)
(***************************************************************************)
EXTENDS Integers, Sequences

CONSTANTS
    Batch,       \* span batches of the trace
    RootBatch,   \* the batch with the ended root span
    Quiet,       \* TRACE_COMPLETE_QUIET_SECONDS
    Ceiling,     \* MAX_STREAM_SECONDS
    MaxDrops,    \* bound: connections that break
    LossyPublish \* whether a publish may fail

ASSUME LiveAssumption ==
    /\ RootBatch \in Batch
    /\ Quiet \in Nat \ {0} /\ Ceiling \in Nat \ {0} /\ MaxDrops \in Nat
    /\ LossyPublish \in BOOLEAN

VARIABLES
    stored,     \* batches in ClickHouse
    unsent,     \* stored batches the worker has yet to publish
    age,        \* ticks since the last insert, at most Quiet
    server,     \* the SSE handler: "off", "subscribed" or "loop"
    buffer,     \* messages the subscription holds
    quiet,      \* what is left of completion_deadline, or NoDeadline
    ttl,        \* what is left of the hard deadline
    source,     \* the EventSource: "connecting", "open", "refused" or "done"
    view,       \* batches the trace in the query cache shows
    loaded,     \* whether there is a trace in the query cache
    wanted,     \* a fetch of the trace is due
    loading,    \* whether a fetch is under way
    fetched,    \* what it has read
    heard,      \* ghost: ticks since the stream heard of a batch, at most Quiet
    final,      \* ghost: what was stored when trace_complete was sent
    raced,      \* ghost: trace_complete found the first fetch under way
    drops

ingest == <<stored, unsent, age>>
stream == <<server, buffer, quiet, ttl>>
client == <<source, view, loaded, wanted, loading, fetched>>
query  == <<loaded, wanted, loading, fetched>>
ghosts == <<heard, final, raced>>
vars   == <<ingest, stream, client, ghosts, drops>>

NoDeadline == -1

Spans(b)   == <<"spans", b>>
Complete   == <<"trace_complete", RootBatch>>
Messages   == {Spans(b) : b \in Batch} \cup {Complete}

Init ==
    /\ stored = {} /\ unsent = {} /\ age = Quiet
    /\ server = "off" /\ buffer = <<>> /\ quiet = NoDeadline /\ ttl = 0
    /\ source = "connecting" /\ view = {} /\ loaded = FALSE
    /\ wanted = TRUE /\ loading = FALSE /\ fetched = {}
    /\ heard = Quiet /\ final = {} /\ raced = FALSE /\ drops = 0

-----------------------------------------------------------------------------
(* The ingest worker. *)

Insert(b) ==
    /\ b \notin stored
    /\ stored' = stored \cup {b}
    /\ unsent' = unsent \cup {b}
    /\ age' = 0
    /\ UNCHANGED <<stream, client, ghosts, drops>>

(* A publish reaches whoever is subscribed now, and nobody else. *)
Published(messages) == IF server = "off" THEN buffer ELSE buffer \o messages

(* The spans, and trace_complete after an ended root. *)
MessagesOf(b) == IF b = RootBatch THEN <<Spans(b), Complete>> ELSE <<Spans(b)>>

Publish(b) ==
    /\ b \in unsent
    /\ unsent' = unsent \ {b}
    /\ buffer' = Published(MessagesOf(b))
    /\ UNCHANGED <<stored, age, server, quiet, ttl, client, ghosts, drops>>

(* Redis fails on one of the messages; the worker logs it and goes on. *)
PublishFails(b) ==
    /\ LossyPublish
    /\ b \in unsent
    /\ unsent' = unsent \ {b}
    /\ \E n \in 0 .. Len(MessagesOf(b)) - 1 :
          buffer' = Published(SubSeq(MessagesOf(b), 1, n))
    /\ UNCHANGED <<stored, age, server, quiet, ttl, client, ghosts, drops>>

-----------------------------------------------------------------------------
(* The SSE endpoint. *)

(* Subscribe first, then check. *)
Connect ==
    /\ source = "connecting" /\ server = "off"
    /\ source' = "open"
    /\ server' = "subscribed" /\ buffer' = <<>>
    /\ UNCHANGED <<ingest, quiet, ttl, view, query, ghosts, drops>>

(* An HTTP error instead: no subscription, the retention check, a backend   *)
(* that is away.  An EventSource never tries again after one, and onerror   *)
(* only clears the streaming flag.                                          *)
Refused ==
    /\ source = "connecting" /\ server = "off"
    /\ source' = "refused"
    /\ UNCHANGED <<ingest, stream, view, query, ghosts, drops>>

(* A root that is stored already starts the quiet window, less its age. *)
NoInitialDeadline == NoDeadline
InitialDeadline == IF RootBatch \in stored THEN Quiet - age ELSE NoDeadline

Check ==
    /\ server = "subscribed"
    /\ server' = "loop"
    /\ quiet' = InitialDeadline
    /\ ttl' = Ceiling
    /\ heard' = age
    /\ UNCHANGED <<ingest, buffer, client, final, raced, drops>>

TurnedOff == server' = "off" /\ buffer' = <<>> /\ quiet' = NoDeadline /\ ttl' = 0

(* The browser merges the spans, if there is a trace to merge them into. *)
Merged(b) == IF loaded THEN view \cup {b} ELSE view

NotExtended == quiet
Extended == IF quiet = NoDeadline THEN NoDeadline ELSE Quiet

ForwardSpans ==
    /\ server = "loop" /\ ttl > 0
    /\ \E b \in Batch :
          /\ buffer # <<>> /\ Head(buffer) = Spans(b)
          /\ view' = Merged(b)
    /\ buffer' = Tail(buffer)
    /\ quiet' = Extended
    /\ heard' = 0
    /\ UNCHANGED <<ingest, server, ttl, source, query, final, raced, drops>>

HearComplete ==
    /\ server = "loop" /\ ttl > 0
    /\ buffer # <<>> /\ Head(buffer) = Complete
    /\ buffer' = Tail(buffer)
    /\ quiet' = Quiet
    /\ UNCHANGED <<ingest, server, ttl, client, ghosts, drops>>

(* The quiet window is over, or the ceiling is hit in it: trace_complete.  *)
(* What is in the buffer is dropped.  The browser closes the stream and    *)
(* invalidates the query.  That restarts a fetch that is under way, except *)
(* the first one: with no data yet the query returns the promise it has.   *)
NeverRestarted == loading
FirstFetchOnly == loading /\ ~loaded

SendComplete ==
    /\ server = "loop"
    /\ quiet = 0 \/ (ttl = 0 /\ quiet # NoDeadline)
    /\ TurnedOff
    /\ source' = "done"
    /\ loading' = FirstFetchOnly /\ wanted' = ~loading'
    /\ final' = stored /\ raced' = (loading /\ ~loaded)
    /\ UNCHANGED <<ingest, view, loaded, fetched, heard, drops>>

(* stream_timeout: the browser has no handler for it and reconnects. *)
SendTimeout ==
    /\ server = "loop"
    /\ ttl = 0 /\ quiet = NoDeadline
    /\ TurnedOff
    /\ source' = "connecting"
    /\ UNCHANGED <<ingest, view, query, ghosts, drops>>

(* The connection breaks: the handler unsubscribes, the browser reconnects. *)
Drop ==
    /\ drops < MaxDrops
    /\ server # "off"
    /\ TurnedOff
    /\ source' = "connecting"
    /\ drops' = drops + 1
    /\ UNCHANGED <<ingest, view, query, ghosts>>

-----------------------------------------------------------------------------
(* The browser's query. *)

(* The window gets the focus back, or the panel is mounted again. *)
Refocus ==
    /\ loaded /\ ~wanted /\ ~loading
    /\ wanted' = TRUE
    /\ UNCHANGED <<ingest, stream, source, view, loaded, loading, fetched, ghosts, drops>>

StartFetch ==
    /\ wanted /\ ~loading
    /\ wanted' = FALSE
    /\ loading' = TRUE /\ fetched' = stored
    /\ UNCHANGED <<ingest, stream, source, view, loaded, ghosts, drops>>

(* The answer replaces the cached trace, merged events included. *)
EndFetch ==
    /\ loading
    /\ view' = fetched /\ loaded' = TRUE
    /\ loading' = FALSE /\ fetched' = {}
    /\ UNCHANGED <<ingest, stream, source, wanted, ghosts, drops>>

-----------------------------------------------------------------------------
Less(n) == IF n > 0 THEN n - 1 ELSE n
More(n) == IF n < Quiet THEN n + 1 ELSE n

Tick ==
    /\ age' = More(age) /\ heard' = More(heard)
    /\ quiet' = Less(quiet) /\ ttl' = Less(ttl)
    /\ UNCHANGED <<stored, unsent, server, buffer, client, final, raced, drops>>

-----------------------------------------------------------------------------
Work     == \E b \in Batch : Publish(b) \/ PublishFails(b)
Serve    == \/ Check \/ ForwardSpans \/ HearComplete \/ SendComplete \/ SendTimeout
Browse   == Refocus \/ StartFetch \/ EndFetch

Next ==
    \/ \E b \in Batch : Insert(b)
    \/ Work \/ Connect \/ Refused \/ Serve \/ Browse \/ Drop \/ Tick

Spec == Init /\ [][Next]_vars

(* The worker, the handler, the browser and time go on, and a request for  *)
(* the stream gets an answer; that the answer is a stream, that a batch is *)
(* ever sent, or that a connection breaks, is not promised.                *)
FairSpec ==
    /\ Spec
    /\ WF_vars(Work) /\ WF_vars(Connect \/ Refused) /\ WF_vars(Serve)
    /\ WF_vars(StartFetch) /\ WF_vars(EndFetch) /\ WF_vars(Tick)

-----------------------------------------------------------------------------
(* Properties. *)

(* The range of every variable; a handler that is off holds nothing. *)
TypeOK ==
    /\ stored \subseteq Batch /\ unsent \subseteq stored
    /\ age \in 0 .. Quiet /\ heard \in 0 .. Quiet
    /\ server \in {"off", "subscribed", "loop"}
    /\ buffer \in Seq(Messages)
    /\ quiet \in 0 .. Quiet \cup {NoDeadline}
    /\ ttl \in 0 .. Ceiling
    /\ source \in {"connecting", "open", "refused", "done"}
    /\ view \subseteq Batch /\ final \subseteq Batch
    /\ loaded \in BOOLEAN /\ wanted \in BOOLEAN
    /\ loading \in BOOLEAN /\ raced \in BOOLEAN
    /\ fetched \subseteq Batch
    /\ drops \in 0 .. MaxDrops
    /\ (server = "off") <=> (source # "open")
    /\ server = "off" => buffer = <<>>

(* A stream that is closed as complete leaves the browser, once its fetch  *)
(* has ended, with the root and with everything that was stored when it    *)
(* was closed, whatever was dropped, lost or overwritten before ("Refetch  *)
(* to get the final consistent state"); not if it raced the first fetch.   *)
FinalView ==
    source = "done" /\ ~wanted /\ ~loading =>
        RootBatch \in final /\ (raced \/ final \subseteq view)

(* Below the ceiling the stream is closed only after a quiet window: none  *)
(* of the batches it heard of is younger ("the stream stays open for a     *)
(* short quiet window so late descendant spans still reach the client").   *)
QuietBeforeComplete ==
    [][source' = "done" /\ source # "done" /\ ttl > 0 => heard = Quiet]_vars

(* A trace whose ended root is stored is closed as complete in the end,    *)
(* even if its publish is lost or the connection breaks: the browser asks  *)
(* again, and the first check finds the root.  Only an HTTP error in answer *)
(* to one of these requests ends the stream without it.                     *)
ViewCompletes ==
    (RootBatch \in stored) ~>
        \/ source = "refused"
        \/ source = "done" /\ (raced \/ RootBatch \in view)
=============================================================================
