----------------------------- MODULE IngestTask -----------------------------
(***************************************************************************)
(* The ingest task of the Celery workers (backend/worker/ingest_tasks.py)  *)
(* with the detector trigger it calls (backend/worker/detector_tasks.py).  *)
(*                                                                         *)
(* A batch is one OTLP payload the API stored in S3.  Each worker takes    *)
(* a delivery of a batch and walks through process_s3_traces: download,    *)
(* probe ClickHouse for the traces whose root span the batch lacks, insert *)
(* trace records, insert spans, claim and enqueue detection for every      *)
(* trace whose root span it carries, publish the spans, acknowledge.       *)
(* Redis (the claims), BullMQ (the detection jobs) and ClickHouse (trace   *)
(* records, spans) are shared.  Workers interleave between any two calls   *)
(* they make, die (Celery then requeues the delivery), are overtaken by    *)
(* the broker's visibility timeout, and see any call fail, before or after *)
(* it took effect.                                                         *)
(***************************************************************************)
EXTENDS Naturals, FiniteSets

CONSTANTS
    Batch,           \* S3 objects handed to process_s3_traces
    Trace,           \* trace ids
    Worker,          \* Celery worker processes
    Touches,         \* Touches[b]: the traces batch b has spans of
    Roots,           \* Roots[b]: the traces whose root span is in batch b
    NoBatch,         \* "no delivery in hand"
    NoTrace,         \* "no trace being claimed"
    NoWorker,        \* "no claim token"
    MaxRetries,      \* max_retries of the task
    MaxDisruptions,  \* bound: worker deaths and visibility timeouts
    MaxExpiries      \* bound: traces whose claims outlive _LOCK_TTL_SECONDS

ASSUME TraceAssumption ==
    /\ Touches \in [Batch -> SUBSET Trace]
    /\ Roots \in [Batch -> SUBSET Trace]
    /\ \A b \in Batch : Roots[b] \subseteq Touches[b]

ASSUME NullAssumption ==
    /\ NoBatch \notin Batch
    /\ NoTrace \notin Trace
    /\ NoWorker \notin Worker

ASSUME BoundAssumption ==
    /\ MaxRetries \in Nat
    /\ MaxDisruptions \in Nat
    /\ MaxExpiries \in Nat

VARIABLES
    queue,        \* deliveries the broker can hand out: <<batch, retries>>
    acked,        \* batches whose task returned and was acknowledged
    failed,       \* batches whose last retry raised
    pc,           \* pc[w]: the next step of worker w
    hand,         \* hand[w]: the delivery w is processing
    keep,         \* keep[w]: the trace records w is going to insert
    todo,         \* todo[w]: root-bearing traces w has not been through yet
    cur,          \* cur[w]: the trace whose claim w holds in its hands
    record,       \* record[t]: the winning row of t in the traces table
    spans,        \* batches whose spans are in the spans table
    lock,         \* lock[t]: the Redis key detector-enq:<project>:<trace>
    job,          \* job[t]: the BullMQ job <project>--<trace>
    added,        \* added[t]: how many jobs BullMQ created for t
    decided,      \* traces for which a verdict was written or a job created
    dropped,      \* traces given up on after an error that was only logged
    orphaned,     \* traces a worker died on while it held their claim
    released,     \* traces whose claim was given back
    expired,      \* traces whose claim outlived its TTL
    disruptions

vars == <<queue, acked, failed, pc, hand, keep, todo, cur, record, spans,
          lock, job, added, decided, dropped, orphaned, released, expired,
          disruptions>>

broker  == <<queue, acked, failed>>
tables  == <<record, spans>>
redis   == <<lock, job, added>>
history == <<decided, dropped, orphaned, released>>
budgets == <<disruptions, expired>>

Delivery == Batch \X (0 .. MaxRetries)
Idle     == <<NoBatch, 0>>
Free     == [state |-> "free", token |-> NoWorker]

Claimed(state, w) == [state |-> state, token |-> w]

(* The steps of the task, and those inside a claim. *)
Steps == {"idle", "download", "probe", "records", "spans", "detectors",
          "claim", "decide", "add", "mark", "release", "publish"}
Claiming == {"decide", "add", "mark"}

Init ==
    /\ queue = {<<b, 0>> : b \in Batch}
    /\ acked = {} /\ failed = {}
    /\ pc = [w \in Worker |-> "idle"]
    /\ hand = [w \in Worker |-> Idle]
    /\ keep = [w \in Worker |-> {}]
    /\ todo = [w \in Worker |-> {}]
    /\ cur = [w \in Worker |-> NoTrace]
    /\ record = [t \in Trace |-> "none"]
    /\ spans = {}
    /\ lock = [t \in Trace |-> Free]
    /\ job = [t \in Trace |-> "absent"]
    /\ added = [t \in Trace |-> 0]
    /\ decided = {} /\ dropped = {} /\ orphaned = {} /\ released = {}
    /\ expired = {} /\ disruptions = 0

-----------------------------------------------------------------------------
(* Deliveries. *)

Goto(w, step) == pc' = [pc EXCEPT ![w] = step]

(* The worker forgets everything: the task returned, raised, or it died. *)
Reset(w) ==
    /\ Goto(w, "idle")
    /\ hand' = [hand EXCEPT ![w] = Idle]
    /\ keep' = [keep EXCEPT ![w] = {}]
    /\ todo' = [todo EXCEPT ![w] = {}]
    /\ cur' = [cur EXCEPT ![w] = NoTrace]

Take(w) ==
    /\ pc[w] = "idle"
    /\ \E d \in queue :
          /\ queue' = queue \ {d}
          /\ hand' = [hand EXCEPT ![w] = d]
    /\ Goto(w, "download")
    /\ UNCHANGED <<acked, failed, keep, todo, cur, tables, redis, history, budgets>>

(* The retries of a delivery that still has some, one less each time. *)
RetryOfNothing(b, r) == {}
RetryOf(b, r) == {<<b, r + 1>>}

(* An exception leaves the task: Celery retries it, or gives up. *)
Raise(w) ==
    LET b == hand[w][1]
        r == hand[w][2]
    IN  /\ \/ /\ r < MaxRetries
              /\ queue' = queue \cup RetryOf(b, r)
              /\ failed' = failed
           \/ /\ r = MaxRetries
              /\ failed' = failed \cup {b}
              /\ queue' = queue
        /\ Reset(w)

(* The calls before the detector trigger raise out of the task. *)
TaskError(w) ==
    /\ pc[w] \in {"download", "probe", "records", "spans"}
    /\ Raise(w)
    /\ UNCHANGED <<acked, tables, redis, history, budgets>>

(* task_reject_on_worker_lost: the delivery of a dead worker is requeued;  *)
(* what it had written to Redis stays there.                               *)
Die(w) ==
    /\ pc[w] # "idle"
    /\ disruptions < MaxDisruptions
    /\ disruptions' = disruptions + 1
    /\ queue' = queue \cup {hand[w]}
    /\ orphaned' = orphaned \cup ({cur[w]} \cap Trace)
    /\ Reset(w)
    /\ UNCHANGED <<acked, failed, tables, redis, decided, dropped, released,
                   expired>>

(* visibility_timeout: an unacknowledged delivery is handed out again while *)
(* its worker is still busy with it.                                        *)
Redeliver(w) ==
    /\ pc[w] # "idle"
    /\ disruptions < MaxDisruptions
    /\ disruptions' = disruptions + 1
    /\ queue' = queue \cup {hand[w]}
    /\ UNCHANGED <<acked, failed, pc, hand, keep, todo, cur, tables, redis,
                   history, expired>>

-----------------------------------------------------------------------------
(* Writing the batch to ClickHouse. *)

(* Download and transform; a batch with every root needs no probe. *)
Download(w) ==
    LET b == hand[w][1]
    IN  /\ pc[w] = "download"
        /\ keep' = [keep EXCEPT ![w] = Touches[b]]
        /\ Goto(w, IF Touches[b] \subseteq Roots[b] THEN "records" ELSE "probe")
        /\ UNCHANGED <<broker, hand, todo, cur, tables, redis, history, budgets>>

(* Keep the records of traces whose root is here or that are new. *)
KeepAll(b, t)      == TRUE
KeepRootOnly(b, t) == t \in Roots[b]
Keeps(b, t)        == t \in Roots[b] \/ record[t] = "none"

Probe(w) ==
    LET b == hand[w][1]
    IN  /\ pc[w] = "probe"
        /\ keep' = [keep EXCEPT ![w] =
                       {t \in @ : Keeps(b, t)}]
        /\ Goto(w, "records")
        /\ UNCHANGED <<broker, hand, todo, cur, tables, redis, history, budgets>>

(* The latest row of a trace replaces the earlier ones: it is named after  *)
(* the root span if the batch has it, else after the shallowest span.      *)
InsertRecords(w) ==
    LET b == hand[w][1]
    IN  /\ pc[w] = "records"
        /\ record' = [t \in Trace |->
                        IF t \in keep[w]
                          THEN IF t \in Roots[b] THEN "root" ELSE "path"
                          ELSE record[t]]
        /\ Goto(w, "spans")
        /\ UNCHANGED <<broker, hand, keep, todo, cur, spans, redis, history, budgets>>

InsertSpans(w) ==
    LET b == hand[w][1]
    IN  /\ pc[w] = "spans"
        /\ spans' = spans \cup {b}
        /\ Goto(w, IF Roots[b] = {} THEN "publish" ELSE "detectors")
        /\ UNCHANGED <<broker, hand, keep, todo, cur, record, redis, history, budgets>>

(* The insert reached ClickHouse and its answer was lost. *)
InsertSpansLost(w) ==
    /\ pc[w] = "spans"
    /\ spans' = spans \cup {hand[w][1]}
    /\ Raise(w)
    /\ UNCHANGED <<acked, record, redis, history, budgets>>

(* Publish to the live channel (never raises), return, acknowledge. *)
Publish(w) ==
    /\ pc[w] = "publish"
    /\ acked' = acked \cup {hand[w][1]}
    /\ Reset(w)
    /\ UNCHANGED <<queue, failed, tables, redis, history, budgets>>

-----------------------------------------------------------------------------
(* enqueue_detector_runs: the errors of this part never leave it. *)

(* The traces to claim: every one whose root is here, whatever else is known. *)
FirstSeenIn(b) == {t \in Roots[b] : \A c \in spans \ {b} : t \notin Touches[c]}
ToClaim(b)     == Roots[b]

ReadDetectors(w) ==
    /\ pc[w] = "detectors"
    /\ todo' = [todo EXCEPT ![w] = ToClaim(hand[w][1])]
    /\ Goto(w, "claim")
    /\ UNCHANGED <<broker, hand, keep, cur, tables, redis, history, budgets>>

(* Reading detectors or summaries failed: the whole batch is given up. *)
ReadDetectorsError(w) ==
    /\ pc[w] = "detectors"
    /\ dropped' = dropped \cup Roots[hand[w][1]]
    /\ Goto(w, "publish")
    /\ UNCHANGED <<broker, hand, keep, todo, cur, tables, redis, decided,
                   orphaned, released, budgets>>

(* SET NX succeeds on an absent key alone; a check of the state in its     *)
(* value would let a claim in progress, a no or a yes be taken again.      *)
UnlessSettled(t) == lock[t].state \in {"free", "deciding"}
UnlessPending(t) == lock[t].state \notin {"deciding", "pending"}
UnlessNo(t)      == lock[t].state \notin {"deciding", "sampled_out"}
Unclaimed(t)     == lock[t] = Free

(* The claim is ours, or someone else has been here. *)
Claim(w, t) ==
    /\ pc[w] = "claim" /\ t \in todo[w]
    /\ todo' = [todo EXCEPT ![w] = @ \ {t}]
    /\ IF Unclaimed(t)
         THEN /\ lock' = [lock EXCEPT ![t] = Claimed("deciding", w)]
              /\ cur' = [cur EXCEPT ![w] = t]
              /\ Goto(w, "decide")
         ELSE UNCHANGED <<lock, cur, pc>>
    /\ UNCHANGED <<broker, hand, keep, tables, job, added, history, budgets>>

(* The SET raised.  It stands outside the try that gives a claim back, so  *)
(* a claim that was taken before its answer was lost stays taken.          *)
ClaimError(w, t) ==
    /\ pc[w] = "claim" /\ t \in todo[w]
    /\ todo' = [todo EXCEPT ![w] = @ \ {t}]
    /\ \/ lock' = lock
       \/ /\ Unclaimed(t)
          /\ lock' = [lock EXCEPT ![t] = Claimed("deciding", w)]
    /\ dropped' = dropped \cup {t}
    /\ UNCHANGED <<broker, pc, hand, keep, cur, tables, job, added, decided,
                   orphaned, released, budgets>>

(* No detector's conditions and sampling pass: write the sticky no. *)
DecideNo(w) ==
    /\ pc[w] = "decide"
    /\ lock' = [lock EXCEPT ![cur[w]] = Claimed("sampled_out", w)]
    /\ decided' = decided \cup {cur[w]}
    /\ cur' = [cur EXCEPT ![w] = NoTrace]
    /\ Goto(w, "claim")
    /\ UNCHANGED <<broker, hand, keep, todo, tables, job, added, dropped,
                   orphaned, released, budgets>>

DecideYes(w) ==
    /\ pc[w] = "decide"
    /\ Goto(w, "add")
    /\ UNCHANGED <<broker, hand, keep, todo, cur, tables, redis, history, budgets>>

(* What queue.add leaves behind: an id BullMQ still knows is a no-op. *)
AddedTo(t) ==
    IF job[t] = "absent"
      THEN /\ job' = [job EXCEPT ![t] = "queued"]
           /\ added' = [added EXCEPT ![t] = @ + 1]
      ELSE UNCHANGED <<job, added>>

Add(w) ==
    /\ pc[w] = "add"
    /\ AddedTo(cur[w])
    /\ decided' = decided \cup {cur[w]}
    /\ Goto(w, "mark")
    /\ UNCHANGED <<broker, hand, keep, todo, cur, tables, lock, dropped,
                   orphaned, released, budgets>>

(* The last write of the claim, whatever the key holds by now. *)
Mark(w) ==
    /\ pc[w] = "mark"
    /\ lock' = [lock EXCEPT ![cur[w]] = Claimed("pending", w)]
    /\ cur' = [cur EXCEPT ![w] = NoTrace]
    /\ Goto(w, "claim")
    /\ UNCHANGED <<broker, hand, keep, todo, tables, job, added, history, budgets>>

(* A call inside the try raised, after taking effect or before. *)
ClaimingError(w) ==
    LET t == cur[w]
    IN  /\ pc[w] \in Claiming
        /\ \/ UNCHANGED <<redis, decided>>
           \/ /\ pc[w] = "decide"
              /\ lock' = [lock EXCEPT ![t] = Claimed("sampled_out", w)]
              /\ decided' = decided \cup {t}
              /\ UNCHANGED <<job, added>>
           \/ /\ pc[w] = "add"
              /\ AddedTo(t)
              /\ decided' = decided \cup {t}
              /\ lock' = lock
           \/ /\ pc[w] = "mark"
              /\ lock' = [lock EXCEPT ![t] = Claimed("pending", w)]
              /\ UNCHANGED <<job, added, decided>>
        /\ dropped' = dropped \cup {t}
        /\ Goto(w, "release")
        /\ UNCHANGED <<broker, hand, keep, todo, cur, tables, orphaned, released,
                       budgets>>

(* _release_lock_if_value: compare with the value this attempt wrote. *)
WroteAnything(w, t) == lock[t].state = "deciding"
Wrote(w, t)         == lock[t] = Claimed("deciding", w)

Release(w) ==
    LET t == cur[w]
    IN  /\ pc[w] = "release"
        /\ IF Wrote(w, t)
             THEN /\ lock' = [lock EXCEPT ![t] = Free]
                  /\ released' = released \cup {t}
             ELSE UNCHANGED <<lock, released>>
        /\ cur' = [cur EXCEPT ![w] = NoTrace]
        /\ Goto(w, "claim")
        /\ UNCHANGED <<broker, hand, keep, todo, tables, job, added, decided,
                       dropped, orphaned, budgets>>

(* The release itself failed: the claim stays until its TTL. *)
ReleaseError(w) ==
    /\ pc[w] = "release"
    /\ cur' = [cur EXCEPT ![w] = NoTrace]
    /\ Goto(w, "claim")
    /\ UNCHANGED <<broker, hand, keep, todo, tables, redis, history, budgets>>

LoopDone(w) ==
    /\ pc[w] = "claim" /\ todo[w] = {}
    /\ Goto(w, "publish")
    /\ UNCHANGED <<broker, hand, keep, todo, cur, tables, redis, history, budgets>>

-----------------------------------------------------------------------------
(* Redis and BullMQ on their own. *)

Expire(t) ==
    /\ lock[t] # Free
    /\ expired' = expired \cup {t}
    /\ Cardinality(expired') <= MaxExpiries
    /\ lock' = [lock EXCEPT ![t] = Free]
    /\ UNCHANGED <<broker, pc, hand, keep, todo, cur, tables, job, added,
                   history, disruptions>>

(* The detector worker finishes the job; BullMQ keeps it for a while, then *)
(* forgets it (removeOnComplete, removeOnFail) and its id is free again.   *)
JobMoves(t) ==
    /\ \/ job[t] = "queued" /\ job' = [job EXCEPT ![t] = "finished"]
       \/ job[t] = "finished" /\ job' = [job EXCEPT ![t] = "absent"]
    /\ UNCHANGED <<broker, pc, hand, keep, todo, cur, tables, lock, added,
                   history, budgets>>

-----------------------------------------------------------------------------
Work(w) ==
    \/ Take(w) \/ Download(w) \/ Probe(w) \/ InsertRecords(w) \/ InsertSpans(w)
    \/ ReadDetectors(w) \/ DecideNo(w) \/ DecideYes(w) \/ Add(w) \/ Mark(w)
    \/ Release(w) \/ LoopDone(w) \/ Publish(w)
    \/ \E t \in Trace : Claim(w, t)

Trouble(w) ==
    \/ TaskError(w) \/ Die(w) \/ Redeliver(w) \/ InsertSpansLost(w)
    \/ ReadDetectorsError(w) \/ ClaimingError(w) \/ ReleaseError(w)
    \/ \E t \in Trace : ClaimError(w, t)

Next ==
    \/ \E w \in Worker : Work(w) \/ Trouble(w)
    \/ \E t \in Trace : Expire(t) \/ JobMoves(t)

Spec == Init /\ [][Next]_vars

(* A worker that is up keeps working, and takes from a queue that is not   *)
(* empty: nothing in the task waits for anyone else.                       *)
FairSpec == Spec /\ \A w \in Worker : WF_vars(Work(w))

-----------------------------------------------------------------------------
(* Properties. *)

LockValue == [state : {"free", "deciding", "sampled_out", "pending"},
              token : Worker \cup {NoWorker}]

(* The range of every variable; a busy worker has a delivery in hand, and  *)
(* a trace in hand exactly inside a claim.                                 *)
TypeOK ==
    /\ queue \subseteq Delivery
    /\ acked \subseteq Batch /\ failed \subseteq Batch
    /\ pc \in [Worker -> Steps]
    /\ hand \in [Worker -> Delivery \cup {Idle}]
    /\ keep \in [Worker -> SUBSET Trace]
    /\ todo \in [Worker -> SUBSET Trace]
    /\ cur \in [Worker -> Trace \cup {NoTrace}]
    /\ record \in [Trace -> {"none", "path", "root"}]
    /\ spans \subseteq Batch
    /\ lock \in [Trace -> LockValue]
    /\ job \in [Trace -> {"absent", "queued", "finished"}]
    /\ added \in [Trace -> Nat]
    /\ decided \subseteq Trace /\ dropped \subseteq Trace
    /\ orphaned \subseteq Trace /\ released \subseteq Trace
    /\ disruptions \in 0 .. MaxDisruptions
    /\ expired \subseteq Trace
    /\ \A w \in Worker : (pc[w] = "idle") <=> (hand[w] = Idle)
    /\ \A w \in Worker : (pc[w] \in Claiming \cup {"release"}) <=> (cur[w] # NoTrace)

(* Spans are never in the spans table before their trace has a record:     *)
(* whatever a probe skipped, somebody has written (eager trace creation).  *)
SpansHaveRecord ==
    \A b \in spans : \A t \in Touches[b] : record[t] # "none"

(* The strengthening of SpansHaveRecord: a worker about to insert records  *)
(* holds one for every trace of its batch that has none yet, and after     *)
(* that insert none is missing.                                            *)
RecordInv ==
    /\ SpansHaveRecord
    /\ \A w \in Worker : pc[w] = "probe" => keep[w] = Touches[hand[w][1]]
    /\ \A w \in Worker : pc[w] = "records" =>
          \A t \in Touches[hand[w][1]] \ keep[w] : record[t] # "none"
    /\ \A w \in Worker : pc[w] = "spans" =>
          \A t \in Touches[hand[w][1]] : record[t] # "none"

(* Until a claim of the trace outlives its TTL, two workers are never      *)
(* between the claim and the last write of it for that trace, whatever     *)
(* deliveries are duplicated, whoever dies, and whatever claims of other   *)
(* traces do (exactly-once holds either way).                              *)
ExclusiveClaim ==
    \A w1, w2 \in Worker :
        /\ pc[w1] \in Claiming /\ pc[w2] \in Claiming
        /\ cur[w1] = cur[w2] /\ cur[w1] \notin expired
        => w1 = w2

(* No second detection job is created for a trace, even after BullMQ has   *)
(* forgotten the first, as long as its claim neither expired nor was given *)
(* back by a failed attempt.                                               *)
NoSecondJob ==
    \A t \in Trace : t \notin expired \cup released => added[t] <= 1

(* The strengthening of the claim properties: a worker inside a claim that *)
(* cannot have expired finds its own undecided value in the key, and a     *)
(* trace that has its job has a key, unless the claim was given back.      *)
ClaimInv ==
    /\ \A w \in Worker :
          pc[w] \in Claiming /\ cur[w] \notin expired
              => lock[cur[w]] = Claimed("deciding", w)
    /\ \A t \in Trace \ expired : t \notin released /\ added[t] > 0 =>
          /\ added[t] = 1 /\ lock[t] # Free
          /\ \A w \in Worker : pc[w] \in {"decide", "add"} => cur[w] # t

(* A replay never re-rolls a sticky no: until the key expires it stays as  *)
(* it is, and no job appears for the trace.                                *)
StickyNo ==
    [][\A t \in Trace :
          lock[t].state = "sampled_out" /\ t \notin expired'
            => lock'[t] = lock[t] /\ added'[t] = added[t]]_vars

(* A failing attempt never deletes what a successor wrote, expiry or not:  *)
(* the step of a worker that makes a key disappear is the release of the   *)
(* worker whose undecided claim it is (a key may also outlive its TTL).    *)
ReleaseOnlyOwn ==
    [][\A t \in Trace :
          lock[t] # Free /\ lock'[t] = Free /\ pc' # pc
            => \E w \in Worker : /\ lock[t] = Claimed("deciding", w)
                                 /\ pc[w] = "release" /\ cur[w] = t]_vars

(* Once the root span of a trace was processed, detection was decided for  *)
(* the trace, somebody is at it, or a worker died or failed holding it.    *)
RootsAccountedFor ==
    \A b \in acked : \A t \in Roots[b] :
        \/ t \in decided \cup dropped \cup orphaned
        \/ \E w \in Worker : cur[w] = t

(* Every batch handed to the broker is processed to the end or exhausts    *)
(* its retries.                                                            *)
EveryBatchSettles == \A b \in Batch : <>(b \in acked \cup failed)

(* A record named after the root span is never overwritten by a batch      *)
(* without it ("must not overwrite a correctly-named trace record").       *)
RootNameKept ==
    [][\A t \in Trace : record[t] = "root" => record'[t] = "root"]_vars

(* The batch that carries the root span triggers detection: once no work   *)
(* is left, a trace whose root span was processed has been decided, or the *)
(* error that kept it from being decided was logged.                       *)
RootTriggersDetection ==
    (queue = {} /\ \A w \in Worker : pc[w] = "idle")
        => \A b \in acked : Roots[b] \subseteq decided \cup dropped
=============================================================================
