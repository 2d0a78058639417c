# TraceRoot: TLA+ models, checks and proofs

TraceRoot ingests OpenTelemetry traces of AI agents, stores them in ClickHouse,
runs LLM *detectors* over them, lets an agent do a root-cause analysis (RCA) of
what they find, alerts the project with windowed digests, shows traces live and
with an AI assistant beside them, and meters all of it for billing. This
directory holds the TLA+ models of the parts whose behaviour depends on the
order of steps, the TLC configurations that check them, and the theorems TLAPS
proves about them. Paths below are relative to the repository's root (`src/` in
the map).

1. [The system](#1-the-system)
2. [Modules](#2-modules)
3. [Runs and bounds](#3-runs-and-bounds)
4. [Fairness](#4-fairness)
5. [Proofs](#5-proofs)
6. [Disagreements with the documentation, and known gaps](#6-disagreements-with-the-documentation-and-known-gaps)
7. [What is not modelled](#7-what-is-not-modelled)
8. [Plan](#8-plan)

## 1. The system

| Component | Where | State it keeps | Operations | What makes it correct |
|---|---|---|---|---|
| Ingest API | `backend/rest/routers/public/`, `backend/rest/rate_limit.py` | counters in Redis or per replica, S3 objects, the Celery queue | authenticate, limit, decode, store, enqueue | a plan's limit holds over keys and replicas |
| Ingest task | `backend/worker/ingest_tasks.py` | ClickHouse `traces`, `spans` | download, transform, probe, insert records, insert spans, trigger detection, publish | spans have a record; the root's name stays; every batch settles |
| OTLP transform, tokens | `backend/worker/otel_transform.py`, `backend/worker/tokens/` | the record and the columns of a batch | read spans, prefer, correct; normalise, bucket, price | the record does not depend on the order; a token is priced once |
| Detection trigger | `backend/worker/detector_tasks.py` | the Redis claim `detector-enq:<project>:<trace>`, the BullMQ job `<project>--<trace>` | claim, decide (conditions, sampling), enqueue, mark, release | one job per trace; a *no* is not rolled again; a root is not forgotten |
| Settle wait | `handleDetectorRunJob` | the job's delay | ask the age, re-delay, evaluate | evaluated in time once quiet |
| Detection | `processTrace`, `evaluateTrace` in `frontend/worker/src/processors/detector-run-processor.ts` | ClickHouse `detector_findings`, `detector_runs`; Postgres `AIMessage`, `DetectorRca`; the RCA queue | judge, enter usage, write finding, write runs, seed row, enqueue RCA | nothing refers to a finding that is not stored; a scan is paid for once |
| RCA | `detector-rca-processor.ts` | the `DetectorRca` row, the digest queue | quota check, run agent, record, schedule flush | the row ends done or failed; the finding is alerted |
| Digest | `detector-digest-processor.ts` | nothing | count the window's findings, send | every finding in exactly one digest |
| Live view | `backend/rest/routers/live.py`, `use-trace-stream.ts` | a Redis subscription, deadlines; the browser's query cache | subscribe, check, forward, close; merge, refetch | the view ends with what is stored |
| Trace panels | `frontend/ui/src/features/traces` | the rows of tree and timeline, collapsed spans | add placeholders, order, collapse | both panels show the same rows |
| Assistant panel | `frontend/ui/src/features/ai-assistant` | messages, streams, generation, session | send, stop, close, switch, load history | the flag is about the last message; what is dead is silent |
| Agent service | `frontend/packages/agent` | sessions, agents, executors, containers, provider keys | create, post, delete, shut down | no container is left; a new key is used |
| Billing job | `frontend/worker/src/ee/billing/usageMetering.ts` | `workspace.currentUsage`, the cap flags; Stripe's meters | count, report the increase, set flags, write | billed once and in full; flags follow the plan |
| Quota mails | `usageNotifications.ts` | stamps per meter | decide, send, stamp | one mail per threshold |
| Subscription | `frontend/ui/src/app/api/billing/` | plan and subscription of a workspace; Stripe's subscription and schedule | checkout, change plan, webhook | the row follows Stripe; the last choice counts; meters stay |
| Workspaces, members, invites | `frontend/ui/src/app/api/workspaces`, `invites` | Postgres rows | create, invite, accept, add, change role, leave | the seat limit; an admin remains |
| Readers, dashboards, integrations, other UI | `backend/rest/services`, `frontend/ui`, `frontend/packages` | – | queries and rendering | – |

How they interact. The API hands a batch to the ingest task over Celery (at
least once: acknowledgement is late and a visibility timeout hands the batch
out again). The ingest task writes ClickHouse, adds a delayed BullMQ job per
trace with an ended root, and publishes to Redis pub/sub, from where the SSE
endpoint feeds the browser. The detector worker takes that job, puts it off
until the trace is quiet, asks the models, writes ClickHouse and Postgres
and adds the RCA job; the RCA worker runs the agent and adds the delayed flush
job of the finding's window; the flush counts ClickHouse rows. The hourly
billing job reads all of this, tells Stripe, sets the flags that detection,
RCA and ingest read, and mails; plan changes and the Stripe webhook change plan
and period underneath it. The assistant's panel talks to the agent service over
a stream of its own.

What is hard. No two of these stores share a transaction, so the order of
writes is all there is; every queue delivers at least once and Stripe in any
order; keys that deduplicate (the claim, BullMQ job ids, the ledger, the
stamps) expire, are evicted, or are written too early or too late; route
handlers check first and write later; the browser, the subscription and the
query race each other, and so do a stream, its abort and the next message;
windows and billing periods end while something is in flight. `PROJECT.json`
lists each of these hazards at its line.

## 2. Modules

| Module | Models | Theorems in | Checked in |
|---|---|---|---|
| `IngestTask` | ingest task and detection trigger | `IngestTaskProofs` | `MCIngestPath`, `MCIngestTask` |
| `TraceRecord` | the trace record of one batch | `TransformProofs` | `MCIngestPath` |
| `TokenUsage` | token counts, buckets, prices of one call | `TransformProofs` | `MCIngestPath` |
| `SpanTree` | the rows of tree and timeline | – | `MCIngestPath` |
| `Subscription` | plan changes, checkout, webhook, Stripe | `WorkspaceProofs` | `MCIngestPath` |
| `FindingPipeline` | detection, RCA and digest jobs | `FindingPipelineProofs` | `MCFindingPipeline`, `MCFindingOnce` |
| `RcaLifecycle` | what the product promises of one `DetectorRca` row (abstract) | `FindingPipelineProofs` | as a property of `FindingPipeline` |
| `ScanUsage` | the scans of a detection job and their usage rows | `DetectorJobProofs` | `MCFindingOnce` |
| `SettleWait` | the wait before a detection | `DetectorJobProofs` | `MCFindingOnce` |
| `Members` | workspace, members, roles, invites, seats | `WorkspaceProofs` | `MCFindingOnce` |
| `QuotaMail` | the usage mails of one meter | `WorkspaceProofs` | `MCFindingOnce` |
| `LiveView` | publishing, the SSE stream, the browser | `LiveViewProofs` | `MCLiveView` |
| `AgentService` | sessions, sandboxes, agents and keys of the agent service | `AssistantProofs` | `MCAssistant` |
| `AiChat` | the assistant panel's hooks | `AssistantProofs` | `MCAssistant`, itself |
| `IngestGate` | API key, plan and rate limit of the ingest route | `WorkspaceProofs` | `MCAssistant` |
| `BillingJob` | the billing job and the workspace under it | `BillingJobProofs` | `MCBillingJob` |

Parts that share state are in one module (claim and ingest task; detection, RCA
and digest; job, ledger and Stripe's meters). Parts that share none are checked
together without a product: `MCIngestPath`, `MCFindingOnce` and `MCAssistant`
choose in the initial state which component is `moving`, and
the others rest, so that the states of a run are the sum of its components'
and every invariant is checked in every state of its own component.

**IngestTask.** `pc[w]` is the next call worker `w` makes in
`process_s3_traces`; each call that leaves the process is one action, with a
variant in which it raises before, or after, it took effect (`InsertSpansLost`,
`ClaimError`, ...). `queue`, `acked` and `failed` are the broker; `hand[w]` is
the delivery in hand, with its retry count. `record[t]` says whether the row
that wins for `t` was named after the root span. `lock[t]` and `job[t]` are the Redis key and the
BullMQ job. A worker dies (`Die`) and its delivery returns; the
visibility timeout redelivers behind its back; a claim outlives its TTL
(`Expire`), which the history `expired` remembers for its trace. Which
traces a batch touches and roots are the constants `Touches` and `Roots`;
conditions and sampling are the choice between `DecideYes` and `DecideNo`.

**TraceRecord.** The loop of `transform_otel_to_clickhouse` over one trace, one
`ReadSpan` per span in any order, then `Correct`. A span's name, user and git
reference are its place in the batch, which is all that tells them apart.

**TokenUsage.** `Attributes(x)` is what one of eight kinds of emitter puts on the
model's span and on its wrapper, `Usage` what the transform reads of it,
`RowOf` the columns and the cost, `BucketsOfRow` what `span_cost_details` makes
of the columns again. Prices are per token and stay what they are.

**SpanTree.** `cache` is React Query's data of one trace, `sent` what is stored;
batches are delivered, a fetch answers late. `TreeRows` and `TimelineRows`
follow the two components' code, a recursion with a filter and a stack; the
property compares both with a definition over the received spans alone.

**FindingPipeline.** `det[t]`, `rca[t]` and `flush[s]` are BullMQ jobs (state,
attempts used, stalls, step, payload). A step is named for the last call that was
made, so that a death falls between any two calls. A job whose process died is
handed out again once; the second time BullMQ gives it up (`MaxStalls`, as no
worker sets `maxStalledCount`). A worker that loses its lock and goes on beside
its successor is not modelled. `finding`, `run[t]` and `row[t]`
are the tables. Time is a tick counter up to `Horizon`, a window is a number of ticks;
`Due(s)` is when a flush fires. `Flush` counts rows by their time stamp as the
window summary does and sends, `FlushDone` tells the queue, and a death in
between has the digest sent again. `Faults` chooses what may go wrong in an instance
(`FaultKinds` explains each), `MaxDisruptions` bounds how often the rare ones do.
Three histories say for which traces a property promises less: those that were
evaluated a second time (`again`), those whose RCA row a failed call, or a job
that was given up, has left open (`unclosed`; `CloseRow` is the best-effort write
whose failure the code swallows), and those of a digest whose worker died after it
had sent (`resent`). All others are held to it, whatever happens to their neighbours.
Detections start where `SettleWait` ends. `RcaLifecycle` says that a row goes
pending, running, done or failed and gets there; `LifecycleHolds` is the
refinement `status <- row`.

**SettleWait.** A clock in ticks; a waiting job starts, and an await is
answered, within `Lag`. `age` is what `time-since-last-span` said, `spent` adds
up the backoffs of failed attempts.

**ScanUsage.** All detectors of a job at once: each answer of a model costs one
call, in a loop that may tell it again to call the tool, inside a trace that may
break. `WriteUsage` is the one `createMany` of the attempt. `paid` and `lost`
are histories.

**LiveView.** One trace. `stored` is ClickHouse, `buffer` the subscription (a
publish without a subscriber is lost), `server` the handler before and after
its first check, `quiet` and `ttl` what is left of `completion_deadline` and of
the ten-minute ceiling. The browser has an `EventSource` (`source`), the cached
trace (`view`, once `loaded`), and a fetch that is `wanted` or under way
(`loading`, `fetched` is what it read). React Query is modelled from how the
hook uses it: an answer replaces the cached trace; invalidating restarts a
fetch, unless the query has no data yet, when it returns the promise it has.
Publishes fail (`LossyPublish`), connections break (`Drop`), the window gets
the focus (`Refocus`). A request for the stream, the first or one after a break,
is answered with the stream (`Connect`) or with an HTTP error (`Refused`:
`subscribe`, the retention check, an absent backend), after which an
`EventSource` asks no more. The viewer is mounted once; opening the trace again
starts this model again.

**AgentService.** Node runs one callback at a time, so an action is what happens
between two awaits. `row` is the session's row, `executor`, `agent` and `cache`
are the service's maps, `box` and `host` the containers. `turn[t]` is a message
request; `deleting`, `removing` and `stopping` are the other handlers. A cached
agent keeps the tools, and so the executor, it was built with
(`agent[s].exec`), whatever the map has become; `inits` counts the tool calls of a
turn that found no sandbox and are starting one, each a container. DELETE
destroys and forgets before it looks for the row, which stays (`RowStays`) when the
caller does not own it or the database fails. A `Crash`
empties the memory and leaves the containers, which `left` remembers.

**AiChat.** `run[n]` is the `n`th message with its stream; `generation`, `latest`
and `sending` are the refs of `useAIStream` and `useAiChat`; `view` is what the
panel shows, `loads` are histories being fetched.

**IngestGate.** `count` has one counter per store (Redis, and each replica's
memory) and key; a request carries the plan that validation read.

**BillingJob.** One workspace. `exec[r]` is a run: the snapshot `runBillingJob`
read before it processed any workspace, the counts, and the ledger it will
write (`next`). Steps are the three meter events and the quantity; a report is
`Accepted`, `Refused` (nothing recorded, or recorded and the call failed), or
not due. Amounts are billable units; the price formulas that map runs and
tokens to units are not modelled. Around it, `Use`, `Delete`, `ExceedCap` and
the webhook's `Renew`, `Upgrade`, `Downgrade` happen at any moment. `peak` and
`billed` are histories, and so is `astray`: the meters and periods for which a
failure kept what Stripe recorded out of the ledger (a refused AI report, a report
that was recorded although the call failed, the reports in flight of a run that
died or could not write; after runs that overlapped, all of them). `InFlight` is
what a run has billed and not yet written.

**QuotaMail.** One meter. A run reads usage and stamps, decides, sends, stamps;
usage goes up and down meanwhile.

**Subscription.** `sub[i]` is a Stripe subscription with its plan, its meters, a
cancellation and a schedule; `change[c]` is a `change-plan` request between two
calls to Stripe; `AlreadyOnPlan` is the one that is answered OK without any, as
it names the plan of the row. `events` are webhook deliveries, taken in any order
and more than once. Histories (`unclear`, `disorder`, `doubled`) mark what no property
speaks of: requests that overlapped or failed half way, events that undid newer
ones, two subscriptions at once.

**Members.** `req[r]` is a handler that has authorised its caller, then has read
what it decides on, then writes. `excess` counts seats that the code does not
check (adding a member directly, or a downgrade); the property says that
nothing else exceeds the limit but acceptances that run together.

## 3. Runs and bounds

| Run | Checks | Instance |
|---|---|---|
| `ingest_path` | `SpansHaveRecord`, `ExclusiveClaim`, `NoSecondJob`, `RootsAccountedFor`, `StickyNo`, `ReleaseOnlyOwn` | 2 workers, 2 batches that both carry the root of `t1`, one retry, one death or redelivery, one expiry |
| | `RecordFollowsPriority` | up to 3 spans of any shape, paths up to 2 |
| | `TokensPricedOnce` | every call with up to 2 tokens of each of five kinds, every emitter |
| | `PanelsShowReceived` | 5 spans, three levels, one without a path, one that is sent twice |
| | `MetersKept`, `LatestChoiceCounts`, `RowFollowsStripe` | 2 checkouts, 2 plan changes that may overlap, one renewal, 4 events |
| `ingest_one_worker` | `RootNameKept`, `EveryBatchSettles` | 1 worker, a root batch and a rootless batch |
| `ingest_root_name` ✗ | `RootNameKept` | the same with 2 workers |
| `ingest_lost_trigger` ✗ | `RootTriggersDetection` | 2 workers, one death |
| `pipeline_all_faults` | `FindingFirst`, `DigestsClosedWindows`, `OneClock`, `NoStuckRca` | 1 trace, windows of 1 and 2 ticks, one detection attempt and two of the RCA, every fault, the rare ones twice |
| `finding_once` | `AtMostOneDigest` | 2 traces, window of 2, late rows, one death of any worker, one RCA attempt |
| | `EvaluatedInTime` | delay 4, backoff 1, 3 attempts, lag 1, spans up to tick 8 |
| | `UsageEnteredOnce` | 2 detectors, 2 calls each, a job that dies once and is run again |
| | `SeatBound`, `LastAdminOnlyByStaleRequest` | 3 users, 2 seats, 2 requests under way |
| | `MailsOnce` | a cap of 5 fifths, 2 runs, 2 mails of each kind |
| `pipeline_live` | `FindingAlerted`, `LifecycleHolds` | 2 traces, agents that fail, no other fault |
| `live_view` | `FinalView`, `QuietBeforeComplete`, `ViewCompletes` | 3 batches, quiet window 2, ceiling 4, one broken connection, a refused request |
| `billing_ledger` | `NeverOverbilled`, `LedgerInSync`, `FlagsFollowPlan`, `BilledInFull` | 1 run at a time, 2 units, 2 periods, one deletion, plan change or failure that keeps a report out of the ledger; refused events and failing counts at will |
| `billing_ai` ✗ | `AiNeverOverbilled` | the same with two changes, refused events only, no fairness |
| `assistant` | `NoOrphanSandbox`, `DeletedLeavesNothing`, `KeyFresh` | 1 session, 2 requests, 2 models, 2 executor objects, 2 containers, 2 sandboxes started by a turn at once, 2 messages, one new key, one signal |
| | `FlagFollowsLatest`, `ClosedStaysClosed`, `DeadStreamsAreSilent` | 1 project and pages without one, 2 messages, 3 generations, one history |
| | `PassedWithinLimit` | 2 replicas, 2 API keys, 2 plans, limit 1, 2 requests at once |
| `chat_frozen` ✗ | `NoOpenBubbleLeft` | the same panel |

✗ marks a run that is expected to find a violation (section 6). `CHECK_DEADLOCK
FALSE` is used where the instance ends: all batches settled, the horizon or a
bound reached. On two cores a run takes between a few seconds and three minutes
(`pipeline_all_faults`, 1.4 million states; `ingest_path` and `finding_once`, 1.5 million
each; `live_view` and `assistant`, 0.6 million each;
`billing_ledger`, whose 0.2 million states are searched for fair cycles).

Why these bounds are enough. Every race on a claim is between the worker that
holds it and one other, so two workers show it; retries, deaths and expiries
matter once each because what they leave behind is a bounded set of stale
values. Two traces share a window in every way there is (same tick, neighbours,
either side of the boundary), and two windows of different length are needed for one
to overlap the other; `AtMostOneDigest` needs two traces to go wrong and one death of the digest's worker
to be sent twice, and is checked without the other faults, with which it is proved
(section 5); two deaths are what it takes for a job to be given up, and
`pipeline_all_faults` has them; two attempts distinguish "retried" from "given up" (in `pipeline_all_faults` a
detection runs again after a death or a duplicate instead, as its retries only
lead to `again`, which most of its properties exempt). A live trace needs a batch
before the root, the root, and one after it; a quiet window of two can be half
over, and a ceiling of twice that is met with and without a window running. A
meter needs two units to be reported in part, and two periods for a stale
period start; one failure there shows whether its damage stays in its meter and
period, and two runs at once lead the whole ledger astray, so the run has one. Three spans are a root, the span nearest to it and one further
away; two tokens of a kind let the one-hour part of a cache write be a part. The
five spans have a placeholder chain of two, siblings that tie in start and end,
and a child without a path. A plan change that must undo an earlier one needs
two, and two checkouts a second subscription. Three users overrun two seats, and
two requests are one whose check the other makes stale. Two containers and two
requests are one that is being removed while the other starts, or two that one
turn starts; executor objects are as many as messages, so that none runs out; two models share
a provider. A stream that is aborted needs a second one whose state it must not
touch, and three generations: the first message, its abort, the second. Symmetry is used for interchangeable workers, traces, users, requests,
models and containers in runs with safety properties only. Every property has a mutant of the
code (a guard dropped, an order swapped, a reset forgotten) that violates it in
its own run; the mutants stand next to the definitions they mutate.

## 4. Fairness

`IngestTask!FairSpec`: each Celery worker keeps taking deliveries and going on
with the one it has (weak fairness of `Work(w)`). A dead worker's delivery is
back in the queue by the step `Die` itself; errors, deaths and second deliveries
are under no fairness and bounded by `MaxDisruptions`. `FindingPipeline!FairSpec`: the three BullMQ workers
are always polling, due jobs run, time passes. `LiveView!FairSpec`: the worker
publishes what it stored (or fails to), the handler's loop runs, the browser
reconnects and is answered (`Connect \/ Refused`), its fetches end, time passes;
that the answer is a stream, that batches arrive or that connections break is not
assumed, and `ViewCompletes` promises nothing after a refusal. `BillingJob!BillingFairSpec`: the hourly cron keeps starting the
job (weak fairness of a run's steps), and counting or sending the same report
again and again does not fail for ever (strong fairness of `Count` and
`Accepted`); the workspace and the webhook are under no fairness. The other modules
state safety only: `SettleWait` puts "in time" as a bound on a clock instead,
which says more than that it happens in the end; routes, streams, plan changes
and messages are started by people, whom nothing obliges.

## 5. Proofs

TLAPS proves these for every value of the constants that satisfies the named
assumptions of the module: bounds are naturals, null values are distinct from
the others, there is at least one request, window or unit. None of them limits a
set. A last column other than "–" is a hypothesis of the theorem itself.

| Module | Theorems | Under |
|---|---|---|
| `IngestTaskProofs` | `TypeCorrect`, `SpansAlwaysHaveRecord`, `ClaimsExclusive`, `OneJobPerClaim`, `NoIsSticky`, `ReleasesOnlyOwn`, `RootsNeverForgotten` | – |
| | `OneWorkerKeepsRootName` | one worker |
| `TransformProofs` | `PricedOnce`, `RecordPrefersRoots` | – |
| `FindingPipelineProofs` | `TypeCorrect`, `FindingStoredFirst`, `DigestsCountClosedWindows`, `OneCaptureTime`, `RcaNotStuck`, `CountedByOneDigest` | – |
| | `RowsFollowLifecycle` | `Undisturbed` |
| `DetectorJobProofs` | `InTime`, `EnteredOnce` | – |
| `LiveViewProofs` | `TypeCorrect`, `ClosedViewComplete`, `ClosedAfterQuiet` | – |
| `AssistantProofs` | `FlagIsOfLatest`, `ClosedIsClosed`, `DeadAreSilent`, `FreshKeyUsed`, `SandboxesFound`, `NothingLeft` | – |
| `BillingJobProofs` | `UnitsBilledOnce`, `LedgersInSync` | – |
| | `RepairedMetersBilledOnce` | only refused events and unreadable usage |
| | `AiBilledOnceUnlessRefused` | only unreadable usage |
| `WorkspaceProofs` | `MailedOnce`, `LimitHolds`, `SubscriptionKeepsMeters`, `LatestChoiceHolds`, `RowFollows`, `LastAdminStays`, `SeatsHold` | – |

`Undisturbed` means that `Faults` has no `error`, `crash` or `duplicate`: no call
fails and nothing runs twice; quotas, late rows, a changed window and a queue that
forgets its jobs remain. `pipeline_live` is such an instance. A "–" does not mean
that nothing is exempt: a property may leave out the traces, meters or requests
that a history names, and section 6 names the behaviour behind each history. It
means that the faults may all be there, and that what they do to one trace or
meter is kept from the others.

* **Ingest.** Behind `SpansHaveRecord` stands what a worker between its two
  inserts has seen to exist: the probe's answer stays true because records are
  never removed. The invariant of the claims relates `lock`, `pc` and `cur`:
  while no claim of the trace has expired, the token is the one worker inside it.
  `AccountInv` adds to `RootsAccountedFor` that a key in Redis means that its
  trace is accounted for, so that a worker may pass it by, and that the roots a
  worker is done with are. `ProbeInv` says that when a single worker inserts, the
  records it keeps are of roots, or of traces that still have none; with two
  workers it is false, as `ingest_root_name` shows.
* **Tokens.** `RowsMade` says of each span that its columns are the whole call's
  or empty, and which; a lemma for each step of the code (the sum the clamps
  keep, the one-hour part inside the writes, the buckets of a row) gets it
  there. The sums of `TokensPricedOnce` are then those of one row.
* **Record.** For each field of the record the invariant says which of the spans
  read so far it is of: the last root that speaks, else the first child
  (`AttrsFollow`), the shallowest child (`CandidateFollows`), the start of the
  last root, else of the first span (`StartFollows`). Each is characterised as a least or a greatest element
  of a set that grows by one span, which is what spares the induction over the
  batch.
* **Findings.** `FindingFirst` is made inductive by adding the steps: a detection
  past `finding` has its trace in `finding`, and so has every RCA job.
  `DigestsClosedWindows` needs the arithmetic of `WindowStart` and `Due` only.
  `OnceInv` goes through a detection and its RCA job step by step and says, for a
  trace that is evaluated once, what has been written where, which gives
  `OneClock` and `NoStuckRca`: a row in progress has a job that is still to run, or
  is in `unclosed`, which a job given up enters. For `AtMostOneDigest` windows of one length tile
  the time line and a flush sits at a window's start (`FlushesAligned`), and a
  trace that a digest counted has its row in the window of a flush that is over, or
  sent and to be run once more (`CountedOnce`); the length is that of the flushes that were scheduled
  (`OneLength`), so that a changed window which no flush used yet does no harm. The refinement of `RcaLifecycle` is
  proved for its initial states and each step.
* **Settle wait.** `EvaluatedInTime` is not inductive, as it says nothing while
  the trace is young. `Punctual` (no step is later than its lag) and `DueInTime`
  (each step of a round is due within one lag more of the quiet moment, and the
  age that was read is no younger than the newest span makes it) are.
* **Usage.** `UsageEnteredOnce` is inductive with types; `GoOn` and `Forget` are
  why nothing pending is dropped or kept across attempts.
* **Live view.** `IInv` has three parts beside types. `RootKnown`: a
  `trace_complete` in the buffer and a running quiet window both mean that the
  root is stored. `WindowKept`: what is left of the window and what the stream
  has been quiet for add up to at least the window. `FinalKept`: once closed,
  what was stored then is in the view, in the answer under way, or yet to be
  fetched. Without the last one `FinalView` is not inductive: a refetch that
  started before the close could end after it.
* **Assistant panel.** A message has a generation of its own from when its stream is
  opened on, aborted streams are of past generations, and closing leaves no
  stream of the current one and no session being created (`Generations`,
  `DeadArePast`, `NothingAfterClose`).
* **Agent service.** `KeyInv`: unless an old key was stored after its notice
  (`stale`), the cached key and those the agents were built with are no older
  than the last answered update, and a turn's key is no older than what it must use. `Tidy` speaks of one session that no two requests worked on at once: one
  turn (`OneTurn`) and one removal or deletion (`OneRemoval`) at most, nothing in
  the maps once its deletion began (`Forgotten`), and each container in the map
  (`InTheMap`). A turn works with the executor
  in the map and starts one container at a time, as a session in which either is not
  so is in `overlapped`.
* **Billing.** As long as no two runs overlapped (`IInv` says nothing afterwards,
  when every ledger is astray) a single run works with the ledger as it is
  (`OneRun`). Each meter is billed within its peak use and not ahead of the period
  (`WithinUse`, `NotAhead`). The stored ledger agrees with Stripe unless a report
  of its period is `InFlight`, and so does the one that a run is about to write
  (`LedgerAgrees`); a period that neither speaks of has nothing billed
  (`FreshPeriods`). All of this is said of a meter and period that did not go
  astray, and it is inductive because a failure that leads one astray changes
  nothing that is said of another. `RefusalsLeadAiAstray` then bounds `astray`: with
  refusals and unreadable usage alone it holds AI units only (section 6), without
  the refusals nothing, which gives the last two theorems.
* **Quota mails.** A stamp that is missing for a mail that was sent belongs to
  the run that sent it and has yet to stamp it (`MailInv`).
* **Rate limit.** What passed, and what the windows that replicas opened may still
  let through (`Room`), stay within what Redis counted and one limit for each
  such window (`Covered`).
* **Subscription.** Every reference to a subscription is to one that exists
  (`Named`). An active one has its meters, and so has its next phase and what
  a request remembers of it (`Metered`). Of the latest choice, each request between two calls has
  a `Stage` that says what Stripe will do if it stops here. For the row, events
  are `Numbered` in the order Stripe emitted them and the newest delivered one
  is what the row shows (`Current`).
* **Members.** What a request read is `StillTrue` unless another request made
  it stale, in particular that there is another admin. `SeatsHold` counts members and
  acceptances with the cardinality theorems; open invites it does not bound.

Only model-checked:
* liveness (`EveryBatchSettles`, `FindingAlerted`, `ViewCompletes`,
  `FlagsFollowPlan`, `BilledInFull`, the fairness of `RcaLifecycle` in
  `LifecycleHolds`), since temporal reasoning under fairness and `ENABLED` is
  out of the prover's reach;
* `PanelsShowReceived`, which compares what a recursion and a stack compute:
  that takes an induction over data, which no installed prover can do;
* the four violations of section 6, which a run shows and nothing could prove.

## 6. Disagreements with the documentation, and known gaps

Four runs show the code doing what a comment says it does not; the trace of
each is short.

* `ingest_root_name` – the probe for existing records and the insert are two calls, so a
  rootless batch can still overwrite the root's name (`ingest_tasks.py:121`).
* `ingest_lost_trigger` – a worker that dies between claim and enqueue leaves a
  claim that the redelivered task respects; the trace is never evaluated
  (`ingest_tasks.py:151`).
* `billing_ai` – a refused AI meter event empties the ledger's AI entry and the
  next run bills the whole period again (`usageMetering.ts:451` against 429; the
  RCA branch, lines 502-505, does it right).
* `chat_frozen` – Stop makes later writes of the stream no-ops, the one that
  closes its bubble included, so the bubble stays open (`use-ai-stream.ts:275`
  against 260).

The following are real behaviours of the models, or of code next to them, that
no run lists, because no document promises otherwise or because the models
leave them out on purpose. They delimit what the passing runs say.

Ingest and reading
* The ingest API answers 200 when the enqueue failed after the upload; the
  object is never read (`public/traces.py:188`).
* The claim's guarantees hold until it expires (`_LOCK_TTL_SECONDS`), as the
  theorems say; after that BullMQ's job id is what deduplicates.
* A batch without a root has the user of its spans only; what an earlier batch
  had is replaced with the record. Emitters that report input without its
  cached part are not in `TokenUsage`.
* While a stale fetch has taken a collapsed span out of the cache, the tree hides
  what is below it and the timeline does not; `PanelsShowReceived` excludes it.
* If the first fetch of a trace outlasts the quiet window, `trace_complete` does
  not restart it and the view may stay behind until the next refetch. `FinalView`
  excludes this case by the ghost `raced`.
* An HTTP error in answer to a request for the live stream ends it for good, as an
  `EventSource` does not retry after one (`use-trace-stream.ts:88`); the view is then
  what the query fetches. `ViewCompletes` exempts it.
* A Redis outage gives each replica windows of its own; `PassedWithinLimit` says
  by how much that exceeds the limit.

Detection
* A detector process that dies for good between seeding the RCA row and adding
  the job leaves the row pending (`detector-run-processor.ts:510-520`);
  so does a second evaluation of the trace that decides otherwise, or a failed
  enqueue, a failed close of the row in the quota branch or after a failed analysis,
  and an RCA whose worker dies twice: BullMQ then fails the job, and nothing closes
  the row. `NoStuckRca` exempts a trace that was evaluated twice (`again`) or whose
  row a failed call or a job given up left open (`unclosed`); it holds when the RCA's
  worker dies once.
* The quota branch of `processRcaJob` returns before it schedules the digest,
  and a changed window can make two flushes of different length share one job id
  (the id has only the window's start): in both cases a finding is alerted by no
  digest of its own (`detector-rca-processor.ts:303-322`, 341-362). `FindingAlerted` is checked
  without quota and window changes.
* When scheduling the digest fails after the row is `done`, the retry runs the
  agent again and a failure overwrites the analysis (`detector-rca-processor.ts:426-429`);
  `LifecycleHolds` is checked without that failure.
* A re-evaluated trace gets a new capture time while its RCA job keeps the old
  one (`detector-run-processor.ts:465-470`); `OneClock` exempts the
  traces that were evaluated twice.
* A digest may be sent while the RCA of a finding it counts still runs.
* A flush has one attempt; if its count fails the window's digest is lost. If its
  worker dies after the digest was sent (`detector-digest-processor.ts:134-150`)
  the job is run again and the digest is sent twice; `AtMostOneDigest` allows two
  for the traces of such a digest (`resent`), and no third.
* A retried job scans, and pays, again. `UsageEnteredOnce` says that this is
  entered, not that it is avoided.
* For a trace without spans the backend means to answer an age of 0; ClickHouse's
  `max()` over no rows is the epoch, so the trace counts as quiet. `SettleWait`
  has both.

Billing and workspaces
* A run of the billing job that dies, or whose write fails, after a meter event, an
  event that Stripe recorded although the call failed, and two overlapping runs
  all bill twice: meter events carry no identifier. `BillingJob` has these as
  faults (`crash`, `unwritten`, `timeout`, `overlap`); `NeverOverbilled` and
  `LedgerInSync` exempt the meter and the period that were struck (`astray`), and
  are proved for all others.
* Asking for the plan the row has while a downgrade or a cancellation is pending is
  answered "Already on this plan", and the pending change still takes effect
  (`change-plan/route.ts:38-41`). `LatestChoiceCounts` speaks of the last request
  that named another plan.
* Usage after the last run of a period is not billed: the next run looks at the
  new period. `BilledInFull` speaks of a period that does not end.
* Two checkouts of a workspace create two customers and two subscriptions, of
  which the row knows one; a late webhook event can undo a newer one. The
  properties of `Subscription` exclude both by histories.
* POST `.../members` adds a member without looking at the seats, and acceptances
  that counted together exceed them; `SeatBound` says by how much.

Assistant
* Two requests of one session at once can each make an executor, and a process
  that dies leaves its containers. The tool calls of one answer run in parallel and
  each starts a container when none runs yet, of which the executor remembers the
  last (`tools/sandbox.ts:50-52`). `shutdown()` drops an executor from the map while
  the session's cached agent keeps its tools, so that a message that arrives before
  the process exits starts a container in an executor that nothing destroys
  (`agent.ts:72-74`). A DELETE by someone else than the owner removes executor and
  agent and answers 404. `NoOrphanSandbox` and `DeletedLeavesNothing`
  exempt the first four by histories (`overlapped`, `left`), as `KeyFresh` does a
  notice that was lost or overtaken, until the cache expires.
* Closing, reopening and switching projects decide which chat a message is in;
  that a reopened panel always starts a new chat is not among the properties.

## 7. What is not modelled

Pure data mapping: decoding OTLP, the kind of a span, formatting of inputs and
outputs, the price table and the tokenizers, filters and query construction.
Readers, dashboards, widgets and the internal API's other endpoints are single
queries. The agent's tools, the models, alert rendering, GitHub and Slack are
conversations with external services, seen by the models as an answer or an
error. Authentication is one answer of validation. The web UI beyond the live
hook, the trace panels and the assistant's hooks is forms, tables and charts
over queries (it is also most of the repository's lines, which is why the map
covers about a twelfth of them). Deployment, documentation and examples have no state
that the components above share. `PROJECT.json` lists every part with its reason.

Where a module is "partly" a model of its component, the component's note says
what is left out. Two abstractions run through all of them: what a handler reads
in consecutive queries before it decides is one step where nothing in between
depends on it, and a database call has taken effect or not when it fails, both
of which are tried where the code could tell the difference.

## 8. Plan

The components of the inventory whose behaviour depends on the order of steps
are modelled, and every safety property a run checks is proved but one (section
5). Left, in this order:

1. `RowsFollowLifecycle` with failing calls, which needs an abstract life cycle in
   which a row may be opened again after its result.
2. Runs that show that the bounds of `SeatBound` and `PassedWithinLimit` are
   reached, so that neither could be tighter.
