--------------------------- MODULE FindingPipeline ---------------------------
(***************************************************************************)
(* From a settled trace to an alert: the three BullMQ workers of the       *)
(* detector process (frontend/worker/src/processors).                      *)
(*                                                                         *)
(*   detection   evaluateTrace: run the detectors, write the finding and   *)
(*               the triggered runs, seed the RCA row, enqueue the RCA     *)
(*   RCA         processRcaJob: run the agent, record its result, schedule *)
(*               the digest of the finding's window                        *)
(*   digest      flushDigest: read the window's triggered runs, send       *)
(*                                                                         *)
(* All findings are of one project.  A trace has at most one finding (its  *)
(* id is a hash of project and trace), so the trace stands for both.  A    *)
(* job is retried when it throws, handed out again when its process died,  *)
(* given up when that happens to it a second time, and its id is a no-op   *)
(* to add while BullMQ remembers it.                                       *)
(***************************************************************************)
EXTENDS Integers, FiniteSets

CONSTANTS
    Trace,
    Windows,         \* the lengths alertWindow may have, in ticks
    DefaultWindow,   \* DEFAULT_ALERT_WINDOW
    Settle,          \* DIGEST_SETTLE_MS, in ticks
    Horizon,         \* bound: detections happen before this tick
    DetectAttempts,  \* attempts of a detection job
    RcaAttempts,     \* attempts of an RCA job
    MaxDisruptions,  \* bound: crashes, duplicates, evictions, window changes
    Faults           \* what may go wrong in this instance

FaultKinds == {"crash",      \* the detector process dies
               "duplicate",  \* a second detection job for a trace
               "forget",     \* BullMQ evicts a finished RCA job
               "error",      \* a call that is awaited fails
               "quota",      \* the Free-plan caps are exceeded
               "window",     \* the project's alert window is changed
               "late"}       \* a run row is written after the settle time

ASSUME WindowAssumption ==
    /\ Windows \subseteq Nat \ {0}
    /\ DefaultWindow \in Windows
    /\ \E longest \in Windows : \A w \in Windows : w <= longest
    /\ Settle \in Nat

ASSUME BoundAssumption ==
    /\ Horizon \in Nat
    /\ DetectAttempts \in Nat \ {0} /\ RcaAttempts \in Nat \ {0}
    /\ MaxDisruptions \in Nat
    /\ Faults \subseteq FaultKinds

VARIABLES
    clock,
    det,          \* det[t]: the detection job of t
    finding,      \* traces with a row in detector_findings
    run,          \* run[t]: the latest row of t in detector_runs
    row,          \* row[t]: status of the DetectorRca row, "none" if absent
    rca,          \* rca[t]: the RCA job of t
    alertWindow,  \* the project's configured window
    flush,        \* flush[s]: the digest job of the window that starts at s
    sent,         \* sent[t]: how many digests counted the finding of t
    again,        \* history: traces whose detection job was handed out once more
    unclosed,     \* history: traces whose RCA row a call that failed, or a job
                  \* given up as stalled, has left open
    resent,       \* history: traces a digest counted whose worker then died,
                  \* so that the digest is run again
    disruptions

history == <<again, unclosed, resent>>
vars == <<clock, det, finding, run, row, rca, alertWindow, flush, sent, history,
          disruptions>>

(* What the run rows of a trace say: no row, no detector fired or the run  *)
(* failed, only RCA-disabled detectors fired, an RCA-enabled one did.      *)
Verdicts == {"clean", "muted", "fired"}
NoRun    == [verdict |-> "none", ts |-> 0]

Live      == {"waiting", "active"}
JobStates == Live \cup {"absent", "completed", "failed"}

LongestWindow == CHOOSE m \in Windows : \A n \in Windows : n <= m

LastTick == Horizon + Settle + LongestWindow - 1
Ticks    == 0 .. LastTick

NewDetection == [st |-> "waiting", at |-> "start", tries |-> 0, stalls |-> 0,
                 verdict |-> "clean", ts |-> 0]
RcaJob(st, ts) == [st |-> st, at |-> "start", tries |-> 0, stalls |-> 0,
                   ts |-> ts, win |-> DefaultWindow]
FlushJob(st, win) == [st |-> st, stalls |-> 0, win |-> win]
NoRca        == RcaJob("absent", 0)
NoFlush      == FlushJob("absent", DefaultWindow)

Init ==
    /\ clock = 0
    /\ det = [t \in Trace |-> NewDetection]
    /\ finding = {}
    /\ run = [t \in Trace |-> NoRun]
    /\ row = [t \in Trace |-> "none"]
    /\ rca = [t \in Trace |-> NoRca]
    /\ alertWindow = DefaultWindow
    /\ flush = [s \in Ticks |-> NoFlush]
    /\ sent = [t \in Trace |-> 0]
    /\ again = {} /\ unclosed = {} /\ resent = {}
    /\ disruptions = 0

MayFail(kind) == kind \in Faults

Disrupt(kind) ==
    /\ kind \in Faults
    /\ disruptions < MaxDisruptions
    /\ disruptions' = disruptions + 1

(* A job whose process died stalls: BullMQ hands it out again, but fails   *)
(* it when it has stalled maxStalledCount times before.                    *)
MaxStalls == 1
HandedOutAgain(job) == job.stalls < MaxStalls
Stalled(job) == IF HandedOutAgain(job) THEN "waiting" ELSE "failed"

-----------------------------------------------------------------------------
(* The detection job. *)

DetectAt(t, step) == det[t].st = "active" /\ det[t].at = step

DetectGoto(t, step) == det' = [det EXCEPT ![t].at = step]

(* The order of the writes of evaluateTrace once a detector has fired. *)
RunsBeforeFinding(step) ==
    [start |-> "runs", runs |-> "finding", finding |-> "seed",
     seed |-> "enqueue", enqueue |-> "returned"][step]
EnqueueBeforeSeed(step) ==
    [start |-> "finding", finding |-> "runs", runs |-> "enqueue",
     enqueue |-> "seed", seed |-> "returned"][step]
After(step) ==
    [start |-> "finding", finding |-> "runs", runs |-> "seed",
     seed |-> "enqueue", enqueue |-> "returned"][step]

(* The handler has returned; the queue does not know it yet. *)
DetectEnds(t) == DetectGoto(t, "returned")

(* A job that threw is retried while attempts are left. *)
Retried(tries, attempts) == IF tries + 1 < attempts THEN "waiting" ELSE "failed"

DetectThrows(t) ==
    /\ det' = [det EXCEPT ![t].at = "start", ![t].tries = @ + 1,
                          ![t].st = Retried(det[t].tries, DetectAttempts)]
    /\ again' = IF Retried(det[t].tries, DetectAttempts) = "waiting"
                  THEN again \cup {t} ELSE again
    /\ UNCHANGED resent

StartDetection(t) ==
    /\ det[t].st = "waiting"
    /\ det' = [det EXCEPT ![t].st = "active"]
    /\ UNCHANGED <<clock, finding, run, row, rca, alertWindow, flush, sent,
                   history, disruptions>>

(* A Free workspace over its cap is not scanned: no row of any kind. *)
SkipDetection(t) ==
    /\ MayFail("quota")
    /\ DetectAt(t, "start")
    /\ DetectEnds(t)
    /\ UNCHANGED <<clock, finding, run, row, rca, alertWindow, flush, sent,
                   history, disruptions>>

(* The rows of one deterministic run id collapse to the newest timestamp. *)
LatestRun(old, new) == IF old.verdict # "none" /\ old.ts > new.ts THEN old ELSE new

(* The spans cannot be read, a detector fails, or none fires: the run rows *)
(* say so, and the job is over.  A failed run write is only logged.        *)
NothingFires(t) ==
    /\ DetectAt(t, "start")
    /\ \/ run' = [run EXCEPT ![t] = LatestRun(@, [verdict |-> "clean", ts |-> clock])]
       \/ /\ MayFail("error")
          /\ run' = run
    /\ DetectEnds(t)
    /\ UNCHANGED <<clock, finding, row, rca, alertWindow, flush, sent, history,
                   disruptions>>

(* Some detector fires: one capture time for the finding and its runs. *)
Fires(t) ==
    /\ DetectAt(t, "start")
    /\ clock < Horizon
    /\ \E v \in {"muted", "fired"} :
          det' = [det EXCEPT ![t].at = After("start"), ![t].verdict = v, ![t].ts = clock]
    /\ UNCHANGED <<clock, finding, run, row, rca, alertWindow, flush, sent,
                   history, disruptions>>

WriteFinding(t) ==
    /\ DetectAt(t, "finding")
    /\ finding' = finding \cup {t}
    /\ DetectGoto(t, After("finding"))
    /\ UNCHANGED <<clock, run, row, rca, alertWindow, flush, sent, history,
                   disruptions>>

(* Every triggered run points to the finding and carries its capture time. *)
AfterRuns(t) ==
    IF det[t].verdict = "fired" THEN DetectGoto(t, After("runs")) ELSE DetectEnds(t)

WriteRuns(t) ==
    /\ DetectAt(t, "runs")
    /\ run' = [run EXCEPT ![t] =
                 LatestRun(@, [verdict |-> det[t].verdict, ts |-> det[t].ts])]
    /\ AfterRuns(t)
    /\ UNCHANGED <<clock, finding, row, rca, alertWindow, flush, sent, history,
                   disruptions>>

(* A failed run write is logged and the job goes on. *)
LoseRuns(t) ==
    /\ MayFail("error")
    /\ DetectAt(t, "runs")
    /\ AfterRuns(t)
    /\ UNCHANGED <<clock, finding, run, row, rca, alertWindow, flush, sent,
                   history, disruptions>>

(* Upsert to pending, whatever the row says; a failure is only logged. *)
Seeded(status) == "pending"
SeedRow(t) ==
    /\ DetectAt(t, "seed")
    /\ \/ row' = [row EXCEPT ![t] = Seeded(@)]
       \/ /\ MayFail("error")
          /\ row' = row
    /\ DetectGoto(t, After("seed"))
    /\ UNCHANGED <<clock, finding, run, rca, alertWindow, flush, sent, history,
                   disruptions>>

(* queue.add with jobId rca-<finding>: nothing happens to a known id.  The *)
(* job carries the capture time the rows were stamped with.                *)
EnqueueTime(t) == clock
CaptureTime(t) == det[t].ts
Enqueued(t) ==
    IF rca[t].st = "absent"
      THEN [rca EXCEPT ![t] = RcaJob("waiting", CaptureTime(t))]
      ELSE rca

EnqueueRca(t) ==
    /\ DetectAt(t, "enqueue")
    /\ rca' = Enqueued(t)
    /\ DetectGoto(t, After("enqueue"))
    /\ UNCHANGED <<clock, finding, run, row, alertWindow, flush, sent, history,
                   disruptions>>

(* The finding write, or the add, fails before or after it took effect. *)
DetectError(t) ==
    /\ MayFail("error")
    /\ \/ /\ DetectAt(t, "finding")
          /\ finding' \in {finding, finding \cup {t}}
          /\ UNCHANGED <<rca, unclosed>>
       \/ /\ DetectAt(t, "enqueue")
          /\ \/ /\ rca' = rca
                /\ unclosed' = unclosed \cup {t}
             \/ /\ rca' = Enqueued(t)
                /\ unclosed' = unclosed
          /\ finding' = finding
    /\ DetectThrows(t)
    /\ UNCHANGED <<clock, run, row, alertWindow, flush, sent, disruptions>>

DetectDone(t) ==
    /\ DetectAt(t, "returned")
    /\ det' = [det EXCEPT ![t].st = "completed", ![t].at = "start"]
    /\ UNCHANGED <<clock, finding, run, row, rca, alertWindow, flush, sent,
                   history, disruptions>>

(* The process dies. *)
DetectCrash(t) ==
    /\ Disrupt("crash")
    /\ det[t].st = "active"
    /\ det' = [det EXCEPT ![t].st = Stalled(det[t]), ![t].stalls = MaxStalls,
                          ![t].at = "start"]
    /\ again' = again \cup {t}
    /\ UNCHANGED <<clock, finding, run, row, rca, alertWindow, flush, sent,
                   unclosed, resent>>

(* The trigger enqueues the trace once more (its claim expired and BullMQ  *)
(* has forgotten the finished job).                                        *)
DetectAgain(t) ==
    /\ Disrupt("duplicate")
    /\ det[t].st \in {"completed", "failed"}
    /\ det' = [det EXCEPT ![t] = NewDetection]
    /\ again' = again \cup {t}
    /\ UNCHANGED <<clock, finding, run, row, rca, alertWindow, flush, sent,
                   unclosed, resent>>

-----------------------------------------------------------------------------
(* The RCA job. *)

RcaAt(t, step) == rca[t].st = "active" /\ rca[t].at = step

RcaGoto(t, step) == rca' = [rca EXCEPT ![t].at = step]

RcaEnds(t) == RcaGoto(t, "returned")

RcaThrows(t) ==
    rca' = [rca EXCEPT ![t].at = "start", ![t].tries = @ + 1,
                       ![t].win = DefaultWindow,
                       ![t].st = Retried(rca[t].tries, RcaAttempts)]

StartRca(t) ==
    /\ rca[t].st = "waiting"
    /\ rca' = [rca EXCEPT ![t].st = "active"]
    /\ UNCHANGED <<clock, det, finding, run, row, alertWindow, flush, sent,
                   history, disruptions>>

(* A best-effort write that ends the analysis: when it fails, the row is   *)
(* left as it was and the job goes on.                                     *)
CloseRow(t, status) ==
    \/ /\ row' = [row EXCEPT ![t] = status]
       /\ unclosed' = unclosed \ {t}
    \/ /\ MayFail("error")
       /\ row' = row
       /\ unclosed' = unclosed \cup {t}

(* rcaBlocked on the Free plan: a row that exists is closed, best effort,  *)
(* and the job returns; the digest is not scheduled.                       *)
StillPending(status) == status
Closed(status) == IF status = "none" THEN "none" ELSE "failed"
SkipRca(t) ==
    /\ MayFail("quota")
    /\ RcaAt(t, "start")
    /\ CloseRow(t, Closed(row[t]))
    /\ RcaEnds(t)
    /\ UNCHANGED <<clock, det, finding, run, alertWindow, flush, sent, again,
                   resent, disruptions>>

BeginRca(t) ==
    /\ RcaAt(t, "start")
    /\ row' = [row EXCEPT ![t] = "running"]
    /\ RcaGoto(t, "project")
    /\ UNCHANGED <<clock, det, finding, run, alertWindow, flush, sent, history,
                   disruptions>>

(* The reads before the try raise out of the job. *)
BeginRcaError(t) ==
    /\ MayFail("error")
    /\ RcaAt(t, "start")
    /\ RcaThrows(t)
    /\ unclosed' = unclosed \cup {t}
    /\ UNCHANGED <<clock, det, finding, run, row, alertWindow, flush, sent, again,
                   resent, disruptions>>

(* Read the project: from here on the job knows the configured window. *)
ReadProject(t) ==
    /\ RcaAt(t, "project")
    /\ rca' = [rca EXCEPT ![t].at = "agent", ![t].win = alertWindow]
    /\ UNCHANGED <<clock, det, finding, run, row, alertWindow, flush, sent,
                   history, disruptions>>

(* The agent answers and the result is recorded. *)
AgentAnswers(t) ==
    /\ RcaAt(t, "agent")
    /\ row' = [row EXCEPT ![t] = "done"]
    /\ unclosed' = unclosed \ {t}
    /\ RcaGoto(t, "schedule")
    /\ UNCHANGED <<clock, det, finding, run, alertWindow, flush, sent, again,
                   resent, disruptions>>

(* The catch: the agent failed, or (with "error") the project read or the  *)
(* recording did.  Closing the row is best effort.                         *)
RcaFails(t) ==
    /\ \/ RcaAt(t, "agent")
       \/ MayFail("error") /\ RcaAt(t, "project")
    /\ CloseRow(t, "failed")
    /\ RcaGoto(t, "scheduleFailed")
    /\ UNCHANGED <<clock, det, finding, run, alertWindow, flush, sent, again,
                   resent, disruptions>>

(* windowStartFor, and the job id digest:<project>:<windowStart>. *)
RoundedUp(ts, win) == ((ts + win - 1) \div win) * win
WindowStart(ts, win) == (ts \div win) * win

Scheduled(t) ==
    LET s == WindowStart(rca[t].ts, rca[t].win)
    IN  IF flush[s].st = "absent"
          THEN [flush EXCEPT ![s] = FlushJob("waiting", rca[t].win)]
          ELSE flush

ScheduleFlush(t) ==
    /\ RcaAt(t, "schedule")
    /\ flush' = Scheduled(t)
    /\ RcaEnds(t)
    /\ UNCHANGED <<clock, det, finding, run, row, alertWindow, sent, history,
                   disruptions>>

(* On the failure path the flush is scheduled, then the error rethrown. *)
ScheduleAndThrow(t) ==
    /\ RcaAt(t, "scheduleFailed")
    /\ flush' = Scheduled(t)
    /\ RcaThrows(t)
    /\ UNCHANGED <<clock, det, finding, run, row, alertWindow, sent, history,
                   disruptions>>

(* The add fails: on either path the job throws. *)
ScheduleError(t) ==
    /\ MayFail("error")
    /\ RcaAt(t, "schedule") \/ RcaAt(t, "scheduleFailed")
    /\ RcaThrows(t)
    /\ UNCHANGED <<clock, det, finding, run, row, alertWindow, flush, sent,
                   history, disruptions>>

RcaDone(t) ==
    /\ RcaAt(t, "returned")
    /\ rca' = [rca EXCEPT ![t].st = "completed", ![t].at = "start"]
    /\ UNCHANGED <<clock, det, finding, run, row, alertWindow, flush, sent,
                   history, disruptions>>

(* The process dies; a job that is given up leaves the row as it is. *)
RcaCrash(t) ==
    /\ Disrupt("crash")
    /\ rca[t].st = "active"
    /\ rca' = [rca EXCEPT ![t].st = Stalled(rca[t]), ![t].stalls = MaxStalls,
                          ![t].at = "start", ![t].win = DefaultWindow]
    /\ unclosed' = IF HandedOutAgain(rca[t]) THEN unclosed ELSE unclosed \cup {t}
    /\ UNCHANGED <<clock, det, finding, run, row, alertWindow, flush, sent,
                   again, resent>>

(* removeOnComplete / removeOnFail of the RCA queue. *)
ForgetRca(t) ==
    /\ Disrupt("forget")
    /\ rca[t].st \in {"completed", "failed"}
    /\ rca' = [rca EXCEPT ![t] = NoRca]
    /\ UNCHANGED <<clock, det, finding, run, row, alertWindow, flush, sent,
                   history>>

-----------------------------------------------------------------------------
(* The digest job, the project settings, and time. *)

DueAtStart(s) == s + Settle
Due(s) == s + flush[s].win + Settle

(* The traces whose row says an RCA-enabled detector fired in the window. *)
InclusiveWindow(s, win) ==
    {t \in Trace : run[t].verdict = "fired" /\ run[t].ts \in s .. (s + win)}
InWindow(s, win) ==
    {t \in Trace : run[t].verdict = "fired" /\ run[t].ts \in s .. (s + win - 1)}

(* The digest is handed to the channels, whose failures are caught; the    *)
(* queue does not know it yet.                                             *)
Flush(s) ==
    /\ flush[s].st = "waiting"
    /\ clock >= Due(s)
    /\ sent' = [t \in Trace |->
                  IF t \in InWindow(s, flush[s].win) THEN sent[t] + 1 ELSE sent[t]]
    /\ flush' = [flush EXCEPT ![s].st = "sent"]
    /\ UNCHANGED <<clock, det, finding, run, row, rca, alertWindow, history,
                   disruptions>>

FlushDone(s) ==
    /\ flush[s].st = "sent"
    /\ flush' = [flush EXCEPT ![s].st = "completed"]
    /\ UNCHANGED <<clock, det, finding, run, row, rca, alertWindow, sent,
                   history, disruptions>>

(* A read of the flush fails: the job has one attempt. *)
FlushError(s) ==
    /\ MayFail("error")
    /\ flush[s].st = "waiting"
    /\ clock >= Due(s)
    /\ flush' = [flush EXCEPT ![s].st = "failed"]
    /\ UNCHANGED <<clock, det, finding, run, row, rca, alertWindow, sent,
                   history, disruptions>>

(* The process dies before it has sent the digest, or after. *)
FlushCrash(s) ==
    /\ Disrupt("crash")
    /\ \/ flush[s].st = "waiting" /\ clock >= Due(s)
       \/ flush[s].st = "sent"
    /\ flush' = [flush EXCEPT ![s].st = Stalled(flush[s]), ![s].stalls = MaxStalls]
    /\ resent' = IF flush[s].st = "sent" /\ HandedOutAgain(flush[s])
                   THEN resent \cup {t \in InWindow(s, flush[s].win) : sent[t] > 0}
                   ELSE resent
    /\ UNCHANGED <<clock, det, finding, run, row, rca, alertWindow, sent, again,
                   unclosed>>

ChangeWindow ==
    /\ Disrupt("window")
    /\ alertWindow' \in Windows \ {alertWindow}
    /\ UNCHANGED <<clock, det, finding, run, row, rca, flush, sent, history>>

(* Unless "late" is among the faults, a captured finding has its rows      *)
(* written within the settle time.                                         *)
WritesOnTime ==
    \A t \in Trace :
        det[t].st = "active" /\ det[t].at \in {"finding", "runs"}
            => clock < det[t].ts + Settle

Tick ==
    /\ clock < LastTick
    /\ MayFail("late") \/ WritesOnTime
    /\ clock' = clock + 1
    /\ UNCHANGED <<det, finding, run, row, rca, alertWindow, flush, sent,
                   history, disruptions>>

-----------------------------------------------------------------------------
DetectStep(t) ==
    \/ StartDetection(t) \/ NothingFires(t) \/ Fires(t)
    \/ WriteFinding(t) \/ WriteRuns(t) \/ SeedRow(t) \/ EnqueueRca(t)
    \/ DetectDone(t)
DetectTrouble(t) ==
    \/ SkipDetection(t) \/ LoseRuns(t) \/ DetectError(t) \/ DetectCrash(t)
    \/ DetectAgain(t)
RcaStep(t) ==
    \/ StartRca(t) \/ BeginRca(t) \/ ReadProject(t) \/ AgentAnswers(t)
    \/ RcaFails(t) \/ ScheduleFlush(t) \/ ScheduleAndThrow(t) \/ RcaDone(t)
RcaTrouble(t) ==
    \/ SkipRca(t) \/ BeginRcaError(t) \/ ScheduleError(t) \/ RcaCrash(t)
    \/ ForgetRca(t)
FlushStep(s) == Flush(s) \/ FlushDone(s)

Next ==
    \/ \E t \in Trace :
          DetectStep(t) \/ DetectTrouble(t) \/ RcaStep(t) \/ RcaTrouble(t)
    \/ \E s \in Ticks : FlushStep(s) \/ FlushError(s) \/ FlushCrash(s)
    \/ ChangeWindow
    \/ Tick

Spec == Init /\ [][Next]_vars

(* The three BullMQ workers are always polling and time passes. *)
FairSpec ==
    /\ Spec
    /\ \A t \in Trace : WF_vars(DetectStep(t)) /\ WF_vars(RcaStep(t))
    /\ \A s \in Ticks : WF_vars(FlushStep(s))
    /\ WF_vars(Tick)

-----------------------------------------------------------------------------
(* Properties. *)

DetectSteps == {"start", "finding", "runs", "seed", "enqueue", "returned"}
RcaSteps    == {"start", "project", "agent", "schedule", "scheduleFailed",
                "returned"}

Detections == [st : JobStates, at : DetectSteps, tries : 0 .. DetectAttempts,
               stalls : 0 .. MaxStalls, verdict : Verdicts, ts : Ticks]
RcaJobs    == [st : JobStates, at : RcaSteps, tries : 0 .. RcaAttempts,
               stalls : 0 .. MaxStalls, ts : Ticks, win : Windows]
FlushJobs  == [st : {"absent", "waiting", "sent", "completed", "failed"},
               stalls : 0 .. MaxStalls, win : Windows]

(* The range of every variable; only an active job is past its first step, *)
(* and a job that is still to run has an attempt left.                     *)
TypeOK ==
    /\ clock \in Ticks
    /\ det \in [Trace -> Detections]
    /\ finding \subseteq Trace
    /\ run \in [Trace -> [verdict : Verdicts \cup {"none"}, ts : Ticks]]
    /\ row \in [Trace -> {"none", "pending", "running", "done", "failed"}]
    /\ rca \in [Trace -> RcaJobs]
    /\ alertWindow \in Windows
    /\ flush \in [Ticks -> FlushJobs]
    /\ sent \in [Trace -> Nat]
    /\ again \subseteq Trace /\ unclosed \subseteq Trace /\ resent \subseteq Trace
    /\ disruptions \in 0 .. MaxDisruptions
    /\ \A t \in Trace : det[t].at # "start" => det[t].st = "active"
    /\ \A t \in Trace : rca[t].at # "start" => rca[t].st = "active"
    /\ \A t \in Trace : det[t].st \in Live => det[t].tries < DetectAttempts
    /\ \A t \in Trace : rca[t].st \in Live => rca[t].tries < RcaAttempts

(* Whatever dies, fails or runs twice, nothing downstream exists without   *)
(* the stored finding it refers to: no triggered run, no RCA job or row,   *)
(* no digest that counts the trace.                                        *)
FindingFirst ==
    \A t \in Trace :
        \/ run[t].verdict \in {"muted", "fired"}
        \/ rca[t].st # "absent" \/ row[t] # "none"
        \/ sent[t] > 0
        => t \in finding

(* A digest never counts a finding of a window that is still open.         *)
DigestsClosedWindows ==
    [][\A t \in Trace : sent'[t] > sent[t] => clock > run[t].ts + Settle]_vars

(* All flushes that were scheduled cover windows of one length. *)
OneLength ==
    \A s, u \in Ticks :
        flush[s].st # "absent" /\ flush[u].st # "absent" => flush[s].win = flush[u].win

(* A trace that is evaluated once is counted by at most one digest, however *)
(* late its rows are written, and however its RCA is retried, skipped,     *)
(* killed or forgotten, unless the project's window changed and flushes of *)
(* both lengths were scheduled. A digest whose worker dies after it was    *)
(* sent is sent once more, and counts its traces twice.                    *)
AtMostOneDigest ==
    OneLength => \A t \in Trace \ again : sent[t] <= (IF t \in resent THEN 2 ELSE 1)

(* The RCA job of a trace that is evaluated once and its run row carry the *)
(* same capture time, so the window its flush covers is the one the        *)
(* finding is counted in ("a finding always falls in exactly the window    *)
(* its flush covers").                                                     *)
OneClock ==
    \A t \in Trace \ again :
        rca[t].st # "absent" /\ run[t].verdict = "fired" => rca[t].ts = run[t].ts

(* When no job is left for a trace that is evaluated once, its RCA does    *)
(* not look in progress ("so the UI doesn't show a permanently-stuck       *)
(* in-progress RCA"), unless a call that failed, or a job given up after   *)
(* its worker died twice, has left the row open.                           *)
NoStuckRca ==
    \A t \in Trace \ (again \cup unclosed) :
        det[t].st \notin Live /\ rca[t].st \notin Live
            => row[t] \notin {"pending", "running"}

(* A stored finding of an RCA-enabled detector is eventually alerted.      *)
FindingAlerted ==
    \A t \in Trace : (run[t].verdict = "fired") ~> (sent[t] > 0)

(* The RCA rows implement the life cycle the product relies on.            *)
Lifecycle == INSTANCE RcaLifecycle WITH status <- row
LifecycleHolds == Lifecycle!Spec
=============================================================================
