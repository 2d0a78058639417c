------------------------------ MODULE ScanUsage ------------------------------
(* What one detection job asks of the models and what it enters as usage   *)
(* (worker: evaluateTrace, runSingleDetector, runDetectionForTrace,        *)
(* withSelfTrace): all detectors of the trace are evaluated concurrently,  *)
(* then one AIMessage row is written per scan, then the finding. A job     *)
(* that fails or dies is run again from the start.                         *)
(*                                                                         *)
(* Usage is counted in calls: a call that the provider answered costs one. *)
EXTENDS Naturals

CONSTANTS
    Detector,    \* detectors of the job
    JobAttempts, \* attempts of the job
    MaxCalls,    \* MAX_ATTEMPTS of one scan
    MaxDeaths    \* bound on the deaths of the worker

ASSUME ScanAssumption ==
    /\ {JobAttempts, MaxCalls} \subseteq Nat \ {0} /\ MaxDeaths \in Nat

VARIABLES
    phase,   \* the job: "waiting", "scanning", "finding", "done", "failed"
    attempt, \* its attempts used
    scan,    \* the scans of this attempt
    runRow,  \* detector_runs: the row of each detector, which has one id
    billed,  \* the usage in AIMessage rows
    paid,    \* history: calls the provider answered
    lost,    \* history: of those, the ones that were never entered
    deaths

scanVars == <<phase, attempt, scan, runRow, billed, paid, lost, deaths>>

books == <<billed, paid, lost>>

(* "verdict" is what the evaluation found, "used" what it cost.            *)
NewScan == [pc |-> "asking", calls |-> 0, used |-> 0, verdict |-> "none", traced |-> TRUE]

ScanInit ==
    /\ phase = "waiting" /\ attempt = 0 /\ deaths = 0
    /\ scan = [d \in Detector |-> NewScan]
    /\ runRow = [d \in Detector |-> "none"]
    /\ billed = [d \in Detector |-> 0]
    /\ paid = [d \in Detector |-> 0]
    /\ lost = [d \in Detector |-> 0]

-----------------------------------------------------------------------------
(* processTrace: the spans are downloaded and the scans begin. When that   *)
(* fails the runs are written as failed, and the job succeeds.             *)
Forget == scan' = [d \in Detector |-> NewScan]

BeginScans ==
    /\ phase = "waiting"
    /\ phase' = "scanning"
    /\ Forget
    /\ UNCHANGED <<attempt, runRow, books, deaths>>

DownloadFails ==
    /\ phase = "waiting"
    /\ phase' = "done"
    /\ runRow' \in [Detector -> {"failed", "none"}]
    /\ \A d \in Detector : runRow'[d] # "failed" => runRow'[d] = runRow[d]
    /\ UNCHANGED <<attempt, scan, books, deaths>>

(* The workspace's detectors are blocked. *)
ScansBlocked ==
    /\ phase = "waiting"
    /\ phase' = "done"
    /\ UNCHANGED <<attempt, scan, runRow, books, deaths>>

-----------------------------------------------------------------------------
(* runDetectionForTrace *)

Asking(d) == phase = "scanning" /\ scan[d].pc = "asking"

Conclude(d, verdict) == [scan[d] EXCEPT !.pc = "concluded", !.verdict = verdict]

(* No provider, model or key; or a call that failed or timed out, which is *)
(* never made again ("a hung provider is hit once").                       *)
NoAnswer(d) ==
    /\ Asking(d)
    /\ scan' = [scan EXCEPT ![d] = Conclude(d, "error")]
    /\ UNCHANGED <<phase, attempt, runRow, books, deaths>>

(* submit_result, a provider's error, or plain text, after which the model *)
(* is told once more to call the tool. The usage of the answers adds up.   *)
AnswerOf(d, verdict) ==
    LET s == [scan[d] EXCEPT !.calls = @ + 1, !.used = @ + 1] IN
    /\ Asking(d)
    /\ paid' = [paid EXCEPT ![d] = @ + 1]
    /\ scan' = [scan EXCEPT ![d] =
         IF verdict # "text"         THEN [s EXCEPT !.pc = "concluded", !.verdict = verdict]
         ELSE IF s.calls = MaxCalls  THEN [s EXCEPT !.pc = "concluded", !.verdict = "error"]
         ELSE s]
    /\ UNCHANGED <<phase, attempt, runRow, billed, lost, deaths>>

(* withSelfTrace: the tracing around the evaluation breaks, before it or   *)
(* after it. The evaluation stands.                                        *)
RunPlainAgain(d) == [NewScan EXCEPT !.traced = FALSE]

RunPlain(d) == [scan[d] EXCEPT !.traced = FALSE]

TracingBreaks(d) ==
    /\ phase = "scanning" /\ scan[d].traced
    /\ scan[d].pc = "concluded" \/ (Asking(d) /\ scan[d].calls = 0)
    /\ scan' = [scan EXCEPT ![d] = RunPlain(d)]
    /\ UNCHANGED <<phase, attempt, runRow, books, deaths>>

(* runSingleDetector writes the run of a scan that did not fire; the write *)
(* may fail. That of one that fired waits for the finding.                 *)
Conclusion(d) ==
    IF scan[d].verdict = "clean" THEN "completed" ELSE "failed"

SettleScan(d) ==
    /\ phase = "scanning" /\ scan[d].pc = "concluded"
    /\ scan' = [scan EXCEPT ![d].pc = "settled"]
    /\ runRow' \in {runRow} \cup
         {[runRow EXCEPT ![d] = Conclusion(d)] : v \in {"error", "clean"} \cap {scan[d].verdict}}
    /\ UNCHANGED <<phase, attempt, books, deaths>>

-----------------------------------------------------------------------------
(* evaluateTrace, once every scan is settled: the usage rows, all or none, *)
(* of every scan a model answered in, whatever it found.                   *)

AllSettled == \A d \in Detector : scan[d].pc = "settled"

Fired == {d \in Detector : scan[d].verdict = "fires"}

Add(total) == [d \in Detector |-> total[d] + scan[d].used]

(* The job goes on with the finding, or is done and its scans forgotten. *)
GoOn ==
    IF Fired = {} THEN phase' = "done" /\ Forget ELSE phase' = "finding" /\ UNCHANGED scan

WriteUsage ==
    /\ phase = "scanning" /\ AllSettled
    /\ billed' = Add(billed)
    /\ GoOn
    /\ UNCHANGED <<attempt, runRow, paid, lost, deaths>>

(* The write fails, which is logged; or the project is gone. *)
UsageLost ==
    /\ phase = "scanning" /\ AllSettled
    /\ lost' = Add(lost)
    /\ GoOn
    /\ UNCHANGED <<attempt, runRow, billed, paid, deaths>>

(* The finding, then the runs that fired, each of which may fail; then the *)
(* RCA is enqueued. Without the finding or the RCA the attempt failed.     *)
Again == IF attempt + 1 < JobAttempts THEN "waiting" ELSE "failed"

WithFired(done) == [d \in Detector |-> IF d \in done THEN "fired" ELSE runRow[d]]

EndWithFinding ==
    /\ phase = "finding"
    /\ phase' = "done"
    /\ \E done \in SUBSET Fired : runRow' = WithFired(done)
    /\ Forget
    /\ UNCHANGED <<attempt, books, deaths>>

FindingFails ==
    /\ phase = "finding"
    /\ phase' = Again /\ attempt' = attempt + 1
    /\ \E done \in SUBSET Fired : runRow' = WithFired(done)
    /\ Forget
    /\ UNCHANGED <<books, deaths>>

(* The worker dies: the stalled job is taken up again, or given up. *)
WorkerDies ==
    /\ phase \in {"scanning", "finding"} /\ deaths < MaxDeaths
    /\ deaths' = deaths + 1
    /\ phase' \in {"waiting", "failed"}
    /\ lost' = IF phase = "scanning" THEN Add(lost) ELSE lost
    /\ Forget
    /\ UNCHANGED <<attempt, runRow, billed, paid>>

ScanNext ==
    \/ BeginScans \/ DownloadFails \/ ScansBlocked
    \/ \E d \in Detector :
        \/ NoAnswer(d) \/ TracingBreaks(d) \/ SettleScan(d)
        \/ \E verdict \in {"fires", "clean", "error", "text"} : AnswerOf(d, verdict)
    \/ WriteUsage \/ UsageLost \/ EndWithFinding \/ FindingFails \/ WorkerDies

ScanSpec == ScanInit /\ [][ScanNext]_scanVars

-----------------------------------------------------------------------------
(* What the scans of an attempt cost and was not entered yet. *)
Pending(d) == IF phase = "scanning" THEN scan[d].used ELSE 0

(* Every answered call is entered as usage once, or known to be lost (the  *)
(* rows could not be written, or the worker died before them), whatever    *)
(* the scan found, however often it was told to call the tool, the job was *)
(* retried, and the tracing broke. ("source of truth for detector ... cost *)
(* aggregations", evaluateTrace; "fn runs exactly once in every path",     *)
(* withSelfTrace)                                                          *)
UsageEnteredOnce ==
    \A d \in Detector : billed[d] + lost[d] + Pending(d) = paid[d]
=============================================================================
