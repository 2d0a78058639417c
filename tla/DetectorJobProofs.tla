-------------------------- MODULE DetectorJobProofs -------------------------
(***************************************************************************)
(* The detector job before and while it scans: when it evaluates a trace,  *)
(* for any delay, backoff, attempts, lag and arrivals; and what its scans  *)
(* cost, for any detectors, attempts, retries of the model and deaths of   *)
(* the worker.                                                             *)
(***************************************************************************)
EXTENDS SettleWait, ScanUsage, TLAPS

(***************************************************************************)
(* The settle wait.                                                        *)
(***************************************************************************)
SettleType ==
    /\ now \in Nat /\ due \in Nat /\ age \in Nat /\ wait \in Nat /\ spent \in Nat
    /\ tries \in Nat
    /\ lastSpan \in 0 .. now
    /\ job \in {"delayed", "asking", "asked", "done", "failed"}

Waiting == job \in {"delayed", "asking", "asked"}

(* A step of the job is never more than the lag behind its time.           *)
Punctual ==
    /\ Waiting => now <= due + Lag
    /\ job \in {"asking", "asked"} => due <= now

(* When the first span is still to come, the job looks again no later than *)
(* a delay and the backoffs from now.                                      *)
LooksAgain == job = "delayed" => due <= now + Delay + Lag + spent

(* Once there is one, each step of a round is due within its own lag of    *)
(* the moment at which the trace has been quiet; and the age that was read *)
(* is not younger than the newest span makes it.                           *)
DueInTime ==
    lastSpan # 0 =>
        /\ job = "delayed" => due <= lastSpan + Delay + Lag + spent
        /\ job = "asking"  => due <= lastSpan + Delay + 2 * Lag + spent
        /\ job = "asked"   => /\ due <= lastSpan + Delay + 3 * Lag + spent
                              /\ due <= lastSpan + age

SettleInv == SettleType /\ Punctual /\ LooksAgain /\ DueInTime

-----------------------------------------------------------------------------
LEMMA SettleBounds ==
    /\ Delay \in Nat /\ Delay > 0 /\ Attempts \in Nat /\ Attempts > 0
    /\ Backoff \in Nat /\ Lag \in Nat /\ MaxNow \in Nat
  BY SettleAssumption

LEMMA SettleInvInit == SettleInit => SettleInv
<1> SUFFICES ASSUME SettleInit PROVE SettleInv  OBVIOUS
<1>1. /\ now = 1 /\ lastSpan \in {0, 1} /\ job = "delayed" /\ due = 1 + Delay
      /\ age = 0 /\ tries = 0 /\ wait = Backoff /\ spent = 0
  BY DEF SettleInit
<1>2. SettleType  BY <1>1, SettleBounds DEF SettleType
<1>3. Punctual  BY <1>1, SettleBounds DEF Punctual, Waiting
<1>4. LooksAgain  BY <1>1, SettleBounds DEF LooksAgain
<1>5. DueInTime  BY <1>1, SettleBounds DEF DueInTime
<1> QED  BY <1>2, <1>3, <1>4, <1>5 DEF SettleInv

LEMMA SettleInvNext == SettleInv /\ [SettleNext]_settleVars => SettleInv'
<1> SUFFICES ASSUME SettleInv, [SettleNext]_settleVars PROVE SettleInv'  OBVIOUS
<1> USE SettleBounds
<1>1. CASE SpanArrives
  <2>1. SettleType'  BY <1>1 DEF SpanArrives, SettleInv, SettleType
  <2>2. Punctual' /\ LooksAgain'
    BY <1>1 DEF SpanArrives, SettleInv, SettleType, Punctual, Waiting, LooksAgain
  <2>3. DueInTime'
    BY <1>1 DEF SpanArrives, SettleInv, SettleType, Punctual, LooksAgain, DueInTime
  <2> QED  BY <2>1, <2>2, <2>3 DEF SettleInv
<1>2. CASE TimePasses
  <2>1. SettleType'  BY <1>2 DEF TimePasses, SettleInv, SettleType
  <2>2. Punctual' /\ LooksAgain'
    BY <1>2 DEF TimePasses, SettleInv, SettleType, Punctual, Waiting, LooksAgain
  <2>3. DueInTime'  BY <1>2 DEF TimePasses, SettleInv, DueInTime
  <2> QED  BY <2>1, <2>2, <2>3 DEF SettleInv
<1>3. CASE Start
  <2>1. SettleType'  BY <1>3 DEF Start, SettleInv, SettleType
  <2>2. Punctual' /\ LooksAgain'
    BY <1>3 DEF Start, SettleInv, SettleType, Punctual, Waiting, LooksAgain
  <2>3. DueInTime'
    BY <1>3 DEF Start, SettleInv, SettleType, Punctual, Waiting, DueInTime
  <2> QED  BY <2>1, <2>2, <2>3 DEF SettleInv
<1>4. CASE ReadAge
  <2>1. SettleType'  BY <1>4 DEF ReadAge, SettleInv, SettleType
  <2>2. Punctual' /\ LooksAgain'
    BY <1>4 DEF ReadAge, SettleInv, SettleType, Punctual, Waiting, LooksAgain
  <2>3. DueInTime'
    BY <1>4 DEF ReadAge, SettleInv, SettleType, Punctual, Waiting, DueInTime
  <2> QED  BY <2>1, <2>2, <2>3 DEF SettleInv
<1>5. CASE ReadFails
  <2>1. SettleType'  BY <1>5 DEF ReadFails, SettleInv, SettleType
  <2>2. Punctual' /\ LooksAgain'
    BY <1>5 DEF ReadFails, SettleInv, SettleType, Punctual, Waiting, LooksAgain
  <2>3. DueInTime'
    BY <1>5 DEF ReadFails, SettleInv, SettleType, Punctual, Waiting, DueInTime
  <2> QED  BY <2>1, <2>2, <2>3 DEF SettleInv
<1>6. CASE Evaluate
  <2>1. SettleType'  BY <1>6 DEF Evaluate, SettleInv, SettleType
  <2>2. Punctual' /\ LooksAgain' /\ DueInTime'
    BY <1>6 DEF Evaluate, Punctual, Waiting, LooksAgain, DueInTime
  <2> QED  BY <2>1, <2>2 DEF SettleInv
<1>7. CASE Redelay
  <2>1. Remaining(age) \in Nat /\ Remaining(age) + age = Delay
    BY <1>7 DEF Redelay, Remaining, SettleInv, SettleType
  <2>2. /\ job' = "delayed" /\ due' = now + Remaining(age) /\ now' = now
        /\ lastSpan' = lastSpan /\ age' = age /\ wait' = wait /\ spent' = spent
        /\ tries' = tries /\ job = "asked"
    BY <1>7 DEF Redelay
  <2>3. SettleType'  BY <2>1, <2>2 DEF SettleInv, SettleType
  <2>4. Punctual' /\ LooksAgain'
    BY <2>1, <2>2 DEF SettleInv, SettleType, Punctual, Waiting, LooksAgain
  <2>5. DueInTime'
    BY <2>1, <2>2 DEF SettleInv, SettleType, Punctual, Waiting, DueInTime
  <2> QED  BY <2>3, <2>4, <2>5 DEF SettleInv
<1>8. CASE UNCHANGED settleVars
  BY <1>8 DEF settleVars, SettleInv, SettleType, Punctual, Waiting, LooksAgain, DueInTime
<1> QED
  BY <1>1, <1>2, <1>3, <1>4, <1>5, <1>6, <1>7, <1>8 DEF SettleNext

(* The job never looks too early for good nor too late: whatever arrives,  *)
(* and whichever reads fail, a trace that stays quiet is evaluated within  *)
(* the delay, the lags of one round and the backoffs                       *)
(* (handleDetectorRunJob, time-since-last-span).                           *)
THEOREM InTime == SettleSpec => []EvaluatedInTime
<1>1. SettleInit => SettleInv  BY SettleInvInit
<1>2. SettleInv /\ [SettleNext]_settleVars => SettleInv'  BY SettleInvNext
<1>3. SettleInv => EvaluatedInTime
  BY SettleBounds DEF SettleInv, SettleType, Punctual, Waiting, DueInTime, EvaluatedInTime
<1> QED  BY <1>1, <1>2, <1>3, PTL DEF SettleSpec

(***************************************************************************)
(* The usage of the scans.                                                 *)
(***************************************************************************)
Scan == [pc : {"asking", "concluded", "settled"}, calls : Nat, used : Nat,
         verdict : {"none", "fires", "clean", "error"}, traced : BOOLEAN]

ScanType ==
    /\ scan \in [Detector -> Scan]
    /\ billed \in [Detector -> Nat]
    /\ paid \in [Detector -> Nat]
    /\ lost \in [Detector -> Nat]

ScanInv == ScanType /\ UsageEnteredOnce

-----------------------------------------------------------------------------
LEMMA FreshScan == NewScan \in Scan /\ NewScan.used = 0
  BY DEF NewScan, Scan

LEMMA ForgetType ==
    ASSUME Forget
    PROVE  scan' \in [Detector -> Scan] /\ \A d \in Detector : scan'[d].used = 0
  BY FreshScan DEF Forget

(* GoOn ends the scanning, so nothing is pending any more.                 *)
LEMMA GoOnType ==
    ASSUME ScanType, GoOn
    PROVE  /\ scan' \in [Detector -> Scan]
           /\ phase' # "scanning"
<1>1. CASE Fired = {}
  BY <1>1, ForgetType DEF GoOn
<1>2. CASE Fired # {}
  BY <1>2 DEF GoOn, ScanType
<1> QED  BY <1>1, <1>2

LEMMA Added ==
    ASSUME ScanType, NEW total \in [Detector -> Nat]
    PROVE  /\ Add(total) \in [Detector -> Nat]
           /\ \A d \in Detector : Add(total)[d] = total[d] + scan[d].used
<1>1. \A d \in Detector : scan[d].used \in Nat  BY DEF ScanType, Scan
<1> QED  BY <1>1 DEF Add

(* A step that leaves the books alone, and before and after which nothing  *)
(* is pending.                                                             *)
LEMMA BooksKept ==
    ASSUME ScanInv, UNCHANGED books, scan' \in [Detector -> Scan],
           phase # "scanning",
           phase' = "scanning" => \A d \in Detector : scan'[d].used = 0
    PROVE  ScanInv'
<1>1. ScanType'  BY DEF ScanInv, ScanType, books
<1>2. UsageEnteredOnce'
  BY DEF ScanInv, ScanType, UsageEnteredOnce, Pending, books
<1> QED  BY <1>1, <1>2 DEF ScanInv

(* A step of one scan that costs nothing. *)
LEMMA UsageKept ==
    ASSUME ScanInv, UNCHANGED <<books, phase>>, scan' \in [Detector -> Scan],
           \A d \in Detector : scan'[d].used = scan[d].used
    PROVE  ScanInv'
<1>1. ScanType'  BY DEF ScanInv, ScanType, books
<1>2. UsageEnteredOnce'
  BY DEF ScanInv, ScanType, UsageEnteredOnce, Pending, books
<1> QED  BY <1>1, <1>2 DEF ScanInv

-----------------------------------------------------------------------------
LEMMA ScanInvInit == ScanInit => ScanInv
<1> SUFFICES ASSUME ScanInit PROVE ScanInv  OBVIOUS
<1>1. ScanType
  <2>1. scan \in [Detector -> Scan]  BY FreshScan DEF ScanInit
  <2>2. /\ billed \in [Detector -> Nat] /\ paid \in [Detector -> Nat]
        /\ lost \in [Detector -> Nat]
    BY DEF ScanInit
  <2> QED  BY <2>1, <2>2 DEF ScanType
<1>2. ASSUME NEW d \in Detector PROVE billed[d] + lost[d] + Pending(d) = paid[d]
  <2>1. billed[d] = 0 /\ lost[d] = 0 /\ paid[d] = 0  BY DEF ScanInit
  <2>2. Pending(d) = 0  BY DEF ScanInit, Pending
  <2> QED  BY <2>1, <2>2
<1> QED  BY <1>1, <1>2 DEF ScanInv, UsageEnteredOnce

LEMMA ScanStep ==
    ASSUME ScanInv, NEW d \in Detector,
           \/ NoAnswer(d) \/ TracingBreaks(d) \/ SettleScan(d)
           \/ \E verdict \in {"fires", "clean", "error", "text"} : AnswerOf(d, verdict)
    PROVE  ScanInv'
<1>0. scan[d] \in Scan /\ scan \in [Detector -> Scan]  BY DEF ScanInv, ScanType
<1>1. CASE NoAnswer(d)
  <2>1. UNCHANGED <<books, phase>>  BY <1>1 DEF NoAnswer, books
  <2>2. /\ Conclude(d, "error") \in Scan
        /\ Conclude(d, "error").used = scan[d].used
    BY <1>0 DEF Conclude, Scan
  <2>3. scan' = [scan EXCEPT ![d] = Conclude(d, "error")]  BY <1>1 DEF NoAnswer
  <2> QED  BY <1>0, <2>1, <2>2, <2>3, UsageKept
<1>2. CASE TracingBreaks(d)
  <2>1. UNCHANGED <<books, phase>>  BY <1>2 DEF TracingBreaks, books
  <2>2. RunPlain(d) \in Scan /\ RunPlain(d).used = scan[d].used
    BY <1>0 DEF RunPlain, Scan
  <2>3. scan' = [scan EXCEPT ![d] = RunPlain(d)]  BY <1>2 DEF TracingBreaks
  <2> QED  BY <1>0, <2>1, <2>2, <2>3, UsageKept
<1>3. CASE SettleScan(d)
  <2>1. UNCHANGED <<books, phase>>  BY <1>3 DEF SettleScan, books
  <2>2. /\ [scan[d] EXCEPT !.pc = "settled"] \in Scan
        /\ [scan[d] EXCEPT !.pc = "settled"].used = scan[d].used
    BY <1>0 DEF Scan
  <2>3. scan' = [scan EXCEPT ![d] = [scan[d] EXCEPT !.pc = "settled"]]
    BY <1>3 DEF SettleScan
  <2> QED  BY <1>0, <2>1, <2>2, <2>3, UsageKept
<1>4. ASSUME NEW verdict \in {"fires", "clean", "error", "text"}, AnswerOf(d, verdict)
      PROVE  ScanInv'
  <2> DEFINE s == [scan[d] EXCEPT !.calls = @ + 1, !.used = @ + 1]
             t == IF verdict # "text" THEN [s EXCEPT !.pc = "concluded", !.verdict = verdict]
                  ELSE IF s.calls = MaxCalls
                       THEN [s EXCEPT !.pc = "concluded", !.verdict = "error"]
                       ELSE s
  <2>1. s \in Scan /\ s.used = scan[d].used + 1 /\ scan[d].used \in Nat
    <3>1. /\ scan[d].used \in Nat /\ scan[d].calls \in Nat
          /\ scan[d].used + 1 \in Nat /\ scan[d].calls + 1 \in Nat
      BY <1>0 DEF Scan
    <3>2. s = [scan[d] EXCEPT !.calls = scan[d].calls + 1, !.used = scan[d].used + 1]
      OBVIOUS
    <3> QED  BY <1>0, <3>1, <3>2 DEF Scan
  <2>2. t \in Scan /\ t.used = scan[d].used + 1
    <3> HIDE DEF s
    <3>1. [s EXCEPT !.pc = "concluded", !.verdict = "error"] \in Scan
      BY <2>1 DEF Scan
    <3>2. verdict # "text" => [s EXCEPT !.pc = "concluded", !.verdict = verdict] \in Scan
      BY <2>1 DEF Scan
    <3>3. /\ [s EXCEPT !.pc = "concluded", !.verdict = "error"].used = s.used
          /\ [s EXCEPT !.pc = "concluded", !.verdict = verdict].used = s.used
      BY <2>1 DEF Scan
    <3> QED  BY <2>1, <3>1, <3>2, <3>3
  <2>3. scan' = [scan EXCEPT ![d] = t]  BY <1>4 DEF AnswerOf
  <2>4. /\ phase = "scanning" /\ phase' = phase /\ billed' = billed /\ lost' = lost
        /\ paid' = [paid EXCEPT ![d] = @ + 1]
    BY <1>4 DEF AnswerOf, Asking
  <2> HIDE DEF t
  <2>5. ScanType'  BY <1>0, <2>2, <2>3, <2>4 DEF ScanInv, ScanType
  <2>6. UsageEnteredOnce'
    <3> SUFFICES ASSUME NEW e \in Detector
                 PROVE  billed'[e] + lost'[e] + Pending(e)' = paid'[e]
      BY DEF UsageEnteredOnce
    <3>1. billed[e] + lost[e] + scan[e].used = paid[e]
      BY <2>4 DEF ScanInv, UsageEnteredOnce, Pending
    <3>2. Pending(e)' = scan'[e].used  BY <2>4 DEF Pending
    <3>3. billed[e] \in Nat /\ lost[e] \in Nat /\ paid[e] \in Nat  BY DEF ScanInv, ScanType
    <3>4. CASE e = d
      <4>1. scan'[e].used = scan[e].used + 1 /\ paid'[e] = paid[e] + 1
        BY <1>0, <2>2, <2>3, <2>4, <3>4 DEF ScanInv, ScanType
      <4> QED  BY <2>1, <2>4, <3>1, <3>2, <3>3, <3>4, <4>1
    <3>5. CASE e # d
      <4>1. scan'[e] = scan[e] /\ paid'[e] = paid[e]
        BY <1>0, <2>3, <2>4, <3>5 DEF ScanInv, ScanType
      <4> QED  BY <2>4, <3>1, <3>2, <4>1
    <3> QED  BY <3>4, <3>5
  <2> QED  BY <2>5, <2>6 DEF ScanInv
<1> QED  BY <1>1, <1>2, <1>3, <1>4

LEMMA ScanInvNext == ScanInv /\ [ScanNext]_scanVars => ScanInv'
<1> SUFFICES ASSUME ScanInv, [ScanNext]_scanVars PROVE ScanInv'  OBVIOUS
<1>1. CASE BeginScans
  BY <1>1, BooksKept, ForgetType DEF BeginScans
<1>2. CASE DownloadFails
  BY <1>2, BooksKept DEF DownloadFails, ScanInv, ScanType
<1>3. CASE ScansBlocked
  BY <1>3, BooksKept DEF ScansBlocked, ScanInv, ScanType
<1>4. CASE WriteUsage
  <2>1. /\ phase = "scanning" /\ billed' = Add(billed) /\ lost' = lost /\ paid' = paid
        /\ GoOn
    BY <1>4 DEF WriteUsage
  <2>2. scan' \in [Detector -> Scan] /\ phase' # "scanning"
    BY <2>1, GoOnType DEF ScanInv
  <2>3. /\ billed' \in [Detector -> Nat]
        /\ \A d \in Detector : billed'[d] = billed[d] + scan[d].used
    BY <2>1, Added DEF ScanInv, ScanType
  <2>4. ScanType'  BY <2>1, <2>2, <2>3 DEF ScanInv, ScanType
  <2>5. UsageEnteredOnce'
    <3> SUFFICES ASSUME NEW d \in Detector
                 PROVE  billed'[d] + lost'[d] + Pending(d)' = paid'[d]
      BY DEF UsageEnteredOnce
    <3>1. billed[d] + lost[d] + scan[d].used = paid[d]
      BY <2>1 DEF ScanInv, UsageEnteredOnce, Pending
    <3>2. Pending(d)' = 0  BY <2>2 DEF Pending
    <3>3. billed[d] \in Nat /\ lost[d] \in Nat /\ scan[d].used \in Nat
      BY DEF ScanInv, ScanType, Scan
    <3> QED  BY <2>1, <2>3, <3>1, <3>2, <3>3
  <2> QED  BY <2>4, <2>5 DEF ScanInv
<1>5. ASSUME phase = "scanning", phase' # "scanning", lost' = Add(lost),
             billed' = billed, paid' = paid, scan' \in [Detector -> Scan]
      PROVE  ScanInv'
  <2>1. /\ lost' \in [Detector -> Nat]
        /\ \A d \in Detector : lost'[d] = lost[d] + scan[d].used
    BY <1>5, Added DEF ScanInv, ScanType
  <2>2. ScanType'  BY <1>5, <2>1 DEF ScanInv, ScanType
  <2>3. UsageEnteredOnce'
    <3> SUFFICES ASSUME NEW d \in Detector
                 PROVE  billed'[d] + lost'[d] + Pending(d)' = paid'[d]
      BY DEF UsageEnteredOnce
    <3>1. billed[d] + lost[d] + scan[d].used = paid[d]
      BY <1>5 DEF ScanInv, UsageEnteredOnce, Pending
    <3>2. Pending(d)' = 0  BY <1>5 DEF Pending
    <3>3. billed[d] \in Nat /\ lost[d] \in Nat /\ scan[d].used \in Nat
      BY DEF ScanInv, ScanType, Scan
    <3> QED  BY <1>5, <2>1, <3>1, <3>2, <3>3
  <2> QED  BY <2>2, <2>3 DEF ScanInv
<1>6. CASE UsageLost
  <2>1. /\ phase = "scanning" /\ lost' = Add(lost) /\ billed' = billed /\ paid' = paid
        /\ GoOn
    BY <1>6 DEF UsageLost
  <2>2. scan' \in [Detector -> Scan] /\ phase' # "scanning"
    BY <2>1, GoOnType DEF ScanInv
  <2> QED  BY <1>5, <2>1, <2>2
<1>7. CASE EndWithFinding
  BY <1>7, BooksKept, ForgetType DEF EndWithFinding
<1>8. CASE FindingFails
  BY <1>8, BooksKept, ForgetType DEF FindingFails, Again
<1>9. CASE WorkerDies
  <2>1. /\ phase' \in {"waiting", "failed"} /\ billed' = billed /\ paid' = paid
        /\ scan' \in [Detector -> Scan]
        /\ lost' = IF phase = "scanning" THEN Add(lost) ELSE lost
    BY <1>9, ForgetType DEF WorkerDies
  <2>2. CASE phase = "scanning"  BY <1>5, <2>1, <2>2
  <2>3. CASE phase # "scanning"  BY <2>1, <2>3, BooksKept DEF books
  <2> QED  BY <2>2, <2>3
<1>10. CASE \E d \in Detector :
               \/ NoAnswer(d) \/ TracingBreaks(d) \/ SettleScan(d)
               \/ \E verdict \in {"fires", "clean", "error", "text"} : AnswerOf(d, verdict)
  BY <1>10, ScanStep
<1>11. CASE UNCHANGED scanVars
  BY <1>11 DEF scanVars, books, ScanInv, ScanType, UsageEnteredOnce, Pending
<1> QED
  BY <1>1, <1>2, <1>3, <1>4, <1>6, <1>7, <1>8, <1>9, <1>10, <1>11 DEF ScanNext

(* Every answer that a provider was paid for is entered as usage once or   *)
(* is one of those known to be lost, whatever the scans found and however  *)
(* the job was retried (evaluateTrace, runDetectionForTrace,               *)
(* withSelfTrace).                                                         *)
THEOREM EnteredOnce == ScanSpec => []UsageEnteredOnce
<1>1. ScanInit => ScanInv  BY ScanInvInit
<1>2. ScanInv /\ [ScanNext]_scanVars => ScanInv'  BY ScanInvNext
<1>3. ScanInv => UsageEnteredOnce  BY DEF ScanInv
<1> QED  BY <1>1, <1>2, <1>3, PTL DEF ScanSpec
=============================================================================
