------------------------ MODULE FindingPipelineProofs ------------------------
(***************************************************************************)
(* What holds of FindingPipeline for every set of traces, every choice of  *)
(* windows, attempts and faults: type correctness, the order in which the  *)
(* stored records come to refer to each other, and the window a digest     *)
(* counts.                                                                 *)
(***************************************************************************)
EXTENDS FindingPipeline, TLAPS

USE DEF history

(* The order in which evaluateTrace makes its writes. *)
LEMMA WriteOrder ==
    /\ After("start") = "finding" /\ After("finding") = "runs"
    /\ After("runs") = "seed" /\ After("seed") = "enqueue"
    /\ After("enqueue") = "returned"
BY DEF After

(* The last tick of the model is a natural number. *)
LEMMA LastTickType == LastTick \in Nat /\ Horizon <= LastTick
<1>1. LongestWindow \in Windows
  BY WindowAssumption DEF LongestWindow
<1>. QED
  BY <1>1, WindowAssumption, BoundAssumption DEF LastTick

-----------------------------------------------------------------------------
(* The detection jobs, the RCA jobs, and the rest keep their types.        *)
DetOK ==
    /\ det \in [Trace -> Detections]
    /\ \A t \in Trace : det[t].at # "start" => det[t].st = "active"
    /\ \A t \in Trace : det[t].st \in Live => det[t].tries < DetectAttempts

RcaOK ==
    /\ rca \in [Trace -> RcaJobs]
    /\ \A t \in Trace : rca[t].at # "start" => rca[t].st = "active"
    /\ \A t \in Trace : rca[t].st \in Live => rca[t].tries < RcaAttempts

RestOK ==
    /\ clock \in Ticks
    /\ finding \subseteq Trace
    /\ run \in [Trace -> [verdict : Verdicts \cup {"none"}, ts : Ticks]]
    /\ row \in [Trace -> {"none", "pending", "running", "done", "failed"}]
    /\ alertWindow \in Windows
    /\ flush \in [Ticks -> FlushJobs]
    /\ sent \in [Trace -> Nat]
    /\ again \subseteq Trace /\ unclosed \subseteq Trace /\ resent \subseteq Trace
    /\ disruptions \in 0 .. MaxDisruptions

LEMMA TypeParts == TypeOK <=> DetOK /\ RcaOK /\ RestOK
BY DEF TypeOK, DetOK, RcaOK, RestOK

LEMMA TypePartsNext == DetOK' /\ RcaOK' /\ RestOK' => TypeOK'
BY DEF TypeOK, DetOK, RcaOK, RestOK

(* A job that threw is retried only while it has attempts left. *)
LEMMA RetriedType ==
    ASSUME NEW tries \in Nat, NEW attempts \in Nat, tries < attempts
    PROVE  /\ tries + 1 \in 0 .. attempts
           /\ Retried(tries, attempts) \in {"waiting", "failed"}
           /\ Retried(tries, attempts) = "waiting" => tries + 1 < attempts
BY DEF Retried

(* A job record replaced by one of its type leaves the jobs well typed. *)
LEMMA DetReplaced ==
    ASSUME DetOK, NEW t \in Trace, NEW d \in Detections,
           d.at # "start" => d.st = "active",
           d.st \in Live => d.tries < DetectAttempts,
           det' = [det EXCEPT ![t] = d]
    PROVE  DetOK'
BY DEF DetOK

LEMMA RcaReplaced ==
    ASSUME RcaOK, NEW t \in Trace, NEW r \in RcaJobs,
           r.at # "start" => r.st = "active",
           r.st \in Live => r.tries < RcaAttempts,
           rca' = [rca EXCEPT ![t] = r]
    PROVE  RcaOK'
BY DEF RcaOK

LEMMA DetMoves ==
    ASSUME DetOK, NEW t \in Trace, det[t].st = "active",
           NEW step \in DetectSteps, DetectGoto(t, step)
    PROVE  DetOK'
BY DEF DetOK, DetectGoto, Detections, JobStates, Live

LEMMA DetThrowsType ==
    ASSUME DetOK, NEW t \in Trace, det[t].st = "active", DetectThrows(t)
    PROVE  DetOK'
<1>. DEFINE st == Retried(det[t].tries, DetectAttempts)
            d == [det[t] EXCEPT !.at = "start", !.tries = @ + 1, !.st = st]
<1>1. det[t] \in Detections /\ det[t].tries \in Nat /\ det[t].tries < DetectAttempts
  BY DEF DetOK, Detections, Live
<1>2. /\ det[t].tries + 1 \in 0 .. DetectAttempts
      /\ st \in {"waiting", "failed"}
      /\ st = "waiting" => det[t].tries + 1 < DetectAttempts
  BY <1>1, RetriedType, BoundAssumption
<1>3. det' = [det EXCEPT ![t] = d]
  BY DEF DetectThrows, DetOK
<1>4. d \in Detections /\ d.at = "start" /\ d.st = st /\ d.tries = det[t].tries + 1
  BY <1>1, <1>2 DEF Detections, DetectSteps, JobStates, Live
<1>5. d.st \in Live => d.tries < DetectAttempts
  BY <1>2, <1>4 DEF Live
<1>. HIDE DEF d, st
<1>. QED
  BY <1>3, <1>4, <1>5, DetReplaced

LEMMA RcaMoves ==
    ASSUME RcaOK, NEW t \in Trace, rca[t].st = "active",
           NEW step \in RcaSteps, RcaGoto(t, step)
    PROVE  RcaOK'
BY DEF RcaOK, RcaGoto, RcaJobs, JobStates, Live

LEMMA RcaThrowsType ==
    ASSUME RcaOK, NEW t \in Trace, rca[t].st = "active", RcaThrows(t)
    PROVE  RcaOK'
<1>. DEFINE st == Retried(rca[t].tries, RcaAttempts)
            r == [rca[t] EXCEPT !.at = "start", !.tries = @ + 1,
                                !.win = DefaultWindow, !.st = st]
<1>1. rca[t] \in RcaJobs /\ rca[t].tries \in Nat /\ rca[t].tries < RcaAttempts
  BY DEF RcaOK, RcaJobs, Live
<1>2. /\ rca[t].tries + 1 \in 0 .. RcaAttempts
      /\ st \in {"waiting", "failed"}
      /\ st = "waiting" => rca[t].tries + 1 < RcaAttempts
  BY <1>1, RetriedType, BoundAssumption
<1>3. rca' = [rca EXCEPT ![t] = r]
  BY DEF RcaThrows, RcaOK
<1>4. r \in RcaJobs /\ r.at = "start" /\ r.st = st /\ r.tries = rca[t].tries + 1
  BY <1>1, <1>2, WindowAssumption DEF RcaJobs, RcaSteps, JobStates, Live
<1>5. r.st \in Live => r.tries < RcaAttempts
  BY <1>2, <1>4 DEF Live
<1>. HIDE DEF r, st
<1>. QED
  BY <1>3, <1>4, <1>5, RcaReplaced

(* Firing, dying and reading the project change several fields at once. *)
LEMMA FiresType ==
    ASSUME DetOK, RestOK, NEW t \in Trace, Fires(t)
    PROVE  DetOK'
<1>1. PICK v \in {"muted", "fired"} :
         det' = [det EXCEPT ![t].at = "finding", ![t].verdict = v, ![t].ts = clock]
  BY WriteOrder DEF Fires
<1>. DEFINE d == [det[t] EXCEPT !.at = "finding", !.verdict = v, !.ts = clock]
<1>2. det[t] \in Detections /\ det[t].st = "active" /\ det[t].tries < DetectAttempts
  BY DEF DetOK, Fires, DetectAt, Live
<1>3. det' = [det EXCEPT ![t] = d]
  BY <1>1 DEF DetOK
<1>4. d \in Detections /\ d.st = "active" /\ d.tries = det[t].tries
  BY <1>2 DEF RestOK, Detections, DetectSteps, Verdicts
<1>. HIDE DEF d
<1>. QED
  BY <1>2, <1>3, <1>4, DetReplaced

LEMMA StalledType ==
    ASSUME NEW job PROVE Stalled(job) \in JobStates /\ MaxStalls \in 0 .. MaxStalls
BY DEF Stalled, JobStates, Live, MaxStalls

LEMMA DetCrashType ==
    ASSUME DetOK, NEW t \in Trace, DetectCrash(t)
    PROVE  DetOK'
<1>. DEFINE d == [det[t] EXCEPT !.st = Stalled(det[t]), !.stalls = MaxStalls,
                                !.at = "start"]
<1>1. det[t] \in Detections /\ det[t].tries < DetectAttempts
  BY DEF DetOK, DetectCrash, Live
<1>2. det' = [det EXCEPT ![t] = d]
  BY DEF DetOK, DetectCrash
<1>3. d \in Detections /\ d.at = "start" /\ d.tries = det[t].tries
  BY <1>1, StalledType DEF Detections, DetectSteps
<1>. HIDE DEF d
<1>. QED
  BY <1>1, <1>2, <1>3, DetReplaced

LEMMA ReadProjectType ==
    ASSUME RcaOK, RestOK, NEW t \in Trace, ReadProject(t)
    PROVE  RcaOK'
<1>. DEFINE r == [rca[t] EXCEPT !.at = "agent", !.win = alertWindow]
<1>1. rca[t] \in RcaJobs /\ rca[t].st = "active" /\ rca[t].tries < RcaAttempts
  BY DEF RcaOK, ReadProject, RcaAt, Live
<1>2. rca' = [rca EXCEPT ![t] = r]
  BY DEF RcaOK, ReadProject
<1>3. r \in RcaJobs /\ r.st = "active" /\ r.tries = rca[t].tries
  BY <1>1 DEF RestOK, RcaJobs, RcaSteps
<1>. HIDE DEF r
<1>. QED
  BY <1>1, <1>2, <1>3, RcaReplaced

LEMMA RcaCrashType ==
    ASSUME RcaOK, NEW t \in Trace, RcaCrash(t)
    PROVE  RcaOK'
<1>. DEFINE r == [rca[t] EXCEPT !.st = Stalled(rca[t]), !.stalls = MaxStalls,
                                !.at = "start", !.win = DefaultWindow]
<1>1. rca[t] \in RcaJobs /\ rca[t].tries < RcaAttempts
  BY DEF RcaOK, RcaCrash, Live
<1>2. rca' = [rca EXCEPT ![t] = r]
  BY DEF RcaOK, RcaCrash
<1>3. r \in RcaJobs /\ r.at = "start" /\ r.tries = rca[t].tries
  BY <1>1, WindowAssumption, StalledType DEF RcaJobs, RcaSteps
<1>. HIDE DEF r
<1>. QED
  BY <1>1, <1>2, <1>3, RcaReplaced

(* Adding the RCA job and scheduling the flush keep the types of both. *)
LEMMA EnqueuedType ==
    ASSUME DetOK, RcaOK, NEW t \in Trace, rca' = Enqueued(t)
    PROVE  RcaOK'
<1>. DEFINE r == RcaJob("waiting", CaptureTime(t))
<1>1. det[t].ts \in Ticks
  BY DEF DetOK, Detections
<1>2. /\ r \in RcaJobs /\ r.at = "start" /\ r.tries < RcaAttempts
  BY <1>1, WindowAssumption, BoundAssumption
     DEF CaptureTime, RcaJob, RcaJobs, RcaSteps, JobStates, Live, MaxStalls
<1>3. CASE rca[t].st = "absent"
  <2>1. rca' = [rca EXCEPT ![t] = r]
    BY <1>3 DEF Enqueued
  <2>. HIDE DEF r
  <2>. QED
    BY <1>2, <2>1, RcaReplaced
<1>4. CASE rca[t].st # "absent"
  BY <1>4 DEF Enqueued, RcaOK
<1>. QED
  BY <1>3, <1>4

LEMMA ScheduledType ==
    ASSUME RcaOK, RestOK, NEW t \in Trace
    PROVE  Scheduled(t) \in [Ticks -> FlushJobs]
<1>1. rca[t].win \in Windows
  BY DEF RcaOK, RcaJobs
<1>. DEFINE s == WindowStart(rca[t].ts, rca[t].win)
<1>2. CASE flush[s].st = "absent"
  <2>1. FlushJob("waiting", rca[t].win) \in FlushJobs
    BY <1>1 DEF FlushJob, FlushJobs, MaxStalls
  <2>. QED
    BY <1>2, <2>1 DEF Scheduled, RestOK
<1>3. CASE flush[s].st # "absent"
  BY <1>3 DEF Scheduled, RestOK
<1>. QED
  BY <1>2, <1>3

LEMMA TypeInit == Init => TypeOK
<1>. SUFFICES ASSUME Init PROVE TypeOK
  OBVIOUS
<1>1. DetOK
  BY LastTickType, BoundAssumption
     DEF Init, DetOK, NewDetection, Detections, DetectSteps, JobStates, Live,
         Verdicts, Ticks, MaxStalls
<1>2. RcaOK
  BY LastTickType, BoundAssumption, WindowAssumption
     DEF Init, RcaOK, NoRca, RcaJob, RcaJobs, RcaSteps, JobStates, Live, Ticks,
         MaxStalls
<1>3. RestOK
  BY LastTickType, BoundAssumption, WindowAssumption
     DEF Init, RestOK, NoRun, NoFlush, FlushJob, FlushJobs, MaxStalls, Ticks
<1>. QED
  BY <1>1, <1>2, <1>3, TypeParts

LEMMA TypeNext == TypeOK /\ [Next]_vars => TypeOK'
<1>. SUFFICES ASSUME TypeOK, [Next]_vars PROVE TypeOK'
  OBVIOUS
<1>0. DetOK /\ RcaOK /\ RestOK
  BY TypeParts
<1>1. ASSUME NEW t \in Trace, DetectStep(t) \/ DetectTrouble(t) PROVE TypeOK'
  <2>. USE <1>0
  <2>1. CASE StartDetection(t)
    <3>1. DetOK'
      BY <2>1
         DEF StartDetection, DetOK, Detections, DetectSteps, JobStates, Live,
             Verdicts
    <3>2. RcaOK'
      BY <2>1 DEF StartDetection, RcaOK
    <3>3. RestOK'
      BY <2>1 DEF StartDetection, RestOK
    <3>. QED
      BY <3>1, <3>2, <3>3, TypePartsNext
  <2>2. CASE NothingFires(t)
    <3>1. DetOK'
      BY <2>2, DetMoves DEF NothingFires, DetectEnds, DetectAt, DetectSteps
    <3>2. RcaOK'
      BY <2>2 DEF NothingFires, RcaOK
    <3>3. RestOK'
      <4>1. run' \in [Trace -> [verdict : Verdicts \cup {"none"}, ts : Ticks]]
        BY <2>2 DEF NothingFires, RestOK, LatestRun, Verdicts
      <4>. QED
        BY <2>2, <4>1 DEF NothingFires, RestOK
    <3>. QED
      BY <3>1, <3>2, <3>3, TypePartsNext
  <2>3. CASE Fires(t)
    <3>1. DetOK'
      BY <2>3, FiresType DEF DetectAt
    <3>2. RcaOK'
      BY <2>3 DEF Fires, RcaOK
    <3>3. RestOK'
      BY <2>3 DEF Fires, RestOK
    <3>. QED
      BY <3>1, <3>2, <3>3, TypePartsNext
  <2>4. CASE WriteFinding(t)
    <3>1. DetOK'
      BY <2>4, WriteOrder, DetMoves DEF WriteFinding, DetectAt, DetectSteps
    <3>2. RcaOK'
      BY <2>4 DEF WriteFinding, RcaOK
    <3>3. RestOK'
      BY <2>4 DEF WriteFinding, RestOK
    <3>. QED
      BY <3>1, <3>2, <3>3, TypePartsNext
  <2>5. CASE WriteRuns(t)
    <3>1. DetOK'
      BY <2>5, WriteOrder, DetMoves
         DEF WriteRuns, AfterRuns, DetectEnds, DetectAt, DetectSteps
    <3>2. RcaOK'
      BY <2>5 DEF WriteRuns, RcaOK
    <3>3. RestOK'
      BY <2>5 DEF WriteRuns, RestOK, LatestRun, Verdicts, DetOK, Detections
    <3>. QED
      BY <3>1, <3>2, <3>3, TypePartsNext
  <2>6. CASE SeedRow(t)
    <3>1. DetOK'
      BY <2>6, WriteOrder, DetMoves DEF SeedRow, DetectAt, DetectSteps
    <3>2. RcaOK'
      BY <2>6 DEF SeedRow, RcaOK
    <3>3. RestOK'
      BY <2>6 DEF SeedRow, Seeded, RestOK
    <3>. QED
      BY <3>1, <3>2, <3>3, TypePartsNext
  <2>7. CASE EnqueueRca(t)
    <3>1. DetOK'
      BY <2>7, WriteOrder, DetMoves DEF EnqueueRca, DetectAt, DetectSteps
    <3>2. RcaOK'
      BY <2>7, EnqueuedType DEF EnqueueRca
    <3>3. RestOK'
      BY <2>7 DEF EnqueueRca, RestOK
    <3>. QED
      BY <3>1, <3>2, <3>3, TypePartsNext
  <2>8. CASE DetectDone(t)
    <3>1. DetOK'
      BY <2>8
         DEF DetectDone, DetectAt, DetOK, Detections, DetectSteps, JobStates,
             Live, Verdicts
    <3>2. RcaOK'
      BY <2>8 DEF DetectDone, RcaOK
    <3>3. RestOK'
      BY <2>8 DEF DetectDone, RestOK
    <3>. QED
      BY <3>1, <3>2, <3>3, TypePartsNext
  <2>9. CASE SkipDetection(t)
    <3>1. DetOK'
      BY <2>9, DetMoves DEF SkipDetection, DetectEnds, DetectAt, DetectSteps
    <3>2. RcaOK'
      BY <2>9 DEF SkipDetection, RcaOK
    <3>3. RestOK'
      BY <2>9 DEF SkipDetection, RestOK
    <3>. QED
      BY <3>1, <3>2, <3>3, TypePartsNext
  <2>10. CASE LoseRuns(t)
    <3>1. DetOK'
      BY <2>10, WriteOrder, DetMoves
         DEF LoseRuns, AfterRuns, DetectEnds, DetectAt, DetectSteps
    <3>2. RcaOK'
      BY <2>10 DEF LoseRuns, RcaOK
    <3>3. RestOK'
      BY <2>10 DEF LoseRuns, RestOK
    <3>. QED
      BY <3>1, <3>2, <3>3, TypePartsNext
  <2>11. CASE DetectError(t)
    <3>1. DetOK'
      BY <2>11, DetThrowsType DEF DetectError, DetectAt
    <3>2. RcaOK'
      BY <2>11, EnqueuedType DEF DetectError, RcaOK
    <3>3. RestOK'
      BY <2>11 DEF DetectError, DetectThrows, RestOK
    <3>. QED
      BY <3>1, <3>2, <3>3, TypePartsNext
  <2>12. CASE DetectCrash(t)
    <3>1. DetOK'
      BY <2>12, DetCrashType DEF DetectCrash
    <3>2. RcaOK'
      BY <2>12 DEF DetectCrash, RcaOK
    <3>3. RestOK'
      BY <2>12, BoundAssumption DEF DetectCrash, Disrupt, RestOK
    <3>. QED
      BY <3>1, <3>2, <3>3, TypePartsNext
  <2>13. CASE DetectAgain(t)
    <3>1. DetOK'
      BY <2>13, LastTickType, BoundAssumption
         DEF DetectAgain, NewDetection, Ticks, DetOK, Detections, DetectSteps,
             JobStates, Live, Verdicts, MaxStalls
    <3>2. RcaOK'
      BY <2>13 DEF DetectAgain, RcaOK
    <3>3. RestOK'
      BY <2>13, BoundAssumption DEF DetectAgain, Disrupt, RestOK
    <3>. QED
      BY <3>1, <3>2, <3>3, TypePartsNext
  <2>. QED
    BY <1>1, <2>1, <2>2, <2>3, <2>4, <2>5, <2>6, <2>7, <2>8, <2>9, <2>10, <2>11,
       <2>12, <2>13
       DEF DetectStep, DetectTrouble
<1>2. ASSUME NEW t \in Trace, RcaStep(t) \/ RcaTrouble(t) PROVE TypeOK'
  <2>. USE <1>0
  <2>14. CASE StartRca(t)
    <3>1. DetOK'
      BY <2>14 DEF StartRca, DetOK
    <3>2. RcaOK'
      BY <2>14 DEF StartRca, RcaOK, RcaJobs, RcaSteps, JobStates, Live
    <3>3. RestOK'
      BY <2>14 DEF StartRca, RestOK
    <3>. QED
      BY <3>1, <3>2, <3>3, TypePartsNext
  <2>15. CASE BeginRca(t)
    <3>1. DetOK'
      BY <2>15 DEF BeginRca, DetOK
    <3>2. RcaOK'
      BY <2>15, RcaMoves DEF BeginRca, RcaAt, RcaSteps
    <3>3. RestOK'
      BY <2>15 DEF BeginRca, RestOK
    <3>. QED
      BY <3>1, <3>2, <3>3, TypePartsNext
  <2>16. CASE ReadProject(t)
    <3>1. DetOK'
      BY <2>16 DEF ReadProject, DetOK
    <3>2. RcaOK'
      BY <2>16, ReadProjectType DEF RcaAt
    <3>3. RestOK'
      BY <2>16 DEF ReadProject, RestOK
    <3>. QED
      BY <3>1, <3>2, <3>3, TypePartsNext
  <2>17. CASE AgentAnswers(t)
    <3>1. DetOK'
      BY <2>17 DEF AgentAnswers, DetOK
    <3>2. RcaOK'
      BY <2>17, RcaMoves DEF AgentAnswers, RcaAt, RcaSteps
    <3>3. RestOK'
      BY <2>17 DEF AgentAnswers, RestOK
    <3>. QED
      BY <3>1, <3>2, <3>3, TypePartsNext
  <2>18. CASE RcaFails(t)
    <3>1. DetOK'
      BY <2>18 DEF RcaFails, DetOK
    <3>2. RcaOK'
      BY <2>18, RcaMoves DEF RcaFails, RcaAt, RcaSteps
    <3>3. RestOK'
      BY <2>18 DEF RcaFails, CloseRow, RestOK
    <3>. QED
      BY <3>1, <3>2, <3>3, TypePartsNext
  <2>19. CASE ScheduleFlush(t)
    <3>1. DetOK'
      BY <2>19 DEF ScheduleFlush, DetOK
    <3>2. RcaOK'
      BY <2>19, RcaMoves DEF ScheduleFlush, RcaEnds, RcaAt, RcaSteps
    <3>3. RestOK'
      BY <2>19, ScheduledType DEF ScheduleFlush, RestOK
    <3>. QED
      BY <3>1, <3>2, <3>3, TypePartsNext
  <2>20. CASE ScheduleAndThrow(t)
    <3>1. DetOK'
      BY <2>20 DEF ScheduleAndThrow, DetOK
    <3>2. RcaOK'
      BY <2>20, RcaThrowsType DEF ScheduleAndThrow, RcaAt
    <3>3. RestOK'
      BY <2>20, ScheduledType DEF ScheduleAndThrow, RestOK
    <3>. QED
      BY <3>1, <3>2, <3>3, TypePartsNext
  <2>21. CASE RcaDone(t)
    <3>1. DetOK'
      BY <2>21 DEF RcaDone, DetOK
    <3>2. RcaOK'
      BY <2>21 DEF RcaDone, RcaAt, RcaOK, RcaJobs, RcaSteps, JobStates, Live
    <3>3. RestOK'
      BY <2>21 DEF RcaDone, RestOK
    <3>. QED
      BY <3>1, <3>2, <3>3, TypePartsNext
  <2>22. CASE SkipRca(t)
    <3>1. DetOK'
      BY <2>22 DEF SkipRca, DetOK
    <3>2. RcaOK'
      BY <2>22, RcaMoves DEF SkipRca, RcaEnds, RcaAt, RcaSteps
    <3>3. RestOK'
      BY <2>22 DEF SkipRca, CloseRow, Closed, RestOK
    <3>. QED
      BY <3>1, <3>2, <3>3, TypePartsNext
  <2>23. CASE BeginRcaError(t)
    <3>1. DetOK'
      BY <2>23 DEF BeginRcaError, DetOK
    <3>2. RcaOK'
      BY <2>23, RcaThrowsType DEF BeginRcaError, RcaAt
    <3>3. RestOK'
      BY <2>23 DEF BeginRcaError, RestOK
    <3>. QED
      BY <3>1, <3>2, <3>3, TypePartsNext
  <2>24. CASE ScheduleError(t)
    <3>1. DetOK'
      BY <2>24 DEF ScheduleError, DetOK
    <3>2. RcaOK'
      BY <2>24, RcaThrowsType DEF ScheduleError, RcaAt
    <3>3. RestOK'
      BY <2>24 DEF ScheduleError, RestOK
    <3>. QED
      BY <3>1, <3>2, <3>3, TypePartsNext
  <2>25. CASE RcaCrash(t)
    <3>1. DetOK'
      BY <2>25 DEF RcaCrash, DetOK
    <3>2. RcaOK'
      BY <2>25, RcaCrashType DEF RcaCrash
    <3>3. RestOK'
      BY <2>25, BoundAssumption DEF RcaCrash, Disrupt, RestOK
    <3>. QED
      BY <3>1, <3>2, <3>3, TypePartsNext
  <2>26. CASE ForgetRca(t)
    <3>1. DetOK'
      BY <2>26 DEF ForgetRca, DetOK
    <3>2. RcaOK'
      BY <2>26, WindowAssumption, LastTickType, BoundAssumption
         DEF ForgetRca, NoRca, RcaJob, Ticks, RcaOK, RcaJobs, RcaSteps,
             JobStates, Live, MaxStalls
    <3>3. RestOK'
      BY <2>26, BoundAssumption DEF ForgetRca, Disrupt, RestOK
    <3>. QED
      BY <3>1, <3>2, <3>3, TypePartsNext
  <2>. QED
    BY <1>2, <2>14, <2>15, <2>16, <2>17, <2>18, <2>19, <2>20, <2>21, <2>22,
       <2>23, <2>24, <2>25, <2>26
       DEF RcaStep, RcaTrouble
<1>3. ASSUME NEW s \in Ticks, FlushStep(s) \/ FlushError(s) \/ FlushCrash(s) PROVE TypeOK'
  <2>1. DetOK' /\ RcaOK'
    BY <1>0, <1>3
       DEF FlushStep, Flush, FlushDone, FlushError, FlushCrash, DetOK, RcaOK
  <2>2. flush' \in [Ticks -> FlushJobs]
    <3>0. flush \in [Ticks -> FlushJobs]
      BY <1>0 DEF RestOK
    <3>1. CASE Flush(s) \/ FlushDone(s) \/ FlushError(s)
      BY <3>0, <3>1 DEF Flush, FlushDone, FlushError, FlushJobs
    <3>2. CASE FlushCrash(s)
      <4>1. Stalled(flush[s]) \in {"waiting", "failed"} /\ MaxStalls \in 0 .. MaxStalls
        BY DEF Stalled, MaxStalls
      <4>. QED
        BY <3>0, <3>2, <4>1 DEF FlushCrash, FlushJobs
    <3>. QED
      BY <1>3, <3>1, <3>2 DEF FlushStep
  <2>3. sent' \in [Trace -> Nat]
    <3>0. sent \in [Trace -> Nat]
      BY <1>0 DEF RestOK
    <3>1. CASE Flush(s)
      BY <3>0, <3>1 DEF Flush
    <3>2. CASE FlushDone(s) \/ FlushError(s) \/ FlushCrash(s)
      BY <3>0, <3>2 DEF FlushDone, FlushError, FlushCrash
    <3>. QED
      BY <1>3, <3>1, <3>2 DEF FlushStep
  <2>4. /\ UNCHANGED <<clock, finding, run, row, alertWindow, again, unclosed>>
        /\ disruptions' \in 0 .. MaxDisruptions
    BY <1>0, <1>3, BoundAssumption
       DEF FlushStep, Flush, FlushDone, FlushError, FlushCrash, Disrupt, RestOK
  <2>5. resent' \subseteq Trace
    BY <1>0, <1>3
       DEF FlushStep, Flush, FlushDone, FlushError, FlushCrash, InWindow, RestOK
  <2>6. RestOK'
    BY <1>0, <2>2, <2>3, <2>4, <2>5 DEF RestOK
  <2>. QED
    BY <2>1, <2>6, TypePartsNext
<1>4. CASE ChangeWindow
  <2>1. DetOK' /\ RcaOK'
    BY <1>0, <1>4 DEF ChangeWindow, DetOK, RcaOK
  <2>2. RestOK'
    BY <1>0, <1>4, BoundAssumption DEF ChangeWindow, Disrupt, RestOK
  <2>. QED
    BY <2>1, <2>2, TypePartsNext
<1>5. CASE Tick
  <2>1. DetOK' /\ RcaOK'
    BY <1>0, <1>5 DEF Tick, DetOK, RcaOK
  <2>2. RestOK'
    BY <1>0, <1>5, LastTickType DEF Tick, RestOK, Ticks
  <2>. QED
    BY <2>1, <2>2, TypePartsNext
<1>6. CASE UNCHANGED vars
  BY <1>0, <1>6 DEF vars, TypeOK
<1>. QED
  BY <1>1, <1>2, <1>3, <1>4, <1>5, <1>6 DEF Next

(* Every variable keeps its range; only an active job is past its first    *)
(* step, and a job that is still to run has an attempt left.               *)
THEOREM TypeCorrect == Spec => []TypeOK
BY TypeInit, TypeNext, PTL DEF Spec

-----------------------------------------------------------------------------
(* FindingFirst is not inductive: a detection past its finding write must  *)
(* be known to have written it.                                            *)
Downstream(t) ==
    \/ run[t].verdict \in {"muted", "fired"}
    \/ rca[t].st # "absent"
    \/ row[t] # "none"
    \/ sent[t] > 0
    \/ det[t].at \in {"runs", "seed", "enqueue"}

FirstInv == \A t \in Trace : Downstream(t) => t \in finding

LEMMA FirstInit == Init => FirstInv
BY DEF Init, FirstInv, Downstream, NoRun, NoRca, RcaJob, NewDetection

LEMMA FindingsStay == [Next]_vars => finding \subseteq finding'
BY DEF Next, vars, DetectStep, DetectTrouble, RcaStep, RcaTrouble, ChangeWindow,
       Tick, FlushStep, Flush, FlushDone, FlushError, FlushCrash, StartDetection, NothingFires, Fires, WriteFinding, WriteRuns,
       SeedRow, EnqueueRca, DetectDone, SkipDetection, LoseRuns,
       DetectError, DetectCrash, DetectAgain, StartRca, BeginRca,
       ReadProject, AgentAnswers, RcaFails, ScheduleFlush,
       ScheduleAndThrow, RcaDone, SkipRca, CloseRow, BeginRcaError, ScheduleError,
       RcaCrash, ForgetRca

LEMMA FirstNext == TypeOK /\ FirstInv /\ [Next]_vars => FirstInv'
<1>. SUFFICES ASSUME TypeOK, FirstInv, [Next]_vars,
                     NEW u \in Trace, Downstream(u)'
              PROVE  u \in finding'
  BY DEF FirstInv
<1>0. Downstream(u) => u \in finding'
  BY FindingsStay DEF FirstInv
<1>. USE <1>0
<1>1. ASSUME NEW t \in Trace, DetectStep(t) \/ DetectTrouble(t)
      PROVE  u \in finding'
  <2>1. CASE StartDetection(t)
    BY <2>1, WriteOrder DEF StartDetection, DetectAt, Downstream, TypeOK
  <2>2. CASE NothingFires(t)
    <3>1. run'[u].verdict \in {"muted", "fired"} => run[u].verdict = run'[u].verdict
      BY <2>2 DEF NothingFires, LatestRun, TypeOK
    <3>2. det'[u].at \in {"runs", "seed", "enqueue"} => det[u].at = det'[u].at
      BY <2>2 DEF NothingFires, DetectEnds, DetectGoto, TypeOK
    <3>3. UNCHANGED <<rca, row, sent>>
      BY <2>2 DEF NothingFires
    <3>. QED
      BY <3>1, <3>2, <3>3 DEF Downstream
  <2>3. CASE Fires(t)
    BY <2>3, WriteOrder DEF Fires, DetectAt, Downstream, TypeOK
  <2>4. CASE WriteFinding(t)
    BY <2>4, WriteOrder
       DEF WriteFinding, DetectGoto, DetectAt, Downstream, TypeOK
  <2>5. CASE WriteRuns(t)
    BY <2>5, WriteOrder
       DEF WriteRuns, LatestRun, AfterRuns, DetectEnds, DetectGoto, DetectAt,
           Downstream, TypeOK
  <2>6. CASE SeedRow(t)
    BY <2>6, WriteOrder DEF SeedRow, DetectGoto, DetectAt, Downstream, TypeOK
  <2>7. CASE EnqueueRca(t)
    BY <2>7, WriteOrder
       DEF EnqueueRca, DetectGoto, Enqueued, RcaJob, DetectAt, Downstream,
           TypeOK
  <2>8. CASE DetectDone(t)
    BY <2>8, WriteOrder DEF DetectDone, DetectAt, Downstream, TypeOK
  <2>9. CASE SkipDetection(t)
    BY <2>9, WriteOrder
       DEF SkipDetection, DetectEnds, DetectGoto, DetectAt, Downstream, TypeOK
  <2>10. CASE LoseRuns(t)
    BY <2>10, WriteOrder
       DEF LoseRuns, AfterRuns, DetectEnds, DetectGoto, DetectAt, Downstream,
           TypeOK
  <2>11. CASE DetectError(t)
    BY <2>11, WriteOrder
       DEF DetectError, DetectThrows, Enqueued, RcaJob, DetectAt, Downstream,
           TypeOK
  <2>12. CASE DetectCrash(t)
    BY <2>12, WriteOrder DEF DetectCrash, DetectAt, Downstream, TypeOK
  <2>13. CASE DetectAgain(t)
    BY <2>13, WriteOrder
       DEF DetectAgain, NewDetection, DetectAt, Downstream, TypeOK
  <2>. QED
    BY <1>1, <2>1, <2>2, <2>3, <2>4, <2>5, <2>6, <2>7, <2>8, <2>9, <2>10, <2>11,
       <2>12, <2>13
       DEF DetectStep, DetectTrouble
<1>2. ASSUME NEW t \in Trace, RcaStep(t) \/ RcaTrouble(t)
      PROVE  u \in finding'
  <2>1. CASE StartRca(t)
    BY <2>1, WriteOrder DEF StartRca, RcaAt, Downstream, TypeOK
  <2>2. CASE BeginRca(t)
    BY <2>2, WriteOrder DEF BeginRca, RcaGoto, RcaAt, Downstream, TypeOK
  <2>3. CASE ReadProject(t)
    BY <2>3, WriteOrder DEF ReadProject, RcaAt, Downstream, TypeOK
  <2>4. CASE AgentAnswers(t)
    BY <2>4, WriteOrder DEF AgentAnswers, RcaGoto, RcaAt, Downstream, TypeOK
  <2>5. CASE RcaFails(t)
    BY <2>5, WriteOrder DEF RcaFails, CloseRow, RcaGoto, RcaAt, Downstream, TypeOK
  <2>6. CASE ScheduleFlush(t)
    BY <2>6, WriteOrder
       DEF ScheduleFlush, RcaEnds, RcaGoto, RcaAt, Downstream, TypeOK
  <2>7. CASE ScheduleAndThrow(t)
    BY <2>7, WriteOrder
       DEF ScheduleAndThrow, RcaThrows, RcaAt, Downstream, TypeOK
  <2>8. CASE RcaDone(t)
    BY <2>8, WriteOrder DEF RcaDone, RcaAt, Downstream, TypeOK
  <2>9. CASE SkipRca(t)
    BY <2>9, WriteOrder
       DEF SkipRca, CloseRow, Closed, RcaEnds, RcaGoto, RcaAt, Downstream, TypeOK
  <2>10. CASE BeginRcaError(t)
    BY <2>10, WriteOrder DEF BeginRcaError, RcaThrows, RcaAt, Downstream, TypeOK
  <2>11. CASE ScheduleError(t)
    BY <2>11, WriteOrder DEF ScheduleError, RcaThrows, RcaAt, Downstream, TypeOK
  <2>12. CASE RcaCrash(t)
    BY <2>12, WriteOrder DEF RcaCrash, RcaAt, Downstream, TypeOK
  <2>13. CASE ForgetRca(t)
    BY <2>13, WriteOrder DEF ForgetRca, NoRca, RcaJob, RcaAt, Downstream, TypeOK
  <2>. QED
    BY <1>2, <2>1, <2>2, <2>3, <2>4, <2>5, <2>6, <2>7, <2>8, <2>9, <2>10, <2>11,
       <2>12, <2>13
       DEF RcaStep, RcaTrouble
<1>3. ASSUME NEW s \in Ticks, FlushStep(s) \/ FlushError(s) \/ FlushCrash(s)
      PROVE  u \in finding'
  BY <1>3
     DEF FlushStep, Flush, FlushDone, FlushError, FlushCrash, InWindow, Downstream, TypeOK
<1>4. CASE ChangeWindow \/ Tick
  BY <1>4 DEF ChangeWindow, Tick, Downstream
<1>5. CASE UNCHANGED vars
  BY <1>5 DEF vars, Downstream
<1>. QED
  BY <1>1, <1>2, <1>3, <1>4, <1>5 DEF Next

(* Whatever dies, fails or runs twice, no triggered run, RCA job, RCA row  *)
(* or digest refers to a finding that is not stored.                       *)
THEOREM FindingStoredFirst == Spec => []FindingFirst
<1>1. FirstInv => FindingFirst
  BY DEF FirstInv, FindingFirst, Downstream
<1>. QED
  BY FirstInit, FirstNext, TypeCorrect, <1>1, PTL DEF Spec

-----------------------------------------------------------------------------
(* A digest that counts a trace is sent after the window of its finding    *)
(* has closed and settled.                                                 *)
LEMMA OnlyFlushSends ==
    ASSUME [Next]_vars, sent' # sent
    PROVE  \E s \in Ticks : Flush(s)
BY DEF Next, vars, DetectStep, DetectTrouble, RcaStep, RcaTrouble, ChangeWindow,
       Tick, FlushStep, FlushDone, FlushError, FlushCrash, StartDetection, NothingFires, Fires, WriteFinding, WriteRuns,
       SeedRow, EnqueueRca, DetectDone, SkipDetection, LoseRuns,
       DetectError, DetectCrash, DetectAgain, StartRca, BeginRca,
       ReadProject, AgentAnswers, RcaFails, ScheduleFlush,
       ScheduleAndThrow, RcaDone, SkipRca, CloseRow, BeginRcaError, ScheduleError,
       RcaCrash, ForgetRca

(* A digest counts a trace only after the window of its finding has closed *)
(* and settled: the delay of scheduleDigestFlush and the bounds of the     *)
(* count are taken from one length of the window.                          *)
THEOREM DigestsCountClosedWindows == Spec => DigestsClosedWindows
<1>. DEFINE Closing == \A t \in Trace :
                          sent'[t] > sent[t] => clock > run[t].ts + Settle
<1>1. ASSUME TypeOK, [Next]_vars PROVE [Closing]_vars
  <2>. SUFFICES ASSUME NEW t \in Trace, sent'[t] > sent[t]
                PROVE  clock > run[t].ts + Settle
    OBVIOUS
  <2>1. sent[t] \in Nat
    BY <1>1 DEF TypeOK
  <2>2. PICK s \in Ticks : Flush(s)
    BY <1>1, <2>1, OnlyFlushSends
  <2>3. t \in InWindow(s, flush[s].win)
    BY <1>1, <2>1, <2>2 DEF Flush, TypeOK
  <2>4. /\ run[t].ts \in Nat /\ flush[s].win \in Nat /\ s \in Nat
        /\ clock \in Nat /\ Settle \in Nat
    <3>1. run[t] \in [verdict : Verdicts \cup {"none"}, ts : Ticks] /\ clock \in Ticks
      BY <1>1 DEF TypeOK
    <3>2. flush[s].win \in Windows
      BY <1>1 DEF TypeOK, FlushJobs
    <3>3. \A n \in Ticks : n \in Nat
      BY LastTickType DEF Ticks
    <3>4. run[t].ts \in Nat /\ clock \in Nat /\ s \in Nat
      BY <3>1, <3>3
    <3>5. flush[s].win \in Nat /\ Settle \in Nat
      BY <3>2, WindowAssumption
    <3>. QED
      BY <3>4, <3>5
  <2>5. run[t].ts < s + flush[s].win /\ clock >= s + flush[s].win + Settle
    BY <2>2, <2>3, <2>4 DEF InWindow, Flush, Due
  <2>. QED
    BY <2>4, <2>5
<1>. QED
  BY <1>1, TypeCorrect, PTL DEF Spec, DigestsClosedWindows

-----------------------------------------------------------------------------
(* A trace whose detection job is not handed out again is evaluated once.  *)
(* What the later properties need of it is where its rows stand at each    *)
(* step of the two jobs, whatever fails or dies in between.                *)
Untouched(t) == run[t].verdict = "none" /\ rca[t].st = "absent" /\ row[t] = "none"

(* The detection: first nothing exists, then the run, then the RCA row.    *)
DetectionSteps(t) ==
    /\ det[t].st \in Live /\ det[t].at \in {"start", "finding", "runs"} => Untouched(t)
    /\ det[t].at = "seed" => rca[t].st = "absent" /\ row[t] = "none"
    /\ det[t].at = "enqueue" => rca[t].st = "absent" /\ row[t] \in {"none", "pending"}
    /\ run[t].verdict = "fired" => run[t].ts = det[t].ts
    /\ rca[t].st # "absent" => rca[t].ts = det[t].ts

(* The RCA job: its row is what the last step it took wrote, unless a call *)
(* that failed, or a job given up as stalled, has left the row open.       *)
AnalysisSteps(t) ==
    /\ rca[t].at = "schedule" => row[t] = "done"
    /\ t \notin unclosed =>
         /\ rca[t].at = "scheduleFailed" => row[t] = "failed"
         /\ rca[t].at = "returned" => row[t] \notin {"pending", "running"}
         /\ row[t] \in {"pending", "running"} => rca[t].st \in Live \/ det[t].at = "enqueue"

OnceInv == \A t \in Trace \ again : DetectionSteps(t) /\ AnalysisSteps(t)

LEMMA OnceInit == Init => OnceInv
BY DEF Init, OnceInv, DetectionSteps, AnalysisSteps, Untouched, NoRun, NoRca, RcaJob,
       NewDetection, Live

(* The steps are about one trace's run, row and jobs. *)
LEMMA OnceElsewhere ==
    ASSUME NEW u \in Trace, DetectionSteps(u), AnalysisSteps(u),
           det'[u] = det[u], run'[u] = run[u], row'[u] = row[u], rca'[u] = rca[u],
           u \in unclosed' <=> u \in unclosed
    PROVE  (DetectionSteps(u) /\ AnalysisSteps(u))'
BY DEF DetectionSteps, AnalysisSteps, Untouched

(* A trace handed out again stays one of those. *)
LEMMA AgainGrows == [Next]_vars => again \subseteq again'
BY DEF Next, vars, DetectStep, DetectTrouble, RcaStep, RcaTrouble, ChangeWindow,
       Tick, FlushStep, Flush, FlushDone, FlushError, FlushCrash, StartDetection, NothingFires, Fires, WriteFinding, WriteRuns,
       SeedRow, EnqueueRca, DetectDone, SkipDetection, LoseRuns,
       DetectError, DetectThrows, DetectCrash, DetectAgain, StartRca, BeginRca,
       ReadProject, AgentAnswers, RcaFails, ScheduleFlush,
       ScheduleAndThrow, RcaDone, SkipRca, CloseRow, BeginRcaError, ScheduleError,
       RcaCrash, ForgetRca

LEMMA OnceDetection ==
    ASSUME TypeOK, NEW t \in Trace, DetectionSteps(t), AnalysisSteps(t), t \notin again',
           DetectStep(t) \/ DetectTrouble(t)
    PROVE  (DetectionSteps(t) /\ AnalysisSteps(t))'
<1>. USE DEF DetectionSteps, AnalysisSteps, Untouched
<1>1. CASE StartDetection(t)
  BY <1>1 DEF StartDetection, TypeOK, Live
<1>2. CASE NothingFires(t)
  <2>1. run'[t].verdict \in {"none", "clean"}
    BY <1>2 DEF NothingFires, DetectAt, LatestRun, TypeOK, Live
  <2>2. /\ det'[t].st = "active" /\ det'[t].at = "returned" /\ det'[t].ts = det[t].ts
        /\ UNCHANGED <<rca, row, unclosed>>
    BY <1>2 DEF NothingFires, DetectAt, DetectEnds, DetectGoto, TypeOK, Detections
  <2>. QED
    BY <1>2, <2>1, <2>2 DEF NothingFires, DetectAt, TypeOK, Live
<1>3. CASE Fires(t)
  <2>1. PICK v \in {"muted", "fired"} :
           det' = [det EXCEPT ![t].at = "finding", ![t].verdict = v, ![t].ts = clock]
    BY <1>3, WriteOrder DEF Fires
  <2>2. det'[t].at = "finding" /\ det'[t].st = "active"
    BY <1>3, <2>1 DEF Fires, DetectAt, TypeOK, Detections
  <2>3. UNCHANGED <<run, rca, row, unclosed>> /\ Untouched(t)
    BY <1>3 DEF Fires, DetectAt, Live
  <2>. QED
    BY <2>2, <2>3 DEF Live
<1>4. CASE WriteFinding(t)
  BY <1>4, WriteOrder DEF WriteFinding, DetectAt, DetectGoto, TypeOK, Live
<1>5. CASE WriteRuns(t) \/ LoseRuns(t)
  <2>1. run'[t].verdict = "fired" => run'[t].ts = det[t].ts
    <3>1. CASE WriteRuns(t)
      <4>1. run'[t] = [verdict |-> det[t].verdict, ts |-> det[t].ts]
        BY <3>1 DEF WriteRuns, DetectAt, LatestRun, TypeOK, Live
      <4>. QED
        BY <4>1
    <3>2. CASE LoseRuns(t)
      BY <3>2 DEF LoseRuns
    <3>. QED
      BY <1>5, <3>1, <3>2
  <2>2. /\ det'[t].st = "active" /\ det'[t].ts = det[t].ts
        /\ det'[t].at \in {"seed", "returned"}
        /\ UNCHANGED <<rca, row, unclosed>>
    <3>1. PICK at : at = IF det[t].verdict = "fired" THEN "seed" ELSE "returned"
      OBVIOUS
    <3>2. det' = [det EXCEPT ![t].at = at]
      BY <1>5, <3>1, WriteOrder
         DEF WriteRuns, LoseRuns, AfterRuns, DetectEnds, DetectGoto
    <3>3. det[t] \in Detections /\ t \in DOMAIN det
      BY DEF TypeOK
    <3>4. det'[t] = [det[t] EXCEPT !.at = at]
      BY <3>2, <3>3
    <3>5. det'[t].st = det[t].st /\ det'[t].ts = det[t].ts /\ det'[t].at = at
      BY <3>3, <3>4 DEF Detections
    <3>. QED
      BY <1>5, <3>1, <3>5 DEF WriteRuns, LoseRuns, DetectAt
  <2>3. Untouched(t)
    BY <1>5 DEF WriteRuns, LoseRuns, DetectAt, Live
  <2>. QED
    BY <2>1, <2>2, <2>3
<1>6. CASE SeedRow(t)
  <2>1. /\ det'[t].st = "active" /\ det'[t].ts = det[t].ts /\ det'[t].at = "enqueue"
        /\ UNCHANGED <<rca, run, unclosed>>
    BY <1>6, WriteOrder DEF SeedRow, DetectAt, DetectGoto, TypeOK, Detections
  <2>2. row'[t] \in {"none", "pending"}
    BY <1>6 DEF SeedRow, Seeded, DetectAt, TypeOK
  <2>. QED
    BY <1>6, <2>1, <2>2 DEF SeedRow, DetectAt, TypeOK
<1>7. CASE EnqueueRca(t)
  <2>1. rca' = [rca EXCEPT ![t] = RcaJob("waiting", det[t].ts)]
    BY <1>7 DEF EnqueueRca, Enqueued, CaptureTime, DetectAt
  <2>2. /\ rca'[t].st = "waiting" /\ rca'[t].at = "start" /\ rca'[t].ts = det[t].ts
        /\ det'[t].st = "active" /\ det'[t].at = "returned" /\ det'[t].ts = det[t].ts
        /\ UNCHANGED <<run, row, unclosed>>
    BY <1>7, <2>1, WriteOrder
       DEF EnqueueRca, RcaJob, DetectAt, DetectGoto, TypeOK, Detections
  <2>. QED
    BY <2>2 DEF Live
<1>8. CASE DetectDone(t)
  BY <1>8 DEF DetectDone, DetectAt, TypeOK, Live
<1>9. CASE SkipDetection(t)
  BY <1>9 DEF SkipDetection, DetectAt, DetectEnds, DetectGoto, TypeOK, Live
<1>10. CASE DetectError(t)
  <2>1. Retried(det[t].tries, DetectAttempts) = "failed"
    BY <1>10 DEF DetectError, DetectThrows, Retried
  <2>2. /\ det'[t].st = "failed" /\ det'[t].at = "start" /\ det'[t].ts = det[t].ts
        /\ UNCHANGED <<run, row>>
    BY <1>10, <2>1 DEF DetectError, DetectThrows, TypeOK, Detections
  <2>3. CASE DetectAt(t, "finding") /\ UNCHANGED <<rca, unclosed>>
    BY <2>2, <2>3 DEF DetectAt, Live
  <2>4. CASE DetectAt(t, "enqueue") /\ rca' = rca /\ unclosed' = unclosed \cup {t}
    BY <2>2, <2>4 DEF DetectAt, Live
  <2>5. CASE DetectAt(t, "enqueue") /\ rca' = Enqueued(t) /\ unclosed' = unclosed
    <3>1. rca' = [rca EXCEPT ![t] = RcaJob("waiting", det[t].ts)]
      BY <2>5 DEF Enqueued, CaptureTime, DetectAt
    <3>2. rca'[t].st = "waiting" /\ rca'[t].at = "start" /\ rca'[t].ts = det[t].ts
      BY <3>1 DEF RcaJob, TypeOK
    <3>. QED
      BY <2>2, <2>5, <3>2 DEF DetectAt, Live
  <2>. QED
    BY <1>10, <2>3, <2>4, <2>5 DEF DetectError
<1>11. CASE DetectCrash(t) \/ DetectAgain(t)
  BY <1>11 DEF DetectCrash, DetectAgain
<1>. QED
  BY <1>1, <1>2, <1>3, <1>4, <1>5, <1>6, <1>7, <1>8, <1>9, <1>10, <1>11
     DEF DetectStep, DetectTrouble

LEMMA OnceAnalysis ==
    ASSUME TypeOK, NEW t \in Trace, DetectionSteps(t), AnalysisSteps(t),
           RcaStep(t) \/ RcaTrouble(t)
    PROVE  (DetectionSteps(t) /\ AnalysisSteps(t))'
<1>. USE DEF DetectionSteps, AnalysisSteps, Untouched
<1>0. rca[t] \in RcaJobs
  BY DEF TypeOK
<1>1. CASE StartRca(t)
  BY <1>0, <1>1 DEF StartRca, TypeOK, Live
<1>2. CASE BeginRca(t)
  BY <1>0, <1>2 DEF BeginRca, RcaAt, RcaGoto, TypeOK, Live
<1>3. CASE ReadProject(t)
  <2>1. /\ rca'[t].st = "active" /\ rca'[t].at = "agent" /\ rca'[t].ts = rca[t].ts
        /\ UNCHANGED <<det, run, row, unclosed>>
    BY <1>0, <1>3 DEF ReadProject, RcaAt, TypeOK, RcaJobs
  <2>. QED
    BY <1>3, <2>1 DEF ReadProject, RcaAt, Live
<1>4. CASE AgentAnswers(t)
  BY <1>0, <1>4 DEF AgentAnswers, RcaAt, RcaGoto, TypeOK, Live
<1>5. CASE RcaFails(t)
  <2>1. /\ rca'[t].st = "active" /\ rca'[t].at = "scheduleFailed"
        /\ rca'[t].ts = rca[t].ts /\ UNCHANGED <<det, run>>
    BY <1>0, <1>5 DEF RcaFails, RcaAt, RcaGoto, TypeOK, RcaJobs
  <2>2. rca[t].st = "active" /\ (row'[t] = "failed" \/ t \in unclosed')
    BY <1>5 DEF RcaFails, CloseRow, RcaAt, TypeOK
  <2>. QED
    BY <2>1, <2>2 DEF TypeOK, Live
<1>6. CASE ScheduleFlush(t)
  BY <1>0, <1>6 DEF ScheduleFlush, RcaEnds, RcaAt, RcaGoto, TypeOK, Live
<1>7. CASE ScheduleAndThrow(t) \/ ScheduleError(t) \/ BeginRcaError(t)
  <2>1. rca[t].st = "active" /\ RcaThrows(t) /\ UNCHANGED <<det, run, row>>
    BY <1>7 DEF ScheduleAndThrow, ScheduleError, BeginRcaError, RcaAt
  <2>2. /\ rca'[t].st \in {"waiting", "failed"} /\ rca'[t].at = "start"
        /\ rca'[t].ts = rca[t].ts
    BY <2>1 DEF RcaThrows, Retried, TypeOK
  <2>3. t \in unclosed' \/ (t \notin unclosed /\ row[t] \in {"done", "failed"})
    BY <1>7 DEF ScheduleAndThrow, ScheduleError, BeginRcaError, RcaAt
  <2>. QED
    BY <1>0, <2>1, <2>2, <2>3 DEF Live, TypeOK
<1>8. CASE RcaDone(t)
  BY <1>0, <1>8 DEF RcaDone, RcaAt, TypeOK, Live
<1>9. CASE SkipRca(t)
  BY <1>0, <1>9 DEF SkipRca, CloseRow, Closed, RcaEnds, RcaAt, RcaGoto, TypeOK, Live
<1>10. CASE ForgetRca(t)
  BY <1>0, <1>10 DEF ForgetRca, NoRca, RcaJob, TypeOK, Live
<1>11. CASE RcaCrash(t)
  <2>1. /\ rca'[t].st = Stalled(rca[t]) /\ rca'[t].at = "start" /\ rca'[t].ts = rca[t].ts
        /\ UNCHANGED <<det, run, row>>
    BY <1>0, <1>11 DEF RcaCrash, TypeOK, RcaJobs
  <2>2. \/ rca'[t].st = "waiting" /\ UNCHANGED unclosed
        \/ rca'[t].st = "failed" /\ t \in unclosed'
    BY <1>11, <2>1 DEF RcaCrash, Stalled
  <2>. QED
    BY <1>11, <2>1, <2>2 DEF RcaCrash, Live
<1>. QED
  BY <1>1, <1>2, <1>3, <1>4, <1>5, <1>6, <1>7, <1>8, <1>9, <1>10, <1>11
     DEF RcaStep, RcaTrouble

(* A step of one trace's jobs leaves the other traces alone. *)
LEMMA OtherTracesRest ==
    ASSUME TypeOK, NEW t \in Trace, NEW u \in Trace, u # t,
           DetectStep(t) \/ DetectTrouble(t) \/ RcaStep(t) \/ RcaTrouble(t)
    PROVE  /\ det'[u] = det[u] /\ run'[u] = run[u]
           /\ row'[u] = row[u] /\ rca'[u] = rca[u]
           /\ u \in unclosed' <=> u \in unclosed
<1>1. CASE DetectStep(t) \/ DetectTrouble(t)
  BY <1>1
     DEF DetectStep, DetectTrouble, StartDetection, NothingFires, Fires, WriteFinding,
         WriteRuns, SeedRow, EnqueueRca, DetectDone, SkipDetection, LoseRuns, DetectError,
         DetectCrash, DetectAgain, AfterRuns, DetectEnds, DetectGoto, DetectThrows,
         Enqueued, TypeOK
<1>2. CASE RcaStep(t) \/ RcaTrouble(t)
  BY <1>2
     DEF RcaStep, RcaTrouble, StartRca, BeginRca, ReadProject, AgentAnswers, RcaFails,
         ScheduleFlush, ScheduleAndThrow, RcaDone, SkipRca, CloseRow, BeginRcaError, ScheduleError,
         RcaCrash, ForgetRca, RcaGoto, RcaEnds, RcaThrows, TypeOK
<1>. QED
  BY <1>1, <1>2

LEMMA OnceNext == TypeOK /\ OnceInv /\ [Next]_vars => OnceInv'
<1>. SUFFICES ASSUME TypeOK, OnceInv, [Next]_vars, NEW u \in Trace, u \notin again'
              PROVE  (DetectionSteps(u) /\ AnalysisSteps(u))'
  BY DEF OnceInv
<1>0. DetectionSteps(u) /\ AnalysisSteps(u)
  BY AgainGrows DEF OnceInv
<1>1. ASSUME NEW t \in Trace,
             DetectStep(t) \/ DetectTrouble(t) \/ RcaStep(t) \/ RcaTrouble(t)
      PROVE  (DetectionSteps(u) /\ AnalysisSteps(u))'
  <2>1. CASE u = t
    BY <1>0, <1>1, <2>1, OnceDetection, OnceAnalysis
  <2>2. CASE u # t
    BY <1>0, <1>1, <2>2, OtherTracesRest, OnceElsewhere
  <2>. QED
    BY <2>1, <2>2
<1>2. ASSUME NEW s \in Ticks, FlushStep(s) \/ FlushError(s) \/ FlushCrash(s)
      PROVE  (DetectionSteps(u) /\ AnalysisSteps(u))'
  BY <1>0, <1>2, OnceElsewhere
     DEF FlushStep, Flush, FlushDone, FlushError, FlushCrash
<1>3. CASE ChangeWindow \/ Tick
  BY <1>0, <1>3, OnceElsewhere DEF ChangeWindow, Tick
<1>4. CASE UNCHANGED vars
  BY <1>0, <1>4, OnceElsewhere DEF vars
<1>. QED
  BY <1>1, <1>2, <1>3, <1>4 DEF Next

LEMMA OnceHolds == Spec => []OnceInv
BY OnceInit, OnceNext, TypeCorrect, PTL DEF Spec

(* The RCA job of a trace that is evaluated once carries the capture time  *)
(* of its run row, so its flush covers the finding's window, whatever      *)
(* fails or dies and whatever the quotas, the settings and the queue's     *)
(* memory do.                                                              *)
THEOREM OneCaptureTime == Spec => []OneClock
<1>1. OnceInv => OneClock
  BY DEF OnceInv, DetectionSteps, OneClock
<1>. QED
  BY <1>1, OnceHolds, PTL

(* An RCA of a trace that is evaluated once, which no job works on any     *)
(* more, is neither pending nor running unless a call that failed, or the  *)
(* job's being given up after its worker died twice, has left its row      *)
(* open.                                                                   *)
THEOREM RcaNotStuck == Spec => []NoStuckRca
<1>1. TypeOK /\ OnceInv => NoStuckRca
  BY DEF OnceInv, AnalysisSteps, NoStuckRca, TypeOK, Live
<1>. QED
  BY <1>1, OnceHolds, TypeCorrect, PTL

-----------------------------------------------------------------------------
(* The windows of one length tile the time line: a tick of the window that *)
(* starts at s is a tick of no other one.                                  *)
LEMMA QuotientBounds ==
    ASSUME NEW a \in Nat, NEW win \in Nat \ {0}
    PROVE  /\ a \div win \in Nat
           /\ (a \div win) * win <= a /\ a < (a \div win) * win + win
OBVIOUS

LEMMA SmallerProduct ==
    ASSUME NEW p \in Nat, NEW q \in Nat, NEW win \in Nat \ {0}, p < q
    PROVE  p * win + win <= q * win
<1>1. PICK d \in Nat : q = p + 1 + d
  <2>1. q - p - 1 \in Nat /\ q = p + 1 + (q - p - 1)
    OBVIOUS
  <2>. QED
    BY <2>1
<1>2. q * win = p * win + win + d * win
  BY <1>1
<1>3. d * win \in Nat /\ p * win \in Nat
  OBVIOUS
<1>. QED
  BY <1>2, <1>3

LEMMA WindowsTile ==
    ASSUME NEW a \in Nat, NEW ts \in Nat, NEW win \in Nat \ {0}, NEW s,
           s = WindowStart(a, win), ts \in s .. (s + win - 1)
    PROVE  s = WindowStart(ts, win)
<1>1. PICK p \in Nat : p = a \div win /\ s = p * win
  BY QuotientBounds DEF WindowStart
<1>2. PICK q \in Nat : /\ q = ts \div win
                       /\ q * win <= ts /\ ts < q * win + win
  BY QuotientBounds
<1>3. p * win \in Nat /\ q * win \in Nat /\ p * win <= ts /\ ts < p * win + win
  BY <1>1, <1>2
<1>4. ~(p < q)
  <2>. SUFFICES ASSUME p < q PROVE FALSE
    OBVIOUS
  <2>1. p * win + win <= q * win
    BY SmallerProduct
  <2>. QED
    BY <1>2, <1>3, <2>1
<1>5. ~(q < p)
  <2>. SUFFICES ASSUME q < p PROVE FALSE
    OBVIOUS
  <2>1. q * win + win <= p * win
    BY SmallerProduct
  <2>. QED
    BY <1>2, <1>3, <2>1
<1>. QED
  BY <1>1, <1>2, <1>4, <1>5 DEF WindowStart

(* Every flush starts where a window of its length starts; a flush keeps   *)
(* its length.                                                             *)
Aligned(s) == \E a \in Nat : s = WindowStart(a, flush[s].win)

FlushesAligned == \A s \in Ticks : flush[s].st # "absent" => Aligned(s)

LEMMA FlushMoves ==
    ASSUME TypeOK, [Next]_vars, NEW s \in Ticks
    PROVE  \/ flush'[s] = flush[s]
           \/ /\ flush[s].st = "absent"
              /\ \E t \in Trace : /\ s = WindowStart(rca[t].ts, rca[t].win)
                                  /\ flush'[s] = FlushJob("waiting", rca[t].win)
           \/ /\ FlushStep(s) \/ FlushError(s) \/ FlushCrash(s)
              /\ flush[s].st # "absent" /\ flush'[s].st # "absent"
              /\ flush'[s].win = flush[s].win
<1>1. ASSUME NEW t \in Trace, flush' = Scheduled(t), flush'[s] # flush[s]
      PROVE  /\ flush[s].st = "absent" /\ s = WindowStart(rca[t].ts, rca[t].win)
             /\ flush'[s] = FlushJob("waiting", rca[t].win)
  BY <1>1 DEF Scheduled, TypeOK
<1>2. ASSUME NEW u \in Ticks, FlushStep(u) \/ FlushError(u) \/ FlushCrash(u),
             flush'[s] # flush[s]
      PROVE  /\ FlushStep(s) \/ FlushError(s) \/ FlushCrash(s)
             /\ flush[s].st # "absent" /\ flush'[s].st # "absent"
             /\ flush'[s].win = flush[s].win
  <2>0. flush \in [Ticks -> FlushJobs]
    BY DEF TypeOK
  <2>1. u = s
    BY <1>2, <2>0 DEF FlushStep, Flush, FlushDone, FlushError, FlushCrash
  <2>2. CASE FlushStep(s) \/ FlushError(s)
    BY <2>0, <2>2 DEF FlushStep, Flush, FlushDone, FlushError, FlushJobs
  <2>3. CASE FlushCrash(s)
    BY <2>0, <2>3 DEF FlushCrash, FlushJobs, Stalled
  <2>. QED
    BY <1>2, <2>1, <2>2, <2>3
<1>3. \/ UNCHANGED flush
      \/ \E t \in Trace : flush' = Scheduled(t)
      \/ \E u \in Ticks : FlushStep(u) \/ FlushError(u) \/ FlushCrash(u)
  BY DEF Next, vars, DetectStep, DetectTrouble, RcaStep, RcaTrouble, ChangeWindow, Tick,
         StartDetection, NothingFires, Fires, WriteFinding, WriteRuns, SeedRow, EnqueueRca,
         DetectDone, SkipDetection, LoseRuns, DetectError, DetectCrash, DetectAgain, StartRca,
         BeginRca, ReadProject, AgentAnswers, RcaFails, ScheduleFlush, ScheduleAndThrow,
         RcaDone, SkipRca, BeginRcaError, ScheduleError, RcaCrash, ForgetRca
<1>. QED
  BY <1>1, <1>2, <1>3

LEMMA AlignedInit == Init => FlushesAligned
BY DEF Init, FlushesAligned, NoFlush, FlushJob

LEMMA AlignedNext == TypeOK /\ FlushesAligned /\ [Next]_vars => FlushesAligned'
<1>. SUFFICES ASSUME TypeOK, FlushesAligned, [Next]_vars, NEW s \in Ticks,
                     flush'[s].st # "absent"
              PROVE  \E a \in Nat : s = WindowStart(a, flush'[s].win)
  BY DEF FlushesAligned, Aligned
<1>1. CASE flush[s].st # "absent"
  <2>1. flush'[s].win = flush[s].win
    BY <1>1, FlushMoves
  <2>. QED
    BY <1>1, <2>1 DEF FlushesAligned, Aligned
<1>2. CASE flush[s].st = "absent"
  <2>1. PICK t \in Trace : /\ s = WindowStart(rca[t].ts, rca[t].win)
                           /\ flush'[s] = FlushJob("waiting", rca[t].win)
    BY <1>2, FlushMoves
  <2>2. rca[t].ts \in Nat
    BY LastTickType DEF TypeOK, RcaJobs, Ticks
  <2>. QED
    BY <2>1, <2>2 DEF FlushJob
<1>. QED
  BY <1>1, <1>2

(* Flushes of two lengths stay so. *)
LEMMA LengthsStay == TypeOK /\ [Next]_vars /\ OneLength' => OneLength
<1>. SUFFICES ASSUME TypeOK, [Next]_vars, OneLength', NEW s \in Ticks, NEW u \in Ticks,
                     flush[s].st # "absent", flush[u].st # "absent"
              PROVE  flush[s].win = flush[u].win
  BY DEF OneLength
<1>1. \A v \in Ticks : flush[v].st # "absent"
                          => flush'[v].st # "absent" /\ flush'[v].win = flush[v].win
  BY FlushMoves DEF FlushJob
<1>2. flush'[s].win = flush'[u].win
  BY <1>1 DEF OneLength
<1>. QED
  BY <1>1, <1>2

(* A run row that says an RCA-enabled detector fired is not rewritten. *)
LEMMA FiredRunKept ==
    ASSUME TypeOK, OnceInv, [Next]_vars,
           NEW u \in Trace, u \notin again, run[u].verdict = "fired"
    PROVE  run'[u] = run[u]
<1>1. ASSUME NEW t \in Trace, WriteRuns(t) \/ NothingFires(t)
      PROVE  run'[u] = run[u]
  <2>1. t # u
    BY <1>1
       DEF WriteRuns, NothingFires, DetectAt, OnceInv, DetectionSteps, Untouched, Live
  <2>. QED
    BY <1>1, <2>1 DEF WriteRuns, NothingFires, TypeOK
<1>. QED
  BY <1>1
     DEF Next, vars, DetectStep, DetectTrouble, RcaStep, RcaTrouble, ChangeWindow, Tick, FlushStep, Flush, FlushDone,
         FlushError, FlushCrash, StartDetection, Fires, WriteFinding, SeedRow, EnqueueRca, DetectDone,
         SkipDetection, LoseRuns, DetectError, DetectCrash, DetectAgain, StartRca, BeginRca,
         ReadProject, AgentAnswers, RcaFails, ScheduleFlush, ScheduleAndThrow, RcaDone,
         SkipRca, CloseRow, BeginRcaError, ScheduleError, RcaCrash, ForgetRca

(* A flush that has sent its digest, or will not. *)
Over(s) == flush[s].st \in {"sent", "completed", "failed"}

(* A counted trace keeps its run row, and the flush that counted it, whose *)
(* window holds the finding, has sent its digest once; or it sent it, its  *)
(* worker died, and it waits to send it again or has done so.              *)
SentAgain(t, s) == t \in resent /\ flush[s].stalls = MaxStalls

CountedBy(t, s) ==
    /\ run[t].ts \in s .. (s + flush[s].win - 1)
    /\ flush[s].st # "absent"
    /\ \/ sent[t] = 1 /\ Over(s)
       \/ sent[t] = 1 /\ SentAgain(t, s)
       \/ sent[t] = 2 /\ SentAgain(t, s) /\ Over(s)

Counted(t) == run[t].verdict = "fired" /\ \E s \in Ticks : CountedBy(t, s)

CountedOnce == OneLength => \A t \in Trace \ again : sent[t] = 0 \/ Counted(t)

LEMMA ResentGrows == [Next]_vars => resent \subseteq resent'
BY DEF Next, vars, DetectStep, DetectTrouble, RcaStep, RcaTrouble, ChangeWindow,
       Tick, FlushStep, Flush, FlushDone, FlushError, FlushCrash, StartDetection,
       NothingFires, Fires, WriteFinding, WriteRuns, SeedRow, EnqueueRca, DetectDone,
       SkipDetection, LoseRuns, DetectError, DetectThrows, DetectCrash, DetectAgain,
       StartRca, BeginRca, ReadProject, AgentAnswers, RcaFails, ScheduleFlush,
       ScheduleAndThrow, RcaDone, SkipRca, BeginRcaError, ScheduleError, RcaCrash,
       ForgetRca

(* While it sends nothing, a flush moves on, or its worker dies; it is run *)
(* again once, after which it is given up.                                 *)
LEMMA CountStays ==
    ASSUME TypeOK, [Next]_vars, NEW t \in Trace, NEW s \in Ticks, CountedBy(t, s),
           run[t].verdict = "fired", run'[t] = run[t], sent'[t] = sent[t]
    PROVE  CountedBy(t, s)'
<1>. USE DEF CountedBy, SentAgain, Over
<1>0. /\ flush \in [Ticks -> FlushJobs] /\ flush[s].stalls \in 0 .. MaxStalls
      /\ resent \subseteq resent'
  BY ResentGrows DEF TypeOK, FlushJobs
<1>1. CASE flush'[s] = flush[s]
  BY <1>0, <1>1
<1>2. CASE Flush(s)
  <2>1. t \in InWindow(s, flush[s].win)
    BY <1>2 DEF Flush, InWindow
  <2>2. sent'[t] = sent[t] + 1 /\ sent[t] \in Nat
    BY <1>2, <2>1 DEF Flush, TypeOK
  <2>. QED
    BY <2>2
<1>3. CASE FlushDone(s) \/ FlushError(s)
  <2>1. /\ flush'[s].win = flush[s].win /\ flush'[s].stalls = flush[s].stalls
        /\ flush'[s].st \in {"completed", "failed"}
    BY <1>0, <1>3 DEF FlushDone, FlushError, FlushJobs
  <2>. QED
    BY <1>0, <2>1
<1>4. CASE FlushCrash(s)
  <2>1. /\ flush'[s].win = flush[s].win /\ flush'[s].stalls = MaxStalls
        /\ flush'[s].st = Stalled(flush[s])
    BY <1>0, <1>4 DEF FlushCrash, FlushJobs
  <2>2. CASE ~HandedOutAgain(flush[s])
    BY <1>0, <2>1, <2>2 DEF Stalled
  <2>3. CASE HandedOutAgain(flush[s])
    <3>1. flush[s].stalls # MaxStalls /\ sent[t] = 1 /\ flush[s].st = "sent"
      BY <1>0, <1>4, <2>3 DEF HandedOutAgain, MaxStalls, FlushCrash
    <3>2. t \in InWindow(s, flush[s].win)
      BY DEF InWindow
    <3>3. t \in resent'
      BY <1>4, <2>3, <3>1, <3>2 DEF FlushCrash
    <3>. QED
      BY <2>1, <3>1, <3>3, <2>3 DEF Stalled
  <2>. QED
    BY <2>2, <2>3
<1>. QED
  BY <1>1, <1>2, <1>3, <1>4, FlushMoves DEF FlushStep

LEMMA CountedInit == Init => CountedOnce
BY DEF Init, CountedOnce

LEMMA CountedNext ==
    ASSUME TypeOK, OnceInv, FlushesAligned, CountedOnce, [Next]_vars
    PROVE  CountedOnce'
<1>. SUFFICES ASSUME OneLength', NEW u \in Trace, u \notin again', sent'[u] # 0
              PROVE  Counted(u)'
  BY DEF CountedOnce
<1>0. OneLength /\ u \notin again /\ (sent[u] = 0 \/ Counted(u))
  BY LengthsStay, AgainGrows DEF CountedOnce
<1>1. CASE sent'[u] = sent[u]
  <2>1. PICK s \in Ticks : CountedBy(u, s)
    BY <1>0, <1>1 DEF Counted
  <2>2. run'[u] = run[u]
    BY <1>0, <1>1, FiredRunKept DEF Counted
  <2>3. CountedBy(u, s)'
    BY <1>0, <1>1, <2>1, <2>2, CountStays DEF Counted
  <2>. QED
    BY <1>0, <1>1, <2>2, <2>3 DEF Counted
<1>2. CASE sent'[u] # sent[u]
  <2>1. PICK s \in Ticks : Flush(s)
    BY <1>2, OnlyFlushSends
  <2>2. /\ u \in InWindow(s, flush[s].win) /\ sent'[u] = sent[u] + 1
        /\ flush[s].st = "waiting" /\ flush'[s].st = "sent"
        /\ flush'[s].win = flush[s].win /\ flush'[s].stalls = flush[s].stalls
        /\ UNCHANGED <<run, resent>>
    BY <1>2, <2>1 DEF Flush, TypeOK, FlushJobs
  <2>3. run[u].verdict = "fired" /\ run[u].ts \in s .. (s + flush[s].win - 1)
    BY <2>2 DEF InWindow
  <2>4. run[u].ts \in Nat /\ flush[s].win \in Nat \ {0}
    <3>1. run[u].ts \in Ticks /\ flush[s].win \in Windows
      BY DEF TypeOK, FlushJobs
    <3>2. \A n \in Ticks : n \in Nat
      BY LastTickType DEF Ticks
    <3>. QED
      BY <3>1, <3>2, WindowAssumption
  <2>5. s = WindowStart(run[u].ts, flush[s].win)
    <3>1. PICK a \in Nat : s = WindowStart(a, flush[s].win)
      BY <2>2 DEF FlushesAligned, Aligned
    <3>. QED
      BY <2>3, <2>4, <3>1, WindowsTile
  <2>6. Counted(u) => sent[u] = 1 /\ SentAgain(u, s)
    <3>. SUFFICES ASSUME NEW v \in Ticks, CountedBy(u, v)
                  PROVE  sent[u] = 1 /\ SentAgain(u, s)
      BY DEF Counted
    <3>1. flush[v].win = flush[s].win
      BY <1>0, <2>2 DEF CountedBy, OneLength
    <3>2. PICK a \in Nat : v = WindowStart(a, flush[v].win)
      BY DEF CountedBy, FlushesAligned, Aligned
    <3>3. v = WindowStart(run[u].ts, flush[v].win)
      BY <2>4, <3>1, <3>2, WindowsTile DEF CountedBy
    <3>4. v = s
      BY <2>5, <3>1, <3>3
    <3>. QED
      BY <2>2, <3>4 DEF CountedBy, Over
  <2>7. sent'[u] = 1 \/ (sent'[u] = 2 /\ SentAgain(u, s)')
    BY <1>0, <2>2, <2>6 DEF SentAgain
  <2>8. CountedBy(u, s)'
    BY <2>2, <2>3, <2>7 DEF CountedBy, Over
  <2>. QED
    BY <2>2, <2>3, <2>8 DEF Counted
<1>. QED
  BY <1>1, <1>2

(* A finding of a trace that is evaluated once is counted by one digest at *)
(* most as long as the flushes that were scheduled are of one length,      *)
(* whatever fails, is late or is forgotten and whichever worker dies; by   *)
(* two when the worker of its digest died after it was sent.               *)
THEOREM CountedByOneDigest == Spec => []AtMostOneDigest
<1>1. /\ Init => FlushesAligned /\ CountedOnce
      /\ TypeOK /\ OnceInv /\ FlushesAligned /\ CountedOnce /\ [Next]_vars
           => FlushesAligned' /\ CountedOnce'
  BY AlignedInit, AlignedNext, CountedInit, CountedNext
<1>2. TypeOK /\ CountedOnce => AtMostOneDigest
  BY DEF CountedOnce, Counted, CountedBy, SentAgain, AtMostOneDigest, TypeOK
<1>. QED
  BY <1>1, <1>2, OnceHolds, TypeCorrect, PTL DEF Spec

-----------------------------------------------------------------------------
(* Where no call fails, no process dies and no job comes twice, every      *)
(* trace is evaluated once and no row is left open, and the row stands     *)
(* where the life cycle says.                                              *)
Undisturbed == Faults \cap {"error", "crash", "duplicate"} = {}

RowStands(t) ==
    /\ det[t].at = "enqueue" => row[t] = "pending"
    /\ rca[t].st \in Live /\ rca[t].at = "start" => row[t] \in {"pending", "failed"}
    /\ rca[t].at \in {"project", "agent"} => row[t] = "running"
    /\ rca[t].at = "scheduleFailed" => row[t] = "failed"

RowsStand == again = {} /\ \A t \in Trace : RowStands(t)

LEMMA RowsInit == Init => RowsStand
BY DEF Init, RowsStand, RowStands, NewDetection, NoRca, RcaJob, Live

LEMMA NoneAgain ==
    ASSUME Undisturbed, [Next]_vars, again = {}
    PROVE  again' = {}
BY DEF Next, vars, DetectStep, DetectTrouble, RcaStep, RcaTrouble, ChangeWindow,
       Tick, FlushStep, Flush, FlushDone, FlushError, FlushCrash, StartDetection, NothingFires, Fires, WriteFinding, WriteRuns,
       SeedRow, EnqueueRca, DetectDone, SkipDetection, LoseRuns,
       DetectError, DetectCrash, DetectAgain, StartRca, BeginRca,
       ReadProject, AgentAnswers, RcaFails, ScheduleFlush,
       ScheduleAndThrow, RcaDone, SkipRca, CloseRow, BeginRcaError, ScheduleError,
       RcaCrash, ForgetRca, MayFail, Disrupt, Undisturbed

LEMMA RowStandsNext ==
    ASSUME Undisturbed, TypeOK, NEW t \in Trace, DetectionSteps(t), AnalysisSteps(t),
           RowStands(t),
           DetectStep(t) \/ DetectTrouble(t) \/ RcaStep(t) \/ RcaTrouble(t)
    PROVE  RowStands(t)'
<1>. USE DEF RowStands, DetectionSteps
<1>0. rca[t] \in RcaJobs
  BY DEF TypeOK
<1>1. CASE DetectStep(t)
  <2>1. CASE SeedRow(t)
    <3>1. det'[t].at = "enqueue" /\ UNCHANGED rca /\ row'[t] = "pending"
      BY <2>1, WriteOrder
         DEF SeedRow, Seeded, MayFail, Undisturbed, DetectAt, DetectGoto, TypeOK
    <3>. QED
      BY <2>1, <3>1 DEF SeedRow, DetectAt, TypeOK, Live
  <2>2. CASE EnqueueRca(t)
    <3>1. /\ rca' = [rca EXCEPT ![t] = RcaJob("waiting", det[t].ts)] /\ UNCHANGED row
          /\ det'[t].at = "returned"
      BY <2>2, WriteOrder
         DEF EnqueueRca, Enqueued, CaptureTime, DetectAt, DetectGoto, TypeOK
    <3>2. rca'[t].st = "waiting" /\ rca'[t].at = "start"
      BY <3>1 DEF RcaJob, TypeOK
    <3>. QED
      BY <2>2, <3>1, <3>2 DEF EnqueueRca, DetectAt
  <2>3. CASE \/ StartDetection(t) \/ NothingFires(t) \/ Fires(t) \/ WriteFinding(t)
             \/ WriteRuns(t) \/ DetectDone(t)
    <3>1. det'[t].at # "enqueue" \/ det'[t].at = det[t].at
      <4>0. det \in [Trace -> Detections] /\ det[t] \in Detections
        BY DEF TypeOK
      <4>1. CASE StartDetection(t)
        BY <4>0, <4>1 DEF StartDetection, Detections
      <4>2. CASE NothingFires(t)
        BY <4>0, <4>2 DEF NothingFires, DetectEnds, DetectGoto
      <4>3. CASE Fires(t)
        <5>1. PICK v \in {"muted", "fired"} :
                 det' = [det EXCEPT ![t].at = "finding", ![t].verdict = v, ![t].ts = clock]
          BY <4>3, WriteOrder DEF Fires
        <5>. QED
          BY <4>0, <5>1, SMTT(30) DEF Detections
      <4>4. CASE WriteFinding(t)
        BY <4>0, <4>4, WriteOrder DEF WriteFinding, DetectGoto
      <4>5. CASE WriteRuns(t)
        <5>1. DetectGoto(t, "seed") \/ DetectGoto(t, "returned")
          BY <4>5, WriteOrder DEF WriteRuns, AfterRuns, DetectEnds
        <5>2. det'[t].at \in {"seed", "returned"}
          BY <4>0, <5>1 DEF DetectGoto, Detections
        <5>. QED
          BY <5>2
      <4>6. CASE DetectDone(t)
        <5>1. det' = [det EXCEPT ![t].st = "completed", ![t].at = "start"]
          BY <4>6 DEF DetectDone
        <5>. QED
          BY <4>0, <5>1 DEF Detections
      <4>. QED
        BY <2>3, <4>1, <4>2, <4>3, <4>4, <4>5, <4>6
    <3>2. UNCHANGED <<rca, row>>
      BY <2>3
         DEF StartDetection, NothingFires, Fires, WriteFinding, WriteRuns, DetectDone
    <3>. QED
      BY <3>1, <3>2
  <2>. QED
    BY <1>1, <2>1, <2>2, <2>3 DEF DetectStep
<1>2. CASE DetectTrouble(t)
  <2>1. SkipDetection(t)
    BY <1>2
       DEF DetectTrouble, LoseRuns, DetectError, DetectCrash, DetectAgain, MayFail,
           Disrupt, Undisturbed
  <2>2. det'[t].at = "returned" /\ UNCHANGED <<rca, row>>
    BY <2>1 DEF SkipDetection, DetectEnds, DetectGoto, TypeOK
  <2>. QED
    BY <2>2
<1>3. CASE RcaStep(t)
  <2>0. UNCHANGED det
    BY <1>3
       DEF RcaStep, StartRca, BeginRca, ReadProject, AgentAnswers, RcaFails,
           ScheduleFlush, ScheduleAndThrow, RcaDone
  <2>1. CASE StartRca(t)
    BY <1>0, <2>1 DEF StartRca, TypeOK, Live
  <2>2. CASE BeginRca(t)
    BY <1>0, <2>2 DEF BeginRca, RcaAt, RcaGoto, TypeOK, Live
  <2>3. CASE ReadProject(t)
    <3>1. rca'[t].at = "agent" /\ UNCHANGED row
      BY <1>0, <2>3 DEF ReadProject, TypeOK, RcaJobs
    <3>. QED
      BY <2>0, <2>3, <3>1 DEF ReadProject, RcaAt
  <2>4. CASE AgentAnswers(t)
    BY <1>0, <2>4 DEF AgentAnswers, RcaAt, RcaGoto, TypeOK, Live
  <2>5. CASE RcaFails(t)
    BY <1>0, <2>5
       DEF RcaFails, CloseRow, RcaAt, RcaGoto, MayFail, Undisturbed, TypeOK, Live
  <2>6. CASE ScheduleFlush(t)
    BY <1>0, <2>6 DEF ScheduleFlush, RcaEnds, RcaAt, RcaGoto, TypeOK, Live
  <2>7. CASE ScheduleAndThrow(t)
    <3>1. rca'[t].at = "start" /\ UNCHANGED row
      BY <2>7 DEF ScheduleAndThrow, RcaThrows, TypeOK
    <3>. QED
      BY <2>0, <2>7, <3>1 DEF ScheduleAndThrow, RcaAt
  <2>8. CASE RcaDone(t)
    BY <1>0, <2>8 DEF RcaDone, RcaAt, TypeOK, Live
  <2>. QED
    BY <1>3, <2>1, <2>2, <2>3, <2>4, <2>5, <2>6, <2>7, <2>8 DEF RcaStep
<1>4. CASE RcaTrouble(t)
  <2>1. CASE SkipRca(t)
    BY <1>0, <2>1 DEF SkipRca, CloseRow, Closed, RcaEnds, RcaAt, RcaGoto, TypeOK, Live
  <2>2. CASE ForgetRca(t)
    BY <1>0, <2>2 DEF ForgetRca, NoRca, RcaJob, TypeOK, Live
  <2>. QED
    BY <1>4, <2>1, <2>2
       DEF RcaTrouble, BeginRcaError, ScheduleError, RcaCrash, MayFail, Disrupt,
           Undisturbed
<1>. QED
  BY <1>1, <1>2, <1>3, <1>4

LEMMA RowsNext ==
    ASSUME Undisturbed, TypeOK, OnceInv, RowsStand, [Next]_vars
    PROVE  RowsStand'
<1>0. again' = {}
  BY NoneAgain DEF RowsStand
<1>. SUFFICES ASSUME NEW u \in Trace PROVE RowStands(u)'
  BY <1>0 DEF RowsStand
<1>1. RowStands(u) /\ \A t \in Trace : DetectionSteps(t) /\ AnalysisSteps(t)
  BY DEF RowsStand, OnceInv
<1>2. CASE det'[u] = det[u] /\ rca'[u] = rca[u] /\ row'[u] = row[u]
  BY <1>1, <1>2 DEF RowStands
<1>3. ASSUME NEW t \in Trace,
             DetectStep(t) \/ DetectTrouble(t) \/ RcaStep(t) \/ RcaTrouble(t)
      PROVE  RowStands(u)'
  <2>1. CASE u = t
    BY <1>1, <1>3, <2>1, RowStandsNext
  <2>2. CASE u # t
    BY <1>2, <1>3, <2>2, OtherTracesRest
  <2>. QED
    BY <2>1, <2>2
<1>4. CASE \/ \E s \in Ticks : FlushStep(s) \/ FlushError(s) \/ FlushCrash(s)
           \/ ChangeWindow \/ Tick \/ UNCHANGED vars
  BY <1>2, <1>4 DEF FlushStep, Flush, FlushDone, FlushError, FlushCrash, ChangeWindow, Tick, vars
<1>. QED
  BY <1>3, <1>4 DEF Next

(* Where RowsStand says the row stands, the step is one of the life cycle. *)
LEMMA RowMoves ==
    ASSUME Undisturbed, TypeOK, OnceInv, RowsStand, [Next]_vars, row' # row
    PROVE  Lifecycle!Next
<1>. USE DEF Lifecycle!Move
<1>1. PICK t \in Trace : \/ SeedRow(t) \/ BeginRca(t) \/ AgentAnswers(t) \/ RcaFails(t)
                         \/ SkipRca(t)
  BY DEF Next, vars, DetectStep, DetectTrouble, RcaStep, RcaTrouble, ChangeWindow, Tick, FlushStep, Flush, FlushDone,
         FlushError, FlushCrash, StartDetection, NothingFires, Fires, WriteFinding, WriteRuns, EnqueueRca,
         DetectDone, SkipDetection, LoseRuns, DetectError, DetectCrash, DetectAgain, StartRca,
         ReadProject, ScheduleFlush, ScheduleAndThrow, RcaDone, BeginRcaError,
         ScheduleError, RcaCrash, ForgetRca, MayFail
<1>2. DetectionSteps(t) /\ RowStands(t)
  BY DEF OnceInv, RowsStand
<1>3. CASE SeedRow(t)
  <2>1. row[t] = "none" /\ row' = [row EXCEPT ![t] = "pending"]
    BY <1>2, <1>3 DEF SeedRow, Seeded, DetectAt, DetectionSteps
  <2>. QED
    BY <2>1 DEF Lifecycle!Next, Lifecycle!Announce
<1>4. CASE BeginRca(t)
  <2>1. row[t] \in {"pending", "failed"} /\ row' = [row EXCEPT ![t] = "running"]
    BY <1>2, <1>4 DEF BeginRca, RcaAt, RowStands, Live
  <2>. QED
    BY <2>1 DEF Lifecycle!Next, Lifecycle!Run
<1>5. CASE AgentAnswers(t)
  <2>1. row[t] = "running" /\ row' = [row EXCEPT ![t] = "done"]
    BY <1>2, <1>5 DEF AgentAnswers, RcaAt, RowStands
  <2>. QED
    BY <2>1 DEF Lifecycle!Next, Lifecycle!Succeed
<1>6. CASE RcaFails(t)
  <2>1. row[t] = "running" /\ row' = [row EXCEPT ![t] = "failed"]
    BY <1>2, <1>6 DEF RcaFails, CloseRow, RcaAt, MayFail, Undisturbed, RowStands
  <2>. QED
    BY <2>1 DEF Lifecycle!Next, Lifecycle!Fail
<1>7. CASE SkipRca(t)
  <2>1. row[t] \in {"pending", "failed"} /\ row' = [row EXCEPT ![t] = "failed"]
    BY <1>2, <1>7 DEF SkipRca, CloseRow, Closed, RcaAt, RowStands, Live
  <2>2. row[t] = "pending"
    BY <2>1 DEF TypeOK
  <2>. QED
    BY <2>1, <2>2 DEF Lifecycle!Next, Lifecycle!Fail
<1>. QED
  BY <1>1, <1>3, <1>4, <1>5, <1>6, <1>7

(* The safety half of LifecycleHolds: a row is announced, runs, ends with  *)
(* a result or an error, may run again after an error, and a recorded      *)
(* result is final, where no call fails, no process dies and no job comes  *)
(* twice; quotas, late writes, a changed window and a queue that forgets   *)
(* its jobs do no harm.                                                    *)
THEOREM RowsFollowLifecycle ==
    Undisturbed => (Spec => Lifecycle!Init /\ [][Lifecycle!Next]_row)
<1>. SUFFICES ASSUME Undisturbed
              PROVE  Spec => Lifecycle!Init /\ [][Lifecycle!Next]_row
  OBVIOUS
<1>1. Init => Lifecycle!Init
  BY DEF Init, Lifecycle!Init
<1>2. TypeOK /\ OnceInv /\ RowsStand /\ [Next]_vars
        => RowsStand' /\ [Lifecycle!Next]_row
  BY RowsNext, RowMoves
<1>. QED
  BY <1>1, <1>2, RowsInit, OnceHolds, TypeCorrect, PTL DEF Spec
=============================================================================
