-------------------------- MODULE IngestTaskProofs --------------------------
(***************************************************************************)
(* Theorems about IngestTask, for any batches, traces, workers and bounds. *)
(***************************************************************************)
EXTENDS IngestTask, TLAPS

USE DEF broker, tables, redis, history, budgets, Goto

-----------------------------------------------------------------------------
(* The variables keep their ranges, and a worker has a delivery (a claimed  *)
(* trace) in hand exactly in the steps that process one.                    *)
LEMMA LockValues ==
    /\ Free \in LockValue
    /\ \A w \in Worker, s \in {"deciding", "sampled_out", "pending"} :
          Claimed(s, w) \in LockValue /\ Claimed(s, w) # Free
  BY DEF Free, Claimed, LockValue

LEMMA ClaimedFields ==
    ASSUME NEW s, NEW w
    PROVE  Claimed(s, w).state = s /\ Claimed(s, w).token = w
  BY DEF Claimed

LEMMA TypeInit == Init => TypeOK
  BY TraceAssumption, NullAssumption, BoundAssumption
     DEF Init, TypeOK, Delivery, Idle, Free, LockValue, Steps, Claiming

LEMMA ResetType ==
    ASSUME TypeOK, NEW w \in Worker, Reset(w)
    PROVE  /\ pc' \in [Worker -> Steps]
           /\ hand' \in [Worker -> Delivery \cup {Idle}]
           /\ keep' \in [Worker -> SUBSET Trace]
           /\ todo' \in [Worker -> SUBSET Trace]
           /\ cur' \in [Worker -> Trace \cup {NoTrace}]
           /\ \A v \in Worker : (pc'[v] = "idle") <=> (hand'[v] = Idle)
           /\ \A v \in Worker :
                 (pc'[v] \in Claiming \cup {"release"}) <=> (cur'[v] # NoTrace)
<1>1. pc' \in [Worker -> Steps]  BY DEF TypeOK, Reset, Steps
<1>2. hand' \in [Worker -> Delivery \cup {Idle}]  BY DEF TypeOK, Reset
<1>3. /\ keep' \in [Worker -> SUBSET Trace]
      /\ todo' \in [Worker -> SUBSET Trace]
      /\ cur' \in [Worker -> Trace \cup {NoTrace}]
  BY DEF TypeOK, Reset
<1>4. \A v \in Worker : (pc'[v] = "idle") <=> (hand'[v] = Idle)
  BY DEF TypeOK, Reset
<1>5. \A v \in Worker :
         (pc'[v] \in Claiming \cup {"release"}) <=> (cur'[v] # NoTrace)
  BY DEF TypeOK, Reset, Claiming
<1> QED  BY <1>1, <1>2, <1>3, <1>4, <1>5

LEMMA RaiseType ==
    ASSUME TypeOK, NEW w \in Worker, hand[w] # Idle, Raise(w)
    PROVE  queue' \subseteq Delivery /\ failed' \subseteq Batch /\ Reset(w)
<1>1. hand[w] \in Delivery  BY DEF TypeOK
<1>2. hand[w][1] \in Batch /\ hand[w][2] \in 0 .. MaxRetries
  BY <1>1 DEF Delivery
<1>3. CASE hand[w][2] < MaxRetries
  <2>1. <<hand[w][1], hand[w][2] + 1>> \in Delivery
    BY <1>2, <1>3, BoundAssumption DEF Delivery
  <2> QED  BY <1>2, <1>3, <2>1 DEF Raise, RetryOf, TypeOK
<1>4. CASE ~(hand[w][2] < MaxRetries)
  BY <1>2, <1>4 DEF Raise, TypeOK
<1> QED  BY <1>3, <1>4

LEMMA TypeNext == TypeOK /\ [Next]_vars => TypeOK'
<1> SUFFICES ASSUME TypeOK, [Next]_vars PROVE TypeOK'
    OBVIOUS
<1> USE TraceAssumption, NullAssumption, BoundAssumption
<1>1. ASSUME NEW w \in Worker, Work(w) PROVE TypeOK'
  <2> USE DEF TypeOK, Delivery, Idle, Steps, Claiming
  <2>1. CASE Take(w)  BY <2>1 DEF Take
  <2>2. CASE Download(w)  BY <2>2 DEF Download
  <2>3. CASE Probe(w)  BY <2>3 DEF Probe
  <2>4. CASE InsertRecords(w)  BY <2>4 DEF InsertRecords
  <2>5. CASE InsertSpans(w)  BY <2>5 DEF InsertSpans
  <2>6. CASE ReadDetectors(w)  BY <2>6 DEF ReadDetectors, ToClaim
  <2>7. CASE DecideNo(w)  BY <2>7, LockValues DEF DecideNo
  <2>8. CASE DecideYes(w)  BY <2>8 DEF DecideYes
  <2>9. CASE Add(w)
    <3>1. /\ job' \in [Trace -> {"absent", "queued", "finished"}]
          /\ added' \in [Trace -> Nat]
      BY <2>9 DEF Add, AddedTo
    <3>2. /\ pc' = [pc EXCEPT ![w] = "mark"] /\ decided' \subseteq Trace
          /\ pc[w] = "add" /\ UNCHANGED <<cur, hand>>
      BY <2>9 DEF Add
    <3> QED  BY <2>9, <3>1, <3>2 DEF Add
  <2>10. CASE Mark(w)  BY <2>10, LockValues DEF Mark
  <2>11. CASE Release(w)
    <3>1. cur[w] \in Trace  BY <2>11 DEF Release
    <3>2. lock' \in [Trace -> LockValue] /\ released' \subseteq Trace
      BY <2>11, <3>1, LockValues DEF Release
    <3>3. /\ pc' = [pc EXCEPT ![w] = "claim"] /\ cur' = [cur EXCEPT ![w] = NoTrace]
          /\ UNCHANGED <<broker, hand, keep, todo, tables, job, added, decided,
                         dropped, orphaned, budgets>>
      BY <2>11 DEF Release
    <3> QED  BY <2>11, <3>2, <3>3 DEF Release
  <2>12. CASE LoopDone(w)  BY <2>12 DEF LoopDone
  <2>13. CASE Publish(w)  BY <2>13, ResetType DEF Publish
  <2>14. ASSUME NEW t \in Trace, Claim(w, t) PROVE TypeOK'
    <3>1. Claimed("deciding", w) \in LockValue  BY LockValues
    <3>2. CASE Unclaimed(t)
      <4>1. lock' = [lock EXCEPT ![t] = Claimed("deciding", w)]
        BY <2>14, <3>2 DEF Claim
      <4>2. lock' \in [Trace -> LockValue]  BY <3>1, <4>1
      <4>3. /\ pc' \in [Worker -> Steps] /\ todo' \in [Worker -> SUBSET Trace]
            /\ cur' \in [Worker -> Trace \cup {NoTrace}]
            /\ \A v \in Worker : (pc'[v] = "idle") <=> (hand'[v] = Idle)
            /\ \A v \in Worker :
                  (pc'[v] \in Claiming \cup {"release"}) <=> (cur'[v] # NoTrace)
        BY <2>14, <3>2 DEF Claim
      <4>4. UNCHANGED <<queue, acked, failed, hand, keep, record, spans, job, added,
                        decided, dropped, orphaned, released, disruptions, expired>>
        BY <2>14 DEF Claim
      <4> QED  BY <4>2, <4>3, <4>4
    <3>3. CASE ~Unclaimed(t)  BY <2>14, <3>3 DEF Claim
    <3> QED  BY <3>2, <3>3
  <2> QED BY <1>1, <2>1, <2>2, <2>3, <2>4, <2>5, <2>6, <2>7, <2>8, <2>9,
             <2>10, <2>11, <2>12, <2>13, <2>14 DEF Work
<1>2. ASSUME NEW w \in Worker, Trouble(w) PROVE TypeOK'
  <2> USE DEF TypeOK, Delivery, Idle, Steps, Claiming
  <2>1. CASE TaskError(w)  BY <2>1, ResetType, RaiseType DEF TaskError
  <2>2. CASE Die(w)  BY <2>2, ResetType DEF Die
  <2>3. CASE Redeliver(w)  BY <2>3 DEF Redeliver
  <2>4. CASE InsertSpansLost(w)  BY <2>4, ResetType, RaiseType DEF InsertSpansLost
  <2>5. CASE ReadDetectorsError(w)  BY <2>5 DEF ReadDetectorsError
  <2>6. CASE ClaimingError(w)
    <3>1. cur[w] \in Trace  BY <2>6 DEF ClaimingError
    <3>2. /\ lock' \in [Trace -> LockValue]
          /\ job' \in [Trace -> {"absent", "queued", "finished"}]
          /\ added' \in [Trace -> Nat]
          /\ decided' \subseteq Trace
      <4>1. /\ Claimed("sampled_out", w) \in LockValue
            /\ Claimed("pending", w) \in LockValue
        BY LockValues
      <4>2. lock' \in [Trace -> LockValue] /\ decided' \subseteq Trace
        BY <2>6, <3>1, <4>1 DEF ClaimingError
      <4>3. /\ job' \in [Trace -> {"absent", "queued", "finished"}]
            /\ added' \in [Trace -> Nat]
        <5>1. UNCHANGED <<job, added>> \/ AddedTo(cur[w])
          BY <2>6 DEF ClaimingError
        <5> QED  BY <3>1, <5>1 DEF AddedTo
      <4> QED  BY <4>2, <4>3
    <3> QED  BY <2>6, <3>1, <3>2 DEF ClaimingError
  <2>7. CASE ReleaseError(w)  BY <2>7 DEF ReleaseError
  <2>8. ASSUME NEW t \in Trace, ClaimError(w, t) PROVE TypeOK'
    <3>1. lock' \in [Trace -> LockValue]  BY <2>8, LockValues DEF ClaimError
    <3> QED  BY <2>8, <3>1 DEF ClaimError
  <2> QED BY <1>2, <2>1, <2>2, <2>3, <2>4, <2>5, <2>6, <2>7, <2>8 DEF Trouble
<1>3. ASSUME NEW t \in Trace, Expire(t) \/ JobMoves(t) PROVE TypeOK'
  <2>1. CASE Expire(t)
    <3>1. lock' \in [Trace -> LockValue] /\ expired' \subseteq Trace
      BY <2>1, LockValues DEF Expire, TypeOK
    <3> QED  BY <2>1, <3>1 DEF Expire, TypeOK
  <2>2. CASE JobMoves(t)  BY <2>2 DEF JobMoves, TypeOK
  <2> QED  BY <1>3, <2>1, <2>2
<1>4. CASE UNCHANGED vars
  BY <1>4 DEF vars, TypeOK
<1> QED BY <1>1, <1>2, <1>3, <1>4 DEF Next

(* Every variable keeps its range; a worker holds a delivery and a claim   *)
(* in the steps of process_s3_traces that need one, and only there.        *)
THEOREM TypeCorrect == Spec => []TypeOK
<1> QED BY TypeInit, TypeNext, PTL DEF Spec
-----------------------------------------------------------------------------
(* Spans never precede the record of their trace.                          *)
LEMMA RecordInit == Init => RecordInv
  BY DEF Init, RecordInv, SpansHaveRecord

LEMMA RecordNext == TypeOK /\ RecordInv /\ [Next]_vars => RecordInv'
<1> SUFFICES ASSUME TypeOK, RecordInv, [Next]_vars PROVE RecordInv'
    OBVIOUS
<1> USE TraceAssumption, NullAssumption
        DEF TypeOK, RecordInv, SpansHaveRecord, Delivery, Idle, Claiming
(* The steps that leave the record table, the spans and the workers before  *)
(* the spans insert alone. *)
<1>0. ASSUME NEW w \in Worker, UNCHANGED <<record, spans>>,
             \A v \in Worker \ {w} : pc'[v] = pc[v] /\ hand'[v] = hand[v]
                                                    /\ keep'[v] = keep[v],
             pc'[w] \notin {"probe", "records", "spans"}
      PROVE  RecordInv'
  BY <1>0
<1>1. ASSUME NEW w \in Worker, Work(w) PROVE RecordInv'
  <2>1. CASE Take(w)  BY <1>0, <2>1 DEF Take
  <2>2. CASE Download(w)  BY <2>2 DEF Download
  <2>3. CASE Probe(w)  BY <2>3 DEF Probe, Keeps
  <2>4. CASE InsertRecords(w)
    <3>1. \A t \in Trace : record[t] # "none" => record'[t] # "none"
      BY <2>4 DEF InsertRecords
    <3>2. \A t \in Touches[hand[w][1]] : record'[t] # "none"
      BY <2>4 DEF InsertRecords
    <3>3. UNCHANGED <<hand, keep, spans>> /\ pc' = [pc EXCEPT ![w] = "spans"]
      BY <2>4 DEF InsertRecords
    <3>4. SpansHaveRecord'  BY <3>1, <3>3
    <3>5. \A v \in Worker : pc'[v] = "records" =>
            \A t \in Touches[hand'[v][1]] \ keep'[v] : record'[t] # "none"
      BY <3>1, <3>3
    <3>6. \A v \in Worker : pc'[v] = "spans" =>
            \A t \in Touches[hand'[v][1]] : record'[t] # "none"
      BY <3>1, <3>2, <3>3
    <3> QED  BY <3>3, <3>4, <3>5, <3>6
  <2>5. CASE InsertSpans(w)  BY <2>5 DEF InsertSpans
  <2>6. CASE ReadDetectors(w)  BY <1>0, <2>6 DEF ReadDetectors
  <2>7. CASE DecideNo(w)  BY <1>0, <2>7 DEF DecideNo
  <2>8. CASE DecideYes(w)  BY <1>0, <2>8 DEF DecideYes
  <2>9. CASE Add(w)  BY <1>0, <2>9 DEF Add
  <2>10. CASE Mark(w)  BY <1>0, <2>10 DEF Mark
  <2>11. CASE Release(w)  BY <1>0, <2>11 DEF Release
  <2>12. CASE LoopDone(w)  BY <1>0, <2>12 DEF LoopDone
  <2>13. CASE Publish(w)  BY <1>0, <2>13 DEF Publish, Reset
  <2>14. ASSUME NEW t \in Trace, Claim(w, t) PROVE RecordInv'
    BY <1>0, <2>14 DEF Claim
  <2> QED BY <1>1, <2>1, <2>2, <2>3, <2>4, <2>5, <2>6, <2>7, <2>8, <2>9,
             <2>10, <2>11, <2>12, <2>13, <2>14 DEF Work
<1>2. ASSUME NEW w \in Worker, Trouble(w) PROVE RecordInv'
  <2>1. CASE TaskError(w)  BY <1>0, <2>1 DEF TaskError, Raise, Reset
  <2>2. CASE Die(w)  BY <1>0, <2>2 DEF Die, Reset
  <2>3. CASE Redeliver(w)  BY <2>3 DEF Redeliver
  <2>4. CASE InsertSpansLost(w)  BY <2>4 DEF InsertSpansLost, Raise, Reset
  <2>5. CASE ReadDetectorsError(w)  BY <1>0, <2>5 DEF ReadDetectorsError
  <2>6. CASE ClaimingError(w)  BY <1>0, <2>6 DEF ClaimingError
  <2>7. CASE ReleaseError(w)  BY <1>0, <2>7 DEF ReleaseError
  <2>8. ASSUME NEW t \in Trace, ClaimError(w, t) PROVE RecordInv'
    BY <2>8 DEF ClaimError
  <2> QED BY <1>2, <2>1, <2>2, <2>3, <2>4, <2>5, <2>6, <2>7, <2>8 DEF Trouble
<1>3. ASSUME NEW t \in Trace, Expire(t) \/ JobMoves(t) PROVE RecordInv'
  BY <1>3 DEF Expire, JobMoves
<1>4. CASE UNCHANGED vars
  BY <1>4 DEF vars
<1> QED BY <1>1, <1>2, <1>3, <1>4 DEF Next

(* Spans are never stored before the record of their trace: the task       *)
(* inserts the records first, in every attempt.                            *)
THEOREM SpansAlwaysHaveRecord == Spec => []SpansHaveRecord
<1>1. RecordInv => SpansHaveRecord  BY DEF RecordInv
<1> QED  BY TypeInit, TypeNext, RecordInit, RecordNext, <1>1, PTL DEF Spec

-----------------------------------------------------------------------------
(* The claim of a trace is exclusive, and its job is created once.          *)
LEMMA ClaimInit == Init => ClaimInv
  BY DEF Init, ClaimInv, Claiming

(* Only a TTL makes a claim expire.                                         *)
LEMMA WorkersExpireNothing ==
    ASSUME NEW w \in Worker, Work(w) \/ Trouble(w)
    PROVE  expired' = expired
BY DEF Work, Trouble, Take, Download, Probe, InsertRecords, InsertSpans, ReadDetectors,
       DecideNo, DecideYes, Add, Mark, Release, LoopDone, Publish, Claim, TaskError, Die,
       Redeliver, InsertSpansLost, ReadDetectorsError, ClaimingError, ReleaseError, ClaimError

LEMMA ClaimNext == TypeOK /\ ClaimInv /\ [Next]_vars => ClaimInv'
<1> SUFFICES ASSUME TypeOK, ClaimInv, [Next]_vars PROVE ClaimInv'
    OBVIOUS
<1> USE NullAssumption, BoundAssumption DEF TypeOK, Claiming
<1>b. /\ \A w \in Worker : pc[w] \in Claiming /\ cur[w] \notin expired =>
              lock[cur[w]] = Claimed("deciding", w)
      /\ \A t \in Trace \ expired : t \notin released /\ added[t] > 0 =>
           /\ added[t] = 1 /\ lock[t] # Free
           /\ \A w \in Worker : pc[w] \in {"decide", "add"} => cur[w] # t
  BY DEF ClaimInv
<1>c. \A w \in Worker : pc[w] \in Claiming \cup {"release"} => cur[w] \in Trace
  OBVIOUS
<1>d. \A v, w \in Worker : Claimed("deciding", v) = Claimed("deciding", w) => v = w
  BY DEF Claimed
<1>e. \A w \in Worker : \A s \in {"deciding", "sampled_out", "pending"} :
         Claimed(s, w) # Free
  BY LockValues
(* The steps that leave the claims alone: no worker enters one. *)
<1>0. ASSUME UNCHANGED <<lock, added, released, expired>>,
             \A v \in Worker : \/ pc'[v] = pc[v] /\ cur'[v] = cur[v]
                               \/ pc'[v] \notin Claiming
      PROVE  ClaimInv'
  BY <1>0, <1>b DEF ClaimInv
<1>1. ASSUME NEW w \in Worker, Work(w) PROVE ClaimInv'
  <2>0. expired' = expired  BY <1>1, WorkersExpireNothing
  <2>1. CASE Take(w)  BY <1>0, <2>0, <2>1 DEF Take
  <2>2. CASE Download(w)  BY <1>0, <2>0, <2>2 DEF Download
  <2>3. CASE Probe(w)  BY <1>0, <2>0, <2>3 DEF Probe
  <2>4. CASE InsertRecords(w)  BY <1>0, <2>0, <2>4 DEF InsertRecords
  <2>5. CASE InsertSpans(w)  BY <1>0, <2>0, <2>5 DEF InsertSpans
  <2>6. CASE ReadDetectors(w)  BY <1>0, <2>0, <2>6 DEF ReadDetectors
  <2>7. CASE DecideNo(w)
    BY <2>0, <2>7, <1>b, <1>c, <1>d, <1>e DEF DecideNo, ClaimInv
  <2>8. CASE DecideYes(w)  BY <2>0, <2>8, <1>b DEF DecideYes, ClaimInv
  <2>9. CASE Add(w)  BY <2>0, <2>9, <1>b, <1>c, <1>d, <1>e DEF Add, AddedTo, ClaimInv
  <2>10. CASE Mark(w)  BY <2>0, <2>10, <1>b, <1>c, <1>d, <1>e DEF Mark, ClaimInv
  <2>11. CASE Release(w)
    BY <2>0, <2>11, <1>b, <1>c, <1>d DEF Release, Wrote, ClaimInv
  <2>12. CASE LoopDone(w)  BY <1>0, <2>0, <2>12 DEF LoopDone
  <2>13. CASE Publish(w)  BY <1>0, <2>0, <2>13 DEF Publish, Reset
  <2>14. ASSUME NEW t \in Trace, Claim(w, t) PROVE ClaimInv'
    BY <2>0, <2>14, <1>b, <1>c, <1>e DEF Claim, Unclaimed, ClaimInv
  <2> QED BY <1>1, <2>1, <2>2, <2>3, <2>4, <2>5, <2>6, <2>7, <2>8, <2>9,
             <2>10, <2>11, <2>12, <2>13, <2>14 DEF Work
<1>2. ASSUME NEW w \in Worker, Trouble(w) PROVE ClaimInv'
  <2>0. expired' = expired  BY <1>2, WorkersExpireNothing
  <2>1. CASE TaskError(w)  BY <1>0, <2>0, <2>1 DEF TaskError, Raise, Reset
  <2>2. CASE Die(w)  BY <1>0, <2>0, <2>2 DEF Die, Reset
  <2>3. CASE Redeliver(w)  BY <1>0, <2>0, <2>3 DEF Redeliver
  <2>4. CASE InsertSpansLost(w)  BY <1>0, <2>0, <2>4 DEF InsertSpansLost, Raise, Reset
  <2>5. CASE ReadDetectorsError(w)  BY <1>0, <2>0, <2>5 DEF ReadDetectorsError
  <2>6. CASE ClaimingError(w)
    BY <2>0, <2>6, <1>b, <1>c, <1>d, <1>e DEF ClaimingError, AddedTo, ClaimInv
  <2>7. CASE ReleaseError(w)  BY <1>0, <2>0, <2>7 DEF ReleaseError
  <2>8. ASSUME NEW t \in Trace, ClaimError(w, t) PROVE ClaimInv'
    BY <2>0, <2>8, <1>b, <1>c, <1>e DEF ClaimError, Unclaimed, ClaimInv
  <2> QED BY <1>2, <2>1, <2>2, <2>3, <2>4, <2>5, <2>6, <2>7, <2>8 DEF Trouble
<1>3. ASSUME NEW t \in Trace, Expire(t) \/ JobMoves(t) PROVE ClaimInv'
  <2>1. CASE Expire(t)  BY <2>1, <1>b DEF Expire, ClaimInv
  <2>2. CASE JobMoves(t)  BY <1>0, <2>2 DEF JobMoves
  <2> QED  BY <1>3, <2>1, <2>2
<1>4. CASE UNCHANGED vars
  BY <1>0, <1>4 DEF vars
<1> QED BY <1>1, <1>2, <1>3, <1>4 DEF Next

(* Until a claim of the trace outlives its TTL, the SET NX lets at most    *)
(* one worker into a claim.                                                *)
THEOREM ClaimsExclusive == Spec => []ExclusiveClaim
<1>1. TypeOK /\ ClaimInv => ExclusiveClaim
  <2> SUFFICES ASSUME ClaimInv, NEW w1 \in Worker, NEW w2 \in Worker,
                      pc[w1] \in Claiming, pc[w2] \in Claiming, cur[w1] = cur[w2],
                      cur[w1] \notin expired
               PROVE  w1 = w2
    BY DEF ExclusiveClaim
  <2>1. Claimed("deciding", w1) = Claimed("deciding", w2)  BY DEF ClaimInv
  <2> QED  BY <2>1, ClaimedFields
<1> QED  BY TypeInit, TypeNext, ClaimInit, ClaimNext, <1>1, PTL DEF Spec

(* Until a claim of the trace expires or is given back, a trace gets at    *)
(* most one detection job.                                                 *)
THEOREM OneJobPerClaim == Spec => []NoSecondJob
<1>1. TypeOK /\ ClaimInv => NoSecondJob
  BY DEF TypeOK, ClaimInv, NoSecondJob
<1> QED  BY TypeInit, TypeNext, ClaimInit, ClaimNext, <1>1, PTL DEF Spec

-----------------------------------------------------------------------------
(* The sticky no: only a worker inside a claim, which then holds the key    *)
(* undecided, writes the key or adds the job.                               *)
THEOREM NoIsSticky == Spec => StickyNo
<1>1. ASSUME TypeOK, ClaimInv, [Next]_vars, NEW t \in Trace,
             lock[t].state = "sampled_out", t \notin expired'
      PROVE  lock'[t] = lock[t] /\ added'[t] = added[t]
  <2> USE NullAssumption, BoundAssumption DEF TypeOK, Claiming
  <2>0. t \notin expired
    BY <1>1, WorkersExpireNothing DEF Next, Expire, JobMoves, vars
  <2>1. ASSUME NEW u \in Trace, Expire(u)
        PROVE  lock'[t] = lock[t] /\ added'[t] = added[t]
    BY <1>1, <2>1 DEF Expire
  <2>2. \A w \in Worker : pc[w] \in Claiming =>
           cur[w] \in Trace /\ cur[w] # t
    BY <1>1, <2>0, ClaimedFields DEF ClaimInv
  <2>3. ASSUME NEW w \in Worker, Work(w) \/ Trouble(w),
               UNCHANGED <<lock, added>>
        PROVE  lock'[t] = lock[t] /\ added'[t] = added[t]
    BY <2>3
  <2>4. ASSUME NEW w \in Worker, Work(w)
        PROVE  lock'[t] = lock[t] /\ added'[t] = added[t]
    <3>1. CASE DecideNo(w)  BY <1>1, <3>1, <2>2 DEF DecideNo
    <3>2. CASE Add(w)  BY <1>1, <3>2, <2>2 DEF Add, AddedTo
    <3>3. CASE Mark(w)  BY <1>1, <3>3, <2>2 DEF Mark
    <3>4. CASE Release(w)
      <4>1. cur[w] \in Trace  BY <1>1, <3>4 DEF Release
      <4> QED  BY <3>4, <4>1, <1>1 DEF Release, Wrote, Claimed
    <3>5. ASSUME NEW u \in Trace, Claim(w, u)
          PROVE  lock'[t] = lock[t] /\ added'[t] = added[t]
      BY <3>5, <1>1 DEF Claim, Unclaimed, Free
    <3> QED
      BY <2>4, <3>1, <3>2, <3>3, <3>4, <3>5 DEF Work, Take, Download, Probe,
         InsertRecords, InsertSpans, ReadDetectors, DecideYes, LoopDone, Publish
  <2>5. ASSUME NEW w \in Worker, Trouble(w)
        PROVE  lock'[t] = lock[t] /\ added'[t] = added[t]
    <3>1. CASE ClaimingError(w)  BY <1>1, <3>1, <2>2 DEF ClaimingError, AddedTo
    <3>2. ASSUME NEW u \in Trace, ClaimError(w, u)
          PROVE  lock'[t] = lock[t] /\ added'[t] = added[t]
      BY <3>2, <1>1 DEF ClaimError, Unclaimed, Free
    <3> QED
      BY <2>5, <3>1, <3>2 DEF Trouble, TaskError, Die, Redeliver,
         InsertSpansLost, ReadDetectorsError, ReleaseError
  <2> QED  BY <1>1, <2>1, <2>4, <2>5 DEF Next, JobMoves, vars
<1>2. TypeOK /\ ClaimInv /\ [Next]_vars =>
        [\A t \in Trace :
           lock[t].state = "sampled_out" /\ t \notin expired'
             => lock'[t] = lock[t] /\ added'[t] = added[t]]_vars
  BY <1>1
<1> QED  BY <1>2, TypeInit, TypeNext, ClaimInit, ClaimNext, PTL DEF Spec, StickyNo

-----------------------------------------------------------------------------
(* A key disappears by its TTL or by the release of its own claim.          *)
THEOREM ReleasesOnlyOwn == Spec => ReleaseOnlyOwn
<1>1. ASSUME TypeOK, [Next]_vars, NEW t \in Trace,
             lock[t] # Free, lock'[t] = Free, pc' # pc
      PROVE  \E w \in Worker : /\ lock[t] = Claimed("deciding", w)
                               /\ pc[w] = "release" /\ cur[w] = t
  <2> USE NullAssumption, BoundAssumption DEF TypeOK, Claiming
  <2>1. \A w \in Worker : \A s \in {"deciding", "sampled_out", "pending"} :
           Claimed(s, w) # Free
    BY LockValues
  <2>2. lock' # lock
    BY <1>1
  <2>3. ASSUME NEW w \in Worker, Work(w)
        PROVE  /\ lock[t] = Claimed("deciding", w)
               /\ pc[w] = "release" /\ cur[w] = t
    <3>1. CASE DecideNo(w)  BY <1>1, <2>1, <3>1 DEF DecideNo
    <3>2. CASE Mark(w)  BY <1>1, <2>1, <3>2 DEF Mark
    <3>3. CASE Release(w)  BY <1>1, <3>3 DEF Release, Wrote
    <3>4. ASSUME NEW u \in Trace, Claim(w, u) PROVE FALSE
      BY <1>1, <2>1, <3>4 DEF Claim
    <3> QED
      BY <2>2, <2>3, <3>1, <3>2, <3>3, <3>4 DEF Work, Take, Download, Probe,
         InsertRecords, InsertSpans, ReadDetectors, DecideYes, Add, LoopDone, Publish
  <2>4. ASSUME NEW w \in Worker, Trouble(w) PROVE FALSE
    <3>1. CASE ClaimingError(w)
      BY <1>1, <2>1, <3>1 DEF ClaimingError
    <3>2. ASSUME NEW u \in Trace, ClaimError(w, u) PROVE FALSE
      BY <1>1, <2>1, <3>2 DEF ClaimError
    <3> QED
      BY <2>2, <2>4, <3>1, <3>2 DEF Trouble, TaskError, Die, Redeliver,
         InsertSpansLost, ReadDetectorsError, ReleaseError
  <2>5. ASSUME NEW u \in Trace, Expire(u) PROVE FALSE
    BY <1>1, <2>5 DEF Expire
  <2> QED  BY <1>1, <2>2, <2>3, <2>4, <2>5 DEF Next, JobMoves, vars
<1>2. TypeOK /\ [Next]_vars =>
        [\A t \in Trace :
           lock[t] # Free /\ lock'[t] = Free /\ pc' # pc
             => \E w \in Worker : /\ lock[t] = Claimed("deciding", w)
                                  /\ pc[w] = "release" /\ cur[w] = t]_vars
  BY <1>1
<1> QED  BY <1>2, TypeInit, TypeNext, PTL DEF Spec, ReleaseOnlyOwn

-----------------------------------------------------------------------------
(* Every root that was processed is accounted for. A trace is when its     *)
(* detection was decided, dropped or orphaned, or somebody is at it; the   *)
(* key of a trace is taken only by someone who then accounts for it, so    *)
(* that a worker may pass by a key that is taken.                          *)
Accounted(t) ==
    t \in decided \cup dropped \cup orphaned \/ \E w \in Worker : cur[w] = t

AccountInv ==
    /\ \A t \in Trace : lock[t] # Free => Accounted(t)
    /\ \A b \in acked : \A t \in Roots[b] : Accounted(t)
    /\ \A w \in Worker :
          /\ pc[w] \in {"claim", "release"} \cup Claiming =>
                \A t \in Roots[hand[w][1]] \ todo[w] : Accounted(t)
          /\ pc[w] = "publish" => \A t \in Roots[hand[w][1]] : Accounted(t)
          /\ pc[w] = "mark" => cur[w] \in decided
          /\ pc[w] = "release" => cur[w] \in dropped

LEMMA AccountInit == Init => AccountInv
  BY DEF Init, AccountInv, Claiming

(* Once accounted for, a trace stays so: whoever lets go of it has decided *)
(* or dropped it, or dies.                                                 *)
LEMMA StaysAccounted ==
    ASSUME TypeOK, AccountInv, [Next]_vars, NEW t \in Trace, Accounted(t)
    PROVE  Accounted(t)'
<1> USE NullAssumption DEF TypeOK, Claiming
<1>0. ASSUME decided \subseteq decided', dropped \subseteq dropped',
             orphaned \subseteq orphaned',
             \A v \in Worker : \/ cur'[v] = cur[v] \/ cur[v] = NoTrace
                               \/ cur[v] \in decided' \cup dropped' \cup orphaned'
      PROVE  Accounted(t)'
  BY <1>0 DEF Accounted
<1>1. ASSUME NEW w \in Worker, Work(w) PROVE Accounted(t)'
  <2>1. CASE Take(w)  BY <1>0, <2>1 DEF Take
  <2>2. CASE Download(w)  BY <1>0, <2>2 DEF Download
  <2>3. CASE Probe(w)  BY <1>0, <2>3 DEF Probe
  <2>4. CASE InsertRecords(w)  BY <1>0, <2>4 DEF InsertRecords
  <2>5. CASE InsertSpans(w)  BY <1>0, <2>5 DEF InsertSpans
  <2>6. CASE ReadDetectors(w)  BY <1>0, <2>6 DEF ReadDetectors
  <2>7. CASE DecideNo(w)  BY <1>0, <2>7 DEF DecideNo
  <2>8. CASE DecideYes(w)  BY <1>0, <2>8 DEF DecideYes
  <2>9. CASE Add(w)  BY <1>0, <2>9 DEF Add
  <2>10. CASE Mark(w)  BY <1>0, <2>10 DEF Mark, AccountInv
  <2>11. CASE Release(w)  BY <1>0, <2>11 DEF Release, AccountInv
  <2>12. CASE LoopDone(w)  BY <1>0, <2>12 DEF LoopDone
  <2>13. CASE Publish(w)  BY <1>0, <2>13 DEF Publish, Reset
  <2>14. ASSUME NEW u \in Trace, Claim(w, u) PROVE Accounted(t)'
    BY <1>0, <2>14 DEF Claim
  <2> QED BY <1>1, <2>1, <2>2, <2>3, <2>4, <2>5, <2>6, <2>7, <2>8, <2>9,
             <2>10, <2>11, <2>12, <2>13, <2>14 DEF Work
<1>2. ASSUME NEW w \in Worker, Trouble(w) PROVE Accounted(t)'
  <2>1. CASE TaskError(w)  BY <1>0, <2>1 DEF TaskError, Raise, Reset
  <2>2. CASE Die(w)  BY <1>0, <2>2 DEF Die, Reset
  <2>3. CASE Redeliver(w)  BY <1>0, <2>3 DEF Redeliver
  <2>4. CASE InsertSpansLost(w)  BY <1>0, <2>4 DEF InsertSpansLost, Raise, Reset
  <2>5. CASE ReadDetectorsError(w)  BY <1>0, <2>5 DEF ReadDetectorsError
  <2>6. CASE ClaimingError(w)  BY <1>0, <2>6 DEF ClaimingError
  <2>7. CASE ReleaseError(w)  BY <1>0, <2>7 DEF ReleaseError, AccountInv
  <2>8. ASSUME NEW u \in Trace, ClaimError(w, u) PROVE Accounted(t)'
    BY <1>0, <2>8 DEF ClaimError
  <2> QED BY <1>2, <2>1, <2>2, <2>3, <2>4, <2>5, <2>6, <2>7, <2>8 DEF Trouble
<1>3. ASSUME NEW u \in Trace, Expire(u) \/ JobMoves(u) PROVE Accounted(t)'
  BY <1>0, <1>3 DEF Expire, JobMoves
<1>4. CASE UNCHANGED vars
  BY <1>0, <1>4 DEF vars
<1> QED BY <1>1, <1>2, <1>3, <1>4 DEF Next

(* The steps of a worker that has no part in the claims. *)
LEMMA AccountElsewhere ==
    ASSUME TypeOK, AccountInv, [Next]_vars, NEW w \in Worker,
           UNCHANGED <<lock, acked>>, decided \subseteq decided', dropped \subseteq dropped',
           \A v \in Worker \ {w} : /\ pc'[v] = pc[v] /\ hand'[v] = hand[v]
                                   /\ todo'[v] = todo[v] /\ cur'[v] = cur[v],
           \/ pc'[w] \notin {"claim", "release", "publish"} \cup Claiming
           \/ pc'[w] = "publish" /\ Roots[hand'[w][1]] = {}
    PROVE  AccountInv'
<1>1. \A t \in Trace : Accounted(t) => Accounted(t)'
  BY StaysAccounted
<1>2. \A b \in Batch : Roots[b] \subseteq Trace
  BY TraceAssumption
<1>3. \A v \in Worker : pc[v] \in {"claim", "release", "publish"} \cup Claiming
                           => hand[v][1] \in Batch
  BY DEF TypeOK, Delivery, Idle, Claiming
<1>4. /\ (\A t \in Trace : lock[t] # Free => Accounted(t))'
      /\ (\A b \in acked : \A t \in Roots[b] : Accounted(t))'
  <2> USE DEF AccountInv, TypeOK
  <2> HIDE DEF Accounted
  <2> QED  BY <1>1, <1>2
<1>5. ASSUME NEW v \in Worker \ {w}
      PROVE  /\ pc'[v] \in {"claim", "release"} \cup Claiming =>
                   \A t \in Roots[hand'[v][1]] \ todo'[v] : Accounted(t)'
             /\ pc'[v] = "publish" => \A t \in Roots[hand'[v][1]] : Accounted(t)'
             /\ pc'[v] = "mark" => cur'[v] \in decided'
             /\ pc'[v] = "release" => cur'[v] \in dropped'
  BY <1>1, <1>2, <1>3, <1>5 DEF AccountInv
<1>6. /\ pc'[w] \notin {"claim", "release"} \cup Claiming
      /\ pc'[w] = "publish" => \A t \in Roots[hand'[w][1]] : Accounted(t)'
  BY DEF Claiming
<1> QED  BY <1>4, <1>5, <1>6 DEF AccountInv, Claiming

LEMMA AccountNext == TypeOK /\ AccountInv /\ [Next]_vars => AccountInv'
<1> SUFFICES ASSUME TypeOK, AccountInv, [Next]_vars PROVE AccountInv'
    OBVIOUS
<1> USE NullAssumption, TraceAssumption DEF TypeOK, Delivery, Idle, Claiming
<1>a. \A t \in Trace : Accounted(t) => Accounted(t)'
  BY StaysAccounted
<1>b. \A w \in Worker : pc[w] # "idle" => Roots[hand[w][1]] \subseteq Trace
  OBVIOUS
(* A worker in the claims, or about to acknowledge, moves on. *)
<1>0. ASSUME NEW w \in Worker, pc[w] \in {"claim", "release"} \cup Claiming,
             \A t \in Trace : lock'[t] # Free => lock[t] # Free \/ Accounted(t)',
             UNCHANGED <<acked, hand>>, dropped \subseteq dropped', decided \subseteq decided',
             \A v \in Worker \ {w} : pc'[v] = pc[v] /\ todo'[v] = todo[v] /\ cur'[v] = cur[v],
             pc'[w] \in {"claim", "release"} \cup Claiming,
             \A t \in Roots[hand[w][1]] \ todo'[w] : t \in todo[w] => Accounted(t)',
             pc'[w] = "mark" => cur'[w] \in decided',
             pc'[w] = "release" => cur'[w] \in dropped'
      PROVE  AccountInv'
  <2>1. (\A t \in Trace : lock[t] # Free => Accounted(t))'
    BY <1>0, <1>a DEF AccountInv
  <2>2. (\A b \in acked : \A t \in Roots[b] : Accounted(t))'
    BY <1>0, <1>a DEF AccountInv
  <2>3. ASSUME NEW v \in Worker \ {w}
        PROVE  /\ pc'[v] \in {"claim", "release"} \cup Claiming =>
                     \A t \in Roots[hand'[v][1]] \ todo'[v] : Accounted(t)'
               /\ pc'[v] = "publish" => \A t \in Roots[hand'[v][1]] : Accounted(t)'
               /\ pc'[v] = "mark" => cur'[v] \in decided'
               /\ pc'[v] = "release" => cur'[v] \in dropped'
    BY <1>0, <1>a, <1>b, <2>3 DEF AccountInv
  <2>4. /\ \A t \in Roots[hand'[w][1]] \ todo'[w] : Accounted(t)'
        /\ pc'[w] # "publish"
    BY <1>0, <1>a, <1>b DEF AccountInv
  <2> QED  BY <1>0, <2>1, <2>2, <2>3, <2>4 DEF AccountInv
<1>1. ASSUME NEW w \in Worker, Work(w) PROVE AccountInv'
  <2>1. CASE Take(w)  BY AccountElsewhere, <2>1 DEF Take
  <2>2. CASE Download(w)  BY AccountElsewhere, <2>2 DEF Download
  <2>3. CASE Probe(w)  BY AccountElsewhere, <2>3 DEF Probe
  <2>4. CASE InsertRecords(w)  BY AccountElsewhere, <2>4 DEF InsertRecords
  <2>5. CASE InsertSpans(w)  BY AccountElsewhere, <2>5 DEF InsertSpans
  <2>6. CASE ReadDetectors(w)
    <3>1. /\ UNCHANGED <<acked, hand, lock, decided, dropped>>
          /\ \A v \in Worker \ {w} : pc'[v] = pc[v] /\ todo'[v] = todo[v] /\ cur'[v] = cur[v]
          /\ pc'[w] = "claim" /\ todo'[w] = Roots[hand[w][1]]
      BY <2>6 DEF ReadDetectors, ToClaim
    <3> QED  BY <1>a, <1>b, <3>1 DEF AccountInv
  <2>7. CASE DecideNo(w)
    <3>1. \A t \in Trace : lock'[t] # Free => lock[t] # Free \/ Accounted(t)'
      BY <2>7 DEF DecideNo, Accounted
    <3> QED  BY <1>0, <2>7, <3>1 DEF DecideNo
  <2>8. CASE DecideYes(w)  BY <1>0, <2>8 DEF DecideYes
  <2>9. CASE Add(w)  BY <1>0, <2>9 DEF Add
  <2>10. CASE Mark(w)
    <3>1. \A t \in Trace : lock'[t] # Free => lock[t] # Free \/ Accounted(t)'
      BY <2>10 DEF Mark, Accounted, AccountInv
    <3> QED  BY <1>0, <2>10, <3>1 DEF Mark
  <2>11. CASE Release(w)
    <3>1. \A t \in Trace : lock'[t] # Free => lock[t] # Free
      BY <2>11 DEF Release
    <3> QED  BY <1>0, <2>11, <3>1 DEF Release
  <2>12. CASE LoopDone(w)
    <3>1. /\ UNCHANGED <<acked, hand, todo, cur, lock, decided, dropped>>
          /\ \A v \in Worker \ {w} : pc'[v] = pc[v]
          /\ pc'[w] = "publish"
          /\ \A t \in Roots[hand[w][1]] : Accounted(t)
      BY <2>12 DEF LoopDone, AccountInv
    <3>2. \A t \in Roots[hand[w][1]] : Accounted(t)'
      BY <1>a, <1>b, <2>12, <3>1 DEF LoopDone
    <3> QED  BY <1>a, <1>b, <3>1, <3>2 DEF AccountInv
  <2>13. CASE Publish(w)
    <3>1. /\ acked' = acked \cup {hand[w][1]} /\ UNCHANGED <<lock, decided, dropped>>
          /\ \A v \in Worker \ {w} : /\ pc'[v] = pc[v] /\ hand'[v] = hand[v]
                                     /\ todo'[v] = todo[v] /\ cur'[v] = cur[v]
          /\ pc'[w] = "idle"
          /\ \A t \in Roots[hand[w][1]] : Accounted(t)
      BY <2>13 DEF Publish, Reset, AccountInv
    <3>2. \A b \in acked' : \A t \in Roots[b] : Accounted(t)'
      BY <1>a, <1>b, <2>13, <3>1 DEF AccountInv, Publish
    <3> QED  BY <1>a, <1>b, <3>1, <3>2 DEF AccountInv
  <2>14. ASSUME NEW t \in Trace, Claim(w, t) PROVE AccountInv'
    <3>1. CASE Unclaimed(t)
      <4>1. /\ lock' = [lock EXCEPT ![t] = Claimed("deciding", w)]
            /\ cur'[w] = t /\ pc'[w] = "decide"
        BY <2>14, <3>1 DEF Claim
      <4>2. Accounted(t)'
        BY <4>1 DEF Accounted
      <4> QED  BY <1>0, <2>14, <4>1, <4>2 DEF Claim
    <3>2. CASE ~Unclaimed(t)
      <4>1. Accounted(t)'
        BY <1>a, <3>2 DEF Unclaimed, AccountInv
      <4> QED  BY <1>0, <2>14, <3>2, <4>1 DEF Claim
    <3> QED  BY <3>1, <3>2
  <2> QED BY <1>1, <2>1, <2>2, <2>3, <2>4, <2>5, <2>6, <2>7, <2>8, <2>9,
             <2>10, <2>11, <2>12, <2>13, <2>14 DEF Work
<1>2. ASSUME NEW w \in Worker, Trouble(w) PROVE AccountInv'
  <2>1. CASE TaskError(w)  BY AccountElsewhere, <2>1 DEF TaskError, Raise, Reset
  <2>2. CASE Die(w)  BY AccountElsewhere, <2>2 DEF Die, Reset
  <2>3. CASE Redeliver(w)
    <3>1. UNCHANGED <<acked, pc, hand, todo, cur, lock, decided, dropped>>
      BY <2>3 DEF Redeliver
    <3> QED  BY <1>a, <1>b, <3>1 DEF AccountInv
  <2>4. CASE InsertSpansLost(w)
    BY AccountElsewhere, <2>4 DEF InsertSpansLost, Raise, Reset
  <2>5. CASE ReadDetectorsError(w)
    <3>1. /\ UNCHANGED <<acked, hand, todo, cur, lock, decided>>
          /\ dropped' = dropped \cup Roots[hand[w][1]]
          /\ \A v \in Worker \ {w} : pc'[v] = pc[v]
          /\ pc'[w] = "publish"
      BY <2>5 DEF ReadDetectorsError
    <3>2. \A t \in Roots[hand[w][1]] : Accounted(t)'
      BY <3>1 DEF Accounted
    <3> QED  BY <1>a, <1>b, <3>1, <3>2 DEF AccountInv
  <2>6. CASE ClaimingError(w)
    <3>1. /\ cur[w] \in Trace /\ Accounted(cur[w])'
          /\ \A t \in Trace : lock'[t] # Free => lock[t] # Free \/ t = cur[w]
      BY <2>6 DEF ClaimingError, Accounted
    <3>2. /\ UNCHANGED <<acked, hand, todo, cur>> /\ decided \subseteq decided'
          /\ dropped' = dropped \cup {cur[w]} /\ pc[w] \in Claiming
          /\ pc'[w] = "release" /\ \A v \in Worker \ {w} : pc'[v] = pc[v]
      BY <2>6 DEF ClaimingError
    <3> QED  BY <1>0, <3>1, <3>2
  <2>7. CASE ReleaseError(w)  BY <1>0, <2>7 DEF ReleaseError
  <2>8. ASSUME NEW t \in Trace, ClaimError(w, t) PROVE AccountInv'
    <3>1. Accounted(t)'
      BY <2>8 DEF ClaimError, Accounted
    <3>2. \A u \in Trace : lock'[u] # Free => lock[u] # Free \/ Accounted(u)'
      BY <2>8, <3>1 DEF ClaimError
    <3> QED  BY <1>0, <2>8, <3>1, <3>2 DEF ClaimError
  <2> QED BY <1>2, <2>1, <2>2, <2>3, <2>4, <2>5, <2>6, <2>7, <2>8 DEF Trouble
<1>3. ASSUME NEW t \in Trace, Expire(t) \/ JobMoves(t) PROVE AccountInv'
  <2>1. /\ UNCHANGED <<acked, pc, hand, todo, cur, decided, dropped>>
        /\ \A u \in Trace : lock'[u] # Free => lock[u] # Free
    BY <1>3 DEF Expire, JobMoves
  <2> QED  BY <1>a, <1>b, <2>1 DEF AccountInv
<1>4. CASE UNCHANGED vars
  BY <1>a, <1>b, <1>4 DEF vars, AccountInv
<1> QED BY <1>1, <1>2, <1>3, <1>4 DEF Next

(* A trace whose root was acknowledged is decided, dropped or orphaned, or *)
(* somebody is at it, for any batches and workers and however they fail.   *)
THEOREM RootsNeverForgotten == Spec => []RootsAccountedFor
<1>1. AccountInv => RootsAccountedFor
  BY DEF AccountInv, RootsAccountedFor, Accounted
<1> QED  BY <1>1, TypeInit, TypeNext, AccountInit, AccountNext, PTL DEF Spec

-----------------------------------------------------------------------------
(* With one worker the probe is not outrun: the records it keeps are of    *)
(* roots, or of traces that still have none when they are inserted.        *)
ProbeInv ==
    \A w \in Worker : pc[w] = "records" =>
        \A t \in keep[w] : t \in Roots[hand[w][1]] \/ record[t] = "none"

LEMMA ProbeInit == Init => ProbeInv
  BY DEF Init, ProbeInv

LEMMA ProbeNext ==
    ASSUME \A v, w \in Worker : v = w, TypeOK, ProbeInv, [Next]_vars
    PROVE  ProbeInv' /\ \A t \in Trace : record[t] = "root" => record'[t] = "root"
<1> USE NullAssumption, TraceAssumption DEF TypeOK, ProbeInv
<1>1. ASSUME NEW w \in Worker, Work(w)
      PROVE  ProbeInv' /\ \A t \in Trace : record[t] = "root" => record'[t] = "root"
  <2>1. CASE Download(w)
    BY <2>1 DEF Download
  <2>2. CASE Probe(w)
    BY <2>2 DEF Probe, Keeps
  <2>3. CASE InsertRecords(w)
    BY <2>3 DEF InsertRecords
  <2> QED
    BY <1>1, <2>1, <2>2, <2>3 DEF Work, Take, InsertSpans, ReadDetectors, DecideNo,
       DecideYes, Add, Mark, Release, LoopDone, Publish, Reset, Claim
<1>2. ASSUME NEW w \in Worker, Trouble(w)
      PROVE  ProbeInv' /\ \A t \in Trace : record[t] = "root" => record'[t] = "root"
  BY <1>2 DEF Trouble, TaskError, Die, Redeliver, InsertSpansLost, ReadDetectorsError,
     ClaimingError, ReleaseError, ClaimError, Raise, Reset
<1> QED  BY <1>1, <1>2 DEF Next, Expire, JobMoves, vars

(* A single worker never overwrites a record named after the root span.    *)
(* The probe and the insert are two calls: with two workers it can happen. *)
THEOREM OneWorkerKeepsRootName ==
    (\A v, w \in Worker : v = w) => (Spec => RootNameKept)
<1> SUFFICES ASSUME \A v, w \in Worker : v = w PROVE Spec => RootNameKept
    OBVIOUS
<1>1. TypeOK /\ ProbeInv /\ [Next]_vars => ProbeInv'
  BY ProbeNext
<1>2. TypeOK /\ ProbeInv /\ [Next]_vars =>
        [\A t \in Trace : record[t] = "root" => record'[t] = "root"]_vars
  BY ProbeNext
<1> QED  BY <1>1, <1>2, TypeInit, TypeNext, ProbeInit, PTL DEF Spec, RootNameKept
=============================================================================
