--------------------------- MODULE LiveViewProofs ---------------------------
(***************************************************************************)
(* Theorems about LiveView, for any batches, deadlines and bounds.         *)
(***************************************************************************)
EXTENDS LiveView, TLAPS

USE DEF ingest, stream, client, query, ghosts

-----------------------------------------------------------------------------
(* What is put into and taken out of the subscription. *)

LEMMA MessagesOfType ==
    ASSUME NEW b \in Batch
    PROVE  /\ MessagesOf(b) \in Seq(Messages)
           /\ Len(MessagesOf(b)) \in 1 .. 2
           /\ \A i \in 1 .. Len(MessagesOf(b)) :
                 MessagesOf(b)[i] = Complete => b = RootBatch
<1>1. Spans(b) \in Messages /\ Complete \in Messages /\ Spans(b) # Complete
  BY DEF Messages, Spans, Complete
<1>2. CASE b = RootBatch
  <2>1. MessagesOf(b) = <<Spans(b), Complete>>  BY <1>2 DEF MessagesOf
  <2> QED  BY <1>1, <1>2, <2>1
<1>3. CASE b # RootBatch
  <2>1. MessagesOf(b) = <<Spans(b)>>  BY <1>3 DEF MessagesOf
  <2> QED  BY <1>1, <1>3, <2>1
<1> QED  BY <1>2, <1>3

(* What is left of them when Redis fails. *)
LEMMA PrefixType ==
    ASSUME NEW b \in Batch, NEW n \in 0 .. Len(MessagesOf(b)) - 1
    PROVE  /\ SubSeq(MessagesOf(b), 1, n) \in Seq(Messages)
           /\ \A i \in 1 .. Len(SubSeq(MessagesOf(b), 1, n)) :
                 SubSeq(MessagesOf(b), 1, n)[i] = Complete => b = RootBatch
<1>1. MessagesOf(b) \in Seq(Messages)  BY MessagesOfType
<1>2. Len(SubSeq(MessagesOf(b), 1, n)) = n  BY <1>1, MessagesOfType
<1>3. \A i \in 1 .. n : SubSeq(MessagesOf(b), 1, n)[i] = MessagesOf(b)[i]
  BY <1>1, MessagesOfType
<1> QED  BY <1>1, <1>2, <1>3, MessagesOfType

(* A trace_complete in the buffer announces a root that is stored. *)
Announced(buf, batches) ==
    \A i \in 1 .. Len(buf) : buf[i] = Complete => RootBatch \in batches

LEMMA PublishedType ==
    ASSUME TypeOK, NEW b \in stored, Announced(buffer, stored),
           NEW messages \in Seq(Messages),
           \A i \in 1 .. Len(messages) : messages[i] = Complete => b = RootBatch
    PROVE  /\ Published(messages) \in Seq(Messages)
           /\ Announced(Published(messages), stored)
           /\ server = "off" => Published(messages) = <<>>
<1>1. buffer \in Seq(Messages)  BY DEF TypeOK
<1>2. CASE server = "off"  BY <1>1, <1>2 DEF Published, TypeOK
<1>3. CASE server # "off"
  <2>1. Published(messages) = buffer \o messages  BY <1>3 DEF Published
  <2>2. Announced(buffer \o messages, stored)
    BY <1>1 DEF Announced
  <2> QED  BY <1>1, <1>3, <2>1, <2>2
<1> QED  BY <1>2, <1>3

LEMMA TailType ==
    ASSUME TypeOK, Announced(buffer, stored), buffer # <<>>
    PROVE  /\ Tail(buffer) \in Seq(Messages)
           /\ Announced(Tail(buffer), stored)
           /\ Head(buffer) = Complete => RootBatch \in stored
<1>1. buffer \in Seq(Messages)  BY DEF TypeOK
<1> QED  BY <1>1 DEF Announced

-----------------------------------------------------------------------------
(* The inductive invariant: only a stored root starts the quiet window, the *)
(* window is not shorter than what the stream has been quiet for, and what  *)
(* was stored when the stream closed is shown, being fetched, or to be      *)
(* fetched.                                                                 *)
RootKnown ==
    /\ Announced(buffer, stored)
    /\ quiet # NoDeadline => RootBatch \in stored

WindowKept == server = "loop" /\ quiet # NoDeadline => heard + quiet >= Quiet

FinalKept ==
    /\ final \subseteq stored
    /\ source = "done" =>
          /\ RootBatch \in final
          /\ ~raced /\ loading => final \subseteq fetched
          /\ ~raced /\ ~loading /\ ~wanted => final \subseteq view

IInv == TypeOK /\ RootKnown /\ WindowKept /\ FinalKept

LEMMA InvInit == Init => IInv
<1> SUFFICES ASSUME Init PROVE IInv  OBVIOUS
<1>1. TypeOK
  <2>1. <<>> \in Seq(Messages) /\ Quiet \in 0 .. Quiet
    BY LiveAssumption
  <2>2. 0 \in 0 .. Ceiling /\ 0 \in 0 .. MaxDrops
    BY LiveAssumption
  <2> QED  BY <2>1, <2>2 DEF Init, TypeOK
<1>2. RootKnown  BY DEF Init, RootKnown, Announced, NoDeadline
<1>3. WindowKept /\ FinalKept  BY DEF Init, WindowKept, FinalKept
<1> QED  BY <1>1, <1>2, <1>3 DEF IInv

LEMMA PublishInv ==
    ASSUME IInv, NEW b \in unsent, NEW messages \in Seq(Messages),
           \A i \in 1 .. Len(messages) : messages[i] = Complete => b = RootBatch,
           unsent' = unsent \ {b}, buffer' = Published(messages),
           UNCHANGED <<stored, age, server, quiet, ttl, client, ghosts, drops>>
    PROVE  IInv'
<1>1. b \in stored  BY DEF IInv, TypeOK
<1>2. /\ buffer' \in Seq(Messages) /\ Announced(buffer', stored)
      /\ server = "off" => buffer' = <<>>
  BY <1>1, PublishedType DEF IInv, RootKnown
<1>3. TypeOK'  BY <1>2 DEF IInv, TypeOK
<1>4. RootKnown'  BY <1>2 DEF IInv, RootKnown
<1>5. WindowKept' /\ FinalKept'  BY DEF IInv, WindowKept, FinalKept
<1> QED  BY <1>3, <1>4, <1>5 DEF IInv

LEMMA InvNext == IInv /\ [Next]_vars => IInv'
<1> SUFFICES ASSUME IInv, [Next]_vars PROVE IInv'  OBVIOUS
<1> USE LiveAssumption DEF IInv
<1>1. ASSUME NEW b \in Batch, Insert(b) PROVE IInv'
  <2>1. TypeOK'  BY <1>1 DEF Insert, TypeOK
  <2>2. RootKnown'  BY <1>1 DEF Insert, RootKnown, Announced
  <2>3. WindowKept' /\ FinalKept'  BY <1>1 DEF Insert, WindowKept, FinalKept
  <2> QED  BY <2>1, <2>2, <2>3
<1>2. ASSUME NEW b \in Batch, Publish(b) PROVE IInv'
  <2>1. b \in unsent  BY <1>2 DEF Publish
  <2> QED  BY <1>2, <2>1, MessagesOfType, PublishInv DEF Publish
<1>3. ASSUME NEW b \in Batch, PublishFails(b) PROVE IInv'
  <2>1. b \in unsent  BY <1>3 DEF PublishFails
  <2>2. PICK n \in 0 .. Len(MessagesOf(b)) - 1 :
           buffer' = Published(SubSeq(MessagesOf(b), 1, n))
    BY <1>3 DEF PublishFails
  <2> QED  BY <1>3, <2>1, <2>2, PrefixType, PublishInv DEF PublishFails
<1>4. CASE Connect
  <2>1. TypeOK'  BY <1>4 DEF Connect, TypeOK
  <2>2. RootKnown'  BY <1>4 DEF Connect, RootKnown, Announced
  <2>3. WindowKept' /\ FinalKept'  BY <1>4 DEF Connect, WindowKept, FinalKept
  <2> QED  BY <2>1, <2>2, <2>3
<1>4a. CASE Refused
  <2>1. TypeOK'  BY <1>4a DEF Refused, TypeOK
  <2>2. RootKnown'  BY <1>4a DEF Refused, RootKnown, Announced
  <2>3. WindowKept' /\ FinalKept'
    BY <1>4a DEF Refused, WindowKept, FinalKept
  <2> QED  BY <2>1, <2>2, <2>3
<1>5. CASE Check
  <2>1. InitialDeadline \in 0 .. Quiet \cup {NoDeadline}
    BY DEF InitialDeadline, TypeOK
  <2>2. InitialDeadline # NoDeadline =>
           RootBatch \in stored /\ age + InitialDeadline >= Quiet
    BY DEF InitialDeadline, TypeOK
  <2>3. TypeOK'  BY <1>5, <2>1 DEF Check, TypeOK
  <2>4. RootKnown'  BY <1>5, <2>2 DEF Check, RootKnown, Announced
  <2>5. WindowKept' /\ FinalKept'
    BY <1>5, <2>2 DEF Check, WindowKept, FinalKept
  <2> QED  BY <2>3, <2>4, <2>5
<1>6. CASE ForwardSpans
  <2>1. PICK b \in Batch : view' = Merged(b)  BY <1>6 DEF ForwardSpans
  <2>2. view \subseteq view' /\ view' \subseteq Batch
    BY <2>1 DEF Merged, TypeOK
  <2>3. /\ Extended \in 0 .. Quiet \cup {NoDeadline}
        /\ Extended # NoDeadline => Extended = Quiet /\ RootBatch \in stored
    BY DEF Extended, NoDeadline, RootKnown
  <2>4. Tail(buffer) \in Seq(Messages) /\ Announced(Tail(buffer), stored)
    BY <1>6, TailType DEF ForwardSpans, RootKnown
  <2>5. TypeOK'  BY <1>6, <2>2, <2>3, <2>4 DEF ForwardSpans, TypeOK
  <2>6. RootKnown'  BY <1>6, <2>3, <2>4 DEF ForwardSpans, RootKnown
  <2>7. WindowKept'  BY <1>6, <2>3 DEF ForwardSpans, WindowKept
  <2>8. FinalKept'  BY <1>6, <2>2 DEF ForwardSpans, FinalKept
  <2> QED  BY <2>5, <2>6, <2>7, <2>8
<1>7. CASE HearComplete
  <2>1. /\ Tail(buffer) \in Seq(Messages) /\ Announced(Tail(buffer), stored)
        /\ RootBatch \in stored
    BY <1>7, TailType DEF HearComplete, RootKnown
  <2>2. TypeOK'  BY <1>7, <2>1 DEF HearComplete, TypeOK
  <2>3. RootKnown'  BY <1>7, <2>1 DEF HearComplete, RootKnown
  <2>4. WindowKept'  BY <1>7 DEF HearComplete, WindowKept, TypeOK
  <2>5. FinalKept'  BY <1>7 DEF HearComplete, FinalKept
  <2> QED  BY <2>2, <2>3, <2>4, <2>5
<1>8. CASE SendComplete
  <2>1. RootBatch \in stored
    BY <1>8 DEF SendComplete, RootKnown, NoDeadline
  <2>2. loading' = (loading /\ ~loaded) /\ raced' = (loading /\ ~loaded)
    BY <1>8 DEF SendComplete, FirstFetchOnly
  <2>3. loading' => raced'  BY <2>2
  <2>4. ~loading' => wanted'  BY <1>8 DEF SendComplete
  <2>5. loading' \in BOOLEAN /\ raced' \in BOOLEAN /\ wanted' \in BOOLEAN
    BY <1>8, <2>2 DEF SendComplete
  <2>6. TypeOK'  BY <1>8, <2>5 DEF SendComplete, TurnedOff, TypeOK
  <2>7. RootKnown'  BY <1>8 DEF SendComplete, TurnedOff, RootKnown, Announced
  <2>8. WindowKept'  BY <1>8 DEF SendComplete, TurnedOff, WindowKept
  <2>9. FinalKept'  BY <1>8, <2>1, <2>3, <2>4 DEF SendComplete, FinalKept
  <2> QED  BY <2>6, <2>7, <2>8, <2>9
<1>9. CASE SendTimeout
  <2>1. TypeOK'  BY <1>9 DEF SendTimeout, TurnedOff, TypeOK
  <2>2. RootKnown'  BY <1>9 DEF SendTimeout, TurnedOff, RootKnown, Announced
  <2>3. WindowKept' /\ FinalKept'
    BY <1>9 DEF SendTimeout, TurnedOff, WindowKept, FinalKept
  <2> QED  BY <2>1, <2>2, <2>3
<1>10. CASE Drop
  <2>1. TypeOK'  BY <1>10 DEF Drop, TurnedOff, TypeOK
  <2>2. RootKnown'  BY <1>10 DEF Drop, TurnedOff, RootKnown, Announced
  <2>3. WindowKept' /\ FinalKept'
    BY <1>10 DEF Drop, TurnedOff, WindowKept, FinalKept
  <2> QED  BY <2>1, <2>2, <2>3
<1>11. CASE Refocus
  <2>1. TypeOK'  BY <1>11 DEF Refocus, TypeOK
  <2>2. RootKnown' /\ WindowKept' /\ FinalKept'
    BY <1>11 DEF Refocus, RootKnown, Announced, WindowKept, FinalKept
  <2> QED  BY <2>1, <2>2
<1>12. CASE StartFetch
  <2>1. TypeOK'  BY <1>12 DEF StartFetch, TypeOK
  <2>2. RootKnown' /\ WindowKept' /\ FinalKept'
    BY <1>12 DEF StartFetch, RootKnown, Announced, WindowKept, FinalKept
  <2> QED  BY <2>1, <2>2
<1>13. CASE EndFetch
  <2>1. TypeOK'  BY <1>13 DEF EndFetch, TypeOK
  <2>2. RootKnown' /\ WindowKept' /\ FinalKept'
    BY <1>13 DEF EndFetch, RootKnown, Announced, WindowKept, FinalKept
  <2> QED  BY <2>1, <2>2
<1>14. CASE Tick
  <2>1. TypeOK'  BY <1>14 DEF Tick, Less, More, NoDeadline, TypeOK
  <2>2. RootKnown'
    BY <1>14 DEF Tick, Less, NoDeadline, TypeOK, RootKnown, Announced
  <2>3. WindowKept'
    BY <1>14 DEF Tick, Less, More, NoDeadline, TypeOK, WindowKept
  <2>4. FinalKept'  BY <1>14 DEF Tick, FinalKept
  <2> QED  BY <2>1, <2>2, <2>3, <2>4
<1>15. CASE UNCHANGED vars
  BY <1>15 DEF vars, TypeOK, RootKnown, Announced, WindowKept, FinalKept
<1> QED
  BY <1>1, <1>2, <1>3, <1>4, <1>4a, <1>5, <1>6, <1>7, <1>8, <1>9, <1>10, <1>11, <1>12,
     <1>13, <1>14, <1>15 DEF Next, Work, Serve, Browse

LEMMA InvHolds == Spec => []IInv
<1> QED  BY InvInit, InvNext, PTL DEF Spec

-----------------------------------------------------------------------------
(* The handler, the EventSource and the query keep their states, and a      *)
(* handler that is off holds no messages.                                   *)
THEOREM TypeCorrect == Spec => []TypeOK
<1>1. IInv => TypeOK  BY DEF IInv
<1> QED  BY <1>1, InvHolds, PTL

(* After a stream closed as complete and the browser's fetch ended, the     *)
(* view has all that was stored when it closed, for any batches, lost       *)
(* publishes, connections and refetches (use-trace-stream.ts, live.py).     *)
THEOREM ClosedViewComplete == Spec => []FinalView
<1>1. IInv => FinalView
  <2> SUFFICES ASSUME IInv, source = "done", ~wanted, ~loading
               PROVE  RootBatch \in final /\ (raced \/ final \subseteq view)
    BY DEF FinalView
  <2> QED  BY DEF IInv, FinalKept
<1> QED  BY <1>1, InvHolds, PTL

(* Below the ceiling a stream is closed only after a quiet window, whatever *)
(* the window and the ceiling are (completion_deadline in live.py).         *)
THEOREM ClosedAfterQuiet == Spec => QuietBeforeComplete
<1>1. ASSUME IInv, [Next]_vars, source' = "done", source # "done", ttl > 0
      PROVE  heard = Quiet
  <2>1. SendComplete
    BY <1>1 DEF Next, vars, Work, Serve, Browse, Insert, Publish, PublishFails,
       Connect, Refused, Check, ForwardSpans, HearComplete, SendTimeout, Drop, Refocus,
       StartFetch, EndFetch, Tick
  <2>2. server = "loop" /\ quiet = 0  BY <1>1, <2>1 DEF SendComplete
  <2> QED  BY <1>1, <2>2, LiveAssumption DEF IInv, WindowKept, TypeOK, NoDeadline
<1>2. IInv /\ [Next]_vars =>
        [source' = "done" /\ source # "done" /\ ttl > 0 => heard = Quiet]_vars
  BY <1>1
<1> QED  BY <1>2, InvHolds, PTL DEF Spec, QuietBeforeComplete
=============================================================================
