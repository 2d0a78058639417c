--------------------------- MODULE AssistantProofs ---------------------------
(***************************************************************************)
(* The assistant: its panel, for any projects, messages, aborts and loads, *)
(* and the agent service behind it, for any sessions, turns, sandboxes and *)
(* updates of a provider's key.                                            *)
(***************************************************************************)
EXTENDS AiChat, AgentService, TLAPS

-----------------------------------------------------------------------------
(* The panel.                                                              *)

Steps == {"new", "create", "fetch", "read", "cut", "done"}

Runs == [pc : Steps, project : Project \cup {NoChat}, chat : Chat \cup {NoChat},
         gen : Nat, bubble : BOOLEAN]

NotBegun == {n \in Send : run[n].pc \in {"new", "create"}}

TypeOK ==
    /\ generation \in Nat /\ latest \in Nat
    /\ streaming \in BOOLEAN
    /\ dead \subseteq Send
    /\ run \in [Send -> Runs]

(* A message has a generation of its own from when its stream is opened on. *)
Generations ==
    /\ latest <= generation
    /\ \A n \in Send : run[n].gen <= latest
    /\ \A n \in Running : run[n].gen # 0
    /\ \A n, k \in Send : run[n].gen = latest /\ run[k].gen = latest /\ latest # 0 => n = k

(* What was aborted or superseded is of a generation of the past.          *)
DeadArePast ==
    \A n \in dead : run[n].gen < generation /\ n \notin NotBegun

(* Closing leaves no session under way, and no stream of this generation.  *)
NothingAfterClose ==
    closed => \A n \in Send : run[n].pc # "create" /\ run[n].gen < generation

Streams == TypeOK /\ Generations /\ FlagFollowsLatest /\ DeadArePast
              /\ NothingAfterClose /\ ClosedStaysClosed

(* What the panel shows is a project's chat. *)
Panel ==
    /\ project \in Project \cup {NoChat}
    /\ pinned \in Project \cup {NoChat}
    /\ chatId \in Chat \cup {NoChat}

Inv == Streams /\ Panel

-----------------------------------------------------------------------------
LEMMA SendBounds == MaxSends \in Nat /\ Send \subseteq Nat /\ NoChat \notin Chat
  BY AiChatAssumption DEF Send

LEMMA InvInit == AiChatInit => Inv
<1> SUFFICES ASSUME AiChatInit PROVE Inv  OBVIOUS
<1>1. TypeOK
  <2>1. NoRun \in Runs  BY DEF NoRun, Runs, Steps
  <2> QED  BY <2>1 DEF AiChatInit, TypeOK
<1>2. \A n \in Send : run[n].gen = 0 /\ run[n].pc = "new"
  BY DEF AiChatInit, NoRun
<1>3. generation = 0 /\ latest = 0 /\ streaming = FALSE /\ dead = {} /\ closed = FALSE
  BY DEF AiChatInit
<1>4. Running = {}  BY <1>2 DEF Running, Reading
<1>5. Generations  BY <1>2, <1>3, <1>4 DEF Generations
<1>6. FlagFollowsLatest  BY <1>3, <1>4 DEF FlagFollowsLatest
<1>7. DeadArePast /\ NothingAfterClose /\ ClosedStaysClosed
  BY <1>3 DEF DeadArePast, NothingAfterClose, ClosedStaysClosed
<1>8. Panel  BY DEF AiChatInit, Panel
<1> QED  BY <1>1, <1>5, <1>6, <1>7, <1>8 DEF Inv, Streams

(* A step after which the streams are what they were, at most further on,  *)
(* keeps what is about them.                                               *)
LEMMA StreamsKept ==
    ASSUME Inv, run' \in [Send -> Runs], UNCHANGED stream,
           \A n \in Send : /\ run'[n].gen = run[n].gen
                           /\ n \in Running' <=> n \in Running
                           /\ n \in NotBegun' => n \in NotBegun,
           closed' => closed /\ \A n \in Send : run'[n].pc # "create",
           ClosedStaysClosed'
    PROVE  Streams'
<1>1. /\ Running' = Running
      /\ UNCHANGED <<streaming, latest, generation, dead>>
  BY DEF Running, Reading, stream
<1>2. TypeOK'  BY <1>1 DEF Inv, Streams, TypeOK
<1>3. Generations'  BY <1>1 DEF Inv, Streams, Generations, Running, Reading
<1>4. FlagFollowsLatest'  BY <1>1 DEF Inv, Streams, FlagFollowsLatest, Running, Reading
<1>5. DeadArePast'  BY <1>1 DEF Inv, Streams, DeadArePast, TypeOK
<1>6. NothingAfterClose'  BY <1>1 DEF Inv, Streams, NothingAfterClose
<1> QED  BY <1>2, <1>3, <1>4, <1>5, <1>6 DEF Inv, Streams

(* An abort, with the streams it cuts: a new generation, and all streams   *)
(* of the past are dead.                                                   *)
LEMMA Aborted ==
    ASSUME Inv, run' \in [Send -> Runs], AbortStream,
           \A n \in Send : /\ run'[n].gen = run[n].gen
                           /\ n \in Running' <=> n \in Running
                           /\ n \in NotBegun' => n \in NotBegun,
           closed' => \A n \in Send : run'[n].pc # "create",
           ClosedStaysClosed'
    PROVE  Streams'
<1>1. /\ generation' = generation + 1 /\ latest' = latest /\ streaming' = streaming
      /\ dead' = dead \cup {k \in Send : run[k].pc \notin {"new", "create"}}
      /\ generation \in Nat /\ latest \in Nat /\ \A n \in Send : run[n].gen \in Nat
  BY DEF AbortStream, Inv, Streams, TypeOK, Runs
<1>2. Running' = Running  BY DEF Running, Reading
<1>3. TypeOK'  BY <1>1 DEF Inv, Streams, TypeOK
<1>4. Generations'  BY <1>1, <1>2 DEF Inv, Streams, Generations, Running, Reading
<1>5. FlagFollowsLatest'
  BY <1>1, <1>2 DEF Inv, Streams, FlagFollowsLatest, Running, Reading
<1>6. \A n \in Send : run'[n].gen < generation'
  BY <1>1 DEF Inv, Streams, Generations
<1>7. \A n \in dead' : n \in Send /\ n \notin NotBegun
  BY <1>1 DEF Inv, Streams, TypeOK, DeadArePast, NotBegun
<1>8. DeadArePast'  BY <1>6, <1>7 DEF DeadArePast
<1>9. NothingAfterClose'  BY <1>6 DEF NothingAfterClose
<1> QED  BY <1>3, <1>4, <1>5, <1>8, <1>9 DEF Inv, Streams

LEMMA CutKeeps ==
    ASSUME TypeOK, NEW n \in Send
    PROVE  /\ CutBefore(n) \in Runs /\ CutBefore(n).gen = run[n].gen
           /\ CutBefore(n).pc \in {run[n].pc, "cut"}
           /\ CutBefore(n).pc = run[n].pc \/ n \in Reading
           /\ CutBefore(n).pc = "cut" => n \in Running
  BY DEF TypeOK, CutBefore, Runs, Steps, Running, Reading

LEMMA MessageFields ==
    ASSUME NEW f, NEW k, NEW o
    PROVE  Message(f, k, o).from = f /\ Message(f, k, o).kind = k
  BY DEF Message

-----------------------------------------------------------------------------
LEMMA BeginStreamInv ==
    ASSUME Inv, NEW n \in Send, n \in NotBegun, NEW c \in Chat, NEW p \in Project \cup {NoChat},
           BeginStream(n, c, p), ~closed'
    PROVE  Streams'
<1>1. /\ generation' = generation + 1 /\ latest' = generation + 1 /\ streaming' = TRUE
      /\ dead' = dead \cup {k \in Send \ {n} : run[k].pc \notin {"new", "create"}}
      /\ generation \in Nat /\ latest \in Nat /\ \A k \in Send : run[k].gen \in Nat
  BY DEF BeginStream, Inv, Streams, TypeOK, Runs
<1>2. DEFINE fresh == [pc |-> "fetch", project |-> p, chat |-> c, gen |-> generation + 1,
                       bubble |-> FALSE]
<1>3. fresh \in Runs  BY <1>1 DEF Runs, Steps
<1>4. run' = [k \in Send |-> IF k = n THEN fresh ELSE CutBefore(k)]  BY DEF BeginStream
<1>5. run' \in [Send -> Runs]  BY <1>3, <1>4, CutKeeps DEF Inv, Streams
<1>6. run'[n].gen = generation + 1 /\ run'[n].pc = "fetch"  BY <1>4
<1>7. ASSUME NEW k \in Send, k # n
      PROVE  run'[k].gen = run[k].gen /\ run'[k].pc \in {run[k].pc, "cut"}
             /\ (run'[k].pc = run[k].pc \/ k \in Reading)
  BY <1>4, <1>7, CutKeeps DEF Inv, Streams
<1>8. TypeOK'  BY <1>1, <1>5 DEF Inv, Streams, TypeOK
<1>9. \A k \in Running' : k \in Send /\ (k = n \/ k \in Running)
  BY <1>7 DEF Running, Reading
<1>10. Generations'
  <2>1. \A k \in Send : k # n => run'[k].gen <= generation /\ run'[k].gen \in Nat
    BY <1>1, <1>7 DEF Inv, Streams, Generations
  <2>2. ASSUME NEW k \in Running' PROVE run'[k].gen # 0
    <3>1. CASE k = n  BY <1>1, <1>6, <3>1
    <3>2. CASE k # n
      <4>1. k \in Running /\ k \in Send  BY <1>9, <3>2
      <4>2. run[k].gen # 0  BY <4>1 DEF Inv, Streams, Generations
      <4> QED  BY <1>7, <3>2, <4>1, <4>2
    <3> QED  BY <3>1, <3>2
  <2>3. \A k \in Send : run'[k].gen <= latest'  BY <1>1, <1>6, <2>1
  <2>4. \A k \in Send : run'[k].gen = latest' => k = n  BY <1>1, <2>1
  <2>5. latest' <= generation'  BY <1>1
  <2>6. \A k \in Running' : run'[k].gen # 0  BY <2>2
  <2> QED  BY <2>3, <2>4, <2>5, <2>6 DEF Generations
<1>11. FlagFollowsLatest'
  <2>1. n \in Running'  BY <1>6 DEF Running, Reading
  <2> QED  BY <1>1, <1>6, <2>1 DEF FlagFollowsLatest
<1>12. DeadArePast'
  <2>1. \A k \in dead' : k \in Send /\ k # n /\ k \notin NotBegun
    BY <1>1 DEF Inv, Streams, TypeOK, DeadArePast, NotBegun
  <2>2. \A k \in dead' : run'[k].gen < generation'
    BY <1>1, <1>7, <2>1 DEF Inv, Streams, Generations
  <2>3. \A k \in dead' : k \notin NotBegun'
    BY <1>7, <2>1 DEF NotBegun
  <2> QED  BY <2>2, <2>3 DEF DeadArePast
<1>13. NothingAfterClose' /\ ClosedStaysClosed'
  BY DEF NothingAfterClose, ClosedStaysClosed
<1> QED  BY <1>8, <1>10, <1>11, <1>12, <1>13 DEF Inv, Streams

(* What a stream of the past writes is dropped. *)
LEMMA ClosedWrites ==
    ASSUME Inv, NEW n \in Send, NEW new, Write(n, new), closed
    PROVE  view' = view
<1>1. run[n].gen < generation /\ run[n].gen \in Nat /\ generation \in Nat
  BY DEF Inv, Streams, NothingAfterClose, TypeOK, Runs
<1> QED  BY <1>1 DEF Write

LEMMA EndInv ==
    ASSUME Inv, NEW n \in Send, NEW new, End(n, new)
    PROVE  Streams'
<1>1. /\ n \in Running /\ run' = [run EXCEPT ![n].pc = "done", ![n].bubble = FALSE]
      /\ streaming' = IF run[n].gen = latest THEN FALSE ELSE streaming
      /\ generation' = generation /\ latest' = latest /\ dead' = dead /\ closed' = closed
      /\ chatId' = chatId
  BY DEF End, OfLatestSend
<1>2. run[n] \in Runs /\ run \in [Send -> Runs]  BY DEF Inv, Streams, TypeOK
<1>3. /\ run' \in [Send -> Runs] /\ run'[n].pc = "done" /\ run'[n].gen = run[n].gen
      /\ \A k \in Send : k # n => run'[k] = run[k]
  BY <1>1, <1>2 DEF Runs, Steps
<1>4. Running' = Running \ {n}  BY <1>3 DEF Running, Reading
<1>5. TypeOK'  BY <1>1, <1>3 DEF Inv, Streams, TypeOK
<1>6. \A k \in Send : run'[k].gen = run[k].gen  BY <1>3
<1>7. Running \subseteq Send  BY DEF Running, Reading
<1>8. Generations'  BY <1>1, <1>4, <1>6, <1>7 DEF Inv, Streams, Generations
<1>9. FlagFollowsLatest'
  <2>1. CASE run[n].gen = latest
    <3>1. \A k \in Running' : run'[k].gen # latest'
      BY <1>1, <1>4, <1>6, <1>7, <2>1 DEF Inv, Streams, Generations
    <3> QED  BY <1>1, <2>1, <3>1 DEF FlagFollowsLatest
  <2>2. CASE run[n].gen # latest
    BY <1>1, <1>4, <1>6, <1>7, <2>2 DEF Inv, Streams, FlagFollowsLatest
  <2> QED  BY <2>1, <2>2
<1>10. DeadArePast'
  BY <1>1, <1>3, <1>6 DEF Inv, Streams, DeadArePast, NotBegun, TypeOK
<1>11. NothingAfterClose'  BY <1>1, <1>3, <1>6 DEF Inv, Streams, NothingAfterClose
<1>12. ClosedStaysClosed'
  <2>1. closed => view' = view  BY ClosedWrites DEF End
  <2> QED  BY <1>1, <2>1 DEF Inv, Streams, ClosedStaysClosed
<1> QED  BY <1>5, <1>8, <1>9, <1>10, <1>11, <1>12 DEF Inv, Streams

-----------------------------------------------------------------------------
(* A step of one message that is not its end. *)
LEMMA OneStreamInv ==
    ASSUME Inv, NEW n \in Send, NEW r \in Runs, run' = [run EXCEPT ![n] = r],
           r.gen = run[n].gen, UNCHANGED stream,
           r.pc \in {"fetch", "read", "cut"} <=> n \in Running,
           r.pc \in {"new", "create"} => n \in NotBegun,
           closed' => closed /\ r.pc # "create", ClosedStaysClosed'
    PROVE  Streams'
<1>1. run \in [Send -> Runs]  BY DEF Inv, Streams, TypeOK
<1>2. run' \in [Send -> Runs] /\ run'[n] = r /\ \A k \in Send : k # n => run'[k] = run[k]
  BY <1>1
<1>3. \A k \in Send : run'[k].gen = run[k].gen  BY <1>2
<1>4. \A k \in Send : k \in Running' <=> k \in Running
  BY <1>2 DEF Running, Reading
<1>5. \A k \in Send : k \in NotBegun' => k \in NotBegun
  BY <1>2 DEF NotBegun
<1>6. closed' => closed /\ \A k \in Send : run'[k].pc # "create"
  BY <1>2 DEF Inv, Streams, NothingAfterClose
<1> QED  BY <1>2, <1>3, <1>4, <1>5, <1>6, StreamsKept

LEMMA MessageInv ==
    ASSUME Inv, NEW n \in Send,
           \/ SendNow(n) \/ SendFirst(n) \/ Created(n) \/ NotCreated(n)
           \/ Response(n) \/ TextDelta(n) \/ ToolOrError(n) \/ StreamDone(n) \/ Failed(n)
    PROVE  Streams'
<1>0. run \in [Send -> Runs] /\ run[n] \in Runs  BY DEF Inv, Streams, TypeOK
<1>1. CASE SendNow(n)
  <2>1. ~closed' /\ n \in NotBegun  BY <1>1 DEF SendNow, NextMessage, NotBegun
  <2> QED  BY <1>1, <2>1, BeginStreamInv DEF SendNow, Inv, Panel
<1>2. CASE SendFirst(n)
  <2> DEFINE r == [run[n] EXCEPT !.pc = "create", !.project = project]
  <2>1. ~closed' /\ n \in NotBegun /\ n \notin Running /\ UNCHANGED stream
    BY <1>2 DEF SendFirst, NextMessage, NotBegun, Running, Reading
  <2>2. r \in Runs /\ r.gen = run[n].gen /\ r.pc = "create"
    BY <1>0, <1>2 DEF Runs, Steps, SendFirst, NextMessage, Inv, Panel
  <2>3. run' = [run EXCEPT ![n] = r]  BY <1>2 DEF SendFirst
  <2> QED  BY <2>1, <2>2, <2>3, OneStreamInv DEF ClosedStaysClosed
<1>3. CASE Created(n)
  <2>1. run[n].pc = "create" /\ closed' = closed  BY <1>3 DEF Created
  <2>2. n \in NotBegun /\ ~closed'
    BY <2>1 DEF NotBegun, Inv, Streams, NothingAfterClose
  <2>3. n \in Chat /\ run[n].project \in Project \cup {NoChat}
    BY <1>0 DEF Chat, Runs
  <2> QED  BY <1>3, <2>2, <2>3, BeginStreamInv DEF Created
<1>4. CASE NotCreated(n)
  <2> DEFINE r == [run[n] EXCEPT !.pc = "done"]
  <2>1. n \notin Running /\ UNCHANGED <<stream, closed, chatId, view>>
    BY <1>4 DEF NotCreated, Running, Reading
  <2>2. r \in Runs /\ r.gen = run[n].gen /\ r.pc = "done"  BY <1>0 DEF Runs, Steps
  <2>3. run' = [run EXCEPT ![n] = r]  BY <1>4 DEF NotCreated
  <2>4. ClosedStaysClosed'  BY <2>1 DEF Inv, Streams, ClosedStaysClosed
  <2> QED  BY <2>1, <2>2, <2>3, <2>4, OneStreamInv
<1>5. CASE Response(n)
  <2> DEFINE r == [run[n] EXCEPT !.pc = "read"]
  <2>1. n \in Running /\ UNCHANGED <<stream, closed, chatId, view>>
    BY <1>5 DEF Response, Step
  <2>2. r \in Runs /\ r.gen = run[n].gen /\ r.pc = "read"  BY <1>0 DEF Runs, Steps
  <2>3. run' = [run EXCEPT ![n] = r]  BY <1>5 DEF Response
  <2>4. ClosedStaysClosed'  BY <2>1 DEF Inv, Streams, ClosedStaysClosed
  <2> QED  BY <2>1, <2>2, <2>3, <2>4, OneStreamInv
<1>6. ASSUME NEW b \in BOOLEAN, NEW new, n \in Running, run[n].pc \in {"read", "cut"},
             run' = [run EXCEPT ![n].bubble = b], Write(n, new),
             UNCHANGED <<stream, closed, chatId>>
      PROVE  Streams'
  <2> DEFINE r == [run[n] EXCEPT !.bubble = b]
  <2>1. r \in Runs /\ r.gen = run[n].gen /\ r.pc = run[n].pc  BY <1>0 DEF Runs
  <2>2. run' = [run EXCEPT ![n] = r]  BY <1>6
  <2>3. ClosedStaysClosed'
    BY <1>6, ClosedWrites DEF Inv, Streams, ClosedStaysClosed
  <2> QED  BY <1>6, <2>1, <2>2, <2>3, OneStreamInv
<1>7. CASE TextDelta(n)
  BY <1>6, <1>7 DEF TextDelta, Step
<1>8. CASE ToolOrError(n)
  BY <1>6, <1>8 DEF ToolOrError, Step
<1>9. CASE StreamDone(n)  BY <1>9, EndInv DEF StreamDone
<1>10. CASE Failed(n)  BY <1>10, EndInv DEF Failed
<1> QED  BY <1>1, <1>2, <1>3, <1>4, <1>5, <1>7, <1>8, <1>9, <1>10

LEMMA StopInv ==
    ASSUME Inv, Stop
    PROVE  Streams'
<1>1. run' = [k \in Send |-> CutBefore(k)]  BY DEF Stop, Cut
<1>2. run' \in [Send -> Runs]  BY <1>1, CutKeeps DEF Inv, Streams
<1>3. \A n \in Send : /\ run'[n].gen = run[n].gen
                      /\ n \in Running' <=> n \in Running
                      /\ n \in NotBegun' => n \in NotBegun
                      /\ run'[n].pc = "create" => run[n].pc = "create"
  BY <1>1, CutKeeps DEF Inv, Streams, Running, Reading, NotBegun
<1>4. UNCHANGED <<closed, chatId, view>> /\ AbortStream  BY DEF Stop
<1>5. closed' => \A n \in Send : run'[n].pc # "create"
  BY <1>3, <1>4 DEF Inv, Streams, NothingAfterClose
<1>6. ClosedStaysClosed'  BY <1>4 DEF Inv, Streams, ClosedStaysClosed
<1> QED  BY <1>2, <1>3, <1>4, <1>5, <1>6, Aborted

LEMMA CloseInv ==
    ASSUME Inv, Close
    PROVE  Streams'
<1>1. run' = [k \in Send |-> CutAndDropped(k)]  BY DEF Close
<1>2. ASSUME NEW n \in Send
      PROVE  /\ CutAndDropped(n) \in Runs /\ CutAndDropped(n).gen = run[n].gen
             /\ CutAndDropped(n).pc # "create"
             /\ CutAndDropped(n).pc = "new" => run[n].pc = "new"
             /\ CutAndDropped(n).pc \in {"fetch", "read", "cut"} <=> n \in Running
  <2>1. CASE run[n].pc = "create"
    BY <2>1 DEF Inv, Streams, TypeOK, CutAndDropped, Runs, Steps, Running, Reading
  <2>2. CASE run[n].pc # "create"
    BY <2>2, CutKeeps DEF Inv, Streams, CutAndDropped, Running, Reading
  <2> QED  BY <2>1, <2>2
<1>3. run' \in [Send -> Runs]  BY <1>1, <1>2
<1>4. \A n \in Send : /\ run'[n].gen = run[n].gen /\ run'[n].pc # "create"
                      /\ n \in Running' <=> n \in Running
                      /\ n \in NotBegun' => n \in NotBegun
  BY <1>1, <1>2 DEF Running, Reading, NotBegun
<1>5. AbortStream /\ chatId' = NoChat /\ view' = {}  BY DEF Close
<1>6. ClosedStaysClosed'  BY <1>5 DEF ClosedStaysClosed
<1> QED  BY <1>3, <1>4, <1>5, <1>6, Aborted

LEMMA PanelOnly ==
    ASSUME Inv, UNCHANGED <<run, stream>>, closed' => closed, ClosedStaysClosed'
    PROVE  Streams'
<1>1. run' \in [Send -> Runs]  BY DEF Inv, Streams, TypeOK
<1>2. \A n \in Send : /\ run'[n].gen = run[n].gen
                      /\ n \in Running' <=> n \in Running
                      /\ n \in NotBegun' => n \in NotBegun
  BY DEF Running, Reading, NotBegun
<1>3. closed' => closed /\ \A n \in Send : run'[n].pc # "create"
  BY DEF Inv, Streams, NothingAfterClose
<1> QED  BY <1>1, <1>2, <1>3, StreamsKept

LEMMA StreamsNext == Inv /\ [AiChatNext]_chatVars => Streams'
<1> SUFFICES ASSUME Inv, [AiChatNext]_chatVars PROVE Streams'  OBVIOUS
<1>1. CASE \E n \in Send :
              \/ SendNow(n) \/ SendFirst(n) \/ Created(n) \/ NotCreated(n)
              \/ Response(n) \/ TextDelta(n) \/ ToolOrError(n) \/ StreamDone(n)
              \/ Failed(n)
  BY <1>1, MessageInv
<1>2. CASE Stop  BY <1>2, StopInv
<1>3. CASE Close  BY <1>3, CloseInv
<1>4. CASE NewSession  BY <1>4, PanelOnly DEF NewSession, ClosedStaysClosed
<1>5. ASSUME NEW c \in Chat, SelectSession(c) PROVE Streams'
  BY <1>5, PanelOnly DEF SelectSession, ClosedStaysClosed
<1>6. ASSUME NEW c \in Chat, DeleteListed(c) PROVE Streams'
  BY <1>6, PanelOnly DEF DeleteListed, ClosedStaysClosed
<1>7. ASSUME NEW l \in loads, Loaded(l) PROVE Streams'
  <2>1. \A m \in view' : m \in view \/ m.kind = "history"
    <3>1. view' = {Message(l.chat, "history", FALSE)} \/ view' = view  BY <1>7 DEF Loaded
    <3>2. Message(l.chat, "history", FALSE).kind = "history"  BY MessageFields
    <3> QED  BY <3>1, <3>2
  <2>2. UNCHANGED <<run, stream, closed, chatId>>  BY <1>7 DEF Loaded
  <2>3. ClosedStaysClosed'  BY <2>1, <2>2 DEF Inv, Streams, ClosedStaysClosed
  <2> QED  BY <2>2, <2>3, PanelOnly
<1>8. CASE Pin  BY <1>8, PanelOnly DEF Pin, ClosedStaysClosed
<1>9. CASE Toggle
  BY <1>9, PanelOnly DEF Toggle, Inv, Streams, ClosedStaysClosed
<1>10. ASSUME NEW p \in Project \cup {NoChat}, Navigate(p) PROVE Streams'
  BY <1>10, PanelOnly DEF Navigate, ClosedStaysClosed
<1>11. CASE UNCHANGED chatVars
  BY <1>11, PanelOnly DEF chatVars, stream, Inv, Streams, ClosedStaysClosed
<1> QED
  BY <1>1, <1>2, <1>3, <1>4, <1>5, <1>6, <1>7, <1>8, <1>9, <1>10, <1>11 DEF AiChatNext

LEMMA PanelNext == Inv /\ [AiChatNext]_chatVars => Panel'
<1> SUFFICES ASSUME Inv, [AiChatNext]_chatVars PROVE Panel'  OBVIOUS
<1>1. ASSUME NEW n \in Send,
             \/ SendNow(n) \/ SendFirst(n) \/ Created(n) \/ NotCreated(n)
             \/ Response(n) \/ TextDelta(n) \/ ToolOrError(n) \/ StreamDone(n)
             \/ Failed(n)
      PROVE  Panel'
  BY <1>1 DEF Inv, Panel, SendNow, SendFirst, Created, NotCreated, Response, TextDelta,
              ToolOrError, StreamDone, Failed, End, Step, BeginStream, Chat
<1>2. CASE Stop  BY <1>2 DEF Stop, Inv, Panel
<1>3. CASE Close  BY <1>3 DEF Close, Unpin, Inv, Panel
<1>4. CASE NewSession  BY <1>4 DEF NewSession, Inv, Panel
<1>5. ASSUME NEW c \in Chat, SelectSession(c) \/ DeleteListed(c) PROVE Panel'
  BY <1>5 DEF SelectSession, DeleteListed, Inv, Panel
<1>6. ASSUME NEW l \in loads, Loaded(l) PROVE Panel'
  BY <1>6 DEF Loaded, Inv, Panel
<1>7. CASE Pin  BY <1>7 DEF Pin, Inv, Panel, Chat
<1>8. CASE Toggle  BY <1>8 DEF Toggle, Unpin, Inv, Panel
<1>9. ASSUME NEW p \in Project \cup {NoChat}, Navigate(p) PROVE Panel'
  BY <1>9 DEF Navigate, Unpin, Inv, Panel, Chat
<1>10. CASE UNCHANGED chatVars  BY <1>10 DEF chatVars, Inv, Panel
<1> QED
  BY <1>1, <1>2, <1>3, <1>4, <1>5, <1>6, <1>7, <1>8, <1>9, <1>10 DEF AiChatNext

LEMMA InvAlways == AiChatSpec => []Inv
<1>1. AiChatInit => Inv  BY InvInit
<1>2. Inv /\ [AiChatNext]_chatVars => Inv'  BY StreamsNext, PanelNext DEF Inv
<1> QED  BY <1>1, <1>2, PTL DEF AiChatSpec

-----------------------------------------------------------------------------
(* The flag behind the Stop button is about the latest message, whatever   *)
(* older streams still do (isStreaming and latestSendRef of useAIStream).  *)
THEOREM FlagIsOfLatest == AiChatSpec => []FlagFollowsLatest
<1>1. Inv => FlagFollowsLatest  BY DEF Inv, Streams
<1> QED  BY <1>1, InvAlways, PTL

(* A closed panel is not brought back to life by what was under way when   *)
(* it was closed (handleClose, ensureSessionAbortersRef).                  *)
THEOREM ClosedIsClosed == AiChatSpec => []ClosedStaysClosed
<1>1. Inv => ClosedStaysClosed  BY DEF Inv, Streams
<1> QED  BY <1>1, InvAlways, PTL

(* A step adds to the view a history, a message whose stream begins, or    *)
(* what a stream of the current generation writes; a dead one is none of   *)
(* these.                                                                  *)
LEMMA OnlyLiveWrite ==
    ASSUME Inv, NEW n \in Send, NEW new, Write(n, new),
           \A m \in new \ view : m.from = n
    PROVE  \A m \in view' \ view : m.from \notin dead
<1>1. CASE run[n].gen = generation
  <2>1. n \notin dead
    BY <1>1 DEF Inv, Streams, DeadArePast, TypeOK, Runs
  <2> QED  BY <1>1, <2>1 DEF Write
<1>2. CASE run[n].gen # generation  BY <1>2 DEF Write
<1> QED  BY <1>1, <1>2

LEMMA FrozenOnly ==
    ASSUME NEW n, NEW items
    PROVE  \A m \in Frozen(n, items) \ items : m.from = n
<1> SUFFICES ASSUME NEW m \in Frozen(n, items), m \notin items PROVE m.from = n
  OBVIOUS
<1>1. PICK i \in items : m = IF i.from = n THEN [i EXCEPT !.open = FALSE] ELSE i
  BY DEF Frozen
<1>2. i.from = n /\ m = [i EXCEPT !.open = FALSE]  BY <1>1
<1> QED  BY <1>2

LEMMA MessageAdded ==
    ASSUME NEW n, NEW k, NEW o, NEW items, NEW m \in items \cup {Message(n, k, o)}
    PROVE  m \in items \/ m.from = n
<1>1. CASE m = Message(n, k, o)  BY <1>1 DEF Message
<1> QED  BY <1>1

LEMMA EndWrites ==
    ASSUME Inv, NEW n \in Send, NEW new, End(n, new),
           \A m \in new \ view : m.from = n
    PROVE  \A m \in view' \ view : m.from \notin dead
<1> DEFINE items == IF run[n].bubble THEN Frozen(n, new) ELSE new
<1>1. \A m \in items \ view : m.from = n  BY FrozenOnly
<1>2. Write(n, items)  BY DEF End
<1> QED  BY <1>1, <1>2, OnlyLiveWrite

LEMMA MessageWrites ==
    ASSUME Inv, NEW n \in Send,
           \/ SendNow(n) \/ SendFirst(n) \/ Created(n) \/ NotCreated(n)
           \/ Response(n) \/ TextDelta(n) \/ ToolOrError(n) \/ StreamDone(n) \/ Failed(n)
    PROVE  \A m \in view' \ view : m.from \notin dead
<1>1. ASSUME NEW c, NEW p, BeginStream(n, c, p), n \in NotBegun
      PROVE  \A m \in view' \ view : m.from \notin dead
  <2>1. view' = view \cup {Message(n, "user", FALSE)}  BY <1>1 DEF BeginStream
  <2>2. n \notin dead  BY <1>1 DEF Inv, Streams, DeadArePast
  <2> QED  BY <2>1, <2>2, MessageAdded
<1>2. CASE SendNow(n)
  BY <1>1, <1>2 DEF SendNow, NextMessage, NotBegun
<1>3. CASE Created(n)
  BY <1>1, <1>3 DEF Created, NotBegun
<1>4. CASE SendFirst(n) \/ NotCreated(n) \/ Response(n)
  BY <1>4 DEF SendFirst, NotCreated, Response
<1>5. CASE TextDelta(n)
  <2>1. Write(n, view \cup {Message(n, "reply", TRUE)})  BY <1>5 DEF TextDelta
  <2> DEFINE new == view \cup {Message(n, "reply", TRUE)}
  <2>2. \A m \in new \ view : m.from = n  BY MessageAdded
  <2> HIDE DEF new
  <2>3. Write(n, new)  BY <2>1 DEF new
  <2> QED  BY <2>2, <2>3, OnlyLiveWrite
<1>6. CASE ToolOrError(n)
  <2>1. Write(n, Frozen(n, view) \cup {Message(n, "reply", FALSE)})
    BY <1>6 DEF ToolOrError
  <2>2. \A m \in (Frozen(n, view) \cup {Message(n, "reply", FALSE)}) \ view : m.from = n
    BY FrozenOnly, MessageAdded
  <2> DEFINE new == Frozen(n, view) \cup {Message(n, "reply", FALSE)}
  <2> HIDE DEF new
  <2>3. Write(n, new) /\ \A m \in new \ view : m.from = n  BY <2>1, <2>2 DEF new
  <2> QED  BY <2>3, OnlyLiveWrite
<1>7. CASE StreamDone(n)
  <2>1. End(n, view)  BY <1>7 DEF StreamDone
  <2> QED  BY <2>1, EndWrites
<1>8. CASE Failed(n)
  <2> DEFINE new == IF run[n].bubble THEN view ELSE view \cup {Message(n, "reply", FALSE)}
  <2>1. \A m \in new \ view : m.from = n  BY MessageAdded
  <2>2. End(n, new)  BY <1>8 DEF Failed
  <2> HIDE DEF new
  <2> QED  BY <2>1, <2>2, EndWrites
<1> QED  BY <1>2, <1>3, <1>4, <1>5, <1>6, <1>7, <1>8

LEMMA SilentNext ==
    Inv /\ [AiChatNext]_chatVars =>
        \A m \in view' \ view : m.kind = "history" \/ m.from \notin dead
<1> SUFFICES ASSUME Inv, [AiChatNext]_chatVars, NEW m \in view' \ view
             PROVE  m.kind = "history" \/ m.from \notin dead
  OBVIOUS
<1>1. CASE \E n \in Send :
              \/ SendNow(n) \/ SendFirst(n) \/ Created(n) \/ NotCreated(n)
              \/ Response(n) \/ TextDelta(n) \/ ToolOrError(n) \/ StreamDone(n)
              \/ Failed(n)
  BY <1>1, MessageWrites
<1>2. ASSUME NEW l \in loads, Loaded(l) PROVE m.kind = "history"
  <2>1. view' = {Message(l.chat, "history", FALSE)} \/ view' = view  BY <1>2 DEF Loaded
  <2>2. Message(l.chat, "history", FALSE).kind = "history"  BY MessageFields
  <2> QED  BY <2>1, <2>2
<1>3. CASE \/ Stop \/ Close \/ NewSession \/ Pin \/ Toggle
           \/ \E c \in Chat : SelectSession(c) \/ DeleteListed(c)
           \/ \E p \in Project \cup {NoChat} : Navigate(p)
  <2>1. view' = view \/ view' = {}
    BY <1>3 DEF Stop, Close, NewSession, Pin, Toggle, SelectSession, DeleteListed, Navigate
  <2> QED  BY <2>1
<1>4. CASE UNCHANGED chatVars  BY <1>4 DEF chatVars
<1> QED  BY <1>1, <1>2, <1>3, <1>4 DEF AiChatNext

(* An aborted or superseded stream adds nothing to what the panel shows,   *)
(* whatever it still reads (safeSetMessages and generationRef).            *)
THEOREM DeadAreSilent == AiChatSpec => DeadStreamsAreSilent
<1>1. Inv /\ [AiChatNext]_chatVars =>
         [\A m \in view' \ view : m.kind = "history" \/ m.from \notin dead]_chatVars
  BY SilentNext
<1> QED  BY <1>1, InvAlways, PTL DEF AiChatSpec, DeadStreamsAreSilent

-----------------------------------------------------------------------------
(* The agent service.                                                      *)
TurnPc == {"idle", "authorized", "fetch", "fetched", "context", "append", "running"}

TurnRecord == [pc : TurnPc, ses : Session \cup {None}, model : Model \cup {None},
               exec : Executor \cup {None}, key : Nat, due : Nat, inits : Nat]

AgentRecord == [model : Model \cup {None}, key : Nat, exec : Executor]

(* The executor objects of a session. *)
Own(s) == {e \in Executor : e[1] = s}

Removal == [by : {"DELETE", "shutdown"}, ses : Session, exec : Executor, box : Box]

(* A turn of a session works with an executor of that session.             *)
TurnType(x) ==
    /\ x \in TurnRecord
    /\ x.pc = "idle" => x.ses = None
    /\ x.pc # "idle" => x.ses \in Session
    /\ x.pc \notin {"idle", "authorized"} => x.exec \in Own(x.ses)
    /\ x.pc # "running" => x.inits = 0

AgentType ==
    /\ row \in [Session -> {"none", "open", "deleted"}]
    /\ dbKey \in Nat /\ answered \in Nat /\ notice \in BOOLEAN /\ stale \in BOOLEAN
    /\ cache \in Nat \cup {None}
    /\ executor \in [Session -> Executor \cup {None}]
    /\ \A s \in Session : executor[s] # None => executor[s] \in Own(s)
    /\ agent \in [Session -> AgentRecord \cup {None}]
    /\ \A s \in Session : agent[s] # None => agent[s].exec \in Own(s)
    /\ box \in [Executor -> Box \cup {None}]
    /\ host \in [Box -> Session \cup {None}]
    /\ DOMAIN turn = Turn /\ turn = [t \in Turn |-> turn[t]]
    /\ \A t \in Turn : TurnType(turn[t])
    /\ deleting \subseteq Session
    /\ \A r \in removing : r \in Removal /\ r.exec \in Own(r.ses)

LEMMA IdleType ==
    /\ TurnType(Idle)
    /\ Idle.pc = "idle" /\ Idle.ses = None /\ Idle.key = 0 /\ Idle.inits = 0
  BY AgentAssumption DEF TurnType, Idle, TurnRecord, TurnPc, Executor

LEMMA AgentTypeInit == AgentInit => AgentType
<1> SUFFICES ASSUME AgentInit PROVE AgentType
    OBVIOUS
<1>1. \A t \in Turn : TurnType(turn[t])
  BY IdleType DEF AgentInit
<1>2. /\ executor \in [Session -> Executor \cup {None}]
      /\ \A s \in Session : executor[s] # None => executor[s] \in Own(s)
  BY DEF AgentInit
<1> QED  BY <1>1, <1>2 DEF AgentInit, AgentType

(* What one turn does to its own record.                                   *)
LEMMA TurnSet ==
    ASSUME AgentType, NEW t \in Turn, NEW x, TurnType(x), turn' = [turn EXCEPT ![t] = x]
    PROVE  /\ DOMAIN turn' = Turn /\ turn' = [u \in Turn |-> turn'[u]]
           /\ \A u \in Turn : TurnType(turn[u])'
           /\ turn'[t] = x /\ \A u \in Turn \ {t} : turn'[u] = turn[u]
<1>1. DOMAIN turn = Turn /\ turn = [u \in Turn |-> turn[u]] /\ \A u \in Turn : TurnType(turn[u])
  BY DEF AgentType
<1>2. DOMAIN turn' = Turn /\ turn' = [u \in Turn |-> turn'[u]]
  BY <1>1
<1>3. turn'[t] = x /\ \A u \in Turn \ {t} : turn'[u] = turn[u]
  BY <1>1
<1>4. ASSUME NEW u \in Turn PROVE TurnType(turn[u])'
  <2>1. PICK y : y = turn'[u] /\ TurnType(y)
    BY <1>1, <1>3
  <2> QED  BY <2>1 DEF TurnType
<1> QED  BY <1>2, <1>3, <1>4

-----------------------------------------------------------------------------
(* The keys. As long as no old key was stored after its notice, what is    *)
(* cached and what the agents were built with is at least the key of the   *)
(* last update that was answered.                                          *)
Fresher(x) == x.due <= answered /\ (~stale /\ x.key # 0 => x.key >= x.due)

KeyInv ==
    /\ answered <= dbKey /\ dbKey # 0
    /\ ~stale => /\ cache # None => cache >= answered
                 /\ \A s \in Session : agent[s] # None => agent[s].key >= answered
    /\ \A t \in Turn : Fresher(turn[t])

LEMMA KeyInit == AgentInit => KeyInv
  BY DEF AgentInit, KeyInv, Fresher, Idle

(* A turn that goes on with key k, or ends.                                *)
LEMMA KeyTurn ==
    ASSUME AgentType, KeyInv, NEW t \in Turn, NEW x, TurnType(x), Fresher(x),
           turn' = [turn EXCEPT ![t] = x],
           UNCHANGED <<dbKey, answered, stale, cache>>,
           \A s \in Session : agent'[s] \in {agent[s], None}
    PROVE  KeyInv'
<1>1. turn'[t] = x /\ \A u \in Turn \ {t} : turn'[u] = turn[u]
  BY TurnSet
<1>2. \A u \in Turn : Fresher(turn[u])'
  BY <1>1 DEF KeyInv, Fresher
<1> QED  BY <1>2 DEF KeyInv

-----------------------------------------------------------------------------
(* A turn that is past its first await ends, or goes on with the same      *)
(* session and executor.                                                   *)
Moved(t, x) ==
    /\ TurnType(x) /\ turn' = [turn EXCEPT ![t] = x]
    /\ turn[t].pc \notin {"idle", "authorized"}
    /\ \/ x = Idle
       \/ /\ x.pc \notin {"idle", "authorized"}
          /\ x.ses = turn[t].ses /\ x.exec = turn[t].exec
          /\ \/ x.inits <= turn[t].inits
             \/ /\ x.inits = turn[t].inits + 1 /\ box[x.exec] = None
                /\ turn[t].inits = 0 \/ turn[t].ses \in overlapped'
          /\ \/ x.key = 0 /\ x.due = 0
             \/ x.key \in {turn[t].key, dbKey} /\ x.due = turn[t].due

LEMMA TurnFields ==
    ASSUME AgentType, NEW t \in Turn
    PROVE  /\ turn[t] \in TurnRecord /\ TurnType(turn[t])
           /\ turn[t].key \in Nat /\ turn[t].due \in Nat /\ turn[t].pc \in TurnPc
           /\ turn[t].inits \in Nat
  BY DEF AgentType, TurnType, TurnRecord

LEMMA TurnGoesOn ==
    ASSUME AgentType, NEW t \in Turn, NEW pc \in TurnPc \ {"idle", "authorized"},
           NEW key \in {turn[t].key, dbKey},
           turn[t].pc \notin {"idle", "authorized"}, turn[t].pc # "running",
           turn' = [turn EXCEPT ![t] = [turn[t] EXCEPT !.pc = pc, !.key = key]]
    PROVE  \E x : Moved(t, x)
<1>1. PICK x : x = [turn[t] EXCEPT !.pc = pc, !.key = key]
  OBVIOUS
<1>2. key \in Nat /\ turn[t] \in TurnRecord /\ TurnType(turn[t])
  BY TurnFields DEF AgentType
<1>3. /\ x \in TurnRecord /\ x.pc = pc /\ x.ses = turn[t].ses /\ x.exec = turn[t].exec
      /\ x.key = key /\ x.due = turn[t].due /\ x.inits = turn[t].inits
  BY <1>1, <1>2 DEF TurnRecord
<1>4. TurnType(x) /\ x.inits <= turn[t].inits
  BY <1>2, <1>3 DEF TurnType
<1>5. turn' = [turn EXCEPT ![t] = x]
  BY <1>1
<1> QED  BY <1>3, <1>4, <1>5 DEF Moved

(* A turn that starts a sandbox, or has started one. *)
LEMMA InitsMove ==
    ASSUME AgentType, NEW t \in Turn, turn[t].pc = "running", NEW k \in Nat,
           \/ k <= turn[t].inits
           \/ /\ k = turn[t].inits + 1 /\ box[turn[t].exec] = None
              /\ turn[t].inits = 0 \/ turn[t].ses \in overlapped',
           turn' = [turn EXCEPT ![t] = [turn[t] EXCEPT !.inits = k]]
    PROVE  \E x : Moved(t, x)
<1>1. PICK x : x = [turn[t] EXCEPT !.inits = k]
  OBVIOUS
<1>2. turn[t] \in TurnRecord /\ TurnType(turn[t])
  BY TurnFields
<1>3. /\ x \in TurnRecord /\ x.pc = "running" /\ x.ses = turn[t].ses /\ x.exec = turn[t].exec
      /\ x.key = turn[t].key /\ x.due = turn[t].due /\ x.inits = k
  BY <1>1, <1>2 DEF TurnRecord
<1>4. TurnType(x)
  BY <1>2, <1>3 DEF TurnType
<1>5. turn' = [turn EXCEPT ![t] = x]
  BY <1>1
<1> QED  BY <1>3, <1>4, <1>5 DEF Moved

LEMMA FinishMoves ==
    ASSUME AgentType, NEW t \in Turn, turn[t].pc \notin {"idle", "authorized"}, Finish(t)
    PROVE  \E x : Moved(t, x)
  BY IdleType DEF Finish, Moved

LEMMA TurnMoves ==
    ASSUME AgentType, NEW t \in Turn,
           \/ FetchKey(t) \/ CacheKey(t) \/ CacheAgent(t) \/ DatabaseFails(t) \/ AppendUser(t)
           \/ InitSandbox(t) \/ SandboxReady(t) \/ SandboxError(t) \/ EndSilently(t)
           \/ EndWithText(t)
    PROVE  \E x : Moved(t, x)
<1>1. turn[t] \in TurnRecord /\ TurnType(turn[t])
  BY TurnFields
<1>2. ASSUME NEW pc \in TurnPc \ {"idle", "authorized"}, turn' = [turn EXCEPT ![t].pc = pc],
             turn[t].pc \notin {"idle", "authorized", "running"}
      PROVE  \E x : Moved(t, x)
  <2>1. [turn[t] EXCEPT !.pc = pc] = [turn[t] EXCEPT !.pc = pc, !.key = turn[t].key]
    BY <1>1 DEF TurnRecord
  <2>2. turn' = [turn EXCEPT ![t] = [turn[t] EXCEPT !.pc = pc, !.key = turn[t].key]]
    BY <1>2, <2>1
  <2> QED  BY <1>2, <2>2, TurnGoesOn
<1>3. CASE FetchKey(t)
  <2>1. turn' = [turn EXCEPT ![t] = [turn[t] EXCEPT !.pc = "fetched", !.key = dbKey]]
    BY <1>3 DEF FetchKey, AgentType
  <2>2. turn[t].pc = "fetch"
    BY <1>3 DEF FetchKey, TurnAt
  <2>3. PICK pc \in TurnPc \ {"idle", "authorized"} : pc = "fetched"
    BY DEF TurnPc
  <2>4. PICK key \in {turn[t].key, dbKey} : key = dbKey
    OBVIOUS
  <2>5. turn' = [turn EXCEPT ![t] = [turn[t] EXCEPT !.pc = pc, !.key = key]]
    BY <2>1, <2>3, <2>4
  <2>6. turn[t].pc \notin {"idle", "authorized", "running"}
    BY <2>2, <2>3
  <2> QED  BY <2>5, <2>6, TurnGoesOn
<1>4. CASE CacheKey(t)
  BY <1>2, <1>4 DEF CacheKey, TurnAt, TurnPc
<1>5. CASE CacheAgent(t)
  BY <1>2, <1>5 DEF CacheAgent, TurnAt, TurnPc
<1>6. CASE DatabaseFails(t) \/ EndSilently(t) \/ EndWithText(t)
  BY <1>6, FinishMoves DEF DatabaseFails, EndSilently, EndWithText, Done, TurnAt
<1>7. CASE AppendUser(t)
  <2>1. turn[t].pc = "append"
    BY <1>7 DEF AppendUser, TurnAt
  <2>2. CASE Finish(t)
    BY <2>1, <2>2, FinishMoves
  <2>3. CASE turn' = [turn EXCEPT ![t] = [Idle EXCEPT !.pc = "running", !.ses = turn[t].ses,
                                                      !.exec = turn[t].exec]]
    <3>1. PICK x : x = [Idle EXCEPT !.pc = "running", !.ses = turn[t].ses, !.exec = turn[t].exec]
      OBVIOUS
    <3>2. turn[t].ses \in Session /\ turn[t].exec \in Own(turn[t].ses)
      BY <1>1, <2>1 DEF TurnType
    <3>3. /\ x \in TurnRecord /\ x.pc = "running" /\ x.ses = turn[t].ses /\ x.exec = turn[t].exec
          /\ x.key = 0 /\ x.due = 0 /\ x.inits = 0
      BY <3>1, <3>2 DEF TurnRecord, TurnPc, Idle, Own
    <3>4. TurnType(x)
      BY <3>2, <3>3 DEF TurnType
    <3>5. turn' = [turn EXCEPT ![t] = x]
      BY <2>3, <3>1
    <3>6. x.inits <= turn[t].inits
      BY <1>1, <2>1, <3>3 DEF TurnType
    <3> QED  BY <2>1, <3>3, <3>4, <3>5, <3>6 DEF Moved
  <2> QED  BY <1>7, <2>2, <2>3 DEF AppendUser
<1>8. CASE InitSandbox(t)
  <2>1. PICK k \in Nat : k = turn[t].inits + 1
    BY TurnFields
  <2>2. /\ turn[t].pc = "running" /\ box[turn[t].exec] = None
        /\ turn' = [turn EXCEPT ![t] = [turn[t] EXCEPT !.inits = k]]
        /\ turn[t].inits = 0 \/ turn[t].ses \in overlapped'
    BY <1>8, <2>1, TurnFields DEF InitSandbox, TurnAt
  <2> QED  BY <2>1, <2>2, InitsMove
<1>9. CASE SandboxReady(t) \/ SandboxError(t)
  <2>1. turn[t].inits > 0 /\ turn[t].inits \in Nat
    BY <1>9, TurnFields DEF SandboxReady, SandboxError
  <2>2. PICK k \in Nat : k = turn[t].inits - 1
    BY <2>1
  <2>3. turn[t].pc = "running"
    BY <1>1, <2>1 DEF TurnType
  <2>4. turn' = [turn EXCEPT ![t] = [turn[t] EXCEPT !.inits = k]]
    BY <1>9, <2>2 DEF SandboxReady, SandboxError
  <2>5. k <= turn[t].inits
    BY <2>1, <2>2
  <2> QED  BY <2>3, <2>4, <2>5, InitsMove
<1> QED  BY <1>3, <1>4, <1>5, <1>6, <1>7, <1>8, <1>9

(* A new turn, and its first stretch: it takes the session's executor or   *)
(* makes one, and a key that is cached.                                    *)
LEMMA PostEffect ==
    ASSUME AgentType, NEW t \in Turn, NEW s \in Session, NEW m \in Model, PostMessage(t, s, m)
    PROVE  \E x : /\ TurnType(x) /\ turn' = [turn EXCEPT ![t] = x]
                  /\ x.pc = "authorized" /\ x.ses = s /\ x.key = 0 /\ x.due = answered
<1>1. PICK x : x = [Idle EXCEPT !.pc = "authorized", !.ses = s, !.model = m, !.due = answered]
  OBVIOUS
<1>2. answered \in Nat
  BY DEF AgentType
<1>3. /\ x \in TurnRecord /\ x.pc = "authorized" /\ x.ses = s /\ x.key = 0 /\ x.due = answered
      /\ x.inits = 0
  BY <1>1, <1>2 DEF TurnRecord, TurnPc, Idle
<1>4. TurnType(x)
  BY <1>3 DEF TurnType
<1>5. turn' = [turn EXCEPT ![t] = x]
  BY <1>1 DEF PostMessage
<1> QED  BY <1>3, <1>4, <1>5

LEMMA EnterEffect ==
    ASSUME AgentType, NEW t \in Turn, Enter(t)
    PROVE  \E x : \E s \in Session : \E e \in Own(s) :
              /\ TurnType(x) /\ turn' = [turn EXCEPT ![t] = x]
              /\ turn[t].ses = s /\ turn[t].pc = "authorized"
              /\ x.ses = s /\ x.exec \in Own(s) /\ x.due = turn[t].due
              /\ x.pc \in {"append", "context", "fetch"}
              /\ \/ x.key = 0
                 \/ agent[s] # None /\ x.key = agent[s].key
                 \/ cache # None /\ x.key = cache
              /\ executor[s] # None => e = executor[s] /\ box' = box
              /\ executor' = [executor EXCEPT ![s] = e]
              /\ box' \in [Executor -> Box \cup {None}]
              /\ \A d \in Executor : d # e => box'[d] = box[d]
              /\ agent' = [agent EXCEPT ![s] = IF Hit(t) THEN agent[s] ELSE None]
              /\ overlapped \subseteq overlapped'
              /\ x.exec = e \/ s \in overlapped'
<1>1. turn[t] \in TurnRecord /\ turn[t].pc = "authorized" /\ TurnType(turn[t])
  BY TurnFields DEF Enter, TurnAt
<1>2. PICK s \in Session : s = turn[t].ses
  BY <1>1 DEF TurnType
<1>3. PICK pc : pc = IF Hit(t) THEN "append" ELSE IF cache # None THEN "context" ELSE "fetch"
  OBVIOUS
<1>4. PICK key : key = IF Hit(t) THEN agent[s].key ELSE IF cache # None THEN cache ELSE 0
  OBVIOUS
<1>5. PICK e : /\ e \in (IF executor[s] # None THEN {executor[s]} ELSE Fresh(s))
               /\ executor' = [executor EXCEPT ![s] = e]
               /\ box' = [box EXCEPT ![e] = IF executor[s] # None THEN box[e] ELSE None]
               /\ overlapped' = IF Hit(t) /\ agent[s].exec # e THEN overlapped \cup {s}
                                                                ELSE overlapped
               /\ turn' = [turn EXCEPT ![t].exec = IF Hit(t) THEN agent[s].exec ELSE e,
                                       ![t].pc = pc, ![t].key = key]
  BY <1>2, <1>3, <1>4 DEF Enter
<1>6. PICK exec : exec = IF Hit(t) THEN agent[s].exec ELSE e
  OBVIOUS
<1>7. /\ e \in Own(s) /\ exec \in Own(s)
      /\ executor[s] # None => e = executor[s]
  <2>1. /\ executor[s] # None => executor[s] \in Own(s)
        /\ agent[s] # None => agent[s].exec \in Own(s)
    BY DEF AgentType
  <2>2. e \in Own(s) /\ (executor[s] # None => e = executor[s])
    BY <1>5, <2>1 DEF Fresh, Own
  <2>3. Hit(t) => agent[s] # None
    BY <1>2 DEF Hit
  <2> QED  BY <1>6, <2>1, <2>2, <2>3
<1>8. /\ box' \in [Executor -> Box \cup {None}]
      /\ \A d \in Executor : d # e => box'[d] = box[d]
      /\ executor[s] # None => box' = box
  <2>1. box[e] \in Box \cup {None}
    BY <1>7 DEF AgentType, Own
  <2>2. PICK v : v = IF executor[s] # None THEN box[e] ELSE None
    OBVIOUS
  <2>3. box' = [box EXCEPT ![e] = v] /\ box \in [Executor -> Box \cup {None}] /\ e \in Executor
    BY <1>5, <1>7, <2>2 DEF AgentType, Own
  <2>4. (executor[s] # None => v = box[e]) /\ v \in Box \cup {None}
    BY <2>1, <2>2
  <2> QED  BY <2>3, <2>4
<1>9. /\ pc \in {"append", "context", "fetch"} /\ key \in Nat
      /\ \/ key = 0
         \/ agent[s] # None /\ key = agent[s].key
         \/ cache # None /\ key = cache
  BY <1>2, <1>3, <1>4 DEF AgentType, AgentRecord, Hit
<1>10. PICK x : x = [turn[t] EXCEPT !.exec = exec, !.pc = pc, !.key = key]
  OBVIOUS
<1>11. /\ x \in TurnRecord /\ x.pc = pc /\ x.ses = s /\ x.exec = exec /\ x.key = key
       /\ x.due = turn[t].due /\ x.inits = turn[t].inits
  BY <1>1, <1>2, <1>7, <1>9, <1>10 DEF TurnRecord, TurnPc, Own
<1>12. TurnType(x)
  BY <1>1, <1>7, <1>9, <1>11 DEF TurnType
<1>13. turn' = [turn EXCEPT ![t] = x]
  BY <1>5, <1>6, <1>10 DEF AgentType
<1>14. agent' = [agent EXCEPT ![s] = IF Hit(t) THEN agent[s] ELSE None]
  BY <1>2 DEF Enter
<1>15. overlapped \subseteq overlapped' /\ (x.exec = e \/ s \in overlapped')
  BY <1>5, <1>6, <1>11
<1> QED  BY <1>1, <1>2, <1>5, <1>7, <1>8, <1>9, <1>11, <1>12, <1>13, <1>14, <1>15

(* The type of what an action leaves to the turns, the maps and Docker.    *)
LEMMA TypeStep ==
    ASSUME AgentType, DOMAIN turn' = Turn, turn' = [u \in Turn |-> turn'[u]],
           \A u \in Turn : TurnType(turn[u])',
           UNCHANGED <<dbKey, answered, notice, row, deleting, removing>>,
           cache' \in Nat \cup {None}, stale' \in BOOLEAN,
           executor' \in [Session -> Executor \cup {None}],
           \A s \in Session : executor'[s] # None => executor'[s] \in Own(s),
           agent' \in [Session -> AgentRecord \cup {None}],
           \A s \in Session : agent'[s] # None => agent'[s].exec \in Own(s),
           box' \in [Executor -> Box \cup {None}],
           host' \in [Box -> Session \cup {None}]
    PROVE  AgentType'
  BY DEF AgentType, Own, Executor, Removal

LEMMA TypeMoves ==
    ASSUME AgentType, NEW t \in Turn,
           \/ FetchKey(t) \/ CacheKey(t) \/ CacheAgent(t) \/ DatabaseFails(t) \/ AppendUser(t)
           \/ InitSandbox(t) \/ SandboxReady(t) \/ SandboxError(t) \/ EndSilently(t)
           \/ EndWithText(t)
    PROVE  AgentType'
<1>1. /\ DOMAIN turn' = Turn /\ turn' = [u \in Turn |-> turn'[u]]
      /\ \A u \in Turn : TurnType(turn[u])'
  BY TurnMoves, TurnSet DEF Moved
<1>2. UNCHANGED <<dbKey, answered, notice, row, deleting, removing, executor>>
  BY DEF FetchKey, CacheKey, CacheAgent, DatabaseFails, AppendUser, InitSandbox, SandboxReady,
         SandboxError, EndSilently, EndWithText, keys, boxes
<1>3. cache' \in Nat \cup {None}
  BY TurnFields
     DEF AgentType, FetchKey, CacheKey, CacheAgent, DatabaseFails, AppendUser, InitSandbox,
         SandboxReady, SandboxError, EndSilently, EndWithText, keys
<1>4. stale' \in BOOLEAN
  BY DEF AgentType, FetchKey, CacheKey, CacheAgent, DatabaseFails, AppendUser, InitSandbox,
         SandboxReady, SandboxError, EndSilently, EndWithText, keys
<1>5. /\ agent' \in [Session -> AgentRecord \cup {None}]
      /\ \A s \in Session : agent'[s] # None => agent'[s].exec \in Own(s)
  <2>1. CASE agent' = agent
    BY <2>1 DEF AgentType
  <2>2. CASE CacheAgent(t)
    <3>1. PICK a : a = [model |-> turn[t].model, key |-> turn[t].key, exec |-> turn[t].exec]
      OBVIOUS
    <3>2. /\ a \in AgentRecord /\ turn[t].ses \in Session
          /\ a.exec \in Own(turn[t].ses)
      BY <2>2, <3>1, TurnFields DEF CacheAgent, TurnAt, TurnType, TurnRecord, AgentRecord, Own
    <3>3. agent' = [agent EXCEPT ![turn[t].ses] = a]
      BY <2>2, <3>1 DEF CacheAgent
    <3> QED  BY <3>2, <3>3 DEF AgentType
  <2> QED  BY <2>1, <2>2
           DEF FetchKey, CacheKey, DatabaseFails, AppendUser, InitSandbox,
               SandboxReady, SandboxError, EndSilently, EndWithText
<1>6. box' \in [Executor -> Box \cup {None}] /\ host' \in [Box -> Session \cup {None}]
  <2>1. CASE box' = box /\ host' = host
    BY <2>1 DEF AgentType
  <2>2. CASE SandboxReady(t)
    <3>1. turn[t].ses \in Session
      BY <2>2, TurnFields, AgentAssumption DEF SandboxReady, TurnType
    <3>2. PICK b \in Box : /\ host' = [host EXCEPT ![b] = turn[t].ses]
                           /\ box' = [box EXCEPT ![turn[t].exec] = b]
      BY <2>2 DEF SandboxReady
    <3> QED  BY <3>1, <3>2 DEF AgentType
  <2> QED  BY <2>1, <2>2
           DEF FetchKey, CacheKey, CacheAgent, DatabaseFails, AppendUser, InitSandbox,
               SandboxError, EndSilently, EndWithText, boxes
<1> QED  BY <1>1, <1>2, <1>3, <1>4, <1>5, <1>6, TypeStep DEF AgentType

LEMMA TypeArrival ==
    ASSUME AgentType, NEW t \in Turn,
           Enter(t) \/ \E s \in Session, m \in Model : PostMessage(t, s, m)
    PROVE  AgentType'
<1>1. CASE Enter(t)
  <2>1. PICK x, s, e : /\ TurnType(x) /\ turn' = [turn EXCEPT ![t] = x]
                       /\ s \in Session /\ e \in Own(s)
                       /\ executor' = [executor EXCEPT ![s] = e]
                       /\ box' \in [Executor -> Box \cup {None}]
                       /\ agent' = [agent EXCEPT ![s] = IF Hit(t) THEN agent[s] ELSE None]
    BY <1>1, EnterEffect
  <2>2. UNCHANGED <<dbKey, answered, notice, row, deleting, removing, cache, stale, host>>
    BY <1>1 DEF Enter, keys, boxes
  <2>3. /\ executor' \in [Session -> Executor \cup {None}]
        /\ \A u \in Session : executor'[u] # None => executor'[u] \in Own(u)
    BY <2>1 DEF AgentType, Own
  <2>4. /\ agent' \in [Session -> AgentRecord \cup {None}]
        /\ \A u \in Session : agent'[u] # None => agent'[u].exec \in Own(u)
    BY <2>1 DEF AgentType
  <2>5. /\ DOMAIN turn' = Turn /\ turn' = [u \in Turn |-> turn'[u]]
        /\ \A u \in Turn : TurnType(turn[u])'
    BY <2>1, TurnSet
  <2> QED  BY <2>1, <2>2, <2>3, <2>4, <2>5, TypeStep DEF AgentType
<1>2. CASE \E s \in Session, m \in Model : PostMessage(t, s, m)
  <2>1. /\ DOMAIN turn' = Turn /\ turn' = [u \in Turn |-> turn'[u]]
        /\ \A u \in Turn : TurnType(turn[u])'
    BY <1>2, PostEffect, TurnSet
  <2>2. UNCHANGED <<row, dbKey, answered, notice, cache, stale, box, host, removing, executor,
                    agent, deleting>>
    BY <1>2 DEF PostMessage, keys, boxes
  <2> QED  BY <2>1, <2>2, TypeStep DEF AgentType
<1> QED  BY <1>1, <1>2

(* What destroy() may be about to remove.                                  *)
LEMMA DestroyingEffect ==
    ASSUME AgentType, NEW s \in Session, NEW by \in {"DELETE", "shutdown"}
    PROVE  \/ /\ Destroying(by, s) = {}
              /\ executor[s] # None => box[executor[s]] = None
           \/ \E r \in Removal :
                 /\ Destroying(by, s) = {r} /\ r.ses = s /\ r.exec = executor[s]
                 /\ r.exec \in Own(s) /\ r.box = box[r.exec] /\ executor[s] # None
                 /\ r.by = by
<1>1. CASE executor[s] # None /\ box[executor[s]] # None
  <2>1. PICK e \in Own(s) : e = executor[s] /\ e \in Executor /\ box[e] \in Box
    BY <1>1 DEF AgentType, Own
  <2>2. PICK r : r = [by |-> by, ses |-> s, exec |-> e, box |-> box[e]]
    OBVIOUS
  <2>3. r \in Removal /\ r.ses = s /\ r.exec = e /\ r.box = box[e] /\ r.by = by
    BY <2>1, <2>2 DEF Removal
  <2>4. Destroying(by, s) = {r}
    BY <1>1, <2>1, <2>2 DEF Destroying
  <2> QED  BY <1>1, <2>1, <2>3, <2>4
<1>2. CASE ~(executor[s] # None /\ box[executor[s]] # None)
  <2>1. \A d \in Executor : ~(d = executor[s] /\ box[d] # None)
    BY <1>2, AgentAssumption DEF Executor
  <2>2. Destroying(by, s) = {}
    BY <2>1 DEF Destroying
  <2> QED  BY <1>2, <2>2
<1> QED  BY <1>1, <1>2

LEMMA TypeSession ==
    ASSUME AgentType, NEW s \in Session,
           CreateSession(s) \/ DeleteSession(s) \/ DeleteRow(s) \/ RowStays(s) \/ DestroyNext(s)
    PROVE  AgentType'
<1>1. UNCHANGED <<dbKey, answered, notice, cache, stale, box, host, turn>>
  BY DEF CreateSession, DeleteSession, DeleteRow, RowStays, DestroyNext, keys, boxes
<1>2. row' \in [Session -> {"none", "open", "deleted"}]
  BY DEF AgentType, CreateSession, DeleteSession, DeleteRow, RowStays, DestroyNext
<1>3. /\ executor' \in [Session -> Executor \cup {None}]
      /\ \A u \in Session : executor'[u] # None => executor'[u] \in Own(u)
  <2>1. executor' = executor \/ executor' = [executor EXCEPT ![s] = None]
    BY DEF AgentType, CreateSession, DeleteSession, DeleteRow, RowStays, DestroyNext
  <2> QED  BY <2>1 DEF AgentType
<1>4. /\ agent' \in [Session -> AgentRecord \cup {None}]
      /\ \A u \in Session : agent'[u] # None => agent'[u].exec \in Own(u)
  <2>1. agent' = agent \/ agent' = [agent EXCEPT ![s] = None]
    BY DEF CreateSession, DeleteSession, DeleteRow, RowStays, DestroyNext
  <2> QED  BY <2>1 DEF AgentType
<1>5. deleting' \subseteq Session
  BY DEF AgentType, CreateSession, DeleteSession, DeleteRow, RowStays, DestroyNext
<1>6. \A r \in removing' : r \in Removal /\ r.exec \in Own(r.ses)
  <2>1. \/ removing' = removing
        \/ \E by \in {"DELETE", "shutdown"} : removing' = removing \cup Destroying(by, s)
    BY DEF CreateSession, DeleteSession, DeleteRow, RowStays, DestroyNext, boxes
  <2> QED  BY <2>1, DestroyingEffect DEF AgentType
<1> QED  BY <1>1, <1>2, <1>3, <1>4, <1>5, <1>6 DEF AgentType

LEMMA TypeRemoved ==
    ASSUME AgentType, NEW r \in removing, Removed(r)
    PROVE  AgentType'
<1>1. r \in Removal /\ r.ses \in Session /\ r.exec \in Executor /\ r.box \in Box
  BY DEF AgentType, Removal
<1>2. UNCHANGED <<row, dbKey, answered, notice, cache, stale, turn>>
  BY DEF Removed, keys
<1>3. /\ executor' \in [Session -> Executor \cup {None}]
      /\ \A u \in Session : executor'[u] # None => executor'[u] \in Own(u)
  BY <1>1 DEF Removed, AfterDestroy, AgentType
<1>4. /\ agent' \in [Session -> AgentRecord \cup {None}]
      /\ \A u \in Session : agent'[u] # None => agent'[u].exec \in Own(u)
  BY <1>1 DEF Removed, AfterDestroy, AgentType
<1>5. box' \in [Executor -> Box \cup {None}] /\ host' \in [Box -> Session \cup {None}]
  BY <1>1 DEF Removed, AfterDestroy, AgentType
<1>6. deleting' \subseteq Session /\ removing' \subseteq removing
  BY <1>1 DEF Removed, AgentType
<1> QED  BY <1>2, <1>3, <1>4, <1>5, <1>6 DEF AgentType

(* After a restart only the rows, the key and the containers are left.     *)
LEMMA RestartEffect ==
    ASSUME AgentType, Restart
    PROVE  /\ AgentType'
           /\ UNCHANGED <<row, dbKey, answered, notice, stale>>
           /\ cache' = None /\ deleting' = {} /\ removing' = {} /\ overlapped' = {}
           /\ \A s \in Session : executor'[s] = None /\ agent'[s] = None
           /\ \A t \in Turn : turn'[t] = Idle
           /\ \A b \in Box : host'[b] # None =>
                 /\ \A r \in removing : r.box # b
                 /\ host[b] = None \/ host'[b] = host[b]
<1>1. PICK up : /\ up \in [Box -> Turn \cup {None}]
                /\ \A b \in Box : up[b] # None => host[b] = None
                /\ \A t \in Turn : Cardinality({b \in Box : up[b] = t}) <= turn[t].inits
                /\ host' = [b \in Box |-> HostAfter(up, b)]
  BY DEF Restart
<1>3. ASSUME NEW b \in Box
      PROVE  /\ host'[b] \in Session \cup {None}
             /\ host'[b] # None => /\ \A r \in removing : r.box # b
                                   /\ host[b] = None \/ host'[b] = host[b]
  <2>1. host'[b] = HostAfter(up, b)
    BY <1>1
  <2>2. CASE \E r \in removing : r.box = b
    BY <2>1, <2>2 DEF HostAfter
  <2>3. CASE (~\E r \in removing : r.box = b) /\ up[b] # None
    <3>1. PICK t \in Turn : t = up[b]
      BY <1>1, <2>3
    <3>2. turn[t].ses \in Session \cup {None}
      BY TurnFields DEF TurnRecord
    <3> QED  BY <1>1, <2>1, <2>3, <3>1, <3>2 DEF HostAfter
  <2>4. CASE (~\E r \in removing : r.box = b) /\ up[b] = None
    <3>1. HostAfter(up, b) = host[b]
      BY <2>4 DEF HostAfter
    <3> QED  BY <2>1, <2>4, <3>1 DEF AgentType
  <2> QED  BY <2>2, <2>3, <2>4
<1>4. host' \in [Box -> Session \cup {None}]
  BY <1>1, <1>3
<1>5. /\ UNCHANGED <<row, dbKey, answered, notice, stale>>
      /\ cache' = None /\ deleting' = {} /\ removing' = {} /\ overlapped' = {}
      /\ executor' = [s \in Session |-> None] /\ agent' = [s \in Session |-> None]
      /\ box' = [e \in Executor |-> None] /\ turn' = [t \in Turn |-> Idle]
  BY DEF Restart
<1>6. \A t \in Turn : TurnType(turn[t])'
  <2> SUFFICES ASSUME NEW t \in Turn PROVE TurnType(turn[t])'
      OBVIOUS
  <2>1. turn'[t] = Idle
    BY <1>5
  <2> QED  BY <2>1, IdleType DEF TurnType
<1>7. DOMAIN turn' = Turn /\ turn' = [t \in Turn |-> turn'[t]]
  BY <1>5
<1>8. AgentType'
  BY <1>4, <1>5, <1>6, <1>7 DEF AgentType
<1> QED  BY <1>3, <1>5, <1>8

LEMMA AgentTypeNext == AgentType /\ [AgentNext]_agentVars => AgentType'
<1> SUFFICES ASSUME AgentType, [AgentNext]_agentVars PROVE AgentType'
    OBVIOUS
<1>1. ASSUME NEW s \in Session,
             CreateSession(s) \/ DeleteSession(s) \/ DeleteRow(s) \/ RowStays(s) \/ DestroyNext(s)
      PROVE  AgentType'
  BY <1>1, TypeSession
<1>2. ASSUME NEW t \in Turn, Enter(t) \/ \E s \in Session, m \in Model : PostMessage(t, s, m)
      PROVE  AgentType'
  BY <1>2, TypeArrival
<1>3. ASSUME NEW t \in Turn,
             \/ FetchKey(t) \/ CacheKey(t) \/ CacheAgent(t) \/ DatabaseFails(t) \/ AppendUser(t)
             \/ InitSandbox(t) \/ SandboxReady(t) \/ SandboxError(t) \/ EndSilently(t)
             \/ EndWithText(t)
      PROVE  AgentType'
  BY <1>3, TypeMoves
<1>4. ASSUME NEW t \in Turn, Crash(t) PROVE AgentType'
  BY <1>4, RestartEffect DEF Crash
<1>5. ASSUME NEW r \in removing, Removed(r) PROVE AgentType'
  BY <1>5, TypeRemoved
<1>6. CASE Exit
  BY <1>6, RestartEffect DEF Exit
<1>7. CASE Signal
  BY <1>7 DEF Signal, AgentType, TurnType, keys, boxes
<1>8. CASE UpdateKey \/ InvalidateProvider \/ NoticeLost \/ CacheExpires
  <2>1. UNCHANGED <<row, executor, box, host, turn, deleting, removing>>
    BY <1>8 DEF UpdateKey, InvalidateProvider, NoticeLost, CacheExpires, boxes
  <2>2. /\ dbKey' \in Nat /\ answered' \in Nat /\ notice' \in BOOLEAN /\ stale' \in BOOLEAN
        /\ cache' \in Nat \cup {None}
        /\ agent' \in [Session -> AgentRecord \cup {None}]
        /\ \A s \in Session : agent'[s] # None => agent'[s].exec \in Own(s)
    <3>1. CASE UpdateKey
      BY <3>1 DEF UpdateKey, AgentType
    <3>2. CASE InvalidateProvider
      BY <3>2 DEF InvalidateProvider, AgentType
    <3>3. CASE NoticeLost
      BY <3>3 DEF NoticeLost, AgentType
    <3>4. CASE CacheExpires
      BY <3>4 DEF CacheExpires, AgentType
    <3> QED  BY <1>8, <3>1, <3>2, <3>3, <3>4
  <2> QED  BY <2>1, <2>2 DEF AgentType, TurnType
<1>9. CASE UNCHANGED agentVars
  BY <1>9 DEF agentVars, AgentType, TurnType
<1> QED  BY <1>1, <1>2, <1>3, <1>4, <1>5, <1>6, <1>7, <1>8, <1>9 DEF AgentNext

LEMMA KeyNext == AgentType /\ KeyInv /\ [AgentNext]_agentVars => KeyInv'
<1> SUFFICES ASSUME AgentType, KeyInv, [AgentNext]_agentVars PROVE KeyInv'
    OBVIOUS
<1>1. /\ dbKey \in Nat /\ answered \in Nat /\ answered <= dbKey /\ dbKey # 0
      /\ stale \in BOOLEAN /\ cache \in Nat \cup {None} /\ None \notin Nat
      /\ \A s \in Session : agent[s] # None => agent[s].key \in Nat
      /\ \A t \in Turn : turn[t].key \in Nat /\ turn[t].due \in Nat /\ Fresher(turn[t])
  BY AgentAssumption, TurnFields DEF AgentType, AgentRecord, KeyInv
<1>2. ASSUME NEW s \in Session,
             CreateSession(s) \/ DeleteSession(s) \/ DeleteRow(s) \/ RowStays(s) \/ DestroyNext(s)
      PROVE  KeyInv'
  <2>1. UNCHANGED <<dbKey, answered, cache, stale, turn>>
    BY <1>2 DEF CreateSession, DeleteSession, DeleteRow, RowStays, DestroyNext, keys
  <2>2. \A u \in Session : agent'[u] # None => agent'[u] = agent[u]
    BY <1>2 DEF AgentType, CreateSession, DeleteSession, DeleteRow, RowStays, DestroyNext
  <2> QED  BY <2>1, <2>2 DEF KeyInv, Fresher
<1>3. ASSUME NEW t \in Turn, NEW s \in Session, NEW m \in Model, PostMessage(t, s, m)
      PROVE  KeyInv'
  <2>1. PICK x : /\ TurnType(x) /\ turn' = [turn EXCEPT ![t] = x]
                 /\ x.key = 0 /\ x.due = answered
    BY <1>3, PostEffect
  <2>2. UNCHANGED <<dbKey, answered, cache, stale, agent>>
    BY <1>3 DEF PostMessage, keys
  <2>3. Fresher(x)
    BY <1>1, <2>1 DEF Fresher
  <2> QED  BY <2>1, <2>2, <2>3, KeyTurn
<1>4. ASSUME NEW t \in Turn, Enter(t) PROVE KeyInv'
  <2>1. PICK x, s : /\ TurnType(x) /\ turn' = [turn EXCEPT ![t] = x] /\ s \in Session
                    /\ x.due = turn[t].due
                    /\ \/ x.key = 0
                       \/ agent[s] # None /\ x.key = agent[s].key
                       \/ cache # None /\ x.key = cache
                    /\ agent' = [agent EXCEPT ![s] = IF Hit(t) THEN agent[s] ELSE None]
    BY <1>4, EnterEffect
  <2>2. UNCHANGED <<dbKey, answered, cache, stale>>
    BY <1>4 DEF Enter, keys
  <2>3. Fresher(x)
    BY <1>1, <2>1 DEF Fresher, KeyInv
  <2>4. \A u \in Session : agent'[u] \in {agent[u], None}
    BY <2>1 DEF AgentType
  <2> QED  BY <2>1, <2>2, <2>3, <2>4, KeyTurn
<1>5. ASSUME NEW t \in Turn, NEW x, Moved(t, x) PROVE TurnType(x) /\ Fresher(x)
  BY <1>1, <1>5, IdleType DEF Moved, Fresher, Idle
<1>6. ASSUME NEW t \in Turn,
             \/ FetchKey(t) \/ DatabaseFails(t) \/ AppendUser(t) \/ InitSandbox(t)
             \/ SandboxReady(t) \/ SandboxError(t) \/ EndSilently(t) \/ EndWithText(t)
      PROVE  KeyInv'
  <2>1. PICK x : Moved(t, x)
    BY <1>6, TurnMoves
  <2>2. UNCHANGED <<dbKey, answered, cache, stale, agent>>
    BY <1>6 DEF FetchKey, DatabaseFails, AppendUser, InitSandbox, SandboxReady, SandboxError,
                EndSilently, EndWithText, keys
  <2> QED  BY <1>5, <2>1, <2>2, KeyTurn DEF Moved
<1>7. ASSUME NEW t \in Turn, CacheKey(t) \/ CacheAgent(t) PROVE KeyInv'
  <2>1. PICK x : Moved(t, x)
    BY <1>7, TurnMoves
  <2>2. \A u \in Turn \ {t} : turn'[u] = turn[u]
    BY <2>1, TurnSet DEF Moved
  <2>3. turn'[t] = x /\ Fresher(x)
    BY <1>5, <2>1, TurnSet DEF Moved
  <2>4. UNCHANGED <<dbKey, answered>> /\ stale' = (stale \/ turn[t].key < answered)
    BY <1>7 DEF CacheKey, CacheAgent
  <2>5. ~stale' => ~stale /\ turn[t].key >= answered
    <3>1. ~stale' => ~stale /\ ~(turn[t].key < answered)
      BY <2>4, Zenon
    <3> QED  BY <1>1, <3>1
  <2>6. \A u \in Turn : Fresher(turn[u])'
    BY <1>1, <2>2, <2>3, <2>4, <2>5 DEF Fresher
  <2>7. cache' = cache \/ cache' = turn[t].key
    BY <1>7 DEF CacheKey, CacheAgent
  <2>8. \A s \in Session : agent'[s] = agent[s] \/ agent'[s].key = turn[t].key
    BY <1>7 DEF CacheKey, CacheAgent, AgentType
  <2> QED  BY <1>1, <2>4, <2>5, <2>6, <2>7, <2>8 DEF KeyInv
<1>8. ASSUME Restart PROVE KeyInv'
  <2>1. \A t \in Turn : Fresher(turn[t])'
    BY <1>1, <1>8, RestartEffect DEF Fresher, Idle
  <2> QED  BY <1>1, <1>8, <2>1, RestartEffect DEF KeyInv
<1>9. ASSUME NEW r \in removing, Removed(r) PROVE KeyInv'
  <2>1. UNCHANGED <<dbKey, answered, cache, stale, turn>>
    BY <1>9 DEF Removed, keys
  <2>2. \A u \in Session : agent'[u] # None => agent'[u] = agent[u]
    BY <1>9 DEF AgentType, Removed, AfterDestroy
  <2> QED  BY <2>1, <2>2 DEF KeyInv, Fresher
<1>10. CASE UpdateKey
  BY <1>1, <1>10 DEF UpdateKey, KeyInv, Fresher
<1>11. CASE InvalidateProvider \/ NoticeLost
  <2>1. /\ dbKey' = dbKey /\ answered' = dbKey /\ turn' = turn
        /\ \/ stale' = TRUE
           \/ stale' = stale /\ cache' = None /\ \A s \in Session : agent'[s] = None
    BY <1>11 DEF InvalidateProvider, NoticeLost
  <2> QED  BY <1>1, <2>1 DEF KeyInv, Fresher
<1>12. CASE CacheExpires \/ Signal \/ UNCHANGED agentVars
  <2>1. /\ UNCHANGED <<dbKey, answered, stale, agent, turn>>
        /\ cache' = None \/ cache' = cache
    BY <1>12 DEF CacheExpires, Signal, agentVars, keys
  <2> QED  BY <2>1 DEF KeyInv, Fresher
<1> QED  BY <1>2, <1>3, <1>4, <1>6, <1>7, <1>8, <1>9, <1>10, <1>11, <1>12
         DEF AgentNext, Crash, Exit

LEMMA AgentTypeHolds == AgentSpec => []AgentType
  BY AgentTypeInit, AgentTypeNext, PTL DEF AgentSpec

(* A turn that began after a provider's update was answered uses a key at  *)
(* least as new, unless an old one was stored after its notice, for any    *)
(* number of turns, sessions and updates.                                  *)
THEOREM FreshKeyUsed == AgentSpec => []KeyFresh
<1>1. AgentType /\ KeyInv => KeyFresh
  BY TurnFields DEF KeyInv, KeyFresh, Fresher
<1> QED  BY <1>1, KeyInit, KeyNext, AgentTypeHolds, PTL DEF AgentSpec

-----------------------------------------------------------------------------
(* The sandboxes. Of a session that is not in "overlapped", one turn, one  *)
(* removal or one deletion is under way at most; a turn holds the executor *)
(* in the map and starts one sandbox at most; a removal removes what that  *)
(* executor has; a session being deleted is forgotten; and a container     *)
(* that runs is in the map.                                                *)
OneTurn(s) ==
    /\ \A t, u \in Turn : turn[t].ses = s /\ turn[u].ses = s => t = u
    /\ \A t \in Turn : turn[t].ses = s =>
          /\ s \notin deleting /\ row[s] # "deleted" /\ \A r \in removing : r.ses # s
          /\ turn[t].pc # "authorized" => turn[t].exec = executor[s]
          /\ turn[t].inits # 0 => turn[t].inits = 1 /\ box[turn[t].exec] = None

OneRemoval(s) ==
    \A r \in removing : r.ses = s =>
        /\ s \notin deleting /\ executor[s] = r.exec /\ box[r.exec] = r.box
        /\ \A q \in removing : q.ses = s => q = r

Forgotten(s) == s \in deleting \/ row[s] = "deleted" => executor[s] = None /\ agent[s] = None

InTheMap(s) ==
    \A b \in Box : host[b] = s /\ b \notin left => executor[s] # None /\ box[executor[s]] = b

Tidy(s) == s \notin overlapped => OneTurn(s) /\ OneRemoval(s) /\ Forgotten(s) /\ InTheMap(s)

AllTidy == \A s \in Session : Tidy(s)

LEMMA TidyInit == AgentInit => AllTidy
<1> SUFFICES ASSUME AgentInit, NEW s \in Session PROVE Tidy(s)
    BY DEF AllTidy
<1>1. OneTurn(s) /\ OneRemoval(s) /\ Forgotten(s) /\ InTheMap(s)
  BY IdleType, AgentAssumption
     DEF AgentInit, OneTurn, OneRemoval, Forgotten, InTheMap
<1> QED  BY <1>1 DEF Tidy

(* A step that starts nothing new for session s and leaves its executor.   *)
LEMMA TidyKept ==
    ASSUME AgentType, NEW s \in Session, Tidy(s), s \notin overlapped' => s \notin overlapped,
           \A t \in Turn : turn'[t].ses = s =>
               /\ turn[t].ses = s
               /\ turn'[t].pc # "authorized" =>
                     turn[t].pc # "authorized" /\ turn'[t].exec = turn[t].exec
               /\ turn'[t].inits # 0 => turn'[t].pc # "authorized"
               /\ s \notin overlapped' =>
                     \/ turn'[t].inits \in {0, turn[t].inits}
                     \/ turn'[t].inits = 1 /\ box[turn[t].exec] = None,
           s \in deleting' => s \in deleting,
           row'[s] = "deleted" => row[s] = "deleted",
           \A r \in removing' : r.ses = s => r \in removing,
           executor'[s] = executor[s],
           agent'[s] \in {agent[s], None} \/ \E t \in Turn : turn[t].ses = s,
           \A e \in Own(s) : box'[e] = box[e],
           \A b \in Box : host'[b] = s /\ b \notin left' => host[b] = s /\ b \notin left
    PROVE  Tidy(s)'
<1> SUFFICES ASSUME s \notin overlapped, s \notin overlapped'
             PROVE  (OneTurn(s) /\ OneRemoval(s) /\ Forgotten(s) /\ InTheMap(s))'
    BY DEF Tidy
<1>1. OneTurn(s) /\ OneRemoval(s) /\ Forgotten(s) /\ InTheMap(s)
  BY DEF Tidy
<1>2. OneTurn(s)'
  <2>1. \A t, u \in Turn : turn'[t].ses = s /\ turn'[u].ses = s => t = u
    BY <1>1 DEF OneTurn
  <2>2. ASSUME NEW t \in Turn, turn'[t].ses = s
        PROVE  /\ s \notin deleting' /\ row'[s] # "deleted" /\ \A r \in removing' : r.ses # s
               /\ turn'[t].pc # "authorized" => turn'[t].exec = executor'[s]
               /\ turn'[t].inits # 0 => turn'[t].inits = 1 /\ box'[turn'[t].exec] = None
    <3>1. /\ s \notin deleting /\ row[s] # "deleted" /\ \A r \in removing : r.ses # s
          /\ turn[t].pc # "authorized" => turn[t].exec = executor[s]
          /\ turn[t].inits # 0 => turn[t].inits = 1 /\ box[turn[t].exec] = None
      BY <1>1, <2>2 DEF OneTurn
    <3>2. turn[t].pc \notin {"idle", "authorized"} => turn[t].exec \in Own(s)
      BY <2>2, TurnFields DEF TurnType
    <3>3. turn[t].pc # "idle"
      BY <2>2, TurnFields, AgentAssumption DEF TurnType
    <3>5. turn'[t].pc # "authorized" => turn'[t].exec = executor'[s]
      BY <2>2, <3>1
    <3>6. ASSUME turn'[t].inits # 0
          PROVE  turn'[t].inits = 1 /\ box'[turn'[t].exec] = None
      <4>1. turn'[t].inits = 1 /\ box[turn[t].exec] = None
        BY <2>2, <3>1, <3>6
      <4>2. turn'[t].exec = turn[t].exec /\ turn[t].exec \in Own(s)
        BY <2>2, <3>2, <3>3, <3>6
      <4> QED  BY <4>1, <4>2
    <3> QED  BY <2>2, <3>1, <3>5, <3>6
  <2> QED  BY <2>1, <2>2 DEF OneTurn
<1>3. OneRemoval(s)'
  <2>1. \A r \in removing : r.ses = s => r.exec \in Own(s)
    BY DEF AgentType
  <2> QED  BY <1>1, <2>1 DEF OneRemoval
<1>4. Forgotten(s)'
  <2>1. CASE agent'[s] \in {agent[s], None}
    BY <1>1, <2>1 DEF Forgotten
  <2>2. CASE \E t \in Turn : turn[t].ses = s
    BY <1>1, <2>2 DEF Forgotten, OneTurn
  <2> QED  BY <2>1, <2>2
<1>5. InTheMap(s)'
  <2>1. executor[s] # None => executor[s] \in Own(s)
    BY DEF AgentType
  <2> QED  BY <1>1, <2>1 DEF InTheMap
<1> QED  BY <1>2, <1>3, <1>4, <1>5

LEMMA TidyMoves ==
    ASSUME AgentType, AllTidy, NEW t \in Turn,
           \/ FetchKey(t) \/ CacheKey(t) \/ CacheAgent(t) \/ DatabaseFails(t) \/ AppendUser(t)
           \/ InitSandbox(t) \/ SandboxError(t) \/ EndSilently(t) \/ EndWithText(t)
    PROVE  AllTidy'
<1> SUFFICES ASSUME NEW s \in Session PROVE Tidy(s)'
    BY DEF AllTidy
<1>1. PICK x : Moved(t, x)
  BY TurnMoves
<1>2. turn'[t] = x /\ \A u \in Turn \ {t} : turn'[u] = turn[u]
  BY <1>1, TurnSet DEF Moved
<1>3. /\ UNCHANGED <<deleting, row, removing, executor, box, host, left>>
      /\ overlapped \subseteq overlapped'
  BY DEF FetchKey, CacheKey, CacheAgent, DatabaseFails, AppendUser, InitSandbox, SandboxError,
         EndSilently, EndWithText, boxes
<1>4. Tidy(s)
  BY DEF AllTidy
<1>5. \A u \in Turn : turn'[u].ses = s =>
         /\ turn[u].ses = s
         /\ turn'[u].pc # "authorized" =>
               turn[u].pc # "authorized" /\ turn'[u].exec = turn[u].exec
         /\ turn'[u].inits # 0 => turn'[u].pc # "authorized"
         /\ s \notin overlapped' =>
               \/ turn'[u].inits \in {0, turn[u].inits}
               \/ turn'[u].inits = 1 /\ box[turn[u].exec] = None
  <2> SUFFICES ASSUME NEW u \in Turn, turn'[u].ses = s
               PROVE  /\ turn[u].ses = s
                      /\ turn'[u].pc # "authorized" =>
                            turn[u].pc # "authorized" /\ turn'[u].exec = turn[u].exec
                      /\ turn'[u].inits # 0 => turn'[u].pc # "authorized"
                      /\ s \notin overlapped' =>
                            \/ turn'[u].inits \in {0, turn[u].inits}
                            \/ turn'[u].inits = 1 /\ box[turn[u].exec] = None
      OBVIOUS
  <2>1. CASE u # t
    BY <1>2, <2>1, TurnFields DEF TurnType
  <2>2. CASE u = t
    <3>1. x # Idle
      BY <1>2, <2>2, IdleType, AgentAssumption
    <3>2. x.inits \in Nat /\ TurnType(x) /\ turn[t].inits \in Nat
      BY <1>1, TurnFields DEF Moved, TurnType, TurnRecord
    <3>3. /\ x.ses = turn[t].ses /\ x.exec = turn[t].exec /\ x.pc # "authorized"
          /\ turn[t].pc # "authorized" /\ x.ses = s
          /\ \/ x.inits <= turn[t].inits
             \/ /\ x.inits = turn[t].inits + 1 /\ box[x.exec] = None
                /\ turn[t].inits = 0 \/ turn[t].ses \in overlapped'
      BY <1>1, <1>2, <2>2, <3>1 DEF Moved
    <3>4. s \notin overlapped' => turn[t].inits \in {0, 1}
      BY <1>3, <1>4, <3>2, <3>3 DEF Tidy, OneTurn
    <3> QED  BY <1>2, <2>2, <3>2, <3>3, <3>4
  <2> QED  BY <2>1, <2>2
<1>6. agent'[s] \in {agent[s], None} \/ \E u \in Turn : turn[u].ses = s
  BY DEF FetchKey, CacheKey, CacheAgent, DatabaseFails, AppendUser, InitSandbox, SandboxError,
         EndSilently, EndWithText, AgentType
<1> QED  BY <1>3, <1>4, <1>5, <1>6, TidyKept

(* A step of session s that leaves the turns alone.                        *)
LEMMA TidyElsewhere ==
    ASSUME AgentType, NEW s \in Session, NEW u \in Session \ {s}, Tidy(u),
           u \notin overlapped' => u \notin overlapped,
           turn' = turn,
           u \in deleting' => u \in deleting,
           row'[u] = row[u],
           \A r \in removing' : r.ses = u => r \in removing,
           executor'[u] = executor[u], agent'[u] = agent[u],
           \A e \in Own(u) : box'[e] = box[e],
           \A b \in Box : host'[b] = u /\ b \notin left' => host[b] = u /\ b \notin left
    PROVE  Tidy(u)'
<1>1. \A t \in Turn : turn[t].inits # 0 => turn[t].pc # "authorized"
  BY TurnFields DEF TurnType
<1> QED  BY <1>1, TidyKept

LEMMA MarkEffect ==
    ASSUME NEW s, Mark(s)
    PROVE  /\ \A u : u \notin overlapped' => u \notin overlapped
           /\ s \notin overlapped' =>
                 /\ \A t \in Turn : turn[t].ses # s
                 /\ s \notin deleting /\ \A r \in removing : r.ses # s
  BY DEF Mark, Busy

LEMMA TidyPost ==
    ASSUME AgentType, AllTidy, NEW t \in Turn, NEW s \in Session, NEW m \in Model,
           PostMessage(t, s, m)
    PROVE  AllTidy'
<1> SUFFICES ASSUME NEW u \in Session PROVE Tidy(u)'
    BY DEF AllTidy
<1>1. PICK x : /\ TurnType(x) /\ turn' = [turn EXCEPT ![t] = x]
               /\ x.pc = "authorized" /\ x.ses = s /\ x.inits = 0
  BY PostEffect DEF TurnType
<1>2. turn'[t] = x /\ \A v \in Turn \ {t} : turn'[v] = turn[v]
  BY <1>1, TurnSet
<1>3. /\ UNCHANGED <<row, removing, executor, agent, deleting, box, host, left>>
      /\ Mark(s) /\ row[s] = "open"
  BY DEF PostMessage, boxes
<1>4. Tidy(u)
  BY DEF AllTidy
<1>5. CASE u # s
  <2>1. \A v \in Turn : turn[v].inits # 0 => turn[v].pc # "authorized"
    BY TurnFields DEF TurnType
  <2> QED  BY <1>1, <1>2, <1>3, <1>4, <1>5, <2>1, MarkEffect, TidyKept
<1>6. CASE u = s
  <2> SUFFICES ASSUME s \notin overlapped'
               PROVE  (OneTurn(s) /\ OneRemoval(s) /\ Forgotten(s) /\ InTheMap(s))'
      BY <1>6 DEF Tidy
  <2>1. /\ s \notin overlapped /\ \A v \in Turn : turn[v].ses # s
        /\ s \notin deleting /\ \A r \in removing : r.ses # s
    BY <1>3, MarkEffect
  <2>2. InTheMap(s) /\ Forgotten(s)
    BY <1>4, <1>6, <2>1 DEF Tidy
  <2>3. OneTurn(s)'
    BY <1>1, <1>2, <1>3, <2>1 DEF OneTurn
  <2>4. OneRemoval(s)' /\ Forgotten(s)' /\ InTheMap(s)'
    BY <1>3, <2>1, <2>2 DEF OneRemoval, Forgotten, InTheMap
  <2> QED  BY <2>3, <2>4
<1> QED  BY <1>5, <1>6

LEMMA TidyEnter ==
    ASSUME AgentType, AllTidy, NEW t \in Turn, Enter(t)
    PROVE  AllTidy'
<1> SUFFICES ASSUME NEW u \in Session PROVE Tidy(u)'
    BY DEF AllTidy
<1>1. PICK x, s, e :
         /\ TurnType(x) /\ turn' = [turn EXCEPT ![t] = x] /\ s \in Session /\ e \in Own(s)
         /\ turn[t].ses = s /\ turn[t].pc = "authorized"
         /\ x.ses = s /\ x.exec \in Own(s) /\ x.pc \in {"append", "context", "fetch"}
         /\ executor[s] # None => e = executor[s] /\ box' = box
         /\ executor' = [executor EXCEPT ![s] = e]
         /\ \A d \in Executor : d # e => box'[d] = box[d]
         /\ agent' = [agent EXCEPT ![s] = IF Hit(t) THEN agent[s] ELSE None]
         /\ overlapped \subseteq overlapped'
         /\ x.exec = e \/ s \in overlapped'
  BY EnterEffect
<1>2. turn'[t] = x /\ \A v \in Turn \ {t} : turn'[v] = turn[v]
  BY <1>1, TurnSet
<1>3. UNCHANGED <<row, removing, deleting, host, left>> /\ x.inits = 0
  BY <1>1 DEF Enter, TurnType
<1>4. Tidy(u)
  BY DEF AllTidy
<1>5. /\ executor'[s] = e /\ \A v \in Session \ {s} : executor'[v] = executor[v]
      /\ \A v \in Session \ {s} : agent'[v] = agent[v]
  BY <1>1 DEF AgentType
<1>6. CASE u # s
  <2>1. \A d \in Own(u) : box'[d] = box[d]
    BY <1>1, <1>6 DEF Own
  <2>2. \A v \in Turn : turn[v].inits # 0 => turn[v].pc # "authorized"
    BY TurnFields DEF TurnType
  <2> QED  BY <1>1, <1>2, <1>3, <1>4, <1>5, <1>6, <2>1, <2>2, TidyKept
<1>7. CASE u = s
  <2> SUFFICES ASSUME s \notin overlapped'
               PROVE  (OneTurn(s) /\ OneRemoval(s) /\ Forgotten(s) /\ InTheMap(s))'
      BY <1>7 DEF Tidy
  <2>1. OneTurn(s) /\ InTheMap(s)
    BY <1>1, <1>4, <1>7 DEF Tidy
  <2>2. /\ \A v \in Turn : turn[v].ses = s => v = t
        /\ s \notin deleting /\ row[s] # "deleted" /\ \A r \in removing : r.ses # s
    BY <1>1, <2>1 DEF OneTurn
  <2>3. OneTurn(s)'
    BY <1>1, <1>2, <1>3, <1>5, <2>2 DEF OneTurn
  <2>4. OneRemoval(s)' /\ Forgotten(s)'
    BY <1>3, <2>2 DEF OneRemoval, Forgotten
  <2>5. InTheMap(s)'
    BY <1>1, <1>3, <1>5, <2>1 DEF InTheMap
  <2> QED  BY <2>3, <2>4, <2>5
<1> QED  BY <1>6, <1>7

(* A container that came up for a session that had none.                   *)
LEMMA TidyReady ==
    ASSUME AgentType, AllTidy, NEW t \in Turn, SandboxReady(t)
    PROVE  AllTidy'
<1> SUFFICES ASSUME NEW u \in Session PROVE Tidy(u)'
    BY DEF AllTidy
<1>1. PICK s \in Session : /\ s = turn[t].ses /\ turn[t].pc = "running"
                          /\ turn[t].exec \in Own(s) /\ turn[t].inits > 0
  BY TurnFields DEF SandboxReady, TurnType
<1>2. PICK b \in Box : /\ host[b] = None /\ host' = [host EXCEPT ![b] = s]
                       /\ box' = [box EXCEPT ![turn[t].exec] = b]
  BY <1>1 DEF SandboxReady
<1>3. PICK x : Moved(t, x)
  BY TurnMoves
<1>4. turn'[t] = x /\ \A v \in Turn \ {t} : turn'[v] = turn[v]
  BY <1>3, TurnSet DEF Moved
<1>5. /\ x.pc = "running" /\ x.ses = s /\ x.exec = turn[t].exec
      /\ x.inits = turn[t].inits - 1
  BY <1>1, <1>4, TurnFields DEF SandboxReady, AgentType, TurnRecord
<1>6. UNCHANGED <<row, removing, deleting, executor, agent, left, overlapped>>
  BY DEF SandboxReady
<1>7. Tidy(u)
  BY DEF AllTidy
<1>8. /\ host'[b] = s /\ \A c \in Box \ {b} : host'[c] = host[c]
      /\ box'[turn[t].exec] = b /\ \A e \in Executor \ {turn[t].exec} : box'[e] = box[e]
  BY <1>1, <1>2 DEF AgentType, Own
<1>9. CASE u # s
  <2>1. \A e \in Own(u) : box'[e] = box[e]
    BY <1>1, <1>8, <1>9 DEF Own
  <2>2. \A c \in Box : host'[c] = u /\ c \notin left' => host[c] = u /\ c \notin left
    BY <1>6, <1>8, <1>9
  <2>3. \A v \in Turn : turn[v].inits # 0 => turn[v].pc # "authorized"
    BY TurnFields DEF TurnType
  <2> QED  BY <1>4, <1>5, <1>6, <1>7, <1>9, <2>1, <2>2, <2>3, TidyKept
<1>10. CASE u = s
  <2> SUFFICES ASSUME s \notin overlapped
               PROVE  (OneTurn(s) /\ OneRemoval(s) /\ Forgotten(s) /\ InTheMap(s))'
      BY <1>6, <1>10 DEF Tidy
  <2>1. OneTurn(s) /\ InTheMap(s)
    BY <1>7, <1>10 DEF Tidy
  <2>2. /\ \A v \in Turn : turn[v].ses = s => v = t
        /\ s \notin deleting /\ row[s] # "deleted" /\ \A r \in removing : r.ses # s
        /\ turn[t].exec = executor[s] /\ box[executor[s]] = None /\ turn[t].inits = 1
    BY <1>1, <2>1 DEF OneTurn
  <2>3. OneTurn(s)'
    BY <1>4, <1>5, <1>6, <2>2 DEF OneTurn
  <2>4. OneRemoval(s)' /\ Forgotten(s)'
    BY <1>6, <2>2 DEF OneRemoval, Forgotten
  <2>5. InTheMap(s)'
    <3>1. \A c \in Box : host[c] = s /\ c \notin left => FALSE
      BY <2>1, <2>2, AgentAssumption DEF InTheMap
    <3>2. executor[s] # None
      BY <1>1, <2>2, AgentAssumption DEF Own, Executor
    <3> QED  BY <1>6, <1>8, <2>2, <3>1, <3>2 DEF InTheMap
  <2> QED  BY <2>3, <2>4, <2>5
<1> QED  BY <1>9, <1>10

LEMMA TidyDeleteSession ==
    ASSUME AgentType, AllTidy, NEW s \in Session, DeleteSession(s)
    PROVE  AllTidy'
<1> SUFFICES ASSUME NEW u \in Session PROVE Tidy(u)'
    BY DEF AllTidy
<1>1. UNCHANGED <<row, box, host, left, turn>> /\ Mark(s)
  BY DEF DeleteSession
<1>2. Tidy(u) /\ Tidy(s)
  BY DEF AllTidy
<1>3. \/ /\ removing' = removing /\ deleting' = deleting \cup {s}
         /\ executor' = [executor EXCEPT ![s] = None] /\ agent' = [agent EXCEPT ![s] = None]
         /\ executor[s] # None => box[executor[s]] = None
      \/ \E r \in Removal :
            /\ removing' = removing \cup {r} /\ UNCHANGED <<deleting, executor, agent>>
            /\ r.ses = s /\ r.exec = executor[s] /\ r.box = box[r.exec] /\ executor[s] # None
  <2>1. CASE Destroying("DELETE", s) = {} /\ (executor[s] # None => box[executor[s]] = None)
    BY <2>1 DEF DeleteSession
  <2>2. CASE \E r \in Removal :
                /\ Destroying("DELETE", s) = {r} /\ r.ses = s /\ r.exec = executor[s]
                /\ r.box = box[r.exec] /\ executor[s] # None
    BY <2>2 DEF DeleteSession
  <2> QED  BY <2>1, <2>2, DestroyingEffect
<1>4. CASE u # s
  <2>1. /\ executor'[u] = executor[u] /\ agent'[u] = agent[u]
        /\ u \in deleting' => u \in deleting
        /\ \A r \in removing' : r.ses = u => r \in removing
    BY <1>3, <1>4 DEF AgentType
  <2> QED  BY <1>1, <1>2, <1>4, <2>1, MarkEffect, TidyElsewhere
<1>5. CASE u = s
  <2> SUFFICES ASSUME s \notin overlapped'
               PROVE  (OneTurn(s) /\ OneRemoval(s) /\ Forgotten(s) /\ InTheMap(s))'
      BY <1>5 DEF Tidy
  <2>1. /\ s \notin overlapped /\ \A v \in Turn : turn[v].ses # s
        /\ s \notin deleting /\ \A r \in removing : r.ses # s
    BY <1>1, MarkEffect
  <2>2. InTheMap(s) /\ Forgotten(s)
    BY <1>2, <2>1 DEF Tidy
  <2>3. OneTurn(s)'
    BY <1>1, <2>1 DEF OneTurn
  <2>4. CASE /\ removing' = removing /\ deleting' = deleting \cup {s}
             /\ executor' = [executor EXCEPT ![s] = None]
             /\ agent' = [agent EXCEPT ![s] = None]
             /\ executor[s] # None => box[executor[s]] = None
    <3>1. executor'[s] = None /\ agent'[s] = None
      BY <2>4 DEF AgentType
    <3>2. \A b \in Box : ~(host[b] = s /\ b \notin left)
      BY <2>2, <2>4, AgentAssumption DEF InTheMap
    <3> QED  BY <1>1, <2>1, <2>3, <2>4, <3>1, <3>2 DEF OneRemoval, Forgotten, InTheMap
  <2>5. CASE \E r \in Removal :
                /\ removing' = removing \cup {r} /\ UNCHANGED <<deleting, executor, agent>>
                /\ r.ses = s /\ r.exec = executor[s] /\ r.box = box[r.exec] /\ executor[s] # None
    <3>1. OneRemoval(s)'
      BY <1>1, <2>1, <2>5 DEF OneRemoval
    <3>2. Forgotten(s)' /\ InTheMap(s)'
      BY <1>1, <2>2, <2>5 DEF Forgotten, InTheMap
    <3> QED  BY <2>3, <3>1, <3>2
  <2> QED  BY <1>3, <2>4, <2>5
<1> QED  BY <1>4, <1>5

LEMMA TidyDestroyNext ==
    ASSUME AgentType, AllTidy, NEW s \in Session, DestroyNext(s)
    PROVE  AllTidy'
<1> SUFFICES ASSUME NEW u \in Session PROVE Tidy(u)'
    BY DEF AllTidy
<1>1. UNCHANGED <<row, box, host, left, turn, agent, deleting>> /\ Mark(s)
  BY DEF DestroyNext
<1>2. Tidy(u) /\ Tidy(s)
  BY DEF AllTidy
<1>3. \/ /\ removing' = removing /\ executor' = [executor EXCEPT ![s] = None]
         /\ executor[s] # None => box[executor[s]] = None
      \/ \E r \in Removal :
            /\ removing' = removing \cup {r} /\ executor' = executor
            /\ r.ses = s /\ r.exec = executor[s] /\ r.box = box[r.exec] /\ executor[s] # None
  <2>1. CASE Destroying("shutdown", s) = {} /\ (executor[s] # None => box[executor[s]] = None)
    BY <2>1 DEF DestroyNext
  <2>2. CASE \E r \in Removal :
                /\ Destroying("shutdown", s) = {r} /\ r.ses = s /\ r.exec = executor[s]
                /\ r.box = box[r.exec] /\ executor[s] # None
    BY <2>2 DEF DestroyNext, AgentType
  <2> QED  BY <2>1, <2>2, DestroyingEffect
<1>4. CASE u # s
  <2>1. /\ executor'[u] = executor[u]
        /\ \A r \in removing' : r.ses = u => r \in removing
    BY <1>3, <1>4 DEF AgentType
  <2> QED  BY <1>1, <1>2, <1>4, <2>1, MarkEffect, TidyElsewhere
<1>5. CASE u = s
  <2> SUFFICES ASSUME s \notin overlapped'
               PROVE  (OneTurn(s) /\ OneRemoval(s) /\ Forgotten(s) /\ InTheMap(s))'
      BY <1>5 DEF Tidy
  <2>1. /\ s \notin overlapped /\ \A v \in Turn : turn[v].ses # s
        /\ s \notin deleting /\ \A r \in removing : r.ses # s
    BY <1>1, MarkEffect
  <2>2. InTheMap(s) /\ Forgotten(s)
    BY <1>2, <2>1 DEF Tidy
  <2>3. OneTurn(s)'
    BY <1>1, <2>1 DEF OneTurn
  <2>4. CASE /\ removing' = removing /\ executor' = [executor EXCEPT ![s] = None]
             /\ executor[s] # None => box[executor[s]] = None
    <3>1. executor'[s] = None
      BY <2>4 DEF AgentType
    <3>2. \A b \in Box : ~(host[b] = s /\ b \notin left)
      BY <2>2, <2>4, AgentAssumption DEF InTheMap
    <3> QED  BY <1>1, <2>1, <2>2, <2>3, <2>4, <3>1, <3>2 DEF OneRemoval, Forgotten, InTheMap
  <2>5. CASE \E r \in Removal :
                /\ removing' = removing \cup {r} /\ executor' = executor
                /\ r.ses = s /\ r.exec = executor[s] /\ r.box = box[r.exec] /\ executor[s] # None
    <3>1. OneRemoval(s)'
      BY <1>1, <2>1, <2>5 DEF OneRemoval
    <3>2. Forgotten(s)' /\ InTheMap(s)'
      BY <1>1, <2>2, <2>5 DEF Forgotten, InTheMap
    <3> QED  BY <2>3, <3>1, <3>2
  <2> QED  BY <1>3, <2>4, <2>5
<1> QED  BY <1>4, <1>5

LEMMA TidyRows ==
    ASSUME AgentType, AllTidy, NEW s \in Session,
           CreateSession(s) \/ DeleteRow(s) \/ RowStays(s)
    PROVE  AllTidy'
<1> SUFFICES ASSUME NEW u \in Session PROVE Tidy(u)'
    BY DEF AllTidy
<1>1. UNCHANGED <<box, host, left, turn, removing, executor, agent, overlapped>>
  BY DEF CreateSession, DeleteRow, RowStays, boxes
<1>2. Tidy(u)
  BY DEF AllTidy
<1>3. CASE u # s \/ CreateSession(s) \/ RowStays(s)
  <2>1. row'[u] = "deleted" => row[u] = "deleted"
    BY <1>3 DEF CreateSession, DeleteRow, RowStays, AgentType
  <2>2. deleting' \subseteq deleting
    BY DEF CreateSession, DeleteRow, RowStays
  <2>3. UNCHANGED <<box, host, left, turn, removing, executor, agent, overlapped>>
    BY <1>1
  <2>4. \A v \in Turn : turn[v].inits # 0 => turn[v].pc # "authorized"
    BY TurnFields DEF TurnType
  <2> QED  BY <1>2, <2>1, <2>2, <2>3, <2>4, TidyKept
<1>4. CASE u = s /\ DeleteRow(s)
  <2>1. s \in deleting /\ deleting' = deleting \ {s}
    BY <1>4 DEF DeleteRow
  <2> SUFFICES ASSUME s \notin overlapped
               PROVE  (OneTurn(s) /\ OneRemoval(s) /\ Forgotten(s) /\ InTheMap(s))'
      BY <1>1, <1>4 DEF Tidy
  <2>2. OneTurn(s) /\ OneRemoval(s) /\ Forgotten(s) /\ InTheMap(s)
    BY <1>2, <1>4 DEF Tidy
  <2>3. (\A v \in Turn : turn[v].ses # s) /\ \A r \in removing : r.ses # s
    BY <2>1, <2>2 DEF OneTurn, OneRemoval
  <2>4. OneTurn(s)' /\ OneRemoval(s)'
    BY <1>1, <2>3 DEF OneTurn, OneRemoval
  <2>5. Forgotten(s)' /\ InTheMap(s)'
    BY <1>1, <2>1, <2>2 DEF Forgotten, InTheMap
  <2> QED  BY <2>4, <2>5
<1> QED  BY <1>3, <1>4

LEMMA TidyRemoved ==
    ASSUME AgentType, AllTidy, NEW r \in removing, Removed(r)
    PROVE  AllTidy'
<1> SUFFICES ASSUME NEW u \in Session PROVE Tidy(u)'
    BY DEF AllTidy
<1>1. /\ r \in Removal /\ r.ses \in Session /\ r.exec \in Own(r.ses) /\ r.box \in Box
      /\ r.by \in {"DELETE", "shutdown"}
  BY DEF AgentType, Removal
<1>2. /\ UNCHANGED <<row, turn, overlapped>>
      /\ removing' = removing \ {r} /\ left' = left \ {r.box}
      /\ deleting' = IF r.by = "DELETE" THEN deleting \cup {r.ses} ELSE deleting
  BY DEF Removed
<1>3. /\ executor'[r.ses] = None /\ \A v \in Session \ {r.ses} : executor'[v] = executor[v]
      /\ agent'[r.ses] = IF r.by = "DELETE" THEN None ELSE agent[r.ses]
      /\ \A v \in Session \ {r.ses} : agent'[v] = agent[v]
      /\ box'[r.exec] = None /\ \A e \in Executor \ {r.exec} : box'[e] = box[e]
      /\ host'[r.box] = None /\ \A b \in Box \ {r.box} : host'[b] = host[b]
  BY <1>1 DEF Removed, AfterDestroy, AgentType, Own
<1>4. Tidy(u)
  BY DEF AllTidy
<1>5. \A b \in Box : host'[b] = u /\ b \notin left' => b # r.box /\ host[b] = u /\ b \notin left
  <2>1. host'[r.box] # u
    BY <1>3, AgentAssumption
  <2> QED  BY <1>2, <1>3, <2>1
<1>6. CASE u # r.ses
  <2>1. \A e \in Own(u) : box'[e] = box[e]
    BY <1>1, <1>3, <1>6 DEF Own
  <2>2. \A q \in removing' : q.ses = u => q \in removing
    BY <1>2
  <2>3. u \in deleting' => u \in deleting
    BY <1>2, <1>6
  <2> QED  BY <1>1, <1>2, <1>3, <1>4, <1>5, <1>6, <2>1, <2>2, <2>3, TidyElsewhere
<1>7. CASE u = r.ses
  <2> SUFFICES ASSUME u \notin overlapped
               PROVE  (OneTurn(u) /\ OneRemoval(u) /\ Forgotten(u) /\ InTheMap(u))'
      BY <1>2 DEF Tidy
  <2>1. OneTurn(u) /\ OneRemoval(u) /\ Forgotten(u) /\ InTheMap(u)
    BY <1>4 DEF Tidy
  <2>2. /\ \A v \in Turn : turn[v].ses # u
        /\ \A q \in removing : q.ses = u => q = r
        /\ u \notin deleting /\ executor[u] = r.exec /\ box[r.exec] = r.box
    BY <1>7, <2>1 DEF OneTurn, OneRemoval
  <2>3. row[u] # "deleted"
    BY <1>1, <2>1, <2>2, AgentAssumption DEF Forgotten, Own, Executor
  <2>4. OneTurn(u)' /\ OneRemoval(u)'
    BY <1>2, <2>2 DEF OneTurn, OneRemoval
  <2>5. Forgotten(u)'
    BY <1>2, <1>3, <1>7, <2>2, <2>3 DEF Forgotten
  <2>6. InTheMap(u)'
    BY <1>5, <2>1, <2>2 DEF InTheMap
  <2> QED  BY <2>4, <2>5, <2>6
<1> QED  BY <1>6, <1>7

(* What is left behind counts as left, and nothing of a session that was   *)
(* worked on by one request at a time is.                                  *)
LEMMA TidyRestart ==
    ASSUME AgentType, AllTidy, (\E t \in Turn : Crash(t)) \/ Exit
    PROVE  AllTidy'
<1> SUFFICES ASSUME NEW u \in Session PROVE Tidy(u)'
    BY DEF AllTidy
<1>1. Restart
  BY DEF Crash, Exit
<1>2. /\ UNCHANGED row /\ deleting' = {} /\ removing' = {}
      /\ \A s \in Session : executor'[s] = None /\ agent'[s] = None
      /\ \A t \in Turn : turn'[t].ses # u
  BY <1>1, RestartEffect, IdleType, AgentAssumption
<1>3. OneTurn(u)' /\ OneRemoval(u)' /\ Forgotten(u)'
  BY <1>2 DEF OneTurn, OneRemoval, Forgotten
<1>4. \A b \in Box : ~(host'[b] = u /\ b \notin left')
  <2> SUFFICES ASSUME NEW b \in Box, host'[b] = u, b \notin left' PROVE FALSE
      OBVIOUS
  <2>1. host'[b] # None /\ u # None
    BY AgentAssumption
  <2>2. CASE \E t \in Turn : Crash(t)
    BY <2>1, <2>2 DEF Crash
  <2>3. CASE Exit
    <3>1. /\ host[b] # None /\ b \notin left /\ host[b] \notin overlapped
          /\ executor[u] = None
      BY <2>1, <2>3 DEF Exit
    <3>2. host[b] = u
      BY <1>1, <2>1, <3>1, RestartEffect
    <3> QED  BY <3>1, <3>2 DEF AllTidy, Tidy, InTheMap
  <2> QED  BY <2>2, <2>3
<1>5. InTheMap(u)'
  BY <1>4 DEF InTheMap
<1> QED  BY <1>3, <1>5 DEF Tidy

LEMMA TidyNext == AgentType /\ AllTidy /\ [AgentNext]_agentVars => AllTidy'
<1> SUFFICES ASSUME AgentType, AllTidy, [AgentNext]_agentVars PROVE AllTidy'
    OBVIOUS
<1>1. ASSUME NEW s \in Session,
             CreateSession(s) \/ DeleteSession(s) \/ DeleteRow(s) \/ RowStays(s) \/ DestroyNext(s)
      PROVE  AllTidy'
  BY <1>1, TidyDeleteSession, TidyDestroyNext, TidyRows
<1>2. ASSUME NEW t \in Turn, NEW s \in Session, NEW m \in Model, PostMessage(t, s, m)
      PROVE  AllTidy'
  BY <1>2, TidyPost
<1>3. ASSUME NEW t \in Turn, Enter(t) PROVE AllTidy'
  BY <1>3, TidyEnter
<1>4. ASSUME NEW t \in Turn,
             \/ FetchKey(t) \/ CacheKey(t) \/ CacheAgent(t) \/ DatabaseFails(t) \/ AppendUser(t)
             \/ InitSandbox(t) \/ SandboxError(t) \/ EndSilently(t) \/ EndWithText(t)
      PROVE  AllTidy'
  BY <1>4, TidyMoves
<1>5. ASSUME NEW t \in Turn, SandboxReady(t) PROVE AllTidy'
  BY <1>5, TidyReady
<1>6. ASSUME NEW r \in removing, Removed(r) PROVE AllTidy'
  BY <1>6, TidyRemoved
<1>7. CASE (\E t \in Turn : Crash(t)) \/ Exit
  BY <1>7, TidyRestart
<1>8. CASE Signal \/ UpdateKey \/ InvalidateProvider \/ NoticeLost \/ CacheExpires
           \/ UNCHANGED agentVars
  <2>1. /\ UNCHANGED <<row, executor, box, host, left, turn, deleting, removing, overlapped>>
        /\ \A s \in Session : agent'[s] \in {agent[s], None}
    BY <1>8 DEF Signal, UpdateKey, InvalidateProvider, NoticeLost, CacheExpires, agentVars, boxes
  <2>2. \A t \in Turn : turn[t].inits # 0 => turn[t].pc # "authorized"
    BY TurnFields DEF TurnType
  <2> QED  BY <2>1, <2>2, TidyKept DEF AllTidy
<1> QED  BY <1>1, <1>2, <1>3, <1>4, <1>5, <1>6, <1>7, <1>8 DEF AgentNext

LEMMA TidyHolds == AgentSpec => []AllTidy
  BY TidyInit, TidyNext, AgentTypeHolds, PTL DEF AgentSpec

(* A sandbox container that runs belongs to its session's executor, where  *)
(* DELETE and shutdown() find it, for any sessions, turns and containers.  *)
(* Exempt are what an earlier process left, and a session that two         *)
(* requests worked on at once, in which one turn started two sandboxes at  *)
(* once, or whose cached agent kept an executor the map no longer has.     *)
THEOREM SandboxesFound == AgentSpec => []NoOrphanSandbox
<1>1. AgentType /\ AllTidy => NoOrphanSandbox
  BY DEF AllTidy, Tidy, InTheMap, NoOrphanSandbox, AgentType
<1> QED  BY <1>1, AgentTypeHolds, TidyHolds, PTL

(* A deleted session leaves nothing in the process, with the same          *)
(* exemptions as above.                                                    *)
THEOREM NothingLeft == AgentSpec => []DeletedLeavesNothing
<1>1. AllTidy => DeletedLeavesNothing
  BY DEF AllTidy, Tidy, Forgotten, InTheMap, DeletedLeavesNothing
<1> QED  BY <1>1, TidyHolds, PTL
==============================================================================
