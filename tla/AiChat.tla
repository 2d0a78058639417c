------------------------------- MODULE AiChat -------------------------------
(* The assistant panel of the web UI: the hooks useAiChat and useAIStream  *)
(* (frontend/ui/src/features/ai-assistant/hooks), whose state lives above  *)
(* the pages and survives navigation. One action per handler, effect or    *)
(* piece of code between two awaits.                                       *)
(*                                                                         *)
(* A session is named by the message that created it, or by its project    *)
(* when it existed before; of a chat message the view keeps where it is    *)
(* from, its kind, and whether it still shows the streaming cursor.        *)
EXTENDS Naturals, FiniteSets

CONSTANTS
    Project,   \* projects; each has one saved session, of the same name
    MaxSends,  \* bound on the messages sent
    MaxGeneration, \* bound on the messages sent and aborts together
    MaxLoads,  \* bound on the reads of saved messages under way at once
    NoChat     \* no project, no session

Send == 1 .. MaxSends
Chat == Project \cup Send

ASSUME AiChatAssumption ==
    /\ {MaxSends, MaxGeneration, MaxLoads} \subseteq Nat
    /\ Project \cap Send = {} /\ NoChat \notin Chat

VARIABLES
    project,    \* the project of the page's path, or NoChat
    pinned,     \* aiInitialSessionId: the session the page opened the chat on
    chatId,     \* sessionIdRef
    view,       \* messages
    run,        \* the calls of handleSend and the streams they opened
    sending,    \* isSending
    streaming,  \* isStreaming of useAIStream
    generation, \* generationRef
    latest,     \* latestSendRef
    aborter,    \* the call whose AbortController abortRef holds, or 0
    loads,      \* reads of a session's messages under way
    closed,     \* history: nothing was done since the panel was closed
    dead        \* history: streams that were aborted or superseded

chatVars == <<project, pinned, chatId, view, run, sending, streaming, generation, latest,
              aborter, loads, closed, dead>>

stream == <<streaming, generation, latest, aborter, dead>>

NoRun == [pc |-> "new", project |-> NoChat, chat |-> NoChat, gen |-> 0, bubble |-> FALSE]

AiChatInit ==
    /\ project = NoChat /\ pinned = NoChat /\ chatId = NoChat
    /\ view = {} /\ loads = {}
    /\ run = [n \in Send |-> NoRun]
    /\ sending = FALSE /\ streaming = FALSE
    /\ generation = 0 /\ latest = 0 /\ aborter = 0
    /\ closed = FALSE /\ dead = {}

Message(from, kind, open) == [from |-> from, kind |-> kind, open |-> open]

(* The project a session belongs to. *)
Home(c) == IF c \in Send THEN run[c].project ELSE c

Reading == {n \in Send : run[n].pc \in {"fetch", "read"}}
Running == Reading \cup {n \in Send : run[n].pc = "cut"}

(* safeSetMessages: only the stream of the current generation writes.      *)
WriteAnyway(n, new) == view' = new

Write(n, new) == view' = IF run[n].gen = generation THEN new ELSE view

Frozen(n, items) ==
    {IF m.from = n THEN [m EXCEPT !.open = FALSE] ELSE m : m \in items}

-----------------------------------------------------------------------------
(* sendMessage: the new stream supersedes the one before, whose reader and *)
(* request are cancelled; its code goes on when they tell it.              *)
CutBefore(n) ==
    IF n = aborter /\ n \in Reading THEN [run[n] EXCEPT !.pc = "cut"] ELSE run[n]

BeginStream(n, c, p) ==
    /\ chatId' = c
    /\ generation < MaxGeneration
    /\ generation' = generation + 1 /\ latest' = generation + 1
    /\ run' = [k \in Send |->
         IF k = n THEN [pc |-> "fetch", project |-> p, chat |-> c, gen |-> generation + 1,
                        bubble |-> FALSE]
         ELSE CutBefore(k)]
    /\ aborter' = n /\ streaming' = TRUE /\ sending' = FALSE
    /\ view' = view \cup {Message(n, "user", FALSE)}
    /\ dead' = dead \cup {k \in Send \ {n} : run[k].pc \notin {"new", "create"}}
    /\ UNCHANGED <<project, pinned, loads>>

(* handleSend with a session at hand, and without one: POST /sessions.     *)
NextMessage(n) ==
    /\ run[n].pc = "new" /\ \A k \in Send : k < n => run[k].pc # "new"
    /\ project # NoChat /\ closed' = FALSE

SendNow(n) ==
    /\ NextMessage(n) /\ chatId # NoChat
    /\ BeginStream(n, chatId, project)

SendFirst(n) ==
    /\ NextMessage(n) /\ chatId = NoChat
    /\ run' = [run EXCEPT ![n].pc = "create", ![n].project = project]
    /\ sending' = TRUE
    /\ UNCHANGED <<project, pinned, chatId, view, stream, loads>>

(* The session is there: the rest of handleSend runs with the project it   *)
(* captured, whatever the page shows by now.                               *)
Created(n) ==
    /\ run[n].pc = "create"
    /\ BeginStream(n, n, run[n].project)
    /\ UNCHANGED closed

NotCreated(n) ==
    /\ run[n].pc = "create"
    /\ run' = [run EXCEPT ![n].pc = "done"]
    /\ sending' = FALSE
    /\ UNCHANGED <<project, pinned, chatId, view, stream, loads, closed>>

-----------------------------------------------------------------------------
(* The loop that reads a stream. One that was cut may still handle what    *)
(* had arrived; nothing but the generation keeps it off the view.          *)

Step(n) ==
    /\ n \in Running
    /\ UNCHANGED <<project, pinned, chatId, sending, stream, loads, closed>>

Response(n) ==
    /\ Step(n) /\ run[n].pc = "fetch"
    /\ run' = [run EXCEPT ![n].pc = "read"]
    /\ UNCHANGED view

(* text_delta, thinking_delta: to the open bubble, or to a new one.        *)
TextDelta(n) ==
    /\ Step(n) /\ run[n].pc \in {"read", "cut"} /\ ~run[n].bubble
    /\ run' = [run EXCEPT ![n].bubble = TRUE]
    /\ Write(n, view \cup {Message(n, "reply", TRUE)})

(* tool_execution_start and error events: the bubble is frozen, and a tool *)
(* step or the error shown in it or below.                                 *)
ToolOrError(n) ==
    /\ Step(n) /\ run[n].pc \in {"read", "cut"}
    /\ run' = [run EXCEPT ![n].bubble = FALSE]
    /\ Write(n, Frozen(n, view) \cup {Message(n, "reply", FALSE)})

(* finally: freeze the last bubble; a superseded stream leaves the flag    *)
(* and the references to its successor.                                    *)
OfThisGeneration(n) == run[n].gen = generation

OfLatestSend(n) == run[n].gen = latest

End(n, new) ==
    /\ n \in Running
    /\ run' = [run EXCEPT ![n].pc = "done", ![n].bubble = FALSE]
    /\ Write(n, IF run[n].bubble THEN Frozen(n, new) ELSE new)
    /\ streaming' = IF OfLatestSend(n) THEN FALSE ELSE streaming
    /\ aborter' = IF OfLatestSend(n) THEN 0 ELSE aborter
    /\ UNCHANGED <<project, pinned, chatId, sending, generation, latest, dead, loads, closed>>

(* The stream ends, or is cut. *)
StreamDone(n) == run[n].pc \in {"read", "cut"} /\ End(n, view)

(* HTTP or network error: an error message first.                          *)
Failed(n) ==
    /\ n \in Reading
    /\ End(n, IF run[n].bubble THEN view ELSE view \cup {Message(n, "reply", FALSE)})

-----------------------------------------------------------------------------
(* The buttons of the panel. *)

Cut == run' = [k \in Send |-> CutBefore(k)]

(* abort(), as the Stop button calls it: it stops no POST /sessions. *)
AbortStream ==
    /\ generation < MaxGeneration
    /\ generation' = generation + 1
    /\ dead' = dead \cup {k \in Send : run[k].pc \notin {"new", "create"}}
    /\ UNCHANGED <<streaming, latest, aborter>>

Stop ==
    /\ sending \/ streaming \/ \E m \in view : m.open
    /\ AbortStream /\ Cut
    /\ UNCHANGED <<project, pinned, chatId, view, sending, loads, closed>>

NewSession ==
    /\ chatId' = NoChat /\ view' = {}
    /\ closed' = FALSE
    /\ UNCHANGED <<project, pinned, run, sending, stream, loads>>

(* handleClose aborts the stream and every POST /sessions.                 *)
CutAtClose(k) == CutBefore(k)

CutAndDropped(k) ==
    IF run[k].pc = "create" THEN [run[k] EXCEPT !.pc = "done"] ELSE CutBefore(k)

Unpin == pinned' = NoChat /\ loads' = {l \in loads : ~l.pinned}

Close ==
    /\ run' = [k \in Send |-> CutAndDropped(k)]
    /\ sending' = (sending /\ \A k \in Send : run[k].pc # "create")
    /\ AbortStream
    /\ chatId' = NoChat /\ view' = {} /\ closed' = TRUE
    /\ Unpin
    /\ UNCHANGED project

(* A saved session, or one created by a message, of this project.          *)
Listed == {c \in Chat : /\ project # NoChat /\ Home(c) = project
                        /\ c \in Send => \E n \in Send : run[n].chat = c}

Load(c, pin) == [chat |-> c, pinned |-> pin]

SelectSession(c) ==
    /\ c \in Listed
    /\ Cardinality(loads) < MaxLoads
    /\ chatId' = c /\ view' = {}
    /\ loads' = loads \cup {Load(c, FALSE)}
    /\ closed' = FALSE
    /\ UNCHANGED <<project, pinned, run, sending, stream>>

(* Its messages replace what the view shows by then. *)
Loaded(l) ==
    /\ l \in loads /\ loads' = loads \ {l}
    /\ view' \in {{Message(l.chat, "history", FALSE)}, view}
    /\ UNCHANGED <<project, pinned, chatId, run, sending, stream, closed>>

(* The session was deleted from the history list. *)
DeleteListed(c) ==
    /\ c \in Listed /\ c = chatId
    /\ chatId' = NoChat /\ view' = {}
    /\ UNCHANGED <<project, pinned, run, sending, stream, loads, closed>>

-----------------------------------------------------------------------------
(* The effects of useAiChat: on another project the chat is reset, unless  *)
(* a session is pinned; on a pinned session the chat is put on it.         *)

(* The page of a trace opens the chat on the session of its RCA. *)
Pin ==
    /\ project # NoChat /\ pinned # project /\ Cardinality(loads) < MaxLoads
    /\ pinned' = project /\ chatId' = project /\ view' = {}
    /\ loads' = {l \in loads : ~l.pinned} \cup {Load(project, TRUE)}
    /\ closed' = FALSE
    /\ UNCHANGED <<project, run, sending, stream>>

(* The assistant button opens or hides the panel without its RCA session.  *)
Toggle ==
    /\ pinned # NoChat
    /\ Unpin
    /\ UNCHANGED <<project, chatId, view, run, sending, stream, closed>>

(* The path changes: the effects of the chat run before the layout drops   *)
(* the pinned session.                                                     *)
Navigate(p) ==
    /\ p # project
    /\ project' = p
    /\ Unpin
    /\ IF pinned = NoChat THEN chatId' = NoChat /\ view' = {}
       ELSE IF p # NoChat THEN chatId' = pinned /\ view' = {}
       ELSE UNCHANGED <<chatId, view>>
    /\ closed' = FALSE
    /\ UNCHANGED <<run, sending, stream>>

AiChatNext ==
    \/ \E n \in Send :
        \/ SendNow(n) \/ SendFirst(n) \/ Created(n) \/ NotCreated(n)
        \/ Response(n) \/ TextDelta(n) \/ ToolOrError(n) \/ StreamDone(n) \/ Failed(n)
    \/ Stop \/ NewSession \/ Close
    \/ \E c \in Chat : SelectSession(c) \/ DeleteListed(c)
    \/ \E l \in loads : Loaded(l)
    \/ Pin \/ Toggle \/ \E p \in Project \cup {NoChat} : Navigate(p)

AiChatSpec == AiChatInit /\ [][AiChatNext]_chatVars

-----------------------------------------------------------------------------
(* The flag behind the Stop button is set exactly while the latest message *)
(* is worked on, also when it was aborted or when older streams end after  *)
(* it began.                                                               *)
FlagFollowsLatest ==
    streaming <=> \E n \in Running : run[n].gen = latest

(* An aborted or superseded stream adds nothing to the view any more.      *)
DeadStreamsAreSilent ==
    [][\A m \in view' \ view : m.kind = "history" \/ m.from \notin dead]_chatVars

(* After the panel is closed the chat stays without a session, and only a  *)
(* history that was being loaded can still appear. ("prevent post-close    *)
(* resurrection", use-ai-chat.ts)                                          *)
ClosedStaysClosed ==
    closed => /\ chatId = NoChat
              /\ \A m \in view : m.kind = "history"

(* "Freeze the last open bubble (if streaming was cut short)."             *)
(* (use-ai-stream.ts)                                                      *)
NoOpenBubbleLeft == Running = {} => \A m \in view : ~m.open
=============================================================================
