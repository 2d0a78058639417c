---------------------------- MODULE AgentService ----------------------------
(* The agent service (frontend/packages/agent): the sandboxes, agents and  *)
(* provider keys it keeps in memory for chat sessions, while messages are  *)
(* answered, sessions are deleted, a provider's key is replaced, and the   *)
(* process stops or dies.                                                  *)
(*                                                                         *)
(* Node runs one callback at a time: an action is what happens between two *)
(* awaits. A key is the number of the update that stored it.               *)
EXTENDS Naturals, FiniteSets

CONSTANTS
    Session,      \* chat sessions
    Turn,         \* slots for POST .../messages requests under way
    Model,        \* models of one BYOK provider
    Object,       \* executor objects of a session
    Box,          \* sandbox containers
    MaxPosts,     \* bound on the messages sent
    MaxKeys,      \* bound on the updates of the provider
    MaxSignals,   \* bound on SIGTERMs
    MaxInits,     \* bound on the tool calls of a turn that start a sandbox at once
    None          \* no executor, no container, no agent

ASSUME AgentAssumption ==
    /\ {MaxPosts, MaxKeys, MaxSignals, MaxInits} \subseteq Nat
    /\ None \notin Session \cup Model \cup Box \cup Nat \cup (Session \X Object)

VARIABLES
    row,       \* the AISession row: "none", "open", "deleted"
    dbKey,     \* the key in the ModelProvider row
    answered,  \* the key of the last update that was answered
    notice,    \* the update's call to invalidate-provider is under way
    cache,     \* configCache: the provider's key, or None
    executor,  \* sessionExecutors: the executor of a session, or None
    agent,     \* sessionAgents and sessionModels: [model, key, exec], or None
    box,       \* containerId of an executor, or None
    host,      \* the session a running container was started for, or None
    turn,      \* the requests under way
    deleting,  \* sessions whose DELETE is about to delete the row
    removing,  \* calls of destroy() that wait for "docker rm"
    stopping,  \* a signal arrived and shutdown() runs
    overlapped,\* history: sessions that two requests worked on at once, in which a
               \* turn started two sandboxes at once, or whose cached agent has an
               \* executor that is no longer the one in the map
    left,      \* history: containers an earlier process left running
    stale,     \* history: an old key was stored after its notice, or no notice
    posts, signals

agentVars == <<row, dbKey, answered, notice, cache, executor, agent, box, host, turn,
               deleting, removing, stopping, overlapped, left, stale, posts, signals>>

keys   == <<dbKey, answered, notice, cache, stale>>
boxes  == <<box, host, removing, left>>
others == <<stopping, signals>>

(* The executor objects of a session: the one in the map, and those that   *)
(* older requests or its cached agent may still hold.                      *)
Executor == Session \X Object

Idle == [pc |-> "idle", ses |-> None, model |-> None, exec |-> None,
         key |-> 0, due |-> 0, inits |-> 0]

AgentInit ==
    /\ row = [s \in Session |-> "none"]
    /\ dbKey = 1 /\ answered = 1 /\ notice = FALSE /\ cache = None
    /\ executor = [s \in Session |-> None]
    /\ agent = [s \in Session |-> None]
    /\ box = [e \in Executor |-> None]
    /\ host = [b \in Box |-> None]
    /\ turn = [t \in Turn |-> Idle]
    /\ deleting = {} /\ removing = {} /\ stopping = FALSE
    /\ overlapped = {} /\ left = {} /\ stale = FALSE
    /\ posts = 0 /\ signals = 0

(* Some request works on the session's executor. *)
Busy(s) ==
    \/ \E t \in Turn : turn[t].ses = s
    \/ s \in deleting
    \/ \E r \in removing : r.ses = s

Mark(s) == overlapped' = IF Busy(s) THEN overlapped \cup {s} ELSE overlapped

-----------------------------------------------------------------------------
(* Answering a message. *)

TurnAt(t, pc) == turn[t].pc = pc

Finish(t) == turn' = [turn EXCEPT ![t] = Idle]

CreateSession(s) ==
    /\ row[s] = "none"
    /\ row' = [row EXCEPT ![s] = "open"]
    /\ UNCHANGED <<keys, boxes, executor, agent, turn, deleting, overlapped, others, posts>>

(* The route finds the session; without a row it answers 404. The update   *)
(* that was answered by now is the one the turn is entitled to.            *)
PostMessage(t, s, m) ==
    /\ TurnAt(t, "idle") /\ posts < MaxPosts /\ row[s] = "open"
    /\ posts' = posts + 1
    /\ turn' = [turn EXCEPT ![t] = [Idle EXCEPT !.pc = "authorized", !.ses = s,
                                                !.model = m, !.due = answered]]
    /\ Mark(s)
    /\ UNCHANGED <<row, keys, boxes, executor, agent, deleting, others>>

(* A new executor object: one that nobody holds. *)
Fresh(s) ==
    {e \in Executor : /\ e[1] = s
                      /\ agent[s] # None => agent[s].exec # e
                      /\ \A t \in Turn : turn[t].exec # e
                      /\ \A r \in removing : r.exec # e}

Hit(t) ==
    LET a == agent[turn[t].ses] IN a # None /\ a.model = turn[t].model

(* Up to the first await of getOrCreateAgent: the session's executor is    *)
(* taken or created, and a cached agent of the same model is used as it    *)
(* is, with the tools, and so the executor, that it was built with. One of *)
(* another model is discarded, and the provider's row is read unless its   *)
(* key is cached.                                                          *)
Enter(t) ==
    LET s == turn[t].ses IN
    /\ TurnAt(t, "authorized")
    /\ \E e \in IF executor[s] # None THEN {executor[s]} ELSE Fresh(s) :
        /\ executor' = [executor EXCEPT ![s] = e]
        /\ box' = [box EXCEPT ![e] = IF executor[s] # None THEN @ ELSE None]
        /\ overlapped' = IF Hit(t) /\ agent[s].exec # e THEN overlapped \cup {s}
                                                         ELSE overlapped
        /\ turn' = [turn EXCEPT
             ![t].exec = IF Hit(t) THEN agent[s].exec ELSE e,
             ![t].pc   = IF Hit(t) THEN "append" ELSE IF cache # None THEN "context" ELSE "fetch",
             ![t].key  = IF Hit(t) THEN agent[s].key ELSE IF cache # None THEN cache ELSE 0]
    /\ agent' = [agent EXCEPT ![s] = IF Hit(t) THEN @ ELSE None]
    /\ UNCHANGED <<row, keys, host, removing, left, deleting, others, posts>>

(* fetchProviderConfig reads the row ... *)
FetchKey(t) ==
    /\ TurnAt(t, "fetch")
    /\ turn' = [turn EXCEPT ![t].pc = "fetched", ![t].key = dbKey]
    /\ UNCHANGED <<row, keys, boxes, executor, agent, deleting, overlapped, others, posts>>

(* ... and caches what it read. *)
CacheKey(t) ==
    /\ TurnAt(t, "fetched")
    /\ cache' = turn[t].key
    /\ stale' = (stale \/ turn[t].key < answered)
    /\ turn' = [turn EXCEPT ![t].pc = "context"]
    /\ UNCHANGED <<row, dbKey, answered, notice, boxes, executor, agent, deleting, overlapped,
                   others, posts>>

(* The history is loaded and the new agent cached. *)
CacheAgent(t) ==
    /\ TurnAt(t, "context")
    /\ agent' = [agent EXCEPT ![turn[t].ses] =
                    [model |-> turn[t].model, key |-> turn[t].key, exec |-> turn[t].exec]]
    /\ stale' = (stale \/ turn[t].key < answered)
    /\ turn' = [turn EXCEPT ![t].pc = "append"]
    /\ UNCHANGED <<row, dbKey, answered, notice, cache, boxes, executor, deleting, overlapped,
                   others, posts>>

(* A read or write of the database fails, and the route with it.           *)
DatabaseFails(t) ==
    /\ turn[t].pc \in {"fetch", "context", "append"}
    /\ Finish(t)
    /\ UNCHANGED <<row, keys, boxes, executor, agent, deleting, overlapped, others, posts>>

(* The user's message and the title are stored; without the row that fails *)
(* and the route with it. From here on the turn runs with the key its      *)
(* agent was built with, and only its session and executor matter.         *)
AppendUser(t) ==
    /\ TurnAt(t, "append")
    /\ IF row[turn[t].ses] = "open"
          THEN turn' = [turn EXCEPT ![t] = [Idle EXCEPT !.pc = "running", !.ses = turn[t].ses,
                                                        !.exec = turn[t].exec]]
          ELSE Finish(t)
    /\ UNCHANGED <<row, keys, boxes, executor, agent, deleting, overlapped, others, posts>>

(* A tool call needs the sandbox: isReady() says no, init() starts a       *)
(* container. The tool calls of one answer run in parallel, and isReady()  *)
(* says no to each of them until the first container runs.                 *)
InitSandbox(t) ==
    /\ TurnAt(t, "running") /\ box[turn[t].exec] = None /\ turn[t].inits < MaxInits
    /\ turn' = [turn EXCEPT ![t].inits = @ + 1]
    /\ overlapped' = IF turn[t].inits > 0 THEN overlapped \cup {turn[t].ses} ELSE overlapped
    /\ UNCHANGED <<row, keys, boxes, executor, agent, deleting, others, posts>>

(* The container runs and init() stores its id: over the id of a container *)
(* that another init() of the same executor started, and in an executor    *)
(* that may have left the map.                                             *)
SandboxReady(t) ==
    /\ turn[t].inits > 0
    /\ \E b \in Box :
        /\ host[b] = None
        /\ host' = [host EXCEPT ![b] = turn[t].ses]
        /\ box' = [box EXCEPT ![turn[t].exec] = b]
    /\ turn' = [turn EXCEPT ![t].inits = @ - 1]
    /\ UNCHANGED <<row, keys, executor, agent, deleting, removing, left, overlapped, others,
                   posts>>

(* No container could be started: the tool call fails, the turn goes on.   *)
SandboxError(t) ==
    /\ turn[t].inits > 0
    /\ turn' = [turn EXCEPT ![t].inits = @ - 1]
    /\ UNCHANGED <<row, keys, boxes, executor, agent, deleting, overlapped, others, posts>>

(* The agent is done once its tool calls are. *)
Done(t) == TurnAt(t, "running") /\ turn[t].inits = 0

(* The agent answered without text, or failed (onError): nothing is stored *)
(* and the stream is closed.                                               *)
EndSilently(t) ==
    /\ Done(t)
    /\ Finish(t)
    /\ UNCHANGED <<row, keys, boxes, executor, agent, deleting, overlapped, others, posts>>

(* onDone stores the answer and closes the stream. *)
EndWithText(t) ==
    /\ Done(t) /\ row[turn[t].ses] = "open"
    /\ Finish(t)
    /\ UNCHANGED <<row, keys, boxes, executor, agent, deleting, overlapped, others, posts>>

-----------------------------------------------------------------------------
(* DELETE of a session: destroy the executor, forget it and the agent,     *)
(* delete the row. SIGTERM: destroy every executor in the map; the server  *)
(* keeps answering meanwhile.                                              *)

(* The "docker rm" that destroy() starts, none when there is no container. *)
NothingToDestroy(by, s) == {}

Destroying(by, s) ==
    {[by |-> by, ses |-> s, exec |-> e, box |-> box[e]] :
        e \in {d \in Executor : d = executor[s] /\ box[d] # None}}

(* What runs after "await executor.destroy()". The call forgets whatever   *)
(* id the executor has by now, the map whatever executor the session has.  *)
AgentStays(s, e, by) ==
    /\ box' = [box EXCEPT ![e] = None]
    /\ executor' = [executor EXCEPT ![s] = None]
    /\ UNCHANGED agent

AfterDestroy(s, e, by) ==
    /\ box' = [box EXCEPT ![e] = None]
    /\ executor' = [executor EXCEPT ![s] = None]
    /\ agent' = [agent EXCEPT ![s] = IF by = "DELETE" THEN None ELSE @]

DeleteSession(s) ==
    LET rm == Destroying("DELETE", s) IN
    /\ row[s] # "none" /\ s \notin deleting
    /\ ~\E r \in removing : r.ses = s /\ r.by = "DELETE"
    /\ removing' = removing \cup rm
    /\ IF rm # {}
          THEN UNCHANGED <<deleting, executor, agent>>
          ELSE /\ deleting' = deleting \cup {s}
               /\ executor' = [executor EXCEPT ![s] = None]
               /\ agent' = [agent EXCEPT ![s] = None]
    /\ Mark(s)
    /\ UNCHANGED <<row, keys, box, host, left, turn, others, posts>>

Removed(r) ==
    /\ r \in removing
    /\ removing' = removing \ {r}
    /\ host' = [host EXCEPT ![r.box] = None]
    /\ left' = left \ {r.box}
    /\ AfterDestroy(r.ses, r.exec, r.by)
    /\ deleting' = IF r.by = "DELETE" THEN deleting \cup {r.ses} ELSE deleting
    /\ UNCHANGED <<row, keys, turn, overlapped, others, posts>>

DeleteRow(s) ==
    /\ s \in deleting
    /\ deleting' = deleting \ {s}
    /\ row' = [row EXCEPT ![s] = "deleted"]
    /\ UNCHANGED <<keys, boxes, executor, agent, turn, overlapped, others, posts>>

(* The caller does not own the session, and the route answers 404, or the  *)
(* database fails: executor and agent are gone, and the row stays.         *)
RowStays(s) ==
    /\ s \in deleting
    /\ deleting' = deleting \ {s}
    /\ UNCHANGED <<row, keys, boxes, executor, agent, turn, overlapped, others, posts>>

Signal ==
    /\ ~stopping /\ signals < MaxSignals
    /\ stopping' = TRUE
    /\ signals' = signals + 1
    /\ UNCHANGED <<row, keys, boxes, executor, agent, turn, deleting, overlapped, posts>>

(* shutdown() reaches the next executor of the map. *)
DestroyNext(s) ==
    LET rm == Destroying("shutdown", s) IN
    /\ stopping /\ executor[s] # None
    /\ \A r \in removing : r.by # "shutdown"
    /\ removing' = removing \cup rm
    /\ executor' = [executor EXCEPT ![s] = IF rm # {} THEN @ ELSE None]
    /\ Mark(s)
    /\ UNCHANGED <<row, keys, box, host, left, agent, turn, deleting, others, posts>>

-----------------------------------------------------------------------------
(* The process ends and starts again: its maps are empty, requests are     *)
(* cut. A container that was being started comes up; a "docker rm" that    *)
(* was under way is carried out.                                           *)
HostAfter(up, b) ==
    IF \E r \in removing : r.box = b THEN None
    ELSE IF up[b] # None THEN turn[up[b]].ses ELSE host[b]

Restart ==
    /\ cache' = None
    /\ executor' = [s \in Session |-> None]
    /\ agent' = [s \in Session |-> None]
    /\ box' = [e \in Executor |-> None]
    /\ turn' = [t \in Turn |-> Idle]
    /\ deleting' = {} /\ removing' = {} /\ stopping' = FALSE
    /\ overlapped' = {}
    /\ \E up \in [Box -> Turn \cup {None}] :
        /\ \A b \in Box : up[b] # None => host[b] = None
        /\ \A t \in Turn : Cardinality({b \in Box : up[b] = t}) <= turn[t].inits
        /\ host' = [b \in Box |-> HostAfter(up, b)]
    /\ UNCHANGED <<row, dbKey, answered, notice, stale, posts, signals>>

(* Nobody awaits onDone: when the answer cannot be stored, as that of a    *)
(* deleted session, its rejection is unhandled and Node ends the process.  *)
Crash(t) ==
    /\ Done(t)
    /\ Restart
    /\ left' = {b \in Box : host'[b] # None}

(* shutdown() found the map empty and exits: what it leaves are containers *)
(* being started, and those of sessions somebody else worked on.           *)
Exit ==
    /\ stopping /\ \A s \in Session : executor[s] = None
    /\ \A r \in removing : r.by # "shutdown"
    /\ Restart
    /\ left' = {b \in Box : /\ host'[b] # None
                            /\ host[b] = None \/ b \in left \/ host[b] \in overlapped}

-----------------------------------------------------------------------------
(* PATCH of the provider: store the key, tell the agent service, answer.   *)

UpdateKey ==
    /\ ~notice /\ dbKey <= MaxKeys
    /\ dbKey' = dbKey + 1
    /\ notice' = TRUE
    /\ UNCHANGED <<row, answered, cache, stale, boxes, executor, agent, turn, deleting,
                   overlapped, others, posts>>

OnlyConfigInvalidated ==
    /\ notice
    /\ cache' = None
    /\ notice' = FALSE /\ answered' = dbKey
    /\ UNCHANGED <<row, dbKey, stale, boxes, executor, agent, turn, deleting, overlapped,
                   others, posts>>

(* invalidateProviderCache drops the cached key and every session agent    *)
(* that was built with it.                                                 *)
InvalidateProvider ==
    /\ notice
    /\ cache' = None
    /\ agent' = [s \in Session |-> None]
    /\ notice' = FALSE /\ answered' = dbKey
    /\ UNCHANGED <<row, dbKey, stale, boxes, executor, turn, deleting, overlapped, others, posts>>

(* The call fails and the error is swallowed. *)
NoticeLost ==
    /\ notice
    /\ notice' = FALSE /\ answered' = dbKey
    /\ stale' = TRUE
    /\ UNCHANGED <<row, dbKey, cache, boxes, executor, agent, turn, deleting, overlapped,
                   others, posts>>

(* CONFIG_CACHE_TTL_MS. *)
CacheExpires ==
    /\ cache # None
    /\ cache' = None
    /\ UNCHANGED <<row, dbKey, answered, notice, stale, boxes, executor, agent, turn, deleting,
                   overlapped, others, posts>>

-----------------------------------------------------------------------------
AgentNext ==
    \/ \E s \in Session :
        \/ CreateSession(s) \/ DeleteSession(s) \/ DeleteRow(s) \/ RowStays(s)
        \/ DestroyNext(s)
    \/ \E t \in Turn :
        \/ \E s \in Session, m \in Model : PostMessage(t, s, m)
        \/ Enter(t) \/ FetchKey(t) \/ CacheKey(t) \/ CacheAgent(t) \/ AppendUser(t)
        \/ DatabaseFails(t) \/ InitSandbox(t) \/ SandboxReady(t) \/ SandboxError(t)
        \/ EndSilently(t) \/ EndWithText(t) \/ Crash(t)
    \/ \E r \in removing : Removed(r)
    \/ Signal \/ Exit
    \/ UpdateKey \/ InvalidateProvider \/ NoticeLost \/ CacheExpires

AgentSpec == AgentInit /\ [][AgentNext]_agentVars

-----------------------------------------------------------------------------
(* A sandbox container that runs belongs to the session's executor, which  *)
(* DELETE and shutdown() will find, until it is removed. Exempt are what   *)
(* an earlier process left running and the sessions in "overlapped": two   *)
(* requests at once, two sandboxes started by one turn at once, a cached   *)
(* agent with an executor the map no longer has. (index.ts,                *)
(* sessionExecutors: "executor lifecycle tied to session")                 *)
NoOrphanSandbox ==
    \A b \in Box :
        LET s == host[b] IN
        s # None /\ b \notin left /\ s \notin overlapped =>
            executor[s] # None /\ box[executor[s]] = b

(* A deleted session leaves neither an executor nor an agent nor a         *)
(* container behind, except the sessions in "overlapped", and a container  *)
(* that an earlier process left running.                                   *)
DeletedLeavesNothing ==
    \A s \in Session :
        row[s] = "deleted" /\ s \notin overlapped =>
            /\ executor[s] = None /\ agent[s] = None
            /\ \A b \in Box \ left : host[b] # s

(* A turn that began after an update of the provider was answered uses the *)
(* new key, unless a build raced with an update, or its notice was lost.   *)
KeyFresh ==
    \A t \in Turn : turn[t].key # 0 /\ ~stale => turn[t].key >= turn[t].due
=============================================================================
