----------------------------- MODULE IngestGate ------------------------------
(* What a request to POST /public/traces passes before its route runs, on  *)
(* several replicas of the REST API: the API key is validated (deps.py),   *)
(* and the request counted against the workspace's limit (rate_limit.py).  *)
(* One workspace, with billing on; of the route's answers (402, 415, 400,  *)
(* 500, 200) nothing below depends.                                        *)
(*                                                                         *)
(* The limits library counts in fixed windows, in Redis or, while Redis    *)
(* cannot be reached, in the memory of each replica.                       *)
EXTENDS Naturals, FiniteSets

CONSTANTS
    Replica,  \* processes of the REST API
    Redis,    \* the shared store of counters
    ApiKey,   \* keys of the workspace
    Ws,       \* the workspace
    Call,     \* slots for requests under way
    Tier,     \* billing plans
    Limit,    \* requests per window, on every plan
    MaxWindows \* bound on the windows opened in replicas, by plan

ASSUME GateAssumption ==
    /\ Limit \in Nat \ {0} /\ MaxWindows \in Nat
    /\ Redis \notin Replica /\ Ws \notin ApiKey /\ IsFiniteSet(Replica)

VARIABLES
    tier,     \* the workspace's plan
    redisUp,
    count,    \* the counter of each store and key
    call,     \* the requests under way
    passed,   \* history: requests let through in the window of Redis, by plan
    extra     \* history: windows of replicas that overlap it, by plan

gateVars == <<tier, redisUp, count, call, passed, extra>>

Store == Replica \cup {Redis}
Key   == Tier \X (ApiKey \cup {Ws})

(* "snap": what the key's validation said of the workspace.                *)
NoCall == [pc |-> "idle", at |-> Redis, apiKey |-> Ws, tier |-> Redis]

GateInit ==
    /\ tier \in Tier /\ redisUp = TRUE
    /\ count = [s \in Store |-> [k \in Key |-> 0]]
    /\ call = [c \in Call |-> NoCall]
    /\ passed = [t \in Tier |-> 0] /\ extra = [t \in Tier |-> 0]

Answered(c) == call' = [call EXCEPT ![c] = NoCall]

(* The dependencies of the route: validate-api-key answers with the plan   *)
(* of the moment; no answer, or a malformed one, is a 503.                 *)
Authenticate(c, r, k) ==
    /\ call[c].pc = "idle"
    /\ call' = [call EXCEPT ![c] = [pc |-> "limit", at |-> r, apiKey |-> k, tier |-> tier]]
    /\ UNCHANGED <<tier, redisUp, count, passed, extra>>

(* The key of the bucket: never the API key, "so a customer cannot         *)
(* multiply quota by minting more keys".                                   *)
KeyPerApiKey(q) == <<q.tier, q.apiKey>>

KeyIngest(q) == <<q.tier, Ws>>

(* slowapi: in Redis, or in the fallback of this process. *)
StoreOf(q) == IF redisUp THEN Redis ELSE q.at

Hits(q) == count[StoreOf(q)][KeyIngest(q)]

Pass(c) ==
    LET q == call[c] IN
    /\ q.pc = "limit" /\ Hits(q) < Limit
    /\ StoreOf(q) # Redis /\ Hits(q) = 0 => extra[q.tier] < MaxWindows
    /\ count' = [count EXCEPT ![StoreOf(q)][KeyIngest(q)] = @ + 1]
    /\ extra' = [extra EXCEPT ![q.tier] =
                   IF StoreOf(q) # Redis /\ Hits(q) = 0 THEN @ + 1 ELSE @]
    /\ passed' = [passed EXCEPT ![q.tier] = @ + 1]
    /\ Answered(c)
    /\ UNCHANGED <<tier, redisUp>>

(* 429, with the time until the window ends. *)
Throttled(c) ==
    /\ call[c].pc = "limit" /\ Hits(call[c]) >= Limit
    /\ Answered(c)
    /\ UNCHANGED <<tier, redisUp, count, passed, extra>>

(* A window ends: its counter is gone. Windows that replicas have open     *)
(* when a window of Redis ends overlap the next one as well.               *)
WindowEnds(s, t) ==
    /\ count' = [count EXCEPT ![s] = [k \in Key |-> IF k[1] = t THEN 0 ELSE @[k]]]
    /\ IF s = Redis
          THEN /\ passed' = [passed EXCEPT ![t] = 0]
               /\ extra' = [extra EXCEPT ![t] =
                    Cardinality({r \in Replica : \E k \in Key : k[1] = t /\ count[r][k] > 0})]
          ELSE UNCHANGED <<passed, extra>>
    /\ UNCHANGED <<tier, redisUp, call>>

RedisFails ==
    /\ redisUp /\ redisUp' = FALSE
    /\ UNCHANGED <<tier, count, call, passed, extra>>

RedisRecovers ==
    /\ ~redisUp /\ redisUp' = TRUE
    /\ UNCHANGED <<tier, count, call, passed, extra>>

(* The billing webhook. *)
PlanChanges ==
    /\ tier' \in Tier \ {tier}
    /\ UNCHANGED <<redisUp, count, call, passed, extra>>

GateNext ==
    \/ \E c \in Call :
        \/ \E r \in Replica, k \in ApiKey : Authenticate(c, r, k)
        \/ Pass(c) \/ Throttled(c)
    \/ \E s \in Store, t \in Tier : WindowEnds(s, t)
    \/ RedisFails \/ RedisRecovers \/ PlanChanges

GateSpec == GateInit /\ [][GateNext]_gateVars

-----------------------------------------------------------------------------
(* In one window no more requests of a workspace pass than its plan's      *)
(* limit, whichever keys and replicas they use and however they interleave *)
(* with changes of the plan; a Redis outage adds the limit once for each   *)
(* window that a replica opened on its own. ("multiplies the effective     *)
(* limit by the replica count", rate_limit.py)                             *)
PassedWithinLimit ==
    \A t \in Tier : passed[t] <= Limit * (1 + extra[t])
=============================================================================
