----------------------------- MODULE MCAssistant -----------------------------
(* The assistant's panel in the web UI, the agent service behind it, and   *)
(* the gate of the public API. They share no variable, so one of them      *)
(* moves in a behaviour while the others rest: the states are the sum of   *)
(* theirs and not the product.                                             *)
EXTENDS AgentService, AiChat, IngestGate, TLC

VARIABLE moving

Interchangeable == Permutations(Turn) \cup Permutations(Model) \cup Permutations(Box)
                    \cup Permutations(Object)

AssistantInit ==
    /\ moving \in {"service", "panel", "gate"}
    /\ AgentInit /\ AiChatInit /\ GateInit
    /\ moving # "gate" => tier = CHOOSE t \in Tier : TRUE

AssistantNext ==
    \/ moving = "service" /\ AgentNext  /\ UNCHANGED <<moving, chatVars, gateVars>>
    \/ moving = "panel"   /\ AiChatNext /\ UNCHANGED <<moving, agentVars, gateVars>>
    \/ moving = "gate"    /\ GateNext   /\ UNCHANGED <<moving, agentVars, chatVars>>

AssistantSpec == AssistantInit /\ [][AssistantNext]_<<moving, agentVars, chatVars, gateVars>>
=============================================================================
