---------------------------- MODULE MCIngestPath -----------------------------
(* The ingest task, what it makes of the spans of a batch and of their     *)
(* token counts, the rows that a viewer shows of them, and the             *)
(* subscription that pays for it all. They share no variable, so one of    *)
(* them moves in a behaviour while the others rest: the states are the sum *)
(* of theirs and not the product.                                          *)
EXTENDS MCIngestTask, TraceRecord, TokenUsage, SpanTree, Subscription

VARIABLE moving

(* 4 and 5 name 2 and 1 as their ancestors, 2 names 1; 3 is another child  *)
(* of 1, sent when it starts, too, by a library that records no path.      *)
SpanAbove == <<0, 1, 1, 2, 2>>
SpanPath  == <<<<>>, <<1>>, <<>>, <<1, 2>>, <<1, 2>>>>
SpanStart == <<1, 1, 2, 3, 2>>
SpanEnd   == <<5, 4, 3, 4, 3>>

SomeRates ==
    ("input" :> 10) @@ ("read" :> 1) @@ ("write" :> 12) @@ ("hour" :> 20) @@ ("output" :> 50)

PathInit ==
    /\ moving \in {"task", "record", "tokens", "panels", "subscription"}
    /\ Init /\ RecordInit /\ TokenInit /\ TreeInit /\ SubInit
    /\ moving # "tokens" => emitter = "text" /\ call = [f \in DOMAIN call |-> 0]

PathNext ==
    \/ /\ moving = "task" /\ Next
       /\ UNCHANGED <<moving, recordVars, tokenVars, treeVars, subVars>>
    \/ /\ moving = "record" /\ RecordNext
       /\ UNCHANGED <<moving, vars, tokenVars, treeVars, subVars>>
    \/ /\ moving = "tokens" /\ TokenNext
       /\ UNCHANGED <<moving, vars, recordVars, treeVars, subVars>>
    \/ /\ moving = "panels" /\ TreeNext
       /\ UNCHANGED <<moving, vars, recordVars, tokenVars, subVars>>
    \/ /\ moving = "subscription" /\ SubNext
       /\ UNCHANGED <<moving, vars, recordVars, tokenVars, treeVars>>

PathSpec ==
    PathInit /\ [][PathNext]_<<moving, vars, recordVars, tokenVars, treeVars, subVars>>
=============================================================================
