---------------------------- MODULE RcaLifecycle ----------------------------
(***************************************************************************)
(* What the rest of the product is told about the root cause analysis of a *)
(* finding (the DetectorRca row): it is announced, it runs, it ends with a *)
(* result or an error, an error also when it is refused before it runs; a  *)
(* failed analysis may be tried again, a recorded result is final, and no  *)
(* analysis stays announced or running for ever.                           *)
(***************************************************************************)
CONSTANT Trace

VARIABLE status

Statuses == {"none", "pending", "running", "done", "failed"}

Init == status = [t \in Trace |-> "none"]

Move(t, from, to) ==
    /\ status[t] \in from
    /\ status' = [status EXCEPT ![t] = to]

Announce(t) == Move(t, {"none"}, "pending")
Run(t)      == Move(t, {"pending", "failed"}, "running")
Succeed(t)  == Move(t, {"running"}, "done")
Fail(t)     == Move(t, {"pending", "running"}, "failed")

Next == \E t \in Trace : Announce(t) \/ Run(t) \/ Succeed(t) \/ Fail(t)

(* An announced or running analysis gets on. *)
Progress(t) ==
    \/ status[t] = "pending" /\ Run(t)
    \/ Succeed(t) \/ Fail(t)

Spec == Init /\ [][Next]_status /\ \A t \in Trace : WF_status(Progress(t))
=============================================================================
