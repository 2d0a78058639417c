---------------------------- MODULE MCFindingOnce ----------------------------
(* Two traces that are evaluated once each, the settle wait before that,   *)
(* the scans of a detection job, which is retried and may die, and the     *)
(* people concerned: the members of the workspace, and the mails about its *)
(* usage. They share no variable, so one of them moves in a behaviour      *)
(* while the others rest: the states are the sum of theirs and not the     *)
(* product.                                                                *)
EXTENDS MCFindingPipeline, SettleWait, ScanUsage, Members, QuotaMail

VARIABLE moving

TracesAndUsers == SomeTraces \cup Permutations(User)

OnceInit ==
    /\ moving \in {"pipeline", "wait", "scans", "members", "mail"}
    /\ Init /\ SettleInit /\ ScanInit /\ MembersInit /\ MailInit
    /\ moving # "wait" => lastSpan = 0

OnceNext ==
    \/ /\ moving = "pipeline" /\ Next
       /\ UNCHANGED <<moving, settleVars, scanVars, membersVars, mailVars>>
    \/ /\ moving = "wait" /\ SettleNext
       /\ UNCHANGED <<moving, vars, scanVars, membersVars, mailVars>>
    \/ /\ moving = "scans" /\ ScanNext
       /\ UNCHANGED <<moving, vars, settleVars, membersVars, mailVars>>
    \/ /\ moving = "members" /\ MembersNext
       /\ UNCHANGED <<moving, vars, settleVars, scanVars, mailVars>>
    \/ /\ moving = "mail" /\ MailNext
       /\ UNCHANGED <<moving, vars, settleVars, scanVars, membersVars>>

OnceSpec ==
    OnceInit /\ [][OnceNext]_<<moving, vars, settleVars, scanVars, membersVars, mailVars>>
=============================================================================
