----------------------------- MODULE BillingJob -----------------------------
(***************************************************************************)
(* The hourly billing job (frontend/worker/src/ee/billing/usageMetering.ts) *)
(* seen by one workspace: read the workspace, count its usage, report what *)
(* is not reported yet to the Stripe meters, and write the ledger of what  *)
(* was reported and the cap flags back.                                    *)
(*                                                                         *)
(* The workspace lives on meanwhile: it is used, parts of it are deleted,  *)
(* and the Stripe webhook renews its period or changes its plan.  Usage is *)
(* counted in billable units of a meter in a billing period.               *)
(***************************************************************************)
EXTENDS Integers

CONSTANTS
    Run,         \* executions of the job that may be under way
    Capped,      \* the meters whose Free-plan cap is observed
    MaxUse,      \* bound: units used over all meters and periods
    MaxPeriod,   \* bound: billing periods
    MaxChanges,  \* bound: deletions, plan changes, and failures that leave
                 \* what Stripe recorded out of the ledger
    Faults       \* what may go wrong in this instance

(* Three usage meters, and the event count that sets a quantity instead.   *)
Meters    == {"ai", "rca", "detector"}
Counted   == Meters \cup {"events"}

FaultKinds == {"reject",   \* Stripe refuses a meter event
               "timeout",  \* Stripe records it, the call fails
               "unread",   \* the usage cannot be counted
               "unwritten",\* the workspace cannot be written
               "crash",    \* the billing worker dies
               "overlap"}  \* the next run starts before this one is over

ASSUME BillingAssumption ==
    /\ Capped \subseteq Counted
    /\ MaxUse \in Nat /\ MaxPeriod \in Nat \ {0} /\ MaxChanges \in Nat
    /\ Faults \subseteq FaultKinds

VARIABLES
    plan,      \* workspace.billingPlan: "free" or "paid"
    period,    \* the billing period that started last, 0 before the first
    blocked,   \* the cap flags that are set on the workspace
    reported,  \* currentUsage: lastReportedUnits and lastReportedPeriodStart
    used,      \* used[m][p]: units of m used in period p
    over,      \* meters whose use exceeds the Free-plan cap
    billed,    \* billed[m][p]: units of m that Stripe has on record for p
    quantity,  \* the event quantity of the Stripe subscription
    exec,      \* exec[r]: the state of run r
    peak,      \* peak[m][p]: the most that used[m][p] has ever been
    astray,    \* the <<meter, period>> whose ledger no longer says what Stripe has
    changes

workspace   == <<plan, period>>
row         == <<blocked, reported>>
usage       == <<used, over, peak>>
stripe      == <<billed, quantity>>
billingVars == <<workspace, row, usage, stripe, exec, astray, changes>>

Periods  == 0 .. MaxPeriod
NoReport == [units |-> 0, period |-> 0]
Reports  == [Meters -> [units : Nat, period : Periods]]
NoUse    == [m \in Counted |-> [p \in Periods |-> 0]]

NotRunning == [pc |-> "idle", plan |-> "free", period |-> 0, blocked |-> {},
               reported |-> [m \in Meters |-> NoReport],
               count |-> [m \in Counted |-> 0], over |-> {},
               next |-> [m \in Meters |-> NoReport]]

BillingInit ==
    /\ \/ plan = "free" /\ period = 0
       \/ plan = "paid" /\ period = 1
    /\ blocked = {}
    /\ reported = [m \in Meters |-> NoReport]
    /\ used = NoUse /\ peak = NoUse
    /\ over = {}
    /\ billed = [m \in Meters |-> [p \in Periods |-> 0]]
    /\ quantity = 0
    /\ exec = [r \in Run |-> NotRunning]
    /\ astray = {}
    /\ changes = 0

-----------------------------------------------------------------------------
(* The workspace. *)

TotalUse ==
    LET OfPeriod(p) == peak["ai"][p] + peak["rca"][p] + peak["detector"][p]
                       + peak["events"][p]
        Upto[p \in Periods] == IF p = 0 THEN OfPeriod(0)
                                        ELSE Upto[p - 1] + OfPeriod(p)
    IN  Upto[MaxPeriod]

Larger(a, b) == IF a > b THEN a ELSE b

Use(m) ==
    /\ plan = "paid" /\ TotalUse < MaxUse
    /\ used' = [used EXCEPT ![m][period] = @ + 1]
    /\ peak' = [peak EXCEPT ![m][period] = Larger(@, used[m][period] + 1)]
    /\ UNCHANGED <<workspace, row, over, stripe, exec, astray, changes>>

(* A chat session or a project is deleted: what it used is counted no more. *)
Delete(m) ==
    /\ changes < MaxChanges
    /\ changes' = changes + 1
    /\ used[m][period] > 0
    /\ used' = [used EXCEPT ![m][period] = @ - 1]
    /\ UNCHANGED <<workspace, row, over, peak, stripe, exec, astray>>

ExceedCap(m) ==
    /\ over' = over \cup {m}
    /\ UNCHANGED <<workspace, row, used, peak, stripe, exec, astray, changes>>

(* customer.subscription.updated: the next period; created: a paid plan;   *)
(* deleted: back to Free.                                                  *)
Renew ==
    /\ plan = "paid" /\ period < MaxPeriod
    /\ period' = period + 1
    /\ UNCHANGED <<plan, row, usage, stripe, exec, astray, changes>>

Upgrade ==
    /\ plan = "free" /\ period < MaxPeriod /\ changes < MaxChanges
    /\ changes' = changes + 1
    /\ plan' = "paid" /\ period' = period + 1
    /\ UNCHANGED <<row, usage, stripe, exec, astray>>

Downgrade ==
    /\ plan = "paid" /\ changes < MaxChanges
    /\ changes' = changes + 1
    /\ plan' = "free"
    /\ UNCHANGED <<period, row, usage, stripe, exec, astray>>

-----------------------------------------------------------------------------
(* One run of the job. *)

At(r, step) == exec[r].pc = step

(* runBillingJob reads all workspaces once, before it processes any. Runs  *)
(* that overlap work with ledgers of their own.                            *)
Start(r) ==
    /\ At(r, "idle")
    /\ \/ /\ \A s \in Run : At(s, "idle")
          /\ UNCHANGED <<astray, changes>>
       \/ /\ "overlap" \in Faults /\ \E s \in Run : ~At(s, "idle")
          /\ changes < MaxChanges /\ changes' = changes + 1
          /\ astray' = Meters \X Periods
    /\ exec' = [exec EXCEPT ![r] =
                 [NotRunning EXCEPT !.pc = "count", !.plan = plan, !.period = period,
                                    !.blocked = blocked, !.reported = reported]]
    /\ UNCHANGED <<workspace, row, usage, stripe>>

(* Count the usage of the period that was read.  The new ledger starts     *)
(* empty but for the detector's entry, which is carried over.              *)
FreshLedger(r) ==
    [m \in Meters |-> IF m = "detector" THEN exec[r].reported[m] ELSE NoReport]

Count(r) ==
    /\ At(r, "count")
    /\ exec' = [exec EXCEPT
                 ![r].pc = IF exec[r].plan = "paid" THEN "events" ELSE "write",
                 ![r].count = [m \in Counted |-> used[m][exec[r].period]],
                 ![r].over = over,
                 ![r].next = FreshLedger(r)]
    /\ UNCHANGED <<workspace, row, usage, stripe, astray, changes>>

(* The quantity is set, not added to; a failure is only logged. *)
SetQuantity(r) ==
    /\ At(r, "events")
    /\ \/ quantity' = exec[r].count["events"]
       \/ "reject" \in Faults /\ UNCHANGED quantity
    /\ exec' = [exec EXCEPT ![r].pc = "ai"]
    /\ UNCHANGED <<workspace, row, usage, billed, astray, changes>>

(* What the ledger says was reported, if it is about the period read. *)
LastOfAnyPeriod(r, m) == exec[r].reported[m].units
LastReported(r, m) ==
    IF exec[r].reported[m].period = exec[r].period THEN exec[r].reported[m].units ELSE 0

Delta(r, m) == exec[r].count[m] - LastReported(r, m)

After(m) == [ai |-> "rca", rca |-> "detector", detector |-> "write"][m]

Entry(r, units) == [units |-> units, period |-> exec[r].period]

Recorded(r, m) ==
    billed' = [billed EXCEPT ![m][exec[r].period] = @ + Delta(r, m)]

Accepted(r, m) ==
    /\ At(r, m) /\ Delta(r, m) > 0
    /\ Recorded(r, m)
    /\ exec' = [exec EXCEPT ![r].pc = After(m),
                          ![r].next[m] = Entry(r, exec[r].count[m])]
    /\ UNCHANGED <<workspace, row, usage, quantity, astray, changes>>

(* Nothing new to report: the last values are kept. *)
NothingDue(r, m) ==
    /\ At(r, m) /\ Delta(r, m) <= 0
    /\ exec' = [exec EXCEPT ![r].pc = After(m),
                          ![r].next[m] = Entry(r, LastReported(r, m))]
    /\ UNCHANGED <<workspace, row, usage, stripe, astray, changes>>

(* After a failed report the RCA entry gets the last values, the others    *)
(* stay as the ledger was begun with.                                      *)
NoEntryIsRepaired(r, m) == exec[r].next[m]
ReportedAnyway(r, m) == Entry(r, exec[r].count[m])
AfterFailure(r, m) ==
    IF m = "rca" THEN Entry(r, LastReported(r, m)) ELSE exec[r].next[m]

(* The AI entry is lost with a refused report, and every entry is wrong    *)
(* after one that Stripe recorded although the call failed.                *)
Refused(r, m) ==
    /\ At(r, m) /\ Delta(r, m) > 0
    /\ \/ /\ "reject" \in Faults /\ UNCHANGED billed
          /\ astray' = astray \cup ({<<m, exec[r].period>>} \cap ({"ai"} \X Periods))
          /\ UNCHANGED changes
       \/ /\ "timeout" \in Faults /\ Recorded(r, m)
          /\ astray' = astray \cup {<<m, exec[r].period>>}
          /\ changes < MaxChanges /\ changes' = changes + 1
    /\ exec' = [exec EXCEPT ![r].pc = After(m), ![r].next[m] = AfterFailure(r, m)]
    /\ UNCHANGED <<workspace, row, usage, quantity>>

(* Free workspaces over a cap are blocked, paid ones never.  Only a flag   *)
(* that differs from the one that was read is written.                     *)
OnlyFreeIsLookedAt(r) ==
    IF exec[r].plan = "free" THEN exec[r].over \cap Capped ELSE exec[r].blocked
ShouldBlock(r) == IF exec[r].plan = "free" THEN exec[r].over \cap Capped ELSE {}

WrittenFlags(r) ==
    {m \in Capped :
        IF m \in exec[r].blocked <=> m \in ShouldBlock(r)
          THEN m \in blocked ELSE m \in ShouldBlock(r)}

Write(r) ==
    /\ At(r, "write")
    /\ reported' = exec[r].next
    /\ blocked' = WrittenFlags(r)
    /\ exec' = [exec EXCEPT ![r] = NotRunning]
    /\ UNCHANGED <<workspace, usage, stripe, astray, changes>>

(* The run is over for this workspace: a database error is logged by       *)
(* runBillingJob, a death ends the process.  What it had reported is in no *)
(* ledger.                                                                 *)
Done(r, m) ==
    \/ At(r, "write")
    \/ m # "detector" /\ At(r, "detector")
    \/ m = "ai" /\ At(r, "rca")

InFlight(r, m) ==
    Done(r, m) /\ Delta(r, m) > 0 /\ exec[r].next[m] = Entry(r, exec[r].count[m])

Abort(r) ==
    /\ \/ "unread" \in Faults /\ At(r, "count") /\ UNCHANGED changes
       \/ /\ \/ "unwritten" \in Faults /\ At(r, "write")
             \/ "crash" \in Faults /\ ~At(r, "idle")
          /\ changes < MaxChanges /\ changes' = changes + 1
    /\ astray' = astray \cup {<<m, exec[r].period>> : m \in {k \in Meters : InFlight(r, k)}}
    /\ exec' = [exec EXCEPT ![r] = NotRunning]
    /\ UNCHANGED <<workspace, row, usage, stripe>>

-----------------------------------------------------------------------------
RunStep(r) ==
    \/ Start(r) \/ Count(r) \/ SetQuantity(r) \/ Write(r)
    \/ \E m \in Meters : Accepted(r, m) \/ NothingDue(r, m)

RunTrouble(r) == Abort(r) \/ \E m \in Meters : Refused(r, m)

Webhook == Renew \/ Upgrade \/ Downgrade

BillingNext ==
    \/ \E r \in Run : RunStep(r) \/ RunTrouble(r)
    \/ \E m \in Counted : Use(m) \/ Delete(m) \/ (m \in Capped /\ ExceedCap(m))
    \/ Webhook

BillingSpec == BillingInit /\ [][BillingNext]_billingVars

(* The cron keeps starting the job, and what is tried again and again, to  *)
(* count the usage or to send a meter event, succeeds.                     *)
BillingFairSpec ==
    /\ BillingSpec
    /\ \A r \in Run : WF_billingVars(RunStep(r)) /\ SF_billingVars(Count(r))
    /\ \A r \in Run, m \in Meters : SF_billingVars(Accepted(r, m))

-----------------------------------------------------------------------------
(* Properties. *)

Jobs == [pc : {"idle", "count", "events", "write"} \cup Meters,
         plan : {"free", "paid"}, period : Periods, blocked : SUBSET Capped,
         reported : Reports, count : [Counted -> Nat], over : SUBSET Capped,
         next : Reports]

(* The range of every variable; an idle run remembers nothing. *)
BillingTypeOK ==
    /\ plan \in {"free", "paid"}
    /\ period \in Periods
    /\ blocked \subseteq Capped
    /\ reported \in Reports
    /\ used \in [Counted -> [Periods -> Nat]]
    /\ peak \in [Counted -> [Periods -> Nat]]
    /\ over \subseteq Capped
    /\ billed \in [Meters -> [Periods -> Nat]]
    /\ quantity \in Nat
    /\ exec \in [Run -> Jobs]
    /\ astray \subseteq Meters \X Periods
    /\ changes \in 0 .. MaxChanges
    /\ \A r \in Run : exec[r].pc = "idle" => exec[r] = NotRunning

(* Units are billed once ("idempotent across hourly runs via               *)
(* lastReportedUnits delta tracking"): never more than were used, with     *)
(* failing calls, deletions, renewals and plan changes in between, in a    *)
(* period whose ledger did not go astray.                                  *)
NeverOverbilled ==
    \A m \in Meters, p \in Periods : <<m, p>> \notin astray => billed[m][p] <= peak[m][p]

(* AI units are billed once ("only report the increase since last worker   *)
(* run").                                                                  *)
AiNeverOverbilled == \A p \in Periods : billed["ai"][p] <= peak["ai"][p]

(* Between runs the ledger agrees with what Stripe has on record, in a     *)
(* period for which it did not go astray.                                  *)
LedgerInSync ==
    (\A r \in Run : At(r, "idle")) =>
        \A m \in Meters :
            reported[m].period # 0 /\ <<m, reported[m].period>> \notin astray =>
                billed[m][reported[m].period] = reported[m].units

(* An upgrade clears every stale block, and a Free workspace over its cap  *)
(* does get blocked.                                                       *)
FlagsFollowPlan ==
    /\ <>[](plan = "paid") => <>[](blocked = {})
    /\ \A m \in Capped : <>[](plan = "free" /\ m \in over) => <>[](m \in blocked)

(* What is used in a period that does not end is billed in full in the end. *)
BilledInFull ==
    \A m \in Meters, p \in 1 .. MaxPeriod :
        <>[](plan = "paid" /\ period = p) => []<>(billed[m][p] >= used[m][p])
=============================================================================
