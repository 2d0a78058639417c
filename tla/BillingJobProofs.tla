-------------------------- MODULE BillingJobProofs --------------------------
(***************************************************************************)
(* The meters of the billing job, for any usage, periods, plan changes and *)
(* deletions, and whatever goes wrong: a failure leads the ledger astray   *)
(* for the meter and the period it strikes, and for no other.              *)
(***************************************************************************)
EXTENDS BillingJob, TLAPS

Active(r) == exec[r].pc # "idle"

Reporting(r) == exec[r].pc \in {"events"} \cup Meters

(* A single run, that works with the ledger as it is.                      *)
OneRun ==
    /\ plan = "paid" => period > 0
    /\ \A r, s \in Run : Active(r) /\ Active(s) => r = s
    /\ \A r \in Run : Active(r) =>
          /\ exec[r].reported = reported
          /\ exec[r].period <= period
          /\ exec[r].plan = "paid" => exec[r].period > 0
    /\ \A r \in Run : Reporting(r) =>
          /\ exec[r].plan = "paid"
          /\ exec[r].next["detector"] = reported["detector"]
          /\ ~Done(r, "ai") => exec[r].next["ai"] = NoReport

(* The ledger did not go astray for this meter and period, and no report   *)
(* about it is on its way to the ledger.                                   *)
Kept(m, p)    == <<m, p>> \notin astray
Entered(m, p) == \A r \in Run : InFlight(r, m) => exec[r].period # p

(* Usage bounds what was counted, and what was billed.                     *)
WithinUse(m) ==
    /\ \A p \in Periods : used[m][p] <= peak[m][p]
    /\ \A p \in Periods : Kept(m, p) => billed[m][p] <= peak[m][p]
    /\ \A r \in Run : Reporting(r) => exec[r].count[m] <= peak[m][exec[r].period]

(* Nothing is billed ahead of the period, and no ledger is.                *)
NotAhead(m) ==
    /\ \A p \in Periods : p > period => billed[m][p] = 0
    /\ reported[m].period <= period
    /\ \A r \in Run : Active(r) => reported[m].period <= exec[r].period
    /\ \A r \in Run : Done(r, m) => exec[r].next[m].period <= period

Agrees(m, entry) ==
    entry.period # 0 /\ Kept(m, entry.period) => billed[m][entry.period] = entry.units

(* The ledger, and the one that a run is about to write, agree with Stripe. *)
LedgerAgrees(m) ==
    /\ Entered(m, reported[m].period) => Agrees(m, reported[m])
    /\ \A r \in Run : Done(r, m) => Agrees(m, exec[r].next[m])

(* A period that the ledger is not about was not billed yet.               *)
Fresh(m, p) == Kept(m, p) => billed[m][p] = 0

FreshPeriods(m) ==
    /\ plan = "paid" /\ Entered(m, period) /\ reported[m].period # period => Fresh(m, period)
    /\ \A r \in Run :
          /\ plan = "paid" /\ Done(r, m) /\ exec[r].next[m].period # period
                => Fresh(m, period)
          /\ Active(r) /\ exec[r].plan = "paid" /\ ~Done(r, m)
                /\ reported[m].period # exec[r].period
                => Fresh(m, exec[r].period)
          /\ Active(r) /\ exec[r].plan = "free" /\ plan = "paid" => Fresh(m, period)

MeterInv(m) == WithinUse(m) /\ NotAhead(m) /\ LedgerAgrees(m) /\ FreshPeriods(m)

(* What holds as long as no two runs have overlapped; once they have, the  *)
(* ledger is astray everywhere.                                            *)
Inv  == BillingTypeOK /\ OneRun /\ \A m \in Meters : MeterInv(m)
IInv == BillingTypeOK /\ (astray # Meters \X Periods => Inv)

-----------------------------------------------------------------------------
LEMMA Constants ==
    /\ Capped \subseteq Counted /\ MaxUse \in Nat /\ MaxPeriod \in Nat
    /\ MaxPeriod > 0 /\ MaxChanges \in Nat
    /\ Periods \subseteq Nat /\ 0 \in Periods /\ 1 \in Periods
  BY BillingAssumption DEF Periods

LEMMA IdleJob == NotRunning \in Jobs /\ NotRunning.pc = "idle"
  BY Constants DEF NotRunning, Jobs, Reports, NoReport, Counted

LEMMA TypeInit == BillingInit => BillingTypeOK
<1> SUFFICES ASSUME BillingInit PROVE BillingTypeOK  OBVIOUS
<1>1. /\ plan \in {"free", "paid"} /\ period \in Periods /\ changes \in 0 .. MaxChanges
      /\ blocked \subseteq Capped /\ over \subseteq Capped /\ quantity \in Nat
  BY Constants DEF BillingInit
<1>2. reported \in Reports
  BY Constants DEF BillingInit, Reports, NoReport
<1>3. /\ used \in [Counted -> [Periods -> Nat]] /\ peak \in [Counted -> [Periods -> Nat]]
      /\ billed \in [Meters -> [Periods -> Nat]]
  BY DEF BillingInit, NoUse
<1>4. exec \in [Run -> Jobs] /\ \A r \in Run : exec[r] = NotRunning
  BY IdleJob DEF BillingInit
<1>5. astray \subseteq Meters \X Periods  BY DEF BillingInit
<1> QED  BY <1>1, <1>2, <1>3, <1>4, <1>5 DEF BillingTypeOK

LEMMA JobFields ==
    ASSUME BillingTypeOK, NEW r \in Run
    PROVE  /\ exec[r] \in Jobs
           /\ exec[r].plan \in {"free", "paid"} /\ exec[r].period \in Periods
           /\ exec[r].reported \in Reports /\ exec[r].next \in Reports
           /\ exec[r].count \in [Counted -> Nat]
           /\ exec[r].period \in Nat /\ exec[r].pc \in {"idle", "count", "events", "write"} \cup Meters
  BY Constants DEF BillingTypeOK, Jobs

LEMMA ReportFields ==
    ASSUME NEW l \in Reports, NEW m \in Meters
    PROVE  l[m].units \in Nat /\ l[m].period \in Periods /\ l[m].period \in Nat
  BY Constants DEF Reports

LEMMA DeltaType ==
    ASSUME BillingTypeOK, NEW r \in Run, NEW m \in Meters
    PROVE  /\ LastReported(r, m) \in Nat /\ exec[r].count[m] \in Nat
           /\ Delta(r, m) = exec[r].count[m] - LastReported(r, m)
           /\ Delta(r, m) \in Int
           /\ \A u \in Nat : Entry(r, u) \in [units : Nat, period : Periods]
           /\ \A u \in Nat : Entry(r, u).units = u /\ Entry(r, u).period = exec[r].period
<1>1. exec[r].count[m] \in Nat  BY JobFields DEF Counted
<1>2. LastReported(r, m) \in Nat
  BY JobFields, ReportFields DEF LastReported
<1>3. exec[r].period \in Periods  BY JobFields
<1> QED  BY <1>1, <1>2, <1>3 DEF Delta, Entry

LEMMA RecordedType ==
    ASSUME BillingTypeOK, NEW r \in Run, NEW m \in Meters, Delta(r, m) > 0, Recorded(r, m)
    PROVE  /\ billed' \in [Meters -> [Periods -> Nat]]
           /\ billed'[m][exec[r].period] = billed[m][exec[r].period] + Delta(r, m)
           /\ \A k \in Meters, p \in Periods :
                 k # m \/ p # exec[r].period => billed'[k][p] = billed[k][p]
<1>1. exec[r].period \in Periods /\ billed \in [Meters -> [Periods -> Nat]]
  BY JobFields DEF BillingTypeOK
<1>2. billed[m][exec[r].period] + Delta(r, m) \in Nat  BY <1>1, DeltaType
<1>3. billed' = [billed EXCEPT ![m] = [billed[m] EXCEPT
                    ![exec[r].period] = billed[m][exec[r].period] + Delta(r, m)]]
  BY DEF Recorded
<1> QED  BY <1>1, <1>2, <1>3

LEMMA After3 ==
    After("ai") = "rca" /\ After("rca") = "detector" /\ After("detector") = "write"
  BY DEF After

(* What a run writes into its own state, field by field. *)
AfterReport(r, m, e) == [exec EXCEPT ![r].pc = After(m), ![r].next[m] = e]

LEMMA ReportStep ==
    ASSUME BillingTypeOK, NEW r \in Run, NEW m \in Meters,
           NEW e \in [units : Nat, period : Periods],
           exec' = AfterReport(r, m, e)
    PROVE  /\ exec' \in [Run -> Jobs]
           /\ \A s \in Run : s # r => exec'[s] = exec[s]
           /\ exec'[r].pc = After(m) /\ exec'[r].plan = exec[r].plan
           /\ exec'[r].period = exec[r].period /\ exec'[r].reported = exec[r].reported
           /\ exec'[r].count = exec[r].count
           /\ exec'[r].next[m] = e
           /\ \A k \in Meters : k # m => exec'[r].next[k] = exec[r].next[k]
<1> DEFINE job == [exec[r] EXCEPT !.pc = After(m), !.next = [exec[r].next EXCEPT ![m] = e]]
<1>1. exec \in [Run -> Jobs] /\ exec[r] \in Jobs /\ exec[r].next \in Reports
  BY JobFields DEF BillingTypeOK
<1>2. [exec[r].next EXCEPT ![m] = e] \in Reports  BY <1>1 DEF Reports
<1>3. After(m) \in {"rca", "detector", "write"}  BY After3 DEF Meters
<1>4. /\ job \in Jobs /\ job.pc = After(m) /\ job.plan = exec[r].plan
      /\ job.period = exec[r].period /\ job.reported = exec[r].reported
      /\ job.count = exec[r].count /\ job.next = [exec[r].next EXCEPT ![m] = e]
  BY <1>1, <1>2, <1>3 DEF Jobs, Meters
<1>5. exec' = [exec EXCEPT ![r] = job]  BY DEF AfterReport
<1> HIDE DEF job
<1>6. exec'[r] = job /\ exec' \in [Run -> Jobs] /\ \A s \in Run : s # r => exec'[s] = exec[s]
  BY <1>1, <1>4, <1>5
<1>7. /\ exec'[r].next[m] = e
      /\ \A k \in Meters : k # m => exec'[r].next[k] = exec[r].next[k]
  BY <1>1, <1>4, <1>6 DEF Reports
<1> QED  BY <1>4, <1>6, <1>7

(* The other steps of a run. *)
LEMMA CountStep ==
    ASSUME BillingTypeOK, NEW r \in Run, Count(r)
    PROVE  /\ exec' \in [Run -> Jobs]
           /\ \A s \in Run : s # r => exec'[s] = exec[s]
           /\ exec'[r].pc = IF exec[r].plan = "paid" THEN "events" ELSE "write"
           /\ exec'[r].plan = exec[r].plan /\ exec'[r].period = exec[r].period
           /\ exec'[r].reported = exec[r].reported
           /\ \A m \in Counted : exec'[r].count[m] = used[m][exec[r].period]
           /\ \A m \in Meters : exec'[r].next[m] =
                 IF m = "detector" THEN exec[r].reported[m] ELSE NoReport
<1> DEFINE step == IF exec[r].plan = "paid" THEN "events" ELSE "write"
           n == [m \in Counted |-> used[m][exec[r].period]]
           job == [exec[r] EXCEPT !.pc = step, !.count = n, !.over = over,
                                  !.next = FreshLedger(r)]
<1>1. exec \in [Run -> Jobs] /\ exec[r] \in Jobs  BY JobFields DEF BillingTypeOK
<1>2. n \in [Counted -> Nat]  BY JobFields DEF BillingTypeOK
<1>3. FreshLedger(r) \in Reports
  <2>1. NoReport \in [units : Nat, period : Periods]  BY Constants DEF NoReport
  <2>2. exec[r].reported \in Reports  BY JobFields
  <2> QED  BY <2>1, <2>2 DEF FreshLedger, Reports
<1>4. over \subseteq Capped  BY DEF BillingTypeOK
<1>5. exec' = [exec EXCEPT ![r] = job]  BY DEF Count
<1> HIDE DEF n
<1>6. /\ job \in Jobs /\ job.pc = step /\ job.plan = exec[r].plan
      /\ job.period = exec[r].period /\ job.reported = exec[r].reported
      /\ job.count = n /\ job.next = FreshLedger(r)
  BY <1>1, <1>2, <1>3, <1>4 DEF Jobs
<1> HIDE DEF job
<1>7. exec'[r] = job /\ exec' \in [Run -> Jobs] /\ \A s \in Run : s # r => exec'[s] = exec[s]
  BY <1>1, <1>5, <1>6
<1> QED  BY <1>6, <1>7 DEF FreshLedger, n

LEMMA StartStep ==
    ASSUME BillingTypeOK, NEW r \in Run, Start(r)
    PROVE  /\ exec' \in [Run -> Jobs]
           /\ \A s \in Run : s # r => exec'[s] = exec[s]
           /\ exec'[r].pc = "count" /\ exec'[r].plan = plan /\ exec'[r].period = period
           /\ exec'[r].reported = reported
<1> DEFINE job == [NotRunning EXCEPT !.pc = "count", !.plan = plan, !.period = period,
                                     !.blocked = blocked, !.reported = reported]
<1>1. exec \in [Run -> Jobs]  BY DEF BillingTypeOK
<1>2. /\ job \in Jobs /\ job.pc = "count" /\ job.plan = plan /\ job.period = period
      /\ job.reported = reported
  BY IdleJob DEF Jobs, BillingTypeOK
<1>3. exec' = [exec EXCEPT ![r] = job]  BY DEF Start
<1> HIDE DEF job
<1> QED  BY <1>1, <1>2, <1>3

LEMMA QuantityStep ==
    ASSUME BillingTypeOK, NEW r \in Run, SetQuantity(r)
    PROVE  /\ exec' \in [Run -> Jobs] /\ quantity' \in Nat
           /\ \A s \in Run : s # r => exec'[s] = exec[s]
           /\ exec'[r].pc = "ai" /\ exec'[r].plan = exec[r].plan
           /\ exec'[r].period = exec[r].period /\ exec'[r].reported = exec[r].reported
           /\ exec'[r].count = exec[r].count /\ exec'[r].next = exec[r].next
<1>1. exec \in [Run -> Jobs] /\ exec[r] \in Jobs  BY JobFields DEF BillingTypeOK
<1>2. exec' = [exec EXCEPT ![r].pc = "ai"]  BY DEF SetQuantity
<1>3. exec[r].count["events"] \in Nat  BY JobFields DEF Counted
<1>4. quantity' \in Nat  BY <1>3 DEF SetQuantity, BillingTypeOK
<1> QED  BY <1>1, <1>2, <1>4 DEF Jobs, Meters

LEMMA IdleStep ==
    ASSUME BillingTypeOK, NEW r \in Run, exec' = [exec EXCEPT ![r] = NotRunning]
    PROVE  /\ exec' \in [Run -> Jobs]
           /\ exec'[r] = NotRunning /\ \A s \in Run : s # r => exec'[s] = exec[s]
  BY IdleJob DEF BillingTypeOK

(* An idle run remembers nothing, since only starting ends its idleness.   *)
LEMMA JobsKept ==
    ASSUME BillingTypeOK, NEW r \in Run, exec' \in [Run -> Jobs],
           \A s \in Run : s # r => exec'[s] = exec[s],
           exec'[r].pc = "idle" => exec'[r] = NotRunning,
           UNCHANGED <<plan, period, used, over, peak>>,
           reported' \in Reports, blocked' \subseteq Capped,
           astray' \subseteq Meters \X Periods, changes' \in 0 .. MaxChanges,
           billed' \in [Meters -> [Periods -> Nat]], quantity' \in Nat
    PROVE  BillingTypeOK'
<1>1. \A s \in Run : exec'[s].pc = "idle" => exec'[s] = NotRunning
  BY DEF BillingTypeOK
<1> QED  BY <1>1 DEF BillingTypeOK

(* The plain variables, as one step of the workspace changes them.         *)
LEMMA ReportMade ==
    ASSUME BillingTypeOK, NEW r \in Run, NEW m \in Meters,
           Accepted(r, m) \/ NothingDue(r, m) \/ Refused(r, m)
    PROVE  \E e \in [units : Nat, period : Periods] :
              exec' = AfterReport(r, m, e)
<1>1. CASE Accepted(r, m)
  BY <1>1, DeltaType DEF Accepted, AfterReport
<1>2. CASE NothingDue(r, m)
  BY <1>2, DeltaType DEF NothingDue, AfterReport
<1>3. CASE Refused(r, m)
  <2>1. AfterFailure(r, m) \in [units : Nat, period : Periods]
    BY DeltaType, JobFields DEF AfterFailure, Reports
  <2> QED  BY <1>3, <2>1 DEF Refused, AfterReport
<1> QED  BY <1>1, <1>2, <1>3

(* Where the ledger goes astray, and the failures that are counted.        *)
LEMMA AstrayStep ==
    ASSUME BillingTypeOK, NEW r \in Run, RunStep(r) \/ RunTrouble(r)
    PROVE  /\ astray \subseteq astray' /\ astray' \subseteq Meters \X Periods
           /\ changes' \in 0 .. MaxChanges
<1>1. /\ astray \subseteq Meters \X Periods /\ changes \in 0 .. MaxChanges
      /\ exec[r].period \in Periods
  BY JobFields DEF BillingTypeOK
<1>2. changes < MaxChanges => changes + 1 \in 0 .. MaxChanges  BY <1>1, Constants
<1>3. CASE UNCHANGED <<astray, changes>>  BY <1>1, <1>3
<1>4. CASE Start(r)  BY <1>1, <1>2, <1>4 DEF Start
<1>5. CASE Abort(r)
  <2>1. {<<m, exec[r].period>> : m \in {k \in Meters : InFlight(r, k)}} \subseteq Meters \X Periods
    BY <1>1
  <2> QED  BY <1>1, <1>2, <1>5, <2>1 DEF Abort
<1>6. ASSUME NEW m \in Meters, Refused(r, m)
      PROVE  /\ astray \subseteq astray' /\ astray' \subseteq Meters \X Periods
             /\ changes' \in 0 .. MaxChanges
  BY <1>1, <1>2, <1>6 DEF Refused
<1> QED
  BY <1>3, <1>4, <1>5, <1>6
     DEF RunStep, RunTrouble, Count, SetQuantity, Write, Accepted, NothingDue

LEMMA RunType ==
    ASSUME BillingTypeOK, NEW r \in Run, RunStep(r) \/ RunTrouble(r)
    PROVE  BillingTypeOK'
<1>0. /\ reported \in Reports /\ blocked \subseteq Capped /\ quantity \in Nat
      /\ billed \in [Meters -> [Periods -> Nat]]
      /\ astray' \subseteq Meters \X Periods /\ changes' \in 0 .. MaxChanges
  BY AstrayStep DEF BillingTypeOK
<1>1. CASE Start(r)
  <2>1. UNCHANGED <<plan, period, blocked, reported, used, over, peak, billed, quantity>>
    BY <1>1 DEF Start, workspace, row, usage, stripe
  <2>2. exec' \in [Run -> Jobs] /\ exec'[r].pc = "count"
        /\ \A s \in Run : s # r => exec'[s] = exec[s]
    BY <1>1, StartStep
  <2> QED  BY <1>0, <2>1, <2>2, JobsKept
<1>2. CASE Count(r)
  <2>1. UNCHANGED <<plan, period, blocked, reported, used, over, peak, billed, quantity>>
    BY <1>2 DEF Count, workspace, row, usage, stripe
  <2>2. exec' \in [Run -> Jobs] /\ exec'[r].pc # "idle"
        /\ \A s \in Run : s # r => exec'[s] = exec[s]
    BY <1>2, CountStep
  <2> QED  BY <1>0, <2>1, <2>2, JobsKept
<1>3. CASE SetQuantity(r)
  <2>1. UNCHANGED <<plan, period, blocked, reported, used, over, peak, billed>>
    BY <1>3 DEF SetQuantity, workspace, row, usage
  <2>2. exec' \in [Run -> Jobs] /\ exec'[r].pc # "idle" /\ quantity' \in Nat
        /\ \A s \in Run : s # r => exec'[s] = exec[s]
    BY <1>3, QuantityStep
  <2> QED  BY <1>0, <2>1, <2>2, JobsKept
<1>4. CASE Write(r)
  <2>1. UNCHANGED <<plan, period, used, over, peak, billed, quantity>>
    BY <1>4 DEF Write, workspace, usage, stripe
  <2>2. exec' \in [Run -> Jobs] /\ exec'[r] = NotRunning
        /\ \A s \in Run : s # r => exec'[s] = exec[s]
    BY <1>4, IdleStep DEF Write
  <2>3. reported' \in Reports /\ blocked' \subseteq Capped
    BY <1>4, JobFields DEF Write, WrittenFlags
  <2> QED  BY <1>0, <2>1, <2>2, <2>3, JobsKept
<1>5. CASE Abort(r)
  <2>1. UNCHANGED <<plan, period, blocked, reported, used, over, peak, billed, quantity>>
    BY <1>5 DEF Abort, workspace, row, usage, stripe
  <2>2. exec' \in [Run -> Jobs] /\ exec'[r] = NotRunning
        /\ \A s \in Run : s # r => exec'[s] = exec[s]
    BY <1>5, IdleStep DEF Abort
  <2> QED  BY <1>0, <2>1, <2>2, JobsKept
<1>6. ASSUME NEW m \in Meters, Accepted(r, m) \/ NothingDue(r, m) \/ Refused(r, m)
      PROVE  BillingTypeOK'
  <2>1. UNCHANGED <<plan, period, blocked, reported, used, over, peak, quantity>>
    BY <1>6 DEF Accepted, NothingDue, Refused, workspace, row, usage, stripe
  <2>2. PICK e \in [units : Nat, period : Periods] :
             exec' = AfterReport(r, m, e)
    BY <1>6, ReportMade
  <2>3. exec' \in [Run -> Jobs] /\ exec'[r].pc = After(m)
        /\ \A s \in Run : s # r => exec'[s] = exec[s]
    BY <2>2, ReportStep
  <2>4. After(m) # "idle"  BY After3 DEF Meters
  <2>5. billed' \in [Meters -> [Periods -> Nat]]
    <3>1. CASE billed' = billed  BY <1>0, <3>1
    <3>2. CASE Delta(r, m) > 0 /\ Recorded(r, m)  BY <3>2, RecordedType
    <3> QED  BY <1>6, <3>1, <3>2 DEF Accepted, NothingDue, Refused, stripe
  <2> QED  BY <1>0, <2>1, <2>3, <2>4, <2>5, JobsKept
<1> QED
  BY <1>1, <1>2, <1>3, <1>4, <1>5, <1>6 DEF RunStep, RunTrouble

LEMMA WorldType ==
    ASSUME BillingTypeOK,
           \/ \E m \in Counted : Use(m) \/ Delete(m) \/ (m \in Capped /\ ExceedCap(m))
           \/ Webhook
    PROVE  BillingTypeOK'
<1>1. ASSUME NEW m \in Counted, Use(m) PROVE BillingTypeOK'
  <2>1. used[m][period] + 1 \in Nat /\ Larger(peak[m][period], used[m][period] + 1) \in Nat
    BY DEF BillingTypeOK, Larger
  <2>2. /\ used' = [used EXCEPT ![m] = [used[m] EXCEPT ![period] = used[m][period] + 1]]
        /\ peak' = [peak EXCEPT ![m] = [peak[m] EXCEPT
                       ![period] = Larger(peak[m][period], used[m][period] + 1)]]
    BY <1>1 DEF Use
  <2>3. /\ used' \in [Counted -> [Periods -> Nat]] /\ peak' \in [Counted -> [Periods -> Nat]]
    BY <2>1, <2>2 DEF BillingTypeOK
  <2> QED  BY <1>1, <2>3 DEF Use, workspace, row, stripe, BillingTypeOK
<1>2. ASSUME NEW m \in Counted, Delete(m) PROVE BillingTypeOK'
  <2>1. used[m][period] - 1 \in Nat  BY <1>2 DEF Delete, BillingTypeOK
  <2>2. used' = [used EXCEPT ![m] = [used[m] EXCEPT ![period] = used[m][period] - 1]]
    BY <1>2 DEF Delete
  <2>3. used' \in [Counted -> [Periods -> Nat]]  BY <2>1, <2>2 DEF BillingTypeOK
  <2>4. changes' \in 0 .. MaxChanges  BY <1>2, Constants DEF Delete, BillingTypeOK
  <2> QED  BY <1>2, <2>3, <2>4 DEF Delete, workspace, row, stripe, BillingTypeOK
<1>3. ASSUME NEW m \in Capped, ExceedCap(m) PROVE BillingTypeOK'
  BY <1>3 DEF ExceedCap, workspace, row, stripe, BillingTypeOK
<1>4. CASE Webhook
  <2>1. period' \in Periods /\ plan' \in {"free", "paid"} /\ changes' \in 0 .. MaxChanges
    BY <1>4, Constants DEF Webhook, Renew, Upgrade, Downgrade, BillingTypeOK, Periods
  <2> QED
    BY <1>4, <2>1 DEF Webhook, Renew, Upgrade, Downgrade, row, usage, stripe, BillingTypeOK
<1> QED  BY <1>1, <1>2, <1>3, <1>4

LEMMA TypeNext == BillingTypeOK /\ [BillingNext]_billingVars => BillingTypeOK'
<1> SUFFICES ASSUME BillingTypeOK, [BillingNext]_billingVars PROVE BillingTypeOK'  OBVIOUS
<1>1. CASE UNCHANGED billingVars
  BY <1>1 DEF billingVars, workspace, row, usage, stripe, BillingTypeOK
<1> QED  BY <1>1, RunType, WorldType DEF BillingNext

-----------------------------------------------------------------------------
LEMMA InvInit == BillingInit => Inv
<1> SUFFICES ASSUME BillingInit PROVE Inv  OBVIOUS
<1>1. BillingTypeOK  BY TypeInit
<1>2. \A r \in Run : exec[r] = NotRunning /\ exec[r].pc = "idle"
  BY IdleJob DEF BillingInit
<1>3. \A r \in Run : ~Active(r) /\ ~Reporting(r) /\ \A m \in Meters : ~Done(r, m)
  BY <1>2 DEF Active, Reporting, Done, At, Meters
<1>4. OneRun  BY <1>3 DEF BillingInit, OneRun
<1>5. ASSUME NEW m \in Meters PROVE MeterInv(m)
  <2>1. m \in Meters /\ m \in Counted  BY DEF Meters, Counted
  <2>2. reported[m].period = 0 /\ reported[m].units = 0
    BY <2>1 DEF BillingInit, NoReport
  <2>3. \A p \in Periods : billed[m][p] = 0 /\ used[m][p] = 0 /\ peak[m][p] = 0
    BY <2>1 DEF BillingInit, NoUse
  <2>4. period \in Periods /\ period \in Nat  BY <1>1, Constants DEF BillingTypeOK
  <2>5. WithinUse(m)  BY <1>3, <2>1, <2>3 DEF WithinUse
  <2>6. NotAhead(m)  BY <1>3, <2>1, <2>2, <2>3, <2>4 DEF NotAhead
  <2>7. LedgerAgrees(m)  BY <1>3, <2>1, <2>2 DEF LedgerAgrees, Agrees
  <2>8. FreshPeriods(m)  BY <1>3, <2>1, <2>3, <2>4 DEF FreshPeriods, Fresh
  <2> QED  BY <2>5, <2>6, <2>7, <2>8 DEF MeterInv
<1> QED  BY <1>1, <1>4, <1>5 DEF Inv

LEMMA MeterTypes ==
    ASSUME BillingTypeOK, NEW m \in Meters
    PROVE  /\ m \in Meters /\ m \in Counted
           /\ period \in Periods /\ period \in Nat
           /\ \A p \in Periods : /\ billed[m][p] \in Nat /\ used[m][p] \in Nat
                                 /\ peak[m][p] \in Nat /\ p \in Nat
           /\ reported[m].period \in Nat /\ reported[m].period \in Periods
           /\ reported[m].units \in Nat
<1>1. m \in Meters /\ m \in Counted  BY DEF Meters, Counted
<1>2. reported \in Reports  BY DEF BillingTypeOK
<1>3. /\ reported[m].period \in Nat /\ reported[m].period \in Periods
      /\ reported[m].units \in Nat
  BY <1>1, <1>2, ReportFields
<1>4. period \in Periods /\ period \in Nat  BY Constants DEF BillingTypeOK
<1>5. \A p \in Periods : /\ billed[m][p] \in Nat /\ used[m][p] \in Nat
                         /\ peak[m][p] \in Nat /\ p \in Nat
  BY <1>1, Constants DEF BillingTypeOK
<1> QED  BY <1>1, <1>3, <1>4, <1>5

LEMMA OnlyDoneInFlight ==
    ASSUME NEW r \in Run, NEW m \in Meters
    PROVE  /\ InFlight(r, m) => Done(r, m)
           /\ InFlight(r, m)' => Done(r, m)'
  BY DEF InFlight

(* A report that was under way still is.                                   *)
LEMMA InFlightKept ==
    ASSUME NEW r \in Run, NEW m \in Meters, Done(r, m)' <=> Done(r, m),
           exec'[r].period = exec[r].period, exec'[r].reported = exec[r].reported,
           exec'[r].count = exec[r].count, exec'[r].next[m] = exec[r].next[m]
    PROVE  InFlight(r, m)' <=> InFlight(r, m)
  BY DEF InFlight, Delta, LastReported, Entry

(* The other runs stay idle while one works. *)
LEMMA OthersIdle ==
    ASSUME Inv, NEW r \in Run, Active(r), \A s \in Run : s # r => exec'[s] = exec[s]
    PROVE  \A s \in Run : s # r =>
              /\ ~Active(s) /\ ~Active(s)' /\ ~Reporting(s)'
              /\ \A m \in Meters : /\ ~Done(s, m) /\ ~Done(s, m)'
                                      /\ ~InFlight(s, m) /\ ~InFlight(s, m)'
<1> SUFFICES ASSUME NEW s \in Run, s # r
             PROVE  /\ ~Active(s) /\ ~Active(s)' /\ ~Reporting(s)'
                    /\ \A m \in Meters : /\ ~Done(s, m) /\ ~Done(s, m)'
                                      /\ ~InFlight(s, m) /\ ~InFlight(s, m)'
  OBVIOUS
<1>1. exec[s].pc = "idle"  BY DEF Inv, OneRun, Active
<1>2. exec'[s].pc = "idle"  BY <1>1
<1>3. /\ ~Active(s) /\ ~Active(s)' /\ ~Reporting(s)'
      /\ \A m \in Meters : ~Done(s, m) /\ ~Done(s, m)'
  BY <1>1, <1>2 DEF Active, Reporting, Done, At, Meters
<1> QED  BY <1>3, OnlyDoneInFlight

(* Steps of the workspace: nothing is written by a run, and of the meter   *)
(* only its use may change, within the most that it was.                   *)
LEMMA WorldInv ==
    ASSUME Inv,
           \/ \E m \in Counted : Use(m) \/ Delete(m) \/ (m \in Capped /\ ExceedCap(m))
           \/ Webhook
    PROVE  Inv'
<1>1. BillingTypeOK'  BY WorldType DEF Inv
<1>2. UNCHANGED <<reported, billed, exec, astray>>
  BY DEF Use, Delete, ExceedCap, Webhook, Renew, Upgrade, Downgrade, row, stripe, usage
<1>3. /\ period' \in {period, period + 1} /\ plan' \in {"free", "paid"}
      /\ plan' = "paid" => plan = "paid" \/ period' = period + 1
      /\ period \in Nat
  BY Constants DEF Inv, BillingTypeOK, Use, Delete, ExceedCap, Webhook, Renew, Upgrade,
                   Downgrade, workspace
<1>4. ASSUME NEW k \in Counted, NEW p \in Periods
      PROVE  peak[k][p] <= peak'[k][p] /\ (used[k][p] <= peak[k][p] => used'[k][p] <= peak'[k][p])
  <2>0. /\ used \in [Counted -> [Periods -> Nat]] /\ peak \in [Counted -> [Periods -> Nat]]
        /\ period \in Periods /\ used[k][p] \in Nat /\ peak[k][p] \in Nat
    BY DEF Inv, BillingTypeOK
  <2>1. ASSUME NEW m \in Counted, Use(m)
        PROVE  /\ peak[k][p] <= peak'[k][p]
               /\ used[k][p] <= peak[k][p] => used'[k][p] <= peak'[k][p]
    <3>1. /\ used' = [used EXCEPT ![m] = [used[m] EXCEPT ![period] = used[m][period] + 1]]
          /\ peak' = [peak EXCEPT ![m] = [peak[m] EXCEPT
                         ![period] = Larger(peak[m][period], used[m][period] + 1)]]
      BY <2>1 DEF Use
    <3>2. CASE k = m /\ p = period
      BY <2>0, <3>1, <3>2 DEF Larger
    <3>3. CASE ~(k = m /\ p = period)
      <4>1. used'[k][p] = used[k][p] /\ peak'[k][p] = peak[k][p]
        BY <2>0, <3>1, <3>3
      <4> QED  BY <2>0, <4>1
    <3> QED  BY <3>2, <3>3
  <2>2. ASSUME NEW m \in Counted, Delete(m)
        PROVE  /\ peak[k][p] <= peak'[k][p]
               /\ used[k][p] <= peak[k][p] => used'[k][p] <= peak'[k][p]
    <3>1. /\ used' = [used EXCEPT ![m] = [used[m] EXCEPT ![period] = used[m][period] - 1]]
          /\ peak' = peak
      BY <2>2 DEF Delete
    <3>2. used'[k][p] = used[k][p] \/ used'[k][p] = used[k][p] - 1  BY <2>0, <3>1
    <3> QED  BY <2>0, <3>1, <3>2
  <2>3. CASE UNCHANGED <<used, peak>>  BY <2>0, <2>3
  <2> QED
    BY <2>1, <2>2, <2>3 DEF ExceedCap, Webhook, Renew, Upgrade, Downgrade, usage
<1>5. ASSUME NEW r \in Run
      PROVE  /\ Active(r)' <=> Active(r)
             /\ Reporting(r)' <=> Reporting(r)
             /\ \A m \in Meters : /\ Done(r, m)' <=> Done(r, m)
                                  /\ InFlight(r, m)' <=> InFlight(r, m)
  BY <1>2 DEF Active, Reporting, Done, At, InFlight, Delta, LastReported, Entry
<1>6. OneRun'
  <2>1. \A r \in Run : exec[r].period \in Nat  BY JobFields DEF Inv
  <2>2. plan' = "paid" => period' > 0  BY <1>3 DEF Inv, OneRun
  <2>3. \A r \in Run : Active(r)' => exec'[r].period <= period'
    BY <1>2, <1>3, <1>5, <2>1 DEF Inv, OneRun
  <2>4. \A r \in Run : Done(r, "ai")' <=> Done(r, "ai")  BY <1>5 DEF Meters
  <2> QED  BY <1>2, <1>5, <2>2, <2>3, <2>4, Zenon DEF Inv, OneRun
<1>7. ASSUME NEW m \in Meters PROVE MeterInv(m)'
  <2>0. BillingTypeOK /\ MeterInv(m)  BY DEF Inv
  <2>1. m \in Meters /\ m \in Counted  BY <2>0, MeterTypes
  <2>2. \A p \in Periods : /\ billed[m][p] \in Nat /\ peak[m][p] \in Nat
                           /\ peak'[m][p] \in Nat /\ p \in Nat
    BY <1>1, <2>1, Constants DEF Inv, BillingTypeOK
  <2>3. WithinUse(m)'
    <3>1. ASSUME NEW p \in Periods
          PROVE  /\ used'[m][p] <= peak'[m][p]
                 /\ Kept(m, p)' => billed'[m][p] <= peak'[m][p]
      <4>1. used[m][p] <= peak[m][p] /\ (Kept(m, p)' => billed[m][p] <= peak[m][p])
        BY <1>2, <2>0 DEF MeterInv, WithinUse, Kept
      <4> QED  BY <1>2, <1>4, <2>1, <2>2, <4>1
    <3>2. ASSUME NEW r \in Run, Reporting(r)'
          PROVE  exec'[r].count[m] <= peak'[m][exec'[r].period]
      <4>1. exec[r].count[m] <= peak[m][exec[r].period]
        BY <1>5, <2>0, <3>2 DEF MeterInv, WithinUse
      <4>2. exec[r].period \in Periods /\ exec[r].count[m] \in Nat
        BY <2>0, <2>1, JobFields
      <4> QED  BY <1>2, <1>4, <2>1, <2>2, <4>1, <4>2
    <3> QED  BY <3>1, <3>2 DEF WithinUse
  <2>4. NotAhead(m)'
    <3>1. reported[m].period \in Nat  BY <2>0, MeterTypes
    <3>2. \A r \in Run : exec[r].next[m].period \in Nat
      BY <2>0, <2>1, JobFields, ReportFields
    <3> QED  BY <1>2, <1>3, <1>5, <2>0, <2>1, <2>2, <3>1, <3>2 DEF MeterInv, NotAhead
  <2>5. LedgerAgrees(m)'
    BY <1>2, <1>5, <2>0, <2>1 DEF MeterInv, LedgerAgrees, Agrees, Kept, Entered
  <2>6. FreshPeriods(m)'
    <3>1. CASE period' = period /\ plan' = "paid"
      <4>1. plan = "paid"  BY <1>3, <3>1
      <4> QED
        BY <1>2, <1>5, <2>0, <2>1, <3>1, <4>1 DEF MeterInv, FreshPeriods, Fresh, Kept, Entered
    <3>2. CASE period' = period + 1
      <4>1. period' \in Periods /\ period' > period
        BY <1>1, <1>3, <3>2 DEF BillingTypeOK
      <4>2. billed'[m][period'] = 0  BY <1>2, <2>0, <4>1 DEF MeterInv, NotAhead
      <4>3. \A r \in Run :
               Active(r) /\ exec[r].plan = "paid" /\ ~Done(r, m)
                   /\ reported[m].period # exec[r].period
                 => Fresh(m, exec[r].period)
        BY <2>0 DEF MeterInv, FreshPeriods
      <4> QED  BY <1>2, <1>5, <2>1, <4>2, <4>3 DEF FreshPeriods, Fresh, Kept
    <3>3. CASE plan' # "paid"
      BY <1>2, <1>5, <2>0, <2>1, <3>3 DEF MeterInv, FreshPeriods, Fresh, Kept
    <3> QED  BY <1>3, <3>1, <3>2, <3>3
  <2> QED  BY <2>3, <2>4, <2>5, <2>6 DEF MeterInv
<1> QED  BY <1>1, <1>6, <1>7 DEF Inv

-----------------------------------------------------------------------------
(* A run starts when no other is under way: with the ledger and the period *)
(* as they are.                                                            *)
LEMMA StartInv ==
    ASSUME Inv, NEW r \in Run, Start(r), \A s \in Run : At(s, "idle"), UNCHANGED astray
    PROVE  Inv'
<1>1. BillingTypeOK'  BY RunType DEF Inv, RunStep
<1>2. UNCHANGED <<plan, period, reported, used, peak, billed, astray>>
  BY DEF Start, workspace, row, usage, stripe
<1>3. /\ \A s \in Run : s # r => exec'[s] = exec[s]
      /\ exec'[r].pc = "count" /\ exec'[r].plan = plan /\ exec'[r].period = period
      /\ exec'[r].reported = reported
  BY StartStep DEF Inv
<1>4. \A s \in Run : exec[s].pc = "idle"  BY DEF At
<1>5. /\ Active(r)'
      /\ \A s \in Run : /\ s # r => ~Active(s)'
                        /\ ~Active(s) /\ ~Reporting(s)'
                        /\ \A m \in Meters : /\ ~Done(s, m) /\ ~Done(s, m)'
                                             /\ ~InFlight(s, m) /\ ~InFlight(s, m)'
  BY <1>3, <1>4, OnlyDoneInFlight DEF Active, Reporting, Done, At, Meters
<1>6. period \in Nat /\ plan \in {"free", "paid"}
  BY Constants DEF Inv, BillingTypeOK
<1>7. OneRun'  BY <1>2, <1>3, <1>5, <1>6 DEF Inv, OneRun
<1>8. ASSUME NEW m \in Meters PROVE MeterInv(m)'
  <2>0. BillingTypeOK /\ MeterInv(m) /\ m \in Meters  BY MeterTypes DEF Inv
  <2>1. WithinUse(m)'  BY <1>2, <1>5, <2>0 DEF MeterInv, WithinUse, Kept
  <2>2. NotAhead(m)'  BY <1>2, <1>3, <1>5, <2>0 DEF MeterInv, NotAhead
  <2>3. LedgerAgrees(m)'
    BY <1>2, <1>5, <2>0 DEF MeterInv, LedgerAgrees, Agrees, Kept, Entered
  <2>4. FreshPeriods(m)'
    BY <1>2, <1>3, <1>5, <2>0 DEF MeterInv, FreshPeriods, Fresh, Kept, Entered
  <2> QED  BY <2>1, <2>2, <2>3, <2>4 DEF MeterInv
<1> QED  BY <1>1, <1>7, <1>8 DEF Inv

(* The usage is counted. A Free run is over with that, but for its write.  *)
LEMMA CountInv ==
    ASSUME Inv, NEW r \in Run, Count(r)
    PROVE  Inv'
<1>1. BillingTypeOK'  BY RunType DEF Inv, RunStep
<1>2. UNCHANGED <<plan, period, reported, used, peak, billed, astray>>
  BY DEF Count, workspace, row, usage, stripe
<1>3. /\ \A s \in Run : s # r => exec'[s] = exec[s]
      /\ exec'[r].pc = IF exec[r].plan = "paid" THEN "events" ELSE "write"
      /\ exec'[r].plan = exec[r].plan /\ exec'[r].period = exec[r].period
      /\ exec'[r].reported = exec[r].reported
      /\ \A m \in Counted : exec'[r].count[m] = used[m][exec[r].period]
      /\ \A m \in Meters : exec'[r].next[m] =
            IF m = "detector" THEN exec[r].reported[m] ELSE NoReport
  BY CountStep DEF Inv
<1>4. exec[r].pc = "count" /\ Active(r)  BY DEF Count, At, Active
<1>5. \A s \in Run : s # r =>
          /\ ~Active(s) /\ ~Active(s)' /\ ~Reporting(s)'
          /\ \A m \in Meters : /\ ~Done(s, m) /\ ~Done(s, m)'
                               /\ ~InFlight(s, m) /\ ~InFlight(s, m)'
  BY <1>3, <1>4, OthersIdle
<1>6. /\ exec[r].reported = reported /\ exec[r].period <= period
      /\ exec[r].plan = "paid" => exec[r].period > 0
      /\ exec[r].plan \in {"free", "paid"} /\ exec[r].period \in Periods
      /\ plan \in {"free", "paid"}
  BY <1>4, JobFields DEF Inv, OneRun, BillingTypeOK
<1>7. /\ Active(r)'
      /\ Reporting(r)' <=> exec[r].plan = "paid"
      /\ \A m \in Meters : /\ ~Done(r, m)
                           /\ Done(r, m)' <=> exec[r].plan = "free"
  BY <1>3, <1>4, <1>6 DEF Active, Reporting, Done, At, Meters
<1>8. OneRun'
  <2>1. /\ exec'[r].next["detector"] = reported["detector"]
        /\ exec'[r].next["ai"] = NoReport
    BY <1>3, <1>6 DEF Meters
  <2> QED  BY <1>2, <1>3, <1>5, <1>6, <1>7, <2>1 DEF Inv, OneRun
<1>9. ASSUME NEW m \in Meters PROVE MeterInv(m)'
  <2>0. BillingTypeOK /\ MeterInv(m) /\ m \in Meters /\ m \in Counted  BY MeterTypes DEF Inv
  <2>1. WithinUse(m)'
    <3>1. used[m][exec[r].period] <= peak[m][exec[r].period]
      BY <1>6, <2>0 DEF MeterInv, WithinUse
    <3> QED  BY <1>2, <1>3, <1>5, <2>0, <3>1 DEF MeterInv, WithinUse, Kept
  <2>2. \A p \in Periods : Entered(m, p)
    <3>1. \A s \in Run : ~InFlight(s, m)  BY <1>5, <1>7, <2>0, OnlyDoneInFlight
    <3> QED  BY <3>1 DEF Entered
  <2>3. exec'[r].next[m] = reported[m] \/ exec'[r].next[m] = NoReport
    BY <1>3, <1>6, <2>0
  <2>4. NotAhead(m)'
    <3>1. exec'[r].next[m].period <= period
      BY <2>0, <2>3, MeterTypes DEF NoReport, MeterInv, NotAhead
    <3> QED  BY <1>2, <1>3, <1>4, <1>5, <1>7, <2>0, <3>1 DEF MeterInv, NotAhead
  <2>5. Agrees(m, reported[m])'
    BY <1>2, <2>0, <2>2, MeterTypes DEF MeterInv, LedgerAgrees, Agrees, Kept
  <2>6. LedgerAgrees(m)'
    <3>1. Agrees(m, exec[r].next[m])'
      BY <1>2, <2>3, <2>5 DEF Agrees, Kept, NoReport
    <3> QED  BY <1>5, <2>0, <2>5, <3>1 DEF LedgerAgrees
  <2>7. FreshPeriods(m)'
    <3>1. CASE exec[r].plan = "paid"
      <4>1. ~Done(r, m)'  BY <1>7, <2>0, <3>1
      <4>2. ~InFlight(r, m)'  BY <4>1, <2>0, OnlyDoneInFlight
      <4>3. period \in Periods  BY <2>0, MeterTypes
      <4> QED
        BY <1>2, <1>3, <1>4, <1>5, <1>7, <2>0, <2>2, <3>1, <4>1, <4>2, <4>3
           DEF MeterInv, FreshPeriods, Fresh, Kept
    <3>2. CASE exec[r].plan = "free"
      <4>1. plan = "paid" => Fresh(m, period)
        BY <1>4, <2>0, <3>2 DEF MeterInv, FreshPeriods, Active
      <4> QED  BY <1>2, <1>3, <1>5, <3>2, <4>1, <2>0 DEF FreshPeriods, Fresh, Kept
    <3> QED  BY <1>6, <3>1, <3>2
  <2> QED  BY <2>1, <2>4, <2>6, <2>7 DEF MeterInv
<1> QED  BY <1>1, <1>8, <1>9 DEF Inv

LEMMA QuantityInv ==
    ASSUME Inv, NEW r \in Run, SetQuantity(r)
    PROVE  Inv'
<1>1. BillingTypeOK'  BY RunType DEF Inv, RunStep
<1>2. UNCHANGED <<plan, period, reported, used, peak, billed, astray>>
  BY DEF SetQuantity, workspace, row, usage
<1>3. /\ \A s \in Run : s # r => exec'[s] = exec[s]
      /\ exec'[r].pc = "ai" /\ exec'[r].plan = exec[r].plan
      /\ exec'[r].period = exec[r].period /\ exec'[r].reported = exec[r].reported
      /\ exec'[r].count = exec[r].count /\ exec'[r].next = exec[r].next
  BY QuantityStep DEF Inv
<1>4. exec[r].pc = "events" /\ Active(r)  BY DEF SetQuantity, At, Active
<1>5. \A s \in Run : s # r =>
          /\ ~Active(s) /\ ~Active(s)' /\ ~Reporting(s)'
          /\ \A m \in Meters : /\ ~Done(s, m) /\ ~Done(s, m)'
                               /\ ~InFlight(s, m) /\ ~InFlight(s, m)'
  BY <1>3, <1>4, OthersIdle
<1>6. /\ Active(r)' /\ Reporting(r) /\ Reporting(r)'
      /\ \A m \in Meters : /\ ~Done(r, m) /\ ~Done(r, m)'
                           /\ ~InFlight(r, m) /\ ~InFlight(r, m)'
  BY <1>3, <1>4, OnlyDoneInFlight DEF Active, Reporting, Done, At, Meters
<1>7. OneRun'  BY <1>2, <1>3, <1>4, <1>5, <1>6 DEF Inv, OneRun, Meters
<1>8. ASSUME NEW m \in Meters PROVE MeterInv(m)'
  <2>0. BillingTypeOK /\ MeterInv(m) /\ m \in Meters  BY MeterTypes DEF Inv
  <2>1. WithinUse(m)'  BY <1>2, <1>3, <1>5, <1>6, <2>0 DEF MeterInv, WithinUse, Kept
  <2>2. NotAhead(m)'
    BY <1>2, <1>3, <1>4, <1>5, <1>6, <2>0 DEF MeterInv, NotAhead
  <2>3. LedgerAgrees(m)'
    BY <1>2, <1>5, <1>6, <2>0 DEF MeterInv, LedgerAgrees, Agrees, Kept, Entered
  <2>4. FreshPeriods(m)'
    BY <1>2, <1>3, <1>4, <1>5, <1>6, <2>0 DEF MeterInv, FreshPeriods, Fresh, Kept, Entered
  <2> QED  BY <2>1, <2>2, <2>3, <2>4 DEF MeterInv
<1> QED  BY <1>1, <1>7, <1>8 DEF Inv

(* The write puts the run's ledger in place. *)
LEMMA WriteInv ==
    ASSUME Inv, NEW r \in Run, Write(r)
    PROVE  Inv'
<1>1. BillingTypeOK'  BY RunType DEF Inv, RunStep
<1>2. /\ UNCHANGED <<plan, period, used, peak, billed, astray>>
      /\ reported' = exec[r].next
  BY DEF Write, workspace, usage, stripe
<1>3. /\ \A s \in Run : s # r => exec'[s] = exec[s]
      /\ exec'[r] = NotRunning
  BY IdleStep DEF Inv, Write
<1>4. exec[r].pc = "write" /\ Active(r)  BY DEF Write, At, Active
<1>5. \A s \in Run : /\ ~Active(s)' /\ ~Reporting(s)'
                    /\ \A m \in Meters : ~Done(s, m)' /\ ~InFlight(s, m)'
  BY <1>3, <1>4, OthersIdle, IdleJob, OnlyDoneInFlight DEF Active, Reporting, Done, At, Meters
<1>6. OneRun'  BY <1>2, <1>5 DEF Inv, OneRun
<1>7. ASSUME NEW m \in Meters PROVE MeterInv(m)'
  <2>0. BillingTypeOK /\ MeterInv(m) /\ m \in Meters  BY MeterTypes DEF Inv
  <2>1. Done(r, m)  BY <1>4 DEF Done, At
  <2>2. WithinUse(m)'  BY <1>2, <1>5, <2>0 DEF MeterInv, WithinUse, Kept
  <2>3. NotAhead(m)'  BY <1>2, <1>5, <2>0, <2>1 DEF MeterInv, NotAhead
  <2>4. LedgerAgrees(m)'
    BY <1>2, <1>5, <2>0, <2>1 DEF MeterInv, LedgerAgrees, Agrees, Kept, Entered
  <2>5. FreshPeriods(m)'
    BY <1>2, <1>5, <2>0, <2>1 DEF MeterInv, FreshPeriods, Fresh, Kept, Entered
  <2> QED  BY <2>2, <2>3, <2>4, <2>5 DEF MeterInv
<1> QED  BY <1>1, <1>6, <1>7 DEF Inv

(* A run that is given up leaves the ledger as it was. What it had billed  *)
(* is what leads it astray.                                                *)
LEMMA AbortInv ==
    ASSUME Inv, NEW r \in Run, Abort(r)
    PROVE  Inv'
<1>1. BillingTypeOK'  BY RunType DEF Inv, RunTrouble
<1>2. UNCHANGED <<plan, period, reported, used, peak, billed>>
  BY DEF Abort, workspace, row, usage, stripe
<1>3. /\ \A s \in Run : s # r => exec'[s] = exec[s]
      /\ exec'[r] = NotRunning
  BY IdleStep DEF Inv, Abort
<1>4. Active(r)  BY DEF Abort, At, Active
<1>5. \A s \in Run : /\ ~Active(s)' /\ ~Reporting(s)'
                    /\ \A m \in Meters : ~Done(s, m)' /\ ~InFlight(s, m)'
  BY <1>3, <1>4, OthersIdle, IdleJob, OnlyDoneInFlight DEF Active, Reporting, Done, At, Meters
<1>8. \A s \in Run, m \in Meters : InFlight(s, m) => s = r
  BY <1>3, <1>4, OthersIdle
<1>9. /\ \A m \in Meters, p \in Periods : Kept(m, p)' => Kept(m, p)
      /\ \A m \in Meters, p \in Periods : Kept(m, p)' => Entered(m, p)
  <2>1. astray' = astray \cup {<<m, exec[r].period>> : m \in {k \in Meters : InFlight(r, k)}}
    BY DEF Abort
  <2>2. ASSUME NEW m \in Meters, NEW p \in Periods, Kept(m, p)', InFlight(r, m)
        PROVE  exec[r].period # p
    BY <2>1, <2>2 DEF Kept
  <2> QED  BY <1>8, <2>1, <2>2 DEF Kept, Entered
<1>6. OneRun'  BY <1>2, <1>5 DEF Inv, OneRun
<1>7. ASSUME NEW m \in Meters PROVE MeterInv(m)'
  <2>0. /\ BillingTypeOK /\ MeterInv(m) /\ m \in Meters
        /\ period \in Periods /\ reported[m].period \in Periods
    BY MeterTypes DEF Inv
  <2>1. WithinUse(m)'  BY <1>2, <1>5, <1>9, <2>0 DEF MeterInv, WithinUse
  <2>2. NotAhead(m)'  BY <1>2, <1>5, <2>0 DEF MeterInv, NotAhead
  <2>3. LedgerAgrees(m)'
    BY <1>2, <1>5, <1>9, <2>0 DEF MeterInv, LedgerAgrees, Agrees
  <2>4. FreshPeriods(m)'
    BY <1>2, <1>5, <1>9, <2>0 DEF MeterInv, FreshPeriods, Fresh
  <2> QED  BY <2>1, <2>2, <2>3, <2>4 DEF MeterInv
<1> QED  BY <1>1, <1>6, <1>7 DEF Inv

-----------------------------------------------------------------------------
(* What a run knows of a meter before it reports it is what Stripe has.    *)
LEMMA LastIsBilled ==
    ASSUME Inv, NEW r \in Run, NEW m \in Meters, Reporting(r), ~Done(r, m),
           Kept(m, exec[r].period)
    PROVE  billed[m][exec[r].period] = LastReported(r, m)
<1>1. /\ Active(r) /\ exec[r].plan = "paid" /\ exec[r].reported = reported
      /\ exec[r].period > 0
  BY DEF Inv, OneRun, Reporting, Active, Meters
<1>2. MeterInv(m)  BY DEF Inv
<1>5. \A p \in Periods : Entered(m, p)
  <2>1. \A s \in Run : ~InFlight(s, m)
    BY <1>1, OnlyDoneInFlight DEF Inv, OneRun, Active, Done, At, Meters
  <2> QED  BY <2>1 DEF Entered
<1>3. CASE reported[m].period = exec[r].period
  <2>1. exec[r].period # 0 /\ exec[r].period \in Periods  BY <1>1, JobFields DEF Inv
  <2>2. billed[m][reported[m].period] = reported[m].units
    BY <1>2, <1>3, <1>5, <2>1 DEF MeterInv, LedgerAgrees, Agrees
  <2> QED  BY <1>1, <1>3, <2>2 DEF LastReported
<1>4. CASE reported[m].period # exec[r].period
  BY <1>1, <1>2, <1>4 DEF MeterInv, FreshPeriods, Fresh, LastReported
<1> QED  BY <1>3, <1>4

(* The report of one meter. *)
LEMMA ReportInv ==
    ASSUME Inv, NEW r \in Run, NEW k \in Meters,
           Accepted(r, k) \/ NothingDue(r, k) \/ Refused(r, k)
    PROVE  Inv'
<1>0. BillingTypeOK  BY DEF Inv
<1>1. BillingTypeOK'  BY <1>0, RunType DEF RunStep, RunTrouble
<1>2. UNCHANGED <<plan, period, reported, used, peak>>
  BY DEF Accepted, NothingDue, Refused, workspace, row, usage
<1>3. PICK e \in [units : Nat, period : Periods] :
           exec' = AfterReport(r, k, e)
  BY <1>0, ReportMade
<1>4. /\ \A s \in Run : s # r => exec'[s] = exec[s]
      /\ exec'[r].pc = After(k) /\ exec'[r].plan = exec[r].plan
      /\ exec'[r].period = exec[r].period /\ exec'[r].reported = exec[r].reported
      /\ exec'[r].count = exec[r].count
      /\ exec'[r].next[k] = e
      /\ \A m \in Meters : m # k => exec'[r].next[m] = exec[r].next[m]
  BY <1>0, <1>3, ReportStep
<1>5. exec[r].pc = k /\ Active(r) /\ Reporting(r)
  BY DEF Accepted, NothingDue, Refused, At, Active, Reporting, Meters
<1>6. \A s \in Run : s # r =>
          /\ ~Active(s) /\ ~Active(s)' /\ ~Reporting(s)'
          /\ \A m \in Meters : /\ ~Done(s, m) /\ ~Done(s, m)'
                               /\ ~InFlight(s, m) /\ ~InFlight(s, m)'
  BY <1>4, <1>5, OthersIdle
<1>7. /\ exec[r].plan = "paid" /\ exec[r].period <= period /\ exec[r].period > 0
      /\ exec[r].reported = reported /\ exec[r].next["detector"] = reported["detector"]
      /\ exec[r].period \in Periods /\ exec[r].period \in Nat
  BY <1>0, <1>5, JobFields DEF Inv, OneRun
<1>8. /\ k \in {"ai", "rca", "detector"} /\ exec'[r].pc \in {"rca", "detector", "write"}
      /\ exec'[r].pc = "write" <=> k = "detector"
  BY <1>4, After3 DEF Meters
<1>9. /\ Active(r)'
      /\ Reporting(r)' => k # "detector"
  BY <1>8 DEF Active, Reporting, Meters
<1>10. OneRun'
  <2>1. k # "detector" => exec'[r].next["detector"] = reported["detector"]
    BY <1>4, <1>7 DEF Meters
  <2>2. Reporting(r)' => Done(r, "ai")'
    BY <1>8 DEF Reporting, Done, At, Meters
  <2> QED  BY <1>2, <1>4, <1>5, <1>6, <1>7, <1>9, <2>1, <2>2 DEF Inv, OneRun
<1>11. \A m \in Meters : m # k => \A p \in Periods : billed'[m][p] = billed[m][p]
  <2>1. CASE billed' = billed  BY <2>1
  <2>2. CASE Delta(r, k) > 0 /\ Recorded(r, k)
    BY <1>0, <2>2, RecordedType
  <2> QED  BY <2>1, <2>2 DEF Accepted, NothingDue, Refused, stripe
<1>14. /\ \A m \in Meters, p \in Periods : Kept(m, p)' => Kept(m, p)
       /\ \A m \in Meters, p \in Periods : m # k => (Kept(m, p)' <=> Kept(m, p))
  <2>1. \/ astray' = astray
        \/ astray' = astray \cup ({<<k, exec[r].period>>} \cap ({"ai"} \X Periods))
        \/ astray' = astray \cup {<<k, exec[r].period>>}
    BY DEF Accepted, NothingDue, Refused
  <2> QED  BY <2>1 DEF Kept
<1>12. ASSUME NEW m \in Meters, m # k PROVE MeterInv(m)'
  <2>0. MeterInv(m) /\ m \in Meters /\ period \in Periods
        /\ reported[m].period \in Periods
    BY <1>0, MeterTypes DEF Inv
  <2>1. Done(r, m)' <=> Done(r, m)
    BY <1>4, <1>5, <1>8, <1>12, After3 DEF Done, At, Meters
  <2>2. exec'[r].next[m] = exec[r].next[m] /\ exec[r].next[m].period \in Periods
        /\ exec[r].period \in Periods
    BY <1>0, <1>4, <1>12, <2>0, JobFields, ReportFields
  <2>8. InFlight(r, m)' <=> InFlight(r, m)
    BY <1>4, <2>0, <2>1, <2>2, InFlightKept
  <2>9. \A p \in Periods : (Entered(m, p)' <=> Entered(m, p)) /\ (Kept(m, p)' <=> Kept(m, p))
    BY <1>4, <1>6, <1>12, <1>14, <2>0, <2>8 DEF Entered
  <2>3. \A p \in Periods : billed'[m][p] = billed[m][p]  BY <1>11, <1>12, <2>0
  <2>4. WithinUse(m)'
    BY <1>2, <1>4, <1>5, <1>6, <1>7, <2>0, <2>3, <2>9 DEF MeterInv, WithinUse
  <2>5. NotAhead(m)'
    BY <1>2, <1>4, <1>5, <1>6, <1>9, <2>0, <2>1, <2>2, <2>3 DEF MeterInv, NotAhead
  <2>6. LedgerAgrees(m)'
    BY <1>2, <1>6, <2>0, <2>1, <2>2, <2>3, <2>9 DEF MeterInv, LedgerAgrees, Agrees
  <2>7. FreshPeriods(m)'
    BY <1>2, <1>4, <1>5, <1>6, <1>7, <1>9, <2>0, <2>1, <2>2, <2>3, <2>9
       DEF MeterInv, FreshPeriods, Fresh
  <2> QED  BY <2>4, <2>5, <2>6, <2>7 DEF MeterInv
<1>13. ASSUME k \in Meters PROVE MeterInv(k)'
  <2>0. MeterInv(k) /\ k \in Counted /\ period \in Periods /\ period \in Nat
        /\ reported[k].period \in Periods /\ reported[k].period \in Nat
        /\ \A p \in Periods : /\ billed[k][p] \in Nat /\ used[k][p] \in Nat
                              /\ peak[k][p] \in Nat /\ p \in Nat
    BY <1>0, <1>13, MeterTypes DEF Inv
  <2>1. ~Done(r, k) /\ Done(r, k)' /\ \A p \in Periods : Entered(k, p)
    <3>1. ~Done(r, k)  BY <1>5 DEF Done, At, Meters
    <3>2. Done(r, k)'  BY <1>4, After3 DEF Done, At, Meters
    <3> QED  BY <1>6, <3>1, <3>2, OnlyDoneInFlight DEF Entered
  <2>2. Kept(k, exec[r].period) => billed[k][exec[r].period] = LastReported(r, k)
    BY <1>5, <2>1, LastIsBilled
  <2>3. /\ LastReported(r, k) \in Nat /\ exec[r].count[k] \in Nat
        /\ Delta(r, k) = exec[r].count[k] - LastReported(r, k)
        /\ \A u \in Nat : Entry(r, u).units = u /\ Entry(r, u).period = exec[r].period
        /\ \A u \in Nat : Entry(r, u) \in [units : Nat, period : Periods]
    BY <1>0, DeltaType
  (* The outcomes: the entry that the run keeps, and what was billed. *)
  <2>4. /\ \A p \in Periods : p # exec[r].period => billed'[k][p] = billed[k][p]
        /\ e.period = exec[r].period \/ e.period = 0 \/ e = reported[k]
        /\ Kept(k, exec[r].period)' =>
              /\ billed'[k][exec[r].period] <= peak[k][exec[r].period]
              /\ \/ /\ e.period = exec[r].period /\ e.units = billed'[k][exec[r].period]
                 \/ /\ e = reported[k] /\ billed' = billed
              /\ Entered(k, exec[r].period)' => billed' = billed
    <3>0. /\ Kept(k, exec[r].period)' => Kept(k, exec[r].period)
          /\ Kept(k, exec[r].period) => billed[k][exec[r].period] <= peak[k][exec[r].period]
      BY <1>4, <1>7, <1>14, <2>0 DEF MeterInv, WithinUse, Kept
    <3>1. CASE Accepted(r, k)
      <4>1. Delta(r, k) > 0 /\ Recorded(r, k)  BY <3>1 DEF Accepted
      <4>2. /\ billed'[k][exec[r].period] = billed[k][exec[r].period] + Delta(r, k)
            /\ \A p \in Periods : p # exec[r].period => billed'[k][p] = billed[k][p]
        BY <1>0, <4>1, RecordedType
      <4>3. Kept(k, exec[r].period) => billed'[k][exec[r].period] = exec[r].count[k]
        BY <2>2, <2>3, <4>2
      <4>4. exec[r].count[k] <= peak[k][exec[r].period]
        BY <1>5, <2>0 DEF MeterInv, WithinUse
      <4>5. exec' = AfterReport(r, k, Entry(r, exec[r].count[k]))
        BY <3>1 DEF Accepted, AfterReport
      <4>6. Entry(r, exec[r].count[k]) \in [units : Nat, period : Periods]  BY <2>3
      <4>7. e = Entry(r, exec[r].count[k])
        BY <1>0, <1>4, <4>5, <4>6, ReportStep
      <4>8. InFlight(r, k)'
        BY <1>4, <2>1, <4>1, <4>7 DEF InFlight, Delta, LastReported, Entry
      <4>9. ~Entered(k, exec[r].period)'  BY <1>4, <4>8 DEF Entered
      <4> QED  BY <2>3, <3>0, <4>2, <4>3, <4>4, <4>7, <4>9
    <3>2. CASE NothingDue(r, k)
      <4>1. exec' = AfterReport(r, k, Entry(r, LastReported(r, k)))
        BY <3>2 DEF NothingDue, AfterReport
      <4>2. Entry(r, LastReported(r, k)) \in [units : Nat, period : Periods]  BY <2>3
      <4>3. e = Entry(r, LastReported(r, k))
        BY <1>0, <1>4, <4>1, <4>2, ReportStep
      <4>4. billed' = billed  BY <3>2 DEF NothingDue, stripe
      <4> QED  BY <2>2, <2>3, <3>0, <4>3, <4>4
    <3>3. CASE Refused(r, k)
      <4>1. exec' = AfterReport(r, k, AfterFailure(r, k))
        BY <3>3 DEF Refused, AfterReport
      <4>2. /\ AfterFailure(r, k) \in [units : Nat, period : Periods]
            /\ k = "rca" => AfterFailure(r, k) = Entry(r, LastReported(r, k))
            /\ k = "detector" => AfterFailure(r, k) = reported[k]
            /\ k = "ai" => AfterFailure(r, k) = exec[r].next[k]
        BY <1>0, <1>7, <2>3, JobFields DEF AfterFailure, Reports, BillingTypeOK
      <4>3. e = AfterFailure(r, k)  BY <1>0, <1>4, <4>1, <4>2, ReportStep
      <4>4. k = "ai" => e.period = 0
        BY <1>5, <2>1, <4>2, <4>3 DEF Inv, OneRun, NoReport
      <4>5. \A p \in Periods : p # exec[r].period => billed'[k][p] = billed[k][p]
        <5>1. CASE billed' = billed  BY <5>1
        <5>2. CASE Delta(r, k) > 0 /\ Recorded(r, k)  BY <1>0, <5>2, RecordedType
        <5> QED  BY <3>3, <5>1, <5>2 DEF Refused
      <4>6. Kept(k, exec[r].period)' => billed' = billed /\ k # "ai"
        BY <1>4, <1>7, <3>3 DEF Refused, Kept
      <4> QED  BY <1>8, <2>2, <2>3, <3>0, <4>2, <4>3, <4>4, <4>5, <4>6
    <3> QED  BY <3>1, <3>2, <3>3
  <2>9. \A p \in Periods : Kept(k, p)' => Kept(k, p)  BY <1>14
  <2>5. WithinUse(k)'
    <3>1. \A p \in Periods : /\ used'[k][p] <= peak'[k][p]
                             /\ Kept(k, p)' => billed'[k][p] <= peak'[k][p]
      BY <1>2, <1>4, <2>0, <2>4, <2>9 DEF MeterInv, WithinUse, Kept
    <3>2. \A s \in Run : Reporting(s)' => exec'[s].count[k] <= peak'[k][exec'[s].period]
      BY <1>2, <1>4, <1>5, <1>6, <2>0 DEF MeterInv, WithinUse
    <3> QED  BY <3>1, <3>2 DEF WithinUse
  <2>6. NotAhead(k)'
    <3>1. \A p \in Periods : p > period => billed'[k][p] = 0
      BY <1>7, <2>0, <2>4 DEF MeterInv, NotAhead
    <3>2. e.period <= period  BY <1>7, <2>0, <2>4 DEF MeterInv, NotAhead
    <3> QED  BY <1>2, <1>4, <1>5, <1>6, <2>0, <2>1, <3>1, <3>2 DEF MeterInv, NotAhead
  <2>10. Agrees(k, reported[k])
    BY <2>0, <2>1 DEF MeterInv, LedgerAgrees
  <2>7. LedgerAgrees(k)'
    <3>1. ASSUME e.period # 0, Kept(k, e.period)' PROVE billed'[k][e.period] = e.units
      <4>1. CASE e.period = exec[r].period
        BY <1>2, <1>4, <1>7, <2>4, <2>9, <2>10, <3>1, <4>1 DEF Agrees, Kept
      <4>2. CASE e = reported[k] /\ e.period # exec[r].period
        BY <2>0, <2>4, <2>9, <2>10, <3>1, <4>2 DEF Agrees
      <4> QED  BY <2>4, <3>1, <4>1, <4>2
    <3>2. Agrees(k, exec[r].next[k])'  BY <1>4, <3>1 DEF Agrees
    <3>3. ASSUME Entered(k, reported[k].period)', reported[k].period # 0,
                 Kept(k, reported[k].period)'
          PROVE  billed'[k][reported[k].period] = reported[k].units
      <4>1. billed[k][reported[k].period] = reported[k].units
        BY <1>2, <2>0, <2>9, <2>10, <3>3 DEF Agrees, Kept
      <4>2. CASE reported[k].period = exec[r].period
        <5>1. Entered(k, exec[r].period)' /\ Kept(k, exec[r].period)'
          BY <1>2, <1>4, <3>3, <4>2 DEF Entered, Kept
        <5> QED  BY <2>4, <4>1, <5>1
      <4>3. CASE reported[k].period # exec[r].period
        BY <2>0, <2>4, <4>1, <4>3
      <4> QED  BY <4>2, <4>3
    <3>4. Entered(k, reported[k].period)' => Agrees(k, reported[k])'
      BY <1>2, <3>3 DEF Agrees
    <3> QED  BY <1>6, <2>1, <3>2, <3>4 DEF LedgerAgrees
  <2>8. FreshPeriods(k)'
    <3>0. plan = "paid" /\ reported[k].period # period /\ Kept(k, period) =>
             billed[k][period] = 0
      BY <2>0, <2>1 DEF MeterInv, FreshPeriods, Fresh
    <3>4. reported[k].period <= exec[r].period  BY <1>5, <2>0 DEF MeterInv, NotAhead
    <3>1. ASSUME plan = "paid", e.period # period, Kept(k, period)'
          PROVE  billed'[k][period] = 0
      <4>1. CASE period = exec[r].period
        BY <1>2, <1>4, <2>0, <2>4, <2>9, <3>0, <3>1, <4>1 DEF Kept
      <4>2. CASE period # exec[r].period
        <5>1. reported[k].period # period  BY <1>7, <2>0, <3>4, <4>2
        <5> QED  BY <1>2, <1>4, <2>0, <2>4, <2>9, <3>0, <3>1, <4>2, <5>1 DEF Kept
      <4> QED  BY <4>1, <4>2
    <3>3. ASSUME plan = "paid", Entered(k, period)', reported[k].period # period,
                 Kept(k, period)'
          PROVE  billed'[k][period] = 0
      <4>1. CASE period = exec[r].period
        <5>1. Entered(k, exec[r].period)' /\ Kept(k, exec[r].period)'
          BY <1>2, <1>4, <3>3, <4>1 DEF Entered, Kept
        <5> QED  BY <1>2, <1>4, <2>0, <2>4, <2>9, <3>0, <3>3, <4>1, <5>1 DEF Kept
      <4>2. CASE period # exec[r].period
        BY <1>2, <1>4, <2>0, <2>4, <2>9, <3>0, <3>3, <4>2 DEF Kept
      <4> QED  BY <4>1, <4>2
    <3>2. exec'[r].plan # "free"  BY <1>4, <1>7
    <3> QED  BY <1>2, <1>4, <1>6, <2>1, <3>1, <3>2, <3>3 DEF FreshPeriods, Fresh
  <2> QED  BY <2>5, <2>6, <2>7, <2>8 DEF MeterInv
<1> QED  BY <1>1, <1>10, <1>12, <1>13 DEF Inv

(* Two runs that overlap lead every ledger astray, for good; until then    *)
(* the invariant is kept.                                                  *)
LEMMA InvNext == IInv /\ [BillingNext]_billingVars => IInv'
<1> SUFFICES ASSUME IInv, [BillingNext]_billingVars PROVE IInv'  OBVIOUS
<1>1. BillingTypeOK /\ BillingTypeOK'  BY TypeNext DEF IInv
<1>2. SUFFICES ASSUME astray' # Meters \X Periods PROVE Inv'  BY <1>1 DEF IInv
<1>3. ASSUME NEW r \in Run, RunStep(r) \/ RunTrouble(r) PROVE Inv'
  <2>1. Inv  BY <1>1, <1>2, <1>3, AstrayStep DEF IInv
  <2>2. CASE Start(r)
    <3>1. (\A s \in Run : At(s, "idle")) /\ UNCHANGED astray
      BY <1>2, <2>2 DEF Start
    <3> QED  BY <2>1, <2>2, <3>1, StartInv
  <2> QED
    BY <1>3, <2>1, <2>2, CountInv, QuantityInv, WriteInv, AbortInv, ReportInv
       DEF RunStep, RunTrouble
<1>4. CASE \/ \E m \in Counted : Use(m) \/ Delete(m) \/ (m \in Capped /\ ExceedCap(m))
           \/ Webhook
  <2>1. UNCHANGED astray
    BY <1>4 DEF Use, Delete, ExceedCap, Webhook, Renew, Upgrade, Downgrade
  <2>2. Inv  BY <1>2, <2>1 DEF IInv
  <2> QED  BY <1>4, <2>2, WorldInv
<1>5. CASE UNCHANGED billingVars
  <2>1. UNCHANGED <<plan, period, reported, used, peak, billed, exec, astray>>
    BY <1>5 DEF billingVars, workspace, row, usage, stripe
  <2>2. Inv  BY <1>2, <2>1 DEF IInv
  <2>3. OneRun'  BY <2>1, <2>2 DEF Inv, OneRun, Active, Reporting, Done, At
  <2>4. ASSUME NEW m \in Meters PROVE MeterInv(m)'
    <3>1. MeterInv(m)  BY <2>2 DEF Inv
    <3>2. \A r \in Run : /\ Active(r)' <=> Active(r)
                         /\ Reporting(r)' <=> Reporting(r)
                         /\ Done(r, m)' <=> Done(r, m)
                         /\ InFlight(r, m)' <=> InFlight(r, m)
      BY <2>1 DEF Active, Reporting, Done, At, InFlight, Delta, LastReported, Entry
    <3>3. WithinUse(m)' /\ NotAhead(m)'
      BY <2>1, <3>1, <3>2 DEF MeterInv, WithinUse, NotAhead, Kept
    <3>4. LedgerAgrees(m)'
      BY <2>1, <3>1, <3>2 DEF MeterInv, LedgerAgrees, Agrees, Kept, Entered
    <3>5. FreshPeriods(m)'
      BY <2>1, <3>1, <3>2 DEF MeterInv, FreshPeriods, Fresh, Kept, Entered
    <3> QED  BY <3>3, <3>4, <3>5 DEF MeterInv
  <2> QED  BY <1>1, <2>3, <2>4 DEF Inv
<1> QED  BY <1>3, <1>4, <1>5 DEF BillingNext

LEMMA InvAlways == BillingSpec => []IInv
<1>1. BillingInit => IInv  BY InvInit DEF IInv, Inv
<1>2. IInv /\ [BillingNext]_billingVars => IInv'  BY InvNext
<1> QED  BY <1>1, <1>2, PTL DEF BillingSpec

-----------------------------------------------------------------------------
(* Units are never billed beyond their use in a period whose ledger did    *)
(* not go astray, whatever is refused, unreadable, unwritable or dies, and *)
(* whatever becomes of the workspace meanwhile (the delta tracking of      *)
(* processWorkspace).                                                      *)
THEOREM UnitsBilledOnce == BillingSpec => []NeverOverbilled
<1>1. IInv => NeverOverbilled
  <2> SUFFICES ASSUME IInv, NEW m \in Meters, NEW p \in Periods, Kept(m, p)
               PROVE  billed[m][p] <= peak[m][p]
    BY DEF NeverOverbilled, Kept
  <2>1. astray # Meters \X Periods  BY DEF Kept
  <2>2. MeterInv(m)  BY <2>1 DEF IInv, Inv
  <2> QED  BY <2>2 DEF MeterInv, WithinUse
<1> QED  BY <1>1, InvAlways, PTL

(* Between runs the ledger and Stripe agree, in a period for which the     *)
(* ledger did not go astray: what keeps a refused report from being lost   *)
(* or sent twice.                                                          *)
THEOREM LedgersInSync == BillingSpec => []LedgerInSync
<1>1. IInv => LedgerInSync
  <2> SUFFICES ASSUME IInv, \A r \in Run : At(r, "idle"), NEW m \in Meters,
                      reported[m].period # 0, Kept(m, reported[m].period)
               PROVE  billed[m][reported[m].period] = reported[m].units
    BY DEF LedgerInSync, Kept
  <2>1. reported[m].period \in Periods  BY MeterTypes DEF IInv
  <2>2. astray # Meters \X Periods  BY <2>1 DEF Kept
  <2>3. MeterInv(m)  BY <2>2 DEF IInv, Inv
  <2>4. Entered(m, reported[m].period)
    BY OnlyDoneInFlight DEF Entered, Done, At, Meters
  <2> QED  BY <2>3, <2>4 DEF MeterInv, LedgerAgrees, Agrees
<1> QED  BY <1>1, InvAlways, PTL

-----------------------------------------------------------------------------
(* Where only counts fail and Stripe refuses, the ledger goes astray for   *)
(* AI units alone, and without the refusals for none.                      *)
OnlyAiAstray == astray \subseteq {"ai"} \X Periods

LEMMA RefusalsLeadAiAstray ==
    ASSUME Faults \subseteq {"reject", "unread"}
    PROVE  BillingSpec =>
              [](OnlyAiAstray /\ ("reject" \notin Faults => astray = {}))
<1> DEFINE I == OnlyAiAstray /\ ("reject" \notin Faults => astray = {})
<1>1. BillingInit => I  BY DEF BillingInit, OnlyAiAstray
<1>2. BillingTypeOK /\ I /\ [BillingNext]_billingVars => I'
  <2> SUFFICES ASSUME BillingTypeOK, I, [BillingNext]_billingVars PROVE I'  OBVIOUS
  <2>0. "timeout" \notin Faults /\ "overlap" \notin Faults
        /\ "crash" \notin Faults /\ "unwritten" \notin Faults
    OBVIOUS
  <2>1. CASE UNCHANGED astray  BY <2>1 DEF OnlyAiAstray
  <2>2. ASSUME NEW r \in Run, NEW m \in Meters, Refused(r, m) PROVE I'
    BY <2>0, <2>2 DEF Refused, OnlyAiAstray
  <2>3. ASSUME NEW r \in Run, Abort(r) PROVE I'
    <3>1. At(r, "count")  BY <2>0, <2>3 DEF Abort
    <3>2. \A m \in Meters : ~InFlight(r, m)
      BY <3>1, OnlyDoneInFlight DEF Done, At
    <3>3. astray' = astray  BY <2>3, <3>2 DEF Abort
    <3> QED  BY <2>1, <3>3
  <2>4. ASSUME NEW r \in Run, Start(r) PROVE I'
    BY <2>0, <2>1, <2>4 DEF Start
  <2> QED
    BY <2>1, <2>2, <2>3, <2>4
       DEF BillingNext, RunStep, RunTrouble, Count, SetQuantity, Write, Accepted, NothingDue,
           Use, Delete, ExceedCap, Webhook, Renew, Upgrade, Downgrade, billingVars
<1>3. BillingInit => BillingTypeOK  BY TypeInit
<1>4. BillingTypeOK /\ [BillingNext]_billingVars => BillingTypeOK'  BY TypeNext
<1> HIDE DEF I
<1>5. BillingSpec => []I  BY <1>1, <1>2, <1>3, <1>4, PTL DEF BillingSpec
<1>6. I => OnlyAiAstray /\ ("reject" \notin Faults => astray = {})  BY DEF I
<1> QED  BY <1>5, <1>6, PTL

(* RCA and detector units are billed once, with no exemption, as long as   *)
(* Stripe's refusals and unreadable usage are all that goes wrong.         *)
THEOREM RepairedMetersBilledOnce ==
    ASSUME Faults \subseteq {"reject", "unread"}
    PROVE  BillingSpec =>
              [](\A m \in {"rca", "detector"}, p \in Periods : billed[m][p] <= peak[m][p])
<1>1. OnlyAiAstray /\ NeverOverbilled =>
         \A m \in {"rca", "detector"}, p \in Periods : billed[m][p] <= peak[m][p]
  BY DEF OnlyAiAstray, NeverOverbilled, Meters
<1> QED  BY <1>1, RefusalsLeadAiAstray, UnitsBilledOnce, PTL

(* So are AI units, once no report is refused: it is the refused report,   *)
(* and neither renewals nor plan changes, that bills them twice.           *)
THEOREM AiBilledOnceUnlessRefused ==
    ASSUME Faults \subseteq {"unread"}
    PROVE  BillingSpec => []AiNeverOverbilled
<1>1. Faults \subseteq {"reject", "unread"} /\ "reject" \notin Faults  OBVIOUS
<1>2. astray = {} /\ NeverOverbilled => AiNeverOverbilled
  BY DEF NeverOverbilled, AiNeverOverbilled, Meters
<1>3. BillingSpec => [](astray = {})
  <2>1. BillingSpec => [](OnlyAiAstray /\ ("reject" \notin Faults => astray = {}))
    BY <1>1, RefusalsLeadAiAstray
  <2>2. OnlyAiAstray /\ ("reject" \notin Faults => astray = {}) => astray = {}  BY <1>1
  <2> QED  BY <2>1, <2>2, PTL
<1> QED  BY <1>2, <1>3, UnitsBilledOnce, PTL
=============================================================================
