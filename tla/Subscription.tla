---------------------------- MODULE Subscription ----------------------------
(* One workspace's subscription: the routes under ui/src/app/api/billing   *)
(* (checkout, change-plan, webhook), the Workspace row they write, and     *)
(* Stripe, which they call and which calls them back. change-plan makes    *)
(* several Stripe calls, each of which may fail; webhook deliveries may be *)
(* late, repeated and out of order.                                        *)
EXTENDS Naturals, FiniteSets

CONSTANTS
    Change,      \* slots for change-plan requests under way
    MaxSubs,     \* bound on the checkouts completed
    MaxChanges,  \* bound on the change-plan requests
    MaxPeriods,  \* bound on the renewals of subscriptions
    MaxEvents    \* bound on the events Stripe emits

ASSUME SubscriptionAssumption ==
    {MaxSubs, MaxChanges, MaxPeriods, MaxEvents} \subseteq Nat

VARIABLES
    sub,      \* Stripe: the subscriptions, in the order they were created
    events,   \* Stripe: webhook events it may still deliver
    emitted,  \* Stripe: the number of events so far
    dbPlan,   \* Workspace.billingPlan
    dbSub,    \* Workspace.billingSubscriptionId, 0 for null
    change,   \* the change-plan requests under way
    wish,     \* history: what the last request asked for that was answered OK
              \* and named another plan than the row's
    seen,     \* history: the newest event delivered
    disorder, \* history: a write to the row undid a newer one
    unclear,  \* history: requests overlapped, failed half way, or met a renewal
    doubled,  \* history: two subscriptions were active at once
    changes, periods

subVars == <<sub, events, emitted, dbPlan, dbSub, change, wish, seen, disorder, unclear,
             doubled, changes, periods>>

stripe == <<sub, events, emitted, doubled>>
wsRow  == <<dbPlan, dbSub, seen, disorder>>

Plan == 0 .. 2   \* getPlanOrder of FREE, STARTER, PRO
Paid == 1 .. 2

Active == {i \in 1 .. MaxSubs : sub[i].active}

NoSub == [active |-> FALSE, plan |-> 0, meters |-> FALSE, cancel |-> FALSE,
          next |-> 0, nextMeters |-> FALSE, held |-> FALSE]

NoChange == [pc |-> "idle", plan |-> 0, from |-> 0, sub |-> 0, held |-> FALSE,
             meters |-> FALSE, event |-> 0]

SubInit ==
    /\ sub = [i \in 1 .. MaxSubs |-> NoSub]
    /\ events = {} /\ emitted = 0 /\ seen = 0
    /\ dbPlan = 0 /\ dbSub = 0
    /\ change = [c \in Change |-> NoChange]
    /\ wish = 0
    /\ disorder = FALSE /\ unclear = FALSE /\ doubled = FALSE
    /\ changes = 0 /\ periods = 0

-----------------------------------------------------------------------------
(* Stripe. A subscription has a plan item, metered items, a cancellation   *)
(* at the end of the period, and a schedule ("held") whose next phase has  *)
(* a plan and metered items of its own. Each change emits an event with    *)
(* the subscription as it is then.                                         *)

Emit(i, s, kind) ==
    /\ emitted < MaxEvents
    /\ emitted' = emitted + 1
    /\ events' = events \cup {[n |-> emitted + 1, kind |-> kind, sub |-> i, plan |-> s.plan]}

(* The subscription becomes s. *)
Put(i, s) ==
    /\ sub' = [sub EXCEPT ![i] = s]
    /\ Emit(i, s, IF s.active THEN "updated" ELSE "deleted")

(* A checkout session, opened while the row had no subscription or long    *)
(* ago in another tab, is completed: it orders the plan and all meters.    *)
CheckoutCompleted(p) ==
    \E i \in 1 .. MaxSubs :
        /\ \A j \in 1 .. MaxSubs : j < i => sub[j] # NoSub
        /\ sub[i] = NoSub
        /\ Put(i, [NoSub EXCEPT !.active = TRUE, !.plan = p, !.meters = TRUE])
        /\ wish' = p
        /\ doubled' = (doubled \/ Active # {})
        /\ UNCHANGED <<wsRow, change, unclear, changes, periods>>

(* The period ends: a cancelled subscription with it, else the schedule's  *)
(* next phase begins.                                                      *)
Renewed(s) ==
    IF s.cancel THEN [NoSub EXCEPT !.plan = s.plan, !.cancel = TRUE]
    ELSE IF s.held THEN [s EXCEPT !.plan = s.next, !.meters = s.nextMeters,
                                  !.held = FALSE, !.next = 0, !.nextMeters = FALSE]
    ELSE s

Renew(i) ==
    LET s == sub[i] IN
    /\ s.active /\ periods < MaxPeriods
    /\ periods' = periods + 1
    /\ Put(i, Renewed(s))
    /\ unclear' = (unclear \/ \E c \in Change : change[c].pc # "idle")
    /\ UNCHANGED <<wsRow, change, wish, doubled, changes>>

-----------------------------------------------------------------------------
(* POST /api/billing/webhook *)

WritePlan(p, i, n) ==
    /\ dbPlan' = p /\ dbSub' = i
    /\ disorder' = (disorder \/ n <= seen)
    /\ seen' = IF n > seen THEN n ELSE seen

(* Any event of the workspace is applied, whichever subscription it is of; *)
(* when it lacks the billing period the subscription is fetched afresh.    *)
PlanStaysOnDelete(e, fresh) ==
    IF e.kind = "deleted" THEN WritePlan(dbPlan, 0, e.n)
                          ELSE WritePlan(IF fresh THEN sub[e.sub].plan ELSE e.plan, e.sub, e.n)

Apply(e, fresh) ==
    IF e.kind = "deleted" THEN WritePlan(0, 0, e.n)
                          ELSE WritePlan(IF fresh THEN sub[e.sub].plan ELSE e.plan, e.sub, e.n)

(* Stripe delivers an event; it delivers it again when the answer is late. *)
Webhook(e) ==
    /\ e \in events
    /\ \E fresh \in BOOLEAN : Apply(e, fresh)
    /\ events' \in {events, events \ {e}}
    /\ UNCHANGED <<sub, emitted, change, wish, unclear, doubled, changes, periods>>

-----------------------------------------------------------------------------
(* POST /api/billing/change-plan: one action per Stripe call. *)

ChangeAt(c, pc) == change[c].pc = pc

(* Only the plan asked for matters once there is nothing left to call. *)
Go(c, pc) ==
    change' = [change EXCEPT ![c] = IF pc = "answer"
                                       THEN [NoChange EXCEPT !.pc = pc, !.plan = change[c].plan]
                                       ELSE [@ EXCEPT !.pc = pc]]

(* The row is read. The plan it is on, or FREE without a subscription, is  *)
(* "nothing to do": the request is answered OK, and a schedule or a        *)
(* cancellation that is pending at Stripe is neither read nor touched.     *)
NothingToDo(p) == p = dbPlan \/ (p = 0 /\ dbSub = 0)

AlreadyOnPlan(p) ==
    /\ changes < MaxChanges
    /\ NothingToDo(p)
    /\ changes' = changes + 1
    /\ UNCHANGED <<stripe, wsRow, change, wish, unclear, periods>>

(* Any other plan; without a subscription a paid plan is refused.          *)
BeginChange(c, p) ==
    /\ ChangeAt(c, "idle") /\ changes < MaxChanges
    /\ ~NothingToDo(p) /\ dbSub # 0
    /\ changes' = changes + 1
    /\ change' = [change EXCEPT ![c] = [NoChange EXCEPT !.pc = "retrieve", !.plan = p,
                                                        !.from = dbPlan, !.sub = dbSub]]
    /\ unclear' = (unclear \/ \E d \in Change : change[d].pc # "idle")
    /\ UNCHANGED <<stripe, wsRow, wish, periods>>

(* Where a request goes on: cancel, upgrade or downgrade. *)
Then(c) ==
    CASE change[c].plan = 0              -> "cancel"
      [] change[c].plan > change[c].from -> "upgrade"
      [] OTHER                           -> "schedule"

CancellationKept(c, s) == IF s.held THEN "release" ELSE Then(c)

AfterUncancel(c, s) == IF s.held THEN "release" ELSE Then(c)

AfterRetrieve(c, s) ==
    IF s.cancel /\ change[c].plan # 0 THEN "uncancel" ELSE AfterUncancel(c, s)

Retrieve(c) ==
    LET s == sub[change[c].sub] IN
    /\ ChangeAt(c, "retrieve")
    /\ change' = [change EXCEPT ![c].held = s.held, ![c].meters = s.meters,
                                ![c].pc = AfterRetrieve(c, s)]
    /\ UNCHANGED <<stripe, wsRow, wish, unclear, changes, periods>>

(* The call changes the subscription to s, and the request goes on at pc.  *)
StripeCall(c, s, pc) ==
    /\ sub[change[c].sub].active
    /\ Put(change[c].sub, s)
    /\ Go(c, pc)
    /\ UNCHANGED <<doubled, wsRow, wish, unclear, changes, periods>>

Uncancel(c) ==
    LET s == sub[change[c].sub] IN
    /\ ChangeAt(c, "uncancel")
    /\ StripeCall(c, [s EXCEPT !.cancel = FALSE], AfterUncancel(c, change[c]))

ReleaseSchedule(c) ==
    LET s == sub[change[c].sub] IN
    /\ ChangeAt(c, "release") /\ s.held
    /\ StripeCall(c, [s EXCEPT !.held = FALSE, !.next = 0, !.nextMeters = FALSE], Then(c))

(* FREE: cancel at the end of the period. *)
Cancel(c) ==
    LET s == sub[change[c].sub] IN
    /\ ChangeAt(c, "cancel") /\ ~s.held
    /\ StripeCall(c, [s EXCEPT !.cancel = TRUE], "answer")

(* Upgrade: at once, and the row at once too. *)
Upgrade(c) ==
    LET i == change[c].sub IN
    /\ ChangeAt(c, "upgrade") /\ sub[i].active
    /\ Put(i, [sub[i] EXCEPT !.plan = change[c].plan])
    /\ change' = [change EXCEPT ![c].pc = "row", ![c].event = emitted']
    /\ UNCHANGED <<doubled, wsRow, wish, unclear, changes, periods>>

UpdateRow(c) ==
    /\ ChangeAt(c, "row")
    /\ dbPlan' = change[c].plan
    /\ disorder' = (disorder \/ change[c].event < seen)
    /\ Go(c, "answer")
    /\ UNCHANGED <<stripe, dbSub, seen, wish, unclear, changes, periods>>

(* Downgrade: a schedule made from the subscription, then its phases. *)
CreateSchedule(c) ==
    LET s == sub[change[c].sub] IN
    /\ ChangeAt(c, "schedule") /\ ~s.held
    /\ StripeCall(c, [s EXCEPT !.held = TRUE, !.next = s.plan, !.nextMeters = s.meters], "phases")

PhasesOfThePlanOnly(c) == FALSE

(* The metered items the subscription had are put into the next phase.     *)
MetersOfNextPhase(c) == change[c].meters

SetPhases(c) ==
    LET s == sub[change[c].sub] IN
    /\ ChangeAt(c, "phases") /\ s.held
    /\ StripeCall(c, [s EXCEPT !.next = change[c].plan, !.nextMeters = MetersOfNextPhase(c)], "answer")

AnswerChange(c) ==
    /\ ChangeAt(c, "answer")
    /\ change' = [change EXCEPT ![c] = NoChange]
    /\ wish' = change[c].plan
    /\ UNCHANGED <<stripe, wsRow, unclear, changes, periods>>

(* A call fails: 500, and what the calls before it did stays.              *)
FailChange(c) ==
    /\ change[c].pc \notin {"idle", "answer"}
    /\ change' = [change EXCEPT ![c] = NoChange]
    /\ unclear' = (unclear \/ ~ChangeAt(c, "retrieve"))
    /\ UNCHANGED <<stripe, wsRow, wish, changes, periods>>

SubNext ==
    \/ \E p \in Paid : CheckoutCompleted(p)
    \/ \E i \in 1 .. MaxSubs : Renew(i)
    \/ \E e \in events : Webhook(e)
    \/ \E p \in Plan : AlreadyOnPlan(p)
    \/ \E c \in Change :
        \/ \E p \in Plan : BeginChange(c, p)
        \/ Retrieve(c) \/ Uncancel(c) \/ ReleaseSchedule(c) \/ Cancel(c) \/ Upgrade(c)
        \/ UpdateRow(c) \/ CreateSchedule(c) \/ SetPhases(c) \/ AnswerChange(c) \/ FailChange(c)

SubSpec == SubInit /\ [][SubNext]_subVars

-----------------------------------------------------------------------------
(* Every active subscription bills the meters, through plan changes,       *)
(* scheduled downgrades and renewals. ("metered usage price IDs ...        *)
(* preserved across plan changes / downgrade schedules", change-plan)      *)
MetersKept == \A i \in Active : sub[i].meters

(* What the subscription comes to at the end of the period. *)
Outcome(s) == IF s.cancel THEN 0 ELSE IF s.held THEN s.next ELSE s.plan

(* With no request under way, the subscription will become what the last   *)
(* checkout asked for, or the last request that was answered OK and named  *)
(* another plan than the row's, whatever was pending before it; unless     *)
(* requests overlapped, failed half way or met a renewal. A request for    *)
(* the plan the row has is answered OK as well and undoes nothing: a       *)
(* downgrade or a cancellation that is pending still takes effect.         *)
LatestChoiceCounts ==
    (\A c \in Change : ChangeAt(c, "idle")) /\ ~unclear /\ ~doubled =>
        \A i \in Active : Outcome(sub[i]) = wish

(* When every event was delivered and no write undid a newer one, the row  *)
(* names the active subscription and its plan, and FREE without one.       *)
RowFollowsStripe ==
    events = {} /\ ~disorder /\ ~doubled =>
        IF Active = {} THEN dbPlan = 0 /\ dbSub = 0
        ELSE \E i \in Active : dbSub = i /\ dbPlan = sub[i].plan
=============================================================================
