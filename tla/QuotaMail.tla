------------------------------ MODULE QuotaMail ------------------------------
(* The usage mails of one meter of a FREE workspace (core and worker,      *)
(* ee/billing/usageNotifications.ts): a warning at 80% of the cap, a       *)
(* notice at 100%. The billing job decides on a row of stamps it read      *)
(* before, sends the mail, and stamps it when it went out. FREE measures   *)
(* all time, so the window of the stamps never changes.                    *)
EXTENDS Naturals

CONSTANTS
    BillingRun,     \* billing runs that may be under way
    Cap,      \* the plan's cap, in fifths
    MaxMails  \* bound on the mails sent

ASSUME QuotaMailAssumption == Cap \in Nat \ {0} /\ MaxMails \in Nat

VARIABLES
    used,    \* the meter, in fifths of the cap
    stamp,   \* the kinds of mail stamped as sent
    tick,    \* the runs
    mails,   \* the mails sent: how many of each kind
    late,    \* history: a warning was sent after a stamped notice
    unsafe   \* history: runs overlapped, or a stamp was lost

mailVars == <<used, stamp, tick, mails, late, unsafe>>

Kind == {"warning", "blocked"}

NoTick == [pc |-> "idle", used |-> 0, stamp |-> {}]

MailInit ==
    /\ used = 0 /\ stamp = {} /\ late = FALSE /\ unsafe = FALSE
    /\ tick = [r \in BillingRun |-> NoTick]
    /\ mails = [k \in Kind |-> 0]

(* Usage grows, and shrinks when a project is deleted. *)
Use ==
    /\ used' \in 0 .. Cap + 1
    /\ used' # used
    /\ UNCHANGED <<stamp, tick, mails, late, unsafe>>

(* The run has measured usage and reads the stamps. *)
BeginTick(r) ==
    /\ tick[r].pc = "idle"
    /\ tick' = [tick EXCEPT ![r] = [pc |-> "decide", used |-> used, stamp |-> stamp]]
    /\ unsafe' = (unsafe \/ \E q \in BillingRun : tick[q].pc # "idle")
    /\ UNCHANGED <<used, stamp, mails, late>>

(* decideUsageNotification *)
Decision(u, st) ==
    IF u >= Cap THEN {"blocked"} \ st
    ELSE IF 5 * u >= 4 * Cap THEN {"warning"} \ st ELSE {}

(* A notice stamps the warning too, which it makes obsolete. *)
OwnStamp(kind) == {kind}

StampsOf(kind) == IF kind = "blocked" THEN Kind ELSE {"warning"}

(* Nothing to send, no administrator, or the mail did not go out. *)
NoMail(r) ==
    /\ tick[r].pc = "decide"
    /\ tick' = [tick EXCEPT ![r] = NoTick]
    /\ UNCHANGED <<used, stamp, mails, late, unsafe>>

Mail(r, kind) ==
    /\ tick[r].pc = "decide" /\ kind \in Decision(tick[r].used, tick[r].stamp)
    /\ mails[kind] < MaxMails
    /\ mails' = [mails EXCEPT ![kind] = @ + 1]
    /\ late' = (late \/ (kind = "warning" /\ "blocked" \in stamp))
    /\ tick' = [tick EXCEPT ![r].pc = kind]
    /\ UNCHANGED <<used, stamp, unsafe>>

(* The upsert writes both stamps: the new ones and those it read before.   *)
Stamp(r) ==
    /\ tick[r].pc \in Kind
    /\ stamp' = tick[r].stamp \cup StampsOf(tick[r].pc)
    /\ tick' = [tick EXCEPT ![r] = NoTick]
    /\ UNCHANGED <<used, mails, late, unsafe>>

(* The run dies, or the upsert fails, with the mail out. *)
StampLost(r) ==
    /\ tick[r].pc \in Kind
    /\ tick' = [tick EXCEPT ![r] = NoTick]
    /\ unsafe' = TRUE
    /\ UNCHANGED <<used, stamp, mails, late>>

MailNext ==
    \/ Use
    \/ \E r \in BillingRun :
        \/ BeginTick(r) \/ NoMail(r) \/ Stamp(r) \/ StampLost(r)
        \/ \E kind \in Kind : Mail(r, kind)

MailSpec == MailInit /\ [][MailNext]_mailVars

-----------------------------------------------------------------------------
(* Each mail is sent at most once, and no warning after a notice that was  *)
(* stamped, whatever usage does meanwhile; unless runs overlapped or a     *)
(* stamp was lost. ("at most once per usage window per meter", "the        *)
(* obsolete warning never fires later")                                    *)
MailsOnce ==
    ~unsafe => ~late /\ \A k \in Kind : mails[k] <= 1
=============================================================================
