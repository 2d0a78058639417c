----------------------------- MODULE SettleWait ------------------------------
(* The settle wait of one detection job (handleDetectorRunJob, worker): it *)
(* asks how long the trace has been quiet, evaluates it when that is long  *)
(* enough, and otherwise puts itself off until the trace may be. Spans     *)
(* keep arriving meanwhile.                                                *)
(*                                                                         *)
(* Time is in ticks. A waiting job is started, and an await answered,      *)
(* within Lag ticks.                                                       *)
EXTENDS Naturals

CONSTANTS
    Delay,    \* EVALUATOR_DELAY
    Backoff,  \* the first backoff of a failed attempt
    Attempts, \* attempts of the job
    Lag,      \* how late the queue and the services may be
    MaxNow    \* bound on the time at which spans arrive; the clock runs on after it

ASSUME SettleAssumption ==
    /\ {Delay, Attempts} \subseteq Nat \ {0}
    /\ {Backoff, Lag, MaxNow} \subseteq Nat

VARIABLES
    now,
    lastSpan, \* when the newest span was stored, 0 before the first
    job,      \* "delayed", "asking", "asked", "done", "failed"
    due,      \* when the delayed job is to run, or the await to end
    age,      \* the quiet time that was read
    tries,    \* attempts used
    wait,     \* the backoff of the next failed attempt
    spent     \* history: time lost to failed attempts

settleVars == <<now, lastSpan, job, due, age, tries, wait, spent>>

SettleInit ==
    /\ now = 1 /\ lastSpan \in {0, 1}
    /\ job = "delayed" /\ due = 1 + Delay
    /\ age = 0 /\ tries = 0 /\ wait = Backoff /\ spent = 0

(* A batch of the trace is stored. *)
SpanArrives ==
    /\ now < MaxNow
    /\ lastSpan' = now
    /\ UNCHANGED <<now, job, due, age, tries, wait, spent>>

TimePasses ==
    /\ now < MaxNow + 3 * (Delay + Lag + spent)
    /\ job \in {"done", "failed"} \/ now < due + Lag
    /\ now' = now + 1
    /\ UNCHANGED <<lastSpan, job, due, age, tries, wait, spent>>

Start ==
    /\ job = "delayed" /\ now >= due
    /\ job' = "asking" /\ due' = now
    /\ UNCHANGED <<now, lastSpan, age, tries, wait, spent>>

(* time-since-last-span. The backend means a trace without spans to have   *)
(* age 0; ClickHouse's max() over no rows is the epoch, and not null, which *)
(* makes its age larger than any delay.                                    *)
ReadAge ==
    /\ job = "asking"
    /\ age' \in IF lastSpan = 0 THEN {0, Delay} ELSE {now - lastSpan}
    /\ job' = "asked" /\ due' = now
    /\ UNCHANGED <<now, lastSpan, tries, wait, spent>>

(* The read fails: the attempt is used up and retried after its backoff.   *)
ReadFails ==
    /\ job = "asking"
    /\ tries' = tries + 1
    /\ IF tries + 1 < Attempts
          THEN job' = "delayed" /\ due' = now + wait
          ELSE job' = "failed" /\ due' = now
    /\ wait' = 2 * wait
    /\ spent' = spent + wait + 2 * Lag
    /\ UNCHANGED <<now, lastSpan, age>>

Evaluate ==
    /\ job = "asked" /\ age >= Delay
    /\ job' = "done"
    /\ UNCHANGED <<now, lastSpan, due, age, tries, wait, spent>>

WholeDelay(a) == Delay

Remaining(a) == Delay - a

(* moveToDelayed: no attempt is used. *)
Redelay ==
    /\ job = "asked" /\ age < Delay
    /\ job' = "delayed" /\ due' = now + Remaining(age)
    /\ UNCHANGED <<now, lastSpan, age, tries, wait, spent>>

SettleNext ==
    \/ SpanArrives \/ TimePasses \/ Start \/ ReadAge \/ ReadFails \/ Evaluate \/ Redelay

SettleSpec == SettleInit /\ [][SettleNext]_settleVars

-----------------------------------------------------------------------------
(* A trace that stays quiet is evaluated once it was so for the delay: not *)
(* later than the queue and the services lag, counting the backoffs of     *)
(* failed attempts. ("re-delay the job to fire exactly EVALUATOR_DELAY     *)
(* after the most recent span", detector-run-processor.ts)                 *)
EvaluatedInTime ==
    lastSpan # 0 /\ now > lastSpan + Delay + 4 * Lag + spent => job \in {"done", "failed"}
=============================================================================
