---------------------------- MODULE StatusChecks ----------------------------
(***************************************************************************)
(* When the checks of the data sources and their retries happen:           *)
(* DataSourceCheckTask (tasks/service/status_check.rs) and the task that   *)
(* uses it (update_data_source and update_all_data_sources in              *)
(* tasks/service.rs).  Daemon has the same task without time.              *)
(*                                                                         *)
(* Time is a number of units small enough for every delay to be whole, and *)
(* jumps to the next moment at which something happens.  What is ready     *)
(* happens at once: only sleeping and the checks themselves take time.     *)
(***************************************************************************)
EXTENDS Naturals, FiniteSets, FiniteSetsExt, SequencesExt

CONSTANTS
    DataSource,
    Interval,       \* status_check_interval
    InitialDelay,   \* the first retry's delay
    Num, Den,       \* backoff_factor = Num / Den
    CheckTimes,     \* how long a check may take
    Horizon         \* bound: time stops here

\* "backoff_factor MUST be greater than 1, initial_delay greater than 0s", and
\* tokio's interval panics when its period is zero.
ASSUME Positive  == {Interval, InitialDelay, Den} \subseteq Nat \ {0}
ASSUME Growing   == Num \in Nat /\ Num > Den
ASSUME TimesAreNat == CheckTimes \subseteq Nat /\ Horizon \in Nat

VARIABLES
    now,
    nextTick,   \* when the interval's next tick is due
    busy,       \* the checks the task waits for: [task, start, end]
    delayed,    \* the retries that sleep: [task, at]
    retryQueue

vars == <<now, nextTick, busy, delayed, retryQueue>>

-----------------------------------------------------------------------------
(* DataSourceCheckTask                                                     *)

\* The powers of a number, as a function that can be reasoned about.
Power(base) ==
    LET p[k \in Nat] == IF k = 0 THEN 1 ELSE base * p[k - 1] IN p

\* 1 + (factor - 1) * Interval / InitialDelay >= factor ^ k
Fits(k) == Power(Num)[k] * Den * InitialDelay
             <= Power(Den)[k] * (Den * InitialDelay + (Num - Den) * Interval)

\* factor ^ k >= 1 + (factor - 1) * k, so no more delays fit than first ones.
MaxExponent == Interval \div InitialDelay

\* The logarithm rounded down, less one: k delays of a geometric series take
\* no longer than Interval.  As an isize, -1 when InitialDelay = Interval
\* were rounded down below 1; 0 and -1 both mean no retry.
Log == CHOOSE k \in 0..MaxExponent : Fits(k) /\ ~Fits(k + 1)

\* Mutant: the logarithm rounded up.
RetriesRoundedUp == IF InitialDelay > Interval THEN 0 ELSE Log + 1

Retries == IF InitialDelay > Interval \/ Log = 0 THEN 0 ELSE Log - 1

\* deadline is not in the code: the end of total_checks_duration.
NewTask(d) ==
    [ds |-> d, left |-> Retries, delay |-> InitialDelay, deadline |-> now + Interval]

HasNext(task)  == task.left > 0

\* Mutant: the retries are not counted.
NextTaskUncounted(task) == [task EXCEPT !.delay = (@ * Num) \div Den]

NextTask(task) == [task EXCEPT !.left = @ - 1, !.delay = (@ * Num) \div Den]

-----------------------------------------------------------------------------
TypeOK ==
    /\ now \in 0..Horizon /\ nextTick \in Nat
    /\ \A b \in busy : b.task.ds \in DataSource /\ b.start <= now /\ now <= b.end
    /\ \A s \in delayed : s.task.ds \in DataSource /\ s.task.left \in Nat /\ now <= s.at
    /\ \A i \in DOMAIN retryQueue : retryQueue[i].ds \in DataSource

\* The first tick is immediate.
Init ==
    /\ now = 0 /\ nextTick = 0
    /\ busy = {} /\ delayed = {} /\ retryQueue = <<>>

Idle == busy = {}

Start(task, time) == [task |-> task, start |-> now, end |-> now + time]

\* A tick that was missed is made up for at once.
Tick ==
    /\ Idle /\ nextTick <= now
    /\ nextTick' = nextTick + Interval
    /\ \E time \in [DataSource -> CheckTimes] :
         busy' = {Start(NewTask(d), time[d]) : d \in DataSource}
    /\ UNCHANGED <<now, delayed, retryQueue>>

Retry ==
    /\ Idle /\ retryQueue # <<>>
    /\ retryQueue' = Tail(retryQueue)
    /\ \E time \in CheckTimes : busy' = {Start(Head(retryQueue), time)}
    /\ UNCHANGED <<now, nextTick, delayed>>

CheckDone(b, ok) ==
    /\ b \in busy /\ b.end = now
    /\ busy' = busy \ {b}
    /\ delayed' = IF ~ok /\ HasNext(b.task)
                    THEN delayed \union {[task |-> NextTask(b.task), at |-> now + b.task.delay]}
                    ELSE delayed
    /\ UNCHANGED <<now, nextTick, retryQueue>>

DelayOver(s) ==
    /\ s \in delayed /\ s.at = now
    /\ delayed' = delayed \ {s}
    /\ retryQueue' = Append(retryQueue, s.task)
    /\ UNCHANGED <<now, nextTick, busy>>

\* Nothing can happen now: time passes until something can.
Ready == \/ Idle /\ (nextTick <= now \/ retryQueue # <<>>)
         \/ \E b \in busy : b.end = now
         \/ \E s \in delayed : s.at = now

\* Mutant: a retry that sleeps does not wake the task.
MomentsOfChecks == {b.end : b \in busy} \union (IF Idle THEN {nextTick} ELSE {})

Moments == {b.end : b \in busy} \union {s.at : s \in delayed}
             \union (IF Idle THEN {nextTick} ELSE {})

Advance ==
    /\ ~Ready /\ Min(Moments) <= Horizon
    /\ now' = Min(Moments)
    /\ UNCHANGED <<nextTick, busy, delayed, retryQueue>>

Next ==
    \/ Tick \/ Retry \/ Advance
    \/ \E b \in busy, ok \in BOOLEAN : CheckDone(b, ok)
    \/ \E s \in delayed : DelayOver(s)

Spec == Init /\ [][Next]_vars

-----------------------------------------------------------------------------
\* "no retry will be attempted past total_checks_duration": each is made
\* before the next tick is due, whatever the outcome of the checks.
NoRetryPastDuration == \A b \in busy : b.start <= b.task.deadline

\* So a data source never has two series of retries at a time, which would
\* come to an end one after the other and each report a state of its own.
Pending(d) ==
    Cardinality({b \in busy : b.task.ds = d}) + Cardinality({s \in delayed : s.task.ds = d})
      + Cardinality({i \in DOMAIN retryQueue : retryQueue[i].ds = d})
OneSeries == \A d \in DataSource : Pending(d) <= 1
=============================================================================
