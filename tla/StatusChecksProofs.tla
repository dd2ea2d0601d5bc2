------------------------- MODULE StatusChecksProofs -------------------------
(***************************************************************************)
(* Proofs about the timing of the checks, for any interval, delays and     *)
(* checks: time is a number and never passes the moment at which a check   *)
(* ends or a retry wakes up; and when checks take no time the retries of a *)
(* round are over before the next, as DataSourceCheckTask::new guarantees. *)
(***************************************************************************)
EXTENDS StatusChecks, FiniteSetTheorems, WellFoundedInduction, TLAPS

USE Positive, Growing, TimesAreNat

-----------------------------------------------------------------------------
(* The next moment.                                                        *)

LEMMA MinIs ==
    ASSUME NEW S \in SUBSET Nat, S # {}
    PROVE  Min(S) \in S /\ \A n \in S : Min(S) <= n
<1>1. PICK m \in S : \A n \in S : <<n, m>> \notin OpToRel(<, Nat)
  BY NatLessThanWellFounded, WFMin
<1>2. \A n \in S : ~(n < m)
  BY <1>1 DEF OpToRel
<1>3. \A n \in S : m <= n
  BY <1>2
<1> QED
  BY <1>3 DEF Min

\* So a set that has 0 and the successor of each of its members has them all.
LEMMA AllOfNat ==
    ASSUME NEW S, 0 \in S, \A n \in Nat : n \in S => n + 1 \in S
    PROVE  \A n \in Nat : n \in S
<1> SUFFICES ASSUME NEW n \in Nat, n \notin S PROVE FALSE
  OBVIOUS
<1> DEFINE T == {k \in Nat : k \notin S}
<1>1. Min(T) \in T /\ \A k \in T : Min(T) <= k
  BY MinIs
<1> DEFINE m == Min(T)
<1>2. m \in Nat /\ m \notin S /\ m # 0
  BY <1>1
<1> HIDE DEF m
<1>3. m - 1 \in Nat /\ ~(m <= m - 1) /\ m - 1 + 1 = m
  BY <1>2
<1>4. m - 1 \in S
  BY <1>1, <1>3 DEF m
<1> QED
  BY <1>2, <1>3, <1>4

-----------------------------------------------------------------------------
(* Powers.                                                                 *)

\* The powers of a number up to the n-th.
IsPower(f, base, n) == f = [k \in 0..n |-> IF k = 0 THEN 1 ELSE base * f[k - 1]]

LEMMA PowerUpTo ==
    ASSUME NEW base \in Nat
    PROVE  \A n \in Nat : \E f : IsPower(f, base, n)
<1> DEFINE S == {n \in Nat : \E f : IsPower(f, base, n)}
<1>1. 0 \in S
  <2> DEFINE f == [k \in 0..0 |-> 1]
  <2>1. f = [k \in 0..0 |-> IF k = 0 THEN 1 ELSE base * f[k - 1]]
    OBVIOUS
  <2> QED
    BY <2>1 DEF IsPower
<1>2. ASSUME NEW n \in Nat, n \in S PROVE n + 1 \in S
  <2>1. PICK f : IsPower(f, base, n)
    BY <1>2
  <2> DEFINE g == [k \in 0..n + 1 |-> IF k = n + 1 THEN base * f[n] ELSE f[k]]
  <2>2. \A k \in 0..n + 1 : g[k] = IF k = 0 THEN 1 ELSE base * g[k - 1]
    <3> TAKE k \in 0..n + 1
    <3>1. CASE k = n + 1
      <4>1. k # 0 /\ k - 1 = n /\ n \in 0..n + 1 /\ n # n + 1
        BY <3>1
      <4> QED
        BY <3>1, <4>1
    <3>2. CASE k = 0
      <4>1. k \in 0..n /\ k # n + 1
        BY <3>2
      <4> QED
        BY <2>1, <3>2, <4>1 DEF IsPower
    <3>3. CASE k # 0 /\ k # n + 1
      <4>1. k \in 0..n /\ k - 1 \in 0..n + 1 /\ k - 1 # n + 1
        BY <3>3
      <4>2. f[k] = base * f[k - 1]
        BY <2>1, <3>3, <4>1 DEF IsPower
      <4> QED
        BY <3>3, <4>1, <4>2
    <3> QED
      BY <3>1, <3>2, <3>3
  <2>3. IsPower(g, base, n + 1)
    BY <2>2 DEF IsPower
  <2> QED
    BY <2>3
<1> HIDE DEF S
<1>3. \A n \in Nat : n \in S
  BY <1>1, <1>2, AllOfNat
<1> QED
  BY <1>3 DEF S

\* Two of them agree where both are defined.
LEMMA PowerUnique ==
    ASSUME NEW base \in Nat, NEW n \in Nat, NEW m \in Nat, n <= m, NEW f, NEW g,
           IsPower(f, base, n), IsPower(g, base, m)
    PROVE  f[n] = g[n]
<1> DEFINE S == {k \in Nat : k <= n => f[k] = g[k]}
<1>1. 0 \in S
  <2>1. 0 \in 0..n /\ 0 \in 0..m
    OBVIOUS
  <2>2. f[0] = 1 /\ g[0] = 1
    BY <2>1 DEF IsPower
  <2> QED
    BY <2>2
<1>2. ASSUME NEW k \in Nat, k \in S PROVE k + 1 \in S
  <2> SUFFICES ASSUME k + 1 <= n PROVE f[k + 1] = g[k + 1]
    OBVIOUS
  <2>1. k + 1 \in 0..n /\ k + 1 \in 0..m /\ k + 1 # 0 /\ k + 1 - 1 = k /\ k <= n
    OBVIOUS
  <2>2. f[k + 1] = base * f[k] /\ g[k + 1] = base * g[k]
    BY <2>1 DEF IsPower
  <2> QED
    BY <1>2, <2>1, <2>2
<1> HIDE DEF S
<1>3. n \in S
  BY <1>1, <1>2, AllOfNat
<1> QED
  BY <1>3 DEF S

LEMMA PowerIs ==
    ASSUME NEW base \in Nat
    PROVE  Power(base) = [k \in Nat |-> IF k = 0 THEN 1 ELSE base * Power(base)[k - 1]]
<1> DEFINE upTo(n) == CHOOSE f : IsPower(f, base, n)
           p == [n \in Nat |-> upTo(n)[n]]
<1>1. \A n \in Nat : IsPower(upTo(n), base, n)
  BY PowerUpTo
<1> HIDE DEF upTo
<1>2. ASSUME NEW k \in Nat PROVE p[k] = IF k = 0 THEN 1 ELSE base * p[k - 1]
  <2>1. CASE k = 0
    <3>1. 0 \in 0..0
      OBVIOUS
    <3> QED
      BY <1>1, <2>1, <3>1 DEF IsPower
  <2>2. CASE k # 0
    <3>1. k - 1 \in Nat /\ k \in 0..k /\ k - 1 <= k
      BY <2>2
    <3>2. upTo(k)[k] = base * upTo(k)[k - 1]
      BY <1>1, <2>2, <3>1 DEF IsPower
    <3>3. upTo(k - 1)[k - 1] = upTo(k)[k - 1]
      BY <1>1, <3>1, PowerUnique
    <3> QED
      BY <2>2, <3>1, <3>2, <3>3
  <2> QED
    BY <2>1, <2>2
<1>3. p = [k \in Nat |-> IF k = 0 THEN 1 ELSE base * p[k - 1]]
  BY <1>2
<1> HIDE DEF p
<1> DEFINE P(q) == q = [k \in Nat |-> IF k = 0 THEN 1 ELSE base * q[k - 1]]
<1>4. P(CHOOSE q : P(q))
  BY <1>3
<1> QED
  BY <1>4 DEF Power

LEMMA Powers ==
    ASSUME NEW base \in Nat \ {0}
    PROVE  /\ Power(base)[0] = 1
           /\ \A k \in Nat : /\ Power(base)[k] \in Nat \ {0}
                             /\ Power(base)[k + 1] = base * Power(base)[k]
<1> DEFINE p == Power(base)
<1>1. p = [k \in Nat |-> IF k = 0 THEN 1 ELSE base * p[k - 1]]
  BY PowerIs
<1> HIDE DEF p
<1>2. p[0] = 1
  BY <1>1
<1>3. \A k \in Nat : p[k + 1] = base * p[k]
  <2> TAKE k \in Nat
  <2>1. k + 1 \in Nat /\ k + 1 # 0 /\ k + 1 - 1 = k
    OBVIOUS
  <2> QED
    BY <1>1, <2>1
<1> DEFINE S == {k \in Nat : p[k] \in Nat \ {0}}
<1>4. 0 \in S
  BY <1>2
<1>5. ASSUME NEW k \in Nat, k \in S PROVE k + 1 \in S
  <2>1. \A a \in Nat \ {0}, b \in Nat \ {0} : a * b \in Nat \ {0}
    OBVIOUS
  <2> QED
    BY <1>3, <1>5, <2>1
<1> HIDE DEF S
<1>6. \A k \in Nat : k \in S
  BY <1>4, <1>5, AllOfNat
<1> QED
  BY <1>2, <1>3, <1>6 DEF S, p

-----------------------------------------------------------------------------
(* The number of retries.                                                  *)

Growth == Num - Den

LEMMA GrowthIs == Growth \in Nat /\ Growth > 0 /\ Num = Growth + Den
BY DEF Growth

LEMMA PowersOfBoth ==
    \A k \in Nat : /\ Power(Num)[k] \in Nat \ {0} /\ Power(Den)[k] \in Nat \ {0}
                   /\ Power(Num)[k + 1] = Num * Power(Num)[k]
                   /\ Power(Den)[k + 1] = Den * Power(Den)[k]
<1>1. Num \in Nat \ {0} /\ Den \in Nat \ {0}
  OBVIOUS
<1> QED
  BY <1>1, Powers

LEMMA Times ==
    ASSUME NEW a \in Nat, NEW b \in Nat, NEW c \in Nat, a <= b
    PROVE  a * c <= b * c
OBVIOUS

LEMMA Cancel ==
    ASSUME NEW a \in Nat, NEW b \in Nat, NEW c \in Nat \ {0}, c * a <= c * b
    PROVE  a <= b
OBVIOUS

LEMMA Bernoulli ==
    \A k \in Nat : Power(Den)[k] * (Den + k * Growth) <= Den * Power(Num)[k]
<1> DEFINE S == {k \in Nat : Power(Den)[k] * (Den + k * Growth) <= Den * Power(Num)[k]}
<1>1. 0 \in S
  <2>1. Power(Den)[0] = 1 /\ Power(Num)[0] = 1
    BY Powers
  <2> QED
    BY <2>1, GrowthIs
<1>2. ASSUME NEW k \in Nat, k \in S PROVE k + 1 \in S
  <2> DEFINE A == Power(Num)[k]
             B == Power(Den)[k]
  <2>1. A \in Nat /\ B \in Nat /\ B * (Den + k * Growth) <= Den * A
    BY <1>2, PowersOfBoth
  <2>2. /\ Power(Num)[k + 1] = (Growth + Den) * A
        /\ Power(Den)[k + 1] = Den * B
    BY PowersOfBoth, GrowthIs
  <2> HIDE DEF A, B
  <2>3. Growth \in Nat /\ Den \in Nat
    BY GrowthIs
  <2>4. (B * (Den + k * Growth)) * (Growth + Den) <= (Den * A) * (Growth + Den)
    BY <2>1, <2>3, Times
  <2>5. (B * (Den + k * Growth)) * (Growth + Den)
          = (Den * B) * (Den + (k + 1) * Growth) + B * (k * (Growth * Growth))
    BY <2>1, <2>3
  <2>6. B * (k * (Growth * Growth)) \in Nat
    BY <2>1, <2>3
  <2>7. (Den * B) * (Den + (k + 1) * Growth) <= Den * ((Growth + Den) * A)
    BY <2>1, <2>3, <2>4, <2>5, <2>6
  <2> QED
    BY <2>2, <2>7
<1> HIDE DEF S
<1>3. \A k \in Nat : k \in S
  BY <1>1, <1>2, AllOfNat
<1> QED
  BY <1>3 DEF S

\* k delays take more than k first delays.
LEMMA TooMany ==
    ASSUME NEW k \in Nat, k * InitialDelay > Interval
    PROVE  ~Fits(k)
<1> DEFINE A == Power(Num)[k]
           B == Power(Den)[k]
<1>1. A \in Nat /\ B \in Nat /\ B > 0
  BY PowersOfBoth
<1>2. B * (Den + k * Growth) <= Den * A
  BY Bernoulli
<1>3. Fits(k) <=> A * Den * InitialDelay <= B * (Den * InitialDelay + Growth * Interval)
  BY DEF Fits, Growth
<1> HIDE DEF A, B
<1>4. (B * (Den + k * Growth)) * InitialDelay <= (Den * A) * InitialDelay
  BY <1>1, <1>2, GrowthIs, Times
<1>5. (B * (Den + k * Growth)) * InitialDelay
        = B * (Den * InitialDelay) + (B * Growth) * (k * InitialDelay)
  BY <1>1, GrowthIs
<1>6. \A a, b, c \in Nat : a > 0 /\ b < c => a * b < a * c
  OBVIOUS
<1>7. (B * Growth) * Interval < (B * Growth) * (k * InitialDelay)
  <2>1. B * Growth \in Nat /\ B * Growth > 0 /\ k * InitialDelay \in Nat /\ Interval \in Nat
    BY <1>1, GrowthIs
  <2> QED
    BY <1>6, <2>1
<1>8. /\ (Den * A) * InitialDelay = A * Den * InitialDelay
      /\ B * (Den * InitialDelay + Growth * Interval)
           = B * (Den * InitialDelay) + (B * Growth) * Interval
  BY <1>1, GrowthIs
<1> QED
  BY <1>1, <1>3, <1>4, <1>5, <1>7, <1>8, GrowthIs

\* The logarithm is there, and MaxExponent bounds nothing.
LEMMA LogExists == \E k \in 0..MaxExponent : Fits(k) /\ ~Fits(k + 1)
<1> SUFFICES ASSUME \A k \in 0..MaxExponent : Fits(k) => Fits(k + 1) PROVE FALSE
  OBVIOUS
<1> DEFINE n == MaxExponent
           S == {k \in Nat : k <= n + 1 => Fits(k)}
<1>1. n \in Nat /\ (n + 1) * InitialDelay > Interval
  <2>1. \A v \in Nat, i \in Nat \ {0} : v \div i \in Nat /\ (v \div i + 1) * i > v
    OBVIOUS
  <2> QED
    BY <2>1 DEF MaxExponent
<1> HIDE DEF n
<1>2. 0 \in S
  <2>1. Power(Num)[0] = 1 /\ Power(Den)[0] = 1
    BY Powers
  <2>2. 1 * Den * InitialDelay <= 1 * (Den * InitialDelay + Growth * Interval)
    BY GrowthIs
  <2> QED
    BY <2>1, <2>2 DEF Fits, Growth
<1>3. ASSUME NEW k \in Nat, k \in S PROVE k + 1 \in S
  <2> SUFFICES ASSUME k + 1 <= n + 1 PROVE Fits(k + 1)
    OBVIOUS
  <2>1. k \in 0..n /\ k <= n + 1
    BY <1>1
  <2> QED
    BY <1>3, <2>1 DEF n
<1> HIDE DEF S
<1>4. n + 1 \in S
  BY <1>1, <1>2, <1>3, AllOfNat
<1> QED
  BY <1>1, <1>4, TooMany DEF S

LEMMA LogIs == Log \in Nat /\ Fits(Log)
<1>1. Log \in 0..MaxExponent /\ Fits(Log)
  BY LogExists DEF Log
<1>2. MaxExponent \in Nat
  BY DEF MaxExponent
<1> QED
  BY <1>1, <1>2

LEMMA RetriesAreNat == Retries \in Nat
BY LogIs DEF Retries

-----------------------------------------------------------------------------
(* What a check carries.                                                   *)

Task == [ds : DataSource, left : Nat, delay : Nat, deadline : Nat]

LEMMA NewTaskType ==
    ASSUME now \in Nat, NEW d \in DataSource
    PROVE  NewTask(d) \in Task
BY RetriesAreNat DEF NewTask, Task

LEMMA NextTaskType ==
    ASSUME NEW t \in Task, HasNext(t)
    PROVE  NextTask(t) \in Task
<1>1. t.left - 1 \in Nat
  BY DEF HasNext, Task
<1>2. \A n \in Nat : n * Num \in Nat
  OBVIOUS
<1>3. \A n \in Nat : n \div Den \in Nat
  OBVIOUS
<1>4. (t.delay * Num) \div Den \in Nat
  BY <1>2, <1>3 DEF Task
<1> QED
  BY <1>1, <1>4 DEF NextTask, Task

-----------------------------------------------------------------------------
(* Time.                                                                   *)

Timed ==
    /\ now \in 0..Horizon /\ nextTick \in Nat
    /\ busy \subseteq [task : Task, start : Nat, end : Nat]
    /\ delayed \subseteq [task : Task, at : Nat]
    /\ retryQueue \in Seq(Task)
    /\ \A b \in busy : b.start <= now /\ now <= b.end
    /\ \A s \in delayed : now <= s.at

LEMMA TimedInit == Init => Timed
BY DEF Init, Timed

LEMMA StartType ==
    ASSUME Timed, NEW t \in Task, NEW time \in CheckTimes
    PROVE  /\ Start(t, time) \in [task : Task, start : Nat, end : Nat]
           /\ Start(t, time).start <= now /\ now <= Start(t, time).end
<1>1. now \in Nat /\ time \in Nat
  BY DEF Timed
<1>2. now + time \in Nat /\ now <= now + time /\ now <= now
  BY <1>1
<1> QED
  BY <1>1, <1>2 DEF Start

\* Time goes on to the first of the moments, and so past none.
LEMMA AdvanceKeepsTime == Timed /\ Advance => Timed'
<1> SUFFICES ASSUME Timed, Advance PROVE Timed'
  OBVIOUS
<1>1. Moments \in SUBSET Nat /\ \A n \in Moments : now <= n
  <2>1. \A b \in busy : b.end \in Nat /\ now <= b.end
    BY DEF Timed
  <2>2. \A s \in delayed : s.at \in Nat /\ now <= s.at
    BY DEF Timed
  <2>3. nextTick \in Nat /\ now \in Nat /\ (Idle => ~(nextTick <= now))
    BY DEF Timed, Advance, Ready
  <2>4. Idle => now <= nextTick
    BY <2>3
  <2> QED
    BY <2>1, <2>2, <2>3, <2>4 DEF Moments
<1>2. /\ Min(Moments) \in Nat /\ now <= Min(Moments)
      /\ \A n \in Moments : Min(Moments) <= n
  <2>1. Moments # {}
    BY DEF Moments, Idle
  <2> QED
    BY <1>1, <2>1, MinIs
<1>3. /\ now' = Min(Moments) /\ Min(Moments) <= Horizon
      /\ UNCHANGED <<nextTick, busy, delayed, retryQueue>>
  BY DEF Advance
<1>4. now' \in 0..Horizon
  BY <1>2, <1>3
<1>5. ASSUME NEW b \in busy PROVE b.start <= now' /\ now' <= b.end
  <2>1. b.end \in Moments
    BY DEF Moments
  <2>2. b.start \in Nat /\ b.start <= now /\ now \in Nat
    BY DEF Timed
  <2>3. b.start <= Min(Moments)
    BY <1>2, <2>2
  <2> QED
    BY <1>2, <1>3, <2>1, <2>3
<1>6. \A s \in delayed : now' <= s.at
  BY <1>2, <1>3 DEF Moments
<1> QED
  BY <1>3, <1>4, <1>5, <1>6 DEF Timed

LEMMA TimedNext == Timed /\ [Next]_vars => Timed'
<1> SUFFICES ASSUME Timed, [Next]_vars PROVE Timed'
  OBVIOUS
<1>1. CASE Tick
  <2>1. PICK time \in [DataSource -> CheckTimes] :
          busy' = {Start(NewTask(d), time[d]) : d \in DataSource}
    BY <1>1 DEF Tick
  <2>2. \A d \in DataSource :
          /\ Start(NewTask(d), time[d]) \in [task : Task, start : Nat, end : Nat]
          /\ Start(NewTask(d), time[d]).start <= now /\ now <= Start(NewTask(d), time[d]).end
    <3> SUFFICES ASSUME NEW d \in DataSource
                 PROVE  /\ Start(NewTask(d), time[d]) \in [task : Task, start : Nat, end : Nat]
                        /\ Start(NewTask(d), time[d]).start <= now
                        /\ now <= Start(NewTask(d), time[d]).end
      OBVIOUS
    <3>1. NewTask(d) \in Task /\ time[d] \in CheckTimes
      BY NewTaskType DEF Timed
    <3> QED
      BY <3>1, StartType
  <2>3. /\ UNCHANGED <<now, delayed, retryQueue>> /\ nextTick' \in Nat
    BY <1>1 DEF Tick, Timed
  <2> QED
    BY <2>1, <2>2, <2>3 DEF Timed
<1>2. CASE Retry
  <2>1. PICK time \in CheckTimes : busy' = {Start(Head(retryQueue), time)}
    BY <1>2 DEF Retry
  <2>2. Head(retryQueue) \in Task /\ Tail(retryQueue) \in Seq(Task)
    BY <1>2 DEF Retry, Timed
  <2>3. UNCHANGED <<now, nextTick, delayed>> /\ retryQueue' = Tail(retryQueue)
    BY <1>2 DEF Retry
  <2> QED
    BY <2>1, <2>2, <2>3, StartType DEF Timed
<1>3. CASE Advance
  BY <1>3, AdvanceKeepsTime
<1>4. ASSUME NEW b \in busy, NEW ok \in BOOLEAN, CheckDone(b, ok) PROVE Timed'
  <2> DEFINE s == [task |-> NextTask(b.task), at |-> now + b.task.delay]
  <2>1. b.task \in Task /\ b.task.delay \in Nat /\ now \in Nat
    BY DEF Timed, Task
  <2>2. now + b.task.delay \in Nat /\ now <= now + b.task.delay
    BY <2>1
  <2>3. HasNext(b.task) => s \in [task : Task, at : Nat] /\ now <= s.at
    BY <2>1, <2>2, NextTaskType
  <2>4. /\ UNCHANGED <<now, nextTick, retryQueue>> /\ busy' \subseteq busy
        /\ \/ delayed' = delayed
           \/ HasNext(b.task) /\ delayed' = delayed \union {s}
    BY <1>4 DEF CheckDone
  <2> HIDE DEF s
  <2> QED
    BY <2>3, <2>4 DEF Timed
<1>5. ASSUME NEW s \in delayed, DelayOver(s) PROVE Timed'
  <2>1. s.task \in Task
    BY DEF Timed
  <2>2. Append(retryQueue, s.task) \in Seq(Task)
    BY <2>1 DEF Timed
  <2> QED
    BY <1>5, <2>2 DEF DelayOver, Timed
<1>6. CASE UNCHANGED vars
  BY <1>6 DEF vars, Timed
<1> QED
  BY <1>1, <1>2, <1>3, <1>4, <1>5, <1>6 DEF Next

\* Time passes no moment at which a check ends or a retry wakes up, so that
\* none is lost, and no retry count falls below zero (retries_left is an isize,
\* status_check.rs 11).
THEOREM TypeCorrect == Spec => []TypeOK
<1>1. Timed => TypeOK
  <2> SUFFICES ASSUME Timed PROVE TypeOK
    OBVIOUS
  <2>1. \A t \in Task : t.ds \in DataSource /\ t.left \in Nat
    BY DEF Task
  <2>2. \A b \in busy : b.task \in Task
    BY DEF Timed
  <2>3. \A s \in delayed : s.task \in Task
    BY DEF Timed
  <2>4. \A i \in DOMAIN retryQueue : retryQueue[i] \in Task
    BY DEF Timed
  <2> QED
    BY <2>1, <2>2, <2>3, <2>4 DEF Timed, TypeOK
<1> QED
  BY <1>1, TimedInit, TimedNext, PTL DEF Spec

-----------------------------------------------------------------------------
(* When the retries are made, if a check takes no time.                    *)

\* "assuming a try takes a negligible amount of time" (status_check.rs 24)
Instant == CheckTimes = {0}

\* Fewer delays take less.
LEMMA FitsDown ==
    ASSUME NEW k \in Nat, Fits(k + 1)
    PROVE  Fits(k)
<1> DEFINE A == Power(Num)[k]
           B == Power(Den)[k]
           x == Den * InitialDelay + Growth * Interval
<1>1. A \in Nat /\ B \in Nat /\ x \in Nat
  <2>1. A \in Nat /\ B \in Nat
    BY PowersOfBoth
  <2>2. x \in Nat
    BY GrowthIs
  <2> QED
    BY <2>1, <2>2
<1>2. (Num * A) * Den * InitialDelay <= (Den * B) * x
  BY PowersOfBoth DEF Fits, Growth
<1>3. (A * Den * InitialDelay <= B * x) <=> Fits(k)
  BY DEF Fits, Growth
<1> HIDE DEF A, B, x
<1>4. Den * (A * Den * InitialDelay) <= Num * (A * Den * InitialDelay)
  BY <1>1, Times
<1>5. /\ Num * (A * Den * InitialDelay) = (Num * A) * Den * InitialDelay
      /\ (Den * B) * x = Den * (B * x)
  BY <1>1
<1>6. Den * (A * Den * InitialDelay) <= Den * (B * x)
  BY <1>1, <1>2, <1>4, <1>5
<1>7. A * Den * InitialDelay \in Nat /\ B * x \in Nat
  BY <1>1
<1> QED
  BY <1>3, <1>6, <1>7, Cancel

\* There is room for one delay more than the retries have.
LEMMA RetriesFit ==
    ASSUME NEW j \in Nat, j <= Retries, Retries # 0
    PROVE  Fits(j + 1)
<1>1. Log \in Nat /\ Fits(Log) /\ Retries = Log - 1 /\ Log # 0
  BY LogIs DEF Retries
<1> DEFINE l == Log
           S == {n \in Nat : n <= l => Fits(l - n)}
<1>2. l \in Nat /\ l - 0 = l /\ j + 1 <= l
  BY <1>1
<1>3. 0 \in S
  BY <1>1, <1>2
<1> HIDE DEF l
<1>4. ASSUME NEW n \in Nat, n \in S PROVE n + 1 \in S
  <2> SUFFICES ASSUME n + 1 <= l PROVE Fits(l - (n + 1))
    OBVIOUS
  <2>1. l - (n + 1) \in Nat /\ l - (n + 1) + 1 = l - n /\ n <= l
    BY <1>2
  <2>2. Fits(l - n)
    BY <1>4, <2>1
  <2> QED
    BY <2>1, <2>2, FitsDown
<1> HIDE DEF S
<1>5. \A n \in Nat : n \in S
  BY <1>3, <1>4, AllOfNat
<1>6. l - (j + 1) \in Nat /\ l - (l - (j + 1)) = j + 1 /\ l - (j + 1) <= l
  BY <1>2
<1> QED
  BY <1>5, <1>6 DEF S

\* The retry comes in time, e after the first check: its delay and e are no
\* more than the geometric series and its sum.
InTime(t, e) ==
    LET j == Retries - t.left
        A == Power(Num)[j]
        B == Power(Den)[j]
    IN  /\ t.left <= Retries
        /\ t.delay * B <= InitialDelay * A
        /\ e * (Growth * B) + InitialDelay * (Den * B) <= InitialDelay * (Den * A)

LEMMA FirstInTime ==
    ASSUME NEW d \in DataSource
    PROVE  InTime(NewTask(d), 0)
<1>1. Power(Num)[0] = 1 /\ Power(Den)[0] = 1
  <2>1. Num \in Nat \ {0} /\ Den \in Nat \ {0}
    OBVIOUS
  <2> QED
    BY <2>1, Powers
<1>2. NewTask(d).left = Retries /\ NewTask(d).delay = InitialDelay
  BY DEF NewTask
<1>3. Retries - Retries = 0 /\ Retries <= Retries
  BY RetriesAreNat
<1>4. /\ InitialDelay * 1 <= InitialDelay * 1
      /\ 0 * (Growth * 1) + InitialDelay * (Den * 1) <= InitialDelay * (Den * 1)
  BY GrowthIs
<1> QED
  BY <1>1, <1>2, <1>3, <1>4 DEF InTime

LEMMA NextDelay ==
    ASSUME NEW x \in Nat, NEW delay \in Nat, NEW n \in Nat, NEW d \in Nat,
           NEW A \in Nat, NEW B \in Nat, NEW i \in Nat,
           x * d <= delay * n, delay * B <= i * A
    PROVE  x * (d * B) <= i * (n * A)
<1>1. (x * d) * B <= (delay * n) * B
  BY Times
<1>2. (delay * B) * n <= (i * A) * n
  BY Times
<1> QED
  BY <1>1, <1>2

LEMMA NextSum ==
    ASSUME NEW e \in Nat, NEW delay \in Nat, NEW m \in Nat, NEW d \in Nat,
           NEW A \in Nat, NEW B \in Nat, NEW i \in Nat,
           delay * B <= i * A, e * (m * B) + i * (d * B) <= i * (d * A)
    PROVE  (e + delay) * (m * (d * B)) + i * (d * (d * B)) <= i * (d * ((m + d) * A))
<1>1. (delay * B) * (m * d) <= (i * A) * (m * d)
  BY Times
<1>2. (e * (m * B) + i * (d * B)) * d <= (i * (d * A)) * d
  BY Times
<1>3. (e + delay) * (m * (d * B)) = (e * (m * B)) * d + (delay * B) * (m * d)
  OBVIOUS
<1>4. i * (d * (d * B)) = (i * (d * B)) * d
  OBVIOUS
<1>5. i * (d * ((m + d) * A)) = (i * A) * (m * d) + (i * (d * A)) * d
  OBVIOUS
<1> QED
  BY <1>1, <1>2, <1>3, <1>4, <1>5

LEMMA NextInTime ==
    ASSUME NEW t \in Task, NEW e \in Nat, InTime(t, e), HasNext(t)
    PROVE  InTime(NextTask(t), e + t.delay)
<1> DEFINE j == Retries - t.left
           A == Power(Num)[j]
           B == Power(Den)[j]
           x == (t.delay * Num) \div Den
<1>1. /\ t.left \in Nat /\ t.left > 0 /\ t.left <= Retries /\ t.delay \in Nat
  BY DEF Task, HasNext, InTime
<1>2. j \in Nat /\ Retries - (t.left - 1) = j + 1 /\ t.left - 1 <= Retries
  BY <1>1, RetriesAreNat
<1>3. NextTask(t).left = t.left - 1 /\ NextTask(t).delay = x
  BY DEF NextTask, Task
<1>4. /\ t.delay * B <= InitialDelay * A
      /\ e * (Growth * B) + InitialDelay * (Den * B) <= InitialDelay * (Den * A)
  BY DEF InTime
<1>5. /\ A \in Nat /\ B \in Nat
      /\ Power(Num)[j + 1] = (Growth + Den) * A /\ Power(Den)[j + 1] = Den * B
  BY <1>2, PowersOfBoth, GrowthIs
<1> HIDE DEF A, B, j
<1>6. x \in Nat /\ x * Den <= t.delay * (Growth + Den)
  <2>1. \A n \in Nat : n \div Den \in Nat /\ (n \div Den) * Den <= n
    OBVIOUS
  <2>2. t.delay * Num \in Nat /\ t.delay * Num = t.delay * (Growth + Den)
    BY <1>1, GrowthIs
  <2> QED
    BY <2>1, <2>2
<1> HIDE DEF x
<1>7. Growth \in Nat /\ Growth + Den \in Nat /\ InitialDelay \in Nat /\ Den \in Nat
  BY GrowthIs
<1>8. x * (Den * B) <= InitialDelay * ((Growth + Den) * A)
  BY <1>1, <1>4, <1>5, <1>6, <1>7, NextDelay
<1>9. (e + t.delay) * (Growth * (Den * B)) + InitialDelay * (Den * (Den * B))
        <= InitialDelay * (Den * ((Growth + Den) * A))
  BY <1>1, <1>4, <1>5, <1>7, NextSum
<1> QED
  BY <1>2, <1>3, <1>5, <1>8, <1>9 DEF InTime

LEMMA SumIsShort ==
    ASSUME NEW e \in Nat, NEW m \in Nat, m > 0, NEW d \in Nat \ {0}, NEW A \in Nat \ {0},
           NEW B \in Nat, NEW i \in Nat \ {0}, NEW v \in Nat,
           e * (m * B) + i * (d * B) <= i * (d * A),
           ((m + d) * A) * d * i <= (d * B) * (d * i + m * v)
    PROVE  e < v
<1>1. d * (((m + d) * A) * i) <= d * (B * (d * i + m * v))
  OBVIOUS
<1>2. ((m + d) * A) * i <= B * (d * i + m * v)
  BY <1>1, Cancel
<1>3. ((m + d) * A) * i = i * (d * A) + m * (A * i)
  OBVIOUS
<1>4. m * (A * i) > 0
  OBVIOUS
<1>5. B * (d * i + m * v) = i * (d * B) + v * (m * B)
  OBVIOUS
<1>6. e * (m * B) < v * (m * B)
  BY <1>2, <1>3, <1>4, <1>5
<1>7. \A a, b, c \in Nat : a * c < b * c => a < b
  OBVIOUS
<1>8. m * B \in Nat
  OBVIOUS
<1> QED
  BY <1>6, <1>7, <1>8

\* "no retry will be attempted past total_checks_duration"
LEMMA BeforeInterval ==
    ASSUME NEW t \in Task, NEW e \in Nat, InTime(t, e)
    PROVE  e < Interval
<1> DEFINE j == Retries - t.left
           A == Power(Num)[j]
           B == Power(Den)[j]
<1>1. t.left \in Nat /\ t.left <= Retries
  BY DEF Task, InTime
<1>2. j \in Nat /\ j <= Retries
  BY <1>1, RetriesAreNat
<1>3. e * (Growth * B) + InitialDelay * (Den * B) <= InitialDelay * (Den * A)
  BY DEF InTime
<1>4. /\ A \in Nat \ {0} /\ B \in Nat \ {0}
      /\ Power(Num)[j + 1] = (Growth + Den) * A /\ Power(Den)[j + 1] = Den * B
  BY <1>2, PowersOfBoth, GrowthIs
<1>5. CASE Retries = 0
  <2>1. j = 0
    BY <1>2, <1>5
  <2>2. A = 1 /\ B = 1
    BY <2>1, Powers
  <2>3. e * (Growth * 1) + InitialDelay * (Den * 1) <= InitialDelay * (Den * 1)
    BY <1>3, <2>2
  <2>4. e * Growth <= 0
    BY <2>3, GrowthIs
  <2>5. e = 0
    BY <2>4, GrowthIs
  <2> QED
    BY <2>5
<1>6. CASE Retries # 0
  <2>1. Fits(j + 1)
    BY <1>2, <1>6, RetriesFit
  <2>2. ((Growth + Den) * A) * Den * InitialDelay
          <= (Den * B) * (Den * InitialDelay + Growth * Interval)
    BY <1>4, <2>1 DEF Fits, Growth
  <2> HIDE DEF A, B
  <2> QED
    BY <1>3, <1>4, <2>2, GrowthIs, SumIsShort
<1> QED
  BY <1>5, <1>6

-----------------------------------------------------------------------------
(* Every retry of a round is made before the next.                         *)

\* A check or retry of the round that began Interval before the next tick,
\* which is made at that time.
OfRound(t, time) ==
    /\ t.deadline = nextTick
    /\ \E e \in Nat : time + Interval = nextTick + e /\ InTime(t, e)

InRound ==
    /\ now <= nextTick
    /\ \A b \in busy : b.start = now /\ b.end = now /\ OfRound(b.task, now)
    /\ \A s \in delayed : OfRound(s.task, s.at)
    /\ \A i \in DOMAIN retryQueue : OfRound(retryQueue[i], now)

LEMMA RoundIsShort ==
    ASSUME nextTick \in Nat, NEW t \in Task, NEW time \in Nat, OfRound(t, time)
    PROVE  time < nextTick
<1>1. PICK e \in Nat : time + Interval = nextTick + e /\ InTime(t, e)
  BY DEF OfRound
<1>2. e < Interval
  BY <1>1, BeforeInterval
<1> QED
  BY <1>1, <1>2

\* The queue as its members.
LEMMA TypesOf ==
    ASSUME Timed
    PROVE  /\ now \in Nat /\ nextTick \in Nat
           /\ \A b \in busy : b.task \in Task /\ b.start \in Nat /\ b.end \in Nat
           /\ \A s \in delayed : s.task \in Task /\ s.at \in Nat /\ now <= s.at
           /\ \A i \in DOMAIN retryQueue : retryQueue[i] \in Task
BY DEF Timed

\* When the interval ticks nothing of the round before is left.
LEMMA TickAlone ==
    ASSUME Timed, InRound, Tick
    PROVE  now = nextTick /\ busy = {} /\ delayed = {} /\ retryQueue = <<>>
<1>1. now = nextTick /\ now \in Nat
  BY TypesOf DEF Tick, InRound
<1>2. ASSUME NEW s \in delayed PROVE FALSE
  <2>1. s.at < nextTick /\ now <= s.at /\ s.at \in Nat
    BY RoundIsShort, TypesOf DEF InRound
  <2> QED
    BY <1>1, <2>1
<1>3. ASSUME NEW i \in DOMAIN retryQueue PROVE FALSE
  <2>1. now < nextTick
    BY RoundIsShort, TypesOf DEF InRound
  <2> QED
    BY <1>1, <2>1
<1>4. retryQueue = <<>>
  <2>1. retryQueue \in Seq(Task)
    BY DEF Timed
  <2>2. retryQueue # <<>> => 1 \in DOMAIN retryQueue
    BY <2>1
  <2> QED
    BY <1>3, <2>2
<1> QED
  BY <1>1, <1>2, <1>4 DEF Tick, Idle

LEMMA InRoundInit == Init => InRound
BY DEF Init, InRound

LEMMA InRoundNext ==
    ASSUME Instant, Timed, InRound, [Next]_vars
    PROVE  InRound'
<1>1. CASE Tick
  <2>1. now = nextTick /\ delayed' = {} /\ retryQueue' = <<>> /\ now' = now
    BY <1>1, TickAlone DEF Tick
  <2>2. now \in Nat /\ nextTick' = nextTick + Interval
    BY <1>1, TypesOf DEF Tick
  <2>3. PICK time \in [DataSource -> CheckTimes] :
          busy' = {Start(NewTask(d), time[d]) : d \in DataSource}
    BY <1>1 DEF Tick
  <2>4. now <= nextTick'
    BY <2>1, <2>2
  <2>5. ASSUME NEW b \in busy'
        PROVE  b.start = now' /\ b.end = now' /\ OfRound(b.task, now)'
    <3>1. PICK d \in DataSource : b = Start(NewTask(d), time[d])
      BY <2>3
    <3>2. time[d] = 0
      BY DEF Instant
    <3>3. now + time[d] = now
      BY <2>2, <3>2
    <3>4. b.task = NewTask(d) /\ b.start = now /\ b.end = now
      BY <3>1, <3>3 DEF Start
    <3>5. b.task.deadline = nextTick' /\ now + Interval = nextTick' + 0
      BY <2>1, <2>2, <3>4 DEF NewTask
    <3>6. InTime(b.task, 0)
      BY <3>4, FirstInTime
    <3> QED
      BY <2>1, <3>4, <3>5, <3>6 DEF OfRound
  <2> QED
    BY <2>1, <2>4, <2>5 DEF InRound
<1>2. CASE Retry
  <2>1. PICK time \in CheckTimes : busy' = {Start(Head(retryQueue), time)}
    BY <1>2 DEF Retry
  <2>2. time = 0 /\ now + time = now
    BY TypesOf DEF Instant
  <2>3. UNCHANGED <<now, nextTick, delayed>> /\ retryQueue' = Tail(retryQueue)
    BY <1>2 DEF Retry
  <2>4. retryQueue # <<>> /\ retryQueue \in Seq(Task)
    BY <1>2 DEF Retry, Timed
  <2>5. 1 \in DOMAIN retryQueue /\ Head(retryQueue) = retryQueue[1]
    BY <2>4
  <2>6. \A i \in DOMAIN Tail(retryQueue) :
          i + 1 \in DOMAIN retryQueue /\ Tail(retryQueue)[i] = retryQueue[i + 1]
    BY <2>4
  <2>7. OfRound(Head(retryQueue), now)
    BY <2>5 DEF InRound
  <2>8. \A i \in DOMAIN Tail(retryQueue) : OfRound(Tail(retryQueue)[i], now)
    BY <2>6 DEF InRound
  <2> QED
    BY <2>1, <2>2, <2>3, <2>7, <2>8 DEF InRound, OfRound, Start
<1>3. CASE Advance
  <2>1. busy = {} /\ retryQueue = <<>> /\ Idle
    <3>1. ~Ready
      BY <1>3 DEF Advance
    <3>2. busy = {}
      BY <3>1 DEF Ready, InRound
    <3> QED
      BY <3>1, <3>2 DEF Ready, Idle
  <2>2. UNCHANGED <<nextTick, busy, delayed, retryQueue>> /\ now' = Min(Moments)
    BY <1>3 DEF Advance
  <2>3. Moments \in SUBSET Nat /\ nextTick \in Moments
    BY <2>1, TypesOf DEF Moments
  <2>4. now' <= nextTick'
    BY <2>2, <2>3, MinIs
  <2> QED
    BY <2>1, <2>2, <2>4 DEF InRound, OfRound
<1>4. ASSUME NEW b \in busy, NEW ok \in BOOLEAN, CheckDone(b, ok) PROVE InRound'
  <2> DEFINE s == [task |-> NextTask(b.task), at |-> now + b.task.delay]
  <2>1. /\ UNCHANGED <<now, nextTick, retryQueue>> /\ busy' \subseteq busy
        /\ \/ delayed' = delayed
           \/ HasNext(b.task) /\ delayed' = delayed \union {s}
    BY <1>4 DEF CheckDone
  <2>2. ASSUME HasNext(b.task) PROVE OfRound(s.task, s.at)
    <3>1. PICK e \in Nat : now + Interval = nextTick + e /\ InTime(b.task, e)
      BY DEF InRound, OfRound
    <3>2. b.task \in Task /\ b.task.delay \in Nat /\ now \in Nat /\ nextTick \in Nat
      BY TypesOf DEF Task
    <3>3. InTime(NextTask(b.task), e + b.task.delay)
      BY <2>2, <3>1, <3>2, NextInTime
    <3>4. /\ e + b.task.delay \in Nat
          /\ (now + b.task.delay) + Interval = nextTick + (e + b.task.delay)
      BY <3>1, <3>2
    <3>5. NextTask(b.task).deadline = nextTick
      BY <3>2 DEF NextTask, Task, InRound, OfRound
    <3> QED
      BY <3>3, <3>4, <3>5 DEF OfRound
  <2> HIDE DEF s
  <2> QED
    BY <2>1, <2>2 DEF InRound, OfRound
<1>5. ASSUME NEW s \in delayed, DelayOver(s) PROVE InRound'
  <2>1. /\ s.at = now /\ delayed' = delayed \ {s} /\ UNCHANGED <<now, nextTick, busy>>
        /\ retryQueue' = Append(retryQueue, s.task)
    BY <1>5 DEF DelayOver
  <2>2. OfRound(s.task, now)
    BY <2>1 DEF InRound
  <2>3. retryQueue \in Seq(Task) /\ s.task \in Task
    BY TypesOf DEF Timed
  <2>4. \A i \in DOMAIN retryQueue' :
          \/ i \in DOMAIN retryQueue /\ retryQueue'[i] = retryQueue[i]
          \/ retryQueue'[i] = s.task
    BY <2>1, <2>3
  <2>5. \A i \in DOMAIN retryQueue' : OfRound(retryQueue'[i], now)
    BY <2>2, <2>4 DEF InRound
  <2> QED
    BY <2>1, <2>5 DEF InRound, OfRound
<1>6. CASE UNCHANGED vars
  BY <1>6 DEF vars, InRound, OfRound
<1> QED
  BY <1>1, <1>2, <1>3, <1>4, <1>5, <1>6 DEF Next

\* The guarantee of DataSourceCheckTask::new (status_check.rs 22-28), for every
\* interval, first delay and factor: "assuming a try takes a negligible amount
\* of time, no retry will be attempted past total_checks_duration".
THEOREM RetriesInTime ==
    ASSUME Instant
    PROVE  Spec => []NoRetryPastDuration
<1>1. Timed /\ InRound => NoRetryPastDuration
  <2> SUFFICES ASSUME Timed, InRound, NEW b \in busy PROVE b.start <= b.task.deadline
    BY DEF NoRetryPastDuration
  <2>1. b.start = now /\ OfRound(b.task, now)
    BY DEF InRound
  <2>2. b.task.deadline = nextTick
    BY <2>1 DEF OfRound
  <2> QED
    BY <2>1, <2>2 DEF InRound
<1>2. Timed /\ InRound /\ [Next]_vars => InRound'
  BY InRoundNext
<1> QED
  BY <1>1, <1>2, TimedInit, TimedNext, InRoundInit, PTL DEF Spec

-----------------------------------------------------------------------------
(* A data source has one series of retries.                                *)

\* Whatever is pending - under way, asleep or queued - is the only one of its
\* data source.
Alone ==
    /\ \A b, c \in busy : b.task.ds = c.task.ds => b = c
    /\ \A s, r \in delayed : s.task.ds = r.task.ds => s = r
    /\ \A i, j \in DOMAIN retryQueue : retryQueue[i].ds = retryQueue[j].ds => i = j
    /\ \A b \in busy, s \in delayed : b.task.ds # s.task.ds
    /\ \A b \in busy, i \in DOMAIN retryQueue : b.task.ds # retryQueue[i].ds
    /\ \A s \in delayed, i \in DOMAIN retryQueue : s.task.ds # retryQueue[i].ds

LEMMA AloneInit == Init => Alone
BY DEF Init, Alone

LEMMA AloneNext ==
    ASSUME Timed, InRound, Alone, [Next]_vars
    PROVE  Alone'
<1>1. CASE Tick
  <2>1. delayed' = {} /\ retryQueue' = <<>>
    BY <1>1, TickAlone DEF Tick
  <2>2. PICK time \in [DataSource -> CheckTimes] :
          busy' = {Start(NewTask(d), time[d]) : d \in DataSource}
    BY <1>1 DEF Tick
  <2>3. ASSUME NEW b \in busy', NEW c \in busy', b.task.ds = c.task.ds PROVE b = c
    <3>1. PICK d \in DataSource : b = Start(NewTask(d), time[d])
      BY <2>2
    <3>2. PICK f \in DataSource : c = Start(NewTask(f), time[f])
      BY <2>2
    <3>3. b.task.ds = d /\ c.task.ds = f
      BY <3>1, <3>2 DEF Start, NewTask
    <3> QED
      BY <2>3, <3>1, <3>2, <3>3
  <2> QED
    BY <2>1, <2>3 DEF Alone
<1>2. CASE Retry
  <2>1. PICK time \in CheckTimes : busy' = {Start(Head(retryQueue), time)}
    BY <1>2 DEF Retry
  <2>2. busy = {} /\ delayed' = delayed /\ retryQueue' = Tail(retryQueue)
    BY <1>2 DEF Retry, Idle
  <2>3. retryQueue # <<>> /\ retryQueue \in Seq(Task)
    BY <1>2 DEF Retry, Timed
  <2>4. 1 \in DOMAIN retryQueue /\ Head(retryQueue) = retryQueue[1]
    BY <2>3
  <2>5. \A i \in DOMAIN retryQueue' :
          /\ i \in Nat /\ i + 1 \in DOMAIN retryQueue /\ i + 1 # 1
          /\ retryQueue'[i] = retryQueue[i + 1]
    BY <2>2, <2>3
  <2>6. \A b \in busy' : b.task = retryQueue[1]
    BY <2>1, <2>4 DEF Start
  <2>7. \A b, c \in busy' : b = c
    BY <2>1
  <2>8. \A i, j \in DOMAIN retryQueue' : retryQueue'[i].ds = retryQueue'[j].ds => i = j
    <3> TAKE i, j \in DOMAIN retryQueue'
    <3>1. retryQueue'[i].ds = retryQueue'[j].ds => i + 1 = j + 1
      BY <2>5 DEF Alone
    <3> QED
      BY <2>5, <3>1
  <2>9. \A b \in busy', s \in delayed' : b.task.ds # s.task.ds
    BY <2>2, <2>4, <2>6 DEF Alone
  <2>10. \A b \in busy', i \in DOMAIN retryQueue' : b.task.ds # retryQueue'[i].ds
    BY <2>4, <2>5, <2>6 DEF Alone
  <2>11. \A s \in delayed', i \in DOMAIN retryQueue' : s.task.ds # retryQueue'[i].ds
    BY <2>2, <2>5 DEF Alone
  <2> QED
    BY <2>2, <2>7, <2>8, <2>9, <2>10, <2>11 DEF Alone
<1>3. CASE Advance \/ UNCHANGED vars
  BY <1>3 DEF Advance, vars, Alone
<1>4. ASSUME NEW b \in busy, NEW ok \in BOOLEAN, CheckDone(b, ok) PROVE Alone'
  <2> DEFINE s == [task |-> NextTask(b.task), at |-> now + b.task.delay]
  <2>1. /\ retryQueue' = retryQueue /\ busy' = busy \ {b}
        /\ delayed' = delayed \/ delayed' = delayed \union {s}
    BY <1>4 DEF CheckDone
  <2>2. s.task.ds = b.task.ds
    BY TypesOf DEF NextTask, Task
  <2> HIDE DEF s
  <2>3. \A c \in busy' : c \in busy /\ c.task.ds # b.task.ds
    BY <2>1 DEF Alone
  <2>4. \A r \in delayed' : r = s \/ r \in delayed
    BY <2>1
  <2>5. \A r, q \in delayed' : r.task.ds = q.task.ds => r = q
    BY <2>2, <2>4 DEF Alone
  <2>6. \A c \in busy', r \in delayed' : c.task.ds # r.task.ds
    BY <2>2, <2>3, <2>4 DEF Alone
  <2>7. \A r \in delayed', i \in DOMAIN retryQueue : r.task.ds # retryQueue[i].ds
    BY <2>2, <2>4 DEF Alone
  <2> QED
    BY <2>1, <2>3, <2>5, <2>6, <2>7 DEF Alone
<1>5. ASSUME NEW s \in delayed, DelayOver(s) PROVE Alone'
  <2>1. /\ delayed' = delayed \ {s} /\ busy' = busy
        /\ retryQueue' = Append(retryQueue, s.task)
    BY <1>5 DEF DelayOver
  <2>2. retryQueue \in Seq(Task) /\ s.task \in Task
    BY TypesOf DEF Timed
  <2> DEFINE n == Len(retryQueue) + 1
  <2>3. \A i \in DOMAIN retryQueue' :
          \/ i \in DOMAIN retryQueue /\ retryQueue'[i] = retryQueue[i]
          \/ i = n /\ retryQueue'[i] = s.task
    BY <2>1, <2>2
  <2> HIDE DEF n
  <2>4. \A r \in delayed' : r \in delayed /\ r.task.ds # s.task.ds
    BY <2>1 DEF Alone
  <2>5. \A i, j \in DOMAIN retryQueue' : retryQueue'[i].ds = retryQueue'[j].ds => i = j
    BY <2>3 DEF Alone
  <2>6. \A b \in busy, i \in DOMAIN retryQueue' : b.task.ds # retryQueue'[i].ds
    BY <2>3 DEF Alone
  <2>7. \A r \in delayed', i \in DOMAIN retryQueue' : r.task.ds # retryQueue'[i].ds
    BY <2>3, <2>4 DEF Alone
  <2> QED
    BY <2>1, <2>4, <2>5, <2>6, <2>7 DEF Alone
<1> QED
  BY <1>1, <1>2, <1>3, <1>4, <1>5 DEF Next

LEMMA OneOrNone ==
    ASSUME NEW S, \A x, y \in S : x = y
    PROVE  Cardinality(S) = IF S = {} THEN 0 ELSE 1
<1>1. CASE S = {}
  BY <1>1, FS_EmptySet
<1>2. CASE S # {}
  <2>1. PICK x \in S : S = {x}
    BY <1>2
  <2> QED
    BY <1>2, <2>1, FS_Singleton
<1> QED
  BY <1>1, <1>2

\* So the series of one round is over when the next begins, and a data source
\* never has two, which would each report a state of its own (update_data_source,
\* 631-649).
THEOREM SeriesAlone ==
    ASSUME Instant
    PROVE  Spec => []OneSeries
<1>1. Alone => OneSeries
  <2> SUFFICES ASSUME Alone, NEW d \in DataSource PROVE Pending(d) <= 1
    BY DEF OneSeries
  <2> DEFINE B == {b \in busy : b.task.ds = d}
             D == {s \in delayed : s.task.ds = d}
             Q == {i \in DOMAIN retryQueue : retryQueue[i].ds = d}
  <2>1. /\ \A x, y \in B : x = y
        /\ \A x, y \in D : x = y
        /\ \A x, y \in Q : x = y
    BY DEF Alone
  <2>2. /\ B # {} => D = {} /\ Q = {}
        /\ D # {} => Q = {}
    BY DEF Alone
  <2>3. Pending(d) = Cardinality(B) + Cardinality(D) + Cardinality(Q)
    BY DEF Pending
  <2> HIDE DEF B, D, Q
  <2>4. /\ Cardinality(B) = IF B = {} THEN 0 ELSE 1
        /\ Cardinality(D) = IF D = {} THEN 0 ELSE 1
        /\ Cardinality(Q) = IF Q = {} THEN 0 ELSE 1
    BY <2>1, OneOrNone
  <2> QED
    BY <2>2, <2>3, <2>4
<1>2. Timed /\ InRound /\ [Next]_vars => InRound'
  BY InRoundNext
<1>3. Timed /\ InRound /\ Alone /\ [Next]_vars => Alone'
  BY AloneNext
<1> QED
  BY <1>1, <1>2, <1>3, TimedInit, TimedNext, InRoundInit, AloneInit, PTL DEF Spec
=============================================================================
