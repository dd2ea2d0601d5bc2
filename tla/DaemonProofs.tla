---------------------------- MODULE DaemonProofs ----------------------------
(***************************************************************************)
(* Proofs about ProxyService, for any data sources, requests and retries:  *)
(* what the relay is told of the data sources is complete, current and     *)
(* final, every request is answered once, and the metric of the provider   *)
(* calls is never off.                                                     *)
(***************************************************************************)
EXTENDS DaemonProps, FiniteSetTheorems, SequenceTheorems, WellFoundedInduction, TLAPS

LEMMA Concatenated ==
    ASSUME NEW S, NEW q \in Seq(S), NEW r \in Seq(S), NEW m \in S
    PROVE  /\ q \o Append(r, m) = Append(q \o r, m)
           /\ r # <<>> => q \o <<Head(r)>> \o Tail(r) = q \o r
           /\ q \o <<>> = q
<1>1. q \o <<>> = q
  OBVIOUS
<1>2. q \o Append(r, m) = Append(q \o r, m)
  OBVIOUS
<1>3. ASSUME r # <<>> PROVE q \o <<Head(r)>> \o Tail(r) = q \o r
  <2>1. r = <<Head(r)>> \o Tail(r) /\ Head(r) \in S /\ Tail(r) \in Seq(S)
    BY <1>3
  <2>2. \A a \in Seq(S), b \in Seq(S) : q \o a \o b = q \o (a \o b)
    BY ConcatAssociative, SMTT(20)
  <2>3. <<Head(r)>> \in Seq(S)
    BY <2>1
  <2> QED
    BY <2>1, <2>2, <2>3, ZenonT(20)
<1> QED
  BY <1>1, <1>2, <1>3

USE SomeDataSource, DataSourcesAreFinite, FailedAreDataSources, BoundsAreNat
USE DEF WS!Establish, WS!Retry, WS!GiveUp, WS!Lose, WS!Finish
USE DEF Subscribe, Unsubscribe, Idle, session, checks, sends

-----------------------------------------------------------------------------
(* The life of the tasks.                                                  *)

\* The tasks start once; no check comes before the first tick of the checker;
\* the sender holds a message only while it sends it.
Stages ==
    /\ main \in {"connecting", "connected"} => checker = "none"
    /\ main \in {"connecting", "connected", "checks"} => sender = "none"
    /\ checker \in {"none", "doomed"} => ticks = 0
    /\ ticks = 0 => checking = {} /\ delayed = {} /\ retryQueue = <<>>
    /\ sender # "sending" => sending = <<>>

LEMMA StagesInit == Init => Stages
BY DEF Init, Stages

LEMMA StagesNext == TypeOK /\ Stages /\ [Next]_vars => Stages'
<1> SUFFICES ASSUME TypeOK, Stages, [Next]_vars PROVE Stages'
  OBVIOUS
<1>1. CASE Signal \/ Connected \/ NotConnected \/ Reconnects \/ StartFails
  BY <1>1 DEF Stages, Signal, Connected, NotConnected, Reconnects, StartFails
<1>2. CASE SpawnChecker \/ SpawnSender \/ MainSubscribe \/ Ignore \/ ReceiveError \/ MainShutdown
  BY <1>2 DEF Stages, SpawnChecker, SpawnSender, MainSubscribe, Ignore, ReceiveError, MainShutdown
<1>3. CASE \E r \in Request : Receive(r) \/ Handler(r)
  BY <1>3 DEF Stages, Receive, Handler, HandleNoId, HandleAtOnce, HandleInvoke, HandleReturn
<1>4. CASE CheckerPanics \/ CheckerShutdown
  BY <1>4 DEF Stages, CheckerPanics, CheckerShutdown
<1>5. CASE Tick
  <2>1. ticks' # 0
    BY <1>5 DEF Tick, TypeOK
  <2> QED
    BY <1>5, <2>1 DEF Stages, Tick
<1>6. CASE Retry
  BY <1>6 DEF Stages, Retry
<1>7. CASE CheckEnds
  BY <1>7 DEF Stages, CheckEnds, CheckDone
<1>8. CASE \E t \in delayed : DelayOver(t)
  BY <1>8 DEF Stages, DelayOver
<1>9. CASE Sender \/ SenderSent
  BY <1>9 DEF Stages, Sender, SenderTake, SenderShutdown, SenderSent
<1>10. CASE UNCHANGED vars
  BY <1>10 DEF Stages, vars
<1> QED
  BY <1>1, <1>2, <1>3, <1>4, <1>5, <1>6, <1>7, <1>8, <1>9, <1>10 DEF Next, Start, Checker

-----------------------------------------------------------------------------
(* The metric.                                                             *)

Invoking == {r \in Request : handler[r] = "invoking"}

\* The checks of an interval: one of each data source.
AllTasks(n) == {[ds |-> d, left |-> CheckRetries, tick |-> n] : d \in DataSource}

LEMMA TasksAreFinite ==
    ASSUME NEW n
    PROVE  IsFiniteSet(AllTasks(n))
<1> DEFINE f == [d \in DataSource |-> [ds |-> d, left |-> CheckRetries, tick |-> n]]
<1>1. f \in Surjection(DataSource, AllTasks(n))
  BY DEF Surjection, AllTasks
<1> QED
  BY <1>1, FS_Surjection

LEMMA InvokedIsNat ==
    ASSUME NEW S, IsFiniteSet(S)
    PROVE  InvokedBy(S) \in Nat
BY FS_Subset, FS_CardinalityType DEF InvokedBy

\* A check that ends is counted down if it was counted up.
LEMMA InvokedWithout ==
    ASSUME NEW S, IsFiniteSet(S), NEW t \in S
    PROVE  InvokedBy(S) = InvokedBy(S \ {t}) + InvokedBy({t})
<1> DEFINE T == {u \in S : u.ds \notin Failed}
<1>1. IsFiniteSet(T)
  BY FS_Subset
<1>2. CASE t.ds \notin Failed
  <2>1. {u \in S \ {t} : u.ds \notin Failed} = T \ {t} /\ {u \in {t} : u.ds \notin Failed} = {t}
    BY <1>2
  <2>2. Cardinality(T \ {t}) = Cardinality(T) - 1 /\ Cardinality({t}) = 1
    BY <1>1, <1>2, FS_RemoveElement, FS_Singleton
  <2>3. InvokedBy(S \ {t}) = Cardinality(T \ {t}) /\ InvokedBy({t}) = Cardinality({t})
    BY <2>1, Zenon DEF InvokedBy
  <2>4. Cardinality(T) \in Nat /\ InvokedBy(S) = Cardinality(T)
    BY <1>1, FS_CardinalityType DEF InvokedBy
  <2> QED
    BY <2>2, <2>3, <2>4
<1>3. CASE t.ds \in Failed
  <2>1. {u \in S \ {t} : u.ds \notin Failed} = T /\ {u \in {t} : u.ds \notin Failed} = {}
    BY <1>3
  <2>2. InvokedBy(S \ {t}) = Cardinality(T) /\ InvokedBy({t}) = Cardinality({})
    BY <2>1, Zenon DEF InvokedBy
  <2>3. Cardinality({}) = 0 /\ Cardinality(T) \in Nat /\ InvokedBy(S) = Cardinality(T)
    BY <1>1, FS_EmptySet, FS_CardinalityType DEF InvokedBy
  <2> QED
    BY <2>2, <2>3
<1> QED
  BY <1>2, <1>3

\* The checker has checks to wait for exactly while it waits for them.
Counted ==
    /\ IsFiniteSet(Invoking) /\ IsFiniteSet(checking)
    /\ checker = "checking" <=> checking # {}
    /\ GaugeCountsCalls

LEMMA CountedInit == Init => Counted
<1> SUFFICES ASSUME Init PROVE Counted
  OBVIOUS
<1>1. Invoking = {} /\ checking = {} /\ {t \in checking : t.ds \notin Failed} = {}
  BY DEF Init, Invoking
<1>2. Cardinality({}) = 0 /\ IsFiniteSet({})
  BY FS_EmptySet
<1>3. Cardinality(Invoking) = 0 /\ InvokedBy(checking) = 0
  BY <1>1, <1>2, Zenon DEF InvokedBy
<1>4. GaugeCountsCalls
  BY <1>3 DEF Init, GaugeCountsCalls, Invoking
<1>5. IsFiniteSet(Invoking) /\ IsFiniteSet(checking)
  BY <1>1, <1>2, Zenon
<1> QED
  BY <1>4, <1>5 DEF Init, Counted

\* Steps of which the metric sees nothing.
LEMMA CountedStays ==
    ASSUME Counted, UNCHANGED <<checker, checking, gauge>>, Invoking' = Invoking
    PROVE  Counted'
BY DEF Counted, GaugeCountsCalls, Invoking, InvokedBy

\* What the metric is to be after a step.
LEMMA CountedIs ==
    GaugeCountsCalls' <=> gauge' = Cardinality(Invoking') + InvokedBy(checking')
BY Zenon DEF GaugeCountsCalls, Invoking, InvokedBy

LEMMA CallAdded ==
    ASSUME Counted, UNCHANGED <<checker, checking>>, gauge' = gauge + 1,
           NEW r, r \notin Invoking, Invoking' = Invoking \union {r}
    PROVE  Counted'
<1>1. IsFiniteSet(Invoking') /\ Cardinality(Invoking') = Cardinality(Invoking) + 1
  BY FS_AddElement DEF Counted
<1>2. Cardinality(Invoking) \in Nat /\ InvokedBy(checking) \in Nat
  BY InvokedIsNat, FS_CardinalityType DEF Counted
<1>3. gauge = Cardinality(Invoking) + InvokedBy(checking)
  BY DEF Counted, GaugeCountsCalls, Invoking
<1>4. gauge' = Cardinality(Invoking') + InvokedBy(checking)
  BY <1>1, <1>2, <1>3
<1>5. GaugeCountsCalls'
  BY <1>4, CountedIs
<1> QED
  BY <1>1, <1>5 DEF Counted

LEMMA CallRemoved ==
    ASSUME Counted, UNCHANGED <<checker, checking>>, gauge' = gauge - 1,
           NEW r, r \in Invoking, Invoking' = Invoking \ {r}
    PROVE  Counted'
<1>1. IsFiniteSet(Invoking') /\ Cardinality(Invoking') = Cardinality(Invoking) - 1
  BY FS_RemoveElement DEF Counted
<1>2. Cardinality(Invoking) \in Nat /\ InvokedBy(checking) \in Nat
  BY InvokedIsNat, FS_CardinalityType DEF Counted
<1>3. gauge = Cardinality(Invoking) + InvokedBy(checking)
  BY DEF Counted, GaugeCountsCalls, Invoking
<1>4. gauge' = Cardinality(Invoking') + InvokedBy(checking)
  BY <1>1, <1>2, <1>3
<1>5. GaugeCountsCalls'
  BY <1>4, CountedIs
<1> QED
  BY <1>1, <1>5 DEF Counted

LEMMA ChecksBegin ==
    ASSUME Counted, checking = {}, Invoking' = Invoking, checker' = "checking",
           IsFiniteSet(checking'), checking' # {}, gauge' = gauge + InvokedBy(checking')
    PROVE  Counted'
<1>1. InvokedBy({}) = 0
  <2>1. {t \in {} : t.ds \notin Failed} = {}
    OBVIOUS
  <2> QED
    BY <2>1, FS_EmptySet, Zenon DEF InvokedBy
<1>2. gauge = Cardinality(Invoking) + InvokedBy({})
  BY DEF Counted, GaugeCountsCalls, Invoking
<1>3. Cardinality(Invoking) \in Nat /\ InvokedBy(checking') \in Nat
  BY InvokedIsNat, FS_CardinalityType DEF Counted
<1>4. gauge' = Cardinality(Invoking') + InvokedBy(checking')
  BY <1>1, <1>2, <1>3
<1>5. GaugeCountsCalls'
  BY <1>4, CountedIs
<1> QED
  BY <1>5 DEF Counted

LEMMA CountedNext == TypeOK /\ Stages /\ Counted /\ [Next]_vars => Counted'
<1> SUFFICES ASSUME TypeOK, Stages, Counted, [Next]_vars PROVE Counted'
  OBVIOUS
<1>1. ASSUME UNCHANGED <<checker, checking, gauge, handler>> PROVE Counted'
  BY <1>1, CountedStays DEF Invoking
<1>2. CASE Signal \/ Connected \/ NotConnected \/ Reconnects
  BY <1>1, <1>2 DEF Signal, Connected, NotConnected, Reconnects
<1>3. CASE \/ StartFails \/ SpawnSender \/ MainSubscribe \/ Ignore \/ ReceiveError
           \/ MainShutdown \/ Sender \/ SenderSent \/ \E t \in delayed : DelayOver(t)
  BY <1>1, <1>3 DEF StartFails, SpawnSender, MainSubscribe, Ignore, ReceiveError, MainShutdown,
                    Sender, SenderTake, SenderSent, SenderShutdown, DelayOver
<1>4. CASE SpawnChecker \/ CheckerPanics \/ CheckerShutdown
  <2>1. /\ UNCHANGED <<checking, gauge, handler>>
        /\ checker # "checking" /\ checker' # "checking"
    BY <1>4 DEF SpawnChecker, CheckerPanics, CheckerShutdown, Counted, Stages
  <2> QED
    BY <2>1 DEF Counted, GaugeCountsCalls, Invoking, InvokedBy
<1>5. CASE \E r \in Request : Receive(r) \/ HandleNoId(r) \/ HandleAtOnce(r)
  <2>1. UNCHANGED <<checker, checking, gauge>> /\ Invoking' = Invoking
    BY <1>5 DEF Receive, HandleNoId, HandleAtOnce, Answered, Invoking, TypeOK
  <2> QED
    BY <2>1, CountedStays
<1>6. ASSUME NEW r \in Request, HandleInvoke(r) PROVE Counted'
  <2>1. Invoking' = Invoking \union {r} /\ r \notin Invoking
    BY <1>6 DEF HandleInvoke, Invoking, TypeOK
  <2>2. UNCHANGED <<checker, checking>> /\ gauge' = gauge + 1
    BY <1>6 DEF HandleInvoke
  <2> QED
    BY <2>1, <2>2, CallAdded
<1>7. ASSUME NEW r \in Request, HandleReturn(r) PROVE Counted'
  <2>1. Invoking' = Invoking \ {r} /\ r \in Invoking
    BY <1>7 DEF HandleReturn, Answered, Invoking, TypeOK
  <2>2. UNCHANGED <<checker, checking>> /\ gauge' = gauge - 1
    BY <1>7 DEF HandleReturn
  <2> QED
    BY <2>1, <2>2, CallRemoved
<1>8. CASE Tick
  <2>1. /\ checking' = AllTasks(ticks + 1) /\ gauge' = gauge + InvokedBy(checking')
        /\ checking = {} /\ checker' = "checking" /\ Invoking' = Invoking
    BY <1>8 DEF Tick, AllTasks, Counted, Invoking
  <2>2. checking' # {}
    BY <2>1 DEF AllTasks
  <2> QED
    BY <2>1, <2>2, TasksAreFinite, ChecksBegin
<1>9. CASE Retry
  <2>1. /\ checking' = {Head(retryQueue)} /\ gauge' = gauge + InvokedBy(checking')
        /\ checking = {} /\ checker' = "checking" /\ Invoking' = Invoking
    BY <1>9 DEF Retry, Counted, Invoking
  <2>2. IsFiniteSet(checking') /\ checking' # {}
    BY <2>1, FS_Singleton
  <2> QED
    BY <2>1, <2>2, ChecksBegin
<1>10. ASSUME NEW t \in checking, NEW ok \in BOOLEAN, CheckDone(t, ok) PROVE Counted'
  <2>1. /\ checking' = checking \ {t} /\ gauge' = gauge - InvokedBy({t})
        /\ checker' = IF checking' = {} THEN "select" ELSE checker
        /\ Invoking' = Invoking /\ checker = "checking"
    BY <1>10 DEF CheckDone, Invoking, Counted
  <2>2. IsFiniteSet(checking') /\ (checker' = "checking" <=> checking' # {})
    BY <2>1, FS_RemoveElement DEF Counted
  <2>3. InvokedBy(checking) = InvokedBy(checking') + InvokedBy({t})
    BY <2>1, InvokedWithout DEF Counted
  <2>4. IsFiniteSet({t})
    BY FS_Singleton
  <2>5. Cardinality(Invoking) \in Nat /\ InvokedBy(checking') \in Nat /\ InvokedBy({t}) \in Nat
    BY <2>2, <2>4, InvokedIsNat, FS_CardinalityType DEF Counted
  <2>6. gauge' = Cardinality(Invoking) + InvokedBy(checking')
    BY <2>1, <2>3, <2>5 DEF Counted, GaugeCountsCalls, Invoking
  <2>7. GaugeCountsCalls'
    BY <2>1, <2>6, CountedIs
  <2> QED
    BY <2>1, <2>2, <2>7 DEF Counted
<1>11. CASE UNCHANGED vars
  BY <1>1, <1>11 DEF vars
<1> QED
  BY <1>2, <1>3, <1>4, <1>5, <1>6, <1>7, <1>8, <1>9, <1>10, <1>11
     DEF Next, Start, Checker, CheckEnds, Handler

-----------------------------------------------------------------------------
(* Types.                                                                  *)

LEMMA TypeInit == Init => TypeOK
<1>1. <<>> \in Seq(Task) /\ <<>> \in Seq(Message) /\ Len(<<>>) = 0
  OBVIOUS
<1> QED
  BY <1>1 DEF Init, WS!Init, TypeOK, Running, Receiver, States, Known

\* What is queued is a message.
LEMMA MessageType ==
    /\ states' \in States => Sources \in Message
    /\ Offline \in Message
    /\ \A r \in Request : Reply(r) \in Message
BY DEF Sources, Offline, Reply, Message

LEMMA TaskType ==
    /\ \A n \in 1..MaxTicks : AllTasks(n) \subseteq Task
    /\ \A t \in Task : t.left # 0 => [t EXCEPT !.left = @ - 1] \in Task
BY DEF AllTasks, Task

LEMMA QueuesType ==
    ASSUME NEW S
    PROVE  /\ \A q \in Seq(S), e \in S : Append(q, e) \in Seq(S)
           /\ \A q \in Seq(S) : q # <<>> => Head(q) \in S /\ Tail(q) \in Seq(S)
           /\ \A q \in Seq(S), r \in Seq(S) : q \o r \in Seq(S)
           /\ \A e \in S : <<e>> \in Seq(S) /\ Len(<<e>>) = 1
           /\ <<>> \in Seq(S) /\ Len(<<>>) = 0
OBVIOUS

LEMMA GaugeType == Counted => gauge \in Nat
BY InvokedIsNat, FS_CardinalityType DEF Counted, GaugeCountsCalls, Invoking

LEMMA TypeNext == TypeOK /\ gauge' \in Nat /\ [Next]_vars => TypeOK'
<1> SUFFICES ASSUME TypeOK, gauge' \in Nat, [Next]_vars PROVE TypeOK'
  OBVIOUS
<1> USE DEF TypeOK
<1>1. CASE Signal
  <2>1. signals' \in 0..MaxSignals /\ main' \in Running \union Exits
    BY <1>1 DEF Signal, Exits
  <2>2. shutdown' \in [Receiver -> {"none", "waiting", "sent"}]
    BY <1>1 DEF Signal
  <2> QED
    BY <1>1, <2>1, <2>2 DEF Signal
<1>2. CASE Connected \/ NotConnected \/ Reconnects
  <2>1. /\ tries' \in 0..MaxRetries /\ opened' \in 0..MaxConn
        /\ phase' \in {"connecting", "up", "ended"}
    <3>1. /\ MaxRetries \in Nat /\ MaxConn \in Nat
          /\ \A m \in Nat : 0 \in 0..m /\ \A n \in 0..m : n < m => n + 1 \in 0..m
      OBVIOUS
    <3>2. (opened < MaxConn /\ WS!Establish) \/ WS!Retry \/ WS!GiveUp \/ WS!Lose \/ WS!Finish
      BY <1>2 DEF Connected, NotConnected, Reconnects
    <3> QED
      BY <3>1, <3>2
  <2>2. main' \in Running \union Exits
    BY <1>2 DEF Connected, NotConnected, Reconnects, Running, Exits
  <2> QED
    BY <1>2, <2>1, <2>2 DEF Connected, NotConnected, Reconnects
<1>3. CASE \/ StartFails \/ SpawnChecker \/ SpawnSender \/ MainSubscribe
           \/ Ignore \/ ReceiveError \/ MainShutdown
  BY <1>3, SMTT(30) DEF StartFails, SpawnChecker, SpawnSender, MainSubscribe, Ignore, ReceiveError,
              MainShutdown, Running, Exits, Receiver
<1>4. ASSUME NEW r \in Request, Receive(r) \/ Handler(r) PROVE TypeOK'
  <2>1. Append(outgoing, Reply(r)) \in Seq(Message)
    BY MessageType, QueuesType
  <2>2. outgoing' \in Seq(Message)
    BY <1>4, <2>1 DEF Receive, Handler, HandleNoId, HandleAtOnce, HandleInvoke, HandleReturn, Push
  <2>3. /\ handler' \in [Request -> {"none", "spawned", "invoking", "done", "failed"}]
        /\ shutdown' \in [Receiver -> {"none", "waiting", "sent"}] /\ main' \in Running \union Exits
    BY <1>4 DEF Receive, Handler, HandleNoId, HandleAtOnce, HandleInvoke, HandleReturn, Answered, Running
  <2> QED
    BY <1>4, <2>2, <2>3
       DEF Receive, Handler, HandleNoId, HandleAtOnce, HandleInvoke, HandleReturn
<1>5. CASE CheckerPanics \/ CheckerShutdown
  <2>1. Append(outgoing, Offline) \in Seq(Message) /\ <<>> \in Seq(Task)
    BY MessageType, QueuesType
  <2>2. outgoing' \in Seq(Message) /\ retryQueue' \in Seq(Task)
    BY <1>5, <2>1 DEF CheckerPanics, CheckerShutdown, Push
  <2> QED
    BY <1>5, <2>2 DEF CheckerPanics, CheckerShutdown, Receiver
<1>6. CASE Tick
  <2>1. ticks + 1 \in 1..MaxTicks /\ ticks + 1 \in 0..MaxTicks
    BY <1>6 DEF Tick
  <2>2. checking' = AllTasks(ticks + 1)
    BY <1>6 DEF Tick, AllTasks
  <2>3. checking' \subseteq Task
    BY <2>1, <2>2, TaskType
  <2> QED
    BY <1>6, <2>1, <2>3 DEF Tick
<1>7. CASE Retry
  <2>1. retryQueue' \in Seq(Task) /\ checking' \subseteq Task
    BY <1>7, QueuesType DEF Retry
  <2> QED
    BY <1>7, <2>1 DEF Retry
<1>8. ASSUME NEW t \in checking, NEW ok \in BOOLEAN, CheckDone(t, ok) PROVE TypeOK'
  <2>1. t \in Task /\ t.ds \in DataSource
    BY DEF Task
  <2>2. states' \in States
    BY <1>8, <2>1 DEF CheckDone, States, Known
  <2>3. delayed' \subseteq Task
    BY <1>8, <2>1, TaskType DEF CheckDone
  <2>4. outgoing' \in Seq(Message)
    BY <1>8, <2>2, MessageType, QueuesType DEF CheckDone, Report, Push
  <2> QED
    BY <1>8, <2>2, <2>3, <2>4 DEF CheckDone
<1>9. ASSUME NEW t \in delayed, DelayOver(t) PROVE TypeOK'
  <2>1. retryQueue' \in Seq(Task)
    BY <1>9, QueuesType DEF DelayOver
  <2> QED
    BY <1>9, <2>1 DEF DelayOver
<1>10. CASE Sender \/ SenderSent
  <2>1. /\ outgoing # <<>> => Head(outgoing) \in Message /\ Tail(outgoing) \in Seq(Message)
        /\ handed \o sending \in Seq(Message)
        /\ <<>> \in Seq(Message) /\ Len(<<>>) = 0
    BY QueuesType
  <2>2. \A m \in Message : <<m>> \in Seq(Message) /\ Len(<<m>>) = 1
    BY QueuesType
  <2>3. /\ outgoing' \in Seq(Message) /\ handed' \in Seq(Message)
        /\ sending' \in Seq(Message) /\ Len(sending') <= 1
    <3>1. CASE SenderTake
      BY <2>1, <2>2, <3>1 DEF SenderTake
    <3>2. CASE SenderSent
      <4>1. handed' = handed \o sending /\ sending' = <<>> /\ outgoing' = outgoing
        BY <3>2 DEF SenderSent
      <4>2. Len(sending') <= 1
        BY <4>1
      <4> QED
        BY <2>1, <4>1, <4>2, Zenon
    <3>3. CASE SenderShutdown
      BY <2>1, <3>3 DEF SenderShutdown
    <3> QED
      BY <1>10, <3>1, <3>2, <3>3 DEF Sender
  <2> QED
    BY <1>10, <2>3 DEF Sender, SenderTake, SenderShutdown, SenderSent, Receiver
<1>11. CASE UNCHANGED vars
  BY <1>11 DEF vars
<1> QED
  BY <1>1, <1>2, <1>3, <1>4, <1>5, <1>6, <1>7, <1>8, <1>9, <1>10, <1>11
     DEF Next, Start, Checker, CheckEnds

-----------------------------------------------------------------------------
(* What the relay is told.                                                 *)

\* A message is queued last.
Announces(m) == Queued' = Append(Queued, m)

\* Messages at the end are lost.
Shortened ==
    DOMAIN Queued' \subseteq DOMAIN Queued /\ \A i \in DOMAIN Queued' : Queued'[i] = Queued[i]

LEMMA QueuedType == TypeOK => Queued \in Seq(Message)
<1> SUFFICES ASSUME TypeOK PROVE handed \o sending \o outgoing \in Seq(Message)
  BY DEF Queued
<1>1. handed \o sending \in Seq(Message) /\ outgoing \in Seq(Message)
  BY DEF TypeOK
<1> QED
  BY <1>1, QueuesType

LEMMA QueuedGrows ==
    ASSUME TypeOK, NEW m \in Message,
           UNCHANGED <<handed, sending>>, outgoing' = Push(m)
    PROVE  IF sender = "stopped" THEN Queued' = Queued ELSE Announces(m)
<1> DEFINE q == handed \o sending
<1>1. q \in Seq(Message) /\ outgoing \in Seq(Message)
  BY DEF TypeOK
<1> HIDE DEF q
<1>2. q \o Append(outgoing, m) = Append(q \o outgoing, m)
  BY <1>1, Concatenated, SMTT(20)
<1> QED
  BY <1>2 DEF Announces, Queued, Push, q

\* What the sender sends changes nothing of it.
LEMMA SenderKeepsOrder ==
    ASSUME TypeOK, Stages, SenderTake \/ SenderSent
    PROVE  Queued' = Queued
<1>1. /\ handed \in Seq(Message) /\ sending \in Seq(Message) /\ outgoing \in Seq(Message)
      /\ handed \o sending \in Seq(Message)
  BY DEF TypeOK
<1>2. CASE SenderTake
  <2>1. /\ outgoing # <<>> /\ sending = <<>> /\ handed' = handed
        /\ sending' = <<Head(outgoing)>> /\ outgoing' = Tail(outgoing)
    BY <1>2 DEF SenderTake, Stages
  <2>2. handed \o <<>> = handed
    BY <1>1, SMTT(20)
  <2>3. handed \o <<Head(outgoing)>> \o Tail(outgoing) = handed \o outgoing
    BY <1>1, <2>1, Concatenated, SMTT(20)
  <2> QED
    BY <2>1, <2>2, <2>3 DEF Queued
<1>3. CASE SenderSent
  <2>1. handed' = handed \o sending /\ sending' = <<>> /\ outgoing' = outgoing
    BY <1>3 DEF SenderSent
  <2>2. (handed \o sending) \o <<>> = handed \o sending
    BY <1>1, SMTT(20)
  <2> QED
    BY <2>1, <2>2 DEF Queued
<1> QED
  BY <1>2, <1>3

\* When the sender stops, what it had not taken is lost.
LEMMA SenderKeepsPart ==
    ASSUME TypeOK, Stages, SenderShutdown
    PROVE  Shortened
<1>1. handed \in Seq(Message) /\ outgoing \in Seq(Message)
  BY DEF TypeOK
<1>2. sending = <<>> /\ sending' = <<>> /\ outgoing' = <<>> /\ handed' = handed
  BY DEF SenderShutdown, Stages
<1>3. handed \o <<>> = handed
  BY <1>1, SMTT(20)
<1>4. Queued = handed \o outgoing /\ Queued' = handed
  BY <1>2, <1>3 DEF Queued
<1>5. /\ DOMAIN handed \subseteq DOMAIN (handed \o outgoing)
      /\ \A i \in DOMAIN handed : (handed \o outgoing)[i] = handed[i]
  BY <1>1, SMTT(20)
<1> QED
  BY <1>4, <1>5 DEF Shortened

\* The steps, as the relay sees them.  Checks go on that cover data source d.
Covered(d) == \E t \in checking : t.ds = d

Quietly ==
    /\ Queued' = Queued /\ UNCHANGED states
    /\ \A r \in Request : handler'[r] = "done" <=> handler[r] = "done"
    /\ checker' = "select" /\ ticks' > 0 => checker = "select" /\ ticks > 0
    /\ checker = "stopped" => checker' = "stopped"
    /\ sender = "stopped" => sender' = "stopped"
    /\ \A d \in DataSource : ticks = 0 \/ Covered(d) => ticks' = 0 \/ Covered(d)'

Answers(r) ==
    /\ Announces(Reply(r)) /\ UNCHANGED <<checks, sender>>
    /\ handler[r] # "done" /\ handler' = [handler EXCEPT ![r] = "done"]

Goodbye ==
    /\ Announces(Offline) /\ checker = "select" /\ checker' = "stopped"
    /\ UNCHANGED <<checking, states, ticks, handler, sender>>

Checked(t) ==
    /\ checker = "checking" /\ ticks > 0 /\ UNCHANGED <<ticks, handler, sender>>
    /\ checking' = checking \ {t}
    /\ \A d \in DataSource : states'[d] = IF d = t.ds THEN states'[d] ELSE states[d]
    /\ states'[t.ds] # "unknown"
    /\ IF checking' = {} /\ sender # "stopped"
         THEN Announces(Sources) /\ checker' = "select"
         ELSE Queued' = Queued /\ (checker' = "checking" \/ sender = "stopped")

Closes ==
    /\ Shortened /\ sender' = "stopped"
    /\ UNCHANGED <<checker, checking, states, ticks, handler>>

LEMMA TicksPositive == \A n \in 0..MaxTicks : n # 0 => n > 0
OBVIOUS

LEMMA RelayStep ==
    ASSUME TypeOK, Stages, Counted, [Next]_vars
    PROVE  \/ Quietly \/ Goodbye \/ Closes
           \/ \E r \in Request : Answers(r)
           \/ \E t \in checking : Checked(t)
<1>1. ASSUME UNCHANGED <<Queued, states, handler, checker, ticks, checking>>,
             sender = "stopped" => sender' = "stopped"
      PROVE  Quietly
  BY <1>1 DEF Quietly, Covered
<1>2. CASE UNCHANGED <<outgoing, sends, states, handler, checker, ticks, checking>>
  <2>1. Queued' = Queued
    BY <1>2 DEF Queued
  <2> QED
    BY <1>1, <1>2, <2>1
<1>3. CASE Signal \/ Connected \/ NotConnected \/ Reconnects \/ StartFails
  BY <1>2, <1>3 DEF Signal, Connected, NotConnected, Reconnects, StartFails
<1>4. CASE MainSubscribe \/ Ignore \/ ReceiveError \/ MainShutdown
  BY <1>2, <1>4 DEF MainSubscribe, Ignore, ReceiveError, MainShutdown
<1>5. CASE SpawnSender \/ \E t \in delayed : DelayOver(t)
  <2>1. /\ UNCHANGED <<outgoing, sending, handed, states, handler, checker, ticks, checking>>
        /\ sender = "stopped" => sender' = "stopped"
    BY <1>5 DEF SpawnSender, DelayOver, Stages
  <2>2. Queued' = Queued
    BY <2>1 DEF Queued
  <2> QED
    BY <1>1, <2>1, <2>2
<1>6. CASE SenderTake \/ SenderSent
  BY <1>1, <1>6, SenderKeepsOrder DEF SenderTake, SenderSent
<1>7. CASE SenderShutdown
  BY <1>7, SenderKeepsPart DEF SenderShutdown, Closes
<1>8. CASE SpawnChecker \/ CheckerPanics
  <2>1. /\ UNCHANGED <<outgoing, sends, states, handler, ticks, checking>>
        /\ ticks = 0 /\ checker # "stopped"
    BY <1>8 DEF SpawnChecker, CheckerPanics, Stages
  <2>2. Queued' = Queued
    BY <2>1 DEF Queued
  <2> QED
    BY <2>1, <2>2 DEF Quietly, Covered
<1>9. ASSUME NEW r \in Request, Receive(r) \/ HandleNoId(r) \/ HandleInvoke(r) PROVE Quietly
  <2>1. /\ UNCHANGED <<outgoing, sends, checks>>
        /\ \A u \in Request : handler'[u] = "done" <=> handler[u] = "done"
    BY <1>9 DEF Receive, HandleNoId, HandleInvoke, TypeOK
  <2>2. Queued' = Queued
    BY <2>1 DEF Queued
  <2> QED
    BY <2>1, <2>2 DEF Quietly, Covered
<1>10. ASSUME NEW r \in Request, HandleAtOnce(r) \/ HandleReturn(r) PROVE Quietly \/ Answers(r)
  <2>1. IF sender = "stopped" THEN Queued' = Queued ELSE Announces(Reply(r))
    BY <1>10, QueuedGrows, MessageType DEF HandleAtOnce, HandleReturn
  <2>2. UNCHANGED <<checks, sender>> /\ handler[r] # "done" /\ handler' = [handler EXCEPT ![r] = Answered]
    BY <1>10 DEF HandleAtOnce, HandleReturn
  <2>3. CASE sender = "stopped"
    <3>1. \A u \in Request : handler'[u] = "done" <=> handler[u] = "done"
      BY <2>2, <2>3 DEF Answered, TypeOK
    <3> QED
      BY <2>1, <2>2, <2>3, <3>1 DEF Quietly, Covered
  <2>4. CASE sender # "stopped"
    BY <2>1, <2>2, <2>4 DEF Answers, Answered
  <2> QED
    BY <2>3, <2>4
<1>11. CASE CheckerShutdown
  <2>1. IF sender = "stopped" THEN Queued' = Queued ELSE Announces(Offline)
    BY <1>11, QueuedGrows, MessageType DEF CheckerShutdown
  <2>2. /\ UNCHANGED <<checking, states, ticks, handler, sender>>
        /\ checker = "select" /\ checker' = "stopped"
    BY <1>11 DEF CheckerShutdown
  <2>3. CASE sender = "stopped"
    BY <2>1, <2>2, <2>3 DEF Quietly, Covered
  <2>4. CASE sender # "stopped"
    BY <2>1, <2>2, <2>4 DEF Goodbye
  <2> QED
    BY <2>3, <2>4
<1>12. CASE Tick
  <2>1. /\ UNCHANGED <<outgoing, sends, states, handler>> /\ checker = "select"
        /\ checker' = "checking" /\ checking' = AllTasks(ticks + 1)
    BY <1>12 DEF Tick, AllTasks
  <2>2. \A d \in DataSource : Covered(d)'
    <3>1. \A d \in DataSource :
            LET t == [ds |-> d, left |-> CheckRetries, tick |-> ticks + 1]
            IN  t \in AllTasks(ticks + 1) /\ t.ds = d
      BY DEF AllTasks
    <3> QED
      BY <2>1, <3>1 DEF Covered
  <2>3. Queued' = Queued
    BY <2>1 DEF Queued
  <2> QED
    BY <2>1, <2>2, <2>3 DEF Quietly
<1>13. CASE Retry
  <2>1. /\ UNCHANGED <<outgoing, sends, states, handler, ticks>> /\ checker = "select"
        /\ checker' = "checking" /\ ticks # 0 /\ checking = {}
    BY <1>13 DEF Retry, Stages, Counted
  <2>2. Queued' = Queued
    BY <2>1 DEF Queued
  <2> QED
    BY <2>1, <2>2 DEF Quietly, Covered
<1>14. ASSUME NEW t \in checking, NEW ok \in BOOLEAN, CheckDone(t, ok) PROVE Checked(t)
  <2>1. checker = "checking" /\ ticks # 0 /\ ticks \in 0..MaxTicks /\ t.ds \in DataSource
    BY DEF Counted, Stages, TypeOK, Task
  <2>2. /\ checking' = checking \ {t} /\ UNCHANGED <<ticks, handler, sends>>
        /\ checker' = IF checking' = {} THEN "select" ELSE checker
        /\ states' = [states EXCEPT ![t.ds] = IF ok THEN "connected" ELSE "error"]
        /\ outgoing' = IF checking' = {} THEN Push(Sources) ELSE outgoing
    BY <1>14 DEF CheckDone, Report
  <2>3. states' \in States /\ states'[t.ds] # "unknown"
    BY <2>1, <2>2 DEF TypeOK, States, Known
  <2>4. \A d \in DataSource : states'[d] = IF d = t.ds THEN states'[d] ELSE states[d]
    BY <2>2 DEF TypeOK, States
  <2>5. CASE checking' = {}
    <3>1. IF sender = "stopped" THEN Queued' = Queued ELSE Announces(Sources)
      BY <2>2, <2>3, <2>5, QueuedGrows, MessageType
    <3> QED
      BY <2>1, <2>2, <2>3, <2>4, <2>5, <3>1, TicksPositive DEF Checked
  <2>6. CASE checking' # {}
    <3>1. Queued' = Queued
      BY <2>2, <2>6 DEF Queued
    <3> QED
      BY <2>1, <2>2, <2>3, <2>4, <2>6, <3>1, TicksPositive DEF Checked
  <2> QED
    BY <2>5, <2>6
<1>15. CASE UNCHANGED vars
  BY <1>2, <1>15 DEF vars
<1> QED
  BY <1>3, <1>4, <1>5, <1>6, <1>8, <1>9, <1>10, <1>11, <1>12, <1>13, <1>14, <1>15, <1>7
     DEF Next, Start, Checker, CheckEnds, Handler, Sender

\* A message is queued at n, after all others.
LastAt(n, m) ==
    /\ DOMAIN Queued' = DOMAIN Queued \union {n} /\ Queued'[n] = m
    /\ \A i \in DOMAIN Queued : i < n /\ Queued'[i] = Queued[i]

LEMMA AnnouncedLast ==
    ASSUME TypeOK, NEW m \in Message, Announces(m)
    PROVE  \E n \in Nat : LastAt(n, m)
<1> DEFINE q == Queued
           n == Len(q) + 1
<1>1. q \in Seq(Message)
  BY QueuedType
<1> HIDE DEF q
<1>2. n \in Nat /\ DOMAIN q = 1..Len(q) /\ DOMAIN Append(q, m) = 1..n
  BY <1>1
<1>3. Append(q, m)[n] = m /\ \A i \in 1..Len(q) : Append(q, m)[i] = q[i]
  BY <1>1
<1>4. 1..n = 1..Len(q) \union {n} /\ \A i \in 1..Len(q) : i < n
  BY <1>1
<1>5. Queued' = Append(q, m)
  BY DEF Announces, q
<1> HIDE DEF n
<1>6. LastAt(n, m)
  BY <1>2, <1>3, <1>4, <1>5 DEF LastAt, q
<1> QED
  BY <1>2, <1>6

LEMMA AnnouncedSources ==
    ASSUME TypeOK, TypeOK', Announces(Sources)
    PROVE  \E n \in Nat : LastAt(n, Sources)
BY AnnouncedLast, MessageType DEF TypeOK

LEMMA IndexIsNat == TypeOK => \A i \in DOMAIN Queued : i \in Nat
BY QueuedType

\* The lists.  What is not checked yet is being checked once checks began.
Complete ==
    /\ ListsAreComplete
    /\ \A d \in DataSource : states[d] # "unknown" \/ ticks = 0 \/ Covered(d)

LEMMA CompleteInit == Init => Complete
BY DEF Init, Complete, ListsAreComplete, Queued

LEMMA CompleteNext == TypeOK /\ TypeOK' /\ Stages /\ Counted /\ Complete /\ [Next]_vars => Complete'
<1> SUFFICES ASSUME TypeOK, TypeOK', Stages, Counted, Complete, [Next]_vars PROVE Complete'
  OBVIOUS
<1>1. CASE Quietly
  BY <1>1 DEF Quietly, Complete, ListsAreComplete
<1>2. ASSUME NEW m \in Message, Announces(m), m.type # "sources" PROVE ListsAreComplete'
  <2>1. PICK n \in Nat : LastAt(n, m)
    BY <1>2, AnnouncedLast
  <2> QED
    BY <1>2, <2>1 DEF LastAt, Complete, ListsAreComplete
<1>3. CASE Goodbye
  <2>1. ListsAreComplete'
    BY <1>2, <1>3, MessageType DEF Goodbye, Offline
  <2> QED
    BY <1>3, <2>1 DEF Goodbye, Complete, Covered
<1>4. ASSUME NEW r \in Request, Answers(r) PROVE Complete'
  <2>1. ListsAreComplete'
    BY <1>2, <1>4, MessageType DEF Answers, Reply
  <2> QED
    BY <1>4, <2>1 DEF Answers, Complete, Covered
<1>5. ASSUME NEW t \in checking, Checked(t) PROVE Complete'
  <2>1. \A d \in DataSource : states'[d] # "unknown" \/ Covered(d)'
    BY <1>5 DEF Checked, Complete, Covered
  <2>2. CASE checking' = {} /\ sender # "stopped"
    <3>1. \A d \in DataSource : Sources.states[d] # "unknown"
      BY <2>1, <2>2 DEF Covered, Sources
    <3>2. PICK n \in Nat : LastAt(n, Sources)
      BY <1>5, <2>2, AnnouncedSources DEF Checked
    <3>3. ListsAreComplete'
      BY <3>1, <3>2 DEF LastAt, Complete, ListsAreComplete
    <3> QED
      BY <2>1, <3>3 DEF Complete
  <2>3. CASE ~(checking' = {} /\ sender # "stopped")
    BY <1>5, <2>1, <2>3 DEF Checked, Complete, ListsAreComplete
  <2> QED
    BY <2>2, <2>3
<1>6. CASE Closes
  BY <1>6 DEF Closes, Shortened, Complete, ListsAreComplete, Covered
<1> QED
  BY <1>1, <1>3, <1>4, <1>5, <1>6, RelayStep

\* The goodbye.  Only the checker queues a list, and it is gone by then.
Final ==
    /\ Some("offline") => checker = "stopped"
    /\ \A i \in DOMAIN Queued, j \in DOMAIN Queued :
         Queued[i].type = "offline" /\ Queued[j].type = "sources" => j < i

LEMMA FinalInit == Init => Final
BY DEF Init, Final, Some, Queued

LEMMA FinalNext == TypeOK /\ TypeOK' /\ Stages /\ Counted /\ Final /\ [Next]_vars => Final'
<1> SUFFICES ASSUME TypeOK, TypeOK', Stages, Counted, Final, [Next]_vars PROVE Final'
  OBVIOUS
<1>1. CASE Quietly
  BY <1>1 DEF Quietly, Final, Some
<1>2. CASE Goodbye
  <2>1. PICK n \in Nat : LastAt(n, Offline)
    BY <1>2, AnnouncedLast, MessageType DEF Goodbye
  <2>2. Offline.type = "offline" /\ checker' = "stopped" /\ ~Some("offline")
    BY <1>2 DEF Offline, Goodbye, Final
  <2> QED
    BY <2>1, <2>2 DEF LastAt, Final, Some
<1>3. ASSUME NEW r \in Request, Answers(r) PROVE Final'
  <2>1. PICK n \in Nat : LastAt(n, Reply(r))
    BY <1>3, AnnouncedLast, MessageType DEF Answers
  <2>2. Reply(r).type = "response" /\ checker' = checker
    BY <1>3 DEF Reply, Answers
  <2> QED
    BY <2>1, <2>2 DEF LastAt, Final, Some
<1>4. ASSUME NEW t \in checking, Checked(t) PROVE Final'
  <2>1. ~Some("offline") /\ Sources.type = "sources"
    BY <1>4 DEF Checked, Final, Sources
  <2>2. CASE checking' = {} /\ sender # "stopped"
    <3>1. PICK n \in Nat : LastAt(n, Sources)
      BY <1>4, <2>2, AnnouncedSources DEF Checked
    <3> QED
      BY <2>1, <3>1 DEF LastAt, Final, Some
  <2>3. CASE ~(checking' = {} /\ sender # "stopped")
    BY <1>4, <2>1, <2>3 DEF Checked, Final, Some
  <2> QED
    BY <2>2, <2>3
<1>5. CASE Closes
  BY <1>5 DEF Closes, Shortened, Final, Some
<1> QED
  BY <1>1, <1>2, <1>3, <1>4, <1>5, RelayStep

\* The last message of a type, wherever there is one of it.
IsLast(type, i) ==
    /\ i \in DOMAIN Queued /\ Queued[i].type = type
    /\ \A j \in DOMAIN Queued : Queued[j].type = type => j <= i

LEMMA LastIs ==
    ASSUME TypeOK, NEW type, NEW i, IsLast(type, i)
    PROVE  Some(type) /\ LastOf(type) = i
<1>1. \A j : IsLast(type, j) => j = i
  <2>1. \A m \in Nat, n \in Nat : m <= n /\ n <= m => m = n
    OBVIOUS
  <2> QED
    BY <2>1, IndexIsNat DEF IsLast
<1>2. LastOf(type) = CHOOSE j \in DOMAIN Queued : IsLast(type, j)
  BY DEF LastOf, IsLast
<1> QED
  BY <1>1, <1>2 DEF IsLast, Some

LEMMA LastExists ==
    ASSUME TypeOK, NEW type, Some(type)
    PROVE  \E i : IsLast(type, i)
<1> DEFINE n == Len(Queued)
           T == {k \in Nat : n - k \in DOMAIN Queued /\ Queued[n - k].type = type}
<1>1. n \in Nat /\ DOMAIN Queued = 1..n
  BY QueuedType
<1>2. T # {}
  <2>1. PICK i \in DOMAIN Queued : Queued[i].type = type
    BY DEF Some
  <2> HIDE DEF n
  <2>2. n - i \in Nat /\ n - (n - i) = i
    BY <1>1
  <2> QED
    BY <2>1, <2>2
<1>3. PICK m \in T : \A k \in T : ~(<<k, m>> \in OpToRel(<, Nat))
  <2> HIDE DEF T
  <2>1. T \subseteq Nat
    BY DEF T
  <2> QED
    BY <1>2, <2>1, NatLessThanWellFounded, WFMin, Zenon
<1>4. ASSUME NEW j \in DOMAIN Queued, Queued[j].type = type PROVE j <= n - m
  <2> HIDE DEF n
  <2>1. n - j \in Nat /\ n - (n - j) = j
    BY <1>1
  <2>2. n - j \in T
    BY <1>4, <2>1
  <2>3. ~(n - j < m)
    BY <1>3, <2>2 DEF OpToRel
  <2> QED
    BY <1>1, <2>1, <2>3
<1>5. n - m \in DOMAIN Queued /\ Queued[n - m].type = type
  OBVIOUS
<1> QED
  BY <1>4, <1>5 DEF IsLast

\* What is queued last is the last of its type.
LEMMA LastIsLast ==
    ASSUME TypeOK, NEW m, NEW n \in Nat, LastAt(n, m)
    PROVE  IsLast(m.type, n)'
<1>1. \A j \in DOMAIN Queued : j \in Nat /\ j <= n
  BY IndexIsNat DEF LastAt
<1>2. n <= n
  OBVIOUS
<1> QED
  BY <1>1, <1>2 DEF LastAt, IsLast

\* While the checker rests the last list is what it knows, unless nobody takes
\* its lists any more.
Current ==
    checker = "select" /\ ticks > 0 /\ sender # "stopped"
        => \E i : IsLast("sources", i) /\ Queued[i].states = states

LEMMA CurrentInit == Init => Current
BY DEF Init, Current

LEMMA CurrentNext == TypeOK /\ TypeOK' /\ Stages /\ Counted /\ Current /\ [Next]_vars => Current'
<1> SUFFICES ASSUME TypeOK, TypeOK', Stages, Counted, Current, [Next]_vars PROVE Current'
  OBVIOUS
<1> USE DEF Current
<1>1. CASE Quietly
  BY <1>1 DEF Quietly, IsLast
<1>2. CASE Goodbye \/ Closes
  BY <1>2 DEF Goodbye, Closes
<1>3. ASSUME NEW r \in Request, Answers(r) PROVE Current'
  <2>1. PICK n \in Nat : LastAt(n, Reply(r))
    BY <1>3, AnnouncedLast, MessageType DEF Answers
  <2>2. \A i : IsLast("sources", i) => IsLast("sources", i)' /\ Queued'[i] = Queued[i]
    BY <2>1 DEF LastAt, IsLast, Reply
  <2> QED
    BY <1>3, <2>2 DEF Answers
<1>4. ASSUME NEW t \in checking, Checked(t) PROVE Current'
  <2>1. CASE checking' = {} /\ sender # "stopped"
    <3>1. PICK n \in Nat : LastAt(n, Sources)
      BY <1>4, <2>1, AnnouncedSources DEF Checked
    <3>2. IsLast("sources", n)'
      BY <3>1, LastIsLast DEF Sources
    <3>3. Queued'[n].states = states'
      BY <3>1 DEF LastAt, Sources
    <3> QED
      BY <3>2, <3>3
  <2>2. CASE ~(checking' = {} /\ sender # "stopped")
    BY <1>4, <2>2 DEF Checked
  <2> QED
    BY <2>1, <2>2
<1> QED
  BY <1>1, <1>2, <1>3, <1>4, RelayStep

\* The answers.
Places(r) == {i \in DOMAIN Queued : Queued[i] = Reply(r)}

Replied ==
    \A r \in Request :
        IF handler[r] = "done" THEN \/ \E i : Places(r) = {i}
                                    \/ sender = "stopped" /\ Places(r) = {}
                               ELSE Places(r) = {}

LEMMA RepliedInit == Init => Replied
BY DEF Init, Replied, Places, Queued

LEMMA RepliedNext == TypeOK /\ TypeOK' /\ Stages /\ Counted /\ Replied /\ [Next]_vars => Replied'
<1> SUFFICES ASSUME TypeOK, TypeOK', Stages, Counted, Replied, [Next]_vars PROVE Replied'
  OBVIOUS
<1>1. ASSUME Queued' = Queued, NEW r \in Request PROVE Places(r)' = Places(r)
  BY <1>1 DEF Places, Reply
<1>2. CASE Quietly
  BY <1>1, <1>2 DEF Quietly, Replied
<1>3. ASSUME NEW m, NEW n \in Nat, LastAt(n, m), NEW r \in Request
      PROVE  Places(r)' = IF m = Reply(r) THEN Places(r) \union {n} ELSE Places(r)
  BY <1>3 DEF Places, LastAt, Reply
<1>4. ASSUME NEW m \in Message, Announces(m), m.type # "response",
             UNCHANGED <<handler, sender>>
      PROVE  Replied'
  <2>1. PICK n \in Nat : LastAt(n, m)
    BY <1>4, AnnouncedLast
  <2>2. \A r \in Request : m # Reply(r)
    BY <1>4 DEF Reply
  <2> QED
    BY <1>3, <1>4, <2>1, <2>2 DEF Replied
<1>5. CASE Goodbye
  BY <1>4, <1>5, MessageType DEF Goodbye, Offline
<1>6. ASSUME NEW r \in Request, Answers(r) PROVE Replied'
  <2>1. PICK n \in Nat : LastAt(n, Reply(r))
    BY <1>6, AnnouncedLast, MessageType DEF Answers
  <2>2. \A u \in Request : Reply(r) = Reply(u) <=> u = r
    BY DEF Reply
  <2>3. handler'[r] = "done" /\ \A u \in Request \ {r} : handler'[u] = handler[u]
    BY <1>6 DEF Answers, TypeOK
  <2>4. Places(r)' = {n}
    BY <1>3, <1>6, <2>1 DEF Answers, Replied
  <2>5. \A u \in Request \ {r} : Places(u)' = Places(u)
    BY <1>3, <2>1, <2>2
  <2>6. sender' = sender
    BY <1>6 DEF Answers
  <2> HIDE DEF Places
  <2>7. ASSUME NEW u \in Request
        PROVE  (IF handler[u] = "done"
                  THEN (\E i : Places(u) = {i}) \/ (sender = "stopped" /\ Places(u) = {})
                  ELSE Places(u) = {})'
    BY <2>3, <2>4, <2>5, <2>6 DEF Replied
  <2> QED
    BY <2>7 DEF Replied
<1>7. ASSUME NEW t \in checking, Checked(t) PROVE Replied'
  <2>1. CASE checking' = {} /\ sender # "stopped"
    <3>1. PICK n \in Nat : LastAt(n, Sources)
      BY <1>7, <2>1, AnnouncedSources DEF Checked
    <3>2. \A r \in Request : Sources # Reply(r)
      BY DEF Sources, Reply
    <3>3. \A r \in Request : Places(r)' = Places(r)
      BY <3>1, <3>2 DEF Places, LastAt
    <3> QED
      BY <1>7, <3>3 DEF Checked, Replied
  <2>2. CASE ~(checking' = {} /\ sender # "stopped")
    BY <1>1, <1>7, <2>2 DEF Checked, Replied
  <2> QED
    BY <2>1, <2>2
<1>8. CASE Closes
  <2>1. sender' = "stopped" /\ handler' = handler
    BY <1>8 DEF Closes
  <2>2. \A r \in Request : Places(r)' \subseteq Places(r)
    BY <1>8 DEF Closes, Shortened, Places, Reply
  <2>3. ASSUME NEW r \in Request, NEW i, Places(r) = {i}
        PROVE  Places(r)' = {i} \/ Places(r)' = {}
    BY <2>2, <2>3
  <2>4. ASSUME NEW r \in Request, Places(r) = {} PROVE Places(r)' = {}
    BY <2>2, <2>4
  <2> HIDE DEF Places
  <2> QED
    BY <2>1, <2>3, <2>4 DEF Replied
<1> QED
  BY <1>2, <1>5, <1>6, <1>7, <1>8, RelayStep

-----------------------------------------------------------------------------
Told == TypeOK /\ Stages /\ Counted /\ Complete /\ Final /\ Current /\ Replied

LEMMA ToldHolds == SafeSpec => []Told
<1>1. Init => Told
  BY TypeInit, StagesInit, CountedInit, CompleteInit, FinalInit, CurrentInit, RepliedInit DEF Told
<1>2. Told /\ [Next]_vars => (Stages /\ Counted)'
  BY StagesNext, CountedNext DEF Told
<1>3. (Counted => gauge \in Nat)'
  BY GaugeType, PTL
<1>4. Told /\ [Next]_vars => TypeOK'
  BY <1>2, <1>3, TypeNext DEF Told
<1>5. Told /\ [Next]_vars => Told'
  BY <1>2, <1>4, CompleteNext, FinalNext, CurrentNext, RepliedNext DEF Told
<1> QED
  BY <1>1, <1>5, PTL DEF SafeSpec

\* Every variable of the daemon keeps its type; the metric never falls below
\* zero (CONCURRENT_QUERIES of service.rs).
THEOREM TypeCorrect == SafeSpec => []TypeOK
<1>1. Told => TypeOK
  BY DEF Told
<1> QED
  BY <1>1, ToldHolds, PTL

\* Every provider call and check of a loaded provider that is under way is
\* counted, and nothing else (the same metric).
THEOREM MetricIsRight == SafeSpec => []GaugeCountsCalls
<1>1. Told => GaugeCountsCalls
  BY DEF Told, Counted
<1> QED
  BY <1>1, ToldHolds, PTL

\* No list of data sources that is sent leaves one out, though the map it is
\* made of starts empty (update_all_data_sources, service.rs 233-240).
THEOREM NoneLeftOut == SafeSpec => []ListsAreComplete
<1>1. Told => ListsAreComplete
  BY DEF Told, Complete
<1> QED
  BY <1>1, ToldHolds, PTL

\* When the checker rests the last list it queued is what it knows, until the
\* sender is told to stop and closes the queue (service.rs 239, 259).
THEOREM RelayKnows == SafeSpec => []RelayIsUpToDate
<1>1. Told => RelayIsUpToDate
  <2> SUFFICES ASSUME Told, checker = "select", ticks > 0, sender # "stopped"
               PROVE  Some("sources") /\ Queued[LastOf("sources")].states = states
    BY DEF RelayIsUpToDate
  <2>1. PICK i : IsLast("sources", i) /\ Queued[i].states = states
    BY DEF Told, Current
  <2> QED
    BY <2>1, LastIs DEF Told
<1> QED
  BY <1>1, ToldHolds, PTL

\* No list follows the message that says the data sources are disconnected.
THEOREM GoodbyeIsLast == SafeSpec => []OfflineIsFinal
<1>1. Told => OfflineIsFinal
  <2> SUFFICES ASSUME Told, Some("offline"), Some("sources")
               PROVE  LastOf("sources") < LastOf("offline")
    BY DEF OfflineIsFinal
  <2>1. PICK i : IsLast("sources", i)
    BY LastExists DEF Told
  <2>2. PICK j : IsLast("offline", j)
    BY LastExists DEF Told
  <2>3. i < j
    BY <2>1, <2>2 DEF IsLast, Told, Final
  <2> QED
    BY <2>1, <2>2, <2>3, LastIs DEF Told
<1> QED
  BY <1>1, ToldHolds, PTL

\* A request is answered once at most, not before its handler is done, and the
\* answer of a handler that is done is only lost with the sender (handle_message
\* of service.rs, a task for each request).
THEOREM OneAnswer == SafeSpec => []AnsweredOnce
<1>1. Told => AnsweredOnce
  <2> SUFFICES ASSUME Told, NEW r \in Request
               PROVE  /\ Cardinality(Places(r)) <= 1
                      /\ Cardinality(Places(r)) = 1 => handler[r] = "done"
                      /\ handler[r] = "done" /\ Cardinality(Places(r)) = 0 => sender = "stopped"
    BY DEF AnsweredOnce, Places
  <2>1. CASE \E i : Places(r) = {i}
    <3>1. Cardinality(Places(r)) = 1 /\ Places(r) # {}
      BY <2>1, FS_Singleton
    <3> QED
      BY <3>1 DEF Told, Replied
  <2>2. CASE Places(r) = {}
    <3>1. Cardinality(Places(r)) = 0
      BY <2>2, FS_EmptySet, Zenon
    <3> QED
      BY <2>2, <3>1 DEF Told, Replied
  <2> QED
    BY <2>1, <2>2 DEF Told, Replied
<1> QED
  BY <1>1, ToldHolds, PTL
=============================================================================
