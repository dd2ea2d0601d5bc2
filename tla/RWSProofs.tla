----------------------------- MODULE RWSProofs -----------------------------
(***************************************************************************)
(* Proofs about ReconnectingWebSocket, for any number of messages,         *)
(* connections, retries and faults.                                        *)
(***************************************************************************)
EXTENDS RWSProps, TLAPS

-----------------------------------------------------------------------------
(* The steps of a connection keep its type.                                *)

\* The two channels and the hands of the loops hold at most one element: what
\* is put there is one, what is taken is there.
LEMMA OneElement ==
    ASSUME NEW S, NEW e \in S
    PROVE  <<e>> \in SeqUpTo(S, 1)
BY DEF SeqUpTo

LEMMA NoElement == \A S : <<>> \in SeqUpTo(S, 1)
BY DEF SeqUpTo

LEMMA Element ==
    ASSUME NEW S, NEW s \in SeqUpTo(S, 1), s # <<>>
    PROVE  s[1] \in S /\ s \in Seq(S)
BY DEF SeqUpTo

LEMMA NewLinkType == NewLink \in LinkState
BY NoElement DEF NewLink, LinkState

LEMMA AcceptStep ==
    ASSUME NEW l \in LinkState, NEW m \in Msg
    PROVE  Accept(l, m) \in LinkState
BY OneElement DEF Accept, LinkState

LEMMA TakeStep ==
    ASSUME NEW l \in LinkState
    PROVE  Take(l) \in LinkState
BY NoElement DEF Take, LinkState

LEMMA LoopSteps ==
    ASSUME NEW l \in LinkState
    PROVE  /\ Fetch(l) \in LinkState /\ Write(l) \in LinkState
           /\ Break(l) \in LinkState /\ Close(l) \in LinkState
           /\ Push(l) \in LinkState /\ End(l) \in LinkState
<1>1. Fetch(l) \in LinkState
  BY NoElement DEF Fetch, LinkState
<1>2. Write(l) \in LinkState
  <2>1. l.wire \o l.busy \in Seq(Msg)
    BY DEF LinkState, SeqUpTo
  <2> QED
    BY <2>1, NoElement DEF Write, LinkState
<1>3. Break(l) \in LinkState /\ Close(l) \in LinkState
  BY DEF Break, Close, LinkState
<1>4. Push(l) \in LinkState /\ End(l) \in LinkState
  BY NoElement DEF Push, End, LinkState
<1> QED
  BY <1>1, <1>2, <1>3, <1>4

LEMMA ArriveStep ==
    ASSUME NEW l \in LinkState, NEW i \in Item
    PROVE  Arrive(l, i) \in LinkState
<1>1. <<i>> \in SeqUpTo(Item, 1)
  BY OneElement
<1>2. LastOf(i.kind) \in {"no", "close", "error"}
  BY DEF LastOf
<1> QED
  BY <1>1, <1>2, NoElement DEF Arrive, LinkState

-----------------------------------------------------------------------------
(* Types.                                                                  *)

\* TypeOK is not inductive by itself: an attempt may be counted because
\* ConnectFail waits only while one is left, and a message is sent because a
\* write loop that sends holds one.
Counted == \A t \in Task : rpc[t] = "backoff" => attempt[t] < MaxRetries
Holding == \A c \in Conn : wpc[c] \in {"sending", "requeue"} => whold[c] # <<>>
TypeInv == TypeOK /\ Counted /\ Holding

USE MaxInIsNat, MaxConnIsPositive, MaxRetriesIsNat, MaxFaultsIsNat

LEMMA TaskFacts ==
    /\ \A c \in Conn : c \in Task /\ c \in Nat
    /\ 0 \in Task /\ Task \subseteq Nat
    /\ \A t \in Task : t < MaxConn => t + 1 \in Task /\ t + 1 \in Conn
BY DEF Task, Conn

LEMMA PolledType ==
    /\ \A c \in Conn : {R(c), W(c)} \subseteq [loop : {"read", "write", "none"}, conn : Task]
    /\ Nobody \in [loop : {"read", "write", "none"}, conn : Task]
BY TaskFacts DEF R, W, Nobody

LEMMA TypeInit == Init => TypeInv
<1> SUFFICES ASSUME Init PROVE TypeInv
  OBVIOUS
<1>1. <<>> \in SeqUpTo(Msg, 1) /\ <<>> \in SeqUpTo(Item, 1)
  BY NoElement
<1>2. TypeOK
  <2>1. nconn \in Task /\ rpc \in [Task -> ReadLoopState] /\ attempt \in [Task -> 0..MaxRetries]
    BY TaskFacts DEF Init, ReadLoopState
  <2>2. conn \in [Conn -> LinkState] /\ wpc \in [Conn -> WriteLoopState]
    BY NewLinkType DEF Init, WriteLoopState
  <2>3. received \in Seq(Item)
    BY DEF Init
  <2> QED
    BY <1>1, <2>1, <2>2, <2>3, PolledType DEF Init, TypeOK
<1>3. Counted /\ Holding
  BY DEF Init, Counted, Holding
<1> QED
  BY <1>2, <1>3 DEF TypeInv

LEMMA WatchTypes ==
    ASSUME TypeOK, NEW v \in BOOLEAN, SendDisconnected(v) \/ UNCHANGED watches
    PROVE  /\ closed' \in BOOLEAN /\ disconnected' \in BOOLEAN
           /\ rchanged' \in [Conn -> BOOLEAN] /\ wchanged' \in [Conn -> BOOLEAN]
BY DEF TypeOK, SendDisconnected, watches

LEMMA ReadLoopLeaves ==
    ASSUME TypeInv, NEW c \in Conn, NEW reconnect \in BOOLEAN,
           RLeave(c, reconnect), conn' \in [Conn -> LinkState]
    PROVE  TypeInv'
<1>1. SendDisconnected(TRUE) \/ UNCHANGED watches
  BY DEF RLeave
<1>2. rpc' \in [Task -> ReadLoopState]
  BY TaskFacts DEF RLeave, TypeInv, TypeOK, ReadLoopState
<1>3. rhold' \in [Conn -> SeqUpTo(Item, 1)]
  BY NoElement DEF RLeave, TypeInv, TypeOK
<1>4. TypeOK'
  BY <1>1, <1>2, <1>3, WatchTypes, PolledType
  DEF RLeave, TypeInv, TypeOK, Yields, app, queues, wloops
<1>5. Counted' /\ Holding'
  BY DEF RLeave, TypeInv, TypeOK, Counted, Holding, wloops
<1> QED
  BY <1>4, <1>5 DEF TypeInv

LEMMA WriteLoopLeaves ==
    ASSUME TypeInv, NEW c \in Conn, WLeave(c), retry' \in SeqUpTo(Msg, 1),
           whold' \in [Conn -> SeqUpTo(Msg, 1)],
           \A d \in Conn \ {c} : whold'[d] = whold[d]
    PROVE  TypeInv'
<1>1. SendDisconnected(TRUE) \/ UNCHANGED watches
  BY DEF WLeave
<1>2. wpc' \in [Conn -> WriteLoopState]
  BY DEF WLeave, TypeInv, TypeOK, WriteLoopState
<1>3. TypeOK'
  BY <1>1, <1>2, WatchTypes, PolledType
  DEF WLeave, TypeInv, TypeOK, Yields, app, rloops, links
<1>4. Counted' /\ Holding'
  BY DEF WLeave, TypeInv, TypeOK, Counted, Holding, rloops
<1> QED
  BY <1>3, <1>4 DEF TypeInv

LEMMA TypeNext == TypeInv /\ [Next]_vars => TypeInv'
<1> SUFFICES ASSUME TypeInv, [Next]_vars PROVE TypeInv'
  OBVIOUS
<1> USE DEF TypeInv, TypeOK, Counted, Holding, app, watches, rloops, wloops, queues, links
<1>1. ASSUME NEW m \in Msg, AppSend(m) PROVE TypeInv'
  BY <1>1, OneElement DEF AppSend, Quiet
<1>2. CASE AppSendCompletes
  BY <1>2, NoElement DEF AppSendCompletes, Quiet
<1>3. CASE AppRecv
  BY <1>3, NoElement DEF AppRecv, Quiet, SeqUpTo
<1>4. CASE AppRecvNone
  BY <1>4 DEF AppRecvNone, Quiet
<1>5. CASE AppClose
  BY <1>5 DEF AppClose, Quiet
<1>6. CASE AppDrop
  BY <1>6 DEF AppDrop, Quiet
<1>7. ASSUME NEW t \in Task, Dial(t) PROVE TypeInv'
  BY <1>7 DEF Dial, Quiet, ReadLoopState
<1>8. ASSUME NEW t \in Task, ConnectOk(t) PROVE TypeInv'
  <2>1. rpc' \in [Task -> ReadLoopState] /\ wpc' \in [Conn -> WriteLoopState]
    BY <1>8, TaskFacts DEF ConnectOk, ReadLoopState, WriteLoopState
  <2>2. attempt' \in [Task -> 0..MaxRetries]
    BY <1>8, TaskFacts DEF ConnectOk
  <2>3. nconn' \in Task
    BY <1>8, TaskFacts DEF ConnectOk
  <2>4. TypeOK'
    BY <1>8, <2>1, <2>2, <2>3 DEF ConnectOk, Quiet
  <2> QED
    BY <1>8, <2>4, TaskFacts DEF ConnectOk
<1>9. ASSUME NEW t \in Task, NEW clientError \in BOOLEAN, ConnectFail(t, clientError) PROVE TypeInv'
  BY <1>9 DEF ConnectFail, Quiet, ReadLoopState
<1>10. ASSUME NEW t \in Task, BackoffOver(t) PROVE TypeInv'
  BY <1>10 DEF BackoffOver, Quiet, ReadLoopState
<1>11. ASSUME NEW c \in Conn, RStart(c) PROVE TypeInv'
  <2>1. \A v \in BOOLEAN : SendDisconnected(v) \/ UNCHANGED watches =>
          /\ closed' \in BOOLEAN /\ disconnected' \in BOOLEAN
          /\ rchanged' \in [Conn -> BOOLEAN] /\ wchanged' \in [Conn -> BOOLEAN]
    BY WatchTypes
  <2>2. rpc' \in [Task -> ReadLoopState]
    BY <1>11, TaskFacts DEF RStart, ReadLoopState
  <2> QED
    BY <1>11, <2>1, <2>2, PolledType DEF RStart, GoesOn
<1>12. ASSUME NEW c \in Conn, RItem(c) PROVE TypeInv'
  <2>1. conn' \in [Conn -> LinkState]
    BY <1>12, TakeStep DEF RItem
  <2>2. /\ rpc' \in [Task -> ReadLoopState]
        /\ polled' \in [loop : {"read", "write", "none"}, conn : Task]
    <3>1. rpc' \in [Task -> ReadLoopState]
      BY <1>12 DEF RItem, ReadLoopState
    <3>2. polled' \in [loop : {"read", "write", "none"}, conn : Task]
      BY <1>12, PolledType DEF RItem, GoesOn, Yields
    <3> QED
      BY <3>1, <3>2
  <2>3. conn[c].inbuf \in SeqUpTo(Item, 1)
    BY DEF LinkState
  <2>4. incoming' \in SeqUpTo(Item, 1) /\ rhold' \in [Conn -> SeqUpTo(Item, 1)]
    BY <1>12, <2>3 DEF RItem
  <2> QED
    BY <1>12, <2>1, <2>2, <2>4 DEF RItem
<1>13. ASSUME NEW c \in Conn, RCloseFrame(c) PROVE TypeInv'
  <2>1. conn' \in [Conn -> LinkState]
    BY <1>13, TakeStep DEF RCloseFrame
  <2> QED
    BY <1>13, <2>1, ReadLoopLeaves DEF RCloseFrame
<1>14. ASSUME NEW c \in Conn, RForward(c) PROVE TypeInv'
  BY <1>14, NoElement, PolledType, TaskFacts DEF RForward, GoesOn, ReadLoopState
<1>15. ASSUME NEW c \in Conn, RForwardError(c) PROVE TypeInv'
  BY <1>15, ReadLoopLeaves DEF RForwardError
<1>16. ASSUME NEW c \in Conn, REnd(c) PROVE TypeInv'
  BY <1>16, ReadLoopLeaves DEF REnd
<1>17. ASSUME NEW c \in Conn, RDisconnected(c) PROVE TypeInv'
  BY <1>17, ReadLoopLeaves DEF RDisconnected
<1>18. ASSUME NEW c \in Conn, RClosed(c) PROVE TypeInv'
  BY <1>18, ReadLoopLeaves DEF RClosed
<1>19. ASSUME NEW c \in Conn, RNotDisconnected(c) PROVE TypeInv'
  BY <1>19, PolledType DEF RNotDisconnected, GoesOn
<1>20. ASSUME NEW c \in Conn, RWait(c) PROVE TypeInv'
  BY <1>20, PolledType DEF RWait, Yields
<1>21. ASSUME NEW c \in Conn, WTakeRetry(c) PROVE TypeInv'
  BY <1>21, NoElement, PolledType DEF WTakeRetry, GoesOn, WriteLoopState
<1>22. ASSUME NEW c \in Conn, WTake(c) PROVE TypeInv'
  BY <1>22, NoElement, PolledType DEF WTake, GoesOn, WriteLoopState
<1>23. ASSUME NEW c \in Conn, WSend(c) PROVE TypeInv'
  <2>1. whold[c][1] \in Msg
    BY <1>23, Element DEF WSend
  <2>2. conn' \in [Conn -> LinkState]
    BY <1>23, <2>1, AcceptStep DEF WSend
  <2>3. wpc' \in [Conn -> WriteLoopState] /\ whold' \in [Conn -> SeqUpTo(Msg, 1)]
    BY <1>23, NoElement DEF WSend, WriteLoopState
  <2>4. TypeOK'
    BY <1>23, <2>2, <2>3, PolledType DEF WSend, GoesOn
  <2> QED
    BY <1>23, <2>4 DEF WSend
<1>24. ASSUME NEW c \in Conn, WSendError(c) PROVE TypeInv'
  BY <1>24, PolledType DEF WSendError, GoesOn, WriteLoopState
<1>25. ASSUME NEW c \in Conn, WRequeue(c) PROVE TypeInv'
  <2>1. retry' \in SeqUpTo(Msg, 1) /\ whold' \in [Conn -> SeqUpTo(Msg, 1)]
    BY <1>25, NoElement DEF WRequeue
  <2>2. \A d \in Conn \ {c} : whold'[d] = whold[d]
    BY <1>25 DEF WRequeue
  <2> QED
    BY <1>25, <2>1, <2>2, WriteLoopLeaves DEF WRequeue
<1>26. ASSUME NEW c \in Conn, WStop(c) PROVE TypeInv'
  BY <1>26, WriteLoopLeaves DEF WStop
<1>27. ASSUME NEW c \in Conn, WNotDisconnected(c) PROVE TypeInv'
  BY <1>27, PolledType DEF WNotDisconnected, GoesOn
<1>28. ASSUME NEW c \in Conn, WWait(c) PROVE TypeInv'
  BY <1>28, PolledType DEF WWait, Yields
<1>29. ASSUME NEW c \in Conn, LinkFetch(c) PROVE TypeInv'
  BY <1>29, LoopSteps DEF LinkFetch, LinkStep, Quiet, Arrival
<1>30. ASSUME NEW c \in Conn, LinkWrite(c) PROVE TypeInv'
  BY <1>30, LoopSteps DEF LinkWrite, LinkStep, Quiet, Arrival
<1>31. ASSUME NEW c \in Conn, LinkFault(c) PROVE TypeInv'
  BY <1>31, LoopSteps DEF LinkFault, LinkStep, Quiet, Arrival
<1>32. ASSUME NEW c \in Conn, LinkBreak(c) PROVE TypeInv'
  BY <1>32, LoopSteps DEF LinkBreak, LinkStep, Quiet, Arrival
<1>33. ASSUME NEW c \in Conn, LinkClose(c) PROVE TypeInv'
  BY <1>33, LoopSteps DEF LinkClose, LinkStep, Quiet, Arrival
<1>34. ASSUME NEW c \in Conn, LinkRefuse(c) PROVE TypeInv'
  BY <1>34, LoopSteps DEF LinkRefuse, LinkStep, Quiet, Arrival
<1>35. ASSUME NEW c \in Conn, LinkPush(c) PROVE TypeInv'
  BY <1>35, LoopSteps DEF LinkPush, LinkStep, Quiet, Arrival
<1>36. ASSUME NEW c \in Conn, LinkEnd(c) PROVE TypeInv'
  BY <1>36, LoopSteps DEF LinkEnd, LinkStep, Quiet, Arrival
<1>37. ASSUME NEW c \in Conn, NEW kind \in Arriving, LinkArrive(c, kind) PROVE TypeInv'
  <2>1. [kind |-> kind, id |-> arrived + 1] \in Item
    BY <1>37, ArrivingAreKinds DEF LinkArrive, Arrival, Item
  <2>2. conn' \in [Conn -> LinkState]
    BY <1>37, <2>1, ArriveStep DEF LinkArrive, LinkStep
  <2> QED
    BY <1>37, <2>2 DEF LinkArrive, LinkStep, Quiet, Arrival
<1>38. CASE UNCHANGED vars
  BY <1>38 DEF vars
<1> QED
  BY <1>1, <1>2, <1>3, <1>4, <1>5, <1>6, <1>7, <1>8, <1>9, <1>10, <1>11, <1>12, <1>13, <1>14, <1>15, <1>16, <1>17, <1>18, <1>19, <1>20, <1>21, <1>22, <1>23, <1>24, <1>25, <1>26, <1>27, <1>28, <1>29, <1>30, <1>31, <1>32, <1>33, <1>34, <1>35, <1>36, <1>37, <1>38
  DEF Next, App, Connect, ReadLoop, WriteLoop, LinkSteps

\* Every variable of the model keeps its type, whatever the loops, the
\* application and the network do, in whatever order (Inner and the locals of
\* the loops, reconnecting_websocket.rs 120-136 and 273-411).
THEOREM TypeCorrect == SafeSpec => []TypeOK
<1>1. SafeSpec => []TypeInv
  BY TypeInit, TypeNext, PTL DEF SafeSpec
<1> QED
  BY <1>1, PTL DEF TypeInv
=============================================================================
