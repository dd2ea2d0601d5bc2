----------------------------- MODULE LoopProofs -----------------------------
(***************************************************************************)
(* The loops of ReconnectingWebSocket: one connection is read from at a    *)
(* time, it is not read from without a write loop, and its life is the one *)
(* of Session, for any number of messages, connections, retries and        *)
(* faults.                                                                 *)
(***************************************************************************)
EXTENDS RWSProofs

\* The read loops end in the order in which they are spawned: whoever reads or
\* connects is the last one, and before it there is nobody left.
Order ==
    /\ \A t \in Task : t < nconn => rpc[t] = "done"
    /\ \A t \in Task : t > nconn => rpc[t] = "idle" /\ attempt[t] = 0
    /\ rpc[nconn] # "idle"

\* A write loop does not run before its read loop reset the disconnect value.
Started == \A c \in Conn : rpc[c] = "spawned" => wpc[c] = "select"

\* The disconnect value is true from the end of a read loop until the next
\* one starts.
Told == nconn > 0 /\ Alive /\ ~Looping(nconn) => disconnected

Loops == TypeInv /\ Order /\ Started /\ Told /\ LiveWriter

\* The variables these are about.
loopvars == <<user, disconnected, rchanged, nconn, rpc, attempt, wpc>>

USE MaxInIsNat, MaxConnIsPositive, MaxRetriesIsNat, MaxFaultsIsNat

LEMMA LoopsInit == Init => Loops
<1> SUFFICES ASSUME Init PROVE Loops
  OBVIOUS
<1>1. TypeInv
  BY TypeInit
<1>2. Order /\ Started /\ Told
  BY TaskFacts DEF Init, Order, Started, Told
<1>3. LiveWriter
  BY DEF Init, LiveWriter
<1> QED
  BY <1>1, <1>2, <1>3 DEF Loops

LEMMA SameLoops ==
    ASSUME Loops, TypeInv', UNCHANGED loopvars
    PROVE  Loops'
BY DEF Loops, loopvars, Order, Started, Told, LiveWriter, Alive, Connecting, Looping

\* A task that reads or connects is the one of the latest connection.
LEMMA Latest ==
    ASSUME Loops, NEW t \in Task, rpc[t] \notin {"idle", "done"}
    PROVE  t = nconn /\ nconn \in Task
BY TaskFacts DEF Loops, Order, TypeInv, TypeOK

\* connect() goes from one of its states to another: nothing else changes but
\* the number of attempts.
LEMMA ConnectGoesOn ==
    ASSUME Loops, TypeInv', NEW t \in Task, Connecting(t),
           NEW s \in {"connecting", "handshake", "backoff", "done"},
           rpc' = [rpc EXCEPT ![t] = s],
           \A u \in Task \ {t} : attempt'[u] = attempt[u],
           UNCHANGED <<user, disconnected, rchanged, nconn, wpc>>
    PROVE  Loops'
<1>1. t = nconn /\ rpc[t] \in {"connecting", "handshake", "backoff"}
  BY Latest DEF Connecting
<1>2. /\ rpc'[t] = s
      /\ \A u \in Task \ {t} : rpc'[u] = rpc[u]
  BY DEF Loops, TypeInv, TypeOK
<1>3. Order'
  BY <1>1, <1>2, TaskFacts DEF Loops, Order, TypeInv, TypeOK
<1>4. Alive' => Alive
  BY <1>1, <1>2 DEF Alive, Connecting
<1>5. \A c \in Conn : Looping(c)' => Looping(c)
  BY <1>1, <1>2, TaskFacts DEF Looping
<1>6. Started'
  BY <1>1, <1>2, TaskFacts DEF Loops, Started
<1>7. Told'
  BY <1>1, <1>4 DEF Loops, Told, Looping
<1>8. LiveWriter'
  BY <1>4, <1>5 DEF Loops, LiveWriter
<1> QED
  BY <1>3, <1>6, <1>7, <1>8 DEF Loops

LEMMA Established ==
    ASSUME Loops, TypeInv', NEW t \in Task, ConnectOk(t)
    PROVE  Loops'
<1>1. t = nconn /\ nconn + 1 \in Conn /\ nconn + 1 \in Task
  BY Latest, TaskFacts DEF ConnectOk
<1>2. /\ rpc'[t] = "done" /\ rpc'[t + 1] = "spawned"
      /\ \A u \in Task \ {t, t + 1} : rpc'[u] = rpc[u]
  BY <1>1, TaskFacts DEF ConnectOk, Loops, TypeInv, TypeOK
<1>3. wpc'[t + 1] = "select" /\ \A c \in Conn \ {t + 1} : wpc'[c] = wpc[c]
  BY <1>1 DEF ConnectOk, Loops, TypeInv, TypeOK
<1>4. nconn' = t + 1 /\ \A u \in Task \ {t} : attempt'[u] = attempt[u]
  BY <1>1 DEF ConnectOk, Loops, TypeInv, TypeOK
<1>5. Order'
  BY <1>1, <1>2, <1>4, TaskFacts DEF Loops, Order
<1>6. \A c \in Conn : Looping(c)' => c = t + 1
  BY <1>1, <1>2, TaskFacts DEF Loops, Order, Looping
<1>7. Started'
  BY <1>2, <1>3, <1>6 DEF Started, Looping
<1>8. Told'
  BY <1>2, <1>4 DEF Told, Looping
<1>9. LiveWriter'
  BY <1>3, <1>6 DEF LiveWriter
<1> QED
  BY <1>5, <1>7, <1>8, <1>9 DEF Loops

\* The read loop of c ends, and connects or not.
LEMMA ReadLoopEnds ==
    ASSUME Loops, TypeInv', NEW c \in Conn, Looping(c),
           NEW reconnect \in BOOLEAN, RLeave(c, reconnect)
    PROVE  Loops'
<1>1. c = nconn /\ c \in Task
  BY Latest, TaskFacts DEF Looping
<1>2. /\ rpc'[c] \in {"connecting", "done"} /\ (rpc'[c] = "connecting" => Alive)
      /\ \A u \in Task \ {c} : rpc'[u] = rpc[u]
  BY <1>1 DEF RLeave, Loops, TypeInv, TypeOK
<1>3. UNCHANGED <<user, nconn, attempt, wpc>>
  BY DEF RLeave, app, wloops
<1>4. Alive' => Alive
  BY <1>2, <1>3 DEF Alive, Connecting
<1>5. Alive => disconnected'
  BY DEF RLeave, SendDisconnected
<1>6. \A d \in Conn : ~Looping(d)'
  BY <1>1, <1>2, TaskFacts DEF Loops, Order, Looping
<1>7. Order'
  BY <1>1, <1>2, <1>3, TaskFacts DEF Loops, Order, TypeInv, TypeOK
<1>8. Started' /\ LiveWriter'
  BY <1>6 DEF Started, LiveWriter, Looping
<1>9. Told'
  BY <1>4, <1>5 DEF Told
<1> QED
  BY <1>7, <1>8, <1>9 DEF Loops

LEMMA WriteLoopEnds ==
    ASSUME Loops, TypeInv', NEW c \in Conn, WLeave(c), rpc[c] # "spawned"
    PROVE  Loops'
<1>1. UNCHANGED <<user, nconn, attempt, rpc>>
  BY DEF WLeave, app, links, rloops
<1>2. \A d \in Conn \ {c} : wpc'[d] = wpc[d]
  BY DEF WLeave, Loops, TypeInv, TypeOK
<1>3. Alive' = Alive
  BY <1>1 DEF Alive, Connecting
<1>4. Alive => disconnected' /\ \A d \in Conn : rchanged'[d]
  BY DEF WLeave, SendDisconnected
<1>5. Order' /\ Started'
  BY <1>1, <1>2 DEF Loops, Order, Started
<1>6. Told' /\ LiveWriter'
  BY <1>1, <1>3, <1>4 DEF Told, LiveWriter
<1> QED
  BY <1>5, <1>6 DEF Loops

LEMMA ReadLoopStarts ==
    ASSUME Loops, TypeInv', NEW c \in Conn, RStart(c)
    PROVE  Loops'
<1>1. c = nconn /\ c \in Task
  BY Latest, TaskFacts DEF RStart
<1>2. rpc'[c] = "select" /\ \A u \in Task \ {c} : rpc'[u] = rpc[u]
  BY <1>1 DEF RStart, Loops, TypeInv, TypeOK
<1>3. UNCHANGED <<user, nconn, attempt, wpc>> /\ wpc[c] = "select"
  BY DEF RStart, app, links, wloops, Loops, Started
<1>4. Order' /\ Started'
  BY <1>1, <1>2, <1>3, TaskFacts DEF Loops, Order, Started
<1>5. Told'
  BY <1>1, <1>2, <1>3 DEF Told, Looping
<1>6. \A d \in Conn : Looping(d)' => d = c
  BY <1>1, <1>2, TaskFacts DEF Loops, Order, Looping
<1>7. LiveWriter'
  BY <1>3, <1>6 DEF LiveWriter
<1> QED
  BY <1>4, <1>5, <1>7 DEF Loops

\* The read loop goes from its select to a full channel or back.
LEMMA ReadLoopGoesOn ==
    ASSUME Loops, TypeInv', NEW c \in Conn, rpc[c] \in {"select", "forward"},
           NEW s \in {"select", "forward"},
           rpc' = rpc \/ rpc' = [rpc EXCEPT ![c] = s],
           UNCHANGED <<user, disconnected, rchanged, nconn, attempt, wpc>>
    PROVE  Loops'
<1>1. c \in Task /\ rpc'[c] \in {"select", "forward"} /\ \A u \in Task \ {c} : rpc'[u] = rpc[u]
  BY TaskFacts DEF Loops, TypeInv, TypeOK
<1>2. Alive' = Alive /\ \A u \in Task : Looping(u)' = Looping(u)
  BY <1>1 DEF Alive, Connecting, Looping
<1>3. nconn \in Task
  BY DEF Loops, TypeInv, TypeOK
<1>4. Order' /\ Started'
  BY <1>1, <1>3, TaskFacts DEF Loops, Order, Started
<1>5. Told' /\ LiveWriter'
  BY <1>2, <1>3, TaskFacts DEF Loops, Told, LiveWriter
<1> QED
  BY <1>4, <1>5 DEF Loops

\* The write loop goes on: it does not end, and is not one that has ended.
LEMMA WriteLoopGoesOn ==
    ASSUME Loops, TypeInv', NEW c \in Conn, rpc[c] # "spawned",
           NEW s \in {"select", "sending", "requeue"},
           wpc' = [wpc EXCEPT ![c] = s],
           UNCHANGED <<user, disconnected, rchanged, nconn, rpc, attempt>>
    PROVE  Loops'
<1>1. wpc'[c] # "done" /\ \A d \in Conn \ {c} : wpc'[d] = wpc[d]
  BY DEF Loops, TypeInv, TypeOK
<1> QED
  BY <1>1 DEF Loops, Order, Started, Told, LiveWriter, Alive, Connecting, Looping

LEMMA Dropped ==
    ASSUME Loops, TypeInv', AppDrop
    PROVE  Loops'
BY DEF AppDrop, Loops, Order, Started, Told, LiveWriter, Alive, Connecting, Looping,
       watches, links, rloops, wloops, Quiet

LEMMA ValueSeen ==
    ASSUME Loops, TypeInv', NEW c \in Conn, RNotDisconnected(c)
    PROVE  Loops'
<1>1. ~disconnected /\ UNCHANGED <<user, disconnected, nconn, rpc, attempt, wpc>>
  BY DEF RNotDisconnected, app, links, rloops, wloops
<1>2. \A d \in Conn \ {c} : rchanged'[d] = rchanged[d]
  BY DEF RNotDisconnected, Loops, TypeInv, TypeOK
<1> QED
  BY <1>1, <1>2 DEF Loops, Order, Started, Told, LiveWriter, Alive, Connecting, Looping

-----------------------------------------------------------------------------
(* Every step, by what it does to the loops.                               *)

ReaderGoesOn(c) ==
    /\ rpc[c] \in {"select", "forward"}
    /\ rpc' = rpc \/ \E s \in {"select", "forward"} : rpc' = [rpc EXCEPT ![c] = s]
    /\ UNCHANGED <<user, disconnected, rchanged, nconn, attempt, wpc>>
ReaderEnds(c) == Looping(c) /\ \E reconnect \in BOOLEAN : RLeave(c, reconnect)
WriterGoesOn(c) ==
    /\ rpc[c] # "spawned"
    /\ \E s \in {"select", "sending", "requeue"} : wpc' = [wpc EXCEPT ![c] = s]
    /\ UNCHANGED <<user, disconnected, rchanged, nconn, rpc, attempt>>
WriterEnds(c) == WLeave(c) /\ rpc[c] # "spawned"

LoopStep ==
    \/ UNCHANGED loopvars \/ AppDrop
    \/ \E t \in Task : Connect(t)
    \/ \E c \in Conn : \/ RStart(c) \/ RNotDisconnected(c) \/ ReaderGoesOn(c)
                       \/ ReaderEnds(c) \/ WriterGoesOn(c) \/ WriterEnds(c)

LEMMA ReadLoopSteps ==
    ASSUME Loops, NEW c \in Conn, ReadLoop(c)
    PROVE  LoopStep
<1> USE DEF LoopStep, loopvars, app, watches, rloops, wloops, queues, links
<1>1. CASE RStart(c) \/ RNotDisconnected(c)
  BY <1>1
<1>2. CASE RItem(c)
  <2>1. ReaderGoesOn(c)
    BY <1>2 DEF RItem, ReaderGoesOn
  <2> QED
    BY <2>1
<1>3. CASE RForward(c)
  <2>1. ReaderGoesOn(c)
    BY <1>3 DEF RForward, ReaderGoesOn
  <2> QED
    BY <2>1
<1>4. CASE RWait(c)
  BY <1>4 DEF RWait
<1>5. CASE RCloseFrame(c) \/ RForwardError(c) \/ REnd(c) \/ RDisconnected(c) \/ RClosed(c)
  <2>1. ReaderEnds(c)
    BY <1>5 DEF RCloseFrame, RForwardError, REnd, RDisconnected, RClosed, RIdle,
                ReaderEnds, Looping
  <2> QED
    BY <2>1
<1> QED
  BY <1>1, <1>2, <1>3, <1>4, <1>5 DEF ReadLoop

LEMMA WriteLoopSteps ==
    ASSUME Loops, NEW c \in Conn, WriteLoop(c)
    PROVE  LoopStep
<1> USE DEF LoopStep, loopvars, app, watches, rloops, wloops, queues, links
<1>1. wpc[c] # "select" => rpc[c] # "spawned"
  BY DEF Loops, Started
<1>2. CASE WTakeRetry(c) \/ WTake(c)
  <2>1. WriterGoesOn(c)
    BY <1>2 DEF WTakeRetry, WTake, WSelect, WriterGoesOn
  <2> QED
    BY <2>1
<1>3. CASE WSend(c) \/ WSendError(c)
  <2>1. WriterGoesOn(c)
    BY <1>1, <1>3 DEF WSend, WSendError, WriterGoesOn
  <2> QED
    BY <2>1
<1>4. CASE WRequeue(c) \/ WStop(c)
  <2>1. WriterEnds(c)
    BY <1>1, <1>4 DEF WRequeue, WStop, WIdle, WSelect, WriterEnds
  <2> QED
    BY <2>1
<1>5. CASE WNotDisconnected(c) \/ WWait(c)
  BY <1>5 DEF WNotDisconnected, WWait
<1> QED
  BY <1>2, <1>3, <1>4, <1>5 DEF WriteLoop

LEMMA StepsOfLoops == Loops /\ [Next]_vars => LoopStep
<1> SUFFICES ASSUME Loops, [Next]_vars PROVE LoopStep
  OBVIOUS
<1> USE DEF LoopStep, loopvars, app, watches, rloops, wloops, queues, links
<1>1. CASE App
  BY <1>1 DEF App, AppSend, AppSendCompletes, AppRecv, AppRecvNone, AppClose
<1>2. CASE \E t \in Task : Connect(t)
  BY <1>2
<1>3. ASSUME NEW c \in Conn, LinkSteps(c) PROVE LoopStep
  BY <1>3 DEF LinkSteps, LinkFetch, LinkWrite, LinkFault, LinkBreak, LinkClose, LinkPush,
              LinkEnd, LinkRefuse, LinkArrive, LinkStep
<1>4. CASE UNCHANGED vars
  BY <1>4 DEF vars
<1> QED
  BY <1>1, <1>2, <1>3, <1>4, ReadLoopSteps, WriteLoopSteps DEF Next

LEMMA ConnectKeepsLoops ==
    ASSUME Loops, TypeInv', NEW t \in Task, Connect(t)
    PROVE  Loops'
<1> USE DEF app, watches, wloops, links
<1>1. CASE Dial(t)
  <2>1. rpc' = [rpc EXCEPT ![t] = "handshake"] /\ Connecting(t) /\ attempt' = attempt
    BY <1>1 DEF Dial, Connecting
  <2> QED
    BY <1>1, <2>1, ConnectGoesOn DEF Dial
<1>2. CASE ConnectOk(t)
  BY <1>2, Established
<1>3. ASSUME NEW clientError \in BOOLEAN, ConnectFail(t, clientError) PROVE Loops'
  <2>1. /\ rpc' = [rpc EXCEPT ![t] = "done"] \/ rpc' = [rpc EXCEPT ![t] = "backoff"]
        /\ Connecting(t) /\ attempt' = attempt
    BY <1>3 DEF ConnectFail, Connecting
  <2> QED
    BY <1>3, <2>1, ConnectGoesOn DEF ConnectFail
<1>4. CASE BackoffOver(t)
  <2>1. rpc' = [rpc EXCEPT ![t] = "connecting"] /\ Connecting(t)
    BY <1>4 DEF BackoffOver, Connecting
  <2>2. \A u \in Task \ {t} : attempt'[u] = attempt[u]
    BY <1>4 DEF BackoffOver, Loops, TypeInv, TypeOK
  <2> QED
    BY <1>4, <2>1, <2>2, ConnectGoesOn DEF BackoffOver
<1> QED
  BY <1>1, <1>2, <1>3, <1>4 DEF Connect

LEMMA LoopsNext == Loops /\ [Next]_vars => Loops'
<1> SUFFICES ASSUME Loops, [Next]_vars PROVE Loops'
  OBVIOUS
<1>1. TypeInv'
  BY TypeNext DEF Loops
<1>2. LoopStep
  BY StepsOfLoops
<1>3. ASSUME NEW c \in Conn, ReaderGoesOn(c) PROVE Loops'
  BY <1>1, <1>3, ReadLoopGoesOn, SameLoops DEF ReaderGoesOn, loopvars
<1>4. ASSUME NEW c \in Conn, ReaderEnds(c) PROVE Loops'
  BY <1>1, <1>4, ReadLoopEnds DEF ReaderEnds
<1>5. ASSUME NEW c \in Conn, WriterGoesOn(c) PROVE Loops'
  BY <1>1, <1>5, WriteLoopGoesOn DEF WriterGoesOn
<1>6. ASSUME NEW c \in Conn, WriterEnds(c) PROVE Loops'
  BY <1>1, <1>6, WriteLoopEnds DEF WriterEnds
<1> QED
  BY <1>1, <1>2, <1>3, <1>4, <1>5, <1>6, SameLoops, Dropped, ConnectKeepsLoops,
     ReadLoopStarts, ValueSeen DEF LoopStep

LEMMA LoopsHold == SafeSpec => []Loops
BY LoopsInit, LoopsNext, PTL DEF SafeSpec

-----------------------------------------------------------------------------
\* However the loops of old and new connections overlap, and whichever of
\* them calls connect(), one task reads or connects, and it is the one of the
\* latest connection (spawn_read_loop 273-341, connect 148-178).
THEOREM OneReader == SafeSpec => []SingleReader
<1>1. Loops => SingleReader
  BY Latest DEF SingleReader, Reading, Connecting, Looping
<1> QED
  BY <1>1, LoopsHold, PTL

\* A read loop whose write loop returned has a disconnect value to see: a
\* connection that cannot be written to is left (406-409 and 313-318).
THEOREM WriterLives == SafeSpec => []LiveWriter
BY LoopsHold, PTL DEF Loops

\* is_connected() is true only while the latest connection has both its loops,
\* once the first is open (is_connected 221-224).
THEOREM ConnectedMeansServed == SafeSpec => []ConnectedIsServed
<1>1. Loops => ConnectedIsServed
  <2> SUFFICES ASSUME Loops, IsConnected, Connected, nconn > 0
               PROVE  Looping(nconn) /\ wpc[nconn] # "done"
    BY DEF ConnectedIsServed
  <2>1. nconn \in Conn
    BY DEF Loops, TypeInv, TypeOK, Task, Conn
  <2>2. Looping(nconn)
    BY DEF Loops, Told, IsConnected, Connected, Alive
  <2> QED
    BY <2>1, <2>2 DEF Loops, LiveWriter, IsConnected, Connected, Alive
<1> QED
  BY <1>1, LoopsHold, PTL

-----------------------------------------------------------------------------
(* The life of the socket is the one of Session.                           *)

LEMMA SessionInit == Init => Life!Init
<1> SUFFICES ASSUME Init PROVE Life!Init
  OBVIOUS
<1>1. nconn = 0 /\ rpc[nconn] = "connecting" /\ attempt[nconn] = 0
  BY TaskFacts DEF Init
<1>2. Phase = "connecting"
  BY <1>1 DEF Phase, Connecting, Looping
<1> QED
  BY <1>1, <1>2 DEF Life!Init

LEMMA SamePhase ==
    ASSUME UNCHANGED <<rpc, attempt, nconn>>
    PROVE  UNCHANGED Life!svars
BY DEF Life!svars, Phase, Connecting, Looping

\* connect() stays in the phase "connecting", counts a retry, gives up, or
\* ends it with a new connection.
LEMMA SessionConnects ==
    ASSUME Loops, Loops', NEW t \in Task, Connect(t)
    PROVE  [Life!Next]_Life!svars
<1> USE DEF Phase, Connecting, Looping
<1>0. rpc \in [Task -> ReadLoopState] /\ attempt \in [Task -> 0..MaxRetries] /\ nconn \in Task
  BY DEF Loops, TypeInv, TypeOK
<1>1. CASE Dial(t)
  <2>1. t = nconn /\ UNCHANGED <<nconn, attempt>> /\ rpc[nconn] = "connecting" /\ rpc'[nconn] = "handshake"
    BY <1>0, <1>1, Latest DEF Dial, links
  <2> QED
    BY <2>1 DEF Life!svars
<1>2. CASE ConnectOk(t)
  <2>1. t = nconn /\ nconn' = nconn + 1 /\ nconn + 1 \in Task /\ attempt[nconn + 1] = 0
    BY <1>0, <1>2, Latest, TaskFacts DEF ConnectOk, Loops, Order
  <2>2. /\ rpc[nconn] = "handshake" /\ rpc'[nconn + 1] = "spawned"
        /\ attempt'[nconn + 1] = attempt[nconn + 1]
    BY <1>0, <1>2, <2>1, TaskFacts DEF ConnectOk
  <2>3. Life!Establish
    BY <2>1, <2>2 DEF Life!Establish
  <2> QED
    BY <2>3 DEF Life!Next
<1>3. ASSUME NEW clientError \in BOOLEAN, ConnectFail(t, clientError) PROVE [Life!Next]_Life!svars
  <2>1. t = nconn /\ UNCHANGED <<nconn, attempt>> /\ rpc[nconn] = "handshake"
        /\ rpc'[nconn] \in {"done", "backoff"}
    BY <1>0, <1>3, Latest DEF ConnectFail, links
  <2>2. CASE rpc'[nconn] = "done"
    <3>1. Life!GiveUp
      BY <2>1, <2>2 DEF Life!GiveUp
    <3> QED
      BY <3>1 DEF Life!Next
  <2>3. CASE rpc'[nconn] = "backoff"
    BY <2>1, <2>3 DEF Life!svars
  <2> QED
    BY <2>1, <2>2, <2>3
<1>4. CASE BackoffOver(t)
  <2>1. t = nconn /\ nconn' = nconn /\ rpc[nconn] = "backoff" /\ rpc'[nconn] = "connecting"
    BY <1>0, <1>4, Latest DEF BackoffOver, links
  <2>2. attempt[nconn] < MaxRetries /\ attempt'[nconn] = attempt[nconn] + 1
    BY <1>0, <1>4, <2>1 DEF BackoffOver, Loops, TypeInv, Counted
  <2>3. Life!Retry
    BY <2>1, <2>2 DEF Life!Retry
  <2> QED
    BY <2>3 DEF Life!Next
<1> QED
  BY <1>1, <1>2, <1>3, <1>4 DEF Connect

\* A read loop that starts or goes on keeps the phase "up", one that ends
\* leaves it.
LEMMA SessionReads ==
    ASSUME Loops, Loops', NEW c \in Conn, RStart(c) \/ ReaderGoesOn(c) \/ ReaderEnds(c)
    PROVE  [Life!Next]_Life!svars
<1> USE DEF Phase, Connecting, Looping
<1>0. rpc \in [Task -> ReadLoopState] /\ c \in Task /\ c = nconn
  BY Latest, TaskFacts DEF Loops, TypeInv, TypeOK, RStart, ReaderGoesOn, ReaderEnds
<1>1. CASE RStart(c) \/ ReaderGoesOn(c)
  <2>1. /\ UNCHANGED <<nconn, attempt>>
        /\ rpc[nconn] \in {"spawned", "select", "forward"}
        /\ rpc'[nconn] \in {"spawned", "select", "forward"}
    BY <1>0, <1>1 DEF RStart, ReaderGoesOn, links
  <2> QED
    BY <2>1 DEF Life!svars
<1>2. CASE ReaderEnds(c)
  <2>1. UNCHANGED <<nconn, attempt>> /\ rpc'[nconn] \in {"connecting", "done"}
    BY <1>0, <1>2 DEF ReaderEnds, RLeave
  <2>2. CASE rpc'[nconn] = "connecting"
    <3>1. Life!Lose
      BY <1>0, <1>2, <2>1, <2>2 DEF ReaderEnds, Life!Lose
    <3> QED
      BY <3>1 DEF Life!Next
  <2>3. CASE rpc'[nconn] = "done"
    <3>1. Life!Finish
      BY <1>0, <1>2, <2>1, <2>3 DEF ReaderEnds, Life!Finish
    <3> QED
      BY <3>1 DEF Life!Next
  <2> QED
    BY <2>1, <2>2, <2>3
<1> QED
  BY <1>1, <1>2

LEMMA SessionNext == Loops /\ Loops' /\ [Next]_vars => [Life!Next]_Life!svars
<1> SUFFICES ASSUME Loops, Loops', [Next]_vars PROVE [Life!Next]_Life!svars
  OBVIOUS
<1>1. CASE UNCHANGED loopvars
  BY <1>1, SamePhase DEF loopvars
<1>2. CASE AppDrop
  BY <1>2, SamePhase DEF AppDrop, links, rloops
<1>3. ASSUME NEW c \in Conn, RNotDisconnected(c) \/ WriterGoesOn(c) \/ WriterEnds(c)
      PROVE  [Life!Next]_Life!svars
  BY <1>3, SamePhase DEF RNotDisconnected, WriterGoesOn, WriterEnds, WLeave, links, rloops
<1> QED
  BY <1>1, <1>2, <1>3, StepsOfLoops, SessionConnects, SessionReads DEF LoopStep

\* What the loops, the channels and the watch values do to the connection is
\* what Session says of it: it retries at most max_retries times, is up on one
\* connection at a time and does not come back once it ended (connect
\* 148-178, the end of spawn_read_loop 329-339).
THEOREM SessionImplemented == SafeSpec => ImplementsSession
<1>1. SafeSpec => Life!Init
  BY SessionInit DEF SafeSpec
<1> QED
  BY <1>1, LoopsHold, SessionNext, PTL DEF SafeSpec, ImplementsSession, Life!Spec
=============================================================================
