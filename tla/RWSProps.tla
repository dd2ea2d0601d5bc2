------------------------------ MODULE RWSProps ------------------------------
(***************************************************************************)
(* What is checked of ReconnectingWebSocket.                               *)
(***************************************************************************)
EXTENDS ReconnectingWebSocket

\* A task that reads from a connection or is opening one.
Looping(c) == rpc[c] \in {"spawned", "select", "forward"}
Reading(t) == Connecting(t) \/ Looping(t)

\* Only the latest connection is read from, and only its read loop opens the
\* next one: however the loops of old and new connections overlap, two are
\* never served side by side (spawn_read_loop, connect).
SingleReader == \A t \in Task : Reading(t) => t = nconn

\* A connection whose write loop returned is about to be left by its read
\* loop: the value that says so is sent and not seen.  Otherwise the daemon
\* would read requests and never write an answer.
LiveWriter ==
    \A c \in Conn :
        Looping(c) /\ wpc[c] = "done" /\ Alive => disconnected /\ rchanged[c]

\* is_connected() (and with it /health) says so only while the latest
\* connection has both its loops.
IsConnected == ~closed /\ ~disconnected
ConnectedIsServed ==
    IsConnected /\ Connected /\ nconn > 0 => Looping(nconn) /\ wpc[nconn] # "done"

\* Where a message may be, between send() and the socket, and what is there.
Place == ({"sending", "outgoing", "retry"} \X {0})
           \union ({"whold", "out", "busy", "wire"} \X Conn)
Holds(p) ==
    CASE p[1] = "sending"  -> sending
      [] p[1] = "outgoing" -> outgoing
      [] p[1] = "retry"    -> retry
      [] p[1] = "whold"    -> whold[p[2]]
      [] p[1] = "out"      -> conn[p[2]].out
      [] p[1] = "busy"     -> conn[p[2]].busy
      [] p[1] = "wire"     -> conn[p[2]].wire
Places == [p \in Place |-> Holds(p)]

\* Wherever a message is, it is there once and nowhere else, whatever was
\* taken back and queued for another connection: none is written twice.
Once(f) ==
    \A p, q \in DOMAIN f : \A i \in DOMAIN f[p], j \in DOMAIN f[q] :
        f[p][i] = f[q][j] => p = q /\ i = j
AtMostOnce == Once(Places)

\* Items reach the application in the order in which the peer's connections
\* yielded them, across reconnects; the ones of a connection that was left
\* may be missing.
Ids(s) == [i \in DOMAIN s |-> s[i].id]
Increasing(s) == \A i, j \in DOMAIN s : i < j => s[i] < s[j]
IncomingInOrder ==
    Increasing(Ids(received \o incoming))

\* The life of the socket as Session describes it.
Phase == CASE Connecting(nconn) -> "connecting"
           [] Looping(nconn) -> "up"
           [] OTHER -> "ended"
Life == INSTANCE Session WITH phase <- Phase, tries <- attempt[nconn], opened <- nconn
ImplementsSession == Life!Spec

\* What becomes of a message, by where it is: in the channel of a connection
\* that ended, or in the hands of its write loop, it is lost.
Ended(c) == conn[c].phase # "open"
Lying(m, p) == m \in ToSet(Holds(p))
FateAt(p) ==
    IF p[1] = "wire" THEN "written"
    ELSE IF p[1] \in {"out", "busy"} /\ Ended(p[2]) THEN "lost" ELSE "kept"
Fate(m) ==
    IF m \in unsent THEN "unsent"
    ELSE IF \A p \in Place : ~Lying(m, p) THEN "refused"
    ELSE FateAt(CHOOSE p \in Place : Lying(m, p))
Letters == INSTANCE Delivery WITH
    fate <- [m \in Msg |-> Fate(m)], ended <- {c \in Conn : Ended(c)}

\* A message that send() took is written or waits somewhere, until it is lost
\* with a connection that had accepted it (180-191, 357-384; the comment at
\* websocket_keepalive.rs:130 says that such messages are lost).
ImplementsDelivery == Letters!Spec

-----------------------------------------------------------------------------
Stopped(c) == rpc[c] = "done" /\ wpc[c] = "done" /\ conn[c].phase = "closed"

\* A broken connection is left, so that the next one can be opened: neither a
\* full incoming channel nor a missed change of the disconnect value keeps
\* the read loop at it.
BrokenIsLeft ==
    \A c \in Conn : (Looping(c) /\ conn[c].phase # "open") ~> ~Looping(c)

\* A write loop waits for room in the retry channel and no task is left that
\* would take the message out of it: the loop holds a receiver of the channel
\* itself, so its send never fails either.
StuckRequeue(c) ==
    /\ wpc[c] = "requeue" /\ retry # <<>>
    /\ \A d \in Conn \ {c} : wpc[d] \in {"idle", "done"}
    /\ \A t \in Task : ~Reading(t)

\* When the last clone is dropped every task ends and every connection is
\* closed, in whatever the tasks are at that moment; the stuck write loop is
\* the one exception (its connection is closed then as well).
DropStopsAll ==
    ~user ~> \A c \in Conn : c <= nconn => Stopped(c) \/ StuckRequeue(c)

\* The same of close(), for an application that keeps receiving.
CloseStopsAll ==
    closed ~> \A c \in Conn : c <= nconn => Stopped(c) \/ StuckRequeue(c)

\* What goes on by itself: the tasks, the connections, the application that
\* receives and whose send() waits.
GoesOnByItself ==
    \/ \E t \in Task : Connect(t)
    \/ \E c \in Conn :
         \/ ReadLoop(c) \/ WriteLoop(c) \/ LinkFetch(c) \/ LinkWrite(c)
         \/ LinkBreak(c) \/ LinkClose(c) \/ LinkPush(c) \/ LinkEnd(c)
    \/ AppSendCompletes \/ AppRecv \/ AppRecvNone

\* Nothing but a stuck write loop waits for ever after close() or a drop: when
\* all is quiet every other task has ended and its connection is closed, with
\* both write loops of two broken connections holding messages to queue again
\* (357-384, 404-410).
OnlyRequeueStalls ==
    (closed \/ ~user) /\ ~ENABLED <<GoesOnByItself>>_vars
        => \A c \in Conn : c <= nconn => Stopped(c) \/ StuckRequeue(c)

\* A message that was taken before close() is written, though close() and the
\* drop of the last clone race the write loops, unless a connection breaks.
FlushedWithoutFaults ==
    \A m \in Msg : (outgoing = <<m>> /\ ~closed /\ nconn > 0)
                       ~> faults > 0 \/ \E c \in Conn : m \in ToSet(conn[c].wire)

-----------------------------------------------------------------------------
(* What the documentation and the tests say and the code does not do.      *)

\* recv() "Returns None if the WebSocket closed normally" (194): when the
\* peer closes with a Close frame the application is told, if it listens.
CloseFrameEndsRecv ==
    (\E c \in Conn : rpc[c] = "done" /\ conn[c].eof = "close" /\ c = nconn)
        ~> (sawNone \/ closed \/ ~user)

\* The write loop stops "if all senders on the incoming channel are dropped"
\* (346): it does not wait for a retry channel that nobody empties.
NeverStuckRequeue == \A c \in Conn : ~StuckRequeue(c)

\* After close() ("Gracefully close the WebSocket connection", 213) a read loop
\* does not open another connection.
NoReconnectAfterClose ==
    [][\A c \in Conn : Looping(c) /\ closed => rpc'[c] # "connecting"]_vars
=============================================================================
