----------------------------- MODULE KeepAlive -----------------------------
(***************************************************************************)
(* WebSocketKeepAlive (tasks/tokio_tungstenite_reconnect/                  *)
(* websocket_keepalive.rs): one websocket, split into a sink and a stream, *)
(* a write loop that owns the sink and the receiver of the outgoing        *)
(* channel, a read loop that owns the stream and the sender of the         *)
(* incoming channel, and a watch value through which either stops both.    *)
(* The tasks interleave at their awaits: one action is what a task does    *)
(* between two of them.                                                    *)
(***************************************************************************)
EXTENDS Link, SequencesExt

VARIABLES
    outbuf,       \* the outgoing channel, bounded(1)
    inbuf,        \* the incoming channel, bounded(1)
    disconnect,   \* the watch value; it never returns to FALSE
    wpc, whand,   \* the write loop, and the message it took
    rpc, rhand,   \* the read loop, and the item it could not forward yet
    wire,         \* what was written to the socket
    eof,          \* the last item of the stream, as in Link
    arrived,      \* how many items the stream yielded
    held,         \* the client holds a handle
    pending,      \* the client's send that has not completed
    unsent,       \* messages the client has not sent yet
    returned,     \* messages whose send failed
    received,     \* what recv() returned, None apart
    sawNone       \* recv() returned None

client == <<held, pending, unsent, returned, received, sawNone>>
vars == <<outbuf, inbuf, disconnect, wpc, whand, rpc, rhand, wire, eof,
          arrived, client>>

\* A client sends with send(), or on outgoing_sender itself, which is what
\* ReconnectingWebSocket does to get the message back when the send fails.
Mode == {"send", "channel"}

TypeOK ==
    /\ outbuf \in SeqUpTo(Msg, 1) /\ inbuf \in SeqUpTo(Item, 1)
    /\ disconnect \in BOOLEAN
    /\ wpc \in {"select", "sending", "pinging", "closing", "done"}
    /\ whand \in SeqUpTo(Msg, 1)
    /\ rpc \in {"select", "forward", "done"}
    /\ rhand \in SeqUpTo(Item, 1)
    /\ wire \in Seq(Msg)
    /\ eof \in {"no", "close", "error"}
    /\ arrived \in 0..MaxIn
    /\ held \in BOOLEAN
    /\ pending \in SeqUpTo([msg : Msg, mode : Mode], 1)
    /\ unsent \subseteq Msg /\ returned \subseteq Msg
    /\ received \in Seq(Item)
    /\ sawNone \in BOOLEAN

Init ==
    /\ outbuf = <<>> /\ inbuf = <<>> /\ disconnect = FALSE
    /\ wpc = "select" /\ whand = <<>> /\ rpc = "select" /\ rhand = <<>>
    /\ wire = <<>> /\ eof = "no" /\ arrived = 0
    /\ held = TRUE /\ pending = <<>> /\ unsent = Msg /\ returned = {}
    /\ received = <<>> /\ sawNone = FALSE

-----------------------------------------------------------------------------
(* The client.                                                             *)

\* send() looks at the watch value before it starts; outgoing_sender does not.
Send(m, mode) ==
    /\ held /\ pending = <<>> /\ m \in unsent
    /\ unsent' = unsent \ {m}
    /\ IF mode = "send" /\ disconnect
         THEN returned' = returned \union {m} /\ UNCHANGED pending
         ELSE pending' = <<[msg |-> m, mode |-> mode]>> /\ UNCHANGED returned
    /\ UNCHANGED <<outbuf, inbuf, disconnect, wpc, whand, rpc, rhand, wire,
                   eof, arrived, held, received, sawNone>>

\* Mutants: the channel is unbounded; the message is not taken off the caller.
SendCompletesUnbounded ==
    /\ pending # <<>> /\ wpc # "done"
    /\ outbuf' = Append(outbuf, pending[1].msg) /\ pending' = <<>>
    /\ UNCHANGED <<inbuf, disconnect, wpc, whand, rpc, rhand, wire, eof,
                   arrived, held, unsent, returned, received, sawNone>>
SendCompletesTwice ==
    /\ pending # <<>> /\ outbuf = <<>> /\ wpc # "done"
    /\ outbuf' = <<pending[1].msg>>
    /\ UNCHANGED <<pending, inbuf, disconnect, wpc, whand, rpc, rhand, wire,
                   eof, arrived, held, unsent, returned, received, sawNone>>

\* The channel has room.  send() selects, and prefers to see the disconnect.
SendCompletes ==
    /\ pending # <<>> /\ outbuf = <<>> /\ wpc # "done"
    /\ pending[1].mode = "send" => ~disconnect
    /\ outbuf' = <<pending[1].msg>> /\ pending' = <<>>
    /\ UNCHANGED <<inbuf, disconnect, wpc, whand, rpc, rhand, wire, eof,
                   arrived, held, unsent, returned, received, sawNone>>

\* The channel lost its receiver, or send() saw the disconnect.
SendFails ==
    /\ pending # <<>>
    /\ wpc = "done" \/ (pending[1].mode = "send" /\ disconnect)
    /\ returned' = returned \union {pending[1].msg} /\ pending' = <<>>
    /\ UNCHANGED <<outbuf, inbuf, disconnect, wpc, whand, rpc, rhand, wire,
                   eof, arrived, held, unsent, received, sawNone>>

Recv ==
    /\ held /\ inbuf # <<>>
    /\ received' = received \o inbuf /\ inbuf' = <<>>
    /\ UNCHANGED <<outbuf, disconnect, wpc, whand, rpc, rhand, wire, eof,
                   arrived, held, pending, unsent, returned, sawNone>>

RecvNone ==
    /\ held /\ inbuf = <<>> /\ rpc = "done"
    /\ sawNone' = TRUE
    /\ UNCHANGED <<outbuf, inbuf, disconnect, wpc, whand, rpc, rhand, wire,
                   eof, arrived, held, pending, unsent, returned, received>>

CallClose ==
    /\ held
    /\ disconnect' = TRUE
    /\ UNCHANGED <<outbuf, inbuf, wpc, whand, rpc, rhand, wire, eof, arrived,
                   client>>

\* The last clone is dropped: outgoing_sender and incoming_receiver go.
Drop ==
    /\ held /\ pending = <<>>
    /\ held' = FALSE
    /\ UNCHANGED <<outbuf, inbuf, disconnect, wpc, whand, rpc, rhand, wire,
                   eof, arrived, pending, unsent, returned, received, sawNone>>

-----------------------------------------------------------------------------
(* The write loop: disconnect, then a message, then the ping timeout.      *)

reader == <<inbuf, rpc, rhand, eof, arrived>>

\* Every way out of the loop ends in the clean-up's send_replace(true).
WLeave == wpc' = "closing" /\ disconnect' = TRUE

\* Mutant: the select does not prefer the disconnect.
WTakeUnbiased ==
    /\ wpc = "select" /\ outbuf # <<>>
    /\ wpc' = "sending" /\ whand' = outbuf /\ outbuf' = <<>>
    /\ UNCHANGED <<disconnect, wire, reader, client>>

WTake ==
    /\ wpc = "select" /\ ~disconnect /\ outbuf # <<>>
    /\ wpc' = "sending" /\ whand' = outbuf /\ outbuf' = <<>>
    /\ UNCHANGED <<disconnect, wire, reader, client>>

WSent ==
    /\ wpc = "sending" /\ eof # "close"
    /\ wpc' = "select" /\ wire' = wire \o whand /\ whand' = <<>>
    /\ UNCHANGED <<outbuf, disconnect, reader, client>>

\* The message was moved into the call that failed: nothing has it any more.
\* (whand keeps it, so that the properties can name it.)
WSendError ==
    /\ wpc = "sending" /\ WLeave
    /\ UNCHANGED <<outbuf, whand, wire, reader, client>>

WPing ==
    /\ wpc = "select" /\ ~disconnect /\ outbuf = <<>> /\ held
    /\ wpc' = "pinging"
    /\ UNCHANGED <<outbuf, whand, disconnect, wire, reader, client>>

WPingSent ==
    /\ wpc = "pinging" /\ eof # "close"
    /\ wpc' = "select"
    /\ UNCHANGED <<outbuf, whand, disconnect, wire, reader, client>>

WPingError ==
    /\ wpc = "pinging" /\ WLeave
    /\ UNCHANGED <<outbuf, whand, wire, reader, client>>

\* Mutant: the write loop waits for the read loop before it stops.
WDisconnectedAfterReader ==
    /\ wpc = "select" /\ disconnect /\ rpc = "done" /\ WLeave
    /\ UNCHANGED <<outbuf, whand, wire, reader, client>>

WDisconnected ==
    /\ wpc = "select" /\ disconnect /\ WLeave
    /\ UNCHANGED <<outbuf, whand, wire, reader, client>>

\* Mutant: the closed channel does not end the loop.
WAllDroppedGoesOn ==
    wpc = "select" /\ ~disconnect /\ outbuf = <<>> /\ ~held /\ UNCHANGED vars

\* No handle is left: recv() on the outgoing channel fails once it is empty.
WAllDropped ==
    /\ wpc = "select" /\ ~disconnect /\ outbuf = <<>> /\ ~held /\ WLeave
    /\ UNCHANGED <<outbuf, whand, wire, reader, client>>

\* write_ws.close() completed, well or not; the task returns and with it
\* goes the receiver of the outgoing channel.
WReturn ==
    /\ wpc = "closing"
    /\ wpc' = "done"
    /\ UNCHANGED <<outbuf, whand, disconnect, wire, reader, client>>

-----------------------------------------------------------------------------
(* The read loop: the stream, then disconnect.                             *)

writer == <<outbuf, wpc, whand, wire>>

RLeave == rpc' = "done" /\ rhand' = <<>> /\ disconnect' = TRUE

\* The stream yields an item other than a ping or a pong (those are swallowed
\* and change nothing).  The send to the incoming channel completes at once,
\* blocks, or fails because no handle is left.
RRead(kind) ==
    LET item == [kind |-> kind, id |-> arrived + 1] IN
    /\ rpc = "select" /\ eof = "no" /\ arrived < MaxIn
    /\ arrived' = arrived + 1
    /\ \/ /\ held /\ inbuf = <<>>
          /\ inbuf' = <<item>> /\ eof' = LastOf(kind)
          /\ UNCHANGED <<rpc, rhand, disconnect>>
       \/ /\ held /\ inbuf # <<>>
          /\ rpc' = "forward" /\ rhand' = <<item>> /\ eof' = LastOf(kind)
          /\ UNCHANGED <<inbuf, disconnect>>
       \/ /\ ~held
          /\ RLeave /\ UNCHANGED <<inbuf, eof>>
    /\ UNCHANGED <<writer, client>>

RForward ==
    /\ rpc = "forward" /\ held /\ inbuf = <<>>
    /\ inbuf' = rhand /\ rhand' = <<>> /\ rpc' = "select"
    /\ UNCHANGED <<disconnect, eof, arrived, writer, client>>

RForwardError ==
    /\ rpc = "forward" /\ ~held /\ RLeave
    /\ UNCHANGED <<inbuf, eof, arrived, writer, client>>

REndOfStream ==
    /\ rpc = "select" /\ eof # "no" /\ RLeave
    /\ UNCHANGED <<inbuf, eof, arrived, writer, client>>

\* Mutant: a disconnect also ends the wait for room in the incoming channel.
RDisconnectedInForward ==
    /\ rpc \in {"select", "forward"} /\ disconnect /\ RLeave
    /\ UNCHANGED <<inbuf, eof, arrived, writer, client>>

RDisconnected ==
    /\ rpc = "select" /\ disconnect /\ RLeave
    /\ UNCHANGED <<inbuf, eof, arrived, writer, client>>

-----------------------------------------------------------------------------
Client ==
    \/ \E m \in Msg, mode \in Mode : Send(m, mode)
    \/ SendCompletes \/ SendFails \/ Recv \/ RecvNone \/ CallClose \/ Drop

WriteLoop ==
    \/ WTake \/ WSent \/ WSendError
    \/ WPing \/ WPingSent \/ WPingError
    \/ WDisconnected \/ WAllDropped \/ WReturn

ReadLoop ==
    \/ \E kind \in Kind : RRead(kind)
    \/ RForward \/ RForwardError \/ REndOfStream \/ RDisconnected

Next == Client \/ WriteLoop \/ ReadLoop

\* The runtime polls a task that can go on, and the network ends a write one
\* way or the other.  When a message arrives is up to the peer, when the ping
\* timeout passes does not matter, and the client owes nothing.
Fairness ==
    /\ WF_vars(WTake) /\ WF_vars(WSent \/ WSendError)
    /\ WF_vars(WPingSent \/ WPingError)
    /\ WF_vars(WDisconnected) /\ WF_vars(WAllDropped) /\ WF_vars(WReturn)
    /\ WF_vars(RForward) /\ WF_vars(RForwardError)
    /\ WF_vars(REndOfStream) /\ WF_vars(RDisconnected)

SafeSpec == Init /\ [][Next]_vars
Spec == SafeSpec /\ Fairness
=============================================================================
