-------------------------------- MODULE Link --------------------------------
(***************************************************************************)
(* One connection as ReconnectingWebSocket sees it: the two bounded        *)
(* channels of a WebSocketKeepAlive and the two tasks behind them, reduced *)
(* to a record and the steps that change it.                               *)
(*                                                                         *)
(* This module has no variables.  LinkSpec makes a specification of it     *)
(* (what a connection promises), KeepAlive implements that specification   *)
(* in the detail of websocket_keepalive.rs, and ReconnectingWebSocket      *)
(* keeps one such record for every connection it opens.                    *)
(***************************************************************************)
EXTENDS Naturals, Sequences

CONSTANTS
    Msg,        \* the messages the client sends, each sent once
    MaxIn       \* bound: how many items arrive

ASSUME MaxInIsNat == MaxIn \in Nat

SeqUpTo(S, n) == {s \in Seq(S) : Len(s) <= n}

\* What the socket's stream yields: a message, an error (the error
\* ResetWithoutClosingHandshake apart from the others), or a Close frame.
\* id numbers the items in the order of their arrival.
Kind == {"data", "reset", "error", "close"}
Item == [kind : Kind, id : 1..MaxIn]

\* out     the outgoing channel
\* busy    the message the write loop took out of it and is writing
\* phase   "open"    the write loop is in its loop
\*         "broken"  it left the loop: the channel still accepts a message,
\*                   and nothing will ever take it out again
\*         "closed"  the write loop returned: the channel has no receiver
\* wire    written to the socket
\* inbuf   the incoming channel
\* hand    the item the read loop could not put there yet
\* inOpen  the read loop still runs: the incoming channel has a sender
\* eof     the stream yielded its last item, and which kind it was
LinkState ==
    [phase  : {"open", "broken", "closed"},
     out    : SeqUpTo(Msg, 1),
     busy   : SeqUpTo(Msg, 1),
     wire   : Seq(Msg),
     inbuf  : SeqUpTo(Item, 1),
     hand   : SeqUpTo(Item, 1),
     inOpen : BOOLEAN,
     eof    : {"no", "close", "error"}]

NewLink ==
    [phase |-> "open", out |-> <<>>, busy |-> <<>>, wire |-> <<>>,
     inbuf |-> <<>>, hand |-> <<>>, inOpen |-> TRUE, eof |-> "no"]

-----------------------------------------------------------------------------
(* What the client does: each step is a guard and the state it leads to.   *)

\* outgoing_sender.send(m) completes: there is room, and a receiver
CanAccept(l)  == l.phase # "closed" /\ l.out = <<>>
Accept(l, m)  == [l EXCEPT !.out = <<m>>]

\* incoming_receiver.recv() completes with an item
CanTake(l)    == l.inbuf # <<>>
Take(l)       == [l EXCEPT !.inbuf = <<>>]

\* incoming_receiver.recv() completes with an error: recv() returns None
AtEnd(l)      == l.inbuf = <<>> /\ ~l.inOpen

-----------------------------------------------------------------------------
(* What the connection does by itself.                                     *)

\* The write loop looks at the disconnect value before it takes a message.
CanFetch(l)   == l.phase = "open" /\ l.inOpen /\ l.busy = <<>> /\ l.out # <<>>
Fetch(l)      == [l EXCEPT !.busy = l.out, !.out = <<>>]

\* After the peer's Close frame the socket refuses to write.
CanWrite(l)   == l.phase = "open" /\ l.busy # <<>> /\ l.eof # "close"
Write(l)      == [l EXCEPT !.busy = <<>>, !.wire = @ \o l.busy]

\* A write fails, or the read loop ended, or the last handle was dropped.
\* The message that was being written stays in busy: it is lost.
CanBreak(l)   == l.phase = "open"
Break(l)      == [l EXCEPT !.phase = "broken"]

CanClose(l)   == l.phase = "broken"
Close(l)      == [l EXCEPT !.phase = "closed"]

CanArrive(l, held) == held /\ l.inOpen /\ l.hand = <<>> /\ l.eof = "no"
LastOf(kind)  == CASE kind = "data"  -> "no"
                   [] kind = "close" -> "close"
                   [] OTHER          -> "error"
Arrive(l, i)  ==
    [l EXCEPT !.eof   = LastOf(i.kind),
              !.inbuf = IF @ = <<>> THEN <<i>> ELSE @,
              !.hand  = IF l.inbuf = <<>> THEN <<>> ELSE <<i>>]

CanPush(l)    == l.hand # <<>> /\ l.inbuf = <<>>
Push(l)       == [l EXCEPT !.inbuf = l.hand, !.hand = <<>>]

\* The read loop returns: from its select when the stream ended or the write
\* loop stopped, and from a blocked send when no handle is left.
CanEnd(l, held) ==
    /\ l.inOpen
    /\ IF l.hand = <<>> THEN l.eof # "no" \/ l.phase # "open" ELSE ~held
End(l)        == [l EXCEPT !.inOpen = FALSE, !.hand = <<>>]

\* With no handle left, it notices when an item arrives.
CanRefuse(l, held) == ~held /\ l.inOpen /\ l.hand = <<>> /\ l.eof = "no"

\* It also returns from its select because the client called close().
CanStop(l)    == l.inOpen /\ l.hand = <<>>

\* The write loop, back in its select, leaves: the read loop told it to, or no
\* handle is left and there is nothing to write.
MustBreak(l, held) ==
    /\ CanBreak(l) /\ l.busy = <<>>
    /\ ~l.inOpen \/ (~held /\ l.out = <<>>)

\* A write fails without a new fault: the stream has ended.
WriteFails(l) == CanBreak(l) /\ l.busy # <<>> /\ l.eof # "no"
=============================================================================
