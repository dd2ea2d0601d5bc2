--------------------------- MODULE KeepAliveProps ---------------------------
(***************************************************************************)
(* What is checked of KeepAlive.                                           *)
(***************************************************************************)
EXTENDS KeepAlive

ReceivedIds(s) == [i \in DOMAIN s |-> s[i].id]

\* Every item the stream yielded is, in the order of arrival, one the client
\* received, the one in the incoming channel or the one the read loop holds,
\* as long as the client keeps a handle: a disconnect that races a full
\* channel neither drops nor reorders what was read (read loop, 168-203).
IncomingInOrder ==
    held => ReceivedIds(received \o inbuf \o rhand) = [i \in 1..arrived |-> i]

\* A message whose send failed was not sent and will not be: the reason why
\* ReconnectingWebSocket may queue it for another connection (25-28).
FailedSendIsNotSent ==
    \A m \in returned : m \notin ToSet(wire \o whand \o outbuf)

\* The loops, the channels and the watch value together keep the promise of
\* LinkSpec, its fairness included, when a write that hangs ends some time.
L == INSTANCE LinkSpec WITH
       held <- held,
       link <- [phase  |-> CASE wpc = "done"    -> "closed"
                             [] wpc = "closing" -> "broken"
                             [] OTHER           -> "open",
                out    |-> outbuf,
                busy   |-> whand,
                wire   |-> wire,
                inbuf  |-> inbuf,
                hand   |-> rhand,
                inOpen |-> rpc # "done",
                eof    |-> eof]
ImplementsLink == L!LSpec

\* close(), or a loop that leaves, stops the write loop; the Close frame is
\* part of its clean-up (95-101, 149-153).
DisconnectStopsWriteLoop == disconnect ~> wpc = "done"

\* Once no handle is left both tasks end, even when the read loop is blocked
\* on a full incoming channel at that moment.
DropStopsBothLoops == ~held ~> (wpc = "done" /\ rpc = "done")
=============================================================================
