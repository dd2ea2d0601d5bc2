----------------------- MODULE ReconnectingWebSocket -----------------------
(***************************************************************************)
(* ReconnectingWebSocket (tasks/tokio_tungstenite_reconnect/               *)
(* reconnecting_websocket.rs).  Every connection c has a read loop and a   *)
(* write loop, tasks of their own over the WebSocketKeepAlive conn[c];     *)
(* they share the channels and the watch values of Inner with the loops of *)
(* the connections before it and with the application.                     *)
(*                                                                         *)
(* A read loop that ends for a reason other than a close calls connect()   *)
(* itself, so it is also the task that opens connection c + 1.             *)
(*                                                                         *)
(* The runtime has one thread.  A task that is polled runs until every     *)
(* branch of its select is pending or its send blocks, so one poll may be  *)
(* several actions: polled names the loop that is in the middle of one,    *)
(* and nothing else happens until it yields.  The two loops of a           *)
(* connection are spawned one after the other and the runtime polls new    *)
(* tasks in that order, so a read loop runs before its write loop does.    *)
(***************************************************************************)
EXTENDS Link, SequencesExt

CONSTANTS
    MaxConn,      \* bound: how many connections are opened
    MaxRetries,   \* Builder::max_retries
    MaxFaults,    \* bound: how many times the network breaks a connection
    Arriving      \* bound: the kinds of items the peer sends

ASSUME MaxConnIsPositive == MaxConn \in Nat \ {0}
ASSUME MaxRetriesIsNat   == MaxRetries \in Nat
ASSUME MaxFaultsIsNat    == MaxFaults \in Nat
ASSUME ArrivingAreKinds  == Arriving \subseteq Kind

Conn == 1..MaxConn
Task == 0..MaxConn      \* 0 is the application in its own connect()

VARIABLES
    user,                \* some clone of the ReconnectingWebSocket exists
    unsent, sending,     \* messages not sent yet; the send() that is blocked
    received, sawNone,   \* the items recv() returned; it returned None
    closed,              \* Inner's close watch value
    disconnected,        \* Inner's disconnect watch value
    outgoing, retry,     \* Inner's channels, bounded(1) each
    incoming,
    nconn, conn,         \* the connections opened so far
    rpc, attempt,        \* read loops and connect(): the number of attempts
    rhold, rchanged,     \* what the read loop forwards; the disconnect value
                         \* was sent since it last looked
    wpc, whold, wchanged,
    polled,              \* the loop that is in the middle of a poll
    arrived, faults

app     == <<user, unsent, sending, received, sawNone>>
watches == <<closed, disconnected, rchanged, wchanged>>
rloops  == <<rpc, attempt, rhold>>
wloops  == <<wpc, whold>>
queues  == <<outgoing, retry, incoming>>
links   == <<nconn, conn, arrived, faults>>
vars    == <<app, watches, queues, links, rloops, wloops, polled>>

ReadLoopState  == {"idle", "spawned", "select", "forward",
                   "connecting", "handshake", "backoff", "done"}
WriteLoopState == {"idle", "select", "sending", "requeue", "done"}

R(c)   == [loop |-> "read", conn |-> c]
W(c)   == [loop |-> "write", conn |-> c]
Nobody == [loop |-> "none", conn |-> 0]

TypeOK ==
    /\ user \in BOOLEAN
    /\ unsent \subseteq Msg
    /\ sending \in SeqUpTo(Msg, 1)
    /\ received \in Seq(Item) /\ sawNone \in BOOLEAN
    /\ closed \in BOOLEAN /\ disconnected \in BOOLEAN
    /\ outgoing \in SeqUpTo(Msg, 1) /\ retry \in SeqUpTo(Msg, 1)
    /\ incoming \in SeqUpTo(Item, 1)
    /\ nconn \in Task
    /\ conn \in [Conn -> LinkState]
    /\ rpc \in [Task -> ReadLoopState]
    /\ attempt \in [Task -> 0..MaxRetries]
    /\ rhold \in [Conn -> SeqUpTo(Item, 1)]
    /\ rchanged \in [Conn -> BOOLEAN]
    /\ wpc \in [Conn -> WriteLoopState]
    /\ whold \in [Conn -> SeqUpTo(Msg, 1)]
    /\ wchanged \in [Conn -> BOOLEAN]
    /\ polled \in [loop : {"read", "write", "none"}, conn : Task]
    /\ arrived \in 0..MaxIn
    /\ faults \in 0..MaxFaults

Init ==
    /\ user = TRUE /\ unsent = Msg /\ sending = <<>>
    /\ received = <<>> /\ sawNone = FALSE
    /\ closed = FALSE /\ disconnected = FALSE
    /\ outgoing = <<>> /\ retry = <<>> /\ incoming = <<>>
    /\ nconn = 0 /\ conn = [c \in Conn |-> NewLink]
    /\ rpc = [t \in Task |-> IF t = 0 THEN "connecting" ELSE "idle"]
    /\ attempt = [t \in Task |-> 0]
    /\ rhold = [c \in Conn |-> <<>>] /\ rchanged = [c \in Conn |-> FALSE]
    /\ wpc = [c \in Conn |-> "idle"]
    /\ whold = [c \in Conn |-> <<>>] /\ wchanged = [c \in Conn |-> FALSE]
    /\ polled = Nobody
    /\ arrived = 0 /\ faults = 0

-----------------------------------------------------------------------------
\* Inner is alive: a clone exists, or a task is in connect() and holds one.
Connecting(t) == rpc[t] \in {"connecting", "handshake", "backoff"}
\* Mutant: the loops hold Inner by an Arc instead of a Weak.
AliveByLoops == user \/ \E t \in Task : rpc[t] \notin {"idle", "done"}

Alive == user \/ \E t \in Task : Connecting(t)

\* Mutant: Inner keeps a clone of the connection too.
HeldByInner(c) == rpc[c] # "done" \/ wpc[c] # "done" \/ user

\* The loops of c own clones of its WebSocketKeepAlive; the read loop keeps
\* its clone while it reconnects.
Held(c) == rpc[c] # "done" \/ wpc[c] # "done"

\* send_replace(value) on the disconnect watch: every receiver has a change
\* it has not seen.  A receiver that is cloned later starts from Inner's own,
\* which looks at no change, so the flags of connections to come are set too.
SendDisconnected(value) ==
    /\ disconnected' = value
    /\ rchanged' = [c \in Conn |-> TRUE]
    /\ wchanged' = [c \in Conn |-> TRUE]
    /\ UNCHANGED closed

\* Who may act, and whether its poll goes on.
Runs(loop)     == polled \in {Nobody, loop}
Quiet          == polled = Nobody /\ UNCHANGED polled
GoesOn(loop)   == polled' = loop
Yields         == polled' = Nobody

-----------------------------------------------------------------------------
(* The application: one task that sends and one that receives.             *)

Connected == user /\ rpc[0] = "done"

AppSend(m) ==
    /\ Quiet /\ Connected /\ sending = <<>> /\ m \in unsent
    /\ unsent' = unsent \ {m}
    /\ \/ closed /\ UNCHANGED <<sending, outgoing>>
       \/ ~closed /\ outgoing = <<>> /\ outgoing' = <<m>> /\ UNCHANGED sending
       \/ ~closed /\ outgoing # <<>> /\ sending' = <<m>> /\ UNCHANGED outgoing
    /\ UNCHANGED <<user, received, sawNone, watches, retry, incoming, links,
                   rloops, wloops>>

AppSendCompletes ==
    /\ Quiet /\ sending # <<>> /\ outgoing = <<>>
    /\ outgoing' = sending /\ sending' = <<>>
    /\ UNCHANGED <<user, unsent, received, sawNone, watches, retry, incoming,
                   links, rloops, wloops>>

\* recv() passes over ResetWithoutClosingHandshake errors.
AppRecv ==
    /\ Quiet /\ Connected /\ incoming # <<>>
    /\ received' = IF incoming[1].kind = "reset" THEN received
                                                 ELSE received \o incoming
    /\ incoming' = <<>>
    /\ UNCHANGED <<user, unsent, sending, sawNone, watches, outgoing, retry,
                   links, rloops, wloops>>

AppRecvNone ==
    /\ Quiet /\ Connected /\ incoming = <<>> /\ closed
    /\ sawNone' = TRUE
    /\ UNCHANGED <<user, unsent, sending, received, watches, queues, links,
                   rloops, wloops>>

AppClose ==
    /\ Quiet /\ Connected /\ ~closed
    /\ closed' = TRUE
    /\ UNCHANGED <<app, disconnected, rchanged, wchanged, queues, links,
                   rloops, wloops>>

AppDrop ==
    /\ Quiet /\ Connected /\ sending = <<>>
    /\ user' = FALSE
    /\ UNCHANGED <<unsent, sending, received, sawNone, watches, queues, links,
                   rloops, wloops>>

-----------------------------------------------------------------------------
(* connect(), in the application (t = 0) or in the read loop of t.         *)

\* The write loop of c would not yield at once if it were polled.
WReady(c) ==
    \/ wpc[c] = "select" /\ (wchanged[c] \/ retry # <<>> \/ outgoing # <<>>)
    \/ wpc[c] = "sending" /\ (conn[c].phase = "closed" \/ conn[c].out = <<>>)
    \/ wpc[c] = "requeue" /\ retry = <<>>

\* The attempt waits for the network a first time: whatever was ready when it
\* began has been polled by then, the write loop that was told to stop too.
Dial(t) ==
    /\ Quiet /\ rpc[t] = "connecting"
    /\ t \in Conn => ~WReady(t)
    /\ rpc' = [rpc EXCEPT ![t] = "handshake"]
    /\ UNCHANGED <<app, watches, queues, links, attempt, rhold, wloops>>

\* Mutant: the read loop that reconnected reads on.
ConnectOkReadsOn(t) ==
    /\ Quiet /\ rpc[t] = "handshake" /\ nconn < MaxConn
    /\ nconn' = nconn + 1
    /\ rpc' = [rpc EXCEPT ![t] = IF t = 0 THEN "done" ELSE "select",
                          ![nconn + 1] = "spawned"]
    /\ wpc' = [wpc EXCEPT ![nconn + 1] = "select"]
    /\ attempt' = [attempt EXCEPT ![t] = 0]
    /\ UNCHANGED <<app, watches, queues, conn, arrived, faults, rhold, whold>>

\* The attempt succeeds: the loops of a new connection are spawned, and the
\* task that called connect() goes on or, a read loop, returns.  The number of
\* attempts is a local of connect().
ConnectOk(t) ==
    /\ Quiet /\ rpc[t] = "handshake" /\ nconn < MaxConn
    /\ nconn' = nconn + 1
    /\ rpc' = [rpc EXCEPT ![t] = "done", ![nconn + 1] = "spawned"]
    /\ wpc' = [wpc EXCEPT ![nconn + 1] = "select"]
    /\ attempt' = [attempt EXCEPT ![t] = 0]
    /\ UNCHANGED <<app, watches, queues, conn, arrived, faults, rhold, whold>>

\* Mutants: one attempt too many; no bound on the attempts.
ConnectFailLate(t, clientError) ==
    /\ Quiet /\ rpc[t] = "handshake"
    /\ rpc' = [rpc EXCEPT ![t] = IF attempt[t] > MaxRetries \/ clientError
                                   THEN "done" ELSE "backoff"]
    /\ UNCHANGED <<app, watches, queues, links, attempt, rhold, wloops>>
ConnectFailNever(t, clientError) ==
    /\ Quiet /\ rpc[t] = "handshake"
    /\ rpc' = [rpc EXCEPT ![t] = IF clientError THEN "done" ELSE "backoff"]
    /\ UNCHANGED <<app, watches, queues, links, attempt, rhold, wloops>>

\* The attempt fails.  The last one, or an HTTP client error, ends connect().
ConnectFail(t, clientError) ==
    /\ Quiet /\ rpc[t] = "handshake"
    /\ rpc' = [rpc EXCEPT ![t] = IF attempt[t] = MaxRetries \/ clientError
                                   THEN "done" ELSE "backoff"]
    /\ UNCHANGED <<app, watches, queues, links, attempt, rhold, wloops>>

BackoffOver(t) ==
    /\ Quiet /\ rpc[t] = "backoff"
    /\ rpc' = [rpc EXCEPT ![t] = "connecting"]
    /\ attempt' = [attempt EXCEPT ![t] = @ + 1]
    /\ UNCHANGED <<app, watches, queues, links, rhold, wloops>>

Connect(t) ==
    \/ Dial(t) \/ ConnectOk(t)
    \/ \E clientError \in BOOLEAN : ConnectFail(t, clientError)
    \/ BackoffOver(t)

-----------------------------------------------------------------------------
(* The read loop of connection c: its select prefers the connection, then  *)
(* the disconnect value, then the close value.                             *)

\* Mutant: the read loop does not tell the write loop to stop.
RLeaveSilently(c, reconnect) ==
    /\ rhold' = [rhold EXCEPT ![c] = <<>>]
    /\ rpc' = [rpc EXCEPT ![c] = IF Alive /\ reconnect THEN "connecting"
                                                       ELSE "done"]
    /\ UNCHANGED watches
    /\ Yields
    /\ UNCHANGED <<app, queues, nconn, arrived, faults, attempt, wloops>>

\* "Tell the write loop to stop", then connect() unless the end was a close.
\* With Inner gone there is nobody to tell and nothing to reconnect.
RLeave(c, reconnect) ==
    /\ rhold' = [rhold EXCEPT ![c] = <<>>]
    /\ rpc' = [rpc EXCEPT ![c] = IF Alive /\ reconnect THEN "connecting"
                                                       ELSE "done"]
    /\ IF Alive THEN SendDisconnected(TRUE) ELSE UNCHANGED watches
    /\ Yields
    /\ UNCHANGED <<app, queues, nconn, arrived, faults, attempt, wloops>>

RStart(c) ==
    /\ Runs(R(c)) /\ rpc[c] = "spawned"
    /\ rpc' = [rpc EXCEPT ![c] = "select"]
    /\ IF Alive THEN SendDisconnected(FALSE) ELSE UNCHANGED watches
    /\ GoesOn(R(c))
    /\ UNCHANGED <<app, queues, links, attempt, rhold, wloops>>

\* An item other than a Close frame is forwarded, or blocks the loop when the
\* incoming channel is full.
RItem(c) ==
    /\ Runs(R(c)) /\ rpc[c] = "select" /\ CanTake(conn[c]) /\ Alive
    /\ conn[c].inbuf[1].kind # "close"
    /\ conn' = [conn EXCEPT ![c] = Take(@)]
    /\ \/ /\ incoming = <<>> /\ incoming' = conn[c].inbuf
          /\ GoesOn(R(c)) /\ UNCHANGED <<rpc, rhold>>
       \/ /\ incoming # <<>>
          /\ rpc' = [rpc EXCEPT ![c] = "forward"]
          /\ rhold' = [rhold EXCEPT ![c] = conn[c].inbuf]
          /\ Yields /\ UNCHANGED incoming
    /\ UNCHANGED <<app, watches, outgoing, retry, nconn, arrived, faults,
                   attempt, wloops>>

\* A Close frame, or an item that nobody is left to receive.
RCloseFrame(c) ==
    /\ Runs(R(c)) /\ rpc[c] = "select" /\ CanTake(conn[c])
    /\ conn[c].inbuf[1].kind = "close" \/ ~Alive
    /\ conn' = [conn EXCEPT ![c] = Take(@)]
    /\ RLeave(c, FALSE)

RForward(c) ==
    /\ Runs(R(c)) /\ rpc[c] = "forward" /\ Alive /\ incoming = <<>>
    /\ incoming' = rhold[c]
    /\ rhold' = [rhold EXCEPT ![c] = <<>>]
    /\ rpc' = [rpc EXCEPT ![c] = "select"]
    /\ GoesOn(R(c))
    /\ UNCHANGED <<app, watches, outgoing, retry, links, attempt, wloops>>

RForwardError(c) ==
    /\ Runs(R(c)) /\ rpc[c] = "forward" /\ ~Alive
    /\ RLeave(c, FALSE) /\ UNCHANGED conn

\* Mutant: the end of the connection is taken for the absence of an item.
REndIgnored(c) ==
    /\ Runs(R(c)) /\ rpc[c] = "select" /\ AtEnd(conn[c]) /\ GoesOn(R(c))
    /\ UNCHANGED <<app, watches, queues, links, rloops, wloops>>

REnd(c) ==
    /\ Runs(R(c)) /\ rpc[c] = "select" /\ AtEnd(conn[c])
    /\ RLeave(c, TRUE) /\ UNCHANGED conn

\* No item, and the connection has not ended.
RIdle(c) ==
    Runs(R(c)) /\ rpc[c] = "select" /\ ~CanTake(conn[c]) /\ ~AtEnd(conn[c])

RDisconnected(c) ==
    /\ RIdle(c) /\ rchanged[c] /\ disconnected
    /\ RLeave(c, TRUE) /\ UNCHANGED conn

RNotDisconnected(c) ==
    /\ RIdle(c) /\ rchanged[c] /\ ~disconnected
    /\ rchanged' = [rchanged EXCEPT ![c] = FALSE]
    /\ GoesOn(R(c))
    /\ UNCHANGED <<app, closed, disconnected, wchanged, queues, links, rloops,
                   wloops>>

\* close() was called, or Inner and the watch senders are gone.
RClosed(c) ==
    /\ RIdle(c) /\ ~rchanged[c] /\ (closed \/ ~Alive)
    /\ RLeave(c, FALSE) /\ UNCHANGED conn

\* Every branch is pending.
RWait(c) ==
    /\ polled = R(c) /\ RIdle(c) /\ ~rchanged[c] /\ ~closed /\ Alive
    /\ Yields
    /\ UNCHANGED <<app, watches, queues, links, rloops, wloops>>

ReadLoop(c) ==
    \/ RStart(c) \/ RItem(c) \/ RCloseFrame(c) \/ RForward(c)
    \/ RForwardError(c) \/ REnd(c)
    \/ RDisconnected(c) \/ RNotDisconnected(c) \/ RClosed(c) \/ RWait(c)

-----------------------------------------------------------------------------
(* The write loop of connection c: its select prefers a message to retry,  *)
(* then a new one, then the disconnect value, then the close value.        *)

\* Mutant: the write loop does not tell the read loop to stop.
WLeaveSilently(c) ==
    /\ wpc' = [wpc EXCEPT ![c] = "done"]
    /\ UNCHANGED watches
    /\ Yields
    /\ UNCHANGED <<app, outgoing, incoming, links, rloops>>

\* "Tell the read loop to stop".  The loop tells whichever read loop there is.
WLeave(c) ==
    /\ wpc' = [wpc EXCEPT ![c] = "done"]
    /\ IF Alive THEN SendDisconnected(TRUE) ELSE UNCHANGED watches
    /\ Yields
    /\ UNCHANGED <<app, outgoing, incoming, links, rloops>>

WSelect(c) == Runs(W(c)) /\ wpc[c] = "select" /\ rpc[c] # "spawned"

WTakeRetry(c) ==
    /\ WSelect(c) /\ retry # <<>>
    /\ retry' = <<>>
    /\ wpc' = [wpc EXCEPT ![c] = "sending"]
    /\ whold' = [whold EXCEPT ![c] = retry]
    /\ GoesOn(W(c))
    /\ UNCHANGED <<app, watches, outgoing, incoming, links, rloops>>

WTake(c) ==
    /\ WSelect(c) /\ retry = <<>> /\ outgoing # <<>>
    /\ outgoing' = <<>>
    /\ wpc' = [wpc EXCEPT ![c] = "sending"]
    /\ whold' = [whold EXCEPT ![c] = outgoing]
    /\ GoesOn(W(c))
    /\ UNCHANGED <<app, watches, retry, incoming, links, rloops>>

\* Mutant: a connection that is closing accepts the message, and it is queued
\* for the next one as well.
WSendAndRequeue(c) ==
    /\ Runs(W(c)) /\ wpc[c] = "sending" /\ CanAccept(conn[c])
    /\ conn' = [conn EXCEPT ![c] = Accept(@, whold[c][1])]
    /\ IF conn[c].phase = "open"
         THEN wpc' = [wpc EXCEPT ![c] = "select"]
              /\ whold' = [whold EXCEPT ![c] = <<>>]
         ELSE wpc' = [wpc EXCEPT ![c] = "requeue"] /\ UNCHANGED whold
    /\ GoesOn(W(c))
    /\ UNCHANGED <<app, watches, queues, nconn, arrived, faults, rloops>>

\* ws.outgoing_sender.send() completes, or gives the message back.
WSend(c) ==
    /\ Runs(W(c)) /\ wpc[c] = "sending" /\ CanAccept(conn[c])
    /\ conn' = [conn EXCEPT ![c] = Accept(@, whold[c][1])]
    /\ wpc' = [wpc EXCEPT ![c] = "select"]
    /\ whold' = [whold EXCEPT ![c] = <<>>]
    /\ GoesOn(W(c))
    /\ UNCHANGED <<app, watches, queues, nconn, arrived, faults, rloops>>

\* Mutant: the message that could not be sent is dropped.
WSendErrorDrops(c) ==
    /\ Runs(W(c)) /\ wpc[c] = "sending" /\ conn[c].phase = "closed"
    /\ wpc' = [wpc EXCEPT ![c] = "select"]
    /\ whold' = [whold EXCEPT ![c] = <<>>]
    /\ GoesOn(W(c))
    /\ UNCHANGED <<app, watches, queues, links, rloops>>

WSendError(c) ==
    /\ Runs(W(c)) /\ wpc[c] = "sending" /\ conn[c].phase = "closed"
    /\ wpc' = [wpc EXCEPT ![c] = "requeue"]
    /\ GoesOn(W(c))
    /\ UNCHANGED <<app, watches, queues, links, rloops, whold>>

\* Queueing the message for the next connection blocks while another write
\* loop's message waits there.
WRequeue(c) ==
    /\ Runs(W(c)) /\ wpc[c] = "requeue" /\ retry = <<>>
    /\ retry' = whold[c]
    /\ whold' = [whold EXCEPT ![c] = <<>>]
    /\ WLeave(c)

\* Mutant: the select prefers the watch values to a new message.
WIdleBeforeOutgoing(c) == WSelect(c) /\ retry = <<>>

WIdle(c) == WSelect(c) /\ retry = <<>> /\ outgoing = <<>>

\* The outgoing channel lost its sender, or the disconnect value is true, or,
\* with nothing new in the disconnect value, the close value is.
WStop(c) ==
    /\ WIdle(c)
    /\ IF Alive /\ wchanged[c] THEN disconnected ELSE closed \/ ~Alive
    /\ WLeave(c) /\ UNCHANGED <<retry, whold>>

WNotDisconnected(c) ==
    /\ WIdle(c) /\ Alive /\ wchanged[c] /\ ~disconnected
    /\ wchanged' = [wchanged EXCEPT ![c] = FALSE]
    /\ GoesOn(W(c))
    /\ UNCHANGED <<app, closed, disconnected, rchanged, queues, links, rloops,
                   wloops>>

\* Every branch is pending, or the send blocks.
WWait(c) ==
    /\ polled = W(c)
    /\ \/ WIdle(c) /\ Alive /\ ~wchanged[c] /\ ~closed
       \/ wpc[c] = "sending" /\ conn[c].phase # "closed" /\ conn[c].out # <<>>
       \/ wpc[c] = "requeue" /\ retry # <<>>
    /\ Yields
    /\ UNCHANGED <<app, watches, queues, links, rloops, wloops>>

WriteLoop(c) ==
    \/ WTakeRetry(c) \/ WTake(c) \/ WSend(c) \/ WSendError(c) \/ WRequeue(c)
    \/ WStop(c) \/ WNotDisconnected(c) \/ WWait(c)

-----------------------------------------------------------------------------
(* What the connections do by themselves: the steps of LinkSpec.           *)

LinkStep(c, l) ==
    /\ Quiet /\ c <= nconn
    /\ conn' = [conn EXCEPT ![c] = l]
    /\ UNCHANGED <<app, watches, queues, nconn, rloops, wloops>>

Arrival == arrived < MaxIn /\ arrived' = arrived + 1 /\ UNCHANGED faults

LinkFetch(c) ==
    CanFetch(conn[c]) /\ LinkStep(c, Fetch(conn[c])) /\ UNCHANGED <<arrived, faults>>

LinkWrite(c) ==
    CanWrite(conn[c]) /\ LinkStep(c, Write(conn[c])) /\ UNCHANGED <<arrived, faults>>

LinkFault(c) ==
    /\ CanBreak(conn[c]) /\ faults < MaxFaults
    /\ LinkStep(c, Break(conn[c]))
    /\ faults' = faults + 1 /\ UNCHANGED arrived

LinkBreak(c) ==
    /\ MustBreak(conn[c], Held(c)) \/ WriteFails(conn[c])
    /\ LinkStep(c, Break(conn[c])) /\ UNCHANGED <<arrived, faults>>

LinkClose(c) ==
    CanClose(conn[c]) /\ LinkStep(c, Close(conn[c])) /\ UNCHANGED <<arrived, faults>>

LinkArrive(c, kind) ==
    /\ CanArrive(conn[c], Held(c)) /\ Arrival
    /\ LinkStep(c, Arrive(conn[c], [kind |-> kind, id |-> arrived + 1]))

LinkRefuse(c) ==
    CanRefuse(conn[c], Held(c)) /\ Arrival /\ LinkStep(c, End(conn[c]))

LinkPush(c) ==
    CanPush(conn[c]) /\ LinkStep(c, Push(conn[c])) /\ UNCHANGED <<arrived, faults>>

LinkEnd(c) ==
    /\ CanEnd(conn[c], Held(c))
    /\ LinkStep(c, End(conn[c])) /\ UNCHANGED <<arrived, faults>>

-----------------------------------------------------------------------------
App ==
    \/ \E m \in Msg : AppSend(m)
    \/ AppSendCompletes \/ AppRecv \/ AppRecvNone \/ AppClose \/ AppDrop

LinkSteps(c) ==
    \/ LinkFetch(c) \/ LinkWrite(c) \/ LinkFault(c) \/ LinkBreak(c)
    \/ LinkClose(c) \/ LinkPush(c) \/ LinkEnd(c) \/ LinkRefuse(c)
    \/ \E kind \in Arriving : LinkArrive(c, kind)

Next ==
    \/ App
    \/ \E t \in Task : Connect(t)
    \/ \E c \in Conn : ReadLoop(c) \/ WriteLoop(c) \/ LinkSteps(c)

SafeSpec == Init /\ [][Next]_vars

\* The runtime polls every task that can go on; an attempt to connect ends
\* and a backoff passes; a connection keeps the promises of LinkSpec.
Fairness ==
    /\ \A t \in Task : WF_vars(Connect(t))
    /\ \A c \in Conn :
         /\ WF_vars(ReadLoop(c)) /\ WF_vars(WriteLoop(c))
         /\ WF_vars(LinkFetch(c)) /\ WF_vars(LinkWrite(c) \/ LinkBreak(c))
         /\ WF_vars(LinkClose(c)) /\ WF_vars(LinkPush(c)) /\ WF_vars(LinkEnd(c))
    /\ WF_vars(AppSendCompletes)

Spec == SafeSpec /\ Fairness

\* An application that keeps receiving, as ProxyService does.
RecvSpec == Spec /\ WF_vars(AppRecv) /\ WF_vars(AppRecvNone)
=============================================================================
