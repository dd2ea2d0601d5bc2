------------------------------- MODULE Daemon -------------------------------
(***************************************************************************)
(* ProxyService::connect (tasks/service.rs), the tasks it spawns and the   *)
(* SIGINT handler of main.rs:                                              *)
(*                                                                         *)
(*   main     receives requests from the relay, spawns a handler for each  *)
(*   checker  checks the data sources, queues what the relay is to know    *)
(*   sender   takes the queued messages and sends them                     *)
(*   SIGINT   a thread of its own, tells the three of them to stop         *)
(*                                                                         *)
(* The websocket is the abstract one of Session, which the loops of        *)
(* ReconnectingWebSocket implement.  The runtime has one thread: a task    *)
(* runs when the others wait, which for main is in connect() or at its     *)
(* select.  Only the SIGINT handler runs beside them.                      *)
(***************************************************************************)
EXTENDS Naturals, FiniteSets, SequencesExt

CONSTANTS
    DataSource,   \* the names in data_sources.yaml
    Failed,       \* the ones whose provider's module could not be loaded
    Request,      \* the messages the relay sends, each once
    CheckRetries, \* the retries DataSourceCheckTask::new allows
    MaxRetries,   \* Session
    MaxConn,      \* bound: how many connections are opened
    MaxTicks,     \* bound: how many times the status check interval passes
    MaxSignals    \* bound: how many times SIGINT is received

\* Without data sources there is nothing to check and the checker rests.
ASSUME SomeDataSource == DataSource # {}
ASSUME DataSourcesAreFinite == IsFiniteSet(DataSource)
ASSUME FailedAreDataSources == Failed \subseteq DataSource
ASSUME BoundsAreNat ==
    {CheckRetries, MaxRetries, MaxConn, MaxTicks, MaxSignals} \subseteq Nat

VARIABLES
    main,           \* the task of main.rs, inside connect()
    shutdown,       \* the receivers of the shutdown channel
    signals,        \* SIGINTs received
    checker,
    checking,       \* the checks the checker waits for
    delayed,        \* retries that sleep in a task of their own
    retryQueue,     \* retries that wait for the checker
    ticks,
    states,         \* data_sources_state
    outgoing,       \* what the sender is to send, unbounded
    sender, sending,
    handed,         \* what the websocket accepted, in order
    handler,        \* the handler of each request
    gauge,          \* the metric CONCURRENT_QUERIES
    phase, tries, opened

session == <<phase, tries, opened>>
checks  == <<checker, checking, delayed, retryQueue, ticks, states>>
sends   == <<sender, sending, handed>>
vars    == <<main, shutdown, signals, checks, outgoing, sends, handler, gauge,
             session>>

\* tick tells the retries of one status check interval from another's; the
\* code has no such number.
Task     == [ds : DataSource, left : 0..CheckRetries, tick : 1..MaxTicks]
Receiver == {"main", "checker", "sender"}
Known    == {"connected", "error"}
States   == [DataSource -> Known \union {"unknown"}]

\* What the daemon sends: the state of the data sources (the map holds the
\* known ones), all of them as disconnected, or the answer to a request.
Message ==
    [type : {"sources"}, states : States] \union [type : {"offline"}]
        \union [type : {"response"}, to : Request]
Sources  == [type |-> "sources", states |-> states']
Offline  == [type |-> "offline"]
Reply(r) == [type |-> "response", to |-> r]

Running == {"connecting", "connected", "checks", "subscribe", "select"}
Exits   == {"ok", "error", "killed"}

TypeOK ==
    /\ main \in Running \union Exits
    /\ shutdown \in [Receiver -> {"none", "waiting", "sent"}]
    /\ signals \in 0..MaxSignals
    /\ checker \in {"none", "doomed", "select", "checking", "stopped"}
    /\ checking \subseteq Task
    /\ delayed \subseteq Task
    /\ retryQueue \in Seq(Task)
    /\ ticks \in 0..MaxTicks
    /\ states \in States
    /\ outgoing \in Seq(Message) /\ handed \in Seq(Message)
    /\ sender \in {"none", "select", "sending", "stopped"}
    /\ sending \in Seq(Message) /\ Len(sending) <= 1
    /\ handler \in [Request -> {"none", "spawned", "invoking", "done", "failed"}]
    /\ gauge \in Nat
    /\ phase \in {"connecting", "up", "ended"}
    /\ tries \in 0..MaxRetries /\ opened \in 0..MaxConn

WS == INSTANCE Session

Init ==
    /\ main = "connecting"
    /\ shutdown = [t \in Receiver |-> "none"] /\ signals = 0
    /\ checker = "none" /\ checking = {} /\ delayed = {} /\ retryQueue = <<>>
    /\ ticks = 0 /\ states = [d \in DataSource |-> "unknown"]
    /\ outgoing = <<>> /\ sender = "none" /\ sending = <<>> /\ handed = <<>>
    /\ handler = [r \in Request |-> "none"] /\ gauge = 0
    /\ WS!Init

\* The other tasks of the runtime get to run.
Idle == main = "select"

\* What the tasks queue for the relay.  The sender owns the receiving end: once
\* it has gone a send fails, which the checker ignores and a handler does not.
Push(m) == IF sender = "stopped" THEN outgoing ELSE Append(outgoing, m)

\* How a handler ends that has an answer.
Answered == IF sender = "stopped" THEN "failed" ELSE "done"

-----------------------------------------------------------------------------
(* SIGINT: with no receiver the process exits, else each of them gets it.  *)

Signal ==
    /\ main \in Running /\ signals < MaxSignals
    /\ signals' = signals + 1
    /\ IF \A t \in Receiver : shutdown[t] = "none"
         THEN main' = "killed" /\ UNCHANGED shutdown
         ELSE /\ shutdown' = [t \in Receiver |->
                                IF shutdown[t] = "none" THEN "none" ELSE "sent"]
              /\ UNCHANGED main
    /\ UNCHANGED <<checks, outgoing, sends, handler, gauge, session>>

Subscribe(t)   == shutdown' = [shutdown EXCEPT ![t] = "waiting"]
Unsubscribe(t) == shutdown' = [shutdown EXCEPT ![t] = "none"]

-----------------------------------------------------------------------------
(* The websocket.                                                          *)

\* The first connection, which main waits for.
Connected ==
    /\ main = "connecting" /\ opened < MaxConn /\ WS!Establish
    /\ main' = "connected"
    /\ UNCHANGED <<shutdown, signals, checks, outgoing, sends, handler, gauge>>

NotConnected ==
    /\ main = "connecting" /\ WS!GiveUp
    /\ main' = "error"
    /\ UNCHANGED <<shutdown, signals, checks, outgoing, sends, handler, gauge>>

\* What the loops do while main waits.  Nobody calls close(): the session is
\* finished by a Close frame.
Reconnects ==
    /\ main \in {"connecting", "select"}
    /\ \/ WS!Retry
       \/ Idle /\ opened < MaxConn /\ WS!Establish
       \/ Idle /\ (WS!GiveUp \/ WS!Lose \/ WS!Finish)
    /\ UNCHANGED <<main, shutdown, signals, checks, outgoing, sends, handler,
                   gauge>>

-----------------------------------------------------------------------------
(* main.                                                                   *)

\* The relay returned no connection id, or the listen address is taken.
StartFails ==
    /\ main = "connected"
    /\ main' = "error"
    /\ UNCHANGED <<shutdown, signals, checks, outgoing, sends, handler, gauge,
                   session>>

\* With an interval of zero ("0s") the checker is doomed.
SpawnChecker ==
    /\ main = "connected"
    /\ main' = "checks" /\ checker' \in {"select", "doomed"} /\ Subscribe("checker")
    /\ UNCHANGED <<signals, checking, delayed, retryQueue, ticks, states,
                   outgoing, sends, handler, gauge, session>>

SpawnSender ==
    /\ main = "checks"
    /\ main' = "subscribe" /\ sender' = "select" /\ Subscribe("sender")
    /\ UNCHANGED <<signals, checks, outgoing, sending, handed, handler, gauge,
                   session>>

\* A new receiver for every turn of the loop: what was sent before is lost.
MainSubscribe ==
    /\ main = "subscribe"
    /\ main' = "select" /\ Subscribe("main")
    /\ UNCHANGED <<signals, checks, outgoing, sends, handler, gauge, session>>

\* The turn ends, its receiver is dropped: a request, or a message that is
\* ignored (not binary, or not a ServerMessage).
Receive(r) ==
    /\ main = "select" /\ handler[r] = "none"
    /\ handler' = [handler EXCEPT ![r] = "spawned"]
    /\ main' = "subscribe" /\ Unsubscribe("main")
    /\ UNCHANGED <<signals, checks, outgoing, sends, gauge, session>>

Ignore ==
    /\ main = "select"
    /\ main' = "subscribe" /\ Unsubscribe("main")
    /\ UNCHANGED <<signals, checks, outgoing, sends, handler, gauge, session>>

\* An error other than a reset without closing handshake.
ReceiveError ==
    /\ main = "select"
    /\ main' = "error" /\ Unsubscribe("main")
    /\ UNCHANGED <<signals, checks, outgoing, sends, handler, gauge, session>>

MainShutdown ==
    /\ main = "select" /\ shutdown["main"] = "sent"
    /\ main' = "ok" /\ Unsubscribe("main")
    /\ UNCHANGED <<signals, checks, outgoing, sends, handler, gauge, session>>

-----------------------------------------------------------------------------
(* The checker.  Its select takes any branch that is ready.                *)

\* A check of a data source whose module failed ends before the metric.
InvokedBy(tasks) == Cardinality({t \in tasks : t.ds \notin Failed})

\* tokio's interval() panics: the task is gone and the others go on.
CheckerPanics ==
    /\ Idle /\ checker = "doomed"
    /\ checker' = "stopped" /\ Unsubscribe("checker")
    /\ UNCHANGED <<main, signals, checking, delayed, retryQueue, ticks, states,
                   outgoing, sends, handler, gauge, session>>

Tick ==
    /\ Idle /\ checker = "select" /\ ticks < MaxTicks
    /\ ticks' = ticks + 1
    /\ LET all == {[ds |-> d, left |-> CheckRetries, tick |-> ticks + 1] : d \in DataSource}
       IN  checking' = all /\ gauge' = gauge + InvokedBy(all)
    /\ checker' = "checking"
    /\ UNCHANGED <<main, shutdown, signals, delayed, retryQueue, states,
                   outgoing, sends, handler, session>>

\* Mutant: the queued task is taken and nothing is done with it.
RetryIgnored ==
    /\ Idle /\ checker = "select" /\ retryQueue # <<>>
    /\ retryQueue' = Tail(retryQueue)
    /\ UNCHANGED <<main, shutdown, signals, checker, checking, delayed, ticks,
                   states, outgoing, sends, handler, gauge, session>>

Retry ==
    /\ Idle /\ checker = "select" /\ retryQueue # <<>>
    /\ retryQueue' = Tail(retryQueue)
    /\ checking' = {Head(retryQueue)}
    /\ gauge' = gauge + InvokedBy({Head(retryQueue)})
    /\ checker' = "checking"
    /\ UNCHANGED <<main, shutdown, signals, delayed, ticks, states, outgoing,
                   sends, handler, session>>

\* After the last check the relay is to know the state of every data source.
\* Mutants: it is told after every check; it is not told after a retry.
ReportEach(t)  == Push(Sources)
ReportTicks(t) ==
    IF checking' = {} /\ t.left = CheckRetries THEN Push(Sources) ELSE outgoing
Report(t) == IF checking' = {} THEN Push(Sources) ELSE outgoing

\* One check ends: a failed one sleeps until its retry, if it has one left.
CheckDone(t, ok) ==
    /\ Idle /\ t \in checking
    /\ ok => t.ds \notin Failed
    /\ checking' = checking \ {t}
    /\ checker' = IF checking' = {} THEN "select" ELSE checker
    /\ gauge' = gauge - InvokedBy({t})
    /\ states' = [states EXCEPT ![t.ds] = IF ok THEN "connected" ELSE "error"]
    /\ delayed' = IF ok \/ t.left = 0 THEN delayed
                  ELSE delayed \union {[t EXCEPT !.left = @ - 1]}
    /\ outgoing' = Report(t)
    /\ UNCHANGED <<main, shutdown, signals, retryQueue, ticks, sends, handler,
                   session>>

\* Mutant: the checker goes on after it said goodbye.
CheckerShutdownGoesOn ==
    /\ Idle /\ checker = "select" /\ shutdown["checker"] = "sent"
    /\ outgoing' = Push(Offline)
    /\ Unsubscribe("checker")
    /\ UNCHANGED <<main, signals, checker, checking, delayed, retryQueue, ticks,
                   states, sends, handler, gauge, session>>

CheckerShutdown ==
    /\ Idle /\ checker = "select" /\ shutdown["checker"] = "sent"
    /\ outgoing' = Push(Offline)
    /\ checker' = "stopped" /\ retryQueue' = <<>> /\ Unsubscribe("checker")
    /\ UNCHANGED <<main, signals, checking, delayed, ticks, states, sends,
                   handler, gauge, session>>

\* The delay of a retry is over; without the checker its queue is closed.
DelayOver(t) ==
    /\ Idle /\ t \in delayed
    /\ delayed' = delayed \ {t}
    /\ retryQueue' = IF checker = "stopped" THEN retryQueue
                                            ELSE Append(retryQueue, t)
    /\ UNCHANGED <<main, shutdown, signals, checker, checking, ticks, states,
                   outgoing, sends, handler, gauge, session>>

-----------------------------------------------------------------------------
(* The sender.                                                             *)

\* Mutant: the message stays in the queue while it is sent.
SenderPeek ==
    /\ Idle /\ sender = "select" /\ outgoing # <<>>
    /\ sending' = <<Head(outgoing)>>
    /\ sender' = "sending"
    /\ UNCHANGED <<main, shutdown, signals, checks, outgoing, handed, handler,
                   gauge, session>>

SenderTake ==
    /\ Idle /\ sender = "select" /\ outgoing # <<>>
    /\ sending' = <<Head(outgoing)>> /\ outgoing' = Tail(outgoing)
    /\ sender' = "sending"
    /\ UNCHANGED <<main, shutdown, signals, checks, handed, handler, gauge,
                   session>>

\* The websocket accepts the message: its channel has room.  That is so as
\* long as it is up and writes, and may be so when it is not.
SenderSent ==
    /\ Idle /\ sender = "sending"
    /\ handed' = handed \o sending /\ sending' = <<>>
    /\ sender' = "select"
    /\ UNCHANGED <<main, shutdown, signals, checks, outgoing, handler, gauge,
                   session>>

\* What is still queued is lost with the receiver.
SenderShutdown ==
    /\ Idle /\ sender = "select" /\ shutdown["sender"] = "sent"
    /\ sender' = "stopped" /\ outgoing' = <<>> /\ Unsubscribe("sender")
    /\ UNCHANGED <<main, signals, checks, sending, handed, handler, gauge,
                   session>>

-----------------------------------------------------------------------------
(* The handler of a request; without a sender it ends in an error.         *)

\* A request without an operation id has no answer.
HandleNoId(r) ==
    /\ Idle /\ handler[r] = "spawned"
    /\ handler' = [handler EXCEPT ![r] = "failed"]
    /\ UNCHANGED <<main, shutdown, signals, checks, outgoing, sends, gauge,
                   session>>

\* Mutant: the early returns count a call down that was not counted up.
HandleAtOnceUncounted(r) ==
    /\ Idle /\ handler[r] = "spawned"
    /\ handler' = [handler EXCEPT ![r] = Answered]
    /\ gauge' = gauge - 1
    /\ outgoing' = Push(Reply(r))
    /\ UNCHANGED <<main, shutdown, signals, checks, sends, session>>

\* Another protocol version, an unknown data source or a module that failed to
\* load are answered with an error; create_cells, extract_data and
\* get_config_schema run to their end without waiting.
HandleAtOnce(r) ==
    /\ Idle /\ handler[r] = "spawned"
    /\ handler' = [handler EXCEPT ![r] = Answered]
    /\ outgoing' = Push(Reply(r))
    /\ UNCHANGED <<main, shutdown, signals, checks, sends, gauge, session>>

\* invoke and get_supported_query_types wait for the provider.
HandleInvoke(r) ==
    /\ Idle /\ handler[r] = "spawned"
    /\ handler' = [handler EXCEPT ![r] = "invoking"]
    /\ gauge' = gauge + 1
    /\ UNCHANGED <<main, shutdown, signals, checks, outgoing, sends, session>>

\* Mutants: a call that ended is not counted down; its answer is not sent.
HandleReturnCounted(r) ==
    /\ Idle /\ handler[r] = "invoking"
    /\ handler' = [handler EXCEPT ![r] = Answered]
    /\ outgoing' = Push(Reply(r))
    /\ UNCHANGED <<main, shutdown, signals, checks, sends, gauge, session>>
HandleReturnSilently(r) ==
    /\ Idle /\ handler[r] = "invoking"
    /\ handler' = [handler EXCEPT ![r] = "done"]
    /\ gauge' = gauge - 1
    /\ UNCHANGED <<main, shutdown, signals, checks, outgoing, sends, session>>

HandleReturn(r) ==
    /\ Idle /\ handler[r] = "invoking"
    /\ handler' = [handler EXCEPT ![r] = Answered]
    /\ gauge' = gauge - 1
    /\ outgoing' = Push(Reply(r))
    /\ UNCHANGED <<main, shutdown, signals, checks, sends, session>>

-----------------------------------------------------------------------------
Start   == StartFails \/ SpawnChecker \/ SpawnSender \/ MainSubscribe
Checker == CheckerPanics \/ Tick \/ Retry \/ CheckerShutdown
CheckEnds == \E t \in checking, ok \in BOOLEAN : CheckDone(t, ok)
Sender  == SenderTake \/ SenderShutdown
Handler(r) ==
    HandleNoId(r) \/ HandleAtOnce(r) \/ HandleInvoke(r) \/ HandleReturn(r)

Next ==
    \/ Signal \/ Connected \/ NotConnected \/ Reconnects
    \/ Start \/ Ignore \/ ReceiveError \/ MainShutdown
    \/ \E r \in Request : Receive(r) \/ Handler(r)
    \/ Checker \/ CheckEnds
    \/ \E t \in delayed : DelayOver(t)
    \/ Sender \/ SenderSent

SafeSpec == Init /\ [][Next]_vars

\* The runtime polls what can go on, a delay passes, a provider answers, and a
\* select whose branches are ready takes each some time.  Main's turns disable
\* the other tasks again and again, but the runtime polls those in between:
\* hence strong fairness.  The relay, the user and the network owe nothing:
\* there is none for Signal, Receive, or the websocket.
Fairness ==
    /\ WF_vars(Start) /\ SF_vars(MainShutdown)
    /\ SF_vars(Checker) /\ SF_vars(CheckEnds)
    /\ SF_vars(\E t \in delayed : DelayOver(t))
    /\ SF_vars(Sender) /\ SF_vars(phase = "up" /\ SenderSent)
    /\ \A r \in Request : SF_vars(Handler(r))

Spec == SafeSpec /\ Fairness
=============================================================================
