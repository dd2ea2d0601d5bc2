# fpd in TLA+

Models, model checking runs and proofs about the Fiberplane daemon (`fpd`): a
process that keeps a WebSocket to a relay open, checks the state of its data
sources, and answers the relay's requests by calling WebAssembly providers, which
two of its commands put in place. Paths below are relative to `src/` of the repository.

## 1. The system

| Component | State | Operations | Interacts with |
|---|---|---|---|
| `WebSocketKeepAlive` (`tasks/tokio_tungstenite_reconnect/websocket_keepalive.rs`) | two channels of one place, a watch value `disconnect`, a write loop and a read loop | `new`, `send`, `recv`, `close`, `is_connected`, drop of the last clone | the socket below it, its user through the channels |
| `ReconnectingWebSocket` (`.../reconnecting_websocket.rs`) | `Inner`: channels outgoing, incoming and retry of one place, watch values `close` and `disconnect`; for each connection a read loop and a write loop | `connect`, `send`, `recv`, `close`, `is_connected`, drop of the last clone | one `WebSocketKeepAlive` per connection; the loops of old and new connections share `Inner` |
| `ProxyService::connect` (`tasks/service.rs`) | main loop, checker task, sender task, a task per request, `data_sources_state`, an unbounded outgoing queue, the shutdown channel | see the actions of `Daemon` | the `ReconnectingWebSocket`, the providers, the SIGINT handler of `main.rs` |
| `DataSourceCheckTask` (`tasks/service/status_check.rs`) | retries left, next delay | `new`, `next` | the checker task |
| Health and metrics server (`service.rs` 752-812, `metrics.rs`) | none | `GET /health`, `/metrics` | `is_connected()`, the prometheus registry |
| Providers (`service/bindings.rs`, `load_wasm_modules`) | a module or an error for each provider | invoke and four more calls | the handlers |
| Provider manager (`tasks/provider_manager.rs`) | files in a directory of providers | `pull`, `build_providers` | processes of their own; the daemon reads the directory when it starts |
| Command line and start (`cli.rs`, `main.rs`, `runtime.rs`) | none | parsing, reading the configuration | starts `ProxyService` |

The runtime is `#[tokio::main(flavor = "current_thread")]`: tasks interleave at
their awaits and never in between. Only the SIGINT handler is a thread of its own.

What is hard here:

- a connection that is lost is replaced by its own read loop, while the write
  loop of the old connection may still run, wait in a send, or hold a message;
- the loops of all connections share one `disconnect` value, and a watch channel
  shows a receiver only the latest value;
- `select_biased!` gives every loop an order of preference, and a loop that
  waits in a send sees nothing else;
- messages that could not be sent are queued again, in a channel of one place;
- `close()`, the drop of the last clone, a Close frame and a fault can all come
  at any moment, together;
- the main loop makes a new receiver of the shutdown channel in every turn;
- the list of data sources sent to the relay comes from a map that checks and
  retries fill one at a time;
- retries of one round of checks must not run into the next round;
- the commands write the providers one file after the other, in place and without a
  lock: they may fail in between, or run beside each other and the daemon's start.

What makes the parts correct: one connection at a time is served, by two loops or
by none; a message is written at most once and items arrive in order; loops end
when they should and the socket's life is the one its user is told (`Session`);
the relay's picture of the data sources is complete, current and final; every
request is answered once; retries stay within their interval; a message that was taken is
written or lost with a connection (`Delivery`); what was pulled is what is run.

## 2. The modules

| Module | What it is |
|---|---|
| `Link` | one connection as a record and the steps that change it; no variables |
| `LinkSpec` | what a connection promises, as a specification over that record |
| `KeepAlive` | `websocket_keepalive.rs`, one action for what a task does between two awaits |
| `KeepAliveProps`, `MCKeepAlive` | its properties, `LinkSpec` among them; the instance for TLC |
| `KeepAliveProofs` | proofs about it, and that it implements `LinkSpec` |
| `Session` | the life of a socket as its user is told it: connecting, up, ended |
| `ReconnectingWebSocket` | `reconnecting_websocket.rs`; each connection is a record of `Link` |
| `Delivery` | the fate of the messages: kept until written, lost only with a connection |
| `RWSProps`, `MCRWS` | its properties, `Session` and `Delivery` among them; the instances |
| `RWSProofs`, `LoopProofs` | proofs about it: its types; its loops and `Session` |
| `MessageProofs`, `ItemProofs` | proofs about it: its messages and `Delivery`; the items that come in |
| `Daemon` | `ProxyService::connect`, its tasks, the handlers and SIGINT; the socket is `Session` |
| `DaemonProps`, `MCDaemon` | its properties; the instances |
| `DaemonProofs` | proofs about it |
| `StatusChecks`, `MCStatusChecks` | `DataSourceCheckTask` and the checker, with time |
| `StatusChecksProofs` | proofs about it |
| `Providers`, `MCProviders` | `provider_manager.rs` and the start of the daemon, over the directories of providers |
| `ProvidersProofs` | proofs about it |

So the parts compose in three steps. `KeepAlive` implements `LinkSpec` (checked; its safety
proved as well), and `ReconnectingWebSocket` uses `Link` in its place, with the same steps
(`LinkFetch` ... `LinkEnd`). `ReconnectingWebSocket` implements `Session` (checked and
proved), and `Daemon` uses `Session` in its place. It also implements `Delivery` (checked and proved).
`Providers` stands beside them: it ends where `Daemon` begins, with `Failed`, the data sources whose
module could not be loaded.

### KeepAlive

`wpc`, `rpc` are the places where the loops wait: `"select"`, in a send (`"sending"`,
`"pinging"`, `"forward"`), in the clean-up (`"closing"`), or `"done"`. `whand` and `rhand`
are the locals they hold there. The order of the branches of a `select_biased!` is
in the guards: `WTake` wants `~disconnect` since that branch comes first. A client sends with
`send()` or on `outgoing_sender` directly, as `ReconnectingWebSocket` does (25-28). The
socket is what its user sees of it: a write ends well (`WSent`) or not (`WSendError`);
the stream yields items and ends after a Close frame or an error. After a failed write `whand`
keeps the message that the code has moved away, so that properties can speak of it.

### ReconnectingWebSocket

Every connection `c` has `rpc[c]`, `rhold[c]` and `wpc[c]`, `whold[c]`, and one record
`conn[c]`. `rpc[t]` is also where task `t` is inside `connect()`: the application is
task 0, and the read loop of `c` is task `c`. A poll of a task may be several actions, for a
loop goes round until every branch is pending: `polled` names the loop that is in the
middle of one, and the others wait (`Runs`, `Quiet`). `rchanged[c]`, `wchanged[c]` say that the
watch value `disconnected` was sent since the loop last looked; a receiver cloned from `Inner`'s
own starts with a change to see when one was ever sent, hence they are set for
connections to come as well. The loops hold `Inner` by a `Weak` (274, 349): `Alive` says that
somebody still owns it. The channels' other ends are held by the loops too, which
is why `retry` never closes.

Two facts about the runtime are used: tasks that are spawned one after the other
are polled first in that order (258-259), so a write loop does not select before its read loop
started; and a connection attempt that waits for the network lets what is ready run
first (`Dial`). Both are stated at the definitions.

### Daemon

`main` is where the main task is inside `connect()`. From `SpawnChecker` to `MainSubscribe` it does
not await, so the other tasks act only while it waits at its select (`Idle`); `Signal` alone
may happen in between. A receiver of the shutdown channel is `"none"`, `"waiting"` or
`"sent"`. `states` is the map `data_sources_state`, with `"unknown"` for a key that is not there.
`checking` holds the checks that `join_all` (or a retry) waits for, `delayed` the retries that sleep in
tasks of their own, `retryQueue` those that came back. `handed` is a history of what the socket
accepted. `SenderSent` may or may not happen when the socket is not up, for a message may find
room in the socket's channel. The receiver of the outgoing queue belongs to the sender's task (292-296): when the sender stops, what is
queued is lost (`SenderShutdown`), and from then on the queue takes nothing (`Push`). The checker goes on without noticing (239, 259, 280), and a
handler ends in an error (`Answered`, 419-421).

`"doomed"` is a checker whose interval is zero: tokio's `interval()` panics in its task (229), and the other
tasks go on without it (`CheckerPanics`).

### StatusChecks

Time is a natural number of units of 1/16 s, in which all delays of ten seconds times
a power of 1.5 (up to the fifth retry) are whole, and jumps to the next moment at
which something happens (`Moments`, `Advance`). `Log` is the logarithm of
`DataSourceCheckTask::new` in whole numbers: the greatest `k` whose `k` delays fit the
interval; `MaxExponent` is where TLC stops to look for it, and `LogExists` proves that it is never too early. A delay that is
not whole is rounded down. `Power` is a recursive function, so that it can be proved about. `deadline` is not in the code; it is the end of `total_checks_duration`.

### Providers

`files[d][n]` is the file of provider `n` in directory `d`, which is the one given by `--wasm-dir`, `./providers`
(`"local"`) or the canonical one: by which command it was written, and whether it is whole. Content is left
out, for nothing in the code looks at it before the daemon compiles it. A command is `"fetching"` until its archive
is complete in memory or built, then goes through the entries: `Skip` passes over what is not `.wasm`
(in a zip nothing is), `Open` and `Written` are the two ends of one `unpack`, `fs::write` or `fs::copy`. `Fail` may
happen anywhere, and is also the process being killed. `at` counts the entries that are done. The commands and the daemon are
processes: every action of one may come between two of another. Two that write one file leave any
outcome (`Written`); `met` and `quiet` are histories that tell the properties when that may have happened. The modules are read in any
order, as `join_all` does, each in one step.

### Delivery

`fate` of a message: `"unsent"`; `"kept"` while `send()` waits, in a channel, with a write loop, in the retry channel, or with
a connection that is open; `"written"` to a socket; `"lost"` in the channel or the hands of a connection that ended;
`"refused"` by a closed socket. `ended` is the set of connections that ended. `Lose` takes any number of kept messages at once, since
a connection that ends takes what it had accepted with it; so does a message that a closing connection still
accepts. `RWSProps!Fate` is the refinement mapping.

## 3. The runs

Passing:

| Run | Properties | Instance, and why it is enough |
|---|---|---|
| `MCKeepAlive` | type; `IncomingInOrder`; `FailedSendIsNotSent`; `ImplementsLink`; both loops stop | 2 messages and 3 items: the outgoing and the incoming channel are full with another one waiting |
| `RWSConnections` | type; `SingleReader`; `OnlyRequeueStalls`; `ImplementsSession` | 3 messages, 3 connections, 1 retry, 1 fault, 1 Close frame (`Arriving`): success and failure of the first connect and of a reconnect, with the write loop of the old connection in a send beside the new one. One connection breaks and the other is closed by the peer, each with a message to queue again and the retry channel full with the first. The exception `StuckRequeue` of the properties takes three messages and is reached here; nothing else waits for ever |
| `RWSMessages` | `LiveWriter`, `ConnectedIsServed`, `AtMostOnce`, `ImplementsDelivery`, `FlushedWithoutFaults`, `BrokenIsLeft`, `CloseStopsAll`, `DropStopsAll` | 2 messages, 2 connections, 2 faults: both connections break, a message is lost with one or given back to the next, and the write loop of the old one waits in a send, or queues its message again, beside the new one's when `close()` or the drop comes |
| `RWSStops` | `IncomingInOrder`, `BrokenIsLeft`, `CloseStopsAll`, `DropStopsAll` | an application that receives, 1 message, 2 items (data or a reset, which ends the connection: `Arriving`), 2 connections: a read loop waits for room in the incoming channel, on either connection, open or broken, when `close()` or the drop comes, with a write loop in a send beside it; items of two connections follow each other |
| `DaemonSafety` | type; `RelayIsUpToDate`, `OfflineIsFinal`, `ListsAreComplete`, `AnsweredOnce`, `GaugeCountsCalls` | 2 data sources, one failed to load, 2 ticks with a retry each, 1 request, 1 signal: a retry of the first round returns during or after the second |
| `DaemonAnswers` | `RequestIsAnswered`, `RetryIsMade` | 1 data source, 1 tick, 1 retry, 1 request, 1 signal, 2 connections, 1 retry of the socket: the request comes beside checks and retries, or after the checker panicked. An answer is only promised while the socket stays up; retries are, whatever it does |
| `MCProviders` | type; `PullSettles`, `DamageIsBounded`, `LoadedIsPulled` | 2 providers, 2 commands, archives of both providers, of one, and of one beside a file that is none: a second command after a first that failed, or beside it, and the daemon started and stopped at any moment |
| `ChecksInTime` | type; `NoRetryPastDuration`, `OneSeries` | 2 data sources, the default interval of 5 min, checks of 0 s or 20 s, 11 min |

Deadlock is not checked: the instances stop when their bounds (`MaxConn`, `MaxIn`, `MaxFaults`,
`MaxTicks`, `MaxSignals`, `Horizon`) are used up or the daemon has ended; that nothing stops
earlier is what the liveness properties say. In `Providers` everything may stop: commands fail and nobody has to start one. The bounds count what the environment may
do (items, faults, ticks, signals) and how many connections are opened; `Arriving` bounds the kinds of items a peer sends
and is all of them but in `RWSStops` and `RWSConnections`. `MaxRetries` is the program's own `max_retries`.

Violated: each of these states what a comment, a document or a test says and the
code does not do. The traces were read and are behaviours of the code.

| Run | Property | What happens |
|---|---|---|
| `RWSCloseFrame` | `CloseFrameEndsRecv` | after a Close frame `recv()` waits for ever (193-194 against 293-297) |
| `RWSCloseRace` | `NoReconnectAfterClose` | `close()` stops the write loop, which makes the read loop reconnect |
| `RWSStuck` | `NeverStuckRequeue` | two messages to queue again, one place, nobody left to take one |
| `DaemonSigint` | `SigintEndsDaemon` | a signal and a message are ready together: the main loop takes the message and drops its receiver with the signal in it; the checker and the sender stop, the daemon goes on |

Other limits of the code that the models show and no run is kept for:

- The `disconnect` value belongs to the socket and not to a connection: a write loop that ends late, after the next
  connection started and reset the value, makes the read loop of the healthy connection leave it and reconnect
  (`reconnecting_websocket.rs` 408; `WLeave` sends to every `rchanged`).
- For the same reason order is not kept across connections: a message that an old write loop gives back (379) is written
  after newer ones that the next connection sent.
- `fpd pull` does not look for `./providers`, and the daemon prefers it (`main.rs` 60): what was pulled is not what is
  run from such a directory. `LoadedIsPulled` names the case.
- Two commands at once may both report success over a file that is neither's: nothing locks the directory. A daemon that
  starts meanwhile may run a mix of old and new providers, or fail on a torn one.
- With an interval of zero the daemon answers requests and never tells the relay its data sources (`service.rs` 229).
- Messages in the outgoing channel of a connection, or in its write loop, are lost when it
  breaks (`websocket_keepalive.rs` 128-132; the ignored test
  `does_not_lose_outgoing_messages_if_connection_drops`). `FlushedWithoutFaults` is the promise that is left.
- The message that the data sources go offline may never be sent, or not even queued (`service.rs` 263, 280): the main loop sees the
  same signal as the checker and the sender and returns without waiting for either, and the process ends with `connect()` (`main.rs` 148).
- A signal between two turns of the main loop, from the end of one receiver to the next `subscribe()`, reaches the checker and the
  sender and not the main loop, as in `DaemonSigint`; so does one during the start (`SpawnChecker` to `MainSubscribe`).
- What the sender has not taken when it stops is lost, requests' answers too (`service.rs` 307-310). `RelayIsUpToDate` and `AnsweredOnce` say
  until when nothing is lost.
- While the incoming channel is full, `close()` closes nothing: the read loop waits at
  `reconnecting_websocket.rs` 306 until somebody receives. `BrokenIsLeft` and `CloseStopsAll` need an application that receives (`RecvSpec`) for this
  reason in `RWSStops`; in `RWSMessages` no item comes and it is not needed.
- `is_connected()` (223) is true before the first connection is open and after the first `connect()` failed: `ConnectedIsServed`
  speaks of sockets that were connected once.
- A write loop that waits in a send while the disconnect value goes true and back to false
  misses it and stays with an abandoned connection beside the loops of the next (390).
- `update_all_data_sources` passes the whole interval (682): with checks of 30 s, a retry starts after the next round
  is due. `ChecksInTime` holds for checks of up to 20 s.

## 4. Fairness

- `KeepAlive`, `ReconnectingWebSocket`: weak fairness of every step of a loop, for the runtime
  polls a task that can go on. A write ends one way or the other
  (`WSent \/ WSendError`), an attempt to connect ends, a backoff passes. Nothing is assumed of the peer, of
  faults, of pings, or of the application, except that a `send()` that can complete does. `RecvSpec`
  adds an application that keeps receiving, as `ProxyService` does.
- `Daemon`: strong fairness for the checker, the sender, the handlers and `MainShutdown`. In the model the
  other tasks are disabled while main is between two selects, again and again; the runtime polls them
  in between all the same. `tokio::select!` picks at random among
  ready branches, so each is taken some time. Nothing is assumed of the relay, the user, or the network.
- The abstract fairness of `LinkSpec` is implied by the one of `KeepAlive` and is part of what `MCKeepAlive` checks.

## 5. What is proved

With TLAPS, for every value of the constants under their named assumptions:

| Module | Assumptions |
|---|---|
| `ReconnectingWebSocket` | `MaxConnIsPositive`, `MaxInIsNat`, `MaxRetriesIsNat`, `MaxFaultsIsNat`, `ArrivingAreKinds`; `Msg` is any set |
| `KeepAlive` | `MaxInIsNat`; `Msg` is any set |
| `Daemon` | `SomeDataSource`, `DataSourcesAreFinite`, `FailedAreDataSources`, `BoundsAreNat`; `Request` is any set |
| `StatusChecks` | `Positive` and `Growing`, which the documentation of `DataSourceCheckTask` demands; `TimesAreNat` |
| `Providers` | `MaxCommandsIsNat`, `ArchivesHoldEntries`: any archives, with repeated entries too |

Every safety property that a passing run checks is proved but for `OnlyRequeueStalls`, and so is every refinement but for the fairness in `ImplementsLink`:

| Theorem | States |
|---|---|
| `RWSProofs!TypeCorrect` | `SafeSpec => []TypeOK` |
| `LoopProofs!OneReader` | `SafeSpec => []SingleReader` |
| `LoopProofs!WriterLives` | `SafeSpec => []LiveWriter` |
| `LoopProofs!ConnectedMeansServed` | `SafeSpec => []ConnectedIsServed` |
| `LoopProofs!SessionImplemented` | `SafeSpec => ImplementsSession` |
| `MessageProofs!WrittenOnce` | `SafeSpec => []AtMostOnce` |
| `MessageProofs!Delivers` | `SafeSpec => ImplementsDelivery` |
| `ItemProofs!ReceivedInOrder` | `SafeSpec => []IncomingInOrder` |
| `KeepAliveProofs!TypeCorrect` | `SafeSpec => []TypeOK` |
| `KeepAliveProofs!NothingSkipped` | `SafeSpec => []IncomingInOrder` |
| `KeepAliveProofs!FailedIsNotSent` | `SafeSpec => []FailedSendIsNotSent` |
| `KeepAliveProofs!LinkImplemented` | `SafeSpec => L!LSafety`, which is `ImplementsLink` without its fairness |
| `DaemonProofs!TypeCorrect` | `SafeSpec => []TypeOK` |
| `DaemonProofs!NoneLeftOut` | `SafeSpec => []ListsAreComplete` |
| `DaemonProofs!RelayKnows` | `SafeSpec => []RelayIsUpToDate` |
| `DaemonProofs!GoodbyeIsLast` | `SafeSpec => []OfflineIsFinal` |
| `DaemonProofs!OneAnswer` | `SafeSpec => []AnsweredOnce` |
| `DaemonProofs!MetricIsRight` | `SafeSpec => []GaugeCountsCalls` |
| `StatusChecksProofs!TypeCorrect` | `Spec => []TypeOK` |
| `StatusChecksProofs!RetriesInTime` | `Spec => []NoRetryPastDuration`, when checks take no time |
| `StatusChecksProofs!SeriesAlone` | `Spec => []OneSeries`, when checks take no time |
| `ProvidersProofs!TypeCorrect` | `Spec => []TypeOK` |
| `ProvidersProofs!PullRepairs` | `Spec => []PullSettles` |
| `ProvidersProofs!OneFileDamaged` | `Spec => []DamageIsBounded` |
| `ProvidersProofs!PulledIsLoaded` | `Spec => []LoadedIsPulled` |

### The loops of ReconnectingWebSocket

`TypeOK` is not inductive alone: that the number of attempts stays within `MaxRetries` needs
that only a task with attempts left waits for its backoff (`Counted`), and that what is sent is a message
needs that a write loop that sends holds one (`Holding`). `TypeInv` adds both. The lemmas about the
steps of `Link` are in front of it; `TypeNext` has one step for each action.

`Loops` is the inductive invariant of the other four. `Order`: read loops end in the order in which
they are spawned, and the latest is the only one that may run or connect. `Started`: a write loop
has not moved while its read loop has not started. `Told`: from the end of a read loop to the start of the
next the disconnect value is true. With `LiveWriter` these are preserved together: `Started` is what keeps the reset
of the disconnect value (`RStart`) from hiding that the write loop has gone, and `Order` says that there is no other read
loop to hide it from. `LoopStep` sorts the steps of `Next` by what they do to the loops, once
for the invariant and once for the refinement of `Session`. The refinement maps `ConnectOk` to `Establish`,
`BackoffOver` to `Retry`, the failed attempts to `GiveUp` or a stutter, the end of a read loop to `Lose` or
`Finish`, and all else to stutters.

### Its messages and its items

`Messages` is the invariant behind `AtMostOnce`. The places of a message (`Place`) are a function from the queues, the hands
and the connections to sequences, and `Once` says that nothing is in it twice. It is preserved because every step moves one message
from one place to another, takes one in, or moves none: `MessageStep` sorts the steps of `Next` in these three kinds
(`Goes`, `Enters`, `Still`), and a lemma for each kind does the rest for both theorems. It needs that what comes in is new
(`Fresh`: a message that was not sent is nowhere) and that a write loop has something in its hands only while it sends it or
gives it back (`Emptyhanded`: else `WTake` would overwrite a message). `Delivers` reads the same steps as steps of `Delivery`: where a message
is decides its fate, so a move within the socket keeps it, one to the wire writes it, and the end of a connection loses
what is in its channel.

`Items` does the same for what comes in. The items stand in a line of five: received, in the incoming channel, held by the read loop,
in the channel of the latest connection, in the hand of its own read loop. Along the line the ids grow up to `arrived`
(`InLine`). A step moves an item up past nothing, lets a later one join, or drops whole parts of the line, as leaving a
connection does (`LineStep`). It rests on `Loops`, for only the latest connection is read, and on `HeldBack`: a
read loop has an item in hand only while it forwards it.

### KeepAlive

`Hands`, beside `TypeOK`, ties what the loops hold to where they are. With it every
action is one step of `Link` on the record of the refinement mapping, or none: `Connection` is that record, and `NextConnection` says how
it changes field by field. `Apart` is what `FailedSendIsNotSent` needs: a message is not sent yet, waits in a `send()`, was taken by the
connection (channel, hand of the write loop, wire), or was returned, and only one of these.
`IncomingInOrder` is inductive with `TypeOK` and `Hands`: the three places an item passes through are read as one sequence, which a step
leaves alone or appends to.

### Daemon

`Told` is inductive. `Stages` says what cannot be before the tasks start: no check before the first tick, no message in the hands of a sender that
does not send. `Complete` adds to `ListsAreComplete` that from the first tick on a data source is known or being checked; `Final` that
a checker which said goodbye has stopped; `Current` that while the checker rests, and the sender has not stopped, the last list is `states`.
`Replied` says of each request in which place of the queue its answer is: one if its handler finished, or none if the sender stopped as well; none
otherwise.
What is queued for the relay, `Queued`, is the messages handed over, the one being sent and the ones that wait, in that order. Sending moves
a message within it; `RelayStep` sorts the steps of `Next` by what else they do to it (`Quietly` nothing,
`Checked` a list with the last check of a round, `Goodbye` the offline message, `Answers` a reply, `Closes` the loss of
its end when the sender stops). A part that stays, from the front, is as complete, as final and as free of double answers as the whole was
(`Shortened`); that a finished handler's answer is there, and that the last list is current, are no longer claimed once the sender
has gone, and a queue that is closed grows no more. Where a message of a type is, there is a last one (`LastExists`, from the library's
theorem that `<` is well-founded).
`Counted` has the gauge and the finite sets it counts, for
which `DataSourcesAreFinite` is needed: they are the names of a configuration file.

### StatusChecks

`Timed` says that nothing that is due has been passed: the next moment is the least of the
moments (`MinIs`). The other two theorems are the guarantee in the documentation of `DataSourceCheckTask::new` (22-28), under the
assumption which that documentation makes: "assuming a try takes a negligible amount of time" (`Instant`). That assumption cannot be dropped (section 3,
last point of the limits), and the run `ChecksInTime` shows how much time there is with the defaults. `InTime` bounds the
delay of a check and the time since the first one by the geometric series and its sum, with whole numbers and delays rounded down. It is
preserved from a check to its retry (`NextInTime`); and since the retries are one less than the logarithm, the sum of all
delays is strictly less than the interval (`BeforeInterval`). Hence a check is always before the next tick (`InRound`), nothing of a
round is left when the next begins (`TickAlone`), and what is pending for a data source is alone (`Alone`).

The recursion of `Power`, the existence of the logarithm (`Bernoulli`, `TooMany`, `LogExists`) and that fewer delays fit when more do
(`RetriesFit`) are inductions over the numbers. They are made without the induction rule, whose operator parameter
cannot be instantiated: a set that has 0 and the successor of each of its members has every number, because the numbers that are not in it
would have a least one (`AllOfNat`, from the library's theorem that `<` is well-founded).

### Providers

`Providers` has an invariant of its own, `Inv`. `Order` is what its types need: a command that has not its archive yet
has none, so the count cannot be past it. `Beside` ties the history `met` to the commands: while one runs, every
other that met none is over and began earlier (`Unmet`). So a step of a command can take a file from an older one
and never spoils one of a later (`StepOthers`), and what a command has placed stays (`Placed`) but for the file in its hands, which is
its own (`Alone`) and the only one it can leave torn (`Damage`). `Authors` bounds who can have written a file, which
with `Undisturbed` (what the daemon has read is what is there) gives `PulledIsLoaded`.

### Only model-checked

- Everything with liveness, for fairness and ENABLED are out of the prover's reach: `DisconnectStopsWriteLoop`,
  `DropStopsBothLoops`, the fairness in `ImplementsLink`, `BrokenIsLeft`, `CloseStopsAll`, `DropStopsAll`, `FlushedWithoutFaults`,
  `RequestIsAnswered`, `RetryIsMade`.
- `OnlyRequeueStalls`, an invariant that speaks of ENABLED.
- `NoRetryPastDuration` and `OneSeries` for checks that take time: they hold for some times and not for others.

## 6. What is not modelled

- The parsing of arguments (`cli.rs`), of the status check interval among them (103-118), the configuration file, logging: sequential
  code before the first task exists, which keeps no state. `bindings.rs` converts data.
- Which release, branch or artifact is fetched (`provider_manager.rs` 109-158, 271-294), and what GitHub, cargo or the file
  system answer: an archive or a failure. The content of a provider's file.
- The HTTP server: it has no state; `ConnectedIsServed` says what its answer means.
- The contents of requests and answers, and the WebAssembly runtime: outcomes.
- The overflow of the backoff's exponent (`reconnecting_websocket.rs` 171, from the 58th retry on; `max_retries` is 10 by
  default): in a debug build the panic ends the read loop as giving up does, which `ConnectFail` has; in a release build the
  delay is zero, and the models of the socket have no time.
- A panic in a provider call, which would leave the gauge up.
- f32 arithmetic in `DataSourceCheckTask::new`: the logarithm is exact in the model, so that a quotient that f32 rounds up to a whole number is not covered.

## 7. Plan

1. `Daemon` over a socket that keeps and loses messages as `Delivery` says, for what the relay really learns, and the proof that it
   refines the `Daemon` there is.
2. Proofs: action properties of the life of the socket's watches; a bound on the time checks may take from which `RetriesInTime` still follows.
