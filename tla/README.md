# SmoothOperator: a verification development

SmoothOperator is a daemon between RabbitMQ and Liquidsoap. It polls Liquidsoap
and publishes what is on air, and it takes commands from a queue and passes them
to Liquidsoap. Everything runs in one thread, on one libev loop; what makes it
hard is not threads but the outside: replies that arrive in pieces, connections
that go at any moment, a process that is killed or throws between two steps, a
broker that delivers again.

The specifications are translated from the source. Lines of code are given for
every definition in `PROJECT.json` ("map"); paths below are relative to the
repository.

## 1. Inventory

| Component | State it keeps | Operations | Hard because |
|---|---|---|---|
| Liquidsoap drivers, `src/drivers/liquidsoap_driver.cpp` (telnet and Unix socket) | `socket_fd_`, `backoff_ms_`, `last_connection_attempt_` | `execute`, `get_metadata`; inside: `connect`, `apply_backoff_delay`, `disconnect` | framing on a persistent stream connection, partial reads, errors in the middle of a reply, blocking reads |
| State manager, `src/core/state_manager.cpp`, `include/smoothoperator/state_manager.hpp` | `state_`: status, track, volume | `poll` (= `update_status`, then `update_metadata`), `handle_dj_command` | two requests per poll, changes in between, exceptions while publishing |
| Event bus, `src/drivers/rabbitmq_driver.cpp` | none | `publish` (`subscribe` is empty) | `dump()` throws on text that is not UTF-8 |
| Daemon, `src/main.cpp` | loop, channel, timer, signal watchers | passive declarations, bind, consume; `onReceived`; poll timer; signals | acknowledgement after handling, crashes in between, silent loss of the connection |
| Service unit, `scripts/setup-service.sh` | | restarts on failure | exit statuses |
| Now-playing parser, `include/smoothoperator/nowplaying_parser.hpp` | none | `parse_nowplaying`, `parse_duration` | ambiguous bars |
| Configuration, `src/config/config_parser.cpp` | the environment, the `AppConfig` | `load_env`, `load` | precedence, integer widths, an empty value |
| AMQP-CPP event loops, `libev.h`, `libuv.h`, `libevent.h`, `libboostasio.h` | a watcher per descriptor; `_next`, `_expire`, `_timeout` and the loop's reference count; Boost's pending flags and operations | `monitor`, `onNegotiate`, `onDetached`, the callbacks of descriptors and timers | callbacks that change what the loop has already collected, operations that outlive their owner, a loop blocked by `execute()` |
| AMQP-CPP channel, `channelimpl.h`, `channel.h`, `deferred*.h` | state, list of pending operations, frames that wait for an answer, consumers | 27 operations, `reportSuccess`, `reportReady`, `reportClosed`, messages | answers without names, callbacks that ask for more while the list is being shortened |
| AMQP-CPP connection, `connectionimpl.h`, `linux_tcp/tcpconnection.h` | state, maximal frame and payload | the handshake, `fail`, `close` | a broker that refuses, ends or falls silent |
| AMQP-CPP values and messages, `*field.h`, `metadata.h`, `envelope.h`, `message.h`, ... | properties and their flags, a body | size, write, read; `append` | sizes and bytes computed apart, borrowed memory, bodies in pieces |
| AMQP-CPP addresses and logins, `address.h`, `login.h` | login, host, port, vhost, options | parse, print, `saslPlain` | separators searched for in the wrong part |
| AMQP-CPP not used by the program: `reliable.h`, `throttle.h`, `tagger.h`, `deferredpublish.h`, `addresses.h` | | | |

How they interact: `main` builds a driver, an AMQP channel, an event bus and the
state manager. The poll timer calls `poll()`, which calls `execute()` twice and
publishes at most twice. The consumer callback calls `handle_dj_command()`,
which calls `execute()` up to two times or publishes the state, then
acknowledges the delivery. All calls are synchronous: while `execute()` waits
for Liquidsoap nothing else runs. Exceptions from `publish()` leave `poll()`
through libev to the `catch` in `main`; those from a command callback would be
caught there and the delivery rejected, but see `StatePublishable` below.

The AMQP channel is AMQP-CPP's. Its headers are in the repository
(`tmp_install/include/amqpcpp`), its implementation files are not. The TCP
connection asks the program's handler, `LibEvHandler`, to watch its descriptors;
libev calls `process()` of the connection when one is ready; frames call the
connection and the channel, the channel reports to the oldest pending `Deferred`,
and that calls what the program has installed, which may ask the channel for more.
A timer of the handler's Wrapper ends the handshake that takes too long, sends
heartbeats and gives a silent broker up.

What makes each one correct, in short: a driver's success is the reply to that
very command and its errors leave nothing behind for the next one; subscribers
see what the state manager holds, and that catches up with Liquidsoap; a command
stays with the broker until it was handled, is handled first in order, and once it
was carried out is repeated only after a process or a connection has failed; the daemon logs in as it was configured; the
library keeps every operation until it has reported it once, hands messages over
whole, calls a connection for what it has asked for and nothing else, and lets
nothing wait for a silent broker without an end. The hazards behind these, each
with its line, are in `PROJECT.json`.

## 2. Modules

| Module | What it is |
|---|---|
| `RequestReply` | the abstract promise of `StreamProvider::execute()` |
| `LiquidsoapDriver` | both drivers; implements `RequestReply` |
| `NowPlaying` | the parser, on texts of tokens |
| `TrackInfo` | what the core does with a reply: parsing, start and end time; extends `NowPlaying` |
| `StateManager` | the core, with the event bus and its exception |
| `CommandDelivery` | the abstract promise to producers of commands |
| `Gateway` | `main`: loop, consumer, broker, signals, restarts; instantiates `StateManager`; implements `CommandDelivery` and preserves `StateManager` |
| `Address` | logins and addresses with their URL form |
| `Startup` | `main()` before its loop: arguments, .env, JSON, login, address; extends `Address` |
| `Monitoring` | the abstract promise of an event loop to a connection |
| `Watchers` | the descriptors in the four event loops; implements `Monitoring` |
| `Process` | `main()` into its loop: `Startup`, then `Watchers` |
| `Heartbeat` | LibEvHandler's timer in a loop whose callbacks block |
| `Callbacks` | which callback of which `Deferred` is told what |
| `Channel` | `ChannelImpl` and its `Deferred` list; extends `Callbacks` |
| `Fields` | numbers, booleans and strings of AMQP: size, bytes, reading; the empty table |
| `Envelope` | properties, envelopes, message bodies; extends `Fields` |
| `AmqpClient` | the client against a broker: `Heartbeat`, `Channel` and `Envelope` in one loop |
| `Tables` | fields of every type, tables and arrays in each other, depth by depth; extends `Fields` |
| `Wire` | properties and envelopes as bytes; extends `Tables` and `Envelope` |
| `ClientWire` | `AmqpClient` with the bytes of its headers; extends `AmqpClient` and `Wire` |
| `MCLiquidsoapDriver`, `MCStateManager`, `MCGateway`, `MCStartup`, `MCAmqpClient` | values of constants for TLC |
| `LiquidsoapDriverProofs`, `StateManagerProofs` (with `TrackInfo`), `GatewayProofs`, `StartupProofs`, `HeartbeatProofs`, `WatchersProofs`, `AmqpClientProofs`, `WireProofs` (`Fields` to `ClientWire`) | theorems |

Operators whose comment begins with *Mutant* are variants of a definition with a
plausible bug. No specification uses them; they are there to show that each
property fails when the code is wrong (`PROJECT.json`, "mutants").

### LiquidsoapDriver

`execute()` is cut into its system calls. `Execute` is the call up to the early
return of `connect()`, with the backoff; `Resolve` is `getaddrinfo`,
`TryAddress` one turn of the loop over addresses, `OpenSocket` the Unix driver's
`connect()`, `Send`, `RecvTooLong`, `RecvChunk` and `RecvClosed` the rest. The
two classes have the same code except for `connect()`, so `transport`, chosen in
`Init`, decides only that.

A response is a sequence of lines, and of a line the model keeps the call it
answers, its position and what the receive loop can tell: a text line, a line
that *ends* in END, a line that holds a NUL byte, the END line. `Terminated` is
the substring match of the code and `UpToNul` is what `response += buffer` does
with a C string. `fd = "unconnected"` is a socket that was created and did not
connect.

The environment: `Answer` runs the oldest command on the connection; `PeerCloses`
loses the connection, any part of what was written, and leaves what was sent in
`orphans`, which `RunOrphan` may still run. A `send()` on a connection that the
peer has closed may succeed, as it does in TCP. `Tick` is the steady clock.

The declarations of the drivers' data members are not in the repository, so the
initial and the maximal backoff are constants; only `InitialBackoff <=
MaxBackoff` and `ResetBackoff <= MaxBackoff` are assumed. The backoff is a number
that nothing waits for: `apply_backoff_delay()` doubles it and returns, and the next
attempt may follow at once, although `docs/API.md:462` speaks of an "automatic
exponential backoff on reconnection". `Execute` has it so, and no run is spent on it.

`KeepsPromise` is `RequestReply!Spec` under the mapping *busy* = a call has
begun, *verdict* = reply or error, *runs* as it is. A success that is not the
call's own reply maps to a verdict that `RequestReply` does not have. The
promise: a success means the command was run exactly once; an error means it was
run at most once, perhaps later.

### NowPlaying, TrackInfo, StateManager

`StateManager`: `UpdateStatus` and `UpdateMetadata` are the halves of `poll()`,
with the stream free to change between them, `StatusRequest` and `DjCommand` the
intents. `SetState` is a change of `state_` by a poll with its broadcast: it
either publishes or the exception ends the process. What a `status_request`
throws is caught by the consumer's callback. A track stands for the whole
`TrackInfo`; `Title` maps it to what the code compares. Liquidsoap is *up*,
*down* (requests fail) or *hung* (requests do not return). Of the driver the
module keeps just that, and `stale`: a connection closed by Liquidsoap costs one
error. `calm` is a history variable: nothing has changed since the last poll
began.

`TrackInfo` says what a track is: `Reply[t]`, what Liquidsoap writes about it,
goes through `parse_nowplaying()` (`NowPlaying`, on lines of tokens: words, bars,
carriage returns) and `Enriched` adds `start_time` and `end_time`, each cut to
whole seconds. The system clock may be set, so each reading is any of `Clock`. A
duration whose milliseconds do not fit gives any end (`llround()` is undefined
there). Each step of `TrackInfo` is a step of `StateManager`; `info` is taken over
exactly when the core takes a track over.

### Gateway

One action per callback: `Poll` (both halves, one callback, through
`StateManager`), `Setup` (declarations, bind and consume, and their failures),
`Handle`, `Reload` and `Settle` (the pieces of `onReceived` between which the
outside can act: parse and first request, second request of `set_playlist`,
acknowledgement), `Terminate` (signals, seen only between callbacks).
Faults: a kill at any point, the loss of the AMQP connection, a refused or failed
setup, a signal. The broker: `queue`, `unacked`, deliveries on the `wire`,
acknowledgements on the way in `acks`. When the connection or the process goes,
`Requeue` puts what was not acknowledged back in its old place. `Restart` is
systemd's, after a failure only.

RabbitMQ, systemd's supervision and the implementation of AMQP-CPP are outside
of the repository and modelled from how the program uses them: `consume` without
flags, acknowledgements one by one, a durable queue. An error before the setup
is complete reaches the `onError` callbacks; later ones reach the empty default
methods of `TcpHandler`.

`NoNeedlessRepeat` is about commands that Liquidsoap has confirmed and those that ask
nothing of it. One for which Liquidsoap could not be reached is another matter:
`docs/API.md:364` and `:460` want it rejected and repeated, the code acknowledges it,
and the run `gateway_failed_command` shows that.

`Settle` has the `reject` branch (`src/main.cpp:137`) too, and never takes it:
what `handle_dj_command()` throws could only come from `publish()`, and
`StatePublishable`, with its theorem, says that a `status_request` never meets a
state that cannot be published, because the poll that brought such a state has
ended the process. `CorePreserved` carries this over to `Gateway`.

### Address, Startup, Process

`Startup` reads its inputs piece by piece: one argument, one line of `.env`, one
JSON document at a time, any of which may end the process (`exit0`, `exit1`,
`crash` for undefined behaviour). Texts are sequences of tokens. Of the document
the module keeps what has a rule of its own: the three sources of the password,
the numbers, which are cut to `uint16_t` and `uint32_t`, the protocol, and
whether the rest is there and has its type. `DefaultInterval` is the interval of an
`AppConfig` that nothing was read into; its header is not in the repository, so it
is a constant that fits its type. `Wire` builds the login and the
address (not to be confused with the module of that name). `Address` has `saslPlain()`, the URL form (`operator std::string`) and
the constructor that parses a URL.

Three variables are histories, which nothing in the program reads: `paths`, the last
`-c` and the plain arguments after it; `inherited`, what `RABBITMQ_PASS` was before the
start; `lines`, the lines of `.env` read. `CredentialsArrive` takes the password that
is expected from the last two. `MeansPassword` reads it off the line itself: a name
and a value with nothing but blanks around them, without a pair of quotes at the
value's ends (`GivesValue`), and the last such line counts (`EnvironmentSays`). Neither
`pass` nor `Trim` and `Unquoted`, which compute it line by line as the code does,
occur in it.

`Process` continues into the loop: `Watchers`, below.

Which file is read: `FirstPathCounts` says it for every order of the arguments. It
includes that the default path counts as none, so that `-c smoothoperator.json other`
reads `other`, although the comment at `src/main.cpp:59` has a plain argument
count only "if no --config was provided". That is `ExplicitPathKept`, which
the run `startup_explicit_path` finds violated.

Things a reader of the code may want to know, which are as the code has them and
which no text of the repository contradicts: a `.env` of
CRLF lines keeps its carriage returns; the URL form leaves the port out iff it is
5672, also for `amqps`; the default vhost with options is read back as an empty
one, and an empty one without options as the default.

### Monitoring, Watchers

`Watchers` has the four event-loop handlers of AMQP-CPP, one of which, `handler`,
is in use. `Monitor` is `monitor()` of each; `Collect`/`Callback` are a loop that
collects ready descriptors and then calls them one by one, so that a callback can
change or end what was collected; `OperationEnds`/`Dispatch`/`Return` are Boost's
operations, which end once each, with their flags (`pending`) and weak pointers
(`watcher` identities); `Negotiate` is its heartbeat timer, `Detach` libev's
destruction of a Wrapper, `Break` an error on a descriptor. A timer that is set
anew cancels the wait before (`StartTimer`); other operations are only added (`Start`). All run in one thread.

`Monitoring` is the promise to a connection, without any of that: it is told of
what it asked for last, while the descriptor is its own. `Monitors` is the
refinement; `NothingUnwatched` its converse. One assumption is made of
connections: a descriptor given up during `process()` is not in use again before
that call has returned.

Seen while modelling and not disputed by any text of the repository: Boost's
`read_handler` clears its flag before `process()` and starts the operation again
afterwards, so a `monitor()` inside makes two of it; its heartbeats leave every
full interval and nothing checks whether the broker is silent; libuv's and
libevent's handlers accept the suggested heartbeat (`tcphandler.h:133-140`) and
never send one; libuv stops its poll when there is an error.

### Heartbeat

`LibEvHandler::Wrapper`, with times relative to now. A tick is half a second, so
that `1.5 * timeout` is whole. `Iterate` begins a turn of the loop: it takes the
time and collects what is due; `Tick` lets time pass, also while a callback is
`busy`, so `ev_now()` lags behind by `lag`. `OnExpired` has the three ways through
`onExpired()`, `ReadTune` is `onNegotiate()` with `start()`, `Extended` what
`onActive()` does to the end, `Detach` the destructor. `refs` is what the Wrapper
has added to the loop's reference count.

After a long block the timer runs before the data that waits is read, and may
give up a healthy connection (`libev.h:257`). `ClosedOnlyAfterSilence` states what
does hold: nothing was *read* for the full period of the loop's own time.

### Callbacks, Channel, Fields, Envelope, Tables, Wire, AmqpClient, ClientWire

`Callbacks`: each class of `Deferred` as a function from its setters to the
members they set; in a subclass its own setters hide those of its base (`Derived`). `Channel`: `ChannelImpl` as a record `c` and an operator per
function: `push` puts a `Deferred` at the end of the list and its frame on the
connection or into the queue of frames that wait, `flush` empties that queue up
to the next frame with an answer, `reportSuccess` calls the oldest, whose callback
may ask for more (`Program`), `reportClosed` and `reportError` end the channel.
`Fields`, `Tables` and `Wire`: size, bytes and reading of every field type but
floats and of the properties with their flags, with a list of properties each for
`size()`, `fill()` and the constructor (`SizeOrder`, `FillOrder`, `ReadOrder`), as in the code; `Envelope`: the properties
themselves and the bodies that come in pieces.

Tables and arrays nest. `Field`, `sizes`, `fills` and `decodes` are functions of the
depth, each defined by itself one less deep, up to `MaxDepth`. A table maps
every name of `TableNames`, which are in the order in which `std::map` goes through
them, to a field or to `Absent`. Numbers that exceed every size in use are all
`Huge`: an announced length that large is more than the input holds.

`AmqpClient` takes what a header frame reads as from a constant, `ReadHeaders`, of
which `WireAssumption` says that it gives back what a program can retrieve.
`ClientWire` computes it from the bytes (`WireHeaders`), and the run `client`, which
extends `ClientWire`, gives that value to the constant. `HeadersAreRead` is the
theorem that this value fulfils the assumption.
`Storable` and `SendableEnvelope` say which meta data and envelopes have bytes at all.
A short string of more than 255 bytes is not among them: nothing in the library
keeps a program from setting one, and `fill()` writes a size modulo 256 before all
of its bytes (`stringfield.h:260`). Nor is meta data of more than four bytes can
count, which is what `size()` returns.

`AmqpClient` puts them into one loop with `Heartbeat`, against a broker that takes
requests in order and answers, refuses, gives or returns messages, delivers, beats,
ends the connection, or falls silent with any part of what it sent lost. Each
`Process...` action is one frame through connection, channel and the program's
callback. `FollowsHeartbeat` says that the timer in this composition lives the
life of `Heartbeat`, so the theorems about it hold there.

`send()`, `push()`, `flush()` and `reportError()` have their implementation in
files the repository does not have; they are modelled from their declarations and
uses and marked external, as are the parser of frames and the containers.

Seen while modelling: `get()` on a closed channel never reports its error
(`DeferredGet::onError` only stores the callback), which is why `ReportedOnce` has
that exception; `Message::append` returns false for a body of one frame although
its comment says "true if complete", and nobody looks at it; a success callback
that runs inside of `reportClosed()` must not ask for more.

## 3. Runs

Runs that pass:

| Run | Question | Bounds |
|---|---|---|
| `driver` | own replies, quiet connections, errors that drop them, bounded memory, backoff, the promise; every call returns | 3 calls, 2 addresses, replies of 0, 1 or 4 lines and END, two lines per `recv`, limit of 2 lines, backoff up to 4 |
| `state_manager` | subscribers see the state, polls catch up, what ends the process, what is shown of a track and when it ends; the title that stays on air is published in the end | 7 tracks (see below), 2 readings of the clock, 2 ticks to a second, durations up to 9 |
| `gateway` | delivery promise with its order, needless repeats, no forgotten delivery, core preserved; every command is settled in the end | 2 commands (two requests, none), 1 unreadable track, 1 fault of any of four kinds, 2 attempts |
| `startup` | credentials, interval, path, address; descriptors in each of the four loops | 3 arguments of 8, 2 lines of 9, 27 documents; 2 connections, 2 descriptors, 2 Watchers and 4 operations of Boost's |
| `client` | the list of operations, their answers and reports, messages, memory, the timer with its counts and ends | 7 operations, 2 envelopes, 5 names of entries, tables and arrays 2 deep, 1 poll that uses the channel, 2 tunes, connect timeout of 2 ticks, heartbeat of 1 second or none, callbacks that block for 1 tick |

Why the bounds are enough to be interesting.

* `driver`: three calls let an error of the first meet the second and its
  orphaned command run during the third. Replies are longer than a chunk and
  longer than the limit, so both the loop and the overflow happen.
* `state_manager`: nothing is bounded, polls, crashes and changes repeat for ever
  over a finite state. Of the tracks two share a title, one has a bar in its title
  and half a second in its duration, one has nothing but a title, one is not
  UTF-8, one lasts longer than the clock can hold, and one has a bar that the
  parser takes for the duration's (the hazard at `nowplaying_parser.hpp:46`;
  `Unambiguous` names it).
* `gateway`: one fault plus the crash on an unreadable track, which needs no fault
  and repeats, gives several generations of processes. `MaxAttempts` stops a
  command after two handlings; `EveryCommandSettled` excludes behaviours that end
  there (`Exhausted`), not those that reach it and go on.
* `startup`: three arguments hold a `-c` with its path and a plain one before or
  after it, or three plain ones. The lines have blanks on either side of the name
  and of the value, both quotes, a second `=`, a quote alone, an empty value, a
  comment, no `=` and another name; two of them can set the password one after the
  other. The numbers stand at, below and beyond their limits; as TLC's
  integers have 32 bits, `IntervalRange` is 2^16 in place of 2^32, which is the
  same to a modulo. The loop is followed for one document only (`Followed`), since
  it does not depend on it. Two connections and two descriptors let one's
  descriptor become the other's; two Watchers and four operations let operations
  of a Watcher that is gone meet its successor. Connections and descriptors are
  symmetric.
* `client`: the operations are those of `main()` and what its callbacks ask for,
  with a fetch, a cancel and a close besides. One tune has no heartbeats and frames
  of two bytes of payload, so a body takes two; the other has heartbeats and no
  limit, where the size of the payload wraps (`WordRange` is 2^16 for 2^32). The
  connection can end at each frame. 1.67 million states, in about two minutes.

Deadlock is not checked for the driver, whose calls run out, for the gateway,
which stops after a signal, and for the start, which may end. The client's loop
never stops, and deadlock is checked.

Runs that show a disagreement between the code and what the repository says of
it (each is described, with the quoted line, under "findings"):

| Run | What TLC finds |
|---|---|
| `driver_end_in_title` | a line of content ending in END shifts every later reply by one |
| `driver_nul_byte` | a NUL byte makes the call wait for ever |
| `state_same_title` | a track with its predecessor's title is never published |
| `startup_explicit_path` | a path given by `-c` is overridden when it is the default one |
| `gateway_failed_command` | commands are acknowledged though Liquidsoap was unreachable |
| `gateway_exit_status` | a fatal setup error exits with 0, so it is not restarted |
| `gateway_reconnect` | a lost AMQP connection is never made again |

The positive runs of the driver use `CleanBodies`, content without lines that
end in END and without NUL bytes; the first two runs above show what that
excludes.

### Fairness

* `LiquidsoapDriver`: weak fairness of the driver's own steps (a thread that can
  run does run) and of `Answer`: Liquidsoap replies to what it was sent unless
  the connection is lost. The latter cannot be left out: the sockets have no
  timeout (nothing reads the `LIQUIDSOAP_TIMEOUT_MS` of `docs/API.md`), so a
  Liquidsoap that accepts a command and stays silent stops the daemon. That is
  the mode *hung* of `StateManager` and `Gateway`.
* `StateManager`: weak fairness of polling (a repeating timer) and of the
  restart. The premise of `TitleConverges` names the rest: Liquidsoap stays up
  with one track, the connection stays, nobody kills the process.
* `Gateway`: strong fairness of the poll timer, the setup and the consumer,
  because each turn of the loop serves all watchers that are ready while each of
  them disables the others for as long as it runs; weak fairness of the pieces of
  a callback, of the broker and of the restart. Nothing is assumed of Liquidsoap
  or of faults; the premise of `EveryCommandSettled` (`Steady`: from some time on a
  process runs with a connection that works, Liquidsoap does not hang) does.
* `Startup`, `Watchers` and `AmqpClient` have none. That nothing waits for a silent
  broker for ever is stated as an invariant, `WaitsAreTimed`: while an operation
  waits, a timer runs that will end it.

## 4. Theorems

Proved with TLAPS, for all values of the constants that satisfy the named
assumptions.

`LiquidsoapDriverProofs`

* Lemmas: what a reply consists of (`ReplyLines`), a truncated chunk is a prefix
  and the whole chunk when there is no NUL byte (`UpToNulIsPrefix`), cutting and
  joining lines (`PiecesAreLines`).
* `TypeCorrect`. The type invariant needs one more conjunct to be inductive: a
  call is under way only when one was made (`TypeInv`), or `Send` could append
  call 0.
* `ErrorsDropConnections`, from `ControlInv`, which says for each place of
  `execute()` what the socket is. It holds for any replies.
* `ResponsesAreBounded`: any replies, any limit, any buffer.
* `RepliesAreOwn` and `ConnectionsAreQuiet`, under `CleanReplies`. Neither
  property is inductive: `ReplyInv` adds that during the receive loop the lines
  received and the lines on the way are together the reply to the current call,
  in order, and that END can only be the last of those on the way. So when a chunk
  completes the reply the connection is empty, and while it does not, nothing in
  the response matches the end marker. The assumption cannot be dropped, as the
  runs `driver_end_in_title` and `driver_nul_byte` show.
* `PromiseIsKept`: the drivers implement `RequestReply`, under `CleanReplies`.
  `RunsInv` relates how often a command was run to where it is: one that was sent
  or left behind has not been run and is in one place only, one whose reply is
  being received has been run once. Then `Answer` and `RunOrphan` are the
  promise's `Execute`, and a reply is only returned for a command that was run.

`StateManagerProofs`

* `TypeCorrect`.
* `BusAlwaysMirrors`, `StatesArePublishable`, `PollsCatchUp` and
  `OnlyBadTextEndsProcess` from `IInv`: a
  living process holds a state that can be published, it was published unless it
  is that of a new process, and after each half of an undisturbed poll the part
  it looked at agrees with Liquidsoap. The step that carries `PollsCatchUp` is
  that ignoring an unchanged title is harmless for the title.
* `EndsAreOnTime`, for any clock and any durations: `SecondsCut` says what cutting
  to seconds loses, `CutsAgree` that the two cuts cannot add up to more than a
  second.
* `TracksAreShown`: `ShowsTags` for texts of any length with any number of bars.
  `TimedIsRead`, `UntimedIsRead` and `TitleIsRead` say what `parse_nowplaying` makes
  of a line with two bars of its own, with one and with none, from where in the
  line each part stands (`Parts`, `PartIsCut`) and where its first and last bar are;
  `Parsed`, that what is shown is what the parser made of the track's reply, however
  the track was taken over. The theorem assumes `Written`: the first line of each
  reply, as `TrackLine` finds it, is that of the tags, and that no number holds a
  bar. That `TrackLine` finds it among line ends and empty lines is model-checked.

`GatewayProofs`

* `CoreIsPreserved`: every step of the daemon, its faults and its surroundings is
  a step of `StateManager` or leaves the core's variables alone (`CoreStep`, one
  case per action). The safety properties of the core hold in the composition as
  well.
* `GatewayTypes`, `NoDeliveryIsForgotten`, `NoRepeatIsNeedless`, for any
  number of commands, faults and attempts. None is inductive. `GInv` numbers the
  commands as they were published, each once, and says (`Numbering`) that those the
  broker holds are the last of them, the unacknowledged ones first, and that those
  handled are the first, at least up to the settled ones; (`Connection`) that on a
  sound connection the unacknowledged ones are those acknowledged on the way, the
  one at work and those on the wire, in this order; (`Remains`) that what is still
  read from a lost connection was interrupted; (`Counting`) that whatever waits after
  an attempt was interrupted. From the code as it is follows even more than
  `NoNeedlessRepeat`: a command handled twice was interrupted, whatever came of it
  (`RepeatsInterrupted`, a part of the invariant and not a property, since the
  documents want otherwise of a failed command). `CoreInv` carries `StatePublishable` over from the
  core, so that nothing is rejected: a rejected status request would be repeated
  without a failure.
* `CommandsAreDelivered`: `Gateway` implements `CommandDelivery`. Publishing,
  handling and settling map to the promise's own steps (`PublishSubmits`,
  `HandleActs`, `BrokerSettlesOne`); deliveries, losses and requeueing leave what is
  held as it is (`DeliverKeeps`, `RequeuedIsHeld`). That first handlings come in order
  (`FirstInTurn`) needs that a redelivery comes before everything that was never
  handled.

`StartupProofs`, for the specification `ProcessSpec`

* `StartupTypes`, `PathIsChosen` (`FirstPathCounts`),
  `IntervalIsNeverBusy` and `CredentialsAreSent`, for any arguments, files and
  documents. `EnvInv`: what `pass` holds after any number of lines is what
  `EnvironmentSays` of them. A line's step keeps it because a trimmed text is what is
  between the blanks (`Trimmed`), what it unquotes is a value the line gives
  (`ValueIsGiven`), and a trimmed name that is ours says that the line names the
  password and the reverse (`NameIsOurs`, `OursIsRead`). `Accepted` says that from `connect` on the configuration is that of a
  complete document; `ResponseIsRead` that a SASL response is read back as what it
  was made of. `CredentialsAreSent` assumes that no user's name holds a NUL, which
  the protocol cannot express, and that a line of `.env` is a text.
* `AddressIsReadBack`: the address in use is what its URL form is parsed to, for
  texts of any length, secure or not, with or without an option. It assumes what a
  URL without escapes needs: no text holds an `@`, no user's name a `:`, no host
  a `:` or `/`, no vhost a `?`; and that different numbers are written differently,
  with digits. The parser looks for its separators one after the other, in what the
  last search left over, so the proof follows it: `FindIs` and `FindBeyond` say
  where the first one of a kind stands, `CutFound` and `CutParts` what is before and
  after it, `LoginIsRead`, `HostIsRead`, `VhostIsRead` and `OptionsRead` do one part
  each, and `UrlIsRead` puts them together. The three exceptions in `AddressReadsBack`
  are those that the code really has; the third, the empty vhost, was found by
  failing to prove the property without it.

`HeartbeatProofs`, for any timeouts, any connect timeout, any bound on blocking

* `HeartbeatTypes`, `HeartbeatBalanced`, `HeartbeatTimerKnown`, `HeartbeatPaced` and
  `HeartbeatSilence` from one invariant: `NumbersOK`; `Attachment`, a connection that
  is gone has neither times nor timer; `TimerInv`, an active timer is due at the
  earlier of the two times; `Deadline`, the end is as far away as the patience
  minus the silence; `Pace`, the next heartbeat is as far away as the interval
  minus what has passed. `Deadline` is what makes the closing justified, `Pace` and
  `TimerInv` together what sends the heartbeat.

`WatchersProofs`, for any connections and descriptors

* `LoopsKeepPromise`: each of the four handlers implements `Monitoring`. `MInv`:
  `Types`; `Keeps`, what a handler keeps for a descriptor is whose it is and what
  it asked for; `Meant`, what a loop has collected is still meant; `Honest`, an
  operation whose Watcher lives belongs to the Watcher's connection and descriptor;
  `Calling`, the same of the call that has not returned. `Honest` is why Boost's weak
  pointers are enough.
* `NothingIsUnwatched` adds `Waits`: a flag says that an operation is under way or
  has ended and will be dealt with.

`AmqpClientProofs`, for every program of operations and callbacks, any envelopes,
frame sizes and timeouts, against the broker with all that it may do. Assumed are
`ClientAssumption`, `CallsAssumption` and `ProgramAssumption` (an operation is asked
for at one place, once; the callbacks of a `close()` ask for nothing but `get()`;
`recall()` is no operation; the callbacks are installed with setters that the class
has), `WireAssumption` (a header reads back as it was written, and a frame has room
for a byte of the body) and `TimeAssumption`. None of the properties is inductive.

* `ClientFollowsHeartbeat`: whatever channel, broker and program do, the timer lives
  the life of `Heartbeat`, so its five theorems hold in the composition. It needs
  `Greeting`: that the broker tunes before it opens the connection, since `Heartbeat`
  has its steps in that order, that nothing comes after the broker's end, and that
  the sizes of frames are those of `Tunes`, which the cutting of bodies rests on.
* `ClientKeepsOperations` (`OperationsKept`), `ClientReportsOnce` (`ReportedOnce`):
  `ChannelInv` says that the channel is `Live` or `Shut`. `Live` is `Working` with no
  callback under way: the linked list holds exactly the operations not yet
  reported, in the order they were asked for (`Pending`); each has at most one
  report; each was asked for by the start, from outside, or by the one operation
  whose callback asks for it (`Reasoned`), which is why none is asked for twice; and
  `FramesInv`: one frame that awaits an answer is at the broker and is the oldest's
  (`InTurn`), the queue is in order (`QueueInOrder`), nothing in the list is without a
  frame unless a close before it will report it (`NoneStranded`), and no queue stays
  behind when nothing is awaited (`Idle`). While a report runs its callback the
  operation is out of the list and not yet reported: `Working(d, X, n)` has it in `X`,
  and the operators `push`, `send`, `flush`, `ask`, `askAll`, `reportSuccess` and
  `reportClosed` each have a lemma that says what they do to it.
* `ClientMatchesAnswers` (`AnswersMatch`): answers carry no name, so `Matched` relates
  three places: at most one answer is on its way, it is of the kind that the oldest
  operation expects (`Fits`), and as long as none is on its way the frame that awaits
  it is still among those the broker has not dealt with (`Owed`, `OnlyLast`).
* `ClientTimesWaits` (`WaitsAreTimed`): from `ChannelInv`, `Greeting` and `Watched` of
  `HeartbeatProofs`, which says that a connection with a deadline has a timer.
* `ClientKeepsMessages` (`MessagesIntact`): `Flowing` reads the frames on their way as
  what an automaton does (`Carries`): free, then a header, then the missing part of
  the k-th body. What the receiver has so far, with the frames on their way, is the
  whole message (`Receiving`, `Reached`), and what each member of the callbacks has
  been told is a prefix of its telling (`Story`), for whichever setters the program
  used. That a body cut into frames is the body again needs that a payload is never
  empty, which is the last part of `WireAssumption`.

`WireProofs`, for any names of entries, any depth of tables and arrays in each other,
any envelopes. Assumed are `FieldsAssumption` (`Huge` is more than a byte can say, the
names are short strings and sorted), `DepthAssumption` (an absent entry is no field)
and `EnvelopesAssumption` (the envelopes are such as the setters can make, and their
sizes fit into the bytes that the protocol has for them).

* `FieldsAreRead`: `fill()` writes as many bytes as `size()` says, and reading them
  gives the field back and leaves what comes after. Numbers first: `NumberAssembled`
  follows an integer of any width through its bytes and back, the sign in the first
  of them, by the invariant that after some bytes the number read is the number
  shifted by those that are left. Then bits (`BitsAreRead`), texts (`TextIsRead`), the
  fields with one value (`PlainIsRead`). A table is read in a loop that ends when its
  bytes are used up: `PieceIs` says what one slot of a table or an array writes,
  `EntryIsRead` that one turn of the loop takes it back, `EntriesAreRead` that after
  all slots nothing is left, and that more turns do nothing. `EveryDepth` puts one
  depth on the other.
* `MetaDataIsRead`, `EnvelopeIsKept`: the same loop for the properties, whose orders in
  `size()`, `fill()` and the constructor must agree for every set of flags
  (`PropertyIsRead`, `PropertiesAreRead`). `size()` adds up in an order of its own:
  `SizesAdd` says that the sum is that of `fill()`'s order, since both lists have the
  same fourteen properties.
* `SettersKeepStorable`: a property that is set holds a value of its type and one that
  is not holds nothing (`Storable`); the constructor, setters and removers keep it so,
  because each property has a bit of its own (`FlagsDiffer`). Without it a property
  removed and a property read would not be the same meta data.
* `HeadersAreRead`: `WireHeaders` fulfils what `WireAssumption` says of `ReadHeaders`,
  so the theorems of `AmqpClientProofs` rest on the bytes and not on a reading that
  is taken for granted.
* `ClientFillsBuffers` (`BuffersFilled`): from these, from `HeaderFrameIs` (the 20 bytes
  around the meta data) and from `Flowing`: a header on its way is one of the envelopes.

`askAll`, the list, the joining of pieces, the loops over bytes and the tables are
recursive functions. Where a proof needs induction over them it takes the least
counterexample (`Least`, `Upwards`), because the induction theorems of the library
have an operator as a parameter; that such a function exists at all is proved once
for those that are defined layer by layer (`LayersExist`).

Only model-checked: the three liveness properties `ExecuteReturns`, `TitleConverges`
and `EveryCommandSettled`; the disagreements, which are counterexamples. Every
invariant and every action property that a passing run checks is stated by a theorem.

## 5. Plan

Done: all components but those listed below, their promises, the proofs above.

What could follow, in this order:

1. `LiquidsoapDriver` composed with `StateManager`: the abstraction of the driver
   inside `StateManager` (answer, error, no return, `stale`) checked against the
   driver itself.
2. What a broker's own, ill-formed fields are read as: a size that is not that of the
   entries, a name that comes twice.
3. `Reliable` with `DeferredPublish`, should the program begin to use publisher
   confirms (`Reliable` stores publishes that failed to leave under tag 0).

## 6. Not modelled

* AMQP-CPP's `reliable.h`, `throttle.h`, `tagger.h`, `deferredpublish.h` and
  `addresses.h`: included by nothing in the program, most of their functions are
  only declared in the repository.
* Of AMQP-CPP's parts that are modelled: TLS, the parsing of frames, `endian.h`,
  fields of float and double, finalize callbacks, `reportCancelled()`, publisher
  confirms, and the comparison of addresses; several threads under Boost.
* Texts: JSON layout, log lines, command strings. Sanitising an argument removes
  line ends and can only make a command invalid, which is the kind "void".
* `subscribe()` is empty in the code. The volume is never changed. Names of
  commands, intents and queues are copied from the configuration.
* Build files, tests, the stress script.
* The time a call takes, except in `Heartbeat`. `RestartSec` and the poll interval
  are just delays.
