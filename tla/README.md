# A TLA+ model of afast

afast is a Rust web framework: a handler written once is served over HTTP, over
WebSocket and over raw TCP with a binary protocol, and clients for it are
generated in five languages. This directory models its server, its generated
clients and the protocol between them, checks the models with TLC and proves
their safety with TLAPS, the content of calls (the codecs) included.

## Inventory

Paths are relative to `src/afast/src/`.

| Part | State | Operations | Hard behaviour | Correct means |
|---|---|---|---|---|
| Binary socket: `app/transport/tcp.rs` `handle_connection`, `ws.rs` `handle_websocket` | table `connections` (id -> sender to the handler) behind an async mutex, `next_conn_id`, push channel | read a frame (request, push, close, heartbeat), write a push | one task both consumes the push channel and sends into it; the lock is held across awaits; ids wrap | a connection ends once, for a cause; the client is told at most once; the loop gets back to reading, but where the client does not read or where the code jams |
| Pump task of a long connection: `tcp.rs` 380-422, `ws.rs` 326-369 | channel from the handler | start the handler, move its messages, hooks, cleanup | races with closes, heartbeats, the end of the socket | messages in order and none lost; `on_disconnect` after the last one; no leaked entry |
| Handler side: `handler/mod.rs` `Sender`, `Receiver`; `call_stream` of the handler macro | the two channel ends, clones of the sender | send, recv, drop in any order | back-pressure both ways | `recv` returns `None` when the connection is closed |
| Runtime of the generated clients: `app/codegen/ts.rs` and its siblings | `_nextId`, `_pending` with timers, `_pushHandlers`, sockets | connect, call, close, heartbeat, a frame arrives, a timer fires, the socket is lost | late replies, early pushes, a heartbeat older than a connection | a reply settles its own call; a push reaches its socket; nothing waits for ever |
| Methods of the generated clients: `app/codegen/{ts,js,kt,cs,rs}.rs` | the cache of a method | validate, ask customs, serialise, build URLs, decode, cache | five copies of the same rules, written apart from the server that reads them | the handler gets what the caller passed, the caller what the handler returned |
| HTTP server: `app/transport/http.rs` `serve`, `app/mod.rs` `run` | semaphore of connections, TLS acceptor behind an rwlock, reload and shutdown channels | accept, serve, reload, stop | a branch of `select!` that awaits a permit or a lock | shutdown and reload are always served; no permit is lost or made up (which is less than the documented limit, see the divergences) |
| HTTP dispatch: `http.rs` `handle_request`, `handle_api` | none of its own | route, limit, hooks, call | order of the checks, deferred catch-alls, guards of hooks that fail half-way | the best route wins; guards are paired; a limited handler is never run unchecked |
| Ordinary WebSocket and SSE: `app/ordinary_ws.rs`, `ordinary_sse.rs`, `http.rs` 1785-2160 | queues in both directions | receive, send, close, end | tasks that abort each other; hooks that run before the queue is drained | messages in order; a stream that ends is complete; sessions end with their client |
| Rate limiter: `rate_limit/mod.rs` | expiring counters per policy and key in a store | check by fixed window, sliding window or token bucket; cleanup | the time is read before the wait for the lock; expiry; truncated refill | what is answered in its window stays within the limit; no refusal in time without a cause |
| Routes: `app/ordinary.rs` | trie of patterns | insert, match, `is_catch_all_only` | priorities and backtracking | the trie finds what the list of patterns would |
| Builder: `app/mod.rs`, `service/mod.rs` | tables of handlers, hooks, policies | service, handler, hook | merging and name clashes | every declared handler is served with its hooks and its policy |

How they interact: the accept loops spawn one task per connection. On a binary
socket that task runs `handle_connection` or `handle_websocket`: it calls
ordinary handlers inline, and for each long connection spawns a pump task, which
starts the user's handler in a third task. Main loop -> handler goes through a
channel whose sender is in the table, handler -> pump through another, pump ->
main loop through the push channel of the socket. On an HTTP connection hyper
calls `handle_request`, which takes a request past limiter and hooks to a
handler, and may turn the connection into a session of its own. Limiter, hooks
and tables are shared by all. The generated client is the other end of both.
The full list of components is in `PROJECT.json`.

## Modules

| Module | Content |
|---|---|
| `LongConn` | One binary socket: main loop, pumps, handlers, an unconstrained client. One action per step between two awaits. |
| `EchoConn` | Extends `LongConn`: its handlers run the loop of the documentation; scheduling and liveness. |
| `SessionContract` | What a socket promises about its long connections, without tasks, channels or ids. |
| `LongConn_proofs` | The inductive invariant of `LongConn`, and the theorems that follow from it. |
| `Client` | The runtime of a generated client, the wire and the server's table of connections. |
| `CallContract` | What client and server promise about calls. |
| `Client_proofs` | The inductive invariant of `Client`, its theorems and the refinement of `CallContract`. |
| `HttpServe` | Accept loop, permits, certificate reloads, shutdown. |
| `OrdinarySession` | Extends `HttpServe` with the WebSocket and SSE sessions on its connections. |
| `OrdinarySession_proofs` | The inductive invariant of `HttpServe` and its theorems; that sessions keep the server, and the theorems about their messages. |
| `Induction` | Induction and recursion over the natural numbers, for the proofs. |
| `Router` | Patterns, trie, matching; the reference `Best` takes the patterns one by one. |
| `Registry` | Extends `Router`: services, and the tables `run()` builds of them. |
| `HttpDispatch` | Extends `Registry`: services are added, `run()` builds the tables, a request is answered. |
| `HttpDispatch_proofs` | The trie, its search and its captures against the reference, for any patterns and path; the inductive invariant of `HttpDispatch` and its theorems. |
| `RateLimit`, `RateLimit_proofs` | The limiter over `InMemoryStore`, its inductive invariant and theorems. |
| `Wire` | Types and their metadata, the server's reading and writing of values. |
| `Web` | Values as URL text, and the extractors of ordinary handlers. |
| `TsClient`, `JsClient`, `KtClient`, `CsClient`, `RsClient` | What a generated method does with its arguments and with the answer. |
| `StrictCodec` | What Kotlin, C# and Rust have in common there. |
| `Calls` | Calls of one method by several callers: cache, customs, validation, request, server, answer. |
| `Wire_proofs` | Types by their layers, integers, text and lists on the wire, the round trip of the server. |
| `Calls_proofs` | Writers, readers and validation of all languages against the server, the invariant of `Calls` and its theorems, the declared types. |
| `MC...` | The instance of a module that TLC checks; the bounds are in the `.cfg` files. |

`HttpServe` <- `OrdinarySession` and `Router` <- `Registry` <- `HttpDispatch` are
compositions in which the lower module's actions run unchanged. `LongConn` and
`Client` meet at the wire: `LongConn` lets the client send anything at any time
and has the channels at their limits, `Client` has the client as it is generated
and of the server the table and the order of frames. `Calls` looks at a call's
content and leaves its transport to `Client`.

### LongConn and the code

| Model | Code |
|---|---|
| `main` | where `handle_connection` is: in `select!`, or at one of the awaits of its two branches, the writes to the socket (`write`, `reply`, `opening`) among them |
| `conns`, `nextId` | `connections`, `next_conn_id` |
| `stale`, `target` | the list of the heartbeat still to go through; the session a pending send is for |
| `pushq` | the push channel, headed by the frame being written while `main` is `write`; `n = 0` is the empty payload that closes |
| `pump[s]` | where the task spawned for session `s` is |
| `tx`, `rx`, `inq`, `outq` | the handler's ends of its two channels and their lengths |
| `sent`, `got`, `closes` | history variables, read by properties only (`sent` also bounds the model) |
| `ReadOpen` | request of a long-connection handler: id, entry, reply, on_connect, spawn |
| `ReadPush`, `Deliver` | push frame: lock, then `to_handler.send(..).await` |
| `ReadClose`, `QueueClose` | empty push frame: remove, unlock, `push_tx.send(..).await` |
| `ReadHeartbeat`, `Reap`, `QueueClose`, `ReapEnd` | heartbeat: lock, list of stale ids, for each remove and `push_tx.send(..).await` |
| `Opened` | the reply with the id is written (or could not be), on_connect, spawn |
| `ReadCall`, `CallReturn`, `CallPanics` | ordinary handler called inline |
| `ReadBad`, `Replied` | a frame answered with an error; the write of a reply ends, its result ignored |
| `Forward`, `Write`, `WriteFails` | push branch of `select!`: a message is taken, its write is awaited inside the branch, a failure leaves the loop |
| `SocketEnds`, `PeerDrops` | end of stream or a read error; the client goes away |
| `PumpStart` .. `PumpCleanup` | `call_stream`, drain loop, on_disconnect hooks, removal |
| `HandlerSend` .. `DropSender` | the user's handler, free to do anything with its two ends |
| `EchoReceive`, `EchoSend`, `EchoEnd`, `busy` | `EchoConn`: the loop of `chat_echo` and of `transports.md` 297-313, which awaits `send` before it receives again |

Abstractions: a message is its number in its session, so a FIFO channel of
consecutive messages is its length; what an ordinary handler, the limiter or a
malformed frame answers changes nothing here. A write ends when the model lets
it, so a client that does not read is one whose write never ends: then the loop
neither reads nor pushes. The two transports have the same structure, so one
model stands for both.

### Client and the code

| Model | Code |
|---|---|
| `link` | `_ready` and the state of the socket |
| `call[c]`, `ids`, `nextId` | the promise of a call, its id, `_nextId`; "threw": its write threw, while its entry stays |
| `pending`, `timers` | `_pending`; the 5 s timers, which may fire at any moment |
| `pushHandlers`, `socket`, `closes`, `received` | `_pushHandlers`; the Socket of a long connection, `_closing`, `_closeResolve`, its callback |
| `Call`, `Issue`, `Start`, `Refuse` | a method awaits `_ready`, then takes an id, enters itself, writes the request; or rejects |
| `Timeout`, `TimeoutThread` | a timer fires: the entry goes, the call fails |
| `HandleMessage` = `ReceiveReply`, `ReceivePush` | a frame arrives: `_handleMessage`, `_handleTcpData`, the reader threads |
| `Resume` | the function that awaited the reply runs: a Socket is made, its push handler registered |
| `Close`, `OnMessage`, `Expire` | `Socket.close`, `_onMessage`; in Kotlin and C# the 500 ms after which it counts as closed |
| `StartThrows`, `CloseThrows` | the same with a write to a lost socket that throws (Kotlin over TCP, C#): out of the call, whose entry and timer stay, or out of `close()`, which then never comes to its delay ("stuck") |
| `Heartbeat` | `_sendHeartbeat` with the ids known at that moment |
| `Lose` | the socket ends, with or without an `error` event |
| `Serve` | the server's loop reads a request, a close or a heartbeat |
| `HandlerPush`, `HandlerEnds`, `Forward` | handler, pump, and the loop that writes pushes |

Three runtimes (`runtime`) differ in when code runs that a frame has woken up:
in a browser what awaits a reply runs before the next frame, over TCP one chunk
may hold both, and in Kotlin and C# a reader thread does not wait at all.
The generators repeat this code for each transport (`_callWs`, `_callUniWs`,
`_callWxWs`, `_callNodeTcp`, `_callBunTcp`, and again in each language): one
definition stands for all copies, and the map spreads the copies over the
definitions of the same protocol.

### HttpServe, OrdinarySession and the code

| Model | Code |
|---|---|
| `loop`, `next`, `loading` | where the accept loop is: `select!`, waiting for a permit inside the accept branch, waiting for the write lock inside the reload branch |
| `conn[p]` | the task of a connection: spawned, queued behind a writer, in its handshake, serving, upgraded |
| `permits`, `cert`, `certOf` | `conn_semaphore`; the acceptor behind the rwlock; the acceptor a connection used |
| `bcast`, `fwd`, `mpsc`, `disk`, `paths` | the broadcast channel of the application, the forwarding task, the channel to the loop; the files; `cert_paths` |
| `main` | `run()`: waiting, stopping the servers, returned |
| `kind`, `hand`, `out`, `inc`, `sender`, `receiver` | a session: the handler's task, its two channels, `send_task` (or the body hyper polls), `recv_task` |
| `StartWs`, `StartSse` | `handle_ordinary_ws_upgrade`, `handle_sse` |
| `Send`, `SendClose`, `Recv` | `WsSender`, `SseSender`, `WsReceiver` |
| `Write`, `Receive`, `ReceiveEnd`, `PassClose` | the two tasks |
| `HandlerReturns`, `StopSender`, `StopReceiver` | the third task after the handler: hooks, then abort of the other two |

Abstractions: the HTTP protocol on a served connection is hyper's; a request
timeout may fire at any moment of a served connection; keep-alive pings and text
of events do not change the state.

### Router, Registry, HttpDispatch and the code

A trie is the set of its nodes, each named by the edges that lead to it;
`MatchPath` backtracks as `match_node` does. `AddService` is `AFast::service`
with its merging, `Tables` what `run()` makes of the services: handlers by
stable id, routes and their tries, hooks by id and by path, policies. A request
then goes through `Preflight`, `Dispatch` (routes, deferred catch-all, built-in
paths), `Limit`, `Before` (one hook at a time, which may return a guard, none or
an error), `Call`, `After` (`ToClose` gives the guards in their order) or one of
the built-in endpoints. A stable id is the pair that is hashed, the hash is
taken to be injective.

### Calls and the code

A generator writes text that follows the metadata of a type; what is modelled is
what that text does with a value. `Wire!ServerRead` and `Wire!ServerWrite`, and
`Web!Extract`, are the server: they share no definition with the writers of
the clients, so a property that compares both ends compares two translations of
two different sources. A cell of the wire is a digit below 4 instead of 256, an
integer of w bytes has w cells; characters are one cell. Floats are copied bit by
bit and left out. The layout of bytes belongs to the crate `afastdata`, which is
not in the repository: it is taken from `docs/en/src/binary-protocol.md` and from
what all five clients agree on (marked external in the map, with hyper's and the
browser's parts).

The types of the application are given in `Layers`, each type after the types it
is made of (`Parts`), and `Values` has the values of each that are considered. A
generator recurses over the metadata of a type; here that is a function of the
type, written in two: `TsWriteOf(write, t)` says what is done with `t` when
`write` does it with the parts, and `TsWrite[t \in Types]` ties the knot. Readers,
validation, `Structure` and `Nested` are made alike. `Calls` ends with what the
generators rely on and nothing in the code enforces: `InOrder`, `Readable`,
`Checkable`, `ToldApart`, `Unambiguous`. They are the hypotheses of the theorems,
and TLC evaluates them on every trial of the passing run (`TrialsAreSo`).

| Model | Code |
|---|---|
| `Start` | the head of a generated method: look-up in `_cache` |
| `Ask` | the functions registered for customs, or for headers, are awaited |
| `Send` | validation throws, or the request is written |
| `Serve` | the extractors of the server, the handler, what it returns is written |
| `Receive` | the answer is read, the entry of the cache made |
| `Tick`, `Login` | `Date.now`; what the registered functions give changes |
| `got` | history variable, read by a property only |

### RateLimit and the code

| Model | Code |
|---|---|
| `clock`, `Tick` | `now_secs()`, in whole seconds |
| `data` | the map of `InMemoryStore`: a key is the client, the kind of counter and the start of the window |
| `Client` | the prefix of the keys: policy and extracted key |
| `call[k]` | where the request `k` is in `check`, the times it has read, the count it got |
| `Check`, `CheckUnlimited` | policy and key are found, `try_acquire` reads the time; or no limit applies |
| `ReadTime` | `incr` and `get` read the time again and then wait for the lock |
| `Count` | `incr` under the write lock; the fixed window decides |
| `Estimate` | `get` under the read lock; the sliding window decides |
| `Consume` | `try_consume_token_inner` under the write lock |
| `Cleanup` | the purge, with a time read before its wait for the lock |
| `admitted`, `late`, `overtaken` | history variables, read by properties only |

Abstractions: the `f64` sums are exact (both sides multiplied by the window), time
does not run backwards, a window has at least one second (with 0 the code divides
by zero), the strings of keys do not collide. `check_by_policy` is `check` for a
handler that names the policy. `admitted` counts a call in the window it was
charged to if the answer came before that window was over, `late` one of a
sliding window whose answer came in the window after it. Calls answered later
than that are not counted, nor are those of a fixed window answered after it.

## Runs

| Run | Instance | Shows |
|---|---|---|
| `longconn` | 2 connections, 2 messages each, 2 ids, channels of 1, push channel of 2 | types and capacities, `NoLeakedEntry`, `EntryLossHasCause`, `NothingLostAtDisconnect`, `DeliveredInOrder` |
| `longconn_live` | `EchoSpec`: 2 connections with 1 message each, or one with 6, a single id, channels of 1 | `ClosedSessionsEnd`, `PushesReachSocket`, `DropEndsLoop`, and the refinement `KeepsContract` when the second connection takes over the id of the first |
| `longconn_jam` | `EchoSpec`: 2 connections with 1 message each, 2 ids, push channel of 2 | refutes `LoopResumes` |
| `longconn_drop` | as `longconn_jam` | refutes `DropEndsSessions` |
| `client` | an ordinary call and a long connection, each runtime, 2 pushes or 2 closes | `CallsExact`, `NoPushLost`, `ClosedAtServer`, the refinement `KeepsContract`, `EveryCallEnds`, `CloseReturns`, `OrphansReaped` |
| `client_heartbeat` | the same in a browser | refutes `SocketsServed` |
| `http_server` | 2 clients, 1 permit, TLS or plain, 2 reloads, 2 versions of 2 certificates, channels of 1, 2 messages per session | types, `PermitsConserved`, `NoStaleCertificate`, `StreamComplete`, `WrittenInOrder`, `ShutdownCompletes`, `LastReloadWins`, `SessionsEnd` |
| `dispatch` | 4 services, two of them of one name, in every order; 35 requests | `RoutedToBest`, `BuiltinReachable`, `GuardsPaired`, `HooksRunOnce`, `LimitedBeforeRun` |
| `dispatch_catchall` | 2 of these services | refutes `NeverIntercepted` |
| `calls` | 38 methods in five languages with every combination of tried values | `ArgumentsArrive`, `PreflightSound`, `AnswerArrives`, `CacheHonest`, `OrdinaryArrives`, `TypesDeclared` |
| `calls_answers` | one TypeScript method that returns an `i64` | refutes `AnswerArrives` |
| `ratelimit` | 2 requests at a time, 6 in all, 4 seconds, windows of 2 seconds, one policy of each algorithm | types, `WindowBound`, `NoBoundaryBurst`, `BucketBound`, `FullWhenRefused` |

Bounds, and why they are enough:

* `LongConn`: two connections are enough for one to fill the push channel while the
  other is closed, for one pump to remove the entry of another, and for a
  heartbeat to reap twice; two messages for a gap or a swap; channels of one or
  two are full and empty in the same run, which is what their capacity of 32 is
  about. `MaxOpens` and `MaxSends` bound counters of the model; `MaxId` stands
  for 2^32 - 1, so that the counter wraps. Six messages of one connection fill
  every channel between the client and itself: the circle of `Circle` is within
  `longconn_live`.
* `Client`: one ordinary call beside a long connection lets a reply, a push, a
  timeout and a heartbeat of either cross any other; two pushes for a gap or a
  swap, two closes for one while another waits, not both in one behaviour
  (`NotBoth`). The wire is not bounded: calls, pushes and closes are, and there
  is one heartbeat on its way at a time.
* `HttpServe`: with one permit the second client waits for it inside the accept
  branch while the first blocks a reload, and with channels of one the broadcast
  channel overflows. Sessions and reloads meet only through the connection of an
  SSE stream, so a behaviour looks either at reloads or at one session beside a
  plain connection (`Focus`).
* `HttpDispatch`: the routes overlap in all the ways the trie tells apart: text,
  parameter and catch-all at one place, a prefix that is no route, equal routes
  of two services, groups, a service without a name, one that is merged; the
  requests tell them apart, and there is one for each built-in path with and
  without what its checks ask for.
* `Calls`: integers at both ends of their range and on both sides of every bound
  of a rule; the unsigned ones of eight bytes are those that a double holds, up
  to the largest of them, and on both sides of where it has gaps (`Exact`: 2^13
  of 16 bits here, 2^53 of 64 in a program); strings too short, long enough and
  too long, `None`, empty and longer lists, each variant of an enum, skipped
  fields, no customs or one before one or two data arguments; three handlers
  whose types are nested in one another, in each of their six orders; cache
  times of 2 seconds in 4. `MCLayers` collects the types the trials name and the
  types of their fields, `MCValues` the tried values of each. Of each language
  only types are used that its compiler takes.
* `RateLimit`: clients have keys of their own, so a behaviour looks at one of
  them (`OneClient`) and in exchange at six requests, twice the highest limit;
  two at a time are enough for one to be overtaken between two of its steps;
  four seconds are two windows, so counters expire, purges come late and a
  previous window has every weight. `Start` is past two windows, as the real
  clock is.

`CHECK_DEADLOCK FALSE` stands where the system may really stop: a socket that
ends or hangs, calls that are all done, a process that returned, a bounded
clock. `dispatch` has no such state and is checked for deadlock.

### Fairness

tokio polls a task again once it was woken, hence weak fairness of each task's
own steps; `select!` picks a ready branch at random and the queues of a mutex, a
semaphore and a channel are fair, hence strong fairness of a branch that is
ready again and again (`Forward`, `Reload`, `Leave`, `ForwardSend`, the pumps).
A TLS handshake and, with `Timed`, a request end by their timeouts. Timers of
the client fire and its heartbeat is an interval, the event loop and the reader
thread take the next frame.

Of a client or peer it is assumed only that once it is gone the reads and writes
on its socket return. A client that is there need not read: a write to it may
last for ever, and the properties that need it to read say so in their
hypothesis (`ClientReads`: no write lasts for ever). Of handlers it is assumed
that one that is told its session is over returns (`OrdinarySession`), or that
it is the loop of the documentation, which awaits its `send` before it receives
again and ends at `None` (`EchoConn`'s `EchoSpec`). The invariants of `LongConn`
hold of any handler.

### What the refuted properties mean

* `LoopResumes`. The main loop is the only consumer of the push channel and
  waits for room in it at `tcp.rs` 237 and 270. If it is full then, the socket
  is stuck for good, also for a client that reads (`SelfJam`). There is a second
  way, with the very handler that the documentation shows: the loop waits at
  `tcp.rs` 243 for room in the handler's channel, the handler in its `send` for
  room to its pump, and the pump for room in the push channel (`Circle`). The
  liveness properties that hold exclude these two states by name, and so say
  that there is no third: without either of the two names TLC refutes
  `PushesReachSocket` and `DropEndsLoop`.
* `DropEndsSessions`. When the socket ends, the table is kept alive by the pumps
  and with it every sender to a handler: a handler in `recv()` is never told.
* `SocketsServed`. A heartbeat built before the client has read the id of a new
  connection makes the server drop that connection (`tcp.rs` 249-272). The
  client's Socket stays open and is handed the closing frame as a message.
* `NeverIntercepted`. `is_catch_all_only` asks a child on the way, which says no
  when it leads to no route: the catch-all is then taken for a specific route
  and gets a request of a built-in endpoint (`ordinary.rs` 415).
* `AnswerArrives` with negative `i64` (or `i8`) in TypeScript and JavaScript: the
  readers have no sign (`ts.rs` 3224, 3235). The passing run has signed integers of
  two and four bytes there.

`BucketBound` holds for buckets no call was late for (`overtaken`): a call that
read the time and got the lock in a later second stores the older time, so that
the time between is credited twice and the bound is exceeded. In the same way
the windows bound what is answered while they last: a call that is answered in
the next one comes on top of what `NoBoundaryBurst` allows there, so that four calls
can be admitted in a sliding window of three (one that read the time in the
window before and stalled, and three of the present one). The second part of
`NoBoundaryBurst` bounds that burst by what the window before had left.
`CloseReturns` leaves out handlers that end by themselves: the server then sends
no closing frame, and `close()` waits for ever. `ClosedAtServer` is about
JavaScript. `TypesDeclared` leaves out services with ambiguous names
(`Unambiguous`, see the divergences).

## Proofs

Each proof starts from the ASSUMEs of the module alone and holds for every value
of its constants.

`LongConn_proofs` (every constant is a positive number): the
invariants of the runs are not inductive. That a close frame is queued once needs
that a session being closed has no entry (`CloseInv`), which needs that an entry
knows its session (`TableInv`); that messages arrive in order needs what the push
channel holds (`FifoInv`), which needs how many messages went into it
(`PipeInv`). `IInv` joins these with the types (`TypeOK`), what a session is before
it is opened (`OpenInv`) and, until ids repeat, which session an id belongs to
(`NoReuseInv`). One lemma per conjunct shows that each action preserves it. From
`IInv` follow the invariants of the run `longconn`, the
action property `DeliveredInOrder`, and `Implements`: the socket refines
`SessionContract`, where a session goes from new to up (on_connect) to down
(on_disconnect) by the place of its pump, and each step of the socket is one step
of the contract or none.

`Client_proofs` proves that client and server implement `CallContract` for any
number of calls, pushes and closes and all three runtimes. A call's reply could
be another's if an id were used twice or an entry outlived its call, so `IInv` says
of what is on its way: an id belongs to one call for ever (`IdsExact`), a
request on its way is of a call not handled yet and is there once
(`RequestsExact`), a reply carries the id of a call that was handled
(`RepliesExact`), and a closing frame is of a connection that has left the table
for good (`ClosesExact`), which gives `ClosedAtServer`. With ids read modulo 2^32
`IdsExact` would not hold: the range of ids is an assumption of the model.

`CallsExact` says what a failed call leaves behind. After a timeout or an error
reply that is nothing. A call whose write threw, in Kotlin over TCP and in C#,
has failed while its entry and its timer are still there, for up to five
seconds; that happens only on a socket that is gone, so no reply can find the
entry, and `EveryCallEnds` says that the timer takes it. To the contract it is a
call that fails as it is made.

`NoPushIsLost` is about a browser. The server has two ways for what it writes, its
replies and its push channel, and the client two for what it reads, `_pending` and
`_pushHandlers`; the message of a handler could overtake the reply that makes
the Socket. `PushInv` says of each connection that what its Socket was given and
what is on the wire and in the push channel make up all that its handler pushed, in
order, and that while its call waits, the reply that will make the Socket is
ahead of every one of its messages and of those yet to come (`PushOf`).

`OrdinarySession_proofs` begins with the server alone: permits are conserved
because a task is spawned only for the connection the loop accepted last, which
has none yet (`NextAccepted`), so that no more than `max_connections`
connections are served over HTTP (`HttpBounded`; a WebSocket has given its
permit back, see the divergences); that no connection uses an old certificate is
the exclusion of the lock. It then shows that a behaviour with sessions is one
of the server without (`SessionSpec => Spec`), so that everything proved of the
server holds with sessions on it, and uses its invariant in turn: an SSE
stream's connection is served until it ends. The messages are in order because,
while the sender runs and no close was sent, the channel holds exactly the
numbers between the last written and the last sent, with at most one close among
them (`Numbered`): four lemmas say that this survives each use of the channel.

`RateLimit_proofs` (a window has at least a second and the clock starts two
windows late; any number of calls, policies and connections): `WindowBound` speaks
of admitted calls and the code of a counter in the store, so `WindowInv` ties
them: while a window lasts, the calls admitted and the calls that hold a
reservation (a sliding window has counted them within the limit and not answered
them yet) are no more than the counter, cut off at the limit; for a fixed window
they are equal, which gives `FullWhenRefused`. That the counter does not shrink
meanwhile is `ExpiryInv`: the entry of a window outlives the window, since `CallInv`
says that a call acts on no time before the one its window was computed from.

`NoBurst` proves `NoBoundaryBurst` on top of it. The code decides upon a call by
its place among the calls counted in its window, the property speaks of how many
were admitted, and calls are not admitted in the order of their places.
`BurstInv` therefore names a place: the last one admitted, or 0. That place fits
beside the window before, and from it on there are places enough for the calls
admitted and those not yet answered. The time factor only shrinks the weight of
the window before, whose number of admitted calls no longer changes; the lemmas
on products carry this, since both sides are multiplied by the window. Calls
that are answered in the next window only are the matter of `LateInv`: the
counter of a sliding window lives until the next one is over, so that until then
the calls admitted in time, those admitted late and those that still hold a
reservation are no more than the counter, cut off at the limit.

`BucketsHold` proves `BucketBound` for a bucket by keeping its account
(`BucketInv`): there are a time r of the last refill and a number v of tokens
such that since any second what was admitted and v together are no more than a
full bucket and the refill up to r. Admitting takes one from v and adds one to
the sum; a refill moves r on and rounds v down. The store has r and v, or it has
forgotten the bucket: then r is two windows back, and the time since has paid
for the full bucket the code begins with again. The sum over seconds is a fold,
taken apart with lemmas of the same module.

`HttpDispatch_proofs` is in its first half about any patterns and any path.
`TrieRepresents`: the nodes of the trie are the beginnings of the patterns, at
the end of one is the last of the routes that end there, and a parameter has the
last name given to it; by induction over the indexes of the patterns, which are
inserted in that order. `MatchPathIsBest`: below a node the search finds the
best of the patterns that begin as that node does (`Cand`), by induction over
the number of segments left; every pattern that goes on with the fixed segment
is preferred to every one that goes on with a parameter, and these to a catch-
all that ends there, so that the first branch in which anything is found has the
best. `MatchPathCaptures` says the same of what is captured. It needs that
routes give one name to the segment they share and none uses a name twice:
otherwise the code captures something else (see the divergences), and the
properties exclude it too. `CatchAllsGiveWay` is the half of `is_catch_all_only`
that holds; the other half is what `NeverIntercepted` refutes.

The second half is about any services, requests and origins. Whatever is
added in whatever order, the application is well-formed (`IsBuilt`): no name is
that of two services, and what the tables lead to are the leaves of the
services. From that alone it follows what `run()` makes of it: the limiter has
the policy of each handler (`PoliciesAre`), and the hooks of a binary handler and
of a route are the global ones and those of its service, although they are
collected along two ways (`HandlerHooksAre`, `NamedHooksAre`). `Inv` carries this
along a request: the tables are those of the application (`TablesBuilt`), the
target is what the path asks for (`Aimed`, which cites the theorems about the
tries), what is let in has been checked against its policy (`Admitted`), what ran
is what was let in (`RanAsCalled`), and the guards told are the guards kept
(`ClosedAsKept`). The run `dispatch` has no state in which `Inv` is false.

`Wire_proofs` and `Calls_proofs` are about any types of the application, any
values of them and any methods. A statement about every type is proved by
induction over `Layers` (`TypeInduction`), and in the same way that each of the
recursive functions exists and does what its body says (`TsReadIs` and the
like). The server's writing and reading are taken apart kind by kind, over
arithmetic of digits for integers and a lemma on several values read one after
another (`ListRead`) for lists, structs and variants. `ServerRoundTrip`: of the
bytes of a value with anything after them, the server reads that value and
leaves the rest, or refuses it by a rule. `WritersAgree`: the five writers give
the server's bytes for every value, so that the one round trip serves all.
`TsRoundTrip` and `StrictRoundTrip` read answers back; they need that the reader
knows the sign of the integers inside, which `AnswerArrives` is refuted without,
and in TypeScript and JavaScript that integers of eight bytes are among those
that a double holds (`TsNumber`, `StrictNumber`). `TsAccepts` and
`StrictAccepts`: what passes the server's rules passes those the clients copied,
except for an optional payload and for rules on the items of a list, at which
the generated TypeScript looks for a member of `undefined` and throws
(`TsPasses` is false where the checks throw, and `Checkable` leaves those types
out).

The properties of `Calls` are not inductive: at the moment of an answer they speak
of arguments given long ago. `CallsInv` (`CallsKnown`) says of a call what it is by
then: arguments and customs are those of the trial, a request is the encoding
of what the call has, a reply the encoding of the answer, a refusal one of the
validation, an entry of the cache one of the answers that arrived (`CacheInv`), and
a cached outcome the entry of its moment. With the theorems on types follow
`ArgumentsGetThere`, `ValidationIsSound`, `AnswersArrive` and `CachedIsHonest`, each
under the hypothesis it needs: customs first in the signature (`InOrder`),
integers that can be read (`Readable`), types that can be checked (`Checkable`),
keys that tell arguments apart (`ToldApart`). The run `calls` has no state in which
`CallsInv` is false, and all four hypotheses hold of each of its trials.

`NamesAreDeclared` follows the declarations through all handlers of a service in
their order. Three facts are kept while they are emitted: what is recorded as
emitted under a name was declared under it, or it is the type that a path names
(`Declaring`); the types of the fields of what was declared are declared
(`Complete`); nothing is lost (`More`). They need `Unambiguous`, without which
the code does leave names undeclared (see the divergences): a name means one
type, and a type that a method names by its path is named by no field.

`Induction` is what these stand on. The provers cannot instantiate a rule that
has a predicate for a parameter, so a statement about every number is made
into the set of numbers it holds for, and a set other than `Nat` would lack a
least number. That a function defined by recursion on a measure exists
(`Recursion`) is shown in the same way.

Assumptions of the constants, all evaluated by TLC on the instances:

* `ServicesAssumption`: a service is a record of its name, leaves, sockets and
  hooks. A WebSocket or SSE handler has no policy, as the macros give it none
  (`afast-macros/src/handler.rs` 1622, 1907), and no group; a pattern is never a
  single empty segment and a group never without a name, since the text of a
  route is trimmed of slashes and an empty group is skipped.
* `RequestsAssumption`: the path of a request is trimmed and split in the same way,
  the root is the empty path.
* `HooksAssumption`, `NoneAssumption` (`HttpDispatch`): the global hooks are a
  sequence of names, and `None` is no value of the model.
* `TagAssumption`: the tag of an enum has one, two or four bytes, by the
  features of the crate. `LayersAssumption`: a type is made of types that come
  before it, its names are distinct and its tag has room for its variants, which
  Rust and the derive macro see to; the unit type stands only for a whole return
  type and a payload is not skipped, which nothing sees to. Recursive Rust types
  (through `Box`) are thereby left out: the generators do not end on them.
  `ValuesAssumption`: the values of a type are of it, and no longer than the
  count before them can say.
* `NoneAssumption` (`Wire`), `UndefAssumption` (`TsClient`): Rust's `None` is a
  value of options and of the unit type alone, JavaScript's `undefined` of
  nothing, and a list is not an item of itself (`Array`). In `Web` the
  characters that separate the parts of a URL are among those that are escaped.
* `TrialsAssumption`: what is passed and returned is of the types of the method; the
  Rust client has no ordinary methods and no cache.

Model-checked only: all liveness (fairness and ENABLED are out of the prover's
reach); `OrdinaryArrives`, since the text of a number is TLC's `ToString` and URLs
are joined and split by folds whose operator parameter the provers cannot
instantiate; and the refuted properties.

## Known divergences that no run shows

Met while translating; each is left out of what the properties claim.

* Long connections: a handler's empty message is, on the wire, the closing
  frame. Kotlin and C# call a socket closed after 500 ms whatever the server
  does, send no heartbeats, and register a push handler on another thread than
  the reader's: a push may be lost, as it may in TypeScript over TCP.
  `NoPushLost` is therefore about browsers. A second `close()` before the answer
  replaces the promise of the first, which never resolves. The Rust client takes
  the first frame after its request for the reply, a push too.
* The loop of a socket awaits each write inside its branch, without a timeout
  (`tcp.rs` 349, 477, 486; `ws.rs` 435): a client that is connected and does not
  read holds it for ever, with every pump and handler behind it, and its
  heartbeats are no longer read. The liveness properties of `EchoConn` say so in
  `ClientReads`.
* `Sender::send` keeps succeeding after the socket is gone: the pump takes each
  message and drops it (`tcp.rs` 391-395).
* A pump removes the id it was given, whatever the table holds under it
  (`tcp.rs` 420). After 2^32 connections on one socket that is the entry of a
  newer connection, whose handler is then told that it is closed. The invariants
  about lost entries are about ids that have not wrapped. `KeepsContract` is
  checked with an id that is taken over, but its contract asks no connection for
  the cause of its end.
* In Kotlin over TCP and in C# a write to a lost socket throws (`kt.rs` 2369,
  `cs.rs` 2123, 2155): the call fails at once and its entry stays in `_pending`
  until the timer, and a `close()` that throws never counts as closed.
* Request ids count to 2^53 in the client, are 32 bits on the wire and read back
  signed: after 2^31 calls no reply finds its entry.
* `tcp.rs` `read_frame` reads length and body in two awaits inside `select!`; a push
  in between drops what was read, and the stream is out of step from there.
* `max_connections` is documented as the "maximum number of concurrent
  connections": when it is reached, new ones "wait on a semaphore until an
  existing connection closes" (`app/mod.rs` 673-677, and so 563-565). A
  WebSocket upgrade ends the task that held the permit, so an open WebSocket is
  not counted, and any number of them can be open at a time. `PermitsConserved`
  and `HttpBounded` are about what is served over HTTP.
* Of two equal routes the one declared last is served, while a comment says "first
  match wins" (`http.rs` 686); `RoutedToBest` states what the code does.
* WebSocket and SSE routes are asked before the built-in endpoints, their
  catch-alls too, while a comment (`http.rs` 687-690) and
  `docs/en/src/core-concepts.md` 292 put the built-in endpoints before every
  catch-all. `BuiltinReachable` therefore makes exceptions of them.
* Rate limiter: a call that is decided after its window comes on top of the
  limit of the next one (above, and `rate_limit/mod.rs` 287, 504); each bucket
  call stores the refill rounded down and moves the time of the last refill, so
  who asks often enough is never refilled (`rate_limit/mod.rs` 330); over
  sockets `client_ip` is IP:port also for the key `Ip` (`tcp.rs` 177); `decr`
  returns 0 for the last token as for none and the default `try_consume_token`
  is not atomic (lines 220, 236; no store of the repository uses it);
  `window_secs = 0` divides by zero; handlers in groups are never limited.
* Stable ids leave out the groups: two handlers of one name in two groups of a
  service share an id, and the collision check lets the later one replace the
  other (`app/mod.rs` 1706-1724). Merging a service drops the hooks of the second.
  A comment says that hooks of a service override the global ones
  (`service/mod.rs` 50); they are appended to them (`app/mod.rs` 1149-1152).
* A pattern that uses a parameter name twice: beside `/:id/a/*rest`, `/:id/a/:id/b`
  takes the outer `id` away. On `/1/a/2/c` the branch of the second is left, and
  its `id` is removed from the map that already held the first (`ordinary.rs` 373).
* HTTP: a reload with `None` reloads the last path given, not the original one
  (`app/mod.rs` 850); CORS headers are missing on 404, 405 and 429, on the code
  and doc endpoints and on sessions; `on_error` is not called for an ordinary
  handler's own `Err`, and its guards are closed in the order they were opened,
  binary ones in reverse.
* Path parameters are not percent-decoded by the server though the clients encode
  them; Kotlin does not encode URLs; `url.replace(':' + name)` hits a name that
  begins with another; C# escapes the `=` of its query and sends JSON in Pascal
  case without headers.
* Kotlin has no unsigned integers. Rules with a negative literal are dropped on
  the client. Rules on the fields of the structs in a `Vec`, or of structs
  within these, make the generated TypeScript and JavaScript look for the fields
  on the list itself, where they are `undefined`, and throw (`ts.rs` 938-944,
  983-988): such a method can never be called with a list, whatever is in it. In
  TypeScript and JavaScript a `u64` above 2^53 loses digits, as it is added up
  in a double (`ts.rs` 3234, `js.rs` 2996). The cache ignores customs and so is
  shared across logins; in C# its key is the class name, for which C# is not
  among the cached methods. Some generated code does not compile and is not
  modelled: `Custom` parameters, enum answers and optional numbers in C#,
  numeric rules and lists of numbers in Rust.
* Customs are written before the data whatever the signature says, the server
  reads in its order (`ts.rs` 1343, `handler.rs` 970): a method that has its data
  first is read wrong (`InOrder`). The payload of a variant that is an `Option`
  is refused by the clients when it is `None` (`Checkable`).
* A type that a method takes or returns is declared under a name with the
  method's path only, yet its own name is recorded as emitted too (`ts.rs`
  574-602): a field of another type that names it refers to nothing, although a
  comment says that every referenced type appears exactly once (`ts.rs`
  609-612). The same happens to a name that a filtered field makes two types
  share (`Unambiguous`).

## Not modelled

* TCP framing: bytes of a frame cut in pieces, see above.
* The document generator (`codegen/doc.rs`): a stateless function from metadata to
  HTML, Markdown and OpenAPI text, the largest file of the crate. Which requests
  reach it is in `HttpDispatch`.
* The text of generated code as text, groups as nested objects, the methods for
  ordinary WebSocket and SSE routes (they return the browser's own object).
* Attribute parsing of the procedural macros and multipart form data; state and
  context maps, filled before the server starts and read afterwards; setters of
  configuration values; the default methods of the limiter's store.
* hyper, TLS, `afastdata`, the browser: external, modelled only by what the code
  uses of them. The example application.
