# A TLA+ verification of the reverse proxy

This directory holds TLA+ modules that model the concurrent parts of the
proxy, the configurations with which TLC checks them on small instances, and
proofs that TLAPS checks for every value of the constants. `PROJECT.json` lists
the components, the runs, the source lines of every definition, the findings
and the hazards.

Paths such as `proxy/relay_session.cpp` are relative to `src/src/`.

## 1. The system

A process has one *ingress* thread and N *worker* threads, each with an asio
`io_context`.

- The ingress thread accepts TCP connections and receives the datagrams of the
  shared UDP sockets. It hands both to workers by posting to their contexts.
- A worker owns its connections. Each has a `ProxyCore`, a QUIC server engine, a
  router, and a pool of backend connections with a QUIC client engine.
- A `RelaySession` serves one client stream: one H1 connection with many
  requests, or one H3 stream with one request. It parses through a codec, gets
  a backend from the pool, relays both ways and returns or closes the backend.
- lsquic runs the QUIC protocol. It calls the proxy back, synchronously, when a
  stream is new, readable, writeable, reset or closed, when it issues or retires
  a connection ID (CID), and when it has datagrams to send.

All handlers of a worker run one at a time, so a handler is one atomic step of
the models. Three things still interleave: handlers of different threads,
handlers of one thread that wait in its queue, and completions that are queued
when `cancel()` or `expires_after()` is called, which neither can recall. Most
of the hazards in this code come from the third.

### Inventory

| Part | Source | Modules |
|---|---|---|
| Relay session | `proxy/relay_session` | `RelaySession`, `ExchangeLedger` |
| Relays and pool together | `proxy/relay_session`, `proxy/upstream_pool` | `PooledExchange` |
| Upstream pool, TCP | `proxy/upstream_pool` | `UpstreamPool` |
| Upstream pool, QUIC; QUIC session | `proxy/upstream_pool`, `transport/quic_transport` | `QuicPool` |
| QUIC stream; H3 codec as its user | `transport/quic_transport`, `codec/h3_codec` | `QuicStream` |
| Server, hand-off and shutdown | `proxy/reverse_proxy_server`, `proxy/proxy_core` | `ProxyServer` |
| QUIC demultiplexer, inbound | `transport/quic_demux` | `QuicRouting` |
| QUIC demultiplexer and server engine, outbound | `transport/quic_demux`, `transport/quic_transport` | `QuicSend`, `QuicOutput` |
| QUIC client engine | `transport/quic_transport` | `QuicSend`, `QuicClient` |
| H1 codec, message bodies | `codec/h1_codec`, `codec/http_message` | `H1Codec` |
| TCP transport | `transport/tcp_transport` | reads in `H1Codec`, outcomes in `RelaySession`, faults in `ProxyServer` |
| Statistics | `proxy/stats` | counters in `RelaySession` |
| Router | `proxy/router` | its two outcomes in `RelaySession` |
| Configuration, `main` | `config`, `main.cpp` | not modelled |
| eBPF steering, examples, tests | `ebpf/`, `examples/`, `tests/` | not modelled |

The modules named `MC...` instantiate these for TLC, and the modules named
`...Proofs` hold the proofs: `PooledExchangeProofs` those of both TCP pool modules,
`QuicSendProofs` those of `QuicSend`, `QuicOutput` and `QuicClient`.

## 2. The modules

### `RelaySession` and `ExchangeLedger`

The variable `r` is the relay's record. Its fields are the members of the class
(`phase`, `done`, `draining`, `backend`, `from_pool`, `pending_body`, ...), the
operation that is pending (`op`, `pump`), the idle timer (`armed`: a wait is
pending; `expired`: its expiry is queued) and what is observed (the counters of
`ProxyStats`, `sends`, `late`, `fault`). `stopping` says that `graceful_close`
has run. `silent` says that the peers send nothing more.

The functions of the class are operators on this record, under their own
names: `teardown`, `kick_idle_timer`, `write_error`, `finish_backend`,
`after_client_response` and so on. Each completion handler is an action that
applies them in the order of the code: `RequestParsed` covers `request_phase`
and `handle_forward`, `ResponseParsed` the handler in `response_phase`,
`PumpStep` both handlers of `pump_bytes`. A handler that does not look at
`done_` runs in the model after teardown as well. Torn down means that `done_`
is set; a TCP descriptor with a read pending may outlive it.

Codec, pool and transport are abstracted to the outcomes of their operations.
A request has the attributes the relay branches on: kind of target, whether it
routes, upgrade, body, keep-alive. A response is a switch of protocols, a
success or an error. What a response leaves on its connection is the subject of
`PooledExchange`. A QUIC stream has two outcomes of its own. A take of headers may
never be answered: `on_reset` and `on_close` do not complete it. A backend stream
that closes before the request is out ends in a null stream or in a callback that
was moved from (`BackendStreamGone`, fault `closed_stream`).

`ExchangeLedger` is the abstract specification. Requests are taken one at a
time, each gets one answer or becomes the connection's tunnel, and a tunnel
takes no further request. `RelaySession` implements it by mapping its counters
(`LedgerKept`).

### `UpstreamPool`

The TCP pool of one worker with its callers: `idle`, the queue of each
configured endpoint; `state`, `target` and `user`, where a connection is, where
it leads and who holds it; `rr_index`, the index that all groups share. The
actions are `async_connect`, `async_connect_fresh`, `reconnect_backend_fresh`,
`ConnectDone`, `release` and `Close`. Endpoints with the same address in two
groups, and direct targets that are not configured, are in the instance,
because `release` finds its queue by value. The endpoint is an argument of
`release` and `reconnect_backend_fresh`, as in the code: the relay has noted it. In
this module it is the one the connection leads to; `PooledExchange` shows that the
relays keep to that. A name that does not resolve throws
out of the handler and is the value `resolve` of `fault`.

### `PooledExchange`

Several relays and their pool in one specification. It extends `UpstreamPool`:
each handler of a relay is the conjunction of one pool action and a change of the
relay's exchange (`exch`), of the endpoint it noted (`backend_endpoint`) and of
what each connection still owes (`owed`: a sequence of 1xx heads, heads and
bodies, each with the request it answers). `teardown` does what the class does: it
does not take a pending operation back. A connect that completes afterwards goes
on, and a request write that was pending completes later (`LateRequestWritten`,
`LateRequestWriteFailed`); when it fails, the relay still dials the endpoint it
noted, with no connection held. `left` marks connections on which a relay left
part of a response. `served` counts how often a backend was given a whole request.
Backends answer in order, may cut a response anywhere and may close at any point.

### `QuicPool`

The QUIC pool: `conns`, the sessions kept for each backend; `sess`, the life,
the callback slot and the opens of each session; `call` and `at`, the callers.
lsquic is external. It answers an open with a stream or with a null stream, and
it may close a connection at any point. `NullOutcomes` lists what
`lsquic_stream_conn(nullptr)` may do: it is undefined, so all outcomes are
checked.

### `QuicStream`

One H3 request stream: the fields of `QuicTransportStream` together with the
place of the relay that uses it. Callbacks run inside the call that completes
them, so each operator maps the record to the *set* of records that the whole
call may leave. `on_close`, for example, is the composition of the read's, the
write's and the shutdown's callbacks, each of which may call the stream again.
The user is the relay on an H3 client stream: take the headers, read the body,
send headers and chunks, shut down, drain. Headers are taken unless the peer reset
its side first; then the take stays pending. An H3 request always has a body
source and no retry. A bridge over H3 would need a request that HTTP/3 forbids
and is left out.

### `QuicRouting`

Inbound datagrams. `table` is `cid_to_worker_`, which workers change
(`on_new_scids`, `on_old_scids`) while the ingress thread reads it (`route`).
`inbox` holds the posted calls of `deliver_packet`, `got` what the engines were
given. `route` is the code's three-way choice: the table, the routing byte, the
hash. The hash is a constant, so nothing depends on FNV-1a.

### `QuicSend`, `QuicOutput`, `QuicClient`

`QuicSend` is the part both kinds of engine share: `send_specs`, which goes on
after a datagram that failed and returns a count, and lsquic's reading of the
count as the length of a prefix. `QuicOutput` composes it with the server: the
engines of the workers, the report of a blocked send to the ingress thread
(`notify_tx_blocked`), the write watch of each socket with its flag, the posted
flushes, and `stop`. `QuicClient` composes it with the client engine, which
starts on the first `connect`, opens its IPv6 socket on the first IPv6 backend,
and watches its own sockets. Its operators have the prefix `client_` where the
server has one of the same name.

### `H1Codec`

HTTP/1.1 framing as an algorithm on a sequence of units. `wire` holds the
messages of a connection as heads, line ends, data and chunk framing; a unit is
known by its position, so that what is dropped, repeated or misread can be told.
`c` is the codec with its body source: the read of a header block with the bytes
that come along, the four framings, the keep-alive decision, the chunk decoder,
`pump_body_to_stream`. A message may also be given up (`Drop`): `write_error` answers
a request whose body was not read, and the error of a response write is ignored;
either way the connection is used on. `cut` records that part of it was still to
come. How a read is cut is up to the network. The one-byte
buffer of the chunk decoder is used after its lifetime; the model reads an
arbitrary value there.

### `ProxyServer`

The life of the process: `start`, the accept and receive loops, the queue of each
worker, `stop`, `begin_shutdown`, `finalize`, `hard_stop`, and what a worker's
handlers do to its connections. `accept` and `recv` tell apart an operation that
is pending, one that is queued as complete, and one that was aborted. A QUIC
connection is in its handshake before it is live: only then does `on_new_conn_cb`
make the session that `graceful_shutdown` finds. `stop` may be called by another
thread at any point after `started_` is set. `late` holds the sockets handed over
and the sessions made after the shutdown began. The exceptions of
`remote_endpoint()` and the null `ingress_io_` are values of `fault`; nothing runs
after one.


## 3. The runs

| Run | Module, configuration | Distinct states | Properties |
|---|---|---|---|
| `relay_safety` | `MCRelaySession`, `MCRelaySession.cfg` | 150,012 | `RetryOnce`, `BackendHeldWhileNeeded`, `QuietBetweenRequests`, `OneRequestWhileDraining`, `NullBackendOnlyAfterTeardown`, `LedgerKept`, `SilentRelayTornDown`, `DrainCompletes` |
| `pool_safety` | `MCUpstreamPool`, `MCPool.cfg` | 66,596 | `OneOwner`, `QueuedWhereItLeads`, `EvenWhileAlone` |
| `exchanges` | `MCPooledExchange`, `MCPooledExchange.cfg` | 414,099 | `SentWherePicked`, `HeldForExchange`, `OwnResponseUnlessLeft`, `ServedOnce` |
| `mixed_response` | `MCPooledExchange`, `MCMixedResponse.cfg` | violated | `OwnResponse` |
| `quic_pool` | `MCQuicPool`, `MCQuicPool.cfg` | 150,220 | `PooledUsable`, `CallbackKept`, `NoneLost`, `AnsweredUnlessLost` |
| `quic_stream` | `MCQuicStream`, `MCQuicStream.cfg` | 9,029 | `TypeOK`, `WritesAccounted`, `NoStalledOperation`, `ClosedSettled`, `AnsweredOnce` |
| `quic_stream_closed` | `MCQuicStream`, `MCQuicStreamClosed.cfg` | violated | `ClosedIsSafe` |
| `server` | `MCProxyServer`, `MCServer.cfg` | 716,355 | `OneHome`, `EarlyOnesTold`, `StillListening`, `StopCompletes` |
| `quic_routing` | `MCQuicRouting`, `MCQuicRouting.cfg` | 29,640 | `IssuedLeadsHome`, `OneEngineInOrder` |
| `quic_output` | `MCQuicOutput`, `MCQuicOutput.cfg` | 83,540 | `RetryOnItsWay`, `LostBehindGapOnly`, `Flushed` |
| `quic_client` | `MCQuicClient`, `MCQuicClient.cfg` | 27,763 | `EverySocketReceives`, `HeldIsWatched` |
| `h1_codec` | `MCH1Codec`, `MCH1Codec.cfg` | 471,522 | `TypeOK`, `BodyAccounted`, `OwnUnitsInOrder`, `Synced`, `BodyEnds` |

`tlc -config MCPool.cfg MCUpstreamPool` runs one of them. `PROJECT.json` also
lists a mutant for each property: an altered form of one definition (marked
"Altered" in the module) under which TLC finds that property violated.

### What the properties say

- **One relay.** A request is written to a backend twice at most, the second
  time without a body and on a fresh connection. A live relay holds a backend
  exactly while an operation needs it. The FIN of `graceful_close` is sent only
  while nothing but a read is pending, and a draining relay takes at most one
  more request. Every request is settled once, whatever fails, expires or
  drains. A relay whose peers fall silent is torn down; one whose peers answer
  comes to its end after `graceful_close`, unless it is a byte bridge. Where a QUIC
  stream leaves a wait unanswered it takes the idle timer to get there.
- **Relays and their pool.** A connection is queued once or has one holder, and is
  queued where it leads. It is out of the pool exactly while an exchange uses it.
  A request is sent to the endpoint that was picked for it and to no other, also
  when it is retried after a teardown. No request is given to backends twice. A
  relay passes on the response of its own request, unless part of an earlier
  response was left on the connection. While one group is in use its endpoints are
  picked in turn.
- **QUIC connections to backends.** The pool holds only usable sessions, loses
  none, and never overwrites a callback that a relay awaits. Every connect is
  answered, with one exception described below.
- **A QUIC stream.** What lsquic took is what the relay was told. No read or write
  waits for an event that was not asked for. No read, write or shutdown outlives
  the stream; a take of headers may. A response is reported once.
- **Datagrams.** A datagram reaches the engine that issued its CID. All
  datagrams of a CID reach one engine in order. Each datagram that a full socket
  held back is sent in the end, unless a send fails in another way in its batch or
  `stop` cancels the watch, and no report of it is lost between the threads.
- **H1 framing.** What is forwarded of a body is a run of its own bytes without
  a gap, up to its end if it has a length. A connection that is kept is at a
  message boundary unless a message on it was chunked, was sent ahead of the answer
  before it, or was given up after an error. A body with a length ends or is given
  up.
- **The process.** A connection lives on one worker. The posted
  `graceful_shutdown` reaches every TCP socket that was handed over before it and
  every QUIC session that was made before it. Both loops survive errors. A stop
  ends the process.

### Where the code and its documentation disagree

Two runs show a disagreement:

- `mixed_response`. `docs/design-decisions.md:126` promises that a connection
  that is returned is at a clean boundary. The handler of
  `async_write_response` (`proxy/relay_session.cpp:383`) returns every
  keep-alive connection. If a 1xx was relayed as the response, or the client
  write failed inside the body, the rest is still to come and the next relay
  takes it for its own. The same happens when the chunk decoder ends early or in an
  error (`codec/h1_codec.cpp:51`, `:115`, `:443`). `OwnResponseUnlessLeft` shows that
  nothing but a response that was not read to its end leads there.
- `quic_stream_closed`. `docs/transport.md:181` says that every `async_*` call
  is safe after a close. `async_shutdown` (`transport/quic_transport.cpp:71`)
  passes the null `stream_` to lsquic.

The others are stated by properties that say exactly what does hold:

| Code | Statement it contradicts | What holds |
|---|---|---|
| `proxy/relay_session.cpp:304`: a request write that completes after teardown goes on with a null `backend_` | `docs/relay-session.md:177` | only a torn-down relay gets there (`NullBackendOnlyAfterTeardown`) |
| `transport/quic_transport.cpp:555`: a null stream has no session to report to | the comment at `:361` | every other connect is answered (`AnsweredUnlessLost`) |
| `transport/quic_transport.cpp:203-246`: `on_reset` and `on_close` leave `headers_cb_` pending | the comment at `:230`, "Unblock any pending operations" | reads, writes and shutdowns are completed (`NoStalledOperation`, `ClosedSettled`), and the idle timer ends the relay (`DrainCompletes`, `SilentRelayTornDown`) |
| `proxy/relay_session.cpp:383`: a connection is kept after a message on it was given up (`:442` does the same on the client's side) | `docs/design-decisions.md:126` | every other kept connection is at a boundary, chunks and early requests apart (`Synced`) |
| `proxy/reverse_proxy_server.cpp:184`: `stop` between `started_` and the creation of `ingress_io_` posts to a null context | `proxy/reverse_proxy_server.h:52`, "Safe to call from any thread" | every other stop ends the process (`StopCompletes`) |
| `transport/quic_demux.cpp:39`: `send_specs` counts sends behind a failed one | `transport/quic_transport.cpp:823`, "never over-report" | lsquic forgets an unsent datagram only behind such a gap (`LostBehindGapOnly`) |
| `proxy/upstream_pool.cpp:48`: all groups share `rr_index_` | `proxy/upstream_pool.h:41` | the spread is even while one group is used (`EvenWhileAlone`) |
| `codec/h1_codec.cpp:115`, `:287`, `:299`: chunk sizes from a dead buffer, body bytes dropped after the head, pipelined bytes dropped | FIXMEs in the code | `OwnUnitsInOrder`, `BodyAccounted` and `Synced` say which bytes and which connections are affected |

Some more are visible in the models and have no property. `codec/h1_codec.cpp:557`
writes a chunked body without chunks, against `docs/design-decisions.md:45`.
`proxy/reverse_proxy_server.cpp:197` cancels the UDP receive before the GOAWAY,
so that an H3 request in flight gets no further datagram, against
`README.md:24`. A QUIC connection that is in its handshake when
`graceful_shutdown` runs has no session yet (`transport/quic_transport.cpp:783`) and
is never told. The comment at `transport/quic_demux.h:125` is stale: `route` hashes
the CID of an unknown connection, not the source address.

### Bounds

| Instance | Bounds | Why they are enough |
|---|---|---|
| Relay | 3 requests of 9 kinds, 3 kinds of response | a request before, during and after a drain or retry; each kind is one combination of branches |
| Pool | 2 callers, 4 connections, 2 groups that share an address, 2 direct targets, 1 idle slot, 4 picks | a full queue, a hand-over between callers, a lookup that finds another group's endpoint |
| Exchanges | 2 relays, 3 connections, 3 requests, 1 group of 2 endpoints, 1 idle slot | a connection used by one relay and then by another while a third connection replaces it; a retry that could go to the other endpoint |
| QUIC pool | 2 callers, 2 backends, 3 sessions | two callers on one backend, a stale session and its replacement |
| QUIC stream | 2 writes of 1 to 3 units | a write that is cut twice, and one after it |
| Server | 2 workers, 2 TCP clients, 1 QUIC connection with requests of 2 datagrams | hand-offs and handshakes before and after the posted shutdown on each worker |
| Routing | 3 workers, 4 byte values, 1 name, 3 datagrams | a byte that names no worker, a CID registered and removed between its datagrams |
| Output | 2 workers, 2 packets, 2 reports and 1 flush waiting at a time, 1 failed send | a report while the watch is armed, a send that blocks again and again, and a gap |
| Client engine | 3 packets, any number of blocked sends, 1 failed send, 3 connects, 2 receives | IPv4 first, IPv6 later, and a connect after a failed one |
| H1 | 2 messages of 9, header cap 4, pump buffer 2, chunks up to 3 | a body larger than the buffer, one complete with its head, a message after each |

Each bound is a guard of the action that would pass it. Callers and connections
are symmetric in the pool and in the exchanges, and these two runs use symmetry;
they check no liveness. Deadlock is checked in `quic_output` and `quic_client`.
In the other models the system may stop: a relay is done, a process has ended,
or the budget of requests or datagrams is used up.

### Fairness

Fairness is assumed only of what an event loop or an external party must do in
the end. The client, the network, errors, resets, timeouts and `stop` are never
forced.

- `relay_safety`: a timer that nothing re-arms any more, because the peers are
  silent or the wait is one that QUIC may leave unanswered, expires, and its queued
  handler runs. As long as the peers are not silent, any other pending operation
  completes (weak fairness per operation), and a drain that is offered end of file
  again and again takes it (strong fairness). Nothing is assumed of the peers once
  `silent` holds, nor of a take of headers or a connect on a QUIC stream.
- `quic_pool`: lsquic answers an open that was asked for.
- `server`: the threads run what is posted to them (`start`, `begin_shutdown`,
  `finalize`, `hard_stop`); both grace periods are timers.
- `quic_output`: a socket that is full drains, the handlers that wait for it or are
  posted run, and a flush that is tried again and again on drained sockets is
  accepted at some point (strong fairness). How often a send blocks before that is
  not bounded.
- `h1_codec`: announced bytes arrive, and reads and writes complete.

## 4. The proofs

TLAPS checks the proofs for every value of the constants: any number of
relays, connections, workers, requests and datagrams, and bodies, reads and
writes of any size. Every safety property that a passing run checks is also a
theorem. `tlapm RelaySessionProofs.tla` checks one module; the two largest,
`H1CodecProofs` and `PooledExchangeProofs`, take 10 to 20 minutes.

The assumptions are those that the modules state (`PoolAssumption`,
`RoutingAssumption` and so on). Most say that a bound is a number, or that a null
value is none of the things it stands beside. One says more: `RoutingAssumption`
allows at most as many workers as the routing byte has values.

An invariant is proved by strengthening it until every action preserves it. For
each module:

- **`RelaySessionProofs`**: `AccountingHolds`, `RetryOnceHolds`,
  `BackendHeldHolds`, `QuietHolds`, `TimerHolds`, `DrainingHolds`,
  `NullBackendHolds`, `LedgerRefinement`. The strengthening says, of every
  pending operation, which phase, flags, pumps and counters go with it. It is
  needed because a handler looks at `done_` and `backend_` but not at what was
  pending when they changed. Lemmas state what each helper
  (`close_backend`, `teardown`, `after_client_response`, ...) does to a record;
  each action is then the composition of a few of them. For the refinement,
  every action is shown to leave the counters alone or to be one step of
  `ExchangeLedger`.
- **`PooledExchangeProofs`**, the pool: `OneOwnerHolds`, `QueuedHolds`, `BoundHolds`.
  The strengthening ties the three views of a connection together: its state, the
  queue that holds it and the caller that uses it. `TakenInTurn` has an invariant of
  its own (`InTurn`): while a group is alone, `rr_index` is the number of its picks,
  `q` rounds of its endpoints and `r` more, and the endpoints of the lowest `r`
  ranks are one pick ahead. That a pick continues this is a lemma about remainders
  and one about the ranks of a finite set. The model's index does not wrap, so
  the theorem speaks of as many calls as `std::size_t` counts.
- **`PooledExchangeProofs`**, the relays: `SentTheorem`, `HeldTheorem`,
  `OwnResponseTheorem`, `QuietTheorem`, `ServedTheorem`. The invariant of the pool
  is carried over by a lemma: as long as what a relay notes is the endpoint of its
  connection (`SentWherePicked`), its steps are steps of `UpstreamPool`. The two are
  proved together (`ExchangeInvariance`), because that a pooled connection leads to
  the endpoint picked is in turn an invariant of the pool. The other theorems need
  two more facts. A connection on which nothing was left owes at most the
  response of the one exchange that uses it, and requests are numbered, so that
  no two exchanges carry the same one.
- **`QuicPoolProofs`**: `PooledTheorem`, `CallbackTheorem`, `NoneLostTheorem`. The
  strengthening relates both ends of an open: every stream that was asked for
  has a caller waiting for it, and every waiting caller's session holds its
  callback and has an open asked for or is going away.
- **`QuicRoutingProofs`**: `HomeTheorem`, `OneEngineTheorem`. The strengthening says
  that the table agrees with the routing byte, that every queued datagram is
  where `route` would send it now, and that queues are in order and behind what
  was delivered.
- **`QuicSendProofs`**: lemmas for batches of any length say what the count of
  `send_specs` is, and that without a gap it is the length of the prefix that was
  sent. On them rest `RetryTheorem` and `GapTheorem` for the server's output, and
  `ReceiveTheorem`, `ReachableTheorem` and `WatchedTheorem` for the client engine,
  whose invariant adds that a connection of a family exists only with its socket.
- **`QuicStreamProofs`**: `TypeCorrect`, `EveryUnitAccounted`, `NothingStalls`
  (reads and writes), `CloseSettles`, `ResponseReportedOnce`. A step of the model
  is a whole call with the callbacks made inside it, in the middle of which the
  properties need not hold. The invariant has therefore two parts. `Sound` holds
  at every point of a call: it says which callbacks can be set at each place of
  the relay. `AtRest` holds between calls: it says that the write watch is on
  exactly while a write is queued and that a closed stream has nothing pending.
  Each operator has a lemma that says what it needs and what every record it may
  leave satisfies.
- **`ProxyServerProofs`**: `EveryConnectionHasOneHome`, `ShutdownReachesEarlyOnes`,
  `LoopsGoOn`. That no early connection escapes the drain follows from where its
  handler is. As long as `graceful_shutdown` is queued on a worker, the handler of
  every early connection that has not run is ahead of it (`Ahead`); afterwards no
  early connection is waiting or active (`Told`). `Queueing` and `Once` say that what
  is posted is in its queue, and a socket only once. A QUIC connection counts as
  early from the moment that it is live.
- **`H1CodecProofs`**: `TypeCorrect`, `BodiesAreAccounted`, `UnitsStayInOrder`,
  `KeptConnectionInStep`. The properties speak of what was forwarded, the code
  counts what is still to be read. `SourceFits` relates the two: for each kind of
  body source, position and remainder add up to the end of the message. `Places`
  says at which message the codec is, `Arrivals` that the peer does not send ahead
  of its answer unless `early` says so, `Finished` and `Boundary` where a message
  that has ended, or was given up after all of it was read, leaves the connection.
  The chunk decoder goes by an arbitrary byte, so of a chunked message the
  invariant says only that positions grow and stay inside it.

The type invariants of these modules are proved on the way, as are `Accounting`,
`TimerCoversLiveRelay`, `IdleBounded`, `NothingUnreachable` and `QuietUnlessLeft`,
which no run repeats.

Only model-checked are the liveness properties (`SilentRelayTornDown`,
`DrainCompletes`, `AnsweredUnlessLost`, `StopCompletes`, `Flushed`, `BodyEnds`),
which hold under fairness: that is out of reach for this prover, as is `ENABLED`.
The two violated properties, `OwnResponse` and `ClosedIsSafe`, have no proof of
course; what does hold in their place is proved (`OwnResponseTheorem`,
`CloseSettles`).

## 5. What is not modelled, and why

- **Configuration and `main`** read a file once and call `run`. No state changes
  afterwards.
- **The router** is a lookup in a table that is fixed at start. Its outcomes, a
  group or none, are in `RelaySession` and `PooledExchange`.
- **Rendering the statistics, logging, formatting addresses** change no state that
  a property tells apart. The statistics listener shares nothing but the
  counters with the rest; its response is a local that `async_write` outlives
  (`proxy/reverse_proxy_server.cpp:246`), which is a matter of one scope and not
  of order.
- **TLS set-up, the settings of the lsquic engines and its header-set
  callbacks** are calls of a library, whose protocol is external here.
- **Parsing of header lines**: names, values and case folding. A malformed head is
  one failure outcome of `H1Codec`.
- **The H3 stream to a backend and the byte bridge over H3** are not instances of
  `QuicStream`. The module's user is the relay on a client stream. An H3 upstream
  is seen by `QuicPool` up to the point where its stream is open.
- **The fallback from IPv6 to IPv4** when the listening sockets are opened.
- **Ownership.** The models have no reference counts. The cycle in
  `pump_body_to_stream` (`codec/http_message.cpp:140`) keeps a relay's objects alive
  whatever happens, so no order of events bears on it.
- **eBPF steering, examples and tests** are not part of the proxy. The routing
  byte that the eBPF program reads is in `QuicRouting`.
