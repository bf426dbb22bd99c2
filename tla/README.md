# A verification of smf

smf is an RPC framework for C++ on seastar: a client, a server, the envelope
both put on the wire, filters that compress bodies, a code generator (`smfc`)
that writes typed clients and services, and tools around them.  This directory
models all of these parts in TLA+, checks the models with TLC on small
instances, and proves with TLAPS all safety properties that the runs check but
one, for all instances.  Source paths below are relative to `src/` of the repository.

Apart from `smfc`, which is an ordinary process, all code that shares state runs on one seastar reactor (one core).  The code
between two suspension points (`.then`, a semaphore, a gate, a stream) runs
without interruption, and everything else interleaves.  One TLA+ action is one
such stretch of code.

## The system

| part | state | operations | what makes it hard |
|---|---|---|---|
| `rpc_client` (`core/rpc_client.cc`) | `conn_`, `rpc_slots_`, `session_idx_`, `read_counter_`, `dispatch_gate_`, `serialize_writes_`, memory units | `send`, `connect`, `reconnect`, `stop`, background writes, the read loop | calls, writes, a read loop and user fibers interleave; a timeout abandons a read that goes on; replies arrive late or for another connection; a 16 bit session id wraps |
| `rpc_server` (`core/rpc_server.cc`) | `open_connections_`, statistics, `reply_gate_`, memory units, `stopped_` | accept loop, one reader per connection, one fiber per request, `stop` | fibers of one connection race to close it; units cross from reader to fiber; stop races buffered requests; exceptions skip steps |
| `rpc_connection` | `enabled_`, `error_`, streams | `disable`, `set_error`, `is_valid` | shared by all fibers of a connection |
| `rpc_recv_context`, `rpc_envelope`, `rpc_letter`, `rpc.fbs` | the header and the body | parse header and body, write, checksum | zero values of fields, sizes at 2^31, a header and its body are two writes |
| filters (`zstd`, `lz4`, `rpc_filter.h`) | compression flag, body, checksum | compress, decompress | flag, size and checksum change together, only above a minimum size |
| `reconnect_client` | backoff, `reconnect_gate_` | `connect`, background reconnect, `stop` | concurrent reconnects, stop during a sleep, the backoff table |
| router, services (`rpc_handle_router.cc`) | list of services | register, first match | collisions of xor-ed ids |
| `load_generator`, `load_channel` | channels, a semaphore, `total_bytes` | connect, benchmark, stop | loops nobody waits for, rounding, failures, exit at any moment |
| `histogram` | HdrHistogram, two counters | record, add, buckets | recorded by a destructor; bucket edges and padding |
| `smfc` | flags, parsed schema, files on disk | check flags, parse, print, remove, write | partial failures, kills, an input that changes; ids across languages and versions |

`RpcClient` writes requests that `RpcServer` reads, and reads the replies.  In
each of the two modules the other end is an environment that is at least as
free as the other program: it answers whole requests in any order, once each,
hangs up, resets or falls silent.  `RpcCallPath` composes the two ends for one
call and follows header and body through both.  `ReconnectClient` and
`LoadGenerator` sit on top of `rpc_client` and keep of it what they notice; what
they assume (its gate empties, its calls end) is what `client_reconnect` checks.

## Modules

| module | models |
|---|---|
| `RpcCalls` | what a client promises: a call ends once, with its own reply or an error |
| `RpcClient` | `rpc_client` and its connections |
| `RpcServer` | `rpc_server` on one core and its connections |
| `RpcCallPath` | one call from stub to handler and back: `rpc_envelope`, filters, `rpc_recv_context`, `rpc_handle_router` |
| `ReconnectClient` | `reconnect_client` |
| `Histogram`, `LoadGenerator` | `histogram`; `load_generator` and `load_channel` as the rpc integration test drives them |
| `Smfc`, `Generators`, `SmfcTexts` | the process `smfc` and its files; what it prints; the two together |
| `MC...` | the constants of the TLC runs |
| `RpcClientProofs`, `RpcClientRouting` | theorems about `RpcClient`, the second up to its refinement of `RpcCalls` |
| `RpcServerProofs`, `ReconnectProofs`, `CallPathProofs`, `LoadGeneratorProofs`, `SmfcProofs` | theorems about the module of that name |
| `ProofLemmas` | lemmas that several of these use: induction, folds and sums over finite sets, headers and bodies on a connection |
| `ProofFacts` | two facts of `ProofLemmas` as formulas, which lemmas about the client and the server assume and their theorems discharge |

Operators named "Mutant" in a comment are faulty variants of the definition
that follows them.  They document which bug each property would catch and are
used by no specification.

### RpcClient

Each call of `send` is a fiber: `phase` says whether it is in the filter stage
(after its slot was registered), waits for its promise, or is done.  `pr` is the
promise in the work item, `rep` the request whose reply fulfilled it, and
`outcome` what `send` resolved to.  `dispatch_write` runs in the background and
is a position in one of two queues: `memq` waits for memory units, `serq` for
the write lock; the head of `serq` holds it, and `half` is the connection its
header went to.  There is one reader per connection; `attached` is false once
`with_timeout` has given up on it, after which the read itself goes on outside
the gate (`with_timeout` cancels nothing).  The reader's next turn looks at
`conn_`, which may be another connection by then.  `ctl` says which of
`connect`, `reconnect` and `stop` a user fiber is in.

A message is known by the call it belongs to.  `istream.eof()` is folded into
the error of the connection: the continuation that meets a short read sets the
error.  `fail_outstanding_futures` disables and shuts down the current
connection only if it is still valid, as the code does.  Closing a closed gate
is seastar's assertion and sets `aborted`, after which nothing happens.
`ConnectAgain` says whether users call `connect()` again on a failed connection
(its check allows it) or only `reconnect()`, as its documentation asks.

Not in the model: TLS, the latency histogram, the move constructor, and the
bytes of messages.

### RpcServer

`reader[n]` is the loop of `handle_client_connection`: it waits for a header,
for the memory its header asks for (`memq`, first in first out), for the body,
or is done.  `fiber[r]` is `dispatch_rpc` of request `r`: filters and handler,
the queue for `serialize_writes` (`wq[n]`, whose head holds the lock), the last
flush, `cleanup_dispatch_rpc`, and three ways to end: done, threw (a filter or
the handler), failed (a write).  On a closed gate `with_gate` throws in the
session, which then ends as on any other exception.  Filters and handler touch no shared state and
are one step.  `srv` holds `open_connections_` and two counters;
`cleanup_dispatch_rpc` is a function of it, because an exception in the reader
runs it twice in a row.  The erase from the table comes with `disable` and the
shutdown of the socket, so a connection is closed exactly when it has left the
table.  `AsInt32` is the conversion of the size in the call of `dispatch_rpc`.
`active_connections` is derived: constructor minus cleanups minus destructors,
modulo the width of the counter.

Not in the model: byte counters, `no_route_requests`, the histogram, the HTTP
server, and the read that a body timeout leaves behind (it touches only its own
connection).

### RpcCallPath

`msg` is the envelope or the receive context: flag, session, meta, size,
checksum and body, where a body is its data and the codecs it is packed in.
`Size` and `Hash` are constants, so that a checksum can be 0 and two bodies can
collide.  `at` is the stage, `todo` the filters still to be applied; filters are
`zstd`, `lz4` and filters of the user, which pass a message or throw.
`Packable` says which bodies the library behind a codec can pack; the codec
throws on another, as it does on a body it cannot unpack.  `Route`
is the first match over the services registered so far.  `Damage` changes a body
on the wire.  `lost` is a call whose reply nobody will write: a throw in the
server after which only the request's fiber ends, or a debug build's
`DLOG_THROW_IF` in `rpc_envelope::send`.

Not in the model: damaged headers (they carry no checksum of their own), the
dynamic headers, which `send()` does not write, and the bitflags, which no code
sets.

### ReconnectClient

A call of `connect()` and the background retries it starts are one fiber.
`serial` says whether users call `connect()` only when no earlier call is still
trying or sleeping.  `bo` is `bo_` in seconds, `Increment` is `operator++` with
its clamp table.  The jitter is left out, since time is.

### LoadGenerator and Histogram

One action per stretch of `load_generator::benchmark`, of the loop in
`load_channel::invoke` and of `main`.  The channels of a core share a
semaphore; nobody waits for their loops.  `stop` may come at any moment, as at
the exit of a test that is interrupted.  A histogram is the number of times each
value was recorded, with `_sample_count` and `_sample_sum`, which `+=` leaves
alone.

### Smfc and Generators

`Smfc` follows a run from the flags to the exit code; the file system, edits of
the input and kills are its environment, and `Again` starts the next run on the
same disk.  `Generators` gives for each of the three languages and a schema the
tokens that the print functions emit, under the names of those functions:
indentation, brackets, the symbols declared, defined, imported and used, the
names by which flatbuffers types and their accessors are referred to, the
entries of `handles_`, the cases of the dispatch tables and the ids the stubs
send.  A file on disk is known by its language and schema; `SmfcTexts` looks at
the tokens of the files that the runs leave.  Wording, layout and
`#include` lines are left out.  Schemas have one namespace each, as all of the
repository's do, and no two names that differ only in the case of the first
letter, which the generators would map to one symbol.  `FlatNames` says under
which names flatbuffers' own code has a type, seen from a file.  `SaveFile` is modelled
by its result: the file is written, not touched, or torn.

## Runs

All runs but `smfc` use `CHECK_DEADLOCK FALSE`: calls, requests and connections
are finite, so every behaviour may come to rest.

| run | instance | checks |
|---|---|---|
| `client_reconnect` | 2 calls, 1 user, 2 connections, fair | `conn_` is never null in flight and never replaced under a call; a dead connection has no registered calls; a live one has exactly one reader; no promise is set twice; the assertions of `process_one_request` and `parse_header`; `RpcClient` implements `RpcCalls`; accepted calls resolve, `stop` and `reconnect` get past the gate |
| `client_pipeline` | 3 calls, 1 connection, memory for 2 of 3, 1 bit session ids, debug build | requests are framed, units come back, replies reach their call although ids wrap |
| `server_sessions` | 3 requests, 2 connections | connections are closed once; memory units are accounted for; replies are framed; a request that ends normally on a healthy connection was answered; nothing runs after `stop` |
| `server_liveness` | 2 requests, 2 connections, fair, bodies in time | connections with an error are closed, `stop` returns, blocked readers go on |
| `call_path` | 2 services with colliding ids and a method of id 0, 4 bodies, 3 chains for each of the four filter stages, both builds | size, checksum and flag fit the body at every stage; what is delivered is what was sent; a call without a fault is answered exactly when no field is 0, no body is too large for flatbuffers or for a codec that has to pack it, and the codecs match; registering a service takes no id from another |
| `reconnect_backoff` | 2 calls of `connect()`, in turn or overlapping, fair | the backoff is the table entry of the failures so far; no gate is closed twice when calls take turns; nothing is left after `stop()`; a retry goes on until it connects; `stop()` returns |
| `load_generator` | 7 combinations of cores, channels, requests and memory, fair | the semaphore outlives the loops; at the end `total_bytes` has every request issued once, and every channel has issued its share unless its connection broke; the merged histogram has every call; the buckets are cumulative; benchmark and exit end |
| `smfc` | 3 runs, 7 command lines, 4 schemas and a broken or missing input | exit code 0 means complete files; files are well nested, closed, define a symbol once and name flatbuffers types as flatbuffers does, but for the exceptions below; every stub reaches the handler of its method in every file of every version; other files are untouched |

Four more runs each show one statement of the repository that the code does not
keep (`findings` in `PROJECT.json` quotes them):
`server_active` (`active_connections` goes down twice),
`server_leak` (memory units that never come back),
`message_status` (a reply with status 0 fails the caller's connection, although
the generated code says that smf imposes nothing on the status) and
`smfc_directories` (the directories of Go and Python files are made relative to
the working directory, the files relative to `--output_path`).

Divergences that the models or the source show and that have no run of their
own:

- `rpc_client.cc:94`: in the release build nothing stops a wrapped session
  index from meeting an outstanding call; `client_pipeline` has the debug build.
- `rpc_client.cc:226`: `set_error` makes the connection invalid, so
  `fail_outstanding_futures` skips its `disable` and the socket is not shut down.
- `rpc_server.cc:264`: a filter that throws does not interrupt the connection.
- `rpc_server.h:128`: `stop` does not wait for the readers.
- `rpc_server.cc:225`: a body of 2^31 bytes or more is an `int32_t` below zero
  when its units are returned.
- `rpc_client::stop` does not wait for a read that timed out, since that has left
  the gate.
- `recv_timeout` of the client also runs while it waits for a header, where its
  documentation speaks of the body.
- A server session that ends with an exception counts as a completed request,
  because `finally` runs `cleanup_dispatch_rpc` before the handler sets the
  error.
- Overlapping calls of `reconnect_client::connect()` both close the dispatch
  gate of the client, which aborts; `GateClosedOnce` is stated for calls in turn.
- `load_generator.h:79` divides integers before `ceil`, and `--req-num` is
  described as a number per connection; the requests of a benchmark are the
  quotient for each channel, at least one.  `num_of_req` of the duration is that
  of one channel, so its qps is too.
- The memory of a core is checked, and described, as that of a connection
  (`load_generator_args.h`), but shared out among the channels.  An envelope
  larger than its share is never written: its call times out and, at exit, the
  client's `stop()` never returns.  `ExitCompletes` is stated for those that fit.
- `histogram.cc:110`: the comment gives the last bucket as 6000 seconds; with
  the defaults it is 10 * 2^25 microseconds.
- A C++ header with several services defines their `operator<<` repeatedly
  (`WellFormed` excepts them), and Go and Python files of a schema without a
  namespace end `smfc` with an abort.
- `python_generator.cc:33`: the Python client parses every reply with
  `GetRootAsPutResponse`, whatever its type; flatbuffers gives type `T` only
  `GetRootAsT`.
- `smf_method.h:55`: Go files name types without their namespace and do not
  import it (`go_generator.cc:35,144,152`), so a method whose types are of a
  namespace other than the schema's refers to names that do not exist.
  `WellFormed` requires the right name everywhere but in these two places.
- `compression.cc:83`: the message of a `compress` that fails says "defaulting
  to uncompressed", but the macro around it throws, and the call or the reply is
  lost.  `lz4` can pack less than flatbuffers can hold, so a chain with it
  refuses bodies that would go out uncompressed.

Bounds.  Two connections are the least that let a read, a write or a reply
outlive the connection it belongs to; two calls the least that can be confused,
and three let two writes queue behind a third.  Memory is smaller than all
envelopes together, so that both queues are used.  With four session ids and
two calls nothing wraps; `client_pipeline` has two ids.  One user fiber is what the gate allows: a second `reconnect` or `stop`
during the first closes a closed gate.  What holds for any number of users is
proved (below).  With a wrapped index and a
second connection even the debug build lets an abandoned read deliver an old
reply to a new call with the same id, so `client_pipeline` has one connection.

`call_path` has one call, because calls meet only in what `RpcClient` and
`RpcServer` model; its chains include none, one and two codecs with a filter of
the user between them, and its bodies one that is not worth compressing, one
that hashes to 0 under one codec and to a collision under the other, and one
that is too large unless it is compressed, and one that fits but is beyond what
`lz4` can pack.  `reconnect_backoff` has as many
failures in a row as a behaviour likes, so the whole table is used.
`load_generator` has latencies in the first bucket, beyond the last, and beyond
what the histogram keeps; its arguments divide evenly and unevenly, have fewer
requests than channels, and too little and just enough memory.  Three runs of
`smfc` are what it takes for a file of one run to meet those of two others: a
stub, a server and a run that fails between them.

Fairness.  The reactor runs every ready continuation and every expired timer.
Beyond that the runs assume that a connection attempt ends, that a write ends
because the peer drains its socket or the socket fails, and that filters and
handlers return.  Nothing is assumed of users and peers.  A call has no timeout
of its own: `CallsResolve` rests on the read timeout of its connection, which
starts anew with every reply, so it needs the finite traffic of the model.
`server_liveness` assumes that bodies arrive in time and no socket is reset,
because a session that ends that way keeps its memory units (`server_leak`).
`reconnect_backoff` assumes that a server that is tried again and again is
reachable at some attempt (strong fairness of `ConnectOk`), without which
`Reconnects` says nothing, and that the client's gate empties, which
`client_reconnect` checks.  `load_generator` assumes that a call is answered or
times out and that `main` stops the generators at exit.  `smfc`, `call_path` and
the runs that only check safety assume nothing.

## Proofs

TLAPS checks every theorem for all sets of calls, controllers and requests, all
bounds, session widths, sizes and both builds; for all sets of services and
bodies, all filter chains and all hash functions; for all numbers of cores,
channels, requests and buckets; for all command lines and schemas.  The
assumptions are about the constants only, and TLC evaluates them in the runs:

| assumption | says |
|---|---|
| `ClientConstants`, `ServerConstants`, `ArgsAssumption`, `SizeAssumption` | types of the constants |
| `DataAssumption`, `NoneAssumption`, `ChainsAssumption` | there is a body; `None` is no value of the call path; filter chains are sequences |
| `HistogramAssumption` | latencies are numbers and there is one; the first bound of the buckets is not 0 |
| `SmfcAssumption` | languages are sequences of words; `None` is no schema and no exit code |
| `SchemasAssumption` | packages, services and methods are sequences; no two services of a schema have one name |

Type correctness is proved for four modules and therefore not among the
properties of their runs.

Some results need more than the assumptions, and say so in their statement:
`RepliesReachTheirCalls` and `ClientImplementsCalls` hold until the session
index wraps around (`[]NoWrap`); `LiveConnectionsAreRead`,
`ReadsDoNotInterleave` and `SwitchesAreQuiet` if users call `connect`,
`reconnect` and `stop` one at a time (`[]TakeTurns`) and replace a failed
connection by `reconnect` (`~ConnectAgain`); `UnitsAreAccounted` if no request
that the semaphore can admit has 2^31 bytes or more (`Admissible`), since
`dispatch_rpc` takes the size as an `int32_t`.  A server with less than 2 GB of
memory for requests meets that condition.  `StubsReachHandlers` and
`WireIsCompatible` hold if the ids of the methods of each service differ
(`DistinctIds`): `smfc` computes them with crc32 and does not look for
collisions.  The schemas of the run meet it.

Client:

- `TypeCorrect`.  `TypeOK` is inductive as it stands; it is a
  conjunction of groups, and a lemma per family of handlers shows the groups the
  handler touches, the rest follows from `Frame`.
- `InFlightConnected`: `conn_` is not null while a call or a write is in flight.
  Inductive with the types: only `Reopen` drops `conn_`, and it waits for the
  gate to be empty.
- `OutstandingOnValid`: no call is registered on an invalid connection.  The
  invariant is strengthened by the gate: calls are registered only behind an
  open gate (`RegisteredBehindOpenGate`), and a closed gate is held by the user
  who closed it (`GateHeld`), so no second connect can replace a connection
  under registered calls.
- `RegisteredArePending` and `PromisesSetOnce`: a slot holds an unset promise
  with the id of the slot, and a call that was never sent has no promise
  (`PromiseInv`).  Reader and `fail_outstanding_futures` only set promises they
  find in a slot, so none is set twice.
- `RequestsAreFramed`: a connection whose last part is a header is the one the
  holder of the write lock is half way through, or is broken (`FrameInv`).
- `LiveConnectionsAreRead`, `ReadsDoNotInterleave`, `SwitchesAreQuiet`: `conn_`
  is null while a connection is being made, so reader n only ever reads
  connection n, and the reader in the gate reads the current one (`ReaderInv`).
  Two calls of `connect()` at once leave two readers in the gate.
- `UnitsComeBack`: there is a running sum over the queue of writes whose last
  value is what the semaphore lacks (`UnitsInv`).  The sum is a witness that
  each step extends or shortens, so no induction over the queue is needed.
- `RepliesReachTheirCalls`: whatever is queued, written or answered belongs to
  a sent call (`RequestsSent`), a reply carries the id of its request
  (`RepliesOwnId`), and the ids of sent calls differ (`IdsDistinct`).  `NoWrap`
  is needed: a wrapped id may meet a call that is still outstanding.
- `ReadsAreCounted`: `read_counter_` is positive when a reply arrives.  It
  counts the ids handed out less the replies delivered.  The peer answers a
  request once, so the replies delivered and the one that arrives answer
  different requests (`AnswersInv`), each of which took an id; the rest is
  counting.
- `ClientImplementsCalls`: a call resolves with a reply only when its promise
  holds one (`ResolveInv`), and by `RepliesReachTheirCalls` it is its own.  Each
  handler is shown to be a step of `RpcCalls` or to leave the calls alone.

Server:

- `TypeCorrect`.  `TypeOK` is not inductive: the semaphore
  takes the size of the head of an input, and the fiber uses the connection of
  its request.  `TypeInv` adds that a waiting reader has a request (`ReadInv`),
  that an unread request came once, on that connection, and has no fiber yet
  (`OnInv`), and that the fibers queued for `serialize_writes` are writing on
  that connection, each once (`LockInv`).
- `StopIsQuiet`: after `stop()` the gate is closed and empty (`QuietInv`); by
  `LockInv` an empty gate means empty write queues, so nothing moves.
- `ErasedOnce`: however many fibers meet the error of a connection,
  `bad_requests` is the number of connections that left the table (`Counts`,
  preserved by `cleanup_dispatch_rpc`).
- `EndsReplied`: a fiber comes to its last flush with its reply written, and to
  the cleanup with its reply written or on a connection with an error.
- `RepliesAreFramed`: as for the client, with one write lock per connection.
- `UnitsAreAccounted`: the units of the semaphore, those of the fibers in the
  gate, those of the readers in a body and the lost ones add up to `Memory`
  (`UnitsInv`).  A handler moves one request from one of the sums to another or
  out of both.

`reconnect_client`:

- `TypeCorrect` and `BackoffInStep`: the table is increasing, so `operator++`
  finds the next entry (`BackoffNext`), and every retry and every success keep
  `bo_` at the entry of the failures counted so far.
- `GatesClosedOnce`: when calls take turns at most one fiber is active, and a
  closed dispatch gate was closed by it or by `stop()` (`TurnInv`).
- `StopIsQuiet`: from the moment `stop()` turns to the client, no fiber is
  active and none can start (`IInv`); this holds for overlapping calls, too.

Call path:

- `HeadersDescribe` and `Intact`.  The invariant (`IInv`) adds that a damage
  that changed the checksum is never read, that an outgoing message is
  described by its header whatever came before (`DamageInv`), and that each leg
  carries the data and the id or status it started with (`CarryInv`).
  `CompressKeeps` and `DecompressKeeps` are the two filters.
- `AnsweredExactly`: while a chain is being applied, what is left of it does to
  the message at hand what the whole chain does to the body that the stub or
  the handler wrote (`RequestInv`, `ReplyInv`).  At the end of the chain nothing
  is left, and the message is what the property predicts from the chains alone.
- `StableRoutes`: the first of the matching services is still the first after
  another one is appended (`RouteFirst`, `RouteStays`).

Load generator:

- `BenchmarkEndsLast`: while a benchmark runs, the units that are back are as
  many as its channels that are done (`UnitsInv`), and it ends with as many as
  it has channels.
- `RequestsCounted`: `total_bytes` is the sum over the channels of what each
  has issued (`RequestInv`), and a channel is done only with nothing left or
  with a broken connection.
- `LatenciesMerged`: for each value the histograms of the channels together
  have as many as calls took that long (`HistInv`), and adding histograms one
  after the other, core by core, adds the counts.
- `BucketsOfMetrics`: the iteration of the HdrHistogram ends with a bound that
  no recorded value exceeds (`Iterated`), padding goes on with the next bound
  (`Padding`), and the count of all values is the count up to it
  (`CountOfAll`).

`smfc`:

- `KnownLanguages`: `split_langs` keeps every known word of `--language`.
- `SuccessIsComplete` and `RunsKeepToTheirFiles`: where `gen` is at work, each
  language of the command is still to do or has its file (`SmfcInv`).  A
  language named twice is to do again, so its file may be gone in between.
- `StubsReachHandlers`: for every two schemas and every two generators, a stub
  in one file sends an id that reaches the handler of its own method in the
  other, if that method is served there.  The lemmas follow the print functions
  from the literal texts up to a file.  They say which tokens about the wire a
  text carries (`Carries`) and, for the C++ services, which table of handles it
  builds and in which order (`Lists`), because a C++ case names its handler by a
  position.  Each holds of the texts that a print function joins (`CarriesJoin`,
  `ListsMore`) and of a loop over services or methods (`CarriesAll`,
  `ListsAll`).  A file then has exactly the tokens of its own services
  (`FileWire`), services differ in name (`OwnServices`), and xor with the id of
  the service keeps the ids of its methods apart (`XorCancel`).
- `WireIsCompatible`: a file on disk is torn or holds the text of some schema
  (`WholeTexts`, inductive with `SmfcInv`), so `StubsReachHandlers` applies to
  whatever the runs have left.

The prover cannot use the library's induction theorems, whose parameter is an
operator.  `ProofLemmas` has them for sets instead: a set that holds 0 and with
n also n + 1 holds all naturals (`AllNaturals`, from the least element outside),
and likewise for the subsets of a finite set (`AllSubsets`).  From these follow
the existence of the recursive functions that folds, sums, `Doubled`, `Concat`
and `split_langs` choose, and with it what they compute.  `SmfcProofs` proves
the first of them again: with the lemmas about sums in its context the prover
takes twice as long.

Only model-checked: liveness, which is out of the prover's reach, and
`WellFormed`.  That a file defines no symbol twice does not hold for every
schema: two names that differ only in case become one symbol.  That its brackets
and its indentation match is a count of tokens over nested loops, which would
take lemmas of the kind of `CarriesAll` for two more measures of every text.

## Not modelled

- The bytes of zstd, lz4, xxhash, crc32, HdrHistogram and flatbuffers: libraries
  outside the repository, of which the models keep what the code relies on.
- `random`, `human_bytes`, `time_utils`, logging, `fbs_typed_buf` and similar
  helpers, which share no state with anything.
- Metrics, the HTTP admin server and TLS: registered once, then left to seastar.
- Two cores of a server share nothing but the listening port, so one is modelled.
- Demo applications and benchmarks use the library the way the integration test
  does.
- What two operations under way on one seastar stream do (the last flush of a
  server fiber while another writes; a read that a timeout left behind) is up to
  seastar.
