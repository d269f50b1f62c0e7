# jaeger-client-go in TLA+

TLA+ models of jaeger-client-go: the asynchronous reporter and its span pool,
the UDP and HTTP transports, the sampling decision of a trace and the samplers
that are updated under it, the background goroutines that poll an agent, the
span contexts that travel between services, and the Thrift protocols and
structures in which everything goes out. TLC checks them on small instances;
theorems are proved with TLAPS for every value of the constants. Paths below are
relative to `src/`.

## 1. The system

An application starts, names, tags and finishes spans on many goroutines. The
tracer asks a *sampler* whether a trace is recorded; a finished span of a
sampled trace goes to the *reporter*, whose worker hands it to a *transport*.
Background goroutines refresh the sampling strategy, the address of the agent,
the debug credits and the baggage restrictions. *Propagators* write a span's
context into carriers and read it back in the next service.

| Component | State | Operations | Interacts with | What makes it correct |
|---|---|---|---|---|
| RemoteReporter (`reporter.go`) | channel, `queueLength`, `closed`, worker, metrics | `Report`, `Close`, `processQueue` (span, close item, ticker) | spans through pointers in the channel; the transport, from one goroutine | order, exactly-once accounting, drain on Close, the sender is never used by two goroutines |
| Span pool (`span.go`, `span_allocator.go`) | `referenceCounter`, `sync.Pool` | `Get`, `Retain`, `Release`, `reset` | application, `reportSpan`, worker | an object is reused only when nobody holds it |
| Transport (`transport.go`) | buffer | `Append`, `Flush`, `Close` | worker | every span leaves once, or is counted as failed |
| UDP sender (`transport_udp.go`, `utils/udp_client.go`) | span buffer, byte counts, sequence number, loss counters | `Append`, `Flush`, `resetBuffers`, `makeStats`, `EmitBatch` | worker, connection, reporter's drop count | exact byte accounting, no datagram above the limit, honest loss statistics |
| HTTP transports (`transport/`) | span buffer, process | `Append`, `Flush`, `send` | worker, collector | as Transport; no span reaches the collector twice |
| Reconnecting connection (`utils/reconnecting_udp_conn.go`) | socket, address, buffer size, `closeChan` | resolve loop, `Write` with retry, `SetWriteBuffer`, `Close` | DNS, kernel, the UDP client | current socket open and at its address, none lost, none closed under a Write, convergence |
| Sampling of a trace (`span_context.go`, `span.go`, `tracer.go`, `sampler_v2.go`) | shared `samplingState`: flags, final bit | start, join, `SetOperationName`, `SetTag`, `sampling.priority`, logs, `Finish`, `reportSpan` | samplers; all spans of the trace | a positive decision is never lost, a remote decision never revised, finished sampled spans are reported |
| `x.PrioritySampler`, `x.TagMatchingSampler` (`x/`) | bitmap of finished delegates | `trySampling` | delegates, trace | negative only when all delegates agree |
| Remote sampler (`sampler_remote.go`) | current sampler, `closed`, `doneChan` | poll loop, `UpdateSampler`, updaters, the four callbacks, `Close` | strategy server, spans | the sampler is what the strategy says; no torn decision; Close returns |
| Samplers (`sampler.go`) | rates, boundaries, per-operation map, limiters | `IsSampled`, `Update`, `update`, `getSamplerForOperation` | remote sampler | one limiter per operation |
| Rate limiter (`utils/rate_limiter.go`) | balance, last tick, rate, maximum | `CheckCredit`, `Update` | samplers | what is granted in a window of time is bounded |
| Throttler (`internal/throttler`) | credits per operation, mutex | `IsAllowed` with its synchronous fetch, refresh loop, `SetProcess`, `Close` | agent; debug spans | credits are conserved |
| Baggage restrictions (`internal/baggage`) | restrictions, `initialized` | poll loop, `GetRestriction`, `Close` | agent; baggage setter | the last answer holds |
| Tracer shutdown (`tracer.go`) | none | `Close` | reporter, sampler, restriction manager, throttler, in this order | it returns and leaves no goroutine behind |
| Contexts and propagation (`tracer.go`, `span_context.go`, `propagation.go`, `interop.go`, `zipkin.go`, `zipkin/`, `baggage_setter.go`) | contexts with shared baggage maps and sampling states | `StartSpan`, `SetBaggageItem`, `Inject`, `Extract` | carriers, other clients | round trip, a tree of spans, baggage isolated |
| Log buffer (`span.go`) | ring of logs | `appendLogNoLocking`, `rotateLogBuffer`, `fixLogs` | span | oldest and newest logs in order, a marker for the rest |
| RPC metrics (`rpcmetrics/`) | two caches of names and metrics, counters | span observer, `normalize`, `get`, `OnFinish` | spans | bounded, one set of metrics per name, each span counted once |
| Thrift (`thrift/`, `thrift-gen/`) | write and read state of a protocol; sequence number of a client | the generated `Read` and `Write`, compact and binary protocol, `Skip`, client, processor, server | transports, agents, collectors | what is written is read; nothing cut is accepted; answers stay in step |
| Configuration, observers, conversion to Thrift, other Thrift protocols, logging, metrics | | | | out of scope, see section 7 |

### What is hard here

* **Interleavings** of the reporting goroutine, the worker and a closer around a
  bounded channel, with a counter moved next to the channel and a pooled object
  in it; of the resolve loop, writers and the owner of the UDP connection; of
  goroutines that apply decisions to one trace; of a strategy update with
  consultations that add to the same map; of callers and a poller at one mutex
  that is held during an HTTP request.
* **Non-atomic pairs**: `final` and `sampled`; test, call and mark of a
  delegate; read and write lock of every double-checked map.
* **Failure**: a flush that fails, a request that fails although the collector
  has taken it, a datagram refused for its size, a lookup, dial or write that
  fails, a query that fails, an answer that is lost with what it granted, a reply
  that comes after its call timed out, a full channel.
* **Order and shutdown**: the close item behind the spans, `Close` during an
  attempt or a query, responses applied in the wrong order, four components
  closed in turn.
* **State carried between calls**: field-id deltas and pending booleans of the
  compact protocol, the ring of logs, the tick of the limiter, maps shared by
  copied contexts.

`PROJECT.json` lists each hazard at its line with the properties that cover it.
One has none: a second `Close` of the throttler or of the restriction manager
closes a closed channel and panics; the models close once.

## 2. Modules

| Module | Models | Checked through |
|---|---|---|
| `Transport` | the Transport interface as the reporter relies on it, with every outcome of Append and Flush | extended by `RemoteReporter`, implemented by `UdpSender` and `HttpSender` |
| `RemoteReporter` | reporter, worker, closers, span pool | `MCRemoteReporter` |
| `SpanDelivery` | abstract specification: a reported span is dropped or taken; a taken one is later sent or lost, once; the first Close returns when everything taken before it is settled | implemented by `RemoteReporter` |
| `RemoteReporterProofs`, `TraceSamplingProofs`, `RemoteSamplerProofs`, `TracerCloseProofs` | theorems about the module of the same name | TLAPS |
| `TransportsProofs` | theorems about `UdpSender` and `HttpSender`, as `MCTransports` composes them | TLAPS |
| `PropagationProofs` | theorems about `SpanContextCodec` and `Propagation` | TLAPS |
| `RpcProofs` | theorems about `RpcMetrics`, `ThriftRpc` and the calls of `ThriftCalls` on both protocols | TLAPS |
| `PartsProofs` | theorems about `SpanLogs`, `RateLimiter` and `ReconnectingConn` | TLAPS |
| `UdpSender`, `HttpSender` | `udpSender` with the check of `EmitBatch`; the Jaeger and Zipkin HTTP transports | `MCTransports` |
| `ReconnectingConn` | `reconnectingUDPConn` | `MCReconnectingConn` |
| `TraceSampling` | the decision of one trace | `MCTraceSampling` |
| `RemoteSampler` | `RemotelyControlledSampler`, `PerOperationSampler` | `MCRemoteSampler` |
| `Throttler`, `RestrictionManager` | the two pollers and what they protect | composed in `TracerClose` |
| `TracerClose` | `Tracer.Close` over both | `MCTracerClose` |
| `SpanContextCodec` | the propagators, as operators on values | `Propagation` |
| `Propagation` | contexts through a trace: StartSpan, baggage, carriers | `MCPropagation` |
| `ThriftTypes`, `JaegerIdl`, `ZipkinIdl`, `AgentIdl` | the generated structures, as tables | `ThriftStruct` |
| `CompactProtocol`, `BinaryProtocol` | the two protocols, byte by byte | `ThriftCalls` |
| `ThriftCalls` | the interface `TProtocol` over both, calls in a row, what calls generated code makes | `ThriftStruct` |
| `ThriftStruct` | the template of the generated Read and Write, Skip | `ThriftWire` |
| `ThriftWire` | one message written and read | `MCThrift` |
| `ThriftRpc`, `SpanLogs`, `RateLimiter`, `RpcMetrics` | Thrift calls over one connection; log buffer; leaky bucket; RPC metrics | `MCParts` |

Definitions marked `mutant` are wrong variants of the definition that follows
them. They belong to no specification; substituting one must violate the
property listed for it in `PROJECT.json`. Every state machine states a type
invariant; those of `RemoteReporter`, `ReconnectingConn`, `TraceSampling` and
`Propagation` are proved, the others hold when they are added to a run (the proofs
of the other modules rest on type invariants of their own) and are left out of the
configurations, which keep the properties that could fail.

### RemoteReporter and Transport

`pool`, `gen`, `refs`, `userRefs` and `pc` describe the Span objects: an object
is in the allocator or in its `gen`-th use, with its reference counter and the
program counter of the goroutine that owns it. `Report` is the evaluation of the
`select` in `remoteReporter.Report`, whose operand retains the span in both
branches; `ReportCount` is the increment after the send; `FinishRelease` ends
`reportSpan`. `CloseCall`, `CloseSend`, `CloseCount` and `CloseSender` are the
steps of `Close`. A closer that finds the channel full is parked and the next
receive moves its item in, as the Go runtime does. `Receive`, `AppendSpan`,
`WorkerRelease`, `Tick`, `CloseFlush` and `CloseDone` are `processQueue`. The
channel carries pointers: an item records which use of the object was reported,
and `AppendSpan` serialises the use the object is in now, so that reuse would
show as corruption. What Append does with the buffer is the choice of
`Transport!AppendOutcome` (keep, reject, flush with, flush before), which covers
the UDP and the HTTP transports.

The application owns a span from Start to Finish and may `Retain` it; it does not
finish twice, release what it did not retain, or start a span on a closed tracer
with expectations (spans reported after Close stay in the channel).

### UdpSender and HttpSender

Sizes are numbers fixed by `Init`: each span has a serialised size, and so has
the process. `AppendSpan` follows the four ways through `Append` (too large, keeps,
fills exactly, flushes first), each with the code's own arithmetic on
`byteBufferSize`, and `EmitBatch` compares the real size with the maximum. The
write to the socket succeeds or fails; what becomes of a datagram that was
written is not modelled. `queueDropped` is the reporter's counter,
which may grow at any time, because the sender reads it when it makes its
statistics.

`HttpSender` has one action for `Append` and one for `Flush`. A request has
three outcomes: taken and acknowledged, not taken, taken but with an error (the
answer was lost or late); the buffer is emptied in all three.

`written` is the history of the spans in datagrams that were written, `reports` the
sequence numbers and statistics in those; the collector of
`HttpSender` keeps the batches themselves. Both senders are shown to be a
`Transport`, with `backend` the spans that were written or acknowledged.

### ReconnectingConn

The constructor makes the first attempt, then the owner sets the write buffer,
runs and closes, unless setting the buffer fails: then nobody has the connection; the loop ticks; writers write and, on failure, reconnect and
write again. An attempt is `Resolve`, `Compare` (read lock), `Dial`,
`SetBuffer`, `Swap` (write lock), `ClosePrev`, one action per region between
synchronisation points, so that attempts overlap. `using[w]` is the socket of a
write in progress, and also the read lock. Socket identities are recycled when
nothing refers to them.

### TraceSampling

`flags` and `final` are the shared `samplingState`, each changed by one atomic
operation; every read and every write of them is an action. Samplers are the
sets of decisions they may return (`Decide`), behind a `PrioritySampler` or
alone. Each span keeps what was called on it; `kept` and `refused` say which
writes were stored. A goroutine's program counter walks through start, sampling,
write and finish; the application makes each call once per span and Finish
last. Tags given at the start of a span go through the same `setTagInternal` as
later ones and are not separate. A *setup* (`Setups`, fixed in `setup`) chooses
samplers, ways to begin and calls, so that one run covers several tracers.

### RemoteSampler

The loop and manual callers of `UpdateSampler` fetch and apply in separate
steps. The sampler is a record: a probabilistic or rate limiting sampler with
its rate, or a per-operation sampler with default rate, lower bound and entries.
An entry has an identity for its rate limiter, which no limiter made before for the
operation had (`made` counts them). Rates are numbers of steps;
a rate above `MaxRate` stands for one above 1.0, which a constructor clamps and
`ProbabilisticSampler.Update` refuses. `Consult`, `Insert` and `Decide` are a
consultation under the read lock, with the map's own lock inside.

### Throttler, RestrictionManager, TracerClose

`mux` is the throttler's mutex where it is held across steps: `IsAllowedFetch`
sends a request and keeps it until `IsAllowedFetched` or `IsAllowedFailed`; every
other critical section is one action that needs it free. A request is sent,
answered (the agent deducts at that moment and `granted` remembers it) or
failed; an answer on its way may be lost (`lost`). The poller selects between
tick and stop, reads the names, asks, and adds. Credits are counted in halves so
that a balance may be positive and still too small. `RestrictionManager` is one
poller and a map; `served` remembers the answer the last update has used.
`TracerClose` puts the two beside each other and runs `Close` through reporter
and sampler (one step each, as `CloseTerminates` and `CloseReturns` of their own
models allow), restriction manager and throttler.

### SpanContextCodec and Propagation

The codec maps a context, seen by value, to a carrier and a carrier to the *set* of
results an extractor may have, because headers are visited in any order. Numbers
are written and parsed by digits, so that padding, the width of an ID and the base
of the flags matter; keys are folded and values escaped. `Propagation` has the
contexts of spans, the contexts that the application keeps, and a heap for what
copies share: baggage maps and sampling states. `StartSpan` starts a root, a
child or a self-referring span from references of every type, with the parent the
first child-of reference, or else the last follows-from. The carriers of
`setup.foreign` are those of another client: unpadded IDs, a trace ID whose low
half is 0, both kinds of baggage headers, debug IDs alone or beside a trace, half a
header, half a stream. `SetupAssumption` says what is expected of them: they do not
name the span IDs this process will draw, and a valid context has flags.

### Thrift

Generated code has a template, so the model has one too: a structure is a row of
four tables (fields, cases of `Read`, readers, calls of `Write`) taken from the
four pieces of Go that Thrift generates for it, and `ThriftStruct` is the template.
A table that disagrees with another, as a mistake in one of those pieces would
make it, shows in the round trip. The protocols are byte-level: a writer or
reader is a record with the state the Go struct keeps between calls. `ThriftCalls` puts
the two behind one interface, as `TProtocol` does, and says what calls generated code
makes: any values in the range of their Go types, in an order that ends no structure
it has not begun and writes the value of a boolean field after its header
(`Orderly`). `ThriftWire`
writes a value call by call, then a peer reads all of it, or a prefix, with the
same tables or with one field unknown or of another type.

`ThriftRpc` only keeps whole messages. A client may time out before or inside a
reply and goes on with the same connection; a read inside a reply fails, and may
end inside the next one. The server may run another service's processor.

### SpanLogs, RateLimiter, RpcMetrics

`SpanLogs` numbers the records and translates the rotation as the loop of swaps it
is. `RateLimiter` counts credits in units and time in seconds. `RpcMetrics` has a
goroutine for each span that finishes, with a step for each lock it takes.
They have nothing to do with each other or with `ThriftRpc`; `MCParts` checks all
four in one run, in which the variable `part` says which one moves.

## 3. Runs

| Run | Instance | Shows |
|---|---|---|
| `reporter_safety` | 2 objects used twice, channel of 1, one closer, symmetric | `ReferencesExact`, `NoUseAfterPut`, `NoCorruption`: reuse is safe. `DeliveryInOrder`, `CountersExact`: nothing is sent twice, overtaken, forgotten or miscounted, through shutdown. `ImplementsDelivery`: refinement |
| `reporter_live` | 2 objects, channel of 1, two closers, one user Retain | `CloseTerminates`, `SpansResolved` |
| `transports` | 4 spans of sizes 1, 2, 4, 6, process 1 or 2, packet 7 with overhead 2; batches of 1 to 3 | `PackingExact`: sizes as accumulated, limit kept, only a span that fits no packet refused. `LossesAccounted`: sequence numbers and counters say what was not written. `TakenOnce`: the collector. `TransportsImplement`: refinement |
| `trace_sampling` | 2 goroutines, 2 or 3 spans, four setups, symmetric | `PositiveSticks`, `NegativeIsUnanimous`, `SampledSpansReported`, `RemoteDecisionKept`, `DecidedOnce` |
| `conn` | loop, 2 writers, 4 sockets, 2 addresses, one change, one fault, two writes | `SocketsExact`, `NoCloseUnderWrite`, `Converges` |
| `conn_leak` | violation of `ClosedForGood` | an attempt that outlives Close leaves a socket open |
| `sampler` | 2 users, loop and one manual update, 3 operations of which 2 fit, strategies of every kind, one change, three consultations | `SamplerFollowsStrategy`, `NoTornDecision`, `OneLimiterPerOperation`, `Converges`, `CloseReturns` |
| `tracer_close` | one caller, 2 operations, credits for one trace and for half of one, 2 keys, 2 policies, one change | `CreditsConserved`, `LastAnswerHolds`, `NoPollAfterClose`, `CloseReturns` |
| `propagation` | IDs of 4 binary digits, 3 spans, one context kept, three setups with carriers of other clients | `RoundTrip`, `TraceTreeSound`, `BaggageIsolated` |
| `flags` | violation of `FlagsReachDownstream` | flags above 9 cannot be read back |
| `wire` | every structure, lists up to 16, every cut of a message up to 75 bytes, read by every peer | `RoundTrip`, `TruncationRejected`, `EnvelopeBounded` |
| `parts` | log buffers of 0 to 5 and 12 records; 2 rates, 2 maxima, 4 checks and 2 updates in 4 seconds; 3 spans, 1 cached name; 4 Thrift calls | `LogsExact`, `WindowBound`, `EndpointsExact`, `AnswersInStep` |

`CHECK_DEADLOCK FALSE` everywhere: an application that has used up its spans,
calls or writes stops, and a closed component stays closed.

### Bounds, and why they suffice

* *Reporter*: a channel of one is full after one span, so drops, a parked closer
  and spans behind the close item all occur; two objects used twice give four
  spans and every overlap of an old use with a new one. The transport's buffer is
  bounded by the spans. The closer of the safety run and the application's
  references of the live run are not combined with reuse; the theorems cover
  that combination.
* *Transports*: with 5 bytes for spans and process, two or three small spans share a
  datagram, one of 4 fits with the small process only, one of 6 never fits.
  Three batches in a row occur with four spans. Batches of 1, 2 and 3 of four
  spans end full and with a remainder.
* *Connection*: an address change with a stale lookup needs the loop and one
  writer; with two writes both writers, or one of them twice, reconnect beside
  the loop. Four sockets are one for
  each goroutine and the current one.
* *Trace*: races need two goroutines. A root and a child distinguish the local
  root from other spans; three delegates give a finished, a retryable and an
  undecided one. One of them, `tagMatching`, never rejects for good; the setup with
  two that do ends unsampled, which `NegativeIsUnanimous` is about.
* *Sampler*: two concurrent updates with one server change suffice for responses
  in the wrong order; the first strategy changes the kind of sampler, the second
  may then be applied in place. Two users meet one new operation at once, and the
  third consultation finds what they left.
* *Throttler and tracer*: a caller at the lock with a request and the poller with
  another give both orders of their answers; the second operation has a balance
  that is positive but too small, which the code does not fetch for.
* *Propagation*: base 2 with 4 digits keeps a short ID, a padded one, and one longer
  than a half apart; the flags are the real byte in the real bases. Three spans
  give a parent with a child and a reference from a third. A key in two cases, a
  value that needs escaping and one that is too long are the cases of baggage.
* *Wire*: values 63 and -200, -1 and 2^28 need one, two and five bytes; 16 elements
  need the long list header, field 0 of a result the long field header. Cutting
  longer messages repeats what short ones show; those of 75 bytes have lists and
  nested structures, which a peer with another IDL skips up to the cut.
* *Parts*: a ring of five has three moving records, so that rotation wraps more
  than once in 12 calls. Three goroutines of which two use names that normalise
  to the same one meet in both caches. In the limiter a check, idle time and a
  burst need two seconds and three checks; maxima of 1 and 3 make an update both
  cut and stretch the balance. `WindowBound` speaks of windows with one update at
  most: TLC shows that a second one may raise the maximum that the first has lowered,
  and credits come out of nothing. One unread reply shows in the next
  call, two show that it never recovers.

Bounds in the modules: `MaxGen`, `MaxUserRefs` (reporter), `MaxDropped` (UDP),
`MaxDnsChanges`, `MaxFaults`, `MaxWrites` (connection), `MaxServerChanges`,
`MaxConsults` (sampler), `Supply` (throttler), `MaxPolicyChanges` (restrictions),
`MaxSpans`, `MaxHeld`, `maxEdits` of a setup (propagation; `MaxItems` and `MaxPair`
stand for limits of the code), `MaxLogCalls`, `MaxBulk` (logs), `MaxTime`,
`MaxUpdates`, `MaxChecks` (limiter), `MaxTags` (RPC metrics), `MaxCalls`
(Thrift calls), `CutBytes` (wire).

### Fairness

* `RemoteReporter!Fairness`: weak fairness of the worker's steps, because a
  goroutine that can run is scheduled; `Tick` and `Receive` each, because
  `select` picks among ready cases at random; of a closer that has begun. Nothing
  makes the application start, finish or close.
* `ReconnectingConn!FairSpec`: the ticker fires, attempts and system calls end.
  The number of faults and address changes is bounded, which states "when the
  name and the network are stable".
* `RemoteSampler!FairSpec`: queries return, and now and then with an answer
  (strong fairness of `Fetched`, as the network is not down for ever); a waiting
  writer is not overtaken by readers for ever (`sync.RWMutex` blocks new readers
  once a writer waits), so `Apply` is strongly fair; `select` does not prefer the
  ticker to `doneChan` for ever, so `CloseLoop` is strongly fair. The HTTP client
  sets a timeout only for the response header (`sampler_remote.go:309`), so that
  queries return is an assumption about the server.
* `TracerClose!Spec`: a request ends (weak fairness, one for each client), which
  is again an assumption about the agent, as `utils/http_json.go` sets no timeout;
  a poller that waits for the mutex gets it although callers take it again and again
  (strong fairness of `ReadOperations` and `AddCredits`, by the rules of
  `sync.RWMutex`); a `select` does not overlook the stop channel for ever (strong
  fairness of `StopPolling` and `StopManager`); a `Close` that has begun goes on.

## 4. Where the code and its documentation differ

| Run | Code | Text |
|---|---|---|
| `conn_leak` | `utils/reconnecting_udp_conn.go:160` does not wait for an attempt | line 158 there: "Close stops the reconnectLoop, then closes the connection" |
| `flags` | `span_context.go:220` prints the flags in hexadecimal, `:245` parses them in decimal | `README.md:189`: the decision is propagated to all downstream calls through the flags |

Other sentences of the documentation that the code does not keep are stated as
definitions, which no run checks. Added to the given configuration (as an
INVARIANT; `OpenTraceWritable` as a PROPERTY), each is violated:

| Definition | Configuration | Code | Text |
|---|---|---|---|
| `EveryFinishedSpanReturns` | `MCReporterSafety.cfg` | `reporter.go:250` retains the span while the `select` evaluates its operands; the default branch does not release it | `span.go:340`, `reporter.go:32` |
| `NoBatchRefused` | `MCTransports.cfg` | `transport_udp.go:132` compares the span alone with the limit | `transport_udp.go:30` |
| `TagsOfSampledTraceKept` | `MCTraceSampling.cfg` | `span.go:449` sets final before sampled | `span_context.go:274` |
| `OpenTraceWritable` | `MCTraceSampling.cfg` | `span.go:201` tests `IsSampled`, not `isWriteable` | `span_context.go:83` |
| `MaxOperationsEnforced` | `MCSampler.cfg` with `Strategies <- WithLarge` | `sampler.go:375` and `:492` ignore `maxOperations` | `sampler.go:354` |
| `CachedNamesAreUsed` | `MCParts.cfg` | `rpcmetrics/endpoints.go:54`: under the write lock only the size is checked again | `rpcmetrics/endpoints.go:37` |
| `DocumentedBound` | `MCParts.cfg` | `utils/rate_limiter.go:73` leaves the tick alone while the balance suffices | `utils/rate_limiter.go:31` |
| `LocalRootIsFirst` | `MCPropagation.cfg` | `tracer.go:300`: every span started from the same remote context takes its place | `span_context.go:87` |

Smaller differences met while modelling: a `Close` of the reporter that
loses the swap returns while the first is still draining (`reporter.go:261`
against `:210`); the published queue length may be -1 (`reporter.go:251`); a
delegate whose bit was tested before it finished is called again
(`x/priority_sampler.go:146` against `:64`); a late-binding sampler returns a
positive decision that stays retryable (`sampler.go:410` against
`README.md:221`); a socket dialed while `SetWriteBuffer` runs keeps the default
size (`utils/reconnecting_udp_conn.go:185` against `:173`); a client whose own
`SetWriteBuffer` fails leaves the loop and the socket behind
(`utils/udp_client.go:107`); a Thrift client whose
call timed out stays out of step, with no sign of it (`thrift/client.go:62`),
and a oneway call of a method the processor does not know is answered all the same;
a batch with counters from 2^62 on and more than 127 spans would need 71 bytes of
overhead where `transport_udp.go:36` reckons with 70;
`loggingTracer.Extract` tests its error the wrong way round
(`log/zap/tracer.go:81`).

## 5. Proofs

The theorems hold for every value of the constants that satisfies the
assumptions beside them, which TLC evaluates in every run of the module.

| Module | Theorem | Property |
|---|---|---|
| `RemoteReporterProofs` | `TypeCorrect` | `TypeOK` |
| | `ReferencesCounted` | `ReferencesExact` |
| | `PooledSpansFree` | `NoUseAfterPut` |
| | `ReportedSpansIntact` | `NoCorruption` |
| | `DeliveredInOrder` | `DeliveryInOrder` |
| | `CountersTrue` | `CountersExact` |
| | `DeliveryImplemented` | `ImplementsDelivery` |
| `TraceSamplingProofs` | `TypeCorrect` | `TypeOK` |
| | `PositiveNeverLost` | `PositiveSticks` |
| | `RemoteDecides` | `RemoteDecisionKept` |
| | `SampledReported` | `SampledSpansReported` |
| | `RejectedByAll` | `NegativeIsUnanimous` |
| | `TreatedAlike` | `DecidedOnce` |
| `RemoteSamplerProofs` | `DecisionsWhole` | `NoTornDecision` |
| | `LimitersUnique` | `OneLimiterPerOperation` |
| | `StrategyFollowed` | `SamplerFollowsStrategy` |
| `TransportsProofs` | `LossesCounted` | `LossesAccounted` |
| | `CollectedOnce` | `TakenOnce` |
| | `TransportsImplemented` | `TransportsImplement` |
| | `PackingSound` | `PackingExact` |
| `TracerCloseProofs` | `RestrictionsLast` | `LastAnswerHolds` |
| | `NothingPolls` | `NoPollAfterClose` |
| | `CreditsAccounted` | `CreditsConserved` |
| `PropagationProofs` | `CarrierExact` | |
| | `TypeCorrect` | `TypeOK` |
| | `SpansFormTree` | `TraceTreeSound` |
| | `ContextsSurvive` | `RoundTrip` |
| | `BaggageStays` | `BaggageIsolated` |
| `RpcProofs` | `EndpointsBounded` | `EndpointsExact` |
| | `AnswersBelong` | `AnswersInStep` |
| | `CallsReadBack` | |
| `PartsProofs` | `LogsKept` | `LogsExact` |
| | `CreditsBounded` | `WindowBound` |
| | `TypeCorrect` | `TypeOK` of `ReconnectingConn` |
| | `SocketsAccounted` | `SocketsExact` |
| | `WritesUndisturbed` | `NoCloseUnderWrite` |

**RemoteReporter**, for any spans, closers, capacity and bound on reuse.
`TypeOK` alone is not inductive: that an item is an instance needs `Started`, that
an object at work has been used at least once; `TypeInv` is their conjunction.
`ReferencesExact` alone is not either. Whether a receive moves one holder from
the channel to the worker depends on `Placed`: an object is at most once in the
channel and never in the channel and the worker, and its owner no longer holds
it as live once it is there. `NoCorruption` must come along too, because a start
of a new use may only happen when nothing refers to the object. So the inductive
invariant is `IInv == TypeInv /\ Placed /\ ReferencesExact /\ NoCorruption`
(`RefInv` groups the last three). The proof has one lemma for each action that
moves a reference (`StartInv`, `ReportInv`, `ReceiveInv`, `CloseSendInv`,
`WorkerReleaseInv`, `OwnerInv`) and one (`QuietInv`) for all the others;
`ReceivePlaces` says where objects are after a receive. `NoUseAfterPut`
follows by counting holders (`IInvImplies`).

On top of it stand three more invariants of the reporter.
* `DeliveryInOrder` says that the backend, the buffer, the worker's hand and the
  channel, one behind the other (`Pipeline`), hold the accepted spans that are not
  lost, each once and in the order of acceptance. `DInv` adds to `IInv` why a
  span is accepted once (`TakenInv`: a use that is still live was not yet
  accepted, an accepted one was not dropped) and why nothing is left behind
  (`SettledInv`: the worker has flushed before it signals, and `Close` waits for
  the signal). `FlowInv` is the property over constants, so that one lemma for each
  way a span moves serves all the outcomes of `Append` and `Flush`.
* `CountersExact` needs cardinalities: `LengthInv`, that the goroutines between
  their send and their increment are finitely many and are exactly the
  difference of counter and channel, and `FirstClose`, that one closer at most is
  active, so that at most one close item is counted. `CInv` is their conjunction.
* `ImplementsDelivery` is a step simulation: each action of reporter, worker and
  closer is a step of `SpanDelivery` or leaves its variables alone. The abstract
  Close returns only when what it found is settled; that is `DrainInv`, by which
  the spans accepted before the close item stay ahead of it in the channel.

**Transports**, for any spans, sizes, packet size, overhead and batch sizes.
`LossesAccounted` speaks of the reports that were written; `GapInv` extends it by the
report that has not been sent yet: sequence numbers used since the last report and
spans lost since then are both zero or both positive, and there are no more of
the former than of the latter. Every way through `Append` and `Flush` sends one
batch at most, so `BatchLeaves` proves the step once, for any batch and any rest of
the buffer. `TakenOnce` needs that a span in the buffer was neither taken nor lost
before (`BufferInv`) and that the batches the collector took are disjoint
(`HistoryInv`). `PackingExact` compares a counter with a sum over the buffer. `PackInv`
adds why a batch can only be refused alone: what is in the buffer fits one
datagram with its process, or is a single span (`Packed`), and this holds again after
each of the four ways through `Append`, which measure before they append or after. The
refinement comes out of the same lemmas: a flush is an `Emit`,
of the buffer, of the buffer with the new span, or of nothing.

**ReconnectingConn**, for any writers, sockets and addresses. `SocketsExact` says
who may hold an open socket, but not that only one does, and a step that closes
a socket must know that nobody else has it. `HolderInv` adds this: `Placed` (a
socket in a goroutine's hands is open, and the hand is at the place in the code
where it may be), `OneHolder` (no two hands hold one socket, nor a hand and the
connection), `WritersCurrent` (a write in progress is on the current socket,
because a swap waits for the read lock). `NoCloseUnderWrite` is then a fact about
single steps from `IInv == HolderInv /\ SocketsExact` (`StepSparesWrites`).

**TraceSampling**, for any spans, goroutines, samplers in any order, and setups.
All invariants stand on `BaseInv`: types, `Begun` (nothing happens before the
first span) and `Asked` (a goroutine that sets a priority was told to by a call,
so that the steps that may take `sampled` away contradict `Unforced`).
`DecisionStays` says what survives every step.
* `PositiveSticks` is inductive with it: `ApplyingStep` shows that whoever applies a
  positive decision either still does or has set the flag.
* `RemoteDecisionKept` needs `JoinInv`: `final` is set from the first span on, so that
  no goroutine can get to the sampler or to applying a decision.
* `SampledSpansReported` speaks of what `Finish` does in many steps. `Staged` says how
  far it is, and `StatusFits` and `Alone` that the goroutine that finishes a span is
  alone with it, without which another's step could move the status.
* `NegativeIsUnanimous` needs a loop invariant for the round through the delegates:
  `VoteFits`, a goroutine with no retryable answer has passed finished delegates
  only, whoever finished them; and `Settled`, why a decision may be final.
* `DecidedOnce` needs `OnceInv`: while the decision is made only the goroutine that
  starts the trace works, and no span is live that the outcome could divide
  (`Opening`); afterwards it is final, the flags stay, and whatever a later step
  reads is the same decision (`Alike`).

**RemoteSampler**, for any users, callers of `UpdateSampler`, operations and
strategies (`StrategyAssumption`). `ReaderFits` says that what a goroutine under the
read lock has in hand is still the sampler's, which needs that one without an
entry has found the map full: otherwise an insertion would change what it sees.
`LimiterFits` is `OneLimiterPerOperation` for one operation, and bounds the
identity by `made`, so that a new one is different. `FollowInv` adds to
these that the lower bound for operations still to come is the strategy's, and
that the map is finite, as `TrackedBounded` counts it.

**TracerClose**. `Served` ties the restrictions to the answer that was used last.
`Gone` says where in `Tracer.Close` each poller must have ended, and that a poller
outside a refresh has no request under way. `CreditsConserved` adds up, for each
operation, what the agent granted. `CreditInv` says who may have a request: a caller
only under the lock and for one name, which is in the map by then (`Requests`);
and that an answer names only what was asked and is forgotten when it is used
or lost (`Answers`). The identity of a caller must not be the value `"free"`
of the mutex, which `ThrottlerAssumption` states.

**RpcMetrics**, for any calls, operations, normalisation and number of endpoints.
`EndpointsExact` bounds the metrics that are made, counts how often, and counts
finished spans. The bound needs that only names of the first cache and the
placeholder get metrics (`NamesInv`, `CallsInv`: what a goroutine carries from one
lock to the next is in the cache, and stays there); that metrics are made once is
`RegistryInv`; `CountInv` equates each counter with the number of spans that went
through it.

**ThriftRpc**, for any number of calls, clients and processors. A reply that is
accepted has the number of the call that waits for it; that it also is the reply
to that very request, and the first to be read since the client was in step, is
about what is on the way: `OrderInv` (replies, then requests, in the order of the
calls), `AwaitedInv` (the call that is waited for has its request or its reply
there, or the connection is closed) and `StepInv` (once a call has failed, an older
reply stays ahead of every later one, or the connection is closed and
nothing is left to read, so that no call succeeds any more).

**The Thrift protocols**, for any calls of generated code and any bytes on the wire
after or instead of the last ones. `CallsReadBack` is about the compact protocol and
the strict and the lax binary one: the calls of a reader that match those of a writer
return what was written, and the reader stops after the last byte; if the wire ends
before that, some call fails and every call before it was right, so that no part of a
message is ever taken for something else. It is proved call by call. For each kind
of value there is a lemma about its bytes: a wire that agrees with them is read back
if it holds them, and the read fails otherwise (`Reads`, `BinaryReads`); a wire that
has two parts is read part by part (`Chained`). `Level` then relates the two sides
between calls: the reader is after what the writer has written, with the same stack of
field numbers and the same last one. It does not hold everywhere in the compact
protocol, where the header of a boolean field is only written with its value, and
the reader has the value as soon as it has the header: between the two the reader
is `Ahead`. `CompactStep`, `CompactBoolHeader`, `CompactBoolValue` and `BinaryStep`
carry the relation through one call (`FineNext`), and the first call after which it
does not hold is the one that fails. Sequence numbers and sizes are taken to be
nonnegative, as they are until a client has made 2^31 calls, and strings and binaries
to be no longer than `MaxMessageSize`, beyond which the readers refuse them.

**SpanLogs**, for any limit and any number of records, one at a time or in bulk.
The ring is described by positions: `NumberAt` says which record is at which place
of a full buffer after `d` have been dropped (`FullBuffer`, in `LogsInv`). That
`rotateLogBuffer` turns a ring in place is a theorem about its loop of swaps, for
any buffer and position (`LemmaRotation`): at each turn the elements that are not yet in
place lie in three pieces, from `next`, `middle` and `first` on (`Place`, `Turning`).

**RateLimiter**, for any rates, maxima and costs with a largest one, and any time.
A sum over all checks in a window is not inductive in the window, so
`OpenInv` bounds it together with the balance that is left, for every window that
ends now. Before the first look at the clock in the window, what was spent and what is
left are one full balance at most; afterwards two, and the yield since the window
began, because the tick that finds the time before the window adds at
most one. An update keeps the share of the maximum that the balance is, so one in the window
changes the rate and the maximum to be reckoned with, nothing else. `OverInv` carries
the bound on for windows that have ended.

**SpanContextCodec**, for any base and width of IDs, any characters and any limits
of the binary format. `CarrierExact` is about one context and one format: every
result that an extractor may come to, in whatever order it visits the headers, has
the IDs, flags and baggage that were injected, or the extractor fails; and it fails
on a valid context exactly when `Unreadable` says so. Below it are lemmas about
written and parsed digits, padding, escaping and unescaping, and folded keys. The
proof added a case to `Unreadable`: a trace ID whose low half is 0, which is valid with
another high half, is not read from a Zipkin carrier.

**Propagation**, for any tracers, any carriers of other clients within
`SetupAssumption`, and any number of spans and contexts kept. The inductive invariant
is `TraceInv`. `TypeInv` says that what contexts point to exists, and that a
valid context has a sampling state. A tree is a statement about spans, but a span's
parent comes from a context that was copied, kept, edited or sent around; so
`KnownInv` says of every context that the spans of ours it names were started, in
the same trace, and `CarrierInv` says it of everything a carrier on its way may be
read as, which is where `CarrierExact` is used. `FreshInv` keeps the ID that is
drawn next apart from all others. `TreeInv` orders the spans: a parent of ours is
an earlier one. `TraceTreeSound` and `RoundTrip` follow from `TraceInv`;
`BaggageIsolated` is about single steps from it, since no step writes a map that
exists.

Sums, powers, digits and rotations are recursive functions here, and what they
compute is proved by induction: were there a number for which it is wrong, there
would be a least one (`LeastNumber`, `Induction`, from `WFMin`).

Only model-checked:

* The liveness properties (`CloseTerminates`, `SpansResolved`, `Converges`,
  `CloseReturns`): fairness and ENABLED are beyond the provers.
* `RoundTrip`, `TruncationRejected` and `EnvelopeBounded` of `ThriftWire`: the templates
  of `Read`, `Write` and `Skip` are mutually recursive operators over tables that
  refer to each other, and a module that declares one has no SMT prover. The calls
  that the templates make are those of `CallsReadBack`; that `Read` asks for the calls
  that `Write` made, fills the fields with them and skips what it does not know is
  what TLC checks. `MCThrift` evaluates `CallsAssumption`, by which the calls of every
  value in the run are `Orderly`.

## 6. Plan

Done: the reporter with its pool; the UDP and HTTP transports, both implementing
`Transport`; the decision of a trace; the reconnecting connection; the remote
sampler; throttler and restrictions under `Tracer.Close`; propagation with
baggage; Thrift structures, protocols and calls; log buffer, limiter and RPC
metrics. Proved: every safety property that a run checks, but for the three of
`ThriftWire`, where the protocols below are proved call by call, and the refinements
of `SpanDelivery` and `Transport`.

There is one run for each question about a component, and a violation where a
comment promises what the code does not do and the code loses something by it; the
other disagreements are in the second table of section 4.

## 7. Not modelled

* The JSON and header protocols and the header, framed, zlib, memory and debug
  transports of `thrift/`: vendored with the runtime, used by nothing here except
  tests. Thrift maps, sets and bytes, also in `Skip`: no structure of this repository
  has one. Negative binary lengths and integers from 2^30 on: TLC's integers.
* A client that reads replies with the binary protocol and not strictly, once it is
  out of step (`thrift/binary_protocol.go:293`): the four bytes it finds are then a
  length, and the string it reads may span several replies, after which it may be in
  step again. `AnswersInStep` holds for the compact and the strict binary protocol.
* Datagrams that the network loses after `Write`: no state of the client tells them
  from others. An agent can take a gap in the sequence numbers for failed batches
  only as far as no datagram was lost.
* Configuration and environment parsing, logging and metrics back ends: no state
  that another part reads back.
* Observers: a list of callbacks made in order.
* Conversion of spans to Thrift or Zipkin structures, names, tags and wording:
  data that no property here tells apart.
* A context without a sampling state in the binary format, which panics.
* Randomness and clocks: the sampling dice are choices, tickers are actions, the
  limiter's clock is a number.
* Cross-language tests (`crossdock/`) and test utilities.
