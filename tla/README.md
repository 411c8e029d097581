# TLA+ models of the WebTransport samples

This directory holds TLA+ modules for the code this repository adds around
QUICHE: the WebTransport echo server, its test client, and the mode in which
both replace the 1-RTT keys of QUIC by null crypters. The modules are checked
with TLC on small instances and, where said so, proved with TLAPS for all values
of the constants. `PROJECT.json` lists components, runs, hazards, theorems and
the source lines behind each definition.

Paths below are relative to the repository; `samples/web_transport_` is shortened
to `wt_`.

## 1. The system

| Component | Code | State | Operations | Talks to |
|---|---|---|---|---|
| Echo stream, `BidirectionalEchoVisitor` | `wt_echo_visitor.cc` 18-72 | `buffer_`, `send_fin_`, `fin_sent_`, `stop_sending_received_` | `OnCanRead`, `OnCanWrite`, `OnResetStreamReceived`, `OnStopSendingReceived` | its `webtransport::Stream`: `Read`, `WriteIntoStream`, `SendFinOnStream`; called back by it |
| Echo session, `WebTransportEchoVisitor` | `wt_echo_visitor.cc` 104-182 | `echo_stream_opened_`, `streams_to_echo_back_` | `OnSessionReady`, the two `OnIncoming…Available`, the two `OnCanCreateNewOutgoing…`, `OnDatagramReceived` | `webtransport::Session`: accepts and opens streams, attaches echo streams and `CompleteBufferVisitor`s |
| Test client | `wt_test_client.cc` | the flags, `State{ready, failed}`, `EchoOperation`, the position in `RunClient` | `main`, `RunClient`, session callbacks, the response callback, `AcceptAndDiscard`, `DiscardStreamVisitor` | QUIC client and event loop (`Connect`, `ProcessEventsUntil`), the session, one stream per echo |
| Null crypter | `wt_null_encrypter.*`, `wt_null_decrypter.*` | none but the role | `EncryptPacket`, `GetCiphertextSize`, `GetMaxPlaintextSize`, `DecryptPacket` | QUICHE's `NullEncrypter`/`NullDecrypter`, called by the packet creator and the framer, often in place |
| Null-mode sessions | `wt_client_session.*`, `wt_server_session.*` | `demo_crypto_config_` | the four key hooks | TLS handshaker (keys), `QuicConnection` and `QuicFramer` (install and use them) |
| Adapters, dispatcher | `wt_client_adapter.*`, `wt_server_adapter.*`, `wt_dispatcher.*` | the same flag | construction of sessions, early data off | QUICHE's client, server, dispatcher |
| Test server | `wt_test_server.cc` | none | `ProcessRequest`, `Main` | chooses the visitor of a session |
| Logging override | `overrides/quiche_platform_impl/quiche_logging_impl.*` | `g_dlog_enabled`, `--v` | the log macros, `IsDLogEnabled`, `SetDLogEnabled` | every thread of QUICHE that logs; Abseil's logging |
| Others | `network_initializer.h`, `FormatEchoPayload`, `CMakeLists.txt`, `cmake/` | none | process start, formatting, feature switches | |

The samples run on one event loop per process and every callback runs to its
end (only the logging override is made to be used and set by several threads), so the
interleavings that matter are those of *callbacks*: the transport calls in the order in which the network, the peer and flow control make things
happen. What is hard:

* **Echo stream.** Reading, writing and ending are decoupled. Data or a FIN may
  arrive before there is a visitor; a write may be refused at any point with the
  FIN already read; a reset or STOP_SENDING may come in between, or before the visitor
  and then unheard. Correct means:
  no byte lost, duplicated or overtaken, the FIN behind everything, and an echo
  that finishes although every retry depends on one more callback.
* **Echo session.** Streams are opened, end and are accepted in independent
  orders; outgoing streams need credit that is granted at any time; opening may
  fail. Correct means: payloads leave in the order they were complete, each once,
  none waits while it could go, and the server's own stream is opened once.
* **Test client.** Straight-line code with five places that run the event loop,
  with timeouts, a raw session pointer and a failure flag set by callbacks.
  Correct means: exit code 0 only after verified echoes, nothing done on a closed
  session, an end in all cases. The streams it throws away share the connection's
  flow-control window with the response, so they have to be read to the end.
* **Null crypter.** In-place operation over overlapping buffers, unsigned sizes,
  damaged and truncated packets. Correct means: byte-exact, nothing false
  accepted, sizes as announced, enough bytes for header protection.
* **Null-mode sessions.** Key installation in the order of the handshake, key
  updates by either side that cross, late packets of old phases, peers in another
  mode. Correct means: null exactly where asked, both directions in step, nothing
  accepted across modes, nothing refused that real keys would accept.
* **Client and server together.** Neither tells the other how far it is but by bytes
  and FINs. Correct means: the response that is compared is complete, every echo is
  answered, and one echo is over on both sides before the next begins.
* **Logging.** A macro expands to a Boolean expression of shared atomic variables and of
  the call site's condition, evaluated while other threads store to them. Correct means:
  each gate covers all of the condition, and a guard agrees with what it guards.

## 2. Modules

### EchoPipe, EchoStream, EchoReceiveLog, EchoStreamProofs

`EchoPipe` is what one echo stream promises, without buffers or callbacks: the
bytes sent come back in order, and the FIN comes back after all of them. After a reset
it comes back after some prefix of them, or, if the reset was early, not at all.

`EchoStream` is `BidirectionalEchoVisitor` with the stream under it. The fields
keep their names. `ReadAndEcho` is `OnCanRead` with the `OnCanWrite` at its end,
`FlushEcho(buf, fin)` is `OnCanWrite` for given values of the fields, and
`AcceptIncoming` is the body of the accept loop (attach the visitor, then read).
`readOwed` and `writeOwed` say which callbacks the event loop owes. The callbacks
may also come when nothing is owed; the code must not mind.
Until the accept loop has attached a visitor the transport makes no callback. Bytes and
a FIN that come before it wait to be read; a RESET_STREAM (`ResetBeforeAccept`) takes
away what waits (`Readable`), and the read of the accept loop finds neither bytes nor an
end; a STOP_SENDING (`StopBeforeAccept`) closes the write side (`stopped`) without
`stop_sending_received_` being set, so that the visitor goes on trying and every write is
refused. A stream with both is closed and never accepted (`Open`).
External: bytes arrive in order; `Read` takes all that is there; a write is taken
whole unless the send buffer holds `SendThreshold` bytes or more, the FIN was
written or the peer stopped the echo; a drained buffer causes `OnCanWrite`.

`EchoReceiveLog` adds, as a history variable, the payloads that `OnCanRead` logs.

### EchoSession, EchoSessionProofs

`WebTransportEchoVisitor` for unidirectional streams and the server's own
bidirectional stream. A stream stands for its payload. `Complete(streams)` is the
callback given to `CompleteBufferVisitor`, for one stream or for the streams that
one accept loop finds ended; `TrySendingUnidirectionalStreams(queue, credit)` is
the loop of that name. The streams that an accept loop finds ended (`Ended`) keep
their order: an increasing function into them picks them. `completed`, `echoed` and `bidiOpened` are history. The
visitor for a bidirectional stream is attached here and modelled in EchoStream.
`OnDatagramReceived` has no state and is left out.

### EchoClient (proofs in EchoDemoProofs)

`phase` is the place in `RunClient`; the code between two runs of the event loop
is one action (`Main`, `SetUp`, `Connected`, `RequestSession`, `SessionAnswered`,
`StartEcho`, `FinishEcho`, `PauseOver`), and any number of callbacks
(`OnSessionReady`, `OnSessionClosed`, `ResponseComplete`, ...) may happen in
between, even after the condition of the wait has become true. `TimedOut` is any
of the four waits returning false: `ProcessEventsUntil` looks at its condition
once more at the deadline, hence the guard `~Condition`. Checks that can only fail
and return 1 (name lookup, certificate verifier, WebTransport support, missing
stream) are choices. `--interval_ms` and `--timeout_ms` are 0 (which stands for a
refused value, and for no interval) or a number of ticks.
The server is arbitrary: it may answer with anything, at any time or never.

### EchoDemo, MCEchoDemo, EchoDemoProofs

The two programs together. EchoDemo extends EchoClient and instantiates EchoStream for
the stream that was opened last (echoes are serial). The client's `StartEcho` makes a
fresh stream (`OpenEchoStream`); once the client's stream has taken the message
(`written`), EchoStream's peer sends it byte by byte and then its FIN
(`MessageArrives`); the FIN of the echo is what lets `CompleteBufferVisitor` call back
(`ResponseArrives`), and what it read is compared with the message, where EchoClient
allows any answer. A session that is gone resets the stream in both directions.
`MCEchoDemo` supplies the message.

### DiscardStreams, DiscardStreamsProofs

Streams opened by the server on the client's session: `AcceptAndDiscard(kind)` is the
accept loop, which takes all streams of one kind that wait and reads each at once;
`OnCanRead(s)` is `DiscardStreamVisitor`'s. `Held` is what takes up the receive window
of the connection: bytes that arrived, on whichever stream, and were not read. The
server writes only while there is room. QUIC gives credit back in larger portions than
the model does, never later than when half the window was read, so that the window is
never full for that reason alone.

### Logging, MCLogging, LoggingProofs

Each macro is an operator that gives the expression behind it: a severity, guards, and
the alternatives of the condition. `Prefixed` is what `predicate && condition` without
parentheses means in C++ when the condition contains `||`. A thread reaches a statement
and evaluates it one test per step (`EvaluateGuard`, `EvaluateCondition`, `Decide`);
`SetDLogEnabled` and `SetVerboseLevel` may come between any two. The build, Debug or
Release, is the constant variable `NDEBUG`. The accesses are relaxed, but each concerns
one atomic variable and a thread never sees an older value after a newer one, so a late
store is a store that happens later. `sawOn`, `sawOff` and `sawVerbose` are history.
`MCLogging` supplies conditions and levels.

### NullCrypter, MCNullCrypter, NullCrypterProofs

One packet from the sender's buffer to the receiver's result. Memory is a function
from offsets to cells so that in-place operation can go wrong: `EncryptPacket`
writes prefix, plaintext and hash over the very buffer the plaintext came from,
unless `PlaintextCopy` was taken first, and a copy of the payload out of the packet
itself would be an overlapping `memcpy`, whose result is one of
`OverlappingCopies`. `MCNullCrypter` supplies plaintexts.

### OneRttKeys, OneRttKeysProofs

Two endpoints, each with its flag. The operators named like the hooks give the key
that ends up installed; both session classes have the same code, with the role as
the only difference, so they share one parameter `s`. Keys are records: the kind
(real or null), the side that encrypts, the level and the key phase. The framer is
external: it keeps the previous, current and next decrypter, asks the session for
the next one when a packet *may* be of the next phase, and updates when that
decrypter opens it. Sent packets stay in `packets` and may be received in any
order, once, or never; `ReceiveDamaged` is a packet no key opens.
With a null and a real endpoint, header protection is not removed the way it was
applied, so the phase bit read is arbitrary (`PhaseRead`).

### ServerRequest, MCServerRequest, ServerRequestProofs

`ProcessRequest`. The call is synchronous, but its loop is spread over steps, one
for each key-value pair (`ReadQuery`), so that its invariant can be stated: `read`
is how far `query_component` has moved. `GURL` and `ExtractQueryKeyValue` are external
and have done their work in `Init`; a value that `SimpleAtoi` refuses is `NotANumber`.
`DeviousBatonValue` is the narrowing to 8 bits, of the random baton as of a given one.
`MCServerRequest` supplies the numbers, of which one is negative.

## 3. Runs

| Run | Bounds | Shows |
|---|---|---|
| `echo_stream` | 5 bytes of 2 values, threshold 2 | type, `EchoConserved`, `FinBehindEcho`, `NothingStuck`; under fairness `EveryByteEchoed`, `EndAnswered`, and `PipeRefined`: EchoStream implements EchoPipe, liveness included |
| `echo_session` | 3 streams, up to 3 credits of each kind, from any start value | `EchoedInOrder`, `NoIdleCredit`, `EchoStreamOpenedOnce`, `EveryStreamEchoed` |
| `echo_client` | up to 3 echoes, timeout 2 ticks, interval 1, connect limit 3 | `SuccessMeansEchoed`, `OneEchoAtATime`, `NoUseAfterClose`, `Terminates` |
| `echo_demo` | up to 2 echoes of a message of 3 bytes, threshold 1, timeouts and limits of one tick | `EchoMatches`, `ServerDoneBetweenEchoes`, and under fairness `EveryEchoAnswered` |
| `discard_streams` | 3 incoming streams of up to 2 bytes, window 2, response of 2 bytes | `NoByteForgotten`, and under fairness `ResponseReceived` |
| `logging` | both builds, 1 logging thread, 3 severities, 3 conditions, levels -1 to 1 | `SwitchGatesDLogs`, `GuardMirrorsLog` |
| `null_crypter` | the real sizes 8, 12, 16, 4; plaintexts of 0-2 and of 9, 21 and 24 bytes; rooms around every size | `RoundTrip`, `AcceptedIsGenuine`, `SizesAgree`, `SampleAvailable` |
| `one_rtt_keys` | 3 packets and 2 updates a side, all four combinations of modes | `NothingOpensAcrossModes`, `NullExactlyWhereAsked`, `DirectionsUpdateTogether`, `OnlyStaleRefused`, `HandshakeCompletes`, `ConnectionUsable` |
| `server_request` | queries of up to 3 pairs, 3 keys, values -1, 0, 255, 256 and no number | `BatonAsAsked`, `RefusedIfMalformed` |
| `echo_receive_log` | 3 bytes, threshold 1 | expected violation, see section 6 |
| `connect_timeout` | one echo | expected violation, see section 6 |
| `vlog_if` | as `logging` | expected violation, see section 6 |

Why the bounds are enough. With a threshold of 2 and five bytes, bytes can be
delivered, buffered in the stream, held by the visitor and unread all at once, writes
are taken while earlier ones are pending and refused when two are; two byte values show
a swap. In `echo_demo` the message <<b1, b2, b2>> and threshold 1 let all but the
first byte be refused, and the second echo meets whatever the first left behind. In
`discard_streams` any one stream can fill the window and three can take turns. One
logging thread is enough because threads meet only in the switch and in `--v`, which may
change at every step; the conditions are `a`, `a || b` and `a && b || c`. Three unidirectional
streams can be complete in an order that is neither that of opening nor that of
accepting, with credit that runs out in the middle of the queue; the server opens a
stream of its own, and `OpenedOnce` (section 4) also covers one that does not. Three echoes give
a first, a middle and a last one; a timeout of two ticks lets an answer come
before, at and after the deadline. 9, 21 and 24 bytes reach over the prefix and
over prefix and hash in place. Three packets and two updates a side reach crossed
updates, packets two phases late, damaged packets ahead of an update, and secrets
advanced three times; these states were looked for and found. A query of three pairs
has one that is overruled by another with a third between them.

Deadlock is not checked, because everything modelled may stop: a stream whose peer
is done, a session without clients, a program that has returned, a packet that was
decrypted, endpoints that have used up `MaxPackets`, a request that was answered, a response
that was read, a process that a FATAL message has aborted.

### Fairness

* EchoStream: the event loop makes the calls it owes (accept, read, write) and the
  peer goes on granting flow control, so buffered bytes are delivered. `OnCanRead`
  and `OnCanWrite` are fair only while owed. The peer need not send, finish or cancel.
* EchoSession: owed callbacks are made, and the client raises its limit for
  unidirectional streams up to `MaxCredit`. Nothing is assumed of the client's
  streams, of the limit for bidirectional ones or of the session's end.
* EchoClient: the program runs (`Steps`) and time passes (`Tick`). Nothing is
  assumed of the server, so `Terminates` rests on the timeouts alone.
* OneRttKeys: the handshake proceeds (its packets are retransmitted), and the first
  1-RTT packet of each side, which carries SETTINGS, arrives in the end, again
  because QUIC retransmits. Nothing is assumed of the others or of key updates.
* EchoDemo: the client runs, bytes of either direction arrive, both event loops make the
  calls they owe, and the client's stream takes the message in the end. Time need *not*
  pass, so an echo cannot owe its end to a timeout; session failures and timeouts may
  still happen.
* DiscardStreams: the client's event loop makes the calls it owes, and the server goes on
  with its answer whenever there is room (which is what the echo server does, by
  `EveryByteEchoed`). Nothing is assumed of the streams it opens.
* NullCrypter, ServerRequest and Logging have no liveness.

## 4. Proofs

All obligations are checked by tlapm 1.4.5 with Z3, Zenon and LS4. Each theorem holds for
all constants that meet the ASSUME of its module, where a run shows it for one choice. The
form is the same throughout: an inductive invariant, a lemma for each action that
disturbs part of it, the invariant as a theorem, and what follows from it.

**EchoStreamProofs**, for every `Byte`, `MaxBytes` and `SendThreshold`:

* `TypeCorrect`, `BytesConserved`, `FinComesLast` and `InvariantHolds` (of
  `EchoInvariant`, which only serves the proofs and is no property of a run). `EchoConserved`
  is nearly inductive, `FinBehindEcho` is not: that the FIN is behind the last
  byte depends on nothing being unread once `send_fin_` is set without a reset, on
  `fin_sent_` agreeing with the stream, and on the visitor being attached.
  `FinFieldsAgree` says this, and `EchoInvariant == TypeOK /\ EchoConserved /\
  FinFieldsAgree` is inductive. The bound on `buffer_` in `TypeOK` follows from
  conservation by the lengths.
* `NothingIsStuck` (`NothingStuck`): what can still be read, echoed or finished has a call
  to come. What `OnCanWrite` leaves behind was refused, and while the write side is open
  and the FIN not written that means a full send buffer, which holds a byte because
  `SendThreshold > 0` (`FlushLeavesBytes`); the byte that empties it makes `OnCanWrite`
  due. This is the safety half of `EveryByteEchoed` and `EndAnswered`.
* `PipeImplemented`: `Spec => Pipe!Spec`. Each callback of the visitor is a stutter
  of the pipe but for the reset; `Deliver` is `Echo`, because conservation makes the
  head of the send buffer the next byte of `sent`; `DeliverFin` is `Finish`, because
  of `FinBehindEcho`.

**EchoSessionProofs**, for any set of streams, finite or not, any `MaxCredit`, and a server
that opens a stream of its own or not:

* `TypeCorrect`, `PayloadsEchoedInOrder` (`EchoedInOrder`), `CreditIsUsed` (`NoIdleCredit`),
  `OpenedOnce` (`EchoStreamOpenedOnce`) and `InvariantHolds`. That what was echoed and what
  is queued make what was completed is a matter of concatenation; that nothing is
  completed *twice* is not inductive. `OnePlace` is the reason: a stream is in the accept
  queue, or among those with a read to come, or completed, and in the queue once.
  `NoIdleCredit` holds because each call that adds to the queue or to the limit ends in
  the loop that sends, and that loop stops only at an empty queue, at the limit, or when
  the session is going away.
* `EndedStreamsAccountedFor`: a stream that has ended was completed or a callback that
  completes it is due (`NothingLost`). This is the safety half of `EveryStreamEchoed`.

**OneRttKeysProofs**, for every `MaxPackets` and `MaxUpdates`, that is for connections
of any length with any number of key updates, in three sections:

* `TypeCorrect`, `ModesDoNotMix` (`NothingOpensAcrossModes`), `NullWhereAsked`
  (`NullExactlyWhereAsked`) and `KeysInvariantHolds`. The inductive invariant adds to
  the first two that every 1-RTT crypter a side holds, the previous and next
  decrypter included, is of the kind its own flag asks for, and every packet of the
  kind its sender's flag asks for. A packet opens only under an equal key, so kinds
  agree, so flags do.
* `UpdatesInvariantHolds` and `UpdatedTogether` (`DirectionsUpdateTogether`). The
  decrypter of the next phase is made ahead of the update, and the secrets advance with
  it, so that both directions agree is not inductive. `InStep` says how far the secrets
  may be ahead: by one phase exactly while a next decrypter is kept. The encrypter is
  then made from secrets of the phase of that decrypter. `KeysInOrder` is the order of
  the handshake: without it an encrypter could be replaced after an update.
* `StaleInvariantHolds` and `RefusedOnlyIfLate` (the action property `OnlyStaleRefused`).
  A side refuses a packet when none of three decrypters is its key, chosen by one bit
  and by the packet number, so the proof needs how far apart everything can be.
  `PacketsDated`: a side's packets are numbered in the order of their phases, and the bit
  is the phase's parity. `PhasesClose`: the two sides are at most one phase apart, what
  was opened is not of a later phase than the opener's, and the previous decrypter, while
  kept, is that of the phase before. `ReceiptsOK`: acknowledgements name opened packets
  only; an update waits for one, which is why the peer of a side that updates is not
  behind. Null keys do not show a phase, so null connections have an invariant of their
  own, `NullOK`: until a side has a packet of its phase or a previous decrypter, nobody has
  updated. Steps are reduced to six effects (a packet sent, opened, a decrypter made,
  an update, ...) before the invariant is looked at.

**NullCrypterProofs**, for all sizes of prefix, hash and buffer, all plaintexts and rooms:

* `RoundTripIsExact` (`RoundTrip`): the packet is prefix, hash and plaintext, cell by
  cell (`Cell`), wherever the input lay, because it is saved before the first write
  (`Saved`) and the three writes do not overlap; decryption then has one outcome.
* `OnlyGenuineAccepted` (`AcceptedIsGenuine`): the first cell of a hash names payload and
  side, and nothing that happens to a packet makes a *new* such cell.
* `AnnouncedSizesHold` (`SizesAgree`), `SampleExists` (`SampleAvailable`), `TypeCorrect` and
  `NullInvariantHolds`. `SampleExists` assumes `1 + kSamplePrefixSize + HashSize >=
  SampleOffset + SampleSize`, the condition under which an empty plaintext has its sample:
  21 >= 20 for the sizes of the code. It is the only theorem with an assumption of its
  own, and false without.

**LoggingProofs**, for any threads, conditions and levels:

* `SilentWhenOff` (`SwitchGatesDLogs`), `GuardAgrees` (`GuardMirrorsLog`) and
  `SitesInvariantHolds`. A running statement has seen what the switch is now, hence one
  that is past all its guards has seen it on. `Expansions` is the lemma about the macros:
  in a Release build the switch is the one guard of each debug macro, in a Debug
  build there is none.

**EchoDemoProofs** has the client alone first, for every `MaxCount`, `Timeout`, `Interval`
and `ConnectLimit`:

* `TypeCorrect`, `SuccessIsEarned` (`SuccessMeansEchoed`), `EchoesAreSerial`
  (`OneEchoAtATime`), `SessionOutlivesUse` (`NoUseAfterClose`) and
  `ClientInvariantHolds`. The invariant ties the position in
  `RunClient` to what has happened outside: `LoopProgress` says that `index` is the number
  of verified responses but for one that came and was not looked at, and of opened
  streams but for the one on its way; `SessionKnown` says that a session which was ready
  is alive or has set `failed`, which is why testing the flag protects the raw pointer.

Then the demo, for every message, of any length and the empty one included:

* `EveryAnswerMatches` (`EchoMatches`), `EchoesDoNotOverlap` (`ServerDoneBetweenEchoes`)
  and `DemoInvariantHolds`. The proof is compositional: every step of the demo is one of
  EchoClient and one of EchoStream, or leaves it alone, so the two inductive invariants
  carry over, that of the stream from an instance of `EchoStreamProofs`; only the opening
  of a stream has to be looked at. `Tied` adds what connects them: a FIN is behind the
  whole message, only the stream of a session that is gone is reset, and a response that
  was verified leaves nothing on its stream.
* `ClientImplemented`: `DemoSpec => Spec`. The demo narrows the server, not the client.

**DiscardStreamsProofs**, for any streams, window, pushes and response:

* `BytesAreRead` (`NoByteForgotten`) and `TypeCorrect`. `NoByteForgotten` alone is not
  inductive: bytes may arrive on a stream that waits, and that its kind has a callback to
  come is `WaitingAnnounced`.

**ServerRequestProofs**, for all keys, numbers and lengths of queries:

* `TypeCorrect`, `BatonIsAsAsked`, `RefusalIsDeserved` and `RequestInvariantHolds`. The
  invariant is the result restricted to the pairs read so far (`AsRead`).

Across modes only part of `OneRttKeys` is exercised, and that is how QUICHE's framer is.
The phase bit may read as either value there, but a packet of the other phase counts as a
late one until something was opened, and nothing ever is: `ReceivePrevious` is reached,
`ReceiveNext` is not, and as nothing is acknowledged no side starts an update.
`NothingOpensAcrossModes` thus speaks of the first phase, and what `OnlyStaleRefused` and
`DirectionsUpdateTogether` say of updates concerns endpoints of one mode; null keys show no
phase, so that for a null endpoint the latter says that both directions stay null.

Only model-checked: the liveness properties (`EveryByteEchoed`, `EndAnswered`,
`EveryStreamEchoed`, `Terminates`, `EveryEchoAnswered`, `ResponseReceived`,
`HandshakeCompletes`, `ConnectionUsable` and the fair part of `PipeRefined`). They rest on
weak fairness, whose definition has ENABLED, which the prover does not handle. Every
invariant and every action property of a passing run is a theorem. The three runs that
expect a violation (section 6) show a counterexample, and need no proof.

## 5. What is not modelled, and why

* Datagrams and the formatting of log lines: no state of their own.
* Of the logging override, the FIRST_N and EVERY_N_SEC macros, whose counters are
  Abseil's, and the CHECK macros, which only rename Abseil's.
* The feature switches of the build: options, three implications between them and lists
  of files, evaluated once; nothing happens over time.
* `Main` of the server, adapters and dispatcher beyond the flag they carry, the
  network initializer: construction and I/O.
* Early data. It is turned off in null mode, and without a session cache the client
  never attempts it in any mode.
* QUICHE itself: external, modelled only as far as the samples use it.
* Memory limits: neither `buffer_` nor `streams_to_echo_back_` is bounded by the code.

## 6. Where documents and code differ

1. `echo_receive_log` / `BytesLoggedOnce`. `OnCanRead` logs the whole of `buffer_`
   (`wt_echo_visitor.cc:28`), so bytes whose write was refused are logged again with
   the next ones; `docs/WEBTRANSPORT_NULL_CRYPTER_PLAN.md:278` wants application bytes
   logged once under partial and blocked writes.
2. `connect_timeout` / `ConnectionWaitBounded`. `--timeout_ms` is read after `Connect()`
   has returned (`wt_test_client.cc:196-204`); its help text (line 46) and
   `docs/WEBTRANSPORT_DEMO.md:415` include the connection.
3. `vlog_if` / `VerboseOnlyIfAsked`. `VLOG_IF` and `DVLOG_IF` do not put their condition in
   parentheses (`quiche_logging_impl.h:270, 274`), so `VLOG_IF(0, a || b)` is logged whenever
   `b` holds; `quiche_logging_impl.cc:11-12` has the default `--v` disable all verbose logs.

None of the three touches the echoed data. Three smaller observations have no run. A
RESET_STREAM before the accept loop comes to the stream is never answered: nobody calls
`OnResetStreamReceived` (`wt_echo_visitor.cc:57-60`), the read at line 122 sees no FIN, and
the echo half stays open until the session ends. `EndAnswered` therefore asks an answer
to a reset only of a stream that was accepted before it, and the fairness of `EchoPipe`
asks none; all that is promised is that RESET_STREAM works
(`docs/WEBTRANSPORT_NULL_CRYPTER_PLAN.md:387`). The client writes its `echo_send` line
behind `OnCanWrite()` whatever became of the write (`wt_test_client.cc:291-292`; line 280
of the plan above says after a successful one; in EchoClient `WriteMessage` has the three
outcomes). And the comment at
`quiche_logging_impl.cc:21-22` speaks of preserving an enabled default where the value is
false.

## 7. Plan

Done: echo stream with its abstraction, echo session, test client, the two together, the
streams the client discards, null crypter, 1-RTT keys, requests, logging; every invariant
and every action property of the passing runs proved.

What could come next:

1. An abstract specification of the session (payloads that are complete leave first in,
   first out) with `EchoSession` shown to implement it, as `EchoPipe` is for a stream.
2. An abstract specification of a connection's keys (a phase for each direction, packets
   that open or are stale) below `OneRttKeys`; `StaleInvariant` has what its steps need.
3. What remains true of the echo pipe when the stream of one echo follows another in
   EchoDemo: a pipe per echo.
