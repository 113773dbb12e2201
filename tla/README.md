# Verification of webxash3d-proxy

TLA+ models of the proxy that lets a browser watch a Half-Life HLTV stream, of
the page it serves, and of the DTLS crate it vendors; TLC runs over small
instances; and proofs, checked by TLAPS, of what matters most for every value
of the parameters. Paths below are relative to the repository.

Contents: 1 the system · 2 the modules and how they map to the code · 3 the
runs · 4 bounds · 5 fairness · 6 what is proved · 7 findings · 8 what is only
model-checked, and what is not modelled · 9 plan.

## 1. The system

```
 engine (wasm) <-> main.ts <-> webrtc.ts ~~ WebSocket ~~> signaling.rs
                    watchdog     peer     == 2 data ==>      | bridge.rs <-> UDP <-> HLTV
                    buffer       channels    channels        | (one per browser)
                                    \__ DTLS handshake (vendor-webrtc-dtls) __/
```

| component | state | operations | hard behaviour | correct when |
|---|---|---|---|---|
| **Bridge** `src/bridge.rs` | the two tasks `start()` and `forward_udp_to_webrtc()`, one `Notify`, `browser_started`, `saw_packet`, a UDP socket, two data channels | start, receive, forward, idle timeout, teardown, shutdown, `on_message`, `on_close` | both tasks wait on one `Notify` that holds one permit; `select!` drops the futures that lose; preconditions of branches go stale; ICMP errors are reported to whoever touches the socket next | a shutdown is never lost; no teardown before the browser has sent; a stream that stops is noticed; the delta-compressed stream is relayed in order, without a gap |
| **Session** `src/signaling.rs` | WebSocket handler, peer connection, `channels_open`, bridge holder, connection monitor | create peer, offer/answer, `on_open` of two channels, `start_bridge()`, cleanup, `close_peer()` | callbacks on any thread in any order; the session may end while the bridge is being created; the connection may be lost and recover | at most one bridge; no bridge is forgotten; a bridge ends with its session |
| **Browser transport** `client/src/webrtc.ts` | WebSocket, peer, channels, reconnect and keepalive timers, candidates, pending `handleDescription()` calls | connect, offer, candidates, reconnect, `forceReconnect()` | `this.peer`/`this.ws` re-read after each `await`; events of replaced sessions arrive late | recovery has no dead end; candidates reach the peer; the keepalive runs while a socket is open |
| **Browser recovery** `client/src/main.ts` | incoming buffer, watchdog, `rejoinInFlight`, `stallCount`, reload guard, visibility | watchdog, `rejoin()`, `visibilitychange`, reload | hidden tabs, rejoins asked for during a rejoin, one reload only | no packet is dropped while watched; a broken delta chain is repaired; a silent stream gets a new transport |
| **DTLS handshake** `vendor-webrtc-dtls/src` (`handshaker.rs`, `flight/`, `conn/mod.rs`, `fragment_buffer/`, `handshake/handshake_cache.rs`) | per side: flight, state, message counters, handshake cache, fragment buffer, queued records, epoch, keys; a reader task | prepare, send, wait, parse of flights 0–6, reading of records, retransmission | lost and reordered datagrams, flights split over datagrams, records that come before their keys, two tasks sharing the cache | both ends agree on keys; no keys without CertificateVerify; the handshake ends; the reader lives on |
| **DTLS negotiation** `vendor-webrtc-dtls/src` (`config.rs`, `conn/mod.rs`, `flight/`, `crypto/`, `cipher_suite/`, `signature_hash_algorithm/`, `prf/`) | per side: configuration, and what has been chosen of suite, curve, SRTP profile, extended master secret, keys, certificates | validation of a configuration, the content and the checks of every flight | each end chooses in several flights and from several lists; checks that depend on a message the other may leave out; PSK and certificates side by side | both ends agree; each end is who the other asked for; requirements are met; the outcome is the one the two configurations call for |
| **DTLS connection** `vendor-webrtc-dtls/src/conn/mod.rs` | `closed`, `packet_tx`, `decrypted_rx`, `reader_close_tx`, sequence numbers, the replay detector; a sending and a reading task | `read()`, `write()`, `close()`, deadlines, alerts, the two tasks | users and both tasks share channels of one element; lost, repeated, reordered, corrupt datagrams; a close during a write; a deadline while the packet is queued | a datagram service; what `write()` answers is true; `close()` ends both readers; what was accepted is read |
| HTTP server, configuration (`src/main.rs`, `src/config.rs`, `src/assets.rs`) | none but the atomic spectator counter | routes, parsing | — | not modelled (section 8) |
| DTLS record layer, codecs of extensions; listener; build scripts; shims in `index.html` | — | — | — | not modelled (section 8) |

Interactions. `signaling.rs` creates a `Bridge` in the `on_open` callback that
comes second, keeps it in a mutex-protected holder, and shuts it down from the
handler's cleanup or from the connection monitor, whichever takes it first. The
bridge closes the data channels to tell the page that the stream is over. The
page's channels closing starts the reconnect of `webrtc.ts`, whose new transport
makes `main.ts` rejoin; the watchdog of `main.ts` calls `forceReconnect()` when
nothing else helps. The DTLS handshake runs below the peer connection, with the
proxy as server. It is modelled twice, from two sides: `DtlsHandshake` asks in which
order datagrams, records and messages reach the two state machines, whatever the network
does, with flights whose checks succeed; `DtlsNegotiation` asks what is in the flights and
what is made of it, for every pair of configurations, with flights that arrive in order.
`DtlsConnection` begins where both end.

## 2. Modules

| module | models | kind |
|---|---|---|
| `Notify` | `tokio::sync::Notify` as the proxy uses it (external): permit, FIFO queue of waiters, woken waiters, a dropped `Notified` passing its notification on | operators on a record |
| `Relay` | abstract: an ordered relay that transforms each packet, never skips or doubles one, and stops for good after a failure | abstract specification |
| `Bridge` | `bridge.rs`: both tasks, channel callbacks, `teardown()`, `shutdown()` | component |
| `ProxySession` | `signaling.rs`; EXTENDS `Bridge` and drives it | composition |
| `WebRtcClient` | `webrtc.ts`: transport of the page, with the proxy's side of signaling as its environment | component |
| `Spectator` | `main.ts`: watchdog and rejoin over an abstract transport | component |
| `KeyAgreement` | abstract: the client settles on a key, the server takes it over and confirms first, either may give up | abstract specification |
| `DtlsHandshake` | handshake of the vendored crate, client and server, readers and network | composition of two instances of one component |
| `DtlsNegotiation` | content and checks of the flights, from the two configurations | composition of two instances of one component |
| `Datagrams` | abstract: two sides write and read datagrams, each read at most once, until one has hung up | abstract specification |
| `DtlsConnection` | a `DTLSConn` after its handshake on both sides: users, sending task, reading task, network | composition of two instances of one component |
| `BridgeProofs`, `ProxySessionProofs`, `SpectatorProofs`, `WebRtcClientProofs`, `HandshakeLemmas`, `HandshakeProofs`, `NegotiationProofs`, `ConnectionProofs` | theorems (section 6); `HandshakeLemmas` states the invariant of the handshake and what its operators do | proofs |
| `MC*` | constants for TLC | model checking |

How state and actions correspond to the code:

* **Bridge.** `starter` and `forwarder` are program counters of the two tasks;
  they stand at the awaits of the code. `armed` is the precondition of the idle
  branch *as last evaluated* when `select!` was entered (`bridge.rs:154`), not
  its present value. `inHand` is the datagram between `recv()` and `send()`.
  `socket`, `socketError` are the kernel's. A datagram is its number and its
  kind: the HLTV connect acknowledgement that `Rewrite` replaces, game data, or
  empty. `taken`, `delivered` and `signalled` are history variables. Each action
  is what a task does between two awaits: `Park`, `Receive`, `SendOk`,
  `SendError`, `ReceiveError`, `IdleFires`, `ShutdownSeen`, then the awaits of
  `teardown()`; `start()` may abort the forwarder at any of them (`Cancelled`).
  The channel actions are the callbacks of the WebRTC library.
* **ProxySession.** `handler` is where `handle_websocket()` is; `callback[c]`
  where the `on_open` callback of channel `c` is (in `start_bridge()` it passes
  through *creating*, *storing*, *spawning*); `notices` are the state changes the
  monitor has not handled. Every action of `Bridge` is an action of the session
  too, with the session's variables unchanged.
* **WebRtcClient.** A session is a slot: one WebSocket and the peer made when it
  opens. `connectWs()` takes a free slot. A call of `handleDescription()` is an
  element of `tasks`, with the await it is at.
* **Spectator.** The clock is the watchdog's interval; durations are numbers of
  intervals. `arrived` counts the packets since the last interval, `consumed` those the
  engine took since the last check of a visible tab. `broken` says that the engine's delta chain lacks a
  packet. `booted`: `init()` has resolved, once, whatever has become of the transport when `main()` connects.
  `ticked`: the interval has fired since the `rejoin()` in flight began, be it one of the watchdog,
  of `onReconnected` or of `visibilitychange`; the watchdog then does all it does at other times.
* **DtlsHandshake.** `fsm` is the HandshakeState of `handshaker.rs`, `flight` the
  current flight; `ctx[s]` is what the handshake task and the reader of side `s`
  share. The reader takes a datagram and goes through it record by record, then
  offers the handshake to the state machine and waits for it, as
  `read_and_buffer()` does. `ParseFlightN` is `parse()` of flight N, `Prepare` is
  `generate()` with the numbering of `prepare()`. A hash or key is the set of the
  messages it is made over, so that equal keys mean equal transcripts. `Keys` (the secret each side
  holds) and `Outcomes` (what `fsm` says of the end) map it to `KeyAgreement`.
* **DtlsNegotiation.** `configs` never changes: it is one of `Pairings`. `phase[s]` is the
  flight whose `parse()` waits on side `s`, or how it ended; `local[s]` is the part of `State`
  that flights fill in; `cache[s]` are the messages its hashes are made over, `sent[s]` is its last
  flight. `ParseFlightN` is `parse()`
  of flight N together with `generate()` of the flight it goes to. A key is the value it is
  derived from (a Diffie-Hellman secret is the set of the two public keys, a master secret a
  record with its label and seed), a signature is who made it over what with which scheme, so
  that verification compares what the code compares. `Only` is the filter of the code's iterators,
  as a recursive function, so that it can be reasoned about.
* **DtlsConnection.** `calls[s][u]` is the await at which user `u` is in `write()` or `close()`.
  `close()` loads and stores `closed` in two steps, as it does in the code, so that two users
  may both find it open. `queue` is `packet_rx`, `buffer` is `decrypted_rx`; `reader`, `hand` are
  the reading task and what it holds while it waits for room in one of them (`HandOver`,
  `Reply`). `Outgoing` is one turn of the sending task: number, encrypt, send, answer. `wire[s]`
  are the datagrams under way to `s`: a set, so that they are reordered; `Receive` may leave one
  there, so that it is repeated. `written`, `got`, `shipped`, `report`, `firstClose`, `arrived`, `taken`,
  `doomed` and `short` are history variables.

## 3. Runs

| run | result | question |
|---|---|---|
| `bridge` | pass | `ShutdownNotLost`: one signal, two waiters, dropped futures. `ShutdownEndsForwarding`: every signal ends the forwarding. `NoTeardownBeforeBrowser`. `StalledStreamNoticed`: a stream that stops is reported to the browser. `IsRelay`: the bridge implements `Relay`. |
| `session` | pass | `OneBridge`; `TakenBridgeStops`: whoever empties the holder has signalled the bridge; `WaitingBridgeReleased`: both tasks of a running bridge end with the session. |
| `client` | pass | `KeepaliveWhileOpen`, `CandidatesDelivered`, `AlwaysRecovers`, and `ReplacedSessionsEnd`: what the page drops without closing it is released all the same; with the events of a session in use and of the one it replaced in any order. |
| `spectator` | pass | `NoDropWhileWatched`, `ChainRepaired`, `SilentStreamRebuilt`. |
| `handshake` | pass | `ReceivedInOrder`, `AgreeOnCompletion`, `NoKeysBeforeVerify`, `UsableCurveAccepted`, `ServerSettles`: the server's handshake ends; `IsKeyAgreement`: the handshake implements `KeyAgreement`. |
| `negotiation` | pass | `ParametersAgree`, `ServerAuthenticated`, `ClientAuthenticated`, `RequirementsMet`; `OutcomeAsConfigured`: an end succeeds only if the two configurations are compatible, which is said without the flights, and is refused only if they are not, or if one that signs lists another scheme for its key before the one to use; `Settles`: neither waits for a message the other never sends. |
| `connection` | pass | `IsDatagramService`: the connection implements `Datagrams`. `WriteReported`, `GenuineAccepted`, `CloseEndsReader`, `CloseReachesPeer`, `AcceptedIsRead`. |
| `silent_upstream`, `recovery`, `lost_flight6`, `deaf_reader`, `needless_refusal` | violation | what a comment or document says and the code does not do: section 7. |

Four more configurations reach a violation that section 7 describes, and are run by hand
(`tlc -config MCSessionOrphan.cfg MCProxySession`, `tlc -config MCClientChurn.cfg MCWebRtcClient`,
`tlc -config MCSpectatorSilent.cfg MCSpectator`, `tlc -config MCConnectionClose.cfg MCDtlsConnection`).

`CHECK_DEADLOCK FALSE` is given where the system may stop: a bridge that ended, a
session that is over, a page whose WebSocket closed quietly before the offer
(below), a handshake that is finished, a connection that is closed. In `Spectator` the interval never stops,
and deadlock is checked.

## 4. Bounds

* `MCBridge`: `IdleTimeout = 2` ticks, so that a datagram can arrive between two
  ticks of silence; `SocketBuffer = 1 < MaxDatagrams = 3`, so that the kernel drops
  datagrams and so that ack, game data and an empty datagram can follow each other.
* `MCProxySession`: `MaxFlaps = 1` is one loss of the connection with its recovery;
  `MaxDatagrams = 0` because the relay itself is the question of `bridge`: here the
  bridge is idle, silent, failing or shut down.
* `MCWebRtcClient`: `Slots = 2` is the session in use and one it replaced; the slots
  are reused, so a run has unboundedly many sessions, two alive at a time.
  `MaxFaults = 1`: one loss or forced reconnect; every *consequence* of it is free.
* `MCSpectator`: `Capacity = 4`, `HighMark = 3`, `Burst = 1`. The assumption
  `HighMark + Burst <= Capacity` is the page's own margin: 80 % of 16384 packets
  leaves 3276, and a stream of 60 packets a second brings 120 in a 2 s interval.
  `Stall`, `LongHide`, `ForceEvery` are small but keep their order; `stallCount`
  wraps at `2 * ForceEvery`, which keeps every remainder and comparison the code
  looks at. The 300 ms between the two halves of `rejoin()` may begin anywhere, and so contain one
  interval and never two. `Burst < HighMark`: what arrives meanwhile does not fill the
  buffer that `rejoin()` has emptied to the mark (13107 packets), 120 in a tab that is shown and, where a
  browser lets the timers of a hidden tab fire once a minute, 3600. `Capacity = 6`, `HighMark = 4`, `Burst = 2` holds as well.
* `MCDtlsHandshake`: `Room = 3` records to a datagram and `Parts = 2` fragments of a
  Certificate split flight 5 into Certificate and ClientKeyExchange, then
  CertificateVerify, ChangeCipherSpec and Finished; flight 4 is split too.
  `MaxFaults = 1` is one lost datagram or one timer that fires too early; timers that
  fire when nothing is under way, and reordering, are not counted. The same
  configuration with `MaxFaults = 2`, and with `Room = 2` (ChangeCipherSpec and
  Finished alone in a datagram, which then overtakes the keys) or `Room = 5` (they are
  parted), holds as well. One client offers an unknown group and X25519, one the
  unknown group only, which the server must refuse.
* `MCDtlsNegotiation`: every pair out of four families, each of which varies a few settings of
  both sides (their comments name them): settings that one check
  of the code compares are varied together. Two issuers tell a trusted one from one that is not; one PSK identity and the empty
  one are all a callback can be asked for; lists have an element that is unknown, one that is
  common, and both orders.
* `MCDtlsConnection`: the client has one user that writes twice and one that closes, the server
  one that closes. `MaxSeq = 2` lets the numbers run out with a close_notify or a write left
  over; `Window = 2` makes the older of two datagrams the oldest that is still taken; two
  datagrams fill a channel of one and wait behind it. `MaxFaults = 1` is one datagram lost,
  repeated or corrupted, one deadline, one short buffer, or one conn that dies. Held as well,
  in runs by hand: two users of the client that both write and both close (the two closes
  race), with one write and with two; and, for the invariants, a PSK suite (`Psk = TRUE`).

## 5. Fairness

Weak fairness of each task's steps: tokio and the browser's event loop run what is
ready. Timers run out, `ChannelCloses`, `LinkUp`, `ConsentExpires` are events the WebRTC
stacks deliver in the end. Nothing is assumed of the network beyond this (no fairness on
losses, datagrams, browser packets), of the user, nor of the order of callbacks. In `DtlsConnection`: calls go on, both tasks run, and users read until they close;
nothing is assumed of when they write, of a network that delivers, nor that a timer fires.
Two
assumptions are strong: `WatchdogActs` (a tab that is looked at again and again is looked
at when the interval fires) and the retransmission `Timer` of a handshake (a timer runs
out whatever the peer does meanwhile; that it does not fire while the peer is busy is
only the bound on early timers).

## 6. Proofs

All theorems hold for every value of the constants that the named assumptions allow:
`BridgeAssumption` (positive idle time and socket buffer, any number of datagrams),
`SessionAssumption` (any number of losses of the connection) and `SpectatorAssumption` (a burst
fits above the high mark and is below it, and a reload comes before a forced reconnect), `ClientAssumption` (at least
one slot), `NoneAssumption` and `PairingsAssumption` (configurations have their types, identities are not
the markers for none) and `ConnectionAssumption` (a positive window and last number, no user is
called reader), and `HandshakeAssumption` (datagrams of at least one record, certificates of at least one
fragment, any number of losses and early timers, clients that offer some curve).

**Bridge** (`BridgeProofs`). The inductive invariant is

    BridgeInd == TypeOK /\ NotifyOK /\ BrowserFirst /\ HandOK /\ ShutdownNotLost

* `TypeCorrect`: `Spec => []TypeOK`.
* `ShutdownSignalKept`: `Spec => []ShutdownNotLost`. Not inductive by itself: that a
  permit or a woken waiter is not wasted depends on who can be in the queue, which
  `NotifyOK` says (a task is queued or woken only where it waits).
* `QuietBrowserKept`: `Spec => NoTeardownBeforeBrowser`. `BrowserFirst` carries it: as long
  as the browser has sent nothing there is no path to `teardown()`, because the upstream
  does not know the browser, so there is neither a datagram, nor an ICMP error, nor an
  armed idle branch.
* `BridgeIsRelay`: `Spec => IsRelay`, the refinement of `Relay`. `HandOK` relates the
  datagram in hand to the last one read; each step maps to a step of the relay or a stutter.

**Session** (`ProxySessionProofs`). The session's steps either are steps of the bridge,
covered by the lemmas above, or leave the bridge's inside alone. The inductive invariant is

    SessionInd == TypeOK /\ NotifyOK /\ ShutdownNotLost /\ SessionOnlyType /\ SessionInv
    SessionInv == CountOK /\ StartingOK /\ EarlyOK /\ HolderOK

* `SessionTypeCorrect`; `OneBridgePerSession`: `SessionSpec => []OneBridge`, from `CountOK` (the
  counter counts the callbacks that have run) and `StartingOK` (only the second is in
  `start_bridge()`); `EarlyOK` excludes that a callback runs before the offer.
* `TakenBridgeIsStopped`: `SessionSpec => []TakenBridgeStops`, from `HolderOK` and `ShutdownNotLost`.

**Page** (`SpectatorProofs`). The inductive invariant is `Flags /\ Counters /\ BelowMark`, the
first two together the type invariant. `BelowMark` is needed because the buffer may well be
above the high mark between two checks: it says by how much, namely by what has arrived since. A check that
finds the buffer above the mark while a `rejoin()` is in flight has its own rejoin dropped; `BelowMark` excludes
it, since the buffer was emptied when the one in flight began. And a watched tab is one the watchdog looks at.

* `SpectatorTypeCorrect`: `Spec => []TypeOK`.
* `WatchedTabDropsNothing`: `Spec => NoDropWhileWatched`, for every capacity and mark.

**Transport** (`WebRtcClientProofs`). `ClientInd == TypeOK /\ CountOK /\ LinkOK /\ KeepaliveWhileOpen`.
`CountOK` is what the type of `channelsCount` rests on: it is the counter of a call of
`startConnection()`, and a slot keeps the one of its former session until its socket opens.

* `ClientTypeCorrect`: `Spec => []TypeOK`; `KeepaliveKept`: `Spec => []KeepaliveWhileOpen`, for every number of
  sessions alive at a time and of faults.

**Handshake** (`HandshakeLemmas`, `HandshakeProofs`). The inductive invariant is

    HandshakeInd == Shape /\ Numbers /\ ClientFlow /\ ServerFlow /\ Transport
                      /\ Possession /\ FirstMessage /\ NoAlert

None of the properties is inductive: each depends on records that are still in a datagram, in a
queue or in pieces in the fragment buffer. `Transport` says of all of them that their sender has made
them, and that what a side has received are the numbers from 0 to `current - 1`; this needs that a
number stands for one message, which is `Numbers`, and that in turn needs which numbers each flight
may use, however often it is prepared and sent: `ClientFlow` and `ServerFlow`. They also say what a
flight that is parsed must have been preceded by: a Finished is the last message of its side, a
ClientKeyExchange comes after its Certificate. `Possession` keeps what the server had when it made
its keys. `FirstMessage` and `NoAlert` exclude the branches of `parse()` that complain. TLC
checks `HandshakeInd` on the constants of the run, and with `Room = 2`, `ClientAuth = FALSE`, `MaxFaults = 2`.

* `HandshakeInvariant`: `Spec => []HandshakeInd`, with lemmas on the cache (`Push`, `Newest`, `FullPull`), the
  numbering of packets, the cutting of a flight into records and datagrams, and `Reassemble`. The
  queue of early records and the list of a flight are gone through by recursive functions.
* `HandshakeTypeCorrect`: `Spec => []TypeOK`, which bounds the counters: no flight is numbered twice.
* `HandshakeReceivedInOrder`: `Spec => []ReceivedInOrder`, from `Transport`.
* `HandshakeAgrees`: `Spec => []AgreeOnCompletion`, from `Transport`: a record of epoch 1 is one that
  was encrypted with the key that decrypts it.
* `HandshakeVerifiesFirst`: `Spec => []NoKeysBeforeVerify`, from `Possession`.
* `HandshakeUsableCurve`: `Spec => []UsableCurveAccepted`, which is `NoAlert` and the choice of the curve.

That both keys are the same at the time they are made needs more, since `HandshakeInd` says neither in
which order a side makes its messages nor that what the hash covers no longer changes. So, on top of it,

    KeyInd == KeysLast /\ HelloDoneLast /\ Answered /\ OneKey /\ EndedFirst

`KeysLast` and `HelloDoneLast`: the ClientKeyExchange and the ServerHelloDone are the last messages
of their sides that are hashed, so that with `Transport` who has received one of them has all that are.
`Answered`: flight 5 has the whole of flight 4, and keys once it is prepared. `OneKey`: every key is the
hash over `Transcript`, all that both sides have made of these messages. `EndedFirst`: a server that has
sent its Finished is done.

* `HandshakeOneKey`: `Spec => []KeyInd`.
* `HandshakeIsKeyAgreement`: `Spec => IsKeyAgreement`, the refinement of `KeyAgreement`. Flight 5 proposes the
  key when it is prepared, `ParseFlight4` adopts it, the server confirms when it has sent flight 6 and the
  client when it has parsed it; an error or the end of the reader is giving up; all else is a stutter.

**Negotiation** (`NegotiationProofs`). The first inductive invariant says for each phase what the side
has, and what the messages under way to it are made of:

    NegotiationInd == Shape /\ Progress /\ HelloSent /\ ServerChosen /\ ServerSent /\ ClientSent
                        /\ ClientChosen /\ ClientEnded /\ ServerAuthenticated /\ ClientAuthenticated

It is needed because agreement is never checked: a client compares the server's Finished with a
value of its own, and that their secrets, suites and profiles are the same follows from how each
message was built from what the other side had chosen by then.

* `ParametersAlwaysAgree`, `ServerAlwaysAuthenticated`, `ClientAlwaysAuthenticated`, `RequirementsAlwaysMet`: for
  every set of pairs of configurations, issuers and identities.

The second says what each accepted flight tells its receiver of the two *configurations*:

    OutcomeInd == Types /\ Stage /\ Hellos /\ ServerHeard /\ ServerSpeaks /\ Transcripts
                    /\ ClientHeard /\ ServerEnded /\ Unrefused

What it is about is `Agreeable`, what the code asks for of the two configurations. `Compatible` asks for
less, a scheme on both lists that the signer's key can use, where the code tries only the first of the
signer's list (section 7); the lemma `AgreeableInOrder` says that the difference is `InOrder`, that this
first one is such a scheme. `Agreeable` speaks of both configurations at once, and no side ever sees the other's: each check is
of a message. So `Hellos`, `ServerSpeaks` and `ClientHeard` keep which message was made from which
configuration, `ServerHeard` and `ClientHeard` what its acceptance told; and when the server ends, all of
`Agreeable` has been told to one or the other (`ServerEnded`), while as long as the configurations are agreeable
nobody has refused (`Unrefused`). `Transcripts` is what both ends' hashes and signatures are made over.
The lemmas on lists (`OnlyIsFilter`, `FirstIsLeast`, `SelectedIsOne`) relate the code's "first of my list that ..." to
"some element of both lists".

* `OutcomeAlwaysAsConfigured`: `Spec => []OutcomeAsConfigured`. Success is never undue; a refusal is due, or
  else the signer's order of schemes is to blame, which `NoNeedlessRefusal` shows to happen.
* `NegotiationTypeCorrect`: `Spec => []TypeOK`.

**Connection** (`ConnectionProofs`). The inductive invariant is

    ConnectionInd == Shape /\ HandOK /\ AcceptOK /\ EndOK /\ \A s \in Sides : WritesOK(s) /\ OnceOK(s)

* `ConnectionTypeCorrect`: `Spec => []TypeOK`, from `Shape`.
* `WriteReportsTrue`: `Spec => []WriteReported`. Not inductive: `WritesOK` says where a datagram can be
  (with one user, or in the queue, or sent) and that one reported as failed is at none of them.
* `GenuineAlwaysAccepted`: `Spec => GenuineAccepted`, from `AcceptOK`: the replay detector has accepted
  only what was genuine and has arrived.
* `ConnectionIsDatagramService`: `Spec => IsDatagramService`, the refinement of `Datagrams`. `OnceOK` carries
  "at most once": a datagram has one number on the wire, which is accepted as soon as the side
  has the datagram anywhere. `EndOK` carries "only after somebody hung up": until then no
  call, queue or wire holds anything but data.

## 7. Findings

Each is a counterexample TLC finds, in the run or with the configuration named, to a sentence
of the repository.

* `silent_upstream`: `bridge.rs:65-66` says that the idle timeout also fires for a bridge
  that never hears back. The branch's precondition is evaluated when `select!` is entered,
  before the browser's first packet, and nothing re-enters it.
* `MCSessionOrphan.cfg`: `PATCHES.md:46` says that the end of a session cleans up. A bridge stored by
  `start_bridge()` after the handler's cleanup, or whose callbacks are installed after the
  channel closed, stays.
* `recovery`: `signaling.rs:309-310` keeps connections that may recover; but the monitor has
  taken the bridge at Disconnected, and no one starts another.
* `MCClientChurn.cfg`: `PATCHES.md` section 12 calls the rebuild the end of the cycle. The channels
  of the replaced session close late and schedule the next rebuild, for ever.
* `MCSpectatorSilent.cfg`: `main.ts:252` promises a rejoin after a silence; while no packet has ever
  come, the watchdog returns early.
* `lost_flight6`: the DTLS server's last flight is not sent again. `handshake()` returns as
  soon as the state is Finished (`handshaker.rs:230`), so `finish()`, which would
  "Retransmit last flight", is never called; the client asks for ever.
* `deaf_reader`: a retransmitted handshake record that is read after `handshake()` has
  returned can be put into a channel nobody reads, and the reader waits for an answer for
  ever (`conn/mod.rs:833`): the connection no longer receives anything. The two follow on
  each other: flight 6 lost or late makes the client send what makes the reader deaf.

* `needless_refusal`: "Find compatible signature scheme", says `flight4.rs:601`, and `crypto/mod.rs:255-257`
  that the pair "MUST" be one that the client has listed. `select_signature_scheme()` takes the first scheme of the
  server's own list that is of the kind of its key, and nobody looks at the client's list; `flight5.rs:407` is the
  same for the client. A P-256 key signs with SHA-256 whatever was chosen, and the verifier takes ECDSA with SHA-384 as
  P-384. So a server that lists it before ECDSA with SHA-256 is refused by every client, although
  both list the latter. (With the default list the first is the right one.)
* `MCConnectionClose.cfg`: "Discard error from notify() to return non-error on the first user call of
  Close()", says `conn/mod.rs:497`; the next line returns the error. The first `close()` then
  leaves the conn open and its reader running, and every later `close()` does nothing.

Comments that the code does not bear out and that no run is about: `config.rs:28-30` ("Servers
will assert that clients send one of these profiles"; `flight0.rs:126` asserts it only of clients that
send the extension, and `test_srtp_configuration` of `conn_test.rs` wants it so; so does `Compatible`), and `config.rs:78-80` (host root CAs are used if none are set;
`conn/mod.rs:231-250` uses what is given).

Left out of `AlwaysRecovers`, and a real dead end: a WebSocket that closes without an error
event before the offer has come over it schedules no reconnect (`webrtc.ts:286`), and there
is no peer yet whose failure would.

## 8. Only model-checked, and not modelled

Only model-checked: all liveness (`ShutdownEndsForwarding`, `StalledStreamNoticed`,
`WaitingBridgeReleased`, `CandidatesDelivered`, `AlwaysRecovers`, `ReplacedSessionsEnd`, `ChainRepaired`,
`SilentStreamRebuilt`, `ServerSettles`, `Settles`, `CloseEndsReader`, `CloseReachesPeer`, `AcceptedIsRead`), since
liveness under fairness and ENABLED are outside the prover's reach. Every invariant, action
property and refinement that a passing run checks is also a theorem.

Abstracted in the modules: contents of datagrams and messages; the reconnect backoff (a timer
may fire at any time); the audio track; the browser's own trickle ICE candidates; in the
flights of `DtlsHandshake`, their content (all checks succeed: what they are is `DtlsNegotiation`),
fragments of messages already complete, datagrams that are duplicated (the replay window drops
them); in `DtlsNegotiation`, randoms, versions and the bytes that are hashed and signed; in
`DtlsConnection`, handshake records that are read after the handshake (`deaf_reader`), alerts that are
neither fatal nor close_notify (the crate sends none), the deadline of `read()` (it takes nothing). The
server does not compare the content of the client's Finished, nor does the code (`flight4.rs:430`).

Not modelled: the HTTP routes (stateless but for one atomic counter), command line parsing,
asset embedding, byte codecs of DTLS and its primitives (no state of their own), the export and
resumption of a session (`state.rs`; the proxy and the webrtc crate do neither), the DTLS listener
(the proxy does not use it), inline shims of `index.html`, build scripts, and ICE and SCTP inside
the `webrtc` crate (external, modelled by what `signaling.rs` and `bridge.rs` see of them).

## 9. Plan

Done, in this order: `Notify`, `Relay`, `Bridge` with its refinement and proofs; `ProxySession`
and proofs; `WebRtcClient`; `Spectator` and proofs; `DtlsHandshake`; `DtlsNegotiation` and proofs;
`Datagrams`, `DtlsConnection` with its refinement and proofs; proofs of `WebRtcClient`, of `DtlsHandshake`
and of the outcome of a negotiation; `KeyAgreement`, which `DtlsHandshake` refines.

What could follow:
1. `KeyAgreement` as the promise of `DtlsNegotiation` too;
2. `DtlsHandshake` and `DtlsConnection` over one network, with records of both epochs;
3. a composition of `WebRtcClient` and `Spectator` over one transport, replacing the abstract one;
4. `config.rs` of the proxy: port ranges and network types as operators against a reference.
