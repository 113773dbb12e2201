---------------------------- MODULE ProxySession ----------------------------
(***************************************************************************)
(* One browser's session in the proxy (src/src/signaling.rs): the          *)
(* WebSocket handler, the on_open callbacks of the two data channels, the  *)
(* connection monitor, and the bridge (Bridge.tla) they create, hold and   *)
(* shut down.  They run concurrently and share the bridge holder, a        *)
(* mutex-protected Option<Arc<Bridge>>, and the peer connection.           *)
(*                                                                         *)
(* The states and callbacks of the WebRTC library are external: they are   *)
(* modelled from how signaling.rs uses them.                               *)
(***************************************************************************)
EXTENDS Bridge

CONSTANT MaxFlaps   \* bound: how often the connection is lost and recovers

ASSUME SessionAssumption == MaxFlaps \in Nat

Channels == {"write", "read"}

VARIABLES
    handler,       \* where handle_websocket() is
    answered,      \* set_remote_description(answer) was done
    peer,          \* RTCPeerConnectionState of the proxy's peer connection
    notices,       \* state changes the monitor callback has not handled yet
    monitor,       \* "idle", or "close": in close_peer() of the callback
    callback,      \* for each channel, where its on_open callback is
    channelsOpen,  \* the AtomicU8 the two callbacks share
    held,          \* the bridge holder is Some
    created,       \* history: how many bridges Bridge::new() returned
    flaps          \* how often the connection was Disconnected

handlerVars  == <<handler, answered>>
peerVars     == <<peer, notices, flaps>>
callbackVars == <<callback, channelsOpen, created>>
sessionVars  == <<handlerVars, peerVars, monitor, callbackVars, held>>
allVars      == <<bridgeVars, sessionVars>>

PeerStates == {"new", "connected", "disconnected", "failed", "closed"}

SessionInit ==
    /\ Fresh /\ write = "connecting" /\ read = "connecting" /\ link = "new"
    /\ handler = "create_peer"
    /\ answered = FALSE
    /\ peer = "new"
    /\ notices = <<>>
    /\ monitor = "idle"
    /\ callback = [c \in Channels |-> "unset"]
    /\ channelsOpen = 0
    /\ held = FALSE
    /\ created = 0
    /\ flaps = 0

-----------------------------------------------------------------------------
(* Shared operations.                                                      *)

\* Mutant of TakeBridge: the bridge taken is dropped without shutdown().
TakeBridgeOnly == held' = FALSE /\ UNCHANGED bridgeVars

\* bridge.lock().await.take() and, if there was one, b.shutdown(): the guard
\* lives to the end of the if let, so the two are one step.
TakeBridge ==
    /\ held' = FALSE
    /\ IF held THEN Shutdown ELSE UNCHANGED bridgeVars

\* peer.close() on a peer connection that is not closed: the association goes
\* down and the monitor is told.  A second close() returns at once.
ClosePeer ==
    IF peer = "closed"
    THEN UNCHANGED <<bridgeVars, peerVars>>
    ELSE /\ peer' = "closed"
         /\ link' = "down"
         /\ notices' = Append(notices, "closed")
         /\ UNCHANGED <<startVars, forwarder, notify, signalled,
                        browserStarted, relayVars, socketVars, write, read,
                        flaps>>

-----------------------------------------------------------------------------
(* handle_websocket().                                                     *)

CreatePeer ==
    /\ handler = "create_peer"
    /\ handler' \in {"create_channels", "done"}
    /\ UNCHANGED <<bridgeVars, answered, peerVars, monitor, callbackVars, held>>

\* Both channels, then the callbacks of setup_bridge_callbacks; on an error
\* the peer is closed at once.
CreateChannels ==
    /\ handler = "create_channels"
    /\ \/ /\ handler' = "send_offer"
          /\ callback' = [c \in Channels |-> "set"]
       \/ /\ handler' = "close_peer"
          /\ UNCHANGED callback
    /\ UNCHANGED <<bridgeVars, answered, peerVars, monitor, channelsOpen,
                   created, held>>

SendOffer ==
    /\ handler = "send_offer"
    /\ handler' \in {"serving", "close_peer"}
    /\ UNCHANGED <<bridgeVars, answered, peerVars, monitor, callbackVars, held>>

\* handle_answer(); an answer that does not parse or apply is only logged.
HandleAnswer ==
    /\ handler = "serving"
    /\ peer # "closed"
    /\ answered' = TRUE
    /\ UNCHANGED <<bridgeVars, handler, peerVars, monitor, callbackVars, held>>

\* handle_ws_messages() returns: close frame, error or end of stream.
WebSocketEnds ==
    /\ handler = "serving"
    /\ handler' = "cleanup"
    /\ UNCHANGED <<bridgeVars, answered, peerVars, monitor, callbackVars, held>>

Cleanup ==
    /\ handler = "cleanup"
    /\ handler' = "close_peer"
    /\ TakeBridge
    /\ UNCHANGED <<answered, peerVars, monitor, callbackVars>>

HandlerClosesPeer ==
    /\ handler = "close_peer"
    /\ handler' = "done"
    /\ ClosePeer
    /\ UNCHANGED <<answered, monitor, callbackVars, held>>

HandlerStep == \/ CreatePeer \/ CreateChannels \/ SendOffer
               \/ Cleanup \/ HandlerClosesPeer

-----------------------------------------------------------------------------
(* The on_open callbacks and start_bridge().                               *)

\* Mutant of CountOpen: either callback may start the bridge.
CountOpenEach(c) ==
    /\ callback[c] = "opened"
    /\ channelsOpen' = channelsOpen + 1
    /\ callback' = [callback EXCEPT ![c] =
                      IF channelsOpen + 1 >= 1 THEN "creating" ELSE "ended"]
    /\ UNCHANGED <<bridgeVars, handlerVars, peerVars, monitor, created, held>>

\* Mutant of CountOpen: both callbacks are installed on each channel.
CountOpenTwice(c) ==
    /\ callback[c] = "opened"
    /\ channelsOpen' = channelsOpen + 2
    /\ callback' = [callback EXCEPT ![c] =
                      IF channelsOpen = 0 THEN "creating" ELSE "ended"]
    /\ UNCHANGED <<bridgeVars, handlerVars, peerVars, monitor, created, held>>

\* fetch_add; the callback that brings the count to two starts the bridge.
CountOpen(c) ==
    /\ callback[c] = "opened"
    /\ channelsOpen' = channelsOpen + 1
    /\ callback' = [callback EXCEPT ![c] =
                      IF channelsOpen + 1 = 2 THEN "creating" ELSE "ended"]
    /\ UNCHANGED <<bridgeVars, handlerVars, peerVars, monitor, created, held>>

\* The channels cannot be upgraded, or Bridge::new() (bind, name resolution,
\* connect) fails: there will be no bridge.
CreateBridgeFails(c) ==
    /\ callback[c] = "creating"
    /\ callback' = [callback EXCEPT ![c] = "ended"]
    /\ UNCHANGED <<bridgeVars, handlerVars, peerVars, monitor, channelsOpen,
                   created, held>>

\* Bridge::new() returns.
CreateBridge(c) ==
    /\ callback[c] = "creating"
    /\ callback' = [callback EXCEPT ![c] = "storing"]
    /\ created' = created + 1
    /\ UNCHANGED <<bridgeVars, handlerVars, peerVars, monitor, channelsOpen,
                   held>>

\* *bridge.lock().await = Some(b.clone())
StoreBridge(c) ==
    /\ callback[c] = "storing"
    /\ callback' = [callback EXCEPT ![c] = "spawning"]
    /\ held' = TRUE
    /\ UNCHANGED <<bridgeVars, handlerVars, peerVars, monitor, channelsOpen,
                   created>>

SpawnBridge(c) ==
    /\ callback[c] = "spawning"
    /\ callback' = [callback EXCEPT ![c] = "ended"]
    /\ Spawn
    /\ UNCHANGED <<handlerVars, peerVars, monitor, channelsOpen, created, held>>

CallbackStep == \E c \in Channels :
    \/ CountOpen(c) \/ CreateBridgeFails(c) \/ CreateBridge(c)
    \/ StoreBridge(c) \/ SpawnBridge(c)

-----------------------------------------------------------------------------
(* The connection monitor: one state change at a time.                     *)

Terminal == {"failed", "closed"}

MonitorStateChange ==
    /\ monitor = "idle"
    /\ notices # <<>>
    /\ notices' = Tail(notices)
    /\ IF Head(notices) \in Terminal \cup {"disconnected"}
       THEN TakeBridge
       ELSE UNCHANGED <<bridgeVars, held>>
    /\ monitor' = IF Head(notices) \in Terminal THEN "close" ELSE "idle"
    /\ UNCHANGED <<handlerVars, peer, flaps, callbackVars>>

MonitorClosesPeer ==
    /\ monitor = "close"
    /\ monitor' = "idle"
    /\ ClosePeer
    /\ UNCHANGED <<handlerVars, callbackVars, held>>

MonitorStep == MonitorStateChange \/ MonitorClosesPeer

-----------------------------------------------------------------------------
(* The WebRTC library and the browser behind it (external).                *)

PeerBecomes(s) ==
    /\ peer' = s
    /\ notices' = Append(notices, s)

\* ICE and DTLS complete with the browser that answered.
Connects ==
    /\ peer = "new" /\ answered
    /\ PeerBecomes("connected")
    /\ link' = "up"
    /\ UNCHANGED <<startVars, forwarder, notify, signalled, browserStarted,
                   relayVars, socketVars, write, read, handlerVars, flaps,
                   monitor, callbackVars, held>>

Disconnects ==
    /\ peer = "connected" /\ flaps < MaxFlaps
    /\ PeerBecomes("disconnected")
    /\ flaps' = flaps + 1
    /\ UNCHANGED <<bridgeVars, handlerVars, monitor, callbackVars, held>>

Recovers ==
    /\ peer = "disconnected"
    /\ PeerBecomes("connected")
    /\ UNCHANGED <<bridgeVars, handlerVars, flaps, monitor, callbackVars, held>>

Fails ==
    /\ peer \in {"new", "disconnected"} /\ answered
    /\ PeerBecomes("failed")
    /\ UNCHANGED <<bridgeVars, handlerVars, flaps, monitor, callbackVars, held>>

\* A channel opens and its on_open callback is spawned.
WriteOpens ==
    /\ link = "up" /\ write = "connecting"
    /\ write' = "open"
    /\ callback' = [callback EXCEPT !["write"] = "opened"]
    /\ UNCHANGED <<startVars, forwarder, notify, signalled, browserStarted,
                   relayVars, socketVars, read, link, handlerVars, peerVars,
                   monitor, channelsOpen, created, held>>

ReadOpens ==
    /\ link = "up" /\ read = "connecting"
    /\ read' = "open"
    /\ callback' = [callback EXCEPT !["read"] = "opened"]
    /\ UNCHANGED <<startVars, forwarder, notify, signalled, browserStarted,
                   relayVars, socketVars, write, link, handlerVars, peerVars,
                   monitor, channelsOpen, created, held>>

\* A channel's read loop ends: the association is gone, or the browser has
\* answered the reset of close().
ChannelCloses ==
    \/ (link = "down" \/ write = "closing") /\ WriteCloses
    \/ (link = "down" \/ read = "closing") /\ ReadCloses

LibraryStep ==
    \/ Connects \/ Disconnects \/ Recovers \/ Fails \/ WriteOpens \/ ReadOpens
    \/ (ChannelCloses \/ LinkLost) /\ UNCHANGED sessionVars

BridgeStep ==
    /\ StartStep \/ ForwarderStep \/ Tick \/ OnMessage \/ Upstream
    /\ UNCHANGED sessionVars

-----------------------------------------------------------------------------
SessionNext == \/ HandlerStep \/ HandleAnswer \/ WebSocketEnds
               \/ CallbackStep \/ MonitorStep \/ LibraryStep \/ BridgeStep

\* tokio runs every task that is ready, and the read loops of a lost
\* association end.  Nothing is promised about the browser, the network or
\* the game server.
SessionFairness ==
    /\ WF_allVars(HandlerStep)
    /\ WF_allVars(CallbackStep)
    /\ WF_allVars(MonitorStep)
    /\ WF_allVars(StartStep /\ UNCHANGED sessionVars)
    /\ WF_allVars(ForwarderStep /\ UNCHANGED sessionVars)
    /\ WF_allVars(Tick /\ UNCHANGED sessionVars)
    /\ WF_allVars(link = "down" /\ WriteCloses /\ UNCHANGED sessionVars)
    /\ WF_allVars(link = "down" /\ ReadCloses /\ UNCHANGED sessionVars)

SessionSpec == SessionInit /\ [][SessionNext]_allVars
FairSessionSpec == SessionSpec /\ SessionFairness

-----------------------------------------------------------------------------
SessionTypeOK ==
    /\ TypeOK
    /\ handler \in {"create_peer", "create_channels", "send_offer", "serving",
                    "cleanup", "close_peer", "done"}
    /\ answered \in BOOLEAN
    /\ peer \in PeerStates
    /\ notices \in Seq(PeerStates)
    /\ monitor \in {"idle", "close"}
    /\ callback \in [Channels -> {"unset", "set", "opened", "creating",
                                  "storing", "spawning", "ended"}]
    /\ channelsOpen \in 0..2
    /\ held \in BOOLEAN
    /\ created \in 0..2
    /\ flaps \in 0..MaxFlaps

\* The bridge exists outside start_bridge(): it was put into the holder.
Stored == starter # "unborn" \/ \E c \in Channels : callback[c] = "spawning"

-----------------------------------------------------------------------------
(* The parts of the inductive invariant.                                   *)

Counted(c) == callback[c] \in {"creating", "storing", "spawning", "ended"}

\* channels_open counts the callbacks that have run, and nothing but the
\* library moves a callback on before its channel has opened.
CountOK ==
    /\ channelsOpen = (IF Counted("write") THEN 1 ELSE 0)
                        + (IF Counted("read") THEN 1 ELSE 0)
    /\ write = "connecting" => callback["write"] \in {"unset", "set"}
    /\ read = "connecting" => callback["read"] \in {"unset", "set"}

\* Only the callback that came second is in start_bridge(), and only once.
StartingOK ==
    /\ created <= 1
    /\ \A c \in Channels :
         callback[c] \in {"creating", "storing", "spawning"} =>
           /\ \A d \in Channels \ {c} : callback[d] = "ended"
           /\ starter = "unborn"
           /\ created = IF callback[c] = "creating" THEN 0 ELSE 1
    /\ created = 1 \/ starter # "unborn" => \A c \in Channels : Counted(c)

\* Nothing happens on the connection before the offer is out.
EarlyOK ==
    /\ handler \in {"create_peer", "create_channels"} =>
         \A c \in Channels : callback[c] = "unset"
    /\ handler \in {"create_peer", "create_channels", "send_offer"} =>
         ~answered /\ link = "new" /\ peer = "new" /\ notices = <<>> /\ monitor = "idle"

\* Whoever has emptied the holder has signalled the bridge.
HolderOK == Stored => held \/ signalled

SessionInv == CountOK /\ StartingOK /\ EarlyOK /\ HolderOK
-----------------------------------------------------------------------------
\* The two on_open callbacks run on any threads in any order, and one of them
\* starts the one bridge of the session, when both channels have opened.
OneBridge ==
    /\ created <= 1
    /\ created = 1 => write # "connecting" /\ read # "connecting"

\* A bridge is not forgotten: from the moment it is stored either the holder
\* still has it, so that the handler's cleanup or the monitor can stop it, or
\* the party that took it has signalled it and the signal is pending or has
\* ended one of its tasks.
TakenBridgeStops ==
    Stored => \/ held
              \/ signalled /\ (\/ Pending(notify)
                               \/ starter = "done" \/ forwarder = "done")

\* A bridge whose start() has come to wait, on a read channel that is still
\* there, while the WebSocket is being served and before anything was
\* signalled, is gone once the session is over: both its tasks end whichever
\* of them consumed the signal of shutdown(), because the closed read channel
\* signals again.
WaitingBridgeReleased ==
    [](starter = "waiting" /\ ~signalled /\ handler = "serving" /\ read # "closed" =>
         [](handler = "done" => <>(starter = "done" /\ forwarder = "done")))

\* "limpeza dos data channels no encerramento" (PATCHES.md:46): once the
\* WebSocket handler has cleaned up, no task of the session's bridge survives.
SessionEndReleasesBridge ==
    handler = "done" ~> (/\ starter \in {"unborn", "done"}
                         /\ forwarder \in {"unborn", "done"})

\* "only close on terminal states so recoverable connections survive"
\* (signaling.rs:309-310): a connection that was Disconnected and is Connected
\* again, its channels still open, has a bridge that relays, or the browser
\* is told (a channel closes) or the session ends.
RecoveredConnectionRelays ==
    (peer = "connected" /\ flaps > 0 /\ created = 1) ~>
        (\/ starter # "unborn" /\ Relaying /\ ~signalled
         \/ write # "open" \/ read # "open" \/ link # "up"
         \/ peer # "connected" \/ handler # "serving")
=============================================================================
