------------------------- MODULE ProxySessionProofs -------------------------
(***************************************************************************)
(* Theorems about ProxySession, for every timeout, number of datagrams,    *)
(* socket buffer and number of connection losses.  The steps of the bridge *)
(* are covered by the lemmas of BridgeProofs; what is new here is the      *)
(* bookkeeping of the callbacks and of the holder.                         *)
(***************************************************************************)
EXTENDS ProxySession, BridgeProofs

\* The part of the bridge's state that only the bridge's own actions change.
Inside == <<starter, forwarder, notify, signalled, abortRequested, sawPacket,
            browserStarted, armed, idle, inHand, socket, socketError,
            upstream, arrived, taken, delivered>>

\* A step of the session is a step of the bridge or leaves its inside alone.
LEMMA InsideOrBridge ==
    ASSUME SessionNext
    PROVE  BridgeAction \/ UNCHANGED Inside
<1>1. TakeBridge => BridgeAction \/ UNCHANGED Inside
  BY DEF TakeBridge, BridgeAction, bridgeVars, Inside
<1>2. ClosePeer => UNCHANGED Inside
  BY DEF ClosePeer, bridgeVars, Inside, startVars, relayVars, socketVars
<1>3. CASE HandlerStep
  BY <1>1, <1>2, <1>3 DEF HandlerStep, CreatePeer, CreateChannels, SendOffer, Cleanup,
     HandlerClosesPeer, bridgeVars, Inside
<1>4. CASE HandleAnswer \/ WebSocketEnds
  BY <1>4 DEF HandleAnswer, WebSocketEnds, bridgeVars, Inside
<1>5. CASE CallbackStep
  <2>1. PICK c \in Channels : \/ CountOpen(c) \/ CreateBridgeFails(c) \/ CreateBridge(c)
                              \/ StoreBridge(c) \/ SpawnBridge(c)
    BY <1>5 DEF CallbackStep
  <2> QED BY <2>1 DEF CountOpen, CreateBridgeFails, CreateBridge, StoreBridge, SpawnBridge,
     BridgeAction, Next, bridgeVars, Inside
<1>6. CASE MonitorStep
  BY <1>1, <1>2, <1>6 DEF MonitorStep, MonitorStateChange, MonitorClosesPeer, bridgeVars, Inside
<1>7. CASE LibraryStep
  <2>1. CASE Connects \/ WriteOpens \/ ReadOpens
    BY <2>1 DEF Connects, WriteOpens, ReadOpens, Inside, startVars, relayVars, socketVars
  <2>2. CASE Disconnects \/ Recovers \/ Fails
    BY <2>2 DEF Disconnects, Recovers, Fails, bridgeVars, Inside
  <2>3. CASE ChannelCloses \/ LinkLost
    BY <2>3 DEF ChannelCloses, BridgeAction, Next
  <2> QED BY <1>7, <2>1, <2>2, <2>3 DEF LibraryStep
<1>8. CASE BridgeStep
  BY <1>8 DEF BridgeStep, BridgeAction, Next
<1> QED
  BY <1>3, <1>4, <1>5, <1>6, <1>7, <1>8 DEF SessionNext

\* The bridge's invariants say nothing of the channels and the association.
LEMMA InsideKept ==
    ASSUME NotifyOK, ShutdownNotLost, UNCHANGED Inside
    PROVE  NotifyOK' /\ ShutdownNotLost'
  BY DEF Inside, NotifyOK, WaitersOK, ShutdownNotLost, Pending

\* What a step of the bridge, an unchanged bridge or a closed peer does to
\* the parts of the bridge's state that the session's invariant speaks of.
LEMMA BridgeFrame ==
    ASSUME BridgeAction \/ UNCHANGED bridgeVars \/ ClosePeer
    PROVE  /\ write' = "connecting" => write = "connecting"
           /\ read' = "connecting" => read = "connecting"
           /\ link = "new" /\ ~ClosePeer => link' = "new"
           /\ signalled => signalled'
           /\ ~Spawn => (starter = "unborn" <=> starter' = "unborn")
<1>1. CASE BridgeAction
  BY <1>1 DEF BridgeAction, Next, Spawn, StartStep, StartForwarder, SetOnMessage, SetOnClose,
     StartWaits, StartReturns, ForwarderStep, Park, Receive, SendOk, SendError, ReceiveError,
     IdleFires, ShutdownSeen, Teardown, CloseWrite, CloseRead, SignalShutdown, Cancelled, Tick,
     OnMessage, WriteCloses, ReadCloses, LinkLost, Owner, Shutdown, Upstream, DatagramArrives,
     UpstreamDies, Closing, startVars, channelVars
<1>2. CASE UNCHANGED bridgeVars
  BY <1>2 DEF bridgeVars
<1>3. CASE ClosePeer
  BY <1>3 DEF ClosePeer, bridgeVars, startVars
<1> QED BY <1>1, <1>2, <1>3

CallbackStates == {"unset", "set", "opened", "creating", "storing", "spawning", "ended"}

\* The session's own variables have their types.
SessionOnlyType ==
    /\ handler \in {"create_peer", "create_channels", "send_offer", "serving",
                    "cleanup", "close_peer", "done"}
    /\ answered \in BOOLEAN
    /\ peer \in PeerStates
    /\ notices \in Seq(PeerStates)
    /\ monitor \in {"idle", "close"}
    /\ callback \in [Channels -> CallbackStates]
    /\ channelsOpen \in 0..2
    /\ held \in BOOLEAN
    /\ created \in 0..2
    /\ flaps \in 0..MaxFlaps

\* The type invariant of the session is that of the bridge and of what it adds.
LEMMA TypeSplit == SessionTypeOK <=> TypeOK /\ SessionOnlyType
  BY DEF SessionTypeOK, SessionOnlyType, CallbackStates

-----------------------------------------------------------------------------
\* channels_open goes on counting the callbacks that have run.
LEMMA CountKept ==
    ASSUME SessionOnlyType, CountOK, EarlyOK, SessionNext
    PROVE  CountOK'
<1> USE DEF CountOK, Counted
<1>1. CASE UNCHANGED <<callback, channelsOpen>> /\ (BridgeAction \/ UNCHANGED bridgeVars \/ ClosePeer)
  BY <1>1, BridgeFrame
<1>2. CASE CreateChannels
  <2>1. callback = [c \in Channels |-> "unset"]
    BY <1>2 DEF CreateChannels, EarlyOK, SessionOnlyType
  <2>2. callback' \in {[c \in Channels |-> "unset"], [c \in Channels |-> "set"]}
        /\ channelsOpen' = channelsOpen
    BY <1>2, <2>1 DEF CreateChannels
  <2> QED BY <2>1, <2>2 DEF Channels
<1>3. CASE HandlerStep /\ ~CreateChannels
  <2>1. UNCHANGED <<callback, channelsOpen>>
    BY <1>3 DEF HandlerStep, CreatePeer, SendOffer, Cleanup, HandlerClosesPeer, callbackVars
  <2>2. BridgeAction \/ UNCHANGED bridgeVars \/ ClosePeer
    BY <1>3 DEF HandlerStep, CreatePeer, SendOffer, Cleanup, HandlerClosesPeer, TakeBridge,
       BridgeAction
  <2> QED BY <1>1, <2>1, <2>2
<1>4. CASE HandleAnswer \/ WebSocketEnds
  BY <1>1, <1>4 DEF HandleAnswer, WebSocketEnds, callbackVars
<1>5. CASE CallbackStep
  <2>1. PICK c \in Channels : \/ CountOpen(c) \/ CreateBridgeFails(c) \/ CreateBridge(c)
                              \/ StoreBridge(c) \/ SpawnBridge(c)
    BY <1>5 DEF CallbackStep
  <2>2. BridgeAction \/ UNCHANGED bridgeVars
    BY <2>1 DEF CountOpen, CreateBridgeFails, CreateBridge, StoreBridge, SpawnBridge,
       BridgeAction, Next
  <2>3. /\ write' = "connecting" => write = "connecting"
        /\ read' = "connecting" => read = "connecting"
    BY <2>2, BridgeFrame
  <2>4. c = "write" \/ c = "read"
    BY DEF Channels
  <2>5. CASE CountOpen(c)
    <3>1. /\ callback[c] = "opened" /\ channelsOpen' = channelsOpen + 1
          /\ callback'[c] \in {"creating", "ended"}
          /\ \A d \in Channels : d # c => callback'[d] = callback[d]
      BY <2>5 DEF CountOpen, SessionOnlyType
    <3> QED BY <2>3, <2>4, <3>1 DEF Channels, SessionOnlyType
  <2>6. CASE ~CountOpen(c)
    <3>1. /\ callback[c] \in {"creating", "storing", "spawning"} /\ channelsOpen' = channelsOpen
          /\ callback'[c] \in {"storing", "spawning", "ended"}
          /\ \A d \in Channels : d # c => callback'[d] = callback[d]
      BY <2>1, <2>6 DEF CreateBridgeFails, CreateBridge, StoreBridge, SpawnBridge, SessionOnlyType
    <3> QED BY <2>3, <2>4, <3>1 DEF Channels, SessionOnlyType
  <2> QED BY <2>5, <2>6
<1>6. CASE MonitorStep
  <2>1. UNCHANGED <<callback, channelsOpen>>
    BY <1>6 DEF MonitorStep, MonitorStateChange, MonitorClosesPeer, callbackVars
  <2>2. BridgeAction \/ UNCHANGED bridgeVars \/ ClosePeer
    BY <1>6 DEF MonitorStep, MonitorStateChange, MonitorClosesPeer, TakeBridge, BridgeAction
  <2> QED BY <1>1, <2>1, <2>2
<1>7. CASE LibraryStep
  <2>1. CASE Connects
    BY <2>1 DEF Connects, callbackVars
  <2>2. CASE Disconnects \/ Recovers \/ Fails
    BY <1>1, <2>2 DEF Disconnects, Recovers, Fails, callbackVars
  <2>3. CASE WriteOpens
    <3>1. /\ callback'["write"] = "opened" /\ callback'["read"] = callback["read"]
          /\ write = "connecting" /\ write' = "open" /\ read' = read /\ channelsOpen' = channelsOpen
      BY <2>3 DEF WriteOpens, SessionOnlyType, Channels
    <3> QED BY <3>1
  <2>4. CASE ReadOpens
    <3>1. /\ callback'["read"] = "opened" /\ callback'["write"] = callback["write"]
          /\ read = "connecting" /\ read' = "open" /\ write' = write /\ channelsOpen' = channelsOpen
      BY <2>4 DEF ReadOpens, SessionOnlyType, Channels
    <3> QED BY <3>1
  <2>5. CASE (ChannelCloses \/ LinkLost) /\ UNCHANGED sessionVars
    <3>1. BridgeAction
      BY <2>5 DEF ChannelCloses, BridgeAction, Next
    <3> QED BY <1>1, <2>5, <3>1 DEF sessionVars, callbackVars
  <2> QED BY <1>7, <2>1, <2>2, <2>3, <2>4, <2>5 DEF LibraryStep
<1>8. CASE BridgeStep
  BY <1>1, <1>8 DEF BridgeStep, BridgeAction, Next, sessionVars, callbackVars
<1> QED BY <1>2, <1>3, <1>4, <1>5, <1>6, <1>7, <1>8 DEF SessionNext


-----------------------------------------------------------------------------
\* Every step other than one of start_bridge() leaves the callbacks that are
\* in start_bridge() where they are, creates no bridge and spawns none.
LEMMA StartFrame ==
    ASSUME SessionOnlyType, CountOK, EarlyOK, SessionNext, ~CallbackStep
    PROVE  /\ created' = created /\ (starter = "unborn" <=> starter' = "unborn")
           /\ \A c \in Channels : \/ callback'[c] = callback[c]
                                  \/ ~Counted(c) /\ callback'[c] \in {"set", "opened"}
<1> DEFINE Unmoved == /\ created' = created /\ callback' = callback
                      /\ (starter = "unborn" <=> starter' = "unborn")
<1>1. Unmoved => (/\ created' = created /\ (starter = "unborn" <=> starter' = "unborn")
                  /\ \A c \in Channels : \/ callback'[c] = callback[c]
                                         \/ ~Counted(c) /\ callback'[c] \in {"set", "opened"})
  OBVIOUS
<1>2. ASSUME TakeBridge PROVE starter' = starter
  BY <1>2 DEF TakeBridge, Shutdown, bridgeVars, startVars
<1>3. ASSUME ClosePeer PROVE starter' = starter
  BY <1>3 DEF ClosePeer, bridgeVars, startVars
<1>4. CASE CreateChannels
  <2>1. callback = [c \in Channels |-> "unset"] \/ \A c \in Channels : callback[c] = "unset"
    BY <1>4 DEF CreateChannels, EarlyOK
  <2>2. \A c \in Channels : callback'[c] = callback[c] \/ callback'[c] = "set"
    BY <1>4 DEF CreateChannels
  <2>3. created' = created /\ starter' = starter
    BY <1>4 DEF CreateChannels, bridgeVars
  <2> QED BY <2>1, <2>2, <2>3 DEF Counted
<1>5. CASE HandlerStep /\ ~CreateChannels
  <2>1. Unmoved
    BY <1>2, <1>3, <1>5 DEF HandlerStep, CreatePeer, SendOffer, Cleanup, HandlerClosesPeer,
       callbackVars, bridgeVars
  <2> QED BY <1>1, <2>1
<1>6. CASE HandleAnswer \/ WebSocketEnds
  <2>1. Unmoved
    BY <1>6 DEF HandleAnswer, WebSocketEnds, callbackVars, bridgeVars
  <2> QED BY <1>1, <2>1
<1>7. CASE MonitorStep
  <2>1. Unmoved
    BY <1>2, <1>3, <1>7 DEF MonitorStep, MonitorStateChange, MonitorClosesPeer, callbackVars,
       bridgeVars
  <2> QED BY <1>1, <2>1
<1>8. CASE LibraryStep
  <2>1. CASE Connects \/ Disconnects \/ Recovers \/ Fails
    <3>1. Unmoved
      BY <2>1 DEF Connects, Disconnects, Recovers, Fails, callbackVars, bridgeVars, startVars
    <3> QED BY <1>1, <3>1
  <2>2. CASE WriteOpens
    <3>1. /\ callback'["write"] = "opened" /\ callback'["read"] = callback["read"]
          /\ created' = created /\ starter' = starter
      BY <2>2 DEF WriteOpens, SessionOnlyType, Channels, startVars
    <3>2. ~Counted("write")
      BY <2>2 DEF WriteOpens, CountOK, Counted
    <3> QED BY <3>1, <3>2 DEF Channels
  <2>3. CASE ReadOpens
    <3>1. /\ callback'["read"] = "opened" /\ callback'["write"] = callback["write"]
          /\ created' = created /\ starter' = starter
      BY <2>3 DEF ReadOpens, SessionOnlyType, Channels, startVars
    <3>2. ~Counted("read")
      BY <2>3 DEF ReadOpens, CountOK, Counted
    <3> QED BY <3>1, <3>2 DEF Channels
  <2>4. CASE (ChannelCloses \/ LinkLost) /\ UNCHANGED sessionVars
    <3>1. starter' = starter
      BY <2>4 DEF ChannelCloses, WriteCloses, ReadCloses, LinkLost, startVars
    <3>2. Unmoved
      BY <2>4, <3>1 DEF sessionVars, callbackVars
    <3> QED BY <1>1, <3>2
  <2> QED BY <1>8, <2>1, <2>2, <2>3, <2>4 DEF LibraryStep
<1>9. CASE BridgeStep
  <2>1. BridgeAction
    BY <1>9 DEF BridgeStep, BridgeAction, Next
  <2>2. ~Spawn
    BY <1>9 DEF BridgeStep, Spawn, StartStep, StartForwarder, SetOnMessage, SetOnClose,
       StartWaits, StartReturns, ForwarderStep, Park, Receive, SendOk, SendError, ReceiveError,
       IdleFires, ShutdownSeen, Teardown, CloseWrite, CloseRead, SignalShutdown, Cancelled, Tick,
       OnMessage, Upstream, DatagramArrives, UpstreamDies, startVars
  <2>3. Unmoved
    BY <1>9, <2>1, <2>2, BridgeFrame DEF BridgeStep, sessionVars, callbackVars
  <2> QED BY <1>1, <2>3
<1> QED BY <1>4, <1>5, <1>6, <1>7, <1>8, <1>9 DEF SessionNext

\* No step brings a second callback into start_bridge().
LEMMA StartingKept ==
    ASSUME SessionOnlyType, CountOK, EarlyOK, StartingOK, SessionNext
    PROVE  StartingOK'
<1>1. CASE ~CallbackStep
  <2>1. /\ created' = created /\ (starter = "unborn" <=> starter' = "unborn")
        /\ \A c \in Channels : \/ callback'[c] = callback[c]
                               \/ ~Counted(c) /\ callback'[c] \in {"set", "opened"}
    BY <1>1, StartFrame
  <2> QED BY <2>1 DEF StartingOK, Counted
<1>2. CASE CallbackStep
  <2>1. PICK c \in Channels : \/ CountOpen(c) \/ CreateBridgeFails(c) \/ CreateBridge(c)
                              \/ StoreBridge(c) \/ SpawnBridge(c)
    BY <1>2 DEF CallbackStep
  <2>2. PICK d \in Channels : Channels = {c, d} /\ d # c
    BY DEF Channels
  <2>3. CASE CountOpen(c)
    <3>1. /\ callback[c] = "opened" /\ created' = created /\ starter' = starter
          /\ callback'[c] = (IF channelsOpen + 1 = 2 THEN "creating" ELSE "ended")
          /\ callback'[d] = callback[d]
      BY <2>2, <2>3 DEF CountOpen, SessionOnlyType, bridgeVars
    <3>2. channelsOpen = IF Counted(d) THEN 1 ELSE 0
      BY <2>2, <3>1 DEF CountOK, Counted, Channels
    <3>3. created = 0 /\ starter = "unborn"
      BY <3>1 DEF StartingOK, Counted, SessionOnlyType
    <3>4. callback[d] \notin {"creating", "storing", "spawning"}
      BY <2>2, <3>1 DEF StartingOK
    <3>5. callback[d] = "ended" <=> Counted(d)
      BY <3>4 DEF Counted
    <3> QED BY <2>2, <3>1, <3>2, <3>3, <3>4, <3>5 DEF StartingOK, Counted
  <2>4. CASE ~CountOpen(c)
    <3>1. /\ callback[c] \in {"creating", "storing", "spawning"}
          /\ callback'[d] = callback[d]
      BY <2>1, <2>2, <2>4 DEF CreateBridgeFails, CreateBridge, StoreBridge, SpawnBridge,
         SessionOnlyType
    <3>2. /\ callback[d] = "ended" /\ starter = "unborn"
          /\ created = IF callback[c] = "creating" THEN 0 ELSE 1
      BY <2>2, <3>1 DEF StartingOK
    <3>3. CASE CreateBridgeFails(c)
      BY <2>2, <3>1, <3>2, <3>3 DEF CreateBridgeFails, StartingOK, Counted, bridgeVars,
         SessionOnlyType
    <3>4. CASE CreateBridge(c)
      BY <2>2, <3>1, <3>2, <3>4 DEF CreateBridge, StartingOK, Counted, bridgeVars,
         SessionOnlyType
    <3>5. CASE StoreBridge(c)
      BY <2>2, <3>1, <3>2, <3>5 DEF StoreBridge, StartingOK, Counted, bridgeVars,
         SessionOnlyType
    <3>6. CASE SpawnBridge(c)
      BY <2>2, <3>1, <3>2, <3>6 DEF SpawnBridge, StartingOK, Counted, SessionOnlyType
    <3> QED BY <2>1, <2>4, <3>3, <3>4, <3>5, <3>6
  <2> QED BY <2>3, <2>4
<1> QED BY <1>1, <1>2

\* No step lets anything happen on the connection before the offer.
LEMMA EarlyKept ==
    ASSUME SessionOnlyType, EarlyOK, SessionNext
    PROVE  EarlyOK'
<1> USE DEF EarlyOK
<1>1. CASE HandlerStep
  BY <1>1 DEF HandlerStep, CreatePeer, CreateChannels, SendOffer, Cleanup, HandlerClosesPeer,
     callbackVars, peerVars, bridgeVars
<1>2. CASE HandleAnswer \/ WebSocketEnds
  BY <1>2 DEF HandleAnswer, WebSocketEnds
<1>3. CASE CallbackStep
  <2>1. PICK c \in Channels : \/ CountOpen(c) \/ CreateBridgeFails(c) \/ CreateBridge(c)
                              \/ StoreBridge(c) \/ SpawnBridge(c)
    BY <1>3 DEF CallbackStep
  <2>2. /\ callback[c] # "unset" /\ UNCHANGED <<handler, answered, peer, notices, monitor, link>>
    BY <2>1 DEF CountOpen, CreateBridgeFails, CreateBridge, StoreBridge, SpawnBridge, Spawn,
       bridgeVars, handlerVars, peerVars, channelVars
  <2> QED BY <2>2
<1>4. CASE MonitorStep
  <2>1. handler \notin {"create_peer", "create_channels", "send_offer"} /\ handler' = handler
    BY <1>4 DEF MonitorStep, MonitorStateChange, MonitorClosesPeer, handlerVars
  <2> QED BY <2>1
<1>5. CASE LibraryStep
  <2>1. CASE Connects \/ Disconnects \/ Recovers \/ Fails
    <3>1. handler \notin {"create_peer", "create_channels", "send_offer"} /\ handler' = handler
      BY <2>1 DEF Connects, Disconnects, Recovers, Fails, handlerVars
    <3> QED BY <3>1
  <2>2. CASE WriteOpens \/ ReadOpens
    <3>1. handler \notin {"create_peer", "create_channels", "send_offer"} /\ handler' = handler
      BY <2>2 DEF WriteOpens, ReadOpens, handlerVars
    <3> QED BY <3>1
  <2>3. CASE (ChannelCloses \/ LinkLost) /\ UNCHANGED sessionVars
    BY <2>3 DEF ChannelCloses, WriteCloses, ReadCloses, LinkLost, sessionVars, handlerVars,
       peerVars, callbackVars
  <2> QED BY <1>5, <2>1, <2>2, <2>3 DEF LibraryStep
<1>6. CASE BridgeStep
  <2>1. link' = link
    BY <1>6 DEF BridgeStep, StartStep, StartForwarder, SetOnMessage, SetOnClose,
       StartWaits, StartReturns, ForwarderStep, Park, Receive, SendOk, SendError, ReceiveError,
       IdleFires, ShutdownSeen, Teardown, CloseWrite, CloseRead, SignalShutdown, Cancelled, Tick,
       OnMessage, Upstream, DatagramArrives, UpstreamDies, channelVars
  <2> QED BY <1>6, <2>1 DEF BridgeStep, sessionVars, handlerVars, peerVars, callbackVars
<1> QED BY <1>1, <1>2, <1>3, <1>4, <1>5, <1>6 DEF SessionNext

\* The holder is emptied only by TakeBridge, which signals.
LEMMA HolderKept ==
    ASSUME SessionOnlyType, CountOK, EarlyOK, HolderOK, SessionNext
    PROVE  HolderOK'
<1>0. signalled => signalled'
  <2>1. CASE BridgeAction
    BY <2>1, BridgeFrame
  <2>2. CASE UNCHANGED Inside
    BY <2>2 DEF Inside
  <2> QED BY <2>1, <2>2, InsideOrBridge
<1>1. ASSUME TakeBridge, held PROVE signalled'
  BY <1>1 DEF TakeBridge, Shutdown
<1>2. held => held' \/ signalled'
  BY <1>1 DEF SessionNext, HandlerStep, CreatePeer, CreateChannels, SendOffer, Cleanup,
     HandlerClosesPeer, HandleAnswer, WebSocketEnds, CallbackStep, CountOpen, CreateBridgeFails,
     CreateBridge, StoreBridge, SpawnBridge, MonitorStep, MonitorStateChange, MonitorClosesPeer,
     LibraryStep, Connects, Disconnects, Recovers, Fails, WriteOpens, ReadOpens, BridgeStep,
     sessionVars
<1>3. Stored' => Stored \/ held'
  <2>1. CASE ~CallbackStep
    <3>1. /\ starter = "unborn" <=> starter' = "unborn"
          /\ \A c \in Channels : \/ callback'[c] = callback[c]
                                 \/ ~Counted(c) /\ callback'[c] \in {"set", "opened"}
      BY <2>1, StartFrame
    <3> QED BY <3>1 DEF Stored
  <2>2. CASE CallbackStep
    <3>1. PICK c \in Channels : \/ CountOpen(c) \/ CreateBridgeFails(c) \/ CreateBridge(c)
                                \/ StoreBridge(c) \/ SpawnBridge(c)
      BY <2>2 DEF CallbackStep
    <3>2. CASE CountOpen(c) \/ CreateBridgeFails(c) \/ CreateBridge(c)
      <4>1. /\ starter' = starter
            /\ \A d \in Channels : callback'[d] = "spawning" => callback[d] = "spawning"
        BY <3>2 DEF CountOpen, CreateBridgeFails, CreateBridge, bridgeVars, SessionOnlyType
      <4> QED BY <4>1 DEF Stored
    <3>3. CASE StoreBridge(c)
      BY <3>3 DEF StoreBridge
    <3>4. CASE SpawnBridge(c)
      BY <3>4 DEF SpawnBridge, Stored
    <3> QED BY <3>1, <3>2, <3>3, <3>4
  <2> QED BY <2>1, <2>2
<1> QED BY <1>0, <1>2, <1>3 DEF HolderOK

-----------------------------------------------------------------------------
\* The channels and the association keep their types whoever changes them.
LEMMA ChannelType ==
    ASSUME TypeOK, NotifyOK, SessionNext
    PROVE  TypeOK'
<1>1. CASE BridgeAction
  BY <1>1, TypeKept
<1>2. CASE UNCHANGED Inside
  <2>1. /\ write' \in ReadyStates /\ read' \in ReadyStates /\ link' \in {"new", "up", "down"}
    <3>1. CASE BridgeAction
      BY <3>1, TypeKept DEF TypeOK
    <3>2. CASE UNCHANGED <<write, read, link>>
      BY <3>2 DEF TypeOK
    <3>3. ClosePeer => UNCHANGED <<write, read>> /\ link' \in {link, "down"}
      BY DEF ClosePeer, bridgeVars
    <3>4. CASE ClosePeer
      BY <3>3, <3>4 DEF TypeOK
    <3>5. TakeBridge => BridgeAction \/ UNCHANGED <<write, read, link>>
      BY DEF TakeBridge, BridgeAction, bridgeVars
    <3>6. CASE HandlerStep \/ HandleAnswer \/ WebSocketEnds
      BY <3>1, <3>2, <3>4, <3>5, <3>6 DEF HandlerStep, CreatePeer, CreateChannels, SendOffer,
         Cleanup, HandlerClosesPeer, HandleAnswer, WebSocketEnds, bridgeVars
    <3>7. CASE CallbackStep
      <4>1. PICK c \in Channels : \/ CountOpen(c) \/ CreateBridgeFails(c) \/ CreateBridge(c)
                                  \/ StoreBridge(c) \/ SpawnBridge(c)
        BY <3>7 DEF CallbackStep
      <4> QED BY <3>2, <4>1 DEF CountOpen, CreateBridgeFails, CreateBridge, StoreBridge,
         SpawnBridge, Spawn, bridgeVars, channelVars
    <3>8. CASE MonitorStep
      BY <3>1, <3>2, <3>4, <3>5, <3>8 DEF MonitorStep, MonitorStateChange, MonitorClosesPeer,
         bridgeVars
    <3>9. CASE LibraryStep
      <4>1. CASE Connects
        BY <4>1 DEF Connects, TypeOK
      <4>2. CASE Disconnects \/ Recovers \/ Fails
        BY <3>2, <4>2 DEF Disconnects, Recovers, Fails, bridgeVars
      <4>3. CASE WriteOpens
        BY <4>3 DEF WriteOpens, TypeOK, ReadyStates
      <4>4. CASE ReadOpens
        BY <4>4 DEF ReadOpens, TypeOK, ReadyStates
      <4>5. CASE ChannelCloses \/ LinkLost
        BY <3>1, <4>5 DEF ChannelCloses, BridgeAction, Next
      <4> QED BY <3>9, <4>1, <4>2, <4>3, <4>4, <4>5 DEF LibraryStep
    <3>10. CASE BridgeStep
      BY <3>1, <3>10 DEF BridgeStep, BridgeAction, Next
    <3> QED BY <3>6, <3>7, <3>8, <3>9, <3>10 DEF SessionNext
  <2> QED BY <1>2, <2>1 DEF TypeOK, Inside
<1> QED BY <1>1, <1>2, InsideOrBridge

\* Every step keeps the types of what the session adds to the bridge.
LEMMA SessionOnlyTypeKept ==
    ASSUME SessionOnlyType, CountOK, StartingOK, SessionNext
    PROVE  SessionOnlyType'
<1> USE SessionAssumption DEF SessionOnlyType
<1>1. ASSUME NEW s \in PeerStates
      PROVE  Append(notices, s) \in Seq(PeerStates)
  OBVIOUS
<1>2. held' \in BOOLEAN
  BY DEF SessionNext, HandlerStep, CreatePeer, CreateChannels, SendOffer, Cleanup,
     HandlerClosesPeer, HandleAnswer, WebSocketEnds, CallbackStep, CountOpen, CreateBridgeFails,
     CreateBridge, StoreBridge, SpawnBridge, MonitorStep, MonitorStateChange, MonitorClosesPeer,
     LibraryStep, Connects, Disconnects, Recovers, Fails, WriteOpens, ReadOpens, BridgeStep,
     sessionVars, TakeBridge
<1>3. ClosePeer => /\ peer' \in PeerStates /\ notices' \in Seq(PeerStates)
                   /\ flaps' \in 0..MaxFlaps
  BY <1>1 DEF ClosePeer, PeerStates, peerVars
<1>4. CASE HandlerStep
  BY <1>2, <1>3, <1>4 DEF HandlerStep, CreatePeer, CreateChannels, SendOffer, Cleanup,
     HandlerClosesPeer, peerVars, callbackVars, CallbackStates
<1>5. CASE HandleAnswer \/ WebSocketEnds
  BY <1>2, <1>5 DEF HandleAnswer, WebSocketEnds, peerVars, callbackVars
<1>6. CASE CallbackStep
  <2>1. PICK c \in Channels : \/ CountOpen(c) \/ CreateBridgeFails(c) \/ CreateBridge(c)
                              \/ StoreBridge(c) \/ SpawnBridge(c)
    BY <1>6 DEF CallbackStep
  <2>2. CountOpen(c) => channelsOpen <= 1
    BY DEF CountOpen, CountOK, Counted, Channels
  <2>3. created <= 1
    BY DEF StartingOK
  <2>4. channelsOpen' \in 0..2 /\ created' \in 0..2
    BY <2>1, <2>2, <2>3 DEF CountOpen, CreateBridgeFails, CreateBridge, StoreBridge, SpawnBridge
  <2>5. callback' \in [Channels -> CallbackStates]
    BY <2>1 DEF CountOpen, CreateBridgeFails, CreateBridge, StoreBridge, SpawnBridge,
       CallbackStates
  <2>6. UNCHANGED <<handler, answered, peer, notices, flaps, monitor>>
    BY <2>1 DEF CountOpen, CreateBridgeFails, CreateBridge, StoreBridge, SpawnBridge,
       handlerVars, peerVars
  <2> QED BY <1>2, <2>4, <2>5, <2>6
<1>7. CASE MonitorStep
  <2>1. CASE MonitorStateChange
    <3>1. Tail(notices) \in Seq(PeerStates)
      BY <2>1 DEF MonitorStateChange
    <3> QED BY <1>2, <2>1, <3>1 DEF MonitorStateChange, handlerVars, callbackVars
  <2>2. CASE MonitorClosesPeer
    BY <1>2, <1>3, <2>2 DEF MonitorClosesPeer, handlerVars, callbackVars
  <2> QED BY <1>7, <2>1, <2>2 DEF MonitorStep
<1>8. CASE LibraryStep
  <2>1. CASE Connects \/ Disconnects \/ Recovers \/ Fails
    <3>1. ASSUME NEW s \in PeerStates, PeerBecomes(s)
          PROVE  peer' \in PeerStates /\ notices' \in Seq(PeerStates)
      BY <1>1, <3>1 DEF PeerBecomes
    <3>2. {"connected", "disconnected", "failed"} \subseteq PeerStates
      BY DEF PeerStates
    <3>3. peer' \in PeerStates /\ notices' \in Seq(PeerStates)
      BY <2>1, <3>1, <3>2 DEF Connects, Disconnects, Recovers, Fails
    <3>4. flaps' \in 0..MaxFlaps
      BY <2>1 DEF Connects, Disconnects, Recovers, Fails
    <3> QED BY <1>2, <2>1, <3>3, <3>4 DEF Connects, Disconnects, Recovers, Fails, handlerVars,
       callbackVars
  <2>2. CASE WriteOpens \/ ReadOpens
    BY <1>2, <2>2 DEF WriteOpens, ReadOpens, handlerVars, peerVars, CallbackStates
  <2>3. CASE UNCHANGED sessionVars
    BY <2>3 DEF sessionVars, handlerVars, peerVars, callbackVars
  <2> QED BY <1>8, <2>1, <2>2, <2>3 DEF LibraryStep
<1>9. CASE BridgeStep
  BY <1>9 DEF BridgeStep, sessionVars, handlerVars, peerVars, callbackVars
<1> QED BY <1>4, <1>5, <1>6, <1>7, <1>8, <1>9 DEF SessionNext

-----------------------------------------------------------------------------
SessionInd == /\ TypeOK /\ NotifyOK /\ ShutdownNotLost
              /\ SessionOnlyType /\ SessionInv

\* The conjunction of all of them is an invariant of the session.
LEMMA SessionInductive == SessionSpec => []SessionInd
<1>1. SessionInit => SessionInd
  <2> SUFFICES ASSUME SessionInit PROVE SessionInd
    OBVIOUS
  <2>1. TypeOK
    BY FreshType DEF SessionInit, ReadyStates
  <2>2. NotifyOK /\ ShutdownNotLost
    BY FreshInvariants DEF SessionInit
  <2>3. SessionOnlyType
    <3>1. notices \in Seq(PeerStates)
      BY DEF SessionInit
    <3>2. callback \in [Channels -> CallbackStates]
      BY DEF SessionInit, CallbackStates
    <3>3. flaps \in 0..MaxFlaps
      BY SessionAssumption DEF SessionInit
    <3>4. /\ handler = "create_peer" /\ answered = FALSE /\ peer \in PeerStates
          /\ monitor = "idle" /\ channelsOpen \in 0..2 /\ held = FALSE /\ created \in 0..2
      BY DEF SessionInit, PeerStates
    <3> QED BY <3>1, <3>2, <3>3, <3>4 DEF SessionOnlyType
  <2>4. SessionInv
    BY DEF SessionInit, SessionInv, CountOK, StartingOK, EarlyOK, HolderOK, Stored, Counted,
       Channels, Fresh
  <2> QED BY <2>1, <2>2, <2>3, <2>4 DEF SessionInd
<1>2. SessionInd /\ [SessionNext]_allVars => SessionInd'
  <2> SUFFICES ASSUME SessionInd, [SessionNext]_allVars PROVE SessionInd'
    OBVIOUS
  <2> USE DEF SessionInd, SessionInv
  <2>1. CASE SessionNext
    <3>1. NotifyOK' /\ ShutdownNotLost'
      BY <2>1, InsideOrBridge, InsideKept, NotifyKept, SignalKept
    <3>2. TypeOK' /\ SessionOnlyType'
      BY <2>1, ChannelType, SessionOnlyTypeKept
    <3> QED BY <2>1, <3>1, <3>2, CountKept, StartingKept, EarlyKept, HolderKept
  <2>2. CASE UNCHANGED allVars
    BY <2>2 DEF allVars, bridgeVars, sessionVars, handlerVars, peerVars, callbackVars, TypeOK,
       NotifyOK, WaitersOK, ShutdownNotLost, Pending, SessionOnlyType, CountOK, Counted,
       StartingOK, EarlyOK, HolderOK, Stored
  <2> QED BY <2>1, <2>2
<1> QED BY <1>1, <1>2, PTL DEF SessionSpec

\* Every variable of the session and of its bridge keeps its type.
THEOREM SessionTypeCorrect == SessionSpec => []SessionTypeOK
<1>1. SessionInd => SessionTypeOK
  BY TypeSplit DEF SessionInd
<1> QED BY <1>1, SessionInductive, PTL

\* One session starts at most one bridge, when both channels have opened
\* (signaling.rs:147-182).
THEOREM OneBridgePerSession == SessionSpec => []OneBridge
<1>1. SessionInd => OneBridge
  BY DEF SessionInd, SessionInv, StartingOK, CountOK, OneBridge, Counted, Channels
<1> QED BY <1>1, SessionInductive, PTL

\* A stored bridge is in the holder or has been signalled, and its signal is
\* pending or has ended a task (signaling.rs:100-105, 270-308).
THEOREM TakenBridgeIsStopped == SessionSpec => []TakenBridgeStops
<1>1. SessionInd => TakenBridgeStops
  BY DEF SessionInd, SessionInv, HolderOK, ShutdownNotLost, TakenBridgeStops
<1> QED BY <1>1, SessionInductive, PTL

=============================================================================
