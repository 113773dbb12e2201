------------------------------- MODULE Bridge -------------------------------
(***************************************************************************)
(* The bridge between one game server socket and the two data channels of  *)
(* one browser (src/src/bridge.rs).  Two tasks run concurrently: start(),  *)
(* which spawns the forwarder, installs the callbacks of the read channel  *)
(* and waits for the shutdown signal, and the UDP -> WebRTC forwarder, a   *)
(* select! loop.  Both await the same Notify object.  The callbacks of the *)
(* read channel run on the tasks of the WebRTC library.                    *)
(*                                                                         *)
(* Datagrams are numbered by arrival; their content is reduced to the kind *)
(* the code tells apart.  IdleTimeout is the number of clock ticks the     *)
(* code's 25 seconds are divided into.                                     *)
(***************************************************************************)
EXTENDS Naturals, Notify

CONSTANTS IdleTimeout,    \* ticks of silence that fire the idle branch
          MaxDatagrams,   \* bound: datagrams the upstream ever sends
          SocketBuffer    \* datagrams the kernel keeps for the socket

ASSUME BridgeAssumption ==
    /\ IdleTimeout \in Nat \ {0}
    /\ MaxDatagrams \in Nat
    /\ SocketBuffer \in Nat \ {0}

VARIABLES
    starter,         \* where start() is
    forwarder,       \* where forward_udp_to_webrtc() is
    notify,          \* Bridge::shutdown
    signalled,       \* history: notify_one() was called on it
    abortRequested,  \* udp_to_webrtc.abort() was called
    sawPacket,
    browserStarted,
    armed,           \* the precondition of the idle branch, as last evaluated
    idle,            \* ticks since the forwarder parked in select!
    inHand,          \* <<d>> while the forwarder sends d, else <<>>
    socket,          \* kernel receive buffer of udp_socket
    socketError,     \* an ICMP error is pending on udp_socket
    upstream,        \* "unaware" of the browser, "live", or "dead"
    arrived,         \* datagrams the upstream has sent
    taken,           \* history: non-empty datagrams recv() returned
    delivered,       \* history: what write_channel.send() accepted
    write, read,     \* ready states of the two data channels
    link             \* the SCTP association under them: "new", "up", "down"

startVars   == <<starter, abortRequested>>
relayVars   == <<sawPacket, armed, idle, inHand, taken, delivered>>
socketVars  == <<socket, socketError, upstream, arrived>>
channelVars == <<write, read, link>>
bridgeVars  == <<starter, forwarder, notify, signalled, abortRequested,
                 sawPacket, browserStarted, armed, idle, inHand, socket,
                 socketError, upstream, arrived, taken, delivered, write,
                 read, link>>

Tasks         == {"starter", "forwarder"}
Queues        == {<<>>, <<"starter">>, <<"forwarder">>,
                  <<"starter", "forwarder">>, <<"forwarder", "starter">>}
ReadyStates   == {"connecting", "open", "closing", "closed"}
Kinds         == {"ack", "game", "empty"}
Datagrams     == [id : 1..MaxDatagrams, kind : Kinds]

\* Mutant of Rewrite: the ack is forwarded as it came.
RewriteNothing(d) == d

\* The HLTV connect ack is replaced by the reply the Xash3D client accepts.
Rewrite(d) == IF d.kind = "ack" THEN [d EXCEPT !.kind = "reply"] ELSE d
Outgoing   == [id : 1..MaxDatagrams, kind : {"reply", "game"}]
Hands      == {<<>>} \cup {<<d>> : d \in Outgoing}

\* No task of the bridge has run and no packet has been seen.
Fresh ==
    /\ starter = "unborn"
    /\ forwarder = "unborn"
    /\ notify = NotifyNew
    /\ signalled = FALSE
    /\ abortRequested = FALSE
    /\ sawPacket = FALSE
    /\ browserStarted = FALSE
    /\ armed = FALSE
    /\ idle = 0
    /\ inHand = <<>>
    /\ socket = <<>>
    /\ socketError = FALSE
    /\ upstream = "unaware"
    /\ arrived = 0
    /\ taken = <<>>
    /\ delivered = <<>>

\* Bridge::new() has returned: both channels are open.
Init == Fresh /\ write = "open" /\ read = "open" /\ link = "up"

-----------------------------------------------------------------------------
(* start(): spawn, set up, wait, abort.                                    *)

\* tokio::spawn of b.start().
Spawn ==
    /\ starter = "unborn"
    /\ starter' = "begin"
    /\ UNCHANGED <<forwarder, notify, signalled, abortRequested,
                   browserStarted, relayVars, socketVars, channelVars>>

StartForwarder ==
    /\ starter = "begin"
    /\ starter' = "on_message"
    /\ forwarder' = "loop"
    /\ UNCHANGED <<notify, signalled, abortRequested, browserStarted,
                   relayVars, socketVars, channelVars>>

SetOnMessage ==
    /\ starter = "on_message"
    /\ starter' = "on_close"
    /\ UNCHANGED <<forwarder, notify, signalled, abortRequested,
                   browserStarted, relayVars, socketVars, channelVars>>

\* The on_close and on_error handlers do the same and are one.
SetOnClose ==
    /\ starter = "on_close"
    /\ starter' = "await"
    /\ UNCHANGED <<forwarder, notify, signalled, abortRequested,
                   browserStarted, relayVars, socketVars, channelVars>>

HasOnMessage == starter \notin {"unborn", "begin", "on_message"}

\* Mutant of HasOnClose: start() installs no on_close handler.
HasNoOnClose == FALSE

HasOnClose == starter \notin {"unborn", "begin", "on_message", "on_close"}

\* First poll of shutdown.notified() without a permit.
StartWaits ==
    /\ starter = "await"
    /\ ~notify.permit
    /\ starter' = "waiting"
    /\ notify' = Register(notify, "starter")
    /\ UNCHANGED <<forwarder, signalled, abortRequested, browserStarted,
                   relayVars, socketVars, channelVars>>

\* Mutant of StartReturns: the forwarder is not aborted.
StartReturnsOnly ==
    /\ \/ /\ starter = "await"
          /\ notify.permit
          /\ notify' = TakePermit(notify)
       \/ /\ starter = "waiting"
          /\ "starter" \in notify.woken
          /\ notify' = Resume(notify, "starter")
    /\ starter' = "done"
    /\ UNCHANGED <<forwarder, abortRequested, signalled, browserStarted,
                   relayVars, socketVars, channelVars>>

\* notified() returns: abort the forwarder and return.
StartReturns ==
    /\ \/ /\ starter = "await"
          /\ notify.permit
          /\ notify' = TakePermit(notify)
       \/ /\ starter = "waiting"
          /\ "starter" \in notify.woken
          /\ notify' = Resume(notify, "starter")
    /\ abortRequested' = TRUE
    /\ starter' = "done"
    /\ UNCHANGED <<forwarder, signalled, browserStarted, relayVars,
                   socketVars, channelVars>>

StartStep == \/ StartForwarder \/ SetOnMessage \/ SetOnClose
             \/ StartWaits \/ StartReturns

-----------------------------------------------------------------------------
(* forward_udp_to_webrtc(): a select! loop.                                *)

\* The forwarder is in select! and runs: at its first poll, or woken again.
InSelect == \/ forwarder = "loop"
            \/ forwarder = "parked" /\ ~abortRequested

\* Mutant of IdleEnabled: the idle branch has no precondition.
IdleAlwaysEnabled == TRUE

\* The precondition of the idle branch.
IdleEnabled == sawPacket \/ browserStarted

\* No branch is ready: the precondition of the idle branch is evaluated and
\* the futures of the enabled branches are registered.
Park ==
    /\ forwarder = "loop"
    /\ socket = <<>>
    /\ ~socketError
    /\ ~notify.permit
    /\ forwarder' = "parked"
    /\ armed' = IdleEnabled
    /\ idle' = 0
    /\ notify' = Register(notify, "forwarder")
    /\ UNCHANGED <<startVars, signalled, sawPacket, browserStarted, inHand,
                   taken, delivered, socketVars, channelVars>>

\* Mutant of Receive: the ack is swallowed instead of rewritten.
ReceiveSwallowsAck ==
    /\ InSelect
    /\ socket # <<>>
    /\ socket' = Tail(socket)
    /\ notify' = DropWaiter(notify, "forwarder")
    /\ sawPacket' = (sawPacket \/ Head(socket).kind # "empty")
    /\ taken' = IF Head(socket).kind = "empty" THEN taken
                ELSE Append(taken, Head(socket))
    /\ IF Head(socket).kind \in {"empty", "ack"}
       THEN forwarder' = "loop" /\ UNCHANGED inHand
       ELSE forwarder' = "sending" /\ inHand' = <<Rewrite(Head(socket))>>
    /\ UNCHANGED <<startVars, signalled, browserStarted, armed, idle,
                   delivered, socketError, upstream, arrived, channelVars>>

\* recv() returns a datagram; the other branches' futures are dropped.
Receive ==
    /\ InSelect
    /\ socket # <<>>
    /\ socket' = Tail(socket)
    /\ notify' = DropWaiter(notify, "forwarder")
    /\ IF Head(socket).kind = "empty"
       THEN /\ forwarder' = "loop"
            /\ UNCHANGED <<sawPacket, inHand, taken>>
       ELSE /\ forwarder' = "sending"
            /\ sawPacket' = TRUE
            /\ inHand' = <<Rewrite(Head(socket))>>
            /\ taken' = Append(taken, Head(socket))
    /\ UNCHANGED <<startVars, signalled, browserStarted, armed, idle,
                   delivered, socketError, upstream, arrived, channelVars>>

\* write_channel.send() succeeds.
SendOk ==
    /\ forwarder = "sending"
    /\ write = "open" /\ link = "up"
    /\ forwarder' = "loop"
    /\ delivered' = delivered \o inHand
    /\ inHand' = <<>>
    /\ UNCHANGED <<startVars, notify, signalled, sawPacket, browserStarted,
                   armed, idle, taken, socketVars, channelVars>>

\* write_channel.send() fails: a plain break, without teardown().
SendError ==
    /\ forwarder = "sending"
    /\ write # "open" \/ link = "down"
    /\ forwarder' = "done"
    /\ inHand' = <<>>
    /\ UNCHANGED <<startVars, notify, signalled, sawPacket, browserStarted,
                   armed, idle, taken, delivered, socketVars, channelVars>>

\* recv() returns the pending ICMP error: teardown() begins.
ReceiveError ==
    /\ InSelect
    /\ socketError
    /\ socketError' = FALSE
    /\ notify' = DropWaiter(notify, "forwarder")
    /\ forwarder' = "close_write"
    /\ UNCHANGED <<startVars, signalled, browserStarted, relayVars, socket,
                   upstream, arrived, channelVars>>

\* Mutant of IdleFires: the timeout breaks out of the loop without teardown().
IdleBreaks ==
    /\ forwarder = "parked"
    /\ InSelect
    /\ armed
    /\ idle = IdleTimeout
    /\ notify' = DropWaiter(notify, "forwarder")
    /\ forwarder' = "done"
    /\ UNCHANGED <<startVars, signalled, browserStarted, relayVars,
                   socketVars, channelVars>>

\* The sleep of an enabled idle branch is over: teardown() begins.
IdleFires ==
    /\ forwarder = "parked"
    /\ InSelect
    /\ armed
    /\ idle = IdleTimeout
    /\ notify' = DropWaiter(notify, "forwarder")
    /\ forwarder' = "close_write"
    /\ UNCHANGED <<startVars, signalled, browserStarted, relayVars,
                   socketVars, channelVars>>

\* Mutant of ShutdownSeen: the loop continues.
ShutdownIgnored ==
    /\ InSelect
    /\ \/ /\ forwarder = "loop"
          /\ notify.permit
          /\ notify' = TakePermit(notify)
       \/ /\ forwarder = "parked"
          /\ "forwarder" \in notify.woken
          /\ notify' = Resume(notify, "forwarder")
    /\ forwarder' = "loop"
    /\ UNCHANGED <<startVars, signalled, browserStarted, relayVars,
                   socketVars, channelVars>>

\* shutdown.notified() returns in the forwarder: break.
ShutdownSeen ==
    /\ InSelect
    /\ \/ /\ forwarder = "loop"
          /\ notify.permit
          /\ notify' = TakePermit(notify)
       \/ /\ forwarder = "parked"
          /\ "forwarder" \in notify.woken
          /\ notify' = Resume(notify, "forwarder")
    /\ forwarder' = "done"
    /\ UNCHANGED <<startVars, signalled, browserStarted, relayVars,
                   socketVars, channelVars>>

\* Local close() of a channel: the reset handshake with the peer begins.
Closing(c) == IF c = "closed" THEN c ELSE "closing"

\* teardown(): close the write channel, then the read channel, then notify.
CloseWrite ==
    /\ forwarder = "close_write"
    /\ write' = Closing(write)
    /\ forwarder' = "close_read"
    /\ UNCHANGED <<startVars, notify, signalled, browserStarted, relayVars,
                   socketVars, read, link>>

CloseRead ==
    /\ forwarder = "close_read"
    /\ read' = Closing(read)
    /\ forwarder' = "signal"
    /\ UNCHANGED <<startVars, notify, signalled, browserStarted, relayVars,
                   socketVars, write, link>>

SignalShutdown ==
    /\ forwarder = "signal"
    /\ notify' = NotifyOne(notify)
    /\ signalled' = TRUE
    /\ forwarder' = "done"
    /\ UNCHANGED <<startVars, browserStarted, relayVars, socketVars,
                   channelVars>>

\* The aborted task is dropped at an await: in select!, in send(), or while
\* one of the two close() calls of teardown() is pending.
Cancelled ==
    /\ abortRequested
    /\ forwarder \in {"loop", "parked", "sending", "close_read", "signal"}
    /\ forwarder' = "done"
    /\ notify' = DropWaiter(notify, "forwarder")
    /\ inHand' = <<>>
    /\ UNCHANGED <<startVars, signalled, sawPacket, browserStarted, armed,
                   idle, taken, delivered, socketVars, channelVars>>

Teardown == CloseWrite \/ CloseRead \/ SignalShutdown

ForwarderStep == \/ Park \/ Receive \/ SendOk \/ SendError \/ ReceiveError
                 \/ IdleFires \/ ShutdownSeen \/ Teardown \/ Cancelled

\* The clock, as far as a parked forwarder with an enabled sleep sees it.
Tick ==
    /\ forwarder = "parked"
    /\ armed
    /\ idle < IdleTimeout
    /\ idle' = idle + 1
    /\ UNCHANGED <<startVars, forwarder, notify, signalled, sawPacket,
                   browserStarted, armed, inHand, taken, delivered,
                   socketVars, channelVars>>

-----------------------------------------------------------------------------
(* The callbacks of the read channel and Bridge::shutdown().               *)

\* on_message: the browser's packet is sent to the game server.  The send
\* may instead report (and clear) the pending socket error, which is only
\* logged, and towards a dead server it may leave such an error behind.
OnMessage ==
    /\ HasOnMessage
    /\ read \in {"open", "closing"} /\ link = "up"
    /\ browserStarted' = TRUE
    /\ IF socketError
       THEN /\ socketError' = FALSE
            /\ UNCHANGED upstream
       ELSE IF upstream = "dead"
       THEN /\ socketError' \in BOOLEAN
            /\ UNCHANGED upstream
       ELSE /\ upstream' = "live"
            /\ UNCHANGED socketError
    /\ UNCHANGED <<startVars, forwarder, notify, signalled, relayVars,
                   socket, arrived, channelVars>>

\* A channel is closed: the peer answered the reset or reset the stream
\* itself, or the association is gone.  on_close of the read channel runs if
\* it is installed by then.
WriteCloses ==
    /\ write # "closed"
    /\ write' = "closed"
    /\ UNCHANGED <<startVars, forwarder, notify, signalled, browserStarted,
                   relayVars, socketVars, read, link>>

ReadCloses ==
    /\ read # "closed"
    /\ read' = "closed"
    /\ IF HasOnClose
       THEN /\ notify' = NotifyOne(notify)
            /\ signalled' = TRUE
       ELSE UNCHANGED <<notify, signalled>>
    /\ UNCHANGED <<startVars, forwarder, browserStarted, relayVars,
                   socketVars, write, link>>

LinkLost ==
    /\ link = "up"
    /\ link' = "down"
    /\ UNCHANGED <<startVars, forwarder, notify, signalled, browserStarted,
                   relayVars, socketVars, write, read>>

\* Bridge::shutdown(), called once by whoever takes the bridge.
Shutdown ==
    /\ notify' = NotifyOne(notify)
    /\ signalled' = TRUE
    /\ UNCHANGED <<startVars, forwarder, browserStarted, relayVars,
                   socketVars, channelVars>>

-----------------------------------------------------------------------------
(* The game server and the network: datagrams may be lost (never arrive),  *)
(* and those that find the socket buffer full are dropped.                 *)

DatagramArrives ==
    /\ upstream = "live"
    /\ arrived < MaxDatagrams
    /\ arrived' = arrived + 1
    /\ \E k \in Kinds :
         socket' = IF Len(socket) < SocketBuffer
                   THEN Append(socket, [id |-> arrived + 1, kind |-> k])
                   ELSE socket
    /\ UNCHANGED <<startVars, forwarder, notify, signalled, browserStarted,
                   relayVars, socketError, upstream, channelVars>>

UpstreamDies ==
    /\ upstream # "dead"
    /\ upstream' = "dead"
    /\ UNCHANGED <<startVars, forwarder, notify, signalled, browserStarted,
                   relayVars, socket, socketError, arrived, channelVars>>

Upstream == DatagramArrives \/ UpstreamDies

-----------------------------------------------------------------------------
(* The bridge on its own: whoever owns it may call shutdown() once, and    *)
(* the library may close the channels or lose the association at any time. *)

Owner == ~signalled /\ Shutdown

Next == \/ Spawn \/ StartStep \/ ForwarderStep \/ Tick
        \/ OnMessage \/ WriteCloses \/ ReadCloses \/ LinkLost \/ Owner
        \/ Upstream

\* tokio polls a task that is ready, and time passes.  Nothing else is
\* promised: no datagram need arrive and no channel need close.
Fairness ==
    /\ WF_bridgeVars(Spawn)
    /\ WF_bridgeVars(StartStep)
    /\ WF_bridgeVars(ForwarderStep)
    /\ WF_bridgeVars(Tick)

Spec     == Init /\ [][Next]_bridgeVars
FairSpec == Spec /\ Fairness

-----------------------------------------------------------------------------
TypeOK ==
    /\ starter \in {"unborn", "begin", "on_message", "on_close", "await",
                    "waiting", "done"}
    /\ forwarder \in {"unborn", "loop", "parked", "sending", "close_write",
                      "close_read", "signal", "done"}
    /\ notify \in NotifyType(Tasks, Queues)
    /\ signalled \in BOOLEAN
    /\ abortRequested \in BOOLEAN
    /\ sawPacket \in BOOLEAN
    /\ browserStarted \in BOOLEAN
    /\ armed \in BOOLEAN
    /\ idle \in 0..IdleTimeout
    /\ inHand \in Hands
    /\ socket \in Seq(Datagrams)
    /\ socketError \in BOOLEAN
    /\ upstream \in {"unaware", "live", "dead"}
    /\ arrived \in 0..MaxDatagrams
    /\ taken \in Seq(Datagrams)
    /\ delivered \in Seq(Outgoing)
    /\ write \in ReadyStates
    /\ read \in ReadyStates
    /\ link \in {"new", "up", "down"}

-----------------------------------------------------------------------------
(* The parts of the inductive invariant.                                   *)

\* A task is registered with notify only while it is suspended there, and it
\* is not both queued and woken.
WaitersOK ==
    /\ starter # "waiting" \/ "starter" \in notify.woken
         => notify.queue \in {<<>>, <<"forwarder">>}
    /\ forwarder # "parked" \/ "forwarder" \in notify.woken
         => notify.queue \in {<<>>, <<"starter">>}
    /\ "starter" \in notify.woken => starter = "waiting"
    /\ "forwarder" \in notify.woken => forwarder = "parked"
    /\ starter \in {"unborn", "begin"} => forwarder = "unborn"

\* Whatever a teardown can start from goes back to a packet of the browser.
BrowserFirst ==
    \/ browserStarted
    \/ /\ ~sawPacket /\ ~armed /\ ~socketError
       /\ upstream # "live" /\ socket = <<>>
       /\ forwarder \notin {"close_write", "close_read"}

\* The datagram in hand is the last one read, and all before it were sent.
HandOK ==
    /\ forwarder \in {"unborn", "loop", "parked"} =>
         Len(delivered) = Len(taken) /\ inHand = <<>>
    /\ forwarder = "sending" =>
         /\ Len(taken) = Len(delivered) + 1
         /\ inHand = <<Rewrite(taken[Len(taken)])>>

BridgeInv == WaitersOK /\ BrowserFirst /\ HandOK

-----------------------------------------------------------------------------
(* What the shutdown signal promises. *)

\* The two tasks share one notification, and a select! that is left by
\* another branch drops its Notified future: a shutdown signal is never lost,
\* it is pending until one of the two tasks has ended because of it.
ShutdownNotLost ==
    signalled => \/ Pending(notify)
                 \/ starter = "done"
                 \/ forwarder = "done"

\* Whoever signals (Bridge::shutdown(), a closed read channel, teardown()),
\* and whichever task consumes the one permit, UDP -> WebRTC forwarding ends.
ShutdownEndsForwarding == signalled ~> forwarder = "done"

(* What the teardown promises. *)

\* "no timeout while the browser is still downloading valve.zip and has sent
\* nothing" (bridge.rs:97-98): the bridge closes no channel before the browser
\* has sent its first packet, whichever of its paths reaches teardown().
NoTeardownBeforeBrowser ==
    [][(write = "open" /\ write' = "closing") \/ (read = "open" /\ read' = "closing")
         => browserStarted]_bridgeVars

\* "a long silence means the upstream is dead" (bridge.rs:93-94): once the
\* upstream has answered, a stream that stops is noticed and the browser is
\* told by a closed channel, unless the bridge has been shut down.
StalledStreamNoticed ==
    sawPacket ~> (write # "open" \/ link = "down" \/ signalled)

\* "so the upstream idle timeout also fires for a bridge that never hears
\* back" (bridge.rs:65-66): a browser that has sent its first packet either
\* hears from the upstream or is told that it is gone.
SilentUpstreamTimesOut ==
    browserStarted ~> (sawPacket \/ write # "open" \/ link = "down" \/ signalled)

(* What the bridge is for. *)

\* The forwarder still relays: it has neither ended nor begun its teardown.
Relaying == forwarder \in {"unborn", "loop", "parked", "sending"}

R == INSTANCE Relay WITH Packets   <- Datagrams,
                         Translate <- Rewrite,
                         accepted  <- taken,
                         passed    <- delivered,
                         running   <- Relaying

\* The UDP -> WebRTC direction is the ordered, gap-free relay of Relay.tla,
\* which the delta-compressed stream of the HLTV needs: no datagram that was
\* read is skipped, doubled or overtaken, and none follows a lost one.
IsRelay == R!Spec
=============================================================================
