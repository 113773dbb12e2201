---------------------------- MODULE BridgeProofs ----------------------------
(***************************************************************************)
(* Theorems about Bridge, for every timeout, number of datagrams and size  *)
(* of the socket buffer.  The inductive invariant BridgeInd is built part  *)
(* by part: the Notify the two tasks share (NotifyOK), the types, what no  *)
(* teardown can precede (BrowserFirst), the datagram in hand (HandOK) and  *)
(* the shutdown signal.                                                    *)
(***************************************************************************)
EXTENDS Bridge, TLAPS, SequenceTheorems

\* Heads and tails of the queues two tasks can form.
LEMMA QueueTails ==
    /\ Tail(<<"starter">>) = <<>>
    /\ Tail(<<"forwarder">>) = <<>>
    /\ Tail(<<"starter", "forwarder">>) = <<"forwarder">>
    /\ Tail(<<"forwarder", "starter">>) = <<"starter">>
    /\ Head(<<"starter">>) = "starter"
    /\ Head(<<"forwarder">>) = "forwarder"
    /\ Head(<<"starter", "forwarder">>) = "starter"
    /\ Head(<<"forwarder", "starter">>) = "forwarder"
  BY SMT

\* The five queues are five.
LEMMA QueueDistinct ==
    /\ <<"starter">> # <<>> /\ <<"forwarder">> # <<>>
    /\ <<"starter", "forwarder">> # <<>> /\ <<"forwarder", "starter">> # <<>>
    /\ <<"starter">> # <<"forwarder">>
    /\ <<"starter", "forwarder">> # <<"starter">>
    /\ <<"starter", "forwarder">> # <<"forwarder">>
    /\ <<"forwarder", "starter">> # <<"starter">>
    /\ <<"forwarder", "starter">> # <<"forwarder">>
    /\ <<"starter", "forwarder">> # <<"forwarder", "starter">>
  BY SMT

\* A task that is not in the queue yet is appended to one of the five queues.
LEMMA QueueAppends ==
    /\ Append(<<>>, "starter") = <<"starter">>
    /\ Append(<<>>, "forwarder") = <<"forwarder">>
    /\ Append(<<"starter">>, "forwarder") = <<"starter", "forwarder">>
    /\ Append(<<"forwarder">>, "starter") = <<"forwarder", "starter">>
<1>1. \A w \in Tasks : Append(<<>>, w) = <<w>>
  <2> TAKE w \in Tasks
  <2>1. <<>> \in Seq(Tasks) /\ <<w>> \in Seq(Tasks)
    OBVIOUS
  <2>2. Append(<<>>, w) \in Seq(Tasks) /\ Len(Append(<<>>, w)) = 1 /\ Append(<<>>, w)[1] = w
    BY <2>1, AppendProperties
  <2> QED BY <2>1, <2>2, SeqEqual
<1>2. \A v, w \in Tasks : Append(<<v>>, w) = <<v, w>>
  <2> TAKE v, w \in Tasks
  <2>1. <<v>> \in Seq(Tasks) /\ <<v, w>> \in Seq(Tasks) /\ Len(<<v>>) = 1 /\ Len(<<v, w>>) = 2 /\ <<v,w>>[1] = v /\ <<v,w>>[2]= w /\ <<v>>[1] = v
    OBVIOUS
  <2>2. /\ Append(<<v>>, w) \in Seq(Tasks) /\ Len(Append(<<v>>, w)) = 2 
        /\ Append(<<v>>, w)[1] = v
        /\ Append(<<v>>, w)[2] = w
    BY <2>1, AppendProperties
  <2>3. \A i \in 1..2 : Append(<<v>>, w)[i] = <<v, w>>[i]
    <3> SUFFICES ASSUME NEW i \in 1..2 PROVE Append(<<v>>, w)[i] = <<v, w>>[i]
      OBVIOUS
    <3>1. i = 1 \/ i = 2
      OBVIOUS
    <3> QED BY <3>1, <2>1, <2>2
  <2> HIDE DEF Tasks
  <2> QED BY <2>1, <2>2, <2>3, SeqEqual
<1> QED BY <1>1, <1>2 DEF Tasks

\* Taking a task out of the queue leaves one of the five queues without it.
LEMMA QueueWithout ==
    /\ Without(<<>>, "forwarder") = <<>>
    /\ Without(<<"starter">>, "forwarder") = <<"starter">>
    /\ Without(<<"forwarder">>, "forwarder") = <<>>
    /\ Without(<<"starter", "forwarder">>, "forwarder") = <<"starter">>
    /\ Without(<<"forwarder", "starter">>, "forwarder") = <<"starter">>
  BY QueueTails DEF Without
-----------------------------------------------------------------------------
Note == NotifyType(Tasks, Queues)

\* What the three Notify operations the tasks share do to the queue.
LEMMA NotifyOneEffect ==
    ASSUME NEW n \in Note
    PROVE  /\ NotifyOne(n) \in Note
           /\ Pending(NotifyOne(n))
           /\ IF n.queue = <<>>
              THEN /\ NotifyOne(n).queue = <<>>
                   /\ NotifyOne(n).woken = n.woken
              ELSE /\ NotifyOne(n).queue = Tail(n.queue)
                   /\ NotifyOne(n).woken = n.woken \cup {Head(n.queue)}
  BY QueueTails DEF NotifyOne, Note, NotifyType, Queues, Tasks, Pending

\* A Notified future the forwarder drops passes a notification on, if it had one.
LEMMA DropForwarderEffect ==
    ASSUME NEW n \in Note,
           "forwarder" \in n.woken => n.queue \in {<<>>, <<"starter">>},
           "starter" \in n.woken => n.queue \in {<<>>, <<"forwarder">>}
    PROVE  /\ DropWaiter(n, "forwarder") \in Note
           /\ "forwarder" \notin DropWaiter(n, "forwarder").woken
           /\ DropWaiter(n, "forwarder").queue \in {<<>>, <<"starter">>}
           /\ "starter" \in DropWaiter(n, "forwarder").woken =>
                 /\ "starter" \in n.woken \/ n.queue = <<"starter">>
                 /\ DropWaiter(n, "forwarder").queue = <<>>
           /\ n.queue \in {<<>>, <<"forwarder">>} =>
                 DropWaiter(n, "forwarder").queue = <<>>
           /\ Pending(n) => Pending(DropWaiter(n, "forwarder"))
  BY QueueTails, QueueWithout
  DEF DropWaiter, NotifyOne, Resume, Note, NotifyType, Queues, Tasks, Pending

\* What polling a Notified future does: it joins the queue, takes the permit, or
\* ends the wait of a woken task.
LEMMA PollEffect ==
    ASSUME NEW n \in Note, NEW w \in Tasks
    PROVE  /\ Append(n.queue, w) \in Queues => Register(n, w) \in Note
           /\ Register(n, w).queue = Append(n.queue, w)
           /\ Register(n, w).woken = n.woken
           /\ Register(n, w).permit = n.permit
           /\ TakePermit(n) \in Note
           /\ TakePermit(n).queue = n.queue
           /\ TakePermit(n).woken = n.woken
           /\ Resume(n, w) \in Note
           /\ Resume(n, w).queue = n.queue
           /\ Resume(n, w).woken = n.woken \ {w}
  BY DEF Register, TakePermit, Resume, Note, NotifyType

\* Everything the bridge, its owner, its library and its upstream do.
BridgeAction == Next \/ Shutdown

-----------------------------------------------------------------------------
NotifyOK == notify \in Note /\ WaitersOK

\* notify_one() keeps what is known of the waiters.
LEMMA NotifyOneKeeps ==
    ASSUME NotifyOK, notify' = NotifyOne(notify),
           UNCHANGED starter,
           forwarder' = forwarder \/ (forwarder = "signal" /\ forwarder' = "done")
    PROVE  NotifyOK'
<1>1. notify' \in Note
  BY NotifyOneEffect DEF NotifyOK
<1>2. CASE notify.queue = <<>>
  <2>1. notify'.queue = <<>> /\ notify'.woken = notify.woken
    BY <1>2, NotifyOneEffect DEF NotifyOK
  <2> QED BY <1>1, <2>1 DEF NotifyOK, WaitersOK
<1>3. CASE notify.queue # <<>>
  <2>1. /\ notify'.queue = Tail(notify.queue)
        /\ notify'.woken = notify.woken \cup {Head(notify.queue)}
    BY <1>3, NotifyOneEffect DEF NotifyOK
  <2>2. notify.queue \in Queues
    BY DEF NotifyOK, Note, NotifyType
  <2>3. CASE notify.queue \in {<<"starter">>, <<"starter", "forwarder">>}
    BY <1>1, <2>1, <2>3, QueueTails, QueueDistinct DEF NotifyOK, WaitersOK
  <2>4. CASE notify.queue \in {<<"forwarder">>, <<"forwarder", "starter">>}
    BY <1>1, <2>1, <2>4, QueueTails, QueueDistinct DEF NotifyOK, WaitersOK
  <2> QED BY <1>3, <2>2, <2>3, <2>4 DEF Queues
<1> QED BY <1>2, <1>3

\* So does the select! loop that drops its future and leaves the wait.
LEMMA DropForwarderKeeps ==
    ASSUME NotifyOK, notify' = DropWaiter(notify, "forwarder"), UNCHANGED starter,
           forwarder # "unborn"
    PROVE  NotifyOK'
<1>1. notify' \in Note
  BY DropForwarderEffect DEF NotifyOK, WaitersOK
<1>2. /\ "forwarder" \notin notify'.woken
      /\ notify'.queue \in {<<>>, <<"starter">>}
      /\ "starter" \in notify'.woken =>
            /\ "starter" \in notify.woken \/ notify.queue = <<"starter">>
            /\ notify'.queue = <<>>
      /\ notify.queue \in {<<>>, <<"forwarder">>} => notify'.queue = <<>>
  BY DropForwarderEffect DEF NotifyOK, WaitersOK
<1>3. notify.queue = <<"starter">> => starter = "waiting"
  BY QueueDistinct DEF NotifyOK, WaitersOK
<1>4. starter \notin {"unborn", "begin"}
  BY DEF NotifyOK, WaitersOK
<1> QED BY <1>1, <1>2, <1>3, <1>4 DEF NotifyOK, WaitersOK

\* Every step of the bridge keeps the Notify consistent with where the tasks are.
LEMMA NotifyKept ==
    ASSUME NotifyOK, BridgeAction
    PROVE  NotifyOK'
<1>1. CASE Spawn \/ StartForwarder \/ SetOnMessage \/ SetOnClose
  BY <1>1 DEF Spawn, StartForwarder, SetOnMessage, SetOnClose, NotifyOK, WaitersOK
<1>2. CASE StartWaits
  <2>1. /\ notify.queue \in {<<>>, <<"forwarder">>}
        /\ "starter" \notin notify.woken
        /\ notify' = Register(notify, "starter")
        /\ starter' = "waiting" /\ forwarder' = forwarder
        /\ starter = "await"
    BY <1>2 DEF StartWaits, NotifyOK, WaitersOK
  <2>2. /\ notify' \in Note /\ notify'.woken = notify.woken
        /\ notify'.queue = Append(notify.queue, "starter")
    BY <2>1, PollEffect, QueueAppends DEF NotifyOK, Queues, Tasks
  <2>3. /\ notify.queue = <<>> => notify'.queue = <<"starter">>
        /\ notify.queue = <<"forwarder">> => notify'.queue = <<"forwarder", "starter">>
    BY <2>2, QueueAppends
  <2>4. forwarder # "parked" \/ "forwarder" \in notify.woken => notify.queue = <<>>
    BY <2>1, QueueDistinct DEF NotifyOK, WaitersOK
  <2> QED
    BY <2>1, <2>2, <2>3, <2>4 DEF NotifyOK, WaitersOK
<1>3. CASE StartReturns
  BY <1>3, PollEffect DEF StartReturns, NotifyOK, WaitersOK, Tasks
<1>4. CASE Park
  <2>1. /\ notify.queue \in {<<>>, <<"starter">>}
        /\ "forwarder" \notin notify.woken
        /\ notify' = Register(notify, "forwarder")
        /\ forwarder' = "parked" /\ starter' = starter
        /\ forwarder = "loop"
    BY <1>4 DEF Park, NotifyOK, WaitersOK, startVars
  <2>2. /\ notify' \in Note /\ notify'.woken = notify.woken
        /\ notify'.queue = Append(notify.queue, "forwarder")
    BY <2>1, PollEffect, QueueAppends DEF NotifyOK, Queues, Tasks
  <2>3. /\ notify.queue = <<>> => notify'.queue = <<"forwarder">>
        /\ notify.queue = <<"starter">> => notify'.queue = <<"starter", "forwarder">>
    BY <2>2, QueueAppends
  <2>4. starter # "waiting" \/ "starter" \in notify.woken => notify.queue = <<>>
    BY <2>1, QueueDistinct DEF NotifyOK, WaitersOK
  <2> QED
    BY <2>1, <2>2, <2>3, <2>4 DEF NotifyOK, WaitersOK
<1>5. CASE Receive \/ ReceiveError \/ IdleFires \/ Cancelled
  <2>1. /\ notify' = DropWaiter(notify, "forwarder") /\ starter' = starter
        /\ forwarder # "unborn"
    BY <1>5 DEF Receive, ReceiveError, IdleFires, Cancelled, InSelect, startVars
  <2> QED BY <2>1, DropForwarderKeeps
<1>6. CASE SendOk \/ SendError \/ CloseWrite \/ CloseRead \/ Tick
  BY <1>6 DEF SendOk, SendError, CloseWrite, CloseRead, Tick, startVars, NotifyOK, WaitersOK
<1>7. CASE ShutdownSeen
  BY <1>7, PollEffect DEF ShutdownSeen, InSelect, NotifyOK, WaitersOK, Tasks, startVars
<1>8. CASE SignalShutdown \/ Shutdown
  <2>1. /\ notify' = NotifyOne(notify) /\ starter' = starter
        /\ forwarder' = forwarder \/ (forwarder = "signal" /\ forwarder' = "done")
    BY <1>8 DEF SignalShutdown, Shutdown, startVars
  <2> QED BY <2>1, NotifyOneKeeps
<1>9. CASE ReadCloses
  <2>1. starter' = starter /\ forwarder' = forwarder
        /\ (notify' = NotifyOne(notify) \/ notify' = notify)
    BY <1>9 DEF ReadCloses, startVars
  <2>2. CASE notify' = NotifyOne(notify)
    BY <2>1, <2>2, NotifyOneKeeps
  <2>3. CASE notify' = notify
    BY <2>1, <2>3 DEF NotifyOK, WaitersOK
  <2> QED BY <2>1, <2>2, <2>3
<1>10. CASE OnMessage \/ WriteCloses \/ LinkLost \/ Upstream
  BY <1>10 DEF OnMessage, WriteCloses, LinkLost, Upstream, DatagramArrives, UpstreamDies, startVars, NotifyOK, WaitersOK
<1> QED
  BY <1>1, <1>2, <1>3, <1>4, <1>5, <1>6, <1>7, <1>8, <1>9, <1>10
  DEF BridgeAction, Next, StartStep, ForwarderStep, Teardown, Owner

-----------------------------------------------------------------------------
\* Rewrite makes an outgoing packet of every datagram that is not empty.
LEMMA RewriteType ==
    ASSUME NEW d \in Datagrams, d.kind # "empty"
    PROVE  Rewrite(d) \in Outgoing
<1>1. d.id \in 1..MaxDatagrams /\ d.kind \in {"ack", "game"}
  BY DEF Datagrams, Kinds
<1>2. CASE d.kind = "ack"
  <2>1. Rewrite(d) = [d EXCEPT !.kind = "reply"]
    BY <1>2 DEF Rewrite
  <2>2. d \in [id : 1..MaxDatagrams, kind : Kinds]
    BY DEF Datagrams
  <2> QED BY <1>1, <2>1, <2>2 DEF Outgoing
<1>3. CASE d.kind = "game"
  <2>1. Rewrite(d) = d
    BY <1>3 DEF Rewrite
  <2>2. d \in [id : 1..MaxDatagrams, kind : Kinds]
    BY DEF Datagrams
  <2> QED BY <1>3, <2>1, <2>2 DEF Outgoing
<1> QED BY <1>1, <1>2, <1>3

\* The hand holds nothing or one outgoing datagram.
LEMMA HandType ==
    /\ <<>> \in Hands
    /\ \A d \in Outgoing : <<d>> \in Hands
    /\ Hands \subseteq Seq(Outgoing)
<1>1. <<>> \in Seq(Outgoing) /\ \A d \in Outgoing : <<d>> \in Seq(Outgoing)
  OBVIOUS
<1> QED BY <1>1 DEF Hands

\* The types hold before any task of the bridge has run.
LEMMA TypeInit == Fresh => /\ notify \in Note
                           /\ socket \in Seq(Datagrams)
                           /\ taken \in Seq(Datagrams)
                           /\ delivered \in Seq(Outgoing)
  BY DEF Fresh, NotifyNew, Note, NotifyType, Queues, Tasks

\* Every step of the bridge keeps the types.
LEMMA TypeKept ==
    ASSUME TypeOK, NotifyOK, BridgeAction
    PROVE  TypeOK'
<1> USE BridgeAssumption DEF TypeOK
<1>0. notify' \in NotifyType(Tasks, Queues)
  BY NotifyKept DEF NotifyOK, Note
<1>1. CASE Spawn \/ StartStep
  <2>1. CASE Spawn \/ StartForwarder \/ SetOnMessage \/ SetOnClose
    BY <1>0, <2>1 DEF Spawn, StartForwarder, SetOnMessage, SetOnClose,
                      relayVars, socketVars, channelVars
  <2>2. CASE StartWaits
    BY <1>0, <2>2 DEF StartWaits, relayVars, socketVars, channelVars
  <2>3. CASE StartReturns
    BY <1>0, <2>3 DEF StartReturns, relayVars, socketVars, channelVars
  <2> QED BY <1>1, <2>1, <2>2, <2>3 DEF StartStep
<1>2. CASE Park
  BY <1>0, HandType, <1>2 DEF Park, IdleEnabled, startVars, socketVars, channelVars
<1>3. CASE Receive
  <2>1. Head(socket) \in Datagrams /\ Tail(socket) \in Seq(Datagrams)
    BY <1>3, HeadTailProperties DEF Receive
  <2>2. CASE Head(socket).kind = "empty"
    BY <1>0, HandType, <1>3, <2>1, <2>2 DEF Receive, startVars, channelVars
  <2>3. CASE Head(socket).kind # "empty"
    <3>1. Rewrite(Head(socket)) \in Outgoing
      BY <2>1, <2>3, RewriteType
    <3>2. Append(taken, Head(socket)) \in Seq(Datagrams)
      BY <2>1, AppendProperties
    <3> QED BY <1>0, HandType, <1>3, <2>1, <2>3, <3>1, <3>2 DEF Receive, startVars, channelVars
  <2> QED BY <2>2, <2>3
<1>4. CASE SendOk
  <2>1. inHand \in Seq(Outgoing)
    BY HandType
  <2>2. delivered \o inHand \in Seq(Outgoing)
    BY <2>1, ConcatProperties
  <2> QED BY <1>0, HandType, <1>4, <2>2 DEF SendOk, startVars, socketVars, channelVars
<1>5. CASE SendError \/ ReceiveError \/ IdleFires \/ ShutdownSeen \/ Cancelled
  <2>1. CASE SendError
    BY <1>0, <2>1, HandType DEF SendError, startVars, socketVars, channelVars
  <2>2. CASE ReceiveError
    BY <1>0, <2>2 DEF ReceiveError, startVars, relayVars, channelVars
  <2>3. CASE IdleFires
    BY <1>0, <2>3 DEF IdleFires, startVars, relayVars, socketVars, channelVars
  <2>4. CASE ShutdownSeen
    BY <1>0, <2>4 DEF ShutdownSeen, startVars, relayVars, socketVars, channelVars
  <2>5. CASE Cancelled
    BY <1>0, <2>5, HandType DEF Cancelled, startVars, socketVars, channelVars
  <2> QED BY <1>5, <2>1, <2>2, <2>3, <2>4, <2>5
<1>6. CASE Teardown
  <2>1. CASE CloseWrite
    BY <1>0, <2>1 DEF CloseWrite, Closing, ReadyStates, startVars, relayVars, socketVars
  <2>2. CASE CloseRead
    BY <1>0, <2>2 DEF CloseRead, Closing, ReadyStates, startVars, relayVars, socketVars
  <2>3. CASE SignalShutdown
    BY <1>0, <2>3 DEF SignalShutdown, startVars, relayVars, socketVars, channelVars
  <2> QED BY <1>6, <2>1, <2>2, <2>3 DEF Teardown
<1>7. CASE Tick
  BY <1>0, HandType, <1>7 DEF Tick, startVars, socketVars, channelVars
<1>8. CASE OnMessage \/ WriteCloses \/ LinkLost \/ Shutdown
  <2>1. CASE OnMessage
    <3>1. socketError' \in BOOLEAN /\ upstream' \in {"unaware", "live", "dead"}
      BY <2>1 DEF OnMessage
    <3> QED BY <1>0, <2>1, <3>1 DEF OnMessage, startVars, relayVars, channelVars
  <2>2. CASE WriteCloses
    BY <1>0, <2>2 DEF WriteCloses, ReadyStates, startVars, relayVars, socketVars
  <2>3. CASE LinkLost
    BY <1>0, <2>3 DEF LinkLost, startVars, relayVars, socketVars
  <2>4. CASE Shutdown
    BY <1>0, <2>4 DEF Shutdown, startVars, relayVars, socketVars, channelVars
  <2> QED BY <1>8, <2>1, <2>2, <2>3, <2>4
<1>9. CASE ReadCloses
  <2>1. signalled' \in BOOLEAN
    BY <1>9 DEF ReadCloses
  <2>2. read' \in ReadyStates
    BY <1>9 DEF ReadCloses, ReadyStates
  <2>3. UNCHANGED <<starter, abortRequested, forwarder, browserStarted, write, link>>
    BY <1>9 DEF ReadCloses, startVars
  <2>4. UNCHANGED <<socket, socketError, upstream, arrived>>
    BY <1>9 DEF ReadCloses, socketVars
  <2>5. UNCHANGED <<sawPacket, armed, idle, inHand, taken, delivered>>
    BY <1>9 DEF ReadCloses, relayVars
  <2> QED BY <1>0, <2>1, <2>2, <2>3, <2>4, <2>5
<1>10. CASE DatagramArrives
  <2>1. \A k \in Kinds : [id |-> arrived + 1, kind |-> k] \in Datagrams
    BY <1>10 DEF DatagramArrives, Datagrams
  <2>2. socket' \in Seq(Datagrams)
    BY <1>10, <2>1, AppendProperties DEF DatagramArrives
  <2>3. arrived' \in 0..MaxDatagrams
    BY <1>10 DEF DatagramArrives
  <2> QED BY <1>0, HandType, <1>10, <2>2, <2>3 DEF DatagramArrives, startVars, relayVars, channelVars
<1>11. CASE UpstreamDies
  BY <1>0, HandType, <1>11 DEF UpstreamDies, startVars, relayVars, channelVars
<1> QED
  BY <1>1, <1>2, <1>3, <1>4, <1>5, <1>6, <1>7, <1>8, <1>9, <1>10, <1>11
  DEF BridgeAction, Next, ForwarderStep, Upstream, Owner

-----------------------------------------------------------------------------
\* No step opens a way to teardown() before the browser's first packet.
LEMMA BrowserFirstKept ==
    ASSUME TypeOK, BrowserFirst, BridgeAction
    PROVE  BrowserFirst'
<1>1. CASE browserStarted
  <2>1. browserStarted'
    BY <1>1 DEF BridgeAction, Next, Spawn, StartStep, StartForwarder, SetOnMessage, SetOnClose,
       StartWaits, StartReturns, ForwarderStep, Park, Receive, SendOk, SendError, ReceiveError,
       IdleFires, ShutdownSeen, Teardown, CloseWrite, CloseRead, SignalShutdown, Cancelled, Tick,
       OnMessage, WriteCloses, ReadCloses, LinkLost, Owner, Shutdown, Upstream,
       DatagramArrives, UpstreamDies
  <2> QED BY <2>1 DEF BrowserFirst
<1>2. CASE ~browserStarted
  <2>1. /\ ~sawPacket /\ ~armed /\ ~socketError
        /\ upstream # "live" /\ socket = <<>>
        /\ forwarder \notin {"close_write", "close_read"}
    BY <1>2 DEF BrowserFirst
  <2>2. CASE Spawn \/ StartStep
    BY <2>1, <2>2 DEF BrowserFirst, Spawn, StartStep, StartForwarder, SetOnMessage, SetOnClose,
       StartWaits, StartReturns, relayVars, socketVars
  <2>3. CASE Park \/ SendOk \/ SendError \/ ShutdownSeen \/ Cancelled
    BY <1>2, <2>1, <2>3 DEF BrowserFirst, Park, IdleEnabled, SendOk, SendError, ShutdownSeen,
       Cancelled, relayVars, socketVars
  <2>4. CASE Receive \/ ReceiveError \/ IdleFires
    BY <2>1, <2>4 DEF Receive, ReceiveError, IdleFires
  <2>5. CASE Teardown \/ Tick
    BY <2>1, <2>5 DEF BrowserFirst, Teardown, CloseWrite, CloseRead, SignalShutdown, Tick,
       relayVars, socketVars
  <2>6. CASE OnMessage
    BY <2>6 DEF BrowserFirst, OnMessage
  <2>7. CASE WriteCloses \/ ReadCloses \/ LinkLost \/ Shutdown
    BY <2>1, <2>7 DEF BrowserFirst, WriteCloses, ReadCloses, LinkLost, Shutdown, relayVars,
       socketVars
  <2>8. CASE Upstream
    BY <2>1, <2>8 DEF BrowserFirst, Upstream, DatagramArrives, UpstreamDies, relayVars
  <2> QED
    BY <2>2, <2>3, <2>4, <2>5, <2>6, <2>7, <2>8 DEF BridgeAction, Next, ForwarderStep, Owner
<1> QED BY <1>1, <1>2 DEF TypeOK

\* The datagram in hand stays the last one read.
LEMMA HandKept ==
    ASSUME TypeOK, NotifyOK, HandOK, BridgeAction
    PROVE  HandOK'
<1>1. CASE Spawn \/ SetOnMessage \/ SetOnClose \/ StartWaits \/ StartReturns
  BY <1>1 DEF HandOK, Spawn, SetOnMessage, SetOnClose, StartWaits, StartReturns, relayVars
<1>2. CASE StartForwarder
  <2>1. forwarder = "unborn"
    BY <1>2 DEF StartForwarder, NotifyOK, WaitersOK
  <2> QED BY <1>2, <2>1 DEF HandOK, StartForwarder, relayVars
<1>3. CASE Park
  BY <1>3 DEF HandOK, Park
<1>4. CASE Receive
  <2>1. Len(delivered) = Len(taken) /\ inHand = <<>> /\ delivered' = delivered
    BY <1>4 DEF Receive, InSelect, HandOK
  <2>2. CASE Head(socket).kind = "empty"
    BY <1>4, <2>1, <2>2 DEF Receive, HandOK
  <2>3. CASE Head(socket).kind # "empty"
    <3>1. Head(socket) \in Datagrams
      BY <1>4, HeadTailProperties DEF Receive, TypeOK
    <3>2. /\ Len(taken') = Len(taken) + 1
          /\ taken'[Len(taken) + 1] = Head(socket)
      BY <1>4, <2>3, <3>1, AppendProperties DEF Receive, TypeOK
    <3>3. forwarder' = "sending" /\ inHand' = <<Rewrite(Head(socket))>>
      BY <1>4, <2>3 DEF Receive
    <3> QED BY <2>1, <3>2, <3>3 DEF HandOK
  <2> QED BY <2>2, <2>3
<1>5. CASE SendOk
  <2>1. /\ Len(taken) = Len(delivered) + 1
        /\ inHand = <<Rewrite(taken[Len(taken)])>>
    BY <1>5 DEF SendOk, HandOK
  <2>2. Len(delivered \o inHand) = Len(delivered) + 1
    BY <2>1, HandType, ConcatProperties DEF TypeOK
  <2> QED BY <1>5, <2>1, <2>2 DEF SendOk, HandOK
<1>6. CASE SendError \/ ReceiveError \/ IdleFires \/ ShutdownSeen \/ Teardown \/ Cancelled
  BY <1>6 DEF HandOK, SendError, ReceiveError, IdleFires, ShutdownSeen, Teardown, CloseWrite,
              CloseRead, SignalShutdown, Cancelled
<1>7. CASE Tick
  BY <1>7 DEF HandOK, Tick
<1>8. CASE OnMessage \/ WriteCloses \/ ReadCloses \/ LinkLost \/ Shutdown \/ Upstream
  BY <1>8 DEF HandOK, OnMessage, WriteCloses, ReadCloses, LinkLost, Shutdown, Upstream,
              DatagramArrives, UpstreamDies, relayVars
<1> QED
  BY <1>1, <1>2, <1>3, <1>4, <1>5, <1>6, <1>7, <1>8
  DEF BridgeAction, Next, StartStep, ForwarderStep, Owner

\* No step loses the shutdown signal.
LEMMA SignalKept ==
    ASSUME NotifyOK, ShutdownNotLost, BridgeAction
    PROVE  ShutdownNotLost'
<1>1. CASE notify' = NotifyOne(notify)
  BY <1>1, NotifyOneEffect DEF NotifyOK, ShutdownNotLost
<1>2. CASE /\ UNCHANGED <<notify, signalled>>
           /\ starter = "done" => starter' = "done"
           /\ forwarder = "done" => forwarder' = "done"
  BY <1>2 DEF ShutdownNotLost, Pending
<1>3. CASE StartWaits \/ Park
  BY <1>3, PollEffect DEF StartWaits, Park, startVars, NotifyOK, ShutdownNotLost, Pending, Tasks
<1>4. CASE StartReturns
  BY <1>4 DEF StartReturns, ShutdownNotLost
<1>5. CASE ShutdownSeen \/ Cancelled
  BY <1>5 DEF ShutdownSeen, Cancelled, ShutdownNotLost
<1>6. CASE Receive \/ ReceiveError \/ IdleFires
  <2>1. /\ notify' = DropWaiter(notify, "forwarder") /\ signalled' = signalled
        /\ starter' = starter /\ forwarder # "done"
    BY <1>6 DEF Receive, ReceiveError, IdleFires, InSelect, startVars
  <2>2. Pending(notify) => Pending(notify')
    BY <2>1, DropForwarderEffect DEF NotifyOK, WaitersOK
  <2> QED BY <2>1, <2>2 DEF ShutdownNotLost
<1>7. CASE Spawn \/ StartForwarder \/ SetOnMessage \/ SetOnClose
  <2>1. forwarder # "done" \/ forwarder' = forwarder
    BY <1>7 DEF Spawn, StartForwarder, SetOnMessage, SetOnClose, NotifyOK, WaitersOK
  <2> QED
    BY <1>2, <1>7, <2>1 DEF Spawn, StartForwarder, SetOnMessage, SetOnClose
<1>8. CASE SendOk \/ SendError \/ CloseWrite \/ CloseRead \/ Tick
  BY <1>2, <1>8 DEF SendOk, SendError, CloseWrite, CloseRead, Tick, startVars
<1>9. CASE SignalShutdown \/ Shutdown
  BY <1>1, <1>9 DEF SignalShutdown, Shutdown
<1>10. CASE OnMessage \/ WriteCloses \/ ReadCloses \/ LinkLost \/ Upstream
  BY <1>1, <1>2, <1>10 DEF OnMessage, WriteCloses, ReadCloses, LinkLost, Upstream,
     DatagramArrives, UpstreamDies, startVars
<1> QED
  BY <1>3, <1>4, <1>5, <1>6, <1>7, <1>8, <1>9, <1>10
  DEF BridgeAction, Next, StartStep, ForwarderStep, Teardown, Owner

-----------------------------------------------------------------------------
(* The theorems.                                                           *)

\* The invariants hold before any task of the bridge has run.
LEMMA FreshInvariants == Fresh => /\ NotifyOK /\ BrowserFirst /\ HandOK
                                  /\ ShutdownNotLost
  BY TypeInit DEF Fresh, NotifyNew, NotifyOK, WaitersOK, BrowserFirst, HandOK,
     ShutdownNotLost

\* So does the type invariant, whatever state the channels are in.
LEMMA FreshType ==
    ASSUME Fresh, write \in ReadyStates, read \in ReadyStates, link \in {"new", "up", "down"}
    PROVE  TypeOK
<1>1. /\ notify \in NotifyType(Tasks, Queues) /\ socket \in Seq(Datagrams)
      /\ taken \in Seq(Datagrams) /\ delivered \in Seq(Outgoing)
  BY TypeInit DEF Note
<1>2. inHand \in Hands
  BY HandType DEF Fresh
<1>3. idle \in 0..IdleTimeout /\ arrived \in 0..MaxDatagrams
  BY BridgeAssumption DEF Fresh
<1>4. /\ signalled \in BOOLEAN /\ abortRequested \in BOOLEAN /\ sawPacket \in BOOLEAN
      /\ browserStarted \in BOOLEAN /\ armed \in BOOLEAN /\ socketError \in BOOLEAN
  BY DEF Fresh
<1>5. starter = "unborn" /\ forwarder = "unborn" /\ upstream = "unaware"
  BY DEF Fresh
<1> QED BY <1>1, <1>2, <1>3, <1>4, <1>5 DEF TypeOK

\* The type invariant holds in the initial states.
LEMMA InitType == Init => TypeOK
  BY FreshType DEF Init, ReadyStates

BridgeInd == TypeOK /\ NotifyOK /\ BrowserFirst /\ HandOK /\ ShutdownNotLost

\* The conjunction of all of them is an invariant.
LEMMA Inductive == Spec => []BridgeInd
<1>1. Init => BridgeInd
  BY InitType, FreshInvariants DEF Init, BridgeInd
<1>2. BridgeInd /\ [Next]_bridgeVars => BridgeInd'
  <2> SUFFICES ASSUME BridgeInd, [Next]_bridgeVars PROVE BridgeInd'
    OBVIOUS
  <2>1. CASE Next
    BY <2>1, TypeKept, NotifyKept, BrowserFirstKept, HandKept, SignalKept
    DEF BridgeInd, BridgeAction
  <2>2. CASE UNCHANGED bridgeVars
    BY <2>2 DEF bridgeVars, BridgeInd, TypeOK, NotifyOK, WaitersOK, BrowserFirst,
       HandOK, ShutdownNotLost, Pending
  <2> QED BY <2>1, <2>2
<1> QED BY <1>1, <1>2, PTL DEF Spec

\* The type invariant of the bridge holds for every timeout, every number of
\* datagrams and every size of the socket buffer.
THEOREM TypeCorrect == Spec => []TypeOK
<1>1. BridgeInd => TypeOK
  BY DEF BridgeInd
<1> QED BY <1>1, Inductive, PTL

\* The shutdown signal (bridge.rs:26) is not lost between its two waiters.
THEOREM ShutdownSignalKept == Spec => []ShutdownNotLost
<1>1. BridgeInd => ShutdownNotLost
  BY DEF BridgeInd
<1> QED BY <1>1, Inductive, PTL

\* No channel is closed by the bridge before the browser's first packet
\* (bridge.rs:97-98).
THEOREM QuietBrowserKept == Spec => NoTeardownBeforeBrowser
<1> DEFINE Step == (write = "open" /\ write' = "closing")
                      \/ (read = "open" /\ read' = "closing") => browserStarted
<1>1. BridgeInd /\ [Next]_bridgeVars => [Step]_bridgeVars
  <2> SUFFICES ASSUME BridgeInd, Next, ~browserStarted PROVE Step
    OBVIOUS
  <2>1. ~CloseWrite /\ ~CloseRead
    BY DEF BridgeInd, BrowserFirst, CloseWrite, CloseRead
  <2>2. write' = "closing" => write = "closing"
    BY <2>1 DEF Next, Spawn, StartStep, StartForwarder, SetOnMessage, SetOnClose,
       StartWaits, StartReturns, ForwarderStep, Park, Receive, SendOk, SendError, ReceiveError,
       IdleFires, ShutdownSeen, Teardown, SignalShutdown, Cancelled, Tick,
       OnMessage, WriteCloses, ReadCloses, LinkLost, Owner, Shutdown, Upstream,
       DatagramArrives, UpstreamDies, channelVars
  <2>3. read' = "closing" => read = "closing"
    BY <2>1 DEF Next, Spawn, StartStep, StartForwarder, SetOnMessage, SetOnClose,
       StartWaits, StartReturns, ForwarderStep, Park, Receive, SendOk, SendError, ReceiveError,
       IdleFires, ShutdownSeen, Teardown, SignalShutdown, Cancelled, Tick,
       OnMessage, WriteCloses, ReadCloses, LinkLost, Owner, Shutdown, Upstream,
       DatagramArrives, UpstreamDies, channelVars
  <2> QED BY <2>2, <2>3
<1>2. Spec => [][Next]_bridgeVars
  BY PTL DEF Spec
<1> QED BY <1>1, <1>2, Inductive, PTL DEF NoTeardownBeforeBrowser

\* The bridge implements the ordered relay of Relay.tla.
THEOREM BridgeIsRelay == Spec => IsRelay
<1>1. Init => R!Init
  BY DEF Init, Fresh, R!Init, Relaying
<1>2. BridgeInd /\ [Next]_bridgeVars => [R!Next]_(R!relayState)
  <2> SUFFICES ASSUME BridgeInd, [Next]_bridgeVars PROVE [R!Next]_(R!relayState)
    OBVIOUS
  <2> USE DEF R!relayState
  <2>1. CASE Receive
    <3>1. Len(delivered) = Len(taken) /\ Relaying /\ delivered' = delivered
      BY <2>1 DEF Receive, InSelect, BridgeInd, HandOK, Relaying
    <3>2. CASE Head(socket).kind = "empty"
      BY <2>1, <3>1, <3>2 DEF Receive, Relaying
    <3>3. CASE Head(socket).kind # "empty"
      <4>1. Head(socket) \in Datagrams
        BY <2>1, HeadTailProperties DEF Receive, BridgeInd, TypeOK
      <4>2. taken' = Append(taken, Head(socket)) /\ Relaying'
        BY <2>1, <3>3 DEF Receive, Relaying
      <4> QED BY <3>1, <4>1, <4>2 DEF R!Next, R!Accept
    <3> QED BY <3>2, <3>3
  <2>2. CASE SendOk
    <3>1. /\ Len(taken) = Len(delivered) + 1 /\ Relaying /\ Relaying'
          /\ inHand = <<Rewrite(taken[Len(taken)])>> /\ taken' = taken
      BY <2>2 DEF SendOk, BridgeInd, HandOK, Relaying
    <3>2. Len(delivered) \in Nat
      BY LenProperties DEF BridgeInd, TypeOK
    <3>3. Rewrite(taken[Len(taken)]) \in Outgoing
      BY <3>1, HandType DEF BridgeInd, TypeOK, Hands
    <3>4. delivered' = Append(delivered, Rewrite(taken[Len(delivered) + 1]))
      BY <2>2, <3>1, <3>3, AppendIsConcat DEF SendOk, BridgeInd, TypeOK
    <3> QED BY <3>1, <3>2, <3>4 DEF R!Next, R!Pass
  <2>3. CASE SendError \/ ReceiveError \/ IdleFires \/ ShutdownSeen \/ Cancelled
    <3>1. UNCHANGED <<taken, delivered>> /\ ~Relaying'
      BY <2>3 DEF SendError, ReceiveError, IdleFires, ShutdownSeen, Cancelled, relayVars, Relaying
    <3> QED BY <3>1 DEF R!Next, R!Stop, Relaying
  <2>5. CASE Spawn \/ StartStep
    <3>1. StartForwarder => forwarder = "unborn"
      BY DEF StartForwarder, BridgeInd, NotifyOK, WaitersOK
    <3>2. UNCHANGED <<taken, delivered, Relaying>>
      BY <2>5, <3>1 DEF Spawn, StartStep, StartForwarder, SetOnMessage, SetOnClose, StartWaits,
         StartReturns, relayVars, Relaying
    <3> QED BY <3>2
  <2>6. CASE Park \/ Teardown \/ Tick
    <3>1. UNCHANGED <<taken, delivered, Relaying>>
      BY <2>6 DEF Park, Teardown, CloseWrite, CloseRead, SignalShutdown, Tick, relayVars, Relaying
    <3> QED BY <3>1
  <2>7. CASE OnMessage \/ WriteCloses \/ ReadCloses \/ LinkLost \/ Owner \/ Upstream
    <3>1. UNCHANGED <<taken, delivered, Relaying>>
      BY <2>7 DEF OnMessage, WriteCloses, ReadCloses, LinkLost, Owner, Shutdown, Upstream,
         DatagramArrives, UpstreamDies, relayVars, Relaying
    <3> QED BY <3>1
  <2>8. CASE UNCHANGED bridgeVars
    BY <2>8 DEF bridgeVars, Relaying
  <2> QED
    BY <2>1, <2>2, <2>3, <2>5, <2>6, <2>7, <2>8 DEF Next, ForwarderStep
<1>3. Spec => Init /\ [][Next]_bridgeVars
  BY DEF Spec
<1> QED BY <1>1, <1>2, <1>3, Inductive, PTL DEF IsRelay, R!Spec

=============================================================================
