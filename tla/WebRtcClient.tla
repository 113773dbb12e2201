---------------------------- MODULE WebRtcClient ----------------------------
(***************************************************************************)
(* The transport of the spectator page (client/src/webrtc.ts): a signaling *)
(* WebSocket, an RTCPeerConnection and its two data channels, rebuilt by   *)
(* connectWs() when something fails.  The code is single threaded; its     *)
(* event handlers and the parts of handleDescription() between two awaits  *)
(* are the steps.                                                          *)
(*                                                                         *)
(* A session is one WebSocket with the peer connection created when it     *)
(* opens.  Sessions are slots: connectWs() takes the next one, which must  *)
(* be free, so that a slot stands for unboundedly many sessions.  Peer     *)
(* connections that are replaced are not closed by the page; their events  *)
(* keep coming.  The browser and the proxy are external.  Delays are left  *)
(* out: a timer may fire at any time after it is set.                      *)
(***************************************************************************)
EXTENDS Naturals, Sequences, FiniteSets

CONSTANTS Slots,      \* bound: sessions that can be alive at a time
          MaxFaults   \* bound: losses of a WebSocket, a peer, the upstream,
                      \* and calls of forceReconnect()

ASSUME ClientAssumption == Slots \in Nat \ {0} /\ MaxFaults \in Nat

Sessions == 0 .. Slots - 1
None     == Slots
Channels == {"write", "read"}

VARIABLES
    ws,            \* per session, the WebSocket's readyState
    current,       \* the session of this.ws
    peer,          \* the session of this.peer, or None
    channel,       \* the session over whose open read channel sendto() sends
    timer,         \* reconnectTimer is set
    keepalive,     \* keepaliveTimer is set
    wasConnected,  \* connect() has resolved
    remoteDescription, \* the session whose offer this.remoteDescription is
    candidates,    \* this.candidates, as the sessions they are from
    wasRemote,
    tasks,         \* calls of handleDescription() that are at an await
    signaling,     \* per peer: "new", "offered" or "stable"
    remote,        \* per peer, the session whose offer was applied, or None
    given,         \* sessions whose peer was given the session's candidate
    count,         \* per peer, channelsCount
    chan,          \* per session and channel: "none", "open" or "closed"
    inbox,         \* per session, messages of the proxy under way
    answer,        \* per session, the peer whose answer the proxy got, or None
    link,          \* per session: "new", "up", "torn", "down" or "failed"
    gone,          \* the sessions the proxy has ended
    faults

socketVars == <<ws, current, keepalive>>
stateVars  == <<peer, channel, wasConnected, count, chan>>
offerVars  == <<remoteDescription, candidates, wasRemote, tasks, signaling,
                remote, given>>
proxyVars  == <<inbox, answer, link, gone>>
vars == <<socketVars, stateVars, offerVars, timer, proxyVars, faults>>

\* A call of handleDescription(): the session it was made for, by its offer
\* or by onopen, the await it is at, and the peer and answer it waits for.
Tasks == [of : Sessions, via : {"offer", "open"},
          at : {"remote", "answer", "local"}, on : Sessions]

Fault == faults < MaxFaults /\ faults' = faults + 1

Init ==
    /\ ws = [s \in Sessions |-> IF s = 0 THEN "connecting" ELSE "none"]
    /\ current = 0
    /\ peer = None
    /\ channel = None
    /\ timer = FALSE
    /\ keepalive = FALSE
    /\ wasConnected = FALSE
    /\ remoteDescription = None
    /\ candidates = {}
    /\ wasRemote = FALSE
    /\ tasks = {}
    /\ signaling = [s \in Sessions |-> "new"]
    /\ remote = [s \in Sessions |-> None]
    /\ given = {}
    /\ count = [s \in Sessions |-> 0]
    /\ chan = [s \in Sessions |-> [c \in Channels |-> "none"]]
    /\ inbox = [s \in Sessions |-> <<>>]
    /\ answer = [s \in Sessions |-> None]
    /\ link = [s \in Sessions |-> "new"]
    /\ gone = {}
    /\ faults = 0

-----------------------------------------------------------------------------
(* connectWs(), from the reconnect timer or from forceReconnect().         *)

\* Nothing can come of session s any more.
Free(s) ==
    /\ s # current /\ s # peer /\ s # remoteDescription /\ s \notin candidates
    /\ \A t \in tasks : t.of # s /\ t.on # s
    /\ ws[s] \in {"none", "closed"} /\ (ws[s] = "closed" => s \in gone)
    /\ \A c \in Channels : chan[s][c] # "open"

\* The replaced socket loses its handlers and is closed; its messages are
\* not delivered while it closes.
ConnectWs ==
    LET n == (current + 1) % Slots IN
    /\ Free(n)
    /\ timer' = FALSE
    /\ keepalive' = FALSE
    /\ ws' = [ws EXCEPT ![n] = "connecting",
                        ![current] = IF @ = "closed" THEN @ ELSE "closing"]
    /\ current' = n
    /\ signaling' = [signaling EXCEPT ![n] = "new"]
    /\ remote' = [remote EXCEPT ![n] = None]
    /\ given' = given \ {n}
    /\ chan' = [chan EXCEPT ![n] = [c \in Channels |-> "none"]]
    /\ inbox' = [inbox EXCEPT ![n] = <<>>]
    /\ answer' = [answer EXCEPT ![n] = None]
    /\ link' = [link EXCEPT ![n] = "new"]
    /\ gone' = gone \ {n}
    /\ UNCHANGED <<peer, channel, wasConnected, count, remoteDescription,
                   candidates, wasRemote, tasks>>

TimerFires == timer /\ ConnectWs /\ UNCHANGED faults

\* The watchdog of main.ts, whenever it sees fit.
ForceReconnect == wasConnected /\ Fault /\ ConnectWs

-----------------------------------------------------------------------------
(* handleDescription() and handleCandidates().                             *)

\* Mutant of AddCandidates: the catch handler does not put them back.
AddCandidatesOnce(cs, p) ==
    IF p = None
    THEN candidates' = cs /\ UNCHANGED given
    ELSE /\ candidates' = {}
         /\ given' = IF remote'[p] = None THEN given ELSE given \cup (cs \cap {p})

\* handleCandidates() with the list cs and the peer p: they are refused, and
\* put back, as long as setRemoteDescription() was not called on the peer.
AddCandidates(cs, p) ==
    IF p = None \/ remote'[p] = None
    THEN candidates' = cs /\ UNCHANGED given
    ELSE candidates' = {} /\ given' = given \cup (cs \cap {p})

\* handleDescription() up to its first await, for the description d.
Describe(d, p, s, via) ==
    IF d = None \/ p = None
    THEN UNCHANGED <<tasks, signaling, remote>>
    ELSE /\ tasks' = tasks \cup
                       {[of |-> s, via |-> via, at |-> "remote", on |-> p]}
         /\ signaling' = [signaling EXCEPT ![p] = "offered"]
         /\ remote' = [remote EXCEPT ![p] = d]

\* An await of task t is over; it goes on to the next one, on peer p.
Proceed(t, at, p) ==
    tasks' = (tasks \ {t}) \cup {[t EXCEPT !.at = at, !.on = p]}

Dies(t) == tasks' = tasks \ {t}

\* setRemoteDescription() is done: createAnswer() on what is now this.peer,
\* which throws if there is none or it has no offer.
RemoteSet(t) ==
    /\ t.at = "remote"
    /\ remoteDescription' = None
    /\ IF peer # None /\ signaling[peer] = "offered"
       THEN Proceed(t, "answer", peer) ELSE Dies(t)
    /\ UNCHANGED <<candidates, wasRemote, signaling, remote, given, answer>>

\* createAnswer() is done: setLocalDescription(), which refuses an answer
\* that another peer made or that is not expected any more.
AnswerMade(t) ==
    /\ t.at = "answer"
    /\ IF peer = t.on /\ signaling[peer] = "offered"
       THEN /\ Proceed(t, "local", peer)
            /\ signaling' = [signaling EXCEPT ![peer] = "stable"]
       ELSE Dies(t) /\ UNCHANGED signaling
    /\ UNCHANGED <<remoteDescription, candidates, wasRemote, remote, given,
                   answer>>

\* setLocalDescription() is done: send the answer over what is now this.ws,
\* which throws while that is connecting, then handle the candidates.
LocalSet(t) ==
    /\ t.at = "local"
    /\ Dies(t)
    /\ UNCHANGED <<remoteDescription, signaling, remote>>
    /\ IF ws[current] = "connecting"
       THEN UNCHANGED <<candidates, wasRemote, given, answer>>
       ELSE /\ answer' = IF ws[current] = "open" /\ answer[current] = None
                         THEN [answer EXCEPT ![current] = t.on] ELSE answer
            /\ wasRemote' = TRUE
            /\ AddCandidates(candidates, peer)

DescriptionStep ==
    /\ \E t \in tasks : RemoteSet(t) \/ AnswerMade(t) \/ LocalSet(t)
    /\ UNCHANGED <<socketVars, stateVars, timer, inbox, link, gone, faults>>

-----------------------------------------------------------------------------
(* The WebSocket.                                                          *)

\* Mutant of Socket: the handlers of a replaced socket stay.
SocketKept(s) == TRUE

\* The socket's onopen, onerror and onclose handlers are still set.
Socket(s) == s = current

\* The candidates of the proxy may overtake its offer: gathering begins
\* before send_offer() has the socket.
Greetings == {<<"offer", "candidate">>, <<"candidate", "offer">>}

\* Mutant of WsOpens: channelsCount is not a variable of the session.
WsOpensCountKept(s) ==
    /\ s = current /\ ws[s] = "connecting"
    /\ ws' = [ws EXCEPT ![s] = "open"]
    /\ keepalive' = TRUE
    /\ peer' = s
    /\ Describe(remoteDescription, s, s, "open")
    /\ \E g \in Greetings : inbox' = [inbox EXCEPT ![s] = g]
    /\ UNCHANGED <<current, channel, wasConnected, count, chan,
                   remoteDescription, candidates, wasRemote, given, timer,
                   answer, link, gone, faults>>

\* onopen: startConnection().
WsOpens(s) ==
    /\ s = current /\ ws[s] = "connecting"
    /\ ws' = [ws EXCEPT ![s] = "open"]
    /\ keepalive' = TRUE
    /\ peer' = s
    /\ count' = [count EXCEPT ![s] = 0]
    /\ Describe(remoteDescription, s, s, "open")
    /\ \E g \in Greetings : inbox' = [inbox EXCEPT ![s] = g]
    /\ UNCHANGED <<current, channel, wasConnected, chan, remoteDescription,
                   candidates, wasRemote, given, timer, answer, link, gone,
                   faults>>

OfferArrives(s) ==
    /\ ws[s] = "open" /\ inbox[s] # <<>> /\ Head(inbox[s]) = "offer"
    /\ inbox' = [inbox EXCEPT ![s] = Tail(@)]
    /\ remoteDescription' = s
    /\ Describe(s, peer, s, "offer")
    /\ UNCHANGED <<socketVars, stateVars, candidates, wasRemote, given, timer,
                   answer, link, gone, faults>>

CandidateArrives(s) ==
    /\ ws[s] = "open" /\ inbox[s] # <<>> /\ Head(inbox[s]) = "candidate"
    /\ inbox' = [inbox EXCEPT ![s] = Tail(@)]
    /\ UNCHANGED <<socketVars, stateVars, remoteDescription, wasRemote, tasks,
                   signaling, remote, timer, answer, link, gone, faults>>
    /\ IF wasRemote
       THEN AddCandidates(candidates \cup {s}, peer)
       ELSE candidates' = candidates \cup {s} /\ UNCHANGED given

\* The connection is lost: an error event, then close; or close alone, which
\* an orderly close by a proxy on the way gives.
WsLost ==
    /\ Fault
    /\ ws[current] \in {"connecting", "open"}
    /\ ws' = [ws EXCEPT ![current] = "closed"]
    /\ keepalive' = FALSE
    /\ timer' \in {TRUE} \cup (IF ws[current] = "open" THEN {timer} ELSE {})
    /\ UNCHANGED <<current, stateVars, offerVars, proxyVars>>

\* The closing handshake of a replaced socket is over.
OldSocketCloses(s) ==
    /\ ws[s] = "closing"
    /\ ws' = [ws EXCEPT ![s] = "closed"]
    /\ keepalive' = (keepalive /\ ~Socket(s))
    /\ UNCHANGED <<current, stateVars, offerVars, timer, proxyVars, faults>>

-----------------------------------------------------------------------------
(* The peer connection and the data channels.                              *)

\* The proxy and the peer have each other's description.
LinkUp(s) ==
    /\ link[s] = "new" /\ answer[s] = s /\ remote[s] = s /\ s \notin gone
    /\ link' = [link EXCEPT ![s] = "up"]
    /\ UNCHANGED <<socketVars, stateVars, offerVars, timer, inbox, answer,
                   gone, faults>>

\* ondatachannel and onopen.
ChannelOpens(s, c) ==
    /\ link[s] = "up" /\ chan[s][c] = "none"
    /\ chan' = [chan EXCEPT ![s][c] = "open"]
    /\ count' = [count EXCEPT ![s] = @ + 1]
    /\ channel' = IF c = "read" THEN s ELSE channel
    /\ wasConnected' = (wasConnected \/ count[s] + 1 = 2)
    /\ UNCHANGED <<socketVars, peer, offerVars, timer, proxyVars, faults>>

\* Mutant of ChannelCloses: onclose leaves the reconnect to the peer's state.
ChannelClosesOnly(s, c) ==
    /\ link[s] \in {"down", "torn", "failed"} /\ chan[s][c] = "open"
    /\ chan' = [chan EXCEPT ![s][c] = "closed"]
    /\ channel' = IF c = "read" THEN None ELSE channel
    /\ UNCHANGED <<socketVars, peer, wasConnected, count, offerVars, timer,
                   proxyVars, faults>>

\* onclose (or onerror), of whichever session the channel is.
ChannelCloses(s, c) ==
    /\ link[s] \in {"down", "torn", "failed"} /\ chan[s][c] = "open"
    /\ chan' = [chan EXCEPT ![s][c] = "closed"]
    /\ channel' = IF c = "read" THEN None ELSE channel
    /\ timer' = TRUE
    /\ UNCHANGED <<socketVars, peer, wasConnected, count, offerVars,
                   proxyVars, faults>>

\* The peers of the session cannot or will not find each other.
Doomed(s) ==
    /\ link[s] = "new" /\ signaling[s] = "stable" /\ \A t \in tasks : t.on # s
    /\ answer[s] # s \/ remote[s] # s \/ s \in gone

\* connectionState of the session's peer becomes "failed".  The handler looks
\* at this.peer, which it closes and forgets if that is the one.
PeerFails(s) ==
    /\ link' = [link EXCEPT ![s] = "failed"]
    /\ IF peer = s
       THEN /\ peer' = None
            /\ remoteDescription' = None
            /\ candidates' = {}
            /\ wasRemote' = FALSE
            /\ timer' = TRUE
            /\ tasks' = {t \in tasks : t.on # s}
            /\ chan' = [chan EXCEPT ![s] = [c \in Channels |-> "closed"]]
            /\ channel' = IF channel = s THEN None ELSE channel
       ELSE UNCHANGED <<peer, remoteDescription, candidates, wasRemote, timer,
                        tasks, chan, channel>>
    /\ UNCHANGED <<socketVars, wasConnected, count, signaling, remote, given,
                   inbox, answer, gone>>

PeerNeverConnects(s) == Doomed(s) /\ PeerFails(s) /\ UNCHANGED faults

PeerLost(s) == link[s] = "up" /\ Fault /\ PeerFails(s)

\* ICE finds out that the proxy has closed its side, after the channels did.
ConsentExpires(s) ==
    /\ link[s] = "down" /\ \A c \in Channels : chan[s][c] # "open"
    /\ PeerFails(s)
    /\ UNCHANGED faults

-----------------------------------------------------------------------------
(* The proxy (ProxySession.tla), as the page sees it.                      *)

\* Mutant of ProxyEndsSession: the handler returns without closing the peer.
ProxyKeepsPeer(s) ==
    /\ ws[s] = "closed" /\ s \notin gone
    /\ gone' = gone \cup {s}
    /\ UNCHANGED <<socketVars, stateVars, offerVars, timer, inbox, answer,
                   link, faults>>

\* The session's WebSocket has ended: the proxy closes its peer connection.
ProxyEndsSession(s) ==
    /\ ws[s] = "closed" /\ s \notin gone
    /\ gone' = gone \cup {s}
    /\ link' = [link EXCEPT ![s] = IF @ \in {"up", "torn"} THEN "down" ELSE @]
    /\ UNCHANGED <<socketVars, stateVars, offerVars, timer, inbox, answer,
                   faults>>

\* The bridge tears its channels down.
UpstreamLost(s) ==
    /\ link[s] = "up" /\ \A c \in Channels : chan[s][c] = "open"
    /\ Fault
    /\ link' = [link EXCEPT ![s] = "torn"]
    /\ UNCHANGED <<socketVars, stateVars, offerVars, timer, inbox, answer,
                   gone>>

-----------------------------------------------------------------------------
Next ==
    \/ TimerFires \/ ForceReconnect \/ DescriptionStep \/ WsLost
    \/ \E s \in Sessions :
          \/ WsOpens(s) \/ OfferArrives(s) \/ CandidateArrives(s)
          \/ OldSocketCloses(s) \/ LinkUp(s) \/ PeerNeverConnects(s)
          \/ PeerLost(s) \/ ConsentExpires(s) \/ ProxyEndsSession(s) \/ UpstreamLost(s)
          \/ \E c \in Channels : ChannelOpens(s, c) \/ ChannelCloses(s, c)

Spec == Init /\ [][Next]_vars

\* Timers fire, promises settle, and messages, channel events and the ends of
\* sessions arrive.  Faults need not happen.
Fairness ==
    /\ WF_vars(TimerFires)
    /\ WF_vars(DescriptionStep)
    /\ \A s \in Sessions :
          /\ WF_vars(WsOpens(s))
          /\ WF_vars(OfferArrives(s) \/ CandidateArrives(s))
          /\ WF_vars(OldSocketCloses(s))
          /\ WF_vars(LinkUp(s))
          /\ WF_vars(PeerNeverConnects(s))
          /\ WF_vars(ConsentExpires(s))
          /\ WF_vars(ProxyEndsSession(s))
          /\ \A c \in Channels : WF_vars(ChannelOpens(s, c))
          /\ \A c \in Channels : WF_vars(ChannelCloses(s, c))

FairSpec == Spec /\ Fairness

-----------------------------------------------------------------------------
TypeOK ==
    /\ ws \in [Sessions -> {"none", "connecting", "open", "closing", "closed"}]
    /\ current \in Sessions
    /\ {peer, channel, remoteDescription} \subseteq Sessions \cup {None}
    /\ {timer, keepalive, wasConnected, wasRemote} \subseteq BOOLEAN
    /\ candidates \subseteq Sessions
    /\ tasks \subseteq Tasks
    /\ signaling \in [Sessions -> {"new", "offered", "stable"}]
    /\ remote \in [Sessions -> Sessions \cup {None}]
    /\ given \subseteq Sessions
    /\ count \in [Sessions -> 0..2]
    /\ chan \in [Sessions -> [Channels -> {"none", "open", "closed"}]]
    /\ \A s \in Sessions : inbox[s] \in Seq({"offer", "candidate"})
    /\ answer \in [Sessions -> Sessions \cup {None}]
    /\ link \in [Sessions -> {"new", "up", "torn", "down", "failed"}]
    /\ gone \subseteq Sessions
    /\ faults \in 0..MaxFaults

\* "o WS nunca fica ocioso" (PATCHES.md section 13): the signaling socket in
\* use has its keepalive, whatever closes, late, of the sockets it replaced.
KeepaliveWhileOpen == ws[current] = "open" => keepalive

\* A candidate of the proxy that reaches the page is added to the peer of its
\* session, also when it overtakes the offer, arrives during an await, or
\* finds wasRemote left over from the session before.
CandidatesDelivered ==
    \A s \in Sessions :
        (ws[s] = "open" /\ peer = s /\ inbox[s] = <<>>)
            ~> (s \in given \/ ws[s] # "open" \/ peer # s)

\* The page can play: both channels of its session are open.
Usable == /\ link[current] = "up" /\ channel = current
          /\ \A c \in Channels : chan[current][c] = "open"

\* Recovery has no dead end: again and again either the transport is usable
\* or a reconnect is scheduled.  Left out is the WebSocket that is closed
\* without an error event before the offer came over it.
AlwaysRecovers ==
    []<>(Usable \/ timer \/ (ws[current] = "closed" /\ signaling[current] = "new"))

\* A session that is replaced comes to an end although the page closes only its
\* WebSocket: its socket is closed, and the proxy has closed the channels of the
\* peer connection that the page has forgotten, even if that connects late.
ReplacedSessionsEnd ==
    \A s \in Sessions :
        s # current ~>
            \/ s = current
            \/ ws[s] \in {"none", "closed"} /\ \A c \in Channels : chan[s][c] # "open"

\* "o rebuild dispara onReconnected -> rejoin, completando o ciclo de
\* auto-recuperacao" (PATCHES.md section 12): a page that, with no more
\* failures, gets a usable transport again and again keeps one in the end.
RebuildSettles == []<>Usable => <>[]Usable
=============================================================================
