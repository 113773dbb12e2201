------------------------- MODULE WebRtcClientProofs -------------------------
(***************************************************************************)
(* Theorems about WebRtcClient, for any number of sessions alive at a time *)
(* and of faults.                                                          *)
(***************************************************************************)
EXTENDS WebRtcClient, TLAPS

LEMMA SlotFacts ==
    /\ Slots \in Nat \ {0} /\ MaxFaults \in Nat
    /\ None \notin Sessions /\ 0 \in Sessions
    /\ \A s \in Sessions : s \in Nat /\ (s + 1) % Slots \in Sessions
  BY ClientAssumption DEF None, Sessions

\* The channels of a session that have opened.
Opened(s) == (IF chan[s]["write"] # "none" THEN 1 ELSE 0)
               + (IF chan[s]["read"] # "none" THEN 1 ELSE 0)

\* channelsCount counts the channels that have opened; a slot may still have the
\* count of its former session until its socket opens.
CountOK == \A s \in Sessions : ws[s] = "open" \/ answer[s] # None => count[s] <= Opened(s)

\* A connection is up only after the session's peer has been answered for.
LinkOK == \A s \in Sessions : link[s] = "up" => answer[s] = s

\* The type invariant in two parts, of which one is about Boolean values only.
Flags == {timer, keepalive, wasConnected, wasRemote} \subseteq BOOLEAN
Shape ==
    /\ ws \in [Sessions -> {"none", "connecting", "open", "closing", "closed"}]
    /\ current \in Sessions
    /\ {peer, channel, remoteDescription} \subseteq Sessions \cup {None}
    /\ candidates \subseteq Sessions
    /\ tasks \subseteq Tasks
    /\ signaling \in [Sessions -> {"new", "offered", "stable"}]
    /\ remote \in [Sessions -> Sessions \cup {None}]
    /\ given \subseteq Sessions
    /\ count \in [Sessions -> 0..2]
    /\ chan \in [Sessions -> [Channels -> {"none", "open", "closed"}]]
    /\ \A s \in Sessions : inbox[s] \in Seq({"offer", "candidate"})
    /\ answer \in [Sessions -> Sessions \cup {None}]
    /\ link \in [Sessions -> {"new", "up", "torn", "down", "failed"}]
    /\ gone \subseteq Sessions
    /\ faults \in 0..MaxFaults

LEMMA TypeSplit == TypeOK <=> Flags /\ Shape
  BY DEF TypeOK, Flags, Shape

ClientInd == TypeOK /\ CountOK /\ LinkOK /\ KeepaliveWhileOpen

LEMMA InitInd == Init => ClientInd
<1> SUFFICES ASSUME Init PROVE ClientInd
  OBVIOUS
<1>1. TypeOK
  <2>1. Flags
    BY DEF Init, Flags
  <2>2. \A s \in Sessions : inbox[s] \in Seq({"offer", "candidate"})
    BY DEF Init
  <2>3. Shape
    BY <2>2, SlotFacts DEF Init, Shape
  <2> QED BY <2>1, <2>3, TypeSplit
<1>2. CountOK /\ LinkOK /\ KeepaliveWhileOpen
  BY SlotFacts DEF Init, CountOK, LinkOK, KeepaliveWhileOpen, Opened
<1> QED BY <1>1, <1>2 DEF ClientInd

-----------------------------------------------------------------------------
(* Types                                                                   *)

LEMMA ConnectWsType == Shape /\ ConnectWs /\ faults' \in 0..MaxFaults => Shape'
<1> SUFFICES ASSUME Shape, ConnectWs, faults' \in 0..MaxFaults PROVE Shape'
  OBVIOUS
<1> DEFINE n == (current + 1) % Slots
<1>1. n \in Sessions
  BY SlotFacts DEF Shape
<1> HIDE DEF n
<1>2. \A s \in Sessions : inbox'[s] \in Seq({"offer", "candidate"})
  BY <1>1 DEF Shape, ConnectWs, n
<1> QED BY <1>1, <1>2 DEF Shape, ConnectWs, n

LEMMA TaskType == Shape /\ DescriptionStep => Shape'
<1> SUFFICES ASSUME Shape, NEW t \in tasks, RemoteSet(t) \/ AnswerMade(t) \/ LocalSet(t),
                    UNCHANGED <<socketVars, stateVars, timer, inbox, link, gone, faults>>
             PROVE  Shape'
  BY DEF DescriptionStep
<1> USE DEF Shape, socketVars, stateVars
<1>1. t \in Tasks
  OBVIOUS
<1>2. \A at \in {"remote", "answer", "local"} : \A p \in Sessions :
          [t EXCEPT !.at = at, !.on = p] \in Tasks
  BY <1>1 DEF Tasks
<1>3. peer # None => peer \in Sessions
  OBVIOUS
<1>4. CASE RemoteSet(t)
  <2>1. tasks' \subseteq Tasks
    BY <1>2, <1>3, <1>4 DEF RemoteSet, Proceed, Dies
  <2>2. remoteDescription' = None
        /\ UNCHANGED <<candidates, wasRemote, signaling, remote, given, answer>>
    BY <1>4 DEF RemoteSet
  <2> QED BY <2>1, <2>2
<1>5. CASE AnswerMade(t)
  <2>1. t.on \in Sessions
    BY <1>1 DEF Tasks
  <2>2. tasks' \subseteq Tasks
    <3> DEFINE r == [t EXCEPT !.at = "local", !.on = peer]
    <3>1. peer = t.on => r \in Tasks
      BY <1>2, <2>1
    <3>2. tasks' = tasks \ {t} \/ (peer = t.on /\ tasks' = (tasks \ {t}) \cup {r})
      BY <1>5 DEF AnswerMade, Proceed, Dies
    <3> HIDE DEF r
    <3> QED BY <3>1, <3>2
  <2>3. signaling' \in [Sessions -> {"new", "offered", "stable"}]
    BY <1>5 DEF AnswerMade
  <2>4. UNCHANGED <<remoteDescription, candidates, wasRemote, remote, given, answer>>
    BY <1>5 DEF AnswerMade
  <2> QED BY <2>2, <2>3, <2>4
<1>6. CASE LocalSet(t)
  <2>1. t.on \in Sessions /\ tasks' \subseteq Tasks
    BY <1>1, <1>6 DEF LocalSet, Dies, Tasks
  <2>2. /\ candidates' \subseteq Sessions /\ given' \subseteq Sessions
        /\ UNCHANGED <<remoteDescription, signaling, remote>>
    BY <1>6 DEF LocalSet, AddCandidates
  <2>3. answer' \in [Sessions -> Sessions \cup {None}]
    BY <1>6, <2>1 DEF LocalSet
  <2> QED BY <2>1, <2>2, <2>3
<1> QED BY <1>4, <1>5, <1>6

LEMMA SocketType ==
    ASSUME Shape, NEW s \in Sessions,
           \/ WsOpens(s) \/ OfferArrives(s) \/ CandidateArrives(s)
           \/ OldSocketCloses(s) \/ WsLost
    PROVE  Shape'
<1> USE DEF Shape, socketVars, stateVars, offerVars, proxyVars
<1>1. \A d, p \in Sessions \cup {None} : \A via \in {"offer", "open"} :
        Describe(d, p, s, via) =>
          /\ tasks' \subseteq Tasks
          /\ signaling' \in [Sessions -> {"new", "offered", "stable"}]
          /\ remote' \in [Sessions -> Sessions \cup {None}]
  <2> SUFFICES ASSUME NEW d \in Sessions \cup {None}, NEW p \in Sessions \cup {None},
                      NEW via \in {"offer", "open"}, Describe(d, p, s, via)
               PROVE  /\ tasks' \subseteq Tasks
                      /\ signaling' \in [Sessions -> {"new", "offered", "stable"}]
                      /\ remote' \in [Sessions -> Sessions \cup {None}]
    OBVIOUS
  <2>1. CASE d = None \/ p = None
    BY <2>1 DEF Describe
  <2>2. CASE d # None /\ p # None
    <3>1. [of |-> s, via |-> via, at |-> "remote", on |-> p] \in Tasks
      BY <2>2 DEF Tasks
    <3>2. /\ tasks' = tasks \cup {[of |-> s, via |-> via, at |-> "remote", on |-> p]}
          /\ signaling' = [signaling EXCEPT ![p] = "offered"]
          /\ remote' = [remote EXCEPT ![p] = d]
      BY <2>2 DEF Describe
    <3>3. tasks' \subseteq Tasks
      BY <3>1, <3>2
    <3>4. /\ signaling' \in [Sessions -> {"new", "offered", "stable"}]
          /\ remote' \in [Sessions -> Sessions \cup {None}]
      BY <2>2, <3>2
    <3> QED BY <3>3, <3>4
  <2> QED BY <2>1, <2>2
<1>2. CASE WsOpens(s)
  <2>1. \A g \in Greetings : g \in Seq({"offer", "candidate"})
    <3>1. \A a, b \in {"offer", "candidate"} : <<a, b>> \in Seq({"offer", "candidate"})
      OBVIOUS
    <3> QED BY <3>1 DEF Greetings
  <2>2. \A x \in Sessions : inbox'[x] \in Seq({"offer", "candidate"})
    BY <1>2, <2>1 DEF WsOpens
  <2>3. /\ tasks' \subseteq Tasks
        /\ signaling' \in [Sessions -> {"new", "offered", "stable"}]
        /\ remote' \in [Sessions -> Sessions \cup {None}]
    <3>1. Describe(remoteDescription, s, s, "open")
      BY <1>2 DEF WsOpens
    <3> QED BY <1>1, <3>1
  <2>4. /\ ws' \in [Sessions -> {"none", "connecting", "open", "closing", "closed"}]
        /\ count' \in [Sessions -> 0..2] /\ peer' = s
        /\ UNCHANGED <<current, channel, chan, remoteDescription, candidates, given,
                       answer, link, gone, faults>>
    BY <1>2 DEF WsOpens
  <2> QED BY <2>2, <2>3, <2>4
<1>3. CASE OfferArrives(s) \/ CandidateArrives(s)
  <2>1. \A x \in Sessions : inbox'[x] \in Seq({"offer", "candidate"})
    <3>1. inbox[s] # <<>> /\ inbox' = [inbox EXCEPT ![s] = Tail(inbox[s])]
      BY <1>3 DEF OfferArrives, CandidateArrives
    <3>2. inbox[s] \in Seq({"offer", "candidate"})
      OBVIOUS
    <3>3. Tail(inbox[s]) \in Seq({"offer", "candidate"})
      BY <3>1, <3>2
    <3>4. \A x \in Sessions : inbox'[x] = IF x = s /\ x \in DOMAIN inbox
                                         THEN Tail(inbox[s]) ELSE inbox[x]
      BY <3>1
    <3> QED BY <3>3, <3>4
  <2>2. CASE OfferArrives(s)
    BY <1>1, <2>1, <2>2 DEF OfferArrives
  <2>3. CASE CandidateArrives(s)
    BY <2>1, <2>3 DEF CandidateArrives, AddCandidates
  <2> QED BY <1>3, <2>2, <2>3
<1>4. CASE OldSocketCloses(s)
  BY <1>4 DEF OldSocketCloses, Socket
<1>5. CASE WsLost
  BY <1>5, SlotFacts DEF WsLost, Fault
<1> QED BY <1>2, <1>3, <1>4, <1>5

LEMMA PeerFailsType ==
    ASSUME Shape, NEW s \in Sessions, PeerFails(s), faults' \in 0..MaxFaults
    PROVE  Shape'
<1> USE DEF Shape, socketVars
<1>1. CASE peer = s
  <2>1. chan' \in [Sessions -> [Channels -> {"none", "open", "closed"}]]
    <3>1. [c \in Channels |-> "closed"] \in [Channels -> {"none", "open", "closed"}]
      OBVIOUS
    <3> QED BY <1>1, <3>1 DEF PeerFails
  <2>2. UNCHANGED <<ws, current, count, signaling, remote, given, inbox, answer, gone>>
    BY DEF PeerFails
  <2>3. link' \in [Sessions -> {"new", "up", "torn", "down", "failed"}]
    BY DEF PeerFails
  <2>4. /\ {peer', channel', remoteDescription'} \subseteq Sessions \cup {None}
        /\ candidates' \subseteq Sessions /\ tasks' \subseteq Tasks
    BY <1>1 DEF PeerFails
  <2> QED BY <2>1, <2>2, <2>3, <2>4
<1>2. CASE peer # s
  BY <1>2 DEF PeerFails
<1> QED BY <1>1, <1>2

LEMMA PeerType ==
    ASSUME Shape, CountOK, LinkOK, NEW s \in Sessions,
           \/ LinkUp(s) \/ PeerNeverConnects(s) \/ PeerLost(s) \/ ConsentExpires(s)
           \/ ProxyEndsSession(s) \/ UpstreamLost(s)
           \/ \E c \in Channels : ChannelOpens(s, c) \/ ChannelCloses(s, c)
    PROVE  Shape'
<1> USE DEF Shape, socketVars, stateVars, offerVars, proxyVars
<1>1. CASE LinkUp(s) \/ ProxyEndsSession(s) \/ UpstreamLost(s)
  BY <1>1, SlotFacts DEF LinkUp, ProxyEndsSession, UpstreamLost, Fault
<1>2. CASE PeerNeverConnects(s) \/ PeerLost(s) \/ ConsentExpires(s)
  <2>1. PeerFails(s)
    BY <1>2 DEF PeerNeverConnects, PeerLost, ConsentExpires
  <2>3. faults' = faults \/ (faults < MaxFaults /\ faults' = faults + 1)
    BY <1>2 DEF PeerNeverConnects, PeerLost, ConsentExpires, Fault
  <2>2. faults' \in 0..MaxFaults
    BY <2>3, SlotFacts
  <2> QED BY <2>1, <2>2, PeerFailsType
<1>3. ASSUME NEW c \in Channels, ChannelOpens(s, c) PROVE Shape'
  <2>1. count[s] <= 1
    <3>1. c \in {"write", "read"} /\ link[s] = "up" /\ chan[s][c] = "none"
      BY <1>3 DEF ChannelOpens, Channels
    <3>2. answer[s] # None
      BY <3>1, SlotFacts DEF LinkOK
    <3>3. count[s] <= Opened(s)
      BY <3>2 DEF CountOK
    <3>4. Opened(s) \in {0, 1}
      BY <3>1 DEF Opened
    <3>5. count[s] \in 0..2
      OBVIOUS
    <3> QED BY <3>3, <3>4, <3>5
  <2>2. count' \in [Sessions -> 0..2]
    BY <1>3, <2>1 DEF ChannelOpens
  <2>3. chan' \in [Sessions -> [Channels -> {"none", "open", "closed"}]]
    BY <1>3 DEF ChannelOpens
  <2> QED BY <1>3, <2>2, <2>3 DEF ChannelOpens
<1>4. ASSUME NEW c \in Channels, ChannelCloses(s, c) PROVE Shape'
  <2>1. chan' \in [Sessions -> [Channels -> {"none", "open", "closed"}]]
    BY <1>4 DEF ChannelCloses
  <2> QED BY <1>4, <2>1 DEF ChannelCloses
<1> QED BY <1>1, <1>2, <1>3, <1>4

LEMMA NextShape == Shape /\ CountOK /\ LinkOK /\ [Next]_vars => Shape'
<1> SUFFICES ASSUME Shape, CountOK, LinkOK, [Next]_vars PROVE Shape'
  OBVIOUS
<1>1. CASE UNCHANGED vars
  BY <1>1 DEF vars, socketVars, stateVars, offerVars, proxyVars, Shape
<1>2. CASE TimerFires \/ ForceReconnect
  <2>1. ConnectWs /\ faults' \in 0..MaxFaults
    BY <1>2, SlotFacts DEF TimerFires, ForceReconnect, Fault, Shape
  <2> QED BY <2>1, ConnectWsType
<1> QED BY <1>1, <1>2, TaskType, SocketType, PeerType, SlotFacts DEF Next

LEMMA NextFlags == Flags /\ [Next]_vars => Flags'
<1> SUFFICES ASSUME Flags, [Next]_vars PROVE Flags'
  OBVIOUS
<1> USE DEF socketVars, stateVars, offerVars, proxyVars
<1>1. timer \in BOOLEAN /\ keepalive \in BOOLEAN /\ wasConnected \in BOOLEAN /\ wasRemote \in BOOLEAN
  BY DEF Flags
<1>2. CASE UNCHANGED vars
  BY <1>1, <1>2 DEF vars, Flags
<1>3. CASE TimerFires \/ ForceReconnect
  BY <1>1, <1>3 DEF TimerFires, ForceReconnect, ConnectWs, Flags
<1>4. ASSUME NEW t \in tasks, RemoteSet(t) \/ AnswerMade(t) \/ LocalSet(t),
             UNCHANGED <<socketVars, stateVars, timer, inbox, link, gone, faults>>
      PROVE  Flags'
  <2>1. wasRemote' = wasRemote \/ wasRemote' = TRUE
    BY <1>4 DEF RemoteSet, AnswerMade, LocalSet
  <2> QED BY <1>1, <1>4, <2>1 DEF Flags
<1>5. CASE WsLost
  <2>1. timer' = TRUE \/ timer' = timer
    BY <1>5 DEF WsLost
  <2> QED BY <1>1, <1>5, <2>1 DEF WsLost, Flags
<1>6. ASSUME NEW s \in Sessions, WsOpens(s) \/ OfferArrives(s) \/ CandidateArrives(s)
      PROVE  Flags'
  BY <1>1, <1>6 DEF WsOpens, OfferArrives, CandidateArrives, Flags
<1>7. ASSUME NEW s \in Sessions, OldSocketCloses(s) PROVE Flags'
  <2>1. keepalive' \in BOOLEAN
    BY <1>7 DEF OldSocketCloses
  <2> QED BY <1>1, <1>7, <2>1 DEF OldSocketCloses, Flags
<1>8. ASSUME NEW s \in Sessions, PeerFails(s) PROVE Flags'
  BY <1>1, <1>8 DEF PeerFails, Flags
<1>9. ASSUME NEW s \in Sessions, LinkUp(s) \/ ProxyEndsSession(s) \/ UpstreamLost(s)
      PROVE  Flags'
  BY <1>1, <1>9 DEF LinkUp, ProxyEndsSession, UpstreamLost, Flags
<1>10. ASSUME NEW s \in Sessions, NEW c \in Channels, ChannelOpens(s, c) PROVE Flags'
  <2>1. wasConnected' \in BOOLEAN
    BY <1>10 DEF ChannelOpens
  <2> QED BY <1>1, <1>10, <2>1 DEF ChannelOpens, Flags
<1>11. ASSUME NEW s \in Sessions, NEW c \in Channels, ChannelCloses(s, c) PROVE Flags'
  BY <1>1, <1>11 DEF ChannelCloses, Flags
<1> QED BY <1>2, <1>3, <1>4, <1>5, <1>6, <1>7, <1>8, <1>9, <1>10, <1>11
        DEF Next, DescriptionStep, PeerNeverConnects, PeerLost, ConsentExpires

LEMMA NextType == TypeOK /\ CountOK /\ LinkOK /\ [Next]_vars => TypeOK'
<1> SUFFICES ASSUME TypeOK, CountOK, LinkOK, [Next]_vars PROVE TypeOK'
  OBVIOUS
<1>1. Flags' /\ Shape'
  BY TypeSplit, NextFlags, NextShape
<1> QED BY <1>1 DEF TypeOK, Flags, Shape

-----------------------------------------------------------------------------
(* The counter, the link and the keepalive                                 *)

\* Steps that leave the counter, the sockets and the answers leave what is said of them.
LEMMA Untouched ==
    ASSUME ClientInd, UNCHANGED <<socketVars, count, chan, answer>>,
           \A s \in Sessions : link'[s] = "up" => link[s] = "up" \/ answer[s] = s
    PROVE  CountOK' /\ LinkOK' /\ KeepaliveWhileOpen'
  BY DEF ClientInd, CountOK, LinkOK, KeepaliveWhileOpen, Opened, socketVars

LEMMA ConnectWsRest == ClientInd /\ ConnectWs => CountOK' /\ LinkOK' /\ KeepaliveWhileOpen'
<1> SUFFICES ASSUME ClientInd, ConnectWs PROVE CountOK' /\ LinkOK' /\ KeepaliveWhileOpen'
  OBVIOUS
<1> DEFINE n == (current + 1) % Slots
<1>1. n \in Sessions /\ TypeOK
  BY SlotFacts DEF ClientInd, TypeOK
<1>2. n # current
  BY DEF ConnectWs, Free
<1> HIDE DEF n
<1>3. /\ ws'[n] = "connecting" /\ current' = n
      /\ answer'[n] = None /\ link'[n] = "new" /\ UNCHANGED count
      /\ \A s \in Sessions : s # n => /\ ws'[s] = "open" => ws[s] = "open"
                                      /\ answer'[s] = answer[s] /\ link'[s] = link[s]
                                      /\ chan'[s] = chan[s]
  BY <1>1, <1>2 DEF ConnectWs, TypeOK, n
<1>4. CountOK'
  BY <1>3 DEF ClientInd, CountOK, Opened
<1>5. LinkOK' /\ KeepaliveWhileOpen'
  BY <1>3 DEF ClientInd, LinkOK, KeepaliveWhileOpen
<1> QED BY <1>4, <1>5

LEMMA TaskRest == ClientInd /\ DescriptionStep => CountOK' /\ LinkOK' /\ KeepaliveWhileOpen'
<1> SUFFICES ASSUME ClientInd, NEW t \in tasks, RemoteSet(t) \/ AnswerMade(t) \/ LocalSet(t),
                    UNCHANGED <<socketVars, stateVars, timer, inbox, link, gone, faults>>
             PROVE  CountOK' /\ LinkOK' /\ KeepaliveWhileOpen'
  BY DEF DescriptionStep
<1>1. CASE UNCHANGED answer
  BY <1>1, Untouched DEF stateVars
<1>2. CASE /\ ws[current] = "open" /\ answer[current] = None
           /\ answer' = [answer EXCEPT ![current] = t.on]
  <2>1. /\ current \in Sessions
        /\ \A s \in Sessions : s # current => answer'[s] = answer[s]
    BY <1>2 DEF ClientInd, TypeOK
  <2>2. CountOK'
    BY <1>2, <2>1 DEF ClientInd, CountOK, Opened, socketVars, stateVars
  <2>3. LinkOK' /\ KeepaliveWhileOpen'
    BY <1>2, <2>1, SlotFacts DEF ClientInd, LinkOK, KeepaliveWhileOpen, socketVars
  <2> QED BY <2>2, <2>3
<1>3. UNCHANGED answer \/ (/\ ws[current] = "open" /\ answer[current] = None
                          /\ answer' = [answer EXCEPT ![current] = t.on])
  BY DEF RemoteSet, AnswerMade, LocalSet
<1> QED BY <1>1, <1>2, <1>3

LEMMA SocketRest ==
    ASSUME ClientInd, NEW s \in Sessions,
           \/ WsOpens(s) \/ OfferArrives(s) \/ CandidateArrives(s)
           \/ OldSocketCloses(s) \/ WsLost
    PROVE  CountOK' /\ LinkOK' /\ KeepaliveWhileOpen'
<1> USE DEF ClientInd, CountOK, LinkOK, KeepaliveWhileOpen, proxyVars
<1>1. TypeOK
  OBVIOUS
<1>2. CASE WsOpens(s)
  <2>1. /\ ws' = [ws EXCEPT ![s] = "open"] /\ count' = [count EXCEPT ![s] = 0]
        /\ keepalive' = TRUE /\ UNCHANGED <<chan, answer, link>>
    BY <1>2 DEF WsOpens
  <2>2. Opened(s)' = Opened(s) /\ \A x \in Sessions : Opened(x)' = Opened(x) /\ Opened(x) >= 0
    BY <2>1 DEF Opened
  <2> QED BY <1>1, <2>1, <2>2 DEF TypeOK
<1>3. CASE OfferArrives(s) \/ CandidateArrives(s)
  BY <1>3, Untouched DEF OfferArrives, CandidateArrives, stateVars
<1>4. CASE OldSocketCloses(s) \/ WsLost
  <2>1. UNCHANGED <<count, chan, answer, link, current>>
    BY <1>4 DEF OldSocketCloses, WsLost, stateVars
  <2>2. \A x \in Sessions : ws'[x] = "open" => ws[x] = "open"
    BY <1>1, <1>4 DEF OldSocketCloses, WsLost, TypeOK
  <2>3. CountOK' /\ LinkOK'
    BY <2>1, <2>2 DEF Opened
  <2>4. KeepaliveWhileOpen'
    BY <1>1, <1>4, <2>1 DEF OldSocketCloses, WsLost, Socket, TypeOK
  <2> QED BY <2>3, <2>4
<1> QED BY <1>2, <1>3, <1>4

LEMMA PeerRest ==
    ASSUME ClientInd, NEW s \in Sessions,
           \/ LinkUp(s) \/ PeerFails(s) \/ ProxyEndsSession(s) \/ UpstreamLost(s)
           \/ \E c \in Channels : ChannelOpens(s, c) \/ ChannelCloses(s, c)
    PROVE  CountOK' /\ LinkOK' /\ KeepaliveWhileOpen'
<1>1. TypeOK /\ CountOK /\ LinkOK /\ KeepaliveWhileOpen
  BY DEF ClientInd
<1>2. CASE LinkUp(s) \/ ProxyEndsSession(s) \/ UpstreamLost(s)
  <2>1. \A x \in Sessions : link'[x] = "up" => link[x] = "up" \/ answer[x] = x
    BY <1>1, <1>2 DEF LinkUp, ProxyEndsSession, UpstreamLost, TypeOK
  <2> QED BY <1>2, <2>1, Untouched DEF LinkUp, ProxyEndsSession, UpstreamLost, stateVars
<1>3. CASE PeerFails(s)
  <2>1. /\ UNCHANGED <<socketVars, count, answer>>
        /\ \A x \in Sessions : link'[x] = "up" => link[x] = "up"
        /\ \A x \in Sessions : chan'[x] = chan[x] \/ chan'[x] = [c \in Channels |-> "closed"]
    BY <1>1, <1>3 DEF PeerFails, TypeOK
  <2>2. \A x \in Sessions : Opened(x) <= Opened(x)' /\ Opened(x) \in Nat /\ Opened(x)' \in Nat
    BY <2>1 DEF Opened, Channels
  <2>4. \A x \in Sessions : count[x] \in Nat /\ count'[x] = count[x]
    BY <1>1, <2>1 DEF TypeOK
  <2>3. CountOK'
    <3>1. ASSUME NEW x \in Sessions, (ws[x] = "open" \/ answer[x] # None)'
          PROVE  count'[x] <= Opened(x)'
      <4>1. count[x] <= Opened(x)
        BY <1>1, <2>1, <3>1 DEF CountOK, socketVars
      <4> QED BY <2>2, <2>4, <4>1
    <3> QED BY <3>1 DEF CountOK
  <2> QED BY <1>1, <2>1, <2>3 DEF LinkOK, KeepaliveWhileOpen, socketVars
<1>4. ASSUME NEW c \in Channels, ChannelOpens(s, c) \/ ChannelCloses(s, c)
      PROVE  CountOK' /\ LinkOK' /\ KeepaliveWhileOpen'
  <2>1. /\ UNCHANGED <<socketVars, answer, link>>
        /\ \A x \in Sessions : x # s => chan'[x] = chan[x] /\ count'[x] = count[x]
    BY <1>1, <1>4 DEF ChannelOpens, ChannelCloses, proxyVars, TypeOK
  <2>2. count'[s] - count[s] <= Opened(s)' - Opened(s)
    <3>1. CASE ChannelOpens(s, c)
      <4>1. /\ chan[s][c] = "none" /\ chan'[s][c] = "open" /\ count'[s] = count[s] + 1
            /\ \A d \in Channels : d # c => chan'[s][d] = chan[s][d]
        BY <1>1, <3>1 DEF ChannelOpens, TypeOK
      <4> QED BY <1>1, <4>1 DEF Opened, Channels, TypeOK
    <3>2. CASE ChannelCloses(s, c)
      <4>1. /\ chan[s][c] = "open" /\ chan'[s][c] = "closed" /\ count' = count
            /\ \A d \in Channels : d # c => chan'[s][d] = chan[s][d]
        BY <1>1, <3>2 DEF ChannelCloses, TypeOK
      <4>2. Opened(s)' = Opened(s) /\ count[s] \in Nat /\ Opened(s) \in Nat
        BY <1>1, <4>1 DEF Opened, Channels, TypeOK
      <4> QED BY <4>1, <4>2
    <3> QED BY <1>4, <3>1, <3>2
  <2>3. \A x \in Sessions : x # s => Opened(x)' = Opened(x)
    BY <2>1 DEF Opened
  <2>4. /\ count[s] \in Nat /\ Opened(s) \in Nat /\ Opened(s)' \in Nat /\ count'[s] \in Nat
    BY <1>1, <1>4 DEF TypeOK, Opened, ChannelOpens, ChannelCloses
  <2>5. CountOK'
    BY <1>1, <2>1, <2>2, <2>3, <2>4 DEF CountOK, socketVars
  <2> QED BY <1>1, <2>1, <2>5 DEF LinkOK, KeepaliveWhileOpen, socketVars
<1> QED BY <1>2, <1>3, <1>4

LEMMA NextInd == ClientInd /\ [Next]_vars => ClientInd'
<1> SUFFICES ASSUME ClientInd, [Next]_vars PROVE ClientInd'
  OBVIOUS
<1>1. TypeOK'
  BY NextType DEF ClientInd
<1>2. CountOK' /\ LinkOK' /\ KeepaliveWhileOpen'
  <2>1. CASE UNCHANGED vars
    BY <2>1, Untouched DEF vars, stateVars, proxyVars
  <2>2. CASE Next
    BY <2>2, ConnectWsRest, TaskRest, SocketRest, PeerRest, SlotFacts
       DEF Next, TimerFires, ForceReconnect, PeerNeverConnects, PeerLost, ConsentExpires
  <2> QED BY <2>1, <2>2
<1> QED BY <1>1, <1>2 DEF ClientInd

LEMMA Inductive == Spec => []ClientInd
  BY InitInd, NextInd, PTL DEF Spec

-----------------------------------------------------------------------------
(* The theorems                                                            *)

\* The type invariant of the page's transport holds for every number of sessions and
\* faults; that channelsCount never passes 2 rests on the order in which sockets open,
\* answers are sent and channels open.
THEOREM ClientTypeCorrect == Spec => []TypeOK
<1>1. ClientInd => TypeOK
  BY DEF ClientInd
<1> QED BY <1>1, Inductive, PTL

\* However many replaced sockets close late, the one in use keeps its keepalive.
THEOREM KeepaliveKept == Spec => []KeepaliveWhileOpen
<1>1. ClientInd => KeepaliveWhileOpen
  BY DEF ClientInd
<1> QED BY <1>1, Inductive, PTL
=============================================================================
