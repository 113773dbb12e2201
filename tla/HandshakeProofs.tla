--------------------------- MODULE HandshakeProofs ---------------------------
(***************************************************************************)
(* Theorems about DtlsHandshake, for datagrams and fragments of any size,  *)
(* any offer of curves, with and without client certificates, and any      *)
(* number of datagrams lost and timers that fire early.                    *)
(***************************************************************************)
EXTENDS HandshakeLemmas

-----------------------------------------------------------------------------
(* The packets of a flight                                                 *)

PacketTypes == Types \cup {"ChangeCipherSpec"}

\* What each flight consists of, by position.
LEMMA FlightPackets ==
    ASSUME NEW s \in Sides, NEW f \in 0 .. 6, NEW types, types = Packets(s, f)
    PROVE  /\ types \in Seq(PacketTypes)
           /\ f = 0 => Len(types) = 0
           /\ f \in {1, 3} => Len(types) = 1 /\ types[1] = "ClientHello"
           /\ f = 2 => Len(types) = 1 /\ types[1] = "HelloVerifyRequest"
           /\ f = 4 /\ ClientAuth =>
                /\ Len(types) = 5 /\ types[1] = "ServerHello" /\ types[2] = "Certificate"
                /\ types[3] = "ServerKeyExchange" /\ types[4] = "CertificateRequest"
                /\ types[5] = "ServerHelloDone"
           /\ f = 4 /\ ~ClientAuth =>
                /\ Len(types) = 4 /\ types[1] = "ServerHello" /\ types[2] = "Certificate"
                /\ types[3] = "ServerKeyExchange" /\ types[4] = "ServerHelloDone"
           /\ f = 5 /\ Requested(s) =>
                /\ Len(types) = 5 /\ types[1] = "Certificate" /\ types[2] = "ClientKeyExchange"
                /\ types[3] = "CertificateVerify" /\ types[4] = "ChangeCipherSpec"
                /\ types[5] = "Finished"
           /\ f = 5 /\ ~Requested(s) =>
                /\ Len(types) = 3 /\ types[1] = "ClientKeyExchange"
                /\ types[2] = "ChangeCipherSpec" /\ types[3] = "Finished"
           /\ f = 6 => /\ Len(types) = 2 /\ types[1] = "ChangeCipherSpec"
                       /\ types[2] = "Finished"
<1>0. {"ClientHello", "HelloVerifyRequest", "ServerHello", "Certificate", "ServerKeyExchange",
      "CertificateRequest", "ServerHelloDone", "ClientKeyExchange", "CertificateVerify",
      "ChangeCipherSpec", "Finished"} \subseteq PacketTypes
  BY DEF PacketTypes, Types
<1>1. CASE f = 0
  <2>1. types = <<>>
    BY <1>1 DEF Packets
  <2>2. types \in Seq(PacketTypes)
    BY <1>0, <2>1
  <2>3. Len(types) = 0
    BY <2>1
  <2> QED BY <1>1, <2>2, <2>3
<1>2. CASE f \in {1, 3}
  <2>1. types = <<"ClientHello">>
    BY <1>2 DEF Packets
  <2>2. types \in Seq(PacketTypes)
    BY <1>0, <2>1
  <2>3. Len(types) = 1 /\ types[1] = "ClientHello"
    BY <2>1
  <2> QED BY <1>2, <2>2, <2>3
<1>3. CASE f = 2
  <2>1. types = <<"HelloVerifyRequest">>
    BY <1>3 DEF Packets
  <2>2. types \in Seq(PacketTypes)
    BY <1>0, <2>1
  <2>3. Len(types) = 1 /\ types[1] = "HelloVerifyRequest"
    BY <2>1
  <2> QED BY <1>3, <2>2, <2>3
<1>4. CASE f = 4 /\ ClientAuth
  <2>1. types = <<"ServerHello", "Certificate", "ServerKeyExchange", "CertificateRequest", "ServerHelloDone">>
    BY <1>4 DEF Packets
  <2>2. types \in Seq(PacketTypes)
    BY <1>0, <2>1
  <2>3. Len(types) = 5 /\ types[1] = "ServerHello" /\ types[2] = "Certificate" /\ types[3] = "ServerKeyExchange" /\ types[4] = "CertificateRequest" /\ types[5] = "ServerHelloDone"
    BY <2>1
  <2> QED BY <1>4, <2>2, <2>3
<1>5. CASE f = 4 /\ ~ClientAuth
  <2>1. types = <<"ServerHello", "Certificate", "ServerKeyExchange", "ServerHelloDone">>
    BY <1>5 DEF Packets
  <2>2. types \in Seq(PacketTypes)
    BY <1>0, <2>1
  <2>3. Len(types) = 4 /\ types[1] = "ServerHello" /\ types[2] = "Certificate" /\ types[3] = "ServerKeyExchange" /\ types[4] = "ServerHelloDone"
    BY <2>1
  <2> QED BY <1>5, <2>2, <2>3
<1>6. CASE f = 5 /\ Requested(s)
  <2>1. types = <<"Certificate", "ClientKeyExchange", "CertificateVerify", "ChangeCipherSpec", "Finished">>
    BY <1>6 DEF Packets
  <2>2. types \in Seq(PacketTypes)
    BY <1>0, <2>1
  <2>3. Len(types) = 5 /\ types[1] = "Certificate" /\ types[2] = "ClientKeyExchange" /\ types[3] = "CertificateVerify" /\ types[4] = "ChangeCipherSpec" /\ types[5] = "Finished"
    BY <2>1
  <2> QED BY <1>6, <2>2, <2>3
<1>7. CASE f = 5 /\ ~Requested(s)
  <2>1. types = <<"ClientKeyExchange", "ChangeCipherSpec", "Finished">>
    BY <1>7 DEF Packets
  <2>2. types \in Seq(PacketTypes)
    BY <1>0, <2>1
  <2>3. Len(types) = 3 /\ types[1] = "ClientKeyExchange" /\ types[2] = "ChangeCipherSpec" /\ types[3] = "Finished"
    BY <2>1
  <2> QED BY <1>7, <2>2, <2>3
<1>8. CASE f = 6
  <2>1. types = <<"ChangeCipherSpec", "Finished">>
    BY <1>8 DEF Packets
  <2>2. types \in Seq(PacketTypes)
    BY <1>0, <2>1
  <2>3. Len(types) = 2 /\ types[1] = "ChangeCipherSpec" /\ types[2] = "Finished"
    BY <2>1
  <2> QED BY <1>8, <2>2, <2>3
<1> QED BY <1>1, <1>2, <1>3, <1>4, <1>5, <1>6, <1>7, <1>8

-----------------------------------------------------------------------------
(* What the invariant says of a state                                      *)

LEMMA TwoSides ==
    /\ "client" \in Sides /\ "server" \in Sides /\ "client" # "server"
    /\ Peer("client") = "server" /\ Peer("server") = "client"
    /\ \A s \in Sides : s = "client" \/ s = "server"
  BY DEF Sides, Peer

LEMMA MadeMessages ==
    ASSUME Shape, NEW s \in Sides
    PROVE  /\ From(ctx[s], s) \subseteq Made(s)
           /\ \A m \in Made(s) : m \in MessageSet /\ m.from = s
<1>1. ctx[s].cache \subseteq MessageSet /\ flights[s] \in Seq(PacketSet)
  BY DEF Shape, ContextSet
<1>2. \A m \in From(ctx[s], s) : m \in MessageSet /\ m.from = s
  BY <1>1 DEF From
<1>3. ASSUME NEW p \in ToSet(flights[s]), p.type # "ChangeCipherSpec"
      PROVE  MessageOf(s, p) \in MessageSet /\ MessageOf(s, p).from = s
  <2>1. p \in PacketSet
    BY <1>1 DEF ToSet
  <2>2. p.type \in Types /\ p.epoch \in {0, 1} /\ p.seq \in Nat /\ p.data \in DataSet
    BY <1>3, <2>1 DEF PacketSet
  <2> QED BY <2>2 DEF MessageOf, Message, MessageSet
<1> QED BY <1>2, <1>3 DEF Made

LEMMA ReceivedMade ==
    ASSUME Shape, Transport, NEW s \in Sides, NEW m \in From(ctx[s], Peer(s))
    PROVE  m \in From(ctx[Peer(s)], Peer(s)) /\ m \in Made(Peer(s))
<1>1. m \in ctx[Peer(s)].cache /\ m.from = Peer(s)
  BY DEF Transport, Sound, From
<1>2. m \in From(ctx[Peer(s)], Peer(s))
  BY <1>1 DEF From
<1> QED BY <1>2, PeerSides, MadeMessages

\* Whoever has a message of the peer has all the earlier ones.
LEMMA Prefix ==
    ASSUME Shape, Numbers, Transport, NEW s \in Sides,
           NEW m \in From(ctx[s], Peer(s)), NEW x \in Made(Peer(s)), x.seq <= m.seq
    PROVE  x \in From(ctx[s], Peer(s))
<1>1. {n.seq : n \in From(ctx[s], Peer(s))} = 0 .. ctx[s].current - 1
  BY DEF Transport, Sound
<1>2. ctx[s].current \in Nat
  BY DEF Shape, ContextSet
<1>3. m.seq \in 0 .. ctx[s].current - 1
  BY <1>1
<1>4. x.seq \in Nat
  BY PeerSides, MadeMessages DEF MessageSet
<1>5. x.seq \in 0 .. ctx[s].current - 1
  BY <1>2, <1>3, <1>4
<1>6. PICK n \in From(ctx[s], Peer(s)) : n.seq = x.seq
  BY <1>1, <1>5
<1>7. n \in Made(Peer(s))
  BY ReceivedMade
<1>8. n = x
  BY <1>6, <1>7, PeerSides DEF Numbers
<1> QED BY <1>8

LEMMA CacheBound ==
    ASSUME Shape, Numbers, Transport, NEW s \in Sides
    PROVE  /\ ctx[s].cache \in SUBSET MessageSet
           /\ sendSeq["client"] + sendSeq["server"] \in Nat
           /\ \A m \in ctx[s].cache :
                /\ m \in From(ctx[s], s) \/ m \in From(ctx[s], Peer(s))
                /\ m.seq < sendSeq["client"] + sendSeq["server"]
<1>1. ctx[s].cache \in SUBSET MessageSet
  BY DEF Shape, ContextSet
<1>2. sendSeq["client"] \in Nat /\ sendSeq["server"] \in Nat
  BY TwoSides DEF Shape
<1>3. ASSUME NEW m \in ctx[s].cache
      PROVE  /\ m \in From(ctx[s], s) \/ m \in From(ctx[s], Peer(s))
             /\ m.seq < sendSeq["client"] + sendSeq["server"]
  <2>1. m.from \in Sides /\ m.seq \in Nat
    BY <1>1 DEF MessageSet
  <2>2. m.from = s \/ m.from = Peer(s)
    BY <2>1, TwoSides
  <2>3. m \in From(ctx[s], s) \/ m \in From(ctx[s], Peer(s))
    BY <2>2 DEF From
  <2>4. m \in Made(m.from)
    BY <2>2, <2>3, MadeMessages, ReceivedMade DEF From
  <2>5. m.seq < sendSeq[m.from]
    BY <2>1, <2>4 DEF Numbers
  <2>6. m.from = "client" \/ m.from = "server"
    BY <2>1, TwoSides
  <2> QED BY <1>2, <2>1, <2>3, <2>5, <2>6
<1> QED BY <1>1, <1>2, <1>3

\* A message that is in the cache is found, or a newer one like it.
LEMMA Found ==
    ASSUME Shape, Numbers, Transport, NEW s \in Sides, NEW m \in ctx[s].cache,
           NEW r, Matches(m, r)
    PROVE  Newest(ctx[s].cache, r) # {}
<1> DEFINE B == sendSeq["client"] + sendSeq["server"]
           c == ctx[s].cache
<1>1. c \in SUBSET MessageSet /\ B \in Nat /\ \A n \in c : n.seq < B
  BY CacheBound
<1> HIDE DEF B
<1> QED BY <1>1, NewestExists

-----------------------------------------------------------------------------
(* What a step leaves alone                                                *)

LEMMA NumbersStay ==
    ASSUME Numbers, UNCHANGED sendSeq,
           \A s \in Sides :
             /\ Made(s)' = Made(s) /\ From(ctx'[s], s) = From(ctx[s], s)
             /\ flights'[s] = flights[s]
             /\ ctx[s].secret = {} \/ ctx'[s].secret = ctx[s].secret
             /\ fsm[s] = "sending" => fsm'[s] = "sending"
    PROVE  Numbers'
<1> SUFFICES ASSUME NEW s \in Sides
             PROVE  /\ \A m \in Made(s)' :
                         /\ m.seq < sendSeq'[s]
                         /\ m.epoch = 1 <=> m.type = "Finished"
                         /\ m.type # "Finished" => m.data = {}
                    /\ \A m, n \in Made(s)' : m.seq = n.seq => m = n
                    /\ \A p \in ToSet(flights'[s]) :
                         /\ p.epoch = 1 <=> p.type = "Finished"
                         /\ p.epoch = 1 => p.key = ctx'[s].secret /\ p.key # {}
                    /\ fsm'[s] # "sending" => Made(s)' = From(ctx'[s], s)
  BY DEF Numbers
<1>1. \A m \in Made(s)' :
        /\ m.seq < sendSeq'[s]
        /\ m.epoch = 1 <=> m.type = "Finished"
        /\ m.type # "Finished" => m.data = {}
  BY DEF Numbers
<1>2. \A m, n \in Made(s)' : m.seq = n.seq => m = n
  BY DEF Numbers
<1>3. \A p \in ToSet(flights'[s]) :
        /\ p.epoch = 1 <=> p.type = "Finished"
        /\ p.epoch = 1 => p.key = ctx'[s].secret /\ p.key # {}
  BY DEF Numbers
<1>4. fsm'[s] # "sending" => Made(s)' = From(ctx'[s], s)
  BY DEF Numbers
<1> QED BY <1>1, <1>2, <1>3, <1>4

LEMMA ClientFlowStays ==
    ASSUME ClientFlow,
           flight'["client"] = flight["client"], recvSeq'["client"] = recvSeq["client"],
           sendSeq'["client"] = sendSeq["client"], Made("client")' = Made("client"),
           ctx'["client"].secret = ctx["client"].secret,
           From(ctx["client"], "server") \subseteq From(ctx'["client"], "server"),
           fsm'["client"] = "preparing" <=> fsm["client"] = "preparing",
           fsm'["client"] = "done" => fsm["client"] = "done"
    PROVE  ClientFlow'
  BY DEF ClientFlow

LEMMA ServerFlowStays ==
    ASSUME ServerFlow,
           flight'["server"] = flight["server"], recvSeq'["server"] = recvSeq["server"],
           sendSeq'["server"] = sendSeq["server"], Made("server")' = Made("server"),
           (\E m \in Made("server") : m.type = "Finished") =>
             /\ ctx'["server"].secret = ctx["server"].secret
             /\ From(ctx'["client"], "client") = From(ctx["client"], "client"),
           From(ctx["server"], "client") \subseteq From(ctx'["server"], "client"),
           fsm'["server"] = "preparing" <=> fsm["server"] = "preparing",
           fsm'["server"] = "done" => flight["server"] = 6
    PROVE  ServerFlow'
  BY DEF ServerFlow

LEMMA TransportStays ==
    ASSUME Transport,
           \A s \in Sides : Advances(ctx[s], ctx'[s]) /\ Sound(s, ctx'[s], ctx[Peer(s)]),
           \A s \in Sides : AllGenuine(Peer(s), ctx[Peer(s)], inbox'[s].records),
           \A d \in network' \ network : AllGenuine(Peer(d.to), ctx'[Peer(d.to)], d.records),
           \A d \in network : d.to \in Sides
    PROVE  Transport'
<1>1. \A d \in network' : AllGenuine(Peer(d.to), ctx'[Peer(d.to)], d.records)
  BY PeerSides, AllGenuineStays DEF Transport
<1>2. \A s \in Sides : AllGenuine(Peer(s), ctx'[Peer(s)], inbox'[s].records)
  BY PeerSides, AllGenuineStays
<1>3. \A s \in Sides : Sound(s, ctx'[s], ctx'[Peer(s)])
  BY PeerSides, SoundStays
<1> QED BY <1>1, <1>2, <1>3 DEF Transport

LEMMA PossessionStays ==
    ASSUME Possession, ctx'["server"].secret = ctx["server"].secret,
           From(ctx'["server"], "client") = From(ctx["server"], "client")
    PROVE  Possession'
  BY DEF Possession

\* The steps that leave the contexts and the flights.
LEMMA ContextsStay ==
    ASSUME Shape, Numbers, Transport, Possession, UNCHANGED <<flights, sendSeq, ctx>>,
           \A s \in Sides : fsm[s] = "sending" => fsm'[s] = "sending",
           \A s \in Sides : AllGenuine(Peer(s), ctx[Peer(s)], inbox'[s].records),
           \A d \in network' \ network : d.records = <<Alert>>
    PROVE  Numbers' /\ Transport' /\ Possession'
<1>1. \A s \in Sides : Made(s)' = Made(s)
  BY DEF Made
<1>2. Numbers'
  BY <1>1, NumbersStay
<1>3. \A s \in Sides : Advances(ctx[s], ctx'[s])
  BY DEF Advances
<1>4. \A s \in Sides : Sound(s, ctx'[s], ctx[Peer(s)])
  BY DEF Transport
<1>5. \A d \in network' \ network : AllGenuine(Peer(d.to), ctx'[Peer(d.to)], d.records)
  BY DEF AllGenuine
<1>6. \A d \in network : d.to \in Sides
  BY DEF Shape
<1>7. Transport'
  BY <1>3, <1>4, <1>5, <1>6, TransportStays
<1>8. Possession'
  BY PossessionStays
<1> QED BY <1>2, <1>7, <1>8

LEMMA FlowsStay ==
    ASSUME ClientFlow, ServerFlow,
           UNCHANGED <<flight, recvSeq, flights, sendSeq, ctx>>,
           \A s \in Sides : /\ fsm'[s] = "preparing" <=> fsm[s] = "preparing"
                            /\ fsm'[s] = "done" => fsm[s] = "done"
    PROVE  ClientFlow' /\ ServerFlow'
<1>1. \A s \in Sides : Made(s)' = Made(s)
  BY DEF Made
<1>2. ClientFlow'
  BY <1>1, TwoSides, ClientFlowStays
<1>3. fsm'["server"] = "done" => flight["server"] = 6
  BY TwoSides DEF ServerFlow
<1>4. ServerFlow'
  BY <1>1, <1>3, TwoSides, ServerFlowStays
<1> QED BY <1>2, <1>4

-----------------------------------------------------------------------------
(* The steps that neither read a record nor prepare, send or parse a flight *)

LEMMA ReceiveKeeps ==
    ASSUME HandshakeInd, NEW s \in Sides, Receive(s)
    PROVE  HandshakeInd'
<1> USE DEF HandshakeInd
<1>1. UNCHANGED <<offer, flight, fsm, flights, sendSeq, recvSeq, ctx, reader, faults>>
  BY DEF Receive
<1>2. PICK d \in network :
        /\ d.to = s /\ network' = network \ {d}
        /\ inbox' = [inbox EXCEPT ![s].records = d.records]
  BY DEF Receive
<1>3. d \in [to : Sides, records : RecordsSet]
  BY DEF Shape
<1>4. inbox \in [Sides -> [records : RecordsSet, handshake : BOOLEAN]]
  BY DEF Shape
<1>5. \A x \in Sides : /\ inbox'[x].records = IF x = s THEN d.records ELSE inbox[x].records
                       /\ inbox'[x].handshake = inbox[x].handshake
  BY <1>2, <1>4
<1>6. Shape'
  <2>1. inbox' \in [Sides -> [records : RecordsSet, handshake : BOOLEAN]]
    BY <1>2, <1>3, <1>4
  <2>2. network' \subseteq [to : Sides, records : RecordsSet]
    BY <1>2 DEF Shape
  <2> QED BY <1>1, <2>1, <2>2 DEF Shape
<1>7. \A x \in Sides : AllGenuine(Peer(x), ctx[Peer(x)], inbox'[x].records)
  BY <1>2, <1>5 DEF Transport
<1>8. Numbers' /\ Transport' /\ Possession'
  BY <1>1, <1>2, <1>7, ContextsStay
<1>9. ClientFlow' /\ ServerFlow'
  BY <1>1, FlowsStay
<1>10. FirstMessage'
  BY <1>1, <1>5, TwoSides DEF FirstMessage
<1>11. NoAlert'
  BY <1>1, <1>2, <1>5 DEF NoAlert
<1> QED BY <1>6, <1>8, <1>9, <1>10, <1>11

LEMMA ReadAlertKeeps ==
    ASSUME HandshakeInd, NEW s \in Sides, ReadAlert(s)
    PROVE  HandshakeInd'
<1> USE DEF HandshakeInd
<1>1. UNCHANGED <<offer, flight, fsm, flights, sendSeq, recvSeq, ctx, faults>>
  BY DEF ReadAlert
<1>2. /\ inbox[s].records = <<Alert>>
      /\ inbox' = [inbox EXCEPT ![s] = Idle]
      /\ network' = network \cup {[to |-> Peer(s), records |-> <<Alert>>]}
      /\ reader' = [reader EXCEPT ![s] = "exited"]
  BY DEF ReadAlert, SendAlert
<1>4. inbox \in [Sides -> [records : RecordsSet, handshake : BOOLEAN]]
  BY DEF Shape
<1>5. \A x \in Sides : inbox'[x] = IF x = s THEN Idle ELSE inbox[x]
  BY <1>2, <1>4
<1>6. Shape'
  <2>1. Idle \in [records : RecordsSet, handshake : BOOLEAN]
    BY DEF Idle, RecordsSet
  <2>2. inbox' \in [Sides -> [records : RecordsSet, handshake : BOOLEAN]]
    BY <1>2, <1>4, <2>1
  <2>3. [to |-> Peer(s), records |-> <<Alert>>] \in [to : Sides, records : RecordsSet]
    BY PeerSides DEF RecordsSet
  <2>4. network' \subseteq [to : Sides, records : RecordsSet]
    BY <1>2, <2>3 DEF Shape
  <2>5. reader' \in [Sides -> {"reading", "offering", "waiting", "exited"}]
    BY <1>2 DEF Shape
  <2> QED BY <1>1, <2>2, <2>4, <2>5 DEF Shape
<1>7. \A x \in Sides : AllGenuine(Peer(x), ctx[Peer(x)], inbox'[x].records)
  <2>1. \A y, p : AllGenuine(y, p, Idle.records)
    BY DEF AllGenuine, Idle
  <2> QED BY <1>5, <2>1 DEF Transport
<1>8. Numbers' /\ Transport' /\ Possession'
  <2>1. \A d \in network' \ network : d.records = <<Alert>>
    BY <1>2
  <2> QED BY <1>1, <1>7, <2>1, ContextsStay
<1>9. ClientFlow' /\ ServerFlow'
  BY <1>1, FlowsStay
<1>10. FirstMessage'
  <2>1. \A x \in Sides : /\ inbox'[x].handshake => inbox[x].handshake
                         /\ reader'[x] \in {"offering", "waiting"} =>
                              reader[x] \in {"offering", "waiting"}
    BY <1>2, <1>5 DEF Idle, Shape
  <2> QED BY <1>1, <2>1, TwoSides DEF FirstMessage
<1>11. NoAlert'
  BY <1>1, <1>2 DEF NoAlert
<1> QED BY <1>6, <1>8, <1>9, <1>10, <1>11

LEMMA OfferKeeps ==
    ASSUME HandshakeInd, NEW s \in Sides, Offer(s) \/ OfferDropped(s) \/ ReaderDropped(s)
    PROVE  HandshakeInd'
<1> USE DEF HandshakeInd
<1>1. UNCHANGED <<offer, flight, fsm, flights, sendSeq, recvSeq, ctx, inbox, network, faults>>
  BY DEF Offer, OfferDropped, ReaderDropped
<1>2. /\ reader' \in [Sides -> {"reading", "offering", "waiting", "exited"}]
      /\ \A x \in Sides :
           /\ reader'[x] \in {"offering", "waiting"} => reader[x] \in {"offering", "waiting"}
           /\ reader'[x] = "exited" => reader[x] = "exited" \/ fsm[x] = "errored"
  BY DEF Offer, OfferDropped, ReaderDropped, Shape
<1>3. Shape'
  BY <1>1, <1>2 DEF Shape
<1>4. Numbers' /\ Transport' /\ Possession'
  BY <1>1, ContextsStay DEF Transport
<1>5. ClientFlow' /\ ServerFlow'
  BY <1>1, FlowsStay
<1>6. FirstMessage'
  BY <1>1, <1>2, TwoSides DEF FirstMessage
<1>7. NoAlert'
  BY <1>1, <1>2 DEF NoAlert
<1> QED BY <1>3, <1>4, <1>5, <1>6, <1>7

LEMMA TimerKeeps ==
    ASSUME HandshakeInd, NEW s \in Sides, Timer(s)
    PROVE  HandshakeInd'
<1> USE DEF HandshakeInd
<1>1. UNCHANGED <<offer, flight, flights, sendSeq, recvSeq, ctx, reader, inbox, network>>
  BY DEF Timer
<1>2. fsm[s] = "waiting" /\ fsm' = [fsm EXCEPT ![s] = "sending"]
  BY DEF Timer
<1>3. Shape'
  <2>1. faults' \in 0 .. MaxFaults
    BY HandshakeAssumption DEF Timer, Fault, Shape
  <2>2. fsm' \in [Sides -> {"preparing", "sending", "waiting", "done", "errored"}]
    BY <1>2 DEF Shape
  <2> QED BY <1>1, <2>1, <2>2 DEF Shape
<1>4. \A x \in Sides : fsm'[x] = fsm[x] \/ (fsm[x] = "waiting" /\ fsm'[x] = "sending")
  BY <1>2 DEF Shape
<1>5. Numbers' /\ Transport' /\ Possession'
  BY <1>1, <1>4, ContextsStay DEF Transport
<1>6. ClientFlow' /\ ServerFlow'
  BY <1>1, <1>4, FlowsStay
<1>7. FirstMessage'
  BY <1>1 DEF FirstMessage
<1>8. NoAlert'
  BY <1>1, <1>4 DEF NoAlert
<1> QED BY <1>3, <1>5, <1>6, <1>7, <1>8

LEMMA ReaderGoneKeeps ==
    ASSUME HandshakeInd, NEW s \in Sides, ReaderGone(s)
    PROVE  HandshakeInd'
<1> USE DEF HandshakeInd
<1>1. UNCHANGED <<offer, flight, flights, sendSeq, recvSeq, ctx, reader, inbox, network, faults>>
  BY DEF ReaderGone
<1>2. fsm[s] = "waiting" /\ reader[s] = "exited" /\ fsm' = [fsm EXCEPT ![s] = "errored"]
  BY DEF ReaderGone
<1>3. Shape'
  BY <1>1, <1>2 DEF Shape
<1>4. \A x \in Sides : fsm'[x] = fsm[x] \/ (fsm[x] = "waiting" /\ fsm'[x] = "errored")
  BY <1>2 DEF Shape
<1>5. Numbers' /\ Transport' /\ Possession'
  BY <1>1, <1>4, ContextsStay DEF Transport
<1>6. ClientFlow' /\ ServerFlow'
  BY <1>1, <1>4, FlowsStay
<1>7. FirstMessage'
  BY <1>1 DEF FirstMessage
<1>8. NoAlert'
  BY <1>1, <1>2 DEF NoAlert
<1> QED BY <1>3, <1>5, <1>6, <1>7, <1>8

LEMMA LoseKeeps ==
    ASSUME HandshakeInd, Lose
    PROVE  HandshakeInd'
<1> USE DEF HandshakeInd
<1>1. UNCHANGED <<offer, flight, fsm, flights, sendSeq, recvSeq, ctx, reader, inbox>>
  BY DEF Lose
<1>2. network' \subseteq network
  BY DEF Lose
<1>3. Shape'
  <2>1. faults' \in 0 .. MaxFaults
    BY HandshakeAssumption DEF Lose, Fault, Shape
  <2> QED BY <1>1, <1>2, <2>1 DEF Shape
<1>4. Numbers' /\ Transport' /\ Possession'
  BY <1>1, <1>2, ContextsStay DEF Transport
<1>5. ClientFlow' /\ ServerFlow'
  BY <1>1, FlowsStay
<1>6. FirstMessage' /\ NoAlert'
  BY <1>1, <1>2 DEF FirstMessage, NoAlert
<1> QED BY <1>3, <1>4, <1>5, <1>6

-----------------------------------------------------------------------------
(* Reading records                                                         *)

LEMMA PeerBounded ==
    ASSUME Shape, Numbers, NEW s \in Sides
    PROVE  /\ ctx[s] \in ContextSet /\ ctx[Peer(s)] \in ContextSet
           /\ sendSeq[Peer(s)] \in Nat
           /\ Bounded(ctx[Peer(s)], Peer(s), sendSeq[Peer(s)])
  BY PeerSides, MadeMessages DEF Shape, Numbers, Bounded

\* The server knows the client's key exchange before it has keys, and with it
\* any certificate: what comes later is none.
LEMMA PossessionGrows ==
    ASSUME HandshakeInd, NEW d \in ContextSet, Sound("server", d, ctx["client"]),
           From(ctx["server"], "client") \subseteq From(d, "client"), ctx'["server"] = d,
           d.secret # {} =>
             LET got(t) == \E m \in From(ctx["server"], "client") : m.type = t /\ m.epoch = 0
             IN got("ClientKeyExchange") /\ (got("Certificate") => got("CertificateVerify"))
    PROVE  Possession'
<1> USE DEF HandshakeInd
<1>1. SUFFICES ASSUME d.secret # {}
               PROVE  LET got(t) == \E m \in From(d, "client") : m.type = t /\ m.epoch = 0
                      IN got("ClientKeyExchange") /\ (got("Certificate") => got("CertificateVerify"))
  BY DEF Possession
<1>2. PICK k \in From(ctx["server"], "client") : k.type = "ClientKeyExchange" /\ k.epoch = 0
  BY <1>1
<1>3. ASSUME NEW m \in From(d, "client"), m.type = "Certificate", m.epoch = 0
      PROVE  \E n \in From(d, "client") : n.type = "CertificateVerify" /\ n.epoch = 0
  <2>1. m \in ctx["client"].cache
    BY TwoSides DEF Sound
  <2>2. m \in Made("client") /\ k \in Made("client")
    BY <2>1, TwoSides, MadeMessages, ReceivedMade DEF From
  <2>3. m.seq < k.seq
    BY <1>2, <1>3, <2>2 DEF ClientFlow
  <2>4. m.seq \in Nat /\ k.seq \in Nat
    BY <2>2, TwoSides, MadeMessages DEF MessageSet
  <2>5. m \in From(ctx["server"], "client")
    BY <2>2, <2>3, <2>4, TwoSides, Prefix
  <2>6. \E n \in From(ctx["server"], "client") : n.type = "CertificateVerify" /\ n.epoch = 0
    BY <1>1, <1>3, <2>5
  <2> QED BY <2>6
<1> QED BY <1>2, <1>3

\* A client that has not got the cookie has nothing to receive but a
\* HelloVerifyRequest, the server's first message.
LEMMA OnlyHelloVerify ==
    ASSUME HandshakeInd, flight["client"] = 1, NEW m \in Made("server")
    PROVE  /\ m.type = "HelloVerifyRequest" /\ m.seq = 0 /\ m.epoch = 0
           /\ flight["server"] \in {0, 2}
<1> USE DEF HandshakeInd
<1>1. flight["server"] \notin {4, 6}
  <2> SUFFICES ASSUME flight["server"] \in {4, 6} PROVE FALSE
    OBVIOUS
  <2>1. PICK n \in From(ctx["server"], "client") : n.seq = 1
    BY DEF ServerFlow
  <2>2. n \in Made("client")
    BY TwoSides, ReceivedMade
  <2>3. n.seq < sendSeq["client"]
    BY <2>2, TwoSides DEF Numbers
  <2>4. sendSeq["client"] \in {0, 1}
    BY DEF ClientFlow
  <2> QED BY <2>1, <2>3, <2>4
<1>2. flight["server"] \in {0, 2}
  BY <1>1 DEF ServerFlow
<1>3. m.type = "HelloVerifyRequest" /\ m.seq = 0
  BY <1>2 DEF ServerFlow
<1>4. m.epoch = 0
  <2>1. m.epoch # 1
    BY <1>3, TwoSides DEF Numbers
  <2>2. m.epoch \in {0, 1}
    BY TwoSides, MadeMessages DEF MessageSet
  <2> QED BY <2>1, <2>2
<1> QED BY <1>2, <1>3, <1>4

LEMMA ReadRecordKeeps ==
    ASSUME HandshakeInd, NEW s \in Sides, ReadRecord(s)
    PROVE  HandshakeInd'
<1> USE DEF HandshakeInd
<1> DEFINE rs == inbox[s].records
           r == Head(rs)
           d == Incoming(s, ctx[s], r, TRUE)
           more == inbox[s].handshake \/ IsHandshake(ctx[s], r)
           rest == IF Len(rs) = 1 THEN Idle ELSE [records |-> Tail(rs), handshake |-> more]
<1>1. UNCHANGED <<offer, flight, fsm, flights, sendSeq, recvSeq, network, faults>>
  BY DEF ReadRecord
<1>2. /\ rs \notin {<<>>, <<Alert>>}
      /\ ctx' = [ctx EXCEPT ![s] = d]
      /\ inbox' = [inbox EXCEPT ![s] = rest]
      /\ reader' = [reader EXCEPT ![s] = IF Len(rs) = 1 /\ more THEN "offering" ELSE @]
  BY DEF ReadRecord
<1>3. inbox \in [Sides -> [records : RecordsSet, handshake : BOOLEAN]] /\ ctx \in [Sides -> ContextSet]
      /\ reader \in [Sides -> {"reading", "offering", "waiting", "exited"}]
  BY DEF Shape
<1>4. rs \in Seq(RecordSet) /\ rs # <<>>
  BY <1>2, <1>3 DEF RecordsSet
<1>5. r \in RecordSet /\ Tail(rs) \in Seq(RecordSet)
  BY <1>4
<1>6. \A i \in DOMAIN rs : Genuine(Peer(s), ctx[Peer(s)], rs[i])
  BY <1>2 DEF Transport, AllGenuine
<1>7. Genuine(Peer(s), ctx[Peer(s)], r)
  BY <1>4, <1>6
<1>8. AllGenuine(Peer(s), ctx[Peer(s)], Tail(rs))
  <2>1. \A i \in DOMAIN Tail(rs) : Tail(rs)[i] = rs[i + 1] /\ i + 1 \in DOMAIN rs
    BY <1>4
  <2> QED BY <1>6, <2>1 DEF AllGenuine
<1>9. /\ d \in ContextSet
      /\ Sound(s, d, ctx[Peer(s)])
      /\ Extends(s, ctx[s], d)
      /\ IsHandshake(ctx[s], r) /\ r.seq = ctx[s].current /\ PartsOf(r.type) = 1
           => From(d, Peer(s)) # {}
  <2>1. Sound(s, ctx[s], ctx[Peer(s)]) /\ TRUE \in BOOLEAN
    BY DEF Transport
  <2> QED BY <1>5, <1>7, <2>1, PeerBounded, IncomingSound
<1> HIDE DEF d
<1>10. /\ rest \in [records : RecordsSet, handshake : BOOLEAN]
       /\ AllGenuine(Peer(s), ctx[Peer(s)], rest.records)
       /\ rest.records # <<Alert>>
       /\ rest.handshake => more
  <2>1. CASE Len(rs) = 1
    <3>1. rest = Idle
      BY <2>1
    <3>2. rest.records = <<>> /\ rest.handshake = FALSE
      BY <3>1 DEF Idle
    <3>3. <<>> \in Seq(RecordSet) /\ <<>> # <<Alert>>
      OBVIOUS
    <3>4. AllGenuine(Peer(s), ctx[Peer(s)], <<>>)
      BY DEF AllGenuine
    <3>5. rest \in [records : RecordsSet, handshake : BOOLEAN]
      BY <3>1, <3>3 DEF Idle, RecordsSet
    <3> HIDE DEF rest, more
    <3> QED BY <3>2, <3>3, <3>4, <3>5
  <2>2. CASE Len(rs) # 1
    <3>1. rest = [records |-> Tail(rs), handshake |-> more]
      BY <2>2
    <3>2. more \in BOOLEAN
      BY <1>3 DEF IsHandshake
    <3> HIDE DEF rest, more
    <3>3. rest.records = Tail(rs) /\ rest.handshake = more
      BY <3>1
    <3> QED BY <1>5, <1>8, <3>1, <3>2, <3>3, NotAlert DEF RecordsSet
  <2> QED BY <2>1, <2>2
<1> HIDE DEF rest
<1>11. \A x \in Sides : inbox'[x] = IF x = s THEN rest ELSE inbox[x]
  BY <1>2, <1>3
<1>12. \A x \in Sides : ctx'[x] = IF x = s THEN d ELSE ctx[x]
  BY <1>2, <1>3
<1>13. \A x \in Sides : Advances(ctx[x], ctx'[x]) /\ From(ctx'[x], x) = From(ctx[x], x)
                        /\ ctx'[x].secret = ctx[x].secret
                        /\ From(ctx[x], Peer(x)) \subseteq From(ctx'[x], Peer(x))
  BY <1>9, <1>12 DEF Extends, Advances, From
<1>14. \A x \in Sides : Made(x)' = Made(x)
  BY <1>1, <1>13 DEF Made
<1>15. Shape'
  <2>1. inbox' \in [Sides -> [records : RecordsSet, handshake : BOOLEAN]]
    BY <1>2, <1>3, <1>10
  <2>2. ctx' \in [Sides -> ContextSet]
    BY <1>2, <1>3, <1>9
  <2>3. reader' \in [Sides -> {"reading", "offering", "waiting", "exited"}]
    BY <1>2, <1>3
  <2> QED BY <1>1, <2>1, <2>2, <2>3 DEF Shape
<1>16. Numbers'
  BY <1>1, <1>13, <1>14, NumbersStay
<1>17. ClientFlow'
  BY <1>1, <1>13, <1>14, TwoSides, ClientFlowStays
<1>18. ServerFlow'
  <2>1. fsm'["server"] = "done" => flight["server"] = 6
    BY <1>1 DEF ServerFlow
  <2> QED BY <1>1, <1>13, <1>14, <2>1, TwoSides, ServerFlowStays
<1>19. Transport'
  <2>1. \A x \in Sides : Sound(x, ctx'[x], ctx[Peer(x)])
    BY <1>9, <1>12 DEF Transport
  <2>2. \A x \in Sides : AllGenuine(Peer(x), ctx[Peer(x)], inbox'[x].records)
    BY <1>10, <1>11 DEF Transport
  <2>3. \A x \in network : x.to \in Sides
    BY DEF Shape
  <2>4. network' \ network = {}
    BY <1>1
  <2> QED BY <1>13, <2>1, <2>2, <2>3, <2>4, TransportStays
<1>20. Possession'
  <2>1. CASE s = "server"
    <3>1. d \in ContextSet /\ Sound("server", d, ctx["client"]) /\ ctx'["server"] = d
          /\ From(ctx["server"], "client") \subseteq From(d, "client")
          /\ d.secret = ctx["server"].secret
      BY <1>9, <1>12, <1>13, <2>1, TwoSides
    <3>2. d.secret # {} =>
            LET got(t) == \E m \in From(ctx["server"], "client") : m.type = t /\ m.epoch = 0
            IN got("ClientKeyExchange") /\ (got("Certificate") => got("CertificateVerify"))
      BY <3>1 DEF Possession
    <3> HIDE DEF HandshakeInd
    <3> QED BY <3>1, <3>2, PossessionGrows
  <2>2. CASE s # "server"
    BY <1>12, <2>2, TwoSides, PossessionStays
  <2> QED BY <2>1, <2>2
<1>21. FirstMessage'
  <2> SUFFICES ASSUME flight'["client"] = 1,
                      inbox'["client"].handshake \/ reader'["client"] \in {"offering", "waiting"}
               PROVE  From(ctx'["client"], "server") # {}
    BY DEF FirstMessage
  <2>1. CASE flight["client"] = 1 /\ (inbox["client"].handshake \/ reader["client"] \in {"offering", "waiting"})
    <3>1. From(ctx["client"], "server") # {}
      BY <2>1 DEF FirstMessage
    <3> QED BY <1>13, <3>1, TwoSides
  <2>2. CASE ~(inbox["client"].handshake \/ reader["client"] \in {"offering", "waiting"})
    <3>1. s = "client" /\ IsHandshake(ctx[s], r)
      BY <1>2, <1>3, <1>10, <1>11, <2>2, TwoSides
    <3>2. Peer(s) = "server" /\ flight["client"] = 1
      BY <1>1, <3>1, TwoSides
    <3>3. r.type # "ChangeCipherSpec"
      BY <3>1 DEF IsHandshake
    <3>4. MessageOf("server", r) \in From(ctx["server"], "server")
      BY <1>7, <3>2, <3>3 DEF Genuine, From, MessageOf, Message
    <3>5. MessageOf("server", r) \in Made("server")
      BY <3>4, TwoSides, MadeMessages
    <3>6. MessageOf("server", r).type = "HelloVerifyRequest" /\ MessageOf("server", r).seq = 0
      BY <3>2, <3>5, OnlyHelloVerify
    <3>7. r.type = "HelloVerifyRequest" /\ r.seq = 0
      BY <3>6 DEF MessageOf, Message
    <3>8. CASE ctx[s].current = 0
      <4>1. From(d, Peer(s)) # {}
        BY <1>9, <3>1, <3>7, <3>8 DEF PartsOf
      <4> QED BY <1>12, <3>1, <3>2, <4>1, TwoSides
    <3>9. CASE ctx[s].current # 0
      <4>1. ctx[s].current \in Nat
        BY <1>3 DEF ContextSet
      <4>2. 0 \in 0 .. ctx[s].current - 1
        BY <3>9, <4>1
      <4>3. From(ctx[s], Peer(s)) # {}
        BY <4>2 DEF Transport, Sound
      <4> QED BY <1>13, <3>1, <3>2, <4>3, TwoSides
    <3> QED BY <3>8, <3>9
  <2> QED BY <1>1, <2>1, <2>2
<1>22. NoAlert'
  <2>1. \A x \in Sides : reader'[x] = "exited" => reader[x] = "exited"
    BY <1>2, <1>3
  <2> QED BY <1>1, <1>10, <1>11, <2>1 DEF NoAlert
<1> QED BY <1>15, <1>16, <1>17, <1>18, <1>19, <1>20, <1>21, <1>22

-----------------------------------------------------------------------------
(* Sending a flight                                                        *)

\* Whoever has the last message of the peer has all it has made.
LEMMA ServerHasAll ==
    ASSUME HandshakeInd, flight["server"] = 6
    PROVE  /\ From(ctx["server"], "client") = Made("client")
           /\ From(ctx["client"], "client") = Made("client")
           /\ flight["client"] = 5 /\ fsm["client"] # "preparing"
<1> USE DEF HandshakeInd
<1>1. PICK m \in From(ctx["server"], "client") : m.epoch = 1
  BY DEF ServerFlow
<1>2. m \in Made("client")
  BY TwoSides, ReceivedMade
<1>3. m.type = "Finished"
  BY <1>1, <1>2, TwoSides DEF Numbers
<1>4. \A n \in Made("client") : n.seq <= m.seq
  BY <1>2, <1>3 DEF ClientFlow
<1>5. \A n \in Made("client") : n \in From(ctx["server"], "client")
  BY <1>4, TwoSides, Prefix
<1>6. \A n \in From(ctx["server"], "client") : n \in From(ctx["client"], "client") /\ n \in Made("client")
  BY TwoSides, ReceivedMade
<1>7. From(ctx["client"], "client") \subseteq Made("client")
  BY TwoSides, MadeMessages
<1>8. flight["client"] = 5 /\ fsm["client"] # "preparing"
  BY <1>2, <1>3 DEF ClientFlow
<1> QED BY <1>5, <1>6, <1>7, <1>8

LEMMA ClientHasAll ==
    ASSUME HandshakeInd, NEW m \in From(ctx["client"], "server"), m.type = "Finished"
    PROVE  /\ From(ctx["client"], "server") = Made("server")
           /\ From(ctx["server"], "server") = Made("server")
<1> USE DEF HandshakeInd
<1>2. m \in Made("server")
  BY TwoSides, ReceivedMade
<1>4. \A n \in Made("server") : n.seq <= m.seq
  BY <1>2 DEF ServerFlow
<1>5. \A n \in Made("server") : n \in From(ctx["client"], "server")
  BY <1>4, TwoSides, Prefix
<1>6. \A n \in From(ctx["client"], "server") : n \in From(ctx["server"], "server") /\ n \in Made("server")
  BY TwoSides, ReceivedMade
<1>7. From(ctx["server"], "server") \subseteq Made("server")
  BY TwoSides, MadeMessages
<1> QED BY <1>5, <1>6, <1>7

LEMMA SendKeeps ==
    ASSUME HandshakeInd, NEW s \in Sides, Send(s)
    PROVE  HandshakeInd'
<1> USE DEF HandshakeInd
<1> DEFINE M == {MessageOf(s, p) : p \in {q \in ToSet(flights[s]) : q.type # "ChangeCipherSpec"}}
           d == [ctx[s] EXCEPT !.cache = Push(@, M)]
<1>1. UNCHANGED <<offer, flight, flights, sendSeq, recvSeq, reader, inbox, faults>>
  BY DEF Send
<1>2. /\ fsm[s] = "sending"
      /\ network' = network \cup Datagrams(s, flights[s])
      /\ ctx' = [ctx EXCEPT ![s] = d]
      /\ fsm' = [fsm EXCEPT ![s] = IF flight[s] = 6 THEN "done" ELSE "waiting"]
  BY DEF Send, MessageOf
<1>3. ctx \in [Sides -> ContextSet] /\ flights[s] \in Seq(PacketSet)
  BY DEF Shape
<1>4. M \subseteq Made(s) /\ Made(s) = From(ctx[s], s) \cup M
  BY DEF Made
<1> HIDE DEF M
<1>5. \A m \in M : m \in MessageSet /\ m.from = s
  BY <1>4, MadeMessages
<1>6. Push(ctx[s].cache, M) = ctx[s].cache \cup M
  <2>1. ASSUME NEW m \in M, NEW c \in ctx[s].cache, ~(c.seq # m.seq \/ c.from # m.from)
        PROVE  c = m
    <3>1. c \in From(ctx[s], s)
      BY <1>5, <2>1 DEF From
    <3>2. c \in Made(s) /\ m \in Made(s) /\ c.seq = m.seq
      BY <1>4, <2>1, <3>1
    <3> QED BY <3>2 DEF Numbers
  <2> QED BY <2>1 DEF Push
<1>7. /\ d \in ContextSet /\ d.cache = ctx[s].cache \cup M /\ d.fragments = ctx[s].fragments
      /\ d.current = ctx[s].current /\ d.queue = ctx[s].queue /\ d.secret = ctx[s].secret
  <2>1. ctx[s].cache \cup M \subseteq MessageSet
    BY <1>3, <1>5 DEF ContextSet
  <2>2. d = [ctx[s] EXCEPT !.cache = ctx[s].cache \cup M]
    BY <1>6
  <2> HIDE DEF d
  <2> QED BY <1>3, <2>1, <2>2 DEF ContextSet
<1> HIDE DEF d
<1>8. From(d, s) = Made(s) /\ From(d, Peer(s)) = From(ctx[s], Peer(s))
  BY <1>4, <1>5, <1>7, PeerSides DEF From
<1>9. \A x \in Sides : ctx'[x] = IF x = s THEN d ELSE ctx[x]
  BY <1>2, <1>3
<1>10. \A x \in Sides : fsm'[x] = IF x = s THEN IF flight[s] = 6 THEN "done" ELSE "waiting"
                                  ELSE fsm[x]
  BY <1>2 DEF Shape
<1>11. \A x \in Sides : Made(x)' = Made(x)
  <2>1. Made(s)' = From(ctx'[s], s) \cup M
    BY <1>1 DEF Made, M
  <2>2. Made(s)' = Made(s)
    BY <1>4, <1>8, <1>9, <2>1
  <2>3. \A x \in Sides \ {s} : Made(x)' = Made(x)
    BY <1>1, <1>9 DEF Made
  <2> QED BY <2>2, <2>3
<1>12. \A x \in Sides : /\ Advances(ctx[x], ctx'[x]) /\ ctx'[x].secret = ctx[x].secret
                        /\ From(ctx'[x], Peer(x)) = From(ctx[x], Peer(x))
  BY <1>7, <1>8, <1>9 DEF Advances
<1>13. Shape'
  <2>1. ctx' \in [Sides -> ContextSet]
    BY <1>2, <1>3, <1>7
  <2>2. fsm' \in [Sides -> {"preparing", "sending", "waiting", "done", "errored"}]
    BY <1>2 DEF Shape
  <2>3. network' \subseteq [to : Sides, records : RecordsSet]
    <3>1. \A x \in Datagrams(s, flights[s]) : x \in [to : Sides, records : RecordsSet]
      <4> SUFFICES ASSUME NEW x \in Datagrams(s, flights[s])
                   PROVE  x \in [to : Sides, records : RecordsSet]
        OBVIOUS
      <4>1. \A p \in ToSet(flights[s]) :
              /\ p.type # "ChangeCipherSpec" => MessageOf(s, p) \in d.cache
              /\ p.epoch = 1 => p.key = d.secret /\ p.key # {}
              /\ p.epoch = 1 <=> p.type = "Finished"
        BY <1>7 DEF Numbers, M
      <4> QED BY <1>3, <4>1, DatagramsGenuine
    <3> QED BY <1>2, <3>1 DEF Shape
  <2> QED BY <1>1, <2>1, <2>2, <2>3 DEF Shape
<1>14. \A x \in Datagrams(s, flights[s]) : x.to = Peer(s) /\ x.records # <<Alert>> /\ AllGenuine(s, d, x.records)
  <2> SUFFICES ASSUME NEW x \in Datagrams(s, flights[s])
               PROVE  x.to = Peer(s) /\ x.records # <<Alert>> /\ AllGenuine(s, d, x.records)
    OBVIOUS
  <2>1. \A p \in ToSet(flights[s]) :
          /\ p.type # "ChangeCipherSpec" => MessageOf(s, p) \in d.cache
          /\ p.epoch = 1 => p.key = d.secret /\ p.key # {}
          /\ p.epoch = 1 <=> p.type = "Finished"
    BY <1>7 DEF Numbers, M
  <2> QED BY <1>3, <2>1, DatagramsGenuine
<1>15. Numbers'
  <2> SUFFICES ASSUME NEW x \in Sides
               PROVE  /\ \A m \in Made(x)' :
                           /\ m.seq < sendSeq'[x]
                           /\ m.epoch = 1 <=> m.type = "Finished"
                           /\ m.type # "Finished" => m.data = {}
                      /\ \A m, n \in Made(x)' : m.seq = n.seq => m = n
                      /\ \A p \in ToSet(flights'[x]) :
                           /\ p.epoch = 1 <=> p.type = "Finished"
                           /\ p.epoch = 1 => p.key = ctx'[x].secret /\ p.key # {}
                      /\ fsm'[x] # "sending" => Made(x)' = From(ctx'[x], x)
    BY DEF Numbers
  <2>1. \A m \in Made(x)' : /\ m.seq < sendSeq'[x]
                            /\ m.epoch = 1 <=> m.type = "Finished"
                            /\ m.type # "Finished" => m.data = {}
    BY <1>1, <1>11 DEF Numbers
  <2>2. \A m, n \in Made(x)' : m.seq = n.seq => m = n
    BY <1>11 DEF Numbers
  <2>3. \A p \in ToSet(flights'[x]) : /\ p.epoch = 1 <=> p.type = "Finished"
                                      /\ p.epoch = 1 => p.key = ctx'[x].secret /\ p.key # {}
    BY <1>1, <1>12 DEF Numbers
  <2>4. fsm'[x] # "sending" => Made(x)' = From(ctx'[x], x)
    BY <1>8, <1>9, <1>10, <1>11 DEF Numbers
  <2> QED BY <2>1, <2>2, <2>3, <2>4
<1>16. ClientFlow'
  <2>1. fsm'["client"] = "preparing" <=> fsm["client"] = "preparing"
    BY <1>2, <1>10, TwoSides
  <2>2. fsm'["client"] = "done" => fsm["client"] = "done"
    BY <1>2, <1>10, TwoSides DEF ClientFlow
  <2> QED BY <1>1, <1>11, <1>12, <2>1, <2>2, TwoSides, ClientFlowStays
<1>17. ServerFlow'
  <2>1. fsm'["server"] = "preparing" <=> fsm["server"] = "preparing"
    BY <1>2, <1>10, TwoSides
  <2>2. fsm'["server"] = "done" => flight["server"] = 6
    BY <1>2, <1>10, TwoSides DEF ServerFlow
  <2>3. (\E m \in Made("server") : m.type = "Finished") =>
             /\ ctx'["server"].secret = ctx["server"].secret
             /\ From(ctx'["client"], "client") = From(ctx["client"], "client")
    <3>1. (\E m \in Made("server") : m.type = "Finished") => flight["server"] = 6
      BY DEF ServerFlow
    <3>2. flight["server"] = 6 => From(ctx["client"], "client") = Made("client")
      BY ServerHasAll
    <3>3. From(ctx'["client"], "client") = From(ctx["client"], "client") \/
            From(ctx'["client"], "client") = Made("client")
      BY <1>8, <1>9, TwoSides
    <3> QED BY <1>12, <3>1, <3>2, <3>3, TwoSides
  <2> QED BY <1>1, <1>11, <1>12, <2>1, <2>2, <2>3, TwoSides, ServerFlowStays
<1>18. Transport'
  <2>1. \A x \in Sides : Sound(x, ctx'[x], ctx[Peer(x)])
    <3>1. Sound(s, d, ctx[Peer(s)])
      <4>1. Sound(s, ctx[s], ctx[Peer(s)])
        BY DEF Transport
      <4> QED BY <1>7, <1>8, <4>1 DEF Sound
    <3> QED BY <1>9, <3>1 DEF Transport
  <2>2. \A x \in Sides : AllGenuine(Peer(x), ctx[Peer(x)], inbox'[x].records)
    BY <1>1 DEF Transport
  <2>3. \A x \in network : x.to \in Sides
    BY DEF Shape
  <2>4. \A x \in network' \ network : AllGenuine(Peer(x.to), ctx'[Peer(x.to)], x.records)
    <3> SUFFICES ASSUME NEW x \in network' \ network
                 PROVE  AllGenuine(Peer(x.to), ctx'[Peer(x.to)], x.records)
      OBVIOUS
    <3>1. x \in Datagrams(s, flights[s])
      BY <1>2
    <3>2. Peer(x.to) = s
      BY <1>14, <3>1, PeerSides
    <3> QED BY <1>9, <1>14, <3>1, <3>2
  <2> QED BY <1>12, <2>1, <2>2, <2>3, <2>4, TransportStays
<1>19. Possession'
  BY <1>12, TwoSides, PossessionStays
<1>20. FirstMessage'
  BY <1>1, <1>12, TwoSides DEF FirstMessage
<1>21. NoAlert'
  BY <1>1, <1>2, <1>10, <1>14 DEF NoAlert
<1> QED BY <1>13, <1>15, <1>16, <1>17, <1>18, <1>19, <1>20, <1>21

-----------------------------------------------------------------------------
(* Parsing flights                                                         *)

LEMMA UsableCurve ==
    ASSUME offer \in Offers, ToSet(offer) \cap Implemented # {}
    PROVE  NamedCurve \in Implemented
<1> DEFINE known == {i \in DOMAIN offer : offer[i] \in Implemented}
<1>1. offer \in Seq(ToSet(offer))
  BY HandshakeAssumption
<1>2. known \in SUBSET Nat
  BY <1>1
<1>3. known # {}
  BY DEF ToSet
<1>4. \E x \in known : \A y \in known : x <= y
  BY <1>2, <1>3, LeastNatural
<1>5. Min(known) \in known
  BY <1>4 DEF Min
<1>6. NamedCurve = offer[Min(known)]
  BY <1>3 DEF NamedCurve
<1> QED BY <1>5, <1>6

\* A flight is parsed without a change to the context.
LEMMA ParseKeeps ==
    ASSUME HandshakeInd, NEW s \in Sides, NEW f, Parse(s, f), UNCHANGED ctx,
           flight' \in [Sides -> 0 .. 6], recvSeq' \in [Sides -> Nat],
           fsm' \in [Sides -> {"preparing", "sending", "waiting", "done", "errored"}],
           \A x \in Sides : x = s \/ fsm'[x] = fsm[x],
           flight'["client"] = 1 => flight["client"] = 1,
           network' = network \/ SendAlert(s)
    PROVE  /\ UNCHANGED <<offer, flights, sendSeq, inbox, faults>>
           /\ Shape' /\ Numbers' /\ Transport' /\ Possession' /\ FirstMessage'
           /\ \A x \in Sides : reader'[x] = "exited" => reader[x] = "exited"
<1> USE DEF HandshakeInd
<1>1. /\ UNCHANGED <<offer, flights, sendSeq, inbox, faults>>
      /\ fsm[s] = "waiting" /\ reader[s] = "waiting"
      /\ reader' = [reader EXCEPT ![s] = "reading"]
  BY DEF Parse
<1>2. \A d \in network' \ network : d = [to |-> Peer(s), records |-> <<Alert>>]
  BY DEF SendAlert
<1>3. Shape'
  <2>1. [to |-> Peer(s), records |-> <<Alert>>] \in [to : Sides, records : RecordsSet]
    BY PeerSides DEF RecordsSet
  <2>2. network' \subseteq [to : Sides, records : RecordsSet]
    BY <1>2, <2>1 DEF Shape
  <2>3. reader' \in [Sides -> {"reading", "offering", "waiting", "exited"}]
    BY <1>1 DEF Shape
  <2> QED BY <1>1, <2>2, <2>3 DEF Shape
<1>4. Numbers' /\ Transport' /\ Possession'
  <2>1. \A d \in network' \ network : d.records = <<Alert>>
    BY <1>2
  <2>2. \A x \in Sides : fsm[x] = "sending" => fsm'[x] = "sending"
    BY <1>1
  <2>3. \A x \in Sides : AllGenuine(Peer(x), ctx[Peer(x)], inbox'[x].records)
    BY <1>1 DEF Transport
  <2> QED BY <1>1, <2>1, <2>2, <2>3, ContextsStay
<1>5. \A x \in Sides : reader'[x] = reader[x] \/ reader'[x] = "reading"
  BY <1>1 DEF Shape
<1>6. FirstMessage'
  BY <1>1, <1>5, TwoSides DEF FirstMessage
<1> QED BY <1>1, <1>3, <1>4, <1>5, <1>6

LEMMA KeepReadingKeeps ==
    ASSUME HandshakeInd, NEW s \in Sides, NEW f, Parse(s, f), UNCHANGED ctx, KeepReading
    PROVE  HandshakeInd'
<1> USE DEF HandshakeInd
<1>1. UNCHANGED <<flight, fsm, recvSeq, network>>
  BY DEF KeepReading
<1>2. flight \in [Sides -> 0 .. 6] /\ recvSeq \in [Sides -> Nat]
      /\ fsm \in [Sides -> {"preparing", "sending", "waiting", "done", "errored"}]
  BY DEF Shape
<1>3. /\ UNCHANGED <<offer, flights, sendSeq, inbox, faults>>
      /\ Shape' /\ Numbers' /\ Transport' /\ Possession' /\ FirstMessage'
      /\ \A x \in Sides : reader'[x] = "exited" => reader[x] = "exited"
  BY <1>1, <1>2, ParseKeeps
<1>4. ClientFlow' /\ ServerFlow'
  BY <1>1, <1>3, FlowsStay
<1>5. NoAlert'
  BY <1>1, <1>3 DEF NoAlert
<1> QED BY <1>3, <1>4, <1>5

\* A side goes on to the next flight.
LEMMA GoToKeeps ==
    ASSUME HandshakeInd, NEW s \in Sides, NEW f, Parse(s, f), UNCHANGED ctx,
           NEW g \in 0 .. 6, NEW n \in Nat, GoTo(s, g, n), g # 1
    PROVE  /\ UNCHANGED <<offer, flights, sendSeq, inbox, faults>>
           /\ Shape' /\ Numbers' /\ Transport' /\ Possession' /\ FirstMessage' /\ NoAlert'
           /\ \A x \in Sides : Made(x)' = Made(x)
           /\ flight'[s] = g /\ recvSeq'[s] = n /\ fsm'[s] = "preparing"
           /\ fsm[s] = "waiting" /\ flight[s] = f
           /\ \A x \in Sides \ {s} : flight'[x] = flight[x] /\ recvSeq'[x] = recvSeq[x]
                                     /\ fsm'[x] = fsm[x]
<1> USE DEF HandshakeInd
<1>1. /\ flight' = [flight EXCEPT ![s] = g] /\ fsm' = [fsm EXCEPT ![s] = "preparing"]
      /\ recvSeq' = [recvSeq EXCEPT ![s] = n] /\ network' = network
      /\ fsm[s] = "waiting" /\ flight[s] = f
  BY DEF GoTo, Parse
<1>2. flight' \in [Sides -> 0 .. 6] /\ recvSeq' \in [Sides -> Nat]
      /\ fsm' \in [Sides -> {"preparing", "sending", "waiting", "done", "errored"}]
  BY <1>1 DEF Shape
<1>3. /\ flight'[s] = g /\ recvSeq'[s] = n /\ fsm'[s] = "preparing"
      /\ \A x \in Sides \ {s} : flight'[x] = flight[x] /\ recvSeq'[x] = recvSeq[x]
                                /\ fsm'[x] = fsm[x]
  BY <1>1 DEF Shape
<1>4. flight'["client"] = 1 => flight["client"] = 1
  BY <1>3, TwoSides
<1>5. /\ UNCHANGED <<offer, flights, sendSeq, inbox, faults>>
      /\ Shape' /\ Numbers' /\ Transport' /\ Possession' /\ FirstMessage'
      /\ \A x \in Sides : reader'[x] = "exited" => reader[x] = "exited"
  BY <1>1, <1>2, <1>3, <1>4, ParseKeeps
<1>6. \A x \in Sides : fsm'[x] = fsm[x] \/ fsm'[x] = "preparing"
  BY <1>3
<1>7. NoAlert'
  BY <1>1, <1>5, <1>6 DEF NoAlert
<1>8. \A x \in Sides : Made(x)' = Made(x)
  BY <1>5 DEF Made
<1> QED BY <1>1, <1>3, <1>5, <1>7, <1>8

LEMMA WhoParses ==
    ASSUME HandshakeInd, NEW s \in Sides, NEW f, Parse(s, f)
    PROVE  /\ f \in {0, 2, 4, 6} => s = "server"
           /\ f \in {1, 3, 5} => s = "client"
<1>1. flight[s] = f
  BY DEF Parse
<1>2. flight["client"] \in {1, 3, 5} /\ flight["server"] \in {0, 2, 4, 6}
  BY DEF HandshakeInd, ClientFlow, ServerFlow
<1> QED BY <1>1, <1>2, TwoSides

LEMMA ServerGoesTo2 ==
    ASSUME HandshakeInd, Parse("server", 0) \/ Parse("server", 2), UNCHANGED ctx,
           GoTo("server", 2, 1)
    PROVE  HandshakeInd'
<1> USE DEF HandshakeInd
<1>1. PICK f \in {0, 2} : Parse("server", f)
  OBVIOUS
<1>2. /\ UNCHANGED <<offer, flights, sendSeq, inbox, faults>>
      /\ Shape' /\ Numbers' /\ Transport' /\ Possession' /\ FirstMessage' /\ NoAlert'
      /\ \A x \in Sides : Made(x)' = Made(x)
      /\ flight'["server"] = 2 /\ recvSeq'["server"] = 1 /\ fsm'["server"] = "preparing"
      /\ fsm["server"] = "waiting" /\ flight["server"] = f
      /\ \A x \in Sides \ {"server"} : flight'[x] = flight[x] /\ recvSeq'[x] = recvSeq[x]
                                       /\ fsm'[x] = fsm[x]
  <2>1. 2 \in 0 .. 6 /\ 1 \in Nat /\ 2 # 1
    OBVIOUS
  <2> HIDE DEF HandshakeInd
  <2> QED BY <1>1, <2>1, TwoSides, GoToKeeps
<1>3. ClientFlow'
  BY <1>2, TwoSides, ClientFlowStays
<1>4. sendSeq["server"] \in 0 .. 1 /\ \A m \in Made("server") : m.type = "HelloVerifyRequest"
  BY <1>2 DEF ServerFlow
<1>5. ServerFlow'
  <2>1. \A m \in Made("server") : m.seq = 0
    BY <1>4 DEF ServerFlow
  <2> QED BY <1>2, <1>4, <2>1, TwoSides DEF ServerFlow
<1> QED BY <1>2, <1>3, <1>5

LEMMA FirstHelloKeeps ==
    ASSUME HandshakeInd, NEW s \in Sides, NEW f \in {0, 2}, Parse(s, f), UNCHANGED ctx,
           FirstHello(s)
    PROVE  HandshakeInd'
<1>1. s = "server"
  BY WhoParses
<1>2. CASE KeepReading
  BY <1>2, KeepReadingKeeps
<1>3. CASE GoTo(s, 2, 1)
  BY <1>1, <1>3, ServerGoesTo2
<1>4. CASE Fail(s) /\ NamedCurve \notin Implemented
  <2> USE DEF HandshakeInd
  <2>1. /\ fsm' = [fsm EXCEPT ![s] = "errored"] /\ SendAlert(s) /\ UNCHANGED <<flight, recvSeq>>
        /\ fsm[s] = "waiting"
    BY <1>4 DEF Fail, Parse
  <2>2. flight' \in [Sides -> 0 .. 6] /\ recvSeq' \in [Sides -> Nat]
        /\ fsm' \in [Sides -> {"preparing", "sending", "waiting", "done", "errored"}]
    BY <2>1 DEF Shape
  <2>3. \A x \in Sides : IF x = s THEN fsm'[x] = "errored" ELSE fsm'[x] = fsm[x]
    BY <2>1 DEF Shape
  <2>4. /\ UNCHANGED <<offer, flights, sendSeq, inbox, faults>>
        /\ Shape' /\ Numbers' /\ Transport' /\ Possession' /\ FirstMessage'
    <3> HIDE DEF HandshakeInd
    <3> QED BY <2>1, <2>2, <2>3, ParseKeeps
  <2>5. ClientFlow' /\ ServerFlow'
    BY <2>1, <2>3, <2>4, FlowsStay
  <2>6. NoAlert'
    <3>1. ToSet(offer) \cap Implemented = {}
      BY <1>4, UsableCurve DEF Shape
    <3> QED BY <2>4, <3>1 DEF NoAlert
  <2> QED BY <2>4, <2>5, <2>6
<1> QED BY <1>2, <1>3, <1>4 DEF FirstHello

LEMMA ParseFlight0Keeps ==
    ASSUME HandshakeInd, NEW s \in Sides, ParseFlight0(s)
    PROVE  HandshakeInd'
  BY FirstHelloKeeps DEF ParseFlight0

LEMMA ParseFlight2Keeps ==
    ASSUME HandshakeInd, NEW s \in Sides, ParseFlight2(s)
    PROVE  HandshakeInd'
<1>1. Parse(s, 2) /\ UNCHANGED ctx
  BY DEF ParseFlight2
<1>2. CASE ~FullPull(ctx[s].cache, recvSeq[s], Hello)
  BY <1>1, <1>2, FirstHelloKeeps DEF ParseFlight2
<1>3. CASE FullPull(ctx[s].cache, recvSeq[s], Hello)
  <2>1. s = "server"
    BY <1>1, WhoParses
  <2>2. flight["server"] = 2 /\ recvSeq["server"] = 1 /\ sendSeq["server"] = 1
        /\ \A m \in Made("server") : m.type = "HelloVerifyRequest" /\ m.seq = 0
    BY <1>1, <2>1 DEF HandshakeInd, ServerFlow, Parse
  <2>3. GoTo("server", 4, 2)
    BY <1>3, <2>1, <2>2 DEF ParseFlight2
  <2>4. \E m \in From(ctx["server"], "client") : m.seq = 1
    <3> DEFINE r == Needs("ClientHello", 0, "client")
    <3>1. FullPull(ctx["server"].cache, 1, <<r>>) /\ ~r[4]
      BY <1>3, <2>1, <2>2 DEF Hello, Needs
    <3>2. r[3] = "client"
      BY DEF Needs
    <3> HIDE DEF r
    <3>3. /\ Newest(ctx["server"].cache, r) # {}
          /\ \A m \in Newest(ctx["server"].cache, r) : m.seq = 1
      BY <3>1, OneRule
    <3>4. PICK m \in Newest(ctx["server"].cache, r) : m.seq = 1
      BY <3>3
    <3>5. m \in ctx["server"].cache /\ m.from = "client"
      BY <3>2, <3>4, NewestMatches DEF Matches
    <3> QED BY <3>4, <3>5 DEF From
  <2>5. /\ UNCHANGED <<offer, flights, sendSeq, inbox, faults>>
        /\ Shape' /\ Numbers' /\ Transport' /\ Possession' /\ FirstMessage' /\ NoAlert'
        /\ \A x \in Sides : Made(x)' = Made(x)
        /\ flight'["server"] = 4 /\ recvSeq'["server"] = 2 /\ fsm'["server"] = "preparing"
        /\ \A x \in Sides \ {"server"} : flight'[x] = flight[x] /\ recvSeq'[x] = recvSeq[x]
                                         /\ fsm'[x] = fsm[x]
    <3>1. 4 \in 0 .. 6 /\ 2 \in Nat /\ 4 # 1
      OBVIOUS
    <3> QED BY <1>1, <2>1, <2>3, <3>1, TwoSides, GoToKeeps
  <2> USE DEF HandshakeInd
  <2>6. ClientFlow'
    BY <1>1, <2>5, TwoSides, ClientFlowStays
  <2>7. ServerFlow'
    BY <1>1, <2>2, <2>4, <2>5, TwoSides DEF ServerFlow
  <2> QED BY <2>5, <2>6, <2>7
<1> QED BY <1>2, <1>3

LEMMA ParseFlight1Keeps ==
    ASSUME HandshakeInd, NEW s \in Sides, ParseFlight1(s)
    PROVE  HandshakeInd'
<1> DEFINE rules == << Allows("HelloVerifyRequest", 0, "server"),
                       Allows("ServerHello", 0, "server") >>
           cache == ctx[s].cache
<1>1. Parse(s, 1) /\ UNCHANGED ctx
  BY DEF ParseFlight1
<1>2. s = "client"
  BY <1>1, WhoParses
<1>3. /\ flight["client"] = 1 /\ reader["client"] = "waiting" /\ sendSeq["client"] = 1
      /\ Shape /\ Numbers /\ Transport /\ fsm["client"] = "waiting"
      /\ \A m \in Made("client") : m.type = "ClientHello"
      /\ ctx["client"].secret = {}
  BY <1>1, <1>2 DEF Parse, HandshakeInd, ClientFlow
<1>4. rules[1] = Allows("HelloVerifyRequest", 0, "server") /\ rules[2] = Allows("ServerHello", 0, "server")
  OBVIOUS
<1>5. Newest(cache, rules[2]) = {}
  <2> SUFFICES ASSUME NEW m \in Newest(cache, rules[2]) PROVE FALSE
    OBVIOUS
  <2>1. m \in cache /\ m.type = "ServerHello" /\ m.from = "server"
    BY <1>4, NewestMatches DEF Matches, Allows
  <2>2. m \in From(ctx["client"], "server")
    BY <1>2, <2>1 DEF From
  <2>3. m \in Made("server")
    BY <1>3, <2>2, TwoSides, ReceivedMade
  <2> QED BY <1>3, <2>1, <2>3, OnlyHelloVerify
<1>6. Newest(cache, rules[1]) # {}
  <2>1. PICK m \in From(ctx["client"], "server") : TRUE
    BY <1>3 DEF HandshakeInd, FirstMessage
  <2>2. m \in Made("server")
    BY <1>3, TwoSides, ReceivedMade
  <2>3. m.type = "HelloVerifyRequest" /\ m.epoch = 0 /\ m.from = "server" /\ m \in cache
    BY <1>2, <1>3, <2>2, OnlyHelloVerify DEF From
  <2>4. Matches(m, rules[1])
    BY <1>4, <2>3 DEF Matches, Allows
  <2> HIDE DEF rules
  <2> QED BY <1>2, <1>3, <2>3, <2>4, TwoSides, Found
<1>7. CASE ~FullPull(cache, recvSeq[s], rules)
  <2>1. KeepReading
    BY <1>7 DEF ParseFlight1
  <2> QED BY <1>1, <2>1, KeepReadingKeeps
<1>8. CASE FullPull(cache, recvSeq[s], rules)
  <2>1. recvSeq["client"] = 0
    BY <1>3 DEF HandshakeInd, ClientFlow
  <2>2. GoTo("client", 3, 1)
    BY <1>2, <1>5, <1>6, <1>8, <2>1 DEF ParseFlight1
  <2>3. /\ UNCHANGED <<offer, flights, sendSeq, inbox, faults>>
        /\ Shape' /\ Numbers' /\ Transport' /\ Possession' /\ FirstMessage' /\ NoAlert'
        /\ \A x \in Sides : Made(x)' = Made(x)
        /\ flight'["client"] = 3 /\ recvSeq'["client"] = 1 /\ fsm'["client"] = "preparing"
        /\ \A x \in Sides \ {"client"} : flight'[x] = flight[x] /\ recvSeq'[x] = recvSeq[x]
                                         /\ fsm'[x] = fsm[x]
    <3>1. 3 \in 0 .. 6 /\ 1 \in Nat /\ 3 # 1
      OBVIOUS
    <3> QED BY <1>1, <1>2, <2>2, <3>1, TwoSides, GoToKeeps
  <2> USE DEF HandshakeInd
  <2>4. ServerFlow'
    <3>1. fsm'["server"] = "done" => flight["server"] = 6
      BY <2>3, TwoSides DEF ServerFlow
    <3> QED BY <1>1, <2>3, <3>1, TwoSides, ServerFlowStays
  <2>5. ClientFlow'
    BY <1>1, <1>3, <2>3, TwoSides DEF ClientFlow
  <2> QED BY <2>3, <2>4, <2>5
<1> QED BY <1>7, <1>8

LEMMA ParseFlight3Keeps ==
    ASSUME HandshakeInd, NEW s \in Sides, ParseFlight3(s)
    PROVE  HandshakeInd'
<1> DEFINE cache == ctx[s].cache
           n == 1 + Cardinality(Pulled(cache, ServerRules))
<1>1. Parse(s, 3) /\ UNCHANGED ctx /\ ServerFlight(s)
  BY DEF ParseFlight3
<1>2. s = "client"
  BY <1>1, WhoParses
<1>3. /\ flight["client"] = 3 /\ sendSeq["client"] = 2 /\ recvSeq["client"] = 1
      /\ Shape /\ Numbers /\ Transport /\ fsm["client"] = "waiting"
      /\ \A m \in Made("client") : m.type = "ClientHello"
      /\ ctx["client"].secret = {}
  BY <1>1, <1>2 DEF Parse, HandshakeInd, ClientFlow
<1>4. ~FullPull(cache, 1, <<HelloVerify>>)
  <2> SUFFICES ASSUME FullPull(cache, 1, <<HelloVerify>>) PROVE FALSE
    OBVIOUS
  <2>1. ~HelloVerify[4]
    BY DEF HelloVerify, Needs
  <2>2. PICK m \in Newest(cache, HelloVerify) : m.seq = 1
    BY <2>1, OneRule
  <2>3. m \in cache /\ m.type = "HelloVerifyRequest" /\ m.from = "server"
    BY <2>2, NewestMatches DEF Matches, HelloVerify, Needs
  <2>4. m \in Made("server")
    BY <1>2, <1>3, <2>3, TwoSides, ReceivedMade DEF From
  <2>5. m.seq = 0
    BY <2>3, <2>4 DEF HandshakeInd, ServerFlow
  <2> QED BY <2>2, <2>5
<1>5. CASE ~FullPull(cache, 1, ServerRules)
  <2>1. KeepReading
    BY <1>1, <1>2, <1>3, <1>4, <1>5 DEF ServerFlight
  <2> QED BY <1>1, <2>1, KeepReadingKeeps
<1>6. CASE FullPull(cache, 1, ServerRules)
  <2>1. GoTo("client", 5, n)
    BY <1>1, <1>2, <1>3, <1>4, <1>6 DEF ServerFlight
  <2>2. n \in 1 .. 6
    <3>1. DOMAIN ServerRules = 1 .. 5
      BY DEF ServerRules
    <3>2. Cardinality(Pulled(cache, ServerRules)) \in 0 .. 5
      BY <3>1, PulledSize
    <3> QED BY <3>2
  <2> HIDE DEF n
  <2>3. ClientAuth => \E m \in From(ctx["client"], "server") : m.type = "CertificateRequest"
    <3> SUFFICES ASSUME ClientAuth
                 PROVE  \E m \in From(ctx["client"], "server") : m.type = "CertificateRequest"
      OBVIOUS
    <3>1. ServerRules[5] = Needs("ServerHelloDone", 0, "server") /\ 5 \in DOMAIN ServerRules
      BY DEF ServerRules
    <3>2. ~ServerRules[5][4]
      BY <3>1 DEF Needs
    <3>3. 5 \in Pulled(cache, ServerRules)
      BY <1>6, <3>1, <3>2 DEF FullPull
    <3>4. PICK m \in Newest(cache, ServerRules[5]) : TRUE
      BY <3>3 DEF Pulled
    <3>5. m \in cache /\ m.type = "ServerHelloDone" /\ m.from = "server"
      BY <3>1, <3>4, NewestMatches DEF Matches, Needs
    <3>6. m \in From(ctx["client"], "server")
      BY <1>2, <3>5 DEF From
    <3>7. m \in Made("server")
      BY <1>3, <3>6, TwoSides, ReceivedMade
    <3>8. PICK c \in Made("server") : c.type = "CertificateRequest" /\ c.seq < m.seq
      BY <3>5, <3>7 DEF HandshakeInd, ServerFlow
    <3>9. c.seq \in Nat /\ m.seq \in Nat
      BY <1>3, <3>7, <3>8, TwoSides, MadeMessages DEF MessageSet
    <3>10. c \in From(ctx["client"], "server")
      BY <1>3, <3>6, <3>8, <3>9, TwoSides, Prefix
    <3> QED BY <3>8, <3>10
  <2>4. /\ UNCHANGED <<offer, flights, sendSeq, inbox, faults>>
        /\ Shape' /\ Numbers' /\ Transport' /\ Possession' /\ FirstMessage' /\ NoAlert'
        /\ \A x \in Sides : Made(x)' = Made(x)
        /\ flight'["client"] = 5 /\ recvSeq'["client"] = n /\ fsm'["client"] = "preparing"
        /\ \A x \in Sides \ {"client"} : flight'[x] = flight[x] /\ recvSeq'[x] = recvSeq[x]
                                         /\ fsm'[x] = fsm[x]
    <3>1. 5 \in 0 .. 6 /\ n \in Nat /\ 5 # 1
      BY <2>2
    <3> QED BY <1>1, <1>2, <2>1, <3>1, TwoSides, GoToKeeps
  <2> USE DEF HandshakeInd
  <2>5. ServerFlow'
    <3>1. fsm'["server"] = "done" => flight["server"] = 6
      BY <2>4, TwoSides DEF ServerFlow
    <3> QED BY <1>1, <2>4, <3>1, TwoSides, ServerFlowStays
  <2>6. ClientFlow'
    BY <1>1, <1>3, <2>2, <2>3, <2>4, TwoSides DEF ClientFlow
  <2> QED BY <2>4, <2>5, <2>6
<1> QED BY <1>5, <1>6

\* The server's Finished is over what the client has sent and received.
LEMMA ServerFinishedFits ==
    ASSUME HandshakeInd, NEW m \in Newest(ctx["client"].cache, ServerFinished)
    PROVE  m.data = [secret |-> ctx["client"].secret,
                     over |-> Merged(ctx["client"].cache, VerifyRules)]
<1> USE DEF HandshakeInd
<1>1. m \in ctx["client"].cache /\ m.type = "Finished" /\ m.from = "server" /\ m.epoch = 1
  BY NewestMatches DEF Matches, ServerFinished, Needs
<1>2. m \in From(ctx["client"], "server")
  BY <1>1 DEF From
<1>3. m \in Made("server")
  BY <1>2, TwoSides, ReceivedMade
<1>4. ctx["client"].secret = ctx["server"].secret
  BY <1>1, <1>2, TwoSides DEF Transport, Sound
<1>5. ctx["client"].cache = From(ctx["client"], "client") \cup Made("server")
  <2>1. From(ctx["client"], "server") = Made("server")
    BY <1>1, <1>2, ClientHasAll
  <2>2. ctx["client"].cache = From(ctx["client"], "client") \cup From(ctx["client"], "server")
    BY TwoSides, CacheBound DEF From
  <2> QED BY <2>1, <2>2
<1>6. m.data = [secret |-> ctx["server"].secret,
                over |-> Merged(From(ctx["client"], "client") \cup Made("server"), VerifyRules)]
  BY <1>1, <1>3 DEF ServerFlow
<1> QED BY <1>4, <1>5, <1>6

LEMMA ParseFlight5Keeps ==
    ASSUME HandshakeInd, NEW s \in Sides, ParseFlight5(s)
    PROVE  HandshakeInd'
<1> DEFINE cache == ctx[s].cache
<1>1. Parse(s, 5) /\ UNCHANGED ctx
  BY DEF ParseFlight5
<1>2. s = "client"
  BY <1>1, WhoParses
<1>3. CASE ~FullPull(cache, recvSeq[s], <<ServerFinished>>)
  <2>1. KeepReading
    BY <1>3 DEF ParseFlight5
  <2> QED BY <1>1, <2>1, KeepReadingKeeps
<1>4. CASE FullPull(cache, recvSeq[s], <<ServerFinished>>)
  <2>1. \A m \in Newest(cache, ServerFinished) :
          m.data = [secret |-> ctx[s].secret, over |-> Merged(cache, VerifyRules)]
    BY <1>2, ServerFinishedFits
  <2>2. fsm' = [fsm EXCEPT ![s] = "done"] /\ UNCHANGED <<flight, recvSeq, network>>
    BY <1>4, <2>1 DEF ParseFlight5
  <2> USE DEF HandshakeInd
  <2>3. \E m \in From(ctx["client"], "server") : m.epoch = 1
    <3>1. ~ServerFinished[4] /\ recvSeq[s] \in Nat
      BY DEF ServerFinished, Needs, Shape
    <3>2. Newest(cache, ServerFinished) # {}
      BY <1>4, <3>1, OneRule
    <3>3. PICK m \in Newest(cache, ServerFinished) : TRUE
      BY <3>2
    <3>4. m \in cache /\ m.from = "server" /\ m.epoch = 1
      BY <3>3, NewestMatches DEF Matches, ServerFinished, Needs
    <3> QED BY <1>2, <3>4 DEF From
  <2>4. flight["client"] = 5 /\ fsm["client"] = "waiting"
    BY <1>1, <1>2 DEF Parse
  <2>5. flight' \in [Sides -> 0 .. 6] /\ recvSeq' \in [Sides -> Nat]
        /\ fsm' \in [Sides -> {"preparing", "sending", "waiting", "done", "errored"}]
    BY <2>2 DEF Shape
  <2>6. fsm'["client"] = "done" /\ fsm'["server"] = fsm["server"]
    BY <1>2, <2>2, TwoSides DEF Shape
  <2>7. /\ UNCHANGED <<offer, flights, sendSeq, inbox, faults>>
        /\ Shape' /\ Numbers' /\ Transport' /\ Possession' /\ FirstMessage'
        /\ \A x \in Sides : reader'[x] = "exited" => reader[x] = "exited"
    <3>1. \A x \in Sides : x = s \/ fsm'[x] = fsm[x]
      BY <1>2, <2>6, TwoSides
    <3> HIDE DEF HandshakeInd
    <3> QED BY <1>1, <2>2, <2>5, <3>1, ParseKeeps
  <2>8. \A x \in Sides : Made(x)' = Made(x)
    BY <1>1, <2>7 DEF Made
  <2>9. ServerFlow'
    <3>1. fsm'["server"] = "done" => flight["server"] = 6
      BY <2>6 DEF ServerFlow
    <3> QED BY <1>1, <2>2, <2>6, <2>7, <2>8, <3>1, TwoSides, ServerFlowStays
  <2>10. ClientFlow'
    BY <1>1, <2>2, <2>3, <2>4, <2>6, <2>7, <2>8, TwoSides DEF ClientFlow
  <2>11. NoAlert'
    BY <2>2, <2>6, <2>7, TwoSides DEF NoAlert
  <2> QED BY <2>7, <2>9, <2>10, <2>11
<1> QED BY <1>3, <1>4

\* What a hash is made over.
LEMMA MergedIds ==
    ASSUME NEW c \in SUBSET MessageSet, NEW rules
    PROVE  Merged(c, rules) \in SUBSET IdSet
<1> SUFFICES ASSUME NEW i \in Merged(c, rules) PROVE i \in IdSet
  OBVIOUS
<1>1. PICK m \in UNION {Newest(c, r) : r \in ToSet(rules)} : i = Id(m)
  BY DEF Merged, Ids
<1>2. m \in c
  BY <1>1, NewestMatches
<1>3. m.type \in Types /\ m.from \in Sides /\ m.seq \in Nat
  BY <1>2 DEF MessageSet
<1> QED BY <1>1, <1>3 DEF Id, IdSet

LEMMA KeyedSound ==
    ASSUME HandshakeInd
    PROVE  LET k == Keyed("server") IN
           /\ k \in ContextSet
           /\ Sound("server", k, ctx["client"])
           /\ k.cache = ctx["server"].cache
           /\ ctx["server"].secret = {} \/ k.secret = ctx["server"].secret
<1> USE DEF HandshakeInd
<1> DEFINE k == Keyed("server")
           c == ctx["server"]
           secret == IF c.secret = {} THEN Merged(c.cache, HashRules) ELSE c.secret
<1>1. c \in ContextSet
  BY TwoSides DEF Shape
<1>2. secret \in SUBSET IdSet
  BY <1>1, MergedIds DEF ContextSet
<1>3. c.secret = {} \/ secret = c.secret
  OBVIOUS
<1>4. k = [c EXCEPT !.secret = secret, !.queue = <<>>]
  BY DEF Keyed
<1> HIDE DEF secret
<1>5. /\ k.cache = c.cache /\ k.fragments = c.fragments /\ k.current = c.current
      /\ k.remoteEpoch = c.remoteEpoch /\ k.queue = <<>> /\ k.secret = secret
      /\ k = [cache |-> k.cache, fragments |-> k.fragments, current |-> k.current,
              remoteEpoch |-> k.remoteEpoch, queue |-> k.queue, secret |-> k.secret]
  BY <1>1, <1>4 DEF ContextSet
<1> HIDE DEF k
<1>6. k \in ContextSet
  <2>1. /\ c.cache \in SUBSET MessageSet /\ c.fragments \in SUBSET RecordSet /\ c.current \in Nat
        /\ c.remoteEpoch \in {0, 1} /\ <<>> \in Seq(RecordSet)
    BY <1>1 DEF ContextSet
  <2> QED BY <1>2, <1>5, <2>1 DEF ContextSet
<1>7. Sound("server", k, ctx["client"])
  <2>1. Sound("server", c, ctx["client"])
    BY TwoSides DEF Transport
  <2>2. From(k, "client") = From(c, "client")
    BY <1>5 DEF From
  <2>3. \A m \in From(k, "client") \cup k.fragments :
          m.epoch = 1 => k.secret # {} /\ k.secret = ctx["client"].secret
    BY <1>3, <1>5, <2>1, <2>2, TwoSides DEF Sound
  <2>4. \A i \in DOMAIN k.queue : Genuine("client", ctx["client"], k.queue[i])
    BY <1>5
  <2>5. /\ \A m \in From(k, "client") : m \in ctx["client"].cache
        /\ {m.seq : m \in From(k, "client")} = 0 .. k.current - 1
        /\ \A f \in k.fragments :
             f.seq >= k.current /\ f.type # "ChangeCipherSpec" /\ Genuine("client", ctx["client"], f)
    BY <1>5, <2>1, <2>2, TwoSides DEF Sound
  <2> QED BY <2>3, <2>4, <2>5, TwoSides DEF Sound
<1> QED BY <1>3, <1>5, <1>6, <1>7 DEF k

\* What the context of the server is once the records that waited are read.
LEMMA AfterKeysSound ==
    ASSUME HandshakeInd, NEW c \in AfterKeys("server")
    PROVE  /\ c \in ContextSet /\ Sound("server", c, ctx["client"])
           /\ From(c, "server") = From(ctx["server"], "server")
           /\ ctx["server"].cache \subseteq c.cache
           /\ c.secret = Keyed("server").secret
<1> DEFINE k == Keyed("server")
           q == ctx["server"].queue
<1>0. Shape /\ Transport
  BY DEF HandshakeInd
<1>1. /\ k \in ContextSet
      /\ Sound("server", k, ctx["client"])
      /\ k.cache = ctx["server"].cache
  BY KeyedSound
<1>2. c \in Drained("server", k, q)
  BY DEF AfterKeys
<1> HIDE DEF k
<1>3. q \in Seq(RecordSet) /\ \A i \in DOMAIN q : Genuine("client", ctx["client"], q[i])
  BY <1>0, TwoSides DEF Shape, ContextSet, Transport, Sound
<1>4. ctx["client"] \in ContextSet /\ sendSeq["client"] \in Nat
      /\ Bounded(ctx["client"], "client", sendSeq["client"])
  BY <1>0, TwoSides, PeerBounded DEF HandshakeInd
<1> HIDE DEF q
<1>5. c \in ContextSet /\ Sound("server", c, ctx["client"]) /\ Extends("server", k, c)
  BY <1>1, <1>2, <1>3, <1>4, TwoSides, DrainedSound
<1>6. From(k, "server") = From(ctx["server"], "server")
  BY <1>1 DEF From
<1> QED BY <1>1, <1>5, <1>6 DEF Extends, k

\* What the server has when its keys are made.
LEMMA KeysReady ==
    ASSUME HandshakeInd, FullPull(ctx["server"].cache, 2, KeyRules), Verified("server")
    PROVE  /\ LET got(t) == \E m \in From(ctx["server"], "client") : m.type = t /\ m.epoch = 0
              IN got("ClientKeyExchange") /\ (got("Certificate") => got("CertificateVerify"))
           /\ ClientAuth => Newest(ctx["server"].cache, KeyRules[1]) # {}
<1> USE DEF HandshakeInd
<1> DEFINE cache == ctx["server"].cache
           got(t) == \E m \in From(ctx["server"], "client") : m.type = t /\ m.epoch = 0
<1>1. /\ KeyRules[1] = Allows("Certificate", 0, "client")
      /\ KeyRules[2] = Needs("ClientKeyExchange", 0, "client")
      /\ KeyRules[3] = Allows("CertificateVerify", 0, "client")
      /\ DOMAIN KeyRules = 1 .. 3
  BY DEF KeyRules
<1>2. PICK k \in Newest(cache, KeyRules[2]) : TRUE
  <2>1. ~KeyRules[2][4] /\ 2 \in DOMAIN KeyRules
    BY <1>1 DEF Needs
  <2>2. 2 \in Pulled(cache, KeyRules)
    BY <2>1 DEF FullPull
  <2> QED BY <2>2 DEF Pulled
<1>3. k \in cache /\ k.type = "ClientKeyExchange" /\ k.epoch = 0 /\ k.from = "client"
  BY <1>1, <1>2, NewestMatches DEF Matches, Needs
<1>4. k \in From(ctx["server"], "client")
  BY <1>3 DEF From
<1>5. ASSUME NEW m \in From(ctx["server"], "client"), m.type = "Certificate", m.epoch = 0
      PROVE  Newest(cache, KeyRules[1]) # {}
  <2>1. m \in cache /\ m.from = "client"
    BY DEF From
  <2>2. Matches(m, KeyRules[1])
    BY <1>1, <1>5, <2>1 DEF Matches, Allows
  <2> QED BY <2>1, <2>2, TwoSides, Found
<1>6. got("Certificate") => got("CertificateVerify")
  <2> SUFFICES ASSUME got("Certificate") PROVE got("CertificateVerify")
    OBVIOUS
  <2>1. Newest(cache, KeyRules[1]) # {}
    BY <1>5
  <2>2. PICK v \in Newest(cache, KeyRules[3]) : TRUE
    BY <2>1 DEF Verified
  <2>3. v \in cache /\ v.type = "CertificateVerify" /\ v.epoch = 0 /\ v.from = "client"
    BY <1>1, <2>2, NewestMatches DEF Matches, Allows
  <2> QED BY <2>3 DEF From
<1>7. ClientAuth => Newest(cache, KeyRules[1]) # {}
  <2> SUFFICES ASSUME ClientAuth PROVE Newest(cache, KeyRules[1]) # {}
    OBVIOUS
  <2>1. k \in Made("client")
    BY <1>4, TwoSides, ReceivedMade
  <2>2. PICK n \in Made("client") : n.type = "Certificate" /\ n.seq < k.seq
    BY <1>3, <2>1 DEF ClientFlow
  <2>3. n.seq \in Nat /\ k.seq \in Nat /\ n.epoch \in {0, 1}
    BY <2>1, <2>2, TwoSides, MadeMessages DEF MessageSet
  <2>4. n \in From(ctx["server"], "client")
    BY <1>4, <2>2, <2>3, TwoSides, Prefix
  <2>5. n.epoch = 0
    BY <2>2, <2>3, TwoSides DEF Numbers
  <2> QED BY <1>5, <2>2, <2>4, <2>5
<1> QED BY <1>3, <1>4, <1>6, <1>7

LEMMA ParseFlight4Keeps ==
    ASSUME HandshakeInd, NEW s \in Sides, ParseFlight4(s)
    PROVE  HandshakeInd'
<1> DEFINE cache == ctx[s].cache
           next == 2 + Cardinality(Pulled(cache, KeyRules))
           fin == Needs("Finished", 1, "client")
<1>1. Parse(s, 4)
  BY DEF ParseFlight4
<1>2. s = "server"
  BY <1>1, WhoParses
<1>3. /\ flight["server"] = 4 /\ recvSeq["server"] = 2 /\ sendSeq["server"] \in 1 .. 6
      /\ fsm["server"] = "waiting"
      /\ Shape /\ Numbers /\ Transport
      /\ \A m \in Made("server") : m.type # "Finished"
  BY <1>1, <1>2 DEF Parse, HandshakeInd, ServerFlow
<1>4. CASE ~FullPull(cache, 2, KeyRules) \/ ~Verified(s)
  <2>1. KeepReading /\ UNCHANGED ctx
    BY <1>2, <1>3, <1>4 DEF ParseFlight4
  <2> QED BY <1>1, <2>1, KeepReadingKeeps
<1>5. CASE FullPull(cache, 2, KeyRules) /\ Verified(s)
  <2>1. PICK c \in AfterKeys(s) :
          /\ ctx' = [ctx EXCEPT ![s] = c]
          /\ IF ~FullPull(c.cache, next, <<fin>>)
             THEN KeepReading
             ELSE IF ClientAuth /\ Newest(cache, KeyRules[1]) = {}
             THEN Fail(s)
             ELSE GoTo(s, 6, next + 1)
    BY <1>2, <1>3, <1>5 DEF ParseFlight4
  <2>2. /\ LET got(t) == \E m \in From(ctx["server"], "client") : m.type = t /\ m.epoch = 0
           IN got("ClientKeyExchange") /\ (got("Certificate") => got("CertificateVerify"))
        /\ ClientAuth => Newest(cache, KeyRules[1]) # {}
    BY <1>2, <1>5, KeysReady
  <2>3. /\ c \in ContextSet /\ Sound("server", c, ctx["client"])
        /\ From(c, "server") = From(ctx["server"], "server")
        /\ ctx["server"].cache \subseteq c.cache
        /\ ctx["server"].secret = {} \/ c.secret = ctx["server"].secret
    BY <1>2, <2>1, KeyedSound, AfterKeysSound
  <2>4. IF ~FullPull(c.cache, next, <<fin>>) THEN KeepReading ELSE GoTo("server", 6, next + 1)
    BY <1>2, <2>1, <2>2
  <2>5. next + 1 \in 3 .. 6 /\ next \in Nat
    <3>1. DOMAIN KeyRules = 1 .. 3
      BY DEF KeyRules
    <3>2. Cardinality(Pulled(cache, KeyRules)) \in 0 .. 3
      BY <3>1, PulledSize
    <3> QED BY <3>2
  <2> HIDE DEF next
  <2>6. /\ UNCHANGED <<offer, flights, sendSeq, inbox, faults, network>>
        /\ reader' = [reader EXCEPT !["server"] = "reading"]
    BY <1>1, <1>2, <2>4 DEF Parse, KeepReading, GoTo
  <2>7. \A x \in Sides : ctx'[x] = IF x = "server" THEN c ELSE ctx[x]
    BY <1>2, <1>3, <2>1 DEF Shape
  <2>8. \A x \in Sides : /\ From(ctx'[x], x) = From(ctx[x], x)
                         /\ From(ctx[x], Peer(x)) \subseteq From(ctx'[x], Peer(x))
                         /\ Advances(ctx[x], ctx'[x])
    BY <2>3, <2>7, TwoSides DEF Advances, From
  <2>9. \A x \in Sides : Made(x)' = Made(x)
    BY <2>6, <2>8 DEF Made
  <2>10. /\ flight' \in [Sides -> 0 .. 6] /\ recvSeq' \in [Sides -> Nat]
         /\ fsm' \in [Sides -> {"preparing", "sending", "waiting", "done", "errored"}]
    <3>1. next + 1 \in Nat
      BY <2>5
    <3>2. CASE KeepReading
      BY <1>3, <3>2 DEF KeepReading, Shape
    <3>3. CASE GoTo("server", 6, next + 1)
      <4>1. /\ flight' = [flight EXCEPT !["server"] = 6]
            /\ fsm' = [fsm EXCEPT !["server"] = "preparing"]
            /\ recvSeq' = [recvSeq EXCEPT !["server"] = next + 1]
        BY <3>3 DEF GoTo
      <4>2. PICK n \in Nat : recvSeq' = [recvSeq EXCEPT !["server"] = n]
        BY <3>1, <4>1
      <4>3. recvSeq' \in [Sides -> Nat]
        BY <1>3, <4>2 DEF Shape
      <4>4. flight' \in [Sides -> 0 .. 6]
        <5>1. PICK g \in 0 .. 6 : flight' = [flight EXCEPT !["server"] = g]
          BY <4>1
        <5> QED BY <1>3, <5>1 DEF Shape
      <4>5. fsm' \in [Sides -> {"preparing", "sending", "waiting", "done", "errored"}]
        BY <1>3, <4>1 DEF Shape
      <4> QED BY <4>3, <4>4, <4>5
    <3> QED BY <2>4, <3>2, <3>3
  <2>11. /\ flight'["client"] = flight["client"] /\ recvSeq'["client"] = recvSeq["client"]
         /\ fsm'["client"] = fsm["client"]
         /\ fsm'["server"] \in {"waiting", "preparing"}
    BY <1>3, <2>4, TwoSides DEF KeepReading, GoTo, Shape
  <2> USE DEF HandshakeInd
  <2>12. Shape'
    <3>1. ctx' \in [Sides -> ContextSet]
      BY <1>2, <1>3, <2>1, <2>3 DEF Shape
    <3>2. reader' \in [Sides -> {"reading", "offering", "waiting", "exited"}]
      BY <2>6 DEF Shape
    <3> QED BY <2>6, <2>10, <3>1, <3>2 DEF Shape
  <2>13. Numbers'
    <3>1. \A x \in Sides : fsm[x] = "sending" => fsm'[x] = "sending"
      BY <1>3, <2>11, TwoSides
    <3>2. \A x \in Sides : ctx[x].secret = {} \/ ctx'[x].secret = ctx[x].secret
      BY <2>8 DEF Advances
    <3> QED BY <2>6, <2>8, <2>9, <3>1, <3>2, NumbersStay
  <2>14. ClientFlow'
    <3>1. ctx'["client"] = ctx["client"]
      BY <2>7, TwoSides
    <3> QED BY <2>6, <2>9, <2>11, <3>1, TwoSides, ClientFlowStays
  <2>15. Transport'
    <3>1. \A x \in Sides : Sound(x, ctx'[x], ctx[Peer(x)])
      BY <2>3, <2>7, TwoSides DEF Transport
    <3>2. \A x \in Sides : AllGenuine(Peer(x), ctx[Peer(x)], inbox'[x].records)
      BY <2>6 DEF Transport
    <3>3. \A x \in network : x.to \in Sides
      BY DEF Shape
    <3>4. network' \ network = {}
      BY <2>6
    <3> QED BY <2>8, <3>1, <3>2, <3>3, <3>4, TransportStays
  <2>16. Possession'
    <3>1. ctx'["server"] = c /\ From(ctx["server"], "client") \subseteq From(c, "client")
      BY <2>7, <2>8, TwoSides
    <3> HIDE DEF HandshakeInd
    <3> QED BY <2>2, <2>3, <3>1, PossessionGrows
  <2>17. \A x \in Sides : reader'[x] = reader[x] \/ reader'[x] = "reading"
    BY <2>6 DEF Shape
  <2>18. FirstMessage'
    BY <2>6, <2>7, <2>11, <2>17, TwoSides DEF FirstMessage
  <2>19. NoAlert'
    BY <1>3, <2>6, <2>11, <2>17, TwoSides DEF NoAlert
  <2>20. ServerFlow'
    <3>1. CASE ~FullPull(c.cache, next, <<fin>>)
      <4>1. UNCHANGED <<flight, fsm, recvSeq>>
        BY <2>4, <3>1 DEF KeepReading
      <4>2. fsm'["server"] = "done" => flight["server"] = 6
        BY <4>1 DEF ServerFlow
      <4> QED BY <1>3, <2>6, <2>8, <2>9, <4>1, <4>2, TwoSides, ServerFlowStays
    <3>2. CASE FullPull(c.cache, next, <<fin>>)
      <4>1. GoTo("server", 6, next + 1)
        BY <2>4, <3>2
      <4>2. flight'["server"] = 6 /\ recvSeq'["server"] = next + 1 /\ fsm'["server"] = "preparing"
        BY <4>1, TwoSides DEF GoTo, Shape
      <4>3. \E m \in From(c, "client") : m.epoch = 1
        <5>1. ~fin[4]
          BY DEF Needs
        <5>2. Newest(c.cache, fin) # {}
          BY <2>5, <3>2, <5>1, OneRule
        <5>3. PICK m \in Newest(c.cache, fin) : TRUE
          BY <5>2
        <5>4. m \in c.cache /\ m.from = "client" /\ m.epoch = 1
          BY <5>3, NewestMatches DEF Matches, Needs
        <5> QED BY <5>4 DEF From
      <4>4. \E m \in From(ctx["server"], "client") : m.seq = 1
        BY <1>3 DEF ServerFlow
      <4>5. (\E m \in From(ctx'["server"], "client") : m.seq = 1)
            /\ (\E m \in From(ctx'["server"], "client") : m.epoch = 1)
        BY <2>7, <2>8, <4>3, <4>4, TwoSides
      <4>6. \A m \in Made("server") :
              /\ m.type = "HelloVerifyRequest" => m.seq = 0
              /\ m.type = "ServerHelloDone" /\ ClientAuth =>
                   \E n \in Made("server") : n.type = "CertificateRequest" /\ n.seq < m.seq
              /\ m.type # "Finished"
        BY <1>3 DEF ServerFlow
      <4>7. sendSeq'["server"] \in 1 .. 6 /\ recvSeq'["server"] \in 2 .. 6
        BY <1>3, <2>5, <2>6, <4>2
      <4>8. Made("server")' = Made("server")
        BY <2>9, TwoSides
      <4> HIDE DEF HandshakeInd
      <4> QED BY <4>2, <4>5, <4>6, <4>7, <4>8 DEF ServerFlow
    <3> QED BY <3>1, <3>2
  <2> QED BY <2>12, <2>13, <2>14, <2>15, <2>16, <2>18, <2>19, <2>20
<1> QED BY <1>4, <1>5

-----------------------------------------------------------------------------
(* Preparing a flight                                                      *)

LEMMA PreparedSecret ==
    ASSUME HandshakeInd, NEW s \in Sides, fsm[s] = "preparing",
           NEW pkts, \A p \in ToSet(pkts) : p.seq \in Nat
    PROVE  /\ SecretOf(s, pkts) \in SUBSET IdSet
           /\ Unsent(s, pkts) \in SUBSET IdSet
           /\ ctx[s].secret = {} \/ SecretOf(s, pkts) = ctx[s].secret
           /\ flight[s] # 5 => SecretOf(s, pkts) = ctx[s].secret
<1> USE DEF HandshakeInd
<1>1. ctx[s].cache \in SUBSET MessageSet /\ ctx[s].secret \in SUBSET IdSet
  BY DEF Shape, ContextSet
<1>2. Merged(ctx[s].cache, HashRules) \in SUBSET IdSet
  BY <1>1, MergedIds
<1>3. Unsent(s, pkts) \in SUBSET IdSet
  <2> SUFFICES ASSUME NEW p \in ToSet(pkts),
                      p.type \in {"Certificate", "ClientKeyExchange", "CertificateVerify"}
               PROVE  <<p.type, s, p.seq>> \in IdSet
    BY DEF Unsent
  <2>1. p.type \in Types
    BY DEF Types
  <2> QED BY <2>1 DEF IdSet
<1>4. flight[s] = 5 => ctx[s].secret = {}
  BY TwoSides DEF ClientFlow, ServerFlow
<1>5. SecretOf(s, pkts) \in SUBSET IdSet
  BY <1>1, <1>2, <1>3 DEF SecretOf
<1> QED BY <1>3, <1>4, <1>5 DEF SecretOf

LEMMA Prepared ==
    ASSUME HandshakeInd, NEW s \in Sides, Prepare(s),
           NEW types, types = Packets(s, flight[s]),
           NEW pkts, pkts = Numbered(s, types),
           NEW secret, secret = SecretOf(s, pkts),
           NEW verify, verify = [secret |-> secret,
             over |-> Merged(ctx[s].cache, VerifyRules)
                        \cup (IF flight[s] = 5 THEN Unsent(s, pkts) ELSE {})]
    PROVE  /\ UNCHANGED <<offer, flight, recvSeq, reader, inbox, network, faults>>
           /\ fsm[s] = "preparing" /\ fsm'[s] = "sending"
           /\ FirstSeq(s) \in Nat /\ types \in Seq(PacketTypes)
           /\ sendSeq'[s] = FirstSeq(s) + Messages(types, Len(types))
           /\ Shape'
           /\ \A x \in Sides \ {s} : /\ sendSeq'[x] = sendSeq[x] /\ flights'[x] = flights[x]
                                     /\ ctx'[x] = ctx[x] /\ fsm'[x] = fsm[x]
           /\ ctx'[s] = [ctx[s] EXCEPT !.secret = secret]
           /\ ctx'[s].secret = secret
           /\ DOMAIN flights'[s] = 1 .. Len(types)
           /\ \A i \in 1 .. Len(types) :
                LET p == flights'[s][i] IN
                /\ p.type = types[i] /\ p.seq = pkts[i].seq
                /\ p.epoch \in {0, 1} /\ (p.epoch = 1 <=> types[i] = "Finished")
                /\ types[i] = "Finished" => p.key = secret /\ p.data = verify
                /\ types[i] # "Finished" => p.data = {}
           /\ \A i \in 1 .. Len(types) : types[i] # "ChangeCipherSpec" =>
                /\ FirstSeq(s) <= pkts[i].seq /\ pkts[i].seq < sendSeq'[s]
                /\ pkts[i].seq \in Nat
                /\ \A j \in 1 .. i - 1 :
                     types[j] # "ChangeCipherSpec" => pkts[j].seq < pkts[i].seq
<1> USE DEF HandshakeInd
<1> DEFINE q(i) == [type |-> pkts[i].type, epoch |-> pkts[i].epoch, seq |-> pkts[i].seq,
                    key |-> IF pkts[i].epoch = 1 THEN secret ELSE {},
                    data |-> IF pkts[i].type = "Finished" THEN verify ELSE {}]
<1>1. /\ UNCHANGED <<offer, flight, recvSeq, reader, inbox, network, faults>>
      /\ fsm[s] = "preparing" /\ fsm' = [fsm EXCEPT ![s] = "sending"]
      /\ flights' = [flights EXCEPT ![s] = [i \in DOMAIN pkts |-> q(i)]]
      /\ sendSeq' = [sendSeq EXCEPT ![s] = FirstSeq(s) + Messages(types, Len(types))]
      /\ ctx' = [ctx EXCEPT ![s].secret = secret]
  BY DEF Prepare
<1>2. /\ flight \in [Sides -> 0 .. 6] /\ sendSeq \in [Sides -> Nat]
      /\ flights \in [Sides -> Seq(PacketSet)] /\ ctx \in [Sides -> ContextSet]
      /\ fsm \in [Sides -> {"preparing", "sending", "waiting", "done", "errored"}]
  BY DEF Shape
<1>3. types \in Seq(PacketTypes) /\ Len(types) \in Nat
  <2>1. flight[s] \in 0 .. 6
    BY <1>2
  <2>2. types \in Seq(PacketTypes)
    BY <2>1, FlightPackets
  <2> QED BY <2>2
<1>4. FirstSeq(s) \in Nat
  BY <1>2 DEF FirstSeq
<1>5. /\ DOMAIN pkts = 1 .. Len(types)
      /\ \A i \in 1 .. Len(types) :
           /\ pkts[i] \in [type : PacketTypes, epoch : {0, 1}, seq : Nat]
           /\ pkts[i].type = types[i]
           /\ pkts[i].epoch = 1 <=> types[i] = "Finished"
           /\ types[i] # "ChangeCipherSpec" =>
                /\ FirstSeq(s) <= pkts[i].seq
                /\ pkts[i].seq < FirstSeq(s) + Messages(types, Len(types))
                /\ \A j \in 1 .. i - 1 :
                     types[j] # "ChangeCipherSpec" => pkts[j].seq < pkts[i].seq
  BY <1>3, <1>4, NumberedPackets DEF PacketTypes
<1>6. Messages(types, Len(types)) \in Nat
  BY <1>3, MessagesStep
<1>7. \A p \in ToSet(pkts) : p.seq \in Nat
  BY <1>5 DEF ToSet
<1>8. secret \in SUBSET IdSet /\ Unsent(s, pkts) \in SUBSET IdSet
  BY <1>1, <1>7, PreparedSecret
<1>9. verify \in DataSet
  <2>1. ctx[s].cache \in SUBSET MessageSet
    BY <1>2 DEF ContextSet
  <2>2. Merged(ctx[s].cache, VerifyRules) \in SUBSET IdSet
    BY <2>1, MergedIds
  <2> DEFINE over == Merged(ctx[s].cache, VerifyRules)
                       \cup (IF flight[s] = 5 THEN Unsent(s, pkts) ELSE {})
  <2>3. over \in SUBSET IdSet
    BY <1>8, <2>2
  <2>4. verify = [secret |-> secret, over |-> over]
    OBVIOUS
  <2> HIDE DEF over
  <2> QED BY <1>8, <2>3, <2>4 DEF DataSet
<1>10. ASSUME NEW i \in 1 .. Len(types)
       PROVE  /\ q(i) \in PacketSet
              /\ q(i).type = types[i] /\ q(i).seq = pkts[i].seq
              /\ q(i).epoch \in {0, 1} /\ (q(i).epoch = 1 <=> types[i] = "Finished")
              /\ types[i] = "Finished" => q(i).key = secret /\ q(i).data = verify
              /\ types[i] # "Finished" => q(i).data = {}
  <2> DEFINE k == IF pkts[i].epoch = 1 THEN secret ELSE {}
             e == IF pkts[i].type = "Finished" THEN verify ELSE {}
  <2>1. /\ pkts[i].type \in Types \cup {"ChangeCipherSpec"} /\ pkts[i].type = types[i]
        /\ pkts[i].epoch \in {0, 1} /\ pkts[i].seq \in Nat
        /\ pkts[i].epoch = 1 <=> types[i] = "Finished"
    BY <1>5 DEF PacketTypes
  <2>2. k \in SUBSET IdSet /\ e \in DataSet
    BY <1>8, <1>9 DEF DataSet
  <2>3. /\ types[i] = "Finished" => k = secret /\ e = verify
        /\ types[i] # "Finished" => e = {}
    BY <2>1
  <2>4. q(i) = [type |-> pkts[i].type, epoch |-> pkts[i].epoch, seq |-> pkts[i].seq,
                key |-> k, data |-> e]
    OBVIOUS
  <2> HIDE DEF q, k, e
  <2>5. /\ q(i).type = pkts[i].type /\ q(i).epoch = pkts[i].epoch /\ q(i).seq = pkts[i].seq
        /\ q(i).key = k /\ q(i).data = e
    BY <2>4
  <2>6. q(i) \in PacketSet
    BY <2>1, <2>2, <2>4 DEF PacketSet
  <2> QED BY <2>1, <2>3, <2>5, <2>6
<1> HIDE DEF q
<1>11. flights'[s] = [i \in 1 .. Len(types) |-> q(i)]
  BY <1>1, <1>2, <1>5
<1>12. flights'[s] \in Seq(PacketSet)
  BY <1>3, <1>10, <1>11
<1>13. /\ ctx'[s] = [ctx[s] EXCEPT !.secret = secret] /\ ctx'[s].secret = secret
       /\ ctx' \in [Sides -> ContextSet]
  <2>1. [ctx[s] EXCEPT !.secret = secret] \in ContextSet
    BY <1>2, <1>8 DEF ContextSet
  <2>2. ctx'[s] = [ctx[s] EXCEPT !.secret = secret]
    BY <1>1, <1>2
  <2>3. ctx[s] \in ContextSet
    BY <1>2
  <2>4. [ctx[s] EXCEPT !.secret = secret].secret = secret
    BY <2>3 DEF ContextSet
  <2>5. \A x \in Sides \ {s} : ctx'[x] = ctx[x]
    BY <1>1, <1>2
  <2>6. ctx' = [x \in Sides |-> ctx'[x]]
    BY <1>1, <1>2
  <2>7. \A x \in Sides : ctx'[x] \in ContextSet
    BY <1>2, <2>1, <2>2, <2>5
  <2>8. ctx' \in [Sides -> ContextSet]
    BY <2>6, <2>7
  <2> QED BY <2>2, <2>4, <2>8
<1>14. \A x \in Sides \ {s} : /\ sendSeq'[x] = sendSeq[x] /\ flights'[x] = flights[x]
                              /\ ctx'[x] = ctx[x] /\ fsm'[x] = fsm[x]
  BY <1>1, <1>2
<1>15. sendSeq'[s] = FirstSeq(s) + Messages(types, Len(types)) /\ fsm'[s] = "sending"
  BY <1>1, <1>2
<1>16. Shape'
  <2>1. flights' \in [Sides -> Seq(PacketSet)]
    BY <1>1, <1>2, <1>11, <1>12, <1>14
  <2>2. sendSeq' \in [Sides -> Nat]
    <3>1. PICK n \in Nat : n = FirstSeq(s) + Messages(types, Len(types))
      BY <1>4, <1>6
    <3>2. sendSeq' = [sendSeq EXCEPT ![s] = n]
      BY <1>1, <3>1
    <3> QED BY <1>2, <3>2
  <2>3. fsm' \in [Sides -> {"preparing", "sending", "waiting", "done", "errored"}]
    BY <1>1, <1>2
  <2> QED BY <1>1, <1>13, <2>1, <2>2, <2>3 DEF Shape
<1>17. DOMAIN flights'[s] = 1 .. Len(types) /\ \A i \in 1 .. Len(types) : flights'[s][i] = q(i)
  BY <1>11
<1>18. \A i \in 1 .. Len(types) : types[i] # "ChangeCipherSpec" =>
         /\ FirstSeq(s) <= pkts[i].seq /\ pkts[i].seq < sendSeq'[s]
         /\ pkts[i].seq \in Nat
         /\ \A j \in 1 .. i - 1 :
              types[j] # "ChangeCipherSpec" => pkts[j].seq < pkts[i].seq
  BY <1>5, <1>15
<1>19. \A i \in 1 .. Len(types) :
         LET p == flights'[s][i] IN
         /\ p.type = types[i] /\ p.seq = pkts[i].seq
         /\ p.epoch \in {0, 1} /\ (p.epoch = 1 <=> types[i] = "Finished")
         /\ types[i] = "Finished" => p.key = secret /\ p.data = verify
         /\ types[i] # "Finished" => p.data = {}
  <2> SUFFICES ASSUME NEW i \in 1 .. Len(types)
               PROVE  LET p == flights'[s][i] IN
                      /\ p.type = types[i] /\ p.seq = pkts[i].seq
                      /\ p.epoch \in {0, 1} /\ (p.epoch = 1 <=> types[i] = "Finished")
                      /\ types[i] = "Finished" => p.key = secret /\ p.data = verify
                      /\ types[i] # "Finished" => p.data = {}
    OBVIOUS
  <2>1. flights'[s][i] = q(i)
    BY <1>17
  <2> QED BY <1>10, <2>1
<1>20. UNCHANGED <<offer, flight, recvSeq, reader, inbox, network, faults>> /\ fsm[s] = "preparing"
  BY <1>1
<1> HIDE DEF HandshakeInd
<1> QED BY <1>3, <1>4, <1>13, <1>14, <1>15, <1>16, <1>17, <1>18, <1>19, <1>20

LEMMA FinishedFlights ==
    ASSUME NEW s \in Sides, NEW f \in 0 .. 6, NEW types, types = Packets(s, f)
    PROVE  /\ \A i \in 1 .. Len(types) : types[i] = "Finished" => f \in {5, 6} /\ i = Len(types)
           /\ f = 5 => \E i \in 1 .. Len(types) : types[i] = "ClientKeyExchange"
<1>1. CASE f \in {0, 1, 2, 3}
  BY <1>1, FlightPackets
<1>2. CASE f = 4 /\ ClientAuth
  <2>1. Len(types) = 5 /\ types[1] = "ServerHello" /\ types[2] = "Certificate" /\ types[3] = "ServerKeyExchange" /\ types[4] = "CertificateRequest" /\ types[5] = "ServerHelloDone"
    BY <1>2, FlightPackets
  <2>2. ASSUME NEW i \in 1 .. Len(types), types[i] = "Finished"
        PROVE  f \in {5, 6} /\ i = Len(types)
    <3>1. i = 1 \/ i = 2 \/ i = 3 \/ i = 4 \/ i = 5
      BY <2>1, <2>2
    <3> QED BY <1>2, <2>1, <2>2, <3>1
  <2> QED BY <1>2, <2>2
<1>3. CASE f = 4 /\ ~ClientAuth
  <2>1. Len(types) = 4 /\ types[1] = "ServerHello" /\ types[2] = "Certificate" /\ types[3] = "ServerKeyExchange" /\ types[4] = "ServerHelloDone"
    BY <1>3, FlightPackets
  <2>2. ASSUME NEW i \in 1 .. Len(types), types[i] = "Finished"
        PROVE  f \in {5, 6} /\ i = Len(types)
    <3>1. i = 1 \/ i = 2 \/ i = 3 \/ i = 4
      BY <2>1, <2>2
    <3> QED BY <1>3, <2>1, <2>2, <3>1
  <2> QED BY <1>3, <2>2
<1>4. CASE f = 5 /\ Requested(s)
  <2>1. Len(types) = 5 /\ types[1] = "Certificate" /\ types[2] = "ClientKeyExchange" /\ types[3] = "CertificateVerify" /\ types[4] = "ChangeCipherSpec" /\ types[5] = "Finished"
    BY <1>4, FlightPackets
  <2>2. ASSUME NEW i \in 1 .. Len(types), types[i] = "Finished"
        PROVE  f \in {5, 6} /\ i = Len(types)
    <3>1. i = 1 \/ i = 2 \/ i = 3 \/ i = 4 \/ i = 5
      BY <2>1, <2>2
    <3> QED BY <1>4, <2>1, <2>2, <3>1
  <2>3. 2 \in 1 .. Len(types) /\ types[2] = "ClientKeyExchange"
    BY <2>1
  <2> QED BY <2>2, <2>3
<1>5. CASE f = 5 /\ ~Requested(s)
  <2>1. Len(types) = 3 /\ types[1] = "ClientKeyExchange" /\ types[2] = "ChangeCipherSpec" /\ types[3] = "Finished"
    BY <1>5, FlightPackets
  <2>2. ASSUME NEW i \in 1 .. Len(types), types[i] = "Finished"
        PROVE  f \in {5, 6} /\ i = Len(types)
    <3>1. i = 1 \/ i = 2 \/ i = 3
      BY <2>1, <2>2
    <3> QED BY <1>5, <2>1, <2>2, <3>1
  <2>3. 1 \in 1 .. Len(types) /\ types[1] = "ClientKeyExchange"
    BY <2>1
  <2> QED BY <2>2, <2>3
<1>6. CASE f = 6
  <2>1. Len(types) = 2 /\ types[1] = "ChangeCipherSpec" /\ types[2] = "Finished"
    BY <1>6, FlightPackets
  <2>2. ASSUME NEW i \in 1 .. Len(types), types[i] = "Finished"
        PROVE  f \in {5, 6} /\ i = Len(types)
    <3>1. i = 1 \/ i = 2
      BY <2>1, <2>2
    <3> QED BY <1>6, <2>1, <2>2, <3>1
  <2> QED BY <1>6, <2>2
<1> QED BY <1>1, <1>2, <1>3, <1>4, <1>5, <1>6

\* The handshake messages of a flight, by position.
Positions(types) == {i \in 1 .. Len(types) : types[i] # "ChangeCipherSpec"}

\* Step: the flight of side s consists of the messages msg, the keys are
\* secret, and a Finished message carries verify.
Flight(s, types, msg, secret, verify) ==
    /\ types \in Seq(PacketTypes) /\ FirstSeq(s) \in Nat
    /\ sendSeq'[s] = FirstSeq(s) + Messages(types, Len(types))
    /\ Made(s)' = Made(s) \cup {msg[i] : i \in Positions(types)}
    /\ \A i \in Positions(types) :
         /\ msg[i].type = types[i] /\ msg[i].seq \in Nat /\ msg[i].epoch \in {0, 1}
         /\ msg[i].epoch = 1 <=> types[i] = "Finished"
         /\ types[i] = "Finished" => msg[i].data = verify
         /\ types[i] # "Finished" => msg[i].data = {}
         /\ msg[i].from = s
         /\ FirstSeq(s) <= msg[i].seq /\ msg[i].seq < sendSeq'[s]
         /\ \A j \in Positions(types) : j < i => msg[j].seq < msg[i].seq
         /\ msg[i] = Message(msg[i].type, msg[i].from, msg[i].epoch, msg[i].seq, msg[i].data)
    /\ UNCHANGED <<offer, flight, recvSeq, reader, inbox, network, faults>>
    /\ fsm[s] = "preparing" /\ fsm'[s] = "sending"
    /\ \A x \in Sides \ {s} : /\ sendSeq'[x] = sendSeq[x] /\ flights'[x] = flights[x]
                              /\ ctx'[x] = ctx[x] /\ fsm'[x] = fsm[x]
    /\ ctx'[s].cache = ctx[s].cache /\ ctx'[s].secret = secret
    /\ flight[s] # 5 => secret = ctx[s].secret
    /\ flight[s] = 6 => verify = [secret |-> ctx[s].secret,
                                  over |-> Merged(ctx[s].cache, VerifyRules)]

LEMMA PrepareFlight ==
    ASSUME HandshakeInd, NEW s \in Sides, Prepare(s), NEW types, types = Packets(s, flight[s])
    PROVE  /\ \E msg, secret, verify : Flight(s, types, msg, secret, verify)
           /\ Shape' /\ Transport' /\ Possession' /\ FirstMessage' /\ NoAlert'
           /\ \A p \in ToSet(flights'[s]) :
                /\ p.epoch = 1 <=> p.type = "Finished"
                /\ p.epoch = 1 => p.key = ctx'[s].secret /\ p.key # {}
<1> USE DEF HandshakeInd
<1> DEFINE pkts == Numbered(s, types)
           secret == SecretOf(s, pkts)
           verify == [secret |-> secret,
                      over |-> Merged(ctx[s].cache, VerifyRules)
                                 \cup (IF flight[s] = 5 THEN Unsent(s, pkts) ELSE {})]
           p(i) == flights'[s][i]
           msg == [i \in Positions(types) |-> MessageOf(s, p(i))]
<1>1. /\ UNCHANGED <<offer, flight, recvSeq, reader, inbox, network, faults>>
      /\ fsm[s] = "preparing" /\ fsm'[s] = "sending"
      /\ FirstSeq(s) \in Nat /\ types \in Seq(PacketTypes)
      /\ sendSeq'[s] = FirstSeq(s) + Messages(types, Len(types))
      /\ Shape'
      /\ \A x \in Sides \ {s} : /\ sendSeq'[x] = sendSeq[x] /\ flights'[x] = flights[x]
                                /\ ctx'[x] = ctx[x] /\ fsm'[x] = fsm[x]
      /\ ctx'[s] = [ctx[s] EXCEPT !.secret = secret]
      /\ ctx'[s].secret = secret
      /\ DOMAIN flights'[s] = 1 .. Len(types)
      /\ \A i \in 1 .. Len(types) :
           /\ p(i).type = types[i] /\ p(i).seq = pkts[i].seq
           /\ p(i).epoch \in {0, 1} /\ (p(i).epoch = 1 <=> types[i] = "Finished")
           /\ types[i] = "Finished" => p(i).key = secret /\ p(i).data = verify
           /\ types[i] # "Finished" => p(i).data = {}
      /\ \A i \in 1 .. Len(types) : types[i] # "ChangeCipherSpec" =>
           /\ FirstSeq(s) <= pkts[i].seq /\ pkts[i].seq < sendSeq'[s]
           /\ pkts[i].seq \in Nat
           /\ \A j \in 1 .. i - 1 :
                types[j] # "ChangeCipherSpec" => pkts[j].seq < pkts[i].seq
  <2> HIDE DEF HandshakeInd
  <2> QED BY Prepared
<1>2. /\ ctx[s].secret = {} \/ secret = ctx[s].secret
      /\ flight[s] # 5 => secret = ctx[s].secret
  <2>1. flight[s] = 5 => ctx[s].secret = {}
    BY <1>1, TwoSides DEF ClientFlow, ServerFlow
  <2> QED BY <2>1 DEF SecretOf
<1>3. flight[s] = 6 => verify = [secret |-> ctx[s].secret,
                                 over |-> Merged(ctx[s].cache, VerifyRules)]
  BY <1>2
<1>4. flight[s] \in {5, 6} => secret # {}
  <2>1. CASE flight[s] = 5
    <3>1. PICK i \in 1 .. Len(types) : types[i] = "ClientKeyExchange"
      BY <2>1, FinishedFlights
    <3>2. pkts[i] \in ToSet(pkts) /\ pkts[i].type = "ClientKeyExchange"
      BY <1>1, <3>1 DEF Numbered, ToSet
    <3>3. <<"ClientKeyExchange", s, pkts[i].seq>> \in Unsent(s, pkts)
      BY <3>2 DEF Unsent
    <3> HIDE DEF pkts
    <3>4. <<"ClientKeyExchange", s, pkts[i].seq>> \in secret
      BY <2>1, <3>3 DEF SecretOf
    <3> QED BY <3>4
  <2>2. CASE flight[s] = 6
    <3>1. s = "server"
      BY <2>2, TwoSides DEF ClientFlow
    <3>2. PICK m \in From(ctx["server"], "client") : m.epoch = 1
      BY <2>2, <3>1 DEF ServerFlow
    <3>3. ctx["server"].secret # {}
      BY <3>2, TwoSides DEF Transport, Sound
    <3> QED BY <1>2, <2>2, <3>1, <3>3
  <2> QED BY <2>1, <2>2
<1> HIDE DEF pkts, secret, verify
<1>5. flight[s] \in 0 .. 6
  BY DEF Shape
<1>6. \A x \in ToSet(flights'[s]) :
        /\ x.epoch = 1 <=> x.type = "Finished"
        /\ x.epoch = 1 => x.key = ctx'[s].secret /\ x.key # {}
  <2> SUFFICES ASSUME NEW i \in 1 .. Len(types)
               PROVE  /\ p(i).epoch = 1 <=> p(i).type = "Finished"
                      /\ p(i).epoch = 1 => p(i).key = ctx'[s].secret /\ p(i).key # {}
    BY <1>1 DEF ToSet
  <2>1. types[i] = "Finished" => flight[s] \in {5, 6}
    BY <1>5, FinishedFlights
  <2> QED BY <1>1, <1>4, <2>1
<1>7. /\ ctx'[s].cache = ctx[s].cache /\ ctx'[s].fragments = ctx[s].fragments
      /\ ctx'[s].current = ctx[s].current /\ ctx'[s].queue = ctx[s].queue
  <2>1. ctx[s] \in ContextSet
    BY DEF Shape
  <2> QED BY <1>1, <2>1 DEF ContextSet
<1>8. Made(s) = From(ctx[s], s)
  BY <1>1 DEF Numbers
<1>9. Made(s)' = Made(s) \cup {msg[i] : i \in Positions(types)}
  <2>1. {MessageOf(s, x) : x \in {y \in ToSet(flights'[s]) : y.type # "ChangeCipherSpec"}}
          = {msg[i] : i \in Positions(types)}
    <3>1. ASSUME NEW x \in ToSet(flights'[s]), x.type # "ChangeCipherSpec"
          PROVE  MessageOf(s, x) \in {msg[i] : i \in Positions(types)}
      <4>1. PICK i \in 1 .. Len(types) : x = flights'[s][i]
        BY <1>1 DEF ToSet
      <4>2. i \in Positions(types)
        BY <1>1, <3>1, <4>1 DEF Positions
      <4> QED BY <4>1, <4>2
    <3>2. ASSUME NEW i \in Positions(types)
          PROVE  /\ msg[i] = MessageOf(s, flights'[s][i])
                 /\ flights'[s][i] \in ToSet(flights'[s])
                 /\ flights'[s][i].type # "ChangeCipherSpec"
      <4>1. i \in 1 .. Len(types) /\ types[i] # "ChangeCipherSpec"
        BY DEF Positions
      <4> QED BY <1>1, <4>1 DEF ToSet
    <3> QED BY <3>1, <3>2
  <2>2. From(ctx'[s], s) = Made(s)
    BY <1>7, <1>8 DEF From
  <2> QED BY <2>1, <2>2 DEF Made
<1>10. \A i \in Positions(types) :
         /\ msg[i].type = types[i] /\ msg[i].seq \in Nat /\ msg[i].epoch \in {0, 1}
         /\ msg[i].epoch = 1 <=> types[i] = "Finished"
         /\ types[i] = "Finished" => msg[i].data = verify
         /\ types[i] # "Finished" => msg[i].data = {}
         /\ msg[i].from = s
         /\ FirstSeq(s) <= msg[i].seq /\ msg[i].seq < sendSeq'[s]
         /\ \A j \in Positions(types) : j < i => msg[j].seq < msg[i].seq
         /\ msg[i] = Message(msg[i].type, msg[i].from, msg[i].epoch, msg[i].seq, msg[i].data)
  <2>1. \A i \in Positions(types) :
          /\ i \in 1 .. Len(types) /\ types[i] # "ChangeCipherSpec"
          /\ msg[i] = Message(p(i).type, s, p(i).epoch, p(i).seq, p(i).data)
    BY DEF Positions, MessageOf
  <2> HIDE DEF msg, p
  <2>7. \A i \in Positions(types) : p(i).type = types[i] /\ p(i).seq = pkts[i].seq
    BY <1>1, <2>1 DEF p
  <2>2. ASSUME NEW i \in Positions(types)
        PROVE  /\ msg[i].type = types[i] /\ msg[i].seq = pkts[i].seq
               /\ msg[i].epoch = p(i).epoch /\ msg[i].data = p(i).data /\ msg[i].from = s
               /\ msg[i] = Message(msg[i].type, msg[i].from, msg[i].epoch, msg[i].seq,
                                   msg[i].data)
    <3>1. msg[i] = Message(p(i).type, s, p(i).epoch, p(i).seq, p(i).data)
      BY <2>1
    <3>2. /\ msg[i].type = p(i).type /\ msg[i].from = s /\ msg[i].epoch = p(i).epoch
          /\ msg[i].seq = p(i).seq /\ msg[i].data = p(i).data
      BY <3>1 DEF Message
    <3> QED BY <2>7, <3>1, <3>2
  <2> SUFFICES ASSUME NEW i \in Positions(types)
               PROVE  /\ msg[i].type = types[i] /\ msg[i].seq \in Nat /\ msg[i].epoch \in {0, 1}
                      /\ msg[i].epoch = 1 <=> types[i] = "Finished"
                      /\ types[i] = "Finished" => msg[i].data = verify
                      /\ types[i] # "Finished" => msg[i].data = {}
                      /\ msg[i].from = s
                      /\ FirstSeq(s) <= msg[i].seq /\ msg[i].seq < sendSeq'[s]
                      /\ \A j \in Positions(types) : j < i => msg[j].seq < msg[i].seq
                      /\ msg[i] = Message(msg[i].type, msg[i].from, msg[i].epoch, msg[i].seq, msg[i].data)
    OBVIOUS
  <2>3. /\ p(i).epoch \in {0, 1} /\ (p(i).epoch = 1 <=> types[i] = "Finished")
        /\ types[i] = "Finished" => p(i).data = verify
        /\ types[i] # "Finished" => p(i).data = {}
    BY <1>1, <2>1 DEF p
  <2>4. /\ FirstSeq(s) <= pkts[i].seq /\ pkts[i].seq < sendSeq'[s] /\ pkts[i].seq \in Nat
        /\ \A j \in 1 .. i - 1 : types[j] # "ChangeCipherSpec" => pkts[j].seq < pkts[i].seq
    BY <1>1, <2>1
  <2>5. \A j \in Positions(types) : j < i => j \in 1 .. i - 1
    BY <1>1, <2>1
  <2>6. \A j \in Positions(types) : j < i => msg[j].seq < msg[i].seq
    BY <2>1, <2>2, <2>4, <2>5
  <2> QED BY <2>2, <2>3, <2>4, <2>6
<1> HIDE DEF msg, p
<1>11. Flight(s, types, msg, secret, verify)
  BY <1>1, <1>2, <1>3, <1>7, <1>9, <1>10 DEF Flight
<1>12. \A x \in Sides : /\ Advances(ctx[x], ctx'[x])
                        /\ \A y : From(ctx'[x], y) = From(ctx[x], y)
  BY <1>1, <1>2, <1>7 DEF Advances, From
<1>13. Transport'
  <2>1. \A x \in Sides : Sound(x, ctx'[x], ctx[Peer(x)])
    <3>1. Sound(s, ctx'[s], ctx[Peer(s)])
      <4>1. Sound(s, ctx[s], ctx[Peer(s)])
        BY DEF Transport
      <4>2. \A m \in From(ctx'[s], Peer(s)) \cup ctx'[s].fragments :
              m.epoch = 1 => ctx'[s].secret # {} /\ ctx'[s].secret = ctx[Peer(s)].secret
        <5>1. \A m \in From(ctx[s], Peer(s)) \cup ctx[s].fragments :
                m.epoch = 1 => ctx[s].secret # {} /\ ctx[s].secret = ctx[Peer(s)].secret
          BY <4>1 DEF Sound
        <5>2. ctx[s].secret # {} => ctx'[s].secret = ctx[s].secret
          BY <1>1, <1>2
        <5>3. /\ From(ctx'[s], Peer(s)) = From(ctx[s], Peer(s))
              /\ ctx'[s].fragments = ctx[s].fragments
          BY <1>7, <1>12
        <5> QED BY <5>1, <5>2, <5>3
      <4> QED BY <1>7, <1>12, <4>1, <4>2 DEF Sound
    <3> QED BY <1>1, <3>1 DEF Transport
  <2>2. \A x \in Sides : AllGenuine(Peer(x), ctx[Peer(x)], inbox'[x].records)
    BY <1>1 DEF Transport
  <2>3. \A x \in network : x.to \in Sides
    BY DEF Shape
  <2>4. network' \ network = {}
    BY <1>1
  <2> QED BY <1>12, <2>1, <2>2, <2>3, <2>4, TransportStays
<1>14. Possession'
  <2>1. ctx'["server"].secret = ctx["server"].secret
    <3>1. flight["server"] # 5
      BY DEF ServerFlow
    <3> QED BY <1>1, <1>2, <3>1, TwoSides
  <2> QED BY <1>12, <2>1, TwoSides, PossessionStays
<1>15. FirstMessage'
  <2>1. From(ctx'["client"], "server") = From(ctx["client"], "server")
    BY <1>12, TwoSides
  <2>2. flight' = flight /\ inbox' = inbox /\ reader' = reader
    BY <1>1
  <2>3. FirstMessage
    OBVIOUS
  <2> HIDE DEF HandshakeInd
  <2> QED BY <2>1, <2>2, <2>3 DEF FirstMessage
<1>16. NoAlert'
  <2>1. \A x \in Sides : fsm'[x] = "errored" => fsm[x] = "errored"
    BY <1>1
  <2> QED BY <1>1, <2>1 DEF NoAlert
<1> QED BY <1>1, <1>6, <1>11, <1>13, <1>14, <1>15, <1>16

\* What a flight adds to the messages of a side.
LEMMA FlightNumbers ==
    ASSUME HandshakeInd, Shape', NEW s \in Sides, NEW types, types = Packets(s, flight[s]),
           NEW msg, NEW secret, NEW verify, Flight(s, types, msg, secret, verify)
    PROVE  /\ sendSeq'[s] \in Nat /\ FirstSeq(s) <= sendSeq'[s]
           /\ flight[s] # 2 => \A m \in Made(s) : m.seq < FirstSeq(s)
           /\ flight[s] = 2 =>
                /\ \A m \in Made(s)' : m = Message("HelloVerifyRequest", s, 0, 0, {})
                /\ sendSeq'[s] = 1 /\ FirstSeq(s) = 0
           /\ \A x \in Sides \ {s} : Made(x)' = Made(x)
           /\ \A i, j \in Positions(types) : msg[i].seq = msg[j].seq => i = j
<1> USE DEF HandshakeInd
<1>1. /\ types \in Seq(PacketTypes) /\ FirstSeq(s) \in Nat
      /\ sendSeq'[s] = FirstSeq(s) + Messages(types, Len(types))
      /\ Made(s)' = Made(s) \cup {msg[i] : i \in Positions(types)}
      /\ \A i \in Positions(types) :
           /\ msg[i].type = types[i] /\ msg[i].seq \in Nat /\ msg[i].epoch \in {0, 1}
           /\ msg[i].epoch = 1 <=> types[i] = "Finished"
           /\ types[i] # "Finished" => msg[i].data = {}
           /\ msg[i].from = s
           /\ FirstSeq(s) <= msg[i].seq /\ msg[i].seq < sendSeq'[s]
           /\ \A j \in Positions(types) : j < i => msg[j].seq < msg[i].seq
           /\ msg[i] = Message(msg[i].type, msg[i].from, msg[i].epoch, msg[i].seq, msg[i].data)
      /\ \A x \in Sides \ {s} : flights'[x] = flights[x] /\ ctx'[x] = ctx[x]
  BY DEF Flight
<1>2. Len(types) \in Nat /\ Positions(types) \subseteq 1 .. Len(types)
  BY <1>1 DEF Positions
<1>3. Messages(types, Len(types)) \in Nat
  BY <1>2, MessagesStep
<1>4. flight[s] \in 0 .. 6 /\ sendSeq[s] \in Nat
  BY DEF Shape
<1>5. \A i, j \in Positions(types) : msg[i].seq = msg[j].seq => i = j
  <2> SUFFICES ASSUME NEW i \in Positions(types), NEW j \in Positions(types),
                      msg[i].seq = msg[j].seq
               PROVE  i = j
    OBVIOUS
  <2>1. i \in Nat /\ j \in Nat
    BY <1>2
  <2>2. msg[i].seq \in Nat /\ ~(i < j) /\ ~(j < i)
    BY <1>1
  <2> QED BY <2>1, <2>2
<1>6. \A x \in Sides \ {s} : Made(x)' = Made(x)
  BY <1>1 DEF Made, From
<1>7. flight[s] # 2 => \A m \in Made(s) : m.seq < FirstSeq(s)
  BY DEF FirstSeq, Numbers
<1>8. ASSUME flight[s] = 2
      PROVE  /\ \A m \in Made(s)' : m = Message("HelloVerifyRequest", s, 0, 0, {})
             /\ sendSeq'[s] = 1 /\ FirstSeq(s) = 0
  <2>1. Len(types) = 1 /\ types[1] = "HelloVerifyRequest"
    BY <1>4, <1>8, FlightPackets
  <2>2. Positions(types) = {1}
    BY <2>1 DEF Positions
  <2>3. FirstSeq(s) = 0
    BY <1>8 DEF FirstSeq
  <2>4. Messages(types, 1) \in 0 .. 1
    BY MessagesStep
  <2>5. /\ msg[1].type = "HelloVerifyRequest" /\ msg[1].from = s /\ msg[1].epoch = 0
        /\ msg[1].data = {} /\ msg[1].seq \in Nat /\ msg[1].seq < sendSeq'[s]
        /\ msg[1] = Message(msg[1].type, msg[1].from, msg[1].epoch, msg[1].seq, msg[1].data)
    BY <1>1, <2>1, <2>2
  <2>6. sendSeq'[s] = Messages(types, 1)
    BY <1>1, <2>1, <2>3, <2>4
  <2>7. sendSeq'[s] = 1 /\ msg[1].seq = 0
    BY <2>4, <2>5, <2>6
  <2>8. msg[1] = Message("HelloVerifyRequest", s, 0, 0, {})
    BY <2>5, <2>7
  <2>9. \A m \in Made(s) : m = Message("HelloVerifyRequest", s, 0, 0, {})
    <3> SUFFICES ASSUME NEW m \in Made(s)
                 PROVE  m = Message("HelloVerifyRequest", s, 0, 0, {})
      OBVIOUS
    <3>1. s = "server"
      BY <1>8, TwoSides DEF ClientFlow
    <3>2. m.type = "HelloVerifyRequest" /\ m.seq = 0
      BY <1>8, <3>1 DEF ServerFlow
    <3>3. m \in MessageSet /\ m.from = s
      BY MadeMessages
    <3>4. m.epoch = 0 /\ m.data = {}
      BY <3>2, <3>3 DEF Numbers, MessageSet
    <3> QED BY <3>2, <3>3, <3>4 DEF MessageSet, Message
  <2> QED BY <1>1, <2>2, <2>3, <2>7, <2>8, <2>9
<1>9. sendSeq'[s] \in Nat /\ FirstSeq(s) <= sendSeq'[s]
  BY <1>1, <1>3
<1> HIDE DEF HandshakeInd
<1> QED BY <1>5, <1>6, <1>7, <1>8, <1>9

LEMMA PrepareNumbers ==
    ASSUME HandshakeInd, Shape', NEW s \in Sides, NEW types, types = Packets(s, flight[s]),
           NEW msg, NEW secret, NEW verify, Flight(s, types, msg, secret, verify),
           \A p \in ToSet(flights'[s]) :
             /\ p.epoch = 1 <=> p.type = "Finished"
             /\ p.epoch = 1 => p.key = ctx'[s].secret /\ p.key # {}
    PROVE  Numbers'
<1>1. /\ FirstSeq(s) \in Nat
      /\ Made(s)' = Made(s) \cup {msg[i] : i \in Positions(types)}
      /\ \A i \in Positions(types) :
           /\ msg[i].type = types[i] /\ msg[i].seq \in Nat /\ msg[i].epoch \in {0, 1}
           /\ msg[i].epoch = 1 <=> types[i] = "Finished"
           /\ types[i] # "Finished" => msg[i].data = {}
           /\ FirstSeq(s) <= msg[i].seq /\ msg[i].seq < sendSeq'[s]
      /\ fsm'[s] = "sending"
      /\ \A x \in Sides \ {s} : /\ sendSeq'[x] = sendSeq[x] /\ flights'[x] = flights[x]
                                /\ ctx'[x] = ctx[x] /\ fsm'[x] = fsm[x]
  BY DEF Flight
<1>2. /\ sendSeq'[s] \in Nat /\ FirstSeq(s) <= sendSeq'[s]
      /\ flight[s] # 2 => \A m \in Made(s) : m.seq < FirstSeq(s)
      /\ flight[s] = 2 =>
           /\ \A m \in Made(s)' : m = Message("HelloVerifyRequest", s, 0, 0, {})
           /\ sendSeq'[s] = 1 /\ FirstSeq(s) = 0
      /\ \A x \in Sides \ {s} : Made(x)' = Made(x)
      /\ \A i, j \in Positions(types) : msg[i].seq = msg[j].seq => i = j
  <2>1. sendSeq'[s] \in Nat /\ FirstSeq(s) <= sendSeq'[s]
    BY FlightNumbers
  <2>2. flight[s] # 2 => \A m \in Made(s) : m.seq < FirstSeq(s)
    BY FlightNumbers
  <2>3. flight[s] = 2 =>
           /\ \A m \in Made(s)' : m = Message("HelloVerifyRequest", s, 0, 0, {})
           /\ sendSeq'[s] = 1 /\ FirstSeq(s) = 0
    BY FlightNumbers
  <2>4. \A x \in Sides \ {s} : Made(x)' = Made(x)
    BY FlightNumbers
  <2>5. ASSUME NEW i \in Positions(types), NEW j \in Positions(types), msg[i].seq = msg[j].seq
        PROVE  i = j
    BY <2>5, FlightNumbers
  <2> QED BY <2>1, <2>2, <2>3, <2>4, <2>5
<1>3. \A m \in Made(s) : m.seq \in Nat
  BY MadeMessages DEF HandshakeInd, MessageSet
<1>0. Numbers
  BY DEF HandshakeInd
<1>4. \A m \in Made(s)' :
        /\ m.seq < sendSeq'[s]
        /\ m.epoch = 1 <=> m.type = "Finished"
        /\ m.type # "Finished" => m.data = {}
  <2>1. CASE flight[s] = 2
    BY <1>2, <2>1 DEF Message
  <2>2. CASE flight[s] # 2
    <3>1. ASSUME NEW m \in Made(s)
          PROVE  /\ m.seq < sendSeq'[s]
                 /\ m.epoch = 1 <=> m.type = "Finished"
                 /\ m.type # "Finished" => m.data = {}
      <4>1. m.seq < FirstSeq(s) /\ m.seq \in Nat
        BY <1>2, <1>3, <2>2
      <4>2. m.seq < sendSeq'[s]
        BY <1>1, <1>2, <4>1
      <4> QED BY <1>0, <4>2 DEF Numbers
    <3>2. ASSUME NEW i \in Positions(types)
          PROVE  /\ msg[i].seq < sendSeq'[s]
                 /\ msg[i].epoch = 1 <=> msg[i].type = "Finished"
                 /\ msg[i].type # "Finished" => msg[i].data = {}
      BY <1>1
    <3> QED BY <1>1, <3>1, <3>2
  <2> QED BY <2>1, <2>2
<1>5. \A m, n \in Made(s)' : m.seq = n.seq => m = n
  <2>1. CASE flight[s] = 2
    BY <1>2, <2>1
  <2>2. CASE flight[s] # 2
    <3>1. \A m, n \in Made(s) : m.seq = n.seq => m = n
      BY <1>0 DEF Numbers
    <3>2. ASSUME NEW m \in Made(s), NEW i \in Positions(types)
          PROVE  m.seq # msg[i].seq
      <4>1. m.seq < FirstSeq(s) /\ m.seq \in Nat
        BY <1>2, <1>3, <2>2
      <4> QED BY <1>1, <4>1
    <3>3. \A i, j \in Positions(types) : msg[i].seq = msg[j].seq => msg[i] = msg[j]
      BY <1>2
    <3> QED BY <1>1, <3>1, <3>2, <3>3
  <2> QED BY <2>1, <2>2
<1> SUFFICES ASSUME NEW x \in Sides
             PROVE  /\ \A m \in Made(x)' :
                         /\ m.seq < sendSeq'[x]
                         /\ m.epoch = 1 <=> m.type = "Finished"
                         /\ m.type # "Finished" => m.data = {}
                    /\ \A m, n \in Made(x)' : m.seq = n.seq => m = n
                    /\ \A p \in ToSet(flights'[x]) :
                         /\ p.epoch = 1 <=> p.type = "Finished"
                         /\ p.epoch = 1 => p.key = ctx'[x].secret /\ p.key # {}
                    /\ fsm'[x] # "sending" => Made(x)' = From(ctx'[x], x)
  BY DEF Numbers
<1>6. CASE x = s
  BY <1>1, <1>4, <1>5, <1>6
<1>7. CASE x # s
  <2>1. /\ Made(x)' = Made(x) /\ sendSeq'[x] = sendSeq[x] /\ flights'[x] = flights[x]
        /\ ctx'[x] = ctx[x] /\ fsm'[x] = fsm[x]
    BY <1>1, <1>2, <1>7
  <2> QED BY <1>0, <2>1 DEF Numbers
<1> QED BY <1>6, <1>7

LEMMA PrepareClient ==
    ASSUME HandshakeInd, Shape', NEW types, types = Packets("client", flight["client"]),
           NEW msg, NEW secret, NEW verify, Flight("client", types, msg, secret, verify)
    PROVE  ClientFlow' /\ ServerFlow'
<1> DEFINE f == flight["client"]
<1>1. /\ FirstSeq("client") \in Nat /\ types \in Seq(PacketTypes)
      /\ sendSeq'["client"] = FirstSeq("client") + Messages(types, Len(types))
      /\ Made("client")' = Made("client") \cup {msg[i] : i \in Positions(types)}
      /\ \A i \in Positions(types) :
           /\ msg[i].type = types[i] /\ msg[i].seq \in Nat
           /\ msg[i].epoch \in {0, 1} /\ (msg[i].epoch = 1 <=> types[i] = "Finished")
           /\ FirstSeq("client") <= msg[i].seq
           /\ \A j \in Positions(types) : j < i => msg[j].seq < msg[i].seq
      /\ fsm["client"] = "preparing" /\ fsm'["client"] = "sending"
      /\ flight' = flight /\ recvSeq' = recvSeq
      /\ \A x \in Sides \ {"client"} : /\ sendSeq'[x] = sendSeq[x] /\ flights'[x] = flights[x]
                                       /\ ctx'[x] = ctx[x] /\ fsm'[x] = fsm[x]
      /\ ctx'["client"].cache = ctx["client"].cache /\ ctx'["client"].secret = secret
      /\ f # 5 => secret = ctx["client"].secret
  BY TwoSides DEF Flight
<1>2. /\ f # 2 => \A m \in Made("client") : m.seq < FirstSeq("client")
      /\ \A x \in Sides \ {"client"} : Made(x)' = Made(x)
  BY TwoSides, FlightNumbers
<1> USE DEF HandshakeInd
<1>3. /\ f \in {1, 3, 5} /\ f \in 0 .. 6
      /\ f = 1 => recvSeq["client"] = 0 /\ sendSeq["client"] = 0
      /\ f = 3 => recvSeq["client"] = 1 /\ sendSeq["client"] = 1
      /\ f = 5 => recvSeq["client"] \in 0 .. 6 /\ sendSeq["client"] \in 1 .. 2
      /\ \A m \in Made("client") : m.type = "ClientHello"
      /\ ctx["client"].secret = {}
      /\ ClientAuth /\ f = 5 =>
           \E m \in From(ctx["client"], "server") : m.type = "CertificateRequest"
  BY <1>1 DEF ClientFlow
<1>4. FirstSeq("client") = sendSeq["client"]
  BY <1>3 DEF FirstSeq
<1>5. /\ From(ctx'["client"], "client") = From(ctx["client"], "client")
      /\ From(ctx'["client"], "server") = From(ctx["client"], "server")
  BY <1>1 DEF From
<1>6. ServerFlow'
  <2>1. ServerFlow
    OBVIOUS
  <2>2. /\ flight'["server"] = flight["server"] /\ recvSeq'["server"] = recvSeq["server"]
        /\ sendSeq'["server"] = sendSeq["server"] /\ Made("server")' = Made("server")
        /\ ctx'["server"] = ctx["server"] /\ fsm'["server"] = fsm["server"]
    BY <1>1, <1>2, TwoSides
  <2>3. fsm["server"] = "done" => flight["server"] = 6
    BY DEF ServerFlow
  <2> HIDE DEF HandshakeInd
  <2> QED BY <1>5, <2>1, <2>2, <2>3, ServerFlowStays
<1>7. \A i \in Positions(types) : i \in 1 .. Len(types) /\ types[i] # "ChangeCipherSpec"
  BY DEF Positions
<1>10. Shape
  OBVIOUS
<1> HIDE DEF HandshakeInd
<1>8. CASE f \in {1, 3}
  <2>1. Len(types) = 1 /\ types[1] = "ClientHello"
    BY <1>3, <1>8, TwoSides, FlightPackets
  <2>2. Messages(types, 1) = 1
    <3>1. 0 \in Nat /\ 0 + 1 = 1
      OBVIOUS
    <3>2. /\ Messages(types, 0) \in 0 .. 0
          /\ Messages(types, 0 + 1) =
               Messages(types, 0) + IF types[0 + 1] # "ChangeCipherSpec" THEN 1 ELSE 0
      BY <3>1, MessagesStep
    <3> QED BY <2>1, <3>1, <3>2
  <2>3. sendSeq'["client"] = sendSeq["client"] + 1
    BY <1>1, <1>4, <2>1, <2>2
  <2>4. \A m \in Made("client")' : m.type = "ClientHello"
    BY <1>1, <1>3, <1>7, <2>1
  <2>5. /\ f = 1 => sendSeq'["client"] = 1
        /\ f = 3 => sendSeq'["client"] = 2
    BY <1>3, <2>3
  <2>6. /\ flight'["client"] = f /\ recvSeq'["client"] = recvSeq["client"]
        /\ fsm'["client"] = "sending" /\ ctx'["client"].secret = {}
    BY <1>1, <1>3, <1>8
  <2>7. ClientFlow'
    <3> HIDE DEF f
    <3> QED BY <1>3, <1>8, <2>4, <2>5, <2>6 DEF ClientFlow
  <2> QED BY <1>6, <2>7
<1>9. CASE f = 5
  <2>1. \/ /\ Requested("client") /\ Len(types) = 5 /\ types[1] = "Certificate"
           /\ types[2] = "ClientKeyExchange" /\ types[3] = "CertificateVerify"
           /\ types[4] = "ChangeCipherSpec" /\ types[5] = "Finished"
        \/ /\ ~Requested("client") /\ Len(types) = 3 /\ types[1] = "ClientKeyExchange"
           /\ types[2] = "ChangeCipherSpec" /\ types[3] = "Finished"
    <3>1. "client" \in Sides /\ 5 \in 0 .. 6 /\ types = Packets("client", 5)
      BY <1>9, TwoSides
    <3>2. CASE Requested("client")
      BY <3>1, <3>2, FlightPackets
    <3>3. CASE ~Requested("client")
      BY <3>1, <3>3, FlightPackets
    <3> QED BY <3>2, <3>3
  <2>2. Messages(types, Len(types)) \in 0 .. 4
    <3>1. CASE Len(types) = 5 /\ types[4] = "ChangeCipherSpec"
      <4>1. 5 \in Nat /\ 4 \in 1 .. 5
        OBVIOUS
      <4>2. Messages(types, 5) \in 0 .. 5 /\ Messages(types, 5) <= 5 - 1
        BY <3>1, <4>1, MessagesStep, MessagesWithout
      <4>3. Messages(types, 5) \in 0 .. 4
        BY <4>2
      <4> QED BY <3>1, <4>3, Zenon
    <3>2. CASE Len(types) = 3 /\ types[2] = "ChangeCipherSpec"
      <4>1. 3 \in Nat /\ 2 \in 1 .. 3
        OBVIOUS
      <4>2. Messages(types, 3) \in 0 .. 3 /\ Messages(types, 3) <= 3 - 1
        BY <3>2, <4>1, MessagesStep, MessagesWithout
      <4>3. Messages(types, 3) \in 0 .. 4
        BY <4>2
      <4> QED BY <3>2, <4>3, Zenon
    <3> QED BY <2>1, <3>1, <3>2
  <2>3. sendSeq'["client"] \in 1 .. 6
    <3>1. sendSeq["client"] \in 1 .. 2
      BY <1>3, <1>9
    <3> QED BY <1>1, <1>4, <2>2, <3>1
  <2>4. ClientAuth => Requested("client")
    BY <1>3, <1>9 DEF Requested, From
  <2>5. \A m \in Made("client") : m.type = "ClientHello" /\ m.seq < FirstSeq("client")
    BY <1>2, <1>3, <1>9
  <2>6. \A m \in Made("client") : m.seq \in Nat
    BY <1>10, TwoSides, MadeMessages DEF MessageSet
  <2> DEFINE after == Made("client")'
  <2>7. ASSUME NEW m \in after, m.type = "ClientKeyExchange"
        PROVE  /\ m.epoch = 0
               /\ \A n \in after : n.type = "Certificate" => n.seq < m.seq
               /\ ClientAuth => \E n \in after : n.type = "Certificate" /\ n.seq < m.seq
    <3>1. PICK i \in Positions(types) : m = msg[i] /\ types[i] = "ClientKeyExchange"
      BY <1>1, <2>5, <2>7
    <3>2. m.epoch = 0
      BY <1>1, <3>1
    <3>3. i \in 1 .. Len(types)
      BY <1>7
    <3>4. i = IF Requested("client") THEN 2 ELSE 1
      <4>1. CASE Requested("client")
        <5>1. Len(types) = 5 /\ types[1] = "Certificate" /\ types[3] = "CertificateVerify"
              /\ types[4] = "ChangeCipherSpec" /\ types[5] = "Finished"
          BY <2>1, <4>1
        <5>0. i \in 1 .. 5
          BY <3>3, <5>1, Zenon
        <5>2. i = 1 \/ i = 2 \/ i = 3 \/ i = 4 \/ i = 5
          BY <5>0
        <5> QED BY <3>1, <4>1, <5>1, <5>2
      <4>2. CASE ~Requested("client")
        <5>1. Len(types) = 3 /\ types[2] = "ChangeCipherSpec" /\ types[3] = "Finished"
          BY <2>1, <4>2
        <5>0. i \in 1 .. 3
          BY <3>3, <5>1, Zenon
        <5>2. i = 1 \/ i = 2 \/ i = 3
          BY <5>0
        <5> QED BY <3>1, <4>2, <5>1, <5>2
      <4> QED BY <4>1, <4>2
    <3>5. ASSUME NEW n \in after, n.type = "Certificate" PROVE n.seq < m.seq
      <4>1. PICK j \in Positions(types) : n = msg[j] /\ types[j] = "Certificate"
        BY <1>1, <2>5, <3>5
      <4>2. j \in 1 .. Len(types)
        BY <1>7
      <4>3. Requested("client") /\ j < i
        <5>1. CASE Requested("client")
          <6>1. Len(types) = 5 /\ types[2] = "ClientKeyExchange"
                /\ types[3] = "CertificateVerify"
                /\ types[4] = "ChangeCipherSpec" /\ types[5] = "Finished"
            BY <2>1, <5>1
          <6>0. j \in 1 .. 5
            BY <4>2, <6>1, Zenon
          <6>2. j = 1 \/ j = 2 \/ j = 3 \/ j = 4 \/ j = 5
            BY <6>0
          <6>3. j = 1
            BY <4>1, <6>1, <6>2
          <6> QED BY <3>4, <5>1, <6>3
        <5>2. CASE ~Requested("client")
          <6>1. Len(types) = 3 /\ types[1] = "ClientKeyExchange"
                /\ types[2] = "ChangeCipherSpec" /\ types[3] = "Finished"
            BY <2>1, <5>2
          <6>0. j \in 1 .. 3
            BY <4>2, <6>1, Zenon
          <6>2. j = 1 \/ j = 2 \/ j = 3
            BY <6>0
          <6> QED BY <4>1, <6>1, <6>2
        <5> QED BY <5>1, <5>2
      <4> QED BY <1>1, <3>1, <4>1, <4>3
    <3>6. ASSUME ClientAuth PROVE \E n \in after : n.type = "Certificate" /\ n.seq < m.seq
      <4>1. Requested("client") /\ i = 2
        BY <2>4, <3>4, <3>6
      <4>2. Len(types) = 5 /\ types[1] = "Certificate"
        BY <2>1, <4>1
      <4>3. 1 \in Positions(types)
        BY <4>2 DEF Positions
      <4>4. msg[1] \in after /\ msg[1].type = "Certificate" /\ msg[1].seq < m.seq
        BY <1>1, <3>1, <4>1, <4>2, <4>3
      <4> QED BY <4>4
    <3> QED BY <3>2, <3>5, <3>6
  <2>8. ASSUME NEW m \in after, NEW n \in after, m.type = "Finished" PROVE n.seq <= m.seq
    <3>1. PICK i \in Positions(types) : m = msg[i] /\ types[i] = "Finished"
      BY <1>1, <2>5, <2>8
    <3>2. i = Len(types)
      BY <1>3, <1>7, <3>1, TwoSides, FinishedFlights
    <3>3. FirstSeq("client") <= m.seq /\ m.seq \in Nat
      BY <1>1, <3>1
    <3>4. CASE n \in Made("client")
      <4>1. n.seq < FirstSeq("client") /\ n.seq \in Nat
        BY <2>5, <2>6, <3>4
      <4> QED BY <1>1, <3>3, <4>1
    <3>5. ASSUME NEW j \in Positions(types), n = msg[j] PROVE n.seq <= m.seq
      <4>1. j \in 1 .. Len(types) /\ Len(types) \in Nat /\ n.seq \in Nat
        BY <1>1, <1>7, <3>5
      <4>2. j = i \/ j < i
        BY <3>2, <4>1
      <4>3. j < i => n.seq < m.seq
        BY <1>1, <3>1, <3>5
      <4> QED BY <3>1, <3>3, <3>5, <4>1, <4>2, <4>3
    <3> QED BY <1>1, <3>4, <3>5
  <2>9. /\ flight'["client"] = 5 /\ recvSeq'["client"] \in 0 .. 6 /\ fsm'["client"] = "sending"
        /\ ClientAuth => \E m \in From(ctx'["client"], "server") : m.type = "CertificateRequest"
    BY <1>1, <1>3, <1>5, <1>9
  <2>10. ClientFlow'
    <3> HIDE DEF f
    <3> QED BY <2>3, <2>7, <2>8, <2>9 DEF ClientFlow
  <2> QED BY <1>6, <2>10
<1> QED BY <1>3, <1>8, <1>9

\* The hash that the server's Finished message carries leaves that message out.
LEMMA MergedWithout ==
    ASSUME NEW c, NEW x, x.type = "Finished", x.from = "server"
    PROVE  Merged(c \cup {x}, VerifyRules) = Merged(c, VerifyRules)
<1>1. \A r \in ToSet(VerifyRules) : r[1] # "Finished" \/ r[3] # "server"
  <2> SUFFICES ASSUME NEW i \in DOMAIN VerifyRules
               PROVE  VerifyRules[i][1] # "Finished" \/ VerifyRules[i][3] # "server"
    BY DEF ToSet
  <2>1. /\ Len(HashRules) = 8
        /\ \A j \in 1 .. 8 : HashRules[j][1] # "Finished"
    <3>1. Len(HashRules) = 8
      BY DEF HashRules
    <3>2. /\ HashRules[1][1] # "Finished" /\ HashRules[2][1] # "Finished"
          /\ HashRules[3][1] # "Finished" /\ HashRules[4][1] # "Finished"
          /\ HashRules[5][1] # "Finished" /\ HashRules[6][1] # "Finished"
          /\ HashRules[7][1] # "Finished" /\ HashRules[8][1] # "Finished"
      BY DEF HashRules, Needs
    <3>3. \A j \in 1 .. 8 : j = 1 \/ j = 2 \/ j = 3 \/ j = 4 \/ j = 5 \/ j = 6 \/ j = 7 \/ j = 8
      OBVIOUS
    <3> QED BY <3>1, <3>2, <3>3
  <2> DEFINE last == << Needs("CertificateVerify", 0, "client"),
                        Needs("Finished", 1, "client") >>
  <2>2. VerifyRules = HashRules \o last
    BY DEF VerifyRules
  <2>3. Len(last) = 2 /\ last[1][1] # "Finished" /\ last[2][3] # "server"
    BY DEF Needs
  <2>4. HashRules \in Seq(Range(HashRules)) /\ last \in Seq(Range(last))
    BY DEF HashRules, Range
  <2> HIDE DEF last
  <2>5. /\ DOMAIN VerifyRules = 1 .. 10
        /\ \A j \in 1 .. 10 : VerifyRules[j] = IF j <= 8 THEN HashRules[j] ELSE last[j - 8]
    <3> DEFINE S == Range(HashRules) \cup Range(last)
    <3>1. HashRules \in Seq(S) /\ last \in Seq(S)
      BY <2>4
    <3> HIDE DEF S
    <3>2. /\ Len(VerifyRules) = Len(HashRules) + Len(last)
          /\ \A j \in 1 .. Len(HashRules) + Len(last) :
               VerifyRules[j] = IF j <= Len(HashRules) THEN HashRules[j]
                                ELSE last[j - Len(HashRules)]
          /\ VerifyRules \in Seq(S)
      BY <2>2, <3>1, ConcatProperties
    <3>3. DOMAIN VerifyRules = 1 .. Len(VerifyRules)
      BY <3>2
    <3>4. Len(HashRules) + Len(last) = 10
      BY <2>1, <2>3
    <3> QED BY <2>1, <3>2, <3>3, <3>4
  <2>6. i \in 1 .. 8 \/ i = 9 \/ i = 10
    BY <2>5
  <2>7. CASE i \in 1 .. 8
    BY <2>1, <2>5, <2>7
  <2>8. CASE i = 9
    BY <2>3, <2>5, <2>8
  <2>9. CASE i = 10
    BY <2>3, <2>5, <2>9
  <2> QED BY <2>6, <2>7, <2>8, <2>9
<1>2. \A r \in ToSet(VerifyRules) : Newest(c \cup {x}, r) = Newest(c, r)
  <2> SUFFICES ASSUME NEW r \in ToSet(VerifyRules)
               PROVE  Newest(c \cup {x}, r) = Newest(c, r)
    OBVIOUS
  <2>1. ~(x.type = r[1] /\ x.epoch = r[2] /\ x.from = r[3])
    BY <1>1
  <2>2. {m \in c \cup {x} : m.type = r[1] /\ m.epoch = r[2] /\ m.from = r[3]}
          = {m \in c : m.type = r[1] /\ m.epoch = r[2] /\ m.from = r[3]}
    BY <2>1
  <2> QED BY <2>2 DEF Newest
<1>3. {Newest(c \cup {x}, r) : r \in ToSet(VerifyRules)}
        = {Newest(c, r) : r \in ToSet(VerifyRules)}
  BY <1>2
<1> QED BY <1>3 DEF Merged

LEMMA PrepareServer ==
    ASSUME HandshakeInd, Shape', NEW types, types = Packets("server", flight["server"]),
           NEW msg, NEW secret, NEW verify, Flight("server", types, msg, secret, verify)
    PROVE  ClientFlow' /\ ServerFlow'
<1> DEFINE f == flight["server"]
           after == Made("server")'
<1>1. /\ FirstSeq("server") \in Nat /\ types \in Seq(PacketTypes)
      /\ sendSeq'["server"] = FirstSeq("server") + Messages(types, Len(types))
      /\ after = Made("server") \cup {msg[i] : i \in Positions(types)}
      /\ \A i \in Positions(types) :
           /\ msg[i].type = types[i] /\ msg[i].seq \in Nat
           /\ msg[i].from = "server"
           /\ types[i] = "Finished" => msg[i].data = verify
           /\ FirstSeq("server") <= msg[i].seq
           /\ \A j \in Positions(types) : j < i => msg[j].seq < msg[i].seq
      /\ fsm["server"] = "preparing" /\ fsm'["server"] = "sending"
      /\ flight' = flight /\ recvSeq' = recvSeq
      /\ \A x \in Sides \ {"server"} : /\ sendSeq'[x] = sendSeq[x] /\ flights'[x] = flights[x]
                                       /\ ctx'[x] = ctx[x] /\ fsm'[x] = fsm[x]
      /\ ctx'["server"].cache = ctx["server"].cache /\ ctx'["server"].secret = secret
      /\ f # 5 => secret = ctx["server"].secret
      /\ f = 6 => verify = [secret |-> ctx["server"].secret,
                            over |-> Merged(ctx["server"].cache, VerifyRules)]
  BY TwoSides DEF Flight
<1>2. /\ f # 2 => \A m \in Made("server") : m.seq < FirstSeq("server")
      /\ \A x \in Sides \ {"server"} : Made(x)' = Made(x)
      /\ f = 2 =>
           /\ \A m \in after : m = Message("HelloVerifyRequest", "server", 0, 0, {})
           /\ sendSeq'["server"] = 1
  BY TwoSides, FlightNumbers
<1> HIDE DEF after
<1> USE DEF HandshakeInd
<1>3. /\ f \in {0, 2, 4, 6} /\ f \in 0 .. 6
      /\ f = 0 => recvSeq["server"] = 0 /\ sendSeq["server"] = 0
      /\ f = 2 => recvSeq["server"] = 1
      /\ f = 4 => recvSeq["server"] = 2 /\ sendSeq["server"] = 1
      /\ f = 6 => recvSeq["server"] \in 2 .. 6 /\ sendSeq["server"] \in 1 .. 6
      /\ f \in {0, 2, 4} => \A m \in Made("server") : m.type = "HelloVerifyRequest"
      /\ \A m \in Made("server") :
           /\ m.type = "HelloVerifyRequest" => m.seq = 0
           /\ m.type = "ServerHelloDone" /\ ClientAuth =>
                \E n \in Made("server") : n.type = "CertificateRequest" /\ n.seq < m.seq
           /\ m.type # "Finished"
      /\ f \in {4, 6} => \E m \in From(ctx["server"], "client") : m.seq = 1
      /\ f = 6 => \E m \in From(ctx["server"], "client") : m.epoch = 1
  BY <1>1 DEF ServerFlow
<1>4. f # 2 => FirstSeq("server") = sendSeq["server"]
  BY DEF FirstSeq
<1>5. /\ From(ctx'["server"], "client") = From(ctx["server"], "client")
      /\ ctx'["client"] = ctx["client"] /\ ctx'["server"].secret = ctx["server"].secret
  BY <1>1, <1>3, TwoSides DEF From
<1>6. ClientFlow'
  <2>1. ClientFlow
    OBVIOUS
  <2>2. /\ flight'["client"] = flight["client"] /\ recvSeq'["client"] = recvSeq["client"]
        /\ sendSeq'["client"] = sendSeq["client"] /\ Made("client")' = Made("client")
        /\ ctx'["client"] = ctx["client"] /\ fsm'["client"] = fsm["client"]
    BY <1>1, <1>2, TwoSides
  <2> HIDE DEF HandshakeInd
  <2> QED BY <2>1, <2>2, ClientFlowStays
<1>7. \A i \in Positions(types) : i \in 1 .. Len(types) /\ types[i] # "ChangeCipherSpec"
  BY DEF Positions
<1>8. \A m \in Made("server") : m.seq \in Nat
  BY TwoSides, MadeMessages DEF MessageSet
<1>9. Made("server") = From(ctx["server"], "server")
  BY <1>1, TwoSides DEF Numbers
<1>10. ctx["server"].cache = From(ctx["server"], "client") \cup From(ctx["server"], "server")
  BY TwoSides, CacheBound DEF From
<1>11. f = 6 => From(ctx["server"], "client") = From(ctx["client"], "client")
  <2> HIDE DEF HandshakeInd
  <2> QED BY ServerHasAll
<1> HIDE DEF HandshakeInd
\* What the flight has to be shown for, and what the rest of the flow is.
<1>12. ASSUME f = 0 => sendSeq'["server"] = 0,
              f = 2 => sendSeq'["server"] = 1,
              f = 4 => sendSeq'["server"] \in 1 .. 6,
              f = 6 => sendSeq'["server"] \in 1 .. 7,
              f \in {0, 2} => \A m \in after : m.type = "HelloVerifyRequest",
              \A m \in after : m.type = "HelloVerifyRequest" => m.seq = 0,
              \A m \in after : m.type = "ServerHelloDone" /\ ClientAuth =>
                \E n \in after : n.type = "CertificateRequest" /\ n.seq < m.seq,
              \A m \in after : m.type = "Finished" =>
                /\ f = 6
                /\ \A n \in after : n.seq <= m.seq
                /\ m.data = [secret |-> ctx["server"].secret,
                             over |-> Merged(From(ctx["client"], "client") \cup after,
                                             VerifyRules)]
       PROVE  ServerFlow'
  <2>1. /\ flight'["server"] = f /\ recvSeq'["server"] = recvSeq["server"]
        /\ fsm'["server"] = "sending" /\ after = Made("server")'
    BY <1>1 DEF after
  <2> HIDE DEF f
  <2> QED BY <1>3, <1>5, <1>12, <2>1 DEF ServerFlow
<1>13. CASE f = 0
  <2>1. Len(types) = 0
    BY <1>3, <1>13, TwoSides, FlightPackets
  <2>2. Positions(types) = {}
    BY <1>7, <2>1
  <2>3. after = Made("server")
    BY <1>1, <2>2
  <2>4. Messages(types, 0) = 0
    <3>1. 0 \in Nat
      OBVIOUS
    <3>2. Messages(types, 0) \in 0 .. 0
      BY <3>1, MessagesStep
    <3> QED BY <3>2
  <2>5. FirstSeq("server") = 0
    BY <1>3, <1>4, <1>13
  <2>6. sendSeq'["server"] = 0
    BY <1>1, <2>1, <2>4, <2>5
  <2>7. ServerFlow'
    BY <1>3, <1>12, <1>13, <2>3, <2>6
  <2> QED BY <1>6, <2>7
<1>14. CASE f = 2
  <2>1. \A m \in after : m.type = "HelloVerifyRequest" /\ m.seq = 0
    BY <1>2, <1>14 DEF Message
  <2>2. ServerFlow'
    BY <1>2, <1>12, <1>14, <2>1
  <2> QED BY <1>6, <2>2
<1>15. CASE f = 4
  <2>1. /\ ClientAuth =>
             /\ Len(types) = 5 /\ types[4] = "CertificateRequest"
             /\ types[5] = "ServerHelloDone"
        /\ Len(types) \in 4 .. 5
        /\ \A i \in 1 .. Len(types) :
             types[i] \in {"ServerHello", "Certificate", "ServerKeyExchange",
                           "CertificateRequest", "ServerHelloDone"}
    <3>0. "server" \in Sides /\ 4 \in 0 .. 6 /\ types = Packets("server", 4)
      BY <1>15, TwoSides
    <3>1. CASE ClientAuth
      <4>1. /\ Len(types) = 5 /\ types[1] = "ServerHello" /\ types[2] = "Certificate"
            /\ types[3] = "ServerKeyExchange" /\ types[4] = "CertificateRequest"
            /\ types[5] = "ServerHelloDone"
        BY <3>0, <3>1, FlightPackets
      <4>2. ASSUME NEW i \in 1 .. 5
            PROVE  types[i] \in {"ServerHello", "Certificate", "ServerKeyExchange",
                                 "CertificateRequest", "ServerHelloDone"}
        <5>1. i = 1 \/ i = 2 \/ i = 3 \/ i = 4 \/ i = 5
          OBVIOUS
        <5> QED BY <4>1, <5>1
      <4>3. 5 \in 4 .. 5
        OBVIOUS
      <4> QED BY <4>1, <4>2, <4>3, Zenon
    <3>2. CASE ~ClientAuth
      <4>1. /\ Len(types) = 4 /\ types[1] = "ServerHello" /\ types[2] = "Certificate"
            /\ types[3] = "ServerKeyExchange" /\ types[4] = "ServerHelloDone"
        BY <3>0, <3>2, FlightPackets
      <4>2. ASSUME NEW i \in 1 .. 4
            PROVE  types[i] \in {"ServerHello", "Certificate", "ServerKeyExchange",
                                 "CertificateRequest", "ServerHelloDone"}
        <5>1. i = 1 \/ i = 2 \/ i = 3 \/ i = 4
          OBVIOUS
        <5> QED BY <4>1, <5>1
      <4>3. 4 \in 4 .. 5
        OBVIOUS
      <4> QED BY <3>2, <4>1, <4>2, <4>3, Zenon
    <3> QED BY <3>1, <3>2
  <2>2. sendSeq'["server"] \in 1 .. 6
    <3>1. PICK n \in 4 .. 5 : n = Len(types)
      BY <2>1
    <3>2. Messages(types, n) \in 0 .. n
      BY <3>1, MessagesStep
    <3>3. FirstSeq("server") = 1
      BY <1>3, <1>4, <1>15
    <3>4. sendSeq'["server"] = 1 + Messages(types, n)
      BY <1>1, <3>1, <3>3
    <3>7. 0 .. n \subseteq 0 .. 5
      OBVIOUS
    <3>5. PICK k \in 0 .. 5 : k = Messages(types, n)
      BY <3>2, <3>7, Zenon
    <3>6. sendSeq'["server"] = 1 + k /\ 1 + k \in 1 .. 6
      BY <3>4, <3>5
    <3> QED BY <3>6
  <2>3. \A m \in after :
          \/ m \in Made("server") /\ m.type = "HelloVerifyRequest" /\ m.seq = 0
          \/ \E i \in Positions(types) : m = msg[i] /\ m.type = types[i]
    BY <1>1, <1>3, <1>15
  <2>4. \A i \in Positions(types) : types[i] # "HelloVerifyRequest" /\ types[i] # "Finished"
    BY <1>7, <2>1
  <2>5. \A m \in after : /\ m.type = "HelloVerifyRequest" => m.seq = 0
                         /\ m.type # "Finished"
    BY <2>3, <2>4
  <2>6. ASSUME NEW m \in after, m.type = "ServerHelloDone", ClientAuth
        PROVE  \E n \in after : n.type = "CertificateRequest" /\ n.seq < m.seq
    <3>1. PICK i \in Positions(types) : m = msg[i] /\ types[i] = "ServerHelloDone"
      BY <2>3, <2>6
    <3>2. Len(types) = 5 /\ types[4] = "CertificateRequest" /\ types[5] = "ServerHelloDone"
      BY <2>1, <2>6
    <3>3. 4 \in 1 .. 5 /\ types[4] # "ChangeCipherSpec"
      BY <3>2
    <3>4. 4 \in Positions(types)
      BY <3>2, <3>3, Zenon DEF Positions
    <3>5. i \in 1 .. 5
      BY <1>7, <3>2, Zenon
    <3>6. i = 5
      <4>0. "server" \in Sides /\ 4 \in 0 .. 6 /\ types = Packets("server", 4)
        BY <1>15, TwoSides
      <4>1. /\ types[1] = "ServerHello" /\ types[2] = "Certificate"
            /\ types[3] = "ServerKeyExchange" /\ types[4] = "CertificateRequest"
        BY <2>6, <4>0, FlightPackets
      <4>2. i = 1 \/ i = 2 \/ i = 3 \/ i = 4 \/ i = 5
        BY <3>5
      <4> QED BY <3>1, <4>1, <4>2
    <3>7. msg[4].type = "CertificateRequest" /\ msg[4].seq < m.seq /\ msg[4] \in after
      BY <1>1, <3>1, <3>2, <3>4, <3>6
    <3> QED BY <3>7
  <2>7. ServerFlow'
    BY <1>12, <1>15, <2>2, <2>5, <2>6
  <2> QED BY <1>6, <2>7
<1>16. CASE f = 6
  <2>1. Len(types) = 2 /\ types[1] = "ChangeCipherSpec" /\ types[2] = "Finished"
    BY <1>3, <1>16, TwoSides, FlightPackets
  <2>2. Positions(types) = {2}
    <3>1. \A i \in 1 .. 2 : i = 1 \/ i = 2
      OBVIOUS
    <3>2. 2 \in 1 .. 2
      OBVIOUS
    <3>3. \A i \in 1 .. Len(types) : i = 1 \/ i = 2
      BY <2>1, <3>1, Zenon
    <3>4. 2 \in 1 .. Len(types)
      BY <2>1, <3>2, Zenon
    <3> QED BY <2>1, <3>3, <3>4 DEF Positions
  <2>3. sendSeq'["server"] \in 1 .. 7
    <3>1. 2 \in Nat /\ 1 \in 1 .. 2
      OBVIOUS
    <3>2. Messages(types, 2) \in 0 .. 2 /\ Messages(types, 2) <= 2 - 1
      BY <2>1, <3>1, MessagesStep, MessagesWithout
    <3>3. FirstSeq("server") = sendSeq["server"] /\ sendSeq["server"] \in 1 .. 6
      BY <1>3, <1>4, <1>16
    <3>4. sendSeq'["server"] = sendSeq["server"] + Messages(types, 2)
      BY <1>1, <2>1, <3>3
    <3> QED BY <3>2, <3>3, <3>4
  <2>4. /\ after = Made("server") \cup {msg[2]}
        /\ msg[2].type = "Finished" /\ msg[2].from = "server" /\ msg[2].data = verify
        /\ msg[2].seq \in Nat /\ FirstSeq("server") <= msg[2].seq
    BY <1>1, <2>1, <2>2
  <2>5. \A n \in after : n.seq <= msg[2].seq
    <3>1. ASSUME NEW n \in Made("server") PROVE n.seq <= msg[2].seq
      <4>1. n.seq < FirstSeq("server") /\ n.seq \in Nat
        BY <1>2, <1>8, <1>16
      <4> QED BY <1>1, <2>4, <4>1
    <3>2. msg[2].seq <= msg[2].seq
      BY <2>4
    <3> QED BY <2>4, <3>1, <3>2
  <2>6. verify = [secret |-> ctx["server"].secret,
                  over |-> Merged(From(ctx["client"], "client") \cup after, VerifyRules)]
    <3>1. verify = [secret |-> ctx["server"].secret,
                    over |-> Merged(ctx["server"].cache, VerifyRules)]
      BY <1>1, <1>16
    <3>2. From(ctx["client"], "client") \cup after = ctx["server"].cache \cup {msg[2]}
      BY <1>9, <1>10, <1>11, <1>16, <2>4
    <3>3. Merged(ctx["server"].cache \cup {msg[2]}, VerifyRules)
            = Merged(ctx["server"].cache, VerifyRules)
      BY <2>4, MergedWithout
    <3> QED BY <3>1, <3>2, <3>3
  <2>7. \A m \in after : m.type = "Finished" => m = msg[2]
    BY <1>3, <2>4
  <2>8. \A m \in after : m.type = "HelloVerifyRequest" => m.seq = 0
    BY <1>3, <2>4
  <2>9. \A m \in after : m.type = "ServerHelloDone" /\ ClientAuth =>
          \E n \in after : n.type = "CertificateRequest" /\ n.seq < m.seq
    BY <1>3, <2>4
  <2>10. \A m \in after : m.type = "Finished" =>
           /\ \A n \in after : n.seq <= m.seq
           /\ m.data = [secret |-> ctx["server"].secret,
                        over |-> Merged(From(ctx["client"], "client") \cup after, VerifyRules)]
    BY <2>4, <2>5, <2>6, <2>7
  <2>11. ServerFlow'
    BY <1>12, <1>16, <2>3, <2>8, <2>9, <2>10
  <2> QED BY <1>6, <2>11
<1> QED BY <1>3, <1>13, <1>14, <1>15, <1>16

LEMMA PrepareKeeps ==
    ASSUME HandshakeInd, NEW s \in Sides, Prepare(s)
    PROVE  HandshakeInd'
<1> DEFINE types == Packets(s, flight[s])
<1>1. /\ \E msg, secret, verify : Flight(s, types, msg, secret, verify)
      /\ Shape' /\ Transport' /\ Possession' /\ FirstMessage' /\ NoAlert'
      /\ \A p \in ToSet(flights'[s]) :
           /\ p.epoch = 1 <=> p.type = "Finished"
           /\ p.epoch = 1 => p.key = ctx'[s].secret /\ p.key # {}
  BY PrepareFlight
<1>2. PICK msg, secret, verify : Flight(s, types, msg, secret, verify)
  BY <1>1
<1> HIDE DEF types
<1>3. types = Packets(s, flight[s])
  BY DEF types
<1>4. Numbers'
  BY <1>1, <1>2, <1>3, PrepareNumbers
<1>5. ClientFlow' /\ ServerFlow'
  <2>1. CASE s = "client"
    BY <1>1, <1>2, <1>3, <2>1, PrepareClient
  <2>2. CASE s = "server"
    BY <1>1, <1>2, <1>3, <2>2, PrepareServer
  <2> QED BY <2>1, <2>2, TwoSides
<1> QED BY <1>1, <1>4, <1>5 DEF HandshakeInd

-----------------------------------------------------------------------------
(* The invariant is inductive                                              *)

LEMMA InitInd == Init => HandshakeInd
<1> SUFFICES ASSUME Init PROVE HandshakeInd
  OBVIOUS
<1> DEFINE fresh == [cache |-> {}, fragments |-> {}, current |-> 0,
                     remoteEpoch |-> 0, queue |-> <<>>, secret |-> {}]
<1>1. /\ offer \in Offers
      /\ flight = [s \in Sides |-> IF s = "client" THEN 1 ELSE 0]
      /\ fsm = [s \in Sides |-> "preparing"]
      /\ flights = [s \in Sides |-> <<>>]
      /\ sendSeq = [s \in Sides |-> 0]
      /\ recvSeq = [s \in Sides |-> 0]
      /\ ctx = [s \in Sides |-> fresh]
      /\ reader = [s \in Sides |-> "reading"]
      /\ inbox = [s \in Sides |-> [records |-> <<>>, handshake |-> FALSE]]
      /\ network = {} /\ faults = 0
  BY DEF Init
<1>2. fresh \in ContextSet
  BY DEF ContextSet
<1>3. /\ fresh.cache = {} /\ fresh.fragments = {} /\ fresh.current = 0
      /\ fresh.queue = <<>> /\ fresh.secret = {}
  OBVIOUS
<1> HIDE DEF fresh
<1>4. /\ flight["client"] = 1 /\ flight["server"] = 0
      /\ \A s \in Sides : /\ fsm[s] = "preparing" /\ flights[s] = <<>> /\ sendSeq[s] = 0
                          /\ recvSeq[s] = 0 /\ ctx[s] = fresh /\ reader[s] = "reading"
                          /\ inbox[s].records = <<>> /\ inbox[s].handshake = FALSE
  BY <1>1, TwoSides
<1>5. Shape
  <2>1. flight \in [Sides -> 0 .. 6]
    BY <1>1
  <2>2. inbox \in [Sides -> [records : RecordsSet, handshake : BOOLEAN]]
    <3>1. <<>> \in RecordsSet
      BY DEF RecordsSet
    <3> QED BY <1>1, <3>1
  <2>3. flights \in [Sides -> Seq(PacketSet)]
    BY <1>1
  <2>4. faults \in 0 .. MaxFaults
    BY <1>1, HandshakeAssumption
  <2> QED BY <1>1, <1>2, <2>1, <2>2, <2>3, <2>4 DEF Shape
<1>6. \A s \in Sides : /\ Made(s) = {} /\ ToSet(flights[s]) = {}
                       /\ \A x : From(ctx[s], x) = {}
  <2> SUFFICES ASSUME NEW s \in Sides
               PROVE  Made(s) = {} /\ ToSet(flights[s]) = {} /\ \A x : From(ctx[s], x) = {}
    OBVIOUS
  <2>1. \A x : From(ctx[s], x) = {}
    BY <1>3, <1>4 DEF From
  <2>2. ToSet(flights[s]) = {}
    BY <1>4 DEF ToSet
  <2> QED BY <2>1, <2>2 DEF Made
<1>7. Numbers
  BY <1>6 DEF Numbers
<1>8. ClientFlow
  BY <1>3, <1>4, <1>6, TwoSides DEF ClientFlow
<1>9. ServerFlow
  BY <1>3, <1>4, <1>6, TwoSides DEF ServerFlow
<1>10. Transport
  <2>1. ASSUME NEW s \in Sides PROVE Sound(s, ctx[s], ctx[Peer(s)])
    <3>1. 0 .. 0 - 1 = {}
      OBVIOUS
    <3>2. From(ctx[s], Peer(s)) = {}
      BY <1>6
    <3>3. /\ ctx[s].fragments = {} /\ ctx[s].current = 0 /\ ctx[s].queue = <<>>
      BY <1>3, <1>4
    <3>4. {m.seq : m \in From(ctx[s], Peer(s))} = {}
      BY <3>2
    <3>5. \A i \in DOMAIN ctx[s].queue : FALSE
      BY <3>3
    <3> QED BY <3>1, <3>2, <3>3, <3>4, <3>5 DEF Sound
  <2>2. ASSUME NEW s \in Sides PROVE AllGenuine(Peer(s), ctx[Peer(s)], inbox[s].records)
    BY <1>4 DEF AllGenuine
  <2> QED BY <1>1, <2>1, <2>2 DEF Transport
<1>11. Possession
  BY <1>3, <1>4, TwoSides DEF Possession
<1>12. FirstMessage
  BY <1>4, TwoSides DEF FirstMessage
<1>13. NoAlert
  <2>1. <<>> # <<Alert>>
    OBVIOUS
  <2> QED BY <1>1, <1>4, <2>1 DEF NoAlert
<1> QED BY <1>5, <1>7, <1>8, <1>9, <1>10, <1>11, <1>12, <1>13 DEF HandshakeInd

LEMMA StutterInd == HandshakeInd /\ UNCHANGED vars => HandshakeInd'
<1> SUFFICES ASSUME HandshakeInd, UNCHANGED vars PROVE HandshakeInd'
  OBVIOUS
<1>1. /\ offer' = offer /\ flight' = flight /\ fsm' = fsm /\ flights' = flights
      /\ sendSeq' = sendSeq /\ recvSeq' = recvSeq /\ ctx' = ctx /\ reader' = reader
      /\ inbox' = inbox /\ network' = network /\ faults' = faults
  BY DEF vars
<1>2. \A s \in Sides : Made(s)' = Made(s)
  BY <1>1 DEF Made
<1>3. Shape' /\ Transport' /\ Possession' /\ FirstMessage' /\ NoAlert'
  BY <1>1 DEF HandshakeInd, Shape, Transport, Possession, FirstMessage, NoAlert
<1>4. ClientFlow' /\ ServerFlow'
  BY <1>1, FlowsStay DEF HandshakeInd
<1>5. Numbers'
  <2>1. Numbers
    BY DEF HandshakeInd
  <2>2. \A s \in Sides : From(ctx'[s], s) = From(ctx[s], s)
    BY <1>1
  <2> QED BY <1>1, <1>2, <2>1, <2>2, NumbersStay
<1> QED BY <1>3, <1>4, <1>5 DEF HandshakeInd

LEMMA Inductive == HandshakeInd /\ [Next]_vars => HandshakeInd'
<1> SUFFICES ASSUME HandshakeInd, [Next]_vars PROVE HandshakeInd'
  OBVIOUS
<1>1. CASE UNCHANGED vars
  BY <1>1, StutterInd
<1>2. CASE Lose
  BY <1>2, LoseKeeps
<1>3. ASSUME NEW s \in Sides, HandshakeStep(s) PROVE HandshakeInd'
  BY <1>3, PrepareKeeps, SendKeeps, ReaderGoneKeeps, ParseFlight0Keeps, ParseFlight1Keeps,
     ParseFlight2Keeps, ParseFlight3Keeps, ParseFlight4Keeps, ParseFlight5Keeps
     DEF HandshakeStep
<1>4. ASSUME NEW s \in Sides, ReaderStep(s) PROVE HandshakeInd'
  BY <1>4, ReadRecordKeeps, ReadAlertKeeps, OfferKeeps DEF ReaderStep
<1>5. ASSUME NEW s \in Sides, Receive(s) PROVE HandshakeInd'
  BY <1>5, ReceiveKeeps
<1>6. ASSUME NEW s \in Sides, Timer(s) PROVE HandshakeInd'
  BY <1>6, TimerKeeps
<1> QED BY <1>1, <1>2, <1>3, <1>4, <1>5, <1>6 DEF Next

\* The inductive invariant, part by part in HandshakeLemmas: every record under way,
\* queued or buffered is one that its sender has made, and every message received is
\* in the cache of the side it is from; flights are numbered without a gap, and keys
\* are derived from messages that are there (handshaker.rs, conn/mod.rs, flight/).
THEOREM HandshakeInvariant == Spec => []HandshakeInd
<1> QED BY InitInd, Inductive, PTL DEF Spec

-----------------------------------------------------------------------------
(* Theorems                                                                *)

LEMMA SendBounds ==
    ASSUME HandshakeInd
    PROVE  /\ sendSeq["client"] \in 0 .. 6 /\ sendSeq["server"] \in 0 .. 7
           /\ recvSeq["client"] \in 0 .. 7 /\ recvSeq["server"] \in 0 .. 7
<1>1. sendSeq["client"] \in 0 .. 6 /\ recvSeq["client"] \in 0 .. 7
  <2>1. ClientFlow
    BY DEF HandshakeInd
  <2> QED BY <2>1 DEF ClientFlow
<1>2. sendSeq["server"] \in 0 .. 7 /\ recvSeq["server"] \in 0 .. 7
  <2>1. ServerFlow
    BY DEF HandshakeInd
  <2> QED BY <2>1 DEF ServerFlow
<1> QED BY <1>1, <1>2

\* In every handshake the counters stay within the numbers of the flights: the
\* client numbers at most six messages and the server seven, whatever is lost
\* and however often flights are prepared and sent again
\* (handshake_send_sequence in handshaker.rs).
THEOREM HandshakeTypeCorrect == Spec => []TypeOK
<1>1. HandshakeInd => TypeOK
  <2> SUFFICES ASSUME HandshakeInd PROVE TypeOK
    OBVIOUS
  <2>1. Shape /\ Transport /\ Numbers
    BY DEF HandshakeInd
  <2>2. recvSeq \in [Sides -> 0 .. 7]
    <3>1. recvSeq \in [Sides -> Nat]
      BY <2>1 DEF Shape
    <3> QED BY <3>1, SendBounds, TwoSides
  <2>3. ASSUME NEW s \in Sides
        PROVE  ctx[s].remoteEpoch \in {0, 1} /\ ctx[s].current \in 0 .. 7
    <3>1. ctx[s] \in ContextSet
      BY <2>1 DEF Shape
    <3>2. ctx[s].remoteEpoch \in {0, 1} /\ ctx[s].current \in Nat
      BY <3>1 DEF ContextSet
    <3> DEFINE c == ctx[s].current
    <3>3. ASSUME c # 0 PROVE c <= 7
      <4>1. c - 1 \in 0 .. c - 1
        BY <3>2, <3>3
      <4>2. {m.seq : m \in From(ctx[s], Peer(s))} = 0 .. c - 1
        BY <2>1 DEF Transport, Sound
      <4>3. PICK m \in From(ctx[s], Peer(s)) : m.seq = c - 1
        BY <4>1, <4>2
      <4>4. m \in Made(Peer(s)) /\ Peer(s) \in Sides
        BY <2>1, ReceivedMade, PeerSides
      <4>5. m.seq < sendSeq[Peer(s)]
        BY <2>1, <4>4 DEF Numbers
      <4>6. sendSeq[Peer(s)] \in 0 .. 7
        <5>1. sendSeq["client"] \in 0 .. 6 /\ sendSeq["server"] \in 0 .. 7
          BY SendBounds
        <5>2. sendSeq["client"] \in 0 .. 7
          BY <5>1
        <5> QED BY <4>4, <5>1, <5>2, TwoSides
      <4> QED BY <3>2, <4>3, <4>5, <4>6
    <3> QED BY <3>2, <3>3
  <2> QED BY <2>1, <2>2, <2>3, SendBounds DEF Shape, TypeOK
<1> QED BY <1>1, HandshakeInvariant, PTL

\* However datagrams are cut into fragments, lost and reordered, what a side
\* has received is what its peer sent first, without a gap: the fragment
\* buffer never lets a later message overtake (fragment_buffer/mod.rs).
THEOREM HandshakeReceivedInOrder == Spec => []ReceivedInOrder
<1>1. HandshakeInd => ReceivedInOrder
  <2> SUFFICES ASSUME HandshakeInd, NEW s \in Sides
               PROVE  LET received == {m \in ctx[s].cache : m.from = Peer(s)}
                      IN /\ {m.seq : m \in received} = 0 .. ctx[s].current - 1
                         /\ Ids(received) \subseteq Ids(ctx[Peer(s)].cache)
    BY DEF ReceivedInOrder
  <2> DEFINE received == {m \in ctx[s].cache : m.from = Peer(s)}
  <2>1. received = From(ctx[s], Peer(s))
    BY DEF From
  <2>2. Sound(s, ctx[s], ctx[Peer(s)])
    BY DEF HandshakeInd, Transport
  <2> HIDE DEF received
  <2>3. {m.seq : m \in received} = 0 .. ctx[s].current - 1
    BY <2>1, <2>2 DEF Sound
  <2>4. received \subseteq ctx[Peer(s)].cache
    BY <2>1, <2>2 DEF Sound
  <2>5. Ids(received) \subseteq Ids(ctx[Peer(s)].cache)
    BY <2>4 DEF Ids
  <2> QED BY <2>3, <2>5 DEF received
<1> QED BY <1>1, HandshakeInvariant, PTL

\* A side whose handshake() has returned holds keys that its peer holds too:
\* both hashed the same hellos, certificates and keys (session_hash() in
\* handshake_cache.rs, flight 4 and 5).
THEOREM HandshakeAgrees == Spec => []AgreeOnCompletion
<1>1. HandshakeInd => AgreeOnCompletion
  <2> SUFFICES ASSUME HandshakeInd, NEW s \in Sides, fsm[s] = "done"
               PROVE  ctx[s].secret # {} /\ ctx[s].secret = ctx[Peer(s)].secret
    BY DEF AgreeOnCompletion
  <2>1. \E m \in From(ctx[s], Peer(s)) : m.epoch = 1
    <3>1. CASE s = "client"
      BY <3>1, TwoSides DEF HandshakeInd, ClientFlow
    <3>2. CASE s = "server"
      BY <3>2, TwoSides DEF HandshakeInd, ServerFlow
    <3> QED BY <3>1, <3>2, TwoSides
  <2>2. PICK m \in From(ctx[s], Peer(s)) : m.epoch = 1
    BY <2>1
  <2>3. Sound(s, ctx[s], ctx[Peer(s)])
    BY DEF HandshakeInd, Transport
  <2> QED BY <2>2, <2>3 DEF Sound
<1> QED BY <1>1, HandshakeInvariant, PTL

\* The server never holds keys from a certificate whose CertificateVerify has
\* not come, though the two may be in different datagrams (parse() of
\* flight4.rs).
THEOREM HandshakeVerifiesFirst == Spec => []NoKeysBeforeVerify
<1>1. HandshakeInd => NoKeysBeforeVerify
  <2> SUFFICES ASSUME HandshakeInd, ctx["server"].secret # {},
                      Newest(ctx["server"].cache, KeyRules[1]) # {}
               PROVE  Newest(ctx["server"].cache, KeyRules[3]) # {}
    BY DEF NoKeysBeforeVerify
  <2>1. /\ KeyRules[1] = <<"Certificate", 0, "client", TRUE>>
        /\ KeyRules[3] = <<"CertificateVerify", 0, "client", TRUE>>
    BY DEF KeyRules, Allows
  <2>2. PICK m \in Newest(ctx["server"].cache, KeyRules[1]) : TRUE
    OBVIOUS
  <2>3. m \in ctx["server"].cache /\ Matches(m, KeyRules[1])
    BY <2>2, NewestMatches
  <2>4. m \in From(ctx["server"], "client") /\ m.type = "Certificate" /\ m.epoch = 0
    BY <2>1, <2>3 DEF Matches, From
  <2>5. \E n \in From(ctx["server"], "client") : n.type = "CertificateVerify" /\ n.epoch = 0
    BY <2>4 DEF HandshakeInd, Possession
  <2>6. PICK n \in From(ctx["server"], "client") : n.type = "CertificateVerify" /\ n.epoch = 0
    BY <2>5
  <2>7. n \in ctx["server"].cache /\ Matches(n, KeyRules[3])
    BY <2>1, <2>6 DEF Matches, From
  <2>8. Shape /\ Numbers /\ Transport
    BY DEF HandshakeInd
  <2> QED BY <2>7, <2>8, TwoSides, Found
<1> QED BY <1>1, HandshakeInvariant, PTL

\* A client that offers any curve the server has is not refused, and no loss,
\* delay, retransmission or fragmentation ends the handshake of either side
\* with an error (the curve patch of flight0.rs, the parse() of every flight).
THEOREM HandshakeUsableCurve == Spec => []UsableCurveAccepted
<1>1. HandshakeInd => UsableCurveAccepted
  BY DEF HandshakeInd, NoAlert, UsableCurveAccepted
<1> QED BY <1>1, HandshakeInvariant, PTL

-----------------------------------------------------------------------------
(* One key: what HandshakeInd leaves open for the refinement               *)

\* What the session hash is made over once the client has its keys.
Transcript == Merged(Made("client") \cup Made("server"), HashRules)

\* The key exchange is the last message of the client that the hash covers.
KeysLast ==
    \A m, n \in Made("client") :
        /\ m.type = "ClientKeyExchange"
        /\ n.type \in {"ClientHello", "Certificate", "ClientKeyExchange"}
        => n.seq <= m.seq

\* ServerHelloDone is the last message of the server in the clear.
HelloDoneLast ==
    \A m, n \in Made("server") : m.type = "ServerHelloDone" /\ n.epoch = 0 => n.seq <= m.seq

\* Flight 5 answers the whole of flight 4, and has keys as soon as it is prepared.
Answered ==
    flight["client"] = 5 =>
        /\ \E m \in From(ctx["client"], "server") : m.type = "ServerHelloDone"
        /\ fsm["client"] # "preparing" => ctx["client"].secret # {}

OneKey == \A s \in Sides : ctx[s].secret # {} => ctx[s].secret = Transcript

\* The server is done once it has sent its Finished message.
EndedFirst == \A m \in From(ctx["server"], "server") : m.epoch = 1 => fsm["server"] = "done"

KeyInd == KeysLast /\ HelloDoneLast /\ Answered /\ OneKey /\ EndedFirst

\* Step: nothing of this changes but for what is received.
Steady ==
    /\ \A s \in Sides : Made(s)' = Made(s) /\ ctx'[s].secret = ctx[s].secret
    /\ From(ctx'["server"], "server") = From(ctx["server"], "server")
    /\ fsm["server"] = "done" => fsm'["server"] = "done"
    /\ flight'["client"] = 5 /\ fsm'["client"] # "preparing" =>
         flight["client"] = 5 /\ fsm["client"] # "preparing"
    /\ flight'["client"] = 5 =>
         \E m \in From(ctx'["client"], "server") : m.type = "ServerHelloDone"

LEMMA SteadyKeeps ==
    ASSUME KeyInd, Steady
    PROVE  KeyInd'
<1>1. Made("client")' = Made("client") /\ Made("server")' = Made("server")
      /\ ctx'["client"].secret = ctx["client"].secret
  BY TwoSides DEF Steady
<1>2. KeysLast'
  BY <1>1 DEF KeyInd, KeysLast
<1>3. HelloDoneLast'
  BY <1>1 DEF KeyInd, HelloDoneLast
<1>4. Answered'
  BY <1>1 DEF KeyInd, Answered, Steady
<1>5. OneKey'
  <2>1. Transcript' = Transcript
    BY <1>1 DEF Transcript
  <2> QED BY <2>1 DEF KeyInd, OneKey, Steady
<1>6. EndedFirst'
  BY DEF KeyInd, EndedFirst, Steady
<1> QED BY <1>2, <1>3, <1>4, <1>5, <1>6 DEF KeyInd

\* The steps that leave the contexts, the flights under way and the client's flight.
LEMMA StaySteady ==
    ASSUME KeyInd, UNCHANGED <<flights, ctx>>,
           flight'["client"] = flight["client"],
           fsm'["client"] # "preparing" => fsm["client"] # "preparing",
           fsm["server"] = "done" => fsm'["server"] = "done"
    PROVE  Steady
<1>1. \A s \in Sides : Made(s)' = Made(s)
  BY DEF Made
<1> QED BY <1>1 DEF Steady, KeyInd, Answered

-----------------------------------------------------------------------------
(* What a hash is made over                                                *)

LEMMA HashedTypes ==
    /\ \A r \in ToSet(HashRules) :
         /\ r[2] = 0
         /\ \/ r[3] = "server"
            \/ r[3] = "client" /\ r[1] \in {"ClientHello", "Certificate", "ClientKeyExchange"}
    /\ Needs("Certificate", 0, "client") \in ToSet(HashRules)
    /\ Needs("ClientKeyExchange", 0, "client") \in ToSet(HashRules)
<1>1. Len(HashRules) = 8 /\ DOMAIN HashRules = 1 .. 8
  BY DEF HashRules
<1>2. /\ HashRules[1] = Needs("ClientHello", 0, "client") /\ HashRules[2] = Needs("ServerHello", 0, "server")
      /\ HashRules[3] = Needs("Certificate", 0, "server") /\ HashRules[4] = Needs("ServerKeyExchange", 0, "server")
      /\ HashRules[5] = Needs("CertificateRequest", 0, "server") /\ HashRules[6] = Needs("ServerHelloDone", 0, "server")
      /\ HashRules[7] = Needs("Certificate", 0, "client") /\ HashRules[8] = Needs("ClientKeyExchange", 0, "client")
  BY DEF HashRules
<1>3. ASSUME NEW r \in ToSet(HashRules)
      PROVE  /\ r[2] = 0
             /\ \/ r[3] = "server"
                \/ r[3] = "client" /\ r[1] \in {"ClientHello", "Certificate", "ClientKeyExchange"}
  <2>1. PICK i \in 1 .. 8 : r = HashRules[i]
    BY <1>1 DEF ToSet
  <2>2. i = 1 \/ i = 2 \/ i = 3 \/ i = 4 \/ i = 5 \/ i = 6 \/ i = 7 \/ i = 8
    BY <2>1
  <2> QED BY <1>2, <2>1, <2>2 DEF Needs
<1>4. 7 \in DOMAIN HashRules /\ 8 \in DOMAIN HashRules
  BY <1>1
<1> QED BY <1>2, <1>3, <1>4 DEF ToSet

\* The newest message depends on those only that the rule matches.
LEMMA SameNewest ==
    ASSUME NEW A, NEW B, NEW r, \A m : Matches(m, r) => (m \in A <=> m \in B)
    PROVE  Newest(A, r) = Newest(B, r)
<1>1. {c \in A : c.type = r[1] /\ c.epoch = r[2] /\ c.from = r[3]}
        = {c \in B : c.type = r[1] /\ c.epoch = r[2] /\ c.from = r[3]}
  BY DEF Matches
<1> QED BY <1>1 DEF Newest

LEMMA SameMerged ==
    ASSUME NEW A, NEW B, NEW rules, \A r \in ToSet(rules) : Newest(A, r) = Newest(B, r)
    PROVE  Merged(A, rules) = Merged(B, rules)
<1>1. {Newest(A, r) : r \in ToSet(rules)} = {Newest(B, r) : r \in ToSet(rules)}
  OBVIOUS
<1> QED BY <1>1 DEF Merged

LEMMA MergedMember ==
    ASSUME NEW A, NEW rules, NEW i
    PROVE  i \in Merged(A, rules) <=>
             \E r \in ToSet(rules) : \E m \in Newest(A, r) : i = Id(m)
  BY DEF Merged, Ids

\* A key needs the client's key exchange, and that a flight 5 that is prepared.
LEMMA ServerKeyNeedsClient ==
    ASSUME HandshakeInd, KeyInd, ctx["server"].secret # {}
    PROVE  /\ flight["client"] = 5 /\ fsm["client"] # "preparing"
           /\ ctx["client"].secret # {} /\ ctx["server"].secret = ctx["client"].secret
<1> USE DEF HandshakeInd
<1>1. PICK m \in From(ctx["server"], "client") : m.type = "ClientKeyExchange"
  BY DEF Possession
<1>2. m \in Made("client")
  BY TwoSides, ReceivedMade
<1>3. flight["client"] = 5 /\ fsm["client"] # "preparing"
  BY <1>1, <1>2 DEF ClientFlow
<1>4. ctx["client"].secret # {}
  BY <1>3 DEF KeyInd, Answered
<1>5. ctx["server"].secret = Transcript /\ ctx["client"].secret = Transcript
  BY <1>4, TwoSides DEF KeyInd, OneKey
<1> QED BY <1>3, <1>4, <1>5

\* A client in flight 5 has all that the server has made in the clear.
LEMMA ClientHasFlight4 ==
    ASSUME HandshakeInd, KeyInd, flight["client"] = 5
    PROVE  /\ \A n \in Made("server") : n.epoch = 0 => n \in From(ctx["client"], "server")
           /\ flight["server"] \in {4, 6}
           /\ flight["server"] = 4 => fsm["server"] # "preparing"
<1> USE DEF HandshakeInd
<1>1. PICK m \in From(ctx["client"], "server") : m.type = "ServerHelloDone"
  BY DEF KeyInd, Answered
<1>2. m \in Made("server")
  BY TwoSides, ReceivedMade
<1>3. \A n \in Made("server") : n.epoch = 0 => n.seq <= m.seq
  BY <1>1, <1>2 DEF KeyInd, HelloDoneLast
<1>4. \A n \in Made("server") : n.epoch = 0 => n \in From(ctx["client"], "server")
  BY <1>3, TwoSides, Prefix
<1>5. flight["server"] \in {4, 6} /\ (flight["server"] = 4 => fsm["server"] # "preparing")
  BY <1>1, <1>2 DEF ServerFlow
<1> QED BY <1>4, <1>5

-----------------------------------------------------------------------------
(* The steps that make no keys                                             *)

LEMMA ReadRecordSteady ==
    ASSUME HandshakeInd, KeyInd, NEW s \in Sides, ReadRecord(s)
    PROVE  Steady
<1> USE DEF HandshakeInd
<1> DEFINE rs == inbox[s].records
           r == Head(rs)
           d == Incoming(s, ctx[s], r, TRUE)
<1>1. /\ UNCHANGED <<flight, fsm, flights>> /\ rs \notin {<<>>, <<Alert>>}
      /\ ctx' = [ctx EXCEPT ![s] = d]
  BY DEF ReadRecord
<1>2. inbox \in [Sides -> [records : RecordsSet, handshake : BOOLEAN]] /\ ctx \in [Sides -> ContextSet]
  BY DEF Shape
<1>3. rs \in Seq(RecordSet) /\ r \in RecordSet
  BY <1>1, <1>2 DEF RecordsSet
<1>4. Genuine(Peer(s), ctx[Peer(s)], r)
  <2>1. \A i \in DOMAIN rs : Genuine(Peer(s), ctx[Peer(s)], rs[i])
    BY <1>1 DEF Transport, AllGenuine
  <2>2. 1 \in DOMAIN rs /\ r = rs[1]
    BY <1>1, <1>3, <1>2 DEF RecordsSet
  <2> QED BY <2>1, <2>2
<1>5. Extends(s, ctx[s], d)
  <2>1. Sound(s, ctx[s], ctx[Peer(s)]) /\ TRUE \in BOOLEAN
    BY DEF Transport
  <2> QED BY <1>3, <1>4, <2>1, PeerBounded, IncomingSound
<1> HIDE DEF d
<1>6. \A x \in Sides : ctx'[x] = IF x = s THEN d ELSE ctx[x]
  BY <1>1, <1>2
<1>7. \A x \in Sides : /\ From(ctx'[x], x) = From(ctx[x], x)
                       /\ ctx[x].cache \subseteq ctx'[x].cache
                       /\ ctx'[x].secret = ctx[x].secret
  BY <1>5, <1>6 DEF Extends
<1>8. \A x \in Sides : Made(x)' = Made(x)
  BY <1>1, <1>7 DEF Made
<1>9. From(ctx["client"], "server") \subseteq From(ctx'["client"], "server")
  BY <1>7, TwoSides DEF From
<1> QED BY <1>1, <1>7, <1>8, <1>9, TwoSides DEF Steady, KeyInd, Answered

LEMMA SendKeepsKeys ==
    ASSUME HandshakeInd, KeyInd, NEW s \in Sides, Send(s)
    PROVE  /\ KeyInd' /\ \A x \in Sides : ctx'[x].secret = ctx[x].secret
           /\ fsm' = [fsm EXCEPT ![s] = IF flight[s] = 6 THEN "done" ELSE "waiting"]
           /\ fsm[s] = "sending"
<1> USE DEF HandshakeInd
<1> DEFINE M == {MessageOf(s, p) : p \in {q \in ToSet(flights[s]) : q.type # "ChangeCipherSpec"}}
           d == [ctx[s] EXCEPT !.cache = Push(@, M)]
<1>1. UNCHANGED <<flight, flights>>
  BY DEF Send
<1>2. /\ fsm[s] = "sending"
      /\ ctx' = [ctx EXCEPT ![s] = d]
      /\ fsm' = [fsm EXCEPT ![s] = IF flight[s] = 6 THEN "done" ELSE "waiting"]
  BY DEF Send, MessageOf
<1>3. ctx \in [Sides -> ContextSet]
  BY DEF Shape
<1>4. M \subseteq Made(s) /\ Made(s) = From(ctx[s], s) \cup M
  BY DEF Made
<1>5. d.cache = Push(ctx[s].cache, M) /\ d.secret = ctx[s].secret
  BY <1>3 DEF ContextSet
<1> HIDE DEF d
<1>6. Made(s)' = From(ctx'[s], s) \cup M
  BY <1>1 DEF Made, M
<1> HIDE DEF M
<1>7. \A m \in M : m \in MessageSet /\ m.from = s
  BY <1>4, MadeMessages
<1>8. d.cache \subseteq ctx[s].cache \cup M /\ ctx[s].cache \subseteq d.cache
  BY <1>5 DEF Push
<1>9. From(d, s) \subseteq Made(s) /\ From(ctx[s], s) \subseteq From(d, s)
      /\ From(d, Peer(s)) = From(ctx[s], Peer(s))
  BY <1>4, <1>7, <1>8, PeerSides DEF From
<1>10. \A x \in Sides : ctx'[x] = IF x = s THEN d ELSE ctx[x]
  BY <1>2, <1>3
<1>11. \A x \in Sides : Made(x)' = Made(x) /\ ctx'[x].secret = ctx[x].secret
  <2>1. Made(s)' = Made(s)
    BY <1>4, <1>6, <1>9, <1>10
  <2>2. \A x \in Sides \ {s} : Made(x)' = Made(x)
    BY <1>1, <1>10 DEF Made
  <2> QED BY <1>5, <1>10, <2>1, <2>2
<1>12. \A x \in Sides : fsm'[x] = IF x = s THEN IF flight[s] = 6 THEN "done" ELSE "waiting"
                                  ELSE fsm[x]
  BY <1>2 DEF Shape
<1>13. CASE s = "client"
  <2>1. /\ ctx'["server"] = ctx["server"] /\ fsm'["server"] = fsm["server"]
        /\ From(ctx'["client"], "server") = From(ctx["client"], "server")
    BY <1>9, <1>10, <1>12, <1>13, TwoSides
  <2>2. Steady
    BY <1>1, <1>2, <1>11, <1>13, <2>1 DEF Steady, KeyInd, Answered
  <2> QED BY <1>2, <1>11, <2>2, SteadyKeeps
<1>14. CASE s = "server"
  <2>1. /\ ctx'["client"] = ctx["client"] /\ fsm'["client"] = fsm["client"]
    BY <1>10, <1>12, <1>14, TwoSides
  <2>2. Transcript' = Transcript
    BY <1>11, TwoSides DEF Transcript
  <2>3. KeysLast' /\ HelloDoneLast'
    BY <1>11, TwoSides DEF KeyInd, KeysLast, HelloDoneLast
  <2>4. Answered'
    BY <1>1, <2>1 DEF KeyInd, Answered
  <2>5. OneKey'
    BY <1>11, <2>2 DEF KeyInd, OneKey
  <2>6. EndedFirst'
    <3> SUFFICES ASSUME NEW m \in From(ctx'["server"], "server"), m.epoch = 1
                 PROVE  fsm'["server"] = "done"
      BY DEF EndedFirst
    <3>1. m \in Made("server")
      BY <1>9, <1>10, <1>14, TwoSides
    <3>2. m.type = "Finished"
      BY <3>1, TwoSides DEF Numbers
    <3>3. flight["server"] = 6
      BY <3>1, <3>2 DEF ServerFlow
    <3> QED BY <1>12, <1>14, <3>3, TwoSides
  <2> QED BY <1>2, <1>11, <2>3, <2>4, <2>5, <2>6 DEF KeyInd
<1> QED BY <1>13, <1>14, TwoSides

\* The server goes to flight 2, to flight 4, or refuses.
LEMMA ServerHelloSteady ==
    ASSUME HandshakeInd, KeyInd, NEW s \in Sides, ParseFlight0(s) \/ ParseFlight2(s)
    PROVE  /\ Steady /\ s = "server" /\ fsm["server"] = "waiting"
           /\ \/ fsm' = fsm
              \/ fsm' = [fsm EXCEPT !["server"] = "preparing"]
              \/ fsm' = [fsm EXCEPT !["server"] = "errored"]
<1>1. /\ Parse(s, 0) \/ Parse(s, 2)
      /\ UNCHANGED ctx
      /\ FirstHello(s) \/ GoTo(s, 4, recvSeq[s] + 1)
  BY DEF ParseFlight0, ParseFlight2
<1>2. s = "server"
  BY <1>1, WhoParses
<1>3. fsm[s] = "waiting" /\ UNCHANGED flights
  BY <1>1 DEF Parse
<1>4. \/ KeepReading \/ GoTo(s, 2, 1) \/ GoTo(s, 4, recvSeq[s] + 1) \/ Fail(s)
  BY <1>1 DEF FirstHello
<1>5. /\ \/ flight' = flight \/ flight' = [flight EXCEPT ![s] = 2] \/ flight' = [flight EXCEPT ![s] = 4]
      /\ \/ fsm' = fsm
         \/ fsm' = [fsm EXCEPT ![s] = "preparing"]
         \/ fsm' = [fsm EXCEPT ![s] = "errored"]
  BY <1>4 DEF KeepReading, GoTo, Fail
<1>6. flight'["client"] = flight["client"] /\ fsm'["client"] = fsm["client"]
  BY <1>2, <1>5, TwoSides DEF HandshakeInd, Shape
<1>7. Steady
  BY <1>1, <1>2, <1>3, <1>6, StaySteady
<1> QED BY <1>2, <1>3, <1>5, <1>7

\* The client goes to flight 3, or with the whole of flight 4 to flight 5.
LEMMA ClientHelloSteady ==
    ASSUME HandshakeInd, KeyInd, NEW s \in Sides, ParseFlight1(s) \/ ParseFlight3(s)
    PROVE  /\ Steady /\ s = "client" /\ fsm["client"] = "waiting"
           /\ fsm' = fsm \/ fsm' = [fsm EXCEPT !["client"] = "preparing"]
<1> DEFINE cache == ctx[s].cache
           n == recvSeq[s] + Cardinality(Pulled(cache, ServerRules))
<1>1. /\ Parse(s, 1) \/ Parse(s, 3)
      /\ UNCHANGED ctx
      /\ \/ UNCHANGED <<flight, fsm>>
         \/ GoTo(s, 3, recvSeq[s] + 1)
         \/ GoTo(s, 5, n) /\ FullPull(cache, recvSeq[s], ServerRules)
  BY DEF ParseFlight1, ParseFlight3, ServerFlight, KeepReading
<1>2. s = "client"
  BY <1>1, WhoParses
<1>3. fsm[s] = "waiting" /\ UNCHANGED flights /\ flight[s] \in {1, 3}
  BY <1>1 DEF Parse
<1>4. CASE UNCHANGED <<flight, fsm>>
  BY <1>1, <1>2, <1>3, <1>4, StaySteady
<1>5. CASE GoTo(s, 3, recvSeq[s] + 1)
  <2>1. flight' = [flight EXCEPT ![s] = 3] /\ fsm' = [fsm EXCEPT ![s] = "preparing"]
    BY <1>5 DEF GoTo
  <2>2. flight'["client"] = 3 /\ fsm'["server"] = fsm["server"]
    BY <1>2, <2>1, TwoSides DEF HandshakeInd, Shape
  <2>3. \A x \in Sides : Made(x)' = Made(x)
    BY <1>1, <1>3 DEF Made
  <2>4. Steady
    BY <1>1, <2>2, <2>3 DEF Steady
  <2> QED BY <1>2, <1>3, <2>1, <2>4
<1>6. CASE GoTo(s, 5, n) /\ FullPull(cache, recvSeq[s], ServerRules)
  <2>1. flight' = [flight EXCEPT ![s] = 5] /\ fsm' = [fsm EXCEPT ![s] = "preparing"]
    BY <1>6 DEF GoTo
  <2>2. /\ flight'["client"] = 5 /\ fsm'["client"] = "preparing"
        /\ fsm'["server"] = fsm["server"]
    BY <1>2, <2>1, TwoSides DEF HandshakeInd, Shape
  <2>3. \A x \in Sides : Made(x)' = Made(x)
    BY <1>1, <1>3 DEF Made
  <2>4. \E m \in From(ctx["client"], "server") : m.type = "ServerHelloDone"
    <3>1. ServerRules[5] = Needs("ServerHelloDone", 0, "server") /\ 5 \in DOMAIN ServerRules
      BY DEF ServerRules
    <3>2. ~ServerRules[5][4]
      BY <3>1 DEF Needs
    <3>3. 5 \in Pulled(cache, ServerRules)
      BY <1>6, <3>1, <3>2 DEF FullPull
    <3>4. PICK m \in Newest(cache, ServerRules[5]) : TRUE
      BY <3>3 DEF Pulled
    <3>5. m \in cache /\ m.type = "ServerHelloDone" /\ m.from = "server"
      BY <3>1, <3>4, NewestMatches DEF Matches, Needs
    <3> QED BY <1>2, <3>5 DEF From
  <2>5. Steady
    BY <1>1, <2>2, <2>3, <2>4 DEF Steady
  <2> QED BY <1>2, <1>3, <2>1, <2>5
<1> QED BY <1>1, <1>4, <1>5, <1>6

\* The client is done, and has a key and a server that is done by then.
LEMMA ClientDoneSteady ==
    ASSUME HandshakeInd, KeyInd, NEW s \in Sides, ParseFlight5(s)
    PROVE  /\ Steady /\ s = "client" /\ fsm["client"] = "waiting"
           /\ \/ fsm' = fsm
              \/ /\ fsm' = [fsm EXCEPT !["client"] = "done"]
                 /\ ctx["client"].secret # {} /\ fsm["server"] = "done"
<1> DEFINE cache == ctx[s].cache
<1>1. Parse(s, 5) /\ UNCHANGED ctx
  BY DEF ParseFlight5
<1>2. s = "client"
  BY <1>1, WhoParses
<1>3. fsm[s] = "waiting" /\ UNCHANGED flights
  BY <1>1 DEF Parse
<1>4. CASE ~FullPull(cache, recvSeq[s], <<ServerFinished>>)
  <2>1. UNCHANGED <<flight, fsm>>
    BY <1>4 DEF ParseFlight5, KeepReading
  <2> QED BY <1>1, <1>2, <1>3, <2>1, StaySteady
<1>5. CASE FullPull(cache, recvSeq[s], <<ServerFinished>>)
  <2>1. \A m \in Newest(cache, ServerFinished) :
          m.data = [secret |-> ctx[s].secret, over |-> Merged(cache, VerifyRules)]
    BY <1>2, ServerFinishedFits
  <2>2. fsm' = [fsm EXCEPT ![s] = "done"] /\ UNCHANGED flight
    BY <1>5, <2>1 DEF ParseFlight5
  <2>3. fsm'["client"] = "done" /\ fsm'["server"] = fsm["server"]
    BY <1>2, <2>2, TwoSides DEF HandshakeInd, Shape
  <2>4. Steady
    BY <1>1, <1>2, <1>3, <2>2, <2>3, StaySteady
  <2>5. PICK m \in From(ctx["client"], "server") : m.epoch = 1
    <3>1. ~ServerFinished[4] /\ recvSeq[s] \in Nat
      BY DEF ServerFinished, Needs, HandshakeInd, Shape
    <3>2. Newest(cache, ServerFinished) # {}
      BY <1>5, <3>1, OneRule
    <3>3. PICK m \in Newest(cache, ServerFinished) : TRUE
      BY <3>2
    <3>4. m \in cache /\ m.from = "server" /\ m.epoch = 1
      BY <3>3, NewestMatches DEF Matches, ServerFinished, Needs
    <3> QED BY <1>2, <3>4 DEF From
  <2>6. ctx["client"].secret # {}
    BY <2>5, TwoSides DEF HandshakeInd, Transport, Sound
  <2>7. m \in From(ctx["server"], "server")
    BY TwoSides, ReceivedMade DEF HandshakeInd
  <2>8. fsm["server"] = "done"
    BY <2>5, <2>7 DEF KeyInd, EndedFirst
  <2> QED BY <1>2, <1>3, <2>2, <2>4, <2>6, <2>8
<1> QED BY <1>4, <1>5

-----------------------------------------------------------------------------
(* The server derives the key of the client                                *)

LEMMA ServerHash ==
    ASSUME HandshakeInd, KeyInd, FullPull(ctx["server"].cache, 2, KeyRules),
           Verified("server"), fsm["server"] # "sending"
    PROVE  /\ Merged(ctx["server"].cache, HashRules) = Transcript
           /\ ctx["client"].secret = Transcript /\ Transcript # {}
<1> DEFINE A == ctx["server"].cache
           B == Made("client") \cup Made("server")
<1>1. PICK k \in From(ctx["server"], "client") : k.type = "ClientKeyExchange"
  BY KeysReady
<1>2. k \in Made("client")
  BY <1>1, TwoSides, ReceivedMade DEF HandshakeInd
<1>3. Made("server") = From(ctx["server"], "server")
  BY TwoSides DEF HandshakeInd, Numbers
<1>4. \A n \in Made("client") : n.type \in {"ClientHello", "Certificate", "ClientKeyExchange"}
        => n \in A
  <2>1. ASSUME NEW n \in Made("client"),
               n.type \in {"ClientHello", "Certificate", "ClientKeyExchange"}
        PROVE  n \in From(ctx["server"], "client")
    <3>1. n.seq <= k.seq
      BY <1>1, <1>2, <2>1 DEF KeyInd, KeysLast
    <3> QED BY <3>1, TwoSides, Prefix DEF HandshakeInd
  <2> QED BY <2>1 DEF From
<1>5. A \subseteq B
  <2> SUFFICES ASSUME NEW m \in A PROVE m \in B
    OBVIOUS
  <2>1. m \in From(ctx["server"], "server") \/ m \in From(ctx["server"], "client")
    BY TwoSides, CacheBound DEF HandshakeInd
  <2>2. m \in From(ctx["server"], "client") => m \in Made("client")
    BY TwoSides, ReceivedMade DEF HandshakeInd
  <2> QED BY <1>3, <2>1, <2>2
<1>6. ASSUME NEW r \in ToSet(HashRules), NEW m, Matches(m, r), m \in B
      PROVE  m \in A
  <2>1. CASE m \in Made("server")
    BY <1>3, <2>1 DEF From
  <2>2. CASE m \in Made("client")
    <3>1. m.from = "client"
      BY <2>2, TwoSides, MadeMessages DEF HandshakeInd
    <3>2. m.type \in {"ClientHello", "Certificate", "ClientKeyExchange"}
      BY <1>6, <3>1, HashedTypes, TwoSides DEF Matches
    <3> QED BY <1>4, <2>2, <3>2
  <2> QED BY <1>6, <2>1, <2>2
<1> HIDE DEF A, B
<1>7. \A r \in ToSet(HashRules) : Newest(A, r) = Newest(B, r)
  BY <1>5, <1>6, SameNewest
<1>8. Merged(A, HashRules) = Merged(B, HashRules)
  BY <1>7, SameMerged
<1>9. flight["client"] = 5 /\ fsm["client"] # "preparing"
  BY <1>1, <1>2 DEF HandshakeInd, ClientFlow
<1>10. ctx["client"].secret # {}
  BY <1>9 DEF KeyInd, Answered
<1>11. ctx["client"].secret = Transcript
  BY <1>10, TwoSides DEF KeyInd, OneKey
<1> QED BY <1>8, <1>10, <1>11 DEF A, B, Transcript

LEMMA ParseFlight4Keys ==
    ASSUME HandshakeInd, KeyInd, NEW s \in Sides, ParseFlight4(s)
    PROVE  /\ KeyInd' /\ s = "server" /\ fsm["server"] = "waiting"
           /\ fsm' = fsm \/ fsm' = [fsm EXCEPT !["server"] = "preparing"]
           /\ ctx'["client"].secret = ctx["client"].secret
           /\ \/ ctx'["server"].secret = ctx["server"].secret
              \/ /\ ctx["server"].secret = {} /\ ctx["client"].secret # {}
                 /\ ctx'["server"].secret = ctx["client"].secret
<1> DEFINE cache == ctx[s].cache
           next == recvSeq[s] + Cardinality(Pulled(cache, KeyRules))
<1>1. Parse(s, 4)
  BY DEF ParseFlight4
<1>2. s = "server"
  BY <1>1, WhoParses
<1>3. /\ fsm["server"] = "waiting" /\ recvSeq["server"] = 2 /\ UNCHANGED flights
      /\ fsm \in [Sides -> {"preparing", "sending", "waiting", "done", "errored"}]
      /\ flight \in [Sides -> 0 .. 6] /\ ctx \in [Sides -> ContextSet]
  BY <1>1, <1>2 DEF Parse, HandshakeInd, ServerFlow, Shape
<1>4. CASE ~FullPull(cache, recvSeq[s], KeyRules) \/ ~Verified(s)
  <2>1. UNCHANGED <<flight, fsm, ctx>>
    BY <1>4 DEF ParseFlight4, KeepReading
  <2>2. Steady
    BY <1>3, <2>1, StaySteady
  <2> QED BY <1>2, <1>3, <2>1, <2>2, SteadyKeeps
<1>5. CASE FullPull(cache, recvSeq[s], KeyRules) /\ Verified(s)
  <2>1. PICK c \in AfterKeys(s) :
          /\ ctx' = [ctx EXCEPT ![s] = c]
          /\ IF ~FullPull(c.cache, next, <<Needs("Finished", 1, "client")>>)
             THEN KeepReading
             ELSE IF ClientAuth /\ Newest(cache, KeyRules[1]) = {}
             THEN Fail(s)
             ELSE GoTo(s, 6, next + 1)
    BY <1>5 DEF ParseFlight4
  <2>2. /\ Merged(cache, HashRules) = Transcript
        /\ ctx["client"].secret = Transcript /\ Transcript # {}
        /\ ClientAuth => Newest(cache, KeyRules[1]) # {}
    BY <1>2, <1>3, <1>5, ServerHash, KeysReady
  <2>3. KeepReading \/ GoTo(s, 6, next + 1)
    BY <2>1, <2>2
  <2>4. /\ flight' = flight \/ flight' = [flight EXCEPT ![s] = 6]
        /\ fsm' = fsm \/ fsm' = [fsm EXCEPT ![s] = "preparing"]
    BY <2>3 DEF KeepReading, GoTo
  <2>5. From(c, "server") = From(ctx["server"], "server") /\ c.secret = Keyed("server").secret
    BY <1>2, <2>1, AfterKeysSound
  <2>6. c.secret = Transcript /\ (ctx["server"].secret = {} \/ ctx["server"].secret = Transcript)
    <3>1. ctx["server"].secret = {} \/ ctx["server"].secret = Transcript
      BY TwoSides DEF KeyInd, OneKey
    <3>2. ctx["server"] \in ContextSet
      BY <1>3, TwoSides
    <3>3. Keyed("server").secret = IF ctx["server"].secret = {}
                                   THEN Merged(ctx["server"].cache, HashRules)
                                   ELSE ctx["server"].secret
      BY <3>2 DEF Keyed, ContextSet
    <3> QED BY <1>2, <2>2, <2>5, <3>1, <3>3
  <2>7. ctx'["server"] = c /\ ctx'["client"] = ctx["client"]
    BY <1>2, <1>3, <2>1, TwoSides
  <2>8. \A x \in Sides : Made(x)' = Made(x)
    BY <1>3, <2>5, <2>7, TwoSides DEF Made
  <2>9. Transcript' = Transcript
    BY <2>8, TwoSides DEF Transcript
  <2>10. KeysLast' /\ HelloDoneLast'
    BY <2>8, TwoSides DEF KeyInd, KeysLast, HelloDoneLast
  <2>11. Answered'
    <3>1. flight'["client"] = flight["client"] /\ fsm'["client"] = fsm["client"]
      BY <1>2, <1>3, <2>4, TwoSides
    <3> QED BY <2>7, <3>1 DEF KeyInd, Answered
  <2>12. OneKey'
    BY <2>2, <2>6, <2>7, <2>9, TwoSides DEF OneKey
  <2>13. EndedFirst'
    BY <1>3, <2>5, <2>7 DEF KeyInd, EndedFirst
  <2>14. KeyInd'
    BY <2>10, <2>11, <2>12, <2>13 DEF KeyInd
  <2> QED BY <1>2, <1>3, <2>2, <2>4, <2>6, <2>7, <2>14
<1> QED BY <1>4, <1>5

-----------------------------------------------------------------------------
(* The client makes its key                                                *)

\* The certificate and the key exchange of flight 5, by position.
LEMMA KeyPositions ==
    ASSUME NEW types, types = Packets("client", 5)
    PROVE  \E k \in Positions(types) :
             /\ types[k] = "ClientKeyExchange"
             /\ \A i \in Positions(types) :
                  /\ types[i] # "ClientHello"
                  /\ types[i] = "ClientKeyExchange" => i = k
                  /\ types[i] = "Certificate" => i = 1 /\ k = 2
<1>1. "client" \in Sides /\ 5 \in 0 .. 6
  BY TwoSides
<1>2. CASE Requested("client")
  <2>1. /\ Len(types) = 5 /\ types[1] = "Certificate" /\ types[2] = "ClientKeyExchange"
        /\ types[3] = "CertificateVerify" /\ types[4] = "ChangeCipherSpec" /\ types[5] = "Finished"
    BY <1>1, <1>2, FlightPackets
  <2>2. 2 \in 1 .. 5 /\ \A i \in 1 .. 5 : i = 1 \/ i = 2 \/ i = 3 \/ i = 4 \/ i = 5
    OBVIOUS
  <2>3. 2 \in Positions(types)
    BY <2>1, <2>2, Zenon DEF Positions
  <2>4. \A i \in Positions(types) : i = 1 \/ i = 2 \/ i = 3 \/ i = 4 \/ i = 5
    BY <2>1, <2>2, Zenon DEF Positions
  <2>5. ASSUME NEW i \in Positions(types)
        PROVE  /\ types[i] # "ClientHello"
               /\ types[i] = "ClientKeyExchange" => i = 2
               /\ types[i] = "Certificate" => i = 1 /\ 2 = 2
    BY <2>1, <2>4
  <2> QED BY <2>1, <2>3, <2>5
<1>3. CASE ~Requested("client")
  <2>1. /\ Len(types) = 3 /\ types[1] = "ClientKeyExchange"
        /\ types[2] = "ChangeCipherSpec" /\ types[3] = "Finished"
    BY <1>1, <1>3, FlightPackets
  <2>2. 1 \in 1 .. 3 /\ \A i \in 1 .. 3 : i = 1 \/ i = 2 \/ i = 3
    OBVIOUS
  <2>3. 1 \in Positions(types)
    BY <2>1, <2>2, Zenon DEF Positions
  <2>4. \A i \in Positions(types) : i = 1 \/ i = 2 \/ i = 3
    BY <2>1, <2>2, Zenon DEF Positions
  <2>5. ASSUME NEW i \in Positions(types)
        PROVE  /\ types[i] # "ClientHello" /\ types[i] # "Certificate"
               /\ types[i] = "ClientKeyExchange" => i = 1
    BY <2>1, <2>4
  <2> QED BY <2>1, <2>3, <2>5
<1> QED BY <1>2, <1>3

\* The key is made over what came, and the certificate and key exchange to be sent.
LEMMA PreparedKey ==
    ASSUME HandshakeInd, Prepare("client"), flight["client"] = 5
    PROVE  ctx'["client"].secret =
             Merged(ctx["client"].cache, HashRules)
               \cup {Id(m) : m \in {n \in Made("client")' :
                                      n.type \in {"Certificate", "ClientKeyExchange"}}}
<1> DEFINE types == Packets("client", flight["client"])
           pkts == Numbered("client", types)
           secret == SecretOf("client", pkts)
           verify == [secret |-> secret,
                      over |-> Merged(ctx["client"].cache, VerifyRules)
                                 \cup (IF flight["client"] = 5 THEN Unsent("client", pkts) ELSE {})]
           fls == flights'["client"]
           after == Made("client")'
           kinds == {"Certificate", "ClientKeyExchange"}
<1>0. /\ types = Packets("client", flight["client"]) /\ pkts = Numbered("client", types)
      /\ secret = SecretOf("client", pkts)
      /\ verify = [secret |-> secret,
                   over |-> Merged(ctx["client"].cache, VerifyRules)
                              \cup (IF flight["client"] = 5 THEN Unsent("client", pkts) ELSE {})]
  OBVIOUS
<1> HIDE DEF types, pkts, secret, verify
<1>1. /\ fsm["client"] = "preparing" /\ types \in Seq(PacketTypes)
      /\ ctx'["client"] = [ctx["client"] EXCEPT !.secret = secret]
      /\ ctx'["client"].secret = secret
      /\ DOMAIN fls = 1 .. Len(types)
      /\ \A i \in 1 .. Len(types) : fls[i].type = types[i] /\ fls[i].seq = pkts[i].seq
  BY <1>0, TwoSides, Prepared
<1>2. /\ DOMAIN pkts = 1 .. Len(types)
      /\ \A i \in 1 .. Len(types) : pkts[i].type = types[i]
  BY <1>0, <1>1 DEF Numbered
<1>3. secret = Merged(ctx["client"].cache, HashRules)
                 \cup {i \in Unsent("client", pkts) : i[1] # "CertificateVerify"}
  BY <1>0 DEF SecretOf
<1>4. From(ctx'["client"], "client") = From(ctx["client"], "client")
  <2>1. ctx["client"] \in ContextSet
    BY TwoSides DEF HandshakeInd, Shape
  <2> QED BY <1>1, <2>1 DEF ContextSet, From
<1>5. \A m \in From(ctx["client"], "client") : m.type = "ClientHello"
  <2>1. From(ctx["client"], "client") \subseteq Made("client")
    BY TwoSides, MadeMessages DEF HandshakeInd
  <2> QED BY <1>1, <2>1 DEF HandshakeInd, ClientFlow
<1>6. after = From(ctx["client"], "client")
                \cup {MessageOf("client", p) : p \in {q \in ToSet(fls) : q.type # "ChangeCipherSpec"}}
  BY <1>4 DEF Made
<1> HIDE DEF after, fls
<1>7. \A p : MessageOf("client", p).type = p.type
             /\ Id(MessageOf("client", p)) = <<p.type, "client", p.seq>>
  BY DEF MessageOf, Message, Id
<1>8. {i \in Unsent("client", pkts) : i[1] # "CertificateVerify"}
        = {Id(m) : m \in {n \in after : n.type \in kinds}}
  <2>1. ASSUME NEW i \in Unsent("client", pkts), i[1] # "CertificateVerify"
        PROVE  \E m \in after : m.type \in kinds /\ i = Id(m)
    <3>1. PICK p \in ToSet(pkts) :
            /\ p.type \in {"Certificate", "ClientKeyExchange", "CertificateVerify"}
            /\ i = <<p.type, "client", p.seq>>
      BY DEF Unsent
    <3>2. p.type \in kinds
      BY <2>1, <3>1
    <3>3. PICK j \in 1 .. Len(types) : p = pkts[j]
      BY <1>2 DEF ToSet
    <3>4. fls[j] \in ToSet(fls) /\ fls[j].type = p.type /\ fls[j].seq = p.seq
      BY <1>1, <1>2, <3>3 DEF ToSet
    <3>5. MessageOf("client", fls[j]) \in after
      BY <1>6, <3>2, <3>4
    <3> QED BY <1>7, <3>1, <3>2, <3>4, <3>5
  <2>2. ASSUME NEW m \in after, m.type \in kinds
        PROVE  Id(m) \in Unsent("client", pkts) /\ Id(m)[1] # "CertificateVerify"
    <3>1. PICK q \in ToSet(fls) : m = MessageOf("client", q)
      BY <1>5, <1>6, <2>2
    <3>2. PICK j \in 1 .. Len(types) : q = fls[j]
      BY <1>1, <3>1 DEF ToSet
    <3>3. pkts[j] \in ToSet(pkts) /\ q.type = pkts[j].type /\ q.seq = pkts[j].seq
      BY <1>1, <1>2, <3>2 DEF ToSet
    <3>4. Id(m) = <<pkts[j].type, "client", pkts[j].seq>> /\ pkts[j].type \in kinds
      BY <1>7, <2>2, <3>1, <3>3
    <3> QED BY <3>3, <3>4 DEF Unsent
  <2> QED BY <2>1, <2>2
<1> QED BY <1>1, <1>3, <1>8 DEF after

\* The flight is the whole of what the hash still needs.
LEMMA ClientTranscript ==
    ASSUME HandshakeInd, KeyInd, flight["client"] = 5, fsm["client"] = "preparing",
           NEW after, Made("client") \subseteq after,
           \A m \in after : m.from = "client" /\ m.seq \in Nat,
           \A m \in after : m.type = "ClientHello" => m \in Made("client"),
           \A m \in after : m.type \in {"Certificate", "ClientKeyExchange"} => m.epoch = 0,
           \A m, n \in after : m.type = n.type /\ m.type \in {"Certificate", "ClientKeyExchange"}
             => m = n
    PROVE  Merged(ctx["client"].cache, HashRules)
             \cup {Id(m) : m \in {n \in after : n.type \in {"Certificate", "ClientKeyExchange"}}}
           = Merged(after \cup Made("server"), HashRules)
<1> DEFINE A == ctx["client"].cache
           B == after \cup Made("server")
           kinds == {"Certificate", "ClientKeyExchange"}
<1>1. /\ Made("client") = From(ctx["client"], "client")
      /\ \A m \in Made("client") : m.type = "ClientHello"
  BY TwoSides DEF HandshakeInd, Numbers, ClientFlow
<1>2. \A m \in Made("server") : m.from = "server"
  BY TwoSides, MadeMessages DEF HandshakeInd
<1>3. \A m \in A : m \in Made("client") \/ m \in From(ctx["client"], "server")
  BY <1>1, TwoSides, CacheBound DEF HandshakeInd
<1>4. \A m \in From(ctx["client"], "server") : m \in Made("server")
  BY TwoSides, ReceivedMade DEF HandshakeInd
<1>5. \A m \in Made("server") : m.epoch = 0 => m \in From(ctx["client"], "server")
  BY ClientHasFlight4
<1>6. A \subseteq B
  BY <1>3, <1>4
<1>7. \A m \in From(ctx["client"], "server") \cup From(ctx["client"], "client") : m \in A
  BY DEF From
<1> HIDE DEF A, B
<1>8. ASSUME NEW r \in ToSet(HashRules), r[3] = "server" \/ r[1] = "ClientHello"
      PROVE  Newest(A, r) = Newest(B, r)
  <2>1. ASSUME NEW m, Matches(m, r), m \in B PROVE m \in A
    <3>1. m.epoch = 0
      BY <2>1, HashedTypes DEF Matches
    <3>2. CASE m \in Made("server")
      BY <1>5, <1>7, <3>1, <3>2
    <3>3. CASE m \in after
      <4>1. m.from = "client" /\ m.type = "ClientHello"
        BY <1>8, <2>1, <3>3, TwoSides DEF Matches
      <4> QED BY <1>1, <1>7, <3>3, <4>1
    <3> QED BY <2>1, <3>2, <3>3 DEF B
  <2> QED BY <1>6, <2>1, SameNewest
<1>9. ASSUME NEW r \in ToSet(HashRules), r[3] # "server", r[1] # "ClientHello"
      PROVE  /\ Newest(A, r) = {}
             /\ \A m \in Newest(B, r) : m \in after /\ m.type \in kinds
  <2>1. r[2] = 0 /\ r[3] = "client" /\ r[1] \in kinds
    BY <1>9, HashedTypes
  <2>2. Newest(A, r) = {}
    <3> SUFFICES ASSUME NEW m \in Newest(A, r) PROVE FALSE
      OBVIOUS
    <3>1. m \in A /\ m.from = "client" /\ m.type \in kinds
      BY <2>1, NewestMatches DEF Matches
    <3>2. m \in Made("client")
      BY <1>2, <1>3, <1>4, <3>1, TwoSides
    <3> QED BY <1>1, <3>1, <3>2
  <2>3. ASSUME NEW m \in Newest(B, r) PROVE m \in after /\ m.type \in kinds
    <3>1. m \in B /\ m.from = "client" /\ m.type \in kinds
      BY <2>1, NewestMatches DEF Matches
    <3> QED BY <1>2, <3>1, TwoSides DEF B
  <2> QED BY <2>2, <2>3
<1>10. ASSUME NEW m \in after, m.type \in kinds
       PROVE  \E r \in ToSet(HashRules) : m \in Newest(B, r)
  <2> DEFINE r == Needs(m.type, 0, "client")
  <2>1. r \in ToSet(HashRules)
    BY <1>10, HashedTypes
  <2>2. r[1] = m.type /\ r[2] = 0 /\ r[3] = "client"
    BY DEF Needs
  <2> HIDE DEF r
  <2>3. m \in B /\ m.epoch = 0 /\ m.from = "client" /\ m.seq \in Nat
    BY <1>10 DEF B
  <2>4. \A d \in B : d.type = r[1] /\ d.epoch = r[2] /\ d.from = r[3] => d = m
    BY <1>2, <1>10, <2>2, TwoSides DEF B
  <2>5. m.seq <= m.seq
    BY <2>3
  <2>6. m \in Newest(B, r)
    BY <2>2, <2>3, <2>4, <2>5 DEF Newest
  <2> QED BY <2>1, <2>6
<1> DEFINE new == {Id(m) : m \in {n \in after : n.type \in kinds}}
<1>11. ASSUME NEW i \in Merged(A, HashRules) PROVE i \in Merged(B, HashRules)
  <2>0. PICK r \in ToSet(HashRules) : \E m \in Newest(A, r) : i = Id(m)
    BY <1>11, MergedMember
  <2>1. PICK m \in Newest(A, r) : i = Id(m)
    BY <2>0
  <2>2. r[3] = "server" \/ r[1] = "ClientHello"
    BY <1>9, <2>1
  <2>3. m \in Newest(B, r)
    BY <1>8, <2>1, <2>2
  <2> QED BY <2>1, <2>3, MergedMember
<1>12. ASSUME NEW i \in new PROVE i \in Merged(B, HashRules)
  <2>1. PICK m \in after : m.type \in kinds /\ i = Id(m)
    OBVIOUS
  <2>2. PICK r \in ToSet(HashRules) : m \in Newest(B, r)
    BY <1>10, <2>1
  <2> QED BY <2>1, <2>2, MergedMember
<1>13. ASSUME NEW i \in Merged(B, HashRules) PROVE i \in Merged(A, HashRules) \cup new
  <2>0. PICK r \in ToSet(HashRules) : \E m \in Newest(B, r) : i = Id(m)
    BY <1>13, MergedMember
  <2>1. PICK m \in Newest(B, r) : i = Id(m)
    BY <2>0
  <2>2. CASE r[3] = "server" \/ r[1] = "ClientHello"
    <3>1. m \in Newest(A, r)
      BY <1>8, <2>1, <2>2
    <3> QED BY <2>1, <3>1, MergedMember
  <2>3. CASE r[3] # "server" /\ r[1] # "ClientHello"
    <3>1. m \in after /\ m.type \in kinds
      BY <1>9, <2>1, <2>3
    <3> QED BY <2>1, <3>1
  <2> QED BY <2>2, <2>3
<1>14. Merged(A, HashRules) \cup new = Merged(B, HashRules)
  <2> HIDE DEF new
  <2> QED BY <1>11, <1>12, <1>13
<1> QED BY <1>14 DEF A, B, new, kinds

LEMMA PrepareClientKeys ==
    ASSUME HandshakeInd, KeyInd, Prepare("client")
    PROVE  /\ KeyInd' /\ fsm["client"] = "preparing"
           /\ fsm' = [fsm EXCEPT !["client"] = "sending"]
           /\ ctx'["server"].secret = ctx["server"].secret
           /\ \/ ctx'["client"].secret = ctx["client"].secret
              \/ /\ ctx["client"].secret = {} /\ ctx["server"].secret = {}
                 /\ ctx'["client"].secret # {}
<1> DEFINE types == Packets("client", flight["client"])
           after == Made("client")'
<1>1. HandshakeInd' /\ Shape' /\ ClientFlow'
  BY TwoSides, PrepareKeeps DEF HandshakeInd
<1>2. PICK msg, secret, verify : Flight("client", types, msg, secret, verify)
  BY TwoSides, PrepareFlight
<1>3. types = Packets("client", flight["client"])
  OBVIOUS
<1> HIDE DEF types
<1>4. /\ fsm["client"] = "preparing" /\ fsm'["client"] = "sending" /\ flight' = flight
      /\ ctx'["server"] = ctx["server"] /\ fsm'["server"] = fsm["server"]
      /\ ctx'["client"].cache = ctx["client"].cache
      /\ after = Made("client") \cup {msg[i] : i \in Positions(types)}
      /\ \A i \in Positions(types) :
           /\ msg[i].type = types[i] /\ msg[i].from = "client" /\ msg[i].seq \in Nat
           /\ msg[i].epoch \in {0, 1} /\ (msg[i].epoch = 1 <=> types[i] = "Finished")
           /\ FirstSeq("client") <= msg[i].seq /\ FirstSeq("client") \in Nat
           /\ \A j \in Positions(types) : j < i => msg[j].seq < msg[i].seq
  BY <1>2, TwoSides DEF Flight
<1>5. Made("server")' = Made("server")
      /\ (flight["client"] # 2 => \A m \in Made("client") : m.seq < FirstSeq("client"))
  BY <1>1, <1>2, <1>3, TwoSides, FlightNumbers
<1>6. fsm' = [fsm EXCEPT !["client"] = "sending"]
  BY DEF Prepare
<1>7. ctx["client"].secret = {} /\ ctx["server"].secret = {}
      /\ \A m \in Made("client") : m.type = "ClientHello"
  BY <1>4, ServerKeyNeedsClient DEF HandshakeInd, ClientFlow
<1>8. flight["client"] \in {1, 3, 5}
  BY DEF HandshakeInd, ClientFlow
<1>9. HelloDoneLast' /\ EndedFirst'
  BY <1>4, <1>5 DEF KeyInd, HelloDoneLast, EndedFirst
<1>10. CASE flight["client"] \in {1, 3}
  <2>1. (\A m \in after : m.type = "ClientHello") /\ ctx'["client"].secret = {}
    BY <1>1, <1>4, <1>10 DEF ClientFlow
  <2>2. KeysLast'
    BY <2>1 DEF KeysLast
  <2>3. Answered'
    BY <1>4, <1>10 DEF Answered
  <2>4. OneKey'
    BY <1>4, <1>7, <2>1, TwoSides DEF OneKey
  <2> QED BY <1>4, <1>6, <1>7, <1>9, <2>1, <2>2, <2>3, <2>4 DEF KeyInd
<1>11. CASE flight["client"] = 5
  <2> DEFINE kinds == {"Certificate", "ClientKeyExchange"}
  <2>1. PICK k \in Positions(types) :
          /\ types[k] = "ClientKeyExchange"
          /\ \A i \in Positions(types) :
               /\ types[i] # "ClientHello"
               /\ types[i] = "ClientKeyExchange" => i = k
               /\ types[i] = "Certificate" => i = 1 /\ k = 2
    BY <1>3, <1>11, KeyPositions
  <2>2. ASSUME NEW m \in after, m.type \in kinds
        PROVE  \E i \in Positions(types) : m = msg[i] /\ types[i] = m.type
    BY <1>4, <1>7, <2>2
  <2>3. /\ Made("client") \subseteq after
        /\ \A m \in after : m.from = "client" /\ m.seq \in Nat
    <3>1. \A m \in Made("client") : m.from = "client" /\ m.seq \in Nat
      BY TwoSides, MadeMessages DEF HandshakeInd, MessageSet
    <3> QED BY <1>4, <3>1
  <2>4. \A m \in after : m.type = "ClientHello" => m \in Made("client")
    BY <1>4, <2>1
  <2>5. \A m \in after : m.type \in kinds => m.epoch = 0
    BY <1>4, <2>2
  <2>6. \A m, n \in after : m.type = n.type /\ m.type \in kinds => m = n
    BY <2>1, <2>2
  <2>7. ctx'["client"].secret =
          Merged(ctx["client"].cache, HashRules) \cup {Id(m) : m \in {n \in after : n.type \in kinds}}
    BY <1>11, PreparedKey
  <2> HIDE DEF after
  <2>8. ctx'["client"].secret = Merged(after \cup Made("server"), HashRules)
    BY <1>4, <1>11, <2>3, <2>4, <2>5, <2>6, <2>7, ClientTranscript
  <2>9. ctx'["client"].secret = Transcript'
    BY <1>5, <2>8 DEF Transcript, after
  <2>10. ctx'["client"].secret # {}
    <3>1. msg[k] \in after /\ msg[k].type \in kinds
      BY <1>4, <2>1
    <3> QED BY <2>7, <3>1
  <2>11. KeysLast'
    <3> SUFFICES ASSUME NEW m \in after, NEW n \in after, m.type = "ClientKeyExchange",
                        n.type \in {"ClientHello", "Certificate", "ClientKeyExchange"}
                 PROVE  n.seq <= m.seq
      BY DEF KeysLast, after
    <3>1. m = msg[k]
      BY <2>1, <2>2
    <3>2. m.seq \in Nat /\ n.seq \in Nat /\ FirstSeq("client") <= m.seq /\ FirstSeq("client") \in Nat
      BY <1>4, <2>3, <3>1
    <3>3. CASE n.type = "ClientHello"
      <4>1. n.seq < FirstSeq("client")
        BY <1>5, <1>11, <2>4, <3>3
      <4> QED BY <3>2, <4>1
    <3>4. CASE n.type = "ClientKeyExchange"
      <4>1. n = m
        BY <2>6, <3>4
      <4> QED BY <3>2, <4>1
    <3>5. CASE n.type = "Certificate"
      <4>1. 1 \in Positions(types) /\ k = 2 /\ n = msg[1]
        BY <2>1, <2>2, <3>5
      <4>2. msg[1].seq < msg[2].seq
        BY <1>4, <4>1
      <4> QED BY <3>1, <3>2, <4>1, <4>2
    <3> QED BY <3>3, <3>4, <3>5
  <2>12. Answered'
    <3>1. From(ctx'["client"], "server") = From(ctx["client"], "server")
      BY <1>4 DEF From
    <3> QED BY <1>11, <2>10, <3>1 DEF KeyInd, Answered
  <2>13. OneKey'
    BY <1>4, <1>7, <2>9, TwoSides DEF OneKey
  <2> QED BY <1>4, <1>6, <1>7, <1>9, <2>10, <2>11, <2>12, <2>13 DEF KeyInd
<1> QED BY <1>8, <1>10, <1>11

-----------------------------------------------------------------------------
(* The server prepares its flights                                         *)

LEMMA PrepareServerKeys ==
    ASSUME HandshakeInd, KeyInd, Prepare("server")
    PROVE  /\ KeyInd' /\ fsm["server"] = "preparing"
           /\ fsm' = [fsm EXCEPT !["server"] = "sending"]
           /\ \A x \in Sides : ctx'[x].secret = ctx[x].secret
<1> DEFINE types == Packets("server", flight["server"])
           after == Made("server")'
           f == flight["server"]
<1>1. HandshakeInd' /\ Shape' /\ ServerFlow'
  BY TwoSides, PrepareKeeps DEF HandshakeInd
<1>2. PICK msg, secret, verify : Flight("server", types, msg, secret, verify)
  BY TwoSides, PrepareFlight
<1>3. types = Packets("server", flight["server"])
  OBVIOUS
<1> HIDE DEF types
<1>4. /\ fsm["server"] = "preparing" /\ fsm'["server"] = "sending" /\ flight' = flight
      /\ ctx'["client"] = ctx["client"] /\ fsm'["client"] = fsm["client"]
      /\ ctx'["server"].cache = ctx["server"].cache
      /\ f # 5 => ctx'["server"].secret = ctx["server"].secret
      /\ after = Made("server") \cup {msg[i] : i \in Positions(types)}
      /\ \A i \in Positions(types) :
           /\ msg[i].type = types[i] /\ msg[i].seq \in Nat
           /\ msg[i].epoch = 1 <=> types[i] = "Finished"
           /\ FirstSeq("server") <= msg[i].seq /\ FirstSeq("server") \in Nat
           /\ \A j \in Positions(types) : j < i => msg[j].seq < msg[i].seq
  BY <1>2, TwoSides DEF Flight
<1>5. Made("client")' = Made("client")
      /\ (f # 2 => \A m \in Made("server") : m.seq < FirstSeq("server"))
  BY <1>1, <1>2, <1>3, TwoSides, FlightNumbers
<1>6. fsm' = [fsm EXCEPT !["server"] = "sending"]
  BY DEF Prepare
<1>7. f \in {0, 2, 4, 6} /\ f \in 0 .. 6
  BY DEF HandshakeInd, ServerFlow, Shape
<1>8. \A x \in Sides : ctx'[x].secret = ctx[x].secret
  BY <1>4, <1>7, TwoSides
<1>9. KeysLast'
  BY <1>5 DEF KeyInd, KeysLast
<1>10. Answered'
  BY <1>4 DEF KeyInd, Answered
<1>11. EndedFirst'
  <2>1. From(ctx'["server"], "server") = From(ctx["server"], "server")
    BY <1>4 DEF From
  <2> QED BY <1>4, <2>1 DEF KeyInd, EndedFirst
<1>12. CASE f \in {0, 2, 4}
  <2>1. ctx["client"].secret = {} /\ ctx["server"].secret = {}
    <3>1. flight["client"] # 5
      BY <1>4, <1>12, ClientHasFlight4
    <3> QED BY <3>1, ServerKeyNeedsClient DEF HandshakeInd, ClientFlow
  <2>2. OneKey'
    BY <1>8, <2>1, TwoSides DEF OneKey
  <2>3. CASE f \in {0, 2}
    <3>1. \A m \in after : m.type = "HelloVerifyRequest"
      BY <1>1, <1>4, <2>3 DEF ServerFlow
    <3>2. HelloDoneLast'
      BY <3>1 DEF HelloDoneLast
    <3> QED BY <1>4, <1>6, <1>8, <1>9, <1>10, <1>11, <2>2, <3>2 DEF KeyInd
  <2>4. CASE f = 4
    <3>1. \A m \in Made("server") : m.type = "HelloVerifyRequest" /\ m.seq < FirstSeq("server") /\ m.seq \in Nat
      <4>1. \A m \in Made("server") : m.seq \in Nat
        BY TwoSides, MadeMessages DEF HandshakeInd, MessageSet
      <4> QED BY <1>4, <1>5, <2>4, <4>1 DEF HandshakeInd, ServerFlow
    <3>2. /\ Len(types) \in Nat
          /\ \A i \in 1 .. Len(types) : types[i] = "ServerHelloDone" => i = Len(types)
      <4>0. "server" \in Sides /\ 4 \in 0 .. 6 /\ types = Packets("server", 4)
        BY <1>3, <2>4, TwoSides
      <4>1. CASE ClientAuth
        <5>1. /\ Len(types) = 5 /\ types[1] = "ServerHello" /\ types[2] = "Certificate"
              /\ types[3] = "ServerKeyExchange" /\ types[4] = "CertificateRequest"
          BY <4>0, <4>1, FlightPackets
        <5>2. \A i \in 1 .. 5 : i = 1 \/ i = 2 \/ i = 3 \/ i = 4 \/ i = 5
          OBVIOUS
        <5> QED BY <5>1, <5>2
      <4>2. CASE ~ClientAuth
        <5>1. /\ Len(types) = 4 /\ types[1] = "ServerHello" /\ types[2] = "Certificate"
              /\ types[3] = "ServerKeyExchange"
          BY <4>0, <4>2, FlightPackets
        <5>2. \A i \in 1 .. 4 : i = 1 \/ i = 2 \/ i = 3 \/ i = 4
          OBVIOUS
        <5> QED BY <5>1, <5>2
      <4> QED BY <4>1, <4>2
    <3>3. HelloDoneLast'
      <4> SUFFICES ASSUME NEW m \in after, NEW n \in after, m.type = "ServerHelloDone"
                   PROVE  n.seq <= m.seq
        BY DEF HelloDoneLast
      <4>1. PICK i \in Positions(types) : m = msg[i] /\ types[i] = "ServerHelloDone"
        BY <1>4, <3>1
      <4>2. i \in 1 .. Len(types) /\ i = Len(types)
        BY <3>2, <4>1 DEF Positions
      <4>3. CASE n \in Made("server")
        <5>1. n.seq < FirstSeq("server") /\ n.seq \in Nat
          BY <3>1, <4>3
        <5>2. FirstSeq("server") <= m.seq /\ FirstSeq("server") \in Nat /\ m.seq \in Nat
          BY <1>4, <4>1
        <5> QED BY <5>1, <5>2
      <4>4. ASSUME NEW j \in Positions(types), n = msg[j] PROVE n.seq <= m.seq
        <5>1. j \in 1 .. Len(types)
          BY DEF Positions
        <5>2. j = i \/ j < i
          BY <3>2, <4>2, <5>1
        <5>3. m.seq \in Nat /\ n.seq \in Nat /\ (j < i => n.seq < m.seq)
          BY <1>4, <4>1, <4>4
        <5> QED BY <4>1, <4>4, <5>2, <5>3
      <4> QED BY <1>4, <4>3, <4>4
    <3> QED BY <1>4, <1>6, <1>8, <1>9, <1>10, <1>11, <2>2, <3>3 DEF KeyInd
  <2> QED BY <1>12, <2>3, <2>4
<1>13. CASE f = 6
  <2>1. \A i \in Positions(types) : types[i] = "Finished"
    <3>1. Len(types) = 2 /\ types[1] = "ChangeCipherSpec" /\ types[2] = "Finished"
      BY <1>3, <1>7, <1>13, TwoSides, FlightPackets
    <3>2. \A i \in 1 .. 2 : i = 1 \/ i = 2
      OBVIOUS
    <3>3. \A i \in Positions(types) : (i = 1 \/ i = 2) /\ types[i] # "ChangeCipherSpec"
      BY <3>1, <3>2, Zenon DEF Positions
    <3> QED BY <3>1, <3>3
  <2>2. \A m \in after : m \in Made("server") \/ (m.type = "Finished" /\ m.epoch = 1)
    BY <1>4, <2>1
  <2>3. Made("server") \subseteq after
    BY <1>4
  <2>4. HelloDoneLast'
    <3> SUFFICES ASSUME NEW m \in after, NEW n \in after, m.type = "ServerHelloDone", n.epoch = 0
                 PROVE  n.seq <= m.seq
      BY DEF HelloDoneLast
    <3>1. m \in Made("server") /\ n \in Made("server")
      BY <2>2
    <3> QED BY <3>1 DEF KeyInd, HelloDoneLast
  <2>5. Transcript' = Transcript
    <3> DEFINE A == Made("client") \cup Made("server")
               B == Made("client") \cup after
    <3>1. ASSUME NEW r \in ToSet(HashRules), NEW m, Matches(m, r), m \in B PROVE m \in A
      <4>1. m.epoch = 0
        BY <3>1, HashedTypes DEF Matches
      <4> QED BY <2>2, <3>1, <4>1
    <3>2. A \subseteq B
      BY <2>3
    <3>3. B = (Made("client") \cup Made("server"))'
      BY <1>5
    <3> HIDE DEF A, B
    <3>4. \A r \in ToSet(HashRules) : Newest(A, r) = Newest(B, r)
      BY <3>1, <3>2, SameNewest
    <3>5. Merged(A, HashRules) = Merged(B, HashRules)
      BY <3>4, SameMerged
    <3> QED BY <3>3, <3>5 DEF Transcript, A
  <2>6. OneKey'
    BY <1>8, <2>5 DEF KeyInd, OneKey
  <2> QED BY <1>4, <1>6, <1>8, <1>9, <1>10, <1>11, <2>4, <2>6 DEF KeyInd
<1> QED BY <1>7, <1>12, <1>13

-----------------------------------------------------------------------------
(* The keys of a handshake, step by step                                   *)

LEMMA InitKey == Init => KeyInd
<1> SUFFICES ASSUME Init PROVE KeyInd
  OBVIOUS
<1>1. \A s \in Sides : ctx[s].cache = {} /\ ctx[s].secret = {} /\ flights[s] = <<>>
  BY DEF Init
<1>2. flight["client"] = 1
  BY TwoSides DEF Init
<1>3. \A s \in Sides : From(ctx[s], s) = {} /\ ToSet(flights[s]) = {}
  BY <1>1 DEF From, ToSet
<1>4. Made("client") = {} /\ Made("server") = {}
  BY <1>3, TwoSides DEF Made
<1> QED BY <1>1, <1>2, <1>3, <1>4, TwoSides
        DEF KeyInd, KeysLast, HelloDoneLast, Answered, OneKey, EndedFirst

\* Step: the client makes its key, or the server takes it over.
KeyStep ==
    \/ \A s \in Sides : ctx'[s].secret = ctx[s].secret
    \/ /\ fsm["client"] = "preparing"
       /\ ctx["client"].secret = {} /\ ctx["server"].secret = {}
       /\ ctx'["client"].secret # {} /\ ctx'["server"].secret = {}
    \/ /\ fsm["server"] = "waiting" /\ ctx["server"].secret = {}
       /\ ctx["client"].secret # {} /\ ctx'["client"].secret = ctx["client"].secret
       /\ ctx'["server"].secret = ctx["client"].secret

Pending == {"preparing", "sending", "waiting"}

\* Step: side s ends its handshake, the client only after the server and with a key.
EndStep ==
    \/ fsm' = fsm
    \/ \E s \in Sides :
         /\ fsm[s] \in Pending
         /\ \/ fsm' = [fsm EXCEPT ![s] = "errored"]
            \/ \E p \in Pending : fsm' = [fsm EXCEPT ![s] = p]
            \/ /\ fsm' = [fsm EXCEPT ![s] = "done"] /\ ctx[s].secret # {}
               /\ s = "client" => fsm["server"] = "done"

\* No step changes the keys and ends a handshake.
Kept == \A s \in Sides : ctx'[s].secret = ctx[s].secret
Going == fsm' = fsm \/ \E s \in Sides, p \in Pending :
           fsm[s] \in Pending /\ fsm' = [fsm EXCEPT ![s] = p]

LEMMA HandshakeKeys ==
    ASSUME HandshakeInd, KeyInd, NEW s \in Sides, HandshakeStep(s)
    PROVE  KeyInd' /\ KeyStep /\ EndStep /\ (Kept \/ Going)
<1>1. CASE Prepare(s)
  <2>1. CASE s = "client"
    <3>1. /\ KeyInd' /\ fsm["client"] = "preparing"
          /\ fsm' = [fsm EXCEPT !["client"] = "sending"]
          /\ ctx'["server"].secret = ctx["server"].secret
          /\ \/ ctx'["client"].secret = ctx["client"].secret
             \/ /\ ctx["client"].secret = {} /\ ctx["server"].secret = {}
                /\ ctx'["client"].secret # {}
      BY <1>1, <2>1, PrepareClientKeys
    <3> QED BY <3>1, TwoSides DEF KeyStep, EndStep, Kept, Going, Pending
  <2>2. CASE s = "server"
    <3>1. /\ KeyInd' /\ fsm["server"] = "preparing"
          /\ fsm' = [fsm EXCEPT !["server"] = "sending"]
          /\ \A x \in Sides : ctx'[x].secret = ctx[x].secret
      BY <1>1, <2>2, PrepareServerKeys
    <3> QED BY <3>1, TwoSides DEF KeyStep, EndStep, Kept, Going, Pending
  <2> QED BY <2>1, <2>2, TwoSides
<1>2. CASE Send(s)
  <2>1. /\ KeyInd' /\ Kept
        /\ fsm' = [fsm EXCEPT ![s] = IF flight[s] = 6 THEN "done" ELSE "waiting"]
        /\ fsm[s] = "sending"
    BY <1>2, SendKeepsKeys DEF Kept
  <2>2. CASE flight[s] = 6
    <3>1. s = "server"
      BY <2>2, TwoSides DEF HandshakeInd, ClientFlow
    <3>2. PICK m \in From(ctx["server"], "client") : m.epoch = 1
      BY <2>2, <3>1 DEF HandshakeInd, ServerFlow
    <3>3. ctx["server"].secret # {}
      BY <3>2, TwoSides DEF HandshakeInd, Transport, Sound
    <3> QED BY <2>1, <2>2, <3>1, <3>3, TwoSides DEF KeyStep, EndStep, Kept, Pending
  <2>3. CASE flight[s] # 6
    BY <2>1, <2>3 DEF KeyStep, EndStep, Kept, Pending
  <2> QED BY <2>2, <2>3
<1>3. CASE ReaderGone(s)
  <2>1. /\ UNCHANGED <<flight, flights, ctx>> /\ fsm[s] = "waiting"
        /\ fsm' = [fsm EXCEPT ![s] = "errored"]
    BY <1>3 DEF ReaderGone
  <2>2. \A x \in Sides : fsm'[x] = IF x = s THEN "errored" ELSE fsm[x]
    BY <2>1 DEF HandshakeInd, Shape
  <2>3. Steady
    BY <2>1, <2>2, TwoSides, StaySteady
  <2> QED BY <2>1, <2>3, SteadyKeeps DEF KeyStep, EndStep, Kept, Pending
<1>4. CASE ParseFlight0(s) \/ ParseFlight2(s)
  <2>1. /\ Steady /\ s = "server" /\ fsm["server"] = "waiting"
        /\ \/ fsm' = fsm
           \/ fsm' = [fsm EXCEPT !["server"] = "preparing"]
           \/ fsm' = [fsm EXCEPT !["server"] = "errored"]
    BY <1>4, ServerHelloSteady
  <2> QED BY <2>1, SteadyKeeps DEF Steady, KeyStep, EndStep, Kept, Pending
<1>5. CASE ParseFlight1(s) \/ ParseFlight3(s)
  <2>1. /\ Steady /\ s = "client" /\ fsm["client"] = "waiting"
        /\ fsm' = fsm \/ fsm' = [fsm EXCEPT !["client"] = "preparing"]
    BY <1>5, ClientHelloSteady
  <2> QED BY <2>1, SteadyKeeps DEF Steady, KeyStep, EndStep, Kept, Pending
<1>6. CASE ParseFlight5(s)
  <2>1. /\ Steady /\ s = "client" /\ fsm["client"] = "waiting"
        /\ \/ fsm' = fsm
           \/ /\ fsm' = [fsm EXCEPT !["client"] = "done"]
              /\ ctx["client"].secret # {} /\ fsm["server"] = "done"
    BY <1>6, ClientDoneSteady
  <2> QED BY <2>1, SteadyKeeps DEF Steady, KeyStep, EndStep, Kept, Pending
<1>7. CASE ParseFlight4(s)
  <2>1. /\ KeyInd' /\ s = "server" /\ fsm["server"] = "waiting"
        /\ fsm' = fsm \/ fsm' = [fsm EXCEPT !["server"] = "preparing"]
        /\ ctx'["client"].secret = ctx["client"].secret
        /\ \/ ctx'["server"].secret = ctx["server"].secret
           \/ /\ ctx["server"].secret = {} /\ ctx["client"].secret # {}
              /\ ctx'["server"].secret = ctx["client"].secret
    BY <1>7, ParseFlight4Keys
  <2> QED BY <2>1, TwoSides DEF KeyStep, EndStep, Kept, Going, Pending
<1> QED BY <1>1, <1>2, <1>3, <1>4, <1>5, <1>6, <1>7 DEF HandshakeStep

LEMMA StepKeys ==
    ASSUME HandshakeInd, KeyInd, [Next]_vars
    PROVE  KeyInd' /\ KeyStep /\ EndStep /\ (Kept \/ Going)
<1>1. ASSUME NEW s \in Sides, HandshakeStep(s)
      PROVE  KeyInd' /\ KeyStep /\ EndStep /\ (Kept \/ Going)
  BY <1>1, HandshakeKeys
<1>2. ASSUME NEW s \in Sides, ReadRecord(s)
      PROVE  KeyInd' /\ KeyStep /\ EndStep /\ (Kept \/ Going)
  <2>1. Steady /\ fsm' = fsm
    BY <1>2, ReadRecordSteady DEF ReadRecord
  <2> QED BY <2>1, SteadyKeeps DEF Steady, KeyStep, EndStep, Kept
<1>3. ASSUME \/ UNCHANGED vars \/ Lose
             \/ \E s \in Sides : \/ ReadAlert(s) \/ Offer(s) \/ OfferDropped(s)
                                 \/ ReaderDropped(s) \/ Receive(s)
      PROVE  KeyInd' /\ KeyStep /\ EndStep /\ (Kept \/ Going)
  <2>1. UNCHANGED <<flight, fsm, flights, ctx>>
    BY <1>3 DEF vars, Lose, ReadAlert, Offer, OfferDropped, ReaderDropped, Receive
  <2>2. Steady
    BY <2>1, StaySteady
  <2> QED BY <2>1, <2>2, SteadyKeeps DEF KeyStep, EndStep, Kept
<1>4. ASSUME NEW s \in Sides, Timer(s)
      PROVE  KeyInd' /\ KeyStep /\ EndStep /\ (Kept \/ Going)
  <2>1. /\ UNCHANGED <<flight, flights, ctx>> /\ fsm[s] = "waiting"
        /\ fsm' = [fsm EXCEPT ![s] = "sending"]
    BY <1>4 DEF Timer
  <2>2. \A x \in Sides : fsm'[x] = IF x = s THEN "sending" ELSE fsm[x]
    BY <2>1 DEF HandshakeInd, Shape
  <2>3. Steady
    BY <2>1, <2>2, TwoSides, StaySteady
  <2> QED BY <2>1, <2>3, SteadyKeeps DEF KeyStep, EndStep, Kept, Pending
<1> QED BY <1>1, <1>2, <1>3, <1>4 DEF Next, ReaderStep

\* What HandshakeInd leaves open and the refinement needs: the order in which each
\* side makes its messages, and that there is one hash and one key (flight4.rs,
\* flight5.rs, session_hash() in handshake_cache.rs).
THEOREM HandshakeOneKey == Spec => []KeyInd
<1>1. HandshakeInd /\ KeyInd /\ [Next]_vars => KeyInd'
  BY StepKeys
<1> QED BY <1>1, InitKey, HandshakeInvariant, PTL DEF Spec

-----------------------------------------------------------------------------
(* The promise of a handshake                                              *)

\* What a step of the handshake is to those who use its connection.
LEMMA StepAgreed ==
    ASSUME HandshakeInd, KeyStep, EndStep, Kept \/ Going
    PROVE  [Agreed!Next]_(Agreed!keyState)
<1> DEFINE outcome(x) == CASE x = "done" -> "done" [] x = "errored" -> "failed" [] OTHER -> "pending"
<1>1. fsm \in [Sides -> {"preparing", "sending", "waiting", "done", "errored"}]
  BY DEF HandshakeInd, Shape
<1>2. Sides = {"client", "server"}
  BY DEF Sides
<1>3. /\ Keys = [s \in Sides |-> ctx[s].secret] /\ Keys' = [s \in Sides |-> ctx'[s].secret]
      /\ Outcomes = [s \in Sides |-> outcome(fsm[s])]
      /\ Outcomes' = [s \in Sides |-> outcome(fsm'[s])]
  BY DEF Keys, Outcomes
<1>4. \A p \in Pending : outcome(p) = "pending"
  BY DEF Pending
<1>5. outcome("done") = "done" /\ outcome("errored") = "failed"
  OBVIOUS
<1> HIDE DEF outcome
<1>6. Kept => Keys' = Keys
  BY <1>3 DEF Kept
<1>7. Going => Outcomes' = Outcomes
  <2>1. CASE fsm' = fsm
    BY <1>3, <2>1
  <2>2. ASSUME NEW s \in Sides, NEW p \in Pending, fsm[s] \in Pending,
               fsm' = [fsm EXCEPT ![s] = p]
        PROVE  Outcomes' = Outcomes
    <3>1. \A x \in Sides : outcome(fsm'[x]) = outcome(fsm[x])
      BY <1>1, <1>4, <2>2
    <3> QED BY <1>3, <3>1
  <2> QED BY <2>1, <2>2 DEF Going
<1>8. CASE Kept /\ Going
  BY <1>6, <1>7, <1>8 DEF Agreed!keyState
<1>9. CASE ~Kept
  <2>1. Outcomes' = Outcomes
    BY <1>7, <1>9
  <2>2. CASE /\ fsm["client"] = "preparing"
             /\ ctx["client"].secret = {} /\ ctx["server"].secret = {}
             /\ ctx'["client"].secret # {} /\ ctx'["server"].secret = {}
    <3>1. /\ Outcomes["client"] = "pending" /\ Keys["client"] = {} /\ Keys["server"] = {}
          /\ Keys'["client"] # {}
      BY <1>2, <1>3, <1>4, <2>2 DEF Pending
    <3>2. Keys' = [Keys EXCEPT !["client"] = Keys'["client"]]
      BY <1>2, <1>3, <2>2
    <3> QED BY <2>1, <3>1, <3>2 DEF Agreed!Next, Agreed!Propose
  <2>3. CASE /\ fsm["server"] = "waiting" /\ ctx["server"].secret = {}
             /\ ctx["client"].secret # {} /\ ctx'["client"].secret = ctx["client"].secret
             /\ ctx'["server"].secret = ctx["client"].secret
    <3>1. /\ Outcomes["server"] = "pending" /\ Keys["server"] = {} /\ Keys["client"] # {}
      BY <1>2, <1>3, <1>4, <2>3 DEF Pending
    <3>2. Keys' = [Keys EXCEPT !["server"] = Keys["client"]]
      BY <1>2, <1>3, <2>3
    <3> QED BY <2>1, <3>1, <3>2 DEF Agreed!Next, Agreed!Adopt
  <2> QED BY <1>9, <2>2, <2>3 DEF KeyStep, Kept
<1>10. CASE ~Going
  <2>1. Keys' = Keys
    BY <1>6, <1>10
  <2>2. PICK s \in Sides :
          /\ fsm[s] \in Pending
          /\ \/ fsm' = [fsm EXCEPT ![s] = "errored"]
             \/ /\ fsm' = [fsm EXCEPT ![s] = "done"] /\ ctx[s].secret # {}
                /\ s = "client" => fsm["server"] = "done"
    BY <1>10 DEF EndStep, Going
  <2>3. Outcomes[s] = "pending"
    BY <1>3, <1>4, <2>2
  <2>4. CASE fsm' = [fsm EXCEPT ![s] = "errored"]
    <3>1. Outcomes' = [Outcomes EXCEPT ![s] = "failed"]
      BY <1>1, <1>3, <1>5, <2>4
    <3> QED BY <1>2, <2>1, <2>3, <3>1 DEF Agreed!Next, Agreed!GiveUp
  <2>5. CASE /\ fsm' = [fsm EXCEPT ![s] = "done"] /\ ctx[s].secret # {}
             /\ s = "client" => fsm["server"] = "done"
    <3>1. Outcomes' = [Outcomes EXCEPT ![s] = "done"]
      BY <1>1, <1>3, <1>5, <2>5
    <3>2. Keys[s] # {} /\ (s = "client" => Outcomes["server"] = "done")
      BY <1>2, <1>3, <1>5, <2>5
    <3> QED BY <1>2, <2>1, <2>3, <3>1, <3>2 DEF Agreed!Next, Agreed!Confirm
  <2> QED BY <2>2, <2>4, <2>5
<1> QED BY <1>8, <1>9, <1>10

\* A handshake is the agreement of KeyAgreement to those who use its connection,
\* for datagrams and fragments of any size, with and without client certificates,
\* and however many datagrams are lost and flights sent again: the client settles
\* on a key once, the server takes over that key or none, and a client that is done
\* has a server that was done before, with the same key (prepare(), finish() in
\* handshaker.rs, flight4.rs, flight5.rs).
THEOREM HandshakeIsKeyAgreement == Spec => IsKeyAgreement
<1>1. Init => Agreed!Init
  <2> SUFFICES ASSUME Init PROVE Agreed!Init
    OBVIOUS
  <2>1. \A s \in Sides : ctx[s].secret = {} /\ fsm[s] = "preparing"
    BY DEF Init
  <2>2. Keys = [s \in Sides |-> {}] /\ Outcomes = [s \in Sides |-> "pending"]
    BY <2>1 DEF Keys, Outcomes
  <2> QED BY <2>2 DEF Agreed!Init, Sides
<1>2. HandshakeInd /\ KeyInd /\ [Next]_vars => [Agreed!Next]_(Agreed!keyState)
  BY StepKeys, StepAgreed
<1>3. Spec => Init /\ [][Next]_vars
  BY PTL DEF Spec
<1> QED BY <1>1, <1>2, <1>3, HandshakeInvariant, HandshakeOneKey, PTL
        DEF IsKeyAgreement, Agreed!Spec
=============================================================================
