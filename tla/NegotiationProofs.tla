-------------------------- MODULE NegotiationProofs --------------------------
(***************************************************************************)
(* Theorems about DtlsNegotiation, for every set of configurations, of     *)
(* issuers and of identities.  NegotiationInd says of each flight under    *)
(* way what it tells about the State of the side that has sent it, and     *)
(* carries agreement, authentication and requirements.  OutcomeInd adds    *)
(* what each accepted flight tells about the two configurations, so that   *)
(* whether an end succeeds is decided by them alone.                       *)
(***************************************************************************)
EXTENDS DtlsNegotiation, SequenceTheorems, WellFoundedInduction, TLAPS

Client == local["client"]
Server == local["server"]
Cc == configs["client"]
Cs == configs["server"]

Fields == {"suite", "srtp", "ems", "keypair", "identity", "peer", "verified",
           "requested", "secret", "master", "cookie"}

\* Every variable is a record of the two sides.
Shape ==
    /\ DOMAIN configs = Sides /\ DOMAIN phase = Sides /\ DOMAIN local = Sides
    /\ DOMAIN cache = Sides /\ DOMAIN sent = Sides
    /\ \A s \in Sides : DOMAIN local[s] = Fields
    /\ \A s \in Sides : configs[s].ems \in {"request", "require", "disable"}
    /\ phase = [s \in Sides |-> phase[s]] /\ local = [s \in Sides |-> local[s]]
    /\ sent = [s \in Sides |-> sent[s]] /\ cache = [s \in Sides |-> cache[s]]

\* The server's phase is that of its last flight; a flight 6 is its end.
Progress ==
    /\ phase["server"] = "flight2" => sent["server"].flight = 2
    /\ phase["server"] = "flight4" => sent["server"].flight = 4
    /\ phase["server"] = "done" => sent["server"].flight = 6
    /\ sent["server"].flight = 6 => phase["server"] = "done"
    /\ sent["server"].flight \in {4, 6} => phase["server"] \in {"flight4", "done", "failed"}
    /\ phase["client"] \in {"flight5", "done"} =>
         phase["server"] \in {"flight4", "done", "failed"}

\* The client's hello offers the extended master secret if it may be used.
HelloSent ==
    sent["client"].flight = 1 => sent["client"].ems = (Cc.ems \in {"request", "require"})

\* What flight 0 has chosen, from the time it answers.
ServerChosen ==
    sent["server"].flight \in {2, 4, 6} =>
        /\ Server.suite \in ToSet(LocalSuites(Cs))
        /\ Server.srtp \in ToSet(Cs.srtp) \cup {None}
        /\ Server.ems \in BOOLEAN
        /\ Cs.ems = "require" => Server.ems
        /\ Server.ems => Cs.ems # "disable" /\ Cc.ems # "disable"

\* The server's flights tell its choices, and its last one its keys.
ServerSent ==
    /\ sent["server"].flight = 4 =>
         \E scheme : sent["server"] = ServerFlight(Cs, Server, scheme)
    /\ sent["server"].flight = 6 => sent["server"].finished[1] = Server.master

\* The only certificate a client sends is its own.
ClientSent ==
    sent["client"].flight = 5 => sent["client"].keys.cert \subseteq {OwnCertificate(Cc)}

\* What the client has agreed to, from the time it sends its keys.
ClientChosen ==
    phase["client"] \in {"flight5", "done"} =>
        /\ Client.suite = Server.suite /\ Client.srtp = Server.srtp /\ Client.ems = Server.ems
        /\ Server.suite \in ToSet(LocalSuites(Cs)) /\ Server.srtp \in ToSet(Cs.srtp) \cup {None}
        /\ Client.suite \in ToSet(LocalSuites(Cc)) /\ Client.srtp \in ToSet(Cc.srtp) \cup {None}
        /\ Cc.ems = "require" => Client.ems
        /\ Cc.srtp # <<>> => Client.srtp # None

ClientEnded ==
    phase["client"] = "done" => phase["server"] = "done" /\ Client.master = Server.master

NegotiationInd ==
    /\ Shape /\ Progress /\ HelloSent /\ ServerChosen /\ ServerSent
    /\ ClientSent /\ ClientChosen /\ ClientEnded
    /\ ServerAuthenticated /\ ClientAuthenticated

-----------------------------------------------------------------------------
(* Operators                                                               *)

LEMMA FirstIsGood ==
    ASSUME NEW list, NEW good, NEW x \in First(list, good)
    PROVE  x \in good /\ x \in ToSet(list)
  BY DEF First, ToSet

\* A list of one matches another list only by that one.
LEMMA OneProfile ==
    ASSUME NEW x, NEW b, MatchingProfile(<<x>>, b) # {}
    PROVE  x \in ToSet(b)
<1>1. PICK y : y \in First(<<x>>, ToSet(b))
  BY DEF MatchingProfile
<1>2. y \in ToSet(b) /\ \E k \in DOMAIN <<x>> : y = <<x>>[k]
  BY <1>1 DEF First
<1> QED BY <1>2

LEMMA SidesAre == Sides = {"client", "server"} /\ Peer("client") = "server" /\ Peer("server") = "client"
  BY DEF Sides, Peer

-----------------------------------------------------------------------------
(* The steps                                                               *)

LEMMA InitEstablishes == Init => NegotiationInd
<1> SUFFICES ASSUME Init PROVE NegotiationInd
  OBVIOUS
<1>1. /\ DOMAIN configs = Sides
      /\ phase = [s \in Sides |-> "new"] /\ local = [s \in Sides |-> Fresh(s)]
      /\ cache = [s \in Sides |-> <<>>] /\ sent = [s \in Sides |-> Silence]
  BY DEF Init
<1>2. phase["client"] = "new" /\ phase["server"] = "new"
  BY <1>1, SidesAre
<1>3. sent["client"].flight = 0 /\ sent["server"].flight = 0
  BY <1>1, SidesAre DEF Silence
<1>4. \A s \in Sides : DOMAIN local[s] = Fields
  BY <1>1 DEF Fresh, Fields
<1>5. \A s \in Sides : configs[s].ems \in {"request", "require", "disable"}
  <2>1. PICK p \in Pairings : configs = [s \in Sides |-> p[IF s = "client" THEN 1 ELSE 2]]
    BY DEF Init
  <2>2. p[1] \in Configs /\ p[2] \in Configs
    BY PairingsAssumption
  <2>3. \A c \in Configs : c.ems \in {"request", "require", "disable"}
    BY DEF Configs
  <2> QED BY <2>1, <2>2, <2>3
<1>6. Shape
  BY <1>1, <1>4, <1>5 DEF Shape
<1> QED
  BY <1>2, <1>3, <1>6 DEF NegotiationInd, Progress, HelloSent, ServerChosen, ServerSent,
     ClientSent, ClientChosen, ClientEnded, ServerAuthenticated, ClientAuthenticated

\* Steps that end a handshake, or have not begun one, tell nothing new.
LEMMA RefuseKeeps ==
    ASSUME NegotiationInd, NEW s \in Sides, phase[s] # "done", Refuse(s)
    PROVE  NegotiationInd'
<1> USE DEF NegotiationInd
<1>1. /\ phase' = [phase EXCEPT ![s] = "failed"] /\ sent' = [sent EXCEPT ![s] = AlertFlight]
      /\ configs' = configs /\ local' = local /\ cache' = cache
  BY DEF Refuse, Become, Sends
<1>2. Shape'
  BY <1>1 DEF Shape
<1>3. /\ phase'[s] = "failed" /\ sent'[s].flight = 99
      /\ \A x \in Sides \ {s} : phase'[x] = phase[x] /\ sent'[x] = sent[x]
  BY <1>1 DEF Shape, AlertFlight
<1>4. CASE s = "server"
  BY <1>1, <1>2, <1>3, <1>4, SidesAre DEF Progress, HelloSent, ServerChosen, ServerSent,
     ClientSent, ClientChosen, ClientEnded, ServerAuthenticated, ClientAuthenticated,
     Client, Server, Cc, Cs
<1>5. CASE s = "client"
  BY <1>1, <1>2, <1>3, <1>5, SidesAre DEF Progress, HelloSent, ServerChosen, ServerSent,
     ClientSent, ClientChosen, ClientEnded, ServerAuthenticated, ClientAuthenticated,
     Client, Server, Cc, Cs
<1> QED BY <1>4, <1>5, SidesAre

LEMMA AlertKeeps ==
    ASSUME NegotiationInd, NEW s \in Sides, AlertArrives(s)
    PROVE  NegotiationInd'
<1> USE DEF NegotiationInd
<1>1. /\ phase' = [phase EXCEPT ![s] = "failed"] /\ phase[s] # "done"
      /\ configs' = configs /\ local' = local /\ cache' = cache /\ sent' = sent
  BY DEF AlertArrives, Become
<1>2. Shape'
  BY <1>1 DEF Shape
<1>3. phase'[s] = "failed" /\ \A x \in Sides \ {s} : phase'[x] = phase[x]
  BY <1>1 DEF Shape
<1>4. CASE s = "server"
  BY <1>1, <1>2, <1>3, <1>4, SidesAre DEF Progress, HelloSent, ServerChosen, ServerSent,
     ClientSent, ClientChosen, ClientEnded, ServerAuthenticated, ClientAuthenticated,
     Client, Server, Cc, Cs
<1>5. CASE s = "client"
  BY <1>1, <1>2, <1>3, <1>5, SidesAre DEF Progress, HelloSent, ServerChosen, ServerSent,
     ClientSent, ClientChosen, ClientEnded, ServerAuthenticated, ClientAuthenticated,
     Client, Server, Cc, Cs
<1> QED BY <1>4, <1>5, SidesAre

LEMMA NewKeeps ==
    ASSUME NegotiationInd, NEW s \in Sides, New(s)
    PROVE  NegotiationInd'
<1> USE DEF NegotiationInd
<1>1. /\ phase[s] = "new" /\ configs' = configs /\ local' = local /\ cache' = cache
      /\ \E p \in {"flight0", "flight1", "invalid"} : phase' = [phase EXCEPT ![s] = p]
      /\ \/ sent' = sent
         \/ s = "client" /\ sent' = [sent EXCEPT ![s] = ClientHello(configs[s], None)]
  BY DEF New, Become, Sends
<1>2. Shape'
  BY <1>1 DEF Shape
<1>3. phase'[s] \in {"flight0", "flight1", "invalid"} /\ \A x \in Sides \ {s} : phase'[x] = phase[x]
  BY <1>1 DEF Shape
<1>4. sent'["server"] = sent["server"]
  BY <1>1, SidesAre DEF Shape
<1>5. HelloSent' /\ ClientSent'
  <2>1. CASE sent' = sent
    BY <1>1, <2>1 DEF HelloSent, ClientSent, Cc
  <2>2. CASE s = "client" /\ sent' = [sent EXCEPT ![s] = ClientHello(configs[s], None)]
    <3>1. sent'["client"] = ClientHello(Cc, None)
      BY <2>2, SidesAre DEF Shape, Cc
    <3>2. ClientHello(Cc, None).flight = 1
          /\ ClientHello(Cc, None).ems = (Cc.ems \in {"request", "require"})
      BY DEF ClientHello
    <3> QED BY <3>1, <3>2, <1>1 DEF HelloSent, ClientSent, Cc
  <2> QED BY <1>1, <2>1, <2>2
<1>6. CASE s = "server"
  BY <1>1, <1>2, <1>3, <1>4, <1>5, <1>6, SidesAre DEF Progress, ServerChosen, ServerSent,
     ClientChosen, ClientEnded, ServerAuthenticated, ClientAuthenticated, Client, Server, Cc, Cs
<1>7. CASE s = "client"
  BY <1>1, <1>2, <1>3, <1>4, <1>5, <1>7, SidesAre DEF Progress, ServerChosen, ServerSent,
     ClientChosen, ClientEnded, ServerAuthenticated, ClientAuthenticated, Client, Server, Cc, Cs
<1> QED BY <1>6, <1>7, SidesAre

LEMMA ParseFlight0Keeps ==
    ASSUME NegotiationInd, ParseFlight0
    PROVE  NegotiationInd'
<1> USE DEF NegotiationInd
<1> DEFINE h == sent["client"]
<1>1. phase["server"] = "flight0" /\ h.flight = 1
  BY DEF ParseFlight0
<1>2. CASE Refuse("server")
  BY <1>1, <1>2, RefuseKeeps, SidesAre
<1>3. CASE ~Refuse("server")
  <2>1. Flight0Accepts(h, Cs)
    BY <1>3 DEF ParseFlight0, Cs
  <2>2. PICK suite \in MatchingSuite(h.suites, LocalSuites(Cs)),
             curve \in Optional(NamedCurve(h), DefaultCurve),
             srtp \in Optional(MatchingProfile(h.srtp, Cs.srtp), None) :
           /\ local' = [local EXCEPT !["server"] = Negotiated(h, Cs, Server, suite, curve, srtp)]
           /\ sent' = [sent EXCEPT !["server"] = [flight |-> 2, cookie |-> Server.cookie]]
           /\ phase' = [phase EXCEPT !["server"] = "flight2"]
           /\ UNCHANGED <<configs, cache>>
    BY <1>3, <2>1 DEF ParseFlight0, Learns, Sends, Become, Cs, Server
  <2>3. suite \in ToSet(LocalSuites(Cs)) /\ srtp \in ToSet(Cs.srtp) \cup {None}
    BY <2>2, FirstIsGood DEF MatchingSuite, MatchingProfile, Optional
  <2>4. /\ local'["server"] = Negotiated(h, Cs, Server, suite, curve, srtp)
        /\ local'["client"] = local["client"]
        /\ sent'["server"].flight = 2 /\ sent'["client"] = sent["client"]
        /\ phase'["server"] = "flight2" /\ phase'["client"] = phase["client"]
    BY <2>2, SidesAre DEF Shape
  <2>5. /\ local'["server"].suite = suite /\ local'["server"].srtp = srtp
        /\ local'["server"].ems = (h.ems /\ Cs.ems # "disable")
        /\ DOMAIN local'["server"] = Fields
    BY <2>4, SidesAre DEF Negotiated, Shape, Fields, Server
  <2>6. Shape'
    BY <2>2, <2>4, <2>5, SidesAre DEF Shape
  <2>7. h.ems => Cc.ems # "disable"
    BY <1>1 DEF HelloSent
  <2>8. ServerChosen'
    BY <2>1, <2>2, <2>3, <2>5, <2>7 DEF ServerChosen, Flight0Accepts, Server, Cs, Cc
  <2>9. phase["client"] \notin {"flight5", "done"} /\ sent["server"].flight \notin {4, 6}
    BY <1>1 DEF Progress
  <2> QED
    BY <2>2, <2>4, <2>6, <2>8, <2>9 DEF Progress, HelloSent, ServerSent, ClientSent, ClientChosen,
       ClientEnded, ServerAuthenticated, ClientAuthenticated, Cc
<1> QED BY <1>2, <1>3

LEMMA ParseFlight1Keeps ==
    ASSUME NegotiationInd, ParseFlight1
    PROVE  NegotiationInd'
<1> USE DEF NegotiationInd
<1>1. PICK cookie : LET hello == ClientHello(Cc, cookie) IN
        /\ phase["client"] = "flight1" /\ configs' = configs
        /\ local' = [local EXCEPT !["client"] = [Client EXCEPT !.cookie = cookie]]
        /\ sent' = [sent EXCEPT !["client"] = hello]
        /\ cache' = [cache EXCEPT !["client"] = <<hello>>]
        /\ phase' = [phase EXCEPT !["client"] = "flight3"]
  BY DEF ParseFlight1, Learns, Sends, Keeps, Become, Client, Cc
<1>2. /\ local'["server"] = local["server"] /\ sent'["server"] = sent["server"]
      /\ phase'["server"] = phase["server"] /\ phase'["client"] = "flight3"
      /\ sent'["client"] = ClientHello(Cc, cookie) /\ DOMAIN local'["client"] = Fields
  BY <1>1, SidesAre DEF Shape, Client
<1>3. Shape'
  BY <1>1, <1>2, SidesAre DEF Shape
<1>4. /\ sent'["client"].flight # 5 /\ sent'["client"].ems = (Cc.ems \in {"request", "require"})
  BY <1>2 DEF ClientHello
<1> QED
  BY <1>1, <1>2, <1>3, <1>4 DEF Progress, HelloSent, ServerChosen, ServerSent, ClientSent,
     ClientChosen, ClientEnded, ServerAuthenticated, ClientAuthenticated, Server, Cs, Cc

LEMMA ParseFlight2Keeps ==
    ASSUME NegotiationInd, ParseFlight2
    PROVE  NegotiationInd'
<1> USE DEF NegotiationInd
<1>1. phase["server"] = "flight2" /\ sent["server"].flight = 2
  BY DEF ParseFlight2, Progress
<1>2. CASE Refuse("server")
  BY <1>1, <1>2, RefuseKeeps, SidesAre
<1>3. CASE ~Refuse("server")
  <2>1. PICK scheme \in ServerSchemes(Cs) : LET flight == ServerFlight(Cs, Server, scheme) IN
           /\ sent' = [sent EXCEPT !["server"] = flight]
           /\ cache' = [cache EXCEPT !["server"] = <<sent["client"], flight>>]
           /\ phase' = [phase EXCEPT !["server"] = "flight4"]
           /\ UNCHANGED <<configs, local>>
    BY <1>3 DEF ParseFlight2, Sends, Keeps, Become, Cs, Server
  <2>2. Shape'
    BY <2>1 DEF Shape
  <2>3. /\ sent'["server"] = ServerFlight(Cs, Server, scheme) /\ sent'["client"] = sent["client"]
        /\ phase'["server"] = "flight4" /\ phase'["client"] = phase["client"]
    BY <2>1, SidesAre DEF Shape
  <2>4. sent'["server"].flight = 4
    BY <2>3 DEF ServerFlight
  <2>5. ServerSent'
    BY <2>1, <2>3, <2>4 DEF ServerSent, Cs, Server
  <2>6. phase["client"] \notin {"flight5", "done"}
    BY <1>1 DEF Progress
  <2> QED
    BY <1>1, <2>1, <2>2, <2>3, <2>4, <2>5, <2>6 DEF Progress, HelloSent, ServerChosen, ClientSent,
       ClientChosen, ClientEnded, ServerAuthenticated, ClientAuthenticated, Server, Cs, Cc
<1> QED BY <1>2, <1>3

\* What the client knows of the server once flight 3 has accepted a flight 4.
LEMMA ClientAgrees ==
    ASSUME NegotiationInd, sent["server"].flight = 4,
           NEW l, l = Agreed(sent["server"], Cc, Client),
           Flight3Accepts(sent["server"], Cc)
    PROVE  /\ DOMAIN l = Fields
           /\ l.suite = Server.suite /\ l.srtp = Server.srtp /\ l.ems = Server.ems
           /\ l.peer = sent["server"].cert
           /\ l.suite \in ToSet(LocalSuites(Cc)) /\ l.srtp \in ToSet(Cc.srtp) \cup {None}
           /\ Cc.ems = "require" => l.ems
           /\ Cc.srtp # <<>> => l.srtp # None
           /\ l.peer \subseteq {OwnCertificate(Cs)}
<1> USE DEF NegotiationInd
<1> DEFINE f == sent["server"]
<1>1. PICK scheme : f = ServerFlight(Cs, Server, scheme)
  BY DEF ServerSent
<1>2. /\ f.suite = Server.suite /\ f.cert \subseteq {OwnCertificate(Cs)}
      /\ f.ems = (Cs.ems \in {"request", "require"} /\ Server.ems)
      /\ f.srtp = IF Server.srtp = None THEN <<>> ELSE <<Server.srtp>>
  BY <1>1 DEF ServerFlight
<1>3. /\ DOMAIN l = Fields /\ l.suite = f.suite /\ l.peer = f.cert
      /\ l.srtp = (IF f.srtp = <<>> THEN None ELSE f.srtp[1])
      /\ l.ems = (f.ems /\ Cc.ems # "disable")
  BY SidesAre DEF Agreed, Shape, Fields, Client
<1>4. /\ Server.ems \in BOOLEAN /\ (Server.ems => Cs.ems # "disable" /\ Cc.ems # "disable")
  BY DEF ServerChosen
<1>5. l.ems = Server.ems
  <2>1. Cs.ems \in {"request", "require", "disable"}
    BY SidesAre DEF Shape, Cs
  <2> QED BY <1>2, <1>3, <1>4, <2>1
<1>6. l.srtp = Server.srtp
  BY <1>2, <1>3
<1>7. /\ Cc.ems = "require" => f.ems
      /\ Cc.srtp # <<>> => f.srtp # <<>>
      /\ f.suite \in ToSet(LocalSuites(Cc))
      /\ f.srtp # <<>> => MatchingProfile(f.srtp, Cc.srtp) # {}
  BY DEF Flight3Accepts
<1>8. l.srtp \in ToSet(Cc.srtp) \cup {None}
  <2>1. CASE Server.srtp = None
    BY <2>1, <1>6
  <2>2. CASE Server.srtp # None
    BY <2>2, <1>2, <1>6, <1>7, OneProfile
  <2> QED BY <2>1, <2>2
<1>9. Cc.srtp # <<>> => l.srtp # None
  BY <1>2, <1>6, <1>7
<1> QED
  BY <1>2, <1>3, <1>4, <1>5, <1>6, <1>7, <1>8, <1>9

LEMMA ParseFlight3Keeps ==
    ASSUME NegotiationInd, ParseFlight3
    PROVE  NegotiationInd'
<1> USE DEF NegotiationInd
<1> DEFINE f == sent["server"]
           l == Agreed(f, Cc, Client)
           t == Append(cache["client"], f) \o << ClientKeys(Cc, l) >>
           ready == [l EXCEPT !.master = MasterSecret(l.ems, l.secret, t)]
<1>1. phase["client"] = "flight3" /\ f.flight = 4
  BY DEF ParseFlight3
<1>2. CASE Refuse("client")
  BY <1>1, <1>2, RefuseKeeps, SidesAre
<1>3. CASE ~Refuse("client")
  <2>1. Flight3Accepts(f, Cc) /\ ServerTrusted(f, Cc, l)
    BY <1>3 DEF ParseFlight3, Cc, Client
  <2>2. PICK scheme :
           /\ local' = [local EXCEPT !["client"] = ready]
           /\ cache' = [cache EXCEPT !["client"] = t]
           /\ sent' = [sent EXCEPT !["client"] = ClientFlight(Cc, ready, scheme, t)]
           /\ phase' = [phase EXCEPT !["client"] = "flight5"]
           /\ configs' = configs
    BY <1>3 DEF ParseFlight3, Learns, Sends, Keeps, Become, Cc, Client
  <2>3. /\ DOMAIN l = Fields
        /\ l.suite = Server.suite /\ l.srtp = Server.srtp /\ l.ems = Server.ems
        /\ l.suite \in ToSet(LocalSuites(Cc)) /\ l.srtp \in ToSet(Cc.srtp) \cup {None}
        /\ Cc.ems = "require" => l.ems
        /\ Cc.srtp # <<>> => l.srtp # None
        /\ l.peer \subseteq {OwnCertificate(Cs)}
    BY <1>1, <2>1, ClientAgrees
  <2> HIDE DEF l, t
  <2>4. /\ local'["client"] = ready /\ local'["server"] = local["server"]
        /\ sent'["client"] = ClientFlight(Cc, ready, scheme, t) /\ sent'["server"] = sent["server"]
        /\ phase'["client"] = "flight5" /\ phase'["server"] = phase["server"]
    BY <2>2, SidesAre DEF Shape
  <2>5. /\ DOMAIN local'["client"] = Fields /\ local'["client"].suite = l.suite
        /\ local'["client"].srtp = l.srtp /\ local'["client"].ems = l.ems
        /\ local'["client"].peer = l.peer
    BY <2>3, <2>4 DEF Fields
  <2>6. Shape'
    BY <2>2, <2>4, <2>5, SidesAre DEF Shape
  <2>7. sent'["client"].flight = 5 /\ sent'["client"].keys = ClientKeys(Cc, ready)
    BY <2>4 DEF ClientFlight
  <2>8. ClientSent' /\ HelloSent'
    BY <2>2, <2>7 DEF ClientSent, HelloSent, ClientKeys, Cc
  <2>9. ClientChosen'
    BY <1>1, <2>2, <2>3, <2>4, <2>5 DEF ClientChosen, ServerChosen, Client, Server, Cc, Cs
  <2>10. ServerAuthenticated'
    <3>1. ~UsesPsk(Cc) => \E cert \in l.peer :
             (Cc.skipVerify \/ ChainValid(cert, Cc.roots)) /\ cert \notin Cc.refuses
      BY <2>1 DEF ServerTrusted
    <3> QED BY <2>2, <2>3, <2>5, <3>1 DEF ServerAuthenticated, Cc, Cs
  <2> QED
    BY <1>1, <2>2, <2>4, <2>6, <2>8, <2>9, <2>10 DEF Progress, ServerChosen, ServerSent, ClientEnded,
       ClientAuthenticated, Server, Cs, Cc
<1> QED BY <1>2, <1>3

LEMMA ParseFlight4Keeps ==
    ASSUME NegotiationInd, ParseFlight4
    PROVE  NegotiationInd'
<1> USE DEF NegotiationInd
<1> DEFINE f == sent["client"]
           t == Append(cache["server"], f.keys)
           l == Accounted(f, Cs, Server, t)
<1>1. phase["server"] = "flight4" /\ f.flight = 5 /\ Proven(f)
  BY DEF ParseFlight4
<1>2. CASE Refuse("server")
  BY <1>1, <1>2, RefuseKeeps, SidesAre
<1>3. CASE ~Refuse("server")
  <2>1. /\ ClientProven(f, Cs, t) /\ ClientAuthorized(Cs, l)
        /\ local' = [local EXCEPT !["server"] = l]
        /\ cache' = [cache EXCEPT !["server"] = t]
        /\ sent' = [sent EXCEPT !["server"] = ServerEnd(f, l, t)]
        /\ phase' = [phase EXCEPT !["server"] = "done"]
        /\ configs' = configs
    BY <1>3 DEF ParseFlight4, Learns, Sends, Keeps, Become, Cs, Server
  <2>2. /\ DOMAIN l = Fields /\ l.suite = Server.suite /\ l.srtp = Server.srtp
        /\ l.ems = Server.ems /\ l.peer = f.keys.cert
    BY SidesAre DEF Accounted, Shape, Fields, Server
  <2> HIDE DEF l, t
  <2>3. /\ local'["server"] = l /\ local'["client"] = local["client"]
        /\ sent'["server"] = ServerEnd(f, l, t) /\ sent'["client"] = sent["client"]
        /\ phase'["server"] = "done" /\ phase'["client"] = phase["client"]
    BY <2>1, SidesAre DEF Shape
  <2>4. Shape'
    BY <2>1, <2>2, <2>3, SidesAre DEF Shape
  <2>5. sent'["server"].flight = 6 /\ sent'["server"].finished[1] = l.master
    BY <2>3 DEF ServerEnd, VerifyData
  <2>6. ServerSent' /\ HelloSent' /\ ClientSent'
    BY <2>1, <2>3, <2>5 DEF ServerSent, HelloSent, ClientSent, Server, Cc
  <2>7. ServerChosen' /\ ClientChosen'
    BY <1>1, <2>1, <2>2, <2>3, <2>5 DEF ServerChosen, ClientChosen, Progress, Client, Server, Cs, Cc
  <2>8. ClientAuthenticated'
    <3>1. f.keys.cert \subseteq {OwnCertificate(Cc)}
      BY <1>1 DEF ClientSent
    <3>2. ASSUME NEW cert \in f.keys.cert
          PROVE  /\ AtLeast(Cs.auth, "verifyIfGiven") => ChainValid(cert, Cs.roots)
                 /\ cert \notin Cs.refuses
      BY <1>1, <2>1, <3>1 DEF Proven, ClientProven
    <3>3. Cs.auth \in {"requireAny", "requireAndVerify"} => l.peer # {}
      BY <2>1 DEF ClientAuthorized
    <3> QED BY <2>1, <2>2, <2>3, <3>1, <3>2, <3>3 DEF ClientAuthenticated, Cs, Cc
  <2> QED
    BY <1>1, <2>1, <2>3, <2>4, <2>5, <2>6, <2>7, <2>8 DEF Progress, ClientEnded, ServerAuthenticated,
       Client, Server, Cc, Cs
<1> QED BY <1>2, <1>3

LEMMA ParseFlight5Keeps ==
    ASSUME NegotiationInd, ParseFlight5
    PROVE  NegotiationInd'
<1> USE DEF NegotiationInd
<1>1. phase["client"] = "flight5" /\ sent["server"].flight = 6
  BY DEF ParseFlight5
<1>2. CASE Refuse("client")
  BY <1>1, <1>2, RefuseKeeps, SidesAre
<1>3. CASE ~Refuse("client")
  <2>1. /\ \E x : sent["server"].finished = VerifyData(Client.master, x)
        /\ phase' = [phase EXCEPT !["client"] = "done"]
        /\ UNCHANGED <<configs, local, cache, sent>>
    BY <1>3 DEF ParseFlight5, Become, Client
  <2>2. sent["server"].finished[1] = Client.master
    BY <2>1 DEF VerifyData
  <2>3. Client.master = Server.master
    BY <1>1, <2>2 DEF ServerSent
  <2>4. phase'["client"] = "done" /\ phase'["server"] = phase["server"] /\ phase["server"] = "done"
    BY <1>1, <2>1, SidesAre DEF Shape, Progress
  <2>5. Shape'
    BY <2>1 DEF Shape
  <2> QED
    BY <1>1, <2>1, <2>3, <2>4, <2>5 DEF Progress, HelloSent, ServerChosen, ServerSent, ClientSent,
       ClientChosen, ClientEnded, ServerAuthenticated, ClientAuthenticated, Client, Server, Cc, Cs
<1> QED BY <1>2, <1>3

LEMMA StutterKeeps ==
    ASSUME NegotiationInd, UNCHANGED vars
    PROVE  NegotiationInd'
<1> USE DEF vars, NegotiationInd, Client, Server, Cc, Cs
<1>1. Shape' /\ Progress'
  BY DEF Shape, Progress
<1>2. HelloSent' /\ ServerChosen' /\ ServerSent' /\ ClientSent'
  BY DEF HelloSent, ServerChosen, ServerSent, ClientSent
<1>3. ClientChosen' /\ ClientEnded'
  BY DEF ClientChosen, ClientEnded
<1>4. ServerAuthenticated' /\ ClientAuthenticated'
  BY DEF ServerAuthenticated, ClientAuthenticated
<1> QED BY <1>1, <1>2, <1>3, <1>4

LEMMA Inductive == Spec => []NegotiationInd
<1>1. NegotiationInd /\ [Next]_vars => NegotiationInd'
  BY NewKeeps, ParseFlight0Keeps, ParseFlight1Keeps, ParseFlight2Keeps, ParseFlight3Keeps,
     ParseFlight4Keeps, ParseFlight5Keeps, AlertKeeps, StutterKeeps DEF Next, Step
<1> QED BY <1>1, InitEstablishes, PTL DEF Spec

-----------------------------------------------------------------------------
(* What follows from the invariant                                         *)

\* Whatever the two configurations are, a client that ends with success has the
\* suite, the SRTP profile, the extended master secret and the keys of a server
\* that has ended too, and both had listed the suite and the profile.
THEOREM ParametersAlwaysAgree == Spec => []ParametersAgree
<1>1. NegotiationInd => ParametersAgree
  BY SidesAre DEF NegotiationInd, ParametersAgree, ClientChosen, ClientEnded, Chosen, Client, Server, Cc, Cs
<1> QED BY <1>1, Inductive, PTL

\* Whatever issuers, roots and callbacks there are, a client without PSK takes keys
\* into use only with a server whose certificate it trusts.
THEOREM ServerAlwaysAuthenticated == Spec => []ServerAuthenticated
<1>1. NegotiationInd => ServerAuthenticated
  BY DEF NegotiationInd
<1> QED BY <1>1, Inductive, PTL

\* Under every client_auth, a server finishes only with a client that meets it.
THEOREM ClientAlwaysAuthenticated == Spec => []ClientAuthenticated
<1>1. NegotiationInd => ClientAuthenticated
  BY DEF NegotiationInd
<1> QED BY <1>1, Inductive, PTL

\* No side ends with success without an extension it requires.
THEOREM RequirementsAlwaysMet == Spec => []RequirementsMet
<1>1. NegotiationInd => RequirementsMet
  BY SidesAre DEF NegotiationInd, RequirementsMet, ClientChosen, ServerChosen, Progress, Client, Server, Cc, Cs
<1> QED BY <1>1, Inductive, PTL

-----------------------------------------------------------------------------
(* The outcome                                                             *)

Valid(s) == ConfigValid(s, configs[s]) /\ SchemesValid(configs[s])
HintGiven == IF Cs.hint = None THEN Empty ELSE Cs.hint

\* What the code asks for, which Compatible does not: that the first scheme that a
\* signer lists for its key can be used.
Understood(signer, verifier) ==
    \E x \in SelectedScheme(signer, OwnCertificate(signer)) :
        x \in ToSet(LocalSchemes(verifier)) /\ Usable(x, OwnCertificate(signer).key)
Welcomed(c, s, verify) == Understood(c, s) /\ Welcome(c, s, verify)
Agreeable(c, s) == Matching(c, s) /\ \A p \in Signed(c, s) : Understood(p[1], p[2])

LEMMA AgreeableMeans ==
    ASSUME NEW c, NEW s
    PROVE  Agreeable(c, s) <=>
             /\ Matching(c, s)
             /\ ~UsesPsk(s) => /\ Understood(s, c)
                               /\ s.auth # "none" /\ c.certs # <<>> => Understood(c, s)
<1> DEFINE one == <<s, c>>  two == <<c, s>>
<1>1. one[1] = s /\ one[2] = c /\ two[1] = c /\ two[2] = s
  OBVIOUS
<1>2. Signed(c, s) = IF UsesPsk(s) THEN {}
                     ELSE IF s.auth # "none" /\ c.certs # <<>> THEN {one, two} ELSE {one}
  BY DEF Signed
<1> HIDE DEF one, two
<1>3. (\A p \in Signed(c, s) : Understood(p[1], p[2])) <=>
        (~UsesPsk(s) => /\ Understood(one[1], one[2])
                        /\ s.auth # "none" /\ c.certs # <<>> => Understood(two[1], two[2]))
  BY <1>2, Zenon
<1> QED BY <1>1, <1>3 DEF Agreeable
Suites == PskSuites \cup EcdheSuites

\* Each side has gone as far as its last flight says.
Stage ==
    /\ phase["client"] \in {"new", "invalid", "flight1", "flight3", "flight5", "done", "failed"}
    /\ phase["server"] \in {"new", "invalid", "flight0", "flight2", "flight4", "done", "failed"}
    /\ \A s \in Sides :
         /\ phase[s] \in {"new", "invalid"} => sent[s].flight = 0
         /\ sent[s].flight = 99 => phase[s] = "failed"
         /\ phase[s] \notin {"new", "invalid"} => Valid(s)
         /\ phase[s] = "invalid" => ~Valid(s)
    /\ phase["client"] = "flight1" => sent["client"].flight = 1
    /\ phase["client"] = "flight3" => sent["client"].flight = 3
    /\ phase["client"] \in {"flight5", "done"} => sent["client"].flight = 5
    /\ phase["server"] = "flight4" => sent["client"].flight \in {3, 5, 99}

\* What the hellos say, and that the cookie is the one that was given.
Hellos ==
    /\ sent["client"].flight = 1 => sent["client"] = ClientHello(Cc, None)
    /\ sent["client"].flight = 3 => sent["client"] = ClientHello(Cc, "cookie")
    /\ Server.cookie = "cookie"
    /\ sent["server"].flight = 2 => sent["server"].cookie = "cookie"

\* What the server's answer to a hello says of the two configurations.
ServerHeard ==
    sent["server"].flight \in {2, 4, 6} =>
        /\ Server.suite \in ToSet(LocalSuites(Cc)) \cap ToSet(LocalSuites(Cs))
        /\ Server.ems = (Cc.ems # "disable" /\ Cs.ems # "disable")
        /\ Cs.ems = "require" => Cc.ems # "disable"
        /\ IF Cc.srtp = <<>> THEN Server.srtp = None
           ELSE Server.srtp \in ToSet(Cc.srtp) \cap ToSet(Cs.srtp)

ServerSpeaks ==
    sent["server"].flight = 4 =>
        \E scheme \in ServerSchemes(Cs) : sent["server"] = ServerFlight(Cs, Server, scheme)

\* Both sides hash the same messages.
Transcripts ==
    /\ sent["client"].flight = 3 => cache["client"] = <<sent["client"]>>
    /\ phase["server"] = "flight4" /\ sent["client"].flight = 3 =>
         cache["server"] = <<sent["client"], sent["server"]>>
    /\ phase["server"] = "flight4" /\ sent["client"].flight = 5 =>
         cache["client"] = Append(cache["server"], sent["client"].keys)

\* What the client's keys say of the two configurations, and what they are.
ClientHeard ==
    sent["client"].flight = 5 =>
        /\ UsesPsk(Cc) = UsesPsk(Cs)
        /\ Cc.ems = "require" => Cs.ems # "disable"
        /\ IF UsesPsk(Cs) THEN Cc.psk[HintGiven] # "refused"
           ELSE Welcomed(Cs, Cc, ~Cc.skipVerify)
        /\ Client.requested = (~UsesPsk(Cs) /\ Cs.auth # "none")
        /\ Client.ems = Server.ems
        /\ Client.secret = IF UsesPsk(Cc) THEN PskSecret(Cc.psk[HintGiven])
                           ELSE SharedSecret(Client.keypair, Server.keypair)
        /\ Client.master = MasterSecret(Client.ems, Client.secret, cache["client"])
        /\ \E scheme \in ClientSchemes(Cc, Client) :
             sent["client"] = ClientFlight(Cc, Client, scheme, cache["client"])

\* A server that ends knows that the client will.
ServerEnded ==
    phase["server"] = "done" =>
        /\ Agreeable(Cc, Cs)
        /\ phase["client"] \in {"flight5", "done"}
        /\ Client.master = Server.master
        /\ sent["server"].finished =
             VerifyData(Server.master, <<cache["client"], sent["client"].verify,
                                         sent["client"].finished>>)

Unrefused == Agreeable(Cc, Cs) => \A s \in Sides : phase[s] \notin {"failed", "invalid"}

\* What is chosen is something that can be chosen.
Types ==
    /\ configs \in [Sides -> Configs]
    /\ \A s \in Sides :
         /\ local[s].suite \in Suites \cup {None}
         /\ local[s].srtp \in {"srtp1", "srtp2", None}
         /\ local[s].ems \in BOOLEAN
         /\ local[s].peer \subseteq Certificates

OutcomeInd ==
    /\ Types /\ Stage /\ Hellos /\ ServerHeard /\ ServerSpeaks /\ Transcripts
    /\ ClientHeard /\ ServerEnded /\ Unrefused

-----------------------------------------------------------------------------
(* Lists and choices                                                       *)

LEMMA LeastNatural == \A T \in SUBSET Nat : T # {} => \E x \in T : \A y \in T : x <= y
<1> SUFFICES ASSUME NEW T \in SUBSET Nat, T # {}
             PROVE  \E x \in T : \A y \in T : x <= y
  OBVIOUS
<1>1. IsWellFoundedOn(OpToRel(<, Nat), Nat)
  BY NatLessThanWellFounded
<1>2. \E x \in T : \A y \in T : ~(<<y, x>> \in OpToRel(<, Nat))
  BY <1>1, WFMin
<1>3. \A x, y \in Nat : <<y, x>> \in OpToRel(<, Nat) <=> y < x
  BY DEF OpToRel
<1>4. PICK x \in T : \A y \in T : ~(<<y, x>> \in OpToRel(<, Nat))
  BY <1>2
<1>5. \A y \in T : y \in Nat
  OBVIOUS
<1>6. \A y \in T : ~(y < x)
  BY <1>3, <1>4, <1>5
<1> QED BY <1>5, <1>6

\* Filtering a list is a function that exists: each prefix has its result.
LEMMA OnlySteps ==
    ASSUME NEW list, NEW good, Len(list) \in Nat
    PROVE  \E upTo : /\ upTo[0] = <<>>
                     /\ \A i \in 1 .. Len(list) :
                          upTo[i] = IF list[i] \in good THEN Append(upTo[i - 1], list[i])
                                    ELSE upTo[i - 1]
                     /\ Only(list, good) = upTo[Len(list)]
<1> DEFINE Longer(t, i) == IF list[i] \in good THEN Append(t, list[i]) ELSE t
           Is(f, n) == f = [i \in 0 .. n |-> IF i = 0 THEN <<>> ELSE Longer(f[i - 1], i)]
           L == Len(list)
<1>4. \A n \in Nat : \E f : Is(f, n)
  <2> DEFINE T == {n \in Nat : ~\E f : Is(f, n)}
  <2> SUFFICES ASSUME T # {} PROVE FALSE
    OBVIOUS
  <2>1. PICK n \in T : \A m \in T : n <= m
    BY LeastNatural
  <2>2. CASE n = 0
    <3> DEFINE f == [i \in 0 .. 0 |-> <<>>]
    <3>1. f = [i \in 0 .. n |-> IF i = 0 THEN <<>> ELSE Longer(f[i - 1], i)]
      BY <2>2
    <3> QED BY <3>1
  <2>3. CASE n # 0
    <3>1. n \in Nat /\ n - 1 \in Nat /\ ~(n <= n - 1)
      BY <2>3
    <3>0. n - 1 \notin T
      <4> HIDE DEF T
      <4> QED BY <2>1, <3>1
    <3>2. PICK f : Is(f, n - 1)
      BY <3>0, <3>1
    <3> DEFINE g == [i \in 0 .. n |-> IF i = n THEN Longer(f[n - 1], n) ELSE f[i]]
    <3> HIDE DEF Longer
    <3>3. \A i \in 0 .. n : g[i] = IF i = 0 THEN <<>> ELSE Longer(g[i - 1], i)
      <4> SUFFICES ASSUME NEW i \in 0 .. n
                   PROVE  g[i] = IF i = 0 THEN <<>> ELSE Longer(g[i - 1], i)
        OBVIOUS
      <4>1. CASE i = n
        <5>1. n - 1 \in 0 .. n /\ n - 1 # n
          BY <3>1
        <5> QED BY <2>3, <3>1, <4>1, <5>1
      <4>2. CASE i # n /\ i # 0
        <5>1. i \in 0 .. n - 1 /\ i - 1 \in 0 .. n /\ i - 1 # n
          BY <3>1, <4>2
        <5>2. g[i] = f[i] /\ g[i - 1] = f[i - 1]
          BY <4>2, <5>1
        <5>3. f[i] = Longer(f[i - 1], i)
          BY <3>2, <4>2, <5>1
        <5> QED BY <4>2, <5>2, <5>3
      <4>3. CASE i # n /\ i = 0
        <5>1. 0 \in 0 .. n - 1
          BY <3>1
        <5> QED BY <3>2, <4>3, <5>1
      <4> QED BY <4>1, <4>2, <4>3
    <3>4. Is(g, n)
      BY <3>3
    <3> QED BY <3>4
  <2> QED BY <2>2, <2>3
<1> DEFINE upTo == CHOOSE f : Is(f, L)
<1>5. Is(upTo, L)
  BY <1>4
<1>6. Only(list, good) = upTo[L]
  BY DEF Only
<1>1. L \in Nat
  OBVIOUS
<1> HIDE DEF upTo, L, Longer
<1>7. upTo[0] = <<>>
  BY <1>1, <1>5
<1>8. ASSUME NEW i \in 1 .. L PROVE upTo[i] = Longer(upTo[i - 1], i)
  <2>1. i \in 0 .. L /\ i # 0
    BY <1>1
  <2> QED BY <1>5, <2>1
<1> QED BY <1>6, <1>7, <1>8 DEF L, Longer

\* A filtered list has the elements of the list that are in the set.
LEMMA OnlyIsFilter ==
    ASSUME NEW S, NEW list \in Seq(S), NEW good
    PROVE  /\ Only(list, good) \in Seq(S)
           /\ ToSet(Only(list, good)) = ToSet(list) \cap good
<1> DEFINE L == Len(list)
<1>1. L \in Nat /\ DOMAIN list = 1 .. L /\ \A i \in 1 .. L : list[i] \in S
  OBVIOUS
<1>2. PICK upTo :
        /\ upTo[0] = <<>>
        /\ \A i \in 1 .. L :
             upTo[i] = IF list[i] \in good THEN Append(upTo[i - 1], list[i]) ELSE upTo[i - 1]
        /\ Only(list, good) = upTo[L]
  BY <1>1, OnlySteps
<1> DEFINE Good(i) == /\ upTo[i] \in Seq(S)
                      /\ ToSet(upTo[i]) = {x \in good : \E j \in 1 .. i : x = list[j]}
           Bad == {i \in 0 .. L : ~Good(i)}
<1>3. Good(0)
  <2>1. <<>> \in Seq(S) /\ ToSet(<<>>) = {}
    BY DEF ToSet
  <2> QED BY <1>2, <2>1
<1>4. ASSUME NEW i \in 1 .. L, Good(i - 1) PROVE Good(i)
  <2>1. i \in Nat /\ i - 1 \in Nat /\ list[i] \in S /\ i # 0
    BY <1>1
  <2>2. \A x : (\E j \in 1 .. i : x = list[j]) <=> (x = list[i] \/ \E j \in 1 .. i - 1 : x = list[j])
    <3>1. \A j : j \in 1 .. i <=> (j = i \/ j \in 1 .. i - 1)
      BY <2>1
    <3> QED BY <3>1
  <2>3. CASE list[i] \in good
    <3>1. upTo[i] = Append(upTo[i - 1], list[i])
      BY <1>2, <2>3
    <3>2. upTo[i] \in Seq(S) /\ ToSet(upTo[i]) = ToSet(upTo[i - 1]) \cup {list[i]}
      <4> DEFINE t == upTo[i - 1]
      <4>1. t \in Seq(S)
        BY <1>4
      <4> HIDE DEF t
      <4>2. /\ Append(t, list[i]) \in Seq(S) /\ Len(Append(t, list[i])) = Len(t) + 1
            /\ \A k \in 1 .. Len(t) : Append(t, list[i])[k] = t[k]
            /\ Append(t, list[i])[Len(t) + 1] = list[i]
        BY <2>1, <4>1, AppendProperties
      <4>3. Len(t) \in Nat /\ DOMAIN t = 1 .. Len(t)
            /\ DOMAIN Append(t, list[i]) = 1 .. Len(t) + 1
        BY <4>1, <4>2
      <4>4. \A k : k \in 1 .. Len(t) + 1 <=> (k \in 1 .. Len(t) \/ k = Len(t) + 1)
        BY <4>3
      <4>5. ToSet(Append(t, list[i])) = ToSet(t) \cup {list[i]}
        BY <4>2, <4>3, <4>4 DEF ToSet
      <4> QED BY <3>1, <4>2, <4>5 DEF t
    <3> QED BY <1>4, <2>2, <2>3, <3>2
  <2>4. CASE list[i] \notin good
    <3>1. upTo[i] = upTo[i - 1]
      BY <1>2, <2>4
    <3> QED BY <1>4, <2>2, <2>4, <3>1
  <2> QED BY <2>3, <2>4
<1> HIDE DEF Good
<1>5. Bad = {}
  <2> SUFFICES ASSUME Bad # {} PROVE FALSE
    OBVIOUS
  <2>1. Bad \in SUBSET Nat
    BY <1>1
  <2>2. PICK n \in Bad : \A m \in Bad : n <= m
    BY <2>1, LeastNatural
  <2>3. n # 0
    BY <1>3, <2>2
  <2>4. n - 1 \in 0 .. L /\ n \in 1 .. L /\ ~(n <= n - 1)
    BY <1>1, <2>2, <2>3
  <2>5. n - 1 \notin Bad
    BY <2>2, <2>4
  <2>6. Good(n - 1)
    BY <2>4, <2>5
  <2> QED BY <1>4, <2>2, <2>4, <2>6
<1>6. Good(L)
  BY <1>1, <1>5
<1>7. ToSet(list) = {list[j] : j \in 1 .. L}
  BY <1>1 DEF ToSet
<1> QED BY <1>2, <1>6, <1>7 DEF Good

\* The first element that is good exists if there is one, and there is only one.
LEMMA FirstIsLeast ==
    ASSUME NEW S, NEW list \in Seq(S), NEW good
    PROVE  /\ First(list, good) # {} <=> ToSet(list) \cap good # {}
           /\ \A x, y \in First(list, good) : x = y
<1> DEFINE K == {k \in DOMAIN list : list[k] \in good}
           Firsts == {k \in DOMAIN list : list[k] \in good /\ \A j \in 1 .. (k - 1) : list[j] \notin good}
<1>1. DOMAIN list \in SUBSET Nat /\ \A k \in DOMAIN list : 1 .. k \subseteq DOMAIN list
  OBVIOUS
<1>2. First(list, good) = {list[i] : i \in Firsts}
  BY DEF First
<1>3. ToSet(list) \cap good # {} <=> K # {}
  BY DEF ToSet
<1>4. K # {} => Firsts # {}
  <2> SUFFICES ASSUME K # {} PROVE Firsts # {}
    OBVIOUS
  <2>1. K \in SUBSET Nat
    BY <1>1
  <2>2. PICK k \in K : \A j \in K : k <= j
    BY <2>1, LeastNatural
  <2>3. k \in Nat
    BY <2>1
  <2>4. ASSUME NEW j \in 1 .. (k - 1) PROVE list[j] \notin good
    <3>1. j \in 1 .. k /\ ~(k <= j)
      BY <2>3
    <3>2. j \in DOMAIN list
      BY <1>1, <3>1
    <3> QED BY <2>2, <3>1, <3>2
  <2> QED BY <2>4
<1>5. Firsts \subseteq K
  OBVIOUS
<1>6. ASSUME NEW i \in Firsts, NEW j \in Firsts PROVE i = j
  <2>1. i \in Nat /\ j \in Nat /\ i \in 1 .. i /\ j \in 1 .. j
    BY <1>1
  <2>2. ~(i < j)
    <3> SUFFICES ASSUME i < j PROVE FALSE
      OBVIOUS
    <3>1. i \in 1 .. (j - 1)
      BY <2>1
    <3> QED BY <3>1
  <2>3. ~(j < i)
    <3> SUFFICES ASSUME j < i PROVE FALSE
      OBVIOUS
    <3>1. j \in 1 .. (i - 1)
      BY <2>1
    <3> QED BY <3>1
  <2> QED BY <2>1, <2>2, <2>3
<1> HIDE DEF K, Firsts
<1>7. \A x, y \in First(list, good) : x = y
  BY <1>2, <1>6
<1>8. First(list, good) # {} <=> Firsts # {}
  BY <1>2
<1> QED BY <1>3, <1>4, <1>5, <1>7, <1>8

-----------------------------------------------------------------------------
(* Configurations                                                          *)

SchemeSet == [hash : {"sha1", "sha256", "sha384", "sha512", "ed25519"},
              signature : {"ecdsa", "rsa", "ed25519", "unsupported"}]
Auths == {"none", "request", "requireAny", "verifyIfGiven", "requireAndVerify"}

LEMMA ConfigFields ==
    ASSUME NEW c \in Configs
    PROVE  /\ c.psk \in {<<>>} \cup [Identities \cup {Empty} -> {"key1", "key2", "refused"}]
           /\ c.hint \in Identities \cup {None} /\ c.certs \in Seq(Certificates)
           /\ c.suites \in Seq(Suites \cup {"unsupported"}) /\ c.schemes \in Seq(SchemeSet)
           /\ c.srtp \in Seq({"srtp1", "srtp2"}) /\ c.ems \in {"request", "require", "disable"}
           /\ c.auth \in Auths
  BY DEF Configs, Suites, SchemeSet, Auths

\* The suites a side offers are those of its kind in its list.
LEMMA SuitesOfKind ==
    ASSUME NEW c \in Configs
    PROVE  /\ LocalSuites(c) \in Seq(Suites \cup {"unsupported"})
           /\ \A x \in ToSet(LocalSuites(c)) : (x \in PskSuites) = UsesPsk(c)
           /\ "unsupported" \notin ToSet(c.suites) => \A x \in ToSet(LocalSuites(c)) : x \in Suites
<1> DEFINE list == Listed(c)
           good == {x \in ToSet(list) : (x \in PskSuites) = UsesPsk(c)}
<1>1. list \in Seq(Suites \cup {"unsupported"})
  <2>1. DefaultSuites \in Seq(Suites \cup {"unsupported"})
    BY DEF DefaultSuites, Suites, EcdheSuites
  <2> QED BY <2>1, ConfigFields DEF Listed
<1>2. "unsupported" \notin ToSet(c.suites) => \A x \in ToSet(list) : x \in Suites
  <2>1. \A x \in ToSet(DefaultSuites) : x \in Suites
    BY DEF DefaultSuites, Suites, EcdheSuites, ToSet
  <2>2. \A x \in ToSet(c.suites) : x \in Suites \cup {"unsupported"}
    BY ConfigFields DEF ToSet
  <2> QED BY <2>1, <2>2 DEF Listed
<1>3. LocalSuites(c) = Only(list, good)
  BY DEF LocalSuites
<1>4. /\ LocalSuites(c) \in Seq(Suites \cup {"unsupported"})
      /\ ToSet(LocalSuites(c)) = ToSet(list) \cap good
  BY <1>1, <1>3, OnlyIsFilter
<1> HIDE DEF list
<1> QED BY <1>2, <1>4

LEMMA SchemesTyped == ASSUME NEW c \in Configs PROVE LocalSchemes(c) \in Seq(SchemeSet)
<1>1. DefaultSchemes \in Seq(SchemeSet)
  BY DEF DefaultSchemes, SchemeSet, Scheme
<1>2. c.schemes \in Seq(SchemeSet)
  BY ConfigFields
<1> QED BY <1>1, <1>2, OnlyIsFilter DEF LocalSchemes

LEMMA OwnCertificateListed ==
    ASSUME NEW c \in Configs, c.certs # <<>>
    PROVE  OwnCertificate(c) \in Certificates /\ OwnCertificate(c) \in ToSet(c.certs)
<1>1. c.certs \in Seq(Certificates) /\ 1 \in DOMAIN c.certs
  BY ConfigFields
<1> QED BY <1>1 DEF OwnCertificate, ToSet

LEMMA AtLeastVerify ==
    ASSUME NEW auth \in Auths
    PROVE  AtLeast(auth, "verifyIfGiven") <=> auth \in {"verifyIfGiven", "requireAndVerify"}
<1>1. /\ DOMAIN ClientAuths = 1 .. 5 /\ ClientAuths[1] = "none" /\ ClientAuths[2] = "request"
      /\ ClientAuths[3] = "requireAny" /\ ClientAuths[4] = "verifyIfGiven"
      /\ ClientAuths[5] = "requireAndVerify"
  BY DEF ClientAuths
<1>2. AtLeast(auth, "verifyIfGiven") <=>
        \E i, j \in 1 .. 5 : ClientAuths[i] = auth /\ ClientAuths[j] = "verifyIfGiven" /\ i >= j
  BY <1>1 DEF AtLeast
<1>3. \A j \in 1 .. 5 : ClientAuths[j] = "verifyIfGiven" <=> j = 4
  BY <1>1
<1>4. AtLeast(auth, "verifyIfGiven") <=> ClientAuths[4] = auth \/ ClientAuths[5] = auth
  BY <1>2, <1>3
<1> QED BY <1>1, <1>4

LEMMA OwnSignatureValid ==
    \A x, cert, message :
        SignatureValid(x, Signature(cert, message), cert, message) <=> Usable(x, cert.key)
  BY DEF SignatureValid, Usable

\* A signer selects at most one scheme, one of its list that is of its key's kind,
\* and none only if there is none.
LEMMA SelectedIsOne ==
    ASSUME NEW a \in Configs
    PROVE  LET selected == SelectedScheme(a, OwnCertificate(a)) IN
           /\ \A x, y \in selected : x = y
           /\ selected \subseteq {x \in ToSet(LocalSchemes(a)) : x.signature = OwnCertificate(a).key}
           /\ \A x \in ToSet(LocalSchemes(a)) : x.signature = OwnCertificate(a).key => selected # {}
<1> DEFINE list == LocalSchemes(a)
           good == {x \in ToSet(list) : x.signature = OwnCertificate(a).key}
<1>1. list \in Seq(SchemeSet)
  BY SchemesTyped
<1>2. SelectedScheme(a, OwnCertificate(a)) = First(list, good)
  BY DEF SelectedScheme
<1>3. \A x \in ToSet(list) : x.signature = OwnCertificate(a).key => x \in good
  OBVIOUS
<1>4. good \subseteq ToSet(list)
  OBVIOUS
<1> HIDE DEF list, good
<1>5. \A x, y \in First(list, good) : x = y
  BY <1>1, FirstIsLeast
<1>6. First(list, good) \subseteq good
  BY DEF First
<1>7. good # {} => First(list, good) # {}
  BY <1>1, <1>4, FirstIsLeast
<1> QED BY <1>2, <1>3, <1>5, <1>6, <1>7 DEF list, good

\* A side is understood if the scheme that it selects can be used and is in the
\* other's list.
LEMMA SelectedUnderstood ==
    ASSUME NEW a \in Configs, NEW b
    PROVE  /\ Understood(a, b) => SelectedScheme(a, OwnCertificate(a)) # {}
           /\ \A x \in SelectedScheme(a, OwnCertificate(a)) :
                Understood(a, b)
                  <=> x \in ToSet(LocalSchemes(b)) /\ Usable(x, OwnCertificate(a).key)
  BY SelectedIsOne DEF Understood

\* Matching is having something in common.
LEMMA SuiteMatches ==
    ASSUME NEW a \in Configs, NEW b \in Configs
    PROVE  MatchingSuite(LocalSuites(a), LocalSuites(b)) # {}
             <=> ToSet(LocalSuites(a)) \cap ToSet(LocalSuites(b)) # {}
  BY SuitesOfKind, FirstIsLeast DEF MatchingSuite

LEMMA ProfileMatches ==
    ASSUME NEW a \in Configs, NEW b
    PROVE  MatchingProfile(a.srtp, b) # {} <=> ToSet(a.srtp) \cap ToSet(b) # {}
  BY ConfigFields, FirstIsLeast DEF MatchingProfile

LEMMA OneProfileMatches ==
    ASSUME NEW x, NEW b, x \in ToSet(b)
    PROVE  MatchingProfile(<<x>>, b) # {}
<1>1. <<x>> \in Seq({x}) /\ x \in ToSet(<<x>>)
  BY DEF ToSet
<1> QED BY <1>1, FirstIsLeast DEF MatchingProfile

LEMMA CurveMatches == First(LocalCurves, ImplementedCurves) # {}
<1>1. LocalCurves \in Seq(ImplementedCurves) /\ "P256" \in ToSet(LocalCurves)
  BY DEF LocalCurves, ImplementedCurves, ToSet
<1> QED BY <1>1, FirstIsLeast DEF ImplementedCurves

-----------------------------------------------------------------------------
(* The steps that end a handshake, or have not begun one                   *)

LEMMA InitOutcome == Init => OutcomeInd
<1> SUFFICES ASSUME Init PROVE OutcomeInd
  OBVIOUS
<1>1. /\ phase = [s \in Sides |-> "new"] /\ local = [s \in Sides |-> Fresh(s)]
      /\ sent = [s \in Sides |-> Silence]
  BY DEF Init
<1>2. phase["client"] = "new" /\ phase["server"] = "new"
  BY <1>1, SidesAre
<1>3. sent["client"].flight = 0 /\ sent["server"].flight = 0
  BY <1>1, SidesAre DEF Silence
<1>4. \A s \in Sides : /\ local[s].suite = None /\ local[s].srtp = None
                       /\ local[s].ems = FALSE /\ local[s].peer = {}
  BY <1>1 DEF Fresh
<1>5. local["server"].cookie = "cookie"
  BY <1>1, SidesAre DEF Fresh
<1>6. configs \in [Sides -> Configs]
  <2>1. PICK p \in Pairings : configs = [s \in Sides |-> p[IF s = "client" THEN 1 ELSE 2]]
    BY DEF Init
  <2>2. p[1] \in Configs /\ p[2] \in Configs
    BY PairingsAssumption
  <2> QED BY <2>1, <2>2
<1>7. Types
  BY <1>4, <1>6 DEF Types
<1>8. Stage
  BY <1>2, <1>3, SidesAre DEF Stage
<1> QED
  BY <1>2, <1>3, <1>5, <1>7, <1>8, SidesAre DEF OutcomeInd, Hellos, ServerHeard, ServerSpeaks,
     Transcripts, ClientHeard, ServerEnded, Unrefused, Server

\* A side that refuses does so because the configurations call for it.
LEMMA RefuseOutcome ==
    ASSUME NegotiationInd, OutcomeInd, NEW s \in Sides, Refuse(s),
           phase[s] \notin {"new", "invalid", "done"}, ~Agreeable(Cc, Cs)
    PROVE  OutcomeInd'
<1>1. /\ phase' = [phase EXCEPT ![s] = "failed"] /\ sent' = [sent EXCEPT ![s] = AlertFlight]
      /\ configs' = configs /\ local' = local /\ cache' = cache
  BY DEF Refuse, Become, Sends
<1>2. /\ phase'[s] = "failed" /\ sent'[s].flight = 99
      /\ \A x \in Sides \ {s} : phase'[x] = phase[x] /\ sent'[x] = sent[x]
  BY <1>1 DEF NegotiationInd, Shape, AlertFlight
<1>3. Types' /\ Unrefused'
  BY <1>1 DEF OutcomeInd, Types, Unrefused, Cc, Cs
<1>4. \A x \in Sides : Valid(x)' = Valid(x)
  BY <1>1 DEF Valid
<1>5. phase["server"] # "done"
  BY DEF OutcomeInd, ServerEnded
<1>6. CASE s = "server"
  <2>1. /\ phase'["server"] = "failed" /\ sent'["server"].flight = 99
        /\ phase'["client"] = phase["client"] /\ sent'["client"] = sent["client"]
    BY <1>2, <1>6, SidesAre
  <2>2. Valid("server")
    BY <1>6, SidesAre DEF OutcomeInd, Stage
  <2>3. Stage'
    BY <1>4, <2>1, <2>2, SidesAre DEF OutcomeInd, Stage
  <2>4. Hellos' /\ ServerHeard' /\ ServerSpeaks' /\ Transcripts' /\ ServerEnded'
    BY <1>1, <2>1 DEF OutcomeInd, Hellos, ServerHeard, ServerSpeaks, Transcripts, ServerEnded,
       Server, Cc, Cs
  <2>5. ClientHeard'
    BY <1>1, <2>1 DEF OutcomeInd, ClientHeard, Client, Server, Cc, Cs, HintGiven
  <2> QED BY <1>3, <2>3, <2>4, <2>5 DEF OutcomeInd
<1>7. CASE s = "client"
  <2>1. /\ phase'["client"] = "failed" /\ sent'["client"].flight = 99
        /\ phase'["server"] = phase["server"] /\ sent'["server"] = sent["server"]
    BY <1>2, <1>7, SidesAre
  <2>2. Valid("client")
    BY <1>7, SidesAre DEF OutcomeInd, Stage
  <2>3. Stage'
    BY <1>4, <2>1, <2>2, SidesAre DEF OutcomeInd, Stage
  <2>4. Hellos' /\ ServerHeard' /\ ServerSpeaks' /\ Transcripts' /\ ServerEnded' /\ ClientHeard'
    BY <1>1, <1>5, <2>1 DEF OutcomeInd, Hellos, ServerHeard, ServerSpeaks, Transcripts, ServerEnded,
       ClientHeard, Server, Cc, Cs
  <2> QED BY <1>3, <2>3, <2>4 DEF OutcomeInd
<1> QED BY <1>6, <1>7, SidesAre

LEMMA AlertOutcome ==
    ASSUME NegotiationInd, OutcomeInd, NEW s \in Sides, AlertArrives(s)
    PROVE  OutcomeInd'
<1>1. /\ phase' = [phase EXCEPT ![s] = "failed"] /\ phase[s] \notin {"new", "invalid", "done", "failed"}
      /\ configs' = configs /\ local' = local /\ cache' = cache /\ sent' = sent
      /\ sent[Peer(s)] = AlertFlight
  BY DEF AlertArrives, Become
<1>2. phase'[s] = "failed" /\ \A x \in Sides \ {s} : phase'[x] = phase[x]
  BY <1>1 DEF NegotiationInd, Shape
<1>3. Peer(s) \in Sides /\ sent[Peer(s)].flight = 99
  BY <1>1, SidesAre DEF AlertFlight
<1>4. phase[Peer(s)] = "failed" /\ ~Agreeable(Cc, Cs)
  BY <1>3 DEF OutcomeInd, Stage, Unrefused
<1>5. Types' /\ Unrefused'
  BY <1>1, <1>4 DEF OutcomeInd, Types, Unrefused, Cc, Cs
<1>6. \A x \in Sides : Valid(x)' = Valid(x)
  BY <1>1 DEF Valid
<1>7. Valid(s)
  BY <1>1 DEF OutcomeInd, Stage
<1>8. phase'["server"] # "done" /\ (phase'["server"] = "flight4" => phase["server"] = "flight4")
  BY <1>2, <1>4, SidesAre DEF OutcomeInd, ServerEnded
<1>9. Stage'
  BY <1>1, <1>2, <1>6, <1>7, SidesAre DEF OutcomeInd, Stage
<1>10. Hellos' /\ ServerHeard' /\ ServerSpeaks' /\ Transcripts' /\ ServerEnded'
  BY <1>1, <1>8 DEF OutcomeInd, Hellos, ServerHeard, ServerSpeaks, Transcripts, ServerEnded,
     Server, Cc, Cs
<1>11. ClientHeard'
  BY <1>1 DEF OutcomeInd, ClientHeard, Client, Server, Cc, Cs, HintGiven
<1> QED BY <1>5, <1>9, <1>10, <1>11 DEF OutcomeInd

LEMMA NewOutcome ==
    ASSUME NegotiationInd, OutcomeInd, NEW s \in Sides, New(s)
    PROVE  OutcomeInd'
<1>1. /\ phase[s] = "new" /\ configs' = configs /\ local' = local /\ cache' = cache
      /\ \/ /\ Valid(s) /\ s = "client" /\ phase' = [phase EXCEPT ![s] = "flight1"]
            /\ sent' = [sent EXCEPT ![s] = ClientHello(Cc, None)]
         \/ /\ Valid(s) /\ s = "server" /\ phase' = [phase EXCEPT ![s] = "flight0"] /\ sent' = sent
         \/ ~Valid(s) /\ phase' = [phase EXCEPT ![s] = "invalid"] /\ sent' = sent
  BY SidesAre DEF New, Become, Sends, Valid, Cc
<1>2. \A x \in Sides \ {s} : phase'[x] = phase[x] /\ sent'[x] = sent[x]
  BY <1>1 DEF NegotiationInd, Shape
<1>3. sent[s].flight = 0
  BY <1>1 DEF OutcomeInd, Stage
<1>4. \A x \in Sides : Valid(x)' = Valid(x)
  BY <1>1 DEF Valid
<1>5. Types'
  BY <1>1 DEF OutcomeInd, Types
<1>6. ClientHello(Cc, None).flight = 1
  BY DEF ClientHello
<1>7. CASE s = "client"
  <2>1. phase["server"] \notin {"flight4", "done"}
    BY <1>1, <1>3, <1>7 DEF OutcomeInd, Stage, ServerEnded
  <2>2. phase'["server"] = phase["server"] /\ sent'["server"] = sent["server"]
    BY <1>2, <1>7, SidesAre
  <2>3. \/ Valid("client") /\ phase'["client"] = "flight1" /\ sent'["client"] = ClientHello(Cc, None)
        \/ ~Valid("client") /\ phase'["client"] = "invalid" /\ sent'["client"] = sent["client"]
    BY <1>1, <1>7, SidesAre DEF NegotiationInd, Shape
  <2>4. Stage'
    BY <1>1, <1>3, <1>4, <1>6, <1>7, <2>1, <2>2, <2>3, SidesAre DEF OutcomeInd, Stage
  <2>5. Hellos' /\ ServerHeard' /\ ServerSpeaks' /\ Transcripts' /\ ServerEnded' /\ ClientHeard'
    <3>1. sent'["client"].flight \in {0, 1} /\ (sent'["client"].flight = 1 => sent'["client"] = ClientHello(Cc, None))
      BY <1>3, <1>6, <1>7, <2>3
    <3> QED
      BY <1>1, <2>1, <2>2, <3>1 DEF OutcomeInd, Hellos, ServerHeard, ServerSpeaks, Transcripts,
         ServerEnded, ClientHeard, Server, Cc, Cs
  <2>6. Unrefused'
    <3>1. Agreeable(Cc, Cs) => Valid("client")
      BY DEF Agreeable, Matching, Valid, Cc
    <3> QED BY <1>1, <2>2, <2>3, <3>1, SidesAre DEF OutcomeInd, Unrefused, Cc, Cs
  <2> QED BY <1>5, <2>4, <2>5, <2>6 DEF OutcomeInd
<1>8. CASE s = "server"
  <2>1. sent' = sent /\ phase'["client"] = phase["client"]
    BY <1>1, <1>2, <1>8, SidesAre
  <2>2. \/ Valid("server") /\ phase'["server"] = "flight0"
        \/ ~Valid("server") /\ phase'["server"] = "invalid"
    BY <1>1, <1>8, SidesAre DEF NegotiationInd, Shape
  <2>3. Stage'
    BY <1>1, <1>3, <1>4, <1>8, <2>1, <2>2, SidesAre DEF OutcomeInd, Stage
  <2>4. Hellos' /\ ServerHeard' /\ ServerSpeaks' /\ Transcripts' /\ ServerEnded'
    BY <1>1, <2>1, <2>2 DEF OutcomeInd, Hellos, ServerHeard, ServerSpeaks, Transcripts, ServerEnded,
       Server, Cc, Cs
  <2>5. ClientHeard'
    BY <1>1, <2>1 DEF OutcomeInd, ClientHeard, Client, Server, Cc, Cs, HintGiven
  <2>6. Unrefused'
    <3>1. Agreeable(Cc, Cs) => Valid("server")
      BY DEF Agreeable, Matching, Valid, Cs
    <3> QED BY <1>1, <2>1, <2>2, <3>1, SidesAre DEF OutcomeInd, Unrefused, Cc, Cs
  <2> QED BY <1>5, <2>3, <2>4, <2>5, <2>6 DEF OutcomeInd
<1> QED BY <1>7, <1>8, SidesAre

LEMMA StutterOutcome ==
    ASSUME OutcomeInd, UNCHANGED vars
    PROVE  OutcomeInd'
<1> USE DEF vars, OutcomeInd, Client, Server, Cc, Cs, HintGiven
<1>1. Types' /\ Hellos' /\ ServerHeard' /\ ServerSpeaks'
  BY DEF Types, Hellos, ServerHeard, ServerSpeaks
<1>2. Stage'
  BY DEF Stage, Valid
<1>3. Transcripts' /\ ServerEnded' /\ Unrefused'
  BY DEF Transcripts, ServerEnded, Unrefused
<1>4. ClientHeard'
  BY DEF ClientHeard
<1> QED BY <1>1, <1>2, <1>3, <1>4

-----------------------------------------------------------------------------
(* The flights                                                             *)

\* The first hello is answered if what it offers fits the server.
LEMMA HelloAccepted ==
    ASSUME Types, Valid("server"), NEW h, h = ClientHello(Cc, None)
    PROVE  /\ Agreeable(Cc, Cs) => Flight0Accepts(h, Cs)
           /\ Flight0Accepts(h, Cs) /\ Cs.ems = "require" => Cc.ems # "disable"
           /\ Flight0Accepts(h, Cs) /\ Cc.srtp # <<>> => MatchingProfile(h.srtp, Cs.srtp) # {}
           /\ h.ems = (Cc.ems # "disable")
           /\ h.suites = LocalSuites(Cc) /\ h.srtp = Cc.srtp
<1>1. Cc \in Configs /\ Cs \in Configs
  BY SidesAre DEF Types, Cc, Cs
<1>2. /\ h.suites = LocalSuites(Cc) /\ h.srtp = Cc.srtp
      /\ h.ems = (Cc.ems \in {"request", "require"})
      /\ h.curves = IF UsesPsk(Cc) THEN <<>> ELSE LocalCurves
  BY DEF ClientHello
<1>3. Cc.ems \in {"request", "require", "disable"} /\ Cs.ems \in {"request", "require", "disable"}
  BY <1>1, ConfigFields
<1>4. h.ems = (Cc.ems # "disable")
  BY <1>2, <1>3
<1>5. MatchingSuite(h.suites, LocalSuites(Cs)) # {}
        <=> ToSet(LocalSuites(Cc)) \cap ToSet(LocalSuites(Cs)) # {}
  BY <1>1, <1>2, SuiteMatches
<1>6. MatchingProfile(h.srtp, Cs.srtp) # {} <=> ToSet(Cc.srtp) \cap ToSet(Cs.srtp) # {}
  BY <1>1, <1>2, ProfileMatches
<1>7. h.curves # <<>> => NamedCurve(h) # {}
  BY <1>2, CurveMatches DEF NamedCurve
<1>8. ASSUME Agreeable(Cc, Cs) PROVE Flight0Accepts(h, Cs)
  <2>1. /\ ToSet(LocalSuites(Cc)) \cap ToSet(LocalSuites(Cs)) # {}
        /\ {Cc.ems, Cs.ems} # {"require", "disable"}
        /\ Cc.srtp # <<>> => ToSet(Cc.srtp) \cap ToSet(Cs.srtp) # {}
    BY <1>8 DEF Agreeable, Matching
  <2>2. Cs.ems = "require" => h.ems
    BY <1>4, <2>1
  <2> QED BY <1>2, <1>5, <1>6, <1>7, <2>1, <2>2 DEF Flight0Accepts
<1> QED BY <1>2, <1>4, <1>8 DEF Flight0Accepts

\* What the accepted hello leads to.
LEMMA ParseFlight0Outcome ==
    ASSUME NegotiationInd, OutcomeInd, ParseFlight0
    PROVE  OutcomeInd'
<1> DEFINE h == sent["client"]
<1>1. phase["server"] = "flight0" /\ h.flight = 1
  BY DEF ParseFlight0
<1>2. h = ClientHello(Cc, None) /\ Types /\ Valid("server") /\ Valid("client")
  BY <1>1, SidesAre DEF OutcomeInd, Hellos, Stage
<1>3. /\ Agreeable(Cc, Cs) => Flight0Accepts(h, Cs)
      /\ Flight0Accepts(h, Cs) /\ Cs.ems = "require" => Cc.ems # "disable"
      /\ Flight0Accepts(h, Cs) /\ Cc.srtp # <<>> => MatchingProfile(h.srtp, Cs.srtp) # {}
      /\ h.ems = (Cc.ems # "disable")
      /\ h.suites = LocalSuites(Cc) /\ h.srtp = Cc.srtp
  BY <1>2, HelloAccepted
<1>4. CASE ~Flight0Accepts(h, Cs)
  <2>1. Refuse("server")
    BY <1>4 DEF ParseFlight0, Cs
  <2> QED BY <1>1, <1>3, <1>4, <2>1, RefuseOutcome, SidesAre
<1>5. CASE Flight0Accepts(h, Cs)
  <2>1. PICK suite \in MatchingSuite(h.suites, LocalSuites(Cs)),
             curve \in Optional(NamedCurve(h), DefaultCurve),
             srtp \in Optional(MatchingProfile(h.srtp, Cs.srtp), None) :
           /\ local' = [local EXCEPT !["server"] = Negotiated(h, Cs, Server, suite, curve, srtp)]
           /\ sent' = [sent EXCEPT !["server"] = [flight |-> 2, cookie |-> Server.cookie]]
           /\ phase' = [phase EXCEPT !["server"] = "flight2"]
           /\ UNCHANGED <<configs, cache>>
    BY <1>5 DEF ParseFlight0, Learns, Sends, Become, Cs, Server
  <2>2. suite \in ToSet(LocalSuites(Cs)) /\ suite \in ToSet(LocalSuites(Cc))
    BY <1>3, <2>1, FirstIsGood DEF MatchingSuite
  <2>3. IF Cc.srtp = <<>> THEN srtp = None ELSE srtp \in ToSet(Cc.srtp) \cap ToSet(Cs.srtp)
    <3>1. CASE Cc.srtp = <<>>
      <4>1. MatchingProfile(h.srtp, Cs.srtp) = {}
        BY <1>3, <3>1 DEF MatchingProfile, First
      <4> QED BY <2>1, <3>1, <4>1 DEF Optional
    <3>2. CASE Cc.srtp # <<>>
      <4>1. srtp \in MatchingProfile(h.srtp, Cs.srtp)
        BY <1>3, <1>5, <2>1, <3>2 DEF Optional
      <4> QED BY <1>3, <3>2, <4>1, FirstIsGood DEF MatchingProfile
    <3> QED BY <3>1, <3>2
  <2> DEFINE l == Negotiated(h, Cs, Server, suite, curve, srtp)
  <2>4. /\ local'["server"] = l /\ local'["client"] = local["client"]
        /\ sent'["server"] = [flight |-> 2, cookie |-> Server.cookie]
        /\ sent'["client"] = sent["client"]
        /\ phase'["server"] = "flight2" /\ phase'["client"] = phase["client"]
        /\ configs' = configs /\ cache' = cache
    BY <2>1, SidesAre DEF NegotiationInd, Shape
  <2>5. /\ l.suite = suite /\ l.srtp = srtp /\ l.ems = (h.ems /\ Cs.ems # "disable")
        /\ l.peer = Server.peer /\ l.cookie = Server.cookie
    BY SidesAre DEF Negotiated, NegotiationInd, Shape, Fields, Server
  <2> HIDE DEF l
  <2>6. l.ems = (Cc.ems # "disable" /\ Cs.ems # "disable")
    BY <1>3, <2>5
  <2>7. sent'["server"].flight = 2 /\ sent'["server"].cookie = Server.cookie
    BY <2>4
  <2>8. Types'
    <3>1. suite \in Suites
      <4>1. Cs \in Configs /\ "unsupported" \notin ToSet(Cs.suites)
        BY <1>2, SidesAre DEF Types, Valid, ConfigValid, Cs
      <4> QED BY <2>2, <4>1, SuitesOfKind
    <3>2. srtp \in {"srtp1", "srtp2", None}
      <4>1. Cs.srtp \in Seq({"srtp1", "srtp2"})
        BY <1>2, ConfigFields, SidesAre DEF Types, Cs
      <4> QED BY <2>3, <4>1 DEF ToSet
    <3>3. l.ems \in BOOLEAN
      BY <2>6
    <3> QED BY <1>2, <2>4, <2>5, <3>1, <3>2, <3>3, SidesAre DEF Types, Server
  <2>9. Stage'
    <3>1. \A x \in Sides : Valid(x)' = Valid(x)
      BY <2>4 DEF Valid
    <3> QED BY <1>1, <1>2, <2>4, <2>7, <3>1, SidesAre DEF OutcomeInd, Stage
  <2>10. ServerHeard'
    BY <1>3, <1>5, <2>2, <2>3, <2>4, <2>5, <2>6 DEF ServerHeard, Server, Cc, Cs
  <2>11. Hellos' /\ ServerSpeaks' /\ Transcripts' /\ ServerEnded' /\ ClientHeard'
    BY <1>1, <2>4, <2>5, <2>7 DEF OutcomeInd, Hellos, ServerSpeaks, Transcripts, ServerEnded,
       ClientHeard, Server, Cc, Cs
  <2>12. Unrefused'
    BY <2>4, SidesAre DEF OutcomeInd, Unrefused, Cc, Cs
  <2> QED BY <2>8, <2>9, <2>10, <2>11, <2>12 DEF OutcomeInd
<1> QED BY <1>4, <1>5

LEMMA ParseFlight1Outcome ==
    ASSUME NegotiationInd, OutcomeInd, ParseFlight1
    PROVE  OutcomeInd'
<1> DEFINE hello == ClientHello(Cc, "cookie")
<1>1. phase["client"] = "flight1" /\ sent["server"].flight = 2
  BY DEF ParseFlight1
<1>2. sent["server"].cookie = "cookie" /\ sent["client"].flight = 1 /\ Valid("client")
  BY <1>1, SidesAre DEF OutcomeInd, Hellos, Stage
<1>3. /\ local' = [local EXCEPT !["client"] = [Client EXCEPT !.cookie = "cookie"]]
      /\ sent' = [sent EXCEPT !["client"] = hello]
      /\ cache' = [cache EXCEPT !["client"] = <<hello>>]
      /\ phase' = [phase EXCEPT !["client"] = "flight3"]
      /\ configs' = configs
  BY <1>2 DEF ParseFlight1, Learns, Sends, Keeps, Become, Client, Cc
<1>4. /\ local'["server"] = local["server"] /\ sent'["server"] = sent["server"]
      /\ phase'["server"] = phase["server"] /\ phase'["client"] = "flight3"
      /\ sent'["client"] = hello /\ cache'["client"] = <<hello>>
      /\ local'["client"] = [Client EXCEPT !.cookie = "cookie"]
  BY <1>3, SidesAre DEF NegotiationInd, Shape
<1>5. /\ local'["client"].suite = Client.suite /\ local'["client"].srtp = Client.srtp
      /\ local'["client"].ems = Client.ems /\ local'["client"].peer = Client.peer
  BY <1>4, SidesAre DEF NegotiationInd, Shape, Fields, Client
<1>6. hello.flight = 3
  BY DEF ClientHello, None
<1> HIDE DEF hello
<1>7. phase["server"] \notin {"flight4", "done"}
  BY <1>1, <1>2 DEF OutcomeInd, Stage, ServerEnded
<1>8. Types'
  BY <1>3, <1>4, <1>5, SidesAre DEF OutcomeInd, Types, Client
<1>9. Stage'
  <2>1. \A x \in Sides : Valid(x)' = Valid(x)
    BY <1>3 DEF Valid
  <2> QED BY <1>2, <1>4, <1>6, <1>7, <2>1, SidesAre DEF OutcomeInd, Stage
<1>10. Hellos' /\ ServerHeard' /\ ServerSpeaks' /\ Transcripts' /\ ServerEnded' /\ ClientHeard'
  BY <1>3, <1>4, <1>6, <1>7 DEF OutcomeInd, Hellos, ServerHeard, ServerSpeaks, Transcripts,
     ServerEnded, ClientHeard, Server, Cc, Cs, hello
<1>11. Unrefused'
  BY <1>3, <1>4, SidesAre DEF OutcomeInd, Unrefused, Cc, Cs
<1> QED BY <1>8, <1>9, <1>10, <1>11 DEF OutcomeInd

LEMMA ParseFlight2Outcome ==
    ASSUME NegotiationInd, OutcomeInd, ParseFlight2
    PROVE  OutcomeInd'
<1> DEFINE h == sent["client"]
<1>1. phase["server"] = "flight2" /\ h.flight = 3 /\ sent["server"].flight = 2
  BY DEF ParseFlight2, NegotiationInd, Progress
<1>2. h = ClientHello(Cc, "cookie") /\ Server.cookie = "cookie" /\ Valid("server") /\ Cs \in Configs
      /\ Cc \in Configs
  BY <1>1, SidesAre DEF OutcomeInd, Hellos, Stage, Types, Cs, Cc
<1>3. h.cookie = Server.cookie
  BY <1>2 DEF ClientHello
<1>4. CASE ServerSchemes(Cs) = {}
  <2>1. Refuse("server")
    BY <1>4 DEF ParseFlight2, Cs
  <2>2. ~UsesPsk(Cs)
    BY <1>4 DEF ServerSchemes
  <2>3. Cs.certs # <<>> /\ OwnCertificate(Cs).key \in {"ed25519", "ecdsa"}
    <3>1. Cs.certs # <<>> /\ \A x \in ToSet(Cs.certs) : x.key \in {"ed25519", "ecdsa"}
      BY <1>2, <2>2 DEF Valid, ConfigValid, Cs
    <3> QED BY <1>2, <3>1, OwnCertificateListed
  <2>4. ~Understood(Cs, Cc)
    BY <1>2, <1>4, <2>2, <2>3, SelectedUnderstood DEF ServerSchemes
  <2>5. ~Agreeable(Cc, Cs)
    <3>1. Agreeable(Cc, Cs) => (~UsesPsk(Cs) => Understood(Cs, Cc))
      BY AgreeableMeans
    <3> QED BY <2>2, <2>4, <3>1
  <2> QED BY <1>1, <2>1, <2>5, RefuseOutcome, SidesAre
<1>5. CASE ServerSchemes(Cs) # {}
  <2>1. PICK scheme \in ServerSchemes(Cs) : LET flight == ServerFlight(Cs, Server, scheme) IN
           /\ sent' = [sent EXCEPT !["server"] = flight]
           /\ cache' = [cache EXCEPT !["server"] = <<h, flight>>]
           /\ phase' = [phase EXCEPT !["server"] = "flight4"]
           /\ UNCHANGED <<configs, local>>
    BY <1>3, <1>5 DEF ParseFlight2, Sends, Keeps, Become, Cs, Server
  <2> DEFINE flight == ServerFlight(Cs, Server, scheme)
  <2>2. /\ sent'["server"] = flight /\ sent'["client"] = sent["client"]
        /\ cache'["server"] = <<h, flight>> /\ cache'["client"] = cache["client"]
        /\ phase'["server"] = "flight4" /\ phase'["client"] = phase["client"]
        /\ configs' = configs /\ local' = local
    BY <2>1, SidesAre DEF NegotiationInd, Shape
  <2>3. flight.flight = 4
    BY DEF ServerFlight
  <2>4. ServerSpeaks'
    BY <2>2 DEF ServerSpeaks, Cs, Server
  <2> HIDE DEF flight
  <2>5. Types'
    BY <2>2 DEF OutcomeInd, Types
  <2>6. Stage'
    <3>1. \A x \in Sides : Valid(x)' = Valid(x)
      BY <2>2 DEF Valid
    <3> QED BY <1>1, <1>2, <2>2, <2>3, <3>1, SidesAre DEF OutcomeInd, Stage
  <2>7. Hellos' /\ ServerHeard' /\ Transcripts' /\ ServerEnded' /\ ClientHeard'
    BY <1>1, <2>2, <2>3 DEF OutcomeInd, Hellos, ServerHeard, Transcripts, ServerEnded, ClientHeard,
       Server, Cc, Cs
  <2>8. Unrefused'
    BY <2>2, SidesAre DEF OutcomeInd, Unrefused, Cc, Cs
  <2> QED BY <2>4, <2>5, <2>6, <2>7, <2>8 DEF OutcomeInd
<1> QED BY <1>4, <1>5

\* A suite in common is of one kind.
LEMMA SameKind ==
    ASSUME NegotiationInd, OutcomeInd, sent["server"].flight \in {2, 4, 6}
    PROVE  UsesPsk(Cc) = UsesPsk(Cs)
<1>1. Cc \in Configs /\ Cs \in Configs
  BY SidesAre DEF OutcomeInd, Types, Cc, Cs
<1>2. Server.suite \in ToSet(LocalSuites(Cc)) /\ Server.suite \in ToSet(LocalSuites(Cs))
  BY DEF OutcomeInd, ServerHeard
<1> QED BY <1>1, <1>2, SuitesOfKind

\* What the client makes of a flight 4.
LEMMA FlightFour ==
    ASSUME NegotiationInd, OutcomeInd, phase["client"] = "flight3", sent["server"].flight = 4,
           NEW l, l = Agreed(sent["server"], Cc, Client)
    PROVE  LET f == sent["server"] IN
           /\ Cc \in Configs /\ Cs \in Configs /\ Valid("client") /\ Valid("server")
           /\ UsesPsk(Cc) = UsesPsk(Cs)
           /\ DOMAIN l = Fields
           /\ l.requested = (~UsesPsk(Cs) /\ Cs.auth # "none")
           /\ l.ems = Server.ems /\ l.suite = Server.suite /\ l.srtp = Server.srtp
           /\ l.peer = IF UsesPsk(Cs) THEN {} ELSE {OwnCertificate(Cs)}
           /\ l.secret = IF UsesPsk(Cc) THEN PskSecret(Cc.psk[HintGiven])
                         ELSE SharedSecret(l.keypair, Server.keypair)
           /\ Flight3Accepts(f, Cc) <=>
                /\ Cc.ems = "require" => Cs.ems # "disable"
                /\ UsesPsk(Cc) => Cc.psk[HintGiven] # "refused"
           /\ ServerTrusted(f, Cc, l) <=> (~UsesPsk(Cc) => Welcomed(Cs, Cc, ~Cc.skipVerify))
<1> DEFINE f == sent["server"]
<1>1. Cc \in Configs /\ Cs \in Configs
  BY SidesAre DEF OutcomeInd, Types, Cc, Cs
<1>2. phase["server"] \in {"flight4", "done", "failed"}
  BY DEF NegotiationInd, Progress
<1>3. Valid("client") /\ Valid("server")
  BY <1>2, SidesAre DEF OutcomeInd, Stage
<1>4. UsesPsk(Cc) = UsesPsk(Cs)
  BY SameKind
<1>5. PICK scheme \in ServerSchemes(Cs) : f = ServerFlight(Cs, Server, scheme)
  BY DEF OutcomeInd, ServerSpeaks
<1>6. /\ f.suite = Server.suite /\ f.ems = (Cs.ems \in {"request", "require"} /\ Server.ems)
      /\ f.srtp = IF Server.srtp = None THEN <<>> ELSE <<Server.srtp>>
      /\ f.cert = IF UsesPsk(Cs) THEN {} ELSE {OwnCertificate(Cs)}
      /\ f.key = KeyExchange(Cs, Server, scheme)
      /\ f.request = (~UsesPsk(Cs) /\ Cs.auth # "none")
  BY <1>5 DEF ServerFlight
<1>7. /\ Server.suite \in ToSet(LocalSuites(Cc))
      /\ Server.ems = (Cc.ems # "disable" /\ Cs.ems # "disable")
      /\ IF Cc.srtp = <<>> THEN Server.srtp = None
         ELSE Server.srtp \in ToSet(Cc.srtp)
  BY DEF OutcomeInd, ServerHeard
<1>8. /\ Cc.ems \in {"request", "require", "disable"} /\ Cs.ems \in {"request", "require", "disable"}
      /\ Cc.srtp \in Seq({"srtp1", "srtp2"})
  BY <1>1, ConfigFields
<1>9. f.ems = Server.ems
  BY <1>6, <1>7, <1>8
<1> DEFINE mine == KeyPair("client", f.key.keypair.curve)
           own == IF UsesPsk(Cc) THEN None ELSE mine
           name == IF UsesPsk(Cc) THEN HintOf(f) ELSE None
           secret == IF UsesPsk(Cc) THEN PskSecret(Cc.psk[HintOf(f)])
                     ELSE SharedSecret(mine, f.key.keypair)
           profile == IF f.srtp = <<>> THEN None ELSE f.srtp[1]
           ems == f.ems /\ Cc.ems # "disable"
<1>10. /\ DOMAIN l = Fields /\ l.suite = f.suite /\ l.peer = f.cert /\ l.requested = f.request
       /\ l.srtp = profile /\ l.ems = ems /\ l.keypair = own /\ l.secret = secret
  <2>1. l = [Client EXCEPT !.suite = f.suite, !.srtp = profile, !.ems = ems, !.peer = f.cert,
                           !.requested = f.request, !.keypair = own, !.identity = name,
                           !.secret = secret]
    BY DEF Agreed
  <2>2. DOMAIN Client = Fields
    BY SidesAre DEF NegotiationInd, Shape, Client
  <2> HIDE DEF f, own, name, secret, profile, ems
  <2> QED BY <2>1, <2>2 DEF Fields
<1>11. l.ems = Server.ems
  BY <1>7, <1>9, <1>10
<1>12. l.srtp = Server.srtp
  BY <1>6, <1>10
<1>13. UsesPsk(Cs) => HintOf(f) = HintGiven
  BY <1>6 DEF HintOf, HintGiven, KeyExchange
<1>14. ~UsesPsk(Cs) => /\ f.key.keypair = Server.keypair /\ f.key.scheme = scheme
                       /\ f.key.signature = Signature(OwnCertificate(Cs), KeyMessage(Server.keypair))
  BY <1>6 DEF KeyExchange
<1>15. l.secret = IF UsesPsk(Cc) THEN PskSecret(Cc.psk[HintGiven])
                  ELSE SharedSecret(l.keypair, Server.keypair)
  BY <1>4, <1>10, <1>13, <1>14
<1>16. Flight3Accepts(f, Cc) <=>
         /\ Cc.ems = "require" => Cs.ems # "disable"
         /\ UsesPsk(Cc) => Cc.psk[HintGiven] # "refused"
  <2>1. f.srtp # <<>> => MatchingProfile(f.srtp, Cc.srtp) # {}
    <3> SUFFICES ASSUME f.srtp # <<>> PROVE MatchingProfile(f.srtp, Cc.srtp) # {}
      OBVIOUS
    <3>1. Server.srtp \in ToSet(Cc.srtp) /\ f.srtp = <<Server.srtp>>
      BY <1>6, <1>7
    <3> QED BY <3>1, OneProfileMatches
  <2>2. Cc.srtp # <<>> => f.srtp # <<>>
    <3>1. \A x \in ToSet(Cc.srtp) : x # None
      BY <1>8 DEF ToSet, None
    <3> QED BY <1>6, <1>7, <3>1
  <2>3. (Cc.ems = "require" => f.ems) <=> (Cc.ems = "require" => Cs.ems # "disable")
    BY <1>7, <1>9
  <2>4. f.suite \in ToSet(LocalSuites(Cc))
    BY <1>6, <1>7
  <2>5. (UsesPsk(Cc) => Cc.psk[HintOf(f)] # "refused") <=> (UsesPsk(Cc) => Cc.psk[HintGiven] # "refused")
    BY <1>4, <1>13
  <2> HIDE DEF f
  <2> QED BY <2>1, <2>2, <2>3, <2>4, <2>5 DEF Flight3Accepts
<1>17. ServerTrusted(f, Cc, l) <=> (~UsesPsk(Cc) => Welcomed(Cs, Cc, ~Cc.skipVerify))
  <2> SUFFICES ASSUME ~UsesPsk(Cc)
               PROVE  ServerTrusted(f, Cc, l) <=> Welcomed(Cs, Cc, ~Cc.skipVerify)
    BY DEF ServerTrusted
  <2> DEFINE cert == OwnCertificate(Cs)
  <2>1. Cs.certs # <<>> /\ cert.key \in {"ed25519", "ecdsa"}
    <3>1. Cs.certs # <<>> /\ \A x \in ToSet(Cs.certs) : x.key \in {"ed25519", "ecdsa"}
      BY <1>3, <1>4 DEF Valid, ConfigValid, Cs
    <3> QED BY <1>1, <3>1, OwnCertificateListed
  <2>2. scheme \in SelectedScheme(Cs, cert)
    BY <1>4, <1>5 DEF ServerSchemes
  <2>3. Understood(Cs, Cc) <=> scheme \in ToSet(LocalSchemes(Cc)) /\ Usable(scheme, cert.key)
    BY <1>1, <2>1, <2>2, SelectedUnderstood
  <2>4. l.peer = {cert}
    BY <1>4, <1>6, <1>10
  <2>5. SignatureValid(f.key.scheme, f.key.signature, cert, KeyMessage(f.key.keypair))
          <=> Usable(scheme, cert.key)
    BY <1>4, <1>14, OwnSignatureValid
  <2>6. f.key.scheme = scheme
    BY <1>4, <1>14
  <2> HIDE DEF cert, f
  <2>7. ServerTrusted(f, Cc, l) <=>
          /\ scheme \in ToSet(LocalSchemes(Cc)) /\ Usable(scheme, cert.key)
          /\ Cc.skipVerify \/ ChainValid(cert, Cc.roots)
          /\ cert \notin Cc.refuses
    BY <2>4, <2>5, <2>6 DEF ServerTrusted
  <2> QED BY <2>3, <2>7 DEF Welcomed, Welcome, ChainValid, cert
<1> QED BY <1>1, <1>3, <1>4, <1>6, <1>10, <1>11, <1>12, <1>15, <1>16, <1>17

LEMMA AppendToOne == ASSUME NEW a, NEW b PROVE Append(<<a>>, b) = <<a, b>>
<1>1. /\ <<a>> \in Seq({a, b}) /\ <<a, b>> \in Seq({a, b}) /\ b \in {a, b}
      /\ Len(<<a>>) = 1 /\ Len(<<a, b>>) = 2
  OBVIOUS
<1>2. /\ Append(<<a>>, b) \in Seq({a, b}) /\ Len(Append(<<a>>, b)) = 2
      /\ Append(<<a>>, b)[1] = a /\ Append(<<a>>, b)[2] = b
  BY <1>1, AppendProperties
<1>3. \A i \in 1 .. 2 : Append(<<a>>, b)[i] = <<a, b>>[i]
  BY <1>2
<1> QED BY <1>1, <1>2, <1>3, SeqEqual

\* A flight that the client refuses is one of incompatible configurations; what
\* it answers to one that it accepts continues the server's transcript.
LEMMA ParseFlight3Outcome ==
    ASSUME NegotiationInd, OutcomeInd, ParseFlight3
    PROVE  OutcomeInd'
<1> DEFINE f == sent["server"]
           l == Agreed(f, Cc, Client)
           t == Append(cache["client"], f) \o << ClientKeys(Cc, l) >>
           ready == [l EXCEPT !.master = MasterSecret(l.ems, l.secret, t)]
           good == Flight3Accepts(f, Cc) /\ ServerTrusted(f, Cc, l) /\ ClientSchemes(Cc, l) # {}
<1>1. phase["client"] = "flight3" /\ f.flight = 4 /\ sent["client"].flight = 3
  BY DEF ParseFlight3, OutcomeInd, Stage
<1>2. /\ Cc \in Configs /\ Cs \in Configs /\ Valid("client") /\ Valid("server")
      /\ UsesPsk(Cc) = UsesPsk(Cs)
      /\ DOMAIN l = Fields
      /\ l.requested = (~UsesPsk(Cs) /\ Cs.auth # "none")
      /\ l.ems = Server.ems /\ l.suite = Server.suite /\ l.srtp = Server.srtp
      /\ l.peer = IF UsesPsk(Cs) THEN {} ELSE {OwnCertificate(Cs)}
      /\ l.secret = IF UsesPsk(Cc) THEN PskSecret(Cc.psk[HintGiven])
                    ELSE SharedSecret(l.keypair, Server.keypair)
      /\ Flight3Accepts(f, Cc) <=>
           /\ Cc.ems = "require" => Cs.ems # "disable"
           /\ UsesPsk(Cc) => Cc.psk[HintGiven] # "refused"
      /\ ServerTrusted(f, Cc, l) <=> (~UsesPsk(Cc) => Welcomed(Cs, Cc, ~Cc.skipVerify))
  BY <1>1, FlightFour
<1>3. phase["server"] \in {"flight4", "failed"}
  BY <1>1 DEF NegotiationInd, Progress
<1> HIDE DEF l
<1>4. CASE ~good
  <2>1. Refuse("client")
    BY <1>4 DEF ParseFlight3, l, Cc, Client
  <2>2. ASSUME Agreeable(Cc, Cs) PROVE good
    <3>1. /\ {Cc.ems, Cs.ems} # {"require", "disable"}
          /\ UsesPsk(Cs) => Cc.psk[HintGiven] = Cs.psk[Cc.hint] /\ Cs.psk[Cc.hint] # "refused"
          /\ ~UsesPsk(Cs) =>
               /\ Welcomed(Cs, Cc, ~Cc.skipVerify)
               /\ Cs.auth # "none" /\ Cc.certs # <<>> => Understood(Cc, Cs)
      <4>1. /\ Matching(Cc, Cs)
            /\ ~UsesPsk(Cs) => /\ Understood(Cs, Cc)
                               /\ Cs.auth # "none" /\ Cc.certs # <<>> => Understood(Cc, Cs)
        BY <2>2, AgreeableMeans
      <4> QED BY <4>1 DEF Matching, HintGiven, Welcomed
    <3>2. Flight3Accepts(f, Cc) /\ ServerTrusted(f, Cc, l)
      BY <1>2, <3>1
    <3>3. ClientSchemes(Cc, l) # {}
      <4>1. CASE ~MustVerify(Cc, l)
        BY <4>1 DEF ClientSchemes
      <4>2. CASE MustVerify(Cc, l)
        <5>1. Cc.certs # <<>> /\ ~UsesPsk(Cs) /\ Cs.auth # "none"
          BY <1>2, <4>2 DEF MustVerify
        <5>2. OwnCertificate(Cc).key \in {"ed25519", "ecdsa"}
          <6>1. \A x \in ToSet(Cc.certs) : x.key \in {"ed25519", "ecdsa"}
            BY <1>2 DEF Valid, ConfigValid, Cc
          <6> QED BY <1>2, <5>1, <6>1, OwnCertificateListed
        <5>3. SelectedScheme(Cc, OwnCertificate(Cc)) # {}
          BY <1>2, <3>1, <5>1, <5>2, SelectedUnderstood
        <5> QED BY <4>2, <5>3 DEF ClientSchemes
      <4> QED BY <4>1, <4>2
    <3> QED BY <3>2, <3>3
  <2> QED BY <1>1, <1>4, <2>1, <2>2, RefuseOutcome, SidesAre
<1>5. CASE good
  <2>1. PICK scheme \in ClientSchemes(Cc, l) :
           /\ local' = [local EXCEPT !["client"] = ready]
           /\ cache' = [cache EXCEPT !["client"] = t]
           /\ sent' = [sent EXCEPT !["client"] = ClientFlight(Cc, ready, scheme, t)]
           /\ phase' = [phase EXCEPT !["client"] = "flight5"]
           /\ configs' = configs
    BY <1>5 DEF ParseFlight3, Learns, Sends, Keeps, Become, Cc, Client, l
  <2> HIDE DEF t
  <2>2. /\ local'["client"] = ready /\ local'["server"] = local["server"]
        /\ cache'["client"] = t /\ cache'["server"] = cache["server"]
        /\ sent'["client"] = ClientFlight(Cc, ready, scheme, t) /\ sent'["server"] = f
        /\ phase'["client"] = "flight5" /\ phase'["server"] = phase["server"]
        /\ configs' = configs
    BY <2>1, SidesAre DEF NegotiationInd, Shape
  <2>3. /\ ready.suite = l.suite /\ ready.srtp = l.srtp /\ ready.ems = l.ems /\ ready.peer = l.peer
        /\ ready.requested = l.requested /\ ready.keypair = l.keypair /\ ready.secret = l.secret
        /\ ready.master = MasterSecret(l.ems, l.secret, t)
    BY <1>2 DEF Fields
  <2> HIDE DEF ready
  <2>4. ClientFlight(Cc, ready, scheme, t).flight = 5
        /\ ClientFlight(Cc, ready, scheme, t).keys = ClientKeys(Cc, ready)
    BY DEF ClientFlight
  <2>5. ClientKeys(Cc, ready) = ClientKeys(Cc, l) /\ ClientSchemes(Cc, ready) = ClientSchemes(Cc, l)
    BY <2>3 DEF ClientKeys, ClientSchemes, MustVerify
  <2>6. Types'
    <3>1. ready.suite \in Suites \cup {None} /\ ready.srtp \in {"srtp1", "srtp2", None}
          /\ ready.ems \in BOOLEAN
      BY <1>2, <2>3, SidesAre DEF OutcomeInd, Types, Server
    <3>2. ready.peer \subseteq Certificates
      <4>1. ~UsesPsk(Cs) => Cs.certs # <<>>
        BY <1>2 DEF Valid, ConfigValid, Cs
      <4> QED BY <1>2, <2>3, <4>1, OwnCertificateListed
    <3> QED BY <2>2, <3>1, <3>2, SidesAre DEF OutcomeInd, Types
  <2>7. Stage'
    <3>1. \A x \in Sides : Valid(x)' = Valid(x)
      BY <2>2 DEF Valid
    <3> QED BY <1>1, <1>2, <2>2, <2>4, <3>1, SidesAre DEF OutcomeInd, Stage
  <2>8. Transcripts'
    <3>1. phase["server"] = "flight4" => t = Append(cache["server"], ClientKeys(Cc, l))
      <4> SUFFICES ASSUME phase["server"] = "flight4"
                   PROVE  t = Append(cache["server"], ClientKeys(Cc, l))
        OBVIOUS
      <4> DEFINE hello == sent["client"]
                 keys == ClientKeys(Cc, l)
      <4>1. cache["client"] = <<hello>> /\ cache["server"] = <<hello, f>>
        BY <1>1 DEF OutcomeInd, Transcripts
      <4> HIDE DEF f, hello, keys
      <4>2. Append(<<hello>>, f) \o <<keys>> = Append(<<hello, f>>, keys)
        <5>1. /\ <<hello, f>> \in Seq({hello, f, keys}) /\ keys \in {hello, f, keys}
              /\ <<hello>> \in Seq({hello, f, keys}) /\ f \in {hello, f, keys}
          OBVIOUS
        <5>2. Append(<<hello>>, f) = <<hello, f>>
          BY AppendToOne
        <5>3. Append(<<hello, f>>, keys) = <<hello, f>> \o <<keys>>
          BY <5>1, AppendIsConcat
        <5> QED BY <5>2, <5>3
      <4> QED BY <4>1, <4>2 DEF t, f, keys
    <3> QED BY <2>2, <2>4, <2>5, <3>1 DEF Transcripts
  <2>9. ClientHeard'
    <3>1. ready.master = MasterSecret(ready.ems, ready.secret, t)
      BY <2>3
    <3>2. ready.secret = IF UsesPsk(Cc) THEN PskSecret(Cc.psk[HintGiven])
                         ELSE SharedSecret(ready.keypair, Server.keypair)
      BY <1>2, <2>3
    <3>3. /\ ready.requested = (~UsesPsk(Cs) /\ Cs.auth # "none") /\ ready.ems = Server.ems
          /\ UsesPsk(Cc) = UsesPsk(Cs)
      BY <1>2, <2>3
    <3>4. /\ Cc.ems = "require" => Cs.ems # "disable"
          /\ IF UsesPsk(Cs) THEN Cc.psk[HintGiven] # "refused" ELSE Welcomed(Cs, Cc, ~Cc.skipVerify)
      BY <1>2, <1>5
    <3>5. scheme \in ClientSchemes(Cc, ready)
      BY <2>1, <2>5
    <3>6. Client' = ready /\ Server' = Server /\ Cc' = Cc /\ Cs' = Cs /\ HintGiven' = HintGiven
          /\ cache'["client"] = t /\ sent'["client"] = ClientFlight(Cc, ready, scheme, t)
      BY <2>2 DEF Client, Server, Cc, Cs, HintGiven
    <3>7. \E x \in ClientSchemes(Cc, ready) : sent'["client"] = ClientFlight(Cc, ready, x, t)
      BY <3>5, <3>6
    <3> QED BY <3>1, <3>2, <3>3, <3>4, <3>6, <3>7 DEF ClientHeard
  <2>10. Hellos' /\ ServerHeard' /\ ServerSpeaks' /\ ServerEnded'
    BY <1>1, <1>3, <2>2, <2>4 DEF OutcomeInd, Hellos, ServerHeard, ServerSpeaks, ServerEnded,
       Server, Cc, Cs
  <2>11. Unrefused'
    BY <2>2, SidesAre DEF OutcomeInd, Unrefused, Cc, Cs
  <2> QED BY <2>6, <2>7, <2>8, <2>9, <2>10, <2>11 DEF OutcomeInd
<1> QED BY <1>4, <1>5

\* Pre-shared keys agree if the master secrets do.
LEMMA PskMasters ==
    ASSUME NEW e, NEW k1, NEW k2, NEW t
    PROVE  MasterSecret(e, PskSecret(k1), t) = MasterSecret(e, PskSecret(k2), t) <=> k1 = k2
<1>1. PskSecret(k1) = PskSecret(k2) <=> k1 = k2
  BY DEF PskSecret
<1>2. \A x, y : MasterSecret(e, x, t) = MasterSecret(e, y, t) <=> x = y
  BY DEF MasterSecret
<1> QED BY <1>1, <1>2

\* What the server makes of a flight 5.
LEMMA FlightFive ==
    ASSUME NegotiationInd, OutcomeInd, phase["server"] = "flight4", sent["client"].flight = 5,
           NEW t, t = Append(cache["server"], sent["client"].keys),
           NEW l, l = Accounted(sent["client"], Cs, Server, t)
    PROVE  LET f == sent["client"]
               refused == UsesPsk(Cs) /\ Cs.psk[f.keys.identity] = "refused"
           IN
           /\ DOMAIN l = Fields /\ t = cache["client"]
           /\ l.suite = Server.suite /\ l.srtp = Server.srtp /\ l.ems = Server.ems
           /\ l.keypair = Server.keypair /\ l.cookie = Server.cookie
           /\ l.peer \subseteq Certificates
           /\ f.master = Client.master
           /\ (Proven(f) /\ ClientProven(f, Cs, t) /\ ~refused
               /\ f.master = l.master /\ ClientAuthorized(Cs, l))
                => Agreeable(Cc, Cs)
           /\ Agreeable(Cc, Cs) =>
                /\ ClientProven(f, Cs, t) /\ ~refused
                /\ UsesPsk(Cs) => f.master = l.master
                /\ ClientAuthorized(Cs, l)
<1> DEFINE f == sent["client"]
           own == OwnCertificate(Cc)
           asked == ~UsesPsk(Cs) /\ Cs.auth # "none"
           given == asked /\ Cc.certs # <<>>
           checked == Cs.auth \in {"verifyIfGiven", "requireAndVerify"}
           demanded == Cs.auth \in {"requireAny", "requireAndVerify"}
           refused == UsesPsk(Cs) /\ Cs.psk[f.keys.identity] = "refused"
<1>1. Cc \in Configs /\ Cs \in Configs /\ Cs.auth \in Auths
  BY SidesAre, ConfigFields DEF OutcomeInd, Types, Cc, Cs
<1>2. Valid("client") /\ Valid("server") /\ sent["server"].flight = 4
  <2>1. phase["client"] \notin {"new", "invalid"}
    BY SidesAre DEF OutcomeInd, Stage
  <2> QED BY <2>1, SidesAre DEF OutcomeInd, Stage, NegotiationInd, Progress
<1>3. /\ UsesPsk(Cc) = UsesPsk(Cs)
      /\ Cc.ems = "require" => Cs.ems # "disable"
      /\ IF UsesPsk(Cs) THEN Cc.psk[HintGiven] # "refused" ELSE Welcomed(Cs, Cc, ~Cc.skipVerify)
      /\ Client.requested = asked
      /\ Client.ems = Server.ems
      /\ Client.secret = IF UsesPsk(Cc) THEN PskSecret(Cc.psk[HintGiven])
                         ELSE SharedSecret(Client.keypair, Server.keypair)
      /\ Client.master = MasterSecret(Client.ems, Client.secret, cache["client"])
  BY DEF OutcomeInd, ClientHeard
<1>4. PICK scheme \in ClientSchemes(Cc, Client) :
        f = ClientFlight(Cc, Client, scheme, cache["client"])
  BY DEF OutcomeInd, ClientHeard
<1>5. t = cache["client"]
  BY DEF OutcomeInd, Transcripts
<1>6. /\ f.keys = ClientKeys(Cc, Client) /\ f.master = Client.master
      /\ f.verify = CertificateVerify(Cc, Client, scheme, t)
  <2> DEFINE flight == ClientFlight(Cc, Client, scheme, t)
  <2>1. flight.keys = ClientKeys(Cc, Client)
    BY DEF ClientFlight
  <2>2. flight.master = Client.master
    BY DEF ClientFlight
  <2>3. flight.verify = CertificateVerify(Cc, Client, scheme, t)
    BY DEF ClientFlight
  <2> HIDE DEF flight
  <2>4. f = flight
    BY <1>4, <1>5 DEF flight
  <2> QED BY <2>1, <2>2, <2>3, <2>4
<1>7. /\ f.keys.cert = IF given THEN {own} ELSE {}
      /\ f.keys.identity = IF UsesPsk(Cc) THEN Cc.hint ELSE None
      /\ f.verify = IF given THEN {[scheme |-> scheme, signature |-> Signature(own, t)]} ELSE {}
  <2>1. MustVerify(Cc, Client) <=> given
    BY <1>3 DEF MustVerify
  <2>2. f.keys.cert = IF given THEN {own} ELSE {}
    <3>1. ClientKeys(Cc, Client).cert =
            IF Client.requested /\ Cc.certs # <<>> THEN {own} ELSE {}
      BY DEF ClientKeys
    <3>2. Client.requested /\ Cc.certs # <<>> <=> given
      BY <1>3
    <3> HIDE DEF f, given, own
    <3> QED BY <1>6, <3>1, <3>2
  <2>3. f.keys.identity = IF UsesPsk(Cc) THEN Cc.hint ELSE None
    BY <1>6 DEF ClientKeys
  <2>4. f.verify = IF given THEN {[scheme |-> scheme, signature |-> Signature(own, t)]} ELSE {}
    <3> HIDE DEF f, given, own
    <3> QED BY <1>6, <2>1 DEF CertificateVerify, own
  <2> QED BY <2>2, <2>3, <2>4
<1>8. given => /\ own.key \in {"ed25519", "ecdsa"} /\ own \in Certificates
               /\ scheme \in SelectedScheme(Cc, own)
  <2> SUFFICES ASSUME given PROVE own.key \in {"ed25519", "ecdsa"} /\ own \in Certificates
                                  /\ scheme \in SelectedScheme(Cc, own)
    OBVIOUS
  <2>1. \A x \in ToSet(Cc.certs) : x.key \in {"ed25519", "ecdsa"}
    BY <1>2 DEF Valid, ConfigValid, Cc
  <2>2. own \in Certificates /\ own \in ToSet(Cc.certs)
    BY <1>1, OwnCertificateListed
  <2>3. MustVerify(Cc, Client)
    BY <1>3 DEF MustVerify
  <2> QED BY <1>4, <2>1, <2>2, <2>3 DEF ClientSchemes
<1>9. given => (Understood(Cc, Cs) <=> scheme \in ToSet(LocalSchemes(Cs)) /\ Usable(scheme, own.key))
  BY <1>1, <1>8, SelectedUnderstood
<1> DEFINE secret == IF UsesPsk(Cs) THEN PskSecret(Cs.psk[f.keys.identity])
                     ELSE SharedSecret(Server.keypair, f.keys.keypair)
           verified == f.verify # {} /\ AtLeast(Cs.auth, "verifyIfGiven")
<1>10. /\ DOMAIN l = Fields /\ l.suite = Server.suite /\ l.srtp = Server.srtp
       /\ l.ems = Server.ems /\ l.keypair = Server.keypair /\ l.cookie = Server.cookie
       /\ l.peer = f.keys.cert /\ l.verified = verified
       /\ l.master = MasterSecret(Server.ems, secret, t)
  <2>1. l = [Server EXCEPT !.peer = f.keys.cert, !.verified = verified,
                           !.identity = f.keys.identity, !.secret = secret,
                           !.master = MasterSecret(Server.ems, secret, t)]
    BY DEF Accounted
  <2>2. DOMAIN Server = Fields
    BY SidesAre DEF NegotiationInd, Shape, Server
  <2> HIDE DEF f, secret, verified
  <2> QED BY <2>1, <2>2 DEF Fields
<1>11. l.peer \subseteq Certificates
  BY <1>7, <1>8, <1>10
<1>12. AtLeast(Cs.auth, "verifyIfGiven") <=> checked
  BY <1>1, AtLeastVerify
<1>13. ClientAuthorized(Cs, l) <=> (demanded => given)
  <2>1. l.peer # {} <=> given
    BY <1>7, <1>10
  <2>2. l.verified <=> given /\ checked
    BY <1>7, <1>10, <1>12
  <2> HIDE DEF given
  <2> QED BY <2>1, <2>2 DEF ClientAuthorized
<1>14. ClientProven(f, Cs, t) <=> (given => Welcomed(Cc, Cs, checked))
  <2>1. CASE ~given
    <3>1. f.verify = {}
      BY <1>7, <2>1
    <3> HIDE DEF f
    <3> QED BY <2>1, <3>1 DEF ClientProven
  <2>2. CASE given
    <3> DEFINE v == [scheme |-> scheme, signature |-> Signature(own, t)]
    <3>1. f.verify = {v} /\ f.keys.cert = {own}
      BY <1>7, <2>2
    <3>2. v.scheme = scheme /\ v.signature = Signature(own, t)
      OBVIOUS
    <3> HIDE DEF v, f, own, checked
    <3>3. ClientProven(f, Cs, t) <=>
            /\ v.scheme \in ToSet(LocalSchemes(Cs))
            /\ SignatureValid(v.scheme, v.signature, own, t)
            /\ AtLeast(Cs.auth, "verifyIfGiven") => ChainValid(own, Cs.roots)
            /\ own \notin Cs.refuses
      BY <3>1 DEF ClientProven
    <3>4. SignatureValid(v.scheme, v.signature, own, t) <=> Usable(scheme, own.key)
      BY <3>2, OwnSignatureValid
    <3>5. Welcomed(Cc, Cs, checked) <=>
            /\ Understood(Cc, Cs) /\ own \notin Cs.refuses
            /\ checked => ChainValid(own, Cs.roots)
      BY DEF Welcomed, Welcome, ChainValid, own
    <3>6. Understood(Cc, Cs) <=> scheme \in ToSet(LocalSchemes(Cs)) /\ Usable(scheme, own.key)
      BY <1>9, <2>2
    <3> QED BY <1>12, <2>2, <3>2, <3>3, <3>4, <3>5, <3>6
  <2> QED BY <2>1, <2>2
<1>15. UsesPsk(Cs) => (f.master = l.master <=> Cc.psk[HintGiven] = Cs.psk[Cc.hint])
  <2> SUFFICES ASSUME UsesPsk(Cs)
               PROVE  f.master = l.master <=> Cc.psk[HintGiven] = Cs.psk[Cc.hint]
    OBVIOUS
  <2>1. f.master = MasterSecret(Server.ems, PskSecret(Cc.psk[HintGiven]), t)
    BY <1>3, <1>5, <1>6
  <2>2. l.master = MasterSecret(Server.ems, PskSecret(Cs.psk[Cc.hint]), t)
    BY <1>3, <1>7, <1>10
  <2> QED BY <2>1, <2>2, PskMasters
<1>16. refused <=> UsesPsk(Cs) /\ Cs.psk[Cc.hint] = "refused"
  BY <1>3, <1>7
<1>17. Agreeable(Cc, Cs) <=>
         IF UsesPsk(Cs)
         THEN Cc.psk[HintGiven] = Cs.psk[Cc.hint] /\ ~refused /\ ~demanded
         ELSE \/ Cs.auth = "none"
              \/ Cc.certs = <<>> /\ Cs.auth \in {"request", "verifyIfGiven"}
              \/ Cc.certs # <<>> /\ Welcomed(Cc, Cs, checked)
  <2>1. /\ ConfigValid("client", Cc) /\ SchemesValid(Cc)
        /\ ConfigValid("server", Cs) /\ SchemesValid(Cs)
    BY <1>2 DEF Valid, Cc, Cs
  <2>2. /\ Server.suite \in ToSet(LocalSuites(Cc)) \cap ToSet(LocalSuites(Cs))
        /\ Cs.ems = "require" => Cc.ems # "disable"
        /\ IF Cc.srtp = <<>> THEN Server.srtp = None
           ELSE Server.srtp \in ToSet(Cc.srtp) \cap ToSet(Cs.srtp)
    BY <1>2 DEF OutcomeInd, ServerHeard
  <2>3. {Cc.ems, Cs.ems} # {"require", "disable"}
    BY <1>3, <2>2
  <2>4. ~UsesPsk(Cs) => Welcomed(Cs, Cc, ~Cc.skipVerify)
    BY <1>3
  <2> HIDE DEF refused
  <2>5. CASE UsesPsk(Cs)
    BY <1>16, <2>1, <2>2, <2>3, <2>5, AgreeableMeans DEF Matching, HintGiven
  <2>6. CASE ~UsesPsk(Cs)
    BY <2>1, <2>2, <2>3, <2>4, <2>6, AgreeableMeans DEF Matching, Welcomed
  <2> QED BY <2>5, <2>6
<1> HIDE DEF f, own, refused
<1>18. ASSUME Proven(f), ClientProven(f, Cs, t), ~refused, f.master = l.master, ClientAuthorized(Cs, l)
       PROVE  Agreeable(Cc, Cs)
  <2>1. CASE UsesPsk(Cs)
    BY <1>13, <1>15, <1>17, <1>18, <2>1
  <2>2. CASE ~UsesPsk(Cs)
    BY <1>1, <1>13, <1>14, <1>17, <1>18, <2>2 DEF Auths
  <2> QED BY <2>1, <2>2
<1>19. ASSUME Agreeable(Cc, Cs)
       PROVE  /\ ClientProven(f, Cs, t) /\ ~refused
              /\ UsesPsk(Cs) => f.master = l.master
              /\ ClientAuthorized(Cs, l)
  <2>1. CASE UsesPsk(Cs)
    BY <1>13, <1>14, <1>15, <1>17, <1>19, <2>1
  <2>2. CASE ~UsesPsk(Cs)
    BY <1>1, <1>13, <1>14, <1>16, <1>17, <1>19, <2>2 DEF Auths
  <2> QED BY <2>1, <2>2
<1>20. (Proven(f) /\ ClientProven(f, Cs, t) /\ ~refused
        /\ f.master = l.master /\ ClientAuthorized(Cs, l))
         => Agreeable(Cc, Cs)
  BY <1>18
<1>21. Agreeable(Cc, Cs) =>
         /\ ClientProven(f, Cs, t) /\ ~refused
         /\ UsesPsk(Cs) => f.master = l.master
         /\ ClientAuthorized(Cs, l)
  BY <1>19
<1>22. f = sent["client"] /\ (refused <=> UsesPsk(Cs) /\ Cs.psk[f.keys.identity] = "refused")
  BY DEF f, refused
<1>23. f.master = Client.master
  BY <1>6
<1> QED BY <1>5, <1>10, <1>11, <1>20, <1>21, <1>22, <1>23

\* The server ends, or refuses, as the configurations call for.
LEMMA ParseFlight4Outcome ==
    ASSUME NegotiationInd, OutcomeInd, ParseFlight4
    PROVE  OutcomeInd'
<1> DEFINE f == sent["client"]
           t == Append(cache["server"], f.keys)
           l == Accounted(f, Cs, Server, t)
           refused == UsesPsk(Cs) /\ Cs.psk[f.keys.identity] = "refused"
<1>1. phase["server"] = "flight4" /\ f.flight = 5 /\ Proven(f)
  BY DEF ParseFlight4
<1>2. /\ DOMAIN l = Fields /\ t = cache["client"]
      /\ l.suite = Server.suite /\ l.srtp = Server.srtp /\ l.ems = Server.ems
      /\ l.keypair = Server.keypair /\ l.cookie = Server.cookie
      /\ l.peer \subseteq Certificates
      /\ f.master = Client.master
      /\ (Proven(f) /\ ClientProven(f, Cs, t) /\ ~refused
          /\ f.master = l.master /\ ClientAuthorized(Cs, l))
           => Agreeable(Cc, Cs)
      /\ Agreeable(Cc, Cs) =>
           /\ ClientProven(f, Cs, t) /\ ~refused
           /\ UsesPsk(Cs) => f.master = l.master
           /\ ClientAuthorized(Cs, l)
  BY <1>1, FlightFive
<1>3. \/ /\ ~ClientProven(f, Cs, t) \/ refused \/ (UsesPsk(Cs) /\ f.master # l.master)
               \/ ~ClientAuthorized(Cs, l)
         /\ Refuse("server")
      \/ /\ ClientProven(f, Cs, t) /\ ~refused /\ f.master = l.master /\ ClientAuthorized(Cs, l)
         /\ local' = [local EXCEPT !["server"] = l]
         /\ cache' = [cache EXCEPT !["server"] = t]
         /\ sent' = [sent EXCEPT !["server"] = ServerEnd(f, l, t)]
         /\ phase' = [phase EXCEPT !["server"] = "done"]
         /\ configs' = configs
  BY DEF ParseFlight4, Learns, Sends, Keeps, Become, Cs, Server
<1> HIDE DEF l, t, refused
<1>4. CASE Refuse("server")
  <2>1. ASSUME Agreeable(Cc, Cs) PROVE FALSE
    <3>1. phase' = [phase EXCEPT !["server"] = "done"]
      BY <1>2, <1>3, <2>1
    <3>2. phase' = [phase EXCEPT !["server"] = "failed"]
      BY <1>4 DEF Refuse, Become
    <3>3. phase'["server"] = "done" /\ phase'["server"] = "failed"
      BY <3>1, <3>2, SidesAre DEF NegotiationInd, Shape
    <3> QED BY <3>3
  <2> QED BY <1>1, <1>4, <2>1, RefuseOutcome, SidesAre
<1>5. CASE ~Refuse("server")
  <2>1. /\ Agreeable(Cc, Cs) /\ l.master = Client.master
        /\ local' = [local EXCEPT !["server"] = l]
        /\ cache' = [cache EXCEPT !["server"] = t]
        /\ sent' = [sent EXCEPT !["server"] = ServerEnd(f, l, t)]
        /\ phase' = [phase EXCEPT !["server"] = "done"]
        /\ configs' = configs
    BY <1>1, <1>2, <1>3, <1>5
  <2>2. /\ local'["server"] = l /\ local'["client"] = local["client"]
        /\ cache'["server"] = t /\ cache'["client"] = cache["client"]
        /\ sent'["server"] = ServerEnd(f, l, t) /\ sent'["client"] = f
        /\ phase'["server"] = "done" /\ phase'["client"] = phase["client"]
        /\ configs' = configs
    BY <2>1, SidesAre DEF NegotiationInd, Shape
  <2>3. /\ ServerEnd(f, l, t).flight = 6
        /\ ServerEnd(f, l, t).finished = VerifyData(l.master, <<t, f.verify, f.finished>>)
    BY DEF ServerEnd
  <2>4. Types'
    BY <1>2, <2>2, SidesAre DEF OutcomeInd, Types, Server
  <2>5. Stage'
    <3>1. \A x \in Sides : Valid(x)' = Valid(x)
      BY <2>2 DEF Valid
    <3> QED BY <1>1, <2>2, <2>3, <3>1, SidesAre DEF OutcomeInd, Stage
  <2>6. phase["client"] \in {"flight5", "done"}
    BY <1>1, <2>1, SidesAre DEF OutcomeInd, Stage, Unrefused
  <2>7. ServerEnded'
    BY <1>2, <2>1, <2>2, <2>3, <2>6 DEF ServerEnded, Client, Server, Cc, Cs
  <2>8. ServerHeard'
    <3>1. sent["server"].flight = 4
      BY <1>1 DEF NegotiationInd, Progress
    <3> QED BY <1>2, <2>2, <3>1 DEF OutcomeInd, ServerHeard, Server, Cc, Cs
  <2>9. Hellos' /\ ServerSpeaks' /\ Transcripts'
    BY <1>1, <1>2, <2>2, <2>3 DEF OutcomeInd, Hellos, ServerSpeaks, Transcripts, Server, Cc
  <2>10. ClientHeard'
    <3>1. Client' = Client /\ Cc' = Cc /\ Cs' = Cs /\ HintGiven' = HintGiven
          /\ Server'.ems = Server.ems /\ Server'.keypair = Server.keypair
      BY <1>2, <2>2 DEF Client, Server, Cc, Cs, HintGiven
    <3> QED BY <2>2, <3>1 DEF OutcomeInd, ClientHeard
  <2>11. Unrefused'
    BY <2>2, SidesAre DEF OutcomeInd, Unrefused, Cc, Cs
  <2> QED BY <2>4, <2>5, <2>7, <2>8, <2>9, <2>10, <2>11 DEF OutcomeInd
<1> QED BY <1>4, <1>5

\* A client that gets the server's last flight agrees with it.
LEMMA ParseFlight5Outcome ==
    ASSUME NegotiationInd, OutcomeInd, ParseFlight5
    PROVE  OutcomeInd'
<1>1. phase["client"] = "flight5" /\ sent["server"].flight = 6
  BY DEF ParseFlight5
<1>2. phase["server"] = "done"
  BY <1>1 DEF NegotiationInd, Progress
<1>3. /\ Client.master = Server.master
      /\ sent["server"].finished =
           VerifyData(Server.master, <<cache["client"], sent["client"].verify,
                                       sent["client"].finished>>)
  BY <1>2 DEF OutcomeInd, ServerEnded
<1>4. /\ phase' = [phase EXCEPT !["client"] = "done"]
      /\ configs' = configs /\ local' = local /\ cache' = cache /\ sent' = sent
  BY <1>3 DEF ParseFlight5, Become, Client
<1>5. phase'["client"] = "done" /\ phase'["server"] = phase["server"]
  BY <1>4, SidesAre DEF NegotiationInd, Shape
<1>6. Types' /\ Hellos' /\ ServerHeard' /\ ServerSpeaks' /\ Transcripts' /\ ServerEnded'
  BY <1>2, <1>4, <1>5 DEF OutcomeInd, Types, Hellos, ServerHeard, ServerSpeaks, Transcripts,
     ServerEnded, Client, Server, Cc, Cs
<1>7. ClientHeard'
  BY <1>4 DEF OutcomeInd, ClientHeard, Client, Server, Cc, Cs, HintGiven
<1>8. Stage'
  <2>1. \A x \in Sides : Valid(x)' = Valid(x)
    BY <1>4 DEF Valid
  <2> QED BY <1>1, <1>2, <1>4, <1>5, <2>1, SidesAre DEF OutcomeInd, Stage
<1>9. Unrefused'
  BY <1>4, <1>5, SidesAre DEF OutcomeInd, Unrefused, Cc, Cs
<1> QED BY <1>6, <1>7, <1>8, <1>9 DEF OutcomeInd

LEMMA OutcomeInductive == Spec => []OutcomeInd
<1>1. NegotiationInd /\ OutcomeInd /\ [Next]_vars => OutcomeInd'
  BY NewOutcome, ParseFlight0Outcome, ParseFlight1Outcome, ParseFlight2Outcome, ParseFlight3Outcome,
     ParseFlight4Outcome, ParseFlight5Outcome, AlertOutcome, StutterOutcome DEF Next, Step
<1> QED BY <1>1, InitOutcome, Inductive, PTL DEF Spec

\* For every set of configurations the variables keep their types; what a side has
\* chosen is a suite that exists and a profile, and a peer's certificate is one.
THEOREM NegotiationTypeCorrect == Spec => []TypeOK
<1>1. NegotiationInd /\ OutcomeInd => TypeOK
  <2> SUFFICES ASSUME NegotiationInd, OutcomeInd PROVE TypeOK
    OBVIOUS
  <2>1. phase \in [Sides -> {"new", "flight0", "flight1", "flight2", "flight3",
                            "flight4", "flight5", "done", "failed", "invalid"}]
    <3>1. phase = [s \in Sides |-> phase[s]]
      BY DEF NegotiationInd, Shape
    <3> QED BY <3>1, SidesAre DEF OutcomeInd, Stage
  <2> QED BY <2>1 DEF OutcomeInd, Types, TypeOK, Suites
<1> QED BY <1>1, Inductive, OutcomeInductive, PTL

\* Compatible and InOrder are what the code asks for.
LEMMA AgreeableInOrder ==
    ASSUME NEW c \in Configs, NEW s \in Configs
    PROVE  Agreeable(c, s) <=> Compatible(c, s) /\ InOrder(c, s)
<1>1. ASSUME NEW a \in Configs, NEW b
      PROVE  Understood(a, b) <=> Speaks(a, b) /\ FirstShared(a, b)
  <2>1. Understood(a, b) => Speaks(a, b) /\ FirstShared(a, b)
    BY <1>1, SelectedIsOne DEF Understood, Speaks, FirstShared
  <2>2. Speaks(a, b) => SelectedScheme(a, OwnCertificate(a)) # {}
    <3>1. \A x : Usable(x, OwnCertificate(a).key) => x.signature = OwnCertificate(a).key
      BY DEF Usable, Scheme
    <3> QED BY <1>1, <3>1, SelectedIsOne DEF Speaks
  <2> QED BY <2>1, <2>2 DEF Understood, FirstShared
<1>2. \A p \in Signed(c, s) : p[1] \in Configs
  BY DEF Signed
<1> QED BY <1>1, <1>2 DEF Agreeable, Compatible, InOrder

\* Whatever the two configurations are, a side succeeds only if they are compatible:
\* no combination of suites, extensions, certificates, schemes, policies and
\* pre-shared keys is accepted by one end against the other's; and if they are, each
\* side that ends succeeds, provided that who signs lists a scheme first that can be
\* used (the parse() of every flight, validate_config()).
THEOREM OutcomeAlwaysAsConfigured == Spec => []OutcomeAsConfigured
<1>1. NegotiationInd /\ OutcomeInd => OutcomeAsConfigured
  <2> SUFFICES ASSUME NegotiationInd, OutcomeInd PROVE OutcomeAsConfigured
    OBVIOUS
  <2>1. ASSUME NEW side \in Sides, Ended(side)
        PROVE  phase[side] = "done" <=> Agreeable(Cc, Cs)
    <3>1. CASE phase[side] = "done"
      <4>1. phase["server"] = "done"
        BY <3>1, SidesAre DEF NegotiationInd, ClientEnded
      <4> QED BY <3>1, <4>1 DEF OutcomeInd, ServerEnded
    <3>2. CASE phase[side] \in {"failed", "invalid"}
      BY <3>2 DEF OutcomeInd, Unrefused
    <3> QED BY <2>1, <3>1, <3>2 DEF Ended
  <2>2. Agreeable(Cc, Cs) <=> Compatible(Cc, Cs) /\ InOrder(Cc, Cs)
    <3>1. Cc \in Configs /\ Cs \in Configs
      BY SidesAre DEF OutcomeInd, Types, Cc, Cs
    <3> QED BY <3>1, AgreeableInOrder
  <2>3. \A side \in Sides : Ended(side) =>
          /\ phase[side] = "done" => Compatible(Cc, Cs)
          /\ Compatible(Cc, Cs) /\ InOrder(Cc, Cs) => phase[side] = "done"
    BY <2>1, <2>2
  <2> QED BY <2>3 DEF OutcomeAsConfigured, Cc, Cs
<1> QED BY <1>1, Inductive, OutcomeInductive, PTL
=============================================================================
