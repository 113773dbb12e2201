--------------------------- MODULE HandshakeLemmas ---------------------------
(***************************************************************************)
(* The inductive invariant of DtlsHandshake, part by part, and what the    *)
(* theorems of HandshakeProofs need to know of the operators the module is *)
(* built from: the cache, the numbers of a flight, its datagrams, and the  *)
(* fragment buffer.                                                        *)
(***************************************************************************)
EXTENDS DtlsHandshake, FiniteSetTheorems, SequenceTheorems, WellFoundedInduction, TLAPS

-----------------------------------------------------------------------------
(* Types                                                                   *)

Types == {"ClientHello", "HelloVerifyRequest", "ServerHello", "Certificate",
          "ServerKeyExchange", "CertificateRequest", "ServerHelloDone",
          "ClientKeyExchange", "CertificateVerify", "Finished"}
IdSet == Types \X Sides \X Nat
DataSet == {{}} \cup [secret : SUBSET IdSet, over : SUBSET IdSet]
MessageSet == [type : Types, from : Sides, epoch : {0, 1}, seq : Nat, data : DataSet]
PacketSet == [type : Types \cup {"ChangeCipherSpec"}, epoch : {0, 1}, seq : Nat,
              key : SUBSET IdSet, data : DataSet]
RecordSet == [type : Types \cup {"ChangeCipherSpec"}, epoch : {0, 1}, seq : Nat,
              key : SUBSET IdSet, data : DataSet, part : Nat]
RecordsSet == Seq(RecordSet) \cup {<<Alert>>}
ContextSet == [cache : SUBSET MessageSet, fragments : SUBSET RecordSet, current : Nat,
               remoteEpoch : {0, 1}, queue : Seq(RecordSet), secret : SUBSET IdSet]

Shape ==
    /\ offer \in Offers
    /\ flight \in [Sides -> 0 .. 6]
    /\ fsm \in [Sides -> {"preparing", "sending", "waiting", "done", "errored"}]
    /\ flights \in [Sides -> Seq(PacketSet)]
    /\ sendSeq \in [Sides -> Nat]
    /\ recvSeq \in [Sides -> Nat]
    /\ ctx \in [Sides -> ContextSet]
    /\ reader \in [Sides -> {"reading", "offering", "waiting", "exited"}]
    /\ inbox \in [Sides -> [records : RecordsSet, handshake : BOOLEAN]]
    /\ network \subseteq [to : Sides, records : RecordsSet]
    /\ faults \in 0 .. MaxFaults

-----------------------------------------------------------------------------
(* What a side makes.                                                      *)

From(c, s) == {m \in c.cache : m.from = s}
MessageOf(s, p) == Message(p.type, s, p.epoch, p.seq, p.data)

\* The messages of the flights of side s, sent or about to be.
Made(s) == From(ctx[s], s)
             \cup {MessageOf(s, p) : p \in {q \in ToSet(flights[s]) :
                                              q.type # "ChangeCipherSpec"}}

\* No two messages have a number, the next one is not in use, and what is
\* made has been sent but while the side is sending.
Numbers == \A s \in Sides :
    /\ \A m \in Made(s) :
         /\ m.seq < sendSeq[s]
         /\ m.epoch = 1 <=> m.type = "Finished"
         /\ m.type # "Finished" => m.data = {}
    /\ \A m, n \in Made(s) : m.seq = n.seq => m = n
    /\ \A p \in ToSet(flights[s]) :
         /\ p.epoch = 1 <=> p.type = "Finished"
         /\ p.epoch = 1 => p.key = ctx[s].secret /\ p.key # {}
    /\ fsm[s] # "sending" => Made(s) = From(ctx[s], s)

ClientFlow ==
    LET preparing == fsm["client"] = "preparing"
        seq == sendSeq["client"]
        flt == flight["client"]
    IN
    /\ flt \in {1, 3, 5}
    /\ flt = 1 => recvSeq["client"] = 0 /\ seq = IF preparing THEN 0 ELSE 1
    /\ flt = 3 => recvSeq["client"] = 1 /\ seq = IF preparing THEN 1 ELSE 2
    /\ flt = 5 => recvSeq["client"] \in 0 .. 6 /\ seq \in IF preparing THEN 1 .. 2 ELSE 1 .. 6
    /\ flt \in {1, 3} \/ preparing =>
         /\ \A m \in Made("client") : m.type = "ClientHello"
         /\ ctx["client"].secret = {}
    /\ \A m \in Made("client") :
         m.type = "ClientKeyExchange" =>
           /\ m.epoch = 0
           /\ \A n \in Made("client") : n.type = "Certificate" => n.seq < m.seq
           /\ ClientAuth =>
                \E n \in Made("client") : n.type = "Certificate" /\ n.seq < m.seq
    /\ \A m, n \in Made("client") : m.type = "Finished" => n.seq <= m.seq
    /\ fsm["client"] = "done" =>
         flt = 5 /\ \E m \in From(ctx["client"], "server") : m.epoch = 1
    /\ ClientAuth /\ flt = 5 =>
         \E m \in From(ctx["client"], "server") : m.type = "CertificateRequest"

ServerFlow ==
    LET preparing == fsm["server"] = "preparing"
        seq == sendSeq["server"]
        flt == flight["server"]
    IN
    /\ flt \in {0, 2, 4, 6}
    /\ flt = 0 => recvSeq["server"] = 0 /\ seq = 0
    /\ flt = 2 => recvSeq["server"] = 1 /\ seq \in IF preparing THEN 0 .. 1 ELSE {1}
    /\ flt = 4 => recvSeq["server"] = 2 /\ seq \in IF preparing THEN {1} ELSE 1 .. 6
    /\ flt = 6 => recvSeq["server"] \in 2 .. 6 /\ seq \in IF preparing THEN 1 .. 6 ELSE 1 .. 7
    /\ flt \in {0, 2} \/ (flt = 4 /\ preparing) =>
         \A m \in Made("server") : m.type = "HelloVerifyRequest"
    /\ \A m \in Made("server") :
         /\ m.type = "HelloVerifyRequest" => m.seq = 0
         /\ m.type = "ServerHelloDone" /\ ClientAuth =>
              \E n \in Made("server") : n.type = "CertificateRequest" /\ n.seq < m.seq
         /\ m.type = "Finished" =>
              /\ flt = 6 /\ ~preparing
              /\ \A n \in Made("server") : n.seq <= m.seq
              /\ m.data = [secret |-> ctx["server"].secret,
                           over |-> Merged(From(ctx["client"], "client") \cup Made("server"),
                                           VerifyRules)]
    /\ fsm["server"] = "done" => flt = 6
    /\ flt \in {4, 6} => \E m \in From(ctx["server"], "client") : m.seq = 1
    /\ flt = 6 => \E m \in From(ctx["server"], "client") : m.epoch = 1

-----------------------------------------------------------------------------
(* What a side receives.                                                   *)

\* Side s, whose context is p, has sent record r.
Genuine(s, p, r) ==
    /\ r.type # "ChangeCipherSpec" => MessageOf(s, r) \in p.cache
    /\ r.epoch = 1 => r.key = p.secret /\ r.key # {}
    /\ r.epoch = 1 <=> r.type = "Finished"
    /\ r.part \in 1 .. PartsOf(r.type)

AllGenuine(s, p, rs) == rs = <<Alert>> \/ \A i \in DOMAIN rs : Genuine(s, p, rs[i])

\* The context c of side s, whose peer has p.
Sound(s, c, p) ==
    /\ \A m \in From(c, Peer(s)) : m \in p.cache
    /\ {m.seq : m \in From(c, Peer(s))} = 0 .. c.current - 1
    /\ \A f \in c.fragments :
         f.seq >= c.current /\ f.type # "ChangeCipherSpec" /\ Genuine(Peer(s), p, f)
    /\ \A i \in DOMAIN c.queue : Genuine(Peer(s), p, c.queue[i])
    /\ \A m \in From(c, Peer(s)) \cup c.fragments :
         m.epoch = 1 => c.secret # {} /\ c.secret = p.secret

Transport ==
    /\ \A d \in network : AllGenuine(Peer(d.to), ctx[Peer(d.to)], d.records)
    /\ \A s \in Sides :
         /\ AllGenuine(Peer(s), ctx[Peer(s)], inbox[s].records)
         /\ Sound(s, ctx[s], ctx[Peer(s)])

\* The server has its keys from a ClientKeyExchange that it has received.
Possession ==
    ctx["server"].secret # {} =>
        LET got(t) == \E m \in From(ctx["server"], "client") : m.type = t /\ m.epoch = 0
        IN got("ClientKeyExchange") /\ (got("Certificate") => got("CertificateVerify"))

\* The client has its first handshake message whenever it looks for it.
FirstMessage ==
    flight["client"] = 1 /\ (inbox["client"].handshake \/ reader["client"] \in {"offering", "waiting"})
      => From(ctx["client"], "server") # {}

\* Nobody complains.
NoAlert ==
    ToSet(offer) \cap Implemented # {} =>
        /\ \A d \in network : d.records # <<Alert>>
        /\ \A s \in Sides : /\ inbox[s].records # <<Alert>>
                            /\ reader[s] # "exited" /\ fsm[s] # "errored"

HandshakeInd ==
    /\ Shape /\ Numbers /\ ClientFlow /\ ServerFlow /\ Transport
    /\ Possession /\ FirstMessage /\ NoAlert
-----------------------------------------------------------------------------
(* Operators                                                               *)

LEMMA LeastNatural == \A T \in SUBSET Nat : T # {} => \E x \in T : \A y \in T : x <= y
<1> SUFFICES ASSUME NEW T \in SUBSET Nat, T # {}
             PROVE  \E x \in T : \A y \in T : x <= y
  OBVIOUS
<1>1. IsWellFoundedOn(OpToRel(<, Nat), Nat)
  BY NatLessThanWellFounded
<1>2. \E x \in T : \A y \in T : ~(<<y, x>> \in OpToRel(<, Nat))
  BY <1>1, WFMin
<1>3. \A x, y \in Nat : <<y, x>> \in OpToRel(<, Nat) <=> y < x
  BY DEF OpToRel
<1>4. PICK x \in T : \A y \in T : ~(<<y, x>> \in OpToRel(<, Nat))
  BY <1>2
<1>5. \A y \in T : y \in Nat
  OBVIOUS
<1>6. \A y \in T : ~(y < x)
  BY <1>3, <1>4, <1>5
<1> QED BY <1>5, <1>6

LEMMA GreatestNatural ==
    ASSUME NEW T \in SUBSET Nat, NEW B \in Nat, \A t \in T : t < B, T # {}
    PROVE  \E x \in T : \A y \in T : y <= x
<1> DEFINE U == {b \in Nat : \A t \in T : t <= b}
<1>1. B \in U
  OBVIOUS
<1>2. PICK b \in U : \A c \in U : b <= c
  BY <1>1, LeastNatural
<1>5. \A t \in T : t \in Nat /\ t <= b
  BY <1>2
<1>3. CASE b = 0
  <2>1. \A t \in T : t = 0
    BY <1>3, <1>5
  <2>2. PICK x \in T : TRUE
    OBVIOUS
  <2>3. \A y \in T : y <= x
    BY <2>1, <2>2
  <2> QED BY <2>3
<1>4. CASE b # 0
  <2>1. b - 1 \notin U
    BY <1>2, <1>4
  <2>2. PICK t \in T : ~(t <= b - 1)
    BY <1>4, <2>1
  <2>3. t = b
    BY <1>5, <2>2
  <2> QED BY <1>5, <2>3
<1> QED BY <1>3, <1>4

\* Of messages that match, one is the newest.
Matches(m, r) == m.type = r[1] /\ m.epoch = r[2] /\ m.from = r[3]

LEMMA NewestMatches == \A c, r : \A m \in Newest(c, r) : m \in c /\ Matches(m, r)
  BY DEF Newest, Matches

LEMMA NewestExists ==
    ASSUME NEW c \in SUBSET MessageSet, NEW B \in Nat, \A m \in c : m.seq < B,
           NEW r, NEW m \in c, Matches(m, r)
    PROVE  Newest(c, r) # {}
<1> DEFINE match == {n \in c : Matches(n, r)}
<1> DEFINE T == {n.seq : n \in match}
<1>1. T \in SUBSET Nat /\ T # {} /\ \A t \in T : t < B
  BY DEF MessageSet
<1>2. PICK x \in T : \A y \in T : y <= x
  BY <1>1, GreatestNatural
<1>3. PICK n \in match : n.seq = x
  OBVIOUS
<1>4. n \in Newest(c, r)
  BY <1>2, <1>3 DEF Newest, Matches
<1> QED BY <1>4

LEMMA OneRule ==
    ASSUME NEW c, NEW start \in Nat, NEW r, FullPull(c, start, <<r>>), ~r[4]
    PROVE  Newest(c, r) # {} /\ \A m \in Newest(c, r) : m.seq = start
<1> DEFINE got == Pulled(c, <<r>>)
<1>4. DOMAIN <<r>> = {1} /\ <<r>>[1] = r
  OBVIOUS
<1>5. 1 \in got
  BY <1>4 DEF FullPull
<1>1. got = {1} /\ \A m \in Newest(c, r) : m.seq = start + Cardinality({j \in got : j < 1})
  BY <1>4, <1>5 DEF FullPull, Pulled
<1>2. {j \in got : j < 1} = {}
  BY <1>1
<1>3. Cardinality({j \in got : j < 1}) = 0
  BY <1>2, FS_EmptySet
<1> QED BY <1>1, <1>3 DEF Pulled

LEMMA PulledSize ==
    ASSUME NEW c, NEW rules, NEW n \in Nat, DOMAIN rules = 1 .. n
    PROVE  Cardinality(Pulled(c, rules)) \in 0 .. n
<1>1. IsFiniteSet(1 .. n) /\ Cardinality(1 .. n) = n
  <2>1. 1 \in Int /\ n \in Int
    OBVIOUS
  <2>2. IsFiniteSet(1 .. n) /\ Cardinality(1 .. n) = IF 1 > n THEN 0 ELSE n - 1 + 1
    BY <2>1, FS_Interval
  <2> QED BY <2>2
<1>2. Pulled(c, rules) \in SUBSET (1 .. n)
  BY DEF Pulled
<1> QED BY <1>1, <1>2, FS_Subset, FS_CardinalityType

\* The numbers of the messages of a flight.
LEMMA MessagesStep ==
    ASSUME NEW types, NEW n \in Nat
    PROVE  /\ Messages(types, n) \in 0 .. n
           /\ Messages(types, n + 1) =
                Messages(types, n) + IF types[n + 1] # "ChangeCipherSpec" THEN 1 ELSE 0
<1> DEFINE S == {i \in 1 .. n : types[i] # "ChangeCipherSpec"}
<1>1. 1 \in Int /\ n \in Int
  OBVIOUS
<1>2. IsFiniteSet(1 .. n) /\ Cardinality(1 .. n) = IF 1 > n THEN 0 ELSE n - 1 + 1
  BY <1>1, FS_Interval
<1>3. S \in SUBSET (1 .. n)
  OBVIOUS
<1>4. IsFiniteSet(S) /\ Cardinality(S) <= Cardinality(1 .. n) /\ Cardinality(S) \in Nat
  BY <1>2, <1>3, FS_Subset, FS_CardinalityType
<1>5. Cardinality(S) \in 0 .. n
  BY <1>2, <1>4
<1>6. CASE types[n + 1] # "ChangeCipherSpec"
  <2>1. {i \in 1 .. n + 1 : types[i] # "ChangeCipherSpec"} = S \cup {n + 1}
    BY <1>6
  <2>2. n + 1 \notin S
    OBVIOUS
  <2>3. Cardinality(S \cup {n + 1}) = Cardinality(S) + 1
    BY <1>4, <2>2, FS_AddElement
  <2> QED BY <1>5, <1>6, <2>1, <2>3 DEF Messages
<1>7. CASE types[n + 1] = "ChangeCipherSpec"
  <2>1. {i \in 1 .. n + 1 : types[i] # "ChangeCipherSpec"} = S
    BY <1>7
  <2> QED BY <1>5, <1>7, <2>1 DEF Messages
<1> QED BY <1>6, <1>7

LEMMA MessagesGrow ==
    ASSUME NEW types, NEW n \in Nat, NEW m \in 0 .. n
    PROVE  Messages(types, m) <= Messages(types, n)
<1> DEFINE S == {i \in 1 .. n : types[i] # "ChangeCipherSpec"}
           T == {i \in 1 .. m : types[i] # "ChangeCipherSpec"}
<1>1. 1 \in Int /\ n \in Int
  OBVIOUS
<1>2. IsFiniteSet(1 .. n)
  BY <1>1, FS_Interval
<1>3. S \in SUBSET (1 .. n) /\ T \in SUBSET S
  OBVIOUS
<1>4. IsFiniteSet(S)
  BY <1>2, <1>3, FS_Subset
<1>5. Cardinality(T) <= Cardinality(S)
  BY <1>3, <1>4, FS_Subset
<1> QED BY <1>5 DEF Messages

\* The first n packets are n messages but for the ChangeCipherSpec.
LEMMA MessagesWithout ==
    ASSUME NEW types, NEW n \in Nat, NEW k \in 1 .. n, types[k] = "ChangeCipherSpec"
    PROVE  Messages(types, n) <= n - 1
<1>1. k - 1 \in Nat /\ k \in Nat /\ n - k \in Nat /\ (k - 1) + 1 = k
  OBVIOUS
<1>2. Messages(types, k) = Messages(types, k - 1) /\ Messages(types, k - 1) \in 0 .. k - 1
  BY <1>1, MessagesStep
<1> DEFINE S == {i \in 1 .. n : types[i] # "ChangeCipherSpec"}
<1>3. 1 \in Int /\ n \in Int
  OBVIOUS
<1>4. IsFiniteSet(1 .. n) /\ Cardinality(1 .. n) = IF 1 > n THEN 0 ELSE n - 1 + 1
  BY <1>3, FS_Interval
<1>5. IsFiniteSet((1 .. n) \ {k}) /\ Cardinality((1 .. n) \ {k}) = Cardinality(1 .. n) - 1
  BY <1>4, FS_RemoveElement
<1>6. S \in SUBSET ((1 .. n) \ {k})
  OBVIOUS
<1>7. Cardinality(S) <= Cardinality((1 .. n) \ {k})
  BY <1>5, <1>6, FS_Subset
<1> QED BY <1>4, <1>5, <1>7 DEF Messages

LEMMA NumberedPackets ==
    ASSUME NEW s \in Sides, NEW types \in Seq(Types \cup {"ChangeCipherSpec"}),
           FirstSeq(s) \in Nat
    PROVE  LET pkts == Numbered(s, types) IN
           /\ DOMAIN pkts = 1 .. Len(types)
           /\ \A i \in 1 .. Len(types) :
                /\ pkts[i] \in [type : Types \cup {"ChangeCipherSpec"}, epoch : {0, 1}, seq : Nat]
                /\ pkts[i].type = types[i]
                /\ pkts[i].epoch = 1 <=> types[i] = "Finished"
                /\ types[i] # "ChangeCipherSpec" =>
                     /\ FirstSeq(s) <= pkts[i].seq
                     /\ pkts[i].seq < FirstSeq(s) + Messages(types, Len(types))
                     /\ \A j \in 1 .. i - 1 :
                          types[j] # "ChangeCipherSpec" => pkts[j].seq < pkts[i].seq
<1> DEFINE pkts == Numbered(s, types)
           N(n) == Messages(types, n)
<1>1. DOMAIN types = 1 .. Len(types) /\ Len(types) \in Nat
  OBVIOUS
<1>2. \A i \in 1 .. Len(types) :
        /\ N(i - 1) \in Nat /\ N(i) \in Nat /\ N(i) <= N(Len(types))
        /\ types[i] # "ChangeCipherSpec" => N(i) = N(i - 1) + 1
        /\ \A j \in 1 .. i - 1 : N(j) <= N(i - 1)
  <2> SUFFICES ASSUME NEW i \in 1 .. Len(types)
               PROVE  /\ N(i - 1) \in Nat /\ N(i) \in Nat /\ N(i) <= N(Len(types))
                      /\ types[i] # "ChangeCipherSpec" => N(i) = N(i - 1) + 1
                      /\ \A j \in 1 .. i - 1 : N(j) <= N(i - 1)
    OBVIOUS
  <2>1. i - 1 \in Nat /\ i \in Nat /\ (i - 1) + 1 = i /\ i \in 0 .. Len(types)
    BY <1>1
  <2>2. N(i - 1) \in Nat /\ N(i) \in Nat
    BY <2>1, MessagesStep
  <2>3. types[i] # "ChangeCipherSpec" => N(i) = N(i - 1) + 1
    BY <2>1, MessagesStep
  <2>4. N(i) <= N(Len(types))
    BY <1>1, <2>1, MessagesGrow
  <2>5. \A j \in 1 .. i - 1 : N(j) <= N(i - 1)
    BY <2>1, MessagesGrow
  <2> QED BY <2>2, <2>3, <2>4, <2>5
<1>3. \A i \in 1 .. Len(types) :
        pkts[i] = [type |-> types[i],
                   epoch |-> IF types[i] = "Finished" THEN 1 ELSE 0,
                   seq |-> IF types[i] = "ChangeCipherSpec" THEN 0
                           ELSE FirstSeq(s) + N(i - 1)]
  BY <1>1 DEF Numbered
<1>4. DOMAIN pkts = 1 .. Len(types)
  BY <1>1 DEF Numbered
<1> HIDE DEF pkts, N
<1>5. ASSUME NEW i \in 1 .. Len(types)
      PROVE  /\ pkts[i] \in [type : Types \cup {"ChangeCipherSpec"}, epoch : {0, 1}, seq : Nat]
             /\ pkts[i].type = types[i]
             /\ pkts[i].epoch = 1 <=> types[i] = "Finished"
             /\ types[i] # "ChangeCipherSpec" => pkts[i].seq = FirstSeq(s) + N(i - 1)
  <2> DEFINE e == IF types[i] = "Finished" THEN 1 ELSE 0
             n == IF types[i] = "ChangeCipherSpec" THEN 0 ELSE FirstSeq(s) + N(i - 1)
  <2>1. pkts[i] = [type |-> types[i], epoch |-> e, seq |-> n]
    BY <1>3
  <2>2. types[i] \in Types \cup {"ChangeCipherSpec"}
    BY <1>1
  <2>3. N(i - 1) \in Nat
    BY <1>2
  <2>4. e \in {0, 1} /\ n \in Nat
    BY <2>3
  <2>5. pkts[i].type = types[i] /\ pkts[i].epoch = e /\ pkts[i].seq = n
    BY <2>1
  <2>6. pkts[i] \in [type : Types \cup {"ChangeCipherSpec"}, epoch : {0, 1}, seq : Nat]
    <3> HIDE DEF e, n
    <3> QED BY <2>1, <2>2, <2>4
  <2> QED BY <2>5, <2>6
<1>6. ASSUME NEW i \in 1 .. Len(types), types[i] # "ChangeCipherSpec"
      PROVE  /\ FirstSeq(s) <= pkts[i].seq
             /\ pkts[i].seq < FirstSeq(s) + N(Len(types))
             /\ \A j \in 1 .. i - 1 : types[j] # "ChangeCipherSpec" => pkts[j].seq < pkts[i].seq
  <2>1. pkts[i].seq = FirstSeq(s) + N(i - 1)
    BY <1>5, <1>6
  <2>2. N(i) = N(i - 1) + 1 /\ N(i) <= N(Len(types)) /\ N(i - 1) \in Nat /\ N(i) \in Nat
    BY <1>2, <1>6
  <2>3. N(Len(types)) \in Nat
    BY <1>1, MessagesStep DEF N
  <2>4. ASSUME NEW j \in 1 .. i - 1, types[j] # "ChangeCipherSpec"
        PROVE  pkts[j].seq < pkts[i].seq
    <3>1. j \in 1 .. Len(types)
      BY <1>1
    <3>2. pkts[j].seq = FirstSeq(s) + N(j - 1)
      BY <1>5, <2>4, <3>1
    <3>3. N(j) = N(j - 1) + 1 /\ N(j - 1) \in Nat
      BY <1>2, <2>4, <3>1
    <3>4. N(j) <= N(i - 1)
      BY <1>2
    <3> QED BY <2>1, <2>2, <3>2, <3>3, <3>4
  <2> QED BY <2>1, <2>2, <2>3, <2>4
<1> QED BY <1>4, <1>5, <1>6 DEF pkts, N

-----------------------------------------------------------------------------
(* The fragment buffer                                                     *)

\* Numbers from a on without a gap are an interval.
LEMMA Segment ==
    ASSUME NEW a \in Nat, NEW B \in Nat, NEW K \in SUBSET Nat,
           \A k \in K : a <= k /\ k < B,
           \A k \in K : \A n \in a .. k : n \in K
    PROVE  Cardinality(K) \in Nat /\ K = a .. a + Cardinality(K) - 1
<1>1. CASE K = {}
  <2>1. Cardinality(K) = 0
    BY <1>1, FS_EmptySet
  <2> QED BY <1>1, <2>1
<1>2. CASE K # {}
  <2>1. PICK g \in K : \A k \in K : k <= g
    BY <1>2, GreatestNatural
  <2>2. K = a .. g
    <3>1. \A k \in K : k \in Nat /\ a <= k /\ k <= g
      BY <2>1
    <3>2. \A k \in K : k \in a .. g
      BY <3>1
    <3>3. \A n \in a .. g : n \in K
      OBVIOUS
    <3> QED BY <3>2, <3>3
  <2>3. a \in Int /\ g \in Int /\ a <= g
    BY <2>1
  <2>4. Cardinality(a .. g) = IF a > g THEN 0 ELSE g - a + 1
    BY <2>3, FS_Interval
  <2>5. Cardinality(K) = g - a + 1
    BY <2>2, <2>3, <2>4
  <2> QED BY <2>2, <2>3, <2>5
<1> QED BY <1>1, <1>2

\* What one side has sent bounds what the other can have in its buffer.
Bounded(p, s, B) == \A m \in From(p, s) : m.seq < B

\* Context d of side s comes from c: what it sent, and its secret, remain.
Extends(s, c, d) ==
    /\ c.cache \subseteq d.cache
    /\ From(d, s) = From(c, s)
    /\ d.secret = c.secret

LEMMA PeerSides == \A s \in Sides : Peer(s) \in Sides /\ Peer(s) # s /\ Peer(Peer(s)) = s
  BY DEF Peer, Sides

LEMMA ReassembleSound ==
    ASSUME NEW s \in Sides, NEW c \in ContextSet, NEW p \in ContextSet, NEW r \in RecordSet,
           NEW B \in Nat, Bounded(p, Peer(s), B),
           Sound(s, c, p), Genuine(Peer(s), p, r), IsHandshake(c, r)
    PROVE  LET d == Reassemble(s, c, r) IN
           /\ d \in ContextSet
           /\ Sound(s, d, p)
           /\ Extends(s, c, d)
           /\ d.queue = c.queue
           /\ r.seq = c.current /\ PartsOf(r.type) = 1 => From(d, Peer(s)) # {}
<1> DEFINE F == c.fragments \cup (IF r.seq >= c.current THEN {r} ELSE {})
           ready == {f \in F : \A n \in c.current .. f.seq : Complete(F, n)}
           K == {f.seq : f \in ready}
           M == {Message(f.type, Peer(s), f.epoch, f.seq, f.data) : f \in ready}
           d == Reassemble(s, c, r)
<1>0. Peer(s) \in Sides /\ Peer(s) # s
  BY PeerSides
<1>1. /\ c.cache \in SUBSET MessageSet /\ c.fragments \in SUBSET RecordSet /\ c.current \in Nat
      /\ c.remoteEpoch \in {0, 1} /\ c.queue \in Seq(RecordSet) /\ c.secret \in SUBSET IdSet
  BY DEF ContextSet
<1>2. \A f \in F : /\ f \in RecordSet
                   /\ f.seq >= c.current /\ f.type # "ChangeCipherSpec"
                   /\ Genuine(Peer(s), p, f)
                   /\ f.epoch = 1 => c.secret # {} /\ c.secret = p.secret
  <2>1. r.type # "ChangeCipherSpec" /\ (r.epoch = 1 => c.secret # {} /\ r.key = c.secret)
    BY DEF IsHandshake, Early
  <2>2. r.epoch = 1 => c.secret # {} /\ c.secret = p.secret
    BY <2>1 DEF Genuine
  <2> DEFINE Good(x) == /\ x \in RecordSet
                        /\ x.seq >= c.current /\ x.type # "ChangeCipherSpec"
                        /\ Genuine(Peer(s), p, x)
                        /\ x.epoch = 1 => c.secret # {} /\ c.secret = p.secret
  <2>4. r.seq >= c.current => Good(r)
    BY <2>1, <2>2
  <2>5. \A f \in c.fragments : Good(f)
    <3> SUFFICES ASSUME NEW f \in c.fragments PROVE Good(f)
      OBVIOUS
    <3>1. f \in RecordSet
      BY <1>1
    <3>2. f.seq >= c.current /\ f.type # "ChangeCipherSpec" /\ Genuine(Peer(s), p, f)
      BY DEF Sound
    <3>3. f.epoch = 1 => c.secret # {} /\ c.secret = p.secret
      BY DEF Sound
    <3> QED BY <3>1, <3>2, <3>3
  <2> HIDE DEF Good
  <2>6. \A f \in F : Good(f)
    <3>1. CASE r.seq >= c.current
      <4>1. F = c.fragments \cup {r}
        BY <3>1
      <4> QED BY <2>4, <2>5, <3>1, <4>1
    <3>2. CASE ~(r.seq >= c.current)
      <4>1. F = c.fragments
        BY <3>2
      <4> QED BY <2>5, <4>1
    <3> QED BY <3>1, <3>2
  <2> QED BY <2>6 DEF Good
<1>3. \A f \in F : /\ f.seq \in Nat /\ f.seq < B
                   /\ Message(f.type, Peer(s), f.epoch, f.seq, f.data) \in p.cache
                   /\ Message(f.type, Peer(s), f.epoch, f.seq, f.data) \in MessageSet
  <2> SUFFICES ASSUME NEW f \in F
               PROVE  /\ f.seq \in Nat /\ f.seq < B
                      /\ Message(f.type, Peer(s), f.epoch, f.seq, f.data) \in p.cache
                      /\ Message(f.type, Peer(s), f.epoch, f.seq, f.data) \in MessageSet
    OBVIOUS
  <2>1. Message(f.type, Peer(s), f.epoch, f.seq, f.data) \in p.cache
    BY <1>2 DEF Genuine, MessageOf
  <2>2. f.seq \in Nat /\ f.type \in Types /\ f.epoch \in {0, 1} /\ f.data \in DataSet
    BY <1>2 DEF RecordSet
  <2>3. Message(f.type, Peer(s), f.epoch, f.seq, f.data) \in MessageSet
    BY <1>0, <2>2 DEF Message, MessageSet
  <2>4. Message(f.type, Peer(s), f.epoch, f.seq, f.data) \in From(p, Peer(s))
    BY <2>1 DEF From, Message
  <2>5. Message(f.type, Peer(s), f.epoch, f.seq, f.data).seq = f.seq
    BY DEF Message
  <2>6. f.seq < B
    BY <2>4, <2>5 DEF Bounded
  <2> QED BY <2>1, <2>2, <2>3, <2>6
<1> HIDE DEF F
<1>4. K \in SUBSET Nat /\ \A k \in K : c.current <= k /\ k < B
  BY <1>1, <1>2, <1>3
<1>5. \A k \in K : \A n \in c.current .. k : n \in K
  <2> SUFFICES ASSUME NEW k \in K, NEW n \in c.current .. k PROVE n \in K
    OBVIOUS
  <2>1. PICK f \in ready : f.seq = k
    OBVIOUS
  <2>2. Complete(F, n)
    BY <2>1
  <2>3. PICK g \in F : g.seq = n
    BY <2>2 DEF Complete
  <2>4. \A i \in c.current .. g.seq : i \in c.current .. f.seq
    <3>1. k \in Nat /\ c.current \in Nat
      BY <1>1, <1>4
    <3> HIDE DEF K, ready
    <3>2. \A i \in c.current .. n : i \in c.current .. k
      BY <3>1
    <3> QED BY <2>1, <2>3, <3>2
  <2>5. g \in ready
    BY <2>1, <2>4
  <2> QED BY <2>3, <2>5
<1>6. Cardinality(K) \in Nat /\ K = c.current .. c.current + Cardinality(K) - 1
  <2> HIDE DEF K
  <2> QED BY <1>1, <1>4, <1>5, Segment
<1>7. \A m \in M : /\ m \in MessageSet /\ m \in p.cache /\ m.from = Peer(s) /\ m.seq \in K
                   /\ m.epoch = 1 => c.secret # {} /\ c.secret = p.secret
  <2> SUFFICES ASSUME NEW m \in M
               PROVE  /\ m \in MessageSet /\ m \in p.cache /\ m.from = Peer(s) /\ m.seq \in K
                      /\ m.epoch = 1 => c.secret # {} /\ c.secret = p.secret
    OBVIOUS
  <2>1. PICK f \in ready : m = Message(f.type, Peer(s), f.epoch, f.seq, f.data)
    OBVIOUS
  <2>2. m.from = Peer(s) /\ m.seq = f.seq /\ m.epoch = f.epoch
    BY <2>1 DEF Message
  <2> QED BY <1>2, <1>3, <2>1, <2>2
<1>8. \A k \in K : \E m \in M : m.seq = k
  <2> SUFFICES ASSUME NEW k \in K PROVE \E m \in M : m.seq = k
    OBVIOUS
  <2>1. PICK f \in ready : f.seq = k
    OBVIOUS
  <2>2. Message(f.type, Peer(s), f.epoch, f.seq, f.data) \in M
    OBVIOUS
  <2> QED BY <2>1, <2>2 DEF Message
<1>9. \A f \in F \ ready : f.seq \notin K
  <2> SUFFICES ASSUME NEW f \in F, f.seq \in K PROVE f \in ready
    OBVIOUS
  <2>1. PICK g \in ready : g.seq = f.seq
    OBVIOUS
  <2> QED BY <2>1
<1>10. ready \subseteq F
  OBVIOUS
<1>11. d = [c EXCEPT !.fragments = F \ ready, !.current = @ + Cardinality(K),
                     !.cache = Push(@, M)]
  BY DEF Reassemble, F
<1> HIDE DEF K, M, ready
<1>12. Push(c.cache, M) = c.cache \cup M
  <2>1. \A m \in M, n \in c.cache : n.seq # m.seq \/ n.from # m.from
    <3> SUFFICES ASSUME NEW m \in M, NEW n \in c.cache, n.from = m.from PROVE n.seq # m.seq
      OBVIOUS
    <3>1. n \in From(c, Peer(s))
      BY <1>7 DEF From
    <3>2. n.seq \in 0 .. c.current - 1
      BY <3>1 DEF Sound
    <3>3. m.seq \in Nat /\ c.current <= m.seq
      BY <1>4, <1>7
    <3> QED BY <1>1, <3>2, <3>3
  <2> QED BY <2>1 DEF Push
<1>13. /\ d.cache = c.cache \cup M /\ d.fragments = F \ ready
       /\ d.current = c.current + Cardinality(K)
       /\ d.remoteEpoch = c.remoteEpoch /\ d.queue = c.queue /\ d.secret = c.secret
       /\ d = [cache |-> d.cache, fragments |-> d.fragments, current |-> d.current,
               remoteEpoch |-> d.remoteEpoch, queue |-> d.queue, secret |-> d.secret]
  BY <1>11, <1>12 DEF ContextSet
<1> HIDE DEF d
<1>14. d \in ContextSet
  <2>1. d.cache \in SUBSET MessageSet
    BY <1>1, <1>7, <1>13
  <2>2. d.fragments \in SUBSET RecordSet
    BY <1>2, <1>13
  <2>3. d.current \in Nat
    BY <1>1, <1>6, <1>13
  <2> QED BY <1>1, <1>13, <2>1, <2>2, <2>3 DEF ContextSet
<1>15. From(d, Peer(s)) = From(c, Peer(s)) \cup M
  BY <1>7, <1>13 DEF From
<1>16. Extends(s, c, d)
  BY <1>0, <1>7, <1>13 DEF From, Extends
<1>17. {m.seq : m \in From(d, Peer(s))} = 0 .. d.current - 1
  <2> DEFINE X == {m.seq : m \in From(c, Peer(s))}
             Y == {m.seq : m \in M}
  <2>1. {m.seq : m \in From(d, Peer(s))} = X \cup Y
    BY <1>15
  <2>2. X = 0 .. c.current - 1
    BY DEF Sound
  <2>3. Y = K
    BY <1>7, <1>8
  <2> HIDE DEF X, Y
  <2>4. X \cup Y = (0 .. c.current - 1) \cup (c.current .. c.current + Cardinality(K) - 1)
    BY <1>6, <2>2, <2>3
  <2>5. \A a, b \in Nat : (0 .. a - 1) \cup (a .. a + b - 1) = 0 .. a + b - 1
    OBVIOUS
  <2>6. c.current \in Nat /\ Cardinality(K) \in Nat
    BY <1>1, <1>6
  <2>7. X \cup Y = 0 .. c.current + Cardinality(K) - 1
    BY <2>4, <2>5, <2>6
  <2>8. d.current = c.current + Cardinality(K)
    BY <1>13
  <2> QED BY <2>1, <2>6, <2>7, <2>8
<1>18. Sound(s, d, p)
  <2>1. \A m \in From(d, Peer(s)) : m \in p.cache
    BY <1>7, <1>15 DEF Sound
  <2>2. \A f \in d.fragments :
          f.seq >= d.current /\ f.type # "ChangeCipherSpec" /\ Genuine(Peer(s), p, f)
    <3> SUFFICES ASSUME NEW f \in F \ ready PROVE f.seq >= c.current + Cardinality(K)
      BY <1>2, <1>13
    <3>1. f.seq \in Nat /\ f.seq >= c.current /\ f.seq \notin K
      BY <1>2, <1>3, <1>9
    <3> QED BY <1>1, <1>6, <3>1
  <2>3. \A i \in DOMAIN d.queue : Genuine(Peer(s), p, d.queue[i])
    BY <1>13 DEF Sound
  <2>4. \A m \in From(d, Peer(s)) \cup d.fragments :
          m.epoch = 1 => d.secret # {} /\ d.secret = p.secret
    BY <1>2, <1>7, <1>13, <1>15 DEF Sound
  <2> QED BY <1>17, <2>1, <2>2, <2>3, <2>4 DEF Sound
<1>19. r.seq = c.current /\ PartsOf(r.type) = 1 => From(d, Peer(s)) # {}
  <2> SUFFICES ASSUME r.seq = c.current, PartsOf(r.type) = 1 PROVE M # {}
    BY <1>15
  <2>1. r \in F
    BY <1>1 DEF F
  <2>2. r.part = 1
    BY DEF Genuine
  <2>3. [r EXCEPT !.part = 1] = r
    BY <2>2 DEF RecordSet
  <2>4. Complete(F, r.seq)
    BY <2>1, <2>3 DEF Complete
  <2>5. c.current .. r.seq = {r.seq}
    BY <1>1
  <2>6. r \in ready
    BY <2>1, <2>4, <2>5 DEF ready
  <2> QED BY <2>6 DEF M
<1> QED BY <1>13, <1>14, <1>16, <1>18, <1>19 DEF d

LEMMA IncomingSound ==
    ASSUME NEW s \in Sides, NEW c \in ContextSet, NEW p \in ContextSet, NEW r \in RecordSet,
           NEW B \in Nat, Bounded(p, Peer(s), B), NEW enqueue \in BOOLEAN,
           Sound(s, c, p), Genuine(Peer(s), p, r)
    PROVE  LET d == Incoming(s, c, r, enqueue) IN
           /\ d \in ContextSet
           /\ Sound(s, d, p)
           /\ Extends(s, c, d)
           /\ ~enqueue => d.queue = c.queue
           /\ IsHandshake(c, r) /\ r.seq = c.current /\ PartsOf(r.type) = 1
                => From(d, Peer(s)) # {}
<1> DEFINE d == Incoming(s, c, r, enqueue)
<1>1. /\ c.cache \in SUBSET MessageSet /\ c.fragments \in SUBSET RecordSet /\ c.current \in Nat
      /\ c.remoteEpoch \in {0, 1} /\ c.queue \in Seq(RecordSet) /\ c.secret \in SUBSET IdSet
  BY DEF ContextSet
<1>2. Extends(s, c, c)
  BY DEF Extends
<1>3. CASE Early(c, r) /\ ~enqueue
  <2>1. d = c /\ ~IsHandshake(c, r)
    BY <1>3 DEF Incoming, IsHandshake
  <2> QED BY <1>2, <2>1
<1>4. CASE Early(c, r) /\ enqueue
  <2> DEFINE q == Append(c.queue, r)
  <2>1. d = [c EXCEPT !.queue = q] /\ ~IsHandshake(c, r)
    BY <1>4 DEF Incoming, IsHandshake
  <2>2. q \in Seq(RecordSet)
    BY <1>1
  <2>3. \A i \in DOMAIN q : Genuine(Peer(s), p, q[i])
    <3> SUFFICES ASSUME NEW i \in DOMAIN q PROVE Genuine(Peer(s), p, q[i])
      OBVIOUS
    <3>1. i \in 1 .. Len(c.queue) + 1
      BY <1>1
    <3>2. CASE i = Len(c.queue) + 1
      <4>1. q[i] = r
        BY <1>1, <3>2
      <4> QED BY <4>1
    <3>3. CASE i \in 1 .. Len(c.queue)
      <4>1. q[i] = c.queue[i] /\ i \in DOMAIN c.queue
        BY <1>1, <3>3
      <4> QED BY <4>1 DEF Sound
    <3> QED BY <1>1, <3>1, <3>2, <3>3
  <2> HIDE DEF q
  <2>4. d \in ContextSet
    BY <2>1, <2>2 DEF ContextSet
  <2>5. /\ d.cache = c.cache /\ d.fragments = c.fragments /\ d.current = c.current
        /\ d.queue = q /\ d.secret = c.secret
    BY <2>1 DEF ContextSet
  <2>6. Sound(s, d, p)
    BY <2>3, <2>5 DEF Sound, From
  <2>7. Extends(s, c, d)
    BY <2>5 DEF Extends, From
  <2> QED BY <1>4, <2>1, <2>4, <2>6, <2>7
<1>5. CASE ~Early(c, r) /\ IsHandshake(c, r)
  <2>1. d = Reassemble(s, c, r)
    <3>1. r.type # "ChangeCipherSpec"
      BY <1>5 DEF IsHandshake
    <3> QED BY <1>5, <3>1 DEF Incoming
  <2> HIDE DEF d
  <2> QED BY <1>5, <2>1, ReassembleSound DEF d
<1>6. CASE ~Early(c, r) /\ ~IsHandshake(c, r) /\ r.type = "ChangeCipherSpec"
  <2>1. d = [c EXCEPT !.remoteEpoch = 1]
    BY <1>6 DEF Incoming
  <2>2. d \in ContextSet
    BY <2>1 DEF ContextSet
  <2>3. /\ d.cache = c.cache /\ d.fragments = c.fragments /\ d.current = c.current
        /\ d.queue = c.queue /\ d.secret = c.secret
    BY <2>1 DEF ContextSet
  <2>4. Sound(s, d, p)
    BY <2>3 DEF Sound, From
  <2>5. Extends(s, c, d)
    BY <2>3 DEF Extends, From
  <2> QED BY <1>6, <2>2, <2>3, <2>4, <2>5
<1>7. CASE ~Early(c, r) /\ ~IsHandshake(c, r) /\ r.type # "ChangeCipherSpec"
  <2>1. d = c
    BY <1>7 DEF Incoming
  <2> QED BY <1>2, <1>7, <2>1
<1> QED BY <1>3, <1>4, <1>5, <1>6, <1>7

\* What is received stays so when the peer sends more or gets its keys.
Advances(p, q) ==
    /\ p.cache \subseteq q.cache
    /\ p.secret = {} \/ q.secret = p.secret

LEMMA GenuineStays ==
    ASSUME NEW s, NEW p, NEW q, Advances(p, q), NEW r, Genuine(s, p, r)
    PROVE  Genuine(s, q, r)
  BY DEF Genuine, Advances

LEMMA AllGenuineStays ==
    ASSUME NEW s, NEW p, NEW q, Advances(p, q), NEW rs, AllGenuine(s, p, rs)
    PROVE  AllGenuine(s, q, rs)
  BY GenuineStays DEF AllGenuine

LEMMA SoundStays ==
    ASSUME NEW s, NEW c, NEW p, NEW q, Advances(p, q), Sound(s, c, p)
    PROVE  Sound(s, c, q)
<1>1. \A m \in From(c, Peer(s)) : m \in q.cache
  BY DEF Sound, Advances
<1>2. {m.seq : m \in From(c, Peer(s))} = 0 .. c.current - 1
  BY DEF Sound
<1>3. \A f \in c.fragments :
        f.seq >= c.current /\ f.type # "ChangeCipherSpec" /\ Genuine(Peer(s), q, f)
  BY GenuineStays DEF Sound
<1>4. \A i \in DOMAIN c.queue : Genuine(Peer(s), q, c.queue[i])
  BY GenuineStays DEF Sound
<1>5. \A m \in From(c, Peer(s)) \cup c.fragments :
        m.epoch = 1 => c.secret # {} /\ c.secret = q.secret
  BY DEF Sound, Advances
<1> QED BY <1>1, <1>2, <1>3, <1>4, <1>5 DEF Sound

\* The records that waited are read one after the other.
LEMMA DrainedSound ==
    ASSUME NEW s \in Sides, NEW c \in ContextSet, NEW p \in ContextSet,
           NEW q \in Seq(RecordSet), NEW B \in Nat, Bounded(p, Peer(s), B),
           Sound(s, c, p), \A i \in DOMAIN q : Genuine(Peer(s), p, q[i])
    PROVE  \A d \in Drained(s, c, q) : d \in ContextSet /\ Sound(s, d, p) /\ Extends(s, c, d)
<1> DEFINE Next1(S, i) == {Incoming(s, d, q[i], FALSE) : d \in S}
           Is(f, n) == f = [i \in 0 .. n |-> IF i = 0 THEN {c} ELSE Next1(f[i - 1], i)]
           Good(d) == d \in ContextSet /\ Sound(s, d, p) /\ Extends(s, c, d)
           L == Len(q)
<1>1. L \in Nat /\ DOMAIN q = 1 .. L /\ \A i \in 1 .. L : q[i] \in RecordSet
  OBVIOUS
<1>2. Good(c)
  BY DEF Extends
<1>3. ASSUME NEW i \in 1 .. L, NEW d, Good(d) PROVE Good(Incoming(s, d, q[i], FALSE))
  <2> DEFINE e == Incoming(s, d, q[i], FALSE)
  <2>1. Genuine(Peer(s), p, q[i]) /\ FALSE \in BOOLEAN /\ q[i] \in RecordSet
    BY <1>1
  <2>2. d \in ContextSet /\ Sound(s, d, p) /\ Extends(s, c, d)
    BY <1>3
  <2>3. e \in ContextSet /\ Sound(s, e, p) /\ Extends(s, d, e)
    BY <2>1, <2>2, IncomingSound
  <2> HIDE DEF e
  <2>4. Extends(s, c, e)
    BY <2>2, <2>3 DEF Extends
  <2> QED BY <2>3, <2>4 DEF e
<1> HIDE DEF Good
<1>4. \A n \in Nat : \E f : Is(f, n)
  <2> DEFINE T == {n \in Nat : ~\E f : Is(f, n)}
  <2> SUFFICES ASSUME T # {} PROVE FALSE
    OBVIOUS
  <2>1. PICK n \in T : \A m \in T : n <= m
    BY LeastNatural
  <2>2. CASE n = 0
    <3> DEFINE f == [i \in 0 .. 0 |-> {c}]
    <3>1. f = [i \in 0 .. n |-> IF i = 0 THEN {c} ELSE Next1(f[i - 1], i)]
      BY <2>2
    <3> QED BY <3>1
  <2>3. CASE n # 0
    <3>1. n \in Nat /\ n - 1 \in Nat /\ ~(n <= n - 1)
      BY <2>3
    <3>0. n - 1 \notin T
      <4> HIDE DEF T
      <4> QED BY <2>1, <3>1
    <3>2. PICK f : Is(f, n - 1)
      BY <3>0, <3>1
    <3> DEFINE g == [i \in 0 .. n |-> IF i = n THEN Next1(f[n - 1], n) ELSE f[i]]
    <3> HIDE DEF Next1
    <3>3. \A i \in 0 .. n : g[i] = IF i = 0 THEN {c} ELSE Next1(g[i - 1], i)
      <4> SUFFICES ASSUME NEW i \in 0 .. n
                   PROVE  g[i] = IF i = 0 THEN {c} ELSE Next1(g[i - 1], i)
        OBVIOUS
      <4>1. CASE i = n
        <5>1. n - 1 \in 0 .. n /\ n - 1 # n
          BY <3>1
        <5> QED BY <2>3, <3>1, <4>1, <5>1
      <4>2. CASE i # n /\ i # 0
        <5>1. i \in 0 .. n - 1 /\ i - 1 \in 0 .. n /\ i - 1 # n
          BY <3>1, <4>2
        <5>2. g[i] = f[i] /\ g[i - 1] = f[i - 1]
          BY <4>2, <5>1
        <5>3. f[i] = Next1(f[i - 1], i)
          BY <3>2, <4>2, <5>1
        <5> QED BY <4>2, <5>2, <5>3
      <4>3. CASE i # n /\ i = 0
        <5>1. 0 \in 0 .. n - 1
          BY <3>1
        <5> QED BY <3>2, <4>3, <5>1
      <4> QED BY <4>1, <4>2, <4>3
    <3>4. Is(g, n)
      BY <3>3
    <3> QED BY <3>4
  <2> QED BY <2>2, <2>3
<1> DEFINE after == CHOOSE f : Is(f, L)
<1>5. Is(after, L)
  BY <1>1, <1>4
<1>6. Drained(s, c, q) = after[L]
  BY DEF Drained
<1> HIDE DEF after
<1>7. /\ after[0] = {c}
      /\ \A i \in 1 .. L : after[i] = {Incoming(s, d, q[i], FALSE) : d \in after[i - 1]}
  BY <1>1, <1>5
<1> HIDE DEF Next1, Is, L
<1> DEFINE Bad == {n \in 0 .. L : ~\A d \in after[n] : Good(d)}
<1>8. Bad = {}
  <2> SUFFICES ASSUME Bad # {} PROVE FALSE
    OBVIOUS
  <2>1. Bad \in SUBSET Nat
    OBVIOUS
  <2>2. PICK n \in Bad : \A m \in Bad : n <= m
    BY <2>1, LeastNatural
  <2>3. CASE n = 0
    BY <1>2, <1>7, <2>2, <2>3
  <2>4. CASE n # 0
    <3>1. n - 1 \in 0 .. L /\ n \in 1 .. L /\ ~(n <= n - 1)
      BY <1>1, <2>4
    <3>2. n - 1 \notin Bad
      BY <2>2, <3>1
    <3>3. \A d \in after[n - 1] : Good(d)
      BY <3>1, <3>2
    <3>4. after[n] = {Incoming(s, d, q[n], FALSE) : d \in after[n - 1]}
      BY <1>7, <3>1
    <3>5. \A d \in after[n] : Good(d)
      <4> SUFFICES ASSUME NEW e \in after[n] PROVE Good(e)
        OBVIOUS
      <4>1. PICK d \in after[n - 1] : e = Incoming(s, d, q[n], FALSE)
        BY <3>4
      <4>2. Good(d)
        BY <3>3
      <4> QED BY <1>3, <3>1, <4>1, <4>2
    <3> QED BY <3>5
  <2> QED BY <2>3, <2>4
<1>9. \A d \in after[L] : Good(d)
  BY <1>1, <1>8
<1> QED BY <1>6, <1>9 DEF Good

-----------------------------------------------------------------------------
(* The datagrams of a flight                                               *)

\* The records that side s sends for packets.
Sent(pkts) ==
    {r \in RecordSet : \E p \in ToSet(pkts) : \E n \in 1 .. PartsOf(p.type) : r = Fragments(p)[n]}

LEMMA FragmentsSent ==
    ASSUME NEW pkts \in Seq(PacketSet), NEW p \in ToSet(pkts)
    PROVE  Fragments(p) \in Seq(Sent(pkts))
<1>1. p \in PacketSet
  BY DEF ToSet
<1>2. PartsOf(p.type) \in Nat
  BY HandshakeAssumption DEF PartsOf
<1>3. ASSUME NEW n \in 1 .. PartsOf(p.type) PROVE Fragments(p)[n] \in Sent(pkts)
  <2>1. Fragments(p)[n] = [type |-> p.type, epoch |-> p.epoch, seq |-> p.seq, key |-> p.key,
                           data |-> p.data, part |-> n]
    BY DEF Fragments
  <2>2. n \in Nat
    BY <1>2
  <2>3. /\ p.type \in Types \cup {"ChangeCipherSpec"} /\ p.epoch \in {0, 1} /\ p.seq \in Nat
        /\ p.key \in SUBSET IdSet /\ p.data \in DataSet
    BY <1>1 DEF PacketSet
  <2>4. Fragments(p)[n] \in RecordSet
    BY <2>1, <2>2, <2>3 DEF RecordSet
  <2> QED BY <2>4 DEF Sent
<1>4. DOMAIN Fragments(p) = 1 .. PartsOf(p.type)
  BY DEF Fragments
<1>5. Fragments(p) \in [1 .. PartsOf(p.type) -> Sent(pkts)]
  <2> DEFINE e(n) == [type |-> p.type, epoch |-> p.epoch, seq |-> p.seq, key |-> p.key,
                      data |-> p.data, part |-> n]
  <2>1. Fragments(p) = [n \in 1 .. PartsOf(p.type) |-> e(n)]
    BY DEF Fragments
  <2>2. \A n \in 1 .. PartsOf(p.type) : e(n) \in Sent(pkts)
    BY <1>3, <2>1
  <2> HIDE DEF e
  <2> QED BY <2>1, <2>2
<1> QED BY <1>2, <1>5

LEMMA RecordsSent ==
    ASSUME NEW pkts \in Seq(PacketSet)
    PROVE  Records(pkts) \in Seq(Sent(pkts))
<1> DEFINE L == Len(pkts)
           Is(f, n) == f = [i \in 0 .. n |->
                             IF i = 0 THEN <<>> ELSE f[i - 1] \o Fragments(pkts[i])]
<1>1. L \in Nat /\ \A i \in 1 .. L : pkts[i] \in ToSet(pkts)
  BY DEF ToSet
<1>2. \A n \in Nat : \E f : Is(f, n)
  <2> DEFINE T == {n \in Nat : ~\E f : Is(f, n)}
  <2> SUFFICES ASSUME T # {} PROVE FALSE
    OBVIOUS
  <2>1. PICK n \in T : \A m \in T : n <= m
    BY LeastNatural
  <2>2. CASE n = 0
    <3> DEFINE f == [i \in 0 .. 0 |-> <<>>]
    <3>1. f = [i \in 0 .. n |-> IF i = 0 THEN <<>> ELSE f[i - 1] \o Fragments(pkts[i])]
      BY <2>2
    <3> QED BY <3>1
  <2>3. CASE n # 0
    <3>1. n \in Nat /\ n - 1 \in Nat /\ ~(n <= n - 1)
      BY <2>3
    <3>2. n - 1 \notin T
      <4> HIDE DEF T
      <4> QED BY <2>1, <3>1
    <3>3. PICK f : Is(f, n - 1)
      BY <3>1, <3>2
    <3> DEFINE g == [i \in 0 .. n |-> IF i = n THEN f[n - 1] \o Fragments(pkts[n]) ELSE f[i]]
    <3>4. \A i \in 0 .. n : g[i] = IF i = 0 THEN <<>> ELSE g[i - 1] \o Fragments(pkts[i])
      <4> SUFFICES ASSUME NEW i \in 0 .. n
                   PROVE  g[i] = IF i = 0 THEN <<>> ELSE g[i - 1] \o Fragments(pkts[i])
        OBVIOUS
      <4>1. CASE i = n
        <5>1. n - 1 \in 0 .. n /\ n - 1 # n
          BY <3>1
        <5> QED BY <2>3, <3>1, <4>1, <5>1
      <4>2. CASE i # n /\ i # 0
        <5>1. i \in 0 .. n - 1 /\ i - 1 \in 0 .. n /\ i - 1 # n
          BY <3>1, <4>2
        <5>2. g[i] = f[i] /\ g[i - 1] = f[i - 1]
          BY <4>2, <5>1
        <5>3. f[i] = f[i - 1] \o Fragments(pkts[i])
          BY <3>3, <4>2, <5>1
        <5> QED BY <4>2, <5>2, <5>3
      <4>3. CASE i # n /\ i = 0
        <5>1. 0 \in 0 .. n - 1
          BY <3>1
        <5> QED BY <3>3, <4>3, <5>1
      <4> QED BY <4>1, <4>2, <4>3
    <3>5. Is(g, n)
      BY <3>4
    <3> QED BY <3>5
  <2> QED BY <2>2, <2>3
<1> DEFINE upTo == CHOOSE f : Is(f, L)
<1>3. Is(upTo, L)
  BY <1>1, <1>2
<1>4. Records(pkts) = upTo[L]
  BY DEF Records
<1> HIDE DEF upTo
<1>5. /\ upTo[0] = <<>>
      /\ \A i \in 1 .. L : upTo[i] = upTo[i - 1] \o Fragments(pkts[i])
  BY <1>1, <1>3
<1> HIDE DEF Is, L
<1> DEFINE Bad == {n \in 0 .. L : upTo[n] \notin Seq(Sent(pkts))}
<1>6. Bad = {}
  <2> SUFFICES ASSUME Bad # {} PROVE FALSE
    OBVIOUS
  <2>1. Bad \in SUBSET Nat
    OBVIOUS
  <2>2. PICK n \in Bad : \A m \in Bad : n <= m
    BY <2>1, LeastNatural
  <2>3. CASE n = 0
    <3>1. upTo[n] = <<>>
      BY <1>5, <2>3
    <3>2. <<>> \in Seq(Sent(pkts))
      OBVIOUS
    <3>3. upTo[n] \notin Seq(Sent(pkts))
      BY <2>2
    <3> QED BY <3>1, <3>2, <3>3
  <2>4. CASE n # 0
    <3>1. n - 1 \in 0 .. L /\ n \in 1 .. L /\ ~(n <= n - 1)
      BY <1>1, <2>4
    <3>2. n - 1 \notin Bad
      BY <2>2, <3>1
    <3>3. upTo[n - 1] \in Seq(Sent(pkts))
      BY <3>1, <3>2
    <3>4. Fragments(pkts[n]) \in Seq(Sent(pkts))
      BY <1>1, <3>1, FragmentsSent
    <3>5. upTo[n - 1] \o Fragments(pkts[n]) \in Seq(Sent(pkts))
      BY <3>3, <3>4
    <3> QED BY <1>5, <3>1, <3>5
  <2> QED BY <2>3, <2>4
<1> QED BY <1>1, <1>4, <1>6

LEMMA NotAlert == \A rs \in Seq(RecordSet) : rs # <<Alert>>
<1>1. Alert \notin RecordSet
  <2>1. \A r \in RecordSet : r.type # "Alert"
    BY DEF RecordSet, Types
  <2>2. Alert.type = "Alert"
    BY DEF Alert
  <2> QED BY <2>1, <2>2
<1> SUFFICES ASSUME NEW rs \in Seq(RecordSet) PROVE rs # <<Alert>>
  OBVIOUS
<1>2. 1 \in DOMAIN rs => rs[1] \in RecordSet
  OBVIOUS
<1>3. 1 \in DOMAIN <<Alert>> /\ <<Alert>>[1] = Alert
  OBVIOUS
<1> QED BY <1>1, <1>2, <1>3

\* What is sent is genuine once the messages are in the cache.
LEMMA DatagramsGenuine ==
    ASSUME NEW s \in Sides, NEW p, NEW pkts \in Seq(PacketSet),
           \A x \in ToSet(pkts) :
             /\ x.type # "ChangeCipherSpec" => MessageOf(s, x) \in p.cache
             /\ x.epoch = 1 => x.key = p.secret /\ x.key # {}
             /\ x.epoch = 1 <=> x.type = "Finished",
           NEW d \in Datagrams(s, pkts)
    PROVE  /\ d \in [to : Sides, records : RecordsSet]
           /\ d.to = Peer(s)
           /\ d.records # <<Alert>>
           /\ AllGenuine(s, p, d.records)
<1> DEFINE rs == Records(pkts)
<1>1. rs \in Seq(Sent(pkts))
  BY RecordsSent
<1> HIDE DEF rs
<1>2. PICK i \in DOMAIN rs :
        d = [to |-> Peer(s), records |-> SubSeq(rs, i, IF i + Room - 1 < Len(rs)
                                                       THEN i + Room - 1 ELSE Len(rs))]
  BY DEF Datagrams, rs
<1> DEFINE j == IF i + Room - 1 < Len(rs) THEN i + Room - 1 ELSE Len(rs)
           sub == SubSeq(rs, i, j)
<1>3. i \in 1 .. Len(rs) /\ Len(rs) \in Nat /\ Room \in Nat \ {0}
  BY <1>1, HandshakeAssumption
<1>4. j \in Nat /\ i <= j /\ j <= Len(rs)
  BY <1>3
<1> HIDE DEF j
<1>5. sub \in Seq(Sent(pkts))
  BY <1>1, <1>3, <1>4
<1> HIDE DEF sub
<1>6. d.to = Peer(s) /\ d.records = sub /\ d = [to |-> d.to, records |-> d.records]
  BY <1>2 DEF sub, j
<1>7. sub \in Seq(RecordSet)
  BY <1>5 DEF Sent
<1>8. sub # <<Alert>>
  BY <1>7, NotAlert
<1>9. ASSUME NEW k \in DOMAIN sub PROVE Genuine(s, p, sub[k])
  <2>1. sub[k] \in Sent(pkts)
    BY <1>5
  <2>2. PICK x \in ToSet(pkts) : \E n \in 1 .. PartsOf(x.type) : sub[k] = Fragments(x)[n]
    BY <2>1 DEF Sent
  <2>3. PICK n \in 1 .. PartsOf(x.type) : sub[k] = Fragments(x)[n]
    BY <2>2
  <2>4. Fragments(x)[n] = [type |-> x.type, epoch |-> x.epoch, seq |-> x.seq, key |-> x.key,
                           data |-> x.data, part |-> n]
    BY DEF Fragments
  <2>5. /\ sub[k].type = x.type /\ sub[k].epoch = x.epoch /\ sub[k].seq = x.seq
        /\ sub[k].key = x.key /\ sub[k].data = x.data /\ sub[k].part = n
    BY <2>3, <2>4
  <2>6. MessageOf(s, sub[k]) = MessageOf(s, x)
    BY <2>5 DEF MessageOf
  <2> QED BY <2>5, <2>6 DEF Genuine
<1>10. Peer(s) \in Sides
  BY PeerSides
<1> QED BY <1>6, <1>7, <1>8, <1>9, <1>10 DEF AllGenuine, RecordsSet
=============================================================================
