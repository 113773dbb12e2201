---------------------------- MODULE DtlsHandshake ----------------------------
(***************************************************************************)
(* The DTLS 1.2 handshake of the vendored webrtc-dtls crate between a      *)
(* client and a server (vendor-webrtc-dtls/src).  The proxy is the server  *)
(* of its browsers.  On each side two tasks run concurrently: handshake(), *)
(* the state machine of handshaker.rs over the flights of flight/, and the *)
(* reader of conn/mod.rs, which reassembles the records of a datagram into *)
(* the handshake cache and hands the cache over to the state machine.      *)
(*                                                                         *)
(* Messages are reduced to their type, sequence number and epoch; hashes   *)
(* and keys to the messages they are made over; certificates are valid,    *)
(* and no pre-shared keys are used.  The network loses and reorders        *)
(* datagrams.  One that it duplicates is dropped by the replay window      *)
(* (webrtc-util) before it has any effect, and is left out.                *)
(***************************************************************************)
EXTENDS Naturals, FiniteSets, SequencesExt

CONSTANTS
    Room,          \* records of a flight that fit in a datagram
    Parts,         \* fragments a Certificate message is sent in
    ClientAuth,    \* the server requires a client certificate (any will do)
    Offers,        \* what clients may offer as elliptic curves, in order
    Implemented,   \* the curves NamedCurve has
    MaxFaults      \* bound: datagrams lost, and timers that fire although
                   \* the flight is still under way

ASSUME HandshakeAssumption ==
    /\ {Room, Parts} \subseteq Nat \ {0}
    /\ MaxFaults \in Nat
    /\ ClientAuth \in BOOLEAN
    /\ \A o \in Offers : o \in Seq(ToSet(o)) \ {<<>>}

Sides == {"client", "server"}
Peer(s) == IF s = "client" THEN "server" ELSE "client"

VARIABLES
    offer,      \* the curves of the client's hello
    flight,     \* current_flight, as its number
    fsm,        \* HandshakeState; "done" once handshake() has returned
    flights,    \* the packets of the current flight
    sendSeq,    \* handshake_send_sequence
    recvSeq,    \* handshake_recv_sequence
    ctx,        \* what the two tasks share: cache, fragment buffer (as the
                \* fragments and current_message_sequence_number), remote
                \* epoch, encrypted_packets, and the cipher suite's secret,
                \* which is {} until it is initialized
    reader,     \* "reading"; "offering" a handshake to handshake_tx;
                \* "waiting" for the state machine to be done with it; "exited"
    inbox,      \* the records of a datagram still to be read, and has_handshake
    network,    \* datagrams under way
    faults

vars == <<offer, flight, fsm, flights, sendSeq, recvSeq, ctx, reader, inbox,
          network, faults>>

Init ==
    /\ offer \in Offers
    /\ flight = [s \in Sides |-> IF s = "client" THEN 1 ELSE 0]
    /\ fsm = [s \in Sides |-> "preparing"]
    /\ flights = [s \in Sides |-> <<>>]
    /\ sendSeq = [s \in Sides |-> 0]
    /\ recvSeq = [s \in Sides |-> 0]
    /\ ctx = [s \in Sides |-> [cache |-> {}, fragments |-> {}, current |-> 0,
                               remoteEpoch |-> 0, queue |-> <<>>, secret |-> {}]]
    /\ reader = [s \in Sides |-> "reading"]
    /\ inbox = [s \in Sides |-> [records |-> <<>>, handshake |-> FALSE]]
    /\ network = {}
    /\ faults = 0

Fault == faults < MaxFaults /\ faults' = faults + 1

-----------------------------------------------------------------------------
(* The handshake cache: a set of [type, from, epoch, seq, data], where     *)
(* data is what a Finished message verifies.                               *)

Message(t, s, e, n, d) == [type |-> t, from |-> s, epoch |-> e, seq |-> n,
                           data |-> d]
Id(m)  == <<m.type, m.from, m.seq>>
Ids(M) == {Id(m) : m \in M}

\* push(): a sequence number that is already there is not replaced.
Push(cache, M) ==
    cache \cup {m \in M : \A c \in cache : c.seq # m.seq \/ c.from # m.from}

\* The newest message that rule <<type, epoch, from, optional>> selects, as a
\* set of at most one.
Newest(cache, r) ==
    LET match == {c \in cache : c.type = r[1] /\ c.epoch = r[2] /\ c.from = r[3]}
    IN {c \in match : \A d \in match : d.seq <= c.seq}

Needs(t, e, s) == <<t, e, s, FALSE>>
Allows(t, e, s) == <<t, e, s, TRUE>>

\* full_pull_map(): the rules that select a message (their indices), if none
\* that must does not, and if the messages follow each other from number start.
Pulled(cache, rules) == {i \in DOMAIN rules : Newest(cache, rules[i]) # {}}
FullPull(cache, start, rules) ==
    LET got == Pulled(cache, rules)
    IN /\ \A i \in DOMAIN rules : rules[i][4] \/ i \in got
       /\ \A i \in got : \A m \in Newest(cache, rules[i]) :
            m.seq = start + Cardinality({j \in got : j < i})

\* pull_and_merge() and session_hash(), up to the last of the given types.
HashRules ==
    << Needs("ClientHello", 0, "client"), Needs("ServerHello", 0, "server"),
       Needs("Certificate", 0, "server"), Needs("ServerKeyExchange", 0, "server"),
       Needs("CertificateRequest", 0, "server"),
       Needs("ServerHelloDone", 0, "server"), Needs("Certificate", 0, "client"),
       Needs("ClientKeyExchange", 0, "client") >>
VerifyRules ==
    HashRules \o << Needs("CertificateVerify", 0, "client"),
                    Needs("Finished", 1, "client") >>
Merged(cache, rules) ==
    Ids(UNION {Newest(cache, r) : r \in ToSet(rules)})

-----------------------------------------------------------------------------
(* The fragment buffer.                                                    *)

PartsOf(t) == IF t = "Certificate" THEN Parts ELSE 1

\* append_message() finds every fragment of message n.
Complete(F, n) ==
    \E f \in F : f.seq = n
                 /\ \A p \in 1 .. PartsOf(f.type) : [f EXCEPT !.part = p] \in F

\* Mutant of Reassemble: messages leave the fragment buffer as soon as
\* they are whole.
ReassembleAny(s, c, r) ==
    LET F == c.fragments \cup (IF r.seq >= c.current THEN {r} ELSE {})
        ready == {f \in F : Complete(F, f.seq)}
    IN [c EXCEPT
          !.fragments = F \ ready,
          !.current = @ + Cardinality({f.seq : f \in ready}),
          !.cache = Push(@, {Message(f.type, Peer(s), f.epoch, f.seq, f.data) :
                             f \in ready})]

\* push() of a record and pop() until it fails: complete messages move to the
\* cache in the order of their numbers.  Fragments of older messages, which
\* the buffer keeps and never looks at again, are left out.
Reassemble(s, c, r) ==
    LET F == c.fragments \cup (IF r.seq >= c.current THEN {r} ELSE {})
        ready == {f \in F : \A n \in c.current .. f.seq : Complete(F, n)}
    IN [c EXCEPT
          !.fragments = F \ ready,
          !.current = @ + Cardinality({f.seq : f \in ready}),
          !.cache = Push(@, {Message(f.type, Peer(s), f.epoch, f.seq, f.data) :
                             f \in ready})]

-----------------------------------------------------------------------------
(* The reader.                                                             *)

\* A record comes before its epoch, or before the keys it needs.
Early(c, r) ==
    \/ r.epoch > c.remoteEpoch
    \/ c.secret = {} /\ (r.epoch = 1 \/ r.type = "ChangeCipherSpec")

\* A record that can be read goes to the fragment buffer.
IsHandshake(c, r) ==
    /\ ~Early(c, r) /\ r.type # "ChangeCipherSpec"
    /\ r.epoch = 0 \/ r.key = c.secret

\* handle_incoming_packet(): a record that is early is queued, or dropped when
\* it comes from the queue; one that does not decrypt is dropped.
Incoming(s, c, r, enqueue) ==
    CASE Early(c, r) -> IF enqueue THEN [c EXCEPT !.queue = Append(@, r)] ELSE c
      [] IsHandshake(c, r) -> Reassemble(s, c, r)
      [] r.type = "ChangeCipherSpec" /\ ~Early(c, r) -> [c EXCEPT !.remoteEpoch = 1]
      [] OTHER -> c

Idle == [records |-> <<>>, handshake |-> FALSE]

Alert == [type |-> "Alert"]
SendAlert(s) == network' = network \cup {[to |-> Peer(s), records |-> <<Alert>>]}

\* next_conn.recv() and unpack_datagram().
Receive(s) ==
    /\ reader[s] = "reading" /\ inbox[s] = Idle
    /\ \E d \in network :
        /\ d.to = s
        /\ network' = network \ {d}
        /\ inbox' = [inbox EXCEPT ![s].records = d.records]
    /\ UNCHANGED <<offer, flight, fsm, flights, sendSeq, recvSeq, ctx, reader,
                   faults>>

\* The next record of the datagram.  After the last one, a handshake that was
\* among them is offered to the state machine.
ReadRecord(s) ==
    LET rs == inbox[s].records
        handshake == inbox[s].handshake \/ IsHandshake(ctx[s], Head(rs))
        last == Len(rs) = 1
    IN /\ reader[s] = "reading" /\ rs \notin {<<>>, <<Alert>>}
       /\ ctx' = [ctx EXCEPT ![s] = Incoming(s, @, Head(rs), TRUE)]
       /\ inbox' = [inbox EXCEPT ![s] =
            IF last THEN Idle ELSE [records |-> Tail(rs), handshake |-> handshake]]
       /\ reader' = [reader EXCEPT ![s] = IF last /\ handshake THEN "offering" ELSE @]
       /\ UNCHANGED <<offer, flight, fsm, flights, sendSeq, recvSeq, network, faults>>

\* A fatal alert is sent back and ends the reader.
ReadAlert(s) ==
    /\ reader[s] = "reading" /\ inbox[s].records = <<Alert>>
    /\ inbox' = [inbox EXCEPT ![s] = Idle]
    /\ SendAlert(s)
    /\ reader' = [reader EXCEPT ![s] = "exited"]
    /\ UNCHANGED <<offer, flight, fsm, flights, sendSeq, recvSeq, ctx, faults>>

\* handshake_tx.send(): the channel takes one element, whoever reads it.
Offer(s) ==
    /\ reader[s] = "offering" /\ fsm[s] # "errored"
    /\ reader' = [reader EXCEPT ![s] = "waiting"]
    /\ UNCHANGED <<offer, flight, fsm, flights, sendSeq, recvSeq, ctx, inbox,
                   network, faults>>

\* The other branch of the select!: handshake_done_tx was dropped.
OfferDropped(s) ==
    /\ reader[s] = "offering" /\ fsm[s] = "done"
    /\ reader' = [reader EXCEPT ![s] = "reading"]
    /\ UNCHANGED <<offer, flight, fsm, flights, sendSeq, recvSeq, ctx, inbox,
                   network, faults>>

\* handshake() has failed: the connection is dropped, and the reader with it.
ReaderDropped(s) ==
    /\ fsm[s] = "errored" /\ reader[s] # "exited"
    /\ reader' = [reader EXCEPT ![s] = "exited"]
    /\ UNCHANGED <<offer, flight, fsm, flights, sendSeq, recvSeq, ctx, inbox,
                   network, faults>>

ReaderStep(s) ==
    ReadRecord(s) \/ ReadAlert(s) \/ Offer(s) \/ OfferDropped(s) \/ ReaderDropped(s)

-----------------------------------------------------------------------------
(* prepare() and send().                                                   *)

\* The server's CertificateRequest was in flight 4.
Requested(s) == \E m \in ctx[s].cache : m.type = "CertificateRequest"

\* generate() of flight f: the packets in order.
Packets(s, f) ==
    CASE f = 0        -> <<>>
      [] f \in {1, 3} -> <<"ClientHello">>
      [] f = 2        -> <<"HelloVerifyRequest">>
      [] f = 4 /\ ClientAuth ->
           <<"ServerHello", "Certificate", "ServerKeyExchange", "CertificateRequest",
             "ServerHelloDone">>
      [] f = 4 /\ ~ClientAuth ->
           <<"ServerHello", "Certificate", "ServerKeyExchange", "ServerHelloDone">>
      [] f = 5 /\ Requested(s) ->
           <<"Certificate", "ClientKeyExchange", "CertificateVerify",
             "ChangeCipherSpec", "Finished">>
      [] f = 5 /\ ~Requested(s) ->
           <<"ClientKeyExchange", "ChangeCipherSpec", "Finished">>
      [] f = 6        -> <<"ChangeCipherSpec", "Finished">>

\* Mutant of FirstSeq: flight 2 goes on counting when it is prepared anew.
FirstSeqCounting(s) == sendSeq[s]

\* Flight 2 numbers its only message anew each time.
FirstSeq(s) == IF flight[s] = 2 THEN 0 ELSE sendSeq[s]

\* How many of the first n packets are handshake messages.
Messages(types, n) == Cardinality({i \in 1 .. n : types[i] # "ChangeCipherSpec"})

\* The packets with their sequence numbers (a ChangeCipherSpec has none).
Numbered(s, types) ==
    [i \in DOMAIN types |->
       [type |-> types[i],
        epoch |-> IF types[i] = "Finished" THEN 1 ELSE 0,
        seq |-> IF types[i] = "ChangeCipherSpec" THEN 0
                ELSE FirstSeq(s) + Messages(types, i - 1)]]

\* The messages of flight 5 that the hashes cover before they are sent.
Unsent(s, pkts) ==
    {<<p.type, s, p.seq>> : p \in {q \in ToSet(pkts) :
        q.type \in {"Certificate", "ClientKeyExchange", "CertificateVerify"}}}

\* Mutant of SecretOf: the session hash goes on to the last message of the flight.
SecretOverFlight(s, pkts) ==
    IF flight[s] = 5 THEN Merged(ctx[s].cache, HashRules) \cup Unsent(s, pkts)
    ELSE ctx[s].secret

\* initialize_cipher_suite() of the client, in generate() of flight 5.
SecretOf(s, pkts) ==
    IF flight[s] = 5
    THEN Merged(ctx[s].cache, HashRules)
           \cup {i \in Unsent(s, pkts) : i[1] # "CertificateVerify"}
    ELSE ctx[s].secret

Prepare(s) ==
    LET types == Packets(s, flight[s])
        pkts == Numbered(s, types)
        secret == SecretOf(s, pkts)
        verify == [secret |-> secret,
                   over |-> Merged(ctx[s].cache, VerifyRules)
                              \cup (IF flight[s] = 5 THEN Unsent(s, pkts) ELSE {})]
    IN /\ fsm[s] = "preparing"
       /\ fsm' = [fsm EXCEPT ![s] = "sending"]
       /\ flights' = [flights EXCEPT ![s] =
            [i \in DOMAIN pkts |->
               [type |-> pkts[i].type, epoch |-> pkts[i].epoch,
                seq |-> pkts[i].seq,
                key |-> IF pkts[i].epoch = 1 THEN secret ELSE {},
                data |-> IF pkts[i].type = "Finished" THEN verify ELSE {}]]]
       /\ sendSeq' = [sendSeq EXCEPT ![s] =
            FirstSeq(s) + Messages(types, Len(types))]
       /\ ctx' = [ctx EXCEPT ![s].secret = secret]
       /\ UNCHANGED <<offer, flight, recvSeq, reader, inbox, network, faults>>

\* fragment_handshake() and compact_raw_packets().
Fragments(p) ==
    [n \in 1 .. PartsOf(p.type) |->
       [type |-> p.type, epoch |-> p.epoch, seq |-> p.seq, key |-> p.key,
        data |-> p.data, part |-> n]]

Records(pkts) ==
    LET upTo[i \in 0 .. Len(pkts)] ==
          IF i = 0 THEN <<>> ELSE upTo[i - 1] \o Fragments(pkts[i])
    IN upTo[Len(pkts)]

Datagrams(s, pkts) ==
    LET rs == Records(pkts)
    IN {[to |-> Peer(s),
         records |-> SubSeq(rs, i, IF i + Room - 1 < Len(rs)
                                   THEN i + Room - 1 ELSE Len(rs))]
          : i \in {j \in DOMAIN rs : j % Room = 1 % Room}}

\* handle_outgoing_packets() puts what it sends into the cache.
Send(s) ==
    /\ fsm[s] = "sending"
    /\ network' = network \cup Datagrams(s, flights[s])
    /\ ctx' = [ctx EXCEPT ![s].cache =
         Push(@, {Message(p.type, s, p.epoch, p.seq, p.data) :
                  p \in {q \in ToSet(flights[s]) : q.type # "ChangeCipherSpec"}})]
    /\ fsm' = [fsm EXCEPT ![s] = IF flight[s] = 6 THEN "done" ELSE "waiting"]
    /\ UNCHANGED <<offer, flight, flights, sendSeq, recvSeq, reader, inbox, faults>>

\* Nothing that s has sent is on its way to a reader, the tasks of the peer
\* are idle, and no handshake is handed over to s.
Quiet(s) ==
    /\ reader[s] # "waiting"
    /\ reader[Peer(s)] = "reading" =>
        inbox[Peer(s)] = Idle /\ \A d \in network : d.to # Peer(s)
    /\ reader[Peer(s)] # "offering"
    /\ fsm[Peer(s)] \notin {"preparing", "sending"}
    /\ ~(reader[Peer(s)] = "waiting" /\ fsm[Peer(s)] = "waiting")

\* retransmit_timer in wait().
Timer(s) ==
    /\ fsm[s] = "waiting" /\ flight[s] # 2
    /\ IF Quiet(s) THEN UNCHANGED faults ELSE Fault
    /\ fsm' = [fsm EXCEPT ![s] = "sending"]
    /\ UNCHANGED <<offer, flight, flights, sendSeq, recvSeq, ctx, reader, inbox,
                   network>>

-----------------------------------------------------------------------------
(* wait(): the flights parse what the reader hands over.                   *)

Parse(s, f) ==
    /\ fsm[s] = "waiting" /\ reader[s] = "waiting" /\ flight[s] = f
    /\ reader' = [reader EXCEPT ![s] = "reading"]
    /\ UNCHANGED <<offer, flights, sendSeq, inbox, faults>>

KeepReading == UNCHANGED <<flight, fsm, recvSeq, network>>

GoTo(s, f, seq) ==
    /\ flight' = [flight EXCEPT ![s] = f]
    /\ fsm' = [fsm EXCEPT ![s] = "preparing"]
    /\ recvSeq' = [recvSeq EXCEPT ![s] = seq]
    /\ UNCHANGED network

Fail(s) ==
    /\ fsm' = [fsm EXCEPT ![s] = "errored"]
    /\ SendAlert(s)
    /\ UNCHANGED <<flight, recvSeq>>

Hello == <<Needs("ClientHello", 0, "client")>>

\* Mutant of NamedCurve: the client's first choice, as upstream has it.
FirstCurve == Head(offer)

\* The first curve that is implemented.
NamedCurve ==
    LET known == {i \in DOMAIN offer : offer[i] \in Implemented}
    IN IF known = {} THEN Head(offer) ELSE offer[Min(known)]

\* parse() of Flight0, which Flight2 falls back to.
FirstHello(s) ==
    IF ~FullPull(ctx[s].cache, 0, Hello) THEN KeepReading
    ELSE IF NamedCurve \in Implemented THEN GoTo(s, 2, 1) ELSE Fail(s)

ParseFlight0(s) == Parse(s, 0) /\ FirstHello(s) /\ UNCHANGED ctx

\* Mutant of ParseFlight2: a repeated first ClientHello is not answered.
ParseFlight2Only(s) ==
    /\ Parse(s, 2)
    /\ IF FullPull(ctx[s].cache, recvSeq[s], Hello)
       THEN GoTo(s, 4, recvSeq[s] + 1)
       ELSE KeepReading
    /\ UNCHANGED ctx

\* The ClientHello that has the cookie, or the first one again.
ParseFlight2(s) ==
    /\ Parse(s, 2)
    /\ IF FullPull(ctx[s].cache, recvSeq[s], Hello)
       THEN GoTo(s, 4, recvSeq[s] + 1)
       ELSE FirstHello(s)
    /\ UNCHANGED ctx

KeyRules == << Allows("Certificate", 0, "client"),
               Needs("ClientKeyExchange", 0, "client"),
               Allows("CertificateVerify", 0, "client") >>

\* Mutant of Verified: the certificate is taken without its verification.
VerifiedLater(s) == TRUE

\* A certificate has come with the CertificateVerify it needs.
Verified(s) ==
    Newest(ctx[s].cache, KeyRules[1]) # {} => Newest(ctx[s].cache, KeyRules[3]) # {}

\* parse() of Flight4 derives the keys, and goes through the records that waited
\* for them (handle_queued_packets()): what becomes of the context, as a set of one.
Keyed(s) == [ctx[s] EXCEPT
               !.secret = IF @ = {} THEN Merged(ctx[s].cache, HashRules) ELSE @,
               !.queue = <<>>]
Drained(s, c, q) ==
    LET after[i \in 0 .. Len(q)] ==
          IF i = 0 THEN {c} ELSE {Incoming(s, d, q[i], FALSE) : d \in after[i - 1]}
    IN after[Len(q)]
AfterKeys(s) == Drained(s, Keyed(s), ctx[s].queue)

\* parse() of Flight4: the keys, then the Finished message, whose content is
\* not looked at.
ParseFlight4(s) ==
    LET cache == ctx[s].cache
        next == recvSeq[s] + Cardinality(Pulled(cache, KeyRules))
    IN /\ Parse(s, 4)
       /\ IF ~FullPull(cache, recvSeq[s], KeyRules) \/ ~Verified(s)
          THEN KeepReading /\ UNCHANGED ctx
          ELSE \E c \in AfterKeys(s) :
            /\ ctx' = [ctx EXCEPT ![s] = c]
            /\ IF ~FullPull(c.cache, next, <<Needs("Finished", 1, "client")>>)
               THEN KeepReading
               ELSE IF ClientAuth /\ Newest(cache, KeyRules[1]) = {}
               THEN Fail(s)
               ELSE GoTo(s, 6, next + 1)

HelloVerify == Needs("HelloVerifyRequest", 0, "server")

ServerRules ==
    << Needs("ServerHello", 0, "server"), Allows("Certificate", 0, "server"),
       Needs("ServerKeyExchange", 0, "server"),
       Allows("CertificateRequest", 0, "server"),
       Needs("ServerHelloDone", 0, "server") >>

\* parse() of Flight3, which Flight1 skips to.
ServerFlight(s) ==
    IF FullPull(ctx[s].cache, recvSeq[s], <<HelloVerify>>)
    THEN GoTo(s, 3, recvSeq[s] + 1)
    ELSE IF FullPull(ctx[s].cache, recvSeq[s], ServerRules)
    THEN GoTo(s, 5, recvSeq[s] + Cardinality(Pulled(ctx[s].cache, ServerRules)))
    ELSE KeepReading

ParseFlight3(s) == Parse(s, 3) /\ ServerFlight(s) /\ UNCHANGED ctx

\* A handshake that has neither message is answered by an alert and goes on.
ParseFlight1(s) ==
    LET rules == << Allows("HelloVerifyRequest", 0, "server"),
                    Allows("ServerHello", 0, "server") >>
    IN /\ Parse(s, 1)
       /\ IF ~FullPull(ctx[s].cache, recvSeq[s], rules)
          THEN KeepReading
          ELSE IF Newest(ctx[s].cache, rules[2]) # {}
          THEN ServerFlight(s)
          ELSE IF Newest(ctx[s].cache, rules[1]) # {}
          THEN GoTo(s, 3, recvSeq[s] + 1)
          ELSE SendAlert(s) /\ UNCHANGED <<flight, fsm, recvSeq>>
       /\ UNCHANGED ctx

ServerFinished == Needs("Finished", 1, "server")

\* Mutant of ParseFlight5: whatever the server sends again ends the handshake.
ParseFlight5Any(s) ==
    /\ Parse(s, 5)
    /\ fsm' = [fsm EXCEPT ![s] = "done"]
    /\ UNCHANGED <<flight, recvSeq, network, ctx>>

\* The server's Finished must be over what the client has sent and received.
ParseFlight5(s) ==
    LET expected == [secret |-> ctx[s].secret,
                     over |-> Merged(ctx[s].cache, VerifyRules)]
    IN /\ Parse(s, 5)
       /\ IF ~FullPull(ctx[s].cache, recvSeq[s], <<ServerFinished>>)
          THEN KeepReading
          ELSE IF \A m \in Newest(ctx[s].cache, ServerFinished) : m.data = expected
          THEN fsm' = [fsm EXCEPT ![s] = "done"] /\ UNCHANGED <<flight, recvSeq, network>>
          ELSE Fail(s)
       /\ UNCHANGED ctx

\* The reader is gone and handshake_rx.recv() returns None.
ReaderGone(s) ==
    /\ fsm[s] = "waiting" /\ reader[s] = "exited"
    /\ fsm' = [fsm EXCEPT ![s] = "errored"]
    /\ UNCHANGED <<offer, flight, flights, sendSeq, recvSeq, ctx, reader, network,
                   inbox, faults>>

HandshakeStep(s) ==
    \/ Prepare(s) \/ Send(s) \/ ReaderGone(s)
    \/ ParseFlight0(s) \/ ParseFlight2(s) \/ ParseFlight4(s)
    \/ ParseFlight1(s) \/ ParseFlight3(s) \/ ParseFlight5(s)

-----------------------------------------------------------------------------
Lose ==
    /\ Fault
    /\ \E d \in network : network' = network \ {d}
    /\ UNCHANGED <<offer, flight, fsm, flights, sendSeq, recvSeq, ctx, reader, inbox>>

Next ==
    \/ \E s \in Sides : HandshakeStep(s) \/ ReaderStep(s) \/ Receive(s) \/ Timer(s)
    \/ Lose

Spec == Init /\ [][Next]_vars

\* tokio runs the tasks that are ready, and what is not lost is delivered.  A
\* timer runs out whatever the peer does meanwhile.
Fairness ==
    \A s \in Sides :
        /\ WF_vars(HandshakeStep(s))
        /\ WF_vars(ReaderStep(s))
        /\ WF_vars(Receive(s))
        /\ SF_vars(Timer(s))

FairSpec == Spec /\ Fairness

-----------------------------------------------------------------------------
\* No flight is numbered twice: the client sends two hellos and the four
\* messages of flight 5, the server the messages of flights 2, 4 and 6
\* (handshake_send_sequence in handshaker.rs).
TypeOK ==
    /\ offer \in Offers
    /\ flight \in [Sides -> 0 .. 6]
    /\ fsm \in [Sides -> {"preparing", "sending", "waiting", "done", "errored"}]
    /\ sendSeq["client"] \in 0 .. 6 /\ sendSeq["server"] \in 0 .. 7
    /\ recvSeq \in [Sides -> 0 .. 7]
    /\ reader \in [Sides -> {"reading", "offering", "waiting", "exited"}]
    /\ \A s \in Sides : ctx[s].remoteEpoch \in {0, 1} /\ ctx[s].current \in 0 .. 7
    /\ faults \in 0 .. MaxFaults

\* However the network loses, delays and reorders the fragments of the
\* retransmitted flights, the messages received are the first ones the peer
\* has sent, without a gap (fragment_buffer/mod.rs, the cache behind it).
ReceivedInOrder ==
    \A s \in Sides :
        LET received == {m \in ctx[s].cache : m.from = Peer(s)}
        IN /\ {m.seq : m \in received} = 0 .. ctx[s].current - 1
           /\ Ids(received) \subseteq Ids(ctx[Peer(s)].cache)

\* A side that is done has keys, and they are the ones its peer has: both ends
\* hashed the same hellos, certificates and keys, whichever of them were sent
\* again (session_hash() in flight 4 and 5, handshake_cache.rs).
AgreeOnCompletion ==
    \A s \in Sides :
        fsm[s] = "done" => ctx[s].secret # {} /\ ctx[s].secret = ctx[Peer(s)].secret

\* A client's certificate never leads to keys on the server before the
\* CertificateVerify that proves its possession, though that message may come
\* in a later datagram (parse() of flight4.rs).
NoKeysBeforeVerify ==
    ctx["server"].secret # {}
      /\ Newest(ctx["server"].cache, KeyRules[1]) # {}
    => Newest(ctx["server"].cache, KeyRules[3]) # {}

\* A client that offers a curve the server has, after others it has not, is
\* never refused (the curve patch of flight0.rs); nor does anything later end a
\* handshake with an error, of either side, whatever the network loses: every
\* alert of the flights answers a real fault of the peer.
UsableCurveAccepted ==
    ToSet(offer) \cap Implemented # {} => \A s \in Sides : fsm[s] # "errored"

Keys == [s \in Sides |-> ctx[s].secret]
Outcomes == [s \in Sides |-> CASE fsm[s] = "done" -> "done"
                              [] fsm[s] = "errored" -> "failed"
                              [] OTHER -> "pending"]
Agreed == INSTANCE KeyAgreement WITH key <- Keys, outcome <- Outcomes

\* A handshake settles on one key: the client derives it once, the server from the
\* same hellos, certificates and keys, neither ever derives another, whatever is
\* sent again, and the client's handshake() succeeds only after the server's
\* (initialize_cipher_suite() in flight5.rs, parse() in flight4.rs and flight5.rs).
IsKeyAgreement == Agreed!Spec

\* The server's handshake ends, whatever datagrams were lost, as long as the
\* losses end: no flight is left that nobody sends again (flights 0 to 5).
ServerSettles == <>(fsm["server"] \in {"done", "errored"})

\* Once the server has finished, so does the client: the last flight is sent
\* again to a client that asks for it (finish() in handshaker.rs, parse() in
\* flight6.rs).
LastFlightAnswered == fsm["server"] = "done" ~> fsm["client"] \in {"done", "errored"}

\* The reader does not wait for ever for an answer to the handshake it has
\* handed over (read_and_buffer() in conn/mod.rs).
ReaderReturns ==
    \A s \in Sides : reader[s] = "waiting" ~> reader[s] # "waiting"
=============================================================================
