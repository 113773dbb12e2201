---------------------------- MODULE DtlsConnection ----------------------------
(***************************************************************************)
(* A DTLS connection after its handshake (vendor-webrtc-dtls/src/conn).    *)
(* On each side the users of a DTLSConn (read, write, close) share it with *)
(* two tasks that DTLSConn::new() has spawned: one sends what packet_rx    *)
(* brings, the other reads the conn beneath and fills decrypted_rx.  All   *)
(* these channels have room for one element.                               *)
(*                                                                         *)
(* A write makes one record, and a datagram carries one.  Of the records   *)
(* only those of epoch 1 are left: retransmitted handshakes are in         *)
(* DtlsHandshake.  Data is the number of the write it comes from.  The     *)
(* network loses, repeats, reorders and corrupts datagrams.                *)
(***************************************************************************)
EXTENDS Naturals, SequencesExt

CONSTANTS
    Users,       \* the tasks of each side that use its DTLSConn
    Writers,     \* those of them that write
    Closers,     \* those of them that close
    MaxWrites,   \* bound: the writes of each side
    Window,      \* replay_protection_window
    MaxSeq,      \* MAX_SEQUENCE_NUMBER
    Psk,         \* the cipher suite is one with a pre-shared key
    MaxFaults    \* bound: faults of the network, deadlines, reads into short buffers

Sides == {"client", "server"}
Peer(s) == IF s = "client" THEN "server" ELSE "client"

ASSUME ConnectionAssumption ==
    /\ Psk \in BOOLEAN
    /\ {Window, MaxSeq} \subseteq Nat \ {0}
    /\ MaxFaults \in Nat
    /\ \A s \in Sides : MaxWrites[s] \in Nat
    /\ \A s \in Sides : "reader" \notin Users[s]

Data(k) == [kind |-> "data", number |-> k]
CloseNotify == [kind |-> "close_notify", number |-> 0]
Fatal == [kind |-> "fatal", number |-> 0]
Nothing == [kind |-> "nothing", number |-> 0]
Contents == {Data(k) : k \in 1..(MaxWrites["client"] + MaxWrites["server"])}
              \cup {CloseNotify, Fatal, Nothing}

VARIABLES
    beneath,    \* the conn beneath each side: "open" or "closed"
    closed,     \* closed
    stopping,   \* reader_close_tx has been taken
    calls,      \* where each user's call stands, and what it sends
    queue,      \* packet_rx: requests [by, content]
    next,       \* local_sequence_number of epoch 1
    wire,       \* records under way to each side: [seq, content, genuine]
    reader,     \* the reader task: "reading"; "handing" hand to decrypted_tx;
    hand,       \*   "replying" hand as an alert; "exited"
    accepted,   \* the numbers the replay detector of epoch 1 has accepted
    buffer,     \* decrypted_rx
    \* History.
    written,    \* the number of writes
    got,        \* the data read
    shipped,    \* the data sent
    report,     \* what write() has answered: "none", "ok", "failed" or "deadline"
    firstClose, \* what the first close() has answered: "none", "ok" or "failed"
    arrived,    \* the numbers of the genuine records that have reached the reader
    taken,      \* those it has acted on
    doomed,     \* the sides with a PSK that a corrupt record has reached
    short,      \* data lost to short buffers
    faults

callVars == <<calls, closed, stopping, written, report, firstClose>>
sendVars == <<queue, next, shipped>>
readVars == <<reader, hand, accepted, arrived, taken, doomed>>
userVars == <<buffer, got, short>>
vars == <<beneath, callVars, sendVars, wire, readVars, userVars, faults>>

Idle == [at |-> "idle", content |-> Nothing]

\* Number 0 of epoch 1 was the Finished.
Init ==
    /\ beneath = [s \in Sides |-> "open"]
    /\ closed = [s \in Sides |-> FALSE]
    /\ stopping = [s \in Sides |-> FALSE]
    /\ calls = [s \in Sides |-> [u \in Users[s] |-> Idle]]
    /\ queue = [s \in Sides |-> <<>>]
    /\ next = [s \in Sides |-> 1]
    /\ wire = [s \in Sides |-> {}]
    /\ reader = [s \in Sides |-> "reading"]
    /\ hand = [s \in Sides |-> Nothing]
    /\ accepted = [s \in Sides |-> {0}]
    /\ buffer = [s \in Sides |-> <<>>]
    /\ written = [s \in Sides |-> 0]
    /\ got = [s \in Sides |-> <<>>]
    /\ shipped = [s \in Sides |-> {}]
    /\ report = [s \in Sides |-> [k \in 1..MaxWrites[s] |-> "none"]]
    /\ firstClose = [s \in Sides |-> "none"]
    /\ arrived = [s \in Sides |-> {0}]
    /\ taken = [s \in Sides |-> {0}]
    /\ doomed = {}
    /\ short = [s \in Sides |-> {}]
    /\ faults = 0

Fault == faults < MaxFaults /\ faults' = faults + 1

At(s, u) == calls[s][u].at
Goes(s, u, call) == calls' = [calls EXCEPT ![s][u] = call]
Answers(s, k, answer) == report' = [report EXCEPT ![s][k] = answer]

-----------------------------------------------------------------------------
(* write() and close(), by user u of side s                                *)

\* write(): is_connection_closed() is asked before the packet is queued.
WriteBegins(s, u) ==
    /\ u \in Writers[s]
    /\ At(s, u) = "idle" /\ ~closed[s]
    /\ written[s] < MaxWrites[s]
    /\ written' = [written EXCEPT ![s] = @ + 1]
    /\ Goes(s, u, [at |-> "sending", content |-> Data(written[s] + 1)])
    /\ UNCHANGED <<beneath, closed, stopping, report, firstClose, sendVars, wire, readVars,
                   userVars, faults>>

\* The timer of a write with a deadline; what is queued stays queued.
Deadline(s, u) ==
    /\ Fault
    /\ At(s, u) \in {"sending", "awaiting"}
    /\ calls[s][u].content.kind = "data"
    /\ Answers(s, calls[s][u].content.number, "deadline")
    /\ Goes(s, u, Idle)
    /\ UNCHANGED <<beneath, closed, stopping, written, firstClose, sendVars, wire, readVars,
                   userVars>>

\* close() loads closed, then stores it.
CloseLoads(s, u) ==
    /\ u \in Closers[s]
    /\ At(s, u) = "idle" /\ ~closed[s]
    /\ Goes(s, u, [at |-> "storing", content |-> CloseNotify])
    /\ UNCHANGED <<beneath, closed, stopping, written, report, firstClose, sendVars, wire,
                   readVars, userVars, faults>>

CloseStores(s, u) ==
    /\ At(s, u) = "storing"
    /\ closed' = [closed EXCEPT ![s] = TRUE]
    /\ Goes(s, u, [at |-> "sending", content |-> CloseNotify])
    /\ UNCHANGED <<beneath, stopping, written, report, firstClose, sendVars, wire, readVars,
                   userVars, faults>>

\* Mutant: the request is queued, room or not.
QueuesAnyway(s, u) ==
    /\ At(s, u) = "sending"
    /\ queue' = [queue EXCEPT ![s] = Append(@, [by |-> u, content |-> calls[s][u].content])]
    /\ Goes(s, u, [calls[s][u] EXCEPT !.at = "awaiting"])
    /\ UNCHANGED <<beneath, closed, stopping, written, report, firstClose, next, shipped, wire,
                   readVars, userVars, faults>>

\* write_packets() waits for room in packet_tx, then for the result.
Queues(s, u) ==
    /\ At(s, u) = "sending"
    /\ queue[s] = <<>>
    /\ queue' = [queue EXCEPT ![s] = <<[by |-> u, content |-> calls[s][u].content]>>]
    /\ Goes(s, u, [calls[s][u] EXCEPT !.at = "awaiting"])
    /\ UNCHANGED <<beneath, closed, stopping, written, report, firstClose, next, shipped, wire,
                   readVars, userVars, faults>>

\* After a notify() without error: the reader is told, then the conn is closed.
CloseTakes(s, u) ==
    /\ At(s, u) = "taking"
    /\ stopping' = [stopping EXCEPT ![s] = TRUE]
    /\ Goes(s, u, [calls[s][u] EXCEPT !.at = "closing"])
    /\ UNCHANGED <<beneath, closed, written, report, firstClose, sendVars, wire, readVars,
                   userVars, faults>>

FirstClose(s, answer) ==
    firstClose' = [firstClose EXCEPT ![s] = IF @ = "none" THEN answer ELSE @]

CloseEnds(s, u) ==
    /\ At(s, u) = "closing"
    /\ beneath' = [beneath EXCEPT ![s] = "closed"]
    /\ FirstClose(s, "ok")
    /\ Goes(s, u, Idle)
    /\ UNCHANGED <<closed, stopping, written, report, sendVars, wire, readVars, userVars, faults>>

-----------------------------------------------------------------------------
(* The sending task: handle_outgoing_packets() of one request              *)

\* Mutant: a write is answered when it has been taken from the queue, not when sent.
ResultEarly(s, r, sent) ==
    IF r.by = "reader" \/ calls[s][r.by] # [at |-> "awaiting", content |-> r.content]
    THEN UNCHANGED <<calls, report, firstClose>>
    ELSE IF r.content.kind = "data"
    THEN /\ Answers(s, r.content.number, "ok")
         /\ Goes(s, r.by, Idle)
         /\ UNCHANGED firstClose
    ELSE /\ Goes(s, r.by, IF sent THEN [at |-> "taking", content |-> Nothing] ELSE Idle)
         /\ IF sent THEN UNCHANGED firstClose ELSE FirstClose(s, "failed")
         /\ UNCHANGED report

\* What the requester is told, unless its deadline has passed.
Result(s, r, sent) ==
    IF r.by = "reader" \/ calls[s][r.by] # [at |-> "awaiting", content |-> r.content]
    THEN UNCHANGED <<calls, report, firstClose>>
    ELSE IF r.content.kind = "data"
    THEN /\ Answers(s, r.content.number, IF sent THEN "ok" ELSE "failed")
         /\ Goes(s, r.by, Idle)
         /\ UNCHANGED firstClose
    ELSE /\ Goes(s, r.by, IF sent THEN [at |-> "taking", content |-> Nothing] ELSE Idle)
         /\ IF sent THEN UNCHANGED firstClose ELSE FirstClose(s, "failed")
         /\ UNCHANGED report

\* process_packet() gives a record its number, unless they are used up.
Outgoing(s) ==
    LET r == Head(queue[s])
        sent == next[s] <= MaxSeq /\ beneath[s] = "open"
    IN
    /\ queue[s] # <<>>
    /\ queue' = [queue EXCEPT ![s] = Tail(@)]
    /\ next' = [next EXCEPT ![s] = @ + 1]
    /\ IF sent
       THEN /\ wire' = [wire EXCEPT ![Peer(s)] =
                          @ \cup {[seq |-> next[s], content |-> r.content, genuine |-> TRUE]}]
            /\ shipped' = [shipped EXCEPT ![s] =
                             IF r.content.kind = "data" THEN @ \cup {r.content.number} ELSE @]
       ELSE UNCHANGED <<wire, shipped>>
    /\ Result(s, r, sent)
    /\ UNCHANGED <<beneath, closed, stopping, written, readVars, userVars, faults>>

-----------------------------------------------------------------------------
(* The reading task: read_and_buffer() of one datagram                     *)

\* SlidingWindowDetector::check()
Fresh(s, seq) ==
    /\ seq \notin accepted[s]
    /\ \A n \in accepted[s] : n < seq + Window

\* Mutant: the replay detector is not told.
AcceptForgotten(s, seq) ==
    /\ taken' = [taken EXCEPT ![s] = @ \cup {seq}]
    /\ UNCHANGED accepted

\* accept() of the detector, when the record is acted on.
Accept(s, seq) ==
    /\ accepted' = [accepted EXCEPT ![s] = @ \cup {seq}]
    /\ taken' = [taken EXCEPT ![s] = @ \cup {seq}]

Becomes(s, state, content) ==
    /\ reader' = [reader EXCEPT ![s] = state]
    /\ hand' = [hand EXCEPT ![s] = content]

Discard == UNCHANGED <<reader, hand, accepted, taken, doomed>>

\* Mutant: the number is accepted when it is checked.
IncomingEager(s, rec) ==
    IF ~Fresh(s, rec.seq) THEN Discard
    ELSE IF ~rec.genuine
    THEN /\ accepted' = [accepted EXCEPT ![s] = @ \cup {rec.seq}]
         /\ UNCHANGED <<reader, hand, taken, doomed>>
    ELSE /\ Becomes(s, IF rec.content.kind = "data" THEN "handing" ELSE "replying", rec.content)
         /\ Accept(s, rec.seq)
         /\ UNCHANGED doomed

\* Mutant: a close_notify is answered, but the reader goes on.
ReplyOnly(s) ==
    /\ reader[s] = "replying" /\ queue[s] = <<>>
    /\ queue' = [queue EXCEPT ![s] = <<[by |-> "reader", content |-> hand[s]]>>]
    /\ Becomes(s, "reading", Nothing)
    /\ UNCHANGED <<beneath, callVars, next, shipped, wire, accepted, arrived, taken, doomed,
                   userVars, faults>>

\* handle_incoming_packet(): the number is accepted after decryption.  An alert is
\* answered with one like it, and so is a record that a PSK does not decrypt.
Incoming(s, rec) ==
    IF ~Fresh(s, rec.seq) THEN Discard
    ELSE IF ~rec.genuine
    THEN IF Psk THEN /\ Becomes(s, "replying", Fatal)
                     /\ doomed' = doomed \cup {s}
                     /\ UNCHANGED <<accepted, taken>>
                ELSE Discard
    ELSE /\ Becomes(s, IF rec.content.kind = "data" THEN "handing" ELSE "replying", rec.content)
         /\ Accept(s, rec.seq)
         /\ UNCHANGED doomed

\* A datagram is read; the network may deliver it again.
Receive(s) ==
    /\ reader[s] = "reading" /\ beneath[s] = "open"
    /\ \E rec \in wire[s] :
         /\ \/ wire' = [wire EXCEPT ![s] = @ \ {rec}] /\ UNCHANGED faults
            \/ UNCHANGED wire /\ Fault
         /\ arrived' = [arrived EXCEPT ![s] = IF rec.genuine THEN @ \cup {rec.seq} ELSE @]
         /\ Incoming(s, rec)
    /\ UNCHANGED <<beneath, callVars, sendVars, userVars>>

\* Mutant: try_send() in place of send(): without room the data is dropped.
HandOverTry(s) ==
    /\ reader[s] = "handing"
    /\ buffer' = [buffer EXCEPT ![s] = IF @ = <<>> THEN <<hand[s].number>> ELSE @]
    /\ Becomes(s, "reading", Nothing)
    /\ UNCHANGED <<beneath, callVars, sendVars, wire, accepted, arrived, taken, doomed, got, short,
                   faults>>

\* decrypted_tx.send()
HandOver(s) ==
    /\ reader[s] = "handing" /\ buffer[s] = <<>>
    /\ buffer' = [buffer EXCEPT ![s] = <<hand[s].number>>]
    /\ Becomes(s, "reading", Nothing)
    /\ UNCHANGED <<beneath, callVars, sendVars, wire, accepted, arrived, taken, doomed, got, short,
                   faults>>

\* The alert is queued, and ErrAlertFatalOrClose ends the task.
Reply(s) ==
    /\ reader[s] = "replying" /\ queue[s] = <<>>
    /\ queue' = [queue EXCEPT ![s] = <<[by |-> "reader", content |-> hand[s]]>>]
    /\ Becomes(s, "exited", Nothing)
    /\ UNCHANGED <<beneath, callVars, next, shipped, wire, accepted, arrived, taken, doomed,
                   userVars, faults>>

\* Mutant: reader_close_rx is asked between two datagrams only.
ReaderStopsReading(s) ==
    /\ stopping[s] /\ reader[s] = "reading"
    /\ Becomes(s, "exited", Nothing)
    /\ UNCHANGED <<beneath, callVars, sendVars, wire, accepted, arrived, taken, doomed, userVars,
                   faults>>

\* reader_close_rx cancels read_and_buffer() wherever it stands.
ReaderStops(s) ==
    /\ stopping[s] /\ reader[s] # "exited"
    /\ Becomes(s, "exited", Nothing)
    /\ UNCHANGED <<beneath, callVars, sendVars, wire, accepted, arrived, taken, doomed, userVars,
                   faults>>

-----------------------------------------------------------------------------
(* read(), and what happens to the network                                 *)

\* read(): into a buffer that is too short it loses the datagram.
Read(s) ==
    /\ buffer[s] # <<>>
    /\ buffer' = [buffer EXCEPT ![s] = Tail(@)]
    /\ \/ got' = [got EXCEPT ![s] = Append(@, Head(buffer[s]))] /\ UNCHANGED <<short, faults>>
       \/ short' = [short EXCEPT ![s] = @ \cup {Head(buffer[s])}] /\ Fault /\ UNCHANGED got
    /\ UNCHANGED <<beneath, callVars, sendVars, wire, readVars>>

Lose(s) ==
    /\ Fault
    /\ \E rec \in wire[s] : wire' = [wire EXCEPT ![s] = @ \ {rec}]
    /\ UNCHANGED <<beneath, callVars, sendVars, readVars, userVars>>

Corrupt(s) ==
    /\ Fault
    /\ \E rec \in wire[s] : wire' = [wire EXCEPT ![s] = @ \cup {[rec EXCEPT !.genuine = FALSE]}]
    /\ UNCHANGED <<beneath, callVars, sendVars, readVars, userVars>>

\* The conn beneath is closed by another: its reads and writes fail.
Dies(s) ==
    /\ Fault
    /\ beneath[s] = "open"
    /\ beneath' = [beneath EXCEPT ![s] = "closed"]
    /\ UNCHANGED <<callVars, sendVars, wire, readVars, userVars>>

-----------------------------------------------------------------------------
User(s, u) == WriteBegins(s, u) \/ Deadline(s, u) \/ CloseLoads(s, u)
Call(s, u) == CloseStores(s, u) \/ Queues(s, u) \/ CloseTakes(s, u) \/ CloseEnds(s, u)
Reader(s) == Receive(s) \/ HandOver(s) \/ Reply(s) \/ ReaderStops(s)
Network(s) == Lose(s) \/ Corrupt(s) \/ Dies(s)

Next ==
    \E s \in Sides :
        \/ \E u \in Users[s] : User(s, u) \/ Call(s, u)
        \/ Outgoing(s) \/ Reader(s) \/ Read(s) \/ Network(s)

\* Tasks that can go on do; users read until they close.
Fairness ==
    \A s \in Sides :
        /\ \A u \in Users[s] : WF_vars(Call(s, u))
        /\ WF_vars(Outgoing(s)) /\ WF_vars(Reader(s))
        /\ WF_vars(~closed[s] /\ Read(s))

Spec == Init /\ [][Next]_vars /\ Fairness

-----------------------------------------------------------------------------
(* Properties                                                              *)

\* Every variable has its type.
TypeOK ==
    /\ beneath \in [Sides -> {"open", "closed"}]
    /\ closed \in [Sides -> BOOLEAN] /\ stopping \in [Sides -> BOOLEAN]
    /\ \A s \in Sides :
         /\ calls[s] \in [Users[s] ->
              [at : {"idle", "storing", "sending", "awaiting", "taking", "closing"},
               content : Contents]]
         /\ Len(queue[s]) <= 1 /\ Len(buffer[s]) <= 1
         /\ \A r \in wire[s] : r.seq \in 1..MaxSeq /\ r.content \in Contents
         /\ accepted[s] \subseteq 0..MaxSeq
    /\ reader \in [Sides -> {"reading", "handing", "replying", "exited"}]
    /\ hand \in [Sides -> Contents]

\* To its users the connection is a datagram service: nothing is read twice, or
\* that was not written, whatever the network repeats; reads fail only after one
\* of the sides has closed (or, with a PSK, has met a corrupt record), and then
\* for good.
Service ==
    INSTANCE Datagrams WITH
        Other <- [s \in Sides |-> Peer(s)],
        read <- got,
        hungUp <- {s \in Sides : closed[s]} \cup doomed,
        over <- {s \in Sides : reader[s] = "exited" /\ buffer[s] = <<>>}
IsDatagramService == Service!Spec

\* What write() answers is true: what it calls sent was given to the network, what
\* it calls failed never will be.  Only after a deadline may either be the case.
WriteReported ==
    \A s \in Sides : \A k \in 1..MaxWrites[s] :
        /\ report[s][k] = "ok" => k \in shipped[s]
        /\ report[s][k] = "failed" => k \notin shipped[s]

\* A genuine record that arrives for the first time, less than a window behind the
\* newest genuine one, is acted on, whatever corrupt or repeated ones came before.
GenuineAccepted ==
    [][\A s \in Sides : \A n \in arrived'[s] \ arrived[s] :
         (\A m \in arrived[s] : m < n + Window) => n \in taken'[s]]_vars

\* close() ends the reader, whether it is reading, has data nobody reads in hand,
\* or wants to send an alert: unless the close_notify could not be sent.
CloseEndsReader ==
    \A s \in Sides :
        closed[s] ~> (reader[s] = "exited" \/ firstClose[s] = "failed")

\* Without faults, a close_notify that was sent ends the reader of the peer too, even
\* if writes that were under way are sent after it.
CloseReachesPeer ==
    [](faults = 0) => \A s \in Sides : stopping[s] ~> reader[Peer(s)] = "exited"

\* What has been accepted is read, unless its reader closes the connection itself:
\* the peer's close does not overtake the data before it.
AcceptedIsRead ==
    \A s \in Sides : \A k \in 1..MaxWrites[Peer(s)] :
        (hand[s] = Data(k) \/ buffer[s] = <<k>>)
          ~> (k \in ToSet(got[s]) \cup short[s] \/ closed[s])

\* "return non-error on the first user call of Close() even if the underlying
\* connection is already closed" (conn/mod.rs:497).
FirstCloseSucceeds == \A s \in Sides : firstClose[s] # "failed"
=============================================================================
