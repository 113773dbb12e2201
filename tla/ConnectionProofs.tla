-------------------------- MODULE ConnectionProofs --------------------------
(***************************************************************************)
(* Theorems about DtlsConnection, for any users and numbers of writes, any *)
(* replay window, any last sequence number, any number of faults, and      *)
(* cipher suites with and without a pre-shared key.                        *)
(***************************************************************************)
EXTENDS DtlsConnection, TLAPS

LEMMA SideFacts ==
    /\ Sides = {"client", "server"}
    /\ \A s \in Sides : Peer(s) \in Sides /\ Peer(Peer(s)) = s /\ Peer(s) # s
  BY DEF Sides, Peer

Places == {"idle", "storing", "sending", "awaiting", "taking", "closing"}
Kinds == {"data", "close_notify", "fatal", "nothing"}
Calls == [at : Places, content : Contents]
Request == [by : Users["client"] \cup Users["server"] \cup {"reader"}, content : Contents]
Record == [seq : 1..MaxSeq, content : Contents, genuine : BOOLEAN]

Shape ==
    /\ beneath \in [Sides -> {"open", "closed"}]
    /\ closed \in [Sides -> BOOLEAN]
    /\ stopping \in [Sides -> BOOLEAN]
    /\ DOMAIN calls = Sides /\ \A s \in Sides : calls[s] \in [Users[s] -> Calls]
    /\ queue \in [Sides -> {<<>>} \cup {<<r>> : r \in Request}]
    /\ next \in [Sides -> Nat \ {0}]
    /\ wire \in [Sides -> SUBSET Record]
    /\ reader \in [Sides -> {"reading", "handing", "replying", "exited"}]
    /\ hand \in [Sides -> Contents]
    /\ accepted \in [Sides -> SUBSET (0..MaxSeq)]
    /\ taken \in [Sides -> SUBSET (0..MaxSeq)]
    /\ arrived \in [Sides -> SUBSET (0..MaxSeq)]
    /\ buffer \in [Sides -> {<<>>} \cup {<<k>> : k \in Nat}]
    /\ written \in [Sides -> Nat] /\ \A s \in Sides : written[s] <= MaxWrites[s]
    /\ got \in [Sides -> Seq(Nat)]
    /\ shipped \in [Sides -> SUBSET Nat]
    /\ DOMAIN report = Sides /\ \A s \in Sides : DOMAIN report[s] = 1..MaxWrites[s]
    /\ short \in [Sides -> SUBSET Nat]

\* The contents there are.
LEMMA ContentFacts ==
    /\ {CloseNotify, Fatal, Nothing} \subseteq Contents
    /\ \A s \in Sides : \A k \in 1..MaxWrites[s] : Data(k) \in Contents
    /\ \A c \in Contents : /\ c.kind \in Kinds /\ c.number \in Nat
                           /\ c.kind = "data" => c = Data(c.number)
    /\ CloseNotify.kind = "close_notify" /\ Fatal.kind = "fatal" /\ Nothing.kind = "nothing"
    /\ \A k : Data(k).kind = "data" /\ Data(k).number = k
<1>1. MaxWrites["client"] \in Nat /\ MaxWrites["server"] \in Nat
  BY ConnectionAssumption DEF Sides
<1> QED BY <1>1 DEF Contents, CloseNotify, Fatal, Nothing, Data, Kinds, Sides

LEMMA ConstantFacts ==
    /\ Window \in Nat \ {0} /\ MaxSeq \in Nat \ {0} /\ Psk \in BOOLEAN
    /\ \A s \in Sides : MaxWrites[s] \in Nat
  BY ConnectionAssumption

LEMMA IdleIsCall == Idle \in Calls /\ Idle.content.kind = "nothing" /\ Idle.at = "idle"
  BY ContentFacts DEF Idle, Calls, Places

\* One value of a function over the sides changes.
LEMMA Updated ==
    ASSUME NEW T, NEW f \in [Sides -> T], NEW s \in Sides, NEW x \in T
    PROVE  /\ [f EXCEPT ![s] = x] \in [Sides -> T]
           /\ [f EXCEPT ![s] = x][s] = x
           /\ \A t \in Sides : t # s => [f EXCEPT ![s] = x][t] = f[t]
  OBVIOUS

\* What Goes does to the calls of each side.
LEMMA GoesView ==
    ASSUME Shape, NEW s \in Sides, NEW u, NEW call, Goes(s, u, call)
    PROVE  /\ DOMAIN calls' = Sides
           /\ \A t \in Sides : t # s => calls'[t] = calls[t]
           /\ \A v \in Users[s] : calls'[s][v] = IF v = u THEN call ELSE calls[s][v]
           /\ call \in Calls => \A t \in Sides : calls'[t] \in [Users[t] -> Calls]
<1>1. DOMAIN calls = Sides /\ \A t \in Sides : calls[t] \in [Users[t] -> Calls]
  BY DEF Shape
<1>2. calls' = [t \in Sides |-> IF t = s THEN [calls[s] EXCEPT ![u] = call] ELSE calls[t]]
  BY <1>1 DEF Goes
<1> QED BY <1>1, <1>2

LEMMA AnswersView ==
    ASSUME Shape, NEW s \in Sides, NEW k, NEW answer, Answers(s, k, answer)
    PROVE  /\ DOMAIN report' = Sides
           /\ \A t \in Sides : DOMAIN report'[t] = 1..MaxWrites[t]
           /\ \A t \in Sides : t # s => report'[t] = report[t]
           /\ \A j \in 1..MaxWrites[s] : report'[s][j] = IF j = k THEN answer ELSE report[s][j]
<1>1. DOMAIN report = Sides /\ \A t \in Sides : DOMAIN report[t] = 1..MaxWrites[t]
  BY DEF Shape
<1>2. report' = [t \in Sides |-> IF t = s THEN [report[s] EXCEPT ![k] = answer] ELSE report[t]]
  BY <1>1 DEF Answers
<1> QED BY <1>1, <1>2

UserStep(s, u) == User(s, u) \/ Call(s, u)

LEMMA InitShape == Init => Shape
<1> SUFFICES ASSUME Init PROVE Shape
  OBVIOUS
<1>1. \A s \in Sides : calls[s] \in [Users[s] -> Calls]
  BY IdleIsCall DEF Init
<1> QED BY <1>1, ContentFacts, ConstantFacts DEF Init, Shape, Sides

\* What a step does to the wire.
LEMMA WireView ==
    ASSUME Shape, NEW s \in Sides
    PROVE  /\ UNCHANGED wire => \A t \in Sides : wire'[t] = wire[t]
           /\ \A more : wire' = [wire EXCEPT ![s] = more] =>
                /\ wire'[s] = more
                /\ \A t \in Sides : t # s => wire'[t] = wire[t]
  BY DEF Shape

\* A request that is in the queue, as the sending task takes it.
LEMMA HeadOfQueue ==
    ASSUME Shape, NEW s \in Sides, queue[s] # <<>>
    PROVE  Head(queue[s]) \in Request /\ queue[s] = <<Head(queue[s])>> /\ Tail(queue[s]) = <<>>
<1>1. PICK r \in Request : queue[s] = <<r>>
  BY DEF Shape
<1> QED BY <1>1

LEMMA HeadOfBuffer ==
    ASSUME Shape, NEW s \in Sides, buffer[s] # <<>>
    PROVE  /\ Head(buffer[s]) \in Nat /\ buffer[s] = <<Head(buffer[s])>>
           /\ Tail(buffer[s]) = <<>>
<1>1. buffer[s] \in {<<k>> : k \in Nat}
  BY DEF Shape
<1>2. PICK k \in Nat : buffer[s] = <<k>>
  BY Zenon, <1>1
<1> QED BY <1>2

LEMMA ResultShape ==
    ASSUME Shape, NEW s \in Sides, NEW r \in Request, NEW sent, Result(s, r, sent)
    PROVE  /\ DOMAIN calls' = Sides /\ \A t \in Sides : calls'[t] \in [Users[t] -> Calls]
           /\ DOMAIN report' = Sides
           /\ \A t \in Sides : DOMAIN report'[t] = 1..MaxWrites[t]
<1>1. CASE UNCHANGED <<calls, report, firstClose>>
  BY <1>1 DEF Shape
<1>2. CASE Goes(s, r.by, Idle) /\ \E answer : Answers(s, r.content.number, answer)
  BY <1>2, GoesView, AnswersView, IdleIsCall
<1>3. CASE /\ Goes(s, r.by, IF sent THEN [at |-> "taking", content |-> Nothing] ELSE Idle)
           /\ UNCHANGED report
  <2>1. [at |-> "taking", content |-> Nothing] \in Calls
    BY ContentFacts DEF Calls, Places
  <2> QED BY <1>3, <2>1, GoesView, IdleIsCall DEF Shape
<1> QED BY <1>1, <1>2, <1>3 DEF Result

\* A step of a call that goes on: the call remains one.
LEMMA CallMoves ==
    ASSUME Shape, NEW s \in Sides, NEW u \in Users[s]
    PROVE  /\ calls[s][u] \in Calls
           /\ \A a \in Places : [calls[s][u] EXCEPT !.at = a] \in Calls
           /\ \A a \in Places : [at |-> a, content |-> CloseNotify] \in Calls
           /\ written[s] < MaxWrites[s]
                => [at |-> "sending", content |-> Data(written[s] + 1)] \in Calls
<1>1. calls[s][u] \in Calls
  BY DEF Shape
<1>2. written[s] < MaxWrites[s] => written[s] + 1 \in 1..MaxWrites[s]
  BY ConstantFacts DEF Shape
<1> QED BY <1>1, <1>2, ContentFacts DEF Calls, Places


LEMMA UserShape ==
    ASSUME Shape, NEW s \in Sides, NEW u \in Users[s], UserStep(s, u)
    PROVE  Shape'
<1> USE DEF Shape, callVars, sendVars, readVars, userVars
<1>1. CASE WriteBegins(s, u)
  <2>1. written'[s] = written[s] + 1 /\ \A t \in Sides : t # s => written'[t] = written[t]
    BY <1>1 DEF WriteBegins
  <2>2. written' \in [Sides -> Nat] /\ \A t \in Sides : written'[t] <= MaxWrites[t]
    BY <1>1, <2>1, ConstantFacts DEF WriteBegins
  <2>3. DOMAIN calls' = Sides /\ \A t \in Sides : calls'[t] \in [Users[t] -> Calls]
    <3> DEFINE call == [at |-> "sending", content |-> Data(written[s] + 1)]
    <3>1. call \in Calls
      BY <1>1, CallMoves DEF WriteBegins
    <3>2. Goes(s, u, call)
      BY <1>1 DEF WriteBegins
    <3> HIDE DEF call
    <3> QED BY <3>1, <3>2, GoesView
  <2> QED BY <1>1, <2>2, <2>3 DEF WriteBegins
<1>2. CASE Deadline(s, u)
  <2>1. DOMAIN calls' = Sides /\ \A t \in Sides : calls'[t] \in [Users[t] -> Calls]
    BY <1>2, IdleIsCall, GoesView DEF Deadline
  <2>2. DOMAIN report' = Sides /\ \A t \in Sides : DOMAIN report'[t] = 1..MaxWrites[t]
    BY <1>2, AnswersView DEF Deadline
  <2> QED BY <1>2, <2>1, <2>2 DEF Deadline
<1>3. CASE CloseLoads(s, u) \/ CloseStores(s, u) \/ CloseTakes(s, u) \/ CloseEnds(s, u)
  <2>1. DOMAIN calls' = Sides /\ \A t \in Sides : calls'[t] \in [Users[t] -> Calls]
    <3>1. PICK c \in Calls : Goes(s, u, c)
      <4>1. calls[s][u] \in Calls /\ {"storing", "sending", "closing"} \subseteq Places
        BY DEF Places
      <4> QED BY <1>3, <4>1, IdleIsCall, CallMoves
              DEF CloseLoads, CloseStores, CloseTakes, CloseEnds
    <3> QED BY <3>1, GoesView
  <2> QED BY <1>3, <2>1 DEF CloseLoads, CloseStores, CloseTakes, CloseEnds
<1>4. CASE Queues(s, u)
  <2>1. DOMAIN calls' = Sides /\ \A t \in Sides : calls'[t] \in [Users[t] -> Calls]
    <3>1. "awaiting" \in Places
      BY DEF Places
    <3>2. [calls[s][u] EXCEPT !.at = "awaiting"] \in Calls
      BY <3>1, CallMoves
    <3>3. Goes(s, u, [calls[s][u] EXCEPT !.at = "awaiting"])
      BY <1>4 DEF Queues
    <3> QED BY <3>2, <3>3, GoesView
  <2>2. [by |-> u, content |-> calls[s][u].content] \in Request
    BY CallMoves, SideFacts DEF Calls, Request
  <2> QED BY <1>4, <2>1, <2>2 DEF Queues
<1> QED BY <1>1, <1>2, <1>3, <1>4 DEF UserStep, User, Call

LEMMA OutgoingShape ==
    ASSUME Shape, NEW s \in Sides, Outgoing(s)
    PROVE  Shape'
<1> DEFINE r == Head(queue[s])
           sent == next[s] <= MaxSeq /\ beneath[s] = "open"
<1>1. r \in Request /\ queue' = [queue EXCEPT ![s] = <<>>]
  BY HeadOfQueue DEF Outgoing
<1>2. /\ DOMAIN calls' = Sides /\ \A t \in Sides : calls'[t] \in [Users[t] -> Calls]
      /\ DOMAIN report' = Sides /\ \A t \in Sides : DOMAIN report'[t] = 1..MaxWrites[t]
  BY <1>1, ResultShape DEF Outgoing
<1>3. r.content \in Contents /\ (r.content.kind = "data" => r.content.number \in Nat)
  BY <1>1, ContentFacts DEF Request
<1>4. wire' \in [Sides -> SUBSET Record] /\ shipped' \in [Sides -> SUBSET Nat]
  <2>1. CASE sent
    <3>1. [seq |-> next[s], content |-> r.content, genuine |-> TRUE] \in Record
      BY <1>3, <2>1, ConstantFacts DEF Shape, Record
    <3> DEFINE more == wire[Peer(s)] \cup
                         {[seq |-> next[s], content |-> r.content, genuine |-> TRUE]}
               sending == IF r.content.kind = "data" THEN shipped[s] \cup {r.content.number}
                                                     ELSE shipped[s]
    <3>2. wire' = [wire EXCEPT ![Peer(s)] = more] /\ shipped' = [shipped EXCEPT ![s] = sending]
      BY <2>1 DEF Outgoing
    <3>3. wire[Peer(s)] \in SUBSET Record /\ shipped[s] \in SUBSET Nat /\ Peer(s) \in Sides
      BY SideFacts DEF Shape
    <3>4. more \in SUBSET Record /\ sending \in SUBSET Nat
      BY <1>3, <3>1, <3>3
    <3>5. wire \in [Sides -> SUBSET Record] /\ shipped \in [Sides -> SUBSET Nat]
      BY DEF Shape
    <3> HIDE DEF more, sending
    <3> QED BY <3>2, <3>3, <3>4, <3>5, Updated
  <2>2. CASE ~sent
    BY <2>2 DEF Outgoing, Shape
  <2> QED BY <2>1, <2>2
<1>5. next' = [next EXCEPT ![s] = next[s] + 1] /\ next[s] + 1 \in Nat \ {0}
  BY DEF Outgoing, Shape
<1>6. /\ queue' \in [Sides -> {<<>>} \cup {<<q>> : q \in Request}]
      /\ next' \in [Sides -> Nat \ {0}]
  BY <1>1, <1>5, Updated DEF Shape
<1> QED BY <1>2, <1>4, <1>6 DEF Outgoing, Shape, readVars, userVars

LEMMA ReceiveShape ==
    ASSUME Shape, NEW s \in Sides, Receive(s)
    PROVE  Shape'
<1>1. PICK rec \in wire[s] :
        /\ wire' = [wire EXCEPT ![s] = @ \ {rec}] \/ UNCHANGED wire
        /\ arrived' = [arrived EXCEPT ![s] = IF rec.genuine THEN @ \cup {rec.seq} ELSE @]
        /\ Incoming(s, rec)
  BY DEF Receive
<1>2. rec.seq \in 0..MaxSeq /\ rec.content \in Contents
  BY ConstantFacts DEF Shape, Record
<1> DEFINE Numbers == SUBSET (0..MaxSeq)
<1>a. /\ wire \in [Sides -> SUBSET Record] /\ arrived \in [Sides -> Numbers]
      /\ accepted \in [Sides -> Numbers] /\ taken \in [Sides -> Numbers]
  BY DEF Shape
<1>b. /\ wire[s] \ {rec} \in SUBSET Record
      /\ \A f \in [Sides -> Numbers] : f[s] \in Numbers /\ f[s] \cup {rec.seq} \in Numbers
  BY <1>2, <1>a
<1>3. wire' \in [Sides -> SUBSET Record] /\ arrived' \in [Sides -> Numbers]
  <2>1. wire' \in [Sides -> SUBSET Record]
    BY <1>1, <1>a, <1>b, Updated
  <2>2. PICK x \in Numbers : arrived' = [arrived EXCEPT ![s] = x]
    BY <1>1, <1>a, <1>b
  <2> QED BY <2>1, <2>2, <1>a, Updated
<1>4. accepted' \in [Sides -> Numbers] /\ taken' \in [Sides -> Numbers]
  <2>1. CASE UNCHANGED <<accepted, taken>>
    BY <2>1, <1>a
  <2>2. CASE Accept(s, rec.seq)
    <3>1. /\ accepted' = [accepted EXCEPT ![s] = accepted[s] \cup {rec.seq}]
          /\ taken' = [taken EXCEPT ![s] = taken[s] \cup {rec.seq}]
      BY <2>2 DEF Accept
    <3>2. accepted[s] \cup {rec.seq} \in Numbers /\ taken[s] \cup {rec.seq} \in Numbers
      BY <1>a, <1>b
    <3> HIDE DEF Numbers
    <3> QED BY <3>1, <3>2, <1>a, Updated
  <2> QED BY <1>1, <2>1, <2>2 DEF Incoming, Discard
<1>5. /\ reader' \in [Sides -> {"reading", "handing", "replying", "exited"}]
      /\ hand' \in [Sides -> Contents]
  <2>1. CASE UNCHANGED <<reader, hand>>
    BY <2>1 DEF Shape
  <2>2. CASE \E state \in {"handing", "replying"}, c \in Contents : Becomes(s, state, c)
    BY <2>2 DEF Becomes, Shape
  <2> QED BY <1>1, <1>2, <2>1, <2>2, ContentFacts DEF Incoming, Discard
<1> QED BY <1>3, <1>4, <1>5 DEF Receive, Shape, callVars, sendVars, userVars

LEMMA ReaderShape ==
    ASSUME Shape, NEW s \in Sides, HandOver(s) \/ Reply(s) \/ ReaderStops(s) \/ Read(s)
    PROVE  Shape'
<1> USE DEF Shape, callVars, sendVars, readVars, userVars
<1>1. CASE HandOver(s)
  <2>1. hand[s].number \in Nat
    BY ContentFacts
  <2>2. buffer' \in [Sides -> {<<>>} \cup {<<k>> : k \in Nat}]
    BY <1>1, <2>1 DEF HandOver
  <2> QED BY <1>1, <2>2, ContentFacts DEF HandOver, Becomes
<1>2. CASE Reply(s)
  <2>1. [by |-> "reader", content |-> hand[s]] \in Request
    BY DEF Request
  <2> QED BY <1>2, <2>1, ContentFacts DEF Reply, Becomes
<1>3. CASE ReaderStops(s)
  BY <1>3, ContentFacts DEF ReaderStops, Becomes
<1>4. CASE Read(s)
  <2>1. Head(buffer[s]) \in Nat /\ buffer' = [buffer EXCEPT ![s] = <<>>]
    BY <1>4, HeadOfBuffer DEF Read
  <2>2. buffer' \in [Sides -> {<<>>} \cup {<<k>> : k \in Nat}]
    BY <2>1, Updated
  <2>3. /\ got' = got \/ got' = [got EXCEPT ![s] = Append(got[s], Head(buffer[s]))]
        /\ short' = short \/ short' = [short EXCEPT ![s] = short[s] \cup {Head(buffer[s])}]
    BY <1>4 DEF Read
  <2>4. /\ Append(got[s], Head(buffer[s])) \in Seq(Nat)
        /\ short[s] \cup {Head(buffer[s])} \in SUBSET Nat
    BY <2>1
  <2>5. got' \in [Sides -> Seq(Nat)] /\ short' \in [Sides -> SUBSET Nat]
    <3>1. got \in [Sides -> Seq(Nat)] /\ short \in [Sides -> SUBSET Nat]
      OBVIOUS
    <3> DEFINE reading == Append(got[s], Head(buffer[s]))
               losing == short[s] \cup {Head(buffer[s])}
    <3>2. reading \in Seq(Nat) /\ losing \in SUBSET Nat
      BY <2>4
    <3>3. got' = got \/ got' = [got EXCEPT ![s] = reading]
      BY <2>3
    <3>4. short' = short \/ short' = [short EXCEPT ![s] = losing]
      BY <2>3
    <3> HIDE DEF reading, losing, Shape
    <3>5. got' \in [Sides -> Seq(Nat)]
      BY <3>1, <3>2, <3>3, Updated
    <3>6. short' \in [Sides -> SUBSET Nat]
      BY <3>1, <3>2, <3>4, Updated
    <3> QED BY <3>5, <3>6
  <2> QED BY <1>4, <2>2, <2>5 DEF Read
<1> QED BY <1>1, <1>2, <1>3, <1>4

LEMMA NetworkShape ==
    ASSUME Shape, NEW s \in Sides, Network(s)
    PROVE  Shape'
<1> USE DEF Shape, callVars, sendVars, readVars, userVars
<1>1. CASE Lose(s)
  BY <1>1 DEF Lose
<1>2. CASE Corrupt(s)
  <2>1. PICK rec \in wire[s] :
          wire' = [wire EXCEPT ![s] = @ \cup {[rec EXCEPT !.genuine = FALSE]}]
    BY <1>2 DEF Corrupt
  <2>2. [rec EXCEPT !.genuine = FALSE] \in Record
    <3>1. rec \in Record
      OBVIOUS
    <3> QED BY <3>1 DEF Record
  <2>3. wire[s] \cup {[rec EXCEPT !.genuine = FALSE]} \in SUBSET Record
    BY <2>2
  <2>4. wire' \in [Sides -> SUBSET Record]
    BY <2>1, <2>3, Updated
  <2> QED BY <1>2, <2>4 DEF Corrupt
<1>3. CASE Dies(s)
  BY <1>3 DEF Dies
<1> QED BY <1>1, <1>2, <1>3 DEF Network

LEMMA NextShape ==
    ASSUME Shape, [Next]_vars
    PROVE  Shape'
<1>1. CASE UNCHANGED vars
  BY <1>1 DEF vars, Shape, callVars, sendVars, readVars, userVars
<1>2. CASE Next
  BY <1>2, UserShape, OutgoingShape, ReceiveShape, ReaderShape, NetworkShape
     DEF Next, UserStep, Reader
<1> QED BY <1>1, <1>2

-----------------------------------------------------------------------------
(* The inductive invariant                                                 *)

HandOK ==
    \A s \in Sides :
        /\ reader[s] = "handing" => hand[s].kind = "data"
        /\ reader[s] = "replying" => hand[s].kind # "data"

\* The replay detector knows what has been acted on, which has arrived.
AcceptOK == taken = accepted /\ \A s \in Sides : accepted[s] \subseteq arrived[s]

\* Datagram k of side s waits for room in the queue; it is in the queue.
Sending(s, k) ==
    \E u \in Users[s] : calls[s][u].at = "sending" /\ calls[s][u].content = Data(k)
Queued(s, k) == queue[s] # <<>> /\ Head(queue[s]).content = Data(k)

\* A datagram is with one user, or in the queue, or sent, or has failed.
WritesOK(s) ==
    /\ \A u \in Users[s] : calls[s][u].content.kind = "data" =>
         /\ calls[s][u].at \in {"sending", "awaiting"}
         /\ calls[s][u].content.number \in 1..written[s]
         /\ \A v \in Users[s] : calls[s][v].content = calls[s][u].content => v = u
    /\ \A k \in Nat :
         /\ Queued(s, k) => k \in 1..written[s] /\ k \notin shipped[s] /\ ~Sending(s, k)
         /\ Sending(s, k) => k \notin shipped[s]
    /\ shipped[s] \subseteq 1..written[s]
    /\ \A k \in 1..MaxWrites[s] :
         /\ report[s][k] # "none" => k <= written[s]
         /\ report[s][k] = "ok" => k \in shipped[s]
         /\ report[s][k] = "failed" => k \notin shipped[s] /\ ~Queued(s, k) /\ ~Sending(s, k)

\* Side s has datagram k of its peer.
Known(s, k) ==
    \/ k \in Range(got[s])
    \/ buffer[s] = <<k>>
    \/ reader[s] = "handing" /\ hand[s] = Data(k)

\* A datagram on the wire has one number, and is accepted once it is known.
OnceOK(s) ==
    /\ \A k \in Nat :
         /\ Known(s, k) => k \in shipped[Peer(s)]
         /\ buffer[s] = <<k>> => k \notin Range(got[s])
         /\ reader[s] = "handing" /\ hand[s] = Data(k)
              => k \notin Range(got[s]) /\ buffer[s] # <<k>>
    /\ \A rec \in wire[s] : rec.genuine /\ rec.content.kind = "data" =>
         /\ rec.content.number \in shipped[Peer(s)]
         /\ Known(s, rec.content.number) => rec.seq \in accepted[s]
         /\ \A other \in wire[s] :
              other.genuine /\ other.content = rec.content => other.seq = rec.seq

\* One of the sides has closed, or has met a record that it could not decrypt.
HungUp == (\E s \in Sides : closed[s]) \/ doomed # {}

\* What ends a reader comes from there: until then there are only data.
Quiet(s) ==
    /\ ~stopping[s]
    /\ reader[s] \in {"reading", "handing"}
    /\ queue[s] # <<>> => Head(queue[s]).content.kind = "data"
    /\ \A rec \in wire[s] : rec.content.kind = "data"
IsCalm(call) ==
    \/ call.at \in {"idle", "storing"}
    \/ call.at \in {"sending", "awaiting"} /\ call.content.kind = "data"
EndOK == ~HungUp => \A s \in Sides : Quiet(s) /\ \A u \in Users[s] : IsCalm(calls[s][u])

ConnectionInd ==
    /\ Shape /\ HandOK /\ AcceptOK /\ EndOK
    /\ \A s \in Sides : WritesOK(s) /\ OnceOK(s)

LEMMA InitInd == Init => ConnectionInd
<1> SUFFICES ASSUME Init PROVE ConnectionInd
  OBVIOUS
<1>1. Shape
  BY InitShape
<1>2. HandOK /\ AcceptOK
  BY DEF Init, HandOK, AcceptOK
<1>5. EndOK
  <2>1. \A s \in Sides : Quiet(s)
    BY DEF Init, Quiet
  <2>2. \A s \in Sides : \A u \in Users[s] : calls[s][u] = Idle
    BY DEF Init
  <2>3. IsCalm(Idle)
    BY IdleIsCall DEF IsCalm
  <2> QED BY <2>1, <2>2, <2>3 DEF EndOK
<1>3. ASSUME NEW s \in Sides PROVE WritesOK(s)
  BY IdleIsCall DEF Init, WritesOK, Queued, Sending
<1>4. ASSUME NEW s \in Sides PROVE OnceOK(s)
  BY SideFacts DEF Init, OnceOK, Known, Range
<1> QED BY <1>1, <1>2, <1>3, <1>4, <1>5 DEF ConnectionInd

\* HandOK and AcceptOK are kept.
LEMMA NextHand ==
    ASSUME Shape, HandOK, AcceptOK, [Next]_vars
    PROVE  HandOK' /\ AcceptOK'
<1> USE DEF HandOK, AcceptOK, Shape
<1>1. CASE UNCHANGED <<reader, hand, accepted, taken, arrived>>
  BY <1>1
<1>2. ASSUME NEW s \in Sides, Receive(s) PROVE HandOK' /\ AcceptOK'
  <2>1. PICK rec \in wire[s] :
          /\ arrived' = [arrived EXCEPT ![s] = IF rec.genuine THEN @ \cup {rec.seq} ELSE @]
          /\ Incoming(s, rec)
    BY <1>2 DEF Receive
  <2>2. CASE UNCHANGED <<reader, hand, accepted, taken>>
    BY <2>1, <2>2
  <2>3. CASE Becomes(s, "replying", Fatal) /\ UNCHANGED <<accepted, taken>>
    BY <2>1, <2>3, ContentFacts DEF Becomes
  <2>4. CASE /\ rec.genuine
             /\ Becomes(s, IF rec.content.kind = "data" THEN "handing" ELSE "replying", rec.content)
             /\ Accept(s, rec.seq)
    <3>1. HandOK'
      BY <2>4 DEF Becomes
    <3>2. arrived' = [arrived EXCEPT ![s] = arrived[s] \cup {rec.seq}]
      BY <2>1, <2>4
    <3>3. AcceptOK'
      BY <2>4, <3>2 DEF Accept
    <3> QED BY <3>1, <3>3
  <2> QED BY <2>1, <2>2, <2>3, <2>4 DEF Incoming, Discard
<1>3. ASSUME NEW s \in Sides, HandOver(s) \/ Reply(s) \/ ReaderStops(s)
      PROVE  HandOK' /\ AcceptOK'
  BY <1>3 DEF HandOver, Reply, ReaderStops, Becomes, sendVars
<1>4. ASSUME NEW s \in Sides, NEW u \in Users[s], UserStep(s, u)
      PROVE  UNCHANGED <<reader, hand, accepted, taken, arrived>>
  BY <1>4 DEF UserStep, User, Call, WriteBegins, Deadline, CloseLoads, CloseStores, Queues,
     CloseTakes, CloseEnds, readVars
<1>5. ASSUME NEW s \in Sides, Outgoing(s) \/ Read(s) \/ Network(s)
      PROVE  UNCHANGED <<reader, hand, accepted, taken, arrived>>
  BY <1>5 DEF Outgoing, Read, Network, Lose, Corrupt, Dies, readVars
<1> QED BY <1>1, <1>2, <1>3, <1>4, <1>5 DEF Next, UserStep, Reader, vars, readVars

\* Hanging up is for good.
LEMMA HungUpKept ==
    ASSUME Shape, [Next]_vars
    PROVE  /\ \A t \in Sides : closed[t] => closed'[t]
           /\ doomed \subseteq doomed'
           /\ HungUp => HungUp'
<1>1. ASSUME NEW s \in Sides, NEW u \in Users[s], UserStep(s, u)
      PROVE  /\ UNCHANGED closed \/ closed' = [closed EXCEPT ![s] = TRUE]
             /\ UNCHANGED doomed
  BY <1>1 DEF UserStep, User, Call, WriteBegins, Deadline, CloseLoads, CloseStores, Queues,
     CloseTakes, CloseEnds, readVars
<1>2. ASSUME NEW s \in Sides, Outgoing(s) \/ Reader(s) \/ Read(s) \/ Network(s)
      PROVE  UNCHANGED closed /\ doomed \subseteq doomed'
  <2>1. UNCHANGED closed
    BY <1>2 DEF Outgoing, Reader, Receive, HandOver, Reply, ReaderStops, Read, Network, Lose,
       Corrupt, Dies, callVars
  <2>2. CASE Receive(s)
    <3>1. PICK rec \in wire[s] : Incoming(s, rec)
      BY <2>2 DEF Receive
    <3>2. doomed' = doomed \/ doomed' = doomed \cup {s}
      BY <3>1 DEF Incoming, Discard
    <3> QED BY <2>1, <3>2
  <2>3. CASE Outgoing(s) \/ Read(s) \/ Network(s)
    BY <2>1, <2>3 DEF Outgoing, Read, Network, Lose, Corrupt, Dies, readVars
  <2>4. CASE HandOver(s) \/ Reply(s) \/ ReaderStops(s)
    BY <2>1, <2>4 DEF HandOver, Reply, ReaderStops
  <2> QED BY <1>2, <2>1, <2>2, <2>3, <2>4 DEF Reader
<1>3. CASE UNCHANGED vars
  BY <1>3 DEF vars, callVars, readVars, HungUp
<1>4. /\ UNCHANGED closed \/ \E s \in Sides : closed' = [closed EXCEPT ![s] = TRUE]
      /\ doomed \subseteq doomed'
  BY <1>1, <1>2, <1>3 DEF Next, UserStep, vars, callVars, readVars
<1>5. \A t \in Sides : closed[t] => closed'[t]
  BY <1>4 DEF Shape
<1> QED BY <1>4, <1>5 DEF HungUp

\* A call that moves to a calm state leaves all calls calm.
LEMMA StaysCalm ==
    ASSUME Shape, NEW s \in Sides, NEW u, NEW call, Goes(s, u, call), IsCalm(call),
           \A t \in Sides : \A v \in Users[t] : IsCalm(calls[t][v])
    PROVE  \A t \in Sides : \A v \in Users[t] : IsCalm(calls'[t][v])
<1>1. \A t \in Sides : \A v \in Users[t] : calls'[t][v] = call \/ calls'[t][v] = calls[t][v]
  BY GoesView
<1> QED BY <1>1

\* As long as nobody has hung up, nobody is told so.
LEMMA NextEnd ==
    ASSUME Shape, HandOK, EndOK, [Next]_vars
    PROVE  EndOK'
<1> DEFINE AllCalm == \A t \in Sides : \A v \in Users[t] : IsCalm(calls[t][v])
           AllQuiet == \A t \in Sides : Quiet(t)
<1> SUFFICES ASSUME ~HungUp' PROVE AllCalm' /\ AllQuiet'
  BY DEF EndOK
<1>1. ~HungUp /\ AllCalm /\ AllQuiet
  BY HungUpKept DEF EndOK
<1>2. CASE UNCHANGED vars
  BY <1>1, <1>2 DEF vars, callVars, sendVars, readVars, Quiet
<1>3. ASSUME NEW s \in Sides, NEW u \in Users[s], UserStep(s, u) PROVE AllCalm' /\ AllQuiet'
  <2>0. calls[s][u] \in Calls /\ IsCalm(calls[s][u]) /\ queue \in [Sides -> {<<>>} \cup {<<r>> : r \in Request}]
    BY <1>1 DEF Shape
  <2>1. CASE WriteBegins(s, u) \/ Deadline(s, u) \/ CloseLoads(s, u)
    <3>1. PICK c : Goes(s, u, c) /\ IsCalm(c)
      <4>1. CASE WriteBegins(s, u)
        <5>1. IsCalm([at |-> "sending", content |-> Data(written[s] + 1)])
          BY ContentFacts DEF IsCalm
        <5> QED BY <4>1, <5>1 DEF WriteBegins
      <4>2. CASE Deadline(s, u)
        BY <4>2, IdleIsCall DEF Deadline, IsCalm
      <4>3. CASE CloseLoads(s, u)
        <5>1. IsCalm([at |-> "storing", content |-> CloseNotify])
          BY DEF IsCalm
        <5> QED BY <4>3, <5>1 DEF CloseLoads
      <4> QED BY <2>1, <4>1, <4>2, <4>3
    <3>2. AllCalm'
      BY <1>1, <3>1, StaysCalm
    <3>3. AllQuiet'
      BY <1>1, <2>1 DEF WriteBegins, Deadline, CloseLoads, Quiet, sendVars, readVars
    <3> QED BY <3>2, <3>3
  <2>2. CASE CloseStores(s, u)
    <3>1. closed'[s]
      BY <2>2 DEF CloseStores, Shape
    <3> QED BY <3>1 DEF HungUp
  <2>3. CASE Queues(s, u)
    <3>1. calls[s][u].content.kind = "data"
      BY <2>0, <2>3 DEF Queues, At, IsCalm
    <3>2. IsCalm([calls[s][u] EXCEPT !.at = "awaiting"])
      BY <2>0, <3>1 DEF IsCalm, Calls
    <3>3. AllCalm'
      BY <1>1, <2>3, <3>2, StaysCalm DEF Queues
    <3>4. AllQuiet'
      BY <1>1, <2>0, <2>3, <3>1 DEF Queues, Quiet, readVars
    <3> QED BY <3>3, <3>4
  <2>4. CASE CloseTakes(s, u) \/ CloseEnds(s, u)
    BY <2>0, <2>4 DEF CloseTakes, CloseEnds, At, IsCalm
  <2> QED BY <1>3, <2>1, <2>2, <2>3, <2>4 DEF UserStep, User, Call
<1>4. ASSUME NEW s \in Sides, Outgoing(s) PROVE AllCalm' /\ AllQuiet'
  <2> DEFINE r == Head(queue[s])
             sent == next[s] <= MaxSeq /\ beneath[s] = "open"
  <2>1. r \in Request /\ r.content.kind = "data" /\ queue' = [queue EXCEPT ![s] = <<>>]
    BY <1>1, <1>4, HeadOfQueue DEF Outgoing, Quiet
  <2>2. AllCalm'
    <3>1. Result(s, r, sent)
      BY <1>4 DEF Outgoing
    <3>2. UNCHANGED calls \/ Goes(s, r.by, Idle)
      BY <2>1, <3>1 DEF Result
    <3>3. IsCalm(Idle)
      BY IdleIsCall DEF IsCalm
    <3> QED BY <1>1, <3>2, <3>3, StaysCalm
  <2>3. \A t \in Sides : \A rec \in wire'[t] : rec.content.kind = "data"
    <3>1. UNCHANGED wire \/ wire' = [wire EXCEPT ![Peer(s)] = wire[Peer(s)] \cup
                      {[seq |-> next[s], content |-> r.content, genuine |-> TRUE]}]
      BY <1>4 DEF Outgoing
    <3> QED BY <1>1, <2>1, <3>1, SideFacts DEF Quiet, Shape
  <2>4. \A t \in Sides : queue'[t] # <<>> => Head(queue'[t]).content.kind = "data"
    BY <1>1, <2>1 DEF Quiet, Shape
  <2> QED BY <1>1, <1>4, <2>2, <2>3, <2>4 DEF Outgoing, Quiet, readVars
<1>5. ASSUME NEW s \in Sides, Receive(s) PROVE AllCalm' /\ AllQuiet'
  <2>1. PICK rec \in wire[s] :
          /\ wire' = [wire EXCEPT ![s] = @ \ {rec}] \/ UNCHANGED wire
          /\ Incoming(s, rec)
    BY <1>5 DEF Receive
  <2>2. rec.content.kind = "data"
    BY <1>1 DEF Quiet
  <2>3. \A t \in Sides : wire'[t] \subseteq wire[t]
    BY <2>1, WireView
  <2>4. UNCHANGED doomed
    BY <1>1 DEF HungUp
  <2>5. UNCHANGED reader \/ reader' = [reader EXCEPT ![s] = "handing"]
    BY <2>1, <2>2, <2>4 DEF Incoming, Discard, Becomes, HungUp
  <2>6. \A t \in Sides : reader'[t] \in {"reading", "handing"}
    BY <1>1, <2>5 DEF Quiet, Shape
  <2> QED BY <1>1, <1>5, <2>3, <2>6 DEF Receive, Quiet, callVars, sendVars
<1>6. ASSUME NEW s \in Sides, HandOver(s) \/ Reply(s) \/ ReaderStops(s)
      PROVE  AllCalm' /\ AllQuiet'
  <2>1. HandOver(s)
    BY <1>1, <1>6 DEF Reply, ReaderStops, Quiet
  <2>2. \A t \in Sides : reader'[t] \in {"reading", "handing"}
    BY <1>1, <2>1 DEF HandOver, Becomes, Quiet, Shape
  <2> QED BY <1>1, <2>1, <2>2 DEF HandOver, Quiet, callVars, sendVars
<1>7. ASSUME NEW s \in Sides, Read(s) \/ Network(s) PROVE AllCalm' /\ AllQuiet'
  <2>1. \A t \in Sides : \A rec \in wire'[t] : rec.content.kind = "data"
    <3>1. CASE Read(s) \/ Lose(s) \/ Dies(s)
      <4>1. \A t \in Sides : wire'[t] \subseteq wire[t]
        BY <3>1, WireView DEF Read, Lose, Dies
      <4> QED BY <1>1, <4>1 DEF Quiet
    <3>2. CASE Corrupt(s)
      <4>1. PICK rec \in wire[s] :
              wire' = [wire EXCEPT ![s] = wire[s] \cup {[rec EXCEPT !.genuine = FALSE]}]
        BY <3>2 DEF Corrupt
      <4>2. rec \in Record
        BY DEF Shape
      <4>3. [rec EXCEPT !.genuine = FALSE].content = rec.content
        BY <4>2 DEF Record
      <4>4. \A t \in Sides : wire'[t] \subseteq wire[t] \cup {[rec EXCEPT !.genuine = FALSE]}
        BY <4>1, WireView
      <4> DEFINE copy == [rec EXCEPT !.genuine = FALSE]
      <4>5. copy.content.kind = "data" /\ \A t \in Sides : wire'[t] \subseteq wire[t] \cup {copy}
        BY <1>1, <4>3, <4>4 DEF Quiet
      <4>6. \A t \in Sides : \A q \in wire[t] : q.content.kind = "data"
        BY <1>1 DEF Quiet
      <4> HIDE DEF copy
      <4> QED BY <4>5, <4>6
    <3> QED BY <1>7, <3>1, <3>2 DEF Network
  <2> QED BY <1>1, <1>7, <2>1
          DEF Read, Network, Lose, Corrupt, Dies, Quiet, callVars, sendVars, readVars
<1> QED BY <1>2, <1>3, <1>4, <1>5, <1>6, <1>7 DEF Next, UserStep, Reader

-----------------------------------------------------------------------------
(* The way of a written datagram to the wire                               *)

LEMMA WritesFrame ==
    ASSUME NEW t, WritesOK(t), calls'[t] = calls[t], queue'[t] = queue[t],
           shipped'[t] = shipped[t], written'[t] = written[t], report'[t] = report[t]
    PROVE  WritesOK(t)'
  BY DEF WritesOK, Queued, Sending

\* Both sides are as they should be if one is and the other has not moved.
LEMMA OtherWrites ==
    ASSUME Shape, \A t \in Sides : WritesOK(t), NEW s \in Sides, WritesOK(s)',
           \A t \in Sides : t # s => /\ calls'[t] = calls[t] /\ queue'[t] = queue[t]
                                     /\ shipped'[t] = shipped[t] /\ written'[t] = written[t]
                                     /\ report'[t] = report[t]
    PROVE  (\A t \in Sides : WritesOK(t))'
  BY WritesFrame DEF Sides

\* A call that ends, or moves on with a close_notify, leaves the datagrams of others.
LEMMA CallLeaves ==
    ASSUME Shape, NEW s \in Sides, WritesOK(s), NEW u, NEW call, Goes(s, u, call),
           call.content.kind # "data",
           queue'[s] = queue[s], shipped'[s] = shipped[s], written'[s] = written[s],
           report'[s] = report[s]
    PROVE  WritesOK(s)'
<1>1. \A v \in Users[s] : calls'[s][v] = IF v = u THEN call ELSE calls[s][v]
  BY GoesView
<1>2. \A k : call.content # Data(k)
  BY ContentFacts
<1>3. \A k : Sending(s, k)' => Sending(s, k)
  BY <1>1, <1>2 DEF Sending
<1>4. \A k : Queued(s, k)' <=> Queued(s, k)
  BY DEF Queued
<1> QED BY <1>1, <1>3, <1>4 DEF WritesOK

LEMMA UserWrites ==
    ASSUME Shape, \A t \in Sides : WritesOK(t), NEW s \in Sides, NEW u \in Users[s],
           UserStep(s, u)
    PROVE  (\A t \in Sides : WritesOK(t))'
<1> SUFFICES WritesOK(s)'
  <2>1. \A t \in Sides : t # s => /\ calls'[t] = calls[t] /\ queue'[t] = queue[t]
                                  /\ shipped'[t] = shipped[t] /\ written'[t] = written[t]
                                  /\ report'[t] = report[t]
    <3>1. PICK c : Goes(s, u, c)
      BY DEF UserStep, User, Call, WriteBegins, Deadline, CloseLoads, CloseStores, Queues,
         CloseTakes, CloseEnds
    <3>2. \A t \in Sides : t # s => calls'[t] = calls[t] /\ report'[t] = report[t]
      <4>1. UNCHANGED report \/ \E k, answer : Answers(s, k, answer)
        BY DEF UserStep, User, Call, WriteBegins, Deadline, CloseLoads, CloseStores, Queues,
           CloseTakes, CloseEnds
      <4> QED BY <3>1, <4>1, GoesView, AnswersView
    <3>3. /\ UNCHANGED shipped
          /\ UNCHANGED written \/ \E x : written' = [written EXCEPT ![s] = x]
          /\ UNCHANGED queue \/ \E x : queue' = [queue EXCEPT ![s] = x]
      BY DEF UserStep, User, Call, WriteBegins, Deadline, CloseLoads, CloseStores, Queues,
         CloseTakes, CloseEnds, sendVars
    <3> QED BY <3>2, <3>3 DEF Shape
  <2> QED BY <2>1, OtherWrites
<1> USE DEF sendVars
<1>0. WritesOK(s) /\ calls[s][u] \in Calls /\ Idle.content.kind # "data"
  BY IdleIsCall DEF Shape
<1>1. CASE WriteBegins(s, u)
  <2> DEFINE n == written[s] + 1
             call == [at |-> "sending", content |-> Data(n)]
  <2>1. /\ n \in Nat /\ written'[s] = n /\ n \in 1..MaxWrites[s]
        /\ queue' = queue /\ shipped' = shipped /\ report' = report
    BY <1>1, ConstantFacts DEF WriteBegins, Shape
  <2>2. \A v \in Users[s] : calls'[s][v] = IF v = u THEN call ELSE calls[s][v]
    BY <1>1, GoesView DEF WriteBegins
  <2>3. \A v \in Users[s] : calls[s][v].content # Data(n)
    <3>1. ASSUME NEW v \in Users[s], calls[s][v].content = Data(n) PROVE FALSE
      <4>1. Data(n).kind = "data" /\ Data(n).number = n /\ written[s] \in Nat
        BY ContentFacts DEF Shape
      <4>2. Data(n).number \in 1..written[s]
        BY <1>0, <3>1, <4>1 DEF WritesOK
      <4> QED BY <4>1, <4>2
    <3> QED BY <3>1
  <2>4. \A k : Sending(s, k)' => Sending(s, k) \/ k = n
    BY <2>2, ContentFacts DEF Sending
  <2>5. \A k : Queued(s, k)' <=> Queued(s, k)
    BY <2>1 DEF Queued
  <2>6. ~Queued(s, n) /\ n \notin shipped[s] /\ 1..written[s] \subseteq 1..n /\ report[s][n] = "none"
    BY <1>0, <2>1 DEF WritesOK, Shape
  <2>7. ASSUME NEW v \in Users[s], calls'[s][v].content.kind = "data"
        PROVE  /\ calls'[s][v].at \in {"sending", "awaiting"}
               /\ calls'[s][v].content.number \in 1..n
               /\ \A w \in Users[s] : calls'[s][w].content = calls'[s][v].content => w = v
    BY <1>0, <2>1, <2>2, <2>3, <2>6, <2>7, ContentFacts DEF WritesOK
  <2>8. \A k \in Nat :
          /\ Queued(s, k)' => k \in 1..n /\ k \notin shipped[s] /\ ~Sending(s, k)'
          /\ Sending(s, k)' => k \notin shipped[s]
    BY <1>0, <2>4, <2>5, <2>6 DEF WritesOK
  <2>9. \A k \in 1..MaxWrites[s] :
          /\ report[s][k] # "none" => k <= n
          /\ report[s][k] = "ok" => k \in shipped[s]
          /\ report[s][k] = "failed" =>
               k \notin shipped[s] /\ ~Queued(s, k)' /\ ~Sending(s, k)'
    <3> SUFFICES ASSUME NEW k \in 1..MaxWrites[s]
                 PROVE  /\ report[s][k] # "none" => k <= n
                        /\ report[s][k] = "ok" => k \in shipped[s]
                        /\ report[s][k] = "failed" =>
                             k \notin shipped[s] /\ ~Queued(s, k)' /\ ~Sending(s, k)'
      OBVIOUS
    <3>1. /\ report[s][k] # "none" => k <= written[s]
          /\ report[s][k] = "ok" => k \in shipped[s]
          /\ report[s][k] = "failed" => k \notin shipped[s] /\ ~Queued(s, k) /\ ~Sending(s, k)
      BY <1>0 DEF WritesOK
    <3>2. written[s] \in Nat /\ MaxWrites[s] \in Nat
      BY ConstantFacts DEF Shape
    <3>3. k <= written[s] => k <= n
      BY <3>2
    <3> HIDE DEF n
    <3> QED BY <2>4, <2>5, <2>6, <3>1, <3>3
  <2>10. shipped[s] \subseteq 1..n
    BY <1>0, <2>6 DEF WritesOK
  <2> HIDE DEF n
  <2> QED BY <2>1, <2>7, <2>8, <2>9, <2>10 DEF WritesOK
<1>3. CASE CloseLoads(s, u) \/ CloseStores(s, u) \/ CloseTakes(s, u) \/ CloseEnds(s, u)
  <2>1. /\ queue' = queue /\ shipped' = shipped /\ written' = written /\ report' = report
    BY <1>3 DEF CloseLoads, CloseStores, CloseTakes, CloseEnds
  <2>2. PICK c : Goes(s, u, c) /\ c.content.kind # "data"
    <3>1. CASE CloseLoads(s, u) \/ CloseStores(s, u) \/ CloseEnds(s, u)
      BY <1>0, <3>1, ContentFacts DEF CloseLoads, CloseStores, CloseEnds
    <3>2. CASE CloseTakes(s, u)
      <4>1. calls[s][u].content.kind # "data"
        BY <1>0, <3>2 DEF CloseTakes, At, WritesOK
      <4>2. [calls[s][u] EXCEPT !.at = "closing"].content = calls[s][u].content
        BY <1>0 DEF Calls
      <4> QED BY <3>2, <4>1, <4>2 DEF CloseTakes
    <3> QED BY <1>3, <3>1, <3>2
  <2> QED BY <1>0, <2>1, <2>2, CallLeaves
<1>2. CASE Deadline(s, u)
  <2> DEFINE j == calls[s][u].content.number
  <2>1. /\ queue' = queue /\ shipped' = shipped /\ written' = written
        /\ Answers(s, j, "deadline") /\ Goes(s, u, Idle) /\ calls[s][u].content.kind = "data"
    BY <1>2 DEF Deadline
  <2>2. \A v \in Users[s] : calls'[s][v] = IF v = u THEN Idle ELSE calls[s][v]
    BY <2>1, GoesView
  <2>3. \A k \in 1..MaxWrites[s] : report'[s][k] = IF k = j THEN "deadline" ELSE report[s][k]
    BY <2>1, AnswersView
  <2>4. \A k : Sending(s, k)' => Sending(s, k)
    BY <2>2, IdleIsCall DEF Sending
  <2>5. \A k : Queued(s, k)' <=> Queued(s, k)
    BY <2>1 DEF Queued
  <2>6. \A k \in 1..MaxWrites[s] :
          /\ report'[s][k] # "none" => k <= written[s]
          /\ report'[s][k] = "ok" => k \in shipped[s]
          /\ report'[s][k] = "failed" =>
               k \notin shipped[s] /\ ~Queued(s, k)' /\ ~Sending(s, k)'
    <3>1. j \in 1..written[s] /\ written[s] \in Nat
      BY <1>0, <2>1 DEF WritesOK, Shape
    <3>2. j <= written[s]
      BY <3>1
    <3> HIDE DEF j
    <3> QED BY <1>0, <2>3, <2>4, <2>5, <3>2 DEF WritesOK
  <2> HIDE DEF j
  <2> QED BY <1>0, <2>1, <2>2, <2>4, <2>5, <2>6 DEF WritesOK
<1>4. CASE Queues(s, u)
  <2> DEFINE call == [calls[s][u] EXCEPT !.at = "awaiting"]
             r == [by |-> u, content |-> calls[s][u].content]
  <2>1. /\ shipped' = shipped /\ written' = written /\ report' = report
        /\ queue[s] = <<>> /\ queue'[s] = <<r>> /\ calls[s][u].at = "sending"
    BY <1>4 DEF Queues, At, Shape
  <2>2. \A v \in Users[s] : calls'[s][v] = IF v = u THEN call ELSE calls[s][v]
    BY <1>4, GoesView DEF Queues
  <2>3. call.at = "awaiting" /\ call.content = calls[s][u].content
    BY <1>0 DEF Calls
  <2>4. \A v \in Users[s] : calls'[s][v].content = calls[s][v].content
    BY <2>2, <2>3
  <2>5. ASSUME NEW k \in Nat
        PROVE  /\ Queued(s, k)' => Sending(s, k) /\ calls[s][u].content = Data(k)
               /\ Sending(s, k)' => Sending(s, k) /\ calls[s][u].content # Data(k)
    <3>1. Queued(s, k)' => calls[s][u].content = Data(k)
      <4>1. Head(queue'[s]).content = calls[s][u].content
        BY <2>1
      <4> QED BY <4>1 DEF Queued
    <3>2. calls[s][u].content = Data(k) => Sending(s, k)
      BY <2>1 DEF Sending
    <3>3. ASSUME NEW v \in Users[s], calls'[s][v].at = "sending", calls'[s][v].content = Data(k)
          PROVE  Sending(s, k) /\ calls[s][u].content # Data(k)
      <4>1. v # u
        BY <2>2, <2>3, <3>3
      <4>2. calls[s][v].at = "sending" /\ calls[s][v].content = Data(k)
        BY <2>2, <3>3, <4>1
      <4>3. Data(k).kind = "data"
        BY ContentFacts
      <4>4. calls[s][u].content # calls[s][v].content
        BY <1>0, <4>1, <4>2, <4>3 DEF WritesOK
      <4> QED BY <4>2, <4>4 DEF Sending
    <3> QED BY <3>1, <3>2, <3>3 DEF Sending
  <2>6. ASSUME NEW v \in Users[s], calls'[s][v].content.kind = "data"
        PROVE  /\ calls'[s][v].at \in {"sending", "awaiting"}
               /\ calls'[s][v].content.number \in 1..written[s]
               /\ \A w \in Users[s] : calls'[s][w].content = calls'[s][v].content => w = v
    BY <1>0, <2>2, <2>3, <2>4, <2>6 DEF WritesOK
  <2>7. ASSUME NEW k \in Nat
        PROVE  /\ Queued(s, k)' => k \in 1..written[s] /\ k \notin shipped[s] /\ ~Sending(s, k)'
               /\ Sending(s, k)' => k \notin shipped[s]
    <3>1. calls[s][u].content = Data(k) => k \in 1..written[s]
      BY <1>0, ContentFacts DEF WritesOK
    <3> QED BY <1>0, <2>5, <3>1 DEF WritesOK
  <2>8. ASSUME NEW k \in 1..MaxWrites[s], report[s][k] = "failed"
        PROVE  ~Queued(s, k)' /\ ~Sending(s, k)'
    <3>1. k \in Nat
      BY ConstantFacts
    <3> QED BY <1>0, <2>5, <2>8, <3>1 DEF WritesOK
  <2> QED BY <1>0, <2>1, <2>6, <2>7, <2>8 DEF WritesOK
<1> QED BY <1>1, <1>2, <1>3, <1>4 DEF UserStep, User, Call

\* The sending task: the request is a datagram, sent or failed, or an alert.
LEMMA OutgoingWrites ==
    ASSUME Shape, \A t \in Sides : WritesOK(t), NEW s \in Sides, Outgoing(s)
    PROVE  (\A t \in Sides : WritesOK(t))'
<1> DEFINE r == Head(queue[s])
           j == r.content.number
           isData == r.content.kind = "data"
           sent == next[s] <= MaxSeq /\ beneath[s] = "open"
<1>1. /\ r \in Request /\ queue[s] # <<>> /\ queue' = [queue EXCEPT ![s] = <<>>]
      /\ r.content \in Contents /\ Result(s, r, sent) /\ written' = written
  BY HeadOfQueue DEF Outgoing, Request
<1>2. /\ isData => r.content = Data(j) /\ j \in Nat
      /\ \A k : r.content = Data(k) => isData /\ k = j
  BY <1>1, ContentFacts
<1>3. /\ queue'[s] = <<>> /\ \A t \in Sides : t # s => queue'[t] = queue[t]
  BY <1>1 DEF Shape
<1>4. /\ shipped'[s] = IF sent /\ isData THEN shipped[s] \cup {j} ELSE shipped[s]
      /\ \A t \in Sides : t # s => shipped'[t] = shipped[t]
  BY DEF Outgoing, Shape
<1>5. CASE \/ UNCHANGED <<calls, report>>
           \/ Goes(s, r.by, Idle) /\ UNCHANGED report
           \/ Goes(s, r.by, Idle) /\ isData /\ Answers(s, j, IF sent THEN "ok" ELSE "failed")
           \/ Goes(s, r.by, [at |-> "taking", content |-> Nothing]) /\ UNCHANGED report
  <2>1. \A t \in Sides : t # s => calls'[t] = calls[t] /\ report'[t] = report[t]
    BY <1>5, GoesView, AnswersView
  <2>2. PICK c : /\ c.content.kind # "data"
                 /\ \A v \in Users[s] : calls'[s][v] = calls[s][v] \/ calls'[s][v] = c
    <3>1. Idle.content.kind # "data" /\ [at |-> "taking", content |-> Nothing].content.kind # "data"
      BY IdleIsCall, ContentFacts
    <3>2. CASE UNCHANGED calls
      BY <3>1, <3>2
    <3>3. CASE Goes(s, r.by, Idle)
      BY <3>1, <3>3, GoesView
    <3>4. CASE Goes(s, r.by, [at |-> "taking", content |-> Nothing])
      BY <3>1, <3>4, GoesView
    <3> QED BY <1>5, <3>2, <3>3, <3>4
  <2>3. \A k \in 1..MaxWrites[s] : report'[s][k] = report[s][k] \/
          (isData /\ k = j /\ report'[s][k] = IF sent THEN "ok" ELSE "failed")
    BY <1>5, AnswersView
  <2>4. \A k : ~Queued(s, k)' /\ (Sending(s, k)' => Sending(s, k))
    <3>1. \A k : c.content # Data(k)
      BY <2>2, ContentFacts
    <3> QED BY <1>3, <2>2, <3>1 DEF Queued, Sending
  <2>5. WritesOK(s)
    OBVIOUS
  <2>6. isData => j \in 1..written[s] /\ j \notin shipped[s] /\ ~Sending(s, j)
    <3>1. isData => Queued(s, j) /\ j \in Nat
      BY <1>1, <1>2 DEF Queued
    <3> QED BY <2>5, <3>1 DEF WritesOK
  <2> HIDE DEF r, j, isData, sent
  <2>7. ASSUME NEW v \in Users[s], calls'[s][v].content.kind = "data"
        PROVE  /\ calls'[s][v].at \in {"sending", "awaiting"}
               /\ calls'[s][v].content.number \in 1..written[s]
               /\ \A w \in Users[s] : calls'[s][w].content = calls'[s][v].content => w = v
    BY <2>2, <2>5, <2>7 DEF WritesOK
  <2>8. ASSUME NEW k \in Nat, Sending(s, k)' PROVE k \notin shipped'[s]
    BY <1>4, <2>4, <2>5, <2>6, <2>8 DEF WritesOK
  <2>9. shipped'[s] \subseteq 1..written[s]
    BY <1>4, <2>5, <2>6 DEF WritesOK
  <2>10. ASSUME NEW k \in 1..MaxWrites[s]
         PROVE  /\ report'[s][k] # "none" => k <= written[s]
                /\ report'[s][k] = "ok" => k \in shipped'[s]
                /\ report'[s][k] = "failed" => k \notin shipped'[s] /\ ~Sending(s, k)'
    <3>1. CASE isData /\ k = j /\ report'[s][k] = (IF sent THEN "ok" ELSE "failed")
      <4>1. k <= written[s]
        BY <2>6, <3>1 DEF Shape
      <4> QED BY <1>4, <2>4, <2>6, <3>1, <4>1
    <3>2. CASE report'[s][k] = report[s][k]
      <4>1. k \in Nat
        BY ConstantFacts
      <4>2. report[s][k] = "failed" => ~(isData /\ k = j)
        <5>1. isData /\ k = j => Queued(s, k)
          BY <1>1, <1>2 DEF Queued, r, j, isData
        <5> QED BY <2>5, <5>1 DEF WritesOK
      <4> QED BY <1>4, <2>4, <2>5, <3>2, <4>1, <4>2 DEF WritesOK
    <3> QED BY <2>3, <3>1, <3>2
  <2>11. WritesOK(s)'
    BY <1>1, <2>4, <2>7, <2>8, <2>9, <2>10 DEF WritesOK
  <2> QED BY <1>1, <1>3, <1>4, <2>1, <2>11, OtherWrites
<1>6. CASE r.content.kind = "data"
  <2>1. \/ UNCHANGED <<calls, report>>
        \/ Answers(s, j, IF sent THEN "ok" ELSE "failed") /\ Goes(s, r.by, Idle)
    BY <1>1, <1>6 DEF Result
  <2> QED BY <1>5, <1>6, <2>1
<1>7. CASE r.content.kind # "data"
  <2>1. \/ UNCHANGED <<calls, report>>
        \/ /\ Goes(s, r.by, IF sent THEN [at |-> "taking", content |-> Nothing] ELSE Idle)
           /\ UNCHANGED report
    BY <1>1, <1>7 DEF Result
  <2>2. CASE sent
    BY <1>5, <2>1, <2>2
  <2>3. CASE ~sent
    BY <1>5, <2>1, <2>3
  <2> QED BY <2>2, <2>3
<1> QED BY <1>6, <1>7

LEMMA NextWrites ==
    ASSUME Shape, HandOK, \A t \in Sides : WritesOK(t), [Next]_vars
    PROVE  (\A t \in Sides : WritesOK(t))'
<1>1. CASE UNCHANGED <<calls, queue, shipped, written, report>>
  BY <1>1, WritesFrame
<1>2. ASSUME NEW s \in Sides, Reply(s) PROVE (\A t \in Sides : WritesOK(t))'
  <2> DEFINE r == [by |-> "reader", content |-> hand[s]]
  <2>1. /\ hand[s].kind # "data" /\ queue[s] = <<>>
        /\ UNCHANGED <<calls, shipped, written, report>>
        /\ queue'[s] = <<r>> /\ \A t \in Sides : t # s => queue'[t] = queue[t]
    BY <1>2 DEF Reply, HandOK, Shape, callVars
  <2>2. \A k : ~Queued(s, k) /\ ~Queued(s, k)' /\ (Sending(s, k)' <=> Sending(s, k))
    <3>1. Head(queue'[s]).content = hand[s]
      BY <2>1
    <3> QED BY <2>1, <3>1, ContentFacts DEF Queued, Sending
  <2>3. WritesOK(s)'
    BY <2>1, <2>2 DEF WritesOK
  <2> QED BY <2>1, <2>3, OtherWrites
<1>3. ASSUME NEW s \in Sides, Receive(s) \/ HandOver(s) \/ ReaderStops(s) \/ Read(s) \/ Network(s)
      PROVE  UNCHANGED <<calls, queue, shipped, written, report>>
  BY <1>3 DEF Receive, HandOver, ReaderStops, Read, Network, Lose, Corrupt, Dies, callVars, sendVars
<1>4. UNCHANGED vars => UNCHANGED <<calls, queue, shipped, written, report>>
  BY DEF vars, callVars, sendVars
<1> QED BY <1>1, <1>2, <1>3, <1>4, UserWrites, OutgoingWrites DEF Next, UserStep, Reader

-----------------------------------------------------------------------------
(* The way of a datagram from the wire to its reader                       *)

LEMMA RangeOfAppend ==
    ASSUME NEW q \in Seq(Nat), NEW k \in Nat
    PROVE  Range(Append(q, k)) = Range(q) \cup {k}
<1> DEFINE longer == Append(q, k)
<1>1. /\ DOMAIN q = 1..Len(q) /\ Len(q) \in Nat
      /\ DOMAIN longer = 1..(Len(q) + 1)
      /\ longer[Len(q) + 1] = k
      /\ \A i \in 1..Len(q) : longer[i] = q[i]
  OBVIOUS
<1> HIDE DEF longer
<1>2. DOMAIN longer = DOMAIN q \cup {Len(q) + 1} /\ Len(q) + 1 \notin DOMAIN q
  BY <1>1
<1>3. {longer[i] : i \in DOMAIN longer} = {q[i] : i \in DOMAIN q} \cup {k}
  BY <1>1, <1>2
<1> QED BY <1>3 DEF Range, longer

LEMMA OnceFrame ==
    ASSUME NEW t, OnceOK(t), got'[t] = got[t], buffer'[t] = buffer[t], reader'[t] = reader[t],
           hand'[t] = hand[t], shipped'[Peer(t)] = shipped[Peer(t)], wire'[t] \subseteq wire[t],
           accepted'[t] = accepted[t]
    PROVE  OnceOK(t)'
<1>1. \A k : Known(t, k)' <=> Known(t, k)
  BY DEF Known, Range
<1> QED BY <1>1 DEF OnceOK, Range

LEMMA OtherOnce ==
    ASSUME \A t \in Sides : OnceOK(t), NEW s \in Sides, OnceOK(s)', UNCHANGED shipped,
           \A t \in Sides : t # s => /\ got'[t] = got[t] /\ buffer'[t] = buffer[t]
                                     /\ reader'[t] = reader[t] /\ hand'[t] = hand[t]
                                     /\ wire'[t] = wire[t] /\ accepted'[t] = accepted[t]
    PROVE  (\A t \in Sides : OnceOK(t))'
<1>1. ASSUME NEW t \in Sides, t # s PROVE OnceOK(t)'
  BY <1>1, OnceFrame
<1> QED BY <1>1

\* A new record carries a datagram that has not been sent before.
LEMMA OutgoingOnce ==
    ASSUME Shape, \A t \in Sides : WritesOK(t) /\ OnceOK(t), NEW s \in Sides, Outgoing(s)
    PROVE  (\A t \in Sides : OnceOK(t))'
<1> DEFINE c == Head(queue[s]).content
           new == [seq |-> next[s], content |-> c, genuine |-> TRUE]
           p == Peer(s)
<1>1. /\ p \in Sides /\ p # s /\ Peer(p) = s
      /\ c \in Contents /\ queue[s] # <<>>
      /\ UNCHANGED <<got, buffer, reader, hand, accepted>>
  BY SideFacts, HeadOfQueue DEF Outgoing, Request, readVars, userVars
<1>2. CASE UNCHANGED <<wire, shipped>>
  BY <1>1, <1>2, OnceFrame
<1>3. CASE /\ wire' = [wire EXCEPT ![p] = wire[p] \cup {new}]
           /\ shipped' = [shipped EXCEPT ![s] =
                            IF c.kind = "data" THEN shipped[s] \cup {c.number} ELSE shipped[s]]
  <2>1. /\ wire'[p] = wire[p] \cup {new} /\ wire'[s] = wire[s] /\ shipped'[p] = shipped[p]
        /\ shipped[s] \subseteq shipped'[s] /\ (c.kind = "data" => c.number \in shipped'[s])
    BY <1>1, <1>3 DEF Shape
  <2>2. OnceOK(s)'
    BY <1>1, <2>1, OnceFrame
  <2>3. c.kind = "data" => c.number \notin shipped[s] /\ c.number \in Nat
    <3>1. c.kind = "data" => c = Data(c.number) /\ c.number \in Nat
      BY <1>1, ContentFacts
    <3>2. c.kind = "data" => Queued(s, c.number)
      BY <1>1, <3>1 DEF Queued
    <3> QED BY <3>1, <3>2 DEF WritesOK
  <2>4. \A k : Known(p, k)' <=> Known(p, k)
    BY <1>1 DEF Known, Range
  <2>5. OnceOK(p)
    BY <1>1
  <2>6. ASSUME NEW rec \in wire'[p], rec.genuine, rec.content.kind = "data"
        PROVE  /\ rec.content.number \in shipped'[s]
               /\ Known(p, rec.content.number) => rec.seq \in accepted[p]
               /\ \A other \in wire'[p] :
                    other.genuine /\ other.content = rec.content => other.seq = rec.seq
    <3>1. \A q \in wire[p] : q.genuine /\ q.content.kind = "data" =>
                               q.content.number \in shipped[s]
      BY <1>1, <2>5 DEF OnceOK
    <3>2. \A k \in Nat : Known(p, k) => k \in shipped[s]
      BY <1>1, <2>5 DEF OnceOK
    <3>3. new.content = c /\ new.seq = next[s]
      OBVIOUS
    <3> HIDE DEF new, c, p
    <3>4. CASE rec = new
      BY <2>1, <2>3, <2>6, <3>1, <3>2, <3>3, <3>4
    <3>5. CASE rec \in wire[p]
      <4>1. rec.content # c \/ rec = new
        BY <2>3, <2>6, <3>1, <3>5
      <4>2. /\ Known(p, rec.content.number) => rec.seq \in accepted[p]
            /\ \A other \in wire[p] :
                 other.genuine /\ other.content = rec.content => other.seq = rec.seq
        BY <2>5, <2>6, <3>5 DEF OnceOK
      <4> QED BY <2>1, <2>6, <3>1, <3>3, <3>4, <3>5, <4>1, <4>2
    <3> QED BY <2>1, <3>4, <3>5
  <2>7. OnceOK(p)'
    <3>1. \A k \in Nat :
             /\ Known(p, k) => k \in shipped'[s]
             /\ buffer[p] = <<k>> => k \notin Range(got[p])
             /\ reader[p] = "handing" /\ hand[p] = Data(k)
                  => k \notin Range(got[p]) /\ buffer[p] # <<k>>
      BY <1>1, <2>1, <2>5 DEF OnceOK
    <3> HIDE DEF p, new, c
    <3> QED BY <1>1, <2>4, <2>6, <3>1 DEF OnceOK
  <2> QED BY <2>2, <2>7 DEF Sides, Peer
<1> QED BY <1>2, <1>3 DEF Outgoing

\* Less is known, or as much, and more is accepted.
LEMMA OnceLess ==
    ASSUME NEW t, OnceOK(t), got'[t] = got[t], shipped'[Peer(t)] = shipped[Peer(t)],
           wire'[t] \subseteq wire[t], accepted[t] \subseteq accepted'[t],
           buffer'[t] = buffer[t], ~(reader'[t] = "handing" /\ hand'[t].kind = "data")
    PROVE  OnceOK(t)'
<1>1. \A k : Known(t, k)' => Known(t, k)
  BY ContentFacts DEF Known, Range
<1>2. \A k : ~(reader'[t] = "handing" /\ hand'[t] = Data(k))
  BY ContentFacts
<1> QED BY <1>1, <1>2 DEF OnceOK, Range

LEMMA ReceiveOnce ==
    ASSUME Shape, \A t \in Sides : OnceOK(t), NEW s \in Sides, Receive(s)
    PROVE  (\A t \in Sides : OnceOK(t))'
<1>1. PICK rec \in wire[s] :
        /\ wire' = [wire EXCEPT ![s] = wire[s] \ {rec}] \/ UNCHANGED wire
        /\ Incoming(s, rec)
  BY DEF Receive
<1>2. /\ UNCHANGED <<got, buffer, shipped>> /\ reader[s] = "reading"
      /\ wire'[s] \subseteq wire[s] /\ \A t \in Sides : t # s => wire'[t] = wire[t]
  BY <1>1, WireView DEF Receive, sendVars, userVars
<1>3. OnceOK(s) /\ rec \in Record /\ rec.content \in Contents
  BY DEF Shape, Record
<1>4. CASE UNCHANGED <<reader, hand, accepted>>
  BY <1>2, <1>4, OnceFrame
<1>5. CASE Becomes(s, "replying", Fatal) /\ UNCHANGED accepted
  <2>1. /\ reader'[s] = "replying"
        /\ \A t \in Sides : t # s => reader'[t] = reader[t] /\ hand'[t] = hand[t]
    BY <1>5 DEF Becomes, Shape
  <2>2. OnceOK(s)'
    BY <1>2, <1>3, <1>5, <2>1, OnceLess
  <2> QED BY <1>2, <1>5, <2>1, <2>2, OtherOnce
<1>6. CASE /\ Fresh(s, rec.seq) /\ rec.genuine
           /\ Becomes(s, IF rec.content.kind = "data" THEN "handing" ELSE "replying", rec.content)
           /\ Accept(s, rec.seq)
  <2>1. /\ reader'[s] = IF rec.content.kind = "data" THEN "handing" ELSE "replying"
        /\ hand'[s] = rec.content
        /\ \A t \in Sides : t # s => reader'[t] = reader[t] /\ hand'[t] = hand[t]
    BY <1>6 DEF Becomes, Shape
  <2>2. /\ accepted'[s] = accepted[s] \cup {rec.seq} /\ rec.seq \notin accepted[s]
        /\ \A t \in Sides : t # s => accepted'[t] = accepted[t]
    BY <1>6 DEF Accept, Fresh, Shape
  <2>3. CASE rec.content.kind # "data"
    <3>1. OnceOK(s)'
      BY <1>2, <1>3, <2>1, <2>2, <2>3, OnceLess
    <3> QED BY <1>2, <2>1, <2>2, <3>1, OtherOnce
  <2>4. CASE rec.content.kind = "data"
    <3> DEFINE k == rec.content.number
    <3>1. rec.content = Data(k) /\ k \in Nat
      BY <1>3, <2>4, ContentFacts
    <3>2. k \in shipped[Peer(s)] /\ ~Known(s, k)
      BY <1>3, <1>6, <2>2, <2>4 DEF OnceOK
    <3>3. \A j : Known(s, j)' <=> Known(s, j) \/ j = k
      <4>1. \A j : hand'[s] = Data(j) <=> j = k
        BY <2>1, <3>1, ContentFacts
      <4> QED BY <1>2, <2>1, <2>4, <4>1 DEF Known, Range
    <3>4. \A j : (reader'[s] = "handing" /\ hand'[s] = Data(j)) => j = k
      BY <2>1, <3>1, ContentFacts
    <3>5. k \notin Range(got[s]) /\ buffer[s] # <<k>>
      BY <3>2 DEF Known
    <3> HIDE DEF k
    <3>6. ASSUME NEW q \in wire[s], q.genuine, q.content.kind = "data"
          PROVE  /\ q.content.number \in shipped[Peer(s)]
                 /\ Known(s, q.content.number)' => q.seq \in accepted'[s]
                 /\ \A other \in wire[s] :
                      other.genuine /\ other.content = q.content => other.seq = q.seq
      <4>1. q.content.number = k => q.seq = rec.seq
        <5>1. q.content \in Contents
          BY DEF Shape, Record
        <5>2. q.content.number = k => q.content = rec.content
          BY <3>1, <3>6, <5>1, ContentFacts
        <5> QED BY <1>3, <1>6, <2>4, <3>6, <5>2 DEF OnceOK
      <4> QED BY <1>3, <2>2, <3>3, <3>6, <4>1 DEF OnceOK
    <3>7. \A j \in Nat :
            /\ Known(s, j)' => j \in shipped[Peer(s)]
            /\ buffer[s] = <<j>> => j \notin Range(got[s])
      BY <1>3, <3>2, <3>3 DEF OnceOK
    <3>8. OnceOK(s)'
      BY <1>2, <3>4, <3>5, <3>6, <3>7 DEF OnceOK
    <3> QED BY <1>2, <2>1, <2>2, <3>8, OtherOnce
  <2> QED BY <2>3, <2>4
<1> QED BY <1>1, <1>4, <1>5, <1>6 DEF Incoming, Discard

\* Handing over, reading, and the end of the reader.
LEMMA ReaderOnce ==
    ASSUME Shape, HandOK, \A t \in Sides : OnceOK(t), NEW s \in Sides,
           HandOver(s) \/ Reply(s) \/ ReaderStops(s) \/ Read(s)
    PROVE  (\A t \in Sides : OnceOK(t))'
<1>1. UNCHANGED <<wire, accepted, shipped>> /\ OnceOK(s)
  BY DEF HandOver, Reply, ReaderStops, Read, sendVars, readVars
<1>2. CASE HandOver(s)
  <2> DEFINE k == hand[s].number
  <2>1. /\ reader[s] = "handing" /\ buffer[s] = <<>> /\ got' = got
        /\ buffer'[s] = <<k>> /\ reader'[s] = "reading"
        /\ \A t \in Sides : t # s => /\ buffer'[t] = buffer[t] /\ reader'[t] = reader[t]
                                     /\ hand'[t] = hand[t]
    BY <1>2 DEF HandOver, Becomes, Shape
  <2>2. hand[s] = Data(k) /\ k \in Nat
    BY <2>1, ContentFacts DEF HandOK, Shape
  <2>3. \A j \in Nat : Known(s, j)' <=> Known(s, j)
    <3>1. \A j : hand[s] = Data(j) <=> j = k
      BY <2>2, ContentFacts
    <3>2. \A j \in Nat : <<k>> = <<j>> <=> j = k
      BY <2>2
    <3> QED BY <2>1, <3>1, <3>2 DEF Known, Range
  <2>4. k \notin Range(got[s])
    BY <1>1, <2>1, <2>2 DEF OnceOK
  <2>5. \A j \in Nat : buffer'[s] = <<j>> => j = k
    BY <2>1, <2>2
  <2> HIDE DEF k
  <2>6. \A rec \in wire[s] : rec.content.number \in Nat
    BY ContentFacts DEF Shape, Record
  <2>7. OnceOK(s)'
    BY <1>1, <2>1, <2>3, <2>4, <2>5, <2>6 DEF OnceOK
  <2> QED BY <1>1, <2>1, <2>7, OtherOnce
<1>3. CASE Reply(s) \/ ReaderStops(s)
  <2>1. /\ reader'[s] = "exited" /\ UNCHANGED <<buffer, got>>
        /\ \A t \in Sides : t # s => reader'[t] = reader[t] /\ hand'[t] = hand[t]
    BY <1>3 DEF Reply, ReaderStops, Becomes, userVars, Shape
  <2>2. OnceOK(s)'
    BY <1>1, <2>1, OnceLess
  <2> QED BY <1>1, <2>1, <2>2, OtherOnce
<1>4. CASE Read(s)
  <2> DEFINE k == Head(buffer[s])
  <2>1. /\ k \in Nat /\ buffer[s] = <<k>> /\ buffer'[s] = <<>> /\ UNCHANGED <<reader, hand>>
        /\ \A t \in Sides : t # s => buffer'[t] = buffer[t] /\ got'[t] = got[t]
    BY <1>4, HeadOfBuffer DEF Read, readVars, Shape
  <2>2. Range(got'[s]) \subseteq Range(got[s]) \cup {k}
    <3>1. got'[s] = got[s] \/ got'[s] = Append(got[s], k)
      BY <1>4 DEF Read, Shape
    <3>2. got[s] \in Seq(Nat)
      BY DEF Shape
    <3> QED BY <2>1, <3>1, <3>2, RangeOfAppend
  <2>3. \A j \in Nat : buffer[s] = <<j>> <=> j = k
    BY <2>1
  <2> HIDE DEF k
  <2>4. \A j \in Nat : Known(s, j)' => Known(s, j)
    BY <2>1, <2>2, <2>3 DEF Known
  <2>5. \A j \in Nat : reader[s] = "handing" /\ hand[s] = Data(j) =>
                         j \notin Range(got'[s]) /\ buffer'[s] # <<j>>
    <3>1. \A j \in Nat : reader[s] = "handing" /\ hand[s] = Data(j) =>
                           j \notin Range(got[s]) /\ j # k
      BY <1>1, <2>3 DEF OnceOK
    <3> QED BY <2>1, <2>2, <3>1
  <2>6. \A rec \in wire[s] : rec.content.number \in Nat
    BY ContentFacts DEF Shape, Record
  <2>7. \A j \in Nat : buffer'[s] # <<j>>
    BY <2>1
  <2>8. OnceOK(s)'
    BY <1>1, <2>1, <2>4, <2>5, <2>6, <2>7 DEF OnceOK
  <2> QED BY <1>1, <2>1, <2>8, OtherOnce
<1> QED BY <1>2, <1>3, <1>4

LEMMA NextOnce ==
    ASSUME Shape, HandOK, \A t \in Sides : WritesOK(t) /\ OnceOK(t), [Next]_vars
    PROVE  (\A t \in Sides : OnceOK(t))'
<1>1. ASSUME UNCHANGED <<got, buffer, reader, hand, shipped, accepted>>,
             \A t \in Sides : wire'[t] \subseteq wire[t]
      PROVE  (\A t \in Sides : OnceOK(t))'
  BY <1>1, OnceFrame
<1>2. ASSUME NEW s \in Sides, Lose(s) \/ Dies(s) PROVE (\A t \in Sides : OnceOK(t))'
  <2>1. \A t \in Sides : wire'[t] \subseteq wire[t]
    BY <1>2, WireView DEF Lose, Dies
  <2> QED BY <1>1, <1>2, <2>1 DEF Lose, Dies, sendVars, readVars, userVars
<1>3. ASSUME NEW s \in Sides, Corrupt(s) PROVE (\A t \in Sides : OnceOK(t))'
  <2>1. PICK rec \in wire[s] :
          wire' = [wire EXCEPT ![s] = wire[s] \cup {[rec EXCEPT !.genuine = FALSE]}]
    BY <1>3 DEF Corrupt
  <2> DEFINE copy == [rec EXCEPT !.genuine = FALSE]
  <2>2. rec \in Record
    BY DEF Shape
  <2>3. copy.genuine = FALSE
    BY <2>2 DEF Record
  <2>0. wire' = [wire EXCEPT ![s] = wire[s] \cup {copy}]
    BY <2>1
  <2> HIDE DEF copy
  <2>a. /\ wire'[s] = wire[s] \cup {copy}
        /\ \A t \in Sides : t # s => wire'[t] = wire[t]
    BY <2>0, WireView DEF Shape
  <2>4. /\ \A q \in wire'[s] : q.genuine => q \in wire[s]
        /\ \A t \in Sides : t # s => wire'[t] = wire[t]
    BY <2>a, <2>3
  <2>5. UNCHANGED <<got, buffer, reader, hand, shipped, accepted>> /\ OnceOK(s)
    BY <1>3 DEF Corrupt, sendVars, readVars, userVars
  <2>6. \A k : Known(s, k)' <=> Known(s, k)
    BY <2>5 DEF Known
  <2>7. OnceOK(s)'
    BY <2>4, <2>5, <2>6 DEF OnceOK
  <2> QED BY <2>4, <2>5, <2>7, OtherOnce
<1>4. ASSUME NEW s \in Sides, NEW u \in Users[s], UserStep(s, u)
      PROVE  UNCHANGED <<got, buffer, reader, hand, shipped, accepted, wire>>
  BY <1>4 DEF UserStep, User, Call, WriteBegins, Deadline, CloseLoads, CloseStores, Queues,
     CloseTakes, CloseEnds, sendVars, readVars, userVars
<1>5. CASE UNCHANGED <<got, buffer, reader, hand, shipped, accepted, wire>>
  BY <1>1, <1>5
<1>6. CASE UNCHANGED vars
  BY <1>5, <1>6 DEF vars, sendVars, readVars, userVars
<1> QED BY <1>2, <1>3, <1>4, <1>5, <1>6, OutgoingOnce, ReceiveOnce, ReaderOnce
        DEF Next, UserStep, Reader, Network

-----------------------------------------------------------------------------
(* The theorems                                                            *)

LEMMA NextInd == ConnectionInd /\ [Next]_vars => ConnectionInd'
<1> SUFFICES ASSUME ConnectionInd, [Next]_vars PROVE ConnectionInd'
  OBVIOUS
<1>1. Shape /\ HandOK /\ AcceptOK /\ EndOK /\ \A t \in Sides : WritesOK(t) /\ OnceOK(t)
  BY DEF ConnectionInd
<1>2. Shape' /\ HandOK' /\ AcceptOK' /\ EndOK'
  BY <1>1, NextShape, NextHand, NextEnd
<1>3. (\A t \in Sides : WritesOK(t))' /\ (\A t \in Sides : OnceOK(t))'
  BY <1>1, NextWrites, NextOnce
<1> QED BY <1>2, <1>3 DEF ConnectionInd

LEMMA Inductive == Spec => []ConnectionInd
  BY InitInd, NextInd, PTL DEF Spec

\* The type invariant holds for any users, numbers of writes, window and last
\* sequence number; with it, no channel ever holds more than its one element.
THEOREM ConnectionTypeCorrect == Spec => []TypeOK
<1>1. ConnectionInd => TypeOK
  <2> SUFFICES ASSUME Shape PROVE TypeOK
    BY DEF ConnectionInd
  <2>1. \A s \in Sides : Len(queue[s]) <= 1 /\ Len(buffer[s]) <= 1
    <3>1. Len(<<>>) = 0 /\ \A x : Len(<<x>>) = 1
      OBVIOUS
    <3> QED BY <3>1, HeadOfQueue, HeadOfBuffer
  <2>2. \A s \in Sides : \A r \in wire[s] : r.seq \in 1..MaxSeq /\ r.content \in Contents
    BY DEF Shape, Record
  <2> QED BY <2>1, <2>2 DEF Shape, TypeOK, Calls, Places
<1> QED BY <1>1, Inductive, PTL

\* Whatever else is queued, closed or timed out, what write() answers is true.
THEOREM WriteReportsTrue == Spec => []WriteReported
<1>1. ConnectionInd => WriteReported
  BY DEF ConnectionInd, WritesOK, WriteReported
<1> QED BY <1>1, Inductive, PTL

\* For every window and every number of faults, a genuine record that is new and not
\* too old when it arrives is acted on.
THEOREM GenuineAlwaysAccepted == Spec => GenuineAccepted
<1> DEFINE Acted == \A s \in Sides : \A n \in arrived'[s] \ arrived[s] :
                      (\A m \in arrived[s] : m < n + Window) => n \in taken'[s]
<1>1. ConnectionInd /\ [Next]_vars => [Acted]_vars
  <2> SUFFICES ASSUME ConnectionInd, Next PROVE Acted
    OBVIOUS
  <2>1. Shape /\ AcceptOK
    BY DEF ConnectionInd
  <2>2. CASE UNCHANGED arrived
    BY <2>2
  <2>3. ASSUME NEW s \in Sides, Receive(s) PROVE Acted
    <3>1. PICK rec \in wire[s] :
            /\ arrived' = [arrived EXCEPT ![s] = IF rec.genuine THEN @ \cup {rec.seq} ELSE @]
            /\ Incoming(s, rec)
      BY <2>3 DEF Receive
    <3>2. \A t \in Sides : t # s => arrived'[t] = arrived[t]
      BY <2>1, <3>1 DEF Shape
    <3>3. ASSUME NEW n \in arrived'[s] \ arrived[s], \A m \in arrived[s] : m < n + Window
          PROVE  n \in taken'[s]
      <4>1. rec.genuine /\ n = rec.seq
        BY <2>1, <3>1, <3>3 DEF Shape
      <4>2. Fresh(s, n)
        BY <2>1, <3>3 DEF AcceptOK, Fresh
      <4>3. Accept(s, n)
        BY <3>1, <4>1, <4>2 DEF Incoming
      <4> QED BY <2>1, <4>3 DEF Accept, Shape
    <3> QED BY <3>2, <3>3
  <2>4. ASSUME NEW s \in Sides, NEW u \in Users[s], User(s, u) \/ Call(s, u)
        PROVE  UNCHANGED arrived
    BY <2>4 DEF User, Call, WriteBegins, Deadline, CloseLoads, CloseStores, Queues,
       CloseTakes, CloseEnds, readVars
  <2>5. ASSUME NEW s \in Sides,
               Outgoing(s) \/ HandOver(s) \/ Reply(s) \/ ReaderStops(s) \/ Read(s) \/ Network(s)
        PROVE  UNCHANGED arrived
    BY <2>5 DEF Outgoing, HandOver, Reply, ReaderStops, Read, Network, Lose, Corrupt, Dies,
       readVars
  <2> QED BY <2>2, <2>3, <2>4, <2>5 DEF Next, Reader
<1>2. Spec => [][Next]_vars
  BY PTL DEF Spec
<1> QED BY <1>1, <1>2, Inductive, PTL DEF GenuineAccepted

-----------------------------------------------------------------------------
(* The connection is a datagram service                                    *)

\* What the variables of Datagrams are for a connection.
HungUpSides == {s \in Sides : closed[s]} \cup doomed
OverSides == {s \in Sides : reader[s] = "exited" /\ buffer[s] = <<>>}

LEMMA ServiceView ==
    /\ DOMAIN [s \in Sides |-> Peer(s)] = Sides
    /\ \A s \in Sides : [t \in Sides |-> Peer(t)][s] = Peer(s)
    /\ HungUp <=> HungUpSides # {}
  BY DEF HungUp, HungUpSides

\* A reader that has ended, or is about to, has been told to.
LEMMA EndedIsHungUp ==
    ASSUME EndOK, NEW s \in Sides, reader[s] \in {"replying", "exited"} \/ stopping[s]
    PROVE  HungUpSides # {}
  BY ServiceView DEF EndOK, Quiet

\* A step that leaves what the service is made of leaves the service.
LEMMA Stutters ==
    ASSUME UNCHANGED <<written, got, closed, doomed, reader, buffer>>
    PROVE  UNCHANGED <<written, got, HungUpSides, OverSides>>
  BY DEF HungUpSides, OverSides

LEMMA ReadIsServed ==
    ASSUME Shape, EndOK, NEW s \in Sides, WritesOK(Peer(s)), OnceOK(s), Read(s)
    PROVE  Service!Read(s) \/ Service!End(s) \/ UNCHANGED <<written, got, HungUpSides, OverSides>>
<1> DEFINE k == Head(buffer[s])
<1>1. /\ k \in Nat /\ buffer[s] = <<k>> /\ buffer'[s] = <<>>
      /\ \A t \in Sides : t # s => buffer'[t] = buffer[t]
      /\ UNCHANGED <<written, closed, doomed, reader>>
  BY HeadOfBuffer DEF Read, callVars, readVars, Shape
<1>2. HungUpSides' = HungUpSides
  BY <1>1 DEF HungUpSides
<1>3. /\ s \notin OverSides
      /\ \/ OverSides' = OverSides
         \/ OverSides' = OverSides \cup {s} /\ HungUpSides # {}
  <2>1. CASE reader[s] = "exited"
    <3>1. OverSides' = OverSides \cup {s}
      BY <1>1, <2>1 DEF OverSides
    <3> QED BY <1>1, <2>1, <3>1, EndedIsHungUp DEF OverSides
  <2>2. CASE reader[s] # "exited"
    BY <1>1, <2>2 DEF OverSides
  <2> QED BY <2>1, <2>2
<1>4. k \in 1..written[Peer(s)] /\ k \notin Range(got[s])
  <2>1. Known(s, k)
    BY <1>1 DEF Known
  <2> QED BY <1>1, <2>1 DEF OnceOK, WritesOK
<1>5. Range(got[s]) = Service!Range(got[s])
  BY DEF Range, Service!Range
<1>6. CASE got' = [got EXCEPT ![s] = Append(@, k)]
  <2> HIDE DEF k
  <2>1. Service!Read(s)
    BY <1>1, <1>2, <1>3, <1>4, <1>5, <1>6, ServiceView
       DEF Service!Read, HungUpSides, OverSides
  <2> QED BY <2>1
<1>7. CASE UNCHANGED got
  BY <1>1, <1>2, <1>3, <1>7 DEF Service!End, HungUpSides, OverSides
<1> QED BY <1>6, <1>7 DEF Read

LEMMA ServiceStep ==
    ASSUME ConnectionInd, Next
    PROVE  Service!Next \/ UNCHANGED <<written, got, HungUpSides, OverSides>>
<1>1. Shape /\ EndOK /\ \A t \in Sides : WritesOK(t) /\ OnceOK(t)
  BY DEF ConnectionInd
<1>2. ASSUME NEW s \in Sides, NEW u \in Users[s], WriteBegins(s, u)
      PROVE  Service!Next
  <2>1. UNCHANGED <<got, HungUpSides, OverSides>>
    BY <1>2 DEF WriteBegins, readVars, userVars, HungUpSides, OverSides
  <2>2. Service!Write(s)
    BY <1>2, <2>1 DEF WriteBegins, Service!Write, HungUpSides, OverSides
  <2> QED BY <2>2, ServiceView DEF Service!Next
<1>3. ASSUME NEW s \in Sides, NEW u \in Users[s], CloseStores(s, u)
      PROVE  Service!Next
  <2>1. UNCHANGED <<written, got, OverSides>>
    BY <1>3 DEF CloseStores, readVars, userVars, OverSides
  <2>2. HungUpSides' = HungUpSides \cup {s}
    BY <1>1, <1>3 DEF CloseStores, HungUpSides, readVars, Shape
  <2>3. Service!HangUp(s)
    BY <2>1, <2>2 DEF Service!HangUp, HungUpSides, OverSides
  <2> QED BY <2>3, ServiceView DEF Service!Next
<1>4. ASSUME NEW s \in Sides, NEW u \in Users[s],
             \/ Deadline(s, u) \/ CloseLoads(s, u) \/ Queues(s, u)
             \/ CloseTakes(s, u) \/ CloseEnds(s, u)
      PROVE  UNCHANGED <<written, got, HungUpSides, OverSides>>
  BY <1>4, Stutters DEF Deadline, CloseLoads, Queues, CloseTakes, CloseEnds, readVars, userVars
<1>5. ASSUME NEW s \in Sides, Outgoing(s) \/ Network(s)
      PROVE  UNCHANGED <<written, got, HungUpSides, OverSides>>
  BY <1>5, Stutters DEF Outgoing, Network, Lose, Corrupt, Dies, callVars, readVars, userVars
<1>6. ASSUME NEW s \in Sides, Receive(s)
      PROVE  Service!Next \/ UNCHANGED <<written, got, HungUpSides, OverSides>>
  <2>1. UNCHANGED <<written, got, closed, buffer>> /\ reader[s] = "reading"
    BY <1>6 DEF Receive, callVars, userVars
  <2>2. PICK rec \in wire[s] : Incoming(s, rec)
    BY <1>6 DEF Receive
  <2>3. \/ UNCHANGED reader
        \/ \E state \in {"handing", "replying"} : reader' = [reader EXCEPT ![s] = state]
    BY <2>2 DEF Incoming, Discard, Becomes
  <2>4. OverSides' = OverSides
    BY <1>1, <2>1, <2>3 DEF OverSides, Shape
  <2>5. doomed' = doomed \/ doomed' = doomed \cup {s}
    BY <2>2 DEF Incoming, Discard
  <2>6. CASE doomed' = doomed
    BY <2>1, <2>4, <2>6 DEF HungUpSides
  <2>7. CASE doomed' = doomed \cup {s}
    <3>1. HungUpSides' = HungUpSides \cup {s}
      BY <2>1, <2>7 DEF HungUpSides
    <3>2. Service!HangUp(s)
      BY <2>1, <2>4, <3>1 DEF Service!HangUp, HungUpSides, OverSides
    <3> QED BY <3>2, ServiceView DEF Service!Next
  <2> QED BY <2>5, <2>6, <2>7
<1>7. ASSUME NEW s \in Sides, HandOver(s)
      PROVE  UNCHANGED <<written, got, HungUpSides, OverSides>>
  <2>1. /\ UNCHANGED <<written, got, closed, doomed>>
        /\ reader[s] = "handing" /\ reader'[s] = "reading"
        /\ \A t \in Sides : t # s => reader'[t] = reader[t] /\ buffer'[t] = buffer[t]
    BY <1>1, <1>7 DEF HandOver, Becomes, callVars, Shape
  <2> QED BY <2>1 DEF HungUpSides, OverSides
<1>8. ASSUME NEW s \in Sides, Reply(s) \/ ReaderStops(s)
      PROVE  Service!Next \/ UNCHANGED <<written, got, HungUpSides, OverSides>>
  <2>1. /\ UNCHANGED <<written, got, closed, doomed, buffer>> /\ reader'[s] = "exited"
        /\ \A t \in Sides : t # s => reader'[t] = reader[t]
    BY <1>1, <1>8 DEF Reply, ReaderStops, Becomes, callVars, userVars, Shape
  <2>2. HungUpSides # {} /\ HungUpSides' = HungUpSides
    BY <1>1, <1>8, <2>1, EndedIsHungUp DEF Reply, ReaderStops, HungUpSides
  <2>3. OverSides' = OverSides \/ OverSides' = OverSides \cup {s}
    <3>1. buffer[s] = <<>> => OverSides' = OverSides \cup {s}
      BY <2>1 DEF OverSides
    <3>2. buffer[s] # <<>> => OverSides' = OverSides
      BY <2>1 DEF OverSides
    <3> QED BY <3>1, <3>2
  <2>4. OverSides' = OverSides \cup {s} => Service!End(s)
    BY <2>1, <2>2 DEF Service!End, HungUpSides, OverSides
  <2> QED BY <2>1, <2>2, <2>3, <2>4, ServiceView DEF Service!Next
<1>9. ASSUME NEW s \in Sides, Read(s)
      PROVE  Service!Next \/ UNCHANGED <<written, got, HungUpSides, OverSides>>
  BY <1>1, <1>9, ReadIsServed, SideFacts, ServiceView DEF Service!Next
<1> QED BY <1>2, <1>3, <1>4, <1>5, <1>6, <1>7, <1>8, <1>9 DEF Next, User, Call, Reader

\* For any users, window and faults, and with and without a pre-shared key, the
\* connection is the datagram service of Datagrams.tla to its users.
THEOREM ConnectionIsDatagramService == Spec => IsDatagramService
<1>1. Init => Service!Init
  <2> SUFFICES ASSUME Init PROVE Service!Init
    OBVIOUS
  <2>1. HungUpSides = {} /\ OverSides = {}
    BY DEF Init, HungUpSides, OverSides
  <2> QED BY <2>1, ServiceView DEF Init, Service!Init, HungUpSides, OverSides
<1>2. ConnectionInd /\ [Next]_vars => [Service!Next]_(Service!datagramVars)
  <2> SUFFICES ASSUME ConnectionInd, [Next]_vars PROVE [Service!Next]_(Service!datagramVars)
    OBVIOUS
  <2>1. CASE Next
    BY <2>1, ServiceStep DEF Service!datagramVars, HungUpSides, OverSides
  <2>2. CASE UNCHANGED vars
    BY <2>2, Stutters DEF vars, callVars, readVars, userVars, Service!datagramVars, HungUpSides,
       OverSides
  <2> QED BY <2>1, <2>2
<1>3. Spec => Init /\ [][Next]_vars
  BY PTL DEF Spec
<1> QED BY <1>1, <1>2, <1>3, Inductive, PTL DEF IsDatagramService, Service!Spec

=============================================================================
