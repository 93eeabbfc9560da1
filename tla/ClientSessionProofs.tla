------------------------- MODULE ClientSessionProofs -------------------------
(***************************************************************************)
(* Theorems about ClientSession, for any boards, any number of packet ids  *)
(* above MaxPending, and any number of requests and packets under way.     *)
(* The heart is the age of a packet id, how many requests were sent since: *)
(* what is under way is ordered by age, and younger than `pending', so no  *)
(* two requests under way share an id although ids wrap around.            *)
(***************************************************************************)
EXTENDS ClientSession, SequenceTheorems, TLAPS

Ids  == 0 .. PacketIds - 1
Sent == [type : Types, id : Ids, user : Nat, board : Boards \cup {NoBoard, Text}]
Naming == {"createWhiteboard", "joinSession"}

Age(counter, id) ==
  IF id <= counter THEN counter - id ELSE counter + PacketIds - id

Queues == to_server \in Seq(Sent) /\ to_client \in Seq(Packet)

\* Only a response that names a board makes the client work on one.
PacketFits(p) ==
  p.type = "actionResponse" =>
    p.final /\ (p.success /\ p.request \in Naming => p.message \in Boards)

\* The requests under way, oldest first.
RequestsInOrder ==
  \A i \in 1 .. Len(to_server) :
    /\ Age(packet_counter, to_server[i].id) < pending
    /\ send_queue[to_server[i].id] = to_server[i].type
    /\ \A j \in 1 .. Len(to_server) : i < j =>
         Age(packet_counter, to_server[j].id) < Age(packet_counter, to_server[i].id)

\* The final packets under way, oldest first, all older than the requests.
AnswersInOrder ==
  \A i \in 1 .. Len(to_client) :
    /\ PacketFits(to_client[i])
    /\ to_client[i].final =>
         /\ Age(packet_counter, to_client[i].id) < pending
         /\ send_queue[to_client[i].id] = to_client[i].request
         /\ \A j \in 1 .. Len(to_client) : i < j /\ to_client[j].final =>
              Age(packet_counter, to_client[j].id)
                < Age(packet_counter, to_client[i].id)
         /\ \A j \in 1 .. Len(to_server) :
              Age(packet_counter, to_server[j].id)
                < Age(packet_counter, to_client[i].id)

TempAt(i) == to_client[i].type = "tempIdResponse"

\* What a patient application can rely on: at most one request under way, sent
\* as the user it still is; an id that was assigned to it arrives ahead of the
\* answer; and its boards belong to the user that it is, or is about to be, or
\* was made 0.
PatientInv ==
  patient /\ connected =>
    /\ pending \in {0, 1}
    /\ \A i \in 1 .. Len(to_server) :
         /\ to_server[i].user = user_id /\ to_server[i].type \notin AccountTypes
         /\ \A k \in 1 .. Len(to_client) : ~TempAt(k)
    /\ \A i \in 1 .. Len(to_client) : TempAt(i) =>
         /\ pending = 1
         /\ \A j \in 1 .. Len(to_client) : TempAt(j) => j = i
         /\ \A j \in 1 .. Len(to_client) : to_client[j].final => i < j
         /\ \A b \in created : owner[b] \in {Nobody, 0, to_client[i].user}
    /\ (\A i \in 1 .. Len(to_client) : ~TempAt(i)) =>
         \A b \in created : owner[b] \in {Nobody, 0, user_id}

SInv ==
  /\ TypeOK /\ Queues
  /\ RequestsInOrder /\ AnswersInOrder
  /\ BoardIsConfirmed /\ PatientInv

\* What the handler of r may send.
Answers(ps, r) ==
  /\ ps \in Seq(Packet)
  /\ \A k \in 1 .. Len(ps) :
       /\ PacketFits(ps[k])
       /\ ps[k].final => ps[k].id = r.id /\ ps[k].request = r.type
       /\ \A l \in 1 .. Len(ps) : ps[k].final /\ ps[l].final => k = l
       /\ ps[k].type = "tempIdResponse" /\ r.type \notin AccountTypes =>
            k = 1 /\ ps[k].user = seq /\ Assigns(r) /\ ~ps[k].final
  /\ Assigns(r) => ps # <<>> /\ ps[1].type = "tempIdResponse"

-----------------------------------------------------------------------------
\* Packet ids and their ages
LEMMA NextIdStep ==
  ASSUME NEW id \in Ids, PacketIds \in Nat
  PROVE  NextId(id) = IF id + 1 = PacketIds THEN 0 ELSE id + 1
<1>1. PacketIds \in Nat \ {0} /\ id \in Nat /\ id <= PacketIds - 1
  BY DEF Ids
<1>2. CASE id + 1 = PacketIds
  <2>1. PacketIds % PacketIds = 0
    BY <1>1, SMT
  <2>2. QED
    BY <1>2, <2>1 DEF NextId
<1>3. CASE id + 1 # PacketIds
  <2>1. id + 1 \in 0 .. PacketIds - 1
    BY <1>1, <1>3
  <2>2. \A k \in 0 .. PacketIds - 1 : k % PacketIds = k
    BY <1>1, SMT
  <2>3. QED
    BY <2>1, <2>2, <1>3 DEF NextId
<1>4. QED
  BY <1>2, <1>3

\* Sending makes every id one older, but for the one that it uses.
LEMMA SendAges ==
  ASSUME NEW c \in Ids, PacketIds \in Nat
  PROVE  /\ NextId(c) \in Ids /\ Age(NextId(c), NextId(c)) = 0
         /\ \A id \in Ids :
              /\ Age(c, id) \in 0 .. PacketIds - 1
              /\ Age(c, id) < PacketIds - 1 =>
                   id # NextId(c) /\ Age(NextId(c), id) = Age(c, id) + 1
<1>1. NextId(c) = IF c + 1 = PacketIds THEN 0 ELSE c + 1
  BY NextIdStep
<1>2. QED
  BY <1>1 DEF Ids, Age

\* Sequences, element by element
LEMMA AppendFacts ==
  ASSUME NEW S, NEW s \in Seq(S), NEW t \in Seq(S)
  PROVE  /\ s \o t \in Seq(S) /\ Len(s \o t) = Len(s) + Len(t)
         /\ Len(s) \in Nat /\ Len(t) \in Nat
         /\ \A i \in 1 .. Len(s) + Len(t) :
              (s \o t)[i] = IF i <= Len(s) THEN s[i] ELSE t[i - Len(s)]
OBVIOUS

\* All but the first.
LEMMA TailFacts ==
  ASSUME NEW S, NEW s \in Seq(S), s # <<>>
  PROVE  /\ Tail(s) \in Seq(S) /\ Len(s) \in Nat \ {0} /\ Len(Tail(s)) = Len(s) - 1
         /\ Head(s) = s[1] /\ s[1] \in S
         /\ \A i \in 1 .. Len(s) - 1 : Tail(s)[i] = s[i + 1]
OBVIOUS

\* Short sequences put together.
LEMMA ConsFacts ==
  ASSUME NEW S, NEW x \in S, NEW y \in S, NEW z \in S
  PROVE  <<x>> \o <<y>> = <<x, y>> /\ <<x>> \o <<y, z>> = <<x, y, z>>
<1>1. /\ <<x>> \o <<y>> \in Seq(S) /\ Len(<<x>> \o <<y>>) = 2
      /\ (<<x>> \o <<y>>)[1] = x /\ (<<x>> \o <<y>>)[2] = y
  OBVIOUS
<1>2. /\ <<x>> \o <<y, z>> \in Seq(S) /\ Len(<<x>> \o <<y, z>>) = 3
      /\ (<<x>> \o <<y, z>>)[1] = x /\ (<<x>> \o <<y, z>>)[2] = y
      /\ (<<x>> \o <<y, z>>)[3] = z
  OBVIOUS
<1>3. <<x>> \o <<y>> = <<x, y>>
  <2> DEFINE s == <<x>> \o <<y>>
             t == <<x, y>>
  <2>1. s \in Seq(S) /\ t \in Seq(S) /\ Len(s) = Len(t)
    BY <1>1
  <2>2. \A i \in 1 .. Len(s) : s[i] = t[i]
    BY <1>1
  <2> HIDE DEF s, t
  <2>3. s = t
    BY <2>1, <2>2, SeqEqual, Zenon
  <2>4. QED
    BY <2>3 DEF s, t
<1>4. <<x>> \o <<y, z>> = <<x, y, z>>
  <2> DEFINE s == <<x>> \o <<y, z>>
             t == <<x, y, z>>
  <2>1. s \in Seq(S) /\ t \in Seq(S) /\ Len(s) = Len(t)
    BY <1>2
  <2>2. \A i \in 1 .. Len(s) : s[i] = t[i]
    BY <1>2
  <2> HIDE DEF s, t
  <2>3. s = t
    BY <2>1, <2>2, SeqEqual, Zenon
  <2>4. QED
    BY <2>3 DEF s, t
<1>5. QED
  BY <1>3, <1>4

\* What occurs in a sequence.
LEMMA RangeFacts ==
  ASSUME NEW S, NEW s \in Seq(S)
  PROVE  Range(s) \subseteq S /\ Range(s) = {s[i] : i \in 1 .. Len(s)}
BY DEF Range

-----------------------------------------------------------------------------
\* What handlers send
FinalFor(p, r) ==
  /\ p \in Packet /\ PacketFits(p) /\ p.final
  /\ p.id = r.id /\ p.request = r.type
  /\ p.type = "tempIdResponse" => r.type \in AccountTypes

\* A response is a final packet for the request it answers; so is an id that
\* a login or a registration found.
LEMMA FinalPackets ==
  ASSUME NEW r \in Sent
  PROVE  /\ \A b \in Boards : FinalFor(Response(r, TRUE, b), r)
         /\ FinalFor(Response(r, FALSE, Text), r)
         /\ r.type \notin Naming => FinalFor(Response(r, TRUE, Text), r)
         /\ \A u \in Nat : r.type \in AccountTypes => FinalFor(TempId(r, u, TRUE), r)
BY DEF FinalFor, Response, TempId, Packet, PacketFits, Sent, Types, AccountTypes,
       Naming, Ids

\* An id that is assigned on the way to a handler answers nothing yet.
LEMMA AssignedIds ==
  ASSUME NEW r \in Sent, Assigns(r), seq \in Nat, NEW success \in BOOLEAN
  PROVE  LET t == TempId(r, seq, success)
         IN  /\ t \in Packet /\ t.type = "tempIdResponse" /\ t.user = seq
             /\ ~t.final /\ PacketFits(t) /\ r.type \notin AccountTypes
<1>1. r.type \notin AccountTypes /\ r.type \in Types /\ r.id \in Ids
  BY DEF Assigns, AccountTypes, Sent
<1>2. TempId(r, seq, success) =
        [type |-> "tempIdResponse", id |-> r.id, request |-> r.type,
         final |-> FALSE, success |-> success, message |-> Text, user |-> seq]
  <2>1. (r.type \in AccountTypes) = FALSE
    BY <1>1
  <2>2. QED
    BY <2>1, Zenon DEF TempId
<1>3. QED
  BY <1>1, <1>2 DEF Packet, PacketFits, Ids

\* What is sent ahead of the answer is such an id, or nothing.
LEMMA AssignedShapes ==
  ASSUME NEW r \in Sent, seq \in Nat, NEW a \in Assigned(r)
  PROVE  /\ ~Assigns(r) => a = <<>>
         /\ Assigns(r) => \E t \in Packet :
              /\ a = <<t>> /\ t.type = "tempIdResponse" /\ t.user = seq
              /\ ~t.final /\ PacketFits(t) /\ r.type \notin AccountTypes
<1>1. CASE ~Assigns(r)
  BY <1>1 DEF Assigned
<1>2. CASE Assigns(r)
  <2>1. PICK success \in BOOLEAN : a = <<TempId(r, seq, success)>>
    BY <1>2 DEF Assigned
  <2> DEFINE t == TempId(r, seq, success)
  <2>2. /\ t \in Packet /\ t.type = "tempIdResponse" /\ t.user = seq
        /\ ~t.final /\ PacketFits(t) /\ r.type \notin AccountTypes
    BY <1>2, AssignedIds
  <2> HIDE DEF t
  <2>3. a = <<t>>
    BY <2>1 DEF t
  <2>4. QED
    BY <1>2, <2>2, <2>3
<1>3. QED
  BY <1>1, <1>2

\* The sequences of packets that the handlers send.
LEMMA ShapesAnswer ==
  ASSUME NEW r \in Sent, NEW p, FinalFor(p, r), seq \in Nat
  PROVE  /\ \A a \in Assigned(r) : /\ Answers(a \o <<p>>, r)
                                   /\ Answers(a \o <<Broadcast, p>>, r)
         /\ ~Assigns(r) => /\ Answers(<<p>>, r) /\ Answers(<<p, Broadcast>>, r)
                           /\ Answers(<<Broadcast>>, r) /\ Answers(<<>>, r)
<1>1. /\ Broadcast \in Packet
      /\ Broadcast.type = "broadcast" /\ ~Broadcast.final /\ PacketFits(Broadcast)
  <2>1. PacketIds \in Nat \ {0}
    BY ClientAssumption
  <2>2. QED
    BY <2>1 DEF Broadcast, Packet, PacketFits
<1>4. CASE ~Assigns(r)
  <2>1. \A a \in Assigned(r) : a \o <<p>> = <<p>> /\ a \o <<Broadcast, p>> = <<Broadcast, p>>
    <3>1. \A a \in Assigned(r) : a = <<>>
      BY <1>4, AssignedShapes
    <3>2. <<>> \o <<p>> = <<p>> /\ <<>> \o <<Broadcast, p>> = <<Broadcast, p>>
      BY <1>1 DEF FinalFor
    <3>3. QED
      BY <3>1, <3>2
  <2>2. Answers(<<p>>, r) /\ Answers(<<>>, r) /\ Answers(<<Broadcast>>, r)
    BY <1>4, <1>1 DEF Answers, FinalFor
  <2>3. Answers(<<p, Broadcast>>, r) /\ Answers(<<Broadcast, p>>, r)
    BY <1>4, <1>1 DEF Answers, FinalFor
  <2>4. QED
    BY <2>1, <2>2, <2>3
<1>5. CASE Assigns(r)
  <2> SUFFICES ASSUME NEW a \in Assigned(r)
               PROVE  Answers(a \o <<p>>, r) /\ Answers(a \o <<Broadcast, p>>, r)
    BY <1>5
  <2>1. PICK t \in Packet :
          /\ a = <<t>> /\ t.type = "tempIdResponse" /\ t.user = seq
          /\ ~t.final /\ PacketFits(t) /\ r.type \notin AccountTypes
    BY <1>5, AssignedShapes
  <2>2. p.type # "tempIdResponse"
    BY <2>1 DEF FinalFor
  <2>3. Answers(<<t, p>>, r)
    BY <1>5, <2>1, <2>2 DEF Answers, FinalFor
  <2>4. Answers(<<t, Broadcast, p>>, r)
    BY <1>5, <1>1, <2>1, <2>2 DEF Answers, FinalFor
  <2>5. <<t>> \o <<p>> = <<t, p>> /\ <<t>> \o <<Broadcast, p>> = <<t, Broadcast, p>>
    BY <1>1, <2>1, ConsFacts DEF FinalFor
  <2>6. QED
    BY <2>1, <2>3, <2>4, <2>5
<1>6. QED
  BY <1>4, <1>5

-----------------------------------------------------------------------------
\* A step of the server
ServerAnswers(r, ps) ==
  /\ connected /\ to_server # <<>> /\ r = Head(to_server)
  /\ Answers(ps, r) /\ Answer(ps)
  /\ fresh' \subseteq Boards /\ shared' \subseteq Boards /\ entries' \subseteq Boards
  /\ owner' \in [Boards -> Nat \cup {Nobody}] /\ seq' \in Nat
  /\ created' \subseteq Boards
  /\ \A b \in created' : \/ owner'[b] \in {Nobody, UserOf(r)}
                         \/ b \in created /\ owner'[b] = owner[b]

\* The queues after such a step, position by position.
LEMMA AnswerQueues ==
  ASSUME SInv, NEW r, NEW ps, ServerAnswers(r, ps)
  PROVE  /\ Queues' /\ Len(to_server') = Len(to_server) - 1
         /\ Len(to_client') = Len(to_client) + Len(ps)
         /\ Len(to_server) \in Nat \ {0} /\ Len(to_client) \in Nat /\ Len(ps) \in Nat
         /\ r = to_server[1] /\ r \in Sent
         /\ \A i \in 1 .. Len(to_server) - 1 : to_server'[i] = to_server[i + 1]
         /\ \A i \in 1 .. Len(to_client) + Len(ps) : to_client'[i] =
              IF i <= Len(to_client) THEN to_client[i] ELSE ps[i - Len(to_client)]
         /\ UNCHANGED <<packet_counter, send_queue, pending>>
<1>1. /\ to_server \in Seq(Sent) /\ to_client \in Seq(Packet) /\ ps \in Seq(Packet)
      /\ to_server # <<>> /\ r = Head(to_server)
      /\ to_server' = Tail(to_server) /\ to_client' = to_client \o ps
      /\ UNCHANGED <<packet_counter, send_queue, pending>>
  BY DEF SInv, Queues, ServerAnswers, Answers, Answer, members
<1>2. QED
  BY <1>1, AppendFacts, TailFacts DEF Queues

\* What is under way stays in order: the packets that the handler sends are the
\* youngest answers, and older than the requests that wait.
LEMMA AnswerKeepsOrder ==
  ASSUME SInv, NEW r, NEW ps, ServerAnswers(r, ps)
  PROVE  RequestsInOrder' /\ AnswersInOrder'
<1> DEFINE n == Len(to_client)
           A(p) == Age(packet_counter, p.id)
<1>1. /\ Len(to_server') = Len(to_server) - 1
      /\ Len(to_client') = n + Len(ps)
      /\ Len(to_server) \in Nat \ {0} /\ n \in Nat /\ Len(ps) \in Nat
      /\ r = to_server[1]
      /\ \A i \in 1 .. Len(to_server) - 1 : to_server'[i] = to_server[i + 1]
      /\ \A i \in 1 .. n + Len(ps) : to_client'[i] =
           IF i <= n THEN to_client[i] ELSE ps[i - n]
      /\ UNCHANGED <<packet_counter, send_queue, pending>>
  BY AnswerQueues, Zenon
<1>2. RequestsInOrder /\ AnswersInOrder /\ Answers(ps, r)
  BY DEF SInv, ServerAnswers
<1>3. RequestsInOrder'
  <2>1. SUFFICES ASSUME NEW i \in 1 .. Len(to_server')
                 PROVE  /\ Age(packet_counter, to_server'[i].id) < pending
                        /\ send_queue[to_server'[i].id] = to_server'[i].type
                        /\ \A j \in 1 .. Len(to_server') : i < j =>
                             Age(packet_counter, to_server'[j].id)
                               < Age(packet_counter, to_server'[i].id)
    BY <1>1 DEF RequestsInOrder
  <2>2. /\ i + 1 \in 1 .. Len(to_server) /\ to_server'[i] = to_server[i + 1]
        /\ \A j \in 1 .. Len(to_server') : i < j =>
             /\ j + 1 \in 1 .. Len(to_server) /\ to_server'[j] = to_server[j + 1]
             /\ i + 1 < j + 1
    BY <1>1
  <2>3. QED
    BY <1>2, <2>2 DEF RequestsInOrder
<1>4. /\ A(r) < pending /\ send_queue[r.id] = r.type
      /\ \A j \in 1 .. Len(to_server') : A(to_server'[j]) < A(r)
      /\ \A i \in 1 .. n : to_client[i].final => A(r) < A(to_client[i])
  <2>1. 1 \in 1 .. Len(to_server)
    BY <1>1
  <2>2. \A j \in 1 .. Len(to_server') :
          j + 1 \in 1 .. Len(to_server) /\ to_server'[j] = to_server[j + 1] /\ 1 < j + 1
    BY <1>1
  <2>3. QED
    BY <1>1, <1>2, <2>1, <2>2 DEF RequestsInOrder, AnswersInOrder
<1>5. AnswersInOrder'
  <2>1. SUFFICES ASSUME NEW i \in 1 .. n + Len(ps)
                 PROVE  /\ PacketFits(to_client'[i])
                        /\ to_client'[i].final =>
                             /\ A(to_client'[i]) < pending
                             /\ send_queue[to_client'[i].id] = to_client'[i].request
                             /\ \A j \in 1 .. n + Len(ps) : i < j /\ to_client'[j].final =>
                                  A(to_client'[j]) < A(to_client'[i])
                             /\ \A j \in 1 .. Len(to_server') :
                                  A(to_server'[j]) < A(to_client'[i])
    BY <1>1 DEF AnswersInOrder, PacketFits
  <2>2. \A j \in 1 .. n + Len(ps) : j > n =>
          /\ j - n \in 1 .. Len(ps) /\ to_client'[j] = ps[j - n]
          /\ PacketFits(ps[j - n])
          /\ ps[j - n].final => ps[j - n].id = r.id /\ ps[j - n].request = r.type
    BY <1>1, <1>2 DEF Answers
  <2>3. CASE i <= n
    <3>1. i \in 1 .. n /\ to_client'[i] = to_client[i]
      BY <1>1, <2>3
    <3>2. \A j \in 1 .. Len(to_server') :
            j + 1 \in 1 .. Len(to_server) /\ to_server'[j] = to_server[j + 1]
      BY <1>1
    <3>3. ASSUME NEW j \in 1 .. n + Len(ps), to_client[i].final, i < j, to_client'[j].final
          PROVE  A(to_client'[j]) < A(to_client[i])
      <4>1. CASE j <= n
        <5>1. j \in 1 .. n /\ to_client'[j] = to_client[j]
          BY <1>1, <4>1
        <5>2. QED
          BY <1>2, <3>1, <3>3, <5>1 DEF AnswersInOrder
      <4>2. CASE j > n
        <5>1. to_client'[j].id = r.id
          BY <2>2, <3>3, <4>2
        <5>2. QED
          BY <1>4, <3>1, <3>3, <5>1
      <4>3. QED
        BY <1>1, <4>1, <4>2
    <3>4. QED
      BY <1>2, <3>1, <3>2, <3>3 DEF AnswersInOrder
  <2>4. CASE i > n
    <3>1. /\ i - n \in 1 .. Len(ps) /\ to_client'[i] = ps[i - n]
          /\ PacketFits(ps[i - n])
          /\ ps[i - n].final => ps[i - n].id = r.id /\ ps[i - n].request = r.type
      BY <2>2, <2>4
    <3>2. \A j \in 1 .. n + Len(ps) : i < j =>
            j - n \in 1 .. Len(ps) /\ to_client'[j] = ps[j - n] /\ j - n # i - n
      BY <1>1, <2>4
    <3>3. \A j \in 1 .. n + Len(ps) : i < j => ~(ps[i - n].final /\ ps[j - n].final)
      BY <1>2, <3>1, <3>2 DEF Answers
    <3>4. QED
      BY <1>4, <3>1, <3>2, <3>3
  <2>5. QED
    BY <1>1, <2>3, <2>4
<1>6. QED
  BY <1>3, <1>5

\* A patient application has one request under way at most, and none of its
\* packets is a temporary id while it has.
LEMMA PatientQueues ==
  ASSUME SInv, patient, connected, to_server # <<>>
  PROVE  /\ Len(to_server) = 1 /\ pending = 1
         /\ to_server[1].user = user_id /\ to_server[1].type \notin AccountTypes
         /\ \A i \in 1 .. Len(to_client) : ~TempAt(i) /\ ~to_client[i].final
         /\ \A b \in created : owner[b] \in {Nobody, 0, user_id}
<1>1. /\ Len(to_server) \in Nat \ {0} /\ packet_counter \in Ids /\ PacketIds \in Nat
      /\ \A i \in 1 .. Len(to_server) : to_server[i].id \in Ids
      /\ \A i \in 1 .. Len(to_client) : to_client[i].id \in Ids
  <2>1. to_server \in Seq(Sent) /\ to_client \in Seq(Packet) /\ packet_counter \in Ids
    BY DEF SInv, Queues, TypeOK, Ids
  <2>2. Len(to_server) \in Nat \ {0}
    BY <2>1, TailFacts
  <2>3. /\ \A i \in 1 .. Len(to_server) : to_server[i] \in Sent
        /\ \A i \in 1 .. Len(to_client) : to_client[i] \in Packet
    BY <2>1
  <2>4. QED
    BY <2>1, <2>2, <2>3, ClientAssumption DEF Sent, Packet, Ids
<1>2. /\ \A i \in 1 .. Len(to_server) : Age(packet_counter, to_server[i].id) \in Nat
      /\ \A i \in 1 .. Len(to_client) : Age(packet_counter, to_client[i].id) \in Nat
  <2>1. \A id \in Ids : Age(packet_counter, id) \in 0 .. PacketIds - 1
    BY <1>1, SendAges, Zenon
  <2>2. \A k \in 0 .. PacketIds - 1 : k \in Nat
    BY <1>1
  <2>3. QED
    BY <1>1, <2>1, <2>2, Zenon
<1>3. RequestsInOrder /\ AnswersInOrder /\ PatientInv
  BY DEF SInv
<1>4. 1 \in 1 .. Len(to_server) /\ pending \in {0, 1}
  BY <1>1, <1>3 DEF PatientInv
<1>5. pending = 1 /\ Age(packet_counter, to_server[1].id) = 0
  BY <1>2, <1>3, <1>4 DEF RequestsInOrder
<1>6. Len(to_server) = 1
  <2>1. ASSUME Len(to_server) # 1 PROVE FALSE
    <3>1. 2 \in 1 .. Len(to_server) /\ 1 < 2
      <4>1. \A k \in Nat \ {0} : k # 1 => 2 \in 1 .. k
        OBVIOUS
      <4>2. Len(to_server) \in Nat \ {0}
        BY <1>1
      <4>3. 2 \in 1 .. Len(to_server)
        BY <2>1, <4>1, <4>2, Zenon
      <4>4. QED
        BY <4>3
    <3>2. Age(packet_counter, to_server[2].id) < Age(packet_counter, to_server[1].id)
      BY <1>3, <1>4, <3>1 DEF RequestsInOrder
    <3>3. QED
      BY <1>2, <1>5, <3>1, <3>2
  <2>2. QED
    BY <2>1
<1>7. \A i \in 1 .. Len(to_client) : ~to_client[i].final
  <2>1. ASSUME NEW i \in 1 .. Len(to_client), to_client[i].final PROVE FALSE
    <3>1. /\ Age(packet_counter, to_client[i].id) < 1
          /\ 0 < Age(packet_counter, to_client[i].id)
      BY <1>3, <1>4, <1>5, <2>1 DEF AnswersInOrder
    <3>2. QED
      BY <1>2, <3>1
  <2>2. QED
    BY <2>1
<1>8. QED
  BY <1>3, <1>4, <1>5, <1>6, <1>7 DEF PatientInv

\* To a patient application, an id that the handler assigned is the only one under
\* way, and the owner of what the handler made.
LEMMA AnswerKeepsPatience ==
  ASSUME SInv, NEW r, NEW ps, ServerAnswers(r, ps)
  PROVE  PatientInv'
<1> DEFINE n == Len(to_client)
<1>1. /\ Len(to_server') = Len(to_server) - 1
      /\ Len(to_client') = n + Len(ps)
      /\ Len(to_server) \in Nat \ {0} /\ n \in Nat /\ Len(ps) \in Nat
      /\ r = to_server[1] /\ r \in Sent
      /\ \A i \in 1 .. n + Len(ps) : to_client'[i] =
           IF i <= n THEN to_client[i] ELSE ps[i - n]
      /\ pending' = pending
  BY AnswerQueues, Zenon
<1>2. /\ connected /\ connected' = connected /\ patient' = patient /\ user_id' = user_id
      /\ to_server # <<>> /\ Answers(ps, r) /\ seq \in Nat
      /\ \A b \in created' : \/ owner'[b] \in {Nobody, UserOf(r)}
                             \/ b \in created /\ owner'[b] = owner[b]
  BY DEF ServerAnswers, Answer, members, SInv, TypeOK
<1>3. SUFFICES ASSUME patient
               PROVE  PatientInv'
  BY <1>2 DEF PatientInv
<1>4. /\ Len(to_server) = 1 /\ pending = 1
      /\ r.user = user_id /\ r.type \notin AccountTypes
      /\ \A i \in 1 .. n : ~TempAt(i) /\ ~to_client[i].final
      /\ \A b \in created : owner[b] \in {Nobody, 0, user_id}
  BY <1>1, <1>2, <1>3, PatientQueues
<1>5. /\ \A i \in 1 .. n + Len(ps) : i <= n => ~TempAt(i)' /\ ~to_client'[i].final
      /\ \A i \in 1 .. n + Len(ps) : i > n =>
           i - n \in 1 .. Len(ps) /\ to_client'[i] = ps[i - n]
  BY <1>1, <1>4 DEF TempAt
<1>6. CASE Assigns(r)
  <2>1. user_id = 0 /\ UserOf(r) = seq
    BY <1>4, <1>6 DEF Assigns, UserOf
  <2>2. \A b \in created' : owner'[b] \in {Nobody, 0, seq}
    BY <1>2, <1>4, <2>1
  <2>3. \A i \in 1 .. n + Len(ps) : TempAt(i)' =>
          i = n + 1 /\ to_client'[i].user = seq /\ ~to_client'[i].final
    <3>1. SUFFICES ASSUME NEW i \in 1 .. n + Len(ps), TempAt(i)'
                   PROVE  i = n + 1 /\ to_client'[i].user = seq /\ ~to_client'[i].final
      OBVIOUS
    <3>2. i > n
      BY <1>1, <1>5, <3>1
    <3>3. i - n \in 1 .. Len(ps) /\ to_client'[i] = ps[i - n]
      BY <1>5, <3>2
    <3>4. i - n = 1 /\ ps[i - n].user = seq /\ ~ps[i - n].final
      BY <1>2, <1>4, <3>1, <3>3 DEF Answers, TempAt
    <3>5. QED
      BY <1>1, <3>3, <3>4
  <2>4. n + 1 \in 1 .. n + Len(ps) /\ to_client'[n + 1].type = "tempIdResponse"
    <3>1. Len(ps) # 0 /\ ps[1].type = "tempIdResponse"
      BY <1>2, <1>6 DEF Answers
    <3>2. n + 1 \in 1 .. n + Len(ps) /\ to_client'[n + 1] = ps[1]
      BY <1>1, <3>1
    <3>3. QED
      BY <3>1, <3>2
  <2>5. \A i, j \in 1 .. n + Len(ps) : TempAt(i)' /\ to_client'[j].final => i < j
    BY <1>1, <1>5, <2>3
  <2>6. /\ Len(to_server') = 0 /\ Len(to_client') = n + Len(ps)
        /\ pending' = 1
    BY <1>1, <1>2, <1>4
  <2>7. \A i \in 1 .. Len(to_client') : TempAt(i)' =>
          /\ \A j \in 1 .. Len(to_client') : TempAt(j)' => j = i
          /\ \A j \in 1 .. Len(to_client') : to_client'[j].final => i < j
          /\ \A b \in created' : owner'[b] \in {Nobody, 0, to_client'[i].user}
    BY <2>2, <2>3, <2>5, <2>6
  <2>8. \E i \in 1 .. Len(to_client') : TempAt(i)'
    BY <2>4, <2>6 DEF TempAt
  <2>9. QED
    BY <2>6, <2>7, <2>8 DEF PatientInv
<1>7. CASE ~Assigns(r)
  <2>1. UserOf(r) = user_id
    BY <1>4, <1>7 DEF UserOf
  <2>2. \A b \in created' : owner'[b] \in {Nobody, 0, user_id}
    BY <1>2, <1>4, <2>1
  <2>3. \A i \in 1 .. n + Len(ps) : ~TempAt(i)'
    BY <1>1, <1>2, <1>4, <1>5, <1>7 DEF Answers, TempAt
  <2>4. QED
    BY <1>1, <1>2, <1>4, <2>2, <2>3 DEF PatientInv, TempAt
<1>8. QED
  BY <1>6, <1>7

\* A step of the server keeps the invariant.
LEMMA AnswerKeeps ==
  ASSUME SInv, NEW r, NEW ps, ServerAnswers(r, ps)
  PROVE  SInv'
<1>1. Queues'
  BY AnswerQueues
<1>2. TypeOK'
  <2>1. Range(to_server') \subseteq Sent /\ Range(to_client') \subseteq Packet
    BY <1>1, RangeFacts DEF Queues
  <2>2. QED
    BY <2>1 DEF SInv, TypeOK, ServerAnswers, Answer, members, Sent, Ids
<1>3. BoardIsConfirmed'
  BY DEF SInv, BoardIsConfirmed, ServerAnswers, Answer, members
<1>4. QED
  BY <1>1, <1>2, <1>3, AnswerKeepsOrder, AnswerKeepsPatience DEF SInv

-----------------------------------------------------------------------------
\* Every handler of the server is such a step.
\* A new board belongs to the user of the request, or to the one just assigned.
LEMMA CreateWhiteboardAnswers ==
  ASSUME SInv, CreateWhiteboard
  PROVE  \E ps : ServerAnswers(Head(to_server), ps)
<1> DEFINE r == Head(to_server)
<1>1. /\ connected /\ to_server # <<>> /\ r \in Sent /\ r.type = "createWhiteboard"
      /\ seq \in Nat /\ fresh \subseteq Boards
      /\ shared \subseteq Boards /\ entries \subseteq Boards /\ created \subseteq Boards
      /\ owner \in [Boards -> Nat \cup {Nobody}]
  BY TailFacts DEF CreateWhiteboard, Serving, SInv, Queues, TypeOK
<1>2. seq' \in Nat /\ UNCHANGED <<shared, entries>>
  BY <1>1 DEF CreateWhiteboard, NextSequence
<1>3. UserOf(r) \in Nat
  BY <1>1 DEF UserOf, Sent
<1> DEFINE Creates(a, b) == /\ fresh' = fresh \ {b}
                            /\ owner' = [owner EXCEPT ![b] = UserOf(r)]
                            /\ created' = created \cup {b}
                            /\ Answer(a \o <<Response(r, TRUE, b)>>)
<1>4. ASSUME NEW a \in Assigned(r), NEW b \in fresh, Creates(a, b)
      PROVE  \E ps : ServerAnswers(r, ps)
  <2>1. /\ fresh' = fresh \ {b}
        /\ owner' = [owner EXCEPT ![b] = UserOf(r)]
        /\ created' = created \cup {b}
        /\ Answer(a \o <<Response(r, TRUE, b)>>)
    BY <1>4
  <2>2. Answers(a \o <<Response(r, TRUE, b)>>, r)
    BY <1>1, FinalPackets, ShapesAnswer
  <2>3. ServerAnswers(r, a \o <<Response(r, TRUE, b)>>)
    <3>1. owner' \in [Boards -> Nat \cup {Nobody}] /\ created' \subseteq Boards /\ fresh' \subseteq Boards
      BY <1>1, <1>3, <2>1
    <3>2. \A c \in created' : \/ owner'[c] \in {Nobody, UserOf(r)}
                              \/ c \in created /\ owner'[c] = owner[c]
      <4>1. TAKE c \in created'
      <4>2. CASE c = b
        BY <1>1, <2>1, <4>2
      <4>3. CASE c # b
        BY <1>1, <2>1, <4>3
      <4>4. QED
        BY <4>2, <4>3
    <3>3. QED
      BY <1>1, <1>2, <2>1, <2>2, <3>1, <3>2 DEF ServerAnswers
  <2>4. QED
    BY <2>3
<1>5. ASSUME NEW a \in Assigned(r), Answer(a \o <<Response(r, FALSE, Text)>>),
             UNCHANGED <<fresh, owner, created>>
      PROVE  \E ps : ServerAnswers(r, ps)
  <2>1. Answers(a \o <<Response(r, FALSE, Text)>>, r)
    BY <1>1, FinalPackets, ShapesAnswer
  <2>2. ServerAnswers(r, a \o <<Response(r, FALSE, Text)>>)
    BY <1>1, <1>2, <1>5, <2>1 DEF ServerAnswers
  <2>3. QED
    BY <2>2
<1>6. QED
  BY <1>4, <1>5 DEF CreateWhiteboard

\* Joining makes no board and changes the owner of none.
LEMMA JoinSessionAnswers ==
  ASSUME SInv, JoinSession
  PROVE  \E ps : ServerAnswers(Head(to_server), ps)
<1> DEFINE r == Head(to_server)
<1>1. /\ connected /\ to_server # <<>> /\ r \in Sent /\ r.board \in Boards
      /\ seq \in Nat /\ fresh \subseteq Boards
      /\ shared \subseteq Boards /\ entries \subseteq Boards /\ created \subseteq Boards
      /\ owner \in [Boards -> Nat \cup {Nobody}]
  BY TailFacts DEF JoinSession, Serving, SInv, Queues, TypeOK
<1>2. seq' \in Nat /\ UNCHANGED <<fresh, owner, shared, created>>
  BY <1>1 DEF JoinSession, NextSequence
<1>3. ASSUME NEW a \in Assigned(r), entries' = entries \cup {r.board},
             Answer(a \o <<Broadcast, Response(r, TRUE, r.board)>>)
      PROVE  \E ps : ServerAnswers(r, ps)
  <2>1. Answers(a \o <<Broadcast, Response(r, TRUE, r.board)>>, r)
    BY <1>1, FinalPackets, ShapesAnswer
  <2>2. ServerAnswers(r, a \o <<Broadcast, Response(r, TRUE, r.board)>>)
    BY <1>1, <1>2, <1>3, <2>1 DEF ServerAnswers
  <2>3. QED
    BY <2>2
<1>4. ASSUME NEW a \in Assigned(r), Answer(a \o <<Response(r, FALSE, Text)>>),
             UNCHANGED entries
      PROVE  \E ps : ServerAnswers(r, ps)
  <2>1. Answers(a \o <<Response(r, FALSE, Text)>>, r)
    BY <1>1, FinalPackets, ShapesAnswer
  <2>2. ServerAnswers(r, a \o <<Response(r, FALSE, Text)>>)
    BY <1>1, <1>2, <1>4, <2>1 DEF ServerAnswers
  <2>3. QED
    BY <2>2
<1>5. QED
  BY <1>3, <1>4 DEF JoinSession

\* The handlers that assign no id.
LEMMA OtherHandlersAnswer ==
  ASSUME SInv, \/ CreateSession \/ QuitSession \/ AddElement
               \/ RegisterUser \/ LoginUser
  PROVE  \E ps : ServerAnswers(Head(to_server), ps)
<1> DEFINE r == Head(to_server)
<1>1. /\ connected /\ to_server # <<>> /\ r \in Sent /\ ~Assigns(r)
      /\ r.type \notin Naming
      /\ CreateSession \/ QuitSession \/ AddElement => r.board \in Boards
      /\ RegisterUser \/ LoginUser => r.type \in AccountTypes
  <2>1. to_server # <<>> /\ connected
    BY DEF CreateSession, QuitSession, AddElement, RegisterUser, LoginUser, Serving
  <2>2. r \in Sent
    BY <2>1, TailFacts DEF SInv, Queues
  <2>3. QED
    BY <2>1, <2>2 DEF CreateSession, QuitSession, AddElement, RegisterUser,
         LoginUser, Serving, Assigns, Naming, AccountTypes
<1>2. /\ seq \in Nat /\ fresh \subseteq Boards
      /\ shared \subseteq Boards /\ entries \subseteq Boards /\ created \subseteq Boards
      /\ owner \in [Boards -> Nat \cup {Nobody}]
  BY DEF SInv, TypeOK
<1>3. \A ps : Answers(ps, r) /\ Answer(ps) => ServerAnswers(r, ps)
  <2>1. seq' \in Nat /\ UNCHANGED <<fresh, created>>
    BY <1>2 DEF CreateSession, QuitSession, AddElement, RegisterUser, LoginUser,
         NextSequence, server
  <2>2. shared' \subseteq Boards /\ entries' \subseteq Boards
    BY <1>1, <1>2 DEF CreateSession, QuitSession, AddElement, RegisterUser,
         LoginUser, server
  <2>3. owner' \in [Boards -> Nat \cup {Nobody}] /\ \A b \in Boards : owner'[b] \in {Nobody, owner[b]}
    <3>1. CASE QuitSession
      <4>1. CASE UNCHANGED owner
        BY <1>2, <4>1
      <4>2. CASE owner' = [owner EXCEPT ![r.board] = Nobody]
        BY <1>2, <4>2
      <4>3. QED
        BY <3>1, <4>1, <4>2 DEF QuitSession
    <3>2. CASE CreateSession \/ AddElement \/ RegisterUser \/ LoginUser
      BY <1>2, <3>2 DEF CreateSession, AddElement, RegisterUser, LoginUser, server
    <3>3. QED
      BY <3>1, <3>2
  <2>4. QED
    BY <1>1, <1>2, <2>1, <2>2, <2>3 DEF ServerAnswers
<1>4. /\ Answers(<<Response(r, TRUE, Text)>>, r)
      /\ Answers(<<Response(r, TRUE, Text), Broadcast>>, r)
      /\ Answers(<<Response(r, FALSE, Text)>>, r)
      /\ Answers(<<Broadcast>>, r) /\ Answers(<<>>, r)
      /\ \A u \in Nat : r.type \in AccountTypes => Answers(<<TempId(r, u, TRUE)>>, r)
  <2>1. /\ FinalFor(Response(r, TRUE, Text), r) /\ FinalFor(Response(r, FALSE, Text), r)
        /\ \A u \in Nat : r.type \in AccountTypes => FinalFor(TempId(r, u, TRUE), r)
    BY <1>1, FinalPackets
  <2>2. \A p : FinalFor(p, r) => /\ Answers(<<p>>, r) /\ Answers(<<p, Broadcast>>, r)
                                 /\ Answers(<<Broadcast>>, r) /\ Answers(<<>>, r)
    BY <1>1, <1>2, ShapesAnswer
  <2>3. QED
    BY <2>1, <2>2
<1>5. \E ps : Answers(ps, r) /\ Answer(ps)
  <2>1. CASE CreateSession
    BY <1>4, <2>1 DEF CreateSession
  <2>2. CASE QuitSession
    BY <1>4, <2>2 DEF QuitSession
  <2>3. CASE AddElement
    <3> DEFINE told == IF r.board \in entries THEN <<Broadcast>> ELSE <<>>
               ok == Response(r, TRUE, Text)
    <3>1. <<ok>> \o told \in {<<ok>>, <<ok, Broadcast>>}
      <4>1. <<ok>> \o <<Broadcast>> = <<ok, Broadcast>>
        <5>1. ok \in {ok, Broadcast} /\ Broadcast \in {ok, Broadcast}
          OBVIOUS
        <5>2. QED
          BY <5>1, ConsFacts, Zenon
      <4>2. <<ok>> \o <<>> = <<ok>>
        BY ConcatEmptySeq DEF Response
      <4>3. QED
        BY <4>1, <4>2
    <3>2. told \in {<<>>, <<Broadcast>>}
      OBVIOUS
    <3>3. CASE Answer(<<ok>> \o told)
      BY <1>4, <3>1, <3>3
    <3>4. CASE Answer(told)
      BY <1>4, <3>2, <3>4
    <3>5. CASE Answer(<<Response(r, FALSE, Text)>>)
      BY <1>4, <3>5
    <3>6. QED
      BY <2>3, <3>3, <3>4, <3>5 DEF AddElement
  <2>4. CASE RegisterUser
    BY <1>1, <1>2, <1>4, <2>4 DEF RegisterUser
  <2>5. CASE LoginUser
    <3>1. Account \in Nat
      BY ClientAssumption
    <3>2. QED
      BY <1>1, <1>4, <2>5, <3>1 DEF LoginUser
  <2>6. QED
    BY <2>1, <2>2, <2>3, <2>4, <2>5
<1>6. QED
  BY <1>3, <1>5

-----------------------------------------------------------------------------
\* The steps that answer nothing
\* Packets that answer nothing, behind those under way, leave the order as it is.
LEMMA QuietKeepsOrder ==
  ASSUME SInv, to_server' \in {to_server, <<>>}, to_client' \in Seq(Packet),
         \A i \in 1 .. Len(to_client') :
           \/ i \in 1 .. Len(to_client) /\ to_client'[i] = to_client[i]
           \/ ~to_client'[i].final /\ PacketFits(to_client'[i]),
         UNCHANGED <<packet_counter, send_queue, pending>>
  PROVE  Queues' /\ RequestsInOrder' /\ AnswersInOrder'
<1>1. RequestsInOrder /\ AnswersInOrder /\ Queues
  BY DEF SInv
<1>2. Queues'
  <2>1. to_server' \in Seq(Sent)
    <3>1. to_server \in Seq(Sent) /\ <<>> \in Seq(Sent)
      BY <1>1 DEF Queues
    <3>2. QED
      BY <3>1
  <2>2. QED
    BY <2>1 DEF Queues
<1>3. /\ \A i \in 1 .. Len(to_server') :
           i \in 1 .. Len(to_server) /\ to_server'[i] = to_server[i]
  OBVIOUS
<1>4. RequestsInOrder'
  BY <1>1, <1>3 DEF RequestsInOrder
<1>5. \A i \in 1 .. Len(to_client') : to_client'[i].final =>
        i \in 1 .. Len(to_client) /\ to_client'[i] = to_client[i]
  OBVIOUS
<1>6. \A i \in 1 .. Len(to_client') : PacketFits(to_client'[i])
  BY <1>1 DEF AnswersInOrder
<1>7. AnswersInOrder'
  BY <1>1, <1>3, <1>5, <1>6 DEF AnswersInOrder, PacketFits
<1>8. QED
  BY <1>2, <1>4, <1>7

\* Closing the connection drops the requests under way.
LEMMA ServerClosesKeeps ==
  ASSUME SInv, ServerCloses
  PROVE  SInv'
<1> DEFINE r == Head(to_server)
           n == Len(to_client)
<1>1. /\ r \in Sent /\ to_client \in Seq(Packet) /\ n \in Nat
      /\ seq \in Nat /\ seq' \in Nat
  BY TailFacts DEF ServerCloses, NextSequence, SInv, Queues, TypeOK
<1>3. /\ to_client' \in Seq(Packet)
      /\ \A i \in 1 .. Len(to_client') :
           \/ i \in 1 .. n /\ to_client'[i] = to_client[i]
           \/ ~to_client'[i].final /\ PacketFits(to_client'[i])
  <2>1. CASE UNCHANGED to_client
    BY <1>1, <2>1
  <2>2. ASSUME Assigns(r), NEW a \in Assigned(r), to_client' = to_client \o a
        PROVE  /\ to_client' \in Seq(Packet)
               /\ \A i \in 1 .. Len(to_client') :
                    \/ i \in 1 .. n /\ to_client'[i] = to_client[i]
                    \/ ~to_client'[i].final /\ PacketFits(to_client'[i])
    <3>1. PICK t \in Packet : a = <<t>> /\ ~t.final /\ PacketFits(t)
      BY <1>1, <2>2, AssignedShapes
    <3>2. /\ to_client' \in Seq(Packet) /\ Len(to_client') = n + 1
          /\ \A i \in 1 .. n + 1 : to_client'[i] = IF i <= n THEN to_client[i] ELSE t
      BY <1>1, <2>2, <3>1
    <3>3. QED
      BY <1>1, <3>1, <3>2
  <2>3. QED
    BY <2>1, <2>2 DEF ServerCloses
<1>4. to_server' = <<>> /\ UNCHANGED <<packet_counter, send_queue, pending>>
  BY DEF ServerCloses, members
<1>5. Queues' /\ RequestsInOrder' /\ AnswersInOrder'
  BY <1>3, <1>4, QuietKeepsOrder
<1>6. TypeOK'
  <2>1. Range(to_server') \subseteq Sent /\ Range(to_client') \subseteq Packet
    BY <1>5, RangeFacts DEF Queues
  <2>2. QED
    BY <1>1, <2>1 DEF SInv, TypeOK, ServerCloses, members, Sent, Ids
<1>7. PatientInv' /\ BoardIsConfirmed'
  BY DEF SInv, PatientInv, BoardIsConfirmed, ServerCloses, members
<1>8. QED
  BY <1>5, <1>6, <1>7 DEF SInv

\* A broadcast of somebody else's element changes nothing but the queue.
LEMMA OthersDrawKeeps ==
  ASSUME SInv, OthersDraw
  PROVE  SInv'
<1> DEFINE n == Len(to_client)
<1>1. /\ Broadcast \in Packet /\ ~Broadcast.final /\ PacketFits(Broadcast)
      /\ Broadcast.type = "broadcast"
  <2>1. PacketIds \in Nat \ {0}
    BY ClientAssumption
  <2>2. QED
    BY <2>1 DEF Broadcast, Packet, PacketFits
<1>2. /\ to_client \in Seq(Packet) /\ n \in Nat /\ to_client' = Append(to_client, Broadcast)
      /\ to_server' = to_server
      /\ UNCHANGED <<members, server, history, connected, patient, pending, requests>>
  BY DEF SInv, Queues, OthersDraw
<1>3. /\ to_client' \in Seq(Packet) /\ Len(to_client') = n + 1
      /\ \A i \in 1 .. n + 1 : to_client'[i] = IF i <= n THEN to_client[i] ELSE Broadcast
  BY <1>1, <1>2
<1>4. Queues' /\ RequestsInOrder' /\ AnswersInOrder'
  <2>1. \A i \in 1 .. Len(to_client') :
          \/ i \in 1 .. n /\ to_client'[i] = to_client[i]
          \/ ~to_client'[i].final /\ PacketFits(to_client'[i])
    BY <1>1, <1>2, <1>3
  <2>2. QED
    BY <1>2, <1>3, <2>1, QuietKeepsOrder DEF members
<1>5. TypeOK'
  <2>1. Range(to_server') \subseteq Sent /\ Range(to_client') \subseteq Packet
    BY <1>4, RangeFacts DEF Queues
  <2>2. QED
    BY <1>2, <2>1 DEF SInv, TypeOK, members, server, history, Sent, Ids
<1>6. PatientInv'
  <2>1. SUFFICES ASSUME patient, connected PROVE PatientInv'
    BY <1>2 DEF PatientInv
  <2>2. \A i \in 1 .. Len(to_client') :
          TempAt(i)' \/ to_client'[i].final =>
            i \in 1 .. n /\ to_client'[i] = to_client[i]
    BY <1>1, <1>2, <1>3 DEF TempAt
  <2>3. \A i \in 1 .. n : /\ i \in 1 .. Len(to_client')
                          /\ to_client'[i] = to_client[i] /\ (TempAt(i)' <=> TempAt(i))
    BY <1>2, <1>3 DEF TempAt
  <2>4. /\ user_id' = user_id /\ created' = created /\ owner' = owner
        /\ pending' = pending /\ to_server' = to_server
    BY <1>2 DEF members, server, history
  <2>5. PatientInv
    BY DEF SInv
  <2>6. QED
    BY <2>1, <2>2, <2>3, <2>4, <2>5 DEF PatientInv
<1>7. BoardIsConfirmed'
  BY <1>2 DEF SInv, BoardIsConfirmed, members, server, history
<1>8. QED
  BY <1>4, <1>5, <1>6, <1>7 DEF SInv

-----------------------------------------------------------------------------
\* The steps of the application
\* A new request takes an id that nothing under way has, and is the youngest.
LEMMA SendKeepsOrder ==
  ASSUME SInv, NEW type \in Types, NEW board \in Boards \cup {NoBoard, Text},
         Send(type, board)
  PROVE  Queues' /\ RequestsInOrder' /\ AnswersInOrder'
<1> DEFINE id == NextId(packet_counter)
           n == Len(to_server)
           A(k) == Age(packet_counter, k)
           B(k) == Age(packet_counter', k)
           q == RequestPacket(type, id, board)
<1>1. /\ packet_counter \in Ids /\ PacketIds \in Nat /\ MaxPending \in Nat
      /\ MaxPending < PacketIds /\ pending \in Nat /\ pending < MaxPending
      /\ packet_counter' = id /\ pending' = pending + 1
      /\ send_queue' = [send_queue EXCEPT ![id] = type]
      /\ send_queue \in [Ids -> Types \cup {"none"}]
      /\ to_server' = Append(to_server, q) /\ to_client' = to_client
      /\ to_server \in Seq(Sent) /\ to_client \in Seq(Packet) /\ user_id \in Nat
  BY ClientAssumption DEF SInv, TypeOK, Queues, Send, Ids
<1>2. id \in Ids /\ B(id) = 0
  BY <1>1, SendAges
<1>3. \A k \in Ids : A(k) < pending =>
        /\ k # id /\ B(k) = A(k) + 1 /\ A(k) \in Nat /\ send_queue'[k] = send_queue[k]
  <2>1. SUFFICES ASSUME NEW k \in Ids, A(k) < pending
                 PROVE  /\ k # id /\ B(k) = A(k) + 1 /\ A(k) \in Nat
                        /\ send_queue'[k] = send_queue[k]
    OBVIOUS
  <2>2. A(k) \in 0 .. PacketIds - 1
    BY <1>1, SendAges
  <2>3. A(k) < PacketIds - 1
    BY <1>1, <2>1, <2>2
  <2>4. k # id /\ B(k) = A(k) + 1
    BY <1>1, <2>3, SendAges
  <2>5. QED
    BY <1>1, <2>2, <2>4
<1>4. q \in Sent /\ q.id = id /\ q.type = type
  BY <1>1, <1>2 DEF RequestPacket, Sent
<1> HIDE DEF q, id
<1>5. /\ to_server' \in Seq(Sent) /\ n \in Nat /\ Len(to_server') = n + 1
      /\ \A i \in 1 .. n + 1 : to_server'[i] = IF i <= n THEN to_server[i] ELSE q
  BY <1>1, <1>4
<1>6. /\ \A i \in 1 .. n : to_server[i].id \in Ids /\ A(to_server[i].id) < pending
      /\ \A i \in 1 .. Len(to_client) : to_client[i].final =>
           to_client[i].id \in Ids /\ A(to_client[i].id) < pending
  <2>1. \A i \in 1 .. n : to_server[i] \in Sent
    BY <1>1
  <2>2. \A i \in 1 .. Len(to_client) : to_client[i] \in Packet
    BY <1>1
  <2>3. \A x \in Sent : x.id \in Ids
    BY DEF Sent
  <2>4. \A x \in Packet : x.id \in Ids
    BY DEF Packet, Ids
  <2>5. QED
    BY <2>1, <2>2, <2>3, <2>4 DEF SInv, RequestsInOrder, AnswersInOrder
<1>7. RequestsInOrder'
  <2>1. SUFFICES ASSUME NEW i \in 1 .. n + 1
                 PROVE  /\ B(to_server'[i].id) < pending + 1
                        /\ send_queue'[to_server'[i].id] = to_server'[i].type
                        /\ \A j \in 1 .. n + 1 : i < j =>
                             B(to_server'[j].id) < B(to_server'[i].id)
    BY <1>1, <1>5 DEF RequestsInOrder
  <2>2. CASE i = n + 1
    <3>1. to_server'[i] = q /\ \A j \in 1 .. n + 1 : ~(i < j)
      BY <1>5, <2>2
    <3>2. send_queue'[id] = type
      BY <1>1, <1>2
    <3>3. QED
      BY <1>1, <1>2, <1>4, <3>1, <3>2
  <2>3. CASE i # n + 1
    <3>1. i \in 1 .. n /\ to_server'[i] = to_server[i]
      BY <1>5, <2>3
    <3>2. /\ A(to_server[i].id) < pending /\ to_server[i].id \in Ids
          /\ B(to_server[i].id) = A(to_server[i].id) + 1 /\ A(to_server[i].id) \in Nat
          /\ send_queue'[to_server[i].id] = to_server[i].type
      BY <1>3, <1>6, <3>1 DEF SInv, RequestsInOrder
    <3>3. ASSUME NEW j \in 1 .. n + 1, i < j
          PROVE  B(to_server'[j].id) < B(to_server[i].id)
      <4>1. CASE j = n + 1
        BY <1>2, <1>4, <1>5, <3>2, <4>1
      <4>2. CASE j # n + 1
        <5>1. j \in 1 .. n /\ to_server'[j] = to_server[j]
          BY <1>5, <4>2
        <5>2. /\ A(to_server[j].id) < A(to_server[i].id)
              /\ B(to_server[j].id) = A(to_server[j].id) + 1 /\ A(to_server[j].id) \in Nat
          BY <1>3, <1>6, <3>1, <3>3, <5>1 DEF SInv, RequestsInOrder
        <5>3. QED
          BY <3>2, <5>1, <5>2
      <4>3. QED
        BY <4>1, <4>2
    <3>4. B(to_server[i].id) < pending + 1
      BY <1>1, <3>2
    <3>5. QED
      BY <3>1, <3>2, <3>3, <3>4, Zenon
  <2>4. QED
    BY <2>2, <2>3
<1>8. AnswersInOrder'
  <2>1. AnswersInOrder
    BY DEF SInv
  <2>2. SUFFICES ASSUME NEW i \in 1 .. Len(to_client), to_client[i].final
                 PROVE  /\ B(to_client[i].id) < pending + 1
                        /\ send_queue'[to_client[i].id] = to_client[i].request
                        /\ \A j \in 1 .. Len(to_client) : i < j /\ to_client[j].final =>
                             B(to_client[j].id) < B(to_client[i].id)
                        /\ \A j \in 1 .. n + 1 :
                             B(to_server'[j].id) < B(to_client[i].id)
    BY <1>1, <1>5, <2>1 DEF AnswersInOrder, PacketFits
  <2>3. /\ A(to_client[i].id) < pending /\ A(to_client[i].id) \in Nat
        /\ B(to_client[i].id) = A(to_client[i].id) + 1
        /\ send_queue'[to_client[i].id] = to_client[i].request
    BY <1>3, <1>6, <2>1, <2>2 DEF AnswersInOrder
  <2>4. ASSUME NEW j \in 1 .. Len(to_client), i < j, to_client[j].final
        PROVE  B(to_client[j].id) < B(to_client[i].id)
    <3>1. /\ A(to_client[j].id) < A(to_client[i].id) /\ A(to_client[j].id) \in Nat
          /\ B(to_client[j].id) = A(to_client[j].id) + 1
      BY <1>3, <1>6, <2>1, <2>2, <2>4 DEF AnswersInOrder
    <3>2. QED
      BY <2>3, <3>1
  <2>5. ASSUME NEW j \in 1 .. n + 1
        PROVE  B(to_server'[j].id) < B(to_client[i].id)
    <3>1. CASE j = n + 1
      BY <1>2, <1>4, <1>5, <2>3, <3>1
    <3>2. CASE j # n + 1
      <4>1. j \in 1 .. n /\ to_server'[j] = to_server[j]
        BY <1>5, <3>2
      <4>2. /\ A(to_server[j].id) < A(to_client[i].id) /\ A(to_server[j].id) \in Nat
            /\ B(to_server[j].id) = A(to_server[j].id) + 1
        BY <1>3, <1>6, <2>1, <2>2, <4>1 DEF AnswersInOrder
      <4>3. QED
        BY <2>3, <4>1, <4>2
    <3>3. QED
      BY <3>1, <3>2
  <2>6. QED
    BY <1>1, <2>3, <2>4, <2>5
<1>9. QED
  BY <1>1, <1>5, <1>7, <1>8 DEF Queues

\* A request of a patient application is sent when nothing else is under way.
LEMMA SendKeeps ==
  ASSUME SInv, NEW type \in Types, NEW board \in Boards \cup {NoBoard, Text},
         Send(type, board)
  PROVE  SInv'
<1>1. Queues' /\ RequestsInOrder' /\ AnswersInOrder'
  BY SendKeepsOrder
<1>2. /\ packet_counter \in Ids /\ PacketIds \in Nat /\ MaxPending \in Nat
      /\ MaxRequests \in Nat /\ NextId(packet_counter) \in Ids
      /\ pending \in Nat /\ pending < MaxPending /\ requests \in Nat /\ requests < MaxRequests
  BY SendAges, ClientAssumption DEF SInv, TypeOK, Send, Ids
<1>3. TypeOK'
  <2>1. Range(to_server') \subseteq Sent /\ Range(to_client') \subseteq Packet
    BY <1>1, RangeFacts DEF Queues
  <2>2. packet_counter' \in Ids /\ pending' \in 0 .. MaxPending /\ requests' \in 0 .. MaxRequests
    BY <1>2 DEF Send
  <2>3. send_queue' \in [Ids -> Types \cup {"none"}]
    BY <1>2 DEF SInv, TypeOK, Send, Ids
  <2>4. patient' \in BOOLEAN
    BY DEF Send
  <2>5. QED
    BY <2>1, <2>2, <2>3, <2>4 DEF SInv, TypeOK, Send, server, history, Sent, Ids
<1>4. PatientInv'
  <2>1. SUFFICES ASSUME patient', connected' PROVE PatientInv'
    BY DEF PatientInv
  <2>2. patient /\ connected /\ pending = 0 /\ type \notin AccountTypes
    BY <2>1 DEF Send
  <2>3. to_server = <<>>
    BY <2>2, PatientQueues
  <2>4. to_server' = <<RequestPacket(type, NextId(packet_counter), board)>>
    BY <2>3 DEF Send
  <2>5. /\ Len(to_server') = 1 /\ to_server'[1].user = user_id /\ to_server'[1].type = type
    BY <2>4 DEF RequestPacket
  <2>6. \A i \in 1 .. Len(to_client) : ~TempAt(i)
    BY <2>2 DEF SInv, PatientInv
  <2>7. \A b \in created : owner[b] \in {Nobody, 0, user_id}
    BY <2>2, <2>6 DEF SInv, PatientInv
  <2>8. /\ to_client' = to_client /\ pending' = 1 /\ user_id' = user_id
        /\ created' = created /\ owner' = owner
    BY <2>2 DEF Send, server, history
  <2>9. QED
    BY <2>2, <2>5, <2>6, <2>7, <2>8 DEF PatientInv, TempAt
<1>5. BoardIsConfirmed'
  BY DEF SInv, BoardIsConfirmed, Send, server, history
<1>6. QED
  BY <1>1, <1>3, <1>4, <1>5 DEF SInv

\* What is read was the oldest answer under way: the others are younger than it.
LEMMA ReceiveKeepsOrder ==
  ASSUME SInv, HandleReceive
  PROVE  /\ Queues' /\ RequestsInOrder' /\ AnswersInOrder'
         /\ pending' \in 0 .. MaxPending
<1> DEFINE p == Head(to_client)
           n == Len(to_client)
           A(k) == Age(packet_counter, k)
<1>1. /\ to_client \in Seq(Packet) /\ to_client # <<>> /\ to_client' = Tail(to_client)
      /\ to_server' = to_server /\ to_server \in Seq(Sent)
      /\ packet_counter' = packet_counter /\ send_queue' = send_queue
      /\ pending' = (IF p.final THEN pending - 1 ELSE pending)
      /\ pending \in 0 .. MaxPending /\ MaxPending \in Nat /\ PacketIds \in Nat
      /\ packet_counter \in Ids
      /\ RequestsInOrder /\ AnswersInOrder
  BY ClientAssumption DEF SInv, Queues, TypeOK, HandleReceive, Ids
<1>2. /\ n \in Nat \ {0} /\ Len(to_client') = n - 1 /\ to_client' \in Seq(Packet)
      /\ p = to_client[1] /\ 1 \in 1 .. n
      /\ \A i \in 1 .. n - 1 : to_client'[i] = to_client[i + 1] /\ i + 1 \in 1 .. n
  BY <1>1, TailFacts
<1> HIDE DEF p
<1>3. \A k \in Ids : A(k) \in Nat
  <2>1. \A k \in Ids : A(k) \in 0 .. PacketIds - 1
    BY <1>1, SendAges, Zenon
  <2>2. QED
    BY <1>1, <2>1
<1>4. /\ \A i \in 1 .. Len(to_server) : A(to_server[i].id) \in Nat
      /\ \A i \in 1 .. n : A(to_client[i].id) \in Nat
  <2>1. \A i \in 1 .. Len(to_server) : to_server[i] \in Sent
    BY <1>1
  <2>2. \A i \in 1 .. n : to_client[i] \in Packet
    BY <1>1
  <2>3. \A x \in Sent : x.id \in Ids
    BY DEF Sent
  <2>4. \A x \in Packet : x.id \in Ids
    BY DEF Packet, Ids
  <2>5. QED
    BY <1>3, <2>1, <2>2, <2>3, <2>4
<1>5. /\ \A i \in 1 .. Len(to_server) : A(to_server[i].id) < pending'
      /\ \A i \in 1 .. n - 1 : to_client'[i].final => A(to_client'[i].id) < pending'
      /\ pending' \in 0 .. MaxPending
  <2>1. CASE p.final
    <3>1. /\ A(to_client[1].id) < pending
          /\ \A i \in 1 .. Len(to_server) : A(to_server[i].id) < A(to_client[1].id)
          /\ \A i \in 1 .. n : 1 < i /\ to_client[i].final =>
               A(to_client[i].id) < A(to_client[1].id)
      BY <1>1, <1>2, <2>1 DEF AnswersInOrder
    <3>2. pending' = pending - 1 /\ pending \in Nat /\ A(to_client[1].id) \in Nat
      BY <1>1, <1>2, <1>4, <2>1
    <3>3. \A i \in 1 .. Len(to_server) : A(to_server[i].id) < pending'
      BY <1>4, <3>1, <3>2
    <3>4. ASSUME NEW i \in 1 .. n - 1, to_client'[i].final
          PROVE  A(to_client'[i].id) < pending'
      <4>1. to_client'[i] = to_client[i + 1] /\ i + 1 \in 1 .. n /\ 1 < i + 1
        BY <1>2
      <4>2. A(to_client[i + 1].id) < A(to_client[1].id) /\ A(to_client[i + 1].id) \in Nat
        BY <1>4, <3>1, <3>4, <4>1
      <4>3. QED
        BY <3>1, <3>2, <4>1, <4>2
    <3>5. pending' \in 0 .. MaxPending
      BY <1>1, <3>1, <3>2
    <3>6. QED
      BY <3>3, <3>4, <3>5
  <2>2. CASE ~p.final
    <3>1. pending' = pending
      BY <1>1, <2>2
    <3>2. QED
      BY <1>1, <1>2, <3>1 DEF RequestsInOrder, AnswersInOrder
  <2>3. QED
    BY <2>1, <2>2
<1>6. RequestsInOrder'
  BY <1>1, <1>5 DEF RequestsInOrder
<1>7. AnswersInOrder'
  <2>1. SUFFICES ASSUME NEW i \in 1 .. n - 1
                 PROVE  /\ PacketFits(to_client'[i])
                        /\ to_client'[i].final =>
                             /\ A(to_client'[i].id) < pending'
                             /\ send_queue[to_client'[i].id] = to_client'[i].request
                             /\ \A j \in 1 .. n - 1 : i < j /\ to_client'[j].final =>
                                  A(to_client'[j].id) < A(to_client'[i].id)
                             /\ \A j \in 1 .. Len(to_server) :
                                  A(to_server[j].id) < A(to_client'[i].id)
    BY <1>1, <1>2 DEF AnswersInOrder, PacketFits
  <2>2. /\ to_client'[i] = to_client[i + 1] /\ i + 1 \in 1 .. n
        /\ \A j \in 1 .. n - 1 : i < j =>
             to_client'[j] = to_client[j + 1] /\ j + 1 \in 1 .. n /\ i + 1 < j + 1
    BY <1>2
  <2>3. QED
    BY <1>1, <1>5, <2>2 DEF AnswersInOrder
<1>8. QED
  BY <1>1, <1>2, <1>5, <1>6, <1>7 DEF Queues

\* What is read moves from the queue to the members of the client.
LEMMA ReceiveKeeps ==
  ASSUME SInv, HandleReceive
  PROVE  SInv'
<1> DEFINE p == Head(to_client)
           n == Len(to_client)
<1>1. /\ Queues' /\ RequestsInOrder' /\ AnswersInOrder'
      /\ pending' \in 0 .. MaxPending
  BY ReceiveKeepsOrder
<1>2. /\ to_client \in Seq(Packet) /\ to_client # <<>> /\ to_client' = Tail(to_client)
      /\ HandleActionResponse(p) \/ HandleTempIdResponse(p) \/ HandleBroadcast(p)
      /\ named' = IF p.type = "actionResponse" /\ p.success /\ p.request \in Naming
                  THEN named \cup {p.message} ELSE named
      /\ pending' = IF p.final THEN pending - 1 ELSE pending
      /\ patient' = (patient /\ (p.type = "tempIdResponse" => p.success))
      /\ UNCHANGED <<packet_counter, send_queue, connected, to_server, server,
                     created, requests>>
  BY DEF SInv, Queues, HandleReceive, Naming
<1>3. /\ n \in Nat \ {0} /\ Len(to_client') = n - 1 /\ p = to_client[1] /\ p \in Packet
      /\ 1 \in 1 .. n
      /\ \A i \in 1 .. n - 1 : to_client'[i] = to_client[i + 1] /\ i + 1 \in 1 .. n
  BY <1>2, TailFacts
<1>4. PacketFits(p) /\ (p.final => send_queue[p.id] = p.request)
  BY <1>3 DEF SInv, AnswersInOrder
<1> HIDE DEF p
<1>5. /\ user_id' \in Nat /\ named' \subseteq Boards
      /\ whiteboard_id' \in {NoBoard} \cup named'
  <2>1. /\ user_id \in Nat /\ named \subseteq Boards /\ whiteboard_id \in {NoBoard} \cup named
        /\ p.user \in Nat
    BY <1>3 DEF SInv, TypeOK, BoardIsConfirmed, Packet
  <2>2. CASE HandleActionResponse(p)
    <3>1. p.type = "actionResponse" /\ send_queue[p.id] = p.request /\ user_id' = user_id
      BY <1>4, <2>2 DEF HandleActionResponse, PacketFits
    <3>2. CASE p.success /\ p.request \in Naming
      BY <1>2, <1>4, <2>1, <2>2, <3>1, <3>2 DEF HandleActionResponse, BoardAfter, Naming, PacketFits
    <3>3. CASE ~(p.success /\ p.request \in Naming)
      BY <1>2, <2>1, <2>2, <3>1, <3>3 DEF HandleActionResponse, BoardAfter, Naming
    <3>4. QED
      BY <3>2, <3>3
  <2>3. CASE HandleTempIdResponse(p)
    BY <1>2, <2>1, <2>3 DEF HandleTempIdResponse
  <2>4. CASE HandleBroadcast(p)
    BY <1>2, <2>1, <2>4 DEF HandleBroadcast
  <2>5. QED
    BY <1>2, <2>2, <2>3, <2>4
<1>6. TypeOK'
  <2>1. Range(to_server') \subseteq Sent /\ Range(to_client') \subseteq Packet
    BY <1>1, RangeFacts DEF Queues
  <2>2. whiteboard_id' \in Boards \cup {NoBoard, Text}
    BY <1>5
  <2>3. QED
    BY <1>1, <1>2, <1>5, <2>1, <2>2 DEF SInv, TypeOK, server, Sent, Ids
<1>7. PatientInv'
  <2>1. SUFFICES ASSUME patient, connected, p.type = "tempIdResponse" => p.success
                 PROVE  PatientInv'
    BY <1>2 DEF PatientInv
  <2>2. PatientInv
    BY DEF SInv
  <2>3. /\ \A i \in 1 .. n - 1 : TempAt(i)' <=> TempAt(i + 1)
        /\ to_server' = to_server /\ created' = created /\ owner' = owner
        /\ connected' = connected
    BY <1>2, <1>3 DEF TempAt, server
  <2>4. CASE p.type = "tempIdResponse"
    <3>1. /\ TempAt(1) /\ user_id' = p.user
      BY <1>2, <1>3, <2>1, <2>4 DEF TempAt, HandleActionResponse, HandleTempIdResponse, HandleBroadcast
    <3>2. /\ pending = 1 /\ ~p.final
          /\ \A j \in 1 .. n : TempAt(j) => j = 1
          /\ \A b \in created : owner[b] \in {Nobody, 0, p.user}
          /\ \A i \in 1 .. Len(to_server) : FALSE
      BY <1>3, <2>1, <2>2, <3>1 DEF PatientInv
    <3>3. \A i \in 1 .. n - 1 : ~TempAt(i)'
      <4>1. \A i \in 1 .. n - 1 : i + 1 \in 1 .. n /\ i + 1 # 1
        BY <1>3
      <4>2. QED
        BY <2>3, <3>2, <4>1
    <3>4. pending' = 1
      BY <1>2, <3>2
    <3>5. QED
      BY <1>3, <2>3, <3>1, <3>2, <3>3, <3>4 DEF PatientInv
  <2>5. CASE p.type # "tempIdResponse"
    <3>1. user_id' = user_id /\ ~TempAt(1)
      BY <1>2, <1>3, <2>5 DEF TempAt, HandleActionResponse, HandleTempIdResponse, HandleBroadcast
    <3>2. \A i \in 1 .. Len(to_server) :
            /\ to_server[i].user = user_id /\ to_server[i].type \notin AccountTypes
            /\ \A k \in 1 .. n : ~TempAt(k)
      BY <2>1, <2>2 DEF PatientInv
    <3>3. CASE p.final
      <4>1. \A i \in 1 .. n : ~TempAt(i)
        <5>1. ASSUME NEW i \in 1 .. n, TempAt(i) PROVE FALSE
          <6>1. i < 1
            BY <1>3, <2>1, <2>2, <3>3, <5>1 DEF PatientInv
          <6>2. QED
            BY <1>3, <6>1
        <5>2. QED
          BY <5>1
      <4>2. /\ \A i \in 1 .. n - 1 : ~TempAt(i)'
            /\ \A b \in created : owner[b] \in {Nobody, 0, user_id}
        BY <1>3, <2>1, <2>2, <2>3, <4>1 DEF PatientInv
      <4>3. pending' \in {0, 1}
        <5>1. pending \in {0, 1} /\ pending' = pending - 1 /\ pending' \in Nat
          BY <1>1, <1>2, <2>1, <2>2, <3>3 DEF PatientInv
        <5>2. QED
          BY <5>1
      <4>4. \A i \in 1 .. Len(to_client') : ~TempAt(i)'
        BY <1>3, <4>2
      <4>5. QED
        BY <2>3, <3>1, <3>2, <4>2, <4>3, <4>4 DEF PatientInv
    <3>4. CASE ~p.final
      <4>1. pending' = pending /\ pending \in {0, 1}
        BY <1>2, <2>1, <2>2, <3>4 DEF PatientInv
      <4>2. ASSUME NEW i \in 1 .. n - 1, TempAt(i)'
            PROVE  /\ pending' = 1
                   /\ \A j \in 1 .. n - 1 : TempAt(j)' => j = i
                   /\ \A j \in 1 .. n - 1 : to_client'[j].final => i < j
                   /\ \A b \in created : owner[b] \in {Nobody, 0, to_client'[i].user}
        <5>1. TempAt(i + 1) /\ i + 1 \in 1 .. n /\ to_client'[i] = to_client[i + 1]
          BY <1>3, <2>3, <4>2
        <5>2. /\ pending = 1
              /\ \A j \in 1 .. n : TempAt(j) => j = i + 1
              /\ \A j \in 1 .. n : to_client[j].final => i + 1 < j
              /\ \A b \in created : owner[b] \in {Nobody, 0, to_client[i + 1].user}
          BY <2>1, <2>2, <5>1 DEF PatientInv
        <5>3. \A j \in 1 .. n - 1 : j + 1 \in 1 .. n /\ (j + 1 = i + 1 => j = i)
                                   /\ (i + 1 < j + 1 => i < j)
          BY <1>3
        <5>4. QED
          BY <1>3, <2>3, <4>1, <5>1, <5>2, <5>3
      <4>3. (\A i \in 1 .. n - 1 : ~TempAt(i)') =>
              \A b \in created : owner[b] \in {Nobody, 0, user_id}
        <5>1. ASSUME \A i \in 1 .. n - 1 : ~TempAt(i)'
              PROVE  \A i \in 1 .. n : ~TempAt(i)
          <6>1. \A i \in 1 .. n : i = 1 \/ (i - 1 \in 1 .. n - 1 /\ (i - 1) + 1 = i)
            BY <1>3
          <6>2. \A i \in 1 .. n - 1 : ~TempAt(i + 1)
            BY <2>3, <5>1
          <6>3. QED
            BY <3>1, <6>1, <6>2
        <5>2. QED
          BY <2>1, <2>2, <5>1 DEF PatientInv
      <4>4. \A i \in 1 .. Len(to_server') :
              \A k \in 1 .. n - 1 : ~TempAt(k)'
        BY <1>3, <2>3, <3>2
      <4>5. QED
        BY <1>3, <2>3, <3>1, <3>2, <4>1, <4>2, <4>3, <4>4 DEF PatientInv
    <3>5. QED
      BY <3>3, <3>4
  <2>6. QED
    BY <2>4, <2>5
<1>8. BoardIsConfirmed'
  BY <1>2, <1>5 DEF SInv, BoardIsConfirmed, server
<1>9. QED
  BY <1>1, <1>6, <1>7, <1>8 DEF SInv

-----------------------------------------------------------------------------
\* The invariant holds at first, and every step keeps it.
LEMMA SessionStarts == Init => SInv
<1> SUFFICES ASSUME Init PROVE SInv
  OBVIOUS
<1>1. /\ 0 \in Ids /\ FirstIds \subseteq Nat /\ {Stranger, Account} \subseteq Nat
      /\ StoredBefore \subseteq Boards /\ ForeignBoards \subseteq Boards /\ InitialUserIds \subseteq Nat
      /\ MaxPending \in Nat /\ MaxRequests \in Nat /\ PacketIds \in Nat
  BY ClientAssumption DEF Ids, StoredBefore
<1>2. to_server = <<>> /\ to_client = <<>> /\ Queues
  BY DEF Init, Queues
<1>3. TypeOK
  <2>1. Range(to_server) = {} /\ Range(to_client) = {}
    BY <1>2 DEF Range
  <2>2. owner \in [Boards -> Nat \cup {Nobody}]
    BY <1>1 DEF Init
  <2>3. send_queue \in [Ids -> Types \cup {"none"}]
    BY DEF Init, Ids
  <2>4. QED
    BY <1>1, <2>1, <2>2, <2>3 DEF Init, TypeOK, Ids
<1>4. PatientInv
  BY <1>2 DEF Init, PatientInv
<1>5. RequestsInOrder /\ AnswersInOrder /\ BoardIsConfirmed
  BY <1>1, <1>2 DEF Init, RequestsInOrder, AnswersInOrder, BoardIsConfirmed
<1>6. QED
  BY <1>2, <1>3, <1>4, <1>5 DEF SInv

\* Every action is one of these steps.
LEMMA SessionSteps == SInv /\ [Next]_vars => SInv'
<1> SUFFICES ASSUME SInv, [Next]_vars PROVE SInv'
  OBVIOUS
<1>1. CASE SendSome
  <2>1. RequestTypes \subseteq Types /\ whiteboard_id \in Boards \cup {NoBoard, Text}
    BY ClientAssumption DEF SInv, TypeOK
  <2>2. \E type \in Types, board \in Boards \cup {NoBoard, Text} : Send(type, board)
    BY <1>1, <2>1 DEF SendSome
  <2>3. QED
    BY <2>2, SendKeeps
<1>2. CASE HandleReceive
  BY <1>2, ReceiveKeeps
<1>3. CASE CreateWhiteboard
  BY <1>3, CreateWhiteboardAnswers, AnswerKeeps
<1>4. CASE JoinSession
  BY <1>4, JoinSessionAnswers, AnswerKeeps
<1>5. CASE CreateSession \/ QuitSession \/ AddElement \/ RegisterUser \/ LoginUser
  BY <1>5, OtherHandlersAnswer, AnswerKeeps
<1>6. CASE ServerCloses
  BY <1>6, ServerClosesKeeps
<1>7. CASE OthersDraw
  BY <1>7, OthersDrawKeeps
<1>8. CASE UNCHANGED vars
  BY <1>8 DEF vars, members, wire, server, history, SInv, TypeOK, Queues,
     RequestsInOrder, AnswersInOrder, PatientInv, TempAt, BoardIsConfirmed, PacketFits
<1>9. QED
  BY <1>1, <1>2, <1>3, <1>4, <1>5, <1>6, <1>7, <1>8 DEF Next

\* The invariant, for every behaviour.
LEMMA SessionInvariant == Spec => []SInv
BY SessionStarts, SessionSteps, PTL DEF Spec

\* The members, the wire and the server keep their types.
THEOREM SessionTypeOK == Spec => []TypeOK
<1>1. SInv => TypeOK
  BY DEF SInv
<1>2. QED
  BY <1>1, SessionInvariant, PTL

\* However many requests are under way, and however often packet ids wrap
\* around, handle_action_response looks up the type of the request that the
\* response answers.
THEOREM SessionMatches == Spec => []ResponseMatchesRequest
<1>1. SInv => ResponseMatchesRequest
  <2>1. SUFFICES ASSUME SInv, NEW p \in Range(to_client), p.type = "actionResponse"
                 PROVE  send_queue[p.id] = p.request
    BY DEF ResponseMatchesRequest
  <2>2. PICK i \in 1 .. Len(to_client) : p = to_client[i]
    BY <2>1, RangeFacts DEF SInv, Queues
  <2>3. QED
    BY <2>1, <2>2 DEF SInv, AnswersInOrder, PacketFits
<1>2. QED
  BY <1>1, SessionInvariant, PTL

\* The client never works on a board that no response named.
THEOREM SessionConfirms == Spec => []BoardIsConfirmed
<1>1. SInv => BoardIsConfirmed
  BY DEF SInv
<1>2. QED
  BY <1>1, SessionInvariant, PTL

\* An application that waits for its answers speaks for the user who owns the
\* board that it made.
THEOREM SessionOwnerKnowsBoard == Spec => []OwnerKnowsBoard
<1>1. SInv => OwnerKnowsBoard
  <2>1. SUFFICES ASSUME SInv, patient, connected, pending = 0, whiteboard_id \in created
                 PROVE  owner[whiteboard_id] \in {user_id, 0, Nobody}
    BY DEF OwnerKnowsBoard
  <2>2. \A i \in 1 .. Len(to_client) : ~TempAt(i)
    BY <2>1 DEF SInv, PatientInv
  <2>3. QED
    BY <2>1, <2>2 DEF SInv, PatientInv
<1>2. QED
  BY <1>1, SessionInvariant, PTL
=============================================================================
