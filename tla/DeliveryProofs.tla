--------------------------- MODULE DeliveryProofs ---------------------------
(***************************************************************************)
(* WhiteboardServer: that elements reach the members of a session, and     *)
(* that what a member was sent last is the board, for any workers, boards  *)
(* and elements.  Both follow from what is on its way: an element that a   *)
(* member lacks is one that a broadcast has read and not yet sent there,   *)
(* or that a broadcast will read; and only a broadcast that will yet read  *)
(* the board lets another one send what is out of date.                    *)
(***************************************************************************)
EXTENDS WhiteboardServerProofs

Intact == ~corrupt /\ faults = 0

Joining(w, b) == Board(w) = b /\ pc[w] = "js_send"

\* A member was sent the board when it joined: it is registered, and the board
\* was in the database.
MembersKnown ==
  \A w \in Workers :
    /\ synced[w] \subseteq joined[w]
    /\ pc[w] = "idle" => synced[w] = {}
    /\ pc[w] \in {"js_update", "js_shared", "js_elements", "js_send"} =>
         Board(w) \in joined[w]
    /\ \A b \in Boards : b \in synced[w] \/ Joining(w, b) => docs[b].state # "unborn"

\* Worker v changed board b, and its broadcast has yet to read it.
Changes(v, b) == Board(v) = b /\ request[v].type \in {"addElement", "modifyElement"}
WillRead(v, b) == Changes(v, b) /\ pc[v] \in {"reply_success", "bc_check", "bc_find"}

\* Worker v will send w what it has read of b.
WillSend(v, w, b) ==
  Changes(v, b) /\ (pc[v] = "bc_lock" \/ (pc[v] = "bc_send" /\ w \in remaining[v]))

\* Every element that a member lacks is on its way to it.
Lacks(w, b, e) ==
  /\ w \notin torn /\ Stored(b) /\ e \in docs[b].elements /\ e \notin received[w][b]
  /\ b \in synced[w] \/ (Joining(w, b) /\ e \notin snapshot[w])

Brings(v, w, b, e) == WillRead(v, b) \/ (WillSend(v, w, b) /\ e \in snapshot[v])

Delivery ==
  \A w \in Workers, b \in Boards, e \in Elements :
    Lacks(w, b, e) => \E v \in Workers : Brings(v, w, b, e)

\* So is the board to every member that is behind, if nobody sends it at once.
Behind(w, b) ==
  /\ w \notin torn /\ Stored(b) /\ b \notin overlapped
  /\ b \in synced[w] /\ latest[w][b] # docs[b].elements

Renews(v, w, b) ==
  WillRead(v, b) \/ (WillSend(v, w, b) /\ snapshot[v] = docs[b].elements)

Renewal ==
  \A w \in Workers, b \in Boards :
    Behind(w, b) => \E v \in Workers : Renews(v, w, b)

OneSender ==
  \A b \in Boards \ overlapped : \A v, u \in Workers :
    Sends(v, b) /\ Sends(u, b) => v = u

\* Whoever sends what is out of date, to a board with members, is followed.
Stale(v, w, b) ==
  /\ b \notin overlapped /\ Sends(v, b)
  /\ Stored(b) /\ snapshot[v] # docs[b].elements
  /\ b \in synced[w] \/ Joining(w, b)

StaleIsFollowed ==
  \A b \in Boards, v, w \in Workers :
    Stale(v, w, b) => \E u \in Workers : WillRead(u, b)

DeliveryInv ==
  /\ TypeOK /\ MemberRegistered /\ MembersKnown
  /\ Intact => Delivery /\ Renewal /\ OneSender /\ StaleIsFollowed

-----------------------------------------------------------------------------
\* What a step of one worker leaves alone
ServerStep(x) ==
  \/ Accept(x) \/ Disconnect(x) \/ \E r \in Request : Receive(x, r)
  \/ HandlerStep(x)

\* The locals and memberships of the other workers.
Apart(x) ==
  \A v \in Workers \ {x} :
    /\ pc'[v] = pc[v] /\ request'[v] = request[v] /\ snapshot'[v] = snapshot[v]
    /\ joined'[v] = joined[v] /\ synced'[v] = synced[v]

\* Documents: a stored one was stored, with these elements, unless it is new
\* or the worker changes it.
DocsMove(x) ==
  \A b \in Boards : docs[b].state # "unborn" =>
    /\ docs'[b].state # "unborn"
    /\ Stored(b)' => /\ Stored(b)
                     /\ \/ docs'[b].elements = docs[b].elements
                        \/ b = Board(x) /\ pc[x] \in {"ae_push", "me_update"}

\* A step that changes no document.
LEMMA DocsRest ==
  ASSUME UNCHANGED docs, NEW x
  PROVE  DocsMove(x)
BY DEF DocsMove, Stored

\* A conditional update of the request's board that keeps its elements.
LEMMA UpdateMoves ==
  ASSUME TypeOK, NEW x \in Workers, NEW d, UpdateOne(Board(x), d),
         d.elements = docs[Board(x)].elements \/ pc[x] \in {"ae_push", "me_update"},
         Stored(Board(x)) => d.state # "unborn"
  PROVE  DocsMove(x)
<1>1. CASE ~Stored(Board(x))
  BY <1>1, DocsRest DEF UpdateOne
<1>2. CASE Stored(Board(x))
  BY <1>2 DEF UpdateOne, DocsMove, Stored, TypeOK, DatabaseTypes
<1>3. QED
  BY <1>1, <1>2

\* A connection that closes.
LEMMA CloseApart ==
  ASSUME TypeOK, NEW x \in Workers, Close(x)
  PROVE  Apart(x) /\ DocsMove(x)
<1>1. UNCHANGED docs
  BY DEF Close, database
<1>2. Apart(x)
  BY DEF Close, Leave, Goto, Apart, TypeOK, HandlerTypes, ClientTypes
<1>3. QED
  BY <1>1, <1>2, DocsRest

\* Every step of a worker leaves the others and their boards alone.
LEMMA StepApart ==
  ASSUME TypeOK, NEW x \in Workers, ServerStep(x)
  PROVE  Apart(x) /\ DocsMove(x)
<1>1. CASE Disconnect(x) \/ MalformedId(x) \/ UpdateRejected(x)
  BY <1>1, CloseApart DEF Disconnect, MalformedId, UpdateRejected
<1>2. CASE Accept(x)
  BY <1>2, DocsRest DEF Accept, Decide, Step, Goto, loop, database, client, Apart, TypeOK,
     HandlerTypes
<1>3. ASSUME NEW r \in Request, Receive(x, r)
      PROVE  Apart(x) /\ DocsMove(x)
  BY <1>3, DocsRest DEF Receive, Goto, loop, database, client, Apart, TypeOK,
     HandlerTypes
<1>4. CASE AssignUserId(x) \/ Reply(x) \/ SendUnicast(x)
  BY <1>4, DocsRest DEF AssignUserId, Reply, SendUnicast, Goto, Leave, loop, database,
     Apart, TypeOK, HandlerTypes, ClientTypes
<1>5. CASE InsertWhiteboard(x)
  <2>1. Apart(x)
    BY <1>5 DEF InsertWhiteboard, Step, Goto, loop, client, Apart, TypeOK, HandlerTypes
  <2>2. DocsMove(x)
    BY <1>5 DEF InsertWhiteboard, DocsMove, Stored, TypeOK, DatabaseTypes
  <2>3. QED
    BY <2>1, <2>2
<1>6. CASE \/ InsertFails(x) \/ FindOwnedBoard(x) \/ FindSharedBoard(x)
           \/ CheckSharedForUnicast(x) \/ FindAbandonedBoard(x) \/ AuthorizeAdd(x)
  BY <1>6, DocsRest DEF InsertFails, FindOwnedBoard, FindSharedBoard,
     CheckSharedForUnicast, FindAbandonedBoard, AuthorizeAdd, Decide, Step, Goto, loop,
     database, client, Apart, TypeOK, HandlerTypes
<1>7. CASE AuthorizeModify(x) \/ CheckSharedForBroadcast(x)
  BY <1>7, DocsRest DEF AuthorizeModify, CheckSharedForBroadcast, Decide, Step, Return,
     Leave, Goto, loop, database, client, Apart, TypeOK, HandlerTypes
<1>8. CASE \/ ReadElementsForUnicast(x) \/ ReadElementsForBroadcast(x)
  BY <1>8, DocsRest DEF ReadElementsForUnicast, ReadElementsForBroadcast, ReadElements,
     Return, Leave, Goto, database, client, Apart, TypeOK, HandlerTypes
<1>9. CASE \/ SetActiveUsers(x) \/ AddActiveUser(x) \/ PullActiveUser(x)
           \/ DeleteBoard(x) \/ PushElement(x) \/ ReplaceElement(x)
  <2>1. Apart(x)
    BY <1>9 DEF SetActiveUsers, AddActiveUser, PullActiveUser, DeleteBoard, PushElement,
       ReplaceElement, UpdateStep, Step, Goto, loop, client, Apart, TypeOK, HandlerTypes
  <2>2. Stored(Board(x)) => docs[Board(x)] \in Doc /\ docs[Board(x)].state = "stored"
    BY DEF Stored, TypeOK, DatabaseTypes
  <2>3. ASSUME NEW d, UpdateOne(Board(x), d),
               Stored(Board(x)) =>
                 /\ d.elements = docs[Board(x)].elements \/ pc[x] \in {"ae_push", "me_update"}
                 /\ d.state # "unborn"
        PROVE  DocsMove(x)
    <3>1. CASE ~Stored(Board(x))
      BY <2>3, <3>1, DocsRest DEF UpdateOne
    <3>2. CASE Stored(Board(x))
      BY <2>3, <3>2, UpdateMoves
    <3>3. QED
      BY <3>1, <3>2
  <2>4. CASE SetActiveUsers(x)
    <3> DEFINE d == [docs[Board(x)] EXCEPT !.shared = TRUE, !.active = {User(x)}]
    <3>1. UpdateOne(Board(x), d)
      BY <2>4 DEF SetActiveUsers, UpdateStep
    <3>2. Stored(Board(x)) =>
            /\ d.elements = docs[Board(x)].elements \/ pc[x] \in {"ae_push", "me_update"}
            /\ d.state # "unborn"
      BY <2>2, <2>4 DEF SetActiveUsers, UpdateStep, Step, At, Doc
    <3> HIDE DEF d
    <3>3. QED
      BY <2>1, <2>3, <3>1, <3>2
  <2>5. CASE AddActiveUser(x)
    <3> DEFINE d == [docs[Board(x)] EXCEPT !.active = @ \cup {User(x)}]
    <3>1. UpdateOne(Board(x), d)
      BY <2>5 DEF AddActiveUser, UpdateStep
    <3>2. Stored(Board(x)) =>
            /\ d.elements = docs[Board(x)].elements \/ pc[x] \in {"ae_push", "me_update"}
            /\ d.state # "unborn"
      BY <2>2, <2>5 DEF AddActiveUser, UpdateStep, Step, At, Doc
    <3> HIDE DEF d
    <3>3. QED
      BY <2>1, <2>3, <3>1, <3>2
  <2>6. CASE PullActiveUser(x)
    <3> DEFINE d == [docs[Board(x)] EXCEPT !.active = @ \ {User(x)}]
    <3>1. UpdateOne(Board(x), d)
      BY <2>6 DEF PullActiveUser, UpdateStep
    <3>2. Stored(Board(x)) =>
            /\ d.elements = docs[Board(x)].elements \/ pc[x] \in {"ae_push", "me_update"}
            /\ d.state # "unborn"
      BY <2>2, <2>6 DEF PullActiveUser, UpdateStep, Step, At, Doc
    <3> HIDE DEF d
    <3>3. QED
      BY <2>1, <2>3, <3>1, <3>2
  <2>7. CASE DeleteBoard(x)
    <3> DEFINE d == [docs[Board(x)] EXCEPT !.state = "deleted"]
    <3>1. UpdateOne(Board(x), d)
      BY <2>7 DEF DeleteBoard, UpdateStep
    <3>2. Stored(Board(x)) =>
            /\ d.elements = docs[Board(x)].elements \/ pc[x] \in {"ae_push", "me_update"}
            /\ d.state # "unborn"
      BY <2>2, <2>7 DEF DeleteBoard, UpdateStep, Step, At, Doc
    <3> HIDE DEF d
    <3>3. QED
      BY <2>1, <2>3, <3>1, <3>2
  <2>8. CASE PushElement(x)
    <3> DEFINE d == [docs[Board(x)] EXCEPT !.elements = @ \cup {request[x].element}]
    <3>1. UpdateOne(Board(x), d)
      BY <2>8 DEF PushElement, UpdateStep
    <3>2. Stored(Board(x)) =>
            /\ d.elements = docs[Board(x)].elements \/ pc[x] \in {"ae_push", "me_update"}
            /\ d.state # "unborn"
      BY <2>2, <2>8 DEF PushElement, UpdateStep, Step, At, Doc
    <3> HIDE DEF d
    <3>3. QED
      BY <2>1, <2>3, <3>1, <3>2
  <2>9. CASE ReplaceElement(x)
    <3> DEFINE d == [docs[Board(x)] EXCEPT !.elements =
                   (@ \ {request[x].orig}) \cup {request[x].element}]
    <3>1. UpdateOne(Board(x), d)
      BY <2>9 DEF ReplaceElement, UpdateStep
    <3>2. Stored(Board(x)) =>
            /\ d.elements = docs[Board(x)].elements \/ pc[x] \in {"ae_push", "me_update"}
            /\ d.state # "unborn"
      BY <2>2, <2>9 DEF ReplaceElement, UpdateStep, Step, At, Doc
    <3> HIDE DEF d
    <3>3. QED
      BY <2>1, <2>3, <3>1, <3>2
  <2>10. QED
    BY <1>9, <2>1, <2>4, <2>5, <2>6, <2>7, <2>8, <2>9
<1>10. CASE AddOwnerSocket(x) \/ AddMemberSocket(x)
  BY <1>10, DocsRest DEF AddOwnerSocket, AddMemberSocket, AddSocket, Step, Goto, loop,
     database, Apart, TypeOK, HandlerTypes, ClientTypes
<1>11. CASE QuitMap(x)
  BY <1>11, DocsRest DEF QuitMap, Goto, database, Apart, TypeOK, HandlerTypes, ClientTypes
<1>12. CASE LockForBroadcast(x) \/ EndBroadcast(x)
  BY <1>12, DocsRest DEF LockForBroadcast, EnterBroadcast, EndBroadcast, Return, Leave,
     Goto, database, client, Apart, TypeOK, HandlerTypes
<1>13. CASE \E v \in Workers : BroadcastTo(x, v)
  BY <1>13, DocsRest DEF BroadcastTo, database, Apart
<1>14. QED
  BY <1>1, <1>2, <1>3, <1>4, <1>5, <1>6, <1>7, <1>8, <1>9, <1>10, <1>11, <1>12, <1>13
     DEF ServerStep, HandlerStep

-----------------------------------------------------------------------------
\* MembersKnown
\* What has to be shown of the worker that takes the step.
KnownOf(x) ==
  /\ synced'[x] \subseteq joined'[x]
  /\ pc'[x] = "idle" => synced'[x] = {}
  /\ pc'[x] \in {"js_update", "js_shared", "js_elements", "js_send"} =>
       request'[x].board \in joined'[x]
  /\ \A b \in Boards :
       b \in synced'[x] \/ (request'[x].board = b /\ pc'[x] = "js_send") =>
         docs[b].state # "unborn"

\* It is enough to show it of that worker.
LEMMA KnownKept ==
  ASSUME MembersKnown, NEW x \in Workers, Apart(x), DocsMove(x), KnownOf(x)
  PROVE  MembersKnown'
<1>1. SUFFICES ASSUME NEW w \in Workers
               PROVE  /\ synced'[w] \subseteq joined'[w]
                      /\ pc'[w] = "idle" => synced'[w] = {}
                      /\ pc'[w] \in {"js_update", "js_shared", "js_elements", "js_send"} =>
                           request'[w].board \in joined'[w]
                      /\ \A b \in Boards :
                           b \in synced'[w] \/ (request'[w].board = b /\ pc'[w] = "js_send")
                             => docs[b].state # "unborn"
  BY DEF MembersKnown, Joining, Board, DocsMove
<1>2. CASE w = x
  BY <1>2 DEF KnownOf
<1>3. CASE w # x
  <2>1. /\ pc'[w] = pc[w] /\ request'[w] = request[w]
        /\ joined'[w] = joined[w] /\ synced'[w] = synced[w]
    BY <1>3 DEF Apart
  <2>2. QED
    BY <2>1 DEF MembersKnown, Joining, Board
<1>4. QED
  BY <1>2, <1>3

\* Steps with the memberships of the worker as they are, away from joining.
LEMMA KnownAside ==
  ASSUME TypeOK, MembersKnown, NEW x \in Workers, UNCHANGED <<joined, synced>>,
         \E to : Goto(x, to)
                 /\ to \notin {"idle", "js_update", "js_shared", "js_elements", "js_send"}
  PROVE  KnownOf(x)
<1>1. pc'[x] \notin {"idle", "js_update", "js_shared", "js_elements", "js_send"}
  BY DEF Goto, TypeOK, HandlerTypes
<1>2. QED
  BY <1>1 DEF KnownOf, MembersKnown

\* Every step of a worker.
LEMMA KnownStep ==
  ASSUME TypeOK, MembersKnown, NEW x \in Workers, ServerStep(x)
  PROVE  MembersKnown'
<1> DEFINE Away(to) == to \notin {"idle", "js_update", "js_shared", "js_elements", "js_send"}
<1>1. CASE Disconnect(x) \/ MalformedId(x) \/ UpdateRejected(x)
  <2>1. Close(x)
    BY <1>1 DEF Disconnect, MalformedId, UpdateRejected
  <2>2. /\ synced'[x] = {} /\ joined'[x] = {} /\ pc'[x] = "idle"
    BY <2>1 DEF Close, Leave, Goto, TypeOK, HandlerTypes, ClientTypes
  <2>3. KnownOf(x)
    BY <2>2 DEF KnownOf
  <2>4. QED
    BY <2>3, StepApart, KnownKept
<1>2. CASE Accept(x) \/ AssignUserId(x) \/ InsertWhiteboard(x) \/ InsertFails(x)
  <2>1. UNCHANGED <<joined, synced>> /\ \E to : Goto(x, to) /\ Away(to)
    BY <1>2 DEF Accept, AssignUserId, InsertWhiteboard, InsertFails, Decide, Step, client
  <2>2. QED
    BY <2>1, KnownAside, StepApart, KnownKept
<1>3. ASSUME NEW r \in Request, Receive(x, r)
      PROVE  MembersKnown'
  <2>1. r.type \in {"createWhiteboard", "createSession", "joinSession",
                    "quitSession", "addElement", "modifyElement"}
    BY TypesAssumption DEF Request
  <2>2. Away(FirstStep(r))
    BY <2>1 DEF FirstStep
  <2>3. UNCHANGED <<joined, synced>> /\ Goto(x, FirstStep(r))
    BY <1>3 DEF Receive, client
  <2>4. QED
    BY <2>2, <2>3, KnownAside, StepApart, KnownKept
<1>4. CASE \/ FindOwnedBoard(x) \/ FindSharedBoard(x) \/ FindAbandonedBoard(x)
           \/ AuthorizeAdd(x) \/ AuthorizeModify(x) \/ CheckSharedForBroadcast(x)
  <2>1. UNCHANGED <<joined, synced>> /\ \E to : Goto(x, to) /\ Away(to)
    BY <1>4 DEF FindOwnedBoard, FindSharedBoard, FindAbandonedBoard, AuthorizeAdd,
       AuthorizeModify, CheckSharedForBroadcast, Decide, Step, Return, Leave, client
  <2>2. QED
    BY <2>1, KnownAside, StepApart, KnownKept
<1>5. CASE \/ SetActiveUsers(x) \/ PullActiveUser(x) \/ DeleteBoard(x)
           \/ PushElement(x) \/ ReplaceElement(x) \/ Reply(x)
  <2>1. UNCHANGED <<joined, synced>> /\ \E to : Goto(x, to) /\ Away(to)
    BY <1>5 DEF SetActiveUsers, PullActiveUser, DeleteBoard, PushElement,
       ReplaceElement, Reply, UpdateStep, Step, Leave, client
  <2>2. QED
    BY <2>1, KnownAside, StepApart, KnownKept
<1>6. CASE ReadElementsForBroadcast(x) \/ LockForBroadcast(x) \/ EndBroadcast(x)
  <2>1. UNCHANGED <<joined, synced>> /\ \E to : Goto(x, to) /\ Away(to)
    BY <1>6 DEF ReadElementsForBroadcast, ReadElements, LockForBroadcast,
       EnterBroadcast, EndBroadcast, Return, Leave, client
  <2>2. QED
    BY <2>1, KnownAside, StepApart, KnownKept
<1>7. CASE \E v \in Workers : BroadcastTo(x, v)
  <2>1. UNCHANGED <<pc, request, joined, synced>>
    BY <1>7 DEF BroadcastTo
  <2>2. KnownOf(x)
    BY <2>1 DEF KnownOf, MembersKnown, Joining, Board
  <2>3. QED
    BY <2>2, StepApart, KnownKept
<1>8. CASE AddOwnerSocket(x) \/ AddMemberSocket(x)
  <2>1. /\ joined'[x] = joined[x] \cup {Board(x)} /\ synced'[x] = synced[x]
        /\ pc'[x] \in {"cs_set", "js_update"} /\ request'[x] = request[x]
    BY <1>8 DEF AddOwnerSocket, AddMemberSocket, AddSocket, Step, Goto, TypeOK,
       HandlerTypes, ClientTypes
  <2>2. KnownOf(x)
    BY <2>1 DEF KnownOf, MembersKnown, Board
  <2>3. QED
    BY <2>2, StepApart, KnownKept
<1>9. CASE AddActiveUser(x) \/ CheckSharedForUnicast(x)
  <2>1. /\ joined'[x] = joined[x] /\ synced'[x] = synced[x] /\ request'[x] = request[x]
        /\ pc'[x] \in {"js_shared", "js_elements", "reply_success"}
        /\ pc[x] \in {"js_update", "js_shared"}
    BY <1>9 DEF AddActiveUser, CheckSharedForUnicast, UpdateStep, Decide, Step, Goto, At,
       client, TypeOK, HandlerTypes
  <2>2. KnownOf(x)
    BY <2>1 DEF KnownOf, MembersKnown, Board
  <2>3. QED
    BY <2>2, StepApart, KnownKept
<1>10. CASE ReadElementsForUnicast(x)
  <2>1. /\ joined'[x] = joined[x] /\ synced'[x] = synced[x] /\ request'[x] = request[x]
        /\ pc'[x] = "reply_success" \/ (pc'[x] = "js_send" /\ Stored(Board(x)))
        /\ pc[x] = "js_elements"
    BY <1>10 DEF ReadElementsForUnicast, ReadElements, Goto, At, client, TypeOK, HandlerTypes
  <2>2. KnownOf(x)
    BY <2>1 DEF KnownOf, MembersKnown, Board, Stored
  <2>3. QED
    BY <2>2, StepApart, KnownKept
<1>11. CASE SendUnicast(x)
  <2>1. /\ joined'[x] = joined[x] /\ synced'[x] = synced[x] \cup {Board(x)}
        /\ pc'[x] = "reply_success" /\ pc[x] = "js_send"
    BY <1>11 DEF SendUnicast, Goto, At, TypeOK, HandlerTypes, ClientTypes
  <2>2. KnownOf(x)
    BY <2>1 DEF KnownOf, MembersKnown, Joining
  <2>3. QED
    BY <2>2, StepApart, KnownKept
<1>12. CASE QuitMap(x)
  <2>1. /\ joined'[x] = joined[x] \ {Board(x)} /\ synced'[x] = synced[x] \ {Board(x)}
        /\ pc'[x] = "qs_pull"
    BY <1>12 DEF QuitMap, Goto, TypeOK, HandlerTypes, ClientTypes
  <2>2. KnownOf(x)
    BY <2>1 DEF KnownOf, MembersKnown
  <2>3. QED
    BY <2>2, StepApart, KnownKept
<1>13. QED
  BY <1>1, <1>2, <1>3, <1>4, <1>5, <1>6, <1>7, <1>8, <1>9, <1>10, <1>11, <1>12
     DEF ServerStep, HandlerStep

-----------------------------------------------------------------------------
\* Steps that send nothing

Follows == Delivery /\ Renewal /\ OneSender /\ StaleIsFollowed

Member(w, b) == b \in synced[w] \/ Joining(w, b)

\* The broadcasts that other workers are about are as they were.
Rests(x) == \A v \in Workers \ {x} : remaining'[v] = remaining[v]

\* Worker x has nothing to send, before the step or after it, and takes nothing
\* from what members were sent; it may leave boards, or lose its connection.
Settled(x) ==
  /\ Rests(x)
  /\ \A w \in Workers, b \in Boards : ~WillSend(x, w, b)
  /\ pc'[x] \notin {"js_send", "bc_lock", "bc_send"}
  /\ overlapped \subseteq overlapped'
  /\ synced'[x] \subseteq synced[x]
  /\ \A w \in Workers : w # x \/ synced'[x] # {} =>
       /\ received'[w] = received[w] /\ latest'[w] = latest[w]
       /\ w \in torn => w \in torn'

\* A board with members is as it was, or worker x will read it.
Steady(x) ==
  \A w \in Workers, b \in Boards : Member(w, b)' /\ Stored(b)' =>
    /\ Stored(b)
    /\ \/ WillRead(x, b)'
       \/ docs'[b].elements = docs[b].elements /\ ~WillRead(x, b)

\* What the other workers are about is as it was.
LEMMA OthersKept ==
  ASSUME NEW x \in Workers, Apart(x), Rests(x), NEW v \in Workers \ {x}, NEW b \in Boards
  PROVE  /\ WillRead(v, b)' <=> WillRead(v, b)
         /\ Sends(v, b)' <=> Sends(v, b)
         /\ Joining(v, b)' <=> Joining(v, b)
         /\ \A w \in Workers : WillSend(v, w, b)' <=> WillSend(v, w, b)
         /\ snapshot'[v] = snapshot[v] /\ synced'[v] = synced[v]
<1>1. /\ pc'[v] = pc[v] /\ request'[v] = request[v] /\ snapshot'[v] = snapshot[v]
      /\ synced'[v] = synced[v] /\ remaining'[v] = remaining[v]
  BY DEF Apart, Rests
<1>2. QED
  BY <1>1 DEF WillRead, WillSend, Changes, Sends, Joining, Board

\* Whatever is on its way still is, or worker x, which takes the step, sees to it.
Brought(x) ==
  \A w \in Workers, b \in Boards, e \in Elements : Lacks(w, b, e)' =>
    \/ Brings(x, w, b, e)'
    \/ Lacks(w, b, e) /\ (Brings(x, w, b, e) => Brings(x, w, b, e)')

Renewed(x) ==
  \A w \in Workers, b \in Boards : Behind(w, b)' =>
    \/ Renews(x, w, b)'
    \/ /\ Behind(w, b) /\ docs'[b].elements = docs[b].elements
       /\ Renews(x, w, b) => Renews(x, w, b)'
    \/ /\ \E u \in Workers : WillRead(u, b)
       /\ WillRead(x, b) => WillRead(x, b)'

SendsAlone(x) ==
  \A b \in Boards \ overlapped' :
    /\ b \notin overlapped
    /\ Sends(x, b)' => Sends(x, b) \/ \A u \in Workers \ {x} : ~Sends(u, b)

StaysFollowed(x) ==
  \A b \in Boards, v, w \in Workers : Stale(v, w, b)' =>
    \/ WillRead(x, b)'
    \/ /\ \E u, m \in Workers : Stale(u, m, b)
       /\ WillRead(x, b) => WillRead(x, b)'

\* A step that sees to all four keeps what is on its way.
LEMMA FollowsKept ==
  ASSUME NEW x \in Workers, Apart(x), Rests(x), Follows,
         Brought(x), Renewed(x), SendsAlone(x), StaysFollowed(x)
  PROVE  Follows'
<1>1. ASSUME NEW b \in Boards, WillRead(x, b) => WillRead(x, b)',
             \E u \in Workers : WillRead(u, b)
      PROVE  \E u \in Workers : WillRead(u, b)'
  BY <1>1, OthersKept
<1>2. ASSUME NEW w \in Workers, NEW b \in Boards, NEW e \in Elements, Lacks(w, b, e)'
      PROVE  \E v \in Workers : Brings(v, w, b, e)'
  <2>1. CASE Lacks(w, b, e) /\ (Brings(x, w, b, e) => Brings(x, w, b, e)')
    <3>1. PICK v \in Workers : Brings(v, w, b, e)
      BY <2>1 DEF Follows, Delivery
    <3>2. Brings(v, w, b, e)'
      BY <2>1, <3>1, OthersKept DEF Brings
    <3>3. QED
      BY <3>2
  <2>2. QED
    BY <1>2, <2>1 DEF Brought
<1>3. ASSUME NEW w \in Workers, NEW b \in Boards, Behind(w, b)'
      PROVE  \E v \in Workers : Renews(v, w, b)'
  <2>1. CASE /\ Behind(w, b) /\ docs'[b].elements = docs[b].elements
             /\ Renews(x, w, b) => Renews(x, w, b)'
    <3>1. PICK v \in Workers : Renews(v, w, b)
      BY <2>1 DEF Follows, Renewal
    <3>2. Renews(v, w, b)'
      BY <2>1, <3>1, OthersKept DEF Renews
    <3>3. QED
      BY <3>2
  <2>2. CASE /\ \E u \in Workers : WillRead(u, b)
             /\ WillRead(x, b) => WillRead(x, b)'
    BY <1>1, <2>2 DEF Renews
  <2>3. QED
    BY <1>3, <2>1, <2>2 DEF Renewed
<1>4. ASSUME NEW b \in Boards, b \notin overlapped', NEW v \in Workers, NEW u \in Workers,
             Sends(v, b)', Sends(u, b)'
      PROVE  v = u
  BY <1>4, OthersKept DEF SendsAlone, Follows, OneSender
<1>5. ASSUME NEW b \in Boards, NEW v \in Workers, NEW w \in Workers, Stale(v, w, b)'
      PROVE  \E u \in Workers : WillRead(u, b)'
  BY <1>1, <1>5 DEF StaysFollowed, Follows, StaleIsFollowed
<1>6. Delivery'
  BY <1>2 DEF Delivery
<1>7. Renewal'
  BY <1>3 DEF Renewal
<1>8. OneSender'
  BY <1>4 DEF OneSender
<1>9. StaleIsFollowed'
  BY <1>5 DEF StaleIsFollowed
<1>10. QED
  BY <1>6, <1>7, <1>8, <1>9 DEF Follows

\* Such a step leaves the members of a board as they were.
LEMMA SettledMembers ==
  ASSUME NEW x \in Workers, Apart(x), Settled(x), NEW w \in Workers, NEW b \in Boards,
         Member(w, b)'
  PROVE  /\ Member(w, b)
         /\ b \in synced'[w] => b \in synced[w]
         /\ Joining(w, b)' => Joining(w, b) /\ snapshot'[w] = snapshot[w]
         /\ received'[w] = received[w] /\ latest'[w] = latest[w]
         /\ w \in torn => w \in torn'
<1>1. CASE w = x
  <2>1. ~Joining(x, b)' /\ b \in synced'[x]
    BY <1>1 DEF Settled, Joining, Member
  <2>2. QED
    BY <1>1, <2>1 DEF Settled, Member
<1>2. CASE w # x
  BY <1>2, OthersKept DEF Settled, Member, Rests
<1>3. QED
  BY <1>1, <1>2

\* A step that sends nothing sees to all four.
LEMMA QuietFollows ==
  ASSUME NEW x \in Workers, Apart(x), Settled(x), Steady(x), Follows
  PROVE  Follows'
<1>0. Rests(x)
  BY DEF Settled
<1>1. ASSUME NEW w \in Workers, NEW b \in Boards, Member(w, b)' /\ Stored(b)'
      PROVE  \/ WillRead(x, b)'
             \/ /\ Stored(b) /\ docs'[b].elements = docs[b].elements
                /\ \A u \in Workers : ~WillSend(x, u, b) /\ ~WillRead(x, b)
  BY <1>1 DEF Steady, Settled
<1>2. Brought(x)
  <2>1. SUFFICES ASSUME NEW w \in Workers, NEW b \in Boards, NEW e \in Elements,
                        Lacks(w, b, e)', ~WillRead(x, b)'
                 PROVE  Lacks(w, b, e) /\ ~Brings(x, w, b, e)
    BY DEF Brought, Brings
  <2>2. Member(w, b)' /\ Stored(b)'
    BY <2>1 DEF Lacks, Member
  <2>3. QED
    BY <1>1, <2>1, <2>2, SettledMembers DEF Lacks, Brings
<1>3. Renewed(x)
  <2>1. SUFFICES ASSUME NEW w \in Workers, NEW b \in Boards,
                        Behind(w, b)', ~WillRead(x, b)'
                 PROVE  /\ Behind(w, b) /\ docs'[b].elements = docs[b].elements
                        /\ ~Renews(x, w, b)
    BY DEF Renewed, Renews
  <2>2. Member(w, b)' /\ Stored(b)'
    BY <2>1 DEF Behind, Member
  <2>3. b \notin overlapped
    BY <2>1 DEF Behind, Settled
  <2>4. QED
    BY <1>1, <2>1, <2>2, <2>3, SettledMembers DEF Behind, Renews
<1>4. \A b \in Boards : ~Sends(x, b)'
  BY DEF Settled, Sends
<1>5. SendsAlone(x)
  BY <1>4 DEF SendsAlone, Settled
<1>6. StaysFollowed(x)
  <2>1. SUFFICES ASSUME NEW b \in Boards, NEW v \in Workers, NEW w \in Workers,
                        Stale(v, w, b)', ~WillRead(x, b)'
                 PROVE  Stale(v, w, b) /\ ~WillRead(x, b)
    BY DEF StaysFollowed
  <2>2. Member(w, b)' /\ Stored(b)' /\ v # x
    BY <1>4, <2>1 DEF Stale, Member
  <2>3. Sends(v, b) /\ snapshot'[v] = snapshot[v]
    BY <1>0, <2>1, <2>2, OthersKept DEF Stale
  <2>4. b \notin overlapped /\ Member(w, b)
    BY <2>1, <2>2, SettledMembers DEF Stale, Settled
  <2>5. QED
    BY <1>1, <2>1, <2>2, <2>3, <2>4 DEF Stale, Member
<1>7. QED
  BY <1>0, <1>2, <1>3, <1>5, <1>6, FollowsKept

\* Members have boards that the step finds in the database.
LEMMA SteadyBoards ==
  ASSUME MembersKnown, NEW x \in Workers, Apart(x), DocsMove(x), Settled(x),
         NEW w \in Workers, NEW b \in Boards, Member(w, b)', Stored(b)'
  PROVE  /\ Stored(b)
         /\ \/ docs'[b].elements = docs[b].elements
            \/ b = Board(x) /\ pc[x] \in {"ae_push", "me_update"}
<1>1. Member(w, b)
  BY SettledMembers
<1>2. docs[b].state # "unborn"
  BY <1>1 DEF MembersKnown, Member
<1>3. QED
  BY <1>2 DEF DocsMove

\* Away from the steps that change a board or follow a change, all is steady.
LEMMA SteadyAside ==
  ASSUME MembersKnown, NEW x \in Workers, Apart(x), DocsMove(x), Settled(x),
         pc[x] \notin {"ae_push", "me_update", "reply_success", "bc_check", "bc_find"}
  PROVE  Steady(x)
<1>1. \A b \in Boards : ~WillRead(x, b)
  BY DEF WillRead
<1>2. QED
  BY <1>1, SteadyBoards DEF Steady

\* A step away from sending, with the members as they are.
LEMMA SettledAside ==
  ASSUME TypeOK, NEW x \in Workers,
         UNCHANGED <<synced, received, latest, overlapped>>, torn \subseteq torn',
         Rests(x),
         pc[x] \notin {"bc_lock", "bc_send"},
         \E to : Goto(x, to) /\ to \notin {"js_send", "bc_lock", "bc_send"}
  PROVE  Settled(x)
<1>1. pc'[x] \notin {"js_send", "bc_lock", "bc_send"}
  BY DEF Goto, TypeOK, HandlerTypes
<1>2. \A w \in Workers, b \in Boards : ~WillSend(x, w, b)
  BY DEF WillSend
<1>3. QED
  BY <1>1, <1>2 DEF Settled

\* A connection that closes away from sending.
LEMMA CloseSettled ==
  ASSUME TypeOK, NEW x \in Workers, Close(x), pc[x] \notin {"bc_lock", "bc_send"}
  PROVE  Settled(x)
<1>1. /\ pc'[x] = "idle" /\ synced'[x] = {}
      /\ Rests(x)
  BY DEF Close, Leave, Goto, TypeOK, HandlerTypes, ClientTypes, Rests
<1>2. \A w \in Workers \ {x} : received'[w] = received[w] /\ latest'[w] = latest[w]
  BY DEF Close, TypeOK, ClientTypes
<1>3. overlapped' = overlapped /\ \A w \in Workers \ {x} : w \in torn => w \in torn'
  BY DEF Close
<1>4. \A w \in Workers, b \in Boards : ~WillSend(x, w, b)
  BY DEF WillSend
<1>5. QED
  BY <1>1, <1>2, <1>3, <1>4 DEF Settled

\* The steps that send nothing and change no board.
AsideStep(x) ==
  \/ Accept(x) \/ Disconnect(x) \/ \E r \in Request : Receive(x, r)
  \/ MalformedId(x) \/ AssignUserId(x)
  \/ InsertWhiteboard(x) \/ InsertFails(x)
  \/ FindOwnedBoard(x) \/ AddOwnerSocket(x) \/ SetActiveUsers(x)
  \/ FindSharedBoard(x) \/ AddMemberSocket(x) \/ AddActiveUser(x)
  \/ CheckSharedForUnicast(x)
  \/ QuitMap(x) \/ PullActiveUser(x) \/ FindAbandonedBoard(x) \/ DeleteBoard(x)
  \/ AuthorizeAdd(x) \/ AuthorizeModify(x) \/ EndBroadcast(x)

\* They are quiet, with the map in order.
LEMMA AsideQuiet ==
  ASSUME TypeOK, MembersKnown, ~corrupt', NEW x \in Workers, AsideStep(x)
  PROVE  Settled(x) /\ Steady(x)
<1> DEFINE Away(to)   == to \notin {"js_send", "bc_lock", "bc_send"}
           Silent(at) == at \notin {"ae_push", "me_update", "reply_success",
                                    "bc_check", "bc_find"}
<1>0. ServerStep(x)
  BY DEF AsideStep, ServerStep, HandlerStep
<1>1. Apart(x) /\ DocsMove(x)
  BY <1>0, StepApart
<1>2. ASSUME Settled(x), Silent(pc[x])
      PROVE  Settled(x) /\ Steady(x)
  BY <1>1, <1>2, SteadyAside
<1>3. ASSUME UNCHANGED <<synced, received, latest, overlapped>>, torn \subseteq torn',
             Rests(x), Silent(pc[x]), pc[x] \notin {"bc_lock", "bc_send"},
             \E to : Goto(x, to) /\ Away(to)
      PROVE  Settled(x) /\ Steady(x)
  BY <1>2, <1>3, SettledAside
<1>4. CASE Disconnect(x) \/ MalformedId(x)
  <2>1. Close(x) /\ Silent(pc[x]) /\ pc[x] \notin {"bc_lock", "bc_send"}
    BY <1>4 DEF Disconnect, MalformedId, At
  <2>2. QED
    BY <1>2, <2>1, CloseSettled
<1>5. CASE Accept(x) \/ InsertFails(x) \/ FindOwnedBoard(x) \/ FindSharedBoard(x)
           \/ CheckSharedForUnicast(x) \/ FindAbandonedBoard(x) \/ AuthorizeAdd(x)
  <2>1. UNCHANGED client /\ UNCHANGED remaining /\ \E to : Goto(x, to) /\ Away(to)
    BY <1>5 DEF Accept, InsertFails, FindOwnedBoard, FindSharedBoard,
       CheckSharedForUnicast, FindAbandonedBoard, AuthorizeAdd, Decide, Step, loop
  <2>2. Silent(pc[x]) /\ pc[x] \notin {"bc_lock", "bc_send"}
    BY <1>5 DEF Accept, InsertFails, FindOwnedBoard, FindSharedBoard,
       CheckSharedForUnicast, FindAbandonedBoard, AuthorizeAdd, Decide, Step, At
  <2>3. QED
    BY <1>3, <2>1, <2>2 DEF client, Rests
<1>6. ASSUME NEW r \in Request, Receive(x, r)
      PROVE  Settled(x) /\ Steady(x)
  <2>1. r.type \in {"createWhiteboard", "createSession", "joinSession",
                    "quitSession", "addElement", "modifyElement"}
    BY TypesAssumption DEF Request
  <2>2. Away(FirstStep(r))
    BY <2>1 DEF FirstStep
  <2>3. /\ UNCHANGED client /\ UNCHANGED remaining /\ Goto(x, FirstStep(r))
        /\ pc[x] = "read"
    BY <1>6 DEF Receive, At, loop
  <2>4. QED
    BY <1>3, <2>2, <2>3 DEF client, Rests
<1>7. CASE AssignUserId(x) \/ InsertWhiteboard(x)
  <2>1. /\ UNCHANGED <<synced, received, latest, overlapped, remaining>>
        /\ torn \subseteq torn'
        /\ \E to : Goto(x, to) /\ Away(to)
    BY <1>7 DEF AssignUserId, InsertWhiteboard, Tear, Step, client, loop
  <2>2. pc[x] \in {"assign", "cw_insert"}
    BY <1>7 DEF AssignUserId, InsertWhiteboard, Step, At
  <2>3. QED
    BY <1>3, <2>1, <2>2 DEF Rests
<1>8. CASE AddOwnerSocket(x) \/ AddMemberSocket(x)
  <2>1. /\ UNCHANGED <<synced, received, latest, torn, overlapped, remaining>>
        /\ \E to : Goto(x, to) /\ Away(to)
    BY <1>8 DEF AddOwnerSocket, AddMemberSocket, AddSocket, Step, loop
  <2>2. pc[x] \in {"cs_add", "js_add"}
    BY <1>8 DEF AddOwnerSocket, AddMemberSocket, Step, At
  <2>3. QED
    BY <1>3, <2>1, <2>2 DEF Rests
<1>9. CASE SetActiveUsers(x) \/ AddActiveUser(x) \/ PullActiveUser(x) \/ DeleteBoard(x)
  <2>1. UNCHANGED client /\ UNCHANGED remaining /\ \E to : Goto(x, to) /\ Away(to)
    BY <1>9 DEF SetActiveUsers, AddActiveUser, PullActiveUser, DeleteBoard, UpdateStep,
       Step, loop
  <2>2. pc[x] \in {"cs_set", "js_update", "qs_pull", "qs_delete"}
    BY <1>9 DEF SetActiveUsers, AddActiveUser, PullActiveUser, DeleteBoard, UpdateStep,
       Step, At
  <2>3. QED
    BY <1>3, <2>1, <2>2 DEF client, Rests
<1>10. CASE QuitMap(x)
  <2>1. Rests(x)
    BY <1>10 DEF QuitMap, RemoveSocket, RaceOnMap, Rests
  <2>2. /\ pc'[x] = "qs_pull" /\ pc[x] = "qs_remove"
        /\ synced'[x] = synced[x] \ {Board(x)}
        /\ UNCHANGED <<received, latest, torn, overlapped>>
    BY <1>10 DEF QuitMap, Goto, At, TypeOK, HandlerTypes, ClientTypes
  <2>3. Settled(x)
    BY <2>1, <2>2 DEF Settled, WillSend
  <2>4. QED
    BY <1>2, <2>2, <2>3
<1>11. CASE AuthorizeModify(x)
  <2>1. UNCHANGED client
    BY <1>11 DEF AuthorizeModify, Decide
  <2>2. \E to \in {"me_update", "reply_failure", "read"} : Goto(x, to)
    BY <1>11 DEF AuthorizeModify, Decide, Step, Return, Leave
  <2>3. UNCHANGED remaining \/ remaining' = [remaining EXCEPT ![x] = {}]
    BY <1>11 DEF AuthorizeModify, Decide, Step, Return, Leave, loop
  <2>4. Rests(x)
    BY <2>3 DEF Rests, TypeOK, HandlerTypes
  <2>5. pc[x] = "me_find"
    BY <1>11 DEF AuthorizeModify, Decide, Step, At
  <2>6. QED
    BY <1>3, <2>1, <2>2, <2>4, <2>5 DEF client
<1>12. CASE EndBroadcast(x)
  <2>1. /\ UNCHANGED client /\ Rests(x) /\ pc'[x] = "read"
        /\ pc[x] = "bc_send" /\ remaining[x] = {}
    BY <1>12 DEF EndBroadcast, Return, Leave, Goto, At, TypeOK, HandlerTypes, Rests
  <2>2. Settled(x)
    BY <2>1 DEF Settled, WillSend, client
  <2>3. QED
    BY <1>2, <2>1, <2>2
<1>13. QED
  BY <1>4, <1>5, <1>6, <1>7, <1>8, <1>9, <1>10, <1>11, <1>12 DEF AsideStep

\* The steps that change a board: whoever takes one will read the board.
LEMMA ChangeQuiet ==
  ASSUME TypeOK, MembersKnown, NEW x \in Workers,
         PushElement(x) \/ ReplaceElement(x) \/ UpdateRejected(x)
  PROVE  Settled(x) /\ Steady(x)
<1>1. Apart(x) /\ DocsMove(x)
  BY StepApart DEF ServerStep, HandlerStep
<1>2. CASE PushElement(x) \/ ReplaceElement(x)
  <2>1. /\ UNCHANGED <<client, remaining, request>>
        /\ pc[x] \in {"ae_push", "me_update"} /\ Goto(x, "reply_success")
    BY <1>2 DEF PushElement, ReplaceElement, UpdateStep, Step, At, loop
  <2>2. Settled(x)
    BY <2>1, SettledAside DEF client, Rests
  <2>3. WillRead(x, Board(x))'
    <3>1. pc'[x] = "reply_success"
      BY <2>1 DEF Goto, TypeOK, HandlerTypes
    <3>2. request[x].type \in {"addElement", "modifyElement"}
      BY <2>1 DEF TypeOK, RequestFits, Fits
    <3>3. QED
      BY <2>1, <3>1, <3>2 DEF WillRead, Changes, Board
  <2>4. \A b \in Boards : ~WillRead(x, b)
    BY <2>1 DEF WillRead
  <2>5. Board(x)' = Board(x)
    BY <2>1 DEF Board
  <2>6. ASSUME NEW w \in Workers, NEW b \in Boards, Member(w, b)', Stored(b)'
        PROVE  /\ Stored(b)
               /\ \/ WillRead(x, b)'
                  \/ docs'[b].elements = docs[b].elements /\ ~WillRead(x, b)
    <3>1. /\ Stored(b)
          /\ docs'[b].elements = docs[b].elements \/ b = Board(x)
      BY <1>1, <2>2, <2>6, SteadyBoards
    <3>2. CASE b = Board(x)
      BY <2>3, <2>5, <3>1, <3>2 DEF WillRead, Changes
    <3>3. QED
      BY <2>4, <3>1, <3>2
  <2>7. QED
    BY <2>2, <2>6 DEF Steady
<1>3. CASE UpdateRejected(x)
  <2>1. Close(x) /\ pc[x] = "me_update" /\ UNCHANGED docs
    BY <1>3 DEF UpdateRejected, At, Close, database
  <2>2. Settled(x)
    BY <2>1, CloseSettled
  <2>3. QED
    BY <2>1, <2>2 DEF Steady, Stored, WillRead
<1>4. QED
  BY <1>2, <1>3

\* The steps of a worker on its way to reading the board it changed: it goes on,
\* unless the board has no members or is gone.
LEMMA BroadcastQuiet ==
  ASSUME TypeOK, MembersKnown, MemberRegistered, ~corrupt, NEW x \in Workers,
         \/ Reply(x) \/ CheckSharedForBroadcast(x)
         \/ ReadElementsForBroadcast(x) /\ ~ReadElements(x)
         \/ ReadElementsForUnicast(x) /\ ~ReadElements(x)
  PROVE  Settled(x) /\ Steady(x)
<1>1. Apart(x) /\ DocsMove(x)
  BY StepApart DEF ServerStep, HandlerStep
<1>2. CASE Reply(x)
  <2>1. /\ UNCHANGED <<docs, synced, received, latest, overlapped>> /\ torn \subseteq torn'
    BY <1>2 DEF Reply, Tear, database
  <2>0. /\ Rests(x)
        /\ Goto(x, "bc_check") \/ Goto(x, "read")
    BY <1>2 DEF Reply, Leave, loop, TypeOK, HandlerTypes, Rests
  <2>2. pc[x] \in {"reply_success", "reply_failure"}
    BY <1>2 DEF Reply
  <2>3. Settled(x)
    BY <2>0, <2>1, <2>2, SettledAside
  <2>4. ASSUME NEW b \in Boards, WillRead(x, b)
        PROVE  WillRead(x, b)'
    <3>1. BroadcastsAfterReply(x)
      BY <2>2, <2>4 DEF WillRead, Changes, BroadcastsAfterReply, At
    <3>2. pc'[x] = "bc_check" /\ request' = request
      BY <1>2, <3>1 DEF Reply, Goto, TypeOK, HandlerTypes
    <3>3. QED
      BY <2>4, <3>2 DEF WillRead, Changes, Board
  <2>5. QED
    BY <2>1, <2>3, <2>4 DEF Steady, Stored
<1>3. CASE CheckSharedForBroadcast(x)
  <2>1. /\ UNCHANGED <<docs, client>> /\ Rests(x)
        /\ \E to : Goto(x, to) /\ to \notin {"js_send", "bc_lock", "bc_send"}
        /\ pc[x] = "bc_check"
    BY <1>3, SMTT(30) DEF CheckSharedForBroadcast, Decide, Step, Return, Leave, At, loop, database,
       TypeOK, HandlerTypes, Rests
  <2>2. Settled(x)
    BY <2>1, SettledAside DEF client
  <2>3. ASSUME NEW w \in Workers, NEW b \in Boards, Member(w, b)', WillRead(x, b)
        PROVE  WillRead(x, b)'
    <3>1. Member(w, b)
      BY <1>1, <2>2, <2>3, SettledMembers
    <3>2. b \in joined[w]
      BY <3>1 DEF Member, MembersKnown, Joining
    <3>3. IsWhiteboardShared(Board(x))
      BY <2>3, <3>2 DEF MemberRegistered, IsWhiteboardShared, WillRead, Changes
    <3>4. pc'[x] = "bc_find" /\ request' = request
      BY <1>3, <3>3 DEF CheckSharedForBroadcast, Decide, Step, Goto, TypeOK, HandlerTypes
    <3>5. QED
      BY <2>3, <3>4 DEF WillRead, Changes, Board
  <2>4. QED
    BY <2>1, <2>2, <2>3 DEF Steady, Stored
<1>4. CASE ReadElementsForBroadcast(x) /\ ~ReadElements(x)
  <2>1. /\ UNCHANGED <<docs, client>> /\ Rests(x) /\ Goto(x, "read")
        /\ pc[x] = "bc_find" /\ ~Stored(Board(x))
    BY <1>4 DEF ReadElementsForBroadcast, Return, Leave, At, database, TypeOK,
       HandlerTypes, Rests
  <2>2. Settled(x)
    BY <2>1, SettledAside DEF client
  <2>3. QED
    BY <2>1, <2>2 DEF Steady, Stored, WillRead, Changes
<1>5. CASE ReadElementsForUnicast(x) /\ ~ReadElements(x)
  <2>1. /\ UNCHANGED <<docs, client>> /\ Rests(x) /\ Goto(x, "reply_success")
        /\ pc[x] = "js_elements"
    BY <1>5 DEF ReadElementsForUnicast, At, database, Rests
  <2>2. Settled(x)
    BY <2>1, SettledAside DEF client
  <2>3. QED
    BY <1>1, <2>1, <2>2, SteadyAside
<1>6. QED
  BY <1>2, <1>3, <1>4, <1>5

-----------------------------------------------------------------------------
\* Steps that read or send what a board has

\* A member that joins reads the board as it is.
LEMMA UnicastReadFollows ==
  ASSUME TypeOK, NEW x \in Workers, ReadElementsForUnicast(x), ReadElements(x), Follows
  PROVE  Follows'
<1>0. Apart(x)
  BY StepApart DEF ServerStep, HandlerStep
<1>1. /\ pc[x] = "js_elements" /\ pc'[x] = "js_send"
      /\ UNCHANGED <<request, remaining, docs, synced, received, latest, torn>>
      /\ snapshot'[x] = docs[Board(x)].elements /\ Stored(Board(x))
  BY DEF ReadElementsForUnicast, ReadElements, Stored, Goto, At, database, TypeOK,
     HandlerTypes
<1>2. /\ overlapped \subseteq overlapped'
      /\ (\E v \in Workers \ {x} : Sends(v, Board(x))) => Board(x) \in overlapped'
  BY DEF ReadElements
<1>3. Rests(x)
  BY <1>1 DEF Rests
<1>4. /\ Board(x)' = Board(x)
      /\ \A b \in Boards : /\ Stored(b)' <=> Stored(b)
                           /\ ~WillRead(x, b) /\ ~Sends(x, b)
                           /\ Sends(x, b)' => b = Board(x)
                           /\ Joining(x, b)' => b = Board(x)
                           /\ \A w \in Workers : ~WillSend(x, w, b)
  BY <1>1 DEF Board, Stored, WillRead, WillSend, Sends, Joining
<1>5. Brought(x)
  <2>1. SUFFICES ASSUME NEW w \in Workers, NEW b \in Boards, NEW e \in Elements,
                        Lacks(w, b, e)'
                 PROVE  Lacks(w, b, e)
    BY <1>4 DEF Brought, Brings
  <2>2. Joining(w, b)' /\ w = x => e \in snapshot'[w]
    BY <1>1, <1>4, <2>1 DEF Lacks
  <2>3. Joining(w, b)' /\ w # x => Joining(w, b) /\ snapshot'[w] = snapshot[w]
    BY <1>0, <1>3, OthersKept
  <2>4. QED
    BY <1>1, <1>4, <2>1, <2>2, <2>3 DEF Lacks
<1>6. Renewed(x)
  BY <1>1, <1>2, <1>4 DEF Renewed, Renews, Behind
<1>7. SendsAlone(x)
  BY <1>2, <1>4 DEF SendsAlone
<1>8. StaysFollowed(x)
  <2>1. SUFFICES ASSUME NEW b \in Boards, NEW v \in Workers, NEW w \in Workers,
                        Stale(v, w, b)'
                 PROVE  Stale(v, w, b)
    BY <1>4 DEF StaysFollowed
  <2>2. v # x
    BY <1>1, <1>4, <2>1 DEF Stale
  <2>3. Sends(v, b) /\ snapshot'[v] = snapshot[v]
    BY <1>0, <1>3, <2>1, <2>2, OthersKept DEF Stale
  <2>4. b # Board(x) /\ b \notin overlapped
    BY <1>2, <2>1, <2>2, <2>3 DEF Stale
  <2>5. Joining(w, b)' => Joining(w, b)
    BY <1>0, <1>3, <1>4, <2>4, OthersKept
  <2>6. QED
    BY <1>1, <1>4, <2>1, <2>3, <2>4, <2>5 DEF Stale
<1>9. QED
  BY <1>0, <1>3, <1>5, <1>6, <1>7, <1>8, FollowsKept

\* What a member is sent on joining is the board, or a broadcast follows.
LEMMA UnicastFollows ==
  ASSUME TypeOK, NEW x \in Workers, SendUnicast(x), Follows
  PROVE  Follows'
<1> DEFINE b0 == Board(x)
<1>0. Apart(x) /\ b0 \in Boards
  BY StepApart DEF ServerStep, HandlerStep, SendUnicast, At, TypeOK, RequestFits, Fits,
     BoardSteps, Board
<1>1. /\ pc[x] = "js_send" /\ pc'[x] = "reply_success"
      /\ UNCHANGED <<request, snapshot, remaining, docs, overlapped>>
      /\ synced' = [synced EXCEPT ![x] = @ \cup {b0}]
  BY DEF SendUnicast, Goto, At, loop, database, TypeOK, HandlerTypes
<1>2. \A w \in Workers : w \notin torn' => w \notin torn
  BY DEF SendUnicast, Tear
<1>3. \A w \in Workers \ {x} : received'[w] = received[w] /\ latest'[w] = latest[w]
  BY DEF SendUnicast, Deliver, DeliverNothing, TypeOK, ClientTypes
<1>4. x \notin torn' =>
        /\ received'[x][b0] = received[x][b0] \cup snapshot[x]
        /\ latest'[x][b0] = snapshot[x]
        /\ \A b \in Boards \ {b0} :
             received'[x][b] = received[x][b] /\ latest'[x][b] = latest[x][b]
  <2>1. SUFFICES ASSUME x \notin torn'
                 PROVE  Deliver(x, b0, snapshot[x])
    BY <1>0 DEF Deliver, TypeOK, ClientTypes
  <2>2. ~Tearing(x)
    BY <2>1 DEF SendUnicast, Tear
  <2>3. QED
    BY <2>2 DEF SendUnicast
<1>5. Rests(x)
  BY <1>1 DEF Rests
<1>6. \A b \in Boards : /\ Stored(b)' <=> Stored(b)
                        /\ ~WillRead(x, b) /\ ~Sends(x, b)' /\ ~Joining(x, b)'
                        /\ \A w \in Workers : ~WillSend(x, w, b)
  BY <1>1 DEF Stored, WillRead, WillSend, Sends, Joining
<1>7. Joining(x, b0) /\ Sends(x, b0)
  BY <1>1 DEF Joining, Sends
<1>8. /\ \A w \in Workers \ {x} : synced'[w] = synced[w]
      /\ \A b \in Boards \ {b0} : b \in synced'[x] => b \in synced[x]
  BY <1>1 DEF TypeOK, ClientTypes
<1>9. Brought(x)
  <2>1. SUFFICES ASSUME NEW w \in Workers, NEW b \in Boards, NEW e \in Elements,
                        Lacks(w, b, e)'
                 PROVE  Lacks(w, b, e)
    BY <1>6 DEF Brought, Brings
  <2>2. CASE w # x
    <3>1. Joining(w, b)' => Joining(w, b)
      BY <1>0, <1>5, <2>2, OthersKept
    <3>2. QED
      BY <1>1, <1>2, <1>3, <1>6, <1>8, <2>1, <2>2, <3>1 DEF Lacks
  <2>3. CASE w = x /\ b = b0
    BY <1>1, <1>2, <1>4, <1>6, <1>7, <2>1, <2>3 DEF Lacks
  <2>4. CASE w = x /\ b # b0
    BY <1>1, <1>2, <1>4, <1>6, <1>8, <2>1, <2>4 DEF Lacks
  <2>5. QED
    BY <2>2, <2>3, <2>4
<1>10. Renewed(x)
  <2>1. SUFFICES ASSUME NEW w \in Workers, NEW b \in Boards, Behind(w, b)'
                 PROVE  Behind(w, b) \/ \E u \in Workers : WillRead(u, b)
    BY <1>1, <1>6 DEF Renewed, Renews
  <2>2. CASE w # x
    BY <1>1, <1>2, <1>3, <1>6, <1>8, <2>1, <2>2 DEF Behind
  <2>3. CASE w = x /\ b = b0
    <3>1. Stale(x, x, b0)
      BY <1>1, <1>4, <1>6, <1>7, <2>1, <2>3 DEF Behind, Stale
    <3>2. QED
      BY <1>0, <2>3, <3>1 DEF Follows, StaleIsFollowed
  <2>4. CASE w = x /\ b # b0
    BY <1>1, <1>2, <1>4, <1>6, <1>8, <2>1, <2>4 DEF Behind
  <2>5. QED
    BY <2>2, <2>3, <2>4
<1>11. SendsAlone(x)
  BY <1>1, <1>6 DEF SendsAlone
<1>12. StaysFollowed(x)
  <2>1. SUFFICES ASSUME NEW b \in Boards, NEW v \in Workers, NEW w \in Workers,
                        Stale(v, w, b)'
                 PROVE  Stale(v, w, b)
    BY <1>6 DEF StaysFollowed
  <2>2. v # x
    BY <1>6, <2>1 DEF Stale
  <2>3. Sends(v, b)
    BY <1>0, <1>5, <2>1, <2>2, OthersKept DEF Stale
  <2>4. b \in synced[w] \/ Joining(w, b)
    <3>1. CASE w # x
      BY <1>0, <1>5, <1>8, <2>1, <3>1, OthersKept DEF Stale
    <3>2. CASE w = x
      BY <1>6, <1>7, <1>8, <2>1, <3>2 DEF Stale
    <3>3. QED
      BY <3>1, <3>2
  <2>5. QED
    BY <1>1, <1>6, <2>1, <2>3, <2>4 DEF Stale
<1>13. QED
  BY <1>0, <1>5, <1>9, <1>10, <1>11, <1>12, FollowsKept

\* A broadcast reads the board as it is, for all its members.
LEMMA BroadcastReadFollows ==
  ASSUME TypeOK, NEW x \in Workers, ReadElementsForBroadcast(x), ReadElements(x), Follows
  PROVE  Follows'
<1> DEFINE b0 == Board(x)
<1>0. Apart(x)
  BY StepApart DEF ServerStep, HandlerStep
<1>1. /\ pc[x] = "bc_find" /\ pc'[x] = "bc_lock"
      /\ UNCHANGED <<request, docs, synced, received, latest, torn>>
      /\ snapshot'[x] = docs[b0].elements /\ Stored(b0)
  BY DEF ReadElementsForBroadcast, ReadElements, Stored, Goto, At, database, TypeOK,
     HandlerTypes
<1>2. /\ overlapped \subseteq overlapped'
      /\ (\E v \in Workers \ {x} : Sends(v, b0)) => b0 \in overlapped'
  BY DEF ReadElements
<1>3. Rests(x)
  BY <1>1 DEF ReadElementsForBroadcast, Rests
<1>4. Changes(x, b0) /\ Changes(x, b0)' /\ Board(x)' = b0
  BY <1>1 DEF Changes, Board, TypeOK, RequestFits, Fits, BroadcastSteps
<1>5. \A b \in Boards : /\ Stored(b)' <=> Stored(b)
                        /\ Sends(x, b)' => b = b0
                        /\ WillRead(x, b) => b = b0
                        /\ ~Joining(x, b) /\ ~Joining(x, b)'
                        /\ \A w \in Workers : ~WillSend(x, w, b)
  BY <1>1, <1>4 DEF Stored, WillRead, WillSend, Changes, Sends, Joining
<1>6. \A w \in Workers, b \in Boards : b = b0 => WillSend(x, w, b)'
  BY <1>1, <1>4 DEF WillSend, Changes
<1>7. \A w \in Workers, b \in Boards :
        Joining(w, b)' => Joining(w, b) /\ snapshot'[w] = snapshot[w]
  BY <1>0, <1>3, <1>5, OthersKept
<1>8. Brought(x)
  <2>1. SUFFICES ASSUME NEW w \in Workers, NEW b \in Boards, NEW e \in Elements,
                        Lacks(w, b, e)'
                 PROVE  \/ Brings(x, w, b, e)'
                        \/ Lacks(w, b, e) /\ ~Brings(x, w, b, e)
    BY DEF Brought
  <2>2. CASE b = b0
    <3>1. e \in snapshot'[x]
      BY <1>1, <2>1, <2>2 DEF Lacks
    <3>2. QED
      BY <1>6, <2>2, <3>1 DEF Brings
  <2>3. CASE b # b0
    BY <1>1, <1>5, <1>7, <2>1, <2>3 DEF Lacks, Brings
  <2>4. QED
    BY <2>2, <2>3
<1>9. Renewed(x)
  <2>1. SUFFICES ASSUME NEW w \in Workers, NEW b \in Boards, Behind(w, b)'
                 PROVE  \/ Renews(x, w, b)'
                        \/ /\ Behind(w, b) /\ docs'[b].elements = docs[b].elements
                           /\ ~Renews(x, w, b)
    BY DEF Renewed
  <2>2. CASE b = b0
    BY <1>1, <1>6, <2>2 DEF Renews
  <2>3. CASE b # b0
    BY <1>1, <1>2, <1>5, <2>1, <2>3 DEF Behind, Renews
  <2>4. QED
    BY <2>2, <2>3
<1>10. SendsAlone(x)
  BY <1>2, <1>5 DEF SendsAlone
<1>11. StaysFollowed(x)
  <2>1. SUFFICES ASSUME NEW b \in Boards, NEW v \in Workers, NEW w \in Workers,
                        Stale(v, w, b)'
                 PROVE  Stale(v, w, b) /\ ~WillRead(x, b)
    BY DEF StaysFollowed
  <2>2. v # x
    BY <1>1, <1>5, <2>1 DEF Stale
  <2>3. Sends(v, b) /\ snapshot'[v] = snapshot[v]
    BY <1>0, <1>3, <2>1, <2>2, OthersKept DEF Stale
  <2>4. b # b0 /\ b \notin overlapped
    BY <1>2, <2>1, <2>2, <2>3 DEF Stale
  <2>5. QED
    BY <1>1, <1>5, <1>7, <2>1, <2>3, <2>4 DEF Stale
<1>12. QED
  BY <1>0, <1>3, <1>8, <1>9, <1>10, <1>11, FollowsKept

\* The broadcast finds every member of the board in the map.
LEMMA LockFollows ==
  ASSUME TypeOK, MembersKnown, MemberRegistered, ~corrupt,
         NEW x \in Workers, LockForBroadcast(x), Follows
  PROVE  Follows'
<1> DEFINE b0 == Board(x)
<1>0. Apart(x)
  BY StepApart DEF ServerStep, HandlerStep
<1>1. /\ pc[x] = "bc_lock" /\ pc'[x] = "bc_send"
      /\ UNCHANGED <<request, snapshot, docs, client>>
      /\ remaining' = [remaining EXCEPT ![x] = session_sockets[b0]]
  BY DEF LockForBroadcast, EnterBroadcast, Goto, At, database, TypeOK, HandlerTypes
<1>2. Rests(x) /\ remaining'[x] = session_sockets[b0]
  BY <1>1 DEF Rests, TypeOK, HandlerTypes
<1>3. \A b \in Boards : /\ Stored(b)' <=> Stored(b)
                        /\ Sends(x, b)' <=> Sends(x, b)
                        /\ ~WillRead(x, b)
                        /\ ~Joining(x, b)'
  BY <1>1 DEF Stored, WillRead, Sends, Joining, Board
<1>4. ASSUME NEW w \in Workers, NEW b \in Boards, Member(w, b), WillSend(x, w, b)
      PROVE  WillSend(x, w, b)'
  <2>1. b = b0 /\ Changes(x, b)'
    BY <1>1, <1>4 DEF WillSend, Changes, Board
  <2>2. b \in joined[w]
    BY <1>4 DEF Member, MembersKnown, Joining
  <2>3. w \in session_sockets[b]
    BY <2>2 DEF MemberRegistered
  <2>4. QED
    BY <1>1, <1>2, <2>1, <2>3 DEF WillSend
<1>5. \A w \in Workers, b \in Boards : Joining(w, b)' => Joining(w, b)
  BY <1>0, <1>2, <1>3, OthersKept
<1>6. Brought(x)
  <2>1. SUFFICES ASSUME NEW w \in Workers, NEW b \in Boards, NEW e \in Elements,
                        Lacks(w, b, e)'
                 PROVE  /\ Lacks(w, b, e)
                        /\ Brings(x, w, b, e) => Brings(x, w, b, e)'
    BY DEF Brought
  <2>2. Lacks(w, b, e)
    BY <1>1, <1>3, <1>5, <2>1 DEF Lacks, client
  <2>3. QED
    BY <1>1, <1>3, <1>4, <2>2 DEF Lacks, Member, Brings
<1>7. Renewed(x)
  <2>1. SUFFICES ASSUME NEW w \in Workers, NEW b \in Boards, Behind(w, b)'
                 PROVE  /\ Behind(w, b) /\ docs'[b].elements = docs[b].elements
                        /\ Renews(x, w, b) => Renews(x, w, b)'
    BY DEF Renewed
  <2>2. Behind(w, b)
    BY <1>1, <1>3, <2>1 DEF Behind, client
  <2>3. QED
    BY <1>1, <1>3, <1>4, <2>2 DEF Behind, Member, Renews
<1>8. SendsAlone(x)
  BY <1>1, <1>3 DEF SendsAlone, client
<1>9. StaysFollowed(x)
  <2>1. SUFFICES ASSUME NEW b \in Boards, NEW v \in Workers, NEW w \in Workers,
                        Stale(v, w, b)'
                 PROVE  Stale(v, w, b)
    BY <1>3 DEF StaysFollowed
  <2>2. Sends(v, b)
    BY <1>0, <1>2, <1>3, <2>1, OthersKept DEF Stale
  <2>3. QED
    BY <1>1, <1>3, <1>5, <2>1, <2>2 DEF Stale, client
<1>10. QED
  BY <1>0, <1>2, <1>6, <1>7, <1>8, <1>9, FollowsKept

\* What a broadcast sends a member is the board, or a broadcast follows.
LEMMA BroadcastFollows ==
  ASSUME TypeOK, MembersKnown, NEW x \in Workers, NEW m \in Workers, BroadcastTo(x, m),
         Follows
  PROVE  Follows'
<1> DEFINE b0 == Board(x)
<1>0. Apart(x)
  BY StepApart DEF ServerStep, HandlerStep
<1>1. /\ pc[x] = "bc_send"
      /\ UNCHANGED <<pc, request, snapshot, docs, synced, overlapped>>
      /\ remaining' = [remaining EXCEPT ![x] = @ \ {m}]
  BY DEF BroadcastTo, At, database
<1>2. Rests(x) /\ remaining'[x] = remaining[x] \ {m}
  BY <1>1 DEF Rests, TypeOK, HandlerTypes
<1>3. b0 \in Boards
  BY <1>1 DEF TypeOK, RequestFits, Fits, BroadcastSteps, Board
<1>4. \A w \in Workers : w \notin torn' => w \notin torn
  BY DEF BroadcastTo, Tear
<1>5. \A w \in Workers, b \in Boards : w # m \/ b # b0 =>
        received'[w][b] = received[w][b] /\ latest'[w][b] = latest[w][b]
  BY DEF BroadcastTo, Deliver, DeliverNothing, TypeOK, ClientTypes
<1>6. ASSUME m \notin torn', NEW b \in Boards, Member(m, b)
      PROVE  received'[m][b0] = received[m][b0] \cup snapshot[x] /\ latest'[m][b0] = snapshot[x]
  <2>1. ~Sending(m)
    BY <1>6 DEF BroadcastTo, Tear
  <2>2. ~At(m, "idle")
    BY <1>6 DEF Member, MembersKnown, Joining, At
  <2>3. Deliver(m, b0, snapshot[x])
    BY <2>1, <2>2 DEF BroadcastTo
  <2>4. QED
    BY <1>3, <2>3 DEF Deliver, TypeOK, ClientTypes
<1>7. \A b \in Boards : /\ Stored(b)' <=> Stored(b)
                        /\ ~WillRead(x, b)
                        /\ \A w \in Workers : /\ WillSend(x, w, b) => b = b0
                                              /\ Joining(w, b)' <=> Joining(w, b)
                                              /\ Sends(w, b)' <=> Sends(w, b)
  BY <1>1 DEF Stored, WillRead, WillSend, Changes, Sends, Joining, Board
<1>8. \A w \in Workers, b \in Boards : w # m => (WillSend(x, w, b) => WillSend(x, w, b)')
  BY <1>1, <1>2 DEF WillSend, Changes, Board
<1>9. Brought(x)
  <2>1. SUFFICES ASSUME NEW w \in Workers, NEW b \in Boards, NEW e \in Elements,
                        Lacks(w, b, e)'
                 PROVE  /\ Lacks(w, b, e)
                        /\ Brings(x, w, b, e) => Brings(x, w, b, e)'
    BY DEF Brought
  <2>2. Member(w, b)
    BY <1>1, <1>7, <2>1 DEF Lacks, Member
  <2>3. CASE w = m /\ b = b0
    <3>1. /\ received'[m][b0] = received[m][b0] \cup snapshot[x]
          /\ e \notin received'[m][b0]
      BY <1>6, <2>1, <2>2, <2>3 DEF Lacks
    <3>2. QED
      BY <1>1, <1>4, <1>7, <2>1, <2>3, <3>1 DEF Lacks, Brings
  <2>4. CASE w # m \/ b # b0
    <3>1. Lacks(w, b, e)
      BY <1>1, <1>4, <1>5, <1>7, <2>1, <2>4 DEF Lacks
    <3>2. Brings(x, w, b, e) => Brings(x, w, b, e)'
      BY <1>1, <1>7, <1>8, <2>4 DEF Brings
    <3>3. QED
      BY <3>1, <3>2
  <2>5. QED
    BY <2>3, <2>4
<1>10. Renewed(x)
  <2>1. SUFFICES ASSUME NEW w \in Workers, NEW b \in Boards, Behind(w, b)'
                 PROVE  \/ /\ Behind(w, b) /\ docs'[b].elements = docs[b].elements
                           /\ Renews(x, w, b) => Renews(x, w, b)'
                        \/ \E u \in Workers : WillRead(u, b)
    BY <1>7 DEF Renewed
  <2>2. CASE w = m /\ b = b0
    <3>1. latest'[m][b0] = snapshot[x]
      BY <1>1, <1>6, <2>1, <2>2 DEF Behind, Member
    <3>2. Stale(x, m, b0)
      BY <1>1, <1>7, <2>1, <2>2, <3>1 DEF Behind, Stale, Sends
    <3>3. QED
      BY <1>3, <2>2, <3>2 DEF Follows, StaleIsFollowed
  <2>3. CASE w # m \/ b # b0
    <3>1. Behind(w, b)
      BY <1>1, <1>4, <1>5, <1>7, <2>1, <2>3 DEF Behind
    <3>2. Renews(x, w, b) => Renews(x, w, b)'
      BY <1>1, <1>7, <1>8, <2>3 DEF Renews
    <3>3. QED
      BY <1>1, <3>1, <3>2
  <2>4. QED
    BY <2>2, <2>3
<1>11. SendsAlone(x)
  BY <1>1, <1>7 DEF SendsAlone
<1>12. StaysFollowed(x)
  <2>1. SUFFICES ASSUME NEW b \in Boards, NEW v \in Workers, NEW w \in Workers,
                        Stale(v, w, b)'
                 PROVE  Stale(v, w, b)
    BY <1>7 DEF StaysFollowed
  <2>2. QED
    BY <1>1, <1>7, <2>1 DEF Stale
<1>13. QED
  BY <1>0, <1>2, <1>9, <1>10, <1>11, <1>12, FollowsKept

-----------------------------------------------------------------------------
\* All steps together

\* A server that is intact was intact before.
LEMMA IntactBefore ==
  ASSUME NEW x \in Workers, ServerStep(x), Intact'
  PROVE  Intact
<1>1. CASE \/ Accept(x) \/ InsertFails(x) \/ FindOwnedBoard(x) \/ FindSharedBoard(x)
           \/ CheckSharedForUnicast(x) \/ FindAbandonedBoard(x) \/ AuthorizeAdd(x)
  BY <1>1 DEF Accept, InsertFails, FindOwnedBoard, FindSharedBoard, CheckSharedForUnicast,
     FindAbandonedBoard, AuthorizeAdd, Decide, Step, map, counters, Intact
<1>2. CASE Disconnect(x) \/ MalformedId(x) \/ UpdateRejected(x)
  BY <1>2 DEF Disconnect, MalformedId, UpdateRejected, Close, map, counters, Intact
<1>3. CASE \E r \in Request : Receive(x, r)
  BY <1>3 DEF Receive, map, Intact
<1>4. CASE AssignUserId(x) \/ Reply(x) \/ InsertWhiteboard(x) \/ SendUnicast(x)
  BY <1>4 DEF AssignUserId, Reply, InsertWhiteboard, SendUnicast, Step, map, counters,
     Intact
<1>5. CASE AddOwnerSocket(x) \/ AddMemberSocket(x)
  BY <1>5 DEF AddOwnerSocket, AddMemberSocket, AddSocket, Step, counters, Intact
<1>6. CASE \/ SetActiveUsers(x) \/ AddActiveUser(x) \/ PullActiveUser(x)
           \/ DeleteBoard(x) \/ PushElement(x) \/ ReplaceElement(x)
  BY <1>6 DEF SetActiveUsers, AddActiveUser, PullActiveUser, DeleteBoard, PushElement,
     ReplaceElement, UpdateStep, Step, map, counters, Intact
<1>7. CASE ReadElementsForUnicast(x)
  BY <1>7 DEF ReadElementsForUnicast, map, counters, Intact
<1>8. CASE ReadElementsForBroadcast(x)
  BY <1>8 DEF ReadElementsForBroadcast, Return, map, counters, Intact
<1>9. CASE QuitMap(x)
  BY <1>9 DEF QuitMap, RemoveSocket, RaceOnMap, counters, Intact
<1>10. CASE AuthorizeModify(x) \/ CheckSharedForBroadcast(x)
  BY <1>10 DEF AuthorizeModify, CheckSharedForBroadcast, Decide, Step, Return, map,
     counters, Intact
<1>11. CASE LockForBroadcast(x) \/ EndBroadcast(x)
  BY <1>11 DEF LockForBroadcast, EnterBroadcast, EndBroadcast, Return, counters, Intact
<1>12. CASE \E v \in Workers : BroadcastTo(x, v)
  BY <1>12 DEF BroadcastTo, map, counters, Intact
<1>13. QED
  BY <1>1, <1>2, <1>3, <1>4, <1>5, <1>6, <1>7, <1>8, <1>9, <1>10, <1>11, <1>12
     DEF ServerStep, HandlerStep

\* Each step of a worker, with the server intact.
LEMMA FollowsStep ==
  ASSUME TypeOK, MembersKnown, MemberRegistered, Intact, Intact', Follows,
         NEW x \in Workers, ServerStep(x)
  PROVE  Follows'
<1>0. ~corrupt /\ ~corrupt' /\ Apart(x)
  BY StepApart DEF Intact
<1>1. CASE AsideStep(x)
  BY <1>0, <1>1, AsideQuiet, QuietFollows
<1>2. CASE PushElement(x) \/ ReplaceElement(x) \/ UpdateRejected(x)
  BY <1>0, <1>2, ChangeQuiet, QuietFollows
<1>3. CASE Reply(x) \/ CheckSharedForBroadcast(x)
  BY <1>0, <1>3, BroadcastQuiet, QuietFollows
<1>4. CASE ReadElementsForUnicast(x)
  BY <1>0, <1>4, BroadcastQuiet, QuietFollows, UnicastReadFollows
<1>5. CASE ReadElementsForBroadcast(x)
  BY <1>0, <1>5, BroadcastQuiet, QuietFollows, BroadcastReadFollows
<1>6. CASE SendUnicast(x)
  BY <1>6, UnicastFollows
<1>7. CASE LockForBroadcast(x)
  BY <1>0, <1>7, LockFollows
<1>8. CASE \E m \in Workers : BroadcastTo(x, m)
  BY <1>8, BroadcastFollows
<1>9. QED
  BY <1>1, <1>2, <1>3, <1>4, <1>5, <1>6, <1>7, <1>8
     DEF ServerStep, HandlerStep, AsideStep

\* A call that fails closes the connection, as a client that leaves does.
LEMMA ErrorKnown ==
  ASSUME TypeOK, MembersKnown, NEW x \in Workers, Close(x)
  PROVE  MembersKnown'
<1>1. /\ synced'[x] = {} /\ joined'[x] = {} /\ pc'[x] = "idle"
  BY DEF Close, Leave, Goto, TypeOK, HandlerTypes, ClientTypes
<1>2. KnownOf(x)
  BY <1>1 DEF KnownOf
<1>3. QED
  BY <1>2, CloseApart, KnownKept

\* Every step keeps the invariant.
LEMMA DeliveryStep ==
  DeliveryInv /\ [Next]_vars => DeliveryInv'
<1> SUFFICES ASSUME DeliveryInv, [Next]_vars
             PROVE  DeliveryInv'
  OBVIOUS
<1>1. TypeOK /\ MemberRegistered /\ MembersKnown /\ (Intact => Follows)
  BY DEF DeliveryInv, Follows
<1>2. TypeOK' /\ MemberRegistered'
  BY <1>1, TypeStep, MemberStep
<1>3. ASSUME MembersKnown', Intact' => Follows'
      PROVE  DeliveryInv'
  BY <1>2, <1>3 DEF DeliveryInv, Follows
<1>4. ASSUME NEW x \in Workers, ServerStep(x)
      PROVE  DeliveryInv'
  BY <1>1, <1>3, <1>4, KnownStep, IntactBefore, FollowsStep
<1>5. ASSUME NEW x \in Workers, DatabaseError(x)
      PROVE  DeliveryInv'
  <2>1. Close(x) /\ faults' = faults + 1 /\ faults \in Nat
    BY <1>1, <1>5, BoundsAssumption DEF DatabaseError, TypeOK, CounterTypes
  <2>2. ~Intact'
    BY <2>1 DEF Intact
  <2>3. QED
    BY <1>1, <1>3, <2>1, <2>2, ErrorKnown
<1>6. CASE Crash
  <2>1. faults' = faults + 1 /\ faults \in Nat
    BY <1>1, <1>6, BoundsAssumption DEF Crash, TypeOK, CounterTypes
  <2>2. ~Intact'
    BY <2>1 DEF Intact
  <2>3. MembersKnown'
    BY <1>6 DEF Crash, MembersKnown, Joining
  <2>4. QED
    BY <1>3, <2>2, <2>3
<1>7. CASE UNCHANGED vars
  <2>1. UNCHANGED <<pc, request, snapshot, remaining, corrupt, docs, joined, synced,
                    received, latest, torn, overlapped, faults>>
    BY <1>7 DEF vars, loop, map, database, client, counters
  <2>2. MembersKnown'
    BY <1>1, <2>1 DEF MembersKnown, Joining, Board
  <2>3. Intact' => Follows'
    BY <1>1, <2>1 DEF Intact, Follows, Delivery, Renewal, OneSender, StaleIsFollowed,
       Lacks, Brings, Behind, Renews, Sends, Stale, WillRead, WillSend, Changes, Joining,
       Board, Stored
  <2>4. QED
    BY <1>3, <2>2, <2>3
<1>8. QED
  BY <1>4, <1>5, <1>6, <1>7 DEF Next, ServerStep

\* With nobody connected nothing is owed.
LEMMA DeliveryInit ==
  Init => DeliveryInv
<1> SUFFICES ASSUME Init
             PROVE  DeliveryInv
  OBVIOUS
<1>1. TypeOK /\ MemberRegistered
  BY InitTypes DEF Init, MemberRegistered
<1>2. \A w \in Workers : /\ pc[w] = "idle" /\ synced[w] = {} /\ joined[w] = {}
                         /\ \A b \in Boards : ~Joining(w, b) /\ ~Sends(w, b)
  BY DEF Init, Joining, Sends
<1>3. MembersKnown
  BY <1>2 DEF MembersKnown
<1>4. Delivery /\ Renewal /\ OneSender /\ StaleIsFollowed
  BY <1>2 DEF Delivery, Renewal, OneSender, StaleIsFollowed, Lacks, Behind, Stale
<1>5. QED
  BY <1>1, <1>3, <1>4 DEF DeliveryInv

\* Nothing is on its way to a board that nobody is publishing.
LEMMA NothingOnItsWay ==
  ASSUME TypeOK, NEW b \in Boards, Quiescent(b), NEW v \in Workers, NEW w \in Workers
  PROVE  ~WillRead(v, b) /\ ~WillSend(v, w, b)
<1>1. ~Publishing(v, b)
  BY DEF Quiescent
<1>2. QED
  BY <1>1 DEF Publishing, WillRead, WillSend, Changes, BroadcastSteps

\* The invariant implies what the runs check.
LEMMA DeliveryHolds ==
  DeliveryInv => ElementsReachMembers /\ LastSentIsTheBoard
<1> SUFFICES ASSUME DeliveryInv, Intact
             PROVE  /\ \A w \in Workers \ torn : \A b \in synced[w] :
                         Stored(b) /\ Quiescent(b) => docs[b].elements \subseteq received[w][b]
                    /\ \A w \in Workers \ torn : \A b \in synced[w] \ overlapped :
                         Stored(b) /\ Quiescent(b) => latest[w][b] = docs[b].elements
  BY DEF ElementsReachMembers, LastSentIsTheBoard, Intact
<1>1. TypeOK /\ Delivery /\ Renewal
  BY DEF DeliveryInv
<1>2. ASSUME NEW w \in Workers \ torn, NEW b \in synced[w], Stored(b), Quiescent(b)
      PROVE  docs[b].elements \subseteq received[w][b]
  <2>1. b \in Boards /\ docs[b].elements \subseteq Elements
    BY <1>1, <1>2 DEF TypeOK, ClientTypes, DatabaseTypes, Doc
  <2>2. SUFFICES ASSUME NEW e \in docs[b].elements, e \notin received[w][b]
                 PROVE  FALSE
    OBVIOUS
  <2>3. Lacks(w, b, e) /\ e \in Elements
    BY <1>2, <2>1, <2>2 DEF Lacks
  <2>4. PICK v \in Workers : Brings(v, w, b, e)
    BY <1>1, <2>1, <2>3 DEF Delivery
  <2>5. QED
    BY <1>1, <1>2, <2>1, <2>4, NothingOnItsWay DEF Brings
<1>3. ASSUME NEW w \in Workers \ torn, NEW b \in synced[w] \ overlapped,
             Stored(b), Quiescent(b)
      PROVE  latest[w][b] = docs[b].elements
  <2>1. b \in Boards
    BY <1>1, <1>3 DEF TypeOK, ClientTypes
  <2>2. SUFFICES ASSUME latest[w][b] # docs[b].elements
                 PROVE  FALSE
    OBVIOUS
  <2>3. Behind(w, b)
    BY <1>3, <2>2 DEF Behind
  <2>4. PICK v \in Workers : Renews(v, w, b)
    BY <1>1, <2>1, <2>3 DEF Renewal
  <2>5. QED
    BY <1>1, <1>3, <2>1, <2>4, NothingOnItsWay DEF Renews
<1>4. QED
  BY <1>2, <1>3

\* A member that was sent the board misses no element once no broadcast of it is
\* on its way, however joins, drawings and broadcasts cross: handle_unicast and
\* handle_broadcast read the board after the socket is in the map (server.cpp
\* 338-404, 751-877).
THEOREM MembersMissNothing == Spec => []ElementsReachMembers
<1>1. DeliveryInv => ElementsReachMembers
  BY DeliveryHolds
<1>2. QED
  BY <1>1, DeliveryInit, DeliveryStep, PTL DEF Spec

\* What a member was sent last is the board itself, if no two workers were sending
\* the board at once (server.cpp 751-877).
THEOREM MembersUpToDate == Spec => []LastSentIsTheBoard
<1>1. DeliveryInv => LastSentIsTheBoard
  BY DeliveryHolds
<1>2. QED
  BY <1>1, DeliveryInit, DeliveryStep, PTL DEF Spec
=============================================================================
