----------------------- MODULE WhiteboardServerProofs -----------------------
(***************************************************************************)
(* Theorems about WhiteboardServer, for any workers, boards, elements and  *)
(* user ids, and any number of requests and faults.  The last part is what *)
(* the handlers may rely on when they write to a document that they looked *)
(* at some steps before, and from it: that they implement BoardStore, and  *)
(* that only members change what is drawn.                                 *)
(***************************************************************************)
EXTENDS WhiteboardServer, TLAPS

\* Parts of a state that a step leaves alone keep their types.
LEMMA UnchangedTypes ==
  /\ MapTypes /\ UNCHANGED map => MapTypes'
  /\ DatabaseTypes /\ UNCHANGED database => DatabaseTypes'
  /\ ClientTypes /\ UNCHANGED client => ClientTypes'
  /\ CounterTypes /\ UNCHANGED counters => CounterTypes'
  BY DEF MapTypes, DatabaseTypes, ClientTypes, CounterTypes, map, database,
         client, counters

\* What a worker holds between requests has the type of a request.
LEMMA NoRequestType ==
  NoRequest \in [type    : RequestTypes \cup {"none"},
                 user    : Nat,
                 board   : Boards \cup {BadId},
                 orig    : Elements \cup {NoElement},
                 element : Elements \cup {NoElement}]
  BY DEF NoRequest

\* On to another step of the handler.
LEMMA StepTypes ==
  ASSUME HandlerTypes, NEW w \in Workers, NEW from, NEW to \in Steps,
         Step(w, from, to)
  PROVE  HandlerTypes' /\ UNCHANGED counters
  BY DEF HandlerTypes, Step, Goto, loop, counters

\* Leaving a handler clears its locals.
LEMMA LeaveTypes ==
  ASSUME HandlerTypes, NEW w \in Workers, NEW to \in Steps, Leave(w, to),
         answers' \in [Workers -> Nat]
  PROVE  HandlerTypes'
  BY NoRequestType DEF HandlerTypes, Leave, Goto

\* Closing a connection forgets it and touches neither map nor database.
LEMMA CloseTypes ==
  ASSUME TypeOK, NEW w \in Workers, Close(w)
  PROVE  HandlerTypes' /\ ClientTypes' /\ MapTypes' /\ DatabaseTypes'
<1>1. answers' \in [Workers -> Nat] /\ "idle" \in Steps
  BY DEF Close, TypeOK, HandlerTypes, Steps
<1>2. HandlerTypes'
  BY <1>1, LeaveTypes DEF Close, TypeOK
<1>3. ClientTypes'
  BY DEF Close, TypeOK, ClientTypes, NothingSent
<1>4. MapTypes' /\ DatabaseTypes'
  BY UnchangedTypes DEF Close, TypeOK, map, database
<1>5. QED
  BY <1>2, <1>3, <1>4

\* A conditional update of the request's board.
LEMMA UpdateTypes ==
  ASSUME TypeOK, NEW w \in Workers, NEW from, NEW to \in Steps, NEW d,
         Stored(Board(w)) => d \in Doc,
         UpdateStep(w, from, d, to),
         granted' = granted \/ Grant(Board(w), User(w))
  PROVE  /\ HandlerTypes' /\ MapTypes' /\ DatabaseTypes' /\ ClientTypes'
         /\ CounterTypes'
<1>1. HandlerTypes' /\ UNCHANGED <<map, client, counters>>
  BY StepTypes DEF UpdateStep, TypeOK
<1>2. docs' \in [Boards -> Doc] /\ seq' \in Nat
  BY DEF UpdateStep, UpdateOne, TypeOK, DatabaseTypes, Stored
<1>3. User(w) \in Nat
  BY DEF User, TypeOK, HandlerTypes
<1>4. granted' \in [Boards -> SUBSET Nat]
  BY <1>3 DEF Grant, Stored, TypeOK, DatabaseTypes
<1>5. QED
  BY <1>1, <1>2, <1>4, UnchangedTypes DEF DatabaseTypes, TypeOK, map, client,
     counters

\* A step that decides where the handler goes on changes nothing shared.
LEMMA DecideTypes ==
  ASSUME TypeOK, NEW w \in Workers, NEW from, NEW to \in Steps,
         Decide(w, from, to)
  PROVE  /\ HandlerTypes' /\ MapTypes' /\ DatabaseTypes' /\ ClientTypes'
         /\ CounterTypes'
<1>1. HandlerTypes' /\ UNCHANGED counters
  BY StepTypes DEF Decide, TypeOK
<1>2. UNCHANGED map /\ UNCHANGED database /\ UNCHANGED client
  BY DEF Decide
<1>3. QED
  BY <1>1, <1>2, UnchangedTypes DEF TypeOK

\* A handler that returns without a reply changes only its locals.
LEMMA ReturnTypes ==
  ASSUME TypeOK, NEW w \in Workers, Return(w)
  PROVE  HandlerTypes' /\ CounterTypes'
<1>1. answers' \in [Workers -> Nat] /\ UNCHANGED counters /\ "read" \in Steps
  BY DEF Return, TypeOK, HandlerTypes, Steps
<1>2. HandlerTypes'
  BY <1>1, LeaveTypes DEF Return, TypeOK
<1>3. QED
  BY <1>1, <1>2, UnchangedTypes DEF TypeOK

\* TypeOK without RequestFits.
AllTypesOK ==
  HandlerTypes /\ MapTypes /\ DatabaseTypes /\ ClientTypes /\ CounterTypes

\* The steps of connections.
LEMMA ConnectionTypes ==
  ASSUME TypeOK, NEW w \in Workers,
         \/ Accept(w) \/ Disconnect(w) \/ DatabaseError(w) \/ MalformedId(w)
         \/ UpdateRejected(w) \/ \E r \in Request : Receive(w, r)
  PROVE  AllTypesOK'
<1>1. CASE Accept(w)
  <2>1. "read" \in Steps
    BY DEF Steps
  <2>2. QED
    BY <1>1, <2>1, DecideTypes DEF Accept, AllTypesOK
<1>2. CASE Disconnect(w) \/ MalformedId(w) \/ UpdateRejected(w)
  <2>1. Close(w) /\ UNCHANGED counters
    BY <1>2 DEF Disconnect, MalformedId, UpdateRejected
  <2>2. QED
    BY <2>1, CloseTypes, UnchangedTypes DEF AllTypesOK, TypeOK
<1>3. CASE DatabaseError(w)
  <2>1. Close(w) /\ CounterTypes'
    BY <1>3, BoundsAssumption DEF DatabaseError, TypeOK, CounterTypes
  <2>2. QED
    BY <2>1, CloseTypes DEF AllTypesOK
<1>4. ASSUME NEW r \in Request, Receive(w, r)
      PROVE  AllTypesOK'
  <2>1. r \in [type    : RequestTypes \cup {"none"},
               user    : Nat,
               board   : Boards \cup {BadId},
               orig    : Elements \cup {NoElement},
               element : Elements \cup {NoElement}]
    BY UsersAssumption DEF Request
  <2>2. FirstStep(r) \in Steps
    <3>1. r.type \in {"createWhiteboard", "createSession", "joinSession",
                      "quitSession", "addElement", "modifyElement"}
      BY TypesAssumption DEF Request
    <3>2. QED
      BY <3>1 DEF FirstStep, Steps
  <2>3. HandlerTypes'
    BY <1>4, <2>1, <2>2 DEF Receive, TypeOK, HandlerTypes, Goto, loop
  <2>4. MapTypes' /\ DatabaseTypes' /\ ClientTypes'
    BY <1>4, UnchangedTypes DEF Receive, TypeOK, map, database, client
  <2>5. CounterTypes'
    BY <1>4, BoundsAssumption DEF Receive, TypeOK, CounterTypes
  <2>6. QED
    BY <2>3, <2>4, <2>5 DEF AllTypesOK
<1>5. QED
  BY <1>1, <1>2, <1>3, <1>4

\* The steps that reply, assign an id or create a board.
LEMMA CreateTypes ==
  ASSUME TypeOK, NEW w \in Workers,
         Reply(w) \/ AssignUserId(w) \/ InsertWhiteboard(w) \/ InsertFails(w)
  PROVE  AllTypesOK'
<1>0. {"read", "bc_check", "js_find", "cw_insert", "reply_success",
       "reply_failure"} \subseteq Steps
  BY DEF Steps
<1>1. CASE Reply(w)
  <2>1. answers' \in [Workers -> Nat]
    BY <1>1 DEF Reply, TypeOK, HandlerTypes
  <2>2. HandlerTypes'
    <3>1. CASE Leave(w, "read")
      BY <1>0, <2>1, <3>1, LeaveTypes DEF TypeOK
    <3>2. CASE Goto(w, "bc_check") /\ UNCHANGED <<request, loop>>
      BY <1>0, <2>1, <3>2 DEF TypeOK, HandlerTypes, Goto, loop
    <3>3. QED
      BY <1>1, <3>1, <3>2 DEF Reply
  <2>3. ClientTypes'
    BY <1>1 DEF Reply, TypeOK, ClientTypes, Tear
  <2>4. QED
    BY <1>1, <2>2, <2>3, UnchangedTypes DEF Reply, TypeOK, AllTypesOK, map,
       database, counters
<1>2. CASE AssignUserId(w)
  <2>1. HandlerTypes'
    BY <1>0, <1>2 DEF AssignUserId, TypeOK, HandlerTypes, DatabaseTypes, Goto, loop
  <2>2. DatabaseTypes' /\ ClientTypes'
    BY <1>2 DEF AssignUserId, TypeOK, DatabaseTypes, ClientTypes, Tear
  <2>3. QED
    BY <1>2, <2>1, <2>2, UnchangedTypes DEF AssignUserId, TypeOK, AllTypesOK,
       map, counters
<1>3. CASE InsertWhiteboard(w)
  <2>1. HandlerTypes' /\ UNCHANGED counters
    BY <1>0, <1>3, StepTypes DEF InsertWhiteboard, TypeOK
  <2>2. User(w) \in Nat
    BY DEF User, TypeOK, HandlerTypes
  <2>3. [NoDoc EXCEPT !.state = "stored", !.uid = User(w)] \in Doc
    BY <2>2 DEF Doc, NoDoc
  <2>4. DatabaseTypes'
    BY <1>3, <2>2, <2>3 DEF InsertWhiteboard, TypeOK, DatabaseTypes
  <2>5. QED
    BY <1>3, <2>1, <2>4, UnchangedTypes DEF InsertWhiteboard, TypeOK, AllTypesOK,
       map, client
<1>4. CASE InsertFails(w)
  BY <1>0, <1>4, DecideTypes DEF InsertFails, AllTypesOK
<1>5. QED
  BY <1>1, <1>2, <1>3, <1>4

\* The steps that only read the database or the map and go on.
LEMMA ReadTypes ==
  ASSUME TypeOK, NEW w \in Workers,
         \/ FindOwnedBoard(w) \/ FindSharedBoard(w) \/ CheckSharedForUnicast(w)
         \/ FindAbandonedBoard(w) \/ AuthorizeAdd(w) \/ AuthorizeModify(w)
         \/ CheckSharedForBroadcast(w)
         \/ ReadElementsForUnicast(w) \/ ReadElementsForBroadcast(w)
  PROVE  AllTypesOK'
<1>0. {"cs_add", "js_add", "js_elements", "js_send", "qs_delete", "ae_push",
       "me_update", "bc_check", "bc_find", "bc_lock", "reply_success",
       "reply_failure"} \subseteq Steps
  BY DEF Steps
<1>1. ASSUME NEW from, NEW to \in Steps, Decide(w, from, to)
      PROVE  AllTypesOK'
  BY <1>1, DecideTypes DEF AllTypesOK
<1>2. ASSUME Return(w), UNCHANGED <<map, database, client>>
      PROVE  AllTypesOK'
  BY <1>2, ReturnTypes, UnchangedTypes DEF AllTypesOK, TypeOK
<1>3. CASE FindOwnedBoard(w)
  BY <1>0, <1>1, <1>3 DEF FindOwnedBoard
<1>4. CASE FindSharedBoard(w)
  BY <1>0, <1>1, <1>4 DEF FindSharedBoard
<1>5. CASE CheckSharedForUnicast(w)
  BY <1>0, <1>1, <1>5 DEF CheckSharedForUnicast
<1>6. CASE FindAbandonedBoard(w)
  BY <1>0, <1>1, <1>6 DEF FindAbandonedBoard
<1>7. CASE AuthorizeAdd(w)
  BY <1>0, <1>1, <1>7 DEF AuthorizeAdd
<1>8. CASE AuthorizeModify(w)
  BY <1>0, <1>1, <1>2, <1>8 DEF AuthorizeModify
<1>9. CASE CheckSharedForBroadcast(w)
  BY <1>0, <1>1, <1>2, <1>9 DEF CheckSharedForBroadcast
<1>10. Stored(Board(w)) => docs[Board(w)].elements \in SUBSET Elements
  BY DEF TypeOK, DatabaseTypes, Stored, Doc
<1>11. CASE ReadElementsForUnicast(w)
  <2>1. CASE ReadElements(w)
    <3>1. Board(w) \in Boards
      BY <1>11 DEF ReadElementsForUnicast, TypeOK, RequestFits, Fits,
         BoardSteps, At, Board
    <3>2. HandlerTypes'
      BY <1>0, <1>10, <1>11, <2>1 DEF ReadElementsForUnicast, ReadElements,
         TypeOK, HandlerTypes, Goto
    <3>3. ClientTypes'
      BY <2>1, <3>1 DEF ReadElements, TypeOK, ClientTypes
    <3>4. QED
      BY <1>11, <3>2, <3>3, UnchangedTypes DEF ReadElementsForUnicast, TypeOK,
         AllTypesOK, map, database, counters
  <2>2. CASE ~ReadElements(w)
    <3>1. HandlerTypes' /\ UNCHANGED client
      BY <1>0, <1>11, <2>2 DEF ReadElementsForUnicast, TypeOK, HandlerTypes, Goto
    <3>2. QED
      BY <1>11, <3>1, UnchangedTypes DEF ReadElementsForUnicast, TypeOK,
         AllTypesOK, map, database, counters
  <2>3. QED
    BY <2>1, <2>2
<1>12. CASE ReadElementsForBroadcast(w)
  <2>1. CASE ReadElements(w)
    <3>1. Board(w) \in Boards
      BY <1>12 DEF ReadElementsForBroadcast, TypeOK, RequestFits, Fits,
         BroadcastSteps, At, Board
    <3>2. HandlerTypes'
      BY <1>0, <1>10, <1>12, <2>1 DEF ReadElementsForBroadcast, ReadElements,
         Stored, Return, TypeOK, HandlerTypes, Goto
    <3>3. ClientTypes'
      BY <2>1, <3>1 DEF ReadElements, TypeOK, ClientTypes
    <3>4. CounterTypes'
      BY <1>12, <2>1 DEF ReadElementsForBroadcast, ReadElements, TypeOK,
         CounterTypes, counters
    <3>5. QED
      BY <1>12, <3>2, <3>3, <3>4, UnchangedTypes DEF ReadElementsForBroadcast,
         TypeOK, AllTypesOK, map, database
  <2>2. CASE ~ReadElements(w)
    BY <1>2, <1>12, <2>2 DEF ReadElementsForBroadcast, map, database, client
  <2>3. QED
    BY <2>1, <2>2
<1>13. QED
  BY <1>3, <1>4, <1>5, <1>6, <1>7, <1>8, <1>9, <1>11, <1>12

\* The steps that change a stored document.
LEMMA WriteTypes ==
  ASSUME TypeOK, NEW w \in Workers,
         \/ SetActiveUsers(w) \/ AddActiveUser(w) \/ PullActiveUser(w)
         \/ DeleteBoard(w) \/ PushElement(w) \/ ReplaceElement(w)
  PROVE  AllTypesOK'
<1> DEFINE d == docs[Board(w)]
<1>0. {"js_shared", "qs_find", "reply_success"} \subseteq Steps
  BY DEF Steps
<1>1. User(w) \in Nat /\ (Stored(Board(w)) => d \in Doc)
  BY DEF User, Stored, TypeOK, HandlerTypes, DatabaseTypes
<1>2. CASE SetActiveUsers(w)
  <2>1. Stored(Board(w)) =>
          [d EXCEPT !.shared = TRUE, !.active = {User(w)}] \in Doc
    BY <1>1 DEF Doc
  <2>2. QED
    BY <1>0, <1>2, <2>1, UpdateTypes DEF SetActiveUsers, AllTypesOK
<1>3. CASE AddActiveUser(w)
  <2>1. Stored(Board(w)) => [d EXCEPT !.active = @ \cup {User(w)}] \in Doc
    BY <1>1 DEF Doc
  <2>2. QED
    BY <1>0, <1>3, <2>1, UpdateTypes DEF AddActiveUser, AllTypesOK
<1>4. CASE PullActiveUser(w)
  <2>1. Stored(Board(w)) => [d EXCEPT !.active = @ \ {User(w)}] \in Doc
    BY <1>1 DEF Doc
  <2>2. QED
    BY <1>0, <1>4, <2>1, UpdateTypes DEF PullActiveUser, AllTypesOK
<1>5. CASE DeleteBoard(w)
  <2>1. Stored(Board(w)) => [d EXCEPT !.state = "deleted"] \in Doc
    BY <1>1 DEF Doc
  <2>2. QED
    BY <1>0, <1>5, <2>1, UpdateTypes DEF DeleteBoard, AllTypesOK
<1>6. CASE PushElement(w)
  <2>1. request[w].element \in Elements
    BY <1>6 DEF PushElement, UpdateStep, Step, At, TypeOK, RequestFits, Fits
  <2>2. Stored(Board(w)) =>
          [d EXCEPT !.elements = @ \cup {request[w].element}] \in Doc
    BY <1>1, <2>1 DEF Doc
  <2>3. QED
    BY <1>0, <1>6, <2>2, UpdateTypes DEF PushElement, AllTypesOK
<1>7. CASE ReplaceElement(w)
  <2>1. request[w].element \in Elements
    BY <1>7 DEF ReplaceElement, UpdateStep, Step, At, TypeOK, RequestFits, Fits
  <2>2. Stored(Board(w)) =>
          [d EXCEPT !.elements =
             (@ \ {request[w].orig}) \cup {request[w].element}] \in Doc
    BY <1>1, <2>1 DEF Doc
  <2>3. QED
    BY <1>0, <1>7, <2>2, UpdateTypes DEF ReplaceElement, AllTypesOK
<1>8. QED
  BY <1>2, <1>3, <1>4, <1>5, <1>6, <1>7

\* The steps that add the socket of a connection to a session, or remove it.
LEMMA MapStepTypes ==
  ASSUME TypeOK, NEW w \in Workers,
         AddOwnerSocket(w) \/ AddMemberSocket(w) \/ QuitMap(w)
  PROVE  AllTypesOK'
<1>0. {"cs_set", "js_update", "qs_pull"} \subseteq Steps
  BY DEF Steps
<1>1. ASSUME NEW from \in {"cs_add", "js_add"}, NEW to \in Steps,
             AddSocket(w), Step(w, from, to), UNCHANGED database
      PROVE  AllTypesOK'
  <2>1. HandlerTypes' /\ UNCHANGED counters
    BY <1>1, StepTypes DEF TypeOK
  <2>2. Board(w) \in Boards
    BY <1>1 DEF TypeOK, RequestFits, Fits, BoardSteps, Step, At, Board
  <2>3. MapTypes'
    BY <1>1, <2>2 DEF AddSocket, TypeOK, MapTypes
  <2>4. ClientTypes'
    BY <1>1, <2>2 DEF AddSocket, TypeOK, ClientTypes
  <2>5. QED
    BY <1>1, <2>1, <2>3, <2>4, UnchangedTypes DEF TypeOK, AllTypesOK
<1>2. CASE AddOwnerSocket(w)
  BY <1>0, <1>1, <1>2 DEF AddOwnerSocket
<1>3. CASE AddMemberSocket(w)
  BY <1>0, <1>1, <1>3 DEF AddMemberSocket
<1>4. CASE QuitMap(w)
  <2>1. MapTypes' /\ remaining' \in [Workers -> SUBSET Workers]
    <3>1. CASE RemoveSocket(w)
      <4>1. UNCHANGED <<map_mutex, corrupt, remaining>>
        BY <3>1 DEF RemoveSocket
      <4>2. session_keys' \in SUBSET Boards
        BY <3>1 DEF RemoveSocket, TypeOK, MapTypes
      <4>3. session_sockets' \in [Boards -> SUBSET Workers]
        BY <3>1 DEF RemoveSocket, TypeOK, MapTypes
      <4>4. QED
        BY <4>1, <4>2, <4>3 DEF TypeOK, MapTypes, HandlerTypes
    <3>2. CASE RaceOnMap(w)
      <4>1. session_keys' \in SUBSET Boards
        BY <3>2 DEF RaceOnMap, TypeOK, MapTypes
      <4>2. session_sockets' \in [Boards -> SUBSET Workers]
        BY <3>2 DEF RaceOnMap
      <4>3. remaining' \in [Workers -> SUBSET Workers]
        BY <3>2 DEF RaceOnMap, TypeOK, HandlerTypes
      <4>4. QED
        BY <3>2, <4>1, <4>2, <4>3 DEF RaceOnMap, TypeOK, MapTypes
    <3>3. QED
      BY <1>4, <3>1, <3>2 DEF QuitMap
  <2>2. HandlerTypes'
    BY <1>0, <1>4, <2>1 DEF QuitMap, TypeOK, HandlerTypes, Goto
  <2>3. ClientTypes'
    BY <1>4 DEF QuitMap, TypeOK, ClientTypes
  <2>4. QED
    BY <1>4, <2>1, <2>2, <2>3, UnchangedTypes DEF QuitMap, TypeOK, AllTypesOK,
       database, counters
<1>5. QED
  BY <1>2, <1>3, <1>4

\* What is sent to a connection is a set of elements.
LEMMA DeliverTypes ==
  ASSUME TypeOK, NEW w \in Workers, NEW b \in Boards,
         NEW elements \in SUBSET Elements,
         Deliver(w, b, elements) \/ DeliverNothing
  PROVE  /\ received' \in [Workers -> [Boards -> SUBSET Elements]]
         /\ latest' \in [Workers -> [Boards -> SUBSET Elements]]
<1>1. CASE Deliver(w, b, elements)
  BY <1>1 DEF Deliver, TypeOK, ClientTypes
<1>2. CASE DeliverNothing
  BY <1>2 DEF DeliverNothing, TypeOK, ClientTypes
<1>3. QED
  BY <1>1, <1>2

\* The steps that send elements, and those that hold the mutex around them.
LEMMA SendTypes ==
  ASSUME TypeOK, NEW w \in Workers,
         \/ SendUnicast(w) \/ LockForBroadcast(w) \/ EndBroadcast(w)
         \/ \E v \in Workers : BroadcastTo(w, v)
  PROVE  AllTypesOK'
<1>0. {"reply_success", "bc_send"} \subseteq Steps
  BY DEF Steps
<1>1. snapshot[w] \in SUBSET Elements
  BY DEF TypeOK, HandlerTypes
<1>2. CASE SendUnicast(w)
  <2>1. Board(w) \in Boards
    BY <1>2 DEF SendUnicast, TypeOK, RequestFits, Fits, BoardSteps, At, Board
  <2>2. Deliver(w, Board(w), snapshot[w]) \/ DeliverNothing
    BY <1>2 DEF SendUnicast
  <2>3. /\ received' \in [Workers -> [Boards -> SUBSET Elements]]
        /\ latest' \in [Workers -> [Boards -> SUBSET Elements]]
    BY <1>1, <2>1, <2>2, DeliverTypes
  <2>4. ClientTypes'
    BY <1>2, <2>1, <2>3 DEF SendUnicast, TypeOK, ClientTypes, Tear
  <2>5. HandlerTypes'
    BY <1>0, <1>2 DEF SendUnicast, TypeOK, HandlerTypes, Goto, loop
  <2>6. QED
    BY <1>2, <2>4, <2>5, UnchangedTypes DEF SendUnicast, TypeOK, AllTypesOK,
       map, database, counters
<1>3. CASE LockForBroadcast(w)
  <2>1. EnterBroadcast(w, session_sockets[Board(w)])
    BY <1>3 DEF LockForBroadcast
  <2>2. Board(w) \in Boards
    BY <2>1 DEF EnterBroadcast, TypeOK, RequestFits, Fits, BroadcastSteps, At, Board
  <2>3. MapTypes'
    BY <2>1, <2>2 DEF EnterBroadcast, TypeOK, MapTypes
  <2>4. session_sockets[Board(w)] \in SUBSET Workers
    BY <2>2 DEF TypeOK, MapTypes
  <2>5. HandlerTypes'
    BY <1>0, <2>1, <2>4 DEF EnterBroadcast, TypeOK, HandlerTypes, Goto
  <2>6. QED
    BY <2>1, <2>3, <2>5, UnchangedTypes DEF EnterBroadcast, TypeOK, AllTypesOK,
       database, client, counters
<1>4. CASE EndBroadcast(w)
  <2>1. HandlerTypes' /\ CounterTypes'
    BY <1>4, ReturnTypes DEF EndBroadcast
  <2>2. MapTypes'
    BY <1>4 DEF EndBroadcast, TypeOK, MapTypes
  <2>3. QED
    BY <1>4, <2>1, <2>2, UnchangedTypes DEF EndBroadcast, TypeOK, AllTypesOK,
       database, client
<1>5. ASSUME NEW v \in Workers, BroadcastTo(w, v)
      PROVE  AllTypesOK'
  <2>1. Board(w) \in Boards
    BY <1>5 DEF BroadcastTo, TypeOK, RequestFits, Fits, BroadcastSteps, At, Board
  <2>2. Deliver(v, Board(w), snapshot[w]) \/ DeliverNothing
    BY <1>5 DEF BroadcastTo
  <2>3. /\ received' \in [Workers -> [Boards -> SUBSET Elements]]
        /\ latest' \in [Workers -> [Boards -> SUBSET Elements]]
    BY <1>1, <2>1, <2>2, DeliverTypes
  <2>4. ClientTypes'
    BY <1>5, <2>3 DEF BroadcastTo, TypeOK, ClientTypes, Tear
  <2>5. HandlerTypes'
    BY <1>5 DEF BroadcastTo, TypeOK, HandlerTypes
  <2>6. QED
    BY <1>5, <2>4, <2>5, UnchangedTypes DEF BroadcastTo, TypeOK, AllTypesOK,
       map, database, counters
<1>6. QED
  BY <1>2, <1>3, <1>4, <1>5

\* A crash leaves what Init describes, except for the database.
LEMMA CrashTypes ==
  ASSUME TypeOK, Crash
  PROVE  AllTypesOK'
<1>1. HandlerTypes'
  BY NoRequestType DEF Crash, HandlerTypes, Steps
<1>2. MapTypes' /\ ClientTypes'
  BY DEF Crash, MapTypes, ClientTypes, NothingSent
<1>3. CounterTypes'
  BY BoundsAssumption DEF Crash, TypeOK, CounterTypes
<1>4. QED
  BY <1>1, <1>2, <1>3, UnchangedTypes DEF Crash, TypeOK, AllTypesOK

\* Every step keeps the types of the variables.
LEMMA NextTypes ==
  ASSUME TypeOK, Next
  PROVE  AllTypesOK'
<1>1. ASSUME NEW w \in Workers, HandlerStep(w)
      PROVE  AllTypesOK'
  <2>1. \/ MalformedId(w) \/ UpdateRejected(w)
        \/ Reply(w) \/ AssignUserId(w) \/ InsertWhiteboard(w) \/ InsertFails(w)
        \/ \/ FindOwnedBoard(w) \/ FindSharedBoard(w) \/ CheckSharedForUnicast(w)
           \/ FindAbandonedBoard(w) \/ AuthorizeAdd(w) \/ AuthorizeModify(w)
           \/ CheckSharedForBroadcast(w)
           \/ ReadElementsForUnicast(w) \/ ReadElementsForBroadcast(w)
        \/ \/ SetActiveUsers(w) \/ AddActiveUser(w) \/ PullActiveUser(w)
           \/ DeleteBoard(w) \/ PushElement(w) \/ ReplaceElement(w)
        \/ AddOwnerSocket(w) \/ AddMemberSocket(w) \/ QuitMap(w)
        \/ \/ SendUnicast(w) \/ LockForBroadcast(w) \/ EndBroadcast(w)
           \/ \E v \in Workers : BroadcastTo(w, v)
    BY <1>1 DEF HandlerStep
  <2>2. QED
    BY <2>1, ConnectionTypes, CreateTypes, ReadTypes, WriteTypes, MapStepTypes,
       SendTypes
<1>2. QED
  BY <1>1, ConnectionTypes, CrashTypes DEF Next

-----------------------------------------------------------------------------
\* A worker's step to a place that its request fits keeps all requests fitting.
LEMMA GotoFits ==
  ASSUME TypeOK, NEW w \in Workers, NEW to, NEW r, Fits(r, to),
         Goto(w, to), request' = [request EXCEPT ![w] = r]
  PROVE  RequestFits'
<1>1. ASSUME NEW v \in Workers
      PROVE  Fits(request'[v], pc'[v])
  <2>1. CASE v = w
    BY <2>1 DEF Goto, TypeOK, HandlerTypes
  <2>2. CASE v # w
    <3>1. request'[v] = request[v] /\ pc'[v] = pc[v]
      BY <2>2 DEF Goto, TypeOK, HandlerTypes
    <3>2. Fits(request[v], pc[v])
      BY DEF TypeOK, RequestFits
    <3>3. QED
      BY <3>1, <3>2
  <2>3. QED
    BY <2>1, <2>2
<1>2. QED
  BY <1>1 DEF RequestFits, Fits

\* The same for a step that keeps the request.
LEMMA StayFits ==
  ASSUME TypeOK, NEW w \in Workers, NEW to, Fits(request[w], to),
         Goto(w, to), UNCHANGED request
  PROVE  RequestFits'
<1>1. request' = [request EXCEPT ![w] = request[w]]
  BY DEF TypeOK, HandlerTypes
<1>2. QED
  BY <1>1, GotoFits

\* Any request fits the steps that need nothing of it.
LEMMA LeaveFits ==
  ASSUME TypeOK, NEW w \in Workers, NEW to \in {"idle", "read"}, Leave(w, to)
  PROVE  RequestFits'
<1>1. Fits(NoRequest, to)
  BY DEF Fits, BoardSteps, BroadcastSteps
<1>2. QED
  BY <1>1, GotoFits DEF Leave

\* Every step of a handler is one that its request fits.
LEMMA HandlerFits ==
  ASSUME TypeOK, NEW w \in Workers, HandlerStep(w)
  PROVE  RequestFits'
<1> DEFINE r == request[w]
<1>0. /\ Fits(r, pc[w])
      /\ Stored(Board(w)) => r.board \in Boards
      /\ Board(w) # BadId => r.board \in Boards
  BY DEF TypeOK, RequestFits, Board, Stored, HandlerTypes
<1>1. CASE MalformedId(w) \/ UpdateRejected(w)
  BY <1>1, LeaveFits DEF MalformedId, UpdateRejected, Close
<1>2. CASE AssignUserId(w)
  <2>1. At(w, "assign") /\ r.type \in {"createWhiteboard", "joinSession"}
    BY <1>0, <1>2 DEF AssignUserId, At, Fits
  <2>2. Fits([r EXCEPT !.user = seq],
             IF r.type = "joinSession" THEN "js_find" ELSE "cw_insert")
    BY <2>1 DEF Fits, BoardSteps, BroadcastSteps, TypeOK, HandlerTypes
  <2>3. request' = [request EXCEPT ![w] = [r EXCEPT !.user = seq]]
    BY <1>2 DEF AssignUserId, TypeOK, HandlerTypes
  <2>4. QED
    BY <1>2, <2>2, <2>3, GotoFits DEF AssignUserId
<1>3. CASE Reply(w)
  <2>1. CASE BroadcastsAfterReply(w) /\ Goto(w, "bc_check") /\ UNCHANGED request
    <3>1. Fits(r, "bc_check")
      BY <1>0, <2>1 DEF BroadcastsAfterReply, At, Fits, BoardSteps
    <3>2. QED
      BY <2>1, <3>1, StayFits
  <2>2. CASE Leave(w, "read")
    BY <2>2, LeaveFits
  <2>3. QED
    BY <1>3, <2>1, <2>2 DEF Reply
<1>4. ASSUME NEW from, NEW to, Step(w, from, to), Fits(r, from) => Fits(r, to)
      PROVE  RequestFits'
  BY <1>0, <1>4, StayFits DEF Step, At
<1>5. CASE InsertWhiteboard(w) \/ InsertFails(w)
  <2>1. /\ Fits(r, "cw_insert") => Fits(r, "reply_success")
        /\ Fits(r, "cw_insert") => Fits(r, "reply_failure")
    BY DEF Fits, BoardSteps, BroadcastSteps
  <2>2. QED
    BY <1>4, <1>5, <2>1 DEF InsertWhiteboard, InsertFails, Decide
<1>6. ASSUME r.board \in Boards,
             NEW to \in {"cs_add", "cs_set", "js_add", "js_update", "js_shared",
                         "js_elements", "js_send", "qs_find", "qs_delete",
                         "reply_success"}
      PROVE  Fits(r, to)
  BY <1>6 DEF Fits, BroadcastSteps
<1>7. Fits(r, "reply_failure") /\ Fits(r, "qs_pull")
  BY DEF Fits, BoardSteps, BroadcastSteps
<1>8. pc[w] \in BoardSteps => r.board \in Boards
  BY <1>0 DEF Fits
<1>9. CASE FindOwnedBoard(w) \/ FindSharedBoard(w)
  BY <1>0, <1>4, <1>6, <1>7, <1>9 DEF FindOwnedBoard, FindSharedBoard, Decide
<1>10. CASE \/ AddOwnerSocket(w) \/ SetActiveUsers(w) \/ AddMemberSocket(w)
            \/ AddActiveUser(w) \/ CheckSharedForUnicast(w)
            \/ FindAbandonedBoard(w) \/ DeleteBoard(w) \/ PushElement(w)
            \/ ReplaceElement(w)
  <2>1. r.board \in Boards
    BY <1>8, <1>10 DEF AddOwnerSocket, SetActiveUsers, AddMemberSocket,
       AddActiveUser, CheckSharedForUnicast, FindAbandonedBoard, DeleteBoard,
       PushElement, ReplaceElement, UpdateStep, Decide, Step, At, BoardSteps
  <2>2. QED
    BY <1>4, <1>6, <1>10, <2>1 DEF AddOwnerSocket, SetActiveUsers,
       AddMemberSocket, AddActiveUser, CheckSharedForUnicast,
       FindAbandonedBoard, DeleteBoard, PushElement, ReplaceElement, UpdateStep,
       Decide
<1>11. CASE ReadElementsForUnicast(w) \/ SendUnicast(w)
  <2>1. r.board \in Boards
    BY <1>8, <1>11 DEF ReadElementsForUnicast, SendUnicast, At, BoardSteps
  <2>2. QED
    BY <1>6, <1>11, <2>1, StayFits DEF ReadElementsForUnicast, SendUnicast
<1>12. CASE QuitMap(w)
  BY <1>7, <1>12, StayFits DEF QuitMap
<1>13. CASE PullActiveUser(w)
  BY <1>0, <1>4, <1>6, <1>13 DEF PullActiveUser, UpdateStep
<1>14. CASE AuthorizeAdd(w)
  <2>1. r.board \in Boards
    BY <1>0, <1>14 DEF AuthorizeAdd
  <2>2. /\ Fits(r, "ae_find") => Fits(r, "ae_push")
        /\ Fits(r, "ae_find") => Fits(r, "bc_check")
    BY <2>1 DEF Fits, BoardSteps, BroadcastSteps
  <2>3. QED
    BY <1>4, <1>7, <1>14, <2>2 DEF AuthorizeAdd, Decide
<1>15. CASE AuthorizeModify(w)
  <2>1. CASE At(w, "me_find") /\ Return(w)
    BY <2>1, LeaveFits DEF Return
  <2>2. CASE \/ Decide(w, "me_find", "reply_failure")
             \/ Stored(Board(w)) /\ Decide(w, "me_find", "me_update")
    <3>1. r.board \in Boards /\ Fits(r, "me_find") => Fits(r, "me_update")
      BY DEF Fits, BoardSteps, BroadcastSteps
    <3>2. QED
      BY <1>0, <1>4, <1>7, <2>2, <3>1 DEF Decide
  <2>3. QED
    BY <1>15, <2>1, <2>2 DEF AuthorizeModify
<1>16. pc[w] \in BroadcastSteps => \A to \in BroadcastSteps : Fits(r, to)
  BY <1>0 DEF Fits, BoardSteps, BroadcastSteps
<1>17. CASE \/ CheckSharedForBroadcast(w) \/ ReadElementsForBroadcast(w)
            \/ LockForBroadcast(w) \/ EndBroadcast(w)
  <2>1. CASE Return(w)
    BY <2>1, LeaveFits DEF Return
  <2>2. CASE /\ pc[w] \in BroadcastSteps
             /\ UNCHANGED request
             /\ \E to \in BroadcastSteps : Goto(w, to)
    BY <1>16, <2>2, StayFits
  <2>3. Return(w) \/ /\ pc[w] \in BroadcastSteps
                     /\ UNCHANGED request
                     /\ \E to \in BroadcastSteps : Goto(w, to)
    BY <1>17 DEF CheckSharedForBroadcast, ReadElementsForBroadcast,
       LockForBroadcast, EnterBroadcast, EndBroadcast, Decide, Step, At,
       BroadcastSteps
  <2>4. QED
    BY <2>1, <2>2, <2>3
<1>18. CASE \E v \in Workers : BroadcastTo(w, v)
  BY <1>18 DEF BroadcastTo, TypeOK, RequestFits, Fits
<1>19. QED
  BY <1>1, <1>2, <1>3, <1>5, <1>9, <1>10, <1>11, <1>12, <1>13, <1>14, <1>15,
     <1>17, <1>18 DEF HandlerStep

\* Every step keeps the requests fitting.
LEMMA NextFits ==
  ASSUME TypeOK, Next
  PROVE  RequestFits'
<1>1. ASSUME NEW w \in Workers, Accept(w)
      PROVE  RequestFits'
  <2>1. Fits(request[w], "read")
    BY DEF Fits, BoardSteps, BroadcastSteps
  <2>2. QED
    BY <1>1, <2>1, StayFits DEF Accept, Decide, Step
<1>2. ASSUME NEW w \in Workers, Disconnect(w) \/ DatabaseError(w)
      PROVE  RequestFits'
  BY <1>2, LeaveFits DEF Disconnect, DatabaseError, Close
<1>3. ASSUME NEW w \in Workers, NEW r \in Request, Receive(w, r)
      PROVE  RequestFits'
  <2>1. r.type \in {"createWhiteboard", "createSession", "joinSession",
                    "quitSession", "addElement", "modifyElement"}
    BY TypesAssumption DEF Request
  <2>2. Fits(r, FirstStep(r))
    BY <2>1 DEF Fits, FirstStep, BoardSteps, BroadcastSteps, Request
  <2>3. QED
    BY <1>3, <2>2, GotoFits DEF Receive
<1>4. CASE Crash
  <2>1. Fits(NoRequest, "idle")
    BY DEF Fits, BoardSteps, BroadcastSteps
  <2>2. QED
    BY <1>4, <2>1 DEF Crash, RequestFits, Fits
<1>5. QED
  BY <1>1, <1>2, <1>3, <1>4, HandlerFits DEF Next

-----------------------------------------------------------------------------
\* The server starts with values of the right types.
LEMMA InitTypes == Init => TypeOK
<1> SUFFICES ASSUME Init PROVE TypeOK
  OBVIOUS
<1>1. HandlerTypes
  BY NoRequestType DEF Init, HandlerTypes, Steps
<1>2. MapTypes /\ ClientTypes
  BY DEF Init, MapTypes, ClientTypes, NothingSent
<1>3. DatabaseTypes
  <2>1. docs \in [Boards -> Doc]
    BY DocsAssumption DEF Init
  <2>2. \A b \in Boards : docs[b].active \cup {docs[b].uid} \in SUBSET Nat
    BY <2>1 DEF Doc
  <2>3. QED
    BY <2>1, <2>2, UsersAssumption DEF Init, DatabaseTypes
<1>4. CounterTypes
  BY BoundsAssumption DEF Init, CounterTypes
<1>5. RequestFits
  <2>1. Fits(NoRequest, "idle")
    BY DEF Fits, BoardSteps, BroadcastSteps
  <2>2. QED
    BY <2>1 DEF Init, RequestFits
<1>6. QED
  BY <1>1, <1>2, <1>3, <1>4, <1>5 DEF TypeOK

\* A step keeps TypeOK, and so does a stutter.
LEMMA TypeStep == TypeOK /\ [Next]_vars => TypeOK'
<1>1. ASSUME TypeOK, Next PROVE TypeOK'
  BY <1>1, NextTypes, NextFits DEF AllTypesOK, TypeOK
<1>2. ASSUME TypeOK, UNCHANGED vars PROVE TypeOK'
  <2>1. HandlerTypes' /\ RequestFits'
    BY <1>2 DEF vars, loop, TypeOK, HandlerTypes, RequestFits, Fits
  <2>2. QED
    BY <1>2, <2>1, UnchangedTypes DEF vars, TypeOK
<1>3. QED
  BY <1>1, <1>2

\* In every state of the server the variables have their types, and each
\* handler runs for its type of request, on a whiteboard id that is an object
\* id from the step on that parses it (server.cpp 99-128, 249-749).
THEOREM TypeCorrect == Spec => []TypeOK
  BY InitTypes, TypeStep, PTL DEF Spec

-----------------------------------------------------------------------------
\* A step of a worker that neither sends a broadcast nor comes to send one
\* leaves the mutex as it is.
LEMMA MutexAside ==
  ASSUME TypeOK, MutexHeldBySender, NEW w \in Workers, NEW to,
         to # "bc_send", pc[w] # "bc_send", Goto(w, to), UNCHANGED map_mutex
  PROVE  MutexHeldBySender'
  BY DEF MutexHeldBySender, Goto, TypeOK, HandlerTypes

\* Which steps are aside in that sense.
LEMMA StepsAside ==
  ASSUME TypeOK, NEW w \in Workers,
         \/ Accept(w) \/ Disconnect(w) \/ DatabaseError(w)
         \/ \E r \in Request : Receive(w, r)
         \/ HandlerStep(w)
  PROVE  \/ LockForBroadcast(w) \/ EndBroadcast(w)
         \/ \E v \in Workers : BroadcastTo(w, v)
         \/ /\ pc[w] # "bc_send"
            /\ UNCHANGED map_mutex
            /\ \E to \in Steps \ {"bc_send"} : Goto(w, to)
<1> DEFINE Aside == /\ pc[w] # "bc_send"
                    /\ UNCHANGED map_mutex
                    /\ \E to \in Steps \ {"bc_send"} : Goto(w, to)
<1>0. {"idle", "read", "assign", "cw_insert", "cs_find", "cs_add", "cs_set",
       "js_find", "js_add", "js_update", "js_shared", "js_elements", "js_send",
       "qs_remove", "qs_pull", "qs_find", "qs_delete", "ae_find", "ae_push",
       "me_find", "me_update", "reply_success", "reply_failure",
       "bc_check", "bc_find", "bc_lock"} \subseteq Steps \ {"bc_send"}
  BY DEF Steps
<1>1. ASSUME Close(w), pc[w] # "bc_send" PROVE Aside
  BY <1>0, <1>1 DEF Close, Leave, map
<1>2. CASE Disconnect(w) \/ DatabaseError(w) \/ MalformedId(w) \/ UpdateRejected(w)
  BY <1>1, <1>2 DEF Disconnect, DatabaseError, MalformedId, UpdateRejected, At
<1>3. CASE Accept(w)
  BY <1>0, <1>3 DEF Accept, Decide, Step, At, map
<1>4. ASSUME NEW r \in Request, Receive(w, r)
      PROVE  Aside
  <2>1. FirstStep(r) \in Steps \ {"bc_send"}
    <3>1. r.type \in {"createWhiteboard", "createSession", "joinSession",
                      "quitSession", "addElement", "modifyElement"}
      BY TypesAssumption DEF Request
    <3>2. QED
      BY <1>0, <3>1 DEF FirstStep
  <2>2. QED
    BY <1>4, <2>1 DEF Receive, At, map
<1>5. CASE AssignUserId(w) \/ Reply(w) \/ InsertWhiteboard(w) \/ InsertFails(w)
  BY <1>0, <1>5 DEF AssignUserId, Reply, InsertWhiteboard, InsertFails, Decide,
     Step, Leave, At, map
<1>6. CASE \/ FindOwnedBoard(w) \/ FindSharedBoard(w) \/ CheckSharedForUnicast(w)
           \/ FindAbandonedBoard(w) \/ AuthorizeAdd(w)
  BY <1>0, <1>6 DEF FindOwnedBoard, FindSharedBoard, CheckSharedForUnicast,
     FindAbandonedBoard, AuthorizeAdd, Decide, Step, At, map
<1>7. CASE \/ AuthorizeModify(w) \/ CheckSharedForBroadcast(w)
           \/ ReadElementsForUnicast(w) \/ ReadElementsForBroadcast(w)
  BY <1>0, <1>7 DEF AuthorizeModify, CheckSharedForBroadcast,
     ReadElementsForUnicast, ReadElementsForBroadcast, Decide, Step, Return,
     Leave, At, map
<1>8. CASE \/ SetActiveUsers(w) \/ AddActiveUser(w) \/ PullActiveUser(w)
           \/ DeleteBoard(w) \/ PushElement(w) \/ ReplaceElement(w)
  BY <1>0, <1>8 DEF SetActiveUsers, AddActiveUser, PullActiveUser, DeleteBoard,
     PushElement, ReplaceElement, UpdateStep, Step, At, map
<1>9. CASE AddOwnerSocket(w) \/ AddMemberSocket(w)
  BY <1>0, <1>9 DEF AddOwnerSocket, AddMemberSocket, AddSocket, Step, At
<1>10. CASE QuitMap(w)
  BY <1>0, <1>10 DEF QuitMap, RemoveSocket, RaceOnMap, At
<1>11. CASE SendUnicast(w)
  BY <1>0, <1>11 DEF SendUnicast, At, map
<1>12. QED
  BY <1>2, <1>3, <1>4, <1>5, <1>6, <1>7, <1>8, <1>9, <1>10, <1>11
     DEF HandlerStep

\* Initially, and after a crash, nobody holds the mutex and nobody sends.
LEMMA MutexInit == Init => MutexHeldBySender
  BY OutsideAssumption DEF Init, MutexHeldBySender

\* Taking the mutex and releasing it go with coming to send and being done.
LEMMA MutexStep ==
  TypeOK /\ MutexHeldBySender /\ [Next]_vars => MutexHeldBySender'
<1> SUFFICES ASSUME TypeOK, MutexHeldBySender, [Next]_vars
             PROVE  MutexHeldBySender'
  OBVIOUS
<1>1. ASSUME NEW w \in Workers, LockForBroadcast(w)
      PROVE  MutexHeldBySender'
  BY <1>1, OutsideAssumption DEF LockForBroadcast, EnterBroadcast, Goto, At,
     MutexHeldBySender, TypeOK, HandlerTypes
<1>2. ASSUME NEW w \in Workers, EndBroadcast(w)
      PROVE  MutexHeldBySender'
  BY <1>2, OutsideAssumption DEF EndBroadcast, Return, Leave, Goto, At,
     MutexHeldBySender, TypeOK, HandlerTypes
<1>3. ASSUME NEW w \in Workers, NEW v \in Workers, BroadcastTo(w, v)
      PROVE  MutexHeldBySender'
  BY <1>3 DEF BroadcastTo, MutexHeldBySender, map
<1>4. CASE Crash
  BY <1>4, OutsideAssumption DEF Crash, MutexHeldBySender
<1>5. CASE UNCHANGED vars
  BY <1>5 DEF MutexHeldBySender, vars, map
<1>6. ASSUME NEW w \in Workers,
             \/ Accept(w) \/ Disconnect(w) \/ DatabaseError(w)
             \/ \E r \in Request : Receive(w, r)
             \/ HandlerStep(w)
      PROVE  MutexHeldBySender'
  BY <1>1, <1>2, <1>3, <1>6, StepsAside, MutexAside
<1>7. QED
  BY <1>4, <1>5, <1>6 DEF Next

\* map_mutex is never left locked by a handler that returned, threw or was cut
\* short by a crash, and two broadcasts never overlap (server.cpp 793-798).
THEOREM MutexCorrect == Spec => []MutexHeldBySender
<1>1. Init => TypeOK /\ MutexHeldBySender
  BY InitTypes, MutexInit
<1>2. TypeOK /\ MutexHeldBySender /\ [Next]_vars => (TypeOK /\ MutexHeldBySender)'
  BY TypeStep, MutexStep
<1>3. QED
  BY <1>1, <1>2, PTL DEF Spec

-----------------------------------------------------------------------------
\* A step after which no socket is missing and no connection has joined more.
LEMMA MembersKept ==
  ASSUME MemberRegistered, session_keys \subseteq session_keys',
         UNCHANGED <<session_sockets, corrupt>>,
         \A v \in Workers : joined'[v] \subseteq joined[v]
  PROVE  MemberRegistered'
  BY DEF MemberRegistered

\* Closing a connection leaves its socket in the map, but it is no member.
LEMMA CloseKeepsMembers ==
  ASSUME TypeOK, MemberRegistered, NEW w \in Workers, Close(w)
  PROVE  MemberRegistered'
<1>1. \A v \in Workers : joined'[v] \subseteq joined[v]
  BY DEF Close, TypeOK, ClientTypes
<1>2. QED
  BY <1>1, MembersKept DEF Close, map

\* Adding a socket to an entry takes none out of it.
LEMMA AddKeepsMembers ==
  ASSUME TypeOK, MemberRegistered, NEW w \in Workers, AddSocket(w),
         Board(w) \in Boards
  PROVE  MemberRegistered'
<1> SUFFICES ASSUME ~corrupt', NEW v \in Workers, NEW b \in joined'[v]
             PROVE  b \in session_keys' /\ v \in session_sockets'[b]
  BY DEF MemberRegistered
<1>1. ~corrupt /\ b \in Boards
  BY DEF AddSocket, TypeOK, ClientTypes
<1>2. CASE b \in joined[v]
  <2>1. b \in session_keys /\ v \in session_sockets[b]
    BY <1>1, <1>2 DEF MemberRegistered
  <2>2. session_sockets[b] \subseteq session_sockets'[b]
    BY <1>1 DEF AddSocket, TypeOK, MapTypes
  <2>3. QED
    BY <2>1, <2>2 DEF AddSocket
<1>3. CASE b \notin joined[v]
  <2>1. v = w /\ b = Board(w)
    BY <1>3 DEF AddSocket, TypeOK, ClientTypes
  <2>2. QED
    BY <2>1 DEF AddSocket, TypeOK, MapTypes
<1>4. QED
  BY <1>2, <1>3

\* Removing a socket, when nobody else is in the map, takes out that socket
\* alone, and the entry only when it was the last one.
LEMMA QuitKeepsMembers ==
  ASSUME TypeOK, MemberRegistered, NEW w \in Workers, QuitMap(w)
  PROVE  MemberRegistered'
<1>1. CASE RaceOnMap(w)
  BY <1>1 DEF RaceOnMap, MemberRegistered
<1>2. CASE RemoveSocket(w)
  <2> SUFFICES ASSUME ~corrupt', NEW v \in Workers, NEW b \in joined'[v]
               PROVE  b \in session_keys' /\ v \in session_sockets'[b]
    BY DEF MemberRegistered
  <2>1. b \in joined[v] /\ b \in Boards /\ (v = w => b # Board(w))
    BY DEF QuitMap, TypeOK, ClientTypes
  <2>2. b \in session_keys /\ v \in session_sockets[b]
    BY <1>2, <2>1 DEF RemoveSocket, MemberRegistered
  <2>3. CASE b # Board(w)
    BY <1>2, <2>1, <2>2, <2>3 DEF RemoveSocket, TypeOK, MapTypes
  <2>4. CASE b = Board(w)
    <3>1. v # w /\ v \in session_sockets[b] \ {w}
      BY <2>1, <2>2, <2>4
    <3>2. QED
      BY <1>2, <2>1, <2>2, <2>4, <3>1 DEF RemoveSocket, TypeOK, MapTypes
  <2>5. QED
    BY <2>3, <2>4
<1>3. QED
  BY <1>1, <1>2 DEF QuitMap

\* All steps together.
LEMMA MemberStep ==
  TypeOK /\ MemberRegistered /\ [Next]_vars => MemberRegistered'
<1> SUFFICES ASSUME TypeOK, MemberRegistered, [Next]_vars
             PROVE  MemberRegistered'
  OBVIOUS
<1>1. ASSUME UNCHANGED <<session_sockets, corrupt, joined>>,
             session_keys \subseteq session_keys'
      PROVE  MemberRegistered'
  BY <1>1, MembersKept
<1>2. ASSUME UNCHANGED map, UNCHANGED client PROVE MemberRegistered'
  BY <1>1, <1>2 DEF map, client
<1>3. ASSUME NEW w \in Workers, HandlerStep(w) PROVE MemberRegistered'
  <2>1. CASE MalformedId(w) \/ UpdateRejected(w)
    BY <2>1, CloseKeepsMembers DEF MalformedId, UpdateRejected
  <2>2. CASE AssignUserId(w) \/ Reply(w) \/ SendUnicast(w)
    BY <1>1, <2>2 DEF AssignUserId, Reply, SendUnicast, map
  <2>3. CASE \/ InsertWhiteboard(w) \/ InsertFails(w)
             \/ FindOwnedBoard(w) \/ FindSharedBoard(w)
             \/ CheckSharedForUnicast(w) \/ FindAbandonedBoard(w)
             \/ AuthorizeAdd(w) \/ AuthorizeModify(w)
             \/ CheckSharedForBroadcast(w)
    BY <1>2, <2>3 DEF InsertWhiteboard, InsertFails, FindOwnedBoard,
       FindSharedBoard, CheckSharedForUnicast, FindAbandonedBoard, AuthorizeAdd,
       AuthorizeModify, CheckSharedForBroadcast, Decide
  <2>4. CASE ReadElementsForUnicast(w) \/ ReadElementsForBroadcast(w)
    BY <1>1, <2>4 DEF ReadElementsForUnicast, ReadElementsForBroadcast,
       ReadElements, map, client
  <2>5. CASE \/ SetActiveUsers(w) \/ AddActiveUser(w) \/ PullActiveUser(w)
             \/ DeleteBoard(w) \/ PushElement(w) \/ ReplaceElement(w)
    BY <1>2, <2>5 DEF SetActiveUsers, AddActiveUser, PullActiveUser, DeleteBoard,
       PushElement, ReplaceElement, UpdateStep
  <2>6. CASE AddOwnerSocket(w) \/ AddMemberSocket(w)
    <3>1. AddSocket(w) /\ Board(w) \in Boards
      BY <2>6 DEF AddOwnerSocket, AddMemberSocket, Step, At, TypeOK, RequestFits,
         Fits, BoardSteps, Board
    <3>2. QED
      BY <3>1, AddKeepsMembers
  <2>7. CASE QuitMap(w)
    BY <2>7, QuitKeepsMembers
  <2>8. CASE LockForBroadcast(w) \/ EndBroadcast(w)
    BY <1>1, <2>8 DEF LockForBroadcast, EnterBroadcast, EndBroadcast, client
  <2>9. CASE \E v \in Workers : BroadcastTo(w, v)
    BY <1>1, <2>9 DEF BroadcastTo, map
  <2>10. QED
    BY <1>3, <2>1, <2>2, <2>3, <2>4, <2>5, <2>6, <2>7, <2>8, <2>9
    DEF HandlerStep
<1>4. ASSUME NEW w \in Workers,
             \/ Accept(w) \/ Disconnect(w) \/ DatabaseError(w)
             \/ \E r \in Request : Receive(w, r)
      PROVE  MemberRegistered'
  BY <1>2, <1>4, CloseKeepsMembers DEF Accept, Decide, Disconnect, DatabaseError,
     Receive
<1>5. CASE Crash
  BY <1>5 DEF Crash, MemberRegistered
<1>6. CASE UNCHANGED vars
  BY <1>2, <1>6 DEF vars
<1>7. QED
  BY <1>3, <1>4, <1>5, <1>6 DEF Next

\* A connection that opened or joined a session and did not quit it is found
\* in the session's entry, as long as no unlocked removal raced with another
\* access to the map (server.hpp 41-67).
THEOREM MembersStayRegistered == Spec => []MemberRegistered
<1>1. Init => TypeOK /\ MemberRegistered
  BY InitTypes DEF Init, MemberRegistered
<1>2. TypeOK /\ MemberRegistered /\ [Next]_vars => (TypeOK /\ MemberRegistered)'
  BY TypeStep, MemberStep
<1>3. QED
  BY <1>1, <1>2, PTL DEF Spec

-----------------------------------------------------------------------------
\* No reply was sent before the step that sends it; a broadcast follows at
\* most one reply.
AnswersFit ==
  \A w \in Workers :
    /\ pc[w] \in BroadcastSteps => answers[w] \in {0, 1}
    /\ pc[w] \notin BroadcastSteps \cup {"idle", "read"} => answers[w] = 0

\* A handler returns after its reply or from a broadcast; without a reply it
\* returns, or goes on to the broadcast, only for a user who may not draw.
LEMMA HandlerMoves ==
  ASSUME TypeOK, NEW w \in Workers, HandlerStep(w)
  PROVE  \/ Reply(w)
         \/ Close(w)
         \/ Return(w) /\ (pc[w] \in BroadcastSteps \/ (pc[w] = "me_find" /\ Unauthorised(w)))
         \/ UNCHANGED <<pc, answers>> /\ pc[w] = "bc_send"
         \/ /\ UNCHANGED answers
            /\ \E to \in Steps \ {"idle", "read"} :
                 /\ Goto(w, to)
                 /\ pc[w] \in BroadcastSteps => to \in BroadcastSteps
                 /\ to \in BroadcastSteps => pc[w] \in BroadcastSteps \/ Unauthorised(w)
            /\ pc[w] \notin {"idle", "read"}
<1> DEFINE Moves ==
             /\ UNCHANGED answers
             /\ \E to \in Steps \ {"idle", "read"} :
                  /\ Goto(w, to)
                  /\ pc[w] \in BroadcastSteps => to \in BroadcastSteps
                  /\ to \in BroadcastSteps => pc[w] \in BroadcastSteps \/ Unauthorised(w)
             /\ pc[w] \notin {"idle", "read"}
<1>0. {"assign", "cw_insert", "cs_find", "cs_add", "cs_set",
       "js_find", "js_add", "js_update", "js_shared", "js_elements", "js_send",
       "qs_remove", "qs_pull", "qs_find", "qs_delete", "ae_find", "ae_push",
       "me_find", "me_update", "reply_success", "reply_failure",
       "bc_check", "bc_find", "bc_lock", "bc_send"} \subseteq Steps \ {"idle", "read"}
  BY DEF Steps
<1>1. CASE MalformedId(w) \/ UpdateRejected(w)
  BY <1>1 DEF MalformedId, UpdateRejected
<1>2. CASE AssignUserId(w) \/ InsertWhiteboard(w) \/ InsertFails(w)
  <2>1. Moves
    BY <1>0, <1>2 DEF AssignUserId, InsertWhiteboard, InsertFails, Decide, Step,
       At, BroadcastSteps
  <2>2. QED
    BY <2>1
<1>3. CASE \/ FindOwnedBoard(w) \/ FindSharedBoard(w) \/ CheckSharedForUnicast(w)
           \/ FindAbandonedBoard(w)
  <2>1. Moves
    BY <1>0, <1>3 DEF FindOwnedBoard, FindSharedBoard, CheckSharedForUnicast,
       FindAbandonedBoard, Decide, Step, At, BroadcastSteps
  <2>2. QED
    BY <2>1
<1>10. CASE AuthorizeAdd(w)
  <2>1. At(w, "ae_find") /\ UNCHANGED answers
    BY <1>10 DEF AuthorizeAdd, Decide, Step
  <2>2. \/ Goto(w, "reply_failure")
        \/ Goto(w, "ae_push")
        \/ (Goto(w, "bc_check") /\ Unauthorised(w))
    BY <1>10, <2>1 DEF AuthorizeAdd, Decide, Step, MayAdd, Unauthorised
  <2>3. Moves
    BY <1>0, <2>1, <2>2 DEF At, BroadcastSteps
  <2>4. QED
    BY <2>3
<1>11. CASE AuthorizeModify(w)
  <2>1. \/ Moves
        \/ /\ Return(w) /\ At(w, "me_find") /\ Stored(Board(w))
           /\ User(w) \notin docs[Board(w)].active
    BY <1>0, <1>11 DEF AuthorizeModify, Decide, Step, At, BroadcastSteps
  <2>2. QED
    BY <2>1 DEF Unauthorised, At
<1>4. CASE CheckSharedForBroadcast(w) \/ ReadElementsForBroadcast(w)
  <2>1. Moves \/ (Return(w) /\ pc[w] \in BroadcastSteps)
    BY <1>0, <1>4 DEF CheckSharedForBroadcast,
       ReadElementsForBroadcast, Decide, Step, At, BroadcastSteps
  <2>2. QED
    BY <2>1
<1>5. CASE \/ SetActiveUsers(w) \/ AddActiveUser(w) \/ PullActiveUser(w)
           \/ DeleteBoard(w) \/ PushElement(w) \/ ReplaceElement(w)
  <2>1. Moves
    BY <1>0, <1>5 DEF SetActiveUsers, AddActiveUser, PullActiveUser, DeleteBoard,
       PushElement, ReplaceElement, UpdateStep, Step, At, BroadcastSteps
  <2>2. QED
    BY <2>1
<1>6. CASE \/ AddOwnerSocket(w) \/ AddMemberSocket(w) \/ QuitMap(w)
           \/ ReadElementsForUnicast(w) \/ SendUnicast(w)
  <2>1. Moves
    BY <1>0, <1>6 DEF AddOwnerSocket, AddMemberSocket, QuitMap,
       ReadElementsForUnicast, SendUnicast, Step, At, BroadcastSteps
  <2>2. QED
    BY <2>1
<1>7. CASE LockForBroadcast(w) \/ EndBroadcast(w)
  <2>1. Moves \/ (Return(w) /\ pc[w] \in BroadcastSteps)
    BY <1>0, <1>7 DEF LockForBroadcast, EnterBroadcast, EndBroadcast, At,
       BroadcastSteps
  <2>2. QED
    BY <2>1
<1>8. CASE \E v \in Workers : BroadcastTo(w, v)
  BY <1>8 DEF BroadcastTo, At
<1>9. QED
  BY <1>1, <1>2, <1>3, <1>4, <1>5, <1>6, <1>7, <1>8, <1>10, <1>11 DEF HandlerStep

\* What AnsweredOnce says of one worker's part in a step.
Counted(w) ==
  pc[w] \notin {"idle", "read"} /\ pc'[w] # "idle" =>
    IF pc[w] \in BroadcastSteps
    THEN answers'[w] = answers[w]
    ELSE pc'[w] \in BroadcastSteps \cup {"read"} =>
           answers'[w] = 1 \/ (answers'[w] = 0 /\ Unauthorised(w))

AnswersStep == \A w \in Workers : Counted(w)

\* A worker that does not move, and sends no reply, is counted.
LEMMA StillCounted ==
  ASSUME NEW w \in Workers, pc'[w] = pc[w], answers'[w] = answers[w]
  PROVE  Counted(w)
<1>1. QED
  BY DEF Counted

\* Only the worker that takes a step has its number of replies changed, and
\* what a step of a handler leads to is counted right.
LEMMA HandlerAnswers ==
  ASSUME TypeOK, AnswersFit, NEW w \in Workers, HandlerStep(w)
  PROVE  AnswersFit' /\ AnswersStep
<1> SUFFICES /\ AnswersFit' /\ Counted(w)
             /\ \A v \in Workers \ {w} : pc'[v] = pc[v] /\ answers'[v] = answers[v]
  BY StillCounted DEF AnswersStep
<1>1. CASE Reply(w)
  <2>1. answers[w] = 0 /\ pc[w] \in {"reply_success", "reply_failure"}
    BY <1>1 DEF Reply, AnswersFit, BroadcastSteps
  <2>2. answers' = [answers EXCEPT ![w] = 1]
    BY <1>1, <2>1 DEF Reply, TypeOK, HandlerTypes
  <2>3. Goto(w, "bc_check") \/ Goto(w, "read")
    BY <1>1 DEF Reply, Leave
  <2>4. QED
    BY <2>1, <2>2, <2>3 DEF Goto, AnswersFit, Counted, BroadcastSteps, TypeOK,
       HandlerTypes
<1>2. CASE Close(w)
  <2>1. /\ Goto(w, "idle")
        /\ answers' = [answers EXCEPT ![w] = 0]
    BY <1>2 DEF Close, Leave
  <2>2. QED
    BY <2>1 DEF Goto, AnswersFit, Counted, BroadcastSteps, TypeOK, HandlerTypes
<1>3. CASE Return(w) /\ (pc[w] \in BroadcastSteps \/ (pc[w] = "me_find" /\ Unauthorised(w)))
  <2>1. Goto(w, "read") /\ UNCHANGED answers
    BY <1>3 DEF Return, Leave
  <2>2. pc[w] \notin BroadcastSteps => answers[w] = 0 /\ Unauthorised(w)
    BY <1>3 DEF AnswersFit, BroadcastSteps
  <2>3. QED
    BY <2>1, <2>2 DEF Goto, AnswersFit, Counted, BroadcastSteps, TypeOK, HandlerTypes
<1>4. CASE UNCHANGED <<pc, answers>> /\ pc[w] = "bc_send"
  BY <1>4 DEF AnswersFit, Counted
<1>5. CASE /\ UNCHANGED answers
           /\ \E to \in Steps \ {"idle", "read"} :
                /\ Goto(w, to)
                /\ pc[w] \in BroadcastSteps => to \in BroadcastSteps
                /\ to \in BroadcastSteps => pc[w] \in BroadcastSteps \/ Unauthorised(w)
           /\ pc[w] \notin {"idle", "read"}
  <2>1. PICK to \in Steps \ {"idle", "read"} :
          /\ Goto(w, to)
          /\ pc[w] \in BroadcastSteps => to \in BroadcastSteps
          /\ to \in BroadcastSteps => pc[w] \in BroadcastSteps \/ Unauthorised(w)
    BY <1>5
  <2>2. answers[w] \in {0, 1} /\ (pc[w] \notin BroadcastSteps => answers[w] = 0)
    BY <1>5 DEF AnswersFit
  <2>3. AnswersFit'
    BY <1>5, <2>1, <2>2 DEF Goto, AnswersFit, TypeOK, HandlerTypes
  <2>4. pc'[w] = to /\ \A v \in Workers \ {w} : pc'[v] = pc[v]
    BY <2>1 DEF Goto, TypeOK, HandlerTypes
  <2>5. Counted(w)
    BY <1>5, <2>1, <2>2, <2>4 DEF Counted
  <2>6. QED
    BY <1>5, <2>3, <2>4, <2>5
<1>6. QED
  BY <1>1, <1>2, <1>3, <1>4, <1>5, HandlerMoves

\* The steps of connections start or abandon a handler, and never end one.
LEMMA ConnectionAnswers ==
  ASSUME TypeOK, AnswersFit, NEW w \in Workers,
         \/ Accept(w) \/ Disconnect(w) \/ DatabaseError(w)
         \/ \E r \in Request : Receive(w, r)
  PROVE  AnswersFit' /\ AnswersStep
<1>1. CASE Accept(w)
  BY <1>1 DEF Accept, Decide, Step, Goto, At, AnswersFit, AnswersStep, Counted,
     BroadcastSteps, TypeOK, HandlerTypes
<1>2. CASE Disconnect(w) \/ DatabaseError(w)
  <2>1. Goto(w, "idle") /\ answers' = [answers EXCEPT ![w] = 0]
    BY <1>2 DEF Disconnect, DatabaseError, Close, Leave
  <2>2. QED
    BY <2>1 DEF Goto, AnswersFit, AnswersStep, Counted, BroadcastSteps, TypeOK, HandlerTypes
<1>3. ASSUME NEW r \in Request, Receive(w, r)
      PROVE  AnswersFit' /\ AnswersStep
  <2>1. FirstStep(r) \notin BroadcastSteps \cup {"idle", "read"}
    <3>1. r.type \in {"createWhiteboard", "createSession", "joinSession",
                      "quitSession", "addElement", "modifyElement"}
      BY TypesAssumption DEF Request
    <3>2. QED
      BY <3>1 DEF FirstStep, BroadcastSteps
  <2>2. QED
    BY <1>3, <2>1 DEF Receive, Goto, At, AnswersFit, AnswersStep, Counted, TypeOK,
       HandlerTypes
<1>4. QED
  BY <1>1, <1>2, <1>3

\* All steps together.
LEMMA AnswersNext ==
  TypeOK /\ AnswersFit /\ [Next]_vars => AnswersFit' /\ [AnswersStep]_vars
<1> SUFFICES ASSUME TypeOK, AnswersFit, [Next]_vars
             PROVE  AnswersFit' /\ [AnswersStep]_vars
  OBVIOUS
<1>1. ASSUME NEW w \in Workers, HandlerStep(w)
      PROVE  AnswersFit' /\ AnswersStep
  BY <1>1, HandlerAnswers
<1>2. CASE Crash
  BY <1>2 DEF Crash, AnswersFit, AnswersStep, Counted, BroadcastSteps
<1>3. CASE UNCHANGED vars
  BY <1>3 DEF vars, AnswersFit
<1>4. QED
  BY <1>1, <1>2, <1>3, ConnectionAnswers DEF Next

\* A handler sends one reply by the time it returns or broadcasts, unless it has
\* just found that the user may not draw; none sends two (server.cpp 249-749).
THEOREM RepliesCounted == Spec => AnsweredOnce
<1>1. Init => TypeOK /\ AnswersFit
  BY InitTypes DEF Init, AnswersFit
<1>2. TypeOK /\ AnswersFit /\ [Next]_vars
        => (TypeOK /\ AnswersFit)' /\ [AnswersStep]_vars
  BY TypeStep, AnswersNext
<1>3. Spec => [][AnswersStep]_vars
  BY <1>1, <1>2, PTL DEF Spec
<1>4. QED
  BY <1>3 DEF AnsweredOnce, AnswersStep, Counted

-----------------------------------------------------------------------------
\* Documents and the history of their users agree.
DocsFit ==
  \A b \in Boards :
    /\ docs[b].active # {} => docs[b].shared
    /\ docs[b].state = "stored" => docs[b].active \cup {docs[b].uid} \subseteq granted[b]

\* What a handler found out about the document before, and still holds.
Knows(r, step) ==
  LET d == docs[r.board] IN
  /\ step \in {"cs_add", "cs_set", "js_add", "js_update", "qs_delete",
               "ae_push", "me_update"} => d.state # "unborn"
  /\ step \in {"cs_add", "cs_set"} => d.uid = r.user
  /\ step \in {"js_add", "js_update", "qs_delete", "me_update"} => d.shared
  /\ step \in {"ae_push", "me_update"} => r.user \in granted[r.board]

HandlersKnow == \A w \in Workers : Knows(request[w], pc[w])

Inv == TypeOK /\ DocsFit /\ HandlersKnow

\* Why it still holds: a document that exists keeps its owner, stays shared
\* and keeps the users it was ever granted to.
Growth ==
  \A b \in Boards :
    docs[b].state # "unborn" =>
      /\ docs'[b].state # "unborn"
      /\ docs'[b].uid = docs[b].uid
      /\ docs[b].shared => docs'[b].shared
      /\ granted[b] \subseteq granted'[b]

\* An update of a stored document that keeps what it was granted.
LEMMA UpdateGrows ==
  ASSUME TypeOK, DocsFit, NEW b \in Boards, Stored(b), NEW d \in Doc,
         docs' = [docs EXCEPT ![b] = d],
         d.state # "unborn", d.uid = docs[b].uid, docs[b].shared => d.shared,
         d.active # {} => d.shared,
         NEW g \in SUBSET Nat, granted' = [granted EXCEPT ![b] = @ \cup g],
         d.active \subseteq docs[b].active \cup g
  PROVE  Growth /\ DocsFit'
<1>1. /\ docs'[b] = d /\ granted'[b] = granted[b] \cup g
      /\ \A c \in Boards \ {b} : docs'[c] = docs[c] /\ granted'[c] = granted[c]
  BY DEF TypeOK, DatabaseTypes
<1>2. docs[b].active \cup {docs[b].uid} \subseteq granted[b]
  BY DEF Stored, DocsFit
<1>3. Growth
  BY <1>1 DEF Growth
<1>4. DocsFit'
  <2>1. d.active \cup {d.uid} \subseteq granted'[b]
    BY <1>1, <1>2
  <2>2. QED
    BY <1>1, <2>1 DEF DocsFit
<1>5. QED
  BY <1>3, <1>4

\* The same for the updates that grant nobody anything.
LEMMA UpdateKeeps ==
  ASSUME TypeOK, DocsFit, NEW b \in Boards, Stored(b), NEW d \in Doc,
         docs' = [docs EXCEPT ![b] = d], UNCHANGED granted,
         d.state # "unborn", d.uid = docs[b].uid, docs[b].shared => d.shared,
         d.active # {} => d.shared, d.active \subseteq docs[b].active
  PROVE  Growth /\ DocsFit'
<1>1. granted' = [granted EXCEPT ![b] = @ \cup {}]
  BY DEF TypeOK, DatabaseTypes
<1>2. {} \in SUBSET Nat /\ d.active \subseteq docs[b].active \cup {}
  OBVIOUS
<1>3. QED
  BY <1>1, <1>2, UpdateGrows

\* A step that leaves the documents and their users alone.
LEMMA IdleGrows ==
  ASSUME DocsFit, UNCHANGED <<docs, granted>>
  PROVE  Growth /\ DocsFit'
  BY DEF Growth, DocsFit

\* The steps that write to a document: each is a step of BoardStore.
LEMMA WriteSteps ==
  ASSUME Inv, NEW w \in Workers,
         \/ SetActiveUsers(w) \/ AddActiveUser(w) \/ PullActiveUser(w)
         \/ DeleteBoard(w) \/ PushElement(w) \/ ReplaceElement(w)
  PROVE  Growth /\ DocsFit' /\ [Store!Next]_docs
<1> DEFINE b == Board(w)
           u == User(w)
<1>1. /\ TypeOK /\ DocsFit
      /\ u \in Nat /\ u = request[w].user /\ b = request[w].board
      /\ Fits(request[w], pc[w]) /\ Knows(request[w], pc[w])
  BY DEF Inv, HandlersKnow, TypeOK, HandlerTypes, RequestFits, User, Board
<1>2. CASE ~Stored(b)
  <2>1. UNCHANGED <<docs, granted>>
    BY <1>2 DEF SetActiveUsers, AddActiveUser, PullActiveUser, DeleteBoard,
       PushElement, ReplaceElement, UpdateStep, UpdateOne, Grant
  <2>2. QED
    BY <1>1, <2>1, IdleGrows
<1>3. CASE Stored(b)
  <2>0. /\ b \in Boards /\ docs[b] \in Doc /\ docs[b].state = "stored"
        /\ docs \in [Boards -> Doc] /\ granted \in [Boards -> SUBSET Nat]
    BY <1>1, <1>3 DEF Stored, TypeOK, DatabaseTypes
  <2>1. CASE SetActiveUsers(w)
    <3> DEFINE d == [docs[b] EXCEPT !.shared = TRUE, !.active = {u}]
    <3>1. docs[b].uid = u
      BY <1>1, <2>1 DEF SetActiveUsers, UpdateStep, Step, At, Knows
    <3>2. /\ docs' = [docs EXCEPT ![b] = d]
          /\ granted' = [granted EXCEPT ![b] = @ \cup {u}]
      BY <1>3, <2>1 DEF SetActiveUsers, UpdateStep, UpdateOne, Grant
    <3>3. /\ d \in Doc /\ d.state = "stored" /\ d.uid = u /\ d.shared
          /\ d.active = {u} /\ {u} \in SUBSET Nat
      BY <1>1, <2>0, <3>1 DEF Doc
    <3>4. Growth /\ DocsFit'
      <4>1. /\ d.state # "unborn" /\ d.uid = docs[b].uid
            /\ d.active \subseteq docs[b].active \cup {u}
        BY <3>1, <3>3
      <4> HIDE DEF d
      <4>2. QED
        BY <1>1, <1>3, <2>0, <3>2, <3>3, <4>1, UpdateGrows
    <3>5. Store!Share(b)
      BY <2>0, <3>1, <3>2 DEF Store!Share, Store!Become
    <3>6. QED
      BY <2>0, <3>4, <3>5 DEF Store!Next
  <2>2. CASE AddActiveUser(w)
    <3> DEFINE d == [docs[b] EXCEPT !.active = @ \cup {u}]
    <3>1. docs[b].shared
      BY <1>1, <2>2 DEF AddActiveUser, UpdateStep, Step, At, Knows
    <3>2. /\ docs' = [docs EXCEPT ![b] = d]
          /\ granted' = [granted EXCEPT ![b] = @ \cup {u}]
      BY <1>3, <2>2 DEF AddActiveUser, UpdateStep, UpdateOne, Grant
    <3>3. /\ d \in Doc /\ d.state = "stored" /\ d.uid = docs[b].uid /\ d.shared
          /\ d.active = docs[b].active \cup {u} /\ {u} \in SUBSET Nat
      BY <1>1, <2>0, <3>1 DEF Doc
    <3>4. Growth /\ DocsFit'
      BY <1>1, <1>3, <2>0, <3>1, <3>2, <3>3, UpdateGrows, ZenonT(60)
    <3>5. Store!Join(b)
      <4>1. u \in docs'[b].active
        BY <2>0, <3>2, <3>3
      <4>2. QED
        BY <1>1, <2>0, <3>1, <3>2, <4>1 DEF Store!Join, Store!Become
    <3>6. QED
      BY <2>0, <3>4, <3>5 DEF Store!Next
  <2>3. CASE PullActiveUser(w)
    <3> DEFINE d == [docs[b] EXCEPT !.active = @ \ {u}]
    <3>1. /\ docs' = [docs EXCEPT ![b] = d]
          /\ UNCHANGED granted
      BY <1>3, <2>3 DEF PullActiveUser, UpdateStep, UpdateOne
    <3>2. /\ d \in Doc /\ d.state = "stored" /\ d.uid = docs[b].uid
          /\ d.shared = docs[b].shared /\ d.active = docs[b].active \ {u}
      BY <1>1, <2>0 DEF Doc
    <3>3. docs[b].active # {} => docs[b].shared
      BY <1>1, <2>0 DEF DocsFit
    <3>4. Growth /\ DocsFit'
      BY <1>1, <1>3, <2>0, <3>1, <3>2, <3>3, UpdateKeeps
    <3>5. CASE u \in docs[b].active
      BY <2>0, <3>1, <3>3, <3>4, <3>5 DEF Store!Leave, Store!Become, Store!Next
    <3>6. CASE u \notin docs[b].active
      <4>1. d = docs[b]
        BY <2>0, <3>6 DEF Doc
      <4>2. docs' = docs
        BY <2>0, <3>1, <4>1
      <4>3. QED
        BY <3>4, <4>2
    <3>7. QED
      BY <3>5, <3>6
  <2>4. CASE DeleteBoard(w)
    <3> DEFINE d == [docs[b] EXCEPT !.state = "deleted"]
    <3>1. docs[b].shared
      BY <1>1, <2>4 DEF DeleteBoard, UpdateStep, Step, At, Knows
    <3>2. /\ docs' = [docs EXCEPT ![b] = d]
          /\ UNCHANGED granted
      BY <1>3, <2>4 DEF DeleteBoard, UpdateStep, UpdateOne
    <3>3. /\ d \in Doc /\ d.state = "deleted" /\ d.uid = docs[b].uid
          /\ d.shared = docs[b].shared /\ d.active = docs[b].active
      BY <2>0 DEF Doc
    <3>4. Growth /\ DocsFit'
      BY <1>1, <1>3, <2>0, <3>1, <3>2, <3>3, UpdateKeeps
    <3>5. QED
      BY <2>0, <3>1, <3>2, <3>4 DEF Store!Delete, Store!Become, Store!Next
  <2>5. CASE PushElement(w)
    <3> DEFINE e == request[w].element
               d == [docs[b] EXCEPT !.elements = @ \cup {e}]
    <3>1. e \in Elements
      BY <1>1, <2>5 DEF PushElement, UpdateStep, Step, At, Fits
    <3>2. /\ docs' = [docs EXCEPT ![b] = d]
          /\ UNCHANGED granted
      BY <1>3, <2>5 DEF PushElement, UpdateStep, UpdateOne
    <3>3. /\ d \in Doc /\ d.state = "stored" /\ d.uid = docs[b].uid
          /\ d.shared = docs[b].shared /\ d.active = docs[b].active
      BY <2>0, <3>1 DEF Doc
    <3>4. Growth /\ DocsFit'
      <4>1. docs[b].active # {} => docs[b].shared
        BY <1>1, <2>0 DEF DocsFit
      <4>2. QED
        BY <1>1, <1>3, <2>0, <3>2, <3>3, <4>1, UpdateKeeps
    <3>5. QED
      BY <2>0, <3>1, <3>2, <3>4 DEF Store!Draw, Store!Become, Store!Next
  <2>6. CASE ReplaceElement(w)
    <3> DEFINE o == request[w].orig
               e == request[w].element
               d == [docs[b] EXCEPT !.elements = (@ \ {o}) \cup {e}]
    <3>1. o \in Elements /\ e \in Elements /\ docs[b].shared
      BY <1>1, <2>6 DEF ReplaceElement, UpdateStep, Step, At, Fits, Knows
    <3>2. /\ docs' = [docs EXCEPT ![b] = d]
          /\ UNCHANGED granted
      BY <1>3, <2>6 DEF ReplaceElement, UpdateStep, UpdateOne
    <3>3. /\ d \in Doc /\ d.state = "stored" /\ d.uid = docs[b].uid
          /\ d.shared = docs[b].shared /\ d.active = docs[b].active
      BY <2>0, <3>1 DEF Doc
    <3>4. Growth /\ DocsFit'
      BY <1>1, <1>3, <2>0, <3>1, <3>2, <3>3, UpdateKeeps
    <3>5. QED
      BY <2>0, <3>1, <3>2, <3>4 DEF Store!Redraw, Store!Become, Store!Next
  <2>7. QED
    BY <2>1, <2>2, <2>3, <2>4, <2>5, <2>6
<1>4. QED
  BY <1>2, <1>3

\* A new document takes the place of none.
LEMMA InsertStep ==
  ASSUME Inv, NEW w \in Workers, InsertWhiteboard(w)
  PROVE  Growth /\ DocsFit' /\ [Store!Next]_docs
<1> DEFINE d == [NoDoc EXCEPT !.state = "stored", !.uid = User(w)]
<1>1. PICK b \in Boards :
        /\ docs[b].state = "unborn"
        /\ docs' = [docs EXCEPT ![b] = d]
        /\ granted' = [granted EXCEPT ![b] = {User(w)}]
  BY DEF InsertWhiteboard
<1>2. /\ docs \in [Boards -> Doc] /\ granted \in [Boards -> SUBSET Nat]
      /\ DocsFit /\ User(w) \in Nat
  BY DEF Inv, TypeOK, DatabaseTypes, HandlerTypes, User
<1>3. /\ d.state = "stored" /\ d.uid = User(w) /\ d.active = {}
  BY DEF NoDoc, Store!NoDoc
<1>4. /\ docs'[b] = d /\ granted'[b] = {User(w)}
      /\ \A c \in Boards \ {b} : docs'[c] = docs[c] /\ granted'[c] = granted[c]
  BY <1>1, <1>2
<1>5. Growth
  BY <1>1, <1>4 DEF Growth
<1>6. DocsFit'
  BY <1>2, <1>3, <1>4, ZenonT(60) DEF DocsFit
<1>7. Store!Create(b)
  <2>1. docs'[b].uid = User(w)
    BY <1>3, <1>4
  <2>2. docs' = [docs EXCEPT ![b] =
          [Store!NoDoc EXCEPT !.state = "stored", !.uid = docs'[b].uid]]
    <3>1. NoDoc = Store!NoDoc
      BY DEF NoDoc, Store!NoDoc
    <3>2. QED
      BY <1>1, <2>1, <3>1
  <2>3. QED
    BY <1>1, <1>2, <2>1, <2>2 DEF Store!Create, Store!Become
<1>8. QED
  BY <1>5, <1>6, <1>7 DEF Store!Next

\* The other steps do not touch the documents.
OtherStep ==
  \/ \E w \in Workers :
       \/ Accept(w) \/ Disconnect(w) \/ DatabaseError(w)
       \/ \E r \in Request : Receive(w, r)
       \/ HandlerStep(w)
          /\ ~\/ SetActiveUsers(w) \/ AddActiveUser(w) \/ PullActiveUser(w)
              \/ DeleteBoard(w) \/ PushElement(w) \/ ReplaceElement(w)
              \/ InsertWhiteboard(w)
  \/ Crash
  \/ UNCHANGED vars

\* They keep what documents and handlers promise, and stutter in BoardStore.
LEMMA OtherSteps ==
  ASSUME Inv, OtherStep
  PROVE  Growth /\ DocsFit' /\ [Store!Next]_docs
<1>1. UNCHANGED <<docs, granted>>
  <2>1. ASSUME NEW w \in Workers, HandlerStep(w),
               ~\/ SetActiveUsers(w) \/ AddActiveUser(w) \/ PullActiveUser(w)
                \/ DeleteBoard(w) \/ PushElement(w) \/ ReplaceElement(w)
                \/ InsertWhiteboard(w)
        PROVE  UNCHANGED <<docs, granted>>
    <3>1. CASE \/ MalformedId(w) \/ UpdateRejected(w) \/ AssignUserId(w)
               \/ Reply(w) \/ InsertFails(w)
      BY <3>1 DEF MalformedId, UpdateRejected, Close, AssignUserId, Reply,
         InsertFails, Decide, database
    <3>2. CASE \/ FindOwnedBoard(w) \/ FindSharedBoard(w)
               \/ CheckSharedForUnicast(w) \/ FindAbandonedBoard(w)
               \/ AuthorizeAdd(w) \/ AuthorizeModify(w)
      BY <3>2 DEF FindOwnedBoard, FindSharedBoard, CheckSharedForUnicast,
         FindAbandonedBoard, AuthorizeAdd, AuthorizeModify, Decide, database
    <3>3. CASE \/ AddOwnerSocket(w) \/ AddMemberSocket(w) \/ QuitMap(w)
               \/ ReadElementsForUnicast(w) \/ SendUnicast(w)
      BY <3>3 DEF AddOwnerSocket, AddMemberSocket, QuitMap,
         ReadElementsForUnicast, SendUnicast, database
    <3>4. CASE \/ CheckSharedForBroadcast(w) \/ ReadElementsForBroadcast(w)
               \/ LockForBroadcast(w) \/ EndBroadcast(w)
               \/ \E v \in Workers : BroadcastTo(w, v)
      BY <3>4 DEF CheckSharedForBroadcast, ReadElementsForBroadcast,
         LockForBroadcast, EnterBroadcast, EndBroadcast, BroadcastTo, Decide,
         database
    <3>5. QED
      BY <2>1, <3>1, <3>2, <3>3, <3>4 DEF HandlerStep
  <2>2. ASSUME NEW w \in Workers,
               \/ Accept(w) \/ Disconnect(w) \/ DatabaseError(w)
               \/ \E r \in Request : Receive(w, r)
        PROVE  UNCHANGED <<docs, granted>>
    BY <2>2 DEF Accept, Decide, Disconnect, DatabaseError, Close, Receive, database
  <2>3. QED
    BY <2>1, <2>2 DEF OtherStep, Crash, vars, database
<1>2. QED
  BY <1>1, IdleGrows DEF Inv

\* All steps together.
LEMMA StoreStep ==
  ASSUME Inv, [Next]_vars
  PROVE  Growth /\ DocsFit' /\ [Store!Next]_docs
<1>1. ASSUME NEW w \in Workers, HandlerStep(w), ~OtherStep
      PROVE  Growth /\ DocsFit' /\ [Store!Next]_docs
  BY <1>1, WriteSteps, InsertStep DEF OtherStep
<1>2. CASE OtherStep
  BY <1>2, OtherSteps
<1>3. QED
  BY <1>1, <1>2 DEF Next, OtherStep

-----------------------------------------------------------------------------
\* What a handler knows outlives the steps of all others: only the worker that
\* takes the step has to be looked at.
LEMMA OthersKnow ==
  ASSUME Inv, Growth, NEW w \in Workers,
         \A v \in Workers \ {w} : request'[v] = request[v] /\ pc'[v] = pc[v],
         Knows(request[w], pc[w])'
  PROVE  HandlersKnow'
<1>1. ASSUME NEW v \in Workers \ {w}
      PROVE  Knows(request[v], pc[v])'
  <2>1. Knows(request[v], pc[v]) /\ Fits(request[v], pc[v])
    BY DEF Inv, HandlersKnow, TypeOK, RequestFits
  <2>2. pc[v] \in BoardSteps => request[v].board \in Boards
    BY <2>1 DEF Fits
  <2>3. QED
    BY <2>1, <2>2 DEF Growth, Knows, BoardSteps
<1>2. QED
  BY <1>1 DEF HandlersKnow

\* A step that leads to a place where nothing is known.
LEMMA GotoIgnorance ==
  ASSUME Inv, Growth, NEW w \in Workers, NEW to, Goto(w, to),
         to \notin {"cs_add", "cs_set", "js_add", "js_update", "qs_delete",
                    "ae_push", "me_update"},
         \A v \in Workers \ {w} : request'[v] = request[v]
  PROVE  HandlersKnow'
<1>1. pc'[w] = to /\ \A v \in Workers \ {w} : pc'[v] = pc[v]
  BY DEF Goto, Inv, TypeOK, HandlerTypes
<1>2. Knows(request[w], pc[w])'
  BY <1>1 DEF Knows
<1>3. QED
  BY <1>1, <1>2, OthersKnow

\* A step that looks at a document, or acts on what was found there.
LEMMA Learning ==
  ASSUME Inv, NEW w \in Workers,
         \/ FindOwnedBoard(w) \/ FindSharedBoard(w) \/ FindAbandonedBoard(w)
         \/ AuthorizeAdd(w) \/ AuthorizeModify(w)
         \/ AddOwnerSocket(w) \/ AddMemberSocket(w)
  PROVE  HandlersKnow'
<1> DEFINE r == request[w]
           d == docs[r.board]
<1>1. Growth
  BY StoreStep DEF Next, HandlerStep
<1>2. /\ TypeOK /\ DocsFit /\ Knows(r, pc[w]) /\ pc[w] \in Steps
      /\ Board(w) = r.board /\ User(w) = r.user
  BY DEF Inv, HandlersKnow, TypeOK, HandlerTypes, Board, User
<1>3. ASSUME NEW to, Goto(w, to), UNCHANGED <<request, docs, granted>>,
             Knows(r, to)
      PROVE  HandlersKnow'
  <2>1. pc'[w] = to /\ \A v \in Workers \ {w} : pc'[v] = pc[v]
    BY <1>2, <1>3 DEF Goto, TypeOK, HandlerTypes
  <2>2. Knows(request[w], pc[w])'
    BY <1>3, <2>1 DEF Knows
  <2>3. QED
    BY <1>1, <1>3, <2>1, <2>2, OthersKnow
<1>4. ASSUME NEW from, NEW to, Decide(w, from, to), Knows(r, to)
      PROVE  HandlersKnow'
  BY <1>3, <1>4 DEF Decide, Step, database
<1>5. Stored(Board(w)) =>
        /\ d.state # "unborn"
        /\ d.active # {} => d.shared
        /\ d.active \cup {d.uid} \subseteq granted[r.board]
  BY <1>2 DEF Stored, DocsFit
<1>6. Knows(r, "reply_failure") /\ Knows(r, "reply_success") /\ Knows(r, "bc_check")
  BY DEF Knows
<1>7. CASE FindOwnedBoard(w)
  <2>1. Stored(Board(w)) /\ docs[Board(w)].uid = User(w) => Knows(r, "cs_add")
    BY <1>2, <1>5 DEF Knows
  <2>2. QED
    BY <1>4, <1>6, <1>7, <2>1 DEF FindOwnedBoard
<1>8. CASE FindSharedBoard(w)
  <2>1. Stored(Board(w)) /\ docs[Board(w)].shared => Knows(r, "js_add")
    BY <1>2, <1>5 DEF Knows
  <2>2. QED
    BY <1>4, <1>6, <1>8, <2>1 DEF FindSharedBoard
<1>9. CASE FindAbandonedBoard(w)
  <2>1. Stored(Board(w)) /\ docs[Board(w)].shared => Knows(r, "qs_delete")
    BY <1>2, <1>5 DEF Knows
  <2>2. QED
    BY <1>4, <1>6, <1>9, <2>1 DEF FindAbandonedBoard
<1>10. CASE AuthorizeAdd(w)
  <2>1. Stored(Board(w)) /\ MayAdd(User(w), docs[Board(w)]) => Knows(r, "ae_push")
    BY <1>2, <1>5 DEF Knows, MayAdd
  <2>2. QED
    BY <1>4, <1>6, <1>10, <2>1 DEF AuthorizeAdd
<1>11. CASE AuthorizeModify(w)
  <2>1. Stored(Board(w)) /\ User(w) \in docs[Board(w)].active => Knows(r, "me_update")
    BY <1>2, <1>5 DEF Knows
  <2>2. CASE Return(w)
    <3>1. Goto(w, "read") /\ \A v \in Workers \ {w} : request'[v] = request[v]
      BY <1>2, <2>2 DEF Return, Leave, TypeOK, HandlerTypes
    <3>2. QED
      BY <1>1, <3>1, GotoIgnorance
  <2>3. QED
    BY <1>4, <1>6, <1>11, <2>1, <2>2 DEF AuthorizeModify
<1>12. CASE AddOwnerSocket(w)
  <2>1. Knows(r, "cs_set")
    BY <1>2, <1>12 DEF AddOwnerSocket, Step, At, Knows
  <2>2. QED
    BY <1>3, <1>12, <2>1 DEF AddOwnerSocket, Step, database
<1>13. CASE AddMemberSocket(w)
  <2>1. Knows(r, "js_update")
    BY <1>2, <1>13 DEF AddMemberSocket, Step, At, Knows
  <2>2. QED
    BY <1>3, <1>13, <2>1 DEF AddMemberSocket, Step, database
<1>14. QED
  BY <1>7, <1>8, <1>9, <1>10, <1>11, <1>12, <1>13

\* All steps together.
LEMMA KnowledgeStep ==
  ASSUME Inv, [Next]_vars
  PROVE  HandlersKnow'
<1>1. Growth /\ TypeOK
  BY StoreStep DEF Inv
<1>2. ASSUME NEW w \in Workers, NEW to, Leave(w, to), to \in {"idle", "read"}
      PROVE  HandlersKnow'
  <2>1. Goto(w, to) /\ \A v \in Workers \ {w} : request'[v] = request[v]
    BY <1>1, <1>2 DEF Leave, TypeOK, HandlerTypes
  <2>2. QED
    BY <1>1, <1>2, <2>1, GotoIgnorance
<1>3. ASSUME NEW w \in Workers, NEW from, NEW to, Step(w, from, to),
             to \in {"read", "js_shared", "js_elements", "qs_find", "bc_find",
                     "reply_success", "reply_failure"}
      PROVE  HandlersKnow'
  BY <1>1, <1>3, GotoIgnorance DEF Step
<1>4. ASSUME NEW w \in Workers, HandlerStep(w)
      PROVE  HandlersKnow'
  <2>1. CASE MalformedId(w) \/ UpdateRejected(w)
    BY <1>2, <2>1 DEF MalformedId, UpdateRejected, Close
  <2>2. CASE AssignUserId(w)
    <3>1. \A v \in Workers \ {w} : request'[v] = request[v]
      BY <1>1, <2>2 DEF AssignUserId, TypeOK, HandlerTypes
    <3>2. QED
      BY <1>1, <2>2, <3>1, GotoIgnorance DEF AssignUserId
  <2>3. CASE Reply(w)
    BY <1>1, <1>2, <2>3, GotoIgnorance DEF Reply
  <2>4. CASE InsertWhiteboard(w) \/ InsertFails(w) \/ CheckSharedForUnicast(w)
    BY <1>3, <2>4 DEF InsertWhiteboard, InsertFails, CheckSharedForUnicast, Decide
  <2>5. CASE \/ SetActiveUsers(w) \/ AddActiveUser(w) \/ PullActiveUser(w)
             \/ DeleteBoard(w) \/ PushElement(w) \/ ReplaceElement(w)
    BY <1>3, <2>5 DEF SetActiveUsers, AddActiveUser, PullActiveUser, DeleteBoard,
       PushElement, ReplaceElement, UpdateStep
  <2>6. CASE ReadElementsForUnicast(w) \/ SendUnicast(w) \/ QuitMap(w)
    BY <1>1, <2>6, GotoIgnorance DEF ReadElementsForUnicast, SendUnicast, QuitMap
  <2>7. CASE CheckSharedForBroadcast(w)
    BY <1>2, <1>3, <2>7 DEF CheckSharedForBroadcast, Decide, Return
  <2>8. CASE ReadElementsForBroadcast(w) \/ LockForBroadcast(w) \/ EndBroadcast(w)
    BY <1>1, <1>2, <2>8, GotoIgnorance DEF ReadElementsForBroadcast,
       LockForBroadcast, EnterBroadcast, EndBroadcast, Return
  <2>9. CASE \E v \in Workers : BroadcastTo(w, v)
    <3>1. UNCHANGED <<pc, request>>
      BY <2>9 DEF BroadcastTo
    <3>2. Knows(request[w], pc[w])'
      <4>1. pc[w] = "bc_send"
        BY <2>9 DEF BroadcastTo, At
      <4>2. QED
        BY <3>1, <4>1 DEF Knows
    <3>3. QED
      BY <1>1, <3>1, <3>2, OthersKnow
  <2>10. QED
    BY <1>4, <2>1, <2>2, <2>3, <2>4, <2>5, <2>6, <2>7, <2>8, <2>9, Learning
       DEF HandlerStep
<1>5. ASSUME NEW w \in Workers,
             Accept(w) \/ Disconnect(w) \/ DatabaseError(w)
      PROVE  HandlersKnow'
  BY <1>2, <1>3, <1>5 DEF Accept, Decide, Disconnect, DatabaseError, Close
<1>6. ASSUME NEW w \in Workers, NEW r \in Request, Receive(w, r)
      PROVE  HandlersKnow'
  <2>1. r.type \in {"createWhiteboard", "createSession", "joinSession",
                    "quitSession", "addElement", "modifyElement"}
    BY TypesAssumption DEF Request
  <2>2. FirstStep(r) \notin {"cs_add", "cs_set", "js_add", "js_update",
                             "qs_delete", "ae_push", "me_update"}
    BY <2>1 DEF FirstStep
  <2>3. Goto(w, FirstStep(r)) /\ \A v \in Workers \ {w} : request'[v] = request[v]
    BY <1>1, <1>6 DEF Receive, TypeOK, HandlerTypes
  <2>4. QED
    BY <1>1, <2>2, <2>3, GotoIgnorance
<1>7. CASE Crash
  BY <1>7 DEF Crash, HandlersKnow, Knows
<1>8. CASE UNCHANGED vars
  BY <1>8 DEF vars, database, Inv, HandlersKnow, Knows
<1>9. QED
  BY <1>4, <1>5, <1>6, <1>7, <1>8 DEF Next

\* The invariant holds of what an earlier run left in the database, and every
\* step keeps it.
LEMMA InitInv == Init => Inv
<1> SUFFICES ASSUME Init PROVE Inv
  OBVIOUS
<1>1. TypeOK
  BY InitTypes
<1>2. DocsFit
  BY DocsAssumption DEF Init, DocsFit
<1>3. HandlersKnow
  BY DEF Init, HandlersKnow, Knows
<1>4. QED
  BY <1>1, <1>2, <1>3 DEF Inv

\* Every step keeps all three parts of the invariant.
LEMMA InvStep == Inv /\ [Next]_vars => Inv'
  BY TypeStep, StoreStep, KnowledgeStep DEF Inv

\* A drawing or a change that is about to be stored comes from a user who was
\* the owner of the board or active on it (server.cpp 459-477, 664-711).
THEOREM DrawingsAreGranted == Spec => []OnlyMembersDraw
<1>1. Inv => OnlyMembersDraw
  BY DEF Inv, HandlersKnow, Knows, OnlyMembersDraw, User, Board
<1>2. QED
  BY <1>1, InitInv, InvStep, PTL DEF Spec

\* Whatever the workers do concurrently, however handlers fail or the process
\* dies, the documents live the life that BoardStore describes.
THEOREM ServerImplementsBoardStore == Spec => RefinesBoardStore
<1>1. Init => Store!Init
  BY DEF Init, Store!Init
<1>2. Inv /\ [Next]_vars => [Store!Next]_docs
  BY StoreStep
<1>3. QED
  BY <1>1, <1>2, InitInv, InvStep, PTL DEF Spec, RefinesBoardStore, Store!Spec
=============================================================================
