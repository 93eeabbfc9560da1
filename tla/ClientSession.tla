---------------------------- MODULE ClientSession ----------------------------
(***************************************************************************)
(* client/client.cpp: one WhiteboardClient and the connection it has to    *)
(* the server.  The application calls the send functions and               *)
(* handle_receive from one thread; what it may call, and how many requests *)
(* it leaves unanswered while it calls, is up to it.  Requests and packets *)
(* travel in order, and the server handles one request at a time: what it  *)
(* does is what the handlers of server/server.cpp do, as far as this       *)
(* connection can tell.                                                    *)
(***************************************************************************)
EXTENDS Naturals, Sequences, Functions

CONSTANTS
  Boards,         \* object ids of whiteboards
  NoBoard,        \* the empty whiteboard_id of a client that has no board
  Text,           \* the message of a response that is not a whiteboard id
  ForeignBoards,  \* boards that somebody else owns and shared before
  Nobody,         \* what a board that is not stored has for an owner
  Stranger,       \* the user id of their owner
  Account,        \* the user id of the account the application logs in to
  InitialUserIds, \* what user_id, which nothing initialises, may start as
  FirstIds,       \* the server's next user id: 0 when its database is new
  PacketIds,      \* number of packet ids, 2^32 in the code
  RequestTypes,   \* the requests the application sends
  MaxPending,     \* requests the application leaves unanswered at a time
  MaxRequests,    \* bound: requests sent in a behaviour
  MaxQueue        \* bound: packets under way to the client when others draw

VARIABLES
  user_id, whiteboard_id, packet_counter,   \* the members of these names
  send_queue,  \* by packet id, the type of the request sent with it
  connected,   \* the server serves the connection; what is sent later is lost
  to_server,   \* requests under way, first sent first
  to_client,   \* packets under way
  fresh,       \* server: the object ids that no document has had
  owner,       \* server: the uid of each stored board, or Nobody
  shared,      \* server: the stored boards that have active_user_ids
  entries,     \* server: the sessions this connection is registered for
  seq,         \* server: the next user id
  created,     \* history: boards made by requests of this connection
  named,       \* history: boards that responses told the client to be on
  patient,     \* history: the application waited for every answer, used no
               \* account, and was not told that the server failed to make an id
  pending,     \* requests that the application has no answer to
  requests     \* requests sent so far

members == <<user_id, whiteboard_id, packet_counter, send_queue>>
wire    == <<connected, to_server, to_client>>
server  == <<fresh, owner, shared, entries, seq>>
history == <<created, named>>
vars    == <<members, wire, server, history, patient, pending, requests>>

Types == {"createWhiteboard", "createSession", "joinSession", "quitSession",
          "addElement", "registerRequest", "loginRequest"}
AccountTypes == {"registerRequest", "loginRequest"}
Packet ==
  [type : {"actionResponse", "tempIdResponse", "broadcast"},
   id : 0..(PacketIds - 1), request : Types \cup {"none"}, final : BOOLEAN,
   success : BOOLEAN, message : Boards \cup {Text}, user : Nat]

ASSUME ClientAssumption ==
  /\ RequestTypes \subseteq Types
  /\ MaxPending \in Nat /\ PacketIds \in Nat /\ MaxPending < PacketIds
  /\ MaxRequests \in Nat /\ MaxQueue \in Nat
  /\ ForeignBoards \subseteq Boards /\ NoBoard \notin Boards /\ Text \notin Boards
  /\ InitialUserIds \subseteq Nat /\ FirstIds \subseteq Nat
  /\ {Stranger, Account} \subseteq Nat /\ Nobody \notin Nat

\* The boards that are stored before, if the id of their owner was given out.
StoredBefore == IF Stranger < seq THEN ForeignBoards ELSE {}

Init ==
  /\ user_id \in InitialUserIds
  /\ whiteboard_id = NoBoard
  /\ packet_counter = 0
  /\ send_queue = [i \in 0..(PacketIds - 1) |-> "none"]
  /\ connected = TRUE
  /\ to_server = <<>> /\ to_client = <<>>
  /\ seq \in FirstIds
  /\ fresh = Boards \ StoredBefore
  /\ owner = [b \in Boards |-> IF b \in StoredBefore THEN Stranger ELSE Nobody]
  /\ shared = StoredBefore
  /\ entries = {}
  /\ created = {} /\ named = {}
  /\ patient = TRUE
  /\ pending = 0
  /\ requests = 0

-----------------------------------------------------------------------------
\* The send functions

\* Mistake: the packet counter is not advanced.
NextIdAgain(id) == id

NextId(id) == (id + 1) % PacketIds

\* What new_*_request puts into a packet.
RequestPacket(type, id, board) ==
  [type |-> type, id |-> id, user |-> user_id, board |-> board]

\* send_*_request and send_packet.  joinSession names a board, the others mean
\* the client's own; what a type does not carry is not looked at.
Send(type, board) ==
  LET id == NextId(packet_counter) IN
  /\ connected
  /\ pending < MaxPending
  /\ requests < MaxRequests
  /\ packet_counter' = id
  /\ send_queue' = [send_queue EXCEPT ![id] = type]
  /\ to_server' = Append(to_server, RequestPacket(type, id, board))
  /\ patient' = (patient /\ pending = 0 /\ type \notin AccountTypes)
  /\ pending' = pending + 1
  /\ requests' = requests + 1
  /\ UNCHANGED <<user_id, whiteboard_id, connected, to_client, server, history>>

SendSome ==
  \/ \E type \in RequestTypes \ {"joinSession"} : Send(type, whiteboard_id)
  \/ "joinSession" \in RequestTypes /\ \E b \in Boards : Send("joinSession", b)

-----------------------------------------------------------------------------
\* handle_receive

\* Mistake: whatever a response says is taken for a whiteboard id.
BoardAfterAny(p) == IF p.success THEN p.message ELSE whiteboard_id

\* handle_action_response, by the type recorded for the packet id.  A failure
\* throws, with nothing changed.
BoardAfter(p) ==
  IF p.success /\ send_queue[p.id] \in {"createWhiteboard", "joinSession"}
  THEN p.message ELSE whiteboard_id

HandleActionResponse(p) ==
  /\ p.type = "actionResponse"
  /\ whiteboard_id' = BoardAfter(p)
  /\ UNCHANGED user_id

\* Mistake: the id is not kept.
HandleTempIdForgetting(p) ==
  /\ p.type = "tempIdResponse"
  /\ UNCHANGED <<user_id, whiteboard_id>>

\* A failure throws, with nothing changed.
HandleTempIdResponse(p) ==
  /\ p.type = "tempIdResponse"
  /\ user_id' = IF p.success THEN p.user ELSE user_id
  /\ UNCHANGED whiteboard_id

\* The elements are decoded, and the result is dropped.
HandleBroadcast(p) ==
  /\ p.type = "broadcast"
  /\ UNCHANGED <<user_id, whiteboard_id>>

HandleReceive ==
  LET p == Head(to_client) IN
  /\ to_client # <<>>
  /\ HandleActionResponse(p) \/ HandleTempIdResponse(p) \/ HandleBroadcast(p)
  /\ to_client' = Tail(to_client)
  /\ named' = IF p.type = "actionResponse" /\ p.success
                 /\ p.request \in {"createWhiteboard", "joinSession"}
              THEN named \cup {p.message} ELSE named
  /\ pending' = IF p.final THEN pending - 1 ELSE pending
  /\ patient' = (patient /\ (p.type = "tempIdResponse" => p.success))
  /\ UNCHANGED <<packet_counter, send_queue, connected, to_server, server,
                 created, requests>>

-----------------------------------------------------------------------------
\* The server, as this connection sees it

Response(r, success, message) ==
  [type |-> "actionResponse", id |-> r.id, request |-> r.type, final |-> TRUE,
   success |-> success, message |-> message, user |-> 0]

\* An id that was assigned on the way is not yet the answer to the request;
\* one that login or register found or made is.
TempId(r, u, success) ==
  [type |-> "tempIdResponse", id |-> r.id, request |-> r.type,
   final |-> r.type \in AccountTypes,
   success |-> success, message |-> Text, user |-> u]

Broadcast ==
  [type |-> "broadcast", id |-> 0, request |-> "none", final |-> FALSE,
   success |-> TRUE, message |-> Text, user |-> 0]

\* handle_assign_user_id, in front of two handlers, which go on with the id even
\* when they tell the client that it could not be stored.
Assigns(r) == r.user = 0 /\ r.type \in {"createWhiteboard", "joinSession"}
UserOf(r)  == IF Assigns(r) THEN seq ELSE r.user
Assigned(r) ==
  IF Assigns(r) THEN {<<TempId(r, seq, success)>> : success \in BOOLEAN} ELSE {<<>>}

NextSequence(taken) == seq' = IF taken THEN seq + 1 ELSE seq

\* The handler of the first request under way ends having sent these packets.
Answer(packets) ==
  /\ to_server' = Tail(to_server)
  /\ to_client' = to_client \o packets
  /\ UNCHANGED <<members, connected, named, patient, pending, requests>>

Serving(type) == connected /\ to_server # <<>> /\ Head(to_server).type = type

CreateWhiteboard ==
  LET r == Head(to_server) IN
  /\ Serving("createWhiteboard")
  /\ NextSequence(Assigns(r))
  /\ \E assigned \in Assigned(r) :
       \/ \E b \in fresh :
            /\ fresh' = fresh \ {b}
            /\ owner' = [owner EXCEPT ![b] = UserOf(r)]
            /\ created' = created \cup {b}
            /\ Answer(assigned \o <<Response(r, TRUE, b)>>)
       \/ /\ Answer(assigned \o <<Response(r, FALSE, Text)>>)
          /\ UNCHANGED <<fresh, owner, created>>
  /\ UNCHANGED <<shared, entries>>

CreateSession ==
  LET r == Head(to_server) IN
  /\ Serving("createSession") /\ r.board \in Boards
  /\ \/ /\ owner[r.board] = r.user
        /\ shared' = shared \cup {r.board}
        /\ entries' = entries \cup {r.board}
        /\ Answer(<<Response(r, TRUE, Text)>>)
     \/ /\ owner[r.board] # r.user
        /\ Answer(<<Response(r, FALSE, Text)>>)
        /\ UNCHANGED <<shared, entries>>
  /\ UNCHANGED <<fresh, owner, seq, created>>

\* The board's elements are sent ahead of the response.
JoinSession ==
  LET r == Head(to_server) IN
  /\ Serving("joinSession") /\ r.board \in Boards
  /\ NextSequence(Assigns(r))
  /\ \E assigned \in Assigned(r) :
       \/ /\ r.board \in shared
          /\ entries' = entries \cup {r.board}
          /\ Answer(assigned \o <<Broadcast, Response(r, TRUE, r.board)>>)
       \/ /\ r.board \notin shared
          /\ Answer(assigned \o <<Response(r, FALSE, Text)>>)
          /\ UNCHANGED entries
  /\ UNCHANGED <<fresh, owner, shared, created>>

\* A shared board that nobody else is active on is deleted.
QuitSession ==
  LET r == Head(to_server) IN
  /\ Serving("quitSession") /\ r.board \in Boards
  /\ entries' = entries \ {r.board}
  /\ \/ /\ r.board \in shared
        /\ owner' = [owner EXCEPT ![r.board] = Nobody]
        /\ shared' = shared \ {r.board}
     \/ UNCHANGED <<owner, shared>>
  /\ Answer(<<Response(r, TRUE, Text)>>)
  /\ UNCHANGED <<fresh, seq, created>>

\* Whether the user is active on a board of somebody else depends on others
\* as well.  Who is not gets no reply.
AddElement ==
  LET r    == Head(to_server)
      told == IF r.board \in entries THEN <<Broadcast>> ELSE <<>>
  IN
  /\ Serving("addElement") /\ r.board \in Boards
  /\ \/ /\ owner[r.board] # Nobody
        /\ owner[r.board] = r.user \/ r.board \in shared
        /\ Answer(<<Response(r, TRUE, Text)>> \o told)
     \/ /\ owner[r.board] # Nobody /\ owner[r.board] # r.user
        /\ Answer(told)
     \/ /\ owner[r.board] = Nobody
        /\ Answer(<<Response(r, FALSE, Text)>>)
  /\ UNCHANGED <<server, created>>

RegisterUser ==
  LET r == Head(to_server) IN
  /\ Serving("registerRequest")
  /\ \/ Answer(<<TempId(r, seq, TRUE)>>) /\ NextSequence(TRUE)
     \/ Answer(<<Response(r, FALSE, Text)>>) /\ NextSequence(FALSE)
  /\ UNCHANGED <<fresh, owner, shared, entries, created>>

\* The account's id was given out before.  An account without a password is
\* answered nothing.
LoginUser ==
  LET r == Head(to_server) IN
  /\ Serving("loginRequest")
  /\ \/ Account < seq /\ Answer(<<TempId(r, Account, TRUE)>>)
     \/ Answer(<<Response(r, FALSE, Text)>>)
     \/ Answer(<<>>)
  /\ UNCHANGED <<server, created>>

\* The handler throws: on what is no object id, or when the database fails,
\* before or after the id it assigns.  The server closes the connection.
ServerCloses ==
  LET r == Head(to_server) IN
  /\ connected /\ to_server # <<>>
  /\ connected' = FALSE
  /\ to_server' = <<>>
  /\ \/ /\ Assigns(r)
        /\ \E assigned \in Assigned(r) : to_client' = to_client \o assigned
        /\ NextSequence(TRUE)
     \/ UNCHANGED <<to_client, seq>>
  /\ entries' = {}
  /\ UNCHANGED <<members, fresh, owner, shared, created, named, patient, pending, requests>>

\* Somebody else draws on a board of this connection's sessions.
OthersDraw ==
  /\ connected /\ entries # {}
  /\ Len(to_client) < MaxQueue
  /\ to_client' = Append(to_client, Broadcast)
  /\ UNCHANGED <<members, connected, to_server, server, history, patient, pending, requests>>

-----------------------------------------------------------------------------
Next ==
  \/ SendSome \/ HandleReceive
  \/ CreateWhiteboard \/ CreateSession \/ JoinSession \/ QuitSession
  \/ AddElement \/ RegisterUser \/ LoginUser
  \/ ServerCloses \/ OthersDraw

Spec == Init /\ [][Next]_vars

-----------------------------------------------------------------------------
TypeOK ==
  /\ user_id \in Nat
  /\ whiteboard_id \in Boards \cup {NoBoard, Text}
  /\ packet_counter \in 0..(PacketIds - 1)
  /\ send_queue \in [0..(PacketIds - 1) -> Types \cup {"none"}]
  /\ connected \in BOOLEAN
  /\ Range(to_server) \subseteq
       [type : Types, id : 0..(PacketIds - 1), user : Nat,
        board : Boards \cup {NoBoard, Text}]
  /\ Range(to_client) \subseteq Packet
  /\ fresh \subseteq Boards /\ shared \subseteq Boards /\ entries \subseteq Boards
  /\ owner \in [Boards -> Nat \cup {Nobody}]
  /\ seq \in Nat
  /\ created \subseteq Boards /\ named \subseteq Boards
  /\ patient \in BOOLEAN
  /\ pending \in 0..MaxPending /\ requests \in 0..MaxRequests

\* A response is handled as an answer to the request it answers, however many
\* requests are under way and though packet ids are used again: send_queue
\* never loses or mixes up the type of a request that is not answered yet.
ResponseMatchesRequest ==
  \A p \in Range(to_client) :
    p.type = "actionResponse" => send_queue[p.id] = p.request

\* The client works on no board, or on one that the server told it that it
\* made or joined: never on the wording of another response, and never on a
\* board that was only asked for.
BoardIsConfirmed == whiteboard_id \in {NoBoard} \cup named

\* "A temporary id; send a packet back to client", to "connect the user_id
\* with new whiteboard" (server.cpp:260): once an application that waits for
\* each answer, and stays with one account, has read all of them, the board it
\* made and works on belongs to the user it speaks for, and the server lets it
\* open a session there.  Two requests at once would be given two ids.  So is
\* who is given the first id of a new database: it is 0, the next request
\* that needs an id asks for another one, and the board stays with user 0.
OwnerKnowsBoard ==
  patient /\ connected /\ pending = 0 /\ whiteboard_id \in created
  => owner[whiteboard_id] \in {user_id, 0, Nobody}
=============================================================================
