-------------------------- MODULE WhiteboardServer --------------------------
(***************************************************************************)
(* server/server.cpp: the sessions of the whiteboard server.  Each worker  *)
(* of the thread pool serves one connection until it closes and runs, one  *)
(* request at a time, the handlers for whiteboards, sessions and elements. *)
(* They share a database and the map whiteboard_sessions from a board to   *)
(* the sockets that take part in it.                                       *)
(*                                                                         *)
(* A step is one call to the database, one critical section of map_mutex,  *)
(* one access to the map without it, or one send.  pc names the step a     *)
(* worker takes next, with the initials of its handler: cw create          *)
(* whiteboard, cs create session, js join session, qs quit session, ae add *)
(* element, me modify element, bc broadcast.                               *)
(*                                                                         *)
(* The map holds the address of handle_connection's socket, a local of the *)
(* worker's stack: a worker stands for its address, and the next           *)
(* connection the worker serves has the address of the one before.         *)
(***************************************************************************)
EXTENDS Naturals, FiniteSets

CONSTANTS
  Workers,      \* threads of the pool, and addresses of their sockets
  Boards,       \* well-formed object ids of whiteboards
  BadId,        \* a whiteboard id that is not an object id
  Elements,     \* elements, up to their serialized form
  NoElement,    \* the element of a request that has none
  Users,        \* the user ids that clients send; 0 is the anonymous user
  FirstId,      \* the sequence's value, which an earlier run has used
  RequestTypes, \* the requests that clients send
  InitialDocs,  \* documents an earlier run may have left in the database
  Free,         \* map_mutex when no worker holds it
  MaxRequests,  \* bound: requests received in a behaviour
  MaxFaults     \* bound: database errors and crashes in a behaviour

VARIABLES
  pc,               \* the step each worker takes next
  request,          \* the request each worker handles
  snapshot,         \* the elements a worker read, to be sent
  remaining,        \* the sockets a broadcast has yet to send to
  session_keys,     \* whiteboard_sessions: the boards that have an entry
  session_sockets,  \* whiteboard_sessions: the entries; {} where there is none
  map_mutex,        \* the worker that holds the mutex, or Free
  corrupt,          \* an access to the map overlapped an unlocked erase
  docs,             \* database: the whiteboard documents
  seq,              \* database: the user id sequence
  granted,          \* history: users that ever were owner or active, by board
  joined,           \* history: the boards each connection is registered for
  synced,           \* history: those whose elements it was sent on joining
  received,         \* history: all elements it was ever sent, by board
  latest,           \* history: the elements it was sent last, by board
  torn,             \* history: the sockets two workers wrote to at once
  overlapped,       \* history: boards that two workers were sending at once
  answers,          \* history: replies sent to the current request
  requests,         \* requests received so far
  faults            \* database errors and crashes so far

loop     == <<snapshot, remaining>>
map      == <<session_keys, session_sockets, map_mutex, corrupt>>
database == <<docs, seq, granted>>
client   == <<joined, synced, received, latest, torn, overlapped>>
counters == <<requests, faults>>
vars     == <<pc, request, loop, map, database, client, answers, counters>>

\* A whiteboard document, and the lack of one.
Doc == [state : {"unborn", "stored", "deleted"}, uid : Nat, shared : BOOLEAN,
        active : SUBSET Nat, elements : SUBSET Elements]

NoDoc == [state |-> "unborn", uid |-> 0, shared |-> FALSE,
          active |-> {}, elements |-> {}]

\* A document has its active_user_ids field once its board was shared.
ASSUME DocsAssumption ==
  /\ InitialDocs \subseteq Doc
  /\ \A d \in InitialDocs : (d.shared /\ d.state # "unborn") \/ d.active = {}
ASSUME TypesAssumption ==
  RequestTypes \subseteq {"createWhiteboard", "createSession", "joinSession",
                         "quitSession", "addElement", "modifyElement"}
ASSUME UsersAssumption   == Users \subseteq Nat /\ FirstId \in Nat \ {0}
ASSUME BoundsAssumption  == MaxRequests \in Nat /\ MaxFaults \in Nat
ASSUME OutsideAssumption == /\ BadId \notin Boards
                            /\ NoElement \notin Elements
                            /\ Free \notin Workers

\* What a client may send; fields that a type does not have are defaulted.
Request ==
  {r \in [type    : RequestTypes,
          user    : Users,
          board   : Boards \cup {BadId},
          orig    : Elements \cup {NoElement},
          element : Elements \cup {NoElement}] :
     /\ r.type = "createWhiteboard" => r.board = BadId
     /\ r.element \in Elements <=> r.type \in {"addElement", "modifyElement"}
     /\ r.orig \in Elements <=> r.type = "modifyElement"}

NoRequest == [type |-> "none", user |-> 0, board |-> BadId,
              orig |-> NoElement, element |-> NoElement]

Board(w) == request[w].board
User(w)  == request[w].user

NothingSent == [b \in Boards |-> {}]

Init ==
  /\ pc = [w \in Workers |-> "idle"]
  /\ request = [w \in Workers |-> NoRequest]
  /\ snapshot = [w \in Workers |-> {}]
  /\ remaining = [w \in Workers |-> {}]
  /\ session_keys = {}
  /\ session_sockets = [b \in Boards |-> {}]
  /\ map_mutex = Free
  /\ corrupt = FALSE
  /\ docs \in [Boards -> InitialDocs]
  /\ seq = FirstId
  /\ granted = [b \in Boards |-> docs[b].active \cup {docs[b].uid}]
  /\ joined = [w \in Workers |-> {}]
  /\ synced = [w \in Workers |-> {}]
  /\ received = [w \in Workers |-> NothingSent]
  /\ latest = [w \in Workers |-> NothingSent]
  /\ torn = {} /\ overlapped = {}
  /\ answers = [w \in Workers |-> 0]
  /\ requests = 0
  /\ faults = 0

-----------------------------------------------------------------------------
\* Control

At(w, label)   == pc[w] = label
Goto(w, label) == pc' = [pc EXCEPT ![w] = label]

\* On to the next step of the handler, its locals as they are.
Step(w, from, to) ==
  /\ At(w, from)
  /\ Goto(w, to)
  /\ UNCHANGED <<request, loop, answers, counters>>

\* The same, when nothing that is shared changes either.
Decide(w, from, to) ==
  /\ Step(w, from, to)
  /\ UNCHANGED <<map, database, client>>

\* The locals of the handler are gone; Return is to handle_connection's loop.
Leave(w, to) ==
  /\ Goto(w, to)
  /\ request' = [request EXCEPT ![w] = NoRequest]
  /\ snapshot' = [snapshot EXCEPT ![w] = {}]
  /\ remaining' = [remaining EXCEPT ![w] = {}]

Return(w) == Leave(w, "read") /\ UNCHANGED <<answers, counters>>

\* Sends that may overlap one by another worker on the same socket.
Sending(w) == pc[w] \in {"assign", "js_send", "reply_success", "reply_failure"}
Tearing(w) == \E v \in Workers \ {w} : At(v, "bc_send") /\ w \in remaining[v]

-----------------------------------------------------------------------------
\* Connections

\* handle_connection's socket is destroyed; the map is not told.
Close(w) ==
  /\ Leave(w, "idle")
  /\ joined' = [joined EXCEPT ![w] = {}]
  /\ synced' = [synced EXCEPT ![w] = {}]
  /\ received' = [received EXCEPT ![w] = NothingSent]
  /\ latest' = [latest EXCEPT ![w] = NothingSent]
  /\ torn' = torn \ {w}
  /\ UNCHANGED overlapped
  /\ answers' = [answers EXCEPT ![w] = 0]
  /\ UNCHANGED <<map, database>>

\* An idle worker takes the next connection out of the pool's queue.
Accept(w) == Decide(w, "idle", "read")

\* The client is gone, or its stream is broken: the loop ends.
Disconnect(w) ==
  /\ At(w, "read")
  /\ Close(w)
  /\ UNCHANGED counters

FirstStep(r) ==
  IF r.user = 0 /\ r.type \in {"createWhiteboard", "joinSession"}
  THEN "assign"
  ELSE [createWhiteboard |-> "cw_insert", createSession |-> "cs_find",
        joinSession |-> "js_find", quitSession |-> "qs_remove",
        addElement |-> "ae_find", modifyElement |-> "me_find"][r.type]

Receive(w, r) ==
  /\ At(w, "read")
  /\ requests < MaxRequests
  /\ requests' = requests + 1
  /\ request' = [request EXCEPT ![w] = r]
  /\ Goto(w, FirstStep(r))
  /\ answers' = [answers EXCEPT ![w] = 0]
  /\ UNCHANGED <<loop, map, database, client, faults>>

\* Mistake: a drawing for what is no object id is broadcast all the same.
MalformedIdBroadcast(w) ==
  /\ pc[w] \in {"ae_find", "me_find"}
  /\ Board(w) = BadId
  /\ Goto(w, "bc_check")
  /\ UNCHANGED <<request, loop, map, database, client, answers, counters>>

\* bsoncxx::oid throws on a malformed id, and the connection is closed.
MalformedId(w) ==
  /\ pc[w] \in {"cs_find", "js_find", "qs_pull", "ae_find", "me_find"}
  /\ Board(w) = BadId
  /\ Close(w)
  /\ UNCHANGED counters

-----------------------------------------------------------------------------
\* The database

Stored(b) == b \in Boards /\ docs[b].state = "stored"

\* update_one without upsert: nothing happens when no document matches.
UpdateOne(b, d) ==
  docs' = IF Stored(b) THEN [docs EXCEPT ![b] = d] ELSE docs

UpdateStep(w, from, d, to) ==
  /\ UpdateOne(Board(w), d)
  /\ Step(w, from, to)
  /\ UNCHANGED <<map, seq, client>>

Grant(b, u) ==
  granted' = IF Stored(b) THEN [granted EXCEPT ![b] = @ \cup {u}] ELSE granted

\* A call that fails throws, and the connection is closed.
DatabaseError(w) ==
  /\ pc[w] \in {"assign", "cw_insert", "cs_find", "cs_set", "js_find",
                "js_update", "js_elements", "qs_pull", "qs_find", "qs_delete",
                "ae_find", "ae_push", "me_find", "me_update", "bc_find"}
  /\ faults < MaxFaults
  /\ faults' = faults + 1
  /\ Close(w)
  /\ UNCHANGED requests

\* The process dies and is started again on the database it left.
Crash ==
  /\ faults < MaxFaults
  /\ faults' = faults + 1
  /\ pc' = [w \in Workers |-> "idle"]
  /\ request' = [w \in Workers |-> NoRequest]
  /\ snapshot' = [w \in Workers |-> {}]
  /\ remaining' = [w \in Workers |-> {}]
  /\ session_keys' = {}
  /\ session_sockets' = [b \in Boards |-> {}]
  /\ map_mutex' = Free
  /\ corrupt' = FALSE
  /\ joined' = [w \in Workers |-> {}]
  /\ synced' = [w \in Workers |-> {}]
  /\ received' = [w \in Workers |-> NothingSent]
  /\ latest' = [w \in Workers |-> NothingSent]
  /\ torn' = {} /\ overlapped' = {}
  /\ answers' = [w \in Workers |-> 0]
  /\ UNCHANGED <<database, requests>>

-----------------------------------------------------------------------------
\* The map of sessions

IsWhiteboardShared(b) == b \in session_keys

\* add_socket_to_whiteboard
AddSocket(w) ==
  /\ map_mutex = Free
  /\ session_keys' = session_keys \cup {Board(w)}
  /\ session_sockets' = [session_sockets EXCEPT ![Board(w)] = @ \cup {w}]
  /\ joined' = [joined EXCEPT ![w] = @ \cup {Board(w)}]
  /\ UNCHANGED <<map_mutex, corrupt, synced, received, latest, torn, overlapped>>

\* Some other worker may be inside the map while w erases from it unlocked.
MapInUse(w) ==
  \E v \in Workers \ {w} :
    \/ map_mutex = v
    \/ At(v, "qs_remove")
    \/ map_mutex = Free /\ pc[v] \in {"cs_add", "js_add", "js_shared",
                                      "bc_check", "bc_lock"}

\* Mistake: the entry of the board is erased whoever is left in it.
RemoveSocketErasingEntry(w) ==
  /\ ~MapInUse(w)
  /\ session_keys' = session_keys \ {Board(w)}
  /\ session_sockets' = [b \in Boards |->
                          IF b = Board(w) THEN {} ELSE session_sockets[b]]
  /\ UNCHANGED <<map_mutex, corrupt, remaining>>

\* remove_socket_from_whiteboard, when nobody else is in the map.
RemoveSocket(w) ==
  /\ ~MapInUse(w)
  /\ LET b    == Board(w)
         left == session_sockets[b] \ {w}
     IN  IF b \in session_keys
         THEN /\ session_sockets' = [session_sockets EXCEPT ![b] = left]
              /\ session_keys' = IF left = {} THEN session_keys \ {b}
                                 ELSE session_keys
         ELSE UNCHANGED <<session_keys, session_sockets>>
  /\ UNCHANGED <<map_mutex, corrupt, remaining>>

\* remove_socket_from_whiteboard overlapping another access, undefined: any
\* of the sockets may be lost, and a broadcast under way may miss w's.
RaceOnMap(w) ==
  /\ MapInUse(w)
  /\ corrupt' = TRUE
  /\ \E survivors \in [Boards -> SUBSET Workers] :
       /\ \A b \in Boards : survivors[b] \subseteq session_sockets[b]
       /\ session_sockets' = survivors
       /\ session_keys' = {b \in session_keys : survivors[b] # {}}
  /\ \/ UNCHANGED remaining
     \/ remaining' = [v \in Workers |-> remaining[v] \ {w}]
  /\ UNCHANGED map_mutex

-----------------------------------------------------------------------------
\* Sending

Deliver(w, b, elements) ==
  /\ received' = [received EXCEPT ![w][b] = @ \cup elements]
  /\ latest' = [latest EXCEPT ![w][b] = elements]

DeliverNothing == UNCHANGED <<received, latest>>

\* Worker w has read the elements of board b and not yet sent them to everybody.
Sends(w, b) == Board(w) = b /\ pc[w] \in {"js_send", "bc_lock", "bc_send"}

\* find_one, for what is to be sent: without a lock, unlike the sending.
ReadElements(w) ==
  /\ Stored(Board(w))
  /\ snapshot' = [snapshot EXCEPT ![w] = docs[Board(w)].elements]
  /\ overlapped' = IF \E v \in Workers \ {w} : Sends(v, Board(w))
                   THEN overlapped \cup {Board(w)} ELSE overlapped
  /\ UNCHANGED <<joined, synced, received, latest, torn>>

\* Two writes that overlap on one ssl::stream, undefined: nothing that is
\* sent on that connection can be relied upon from then on.
Tear(w, overlap) == torn' = IF overlap THEN torn \cup {w} ELSE torn

BroadcastsAfterReply(w) ==
  /\ At(w, "reply_success")
  /\ request[w].type \in {"addElement", "modifyElement"}

Reply(w) ==
  /\ pc[w] \in {"reply_success", "reply_failure"}
  /\ answers' = [answers EXCEPT ![w] = @ + 1]
  /\ Tear(w, Tearing(w))
  /\ \/ BroadcastsAfterReply(w) /\ Goto(w, "bc_check") /\ UNCHANGED <<request, loop>>
     \/ ~BroadcastsAfterReply(w) /\ Leave(w, "read")
  /\ UNCHANGED <<map, database, joined, synced, received, latest, overlapped,
                 counters>>

-----------------------------------------------------------------------------
\* handle_assign_user_id, at the head of two handlers

\* The sequence yields its value before the increment (see UserAccounts).
AssignUserId(w) ==
  /\ At(w, "assign")
  /\ seq' = seq + 1
  /\ request' = [request EXCEPT ![w].user = seq]
  /\ Tear(w, Tearing(w))
  /\ Goto(w, IF request[w].type = "joinSession" THEN "js_find" ELSE "cw_insert")
  /\ UNCHANGED <<loop, map, docs, granted, joined, synced, received, latest,
                 overlapped, answers, counters>>

-----------------------------------------------------------------------------
\* handle_create_whiteboard_request

\* The driver generates the object id of the new document.
InsertWhiteboard(w) ==
  /\ Step(w, "cw_insert", "reply_success")
  /\ \E b \in Boards :
       /\ docs[b].state = "unborn"
       /\ docs' = [docs EXCEPT ![b] =
                     [NoDoc EXCEPT !.state = "stored", !.uid = User(w)]]
       /\ granted' = [granted EXCEPT ![b] = {User(w)}]
  /\ UNCHANGED <<map, seq, client>>

InsertFails(w) == Decide(w, "cw_insert", "reply_failure")

-----------------------------------------------------------------------------
\* handle_create_session_request

FindOwnedBoard(w) ==
  /\ Board(w) # BadId
  /\ Decide(w, "cs_find",
            IF Stored(Board(w)) /\ docs[Board(w)].uid = User(w)
            THEN "cs_add" ELSE "reply_failure")

AddOwnerSocket(w) ==
  /\ Step(w, "cs_add", "cs_set")
  /\ AddSocket(w)
  /\ UNCHANGED database

\* $set replaces the active users, whoever they were.
SetActiveUsers(w) ==
  /\ UpdateStep(w, "cs_set", [docs[Board(w)] EXCEPT !.shared = TRUE,
                                                   !.active = {User(w)}],
                "reply_success")
  /\ Grant(Board(w), User(w))

-----------------------------------------------------------------------------
\* handle_join_session_request

FindSharedBoard(w) ==
  /\ Board(w) # BadId
  /\ Decide(w, "js_find", IF Stored(Board(w)) /\ docs[Board(w)].shared
                          THEN "js_add" ELSE "reply_failure")

AddMemberSocket(w) ==
  /\ Step(w, "js_add", "js_update")
  /\ AddSocket(w)
  /\ UNCHANGED database

AddActiveUser(w) ==
  /\ UpdateStep(w, "js_update",
                [docs[Board(w)] EXCEPT !.active = @ \cup {User(w)}],
                "js_shared")
  /\ Grant(Board(w), User(w))

\* The checks in the handler and in handle_unicast, with nothing between them.
CheckSharedForUnicast(w) ==
  /\ map_mutex = Free
  /\ Decide(w, "js_shared", IF IsWhiteboardShared(Board(w)) THEN "js_elements"
                            ELSE "reply_success")

ReadElementsForUnicast(w) ==
  /\ At(w, "js_elements")
  /\ \/ /\ ReadElements(w)
        /\ Goto(w, "js_send")
     \/ /\ ~Stored(Board(w))
        /\ Goto(w, "reply_success")
        /\ UNCHANGED <<snapshot, client>>
  /\ UNCHANGED <<request, remaining, map, database, answers, counters>>

SendUnicast(w) ==
  /\ At(w, "js_send")
  /\ \/ Deliver(w, Board(w), snapshot[w])
     \/ Tearing(w) /\ DeliverNothing
  /\ Tear(w, Tearing(w))
  /\ synced' = [synced EXCEPT ![w] = @ \cup {Board(w)}]
  /\ Goto(w, "reply_success")
  /\ UNCHANGED <<request, loop, map, database, joined, overlapped, answers, counters>>

-----------------------------------------------------------------------------
\* handle_quit_session_request

QuitMap(w) ==
  /\ At(w, "qs_remove")
  /\ RemoveSocket(w) \/ RaceOnMap(w)
  /\ joined' = [joined EXCEPT ![w] = @ \ {Board(w)}]
  /\ synced' = [synced EXCEPT ![w] = @ \ {Board(w)}]
  /\ Goto(w, "qs_pull")
  /\ UNCHANGED <<request, snapshot, database, received, latest, torn, overlapped,
                 answers, counters>>

PullActiveUser(w) ==
  /\ Board(w) # BadId
  /\ UpdateStep(w, "qs_pull",
                [docs[Board(w)] EXCEPT !.active = @ \ {User(w)}], "qs_find")
  /\ UNCHANGED granted

\* Mistake: a board that was never shared counts as abandoned.
FindInactiveBoard(w) ==
  Decide(w, "qs_find", IF Stored(Board(w)) /\ docs[Board(w)].active = {}
                       THEN "qs_delete" ELSE "reply_success")

FindAbandonedBoard(w) ==
  Decide(w, "qs_find", IF /\ Stored(Board(w))
                          /\ docs[Board(w)].shared
                          /\ docs[Board(w)].active = {}
                       THEN "qs_delete" ELSE "reply_success")

DeleteBoard(w) ==
  /\ UpdateStep(w, "qs_delete", [docs[Board(w)] EXCEPT !.state = "deleted"],
                "reply_success")
  /\ UNCHANGED granted

-----------------------------------------------------------------------------
\* handle_add_element_request

\* Mistake: everybody may draw on a shared board.
MayAddIfShared(u, d) == d.shared \/ u = d.uid

\* user_in_active_user_ids; a document without the field has nobody active.
MayAdd(u, d) == u \in d.active \/ u = d.uid

\* The owner and the active users go on; others get no reply, yet what
\* they did is broadcast all the same.
AuthorizeAdd(w) ==
  /\ Board(w) # BadId
  /\ Decide(w, "ae_find",
            IF ~Stored(Board(w)) THEN "reply_failure"
            ELSE IF MayAdd(User(w), docs[Board(w)]) THEN "ae_push"
            ELSE "bc_check")

\* Mistake: only a drawing on a shared board is answered.
PushElementSilently(w) ==
  /\ UpdateStep(w, "ae_push",
                [docs[Board(w)] EXCEPT !.elements = @ \cup {request[w].element}],
                IF docs[Board(w)].shared THEN "reply_success" ELSE "bc_check")
  /\ UNCHANGED granted

PushElement(w) ==
  /\ UpdateStep(w, "ae_push",
                [docs[Board(w)] EXCEPT !.elements = @ \cup {request[w].element}],
                "reply_success")
  /\ UNCHANGED granted

-----------------------------------------------------------------------------
\* handle_modify_element_request

AuthorizeModify(w) ==
  LET d == docs[Board(w)] IN
  \/ /\ Board(w) # BadId /\ ~Stored(Board(w))
     /\ Decide(w, "me_find", "reply_failure")
  \/ /\ Stored(Board(w)) /\ User(w) \notin d.active
     /\ At(w, "me_find")
     /\ Return(w)                          \* without a reply
     /\ UNCHANGED <<map, database, client>>
  \/ /\ Stored(Board(w)) /\ User(w) \in d.active
     /\ Decide(w, "me_find", IF request[w].orig \in d.elements THEN "me_update"
                             ELSE "reply_failure")

ReplaceElement(w) ==
  /\ UpdateStep(w, "me_update",
                [docs[Board(w)] EXCEPT !.elements =
                   (@ \ {request[w].orig}) \cup {request[w].element}],
                "reply_success")
  /\ UNCHANGED granted

\* One update that both pulls from and pushes to `elements': a server that
\* calls it a conflict makes update_one throw.
UpdateRejected(w) ==
  /\ At(w, "me_update")
  /\ Close(w)
  /\ UNCHANGED counters

-----------------------------------------------------------------------------
\* handle_broadcast

\* The checks in the handler and in handle_broadcast.
CheckSharedForBroadcast(w) ==
  /\ map_mutex = Free
  /\ \/ /\ IsWhiteboardShared(Board(w))
        /\ Decide(w, "bc_check", "bc_find")
     \/ /\ ~IsWhiteboardShared(Board(w))
        /\ At(w, "bc_check")
        /\ Return(w)
        /\ UNCHANGED <<map, database, client>>

\* Mistake: what the request adds is all that is sent.
ReadOwnElement(w) ==
  /\ At(w, "bc_find")
  /\ \/ /\ Stored(Board(w))
        /\ snapshot' = [snapshot EXCEPT ![w] = {request[w].element}]
        /\ Goto(w, "bc_lock")
        /\ UNCHANGED <<request, remaining, client, answers, counters>>
     \/ /\ ~Stored(Board(w))
        /\ Return(w)
        /\ UNCHANGED client
  /\ UNCHANGED <<map, database>>

ReadElementsForBroadcast(w) ==
  /\ At(w, "bc_find")
  /\ \/ /\ ReadElements(w)
        /\ Goto(w, "bc_lock")
        /\ UNCHANGED <<request, remaining, answers, counters>>
     \/ /\ ~Stored(Board(w))
        /\ Return(w)
        /\ UNCHANGED client
  /\ UNCHANGED <<map, database>>

\* operator[] makes the entry if the last socket left meanwhile.
EnterBroadcast(w, sockets) ==
  /\ At(w, "bc_lock")
  /\ map_mutex' = w
  /\ session_keys' = session_keys \cup {Board(w)}
  /\ remaining' = [remaining EXCEPT ![w] = sockets]
  /\ Goto(w, "bc_send")
  /\ UNCHANGED <<request, snapshot, session_sockets, corrupt, database, client,
                 answers, counters>>

\* Mistake: the mutex is not waited for.
LockHeldMutex(w) == EnterBroadcast(w, session_sockets[Board(w)])

\* Mistake: the connection that drew is left out of the broadcast.
LockSkippingSender(w) ==
  /\ map_mutex = Free
  /\ EnterBroadcast(w, session_sockets[Board(w)] \ {w})

LockForBroadcast(w) ==
  /\ map_mutex = Free
  /\ EnterBroadcast(w, session_sockets[Board(w)])

\* Nothing arrives through the address of a socket that was destroyed.
BroadcastTo(w, v) ==
  /\ At(w, "bc_send")
  /\ v \in remaining[w]
  /\ remaining' = [remaining EXCEPT ![w] = @ \ {v}]
  /\ \/ ~At(v, "idle") /\ Deliver(v, Board(w), snapshot[w])
     \/ (At(v, "idle") \/ Sending(v)) /\ DeliverNothing
  /\ Tear(v, Sending(v))
  /\ UNCHANGED <<pc, request, snapshot, map, database, joined, synced, overlapped,
                 answers, counters>>

\* Mistake: the mutex is not released.
EndBroadcastLocked(w) ==
  /\ At(w, "bc_send")
  /\ remaining[w] = {}
  /\ Return(w)
  /\ UNCHANGED <<map, database, client>>

\* The destructor of the lock_guard releases the mutex.
EndBroadcast(w) ==
  /\ At(w, "bc_send")
  /\ remaining[w] = {}
  /\ map_mutex' = Free
  /\ Return(w)
  /\ UNCHANGED <<session_keys, session_sockets, corrupt, database, client>>

-----------------------------------------------------------------------------
HandlerStep(w) ==
  \/ MalformedId(w) \/ AssignUserId(w) \/ Reply(w)
  \/ InsertWhiteboard(w) \/ InsertFails(w)
  \/ FindOwnedBoard(w) \/ AddOwnerSocket(w) \/ SetActiveUsers(w)
  \/ FindSharedBoard(w) \/ AddMemberSocket(w) \/ AddActiveUser(w)
  \/ CheckSharedForUnicast(w) \/ ReadElementsForUnicast(w) \/ SendUnicast(w)
  \/ QuitMap(w) \/ PullActiveUser(w) \/ FindAbandonedBoard(w) \/ DeleteBoard(w)
  \/ AuthorizeAdd(w) \/ PushElement(w)
  \/ AuthorizeModify(w) \/ ReplaceElement(w) \/ UpdateRejected(w)
  \/ CheckSharedForBroadcast(w) \/ ReadElementsForBroadcast(w)
  \/ LockForBroadcast(w) \/ EndBroadcast(w)
  \/ \E v \in Workers : BroadcastTo(w, v)

Next ==
  \/ \E w \in Workers :
       \/ Accept(w) \/ Disconnect(w) \/ DatabaseError(w)
       \/ \E r \in Request : Receive(w, r)
       \/ HandlerStep(w)
  \/ Crash

Spec == Init /\ [][Next]_vars

\* The worker threads are scheduled, the database answers, and a client
\* that is sent something reads it.  No client has to send or to leave.
FairSpec == Spec /\ \A w \in Workers : WF_vars(HandlerStep(w))

-----------------------------------------------------------------------------
Steps ==
  {"idle", "read", "assign", "cw_insert", "cs_find", "cs_add", "cs_set",
   "js_find", "js_add", "js_update", "js_shared", "js_elements", "js_send",
   "qs_remove", "qs_pull", "qs_find", "qs_delete", "ae_find", "ae_push",
   "me_find", "me_update", "reply_success", "reply_failure",
   "bc_check", "bc_find", "bc_lock", "bc_send"}

HandlerTypes ==
  /\ pc \in [Workers -> Steps]
  /\ request \in [Workers -> [type    : RequestTypes \cup {"none"},
                              user    : Nat,
                              board   : Boards \cup {BadId},
                              orig    : Elements \cup {NoElement},
                              element : Elements \cup {NoElement}]]
  /\ snapshot \in [Workers -> SUBSET Elements]
  /\ remaining \in [Workers -> SUBSET Workers]
  /\ answers \in [Workers -> Nat]

MapTypes ==
  /\ session_keys \in SUBSET Boards
  /\ session_sockets \in [Boards -> SUBSET Workers]
  /\ map_mutex \in Workers \cup {Free}
  /\ corrupt \in BOOLEAN

DatabaseTypes ==
  /\ docs \in [Boards -> Doc]
  /\ seq \in Nat
  /\ granted \in [Boards -> SUBSET Nat]

ClientTypes ==
  /\ joined \in [Workers -> SUBSET Boards]
  /\ synced \in [Workers -> SUBSET Boards]
  /\ received \in [Workers -> [Boards -> SUBSET Elements]]
  /\ latest \in [Workers -> [Boards -> SUBSET Elements]]
  /\ torn \in SUBSET Workers
  /\ overlapped \in SUBSET Boards

CounterTypes ==
  /\ requests \in 0..MaxRequests
  /\ faults \in 0..MaxFaults

\* A handler runs for its type of request.  After the step that needs it, the
\* id of the request is an object id, and a request that adds or modifies has
\* the elements it needs.
BroadcastSteps == {"bc_check", "bc_find", "bc_lock", "bc_send"}
BoardSteps ==
  {"cs_add", "cs_set", "js_add", "js_update", "js_shared", "js_elements",
   "js_send", "qs_find", "qs_delete", "ae_push", "me_update"}

Fits(r, step) ==
  /\ step \in BoardSteps => r.board \in Boards
  /\ step \in {"assign", "cw_insert"} =>
       r.type \in {"createWhiteboard", "joinSession"}
  /\ step \in {"ae_find", "ae_push"} =>
       r.type = "addElement" /\ r.element \in Elements
  /\ step \in {"me_find", "me_update"} =>
       r.type = "modifyElement" /\ r.orig \in Elements /\ r.element \in Elements
  /\ step = "reply_success" /\ r.type \in {"addElement", "modifyElement"} =>
       r.board \in Boards
  /\ step \in BroadcastSteps =>
       r.type \in {"addElement", "modifyElement"} /\ r.board \in Boards

RequestFits == \A w \in Workers : Fits(request[w], pc[w])

TypeOK ==
  /\ HandlerTypes /\ MapTypes /\ DatabaseTypes /\ ClientTypes /\ CounterTypes
  /\ RequestFits

\* map_mutex is held by exactly the worker that sends a broadcast: a handler
\* that throws or returns never leaves it locked, and no two broadcasts overlap.
MutexHeldBySender ==
  \A w \in Workers : map_mutex = w <=> pc[w] = "bc_send"

\* As long as no unlocked erase overlapped another access to the map, a
\* connection that opened or joined a session and did not quit it is in the
\* session's entry, whatever other connections join, quit, close or fail:
\* broadcasts look for it there.
MemberRegistered ==
  ~corrupt =>
    \A w \in Workers : \A b \in joined[w] :
      b \in session_keys /\ w \in session_sockets[b]

\* A drawing or a change reaches the database only for a user who owned the
\* board or was active on it at some time: a stale authorisation is one that
\* was given once.
OnlyMembersDraw ==
  \A w \in Workers : pc[w] \in {"ae_push", "me_update"} =>
    User(w) \in granted[Board(w)]

\* Worker w has changed board b and has yet to tell the board's sockets.
Publishing(w, b) ==
  /\ Board(w) = b
  /\ request[w].type \in {"addElement", "modifyElement"}
  /\ pc[w] \in BroadcastSteps \cup {"reply_success"}

Quiescent(b) == \A w \in Workers : ~Publishing(w, b)

\* A member that joined and was sent the board misses no element: once no
\* broadcast of the board is on its way, it was sent everything stored on it,
\* in whatever order joins, drawings and broadcasts were interleaved.  Not so
\* after a race on the map or on the member's stream, a failed call or a crash.
ElementsReachMembers ==
  ~corrupt /\ faults = 0 =>
    \A w \in Workers \ torn : \A b \in synced[w] :
      Stored(b) /\ Quiescent(b) => docs[b].elements \subseteq received[w][b]

\* What a member was sent last is the board, and not an older state of it: so it
\* is as long as no two workers were sending that board at once.  They read the
\* elements before they take the mutex, and may send them in the other order.
LastSentIsTheBoard ==
  ~corrupt /\ faults = 0 =>
    \A w \in Workers \ torn : \A b \in synced[w] \ overlapped :
      Stored(b) /\ Quiescent(b) => latest[w][b] = docs[b].elements

\* The find that w is about to do shows a board on which its user may not draw:
\* a user who is not active may add to a board as its owner, and not modify it.
Unauthorised(w) ==
  /\ Stored(Board(w))
  /\ \/ At(w, "ae_find") /\ User(w) \notin docs[Board(w)].active \cup {docs[Board(w)].uid}
     \/ At(w, "me_find") /\ User(w) \notin docs[Board(w)].active

\* A handler that is done, but for the broadcast that may follow, has sent one
\* reply, and a broadcast adds none.  The one exception is a drawing that the
\* handler finds, at this very step, to be of a user who may not draw; in
\* particular what was authorised is answered.  A connection that closes in the
\* middle of a handler cannot be answered.
AnsweredOnce ==
  [][\A w \in Workers : pc[w] \notin {"idle", "read"} /\ pc'[w] # "idle" =>
       IF pc[w] \in BroadcastSteps
       THEN answers'[w] = answers[w]
       ELSE pc'[w] \in BroadcastSteps \cup {"read"} =>
              answers'[w] = 1 \/ (answers'[w] = 0 /\ Unauthorised(w))]_vars

\* Every handler ends: no worker is stuck on map_mutex or in a loop, with the
\* requests of a behaviour finite in number.
HandlersEnd ==
  \A w \in Workers : pc[w] \notin {"idle", "read"} ~> pc[w] \in {"idle", "read"}

Store == INSTANCE BoardStore

\* The documents live the life that BoardStore describes.
RefinesBoardStore == Store!Spec

-----------------------------------------------------------------------------
\* What comments and messages of the code say, and the code does not do.

\* whiteboard_sessions maps a board "to connected sockets" (server.hpp:42):
\* the entry of a board holds no socket of a connection that is closed.
OnlyConnectedSockets ==
  \A b \in Boards : \A w \in session_sockets[b] : pc[w] # "idle"

\* "If the user is not in the active_user_ids list or whiteboard not found, send
\* a failure response" (server.cpp:489 and 740): a request for an element that
\* was handled to its end, as any other, got a reply.
RefusalsAreAnswered ==
  [][\A w \in Workers : pc[w] \notin {"idle", "read"} /\ pc'[w] = "read" =>
       answers'[w] = 1]_vars

\* "Delete the whiteboard document if no active users remaining"
\* (server.cpp:431): a document that is deleted has no active user.
DeleteOnlyAbandoned ==
  [][\A b \in Boards : Stored(b) /\ docs'[b].state = "deleted" =>
       docs[b].active = {}]_vars
=============================================================================
