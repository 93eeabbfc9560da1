---------------------------- MODULE UserAccounts ----------------------------
(***************************************************************************)
(* server/server.cpp: registration, login and the ids of anonymous users.  *)
(* The workers share the collection of users, whose _id index is unique    *)
(* and whose user names have no index, and the sequence that ids are taken *)
(* from.  A step is one call to the database or one reply.  The salted     *)
(* SHA-256 of a password is compared for equality only: it is the password *)
(* itself here, that is, the hash is taken to be free of collisions.       *)
(***************************************************************************)
EXTENDS Naturals, FiniteSets

CONSTANTS
  Workers,      \* threads of the pool
  Names,        \* user names that clients send
  NoName,       \* the empty name, which anonymous accounts have
  Passwords,    \* password hashes that clients send
  NoPassword,   \* an anonymous account has neither salt nor hash
  MaxRequests,  \* bound: requests received in a behaviour
  MaxFaults     \* bound: database errors and crashes in a behaviour

ASSUME NamesAssumption  == NoName \notin Names /\ NoPassword \notin Passwords
ASSUME BoundsAssumption == MaxRequests \in Nat /\ MaxFaults \in Nat

VARIABLES
  pc,           \* the step each worker takes next
  request,      \* the request each worker handles
  uid,          \* the id its handler took or found
  users,        \* database: the collection of users
  seq,          \* database: the sequence of user ids; 0 before its first use
  told,         \* history: the ids sent to holders of a name and a password
  raced,        \* history: names that two registrations had checked at once
  answers,      \* history: replies sent to the current request
  requests,     \* requests received so far
  faults        \* database errors and crashes so far

database == <<users, seq>>
history  == <<told, raced>>
counters == <<requests, faults>>
vars == <<pc, request, uid, database, history, answers, counters>>

\* Clients may also send the empty name.  An "anonymous" request stands for
\* the head of the handlers that create or join a board for user id 0.
Request ==
  [type : {"register", "login"}, name : Names \cup {NoName},
   password : Passwords]
  \cup [type : {"anonymous"}, name : {NoName}, password : {NoPassword}]

NoRequest == [type |-> "none", name |-> NoName, password |-> NoPassword]

Account == [id : Nat, name : Names \cup {NoName},
            password : Passwords \cup {NoPassword}]

Init ==
  /\ pc = [w \in Workers |-> "idle"]
  /\ request = [w \in Workers |-> NoRequest]
  /\ uid = [w \in Workers |-> 0]
  /\ users = {}
  /\ seq = 0
  /\ told = {}
  /\ raced = {}
  /\ answers = [w \in Workers |-> 0]
  /\ requests = 0
  /\ faults = 0

Goto(w, label) == pc' = [pc EXCEPT ![w] = label]
Named(name)    == {u \in users : u.name = name}

\* The locals of the handler are gone with it.
Leave(w, label) ==
  /\ Goto(w, label)
  /\ request' = [request EXCEPT ![w] = NoRequest]
  /\ uid' = [uid EXCEPT ![w] = 0]

Return(w) == Leave(w, "read")   \* to the loop of handle_connection
Close(w)  == Leave(w, "idle")   \* out of it: the connection is closed

Accept(w) ==
  /\ pc[w] = "idle"
  /\ Goto(w, "read")
  /\ UNCHANGED <<request, uid, database, history, answers, counters>>

Disconnect(w) ==
  /\ pc[w] = "read"
  /\ Close(w)
  /\ UNCHANGED <<database, history, answers, counters>>

Receive(w, r) ==
  /\ pc[w] = "read"
  /\ requests < MaxRequests
  /\ requests' = requests + 1
  /\ request' = [request EXCEPT ![w] = r]
  /\ answers' = [answers EXCEPT ![w] = 0]
  /\ Goto(w, [register |-> "check_name", login |-> "find_user",
              anonymous |-> "sequence"][r.type])
  /\ UNCHANGED <<uid, database, history, faults>>

\* Mistake: a name that exists is registered again.
CheckNoName(w) ==
  /\ pc[w] = "check_name"
  /\ Goto(w, "sequence")
  /\ UNCHANGED <<request, uid, database, history, answers, counters>>

\* Mistake: a name that exists ends the handler before the reply.
CheckNameSilently(w) ==
  /\ pc[w] = "check_name"
  /\ \/ /\ Named(request[w].name) = {}
        /\ Goto(w, "sequence")
        /\ UNCHANGED <<request, uid>>
     \/ /\ Named(request[w].name) # {}
        /\ Return(w)
  /\ UNCHANGED <<database, history, answers, counters>>

\* A registration of this name is between its check and its insertion.
Registering(name) ==
  \E w \in Workers : /\ request[w].type = "register" /\ request[w].name = name
                     /\ pc[w] \in {"sequence", "upsert", "insert"}

\* handle_register_request, step 1
CheckName(w) ==
  LET name == request[w].name IN
  /\ pc[w] = "check_name"
  /\ \/ /\ Named(name) = {}
        /\ Goto(w, "sequence")
        /\ raced' = IF Registering(name) THEN raced \cup {name} ELSE raced
     \/ /\ Named(name) # {}
        /\ Goto(w, "failure")
        /\ UNCHANGED raced
  /\ UNCHANGED <<request, uid, database, told, answers, counters>>

\* getNextSequence increments the sequence in one step and yields the value
\* it had before ...
GetNextSequence(w) ==
  /\ pc[w] = "sequence"
  /\ seq > 0
  /\ uid' = [uid EXCEPT ![w] = seq]
  /\ seq' = seq + 1
  /\ Goto(w, "insert")
  /\ UNCHANGED <<request, users, history, answers, counters>>

\* ... but the first calls ever made find no sequence to increment.  Nothing
\* makes the document they upsert unique: each may insert one of its own and
\* yield 0.  The first of the documents is the one incremented from then on.
FindNoSequence(w) ==
  /\ pc[w] = "sequence"
  /\ seq = 0
  /\ Goto(w, "upsert")
  /\ UNCHANGED <<request, uid, database, history, answers, counters>>

UpsertSequence(w) ==
  /\ pc[w] = "upsert"
  /\ uid' = [uid EXCEPT ![w] = 0]
  /\ seq' = IF seq = 0 THEN 1 ELSE seq
  /\ Goto(w, "insert")
  /\ UNCHANGED <<request, users, history, answers, counters>>

IdTaken(w) == \E u \in users : u.id = uid[w]

InsertUser(w) ==
  /\ pc[w] = "insert"
  /\ ~IdTaken(w)
  /\ users' = users \cup {[id |-> uid[w], name |-> request[w].name,
                           password |-> request[w].password]}
  /\ Goto(w, "success")
  /\ UNCHANGED <<request, uid, seq, history, answers, counters>>

\* insert_one throws: registering reports it, assigning an id does not and
\* the connection is closed.
InsertThrows(w) ==
  \/ /\ request[w].type = "register"
     /\ Goto(w, "failure")
     /\ UNCHANGED <<request, uid>>
  \/ /\ request[w].type = "anonymous"
     /\ Close(w)

DuplicateId(w) ==
  /\ pc[w] = "insert"
  /\ IdTaken(w)
  /\ InsertThrows(w)
  /\ UNCHANGED <<database, history, answers, counters>>

\* Mistake: any password will do.
FindUserUnchecked(w) ==
  /\ pc[w] = "find_user"
  /\ \/ /\ Named(request[w].name) = {}
        /\ Goto(w, "failure")
        /\ UNCHANGED uid
     \/ \E u \in Named(request[w].name) :
          /\ uid' = [uid EXCEPT ![w] = u.id]
          /\ Goto(w, "success")
  /\ UNCHANGED <<request, database, history, answers, counters>>

\* handle_login_request.  find_one yields any account of that name; one that
\* has no salt or hash is the end of the handler, without a reply.
FindUser(w) ==
  /\ pc[w] = "find_user"
  /\ \/ /\ Named(request[w].name) = {}
        /\ Goto(w, "failure")
        /\ UNCHANGED <<request, uid>>
     \/ \E u \in Named(request[w].name) :
          \/ /\ u.password = NoPassword
             /\ Return(w)
          \/ /\ u.password = request[w].password
             /\ uid' = [uid EXCEPT ![w] = u.id]
             /\ Goto(w, "success")
             /\ UNCHANGED request
          \/ /\ u.password \notin {NoPassword, request[w].password}
             /\ Goto(w, "failure")
             /\ UNCHANGED <<request, uid>>
  /\ UNCHANGED <<database, history, answers, counters>>

\* tempIdResponse with the id
ReplySuccess(w) ==
  /\ pc[w] = "success"
  /\ answers' = [answers EXCEPT ![w] = @ + 1]
  /\ told' = IF request[w].type = "anonymous" THEN told
             ELSE told \cup {[id |-> uid[w], name |-> request[w].name,
                              password |-> request[w].password]}
  /\ Return(w)
  /\ UNCHANGED <<database, raced, counters>>

ReplyFailure(w) ==
  /\ pc[w] = "failure"
  /\ answers' = [answers EXCEPT ![w] = @ + 1]
  /\ Return(w)
  /\ UNCHANGED <<database, history, counters>>

\* A call fails; only the insertion of a registration catches it.
DatabaseError(w) ==
  /\ faults < MaxFaults
  /\ faults' = faults + 1
  /\ \/ /\ pc[w] \in {"check_name", "sequence", "upsert", "find_user"}
        /\ Close(w)
     \/ /\ pc[w] = "insert"
        /\ InsertThrows(w)
  /\ UNCHANGED <<database, history, answers, requests>>

\* Mistake: the sequence is kept in memory and starts again.
CrashLosingSequence ==
  /\ faults < MaxFaults
  /\ faults' = faults + 1
  /\ pc' = [w \in Workers |-> "idle"]
  /\ request' = [w \in Workers |-> NoRequest]
  /\ uid' = [w \in Workers |-> 0]
  /\ answers' = [w \in Workers |-> 0]
  /\ seq' = 1
  /\ UNCHANGED <<users, history, requests>>

\* The process dies and is started again on the database it left.
Crash ==
  /\ faults < MaxFaults
  /\ faults' = faults + 1
  /\ pc' = [w \in Workers |-> "idle"]
  /\ request' = [w \in Workers |-> NoRequest]
  /\ uid' = [w \in Workers |-> 0]
  /\ answers' = [w \in Workers |-> 0]
  /\ UNCHANGED <<database, history, requests>>

Next ==
  \/ \E w \in Workers :
       \/ Accept(w) \/ Disconnect(w)
       \/ \E r \in Request : Receive(w, r)
       \/ CheckName(w) \/ GetNextSequence(w)
       \/ FindNoSequence(w) \/ UpsertSequence(w)
       \/ InsertUser(w) \/ DuplicateId(w)
       \/ FindUser(w) \/ ReplySuccess(w) \/ ReplyFailure(w)
       \/ DatabaseError(w)
  \/ Crash

Spec == Init /\ [][Next]_vars

-----------------------------------------------------------------------------
TypeOK ==
  /\ pc \in [Workers -> {"idle", "read", "check_name", "sequence", "upsert",
                         "insert", "find_user", "success", "failure"}]
  /\ request \in [Workers -> Request \cup {NoRequest}]
  /\ uid \in [Workers -> Nat]
  /\ users \in SUBSET Account
  /\ seq \in Nat
  /\ told \in SUBSET Account
  /\ raced \subseteq Names \cup {NoName}
  /\ answers \in [Workers -> Nat]
  /\ requests \in 0..MaxRequests
  /\ faults \in 0..MaxFaults

\* But for the 0 of the first calls, no insertion meets an id that is taken,
\* with any number of registrations and anonymous users at once and across
\* restarts.  A collision closes the connection of an anonymous user
\* (server.cpp:229) or fails a registration.
FreshIds ==
  \A w \in Workers : pc[w] = "insert" /\ uid[w] # 0 =>
    /\ ~IdTaken(w)
    /\ \A v \in Workers : pc[v] = "insert" /\ uid[v] = uid[w] => v = w

\* An id sent in answer to a registration or a login stands for one name and
\* one password, those it was registered with, and a stored account has them:
\* nobody is told an id that is someone else's, or one that does not exist.
IdsTellUsersApart ==
  /\ told \subseteq users
  /\ \A t, u \in told : t.id = u.id => t = u

\* A user name that was never checked by two registrations at once has one
\* account: whatever other names are registered meanwhile, and over errors and
\* restarts, the check (server.cpp:507) is enough for everybody else.
UniqueUnlessRaced ==
  \A t, u \in users :
    t.name = u.name /\ t.name \notin raced \cup {NoName} => t = u

\* A handler that ends has replied once, except that a login that finds an
\* account without a password ends silently.
AnsweredOnce ==
  [][\A w \in Workers :
       pc[w] \notin {"idle", "read"} /\ pc'[w] = "read" =>
         \/ answers'[w] = 1
         \/ /\ request[w].type = "login" /\ answers'[w] = 0
            /\ \E u \in Named(request[w].name) : u.password = NoPassword]_vars
=============================================================================
