-------------------------- MODULE ServerLifecycle --------------------------
(***************************************************************************)
(* server.cpp: accept_connections and start; server.hpp: the members of    *)
(* WhiteboardServer; example/test_server.cpp: its life.  The accept loop   *)
(* is the owner of the ThreadPool.  It does the TLS handshake itself, so   *)
(* it is at one client at a time, and any exception ends it for good:      *)
(* start returns (io_context has no work) and main destroys the server,    *)
(* the members in the reverse order of their declaration.  The pool's      *)
(* destructor is one of them; until it returns the workers go on serving   *)
(* the connections there are.                                              *)
(*                                                                         *)
(* Clients are numbered in the order they connect: the operating system    *)
(* queues connections until they are accepted, in that order.  A request   *)
(* that is handled while members are being destroyed has undefined         *)
(* behaviour; here clients only come and leave.                            *)
(***************************************************************************)
EXTENDS ThreadPool

CONSTANT Members    \* of WhiteboardServer, in the order they are destroyed

ASSUME ArrivalsAssumption == IsFiniteSet(Tasks) /\ Tasks = 1 .. Cardinality(Tasks)

ASSUME MembersAssumption ==
  /\ Members \in Seq(STRING)
  /\ \E p \in 1 .. Len(Members) :
       /\ Members[p] = "thread_pool"
       /\ \A i \in 1 .. Len(Members) : Members[i] = "thread_pool" => i = p
       /\ \A i \in 1 .. Len(Members) :
            Members[i] \in {"acceptor", "ssl_context", "io_context"} => i > p

VARIABLES
  loop,         \* the accept loop: in accept, in a handshake, or ended
  arrived,      \* how many clients have connected
  accepted,     \* how many of them accept returned
  gone          \* how many members are destroyed

accepting == <<loop, arrived, accepted>>
all       == <<vars, loop, arrived, accepted, gone>>

Destroyed(member) == \E i \in 1 .. gone : Members[i] = member

ServerInit ==
  /\ Init
  /\ loop = "accept"
  /\ arrived = 0 /\ accepted = 0
  /\ gone = 0

Arrive ==
  /\ arrived + 1 \in Tasks
  /\ ~Destroyed("acceptor")
  /\ arrived' = arrived + 1
  /\ UNCHANGED <<vars, loop, accepted, gone>>

\* The loop is at accept again when enqueue has returned.
Accept ==
  /\ loop = "accept" /\ owner = "open"
  /\ accepted < arrived
  /\ accepted' = accepted + 1
  /\ loop' = "handshake"
  /\ UNCHANGED <<vars, arrived, gone>>

\* Mistake: the socket of a client is handed over, and the loop, whose next
\* step is to hand over again, does not wait for another.
HandOverAgain ==
  /\ loop = "handshake"
  /\ Enqueue(accepted)
  /\ UNCHANGED <<accepting, gone>>

\* Mistake: the variable captured is that of the client that came last.
HandOverLast ==
  /\ loop = "handshake"
  /\ Enqueue(arrived)
  /\ loop' = "accept"
  /\ UNCHANGED <<arrived, accepted, gone>>

\* Mistake: the socket is put into the queue without enqueue's notification.
HandOverQuietly ==
  /\ loop = "handshake" /\ owner = "open"
  /\ tasks' = Append(tasks, accepted)
  /\ enqueued' = Append(enqueued, accepted)
  /\ loop' = "accept"
  /\ UNCHANGED <<owner, stop, workerpc, task, finished, arrived, accepted, gone>>

\* The handshake succeeds: the socket goes to the pool.  That it never went
\* there before is up to the loop: nothing in enqueue looks.
HandOver ==
  /\ loop = "handshake"
  /\ Enqueue(accepted)
  /\ loop' = "accept"
  /\ UNCHANGED <<arrived, accepted, gone>>

\* accept throws, or the handshake, or the question for the client's address.
LoopFails ==
  /\ loop \in {"accept", "handshake"} /\ owner = "open"
  /\ loop' = "ended"
  /\ UNCHANGED <<vars, arrived, accepted, gone>>

\* Mistake: the members are destroyed while the pool still has workers.
DestroyAnyMember ==
  /\ loop = "ended"
  /\ gone < Len(Members)
  /\ gone' = gone + 1
  /\ UNCHANGED <<vars, accepting>>

\* A member other than the pool: its destructor runs at once.
DestroyMember ==
  /\ loop = "ended"
  /\ gone < Len(Members)
  /\ Members[gone + 1] # "thread_pool"
  /\ gone' = gone + 1
  /\ UNCHANGED <<vars, accepting>>

\* ~ThreadPool: set stop, notify, join.
DestroyPool ==
  /\ loop = "ended"
  /\ gone < Len(Members)
  /\ Members[gone + 1] = "thread_pool"
  /\ \/ (Stop \/ NotifyAll) /\ UNCHANGED gone
     \/ Join /\ gone' = gone + 1
  /\ UNCHANGED accepting

PoolStep ==
  /\ \/ \E w \in Workers : WorkerStep(w) \/ SpuriousWakeup(w) \/ TaskReturns(w)
     \/ NotifyOne
  /\ UNCHANGED <<accepting, gone>>

ServerEnded ==
  /\ gone = Len(Members)
  /\ UNCHANGED all

ServerNext ==
  \/ Arrive
  \/ Accept \/ HandOver \/ LoopFails
  \/ DestroyMember \/ DestroyPool
  \/ PoolStep
  \/ ServerEnded

ServerSpec == ServerInit /\ [][ServerNext]_all

\* Besides the pool's fairness: accept returns when somebody has connected,
\* and destructors run.
FairServerSpec ==
  /\ ServerSpec
  /\ SchedulerFairness
  /\ WF_all(Accept)
  /\ WF_all(DestroyMember) /\ WF_all(DestroyPool)

\* What a property may ask for: no client delays its handshake for ever.
HandshakesEnd == WF_all(loop = "handshake" /\ (HandOver \/ LoopFails))

-----------------------------------------------------------------------------
\* The pool gets the clients in the order they came; all that accept ever
\* returned, but the one in its handshake or with the one that ended the loop.
NobodyOvertakes ==
  /\ \A i \in DOMAIN enqueued : enqueued[i] = i
  /\ Len(enqueued) \in {accepted, accepted - 1}
  /\ loop = "accept" => Len(enqueued) = accepted

\* A connection uses the acceptor's io_context and the TLS context: they are
\* there until the last connection has ended, queued ones included.
ContextsOutliveHandlers ==
  Destroyed("ssl_context") \/ Destroyed("io_context")
    => tasks = <<>> /\ Running = {}

\* When handshakes end and clients leave, every client that connects is served,
\* unless the loop has ended or ends with it.
EveryClientIsServed ==
  ClientsLeave /\ HandshakesEnd =>
    \A c \in Tasks : arrived = c ~> c \in finished \/ loop = "ended"

\* Once the loop has ended and clients leave, the whole server is destroyed.
ServerEnds ==
  ClientsLeave => (loop = "ended" ~> gone = Len(Members))
=============================================================================
