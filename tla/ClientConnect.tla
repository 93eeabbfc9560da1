--------------------------- MODULE ClientConnect ---------------------------
(***************************************************************************)
(* client.cpp: WhiteboardClient::start and the asynchronous client: the    *)
(* connect attempts, the deadline actor, the reader and close.  start runs *)
(* io_context: completed operations are queued and their handlers run one  *)
(* at a time, each to its end; run returns when nothing is queued and      *)
(* nothing outstanding.                                                    *)
(*                                                                         *)
(* The constructor has connected the socket and done the handshake, so the *)
(* first async_connect of start normally fails at once.                    *)
(*                                                                         *)
(* Time is abstract: a deadline is set, and at some time it has passed.    *)
(***************************************************************************)
EXTENDS Naturals, Sequences

CONSTANTS
  Endpoints,    \* what the server's name resolved to; resolve found one
  MaxPackets    \* bound on the packets received

ASSUME EndpointsAssumption == Endpoints \in Nat \ {0} /\ MaxPackets \in Nat

VARIABLES
  phase,        \* of the application: before, in or after start
  connected,    \* connected_
  socket,       \* the lowest layer: is_open or not
  endpoint,     \* endpoint_iter: 0 before start, Endpoints + 1 is the end
  connecting,   \* an async_connect is outstanding
  reads,        \* the async_read_untils outstanding
  deadline,     \* deadline_'s expiry
  waiting,      \* the async_waits outstanding
  ready,        \* the completions whose handlers are to run, in order
  received,     \* packets that arrived, to bound them
  closer        \* history: what closed the socket last

ops   == <<socket, connecting, reads, closer>>
timer == <<deadline, waiting>>
vars  == <<phase, connected, endpoint, ready, received, ops, timer>>

Init ==
  /\ phase = "before"
  /\ connected = TRUE /\ socket = "open" /\ closer = "nobody"
  /\ endpoint = 0 /\ connecting = FALSE
  /\ reads = 0 /\ received = 0
  /\ deadline = "unset" /\ waiting = 0
  /\ ready = <<>>

Times(n, handler) == [i \in 1 .. n |-> handler]

\* Closing the socket aborts what is outstanding on it, ...
WithAborts(queue) ==
  queue \o Times(IF connecting THEN 1 ELSE 0, "refused") \o Times(reads, "error")

\* ... and setting an expiry aborts the waits.
WithWaits(queue) == queue \o Times(waiting, "timer")

-----------------------------------------------------------------------------
\* The functions the handlers call; `queue' is what is ready before the call.

\* handle_receive_async; reading from a closed socket fails at once.
HandleReceiveAsync(queue) ==
  /\ deadline' = "set"
  /\ waiting' = 0
  /\ IF socket = "open"
     THEN reads' = reads + 1 /\ ready' = WithWaits(queue)
     ELSE ready' = Append(WithWaits(queue), "error") /\ UNCHANGED reads

\* Mistake: the attempt at the next endpoint has the deadline of the last.
ConnectWithoutDeadline(queue) ==
  /\ endpoint' = endpoint + 1
  /\ IF endpoint < Endpoints
     THEN /\ socket' = "open" /\ connecting' = TRUE
          /\ ready' = queue
          /\ UNCHANGED <<connected, timer>>
     ELSE /\ connected' = FALSE
          /\ ready' = queue \o Times(IF connected THEN 1 ELSE 0, "shutdown")
          /\ socket' = "closed" /\ connecting' = FALSE
          /\ UNCHANGED timer

\* start_connect(++endpoint_iter), with the socket closed: async_connect
\* opens it again.  At the end of the endpoints, close().
StartConnect(queue) ==
  /\ endpoint' = endpoint + 1
  /\ IF endpoint < Endpoints
     THEN /\ deadline' = "set" /\ waiting' = 0
          /\ socket' = "open" /\ connecting' = TRUE
          /\ ready' = WithWaits(queue)
          /\ UNCHANGED connected
     ELSE /\ connected' = FALSE
          /\ ready' = queue \o Times(IF connected THEN 1 ELSE 0, "shutdown")
          /\ socket' = "closed" /\ connecting' = FALSE
          /\ UNCHANGED timer

-----------------------------------------------------------------------------
\* The application, before start

\* handle_receive_async, which is public.
ReceiveBeforeStart ==
  /\ phase = "before"
  /\ deadline = "unset"
  /\ HandleReceiveAsync(ready)
  /\ UNCHANGED <<phase, connected, socket, endpoint, connecting, received, closer>>

\* close, which posts the shutdown.
CloseBeforeStart ==
  /\ phase = "before"
  /\ connected
  /\ connected' = FALSE
  /\ ready' = Append(ready, "shutdown")
  /\ UNCHANGED <<phase, endpoint, received, ops, timer>>

\* start: start_connect with the first endpoint and an open socket, and the
\* deadline actor's first wait.  Connecting a connected socket is an error; it
\* is an attempt when the server has reset the connection.
Start ==
  /\ phase = "before"
  /\ phase' = "running"
  /\ endpoint' = 1
  /\ deadline' = "set" /\ waiting' = 1
  /\ \/ ready' = Append(ready, "refused") /\ UNCHANGED connecting
     \/ connecting' = TRUE /\ UNCHANGED ready
  /\ UNCHANGED <<connected, socket, reads, received, closer>>

-----------------------------------------------------------------------------
\* The network and the clock

ConnectEnds ==
  /\ phase = "running"
  /\ connecting
  /\ connecting' = FALSE
  /\ \E result \in {"accepted", "refused"} : ready' = Append(ready, result)
  /\ UNCHANGED <<phase, connected, socket, endpoint, reads, received, closer, timer>>

\* A packet is there: from the network, or from what TLS and input_buffer_
\* still hold.
PacketArrives ==
  /\ phase \in {"before", "running"}
  /\ reads > 0
  /\ received < MaxPackets
  /\ received' = received + 1
  /\ reads' = reads - 1
  /\ ready' = Append(ready, "packet")
  /\ UNCHANGED <<phase, connected, socket, endpoint, connecting, closer, timer>>

ReadFails ==
  /\ phase \in {"before", "running"}
  /\ reads > 0
  /\ reads' = reads - 1
  /\ ready' = Append(ready, "error")
  /\ UNCHANGED <<phase, connected, socket, endpoint, connecting, received, closer, timer>>

\* The waits for it end with the deadline.  (It never passes while it is
\* infinite: a wait for that one does not end.)
DeadlinePasses ==
  /\ phase \in {"before", "running"}
  /\ deadline = "set"
  /\ deadline' = "passed"
  /\ waiting' = 0
  /\ ready' = WithWaits(ready)
  /\ UNCHANGED <<phase, connected, endpoint, received, ops>>

-----------------------------------------------------------------------------
\* io_context.run

Runs(handlers) ==
  /\ phase = "running"
  /\ ready # <<>>
  /\ Head(ready) \in handlers

\* Mistake: the actor waits for no new deadline.
CheckDeadlineOnce ==
  /\ Runs({"timer"})
  /\ IF connected /\ deadline = "passed"
     THEN /\ socket' = "closed" /\ closer' = "deadline"
          /\ connecting' = FALSE /\ reads' = 0
          /\ deadline' = "infinite"
          /\ ready' = WithAborts(Tail(ready))
     ELSE /\ ready' = Tail(ready)
          /\ UNCHANGED <<deadline, ops>>
  /\ UNCHANGED <<phase, connected, endpoint, received, waiting>>

\* Mistake: the actor goes on after close.
CheckDeadlineAlways ==
  /\ Runs({"timer"})
  /\ IF deadline = "passed"
     THEN /\ socket' = "closed" /\ closer' = "deadline"
          /\ connecting' = FALSE /\ reads' = 0
          /\ deadline' = "infinite"
          /\ ready' = WithAborts(Tail(ready))
     ELSE /\ ready' = Tail(ready)
          /\ UNCHANGED <<deadline, ops>>
  /\ waiting' = waiting + 1
  /\ UNCHANGED <<phase, connected, endpoint, received>>

\* check_deadline: also run when its wait was aborted by a new expiry.
CheckDeadline ==
  /\ Runs({"timer"})
  /\ IF connected /\ deadline = "passed"
     THEN /\ socket' = "closed" /\ closer' = "deadline"
          /\ connecting' = FALSE /\ reads' = 0
          /\ deadline' = "infinite"
          /\ ready' = WithAborts(Tail(ready))
     ELSE /\ ready' = Tail(ready)
          /\ UNCHANGED <<deadline, ops>>
  /\ waiting' = IF connected THEN waiting + 1 ELSE waiting
  /\ UNCHANGED <<phase, connected, endpoint, received>>

\* handle_connect, which does not look at connected_.
ConnectTimedOut ==
  /\ Runs({"accepted", "refused"})
  /\ socket = "closed"
  /\ StartConnect(Tail(ready))
  /\ UNCHANGED <<phase, reads, received, closer>>

ConnectFailed ==
  /\ Runs({"refused"})
  /\ socket = "open"
  /\ closer' = "error" /\ reads' = 0
  /\ StartConnect(WithAborts(Tail(ready)))
  /\ UNCHANGED <<phase, received>>

ConnectSucceeded ==
  /\ Runs({"accepted"})
  /\ socket = "open"
  /\ HandleReceiveAsync(Tail(ready))
  /\ UNCHANGED <<phase, connected, socket, endpoint, connecting, received, closer>>

\* Mistake: a read that fails closes the socket.
ReaderCloses ==
  /\ Runs({"packet", "error"})
  /\ ~connected \/ Head(ready) = "error"
  /\ socket' = "closed" /\ closer' = "error"
  /\ connecting' = FALSE /\ reads' = 0
  /\ ready' = WithAborts(Tail(ready))
  /\ UNCHANGED <<phase, connected, endpoint, received, timer>>

\* handle_single_packet, when it was closed or the read failed: the reader
\* stops, without a word to anybody.
ReaderStops ==
  /\ Runs({"packet", "error"})
  /\ ~connected \/ Head(ready) = "error"
  /\ ready' = Tail(ready)
  /\ UNCHANGED <<phase, connected, endpoint, received, ops, timer>>

\* handle_single_packet: the packet is handled and the next one awaited, ...
ReaderContinues ==
  /\ Runs({"packet"})
  /\ connected
  /\ HandleReceiveAsync(Tail(ready))
  /\ UNCHANGED <<phase, connected, socket, endpoint, connecting, received, closer>>

\* ... or handling it throws, and the exception leaves run and start.
ReaderThrows ==
  /\ Runs({"packet"})
  /\ connected
  /\ phase' = "threw"
  /\ ready' = Tail(ready)
  /\ UNCHANGED <<connected, endpoint, received, ops, timer>>

\* What close posted: shut the socket down and, when that works, close it.
Shutdown ==
  /\ Runs({"shutdown"})
  /\ \/ /\ socket = "open"
        /\ socket' = "closed" /\ closer' = "shutdown"
        /\ connecting' = FALSE /\ reads' = 0
        /\ ready' = WithAborts(Tail(ready))
     \/ /\ ready' = Tail(ready)
        /\ UNCHANGED ops
  /\ UNCHANGED <<phase, connected, endpoint, received, timer>>

RunReturns ==
  /\ phase = "running"
  /\ ready = <<>> /\ ~connecting /\ reads = 0 /\ waiting = 0
  /\ phase' = "returned"
  /\ UNCHANGED <<connected, endpoint, ready, received, ops, timer>>

\* The destructor calls close, and nothing runs what that posts.
Destroy ==
  /\ phase \in {"before", "returned", "threw"}
  /\ phase' = "destroyed"
  /\ connected' = FALSE
  /\ socket' = "closed" /\ connecting' = FALSE /\ reads' = 0 /\ waiting' = 0
  /\ ready' = <<>>
  /\ UNCHANGED <<endpoint, deadline, received, closer>>

HandlerStep ==
  \/ CheckDeadline
  \/ ConnectTimedOut \/ ConnectFailed \/ ConnectSucceeded
  \/ ReaderStops \/ ReaderContinues \/ ReaderThrows
  \/ Shutdown
  \/ RunReturns

Next ==
  \/ ReceiveBeforeStart \/ CloseBeforeStart \/ Start \/ Destroy
  \/ ConnectEnds \/ PacketArrives \/ ReadFails \/ DeadlinePasses
  \/ HandlerStep

Spec == Init /\ [][Next]_vars

\* The thread in start runs what is ready, and time passes; a server may stay
\* silent, to an attempt to connect and to a read.
FairSpec ==
  /\ Spec
  /\ WF_vars(HandlerStep)
  /\ WF_vars(DeadlinePasses)

-----------------------------------------------------------------------------
Handlers == {"accepted", "refused", "packet", "error", "timer", "shutdown"}

TypeOK ==
  /\ phase \in {"before", "running", "returned", "threw", "destroyed"}
  /\ connected \in BOOLEAN
  /\ socket \in {"open", "closed"}
  /\ endpoint \in 0 .. Endpoints + 1
  /\ connecting \in BOOLEAN
  /\ reads \in Nat
  /\ deadline \in {"unset", "set", "passed", "infinite"}
  /\ waiting \in Nat
  /\ ready \in Seq(Handlers)
  /\ received \in 0 .. MaxPackets
  /\ closer \in {"nobody", "deadline", "error", "shutdown"}

TimersReady == {i \in DOMAIN ready : ready[i] = "timer"}

\* There is one deadline actor, asleep or about to run, whatever aborts its
\* waits: none is lost, which would leave operations without a timeout, and
\* none is doubled.
OneDeadlineActor ==
  /\ waiting \in {0, 1}
  /\ \A i, j \in TimersReady : i = j
  /\ waiting = 1 => TimersReady = {}
  /\ phase = "running" /\ connected => waiting = 1 \/ TimersReady # {}

\* The one deadline serves connecting and reading, and is switched off when it
\* has fired: nothing that is outstanding is left without one.
OperationsHaveDeadlines ==
  connected /\ (connecting \/ reads > 0) => deadline \in {"set", "passed"}

\* "If the socket is closed at this time then the timeout handler must have
\* run first." (client.cpp:498) So it is, as long as nobody called close.
ClosedMeansTimedOut ==
  Runs({"accepted", "refused"}) /\ connected /\ socket = "closed"
    => closer = "deadline"

\* An attempt to connect and a read do not take for ever, whatever the server
\* does, until an exception leaves start: the deadline ends them.
OperationsEnd ==
  /\ phase = "running" /\ connected /\ connecting ~> ~connecting \/ phase = "threw"
  /\ phase = "running" /\ connected /\ reads > 0 ~> reads = 0 \/ phase = "threw"

\* "There are no more endpoints to try. Shut down the client." (client.cpp:482)
\* start does return then, unless the last attempt was the one that timed out:
\* the deadline is infinite by then, and the wait for it is never cancelled.
ShutDownReturns ==
  phase = "running" /\ endpoint = Endpoints + 1 /\ deadline # "infinite"
    ~> phase = "returned"
=============================================================================
