------------------------ MODULE ClientConnectProofs ------------------------
(***************************************************************************)
(* Theorems about ClientConnect, for any number of endpoints and packets.  *)
(* They rest on one inductive invariant: besides the properties it says    *)
(* that there is at most one connect operation, and what close leaves in   *)
(* the queue.  The lemmas before it are about queues of handlers: which    *)
(* kinds of handlers are in one not at all or at most once.                *)
(***************************************************************************)
EXTENDS ClientConnect, TLAPS

None(q, H) == \A i \in 1 .. Len(q) : q[i] \notin H
Once(q, H) == \A i, j \in 1 .. Len(q) : q[i] \in H /\ q[j] \in H => i = j

Timers   == {"timer"}
Connects == {"accepted", "refused"}
Closes   == {"shutdown"}

\* The deadline actor, in the terms of the lemmas.
ActorInv ==
  /\ waiting \in {0, 1}
  /\ Once(ready, Timers)
  /\ waiting = 1 => None(ready, Timers)
  /\ phase = "running" /\ connected => waiting = 1 \/ ~None(ready, Timers)
  /\ phase = "before" => waiting = 0 /\ None(ready, Timers)

\* One attempt to connect at a time, and only while there are endpoints.
ConnectInv ==
  /\ Once(ready, Connects)
  /\ connecting => None(ready, Connects)
  /\ endpoint \notin 1 .. Endpoints => ~connecting /\ None(ready, Connects)
  /\ phase = "before" => endpoint = 0 /\ ~connecting

\* What close posted is there only after close; until then it is the deadline
\* actor that closes the socket for good.
CloseInv ==
  /\ connected => None(ready, Closes)
  /\ connected /\ socket = "closed" => closer = "deadline"

CInv ==
  TypeOK /\ ActorInv /\ ConnectInv /\ CloseInv /\ OperationsHaveDeadlines

-----------------------------------------------------------------------------
\* A queue without its first handler.
LEMMA TailQueue ==
  ASSUME NEW q \in Seq(Handlers), q # <<>>, NEW H
  PROVE  /\ Tail(q) \in Seq(Handlers) /\ Head(q) \in Handlers
         /\ None(q, H) => None(Tail(q), H)
         /\ Once(q, H) => Once(Tail(q), H)
         /\ Once(q, H) /\ Head(q) \in H => None(Tail(q), H)
         /\ None(Tail(q), H) /\ Head(q) \notin H => None(q, H)
<1>1. /\ Len(q) \in Nat \ {0} /\ Len(Tail(q)) = Len(q) - 1
      /\ \A i \in 1 .. Len(Tail(q)) : Tail(q)[i] = q[i + 1]
      /\ Head(q) = q[1] /\ Tail(q) \in Seq(Handlers) /\ q[1] \in Handlers
  OBVIOUS
<1>2. None(q, H) => None(Tail(q), H)
  BY <1>1 DEF None
<1>3. Once(q, H) => Once(Tail(q), H)
  BY <1>1 DEF Once
<1>4. Once(q, H) /\ Head(q) \in H => None(Tail(q), H)
  BY <1>1 DEF Once, None
<1>5. ASSUME None(Tail(q), H), Head(q) \notin H
      PROVE  None(q, H)
  <2> SUFFICES ASSUME NEW i \in 1 .. Len(q)
               PROVE  q[i] \notin H
    BY DEF None
  <2>1. CASE i = 1
    BY <2>1, <1>1, <1>5
  <2>2. CASE i # 1
    <3>1. i - 1 \in 1 .. Len(Tail(q)) /\ q[i] = Tail(q)[i - 1]
      BY <2>2, <1>1
    <3>2. QED
      BY <3>1, <1>5 DEF None
  <2>3. QED
    BY <2>1, <2>2
<1>6. QED
  BY <1>1, <1>2, <1>3, <1>4, <1>5

\* Two queues, one after the other.
LEMMA JoinQueues ==
  ASSUME NEW q \in Seq(Handlers), NEW r \in Seq(Handlers), NEW H
  PROVE  /\ q \o r \in Seq(Handlers)
         /\ None(q \o r, H) <=> None(q, H) /\ None(r, H)
         /\ Once(q, H) /\ None(r, H) => Once(q \o r, H)
         /\ None(q, H) /\ Once(r, H) => Once(q \o r, H)
<1>1. /\ Len(q) \in Nat /\ Len(r) \in Nat /\ Len(q \o r) = Len(q) + Len(r)
      /\ \A i \in 1 .. Len(q) : (q \o r)[i] = q[i]
      /\ \A i \in 1 .. Len(r) : (q \o r)[Len(q) + i] = r[i]
      /\ q \o r \in Seq(Handlers)
  OBVIOUS
<1>2. \A i \in 1 .. Len(q \o r) :
        \/ i \in 1 .. Len(q) /\ (q \o r)[i] = q[i]
        \/ /\ i - Len(q) \in 1 .. Len(r) /\ i > Len(q)
           /\ (q \o r)[i] = r[i - Len(q)]
  <2> SUFFICES ASSUME NEW i \in 1 .. Len(q \o r), i \notin 1 .. Len(q)
               PROVE  /\ i - Len(q) \in 1 .. Len(r) /\ i > Len(q)
                      /\ (q \o r)[i] = r[i - Len(q)]
    BY <1>1
  <2>1. i - Len(q) \in 1 .. Len(r) /\ i > Len(q) /\ i = Len(q) + (i - Len(q))
    BY <1>1
  <2>2. QED
    BY <2>1, <1>1
<1>3. None(q, H) /\ None(r, H) => None(q \o r, H)
  BY <1>2 DEF None
<1>4. None(q \o r, H) => None(q, H)
  BY <1>1 DEF None
<1>5. ASSUME None(q \o r, H), NEW i \in 1 .. Len(r)
      PROVE  r[i] \notin H
  <2>1. Len(q) + i \in 1 .. Len(q \o r)
    BY <1>1
  <2>2. QED
    BY <2>1, <1>1, <1>5 DEF None
<1>6. Once(q, H) /\ None(r, H) => Once(q \o r, H)
  BY <1>2 DEF None, Once
<1>7. ASSUME None(q, H), Once(r, H)
      PROVE  Once(q \o r, H)
  <2> SUFFICES ASSUME NEW i \in 1 .. Len(q \o r), NEW j \in 1 .. Len(q \o r),
                      (q \o r)[i] \in H, (q \o r)[j] \in H
               PROVE  i = j
    BY DEF Once
  <2>1. /\ i - Len(q) \in 1 .. Len(r) /\ r[i - Len(q)] \in H
        /\ j - Len(q) \in 1 .. Len(r) /\ r[j - Len(q)] \in H
    BY <1>2, <1>7 DEF None
  <2>2. i - Len(q) = j - Len(q)
    BY <2>1, <1>7 DEF Once
  <2>3. QED
    BY <2>2, <1>1
<1>8. QED
  BY <1>1, <1>3, <1>4, <1>5, <1>6, <1>7 DEF None

\* The same handler n times.
LEMMA TimesQueue ==
  ASSUME NEW n \in Nat, NEW h \in Handlers, NEW H
  PROVE  /\ Times(n, h) \in Seq(Handlers)
         /\ None(Times(n, h), H) <=> n = 0 \/ h \notin H
         /\ n \in {0, 1} => Once(Times(n, h), H)
<1>1. /\ Times(n, h) \in Seq(Handlers) /\ Len(Times(n, h)) = n
      /\ \A i \in 1 .. n : Times(n, h)[i] = h
  BY DEF Times
<1>2. n # 0 => 1 \in 1 .. n
  OBVIOUS
<1>3. QED
  BY <1>1, <1>2 DEF None, Once

\* One handler more.
LEMMA AppendQueue ==
  ASSUME NEW q \in Seq(Handlers), NEW h \in Handlers, NEW H
  PROVE  /\ Append(q, h) \in Seq(Handlers)
         /\ None(Append(q, h), H) <=> None(q, H) /\ h \notin H
         /\ Once(q, H) /\ (h \notin H \/ None(q, H)) => Once(Append(q, h), H)
<1>1. /\ Append(q, h) \in Seq(Handlers) /\ Len(Append(q, h)) = Len(q) + 1
      /\ Len(q) \in Nat
      /\ \A i \in 1 .. Len(q) : Append(q, h)[i] = q[i]
      /\ Append(q, h)[Len(q) + 1] = h
  OBVIOUS
<1>2. /\ 1 .. Len(Append(q, h)) = 1 .. Len(q) \cup {Len(q) + 1}
      /\ Len(q) + 1 \notin 1 .. Len(q)
  BY <1>1
<1>3. QED
  BY <1>1, <1>2 DEF None, Once

\* The waits a new expiry aborts are the timers it adds.
LEMMA WaitsQueue ==
  ASSUME NEW q \in Seq(Handlers), waiting \in {0, 1}, NEW H
  PROVE  /\ WithWaits(q) \in Seq(Handlers)
         /\ None(WithWaits(q), H) <=> None(q, H) /\ (waiting = 0 \/ "timer" \notin H)
         /\ Once(q, H) /\ (waiting = 0 \/ "timer" \notin H \/ None(q, H))
              => Once(WithWaits(q), H)
<1>1. "timer" \in Handlers /\ waiting \in Nat
  BY DEF Handlers
<1>2. /\ Times(waiting, "timer") \in Seq(Handlers)
      /\ None(Times(waiting, "timer"), H) <=> waiting = 0 \/ "timer" \notin H
      /\ Once(Times(waiting, "timer"), H)
  BY <1>1, TimesQueue
<1>3. QED
  BY <1>2, JoinQueues DEF WithWaits

\* What closing the socket aborts adds no timer and no shutdown, and an
\* aborted connect only when one is outstanding.
LEMMA AbortsQueue ==
  ASSUME NEW q \in Seq(Handlers), TypeOK
  PROVE  /\ WithAborts(q) \in Seq(Handlers)
         /\ None(WithAborts(q), Timers) <=> None(q, Timers)
         /\ Once(q, Timers) => Once(WithAborts(q), Timers)
         /\ None(q, Closes) => None(WithAborts(q), Closes)
         /\ None(q, Connects) => Once(WithAborts(q), Connects)
         /\ Once(q, Connects) /\ ~connecting => Once(WithAborts(q), Connects)
         /\ None(q, Connects) /\ ~connecting => None(WithAborts(q), Connects)
<1> DEFINE n == IF connecting THEN 1 ELSE 0
           c == Times(n, "refused")
           e == Times(reads, "error")
<1>1. /\ "refused" \in Handlers /\ "error" \in Handlers
      /\ n \in Nat /\ n \in {0, 1} /\ reads \in Nat
      /\ "refused" \notin Timers \cup Closes
      /\ "error" \notin Timers \cup Closes \cup Connects
  BY DEF Handlers, TypeOK, Timers, Closes, Connects
<1>2. /\ c \in Seq(Handlers) /\ e \in Seq(Handlers)
      /\ None(c, Timers) /\ None(c, Closes) /\ Once(c, Connects)
      /\ ~connecting => None(c, Connects)
      /\ None(e, Timers) /\ None(e, Closes) /\ None(e, Connects)
  <2> HIDE DEF n
  <2>1. c \in Seq(Handlers) /\ None(c, Timers)
    BY <1>1, TimesQueue
  <2>2. None(c, Closes)
    BY <1>1, TimesQueue
  <2>3. Once(c, Connects) /\ (n = 0 => None(c, Connects))
    BY <1>1, TimesQueue
  <2>4. e \in Seq(Handlers) /\ None(e, Timers)
    BY <1>1, TimesQueue
  <2>5. None(e, Closes) /\ None(e, Connects)
    BY <1>1, TimesQueue
  <2>6. ~connecting => n = 0
    BY DEF n
  <2>7. QED
    BY <2>1, <2>2, <2>3, <2>4, <2>5, <2>6
<1>3. WithAborts(q) = (q \o c) \o e
  BY DEF WithAborts
<1> HIDE DEF c, e, n
<1>4. /\ q \o c \in Seq(Handlers)
      /\ \A H \in {Timers, Closes, Connects} :
           /\ None(q \o c, H) <=> None(q, H) /\ None(c, H)
           /\ Once(q, H) /\ None(c, H) => Once(q \o c, H)
           /\ None(q, H) /\ Once(c, H) => Once(q \o c, H)
  BY <1>2, JoinQueues
<1>5. /\ (q \o c) \o e \in Seq(Handlers)
      /\ \A H \in {Timers, Closes, Connects} :
           /\ None((q \o c) \o e, H) <=> None(q \o c, H) /\ None(e, H)
           /\ Once(q \o c, H) /\ None(e, H) => Once((q \o c) \o e, H)
  BY <1>2, <1>4, JoinQueues
<1>6. QED
  BY <1>2, <1>3, <1>4, <1>5

-----------------------------------------------------------------------------
\* What handle_receive_async makes of a queue in which the deadline actor is
\* not twice: it sets the deadline, and wakes the actor.
LEMMA Receiving ==
  ASSUME TypeOK, waiting \in {0, 1},
         NEW q \in Seq(Handlers), HandleReceiveAsync(q),
         Once(q, Timers), waiting = 1 => None(q, Timers)
  PROVE  /\ ready' \in Seq(Handlers) /\ reads' \in Nat
         /\ deadline' = "set" /\ waiting' = 0
         /\ Once(ready', Timers)
         /\ None(ready', Timers) <=> None(q, Timers) /\ waiting = 0
         /\ \A H \in {Connects, Closes} :
              /\ Once(q, H) => Once(ready', H)
              /\ None(q, H) => None(ready', H)
<1> DEFINE w == WithWaits(q)
<1>1. /\ "error" \in Handlers /\ reads \in Nat
      /\ "timer" \in Timers /\ "timer" \notin Connects \cup Closes
      /\ "error" \notin Timers \cup Connects \cup Closes
  BY DEF TypeOK, Handlers, Timers, Connects, Closes
<1>2. /\ w \in Seq(Handlers)
      /\ Once(w, Timers) /\ (None(w, Timers) <=> None(q, Timers) /\ waiting = 0)
      /\ \A H \in {Connects, Closes} :
           /\ Once(q, H) => Once(w, H)
           /\ None(q, H) => None(w, H)
  <2> HIDE DEF w
  <2>1. \A H : /\ w \in Seq(Handlers)
               /\ None(w, H) <=> None(q, H) /\ (waiting = 0 \/ "timer" \notin H)
               /\ Once(q, H) /\ (waiting = 0 \/ "timer" \notin H \/ None(q, H))
                    => Once(w, H)
    BY WaitsQueue DEF w
  <2>2. QED
    BY <2>1, <1>1
<1>3. /\ deadline' = "set" /\ waiting' = 0 /\ reads' \in Nat
      /\ ready' = w \/ ready' = Append(w, "error")
  BY <1>1 DEF HandleReceiveAsync
<1> HIDE DEF w
<1>4. CASE ready' = w
  BY <1>2, <1>3, <1>4
<1>5. CASE ready' = Append(w, "error")
  <2>1. \A H \in {Timers, Connects, Closes} :
          /\ ready' \in Seq(Handlers)
          /\ None(ready', H) <=> None(w, H)
          /\ Once(w, H) => Once(ready', H)
    BY <1>1, <1>2, <1>5, AppendQueue
  <2>2. QED
    BY <2>1, <1>2, <1>3
<1>6. QED
  BY <1>3, <1>4, <1>5

\* What start_connect makes of a queue without a connect completion: another
\* attempt with a deadline and the actor awake, or the end by close.
LEMMA Connecting ==
  ASSUME TypeOK, waiting \in {0, 1}, endpoint \in 1 .. Endpoints,
         NEW q \in Seq(Handlers), StartConnect(q),
         Once(q, Timers), waiting = 1 => None(q, Timers),
         None(q, Connects), connected => None(q, Closes)
  PROVE  /\ ready' \in Seq(Handlers) /\ endpoint' = endpoint + 1
         /\ waiting' \in {0, 1} /\ Once(ready', Timers)
         /\ waiting' = 1 => None(ready', Timers)
         /\ waiting = 1 \/ ~None(q, Timers) => waiting' = 1 \/ ~None(ready', Timers)
         /\ None(ready', Connects)
         /\ \/ /\ endpoint' \in 1 .. Endpoints /\ connected' = connected
               /\ deadline' = "set" /\ socket' = "open" /\ connecting' = TRUE
               /\ None(q, Closes) => None(ready', Closes)
            \/ /\ endpoint' = Endpoints + 1 /\ connected' = FALSE
               /\ deadline' = deadline /\ socket' = "closed" /\ connecting' = FALSE
<1>1. /\ "shutdown" \in Handlers /\ endpoint \in Nat /\ Endpoints \in Nat
      /\ "timer" \in Timers /\ "timer" \notin Connects \cup Closes
      /\ "shutdown" \notin Timers \cup Connects
  BY EndpointsAssumption DEF Handlers, Timers, Connects, Closes
<1>2. CASE endpoint < Endpoints
  <2> DEFINE w == WithWaits(q)
  <2>1. \A H : /\ w \in Seq(Handlers)
               /\ None(w, H) <=> None(q, H) /\ (waiting = 0 \/ "timer" \notin H)
               /\ Once(q, H) /\ (waiting = 0 \/ "timer" \notin H \/ None(q, H))
                    => Once(w, H)
    BY WaitsQueue
  <2>2. /\ ready' = w /\ endpoint' = endpoint + 1 /\ waiting' = 0
        /\ connected' = connected /\ deadline' = "set"
        /\ socket' = "open" /\ connecting' = TRUE
    BY <1>2 DEF StartConnect
  <2>3. endpoint' \in 1 .. Endpoints
    BY <1>1, <1>2, <2>2
  <2> HIDE DEF w
  <2>4. QED
    BY <2>1, <2>2, <2>3, <1>1
<1>3. CASE ~(endpoint < Endpoints)
  <2> DEFINE n == IF connected THEN 1 ELSE 0
             t == Times(n, "shutdown")
  <2>1. /\ ready' = q \o t /\ endpoint' = endpoint + 1 /\ waiting' = waiting
        /\ connected' = FALSE /\ deadline' = deadline
        /\ socket' = "closed" /\ connecting' = FALSE
    BY <1>3 DEF StartConnect, timer
  <2>2. endpoint' = Endpoints + 1
    BY <1>1, <1>3, <2>1
  <2>3. n \in Nat
    OBVIOUS
  <2> HIDE DEF n
  <2>4. \A H \in {Timers, Connects} : t \in Seq(Handlers) /\ None(t, H)
    BY <2>3, <1>1, TimesQueue
  <2> HIDE DEF t
  <2>5. \A H \in {Timers, Connects} :
          /\ q \o t \in Seq(Handlers)
          /\ None(q \o t, H) <=> None(q, H)
          /\ Once(q, H) => Once(q \o t, H)
    BY <2>4, JoinQueues
  <2>6. QED
    BY <2>1, <2>2, <2>5
<1>4. QED
  BY <1>2, <1>3

-----------------------------------------------------------------------------
LEMMA InitConnect ==
  ASSUME Init
  PROVE  CInv
<1>1. TypeOK
  <2>1. 0 \in 0 .. Endpoints + 1 /\ 0 \in 0 .. MaxPackets /\ 0 \in Nat
    BY EndpointsAssumption
  <2>2. <<>> \in Seq(Handlers)
    OBVIOUS
  <2>3. QED
    BY <2>1, <2>2 DEF Init, TypeOK
<1>2. \A H : None(<<>>, H) /\ Once(<<>>, H)
  BY DEF None, Once
<1>3. ActorInv /\ ConnectInv /\ CloseInv /\ OperationsHaveDeadlines
  BY <1>2 DEF Init, ActorInv, ConnectInv, CloseInv, OperationsHaveDeadlines
<1>4. QED
  BY <1>1, <1>3 DEF CInv


\* Outside start, and when the network or the clock acts.
LEMMA OutsideSteps ==
  ASSUME CInv,
         \/ ReceiveBeforeStart \/ CloseBeforeStart \/ Start \/ Destroy
         \/ ConnectEnds \/ PacketArrives \/ ReadFails \/ DeadlinePasses
  PROVE  CInv'
<1> USE EndpointsAssumption DEF CInv
<1> DEFINE Kinds == {Timers, Connects, Closes}
<1>1. /\ Handlers = {"accepted", "refused", "packet", "error", "timer", "shutdown"}
      /\ ready \in Seq(Handlers) /\ reads \in Nat /\ waiting \in {0, 1}
  BY DEF Handlers, TypeOK, ActorInv
<1>2. ASSUME NEW h \in Handlers, ready' = Append(ready, h)
      PROVE  \A H \in Kinds :
               /\ ready' \in Seq(Handlers)
               /\ None(ready', H) <=> None(ready, H) /\ h \notin H
               /\ Once(ready, H) /\ (h \notin H \/ None(ready, H)) => Once(ready', H)
  BY <1>1, <1>2, AppendQueue
<1>3. ASSUME ready' = ready
      PROVE  \A H \in Kinds : /\ ready' \in Seq(Handlers)
                              /\ None(ready', H) <=> None(ready, H)
                              /\ Once(ready', H) <=> Once(ready, H)
  BY <1>1, <1>3
<1>4. CASE ReceiveBeforeStart
  <2>1. /\ HandleReceiveAsync(ready) /\ phase = "before" /\ deadline = "unset"
        /\ UNCHANGED <<phase, connected, socket, endpoint, connecting, received, closer>>
    BY <1>4 DEF ReceiveBeforeStart
  <2>2. /\ ready' \in Seq(Handlers) /\ reads' \in Nat
        /\ deadline' = "set" /\ waiting' = 0
        /\ Once(ready', Timers)
        /\ None(ready', Timers) <=> None(ready, Timers) /\ waiting = 0
        /\ \A H \in {Connects, Closes} :
             /\ Once(ready, H) => Once(ready', H)
             /\ None(ready, H) => None(ready', H)
    BY <1>1, <2>1, Receiving DEF ActorInv
  <2>3. TypeOK'
    BY <2>1, <2>2 DEF TypeOK
  <2>4. ActorInv' /\ ConnectInv' /\ CloseInv' /\ OperationsHaveDeadlines'
    BY <2>1, <2>2 DEF ActorInv, ConnectInv, CloseInv, OperationsHaveDeadlines
  <2>5. QED
    BY <2>3, <2>4
<1>5. CASE CloseBeforeStart
  <2>1. ready' = Append(ready, "shutdown") /\ connected' = FALSE
        /\ UNCHANGED <<phase, endpoint, received, socket, connecting, reads, closer,
                       deadline, waiting>>
    BY <1>5 DEF CloseBeforeStart, ops, timer
  <2>2. \A H \in Kinds :
          /\ ready' \in Seq(Handlers)
          /\ None(ready', H) <=> None(ready, H) /\ "shutdown" \notin H
          /\ Once(ready, H) /\ ("shutdown" \notin H \/ None(ready, H)) => Once(ready', H)
    BY <1>1, <1>2, <2>1
  <2>3. QED
    BY <2>1, <2>2, ZenonT(60)
       DEF TypeOK, ActorInv, ConnectInv, CloseInv, OperationsHaveDeadlines,
           Timers, Connects, Closes
<1>6. CASE Start
  <2>1. /\ phase = "before" /\ phase' = "running" /\ endpoint' = 1
        /\ deadline' = "set" /\ waiting' = 1
        /\ \/ ready' = Append(ready, "refused") /\ connecting' = connecting
           \/ connecting' = TRUE /\ ready' = ready
        /\ UNCHANGED <<connected, socket, reads, received, closer>>
    BY <1>6 DEF Start
  <2>2. /\ ready' \in Seq(Handlers)
        /\ Once(ready', Timers) /\ None(ready', Timers)
        /\ Once(ready', Connects) /\ (connecting' => None(ready', Connects))
        /\ None(ready, Closes) => None(ready', Closes)
    BY <1>1, <1>2, <1>3, <2>1 DEF ActorInv, ConnectInv, Timers, Connects, Closes
  <2>3. 1 \in 1 .. Endpoints /\ 1 \in 0 .. Endpoints + 1 /\ 1 \in Nat
    OBVIOUS
  <2>4. TypeOK'
    BY <2>1, <2>2, <2>3 DEF TypeOK
  <2>5. ActorInv' /\ ConnectInv' /\ CloseInv' /\ OperationsHaveDeadlines'
    BY <2>1, <2>2, <2>3 DEF TypeOK, ActorInv, ConnectInv, CloseInv, OperationsHaveDeadlines
  <2>6. QED
    BY <2>4, <2>5
<1>7. CASE Destroy
  <2>1. \A H : None(<<>>, H) /\ Once(<<>>, H)
    BY DEF None, Once
  <2>2. <<>> \in Seq(Handlers) /\ 0 \in Nat
    OBVIOUS
  <2>3. TypeOK'
    BY <1>7, <2>2 DEF Destroy, TypeOK
  <2>4. QED
    BY <1>7, <2>1, <2>3 DEF Destroy, ActorInv, ConnectInv, CloseInv,
                      OperationsHaveDeadlines
<1>8. CASE ConnectEnds
  <2>1. PICK result \in {"accepted", "refused"} : ready' = Append(ready, result)
    BY <1>8 DEF ConnectEnds
  <2>2. /\ connecting /\ connecting' = FALSE /\ phase = "running"
        /\ UNCHANGED <<phase, connected, socket, endpoint, reads, received, closer,
                       deadline, waiting>>
    BY <1>8 DEF ConnectEnds, timer
  <2>3. \A H \in Kinds :
          /\ ready' \in Seq(Handlers)
          /\ None(ready', H) <=> None(ready, H) /\ result \notin H
          /\ Once(ready, H) /\ (result \notin H \/ None(ready, H)) => Once(ready', H)
    BY <1>1, <1>2, <2>1
  <2>4. QED
    BY <2>2, <2>3
       DEF TypeOK, ActorInv, ConnectInv, CloseInv, OperationsHaveDeadlines,
           Timers, Connects, Closes
<1>9. ASSUME NEW h \in {"packet", "error"}, ready' = Append(ready, h),
             reads > 0, reads' = reads - 1, received' \in 0 .. MaxPackets,
             UNCHANGED <<phase, connected, socket, endpoint, connecting, closer,
                         deadline, waiting>>
      PROVE  CInv'
  <2>1. \A H \in Kinds :
          /\ ready' \in Seq(Handlers)
          /\ None(ready', H) <=> None(ready, H)
          /\ Once(ready, H) => Once(ready', H)
    BY <1>1, <1>2, <1>9 DEF Timers, Connects, Closes
  <2>2. reads' \in Nat
    BY <1>1, <1>9
  <2>3. QED
    BY <1>9, <2>1, <2>2
       DEF TypeOK, ActorInv, ConnectInv, CloseInv, OperationsHaveDeadlines
<1>10. CASE PacketArrives
  <2>1. received' \in 0 .. MaxPackets
    BY <1>10 DEF PacketArrives, TypeOK
  <2>2. QED
    BY <1>9, <1>10, <2>1 DEF PacketArrives, timer
<1>11. CASE ReadFails
  <2>1. received' \in 0 .. MaxPackets
    BY <1>11 DEF ReadFails, TypeOK
  <2>2. QED
    BY <1>9, <1>11, <2>1 DEF ReadFails, timer
<1>12. CASE DeadlinePasses
  <2>1. /\ ready' = WithWaits(ready) /\ waiting' = 0 /\ deadline' = "passed"
        /\ UNCHANGED <<phase, connected, endpoint, received, socket, connecting,
                       reads, closer>>
    BY <1>12 DEF DeadlinePasses, ops
  <2>2. \A H : /\ ready' \in Seq(Handlers)
               /\ None(ready', H) <=> None(ready, H) /\ (waiting = 0 \/ "timer" \notin H)
               /\ Once(ready, H) /\ (waiting = 0 \/ "timer" \notin H \/ None(ready, H))
                    => Once(ready', H)
    BY <1>1, <2>1, WaitsQueue
  <2>3. QED
    BY <2>1, <2>2
       DEF TypeOK, ActorInv, ConnectInv, CloseInv, OperationsHaveDeadlines,
           Timers, Connects, Closes
<1>13. QED
  BY <1>4, <1>5, <1>6, <1>7, <1>8, <1>10, <1>11, <1>12


\* When a handler runs.
LEMMA HandlerSteps ==
  ASSUME CInv, HandlerStep
  PROVE  CInv'
<1> USE EndpointsAssumption DEF CInv
<1> DEFINE Kinds == {Timers, Connects, Closes}
           q == Tail(ready)
<1>1. /\ Handlers = {"accepted", "refused", "packet", "error", "timer", "shutdown"}
      /\ ready \in Seq(Handlers) /\ reads \in Nat /\ waiting \in {0, 1}
      /\ Once(ready, Timers) /\ Once(ready, Connects)
      /\ connected => None(ready, Closes)
      /\ waiting = 1 => None(ready, Timers)
  BY DEF Handlers, TypeOK, ActorInv, ConnectInv, CloseInv
<1>2. ASSUME NEW handlers, Runs(handlers)
      PROVE  /\ phase = "running" /\ q \in Seq(Handlers)
             /\ Head(ready) \in handlers
             /\ \A H : /\ None(ready, H) => None(q, H)
                       /\ Once(ready, H) => Once(q, H)
                       /\ Once(ready, H) /\ Head(ready) \in H => None(q, H)
                       /\ None(q, H) /\ Head(ready) \notin H => None(ready, H)
  BY <1>1, <1>2, TailQueue DEF Runs
<1>3. ASSUME NEW handlers, Runs(handlers), NEW H, Head(ready) \in H
      PROVE  ~None(ready, H)
  <2>1. 1 \in 1 .. Len(ready) /\ Head(ready) = ready[1]
    BY <1>1, <1>3 DEF Runs
  <2>2. QED
    BY <2>1, <1>3 DEF None
<1>4. ASSUME NEW handlers, Runs(handlers)
      PROVE  /\ WithAborts(q) \in Seq(Handlers)
             /\ None(WithAborts(q), Timers) <=> None(q, Timers)
             /\ Once(q, Timers) => Once(WithAborts(q), Timers)
             /\ None(q, Closes) => None(WithAborts(q), Closes)
             /\ None(q, Connects) => Once(WithAborts(q), Connects)
             /\ Once(q, Connects) /\ ~connecting => Once(WithAborts(q), Connects)
             /\ None(q, Connects) /\ ~connecting => None(WithAborts(q), Connects)
  <2>1. q \in Seq(Handlers)
    BY <1>2, <1>4
  <2> HIDE DEF q
  <2>2. QED
    BY <2>1, AbortsQueue
<1> HIDE DEF q
\* The deadline actor
<1>5. CASE CheckDeadline
  <2>1. /\ Runs({"timer"})
        /\ waiting' = IF connected THEN waiting + 1 ELSE waiting
        /\ UNCHANGED <<phase, connected, endpoint, received>>
    BY <1>5 DEF CheckDeadline
  <2>2. Head(ready) \in Timers
    BY <2>1 DEF Runs, Timers
  <2>3. /\ phase = "running" /\ None(q, Timers) /\ Once(q, Timers) /\ q \in Seq(Handlers)
        /\ Once(q, Connects) /\ (None(ready, Connects) => None(q, Connects))
        /\ connected => None(q, Closes)
    BY <1>1, <1>2, <2>1, <2>2
  <2>4. waiting = 0
    BY <1>1, <1>3, <2>1, <2>2
  <2>5. waiting' \in {0, 1} /\ (connected => waiting' = 1)
    BY <2>1, <2>4
  <2>6. CASE connected /\ deadline = "passed"
    <3>1. /\ socket' = "closed" /\ closer' = "deadline"
          /\ connecting' = FALSE /\ reads' = 0
          /\ deadline' = "infinite" /\ ready' = WithAborts(q)
      BY <1>5, <2>6 DEF CheckDeadline, q
    <3>2. /\ ready' \in Seq(Handlers)
          /\ None(ready', Timers) /\ Once(ready', Timers) /\ None(ready', Closes)
          /\ Once(ready', Connects)
          /\ endpoint \notin 1 .. Endpoints => None(ready', Connects)
      BY <1>4, <2>1, <2>3, <2>6, <3>1 DEF ConnectInv
    <3>3. 0 \in Nat /\ waiting' \in Nat
      BY <2>5
    <3>4. TypeOK'
      BY <2>1, <3>1, <3>2, <3>3 DEF TypeOK
    <3>5. ActorInv' /\ ConnectInv' /\ CloseInv' /\ OperationsHaveDeadlines'
      BY <2>1, <2>3, <2>5, <3>1, <3>2
         DEF ActorInv, ConnectInv, CloseInv, OperationsHaveDeadlines, TypeOK
    <3>6. QED
      BY <3>4, <3>5
  <2>7. CASE ~(connected /\ deadline = "passed")
    <3>1. ready' = q /\ UNCHANGED <<deadline, socket, connecting, reads, closer>>
      BY <1>5, <2>7 DEF CheckDeadline, q, ops
    <3>2. QED
      BY <2>1, <2>3, <2>5, <3>1
         DEF TypeOK, ActorInv, ConnectInv, CloseInv, OperationsHaveDeadlines
  <2>8. QED
    BY <2>6, <2>7
\* handle_connect
<1>6. ASSUME Runs(Connects)
      PROVE  /\ phase = "running" /\ endpoint \in 1 .. Endpoints /\ ~connecting
             /\ q \in Seq(Handlers) /\ None(q, Connects) /\ Once(q, Timers)
             /\ None(q, Timers) <=> None(ready, Timers)
             /\ connected => None(q, Closes)
  <2>1. Head(ready) \in Connects
    BY <1>6 DEF Runs
  <2>2. Head(ready) \notin Timers
    BY <2>1 DEF Timers, Connects
  <2>3. QED
    BY <2>1, <2>2, <1>1, <1>2, <1>3, <1>6 DEF ConnectInv
<1>7. ASSUME Runs(Connects), NEW r \in Seq(Handlers), StartConnect(r),
             None(r, Connects), Once(r, Timers),
             None(r, Timers) <=> None(ready, Timers),
             connected => None(r, Closes),
             reads' \in Nat, closer' \in {"deadline", "error", "nobody", "shutdown"},
             UNCHANGED <<phase, received>>
      PROVE  CInv'
  <2>1. /\ ready' \in Seq(Handlers) /\ endpoint' = endpoint + 1
        /\ waiting' \in {0, 1} /\ Once(ready', Timers)
        /\ waiting' = 1 => None(ready', Timers)
        /\ waiting = 1 \/ ~None(r, Timers) => waiting' = 1 \/ ~None(ready', Timers)
        /\ None(ready', Connects)
        /\ \/ /\ endpoint' \in 1 .. Endpoints /\ connected' = connected
              /\ deadline' = "set" /\ socket' = "open" /\ connecting' = TRUE
              /\ None(r, Closes) => None(ready', Closes)
           \/ /\ endpoint' = Endpoints + 1 /\ connected' = FALSE
              /\ deadline' = deadline /\ socket' = "closed" /\ connecting' = FALSE
    BY <1>1, <1>6, <1>7, Connecting
  <2>2. endpoint' \in 0 .. Endpoints + 1 /\ waiting' \in Nat
    BY <1>6, <1>7, <2>1
  <2>3. TypeOK'
    BY <1>7, <2>1, <2>2 DEF TypeOK
  <2>4. Once(ready', Connects)
    BY <2>1 DEF None, Once
  <2>5. ActorInv' /\ ConnectInv' /\ CloseInv' /\ OperationsHaveDeadlines'
    BY <1>6, <1>7, <2>1, <2>4
       DEF TypeOK, ActorInv, ConnectInv, CloseInv, OperationsHaveDeadlines
  <2>6. QED
    BY <2>3, <2>5
<1>8. CASE ConnectTimedOut
  <2>1. /\ Runs(Connects) /\ StartConnect(q) /\ UNCHANGED <<phase, reads, received, closer>>
    BY <1>8 DEF ConnectTimedOut, Connects, q
  <2>2. QED
    BY <1>1, <1>6, <1>7, <2>1 DEF TypeOK
<1>9. CASE ConnectFailed
  <2>1. /\ Runs(Connects) /\ StartConnect(WithAborts(q))
        /\ closer' = "error" /\ reads' = 0 /\ UNCHANGED <<phase, received>>
    BY <1>9 DEF ConnectFailed, Connects, Runs, q
  <2>2. /\ WithAborts(q) \in Seq(Handlers)
        /\ None(WithAborts(q), Connects) /\ Once(WithAborts(q), Timers)
        /\ None(WithAborts(q), Timers) <=> None(ready, Timers)
        /\ connected => None(WithAborts(q), Closes)
    BY <1>4, <1>6, <2>1
  <2>3. QED
    BY <1>7, <2>1, <2>2
<1>10. ASSUME Runs(Handlers), HandleReceiveAsync(q), Head(ready) \notin Timers,
              UNCHANGED <<phase, connected, socket, endpoint, connecting, received, closer>>
       PROVE  CInv'
  <2>1. /\ phase = "running" /\ q \in Seq(Handlers) /\ Once(q, Timers)
        /\ None(q, Timers) <=> None(ready, Timers)
        /\ Once(q, Connects) /\ (None(ready, Connects) => None(q, Connects))
        /\ connected => None(q, Closes)
    BY <1>1, <1>2, <1>10
  <2>2. /\ ready' \in Seq(Handlers) /\ reads' \in Nat
        /\ deadline' = "set" /\ waiting' = 0
        /\ Once(ready', Timers)
        /\ None(ready', Timers) <=> None(q, Timers) /\ waiting = 0
        /\ \A H \in {Connects, Closes} :
             /\ Once(q, H) => Once(ready', H)
             /\ None(q, H) => None(ready', H)
    BY <1>1, <1>10, <2>1, Receiving
  <2>3. TypeOK'
    BY <1>10, <2>2 DEF TypeOK
  <2>4. ActorInv' /\ ConnectInv' /\ CloseInv' /\ OperationsHaveDeadlines'
    BY <1>10, <2>1, <2>2
       DEF ActorInv, ConnectInv, CloseInv, OperationsHaveDeadlines
  <2>5. QED
    BY <2>3, <2>4
<1>11. CASE ConnectSucceeded
  <2>1. /\ Runs(Handlers) /\ HandleReceiveAsync(q) /\ Head(ready) \notin Timers
        /\ UNCHANGED <<phase, connected, socket, endpoint, connecting, received, closer>>
    BY <1>1, <1>11 DEF ConnectSucceeded, Runs, Timers, q
  <2>2. QED
    BY <1>10, <2>1
\* The reader
<1>12. CASE ReaderContinues
  <2>1. /\ Runs(Handlers) /\ HandleReceiveAsync(q) /\ Head(ready) \notin Timers
        /\ UNCHANGED <<phase, connected, socket, endpoint, connecting, received, closer>>
    BY <1>1, <1>12 DEF ReaderContinues, Runs, Timers, q
  <2>2. QED
    BY <1>10, <2>1
<1>13. ASSUME Runs({"packet", "error"}), ready' = q, phase' \in {"running", "threw"},
              UNCHANGED <<connected, endpoint, received, socket, connecting, reads,
                          closer, deadline, waiting>>
       PROVE  CInv'
  <2>1. Head(ready) \in {"packet", "error"}
    BY <1>13 DEF Runs
  <2>2. Head(ready) \notin Timers
    BY <2>1 DEF Timers
  <2>3. /\ phase = "running" /\ q \in Seq(Handlers) /\ Once(q, Timers)
        /\ None(q, Timers) <=> None(ready, Timers)
        /\ Once(q, Connects) /\ (None(ready, Connects) => None(q, Connects))
        /\ connected => None(q, Closes)
    BY <1>1, <1>2, <1>13, <2>2
  <2>4. QED
    BY <1>13, <2>3 DEF TypeOK, ActorInv, ConnectInv, CloseInv, OperationsHaveDeadlines
<1>14. CASE ReaderStops
  <2>1. phase = "running"
    BY <1>14 DEF ReaderStops, Runs
  <2>2. QED
    BY <1>13, <1>14, <2>1 DEF ReaderStops, ops, timer, q
<1>15. CASE ReaderThrows
  <2>1. Runs({"packet", "error"})
    BY <1>15 DEF ReaderThrows, Runs
  <2>2. QED
    BY <1>13, <1>15, <2>1 DEF ReaderThrows, ops, timer, q
\* close
<1>16. CASE Shutdown
  <2>1. Runs({"shutdown"}) /\ UNCHANGED <<phase, connected, endpoint, received, deadline, waiting>>
    BY <1>16 DEF Shutdown, timer
  <2>2. Head(ready) \in Closes /\ Head(ready) \notin Timers
    BY <2>1 DEF Runs, Closes, Timers
  <2>3. ~connected
    BY <1>1, <1>3, <2>1, <2>2
  <2>4. /\ phase = "running" /\ q \in Seq(Handlers) /\ Once(q, Timers)
        /\ None(q, Timers) <=> None(ready, Timers)
        /\ Once(q, Connects) /\ (None(ready, Connects) => None(q, Connects))
    BY <1>1, <1>2, <2>1, <2>2
  <2>5. CASE /\ socket' = "closed" /\ closer' = "shutdown"
             /\ connecting' = FALSE /\ reads' = 0
             /\ ready' = WithAborts(q)
    <3>1. /\ ready' \in Seq(Handlers) /\ Once(ready', Timers)
          /\ None(ready', Timers) <=> None(ready, Timers)
          /\ Once(ready', Connects)
          /\ endpoint \notin 1 .. Endpoints => None(ready', Connects)
      BY <1>4, <2>1, <2>4, <2>5 DEF ConnectInv
    <3>2. QED
      BY <2>1, <2>3, <2>4, <2>5, <3>1
         DEF TypeOK, ActorInv, ConnectInv, CloseInv, OperationsHaveDeadlines
  <2>6. CASE ready' = q /\ UNCHANGED <<socket, connecting, reads, closer>>
    BY <2>1, <2>3, <2>4, <2>6
       DEF TypeOK, ActorInv, ConnectInv, CloseInv, OperationsHaveDeadlines
  <2>7. QED
    BY <1>16, <2>5, <2>6 DEF Shutdown, ops, q
<1>17. CASE RunReturns
  BY <1>17 DEF RunReturns, ops, timer, TypeOK, ActorInv, ConnectInv, CloseInv,
               OperationsHaveDeadlines
<1>18. QED
  BY <1>5, <1>8, <1>9, <1>11, <1>12, <1>14, <1>15, <1>16, <1>17 DEF HandlerStep

\* The invariant, and what it says for every state of start.
THEOREM ConnectInvariant == Spec => []CInv
<1>1. Init => CInv
  BY InitConnect
<1>2. CInv /\ [Next]_vars => CInv'
  <2> SUFFICES ASSUME CInv, [Next]_vars
               PROVE  CInv'
    OBVIOUS
  <2>1. CASE Next
    BY <2>1, OutsideSteps, HandlerSteps DEF Next
  <2>2. CASE UNCHANGED vars
    BY <2>2 DEF vars, ops, timer, CInv, TypeOK, ActorInv, ConnectInv, CloseInv,
                OperationsHaveDeadlines
  <2>3. QED
    BY <2>1, <2>2
<1>3. QED
  BY <1>1, <1>2, PTL DEF Spec

\* Type correctness of the client, for any number of endpoints.
THEOREM ConnectTypeOK == Spec => []TypeOK
<1>1. CInv => TypeOK
  BY DEF CInv
<1>2. QED
  BY <1>1, ConnectInvariant, PTL

\* There is one deadline actor: check_deadline waits or is about to run, and
\* no new expiry, which aborts its wait, doubles or loses it.
THEOREM OneActor == Spec => []OneDeadlineActor
<1>1. CInv => OneDeadlineActor
  <2> SUFFICES ASSUME CInv
               PROVE  OneDeadlineActor
    OBVIOUS
  <2>1. DOMAIN ready = 1 .. Len(ready)
    BY DEF CInv, TypeOK
  <2>2. QED
    BY <2>1 DEF CInv, ActorInv, OneDeadlineActor, TimersReady, None, Once, Timers
<1>2. QED
  BY <1>1, ConnectInvariant, PTL

\* An outstanding connect or read has a deadline, whichever handler started it.
THEOREM DeadlinesForAll == Spec => []OperationsHaveDeadlines
<1>1. CInv => OperationsHaveDeadlines
  BY DEF CInv
<1>2. QED
  BY <1>1, ConnectInvariant, PTL

\* handle_connect is right to take a closed socket for a timeout, as long as
\* nobody called close.
THEOREM ClosedByDeadline == Spec => []ClosedMeansTimedOut
<1>1. CInv => ClosedMeansTimedOut
  BY DEF CInv, CloseInv, ClosedMeansTimedOut
<1>2. QED
  BY <1>1, ConnectInvariant, PTL
=============================================================================
