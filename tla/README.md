# A formal model of the whiteboard protocol's server and client

This directory models the program in `src/` of this repository: a TLS server on
which several clients draw on shared whiteboards, and the client class that
applications use. The modules are checked with TLC, and theorems about them are
proved with TLAPS. Everything below names code by its path under `src/`
(`server/server.cpp` is `src/server/server.cpp` of the repository).

1. [Inventory](#1-inventory)
2. [Modules](#2-modules)
3. [Runs](#3-runs)
4. [Bounds](#4-bounds)
5. [Fairness](#5-fairness)
6. [Proofs](#6-proofs)
7. [What the model says about the code](#7-what-the-model-says-about-the-code)
8. [What is not modelled](#8-what-is-not-modelled)
9. [Plan](#9-plan)

## 1. Inventory

| Component | State | Operations | What makes it correct |
| --- | --- | --- | --- |
| Thread pool, `server/thread_pool.hpp` | queue of tasks, `stop`, the wait set of the condition variable | `enqueue`, the worker loop, the destructor | each task runs once; no wake-up is lost; a shutdown drains the queue and returns |
| Sessions and documents, `server/server.cpp`, `server.hpp` | `whiteboard_sessions` (in memory, under `map_mutex`), the whiteboard documents (in MongoDB) | create whiteboard; create, join and quit session; add and modify element; broadcast and unicast | a member is in the map; only members draw; every element reaches the members; the mutex is released on every path; every request is answered; a document's life is orderly |
| User accounts, `server/server.cpp` | users and the id sequence (in MongoDB) | register, login, assign an id to an anonymous user | an id stands for one account; ids are fresh; one account per user name |
| Client session, `client/client.cpp` | `user_id`, `whiteboard_id`, `packet_counter`, `send_queue` | `send_*_request`, `handle_receive` and what it dispatches to | a response is handled as an answer to its request; the board worked on is one the server confirmed and belongs to the user the client speaks for |
| Client connect, `client/client.cpp` | `connected_`, the socket, `deadline_`, the outstanding operations, `io_context`'s queue | `start`, `start_connect`, `handle_connect`, `check_deadline`, `handle_receive_async`, `handle_single_packet`, `close`, the destructor | one deadline actor; every operation has a deadline and ends; `start` returns |
| Framing, `base/packet.cpp`, `parse_packet` | read buffers | length, message, newline | packets do not mix; the receiver finds the next packet, whatever it made of the last |
| Packets, `base/packet*.cpp` | none | construction of each kind of packet | the right type and fields |
| Elements, `base/element.cpp` | the fields of one object | constructors, getters, conversion to and from protobuf | the serialised form identifies the element; conversion and back keeps it |
| SHA-256 and salt, `base/utils.cpp` | block buffer, bit length | `update`, `digest` | the blocks hashed are the padded message |
| Accept loop and lifecycle, `server/server.cpp` 16-44 | the acceptor, the members of the server | accept, TLS handshake, enqueue, destruction | clients are served in order; an orderly end; nothing is destroyed that connections still need |

How they interact: the accept loop hands each connection to the pool; a worker
of the pool runs `handle_connection` for one connection until it closes, reads a
packet at a time and runs its handler to the end. Handlers of different
connections run concurrently. They share the map of sessions (a handler sends a
broadcast to the sockets of *other* workers while it holds `map_mutex`) and the
database, where each call is atomic and nothing spans two calls. A client
correlates responses with requests by packet id and receives broadcasts and
assigned ids in between. An application either calls `handle_receive` itself, or
runs `start`, in which every callback of the client runs on one thread.

What is hard here: interleavings of handlers between two database calls, and
between a check and the use of its result; the map, which one function changes
without the mutex; sockets that outlive their connection in the map; broadcasts
that cross each other; calls that fail half-way through a handler; a restart,
which loses the map and keeps the documents; the wake-ups and the shutdown of
the pool, and what the server destroys before it; completions and timers that
cancel each other in the client; two framings of one stream, by newline and by
length, that need not agree. `PROJECT.json` lists the hazards one by one, each at its line, with
the properties that cover it or the reason why none does.

## 2. Modules

```
TaskPool   <--implements--  ThreadPool
                                ^ EXTENDS
                            ServerLifecycle   <-- ServerLifecycleProofs, MCServerLifecycle
BoardStore <--implements--  WhiteboardServer  <-- WhiteboardServerProofs <-- DeliveryProofs
                                              <-- MCWhiteboardServer
                            UserAccounts      <-- UserAccountsProofs, MCUserAccounts
                            ClientSession     <-- ClientSessionProofs, MCClientSession
                            ClientConnect     <-- ClientConnectProofs
                            Framing           <-- FramingProofs, MCFraming
                 ElementCodec, Sha256         <-- ConversionProofs
     Framing, ElementCodec, Sha256            <-- MCPackets
```

**`ThreadPool`** models `thread_pool.hpp` whole. The accept thread is the
*owner*: it enqueues and, later, runs the destructor. `workerpc` says where each
worker is: on its way to the mutex, in the wait set, running a task, or
returned. A critical section is one step: `tasks` and `stop` are touched nowhere
else. `notify_one` follows the unlock in `enqueue`, so `Enqueue` and `NotifyOne`
are two steps; a notification wakes any sleeper or nobody, and
`SpuriousWakeup` wakes a worker for no reason. `Enqueue` takes any task, as
`enqueue` does: that an owner hands each task over once is `Next`'s part, and of a
composed owner it has to be proved. **`TaskPool`** is the pool
without mutex, queue or condition variable: first come first served, exactly
once, at most so many at once, gone only when all was served.

**`ServerLifecycle`** puts the accept loop on top of the pool. It EXTENDS
`ThreadPool` and drives its owner: `HandOver` is `Enqueue` by the loop that has
just done the handshake, and the pool's destructor is one step in the
destruction of the server's members, in the reverse order of their declaration
(`Members`, given in `MCServerLifecycle`). The loop is at one client at a time,
from `Accept` to `HandOver`; any exception is `LoopFails`, after which nothing is
accepted again, `start` returns and the server is destroyed. Clients are numbered
in the order they connect.

**`WhiteboardServer`** models the six handlers for whiteboards, sessions and
elements with `handle_broadcast`, `handle_unicast` and the functions of
`server.hpp` that they call. `pc` is the step a worker takes next; the labels
carry the initials of the handler. A step is one database call, one critical
section of `map_mutex`, one unlocked access to the map, or one send. That the
handlers compute on what an earlier call returned shows as separate steps:
`FindAbandonedBoard` then `DeleteBoard`, `AuthorizeAdd` then `PushElement`,
`ReadElementsForBroadcast` then `LockForBroadcast`, and so on. Further:

- The map holds *addresses* of sockets that are parameters on the workers'
  stacks. A worker stands for its address; a connection that closes leaves the
  address in the map, and the worker's next connection has it again.
- `remove_socket_from_whiteboard` takes no lock. When another worker may be in
  the map at that moment (`MapInUse`), its effect is undefined: `RaceOnMap`
  lets any of the registered sockets be lost and sets `corrupt`. Two overlapping
  writes on one `ssl::stream` are undefined as well: nothing need arrive on that
  connection from then on (`torn`). Writing through the address of a destroyed
  socket delivers nothing, and may also take the process down, which `Crash`
  allows at any step.
- A database call may fail anywhere (`DatabaseError`): it throws, and the
  connection is closed with the handler's earlier steps done. `Crash` loses
  everything in memory and keeps the database.
- `MalformedId` is the throw of `bsoncxx::oid`, at the point of the handler
  where the id is parsed (in a quit that is after the map was changed).
- Elements are sets rather than lists, as no property depends on their order
  or number; an element equals another when its serialised form does, which
  is how `handle_modify_element_request` compares them. The find, the `uid` and
  the `active_user_ids` checks are kept as they are.
- `granted`, `joined`, `synced`, `received`, `latest`, `torn`, `corrupt`,
  `overlapped` and `answers` are history; no action's guard depends on them.
  `corrupt`, `torn` and `overlapped` say that one of the code's races has
  happened (on the map, on a socket, between two sends of one board), and the
  properties state what holds until then.

**`BoardStore`** is what the collection of whiteboards promises: a board is
created once, becomes shared for good when its owner opens a session, only a
shared board has active users that come and go, drawings are added or replaced
one at a time, a shared board may be deleted, and stays so.

**`UserAccounts`** models registration, login, the assignment of ids to
anonymous users and `getNextSequence`, with the race of the first upserts: the
document they insert has nothing unique, so each may insert its own and return
the default 0. `_id` is unique in MongoDB, user names are not. `raced`
is history: the names that two registrations checked at the same time.

**`ClientSession`** models one `WhiteboardClient` that is used from one thread,
with what the server's handlers do as far as that connection can tell.
`to_server` and `to_client` are the two directions of the stream. The
application is free to send any request at any time while at most `MaxPending`
are unanswered; `patient` is history and says whether it has, so far, waited for
each answer before the next request, used no account, and not been told that the
server could not store an id. `handle_assign_user_id` goes on with the id even when it tells
the client so (`Assigned`), and the client, which throws, keeps the one it had. The
first id is any of `FirstIds`: 0 in a new database. A board that is not stored
has the owner `Nobody`, which is no user id. A packet
carries `request` and `final`, which the code's packets do not: they are the
truth about which request it answers, which `ResponseMatchesRequest` compares
with what the client makes of it. `user_id` starts as any of `InitialUserIds`,
because nothing initialises it.

**`ClientConnect`** models `start` and the asynchronous half of the client as
what it is: completion handlers that `io_context.run` takes from a queue
(`ready`) and runs one at a time. Setting an expiry of `deadline_` cancels the
waits for it, and closing the socket cancels what is outstanding on it; both put
completions at the end of the queue (`WithWaits`, `WithAborts`), so a handler
may run long after what it was called for has changed. Time is abstract: a
deadline that is set may pass at any moment. `closer` is history: who closed the
socket last. The constructor's connection is the initial state.

**`Framing`** models one direction of one connection: `Send` writes a packet as
TLS records, `Read` is one `read_some` of `read_until`, `Parse` is
`parse_packet` with the handler. A byte is the packet it belongs to and its
place in it; `Shapes` says where a packet's newline bytes are. `keeps` tells the
receiver with a member buffer (`handle_receive_async`) from those with a fresh
one (`handle_connection`, `handle_receive`). What a piece that is not a whole
packet is parsed as is left open: the loop may go on or end.

**`ElementCodec`** models one `WhiteboardElements` object through any sequence of
constructor calls and transfers; `Fields`, `Written` and `Parsed` are the three
tables that the functions of `element.cpp` amount to. **`Sha256`** models how the
message is cut into blocks and padded: `Update` is a call of `update`, `UpdateLoop`
one turn of its loop, `ahead` how many bytes the loop has yet to come to, `Digest`
is `pad` and what follows. The compression function is abstract, and the blocks
it was given are kept. `MCPackets` explores these two and `Framing`, which share
no state, in one run.

Operators whose comment starts with "Mistake:" are not part of any
specification. Each is one definition as a plausible bug would have it, and
`PROJECT.json` says which property fails when it takes that definition's place.

## 3. Runs

Runs that pass:

| Run | Properties | What it shows |
| --- | --- | --- |
| `ServerLifecycle` | of the pool: `TypeOK`, `EachTaskOnce`, `NoLostWakeup`, `DrainedAtExit`, `WorkConserving`, `EveryTaskRuns`, `RefinesTaskPool`; of the server: `NobodyOvertakes`, `ContextsOutliveHandlers`, `EveryClientIsServed`, `ServerEnds` | each connection is in one place; while a worker sleeps no task lacks a worker or a notification on its way; even when clients never leave, a queued connection waits only while all workers are busy; clients reach the pool in the order they came; when handshakes end and clients leave, all are served unless the loop ends; the end drains the queue, and destroys the contexts only when no connection is left; the server's pool implements `TaskPool`: nothing but the loop keeps a connection from being handed over twice |
| `ServerSafety` | `TypeOK`, `MutexHeldBySender`, `MemberRegistered`, `OnlyMembersDraw`, `AnsweredOnce`, `RefinesBoardStore` | all six requests, from every kind of document, with an error or a crash anywhere; every handler that ends has replied once, unless its last step found a drawing of a user who may not draw, and the broadcast that follows adds no reply |
| `ServerDelivery` | `ElementsReachMembers`, `LastSentIsTheBoard` | three connections: a member that joined misses no element however joins, drawings and broadcasts cross; what it was sent last is the board, unless two workers were sending the board at once |
| `ServerLiveness` | `HandlersEnd` | no handler is stuck on the mutex or in a loop, after errors and crashes too |
| `AccountsSafety` | `FreshIds`, `IdsTellUsersApart`, `UniqueUnlessRaced`, `AnsweredOnce` | ids and names with three concurrent workers, an error or a restart; a name is registered twice only by two registrations that checked it at once |
| `ClientAnswers` | `ResponseMatchesRequest`, `BoardIsConfirmed`, `OwnerKnowsBoard` | two requests under way, ids reused, broadcasts in between; an application that waits for its answers and stays with one account speaks for the owner of the board it made, unless that was made as user 0 of a new database |
| `ClientConnect` | `OneDeadlineActor`, `OperationsHaveDeadlines`, `ClosedMeansTimedOut`, `OperationsEnd`, `ShutDownReturns` | attempts that succeed, fail or time out in every order with reads, packets, `close` and the destructor: the actor is neither lost nor doubled, nothing is outstanding without a deadline, every operation ends |
| `Packets` | of the framing: `PacketsDoNotMix`, `ResumesAtNextPacket`, `CutOnlyAtNewlines`, `EveryPacketIsRead`; of the conversions: `SerialisedFormIdentifies`, `TransferKeepsElement`, `DigestsPaddedMessage` | packets with newlines anywhere and reads of any size: bytes of two packets never meet in a buffer, which is why dropping what is left in it loses nothing, and a packet that was cut does not put the receiver out of step for good; whatever an object was before, its serialised form is that of what it shows, and comes back as such; every message is hashed as FIPS 180-4 pads it, however it is passed to `update` |

Runs in which TLC finds a property violated are in section 7.

## 4. Bounds

- `ServerLifecycle`: 3 workers and 5 clients: more connections than workers, so
  that two queue while all are busy, and more workers than one, so that some
  sleep while others work; the members are all eleven. Nothing else is bounded;
  the theorems hold for any number.
- `WhiteboardServer`: one board, since handlers of different boards meet only at
  the mutex and in the map's structure, and `RaceOnMap` stands for any damage to
  the latter. Two workers and three requests suffice for every two-handler race
  with one step of preparation; `ServerDelivery` has three workers and four
  requests because a missed element needs a member, a drawer and a third that
  joins or draws in between. `AnyStart` starts from each kind of document an
  earlier run may leave, which saves the requests to get there. `MaxRequests`
  and `MaxFaults` are guards of `Receive`, `DatabaseError` and `Crash`.
- `UserAccounts`: three workers, as two may race while a third reads; two names;
  two passwords, so that two registrations of one name can be told apart; the
  bounds on requests and faults are in the `.cfg` files.
- `ClientSession`: two boards, one of them somebody else's; three packet ids
  (2^32 in the code), so that ids wrap within five requests while two are under
  way; `FirstIds` has a new database, on which the first id is 0 and nobody has
  shared anything yet, and one that is in use; `MaxQueue` bounds how far broadcasts of others run ahead of the client.
- `ClientConnect`: three endpoints, so that an attempt can follow one that failed
  and be followed by one that times out; three packets. The theorems hold for
  any number of both.
- `Framing`: the sizes of the code (512 bytes of a first read, 65536 of a later
  one, 16384 of a record, 8192 of the parser's block) are scaled down to 3, 5, 7
  and 5, and `MCShapes` has packets below, at and above each of them, with
  newlines at the end only, in the length, in the message and in both. Three
  packets (`MaxPackets`): one before and one after a packet that is cut.
- `ElementCodec`: two points, lengths and texts, enough to tell two arguments
  apart. `Sha256`: messages of up to 200 bytes (`MaxLength`), which is three
  blocks, in calls of 1, 7, 56, 64 and 65 bytes: every length modulo 64 occurs.
  The theorem holds for any lengths.

Four runs switch the deadlock check off, because the system modelled really
stops: an application that has sent its requests and read its answers
(`ClientAnswers`), a client that was destroyed (`ClientConnect`), a connection
that is closed (`CutPackets`, `Packets`) and a digest that was taken
(`Packets`). The others check deadlock: servers and pools go on accepting,
or stutter explicitly when destroyed.

Symmetry is used only for invariants and step properties, never with liveness;
the elements and workers are interchangeable in the specifications.

## 5. Fairness

- `ThreadPool!SchedulerFairness`: weak fairness of each worker's `WorkerStep` and
  of the owner's steps that are under way. A thread that can run does run, and a
  mutex with critical sections of a few instructions is obtained in the end.
  Spurious wake-ups, new connections and the start of the shutdown are never
  forced. That each client leaves in the end, which is what makes a task return,
  is the premise `ClientsLeave` of `EveryTaskRuns`, `EveryClientIsServed`
  and `ServerEnds`; `WorkConserving` and the refinement do
  without it.
- `ServerLifecycle!FairServerSpec` adds that `accept` returns when a client has
  connected, and that destructors run. It does not say that a handshake ends: a
  client that starts one and falls silent holds up everybody. That it does end
  is the premise `HandshakesEnd` of `EveryClientIsServed`.
- `WhiteboardServer!FairSpec`: weak fairness of each worker's handler steps: the
  threads are scheduled, the database answers or fails, and a client that is
  sent something reads it. The last is an assumption about clients: the sends
  block, under `map_mutex`, for as long as a client does not read. Weak fairness
  is enough for the mutex because a behaviour has finitely many requests
  (`MaxRequests`); with requests without end, liveness would need a mutex that
  is fair, which `std::mutex` does not promise.
  No client has to send or to leave.
- `ClientConnect!FairSpec`: the thread in `io_context.run` runs what is ready,
  and a deadline that is set passes in the end, unless it is set anew. Nothing
  is asked of the server: an attempt to connect and a read may stay unanswered
  for ever, and `OperationsEnd` holds because of the deadline alone.
- `Framing!FairSpec`: the receiving thread reads what has arrived. Nobody has to
  send, and the connection may break at any time.

## 6. Proofs

All theorems are for every value of the constants under the named assumptions
of the modules (`WorkersAssumption`, `DocsAssumption`, ...): any finite set of
workers, any set of connections, boards, elements and user ids, any number of
requests and faults.

`ServerLifecycleProofs` begins with the pool. Its theorems rest on the inductive
invariant `IInv`: `TypeOK`; the queue
is the end of the history of what was enqueued, with no repetition
(`QueueIsSuffix`); where the owner is tells `stop` and whether workers have
returned (`OwnerPosition`); and the part of the history that left the queue is
what workers hold or have finished (`StartedAreHeldOrFinished`), with no task
held twice. `EachTaskOnce` alone is not inductive: that a task taken from the
queue is not running elsewhere follows only from the history having no
repetition. `IInv` gives `EveryTaskHasOnePlace`, `ShutdownDrains` and, with the
refinement mapping `begun <- Len(enqueued) - Len(tasks)`,
`PoolImplementsTaskPool`. `NoWakeupLost` is inductive beside `TypeOK`; its proof
counts the workers on their way to the queue.

`WhiteboardServerProofs` proves `TypeCorrect`, whose inductive part beyond types
is `RequestFits` (what a handler step needs of its request was established by an
earlier step); `MutexCorrect`, where every step but `LockForBroadcast` and
`EndBroadcast` leaves both sides of the equivalence alone or, closing and
crashing, concerns workers that do not hold the mutex; `MembersStayRegistered`;
and `RepliesCounted`, an action property, from `AnswersFit`: no reply was
sent while a handler is at a step before its broadcast.

Its second part proves that the server implements `BoardStore` and that only
members draw (`ServerImplementsBoardStore`, `DrawingsAreGranted`). The invariant is `TypeOK`, `DocsFit` (a document that is not
shared has no active user) and `HandlersKnow`: between reading a document and
writing to it a handler *knows* something of the document that other handlers
may not take back: it is stored or deleted, its owner is who it was, it is
shared, the user was granted access. Others' steps keep such knowledge because
documents only grow in the sense of `Growth`; this is why a stale check is still
good enough for these two properties, and not for those of section 7.

`DeliveryProofs` proves `ElementsReachMembers` and `LastSentIsTheBoard` from one
invariant, `DeliveryInv`, about what is *on its way*. An element that a member
lacks (`Lacks`) is one that some worker `Brings`: it has changed the board and has
yet to read it (`WillRead`), or has read the element and not yet sent it to that
member (`WillSend`). Of a member that is behind (`Behind`) the same is true with the
whole board in place of the element, while nobody sends the board at once
(`Renews`, `OneSender`); and a worker that holds an outdated copy for a board with
members is followed by one that will read it again (`StaleIsFollowed`). Neither
property is inductive: both speak only of boards that nobody is publishing. The
step that needs most is `LockForBroadcast`, which takes its receivers from the
map: that every member is among them is `MemberRegistered` with `MembersKnown`. A
member that joins while others draw is safe because its socket enters the map
before `handle_unicast` reads the board. Most steps are *quiet* (`Settled`,
`Steady`: nothing to send, members and boards as they were or the worker about to
read), and are done with at once; `FollowsKept` reduces the five that read or send
to what they do to the one worker that takes them.

The second part of `ServerLifecycleProofs` is about the accept loop as the owner of
the pool. `Enqueue` does not ask whether a task was enqueued before, so that the
server could hand a connection over again. The invariant says that the history of
the queue is `1 .. n` and that `n` is what was accepted, less the client in its
handshake or lost with the loop; so the task handed over is new. From that,
`ServerKeepsToThePool` shows that every step of the server is one that `ThreadPool`
allows an owner or a stutter, `ClientsAreServedOnce` that each connection has one
place in the server, and `ServerImplementsTaskPool` that the whole implements the
abstract pool. `ContextsLast` uses the pool's `IInv`: the pool precedes the contexts
in the destruction, and a pool that is destroyed has no task and no running worker.

`UserAccountsProofs` proves type correctness and the run's four properties from
`AInv`. Ids in the
database and in the handlers are below `seq` (`IdInv`), which is what keeps them
fresh when they are inserted; what a handler is about to answer is stored
(`SuccessInv`), as accounts are never changed or removed; and between its check
and its insertion a registration whose name nobody else checked meanwhile is
alone with a name that is still free (`NameInv`). `UniqueUnlessRaced` without
the last is not inductive.

`ClientConnectProofs` proves type correctness and the three invariants of its run
from `CInv`, which counts
handlers in the queue: a `timer` is queued exactly when the actor is awake
(`ActorInv`); at most one completion of a connect is queued or outstanding, and
only then may the socket be closed while the client is connected (`ConnectInv`);
and nothing in the queue can close the socket of a connected client but the
deadline (`CloseInv`). The lemmas on queues say what taking a handler off and
appending several keeps.

`ClientSessionProofs` proves the three properties of its run from `SInv`. Its
heart is the *age* of a packet id, how many requests were sent since it was used
(`Age`, modulo `PacketIds`): what is under way, final answers first and requests
behind them, is strictly ordered by age, and everything is younger than
`pending` (`RequestsInOrder`, `AnswersInOrder`). As `MaxPending < PacketIds`, the
id that `Send` takes next is older than all of them, so `send_queue` is never
overwritten while an answer is awaited; `ResponseMatchesRequest` alone is not
inductive. `PatientInv` says what an application that waits can rely on: one
request under way, sent as the user it still is; an assigned id that arrives
ahead of the answer; and boards that belong to the user it is or is about to be,
or were made as user 0. No assumption is made on the first id. Every handler is a `ServerAnswers` step, so that the
invariant is proved once for all of them.

`FramingProofs` proves the three invariants of its run for packets of any shape
that ends in a newline, as `serialize` writes them (`ShapesAssumption`), and any
sizes of blocks and records with the code's order among them
(`SizesAssumption`). The properties speak of the buffer and of what was parsed;
what makes them true is under way. The invariant `IInv` is about *stretches*, runs of
consecutive bytes of one packet: every record is one, so is the buffer, and each
`Continues` the one before (`PipeInOrder`); a stretch that starts a packet holds at
least what a first read asks for, so that a short packet is never cut by a record's
end. What comes next is the packet after the one begun last, or the rest of that one if
there was a reason to cut it (`NextInOrder`). `ParseKeeps` needs all of it: what
the parser drops or keeps is the end of the packet that was at the head, because no
record holds two. `PacketsArriveWhole` draws the conclusion on which the
session modules rest. Packets are `Tame` when they fit the first read or
have no newline byte but the last, and their message does not fill the parser's
blocks; if all are, each is parsed whole, once, and in the order sent.

`ConversionProofs` has two parts. For the elements, `TablesFit` goes through the
nine types: in `Fields`, `Written` and `Parsed` the rows of a type are equally long,
name nothing twice, and `Parsed` reads each field where `Written` put it, but for the
file name. From that alone follow `SerialisedFormsIdentify` and
`TransfersKeepElements`, for any points, lengths and texts and whatever the object was
used for before. For the digest, the invariant `HInv` says that the
blocks transformed are the message up to its last full block, that `m_data` begins
with the rest, and that `m_bitlen` counts the former (`HoldsMessage`). `ByteHeld` is the
turn of the loop, with and without a block that is full; `DigestInBlock` and
`DigestInTwo` are the two branches of `pad`; `PaddedByPlace` says what FIPS 180-4 wants at
each place. `DigestsThePadding` so holds for a message of any length, in calls of
any sizes. Lengths are natural numbers here: in the code they are 64 bits wide, and
`Byte` takes the lowest eight bytes, as FIPS 180-4 does.

Only model-checked: liveness, that is `WorkConserving`, `EveryTaskRuns`,
`EveryClientIsServed`, `ServerEnds`, `HandlersEnd`, `EveryPacketIsRead`,
`OperationsEnd` and `ShutDownReturns`. Liveness under fairness and `ENABLED` are beyond
the proof system's backends. So are inductions over data, whose library theorems take
an operator as a parameter: `Sha256` therefore absorbs a byte at a step, and what
`Byte` computes is left as its definition says. `PacketsArriveWhole` is proved along
the behaviour rather than from `ResumesAtNextPacket` for the same reason. No module
has `RECURSIVE` operators.

## 7. What the model says about the code

Each of these runs checks what a comment of the code says, and TLC shows a
behaviour of the code in which it is not so. `PROJECT.json` quotes the lines.

| Run | What happens |
| --- | --- |
| `ClosedSocket` | a client joins and disconnects without quitting; its socket stays in the map, and broadcasts use it |
| `DeleteRace` | quit reads that nobody is active, another user joins, quit deletes the board |
| `RefusedDrawing` | a user who is neither the owner of a board nor active on it adds an element; the handler has no branch that replies |
| `CutPackets` | a packet longer than one read has a newline byte in the middle: it is parsed before the rest has come, and the rest as a packet of its own |

The models carry more that a reader of the code should know of; a property above
names each as its exception or premise, so that a change of the code shows:

- `remove_socket_from_whiteboard` changes the map without the mutex that the
  functions around it take, and a quit may so meet another worker in the map:
  `RaceOnMap`, the premise `~corrupt` of `MemberRegistered` and of the delivery
  properties.
- Replies are written without `map_mutex` while broadcasts hold it, so two
  threads may write to one `ssl::stream` at once: `Tear`, the exception `torn`.
- A broadcast reads the board before it takes the mutex. Two that cross may send
  in the other order, and members keep the older board: the exception
  `overlapped` of `LastSentIsTheBoard`. `ElementsReachMembers` has no such
  exception: the elements do reach the members, if not last.
- Two registrations of one name may both find it free: the exception `raced` of
  `UniqueUnlessRaced`.
- The server's members are destroyed before the pool's destructor has joined the
  workers, except for the acceptor and the contexts
  (`ContextsOutliveHandlers`): a connection that is served at the time uses a
  map, a mutex and collections that are gone.
- One failed handshake ends the accept loop for good, and one that a client does
  not finish holds it up for good: the premises of `EveryClientIsServed`.
- `start` connects a socket that the constructor has connected already. The
  attempt fails at once and closes the working connection, and the next endpoint
  is connected without a TLS handshake.
- When the last attempt to connect is the one that times out, the expiry is
  infinite by the time `close` is called, nothing cancels the wait for it, and
  `start` does not return: the premise of `ShutDownReturns`.
- The destructor calls `close`, which posts a shutdown to an `io_context` that
  nobody runs any more (`Destroy`).
- The file name of a picture does not survive the way to the server and back:
  `from_protobuf` passes on the member of the object it is called on
  (`TransferKeepsElement` makes the exception).
- The first id of a new database is 0, the id that stands for the anonymous user
  (`getNextSequence` returns its default when the upsert inserts). `FreshIds`
  speaks of the other ids. A client that makes a board as user 0 is assigned another
  id by its next request that needs one, even if that fails, and the board stays with
  0: the exception of `OwnerKnowsBoard`.
- When an id could not be stored, the server tells the client so and carries on with
  it: the board that is made belongs to an id that the client did not take
  (`Assigned`, `HandleTempIdResponse`). `patient` ends there.
- A login whose name belongs to an account without a password gets no reply: the
  handler has no branch that sends one. `AnsweredOnce` of `UserAccounts` makes the
  exception, and that of `WhiteboardServer` the one of `RefusedDrawing`, no wider
  than the two branches.
- An addition that was authorised before a quit deleted the board is reported
  successful, although nothing is stored (`PushElement`): the handler does not
  look at how many documents the update matched.
- A client that sends two requests as user 0 without waiting is given two ids;
  the board belongs to the one it forgets. `OwnerKnowsBoard` therefore asks for
  a `patient` application.
- `user_id` has no initial value in the client: a client that neither logs in
  nor registers speaks for whatever was in memory (`InitialUserIds`).

## 8. What is not modelled

- What a request that is handled while members of the server are being destroyed
  does: undefined. `ServerLifecycle` lets clients only come and leave.
- The compression function of SHA-256, the digest in hexadecimal and the random
  salt: arithmetic and randomness that no property of the system depends on. The
  accounts compare hashes for equality.
- Printing, of elements and packets, and the exceptions of an element's getters
  called on another type; `print` of a picture calls those of a sticky note.
- What a packet that was cut is understood as: `Framing` lets it be anything, and
  the session modules take packets to arrive whole (`PacketsArriveWhole` says of which
  packets that is so).
- A client that never reads: `HandlersEnd` assumes that it does.
- The heartbeat timer of the client, which nothing starts.
- MongoDB, its driver, TLS and TCP are external. A database call is one atomic
  step on one document; TLS and TCP deliver in order until the connection
  closes. The driver's `client` object is shared by all workers; what
  overlapping calls on it do is not modelled.
- Packets of types the server does not handle (delete element, save whiteboard)
  change nothing and get no reply; no client function sends them.
- `base/network.*` and `server/database.*` are not used by the program;
  `base/exception.hpp`, printing and the examples hold no state.

## 9. Plan

Done: all components with state or concurrency are modelled, and every safety
property that a run checks is a theorem.

Next, in proofs:

1. An abstract store of accounts that `UserAccounts` implements, as `BoardStore` is
   for the documents.
2. What the server and the client may rely on in each other: that the answers
   `ClientSession` lets the server give are those of `WhiteboardServer` and
   `UserAccounts` as one connection sees them.
3. `MemberRegistered` in the presence of several boards: that `RaceOnMap` is the
   only step of one board's handlers that touches another board's entry.
