# A TLA+ model of ServerCoreCPP

ServerCoreCPP is a C++ server core for Windows: sessions over an I/O completion
port, a session table, lock-free containers and memory pools. The modules here
model its concurrent parts, TLC checks them on small instances, and TLAPS proves
what matters most for every number of threads, sessions and ids.

Paths below are relative to `src/ServerCoreCPP/` unless they say otherwise.

## 1. Inventory of the system

| Component | State | Operations | Interacts with | What makes it correct |
|---|---|---|---|---|
| `Session` (Session.cpp, IocpEvent, IocpObject) | `is_connected_`, `is_register_send_`, `send_queue_` under `lock_send_queue_`, three events with their `owner_`, `recv_buffer_` | Start, Send, Disconnect/Close, Dispatch to ProcessRecv/Send/Disconnect, the Register functions | completion port (packets), Service (DestroySession), application threads | one sender and one receiver at a time; stream order; no lost wake-up; one disconnect; packets never reach a dead object; everything is released in the end |
| `SessionManager` | `id_map_` (atomic flags), `session_list_` under a lock | AddSession (unlocked scan, then insert), RemoveSession (erase, then return), FindSession | Service | each id has one user; no CRASH; a scan fails only when ids are short; calls return |
| `Service` / `ServerService` | session manager, iocp manager, threads, listener | CreateSession, DestroySession, Start, Close | all of the above | created sessions are destroyed once |
| `IocpManager` | the port | Register, WorkerThreadFunction | Session, Listener | packets reach the object of their key |
| `Listener` | eight accept events with their `accept_session_` | RegisterAccept, ProcessAccept | Service, Session | a slot is always registered again; no session is leaked |
| `Connector` | sockets | Connect | Service, Session | a session is missing only when ids are short |
| `mymp::MemoryPool`, `mymp::LockFreeStack` | stamped top, `next` and `code` in block headers, counters | Push, Pop | Memory, ObjectPool | a block has one user; the list survives ABA; wrong releases are the only ones reported |
| `Memory` | table of pools per size | Allocate, Release | MemoryPool | a block has room for the request, whatever its header says of its size |
| `ObjectPool`, `Allocator` | a pool per type | Pop, Push, MakeShared | MemoryPool, Session (the echo of OnRecv) | as MemoryPool |
| `LockFreeQueue` | stamped head and tail, `free_list`, `pop_count`, size | Enqueue, Dequeue, TryDelete | applications | first in, first out; nodes are not used after they are freed, freed twice or lost |
| `LockFreeStack` | stamped top, size | Push, Pop | applications | last in, first out |
| `MemoryStream`, `RecvBuffer`, `SendBuffer`, readers and writers | `front_`, `rear_`, `length_`, `space_` | OnRead, OnWrite, CleanUp, Open, Close | Session, BufferChunk | offsets stay inside the buffer |
| `BufferChunk`, `BufferManager` | `used_size_`, list of chunks, a chunk per thread | Open, Close, Pop, Push | MemoryStream | regions do not overlap; chunks come back |
| `ThreadManager` | list of threads | Push, Join | ServerService | all threads are joined |
| `SocketUtils`, `NetAddress` | extension function pointers | thin calls of Winsock | Session, Listener | - |

The hard behaviours: handlers on several workers and calls of application threads
on one session; calls that answer at once, later or with an error; a lifetime that
hangs on reference counts in events while completion keys are bare pointers;
unlocked scans; compare-and-swap loops over memory that is used again. Nothing is
persisted, so there is no crash recovery. `PROJECT.json` lists each hazard with its
line and the properties aimed at it.

## 2. The modules

| Module | Models | Kind |
|---|---|---|
| `Session` | Session.cpp, IocpEvent, SocketIOErrorHandler, the dispatch of packets | one action per access to shared state |
| `SendChannel` | what Session::Send promises | abstract; `Session` implements it |
| `SessionManager` | SessionManager.cpp and its two callers in Service.cpp | one action per atomic operation or critical section |
| `ServerService` | Listener.cpp, Connector.cpp, ServerService::Start, Service.cpp, composed with `SessionManager` | one action per access to the events or the manager |
| `LockFreeStack` | LockFreeStack.h, and mymp::LockFreeStack of MemoryPool.cpp | one action per access to shared memory |
| `Memory` | the table of size classes and the width of `BlockHeader::size` | operators |
| `MemoryPool` | Memory::Allocate and Release over one pool and malloc, composed with `LockFreeStack` and `Memory` | one action per access to shared memory |
| `Allocator` | what an allocator promises | abstract; `MemoryPool` implements it |
| `MemoryStream` | the offsets and contents of MemoryStream.cpp, StreamReader, StreamWriter | operators on records |
| `BufferChunk` | the receive loop's bytes, SendBuffers, BufferChunk and BufferManager; uses `MemoryStream` | one action per access to the list of chunks or to the state of a session |
| `LockFreeQueue` | LockFreeQueue.h | one action per access to shared memory |
| `SessionProofs`, `SessionSendProofs`, `SessionManagerProofs`, `ServerServiceProofs`, `LockFreeStackProofs`, `MemoryPoolProofs`, `BufferChunkProofs`, `LockFreeQueueProofs` | theorems about the modules they are named after | TLAPS |
| `MCSession`, `MCSessionManager`, `MCServerService`, `MCMemoryPool`, `MCBufferChunk`, `MCLockFreeQueue` | symmetry and views for TLC; the `.cfg` files give the constants | |

Definitions whose comment begins with "Mutant" are deliberate errors that show that
a property can fail; no specification uses them.

### Session and SendChannel

`pc[t]` names the next access of thread `t` to shared state. A critical section on
`lock_send_queue_` is one action, as every access to `send_queue_` is inside one and
none blocks. The prefixes are those of the functions: `rr_` RegisterRecv, `pr_`
ProcessRecv, `rs_` RegisterSend, `ps_` ProcessSend, `rd_`/`pd_`
RegisterDisconnect/ProcessDisconnect, `dc_` Disconnect. Calls nest only through
OnRecv, so `in_on_recv[t]` is all the stack the model needs (`Caller`).

`posted[e]` counts operations that the system has accepted and not completed;
`Dispatch` completes one, with no bytes or with some, and starts the handler.
`queued[e]` counts packets of operations that had succeeded at once. Winsock queues
such a packet unless the handle has `FILE_SKIP_COMPLETION_PORT_ON_SUCCESS`; the code
never sets that mode, yet it processes an immediate success inline (Session.cpp:136
and 267), which is right only with it. `SkipPacketOnSuccess` chooses between the two:
TRUE is the system the inline calls assume, FALSE the one the code gets. The
properties of the send and receive path hold with TRUE, or when no call succeeds at
once; `session_unskipped` shows what happens otherwise. A call that is pending or fails
leads to the same steps in both modes, so what the runs and theorems say of those is said
of the program as it is; what they say of an immediate success ("done") is said of the
program with the skip mode that its inline calls need.

A session is alive while `Referenced`. The memory is gone afterwards, so every
action of a handler is guarded by it: a handler that goes on after that is undefined
behaviour, and the model stops it there. The code has no such guard, and such handlers
exist (section 5). `PacketHasOwner` says that a packet at least never arrives after that
point; it says nothing of a handler that has passed its ResetOwner. Session::Start is
taken to register the handle with the port: a failure is only printed (Service.cpp:31-37),
after which no packet of the session arrives.

Buffers are numbers in the order Send pushed them. `accepted`, `submitted` and
`lost` are history. OnRecv may send, disconnect, or do neither, once for each call
(the default OnRecv sends once). OnConnect, OnDisconnect and OnSend do nothing in
the core and are left out; so are the contents of the buffers and the socket, which
stays valid from construction to destruction. DisconnectEx is modelled as the code
treats it: whatever it answers, RegisterDisconnect goes on, so the outcomes differ
only in whether a packet will arrive.

`SendChannel` knows no threads, flags or events: buffers are accepted, wait, leave in a
batch, and a batch is in flight until it is done or has been refused. The refinement
mapping (`Channel` in `Session`) computes its waiting buffers from the queue and from the
list of a thread that is about to call WSASend, and the batch in flight from the list while
the system or the handler of its packet may still use it.

### SessionManager

The scan of `id_map_` is one action per entry (`GetSessionIdTake`,
`GetSessionIdNext`, `GetSessionIdWrap`); the critical sections on
`lock_session_list_` are one action each. `id_map_` starts all FALSE: Visual C++
value-initialises the atomics that `new std::atomic<bool>[n]` creates. DestroySession
is called once for a session in the list, which is `DisconnectOnce` of `Session`.
`unused[t]` remembers the ids that were free all the time since the call began.

### ServerService

The module holds the variables of `SessionManager` and calls its actions
(`Manager == INSTANCE SessionManager`), so the composition is checked against the real
scan and the real critical sections. `at[t]` is the control point of a thread in the
listener: the main thread runs StartAccept's loop while the workers, started before it,
already dispatch; afterwards it connects `MaxConnections` sessions of its own, as
Connector::Connect. `accept_session_[e]` is the session that waits in an event, `posted` the
events with an AcceptEx outstanding. `started` sessions belong to module `Session`; here
they are destroyed once, as `DisconnectOnce` says. `given_up` and `leaked` remember the
events for which RegisterAccept returned without AcceptEx (Listener.cpp:62) and the
sessions that an error left in `session_list_` (Listener.cpp:77, 88, 96, Connector.cpp:17):
both are losses the code accepts, and the properties say that nothing else is lost.
Connect goes on with the null pointer of a CreateSession that failed (Connector.cpp:10);
the model stops the main thread there, at "null_session", and `NullSessionOnlyWhenBusy`
says when that can happen. `ImplementsManager` states that the callers use SessionManager
as its own module assumes.

Which session object the factory makes is of no consequence as long as nobody refers to it
(`Fresh`), so `CallCreateSession` takes one of them by CHOOSE. After Close the events are
deleted. What the thread that called it does with its event is undefined behaviour, so the
model stops it there; `server_close` follows the packets.

### LockFreeStack, Memory, MemoryPool and Allocator

`top` is read in two steps, pointer first, then stamp, as in the source, and replaced
by one compare-and-swap. The nodes of LockFreeStack.h are new ones each time and never
freed; those of a pool are its blocks, which come back. The module models the harder case:
`Push` takes any node that is nowhere else, so every run of LockFreeStack.h is one of the
module. `PopReadNext` reads `next` of a node that another thread may own by then: nodes
are never given back to the system, so the read is harmless and its value may be outdated.
Stamps are 64 bits wide and do not wrap in practice; they are naturals.

`MemoryPool` puts Memory's Allocate and Release around it: the header with its `code`
and 16-bit `size`, the check of the code, malloc when the pool is empty or the request is
above 4096 bytes. A block above 32767 bytes is released as one of another size: into the
pool, back to malloc, or, with a size that is not positive, not at all (Memory.cpp:117).
`capacity` is what malloc gave. The pools of other sizes share nothing with this one, and
`MemoryPoolAssumption` keeps requests to those this pool serves. `users`, `asked` and
`stack` are history; `Allocator`'s only variable is `users`, so the refinement mapping is
the identity on it. The counters change together with a neighbouring step and are
integers, where the source has an unsigned `size` that may pass below zero for a moment
(MemoryPool.cpp:58), as nothing reads them for a decision. The application releases a block
once (`GivesBack`), so the compare-exchange of `PushCode` that decides between two releases
at a time (MemoryPool.cpp:98) always succeeds: that it has to be atomic is not shown. A
request of no bytes gets nullptr and changes nothing (Memory.cpp:85-89); `Requests` are
positive.

### MemoryStream and BufferChunk

A byte is the pair of its session and its number, so that "the same bytes" can be told
from any others. The receive buffer is its offsets (`MemoryStream`) and its contents
(`data`); a SendBuffer is a region of the contents of a chunk. A thread owns its chunk
(`L_buffer_chunk` is thread-local) and the session it handles (`RecvExclusive` of
`Session`), so only the list of chunks and the reference counts are shared: the drop of a
last reference and the push that follows are two steps. `is_open_` of a chunk is left out,
as no decision depends on it. OnRecv reads its message through a StreamReader and may
leave the rest; it echoes what it read into a SendBuffer that may be larger or smaller,
in one piece or through a StreamWriter, whose `Write` refuses what does not fit. A
SendBuffer fits into an empty chunk (2048 bytes are received at most, a chunk has 819200),
which `BufferChunkAssumption` states. One SendBuffer is open on a thread at a time, as in
Session::OnRecv; nothing in BufferChunk::Open enforces it.

### LockFreeQueue

Values are numbered in the order their nodes are linked, so the queue is correct
when the i-th Dequeue that succeeds returns i. `allocated` tells which nodes malloc
has returned and nobody freed; an action that would touch another node is not
enabled, and `NoUseAfterFree` says that this never happens. A list that a thread has
detached from `free_list` is walked or released in one action, since nobody else
writes to its nodes. `Segment(n, end)` is the nodes such a walk meets, defined without
recursion as the least set that has `n` and the next of each of its nodes before `end`.
Malloc fails when no node is left: Enqueue then returns false
and changes nothing, a stuttering step. `discipline` is how the application uses the
queue, chosen in `Init`: producers first and then consumers ("phases", as
PushLockFreeQueue and PopLockFreeQueue of `src/CoreTest/LockFreeTest.cpp`), one producer
at a time beside the consumers, or "freely", where a thread may do both
(RandomPushPopLockFreeQueue). The queue itself enforces none of them; it is safe under
the first two only.

## 3. What the runs check

All bounds are constants of the modules: `MaxSends`, `MaxPackets`, `MaxCalls`,
`MaxConnections`, `MaxEnqueues`, `MaxDequeues`, `MaxBytes`, and the sets `Chunks`,
`SendBuffers`, `Blocks`, `Nodes` and `Sessions`. Because of them a behaviour ends when the
calls are used up, so `CHECK_DEADLOCK` is off in those runs; in `Session` the program stops
also when the session is gone. Only `manager`, whose calls go on for ever, checks deadlock.

| Run | Instance | Shows |
|---|---|---|
| `session_safety` | 2 workers, 1 application thread, 2 buffers, all answers of WSARecv and WSASend, immediate success as in the skip mode | `SendExclusive`, `RecvExclusive`, `DisconnectOnce`, `PacketHasOwner`, `BuffersHeld`, `SendOrder`, `QueueHasSender`, and `Session` implements `SendChannel` |
| `session_send` | the same threads, a pending WSASend or immediate success in the skip mode, with fairness | `EventuallySent` |
| `session_disconnect` | 1 buffer, no immediate success of WSARecv and WSASend, and a packet for that of DisconnectEx; with fairness | `DisconnectReleases` |
| `session_destroy` | violation | `DestroyAssertion`: `CRASH("WRONG SESSION DESTROY")` is reachable |
| `session_unskipped` | violation, immediate success as the code gets it | `BuffersHeld` fails when immediate success also queues a packet |
| `manager` | 2 threads, 3 sessions, 2 ids, the 5 traversals of the code; with fairness | `NoCrash`, `IdHasOneUser`, `FailsOnlyWhenBusy`, `CallsReturn` |
| `server_safety` | main and 2 workers, 2 accept events, 2 connections, 2 ids, 2 traversals, AcceptEx pending or failing; with fairness | `EventInOnePlace`, `SessionInOnePlace`, `NullSessionOnlyWhenBusy`, `EventComesBack`, and the service implements the use of `SessionManager` |
| `server_close` | violation, AcceptEx may answer WSAECONNRESET | `DispatchedEventIsOurs`: a deleted event is dispatched |
| `pool` | 2 threads, 2 blocks, 7 calls, requests of 32, 5000, 40000 and 65568 bytes; with fairness | `StackLinked`, `BlockInOnePlace`, `RoomInBlock`, `NoFalseAlarm`, `CountersMatch`, `CallsEnd`, and `MemoryPool` implements `Allocator` |
| `buffers` | 2 threads, 2 sessions, 3 chunks of 3 bytes, 2 SendBuffers, receive buffers of 2, 5 bytes in all | `UnreadBytesKept`, `WritesFit`, `SentBytesKept`, `ChunkInOnePlace` |
| `queue_safety` | 2 producers, 2 consumers, 4 nodes, both safe disciplines | `NoUseAfterFree`, `QueueLinked` with the size, `FirstInFirstOut`, `NodeInOnePlace` |
| `queue_freely` | violation, 2 threads that do both | `NobodyHasTheHead`: a node is freed that an Enqueue still uses |

Every run of a passing module checks its `TypeOK` as well, the runs of one temporal
property apart.

Why the bounds are enough. Two workers and an application thread make every pair of
roles meet (a sender, the handler of its completion, a disconnect); two buffers make
one wait while the other is sent. `MaxPackets = 2` is above what the exclusivity
properties allow, so it never hides a second operation. Three sessions over two ids make
ids run out and come back while a scan is on its way. In `server_safety` two events and
two ids let one event run out of sessions while the other goes round and the connector
asks for a third; five session objects, one per id and per thread, mean that a fresh one is
always at hand. The scan is traversed twice there, so that it wraps; `manager` has all
five. The four requests of `pool` are one that the pool serves, one that malloc serves and
gets back, one whose size in the header is negative (lost), and one whose size comes out
as 32 (into the pool). Seven calls let a block be popped, released and be the top again
between another thread's read and its compare-and-swap, with one more call to suffer from
it; the mutant that ignores the stamp fails there. In `buffers` a chunk of three bytes is
left for another by both the last byte and the first that does not fit, comes back to the
manager, and becomes the other thread's. In the queue, two producers meet in the link and
in the swing of tail, and two consumers reach each outcome of TryDelete, the put-back of a
detached list included.

Views. TLC identifies states by `Live` in three MC modules. In `MCMemoryPool` and
`MCBufferChunk` it drops only variables, and contents of memory, that are written
before any action or property reads them. In `MCServerService` it also forgets the names of
sessions: a state is known by the set of roles its sessions have. No property of those runs
names a session across states: the invariants quantify over all of them, `EventComesBack`
speaks of events, and `ImplementsManager` constrains each step of the manager's variables in
a way that any renaming of the sessions preserves.

### Fairness

`Session`: a thread in a handler is scheduled (`WF` on `Run`), a worker drops its local
references, and packets are handed out in the order they were queued, so a send or
disconnect packet is taken though workers are busy from time to time (`SF`, since the
action is disabled while both are). A receive has to complete only once
the connection is down. Application threads owe nothing. `ServerService`: clients need
not connect or disconnect, so dispatching is not fair, nor must the main thread connect.
The other modules: a thread
inside a call runs on (`WF`), and nobody has to make a call. The lock-free loops end under
weak fairness only because a compare-and-swap fails when another call got on, and calls
are finite in number: this is lock-freedom, not wait-freedom.

## 4. What is proved

TLAPS checks the proof modules without a bound on threads, sessions, ids, events, nodes,
blocks, sizes, buffers or packets. Each theorem `Spec => []P` comes from an inductive
invariant, with one lemma for each action or group of actions that can disturb it.

* `SessionProofs`: `TypeCorrect`, `SendExclusion`, `RecvExclusion`, `DisconnectedOnce`,
  `PacketsKeepSession`. `SendExclusive` and `DisconnectOnce` are inductive with the type
  invariant. `RecvExclusive` needs more: until Start has run nobody is in the receive
  loop and nothing is posted, and only one thread can run Start. For `PacketHasOwner` the
  strengthening `OwnerInv` adds that the owner is set also between SetOwner and the call,
  and that no handler of the event runs while an operation is outstanding: the three
  exclusion properties. `DisconnectedOnce` holds in every behaviour, since
  `is_connected_.exchange(false)` decides alone. The theorems on sending and receiving have
  a condition on the behaviour, `[]NoSecondSendPacket` or `[]NoSecondRecvPacket`: the port
  never holds the packet of a call that was processed inline. In the code's own mode these
  are the behaviours in which no WSASend (WSARecv) succeeds at once; with the skip mode, or
  for outcomes without "done", they are all behaviours (lemmas `SendPacketsUnique` and
  `RecvPacketsUnique`), those of the runs `session_safety`, `session_send` and
  `session_disconnect` among them. Without the condition the claims are false: see
  `session_unskipped`.
* `SessionSendProofs`, with the condition `[]NoSecondSendPacket`: `SentInOrder`,
  `BatchesHeld`, `WakeUpsKept`, `KeepsChannel` (`Session` implements `SendChannel`).
  `WakeUpsKept` says no more than `QueueHasSender`, which excuses a session that is
  disconnected or on its way to Disconnect, and one whose WSASend has failed. The invariant
  `SendPathInv` adds two things to `SendOrder`. `ListInv`: the list is empty except in the
  hands of a thread about to call WSASend or of the system, and then it ends `submitted`.
  `FlagInv`: the registration flag is set if there is something in the queue, and if it is
  set, somebody sends or sending has stopped for good. A step outside the send path changes
  none of what the channel sees (`SendPathQuiet`); each step of the path is a step of the
  channel or a stutter.
* `SessionManagerProofs`: `TypeCorrect`, `NeverCrashes`, `IdsAreOwned`, `FailuresAreBusy`,
  from `Inv == TypeOK /\ NoCrash /\ TaskInv /\ ListInv /\ CountInv /\ IdHasOneUser`. The
  argument: an id that is taken has one user, so the thread that is about to insert or to
  return it is that user and finds the list empty and the flag set; `TaskInv` and
  `ListInv` tie each running call to a session of its own, `CountInv` bounds the scan.
  `ScanInv` says that an id which stayed free since the call began is still ahead of the
  scan, so that a scan which has ended leaves none.
* `ServerServiceProofs`: `TypeCorrect`, `EventsInOnePlace`, `SessionsInOnePlace`,
  `NullSessionsAreBusy`, `UsesManager` (every step of the service is a step of
  `SessionManager` or leaves it alone). The invariant contains those of the manager, taken
  from `SessionManagerProofs` by INSTANCE and kept because every step is one of its steps;
  `CallInv` ties where a thread is in the listener to what it does in the manager,
  `SessionInv` says that a session in a thread's hand is in no other and does not wait or
  serve, `BusyInv` carries the manager's answer to the caller.
* `LockFreeStackProofs`: `TypeCorrect`, `ListIsStack`, `NodesInOnePlace`. The core is
  `ReadInv`: stamps only grow, and a thread at its compare-and-swap whose pair equals `top`
  has read the `next` which that node still has, since between the two nobody can have
  popped it without raising the stamp.
* `MemoryPoolProofs`: `PoolHasRoom`, that the pool a request is served from has blocks at
  least as large as the request; `TypeCorrect`, `ListIsStack`, `BlocksInOnePlace`,
  `BlocksHaveRoom`, `ChecksSilent`, `PoolCounts` and `KeepsPromise` (`MemoryPool`
  implements `Allocator`). The invariants of the stack come from `LockFreeStackProofs` by
  INSTANCE; `ThreadInv`, `CodeInv` and `CapacityInv` tie the thread, the code and the
  capacity of a block to its place. `CountersMatch` speaks of the moments when no call runs,
  which is not inductive: `CountInv` says how far each counter is out while calls run, by
  one for each call that has moved a block and not counted it yet or the other way round,
  and `HeaderInv` that the header of a block tells whether it was counted.
* `BufferChunkProofs`: `TypeCorrect`, `UnreadBytesStay`, `WritesStayInside`,
  `SentBytesStay`, `ChunksInOnePlace`, for buffers of any size and any number of bytes. Three
  lemmas say what OnWrite, OnRead and CleanUp make of the offsets of a receive buffer, two
  (`CopyToCopies`, `CleanUpMoves`) what copying and moving make of the contents. `HandlerInv`
  gives a thread in a handler its session alone and at least the bytes it has read;
  `RecvInv` says that CleanUp has run before the next WSARecv, which is why the room it gets
  is inside the buffer. On the other side `StreamInv` is the reason that sent bytes stay: an
  open SendBuffer begins where `used_size_` of its chunk ends, it is the only open one of the
  chunk, that of the thread that writes, and all closed ones of the chunk lie before it. A
  chunk may be reset only because nothing refers to it when it is popped (`PlaceInv`), and
  the room NeedsChunk saw is still there at Open because one thread has the chunk (`OwnInv`).
* `LockFreeQueueProofs`, under `SafeUse` (the application keeps to "phases" or
  "one_producer"): `TypeCorrect`, `NodesAreLive`, `ListIsQueue`, `ValuesInOrder`,
  `NodesInOnePlace`, `FreedAlone`. No induction along the list is needed: `QueueInv` says
  that the numbers of the nodes (`Place`) rise by one from each node of the queue to its
  next, so the last node is the one with the number `enqueued`, and lemmas on the least
  set `Part` say what linking, unlinking and joining make of a list (`PartGrow`,
  `PartTail`, `PartJoin`). What a thread has read of head and tail may be old; `HeadRead`
  and `TailRead` say it is true as long as the stamp is the one it read, which is all that
  its compare-and-swap asks. A node that left the queue may still be read by a Dequeue:
  `Refers` says that such a node is `Guarded`, with no thread about to free it. A thread
  gets there only when `pop_count` is 1, and `CountInv` bounds the Dequeues under way by
  `pop_count`, so there is no other then. An Enqueue is not counted: that the node it has
  read as tail stays in the queue is what `DisciplineInv` adds, and the step that moves
  head is the only one that needs it. "freely" breaks it, as run `queue_freely` shows. The
  invariant was checked by TLC with the bounds of `queue_safety` before it was proved.

The assumptions are those named in the modules (`SessionAssumption`,
`SessionManagerAssumption`, `ServerServiceAssumption`, `MemoryPoolAssumption`,
`BufferChunkAssumption`, `LockFreeQueueAssumption`), which TLC evaluates in the runs. `LockFreeStack` is used by INSTANCE only, so it assumes nothing: its
theorems have the hypothesis `NullIsNoNode`, which follows from `MemoryPoolAssumption` for
the pool.

Only model-checked: every liveness property (`EventuallySent`, `DisconnectReleases`,
`CallsReturn`, `EventComesBack`, `CallsEnd`), which is out of reach of the prover, as is
ENABLED. No module uses recursion.

## 5. Disagreements found

* Session.cpp:259 and 279: after a WSASend that fails at once, or a completion of no
  bytes, `is_register_send_` stays set; the destructor then fails its own check
  (Session.cpp:13). It runs only if the factory makes sessions whose deleter calls it: the
  `xdelete` of MakeShared (MemoryMacro.h:14), which EchoServer uses, does not.
* Session.cpp:136 and 267: inline processing of an immediate success without the
  skip mode makes handlers run twice for one operation; the list that keeps the buffers
  "for reference count" (Session.cpp:241) is cleared while WSASend is outstanding.
* Listener.cpp:76: an AcceptEx that answers WSAECONNRESET or WSAECONNABORTED closes the
  listener and deletes its accept events while the others are outstanding; their packets
  are dispatched with deleted events, against the assertion in Listener.cpp:121.
* LockFreeQueue.h:178: `pop_count == 1` is said to mean that no other thread has the
  same head (180-181), but an Enqueue is not counted and may hold that node as the tail.

Seen on the way and not stated as a property, since nothing in the repository promises
otherwise:

* A handler may go on with a session that has been freed. ProcessRecv and ProcessSend reset
  the owner of their event first (Session.cpp:145, 275) and use `this` until they return;
  from then on only `session_list_` or another event keeps the session. When a second worker
  runs ProcessDisconnect meanwhile (Session.cpp:104), RemoveSession erases the entry and the
  last reference goes with DestroySession's argument, while the first worker is still in
  OnRecv, or before the lock on `send_queue_` in ProcessSend. No call has to fail: with the
  constants of `session_destroy`, TLC finds `Destroyed => \A t \in Threads : pc[t] = "idle"`
  violated after 17 steps, by a worker whose OnRecv has called Disconnect and has not
  returned when the packet of DisconnectEx is dispatched. In ProcessSend
  `is_register_send_` is still set then, so the destructor's check (Session.cpp:13) fails
  this way too. The model stops the first worker at that point (`Referenced`), so no run
  shows what it does with the freed memory; the other properties hold up to there.
* DisconnectEx's answer is read the wrong way round (Session.cpp:90), so a failure leaves
  the session listed for ever (`DisconnectStranded` is the exception in
  `DisconnectReleases`).
* A Dequeue that finds the queue empty leaves `pop_count` raised (LockFreeQueue.h:113),
  after which nodes are collected but no longer freed.
* `xdelete` releases memory without running the destructor (MemoryMacro.h:16).
* MemoryStream::Open makes a stream over the nullptr that BufferChunk::Open returns for
  more than a whole chunk (MemoryStream.cpp:269).
* LockFreeStack::Pop never frees its nodes (LockFreeStack.h:91).
* A block whose 16-bit size is not positive is never given back (Memory.cpp:117), and one
  whose size wraps to a small one enters a pool and makes `alloc_count_` too low
  (`CountersMatch` says by how much).
* ServerService::Close joins workers that never end (Service.cpp:68).

## 6. Not modelled, and the plan

* `ThreadManager` and ServerService::Close: Push and Join are called by one thread. Close
  joins workers whose loop waits INFINITE for packets, so it does not return; a model would
  have that one behaviour, and no line promises another.
* `ObjectPool` and the allocators: ObjectPool is a `MemoryPool` of one size with
  constructors and destructors. Its user in the core is the default Session::OnRecv
  (Session.cpp:186), which takes the SendBuffer of its echo from one. Blocks of such a pool
  move as those of `MemoryPool` do; in `BufferChunk` a SendBuffer is any one that is not in
  use. The allocators forward to malloc, VirtualAlloc or `Memory`.
* `SocketUtils` and `NetAddress`: calls of the system; their results are the outcomes in
  `Session` and `ServerService`.
* Clear and Display of the containers, which are for use by one thread;
  StreamWriter::Reserve, which CRASHes without room; printing; constructors and
  destructors that run before and after all threads.
* Test programs, apart from how they use the queue.

Every invariant and every refinement of the runs that pass is proved. What could be added is
an abstract queue that `LockFreeQueue` implements, in place of the two properties
`QueueLinked` and `FirstInFirstOut`, and a liveness property of it under the fairness
stated above.
