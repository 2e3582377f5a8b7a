------------------------------ MODULE MemoryPool ------------------------------
(***************************************************************************)
(* Memory::Allocate and Memory::Release (Memory.cpp) over one of their     *)
(* pools, a mymp::MemoryPool (MemoryPool.cpp), and over malloc for what is *)
(* larger than any pool serves.  The free blocks of the pool are in its    *)
(* container_, a LockFreeStack, whose steps are those of that module.      *)
(*                                                                         *)
(* The application releases a block once, on any thread.  The counters     *)
(* size, alloc_count_ and release_count_ are only displayed, so each       *)
(* changes together with a neighbouring step.                              *)
(***************************************************************************)
EXTENDS Memory, Sequences

CONSTANTS
    Threads,
    Blocks,             \* the addresses malloc can return
    Null,
    alloc_size_,        \* of the pool
    Requests,           \* sizes the application asks for
    MaxCalls            \* bound: calls of Allocate and Release in a behaviour

Pooled(size) == size \in 1 .. MAX_ALLOC_SIZE

ASSUME MemoryPoolAssumption ==
    /\ Null \notin Blocks
    /\ MaxCalls \in Nat
    /\ alloc_size_ \in PoolSizes
    /\ Requests \subseteq Nat \ {0}
    \* Other pools are left out: each request that comes to a pool, by its size
    \* or later by the size in its header, comes to this one.
    /\ \A r \in Requests : \A size \in {r, HeaderSize(r)} :
           Pooled(size) => PoolSize(size) = alloc_size_

CURRENT_ALLOC == "CURRENT_ALLOC"
CURRENT_RELEASE == "CURRENT_RELEASE"
Garbage == "garbage"    \* the code of memory that malloc has just returned

VARIABLES
    top, next, size, pc, oldTop, oldNext, node, stack,    \* of the container
    code,               \* BlockHeader::code and size of each block
    header_size,
    capacity,           \* bytes behind the header; 0 for what malloc has not given
    alloc_count_, release_count_,
    at,                 \* control point of each thread in Memory and MemoryPool
    header,             \* the block a thread releases or has got
    request,            \* the size it asks for
    users,              \* history: holders of each block in the application
    asked,              \* history: the size its holder has asked for
    calls

container == <<top, next, size, pc, oldTop, oldNext, node, stack>>
counts == <<alloc_count_, release_count_>>
blocks == <<code, header_size, capacity>>
held == <<users, asked>>
vars == <<container, blocks, counts, at, header, request, held, calls>>

Container == INSTANCE LockFreeStack WITH Nodes <- Blocks

-----------------------------------------------------------------------------

Step(t, from, to) ==
    /\ at[t] = from
    /\ at' = [at EXCEPT ![t] = to]

Init ==
    /\ Container!Init
    /\ code = [b \in Blocks |-> Garbage]
    /\ header_size = [b \in Blocks |-> 0]
    /\ capacity = [b \in Blocks |-> 0]
    /\ alloc_count_ = 0 /\ release_count_ = 0
    /\ at = [t \in Threads |-> "idle"]
    /\ header = [t \in Threads |-> Null]
    /\ request = [t \in Threads |-> 0]
    /\ users = [b \in Blocks |-> 0]
    /\ asked = [b \in Blocks |-> 0]
    /\ calls = 0

Malloced(b) == capacity[b] > 0

\* The steps of the container, in a Pop or in a Push.
RunContainer(t) ==
    /\ at[t] \in {"pop", "push"} /\ Container!Run(t)
    /\ UNCHANGED <<blocks, counts, at, header, request, held, calls>>

-----------------------------------------------------------------------------
(***************************************************************************)
(* Memory::Allocate and MemoryPool::Pop.                                   *)
(***************************************************************************)

Allocate(t, r) ==
    /\ calls < MaxCalls /\ r <= MAX_ALLOC_SIZE
    /\ Step(t, "idle", "pop")
    /\ Container!Pop(t)
    /\ request' = [request EXCEPT ![t] = r]
    /\ calls' = calls + 1
    /\ UNCHANGED <<blocks, counts, header, held>>

\* Mutant: the code of a block from the pool is left as it was.
AttachHeaderKeepsCode(t, b, r) ==
    /\ Container!NewNode(b)
    /\ header_size' = [header_size EXCEPT ![b] = HeaderSize(r)]
    /\ users' = [users EXCEPT ![b] = @ + 1]
    /\ asked' = [asked EXCEPT ![b] = r]
    /\ at' = [at EXCEPT ![t] = "idle"]
    /\ UNCHANGED code

\* BlockHeader::AttachHeader constructs the header of block b anew for a
\* request of r bytes and the application has the block.
AttachHeader(t, b, r) ==
    /\ Container!NewNode(b)
    /\ code' = [code EXCEPT ![b] = CURRENT_ALLOC]
    /\ header_size' = [header_size EXCEPT ![b] = HeaderSize(r)]
    /\ users' = [users EXCEPT ![b] = @ + 1]
    /\ asked' = [asked EXCEPT ![b] = r]
    /\ at' = [at EXCEPT ![t] = "idle"]

\* Mutant: the size is narrowed before malloc is asked.
AllocateLargeNarrow(t, r) ==
    /\ calls < MaxCalls /\ r > MAX_ALLOC_SIZE /\ at[t] = "idle"
    /\ \E b \in Blocks :
          /\ ~Malloced(b) /\ HeaderSize(r) > 0
          /\ capacity' = [capacity EXCEPT ![b] = HeaderSize(r)]
          /\ AttachHeader(t, b, r)
    /\ calls' = calls + 1
    /\ UNCHANGED <<counts, header, request>>

\* What no pool serves comes from malloc; nobody else knows the block.
AllocateLarge(t, r) ==
    /\ calls < MaxCalls /\ r > MAX_ALLOC_SIZE /\ at[t] = "idle"
    /\ \E b \in Blocks :
          /\ ~Malloced(b)
          /\ capacity' = [capacity EXCEPT ![b] = r]
          /\ AttachHeader(t, b, r)
    /\ calls' = calls + 1
    /\ UNCHANGED <<counts, header, request>>

\* Mutant: --release_count_ is forgotten.
PopCodeUncounted(t) ==
    /\ pc[t] = "pop_size"
    /\ Step(t, "pop", IF code[node[t]] = CURRENT_RELEASE THEN "attach" ELSE "corrupted")
    /\ Container!PopSize(t)
    /\ header' = [header EXCEPT ![t] = node[t]]
    /\ UNCHANGED <<blocks, counts, request, held, calls>>

\* container_.Pop returns true, then the check of the code: a block of another
\* code means that the pool is corrupted, and Pop returns without counting it.
PopCode(t) ==
    /\ pc[t] = "pop_size"
    /\ Step(t, "pop", IF code[node[t]] = CURRENT_RELEASE THEN "attach" ELSE "corrupted")
    /\ Container!PopSize(t)
    /\ header' = [header EXCEPT ![t] = node[t]]
    /\ release_count_' = IF code[node[t]] = CURRENT_RELEASE
                         THEN release_count_ - 1 ELSE release_count_
    /\ UNCHANGED <<blocks, alloc_count_, request, held, calls>>

\* It returns false, the stack was empty: a new block, or nullptr.
Malloc(t) ==
    /\ pc[t] = "idle"
    /\ \/ \E b \in Blocks :
             /\ ~Malloced(b)
             /\ Step(t, "pop", "attach")
             /\ capacity' = [capacity EXCEPT ![b] = alloc_size_]
             /\ header' = [header EXCEPT ![t] = b]
       \/ Step(t, "pop", "idle") /\ UNCHANGED <<capacity, header>>
    /\ UNCHANGED <<container, code, header_size, counts, request, held, calls>>

\* ++alloc_count_, and Memory::Allocate attaches the header.
PopAttach(t) ==
    /\ at[t] = "attach"
    /\ AttachHeader(t, header[t], request[t])
    /\ alloc_count_' = alloc_count_ + 1
    /\ UNCHANGED <<capacity, release_count_, header, request, calls>>

-----------------------------------------------------------------------------
(***************************************************************************)
(* Memory::Release and MemoryPool::Push.                                   *)
(***************************************************************************)

\* The application gives the block b back, once: two threads that release the
\* same block at a time are not modelled.
GivesBack(b) ==
    /\ calls < MaxCalls /\ users[b] > 0
    /\ users' = [users EXCEPT ![b] = @ - 1]
    /\ asked' = [asked EXCEPT ![b] = 0]
    /\ calls' = calls + 1

\* The block goes to the pool of the size in its header.
Release(t, b) ==
    /\ Pooled(header_size[b])
    /\ GivesBack(b)
    /\ Step(t, "idle", "push_check")
    /\ header' = [header EXCEPT ![t] = b]
    /\ UNCHANGED <<container, blocks, counts, request>>

\* A size that no pool serves: the block is given back to malloc, or neither
\* freed nor kept when the size is not positive.
ReleaseLarge(t, b) ==
    /\ at[t] = "idle" /\ ~Pooled(header_size[b])
    /\ GivesBack(b)
    /\ capacity' = IF header_size[b] > MAX_ALLOC_SIZE
                   THEN [capacity EXCEPT ![b] = 0] ELSE capacity
    /\ UNCHANGED <<container, code, header_size, counts, at, header, request>>

\* A block that is not allocated is refused.
PushCheck(t) ==
    /\ at[t] = "push_check"
    /\ Step(t, "push_check",
            IF code[header[t]] = CURRENT_ALLOC THEN "push_code" ELSE "wrong_release")
    /\ UNCHANGED <<container, blocks, counts, header, request, held, calls>>

\* InterlockedCompareExchange16 of the code, one of two releases wins; then
\* container_.Push.
PushCode(t) ==
    /\ at[t] = "push_code"
    /\ \/ /\ code[header[t]] = CURRENT_ALLOC
          /\ Step(t, "push_code", "push")
          /\ code' = [code EXCEPT ![header[t]] = CURRENT_RELEASE]
          /\ Container!Push(t, header[t])
       \/ /\ code[header[t]] # CURRENT_ALLOC
          /\ Step(t, "push_code", "wrong_release")
          /\ UNCHANGED <<code, container>>
    /\ UNCHANGED <<header_size, capacity, counts, header, request, held, calls>>

\* container_.Push returns; ++release_count_, --alloc_count_.
PushCount(t) ==
    /\ Step(t, "push", "idle")
    /\ Container!PushSize(t)
    /\ release_count_' = release_count_ + 1
    /\ alloc_count_' = alloc_count_ - 1
    /\ UNCHANGED <<blocks, header, request, held, calls>>

Run(t) == \/ RunContainer(t)
          \/ PopCode(t) \/ Malloc(t) \/ PopAttach(t)
          \/ PushCheck(t) \/ PushCode(t) \/ PushCount(t)

Next == \E t \in Threads :
            \/ Run(t)
            \/ \E r \in Requests : Allocate(t, r) \/ AllocateLarge(t, r)
            \/ \E b \in Blocks : Release(t, b) \/ ReleaseLarge(t, b)

Spec == Init /\ [][Next]_vars

\* A thread inside a call is scheduled again and again.
FairSpec == Spec /\ \A t \in Threads : WF_vars(Run(t))

-----------------------------------------------------------------------------
(***************************************************************************)
(* Properties.                                                             *)
(***************************************************************************)

ControlPoints == {"idle", "pop", "corrupted", "attach",
                  "push_check", "push_code", "push", "wrong_release"}

TypeOK ==
    /\ Container!TypeOK
    /\ code \in [Blocks -> {CURRENT_ALLOC, CURRENT_RELEASE, Garbage}]
    /\ header_size \in [Blocks -> -SHORT .. SHORT - 1]
    /\ capacity \in [Blocks -> Nat]
    /\ alloc_count_ \in Int /\ release_count_ \in Int
    /\ at \in [Threads -> ControlPoints]
    /\ header \in [Threads -> Blocks \cup {Null}]
    /\ request \in [Threads -> Requests \cup {0}]
    /\ users \in [Blocks -> Nat]
    /\ asked \in [Blocks -> Requests \cup {0}]
    /\ calls \in 0 .. MaxCalls

\* The free list of the pool is intact whatever blocks go in and out between
\* a thread's reads and its compare-and-swap.
StackLinked == Container!StackLinked

\* Thread t alone may use the block b: it has just got it, or releases it.
Owns(t, b) ==
    \/ at[t] \in {"attach", "push_check", "push_code"} /\ header[t] = b
    \/ Container!Holds(t, b)

\* A block that malloc has given and not got back is in the pool, with the
\* application or with one thread, unless its header says a size that is not
\* positive and it was released: then it is lost.
Placed(b) ==
    /\ Malloced(b) => \/ Container!InStack(b) \/ users[b] = 1
                      \/ \E t \in Threads : Owns(t, b)
                      \/ header_size[b] <= 0
    /\ Container!InStack(b) => Malloced(b) /\ users[b] = 0
    /\ users[b] <= 1 /\ (users[b] = 1 => Malloced(b))
    /\ \A t \in Threads : Owns(t, b) =>
         /\ Malloced(b) /\ users[b] = 0 /\ ~Container!InStack(b)
         /\ \A u \in Threads : Owns(u, b) => u = t

\* Each block is in one place, and in the pool once.
BlockInOnePlace == Container!NodeInOnePlace /\ \A b \in Blocks : Placed(b)

\* Whoever asks for a number of bytes gets a block that has them, also from a
\* pool that has been given blocks whose size did not fit into the header.
RoomInBlock == \A b \in Blocks : users[b] = 1 => asked[b] <= capacity[b]

\* The checks of MemoryPool for a corrupted pool, a wrong release and a
\* second release stay silent while the application releases blocks once.
NoFalseAlarm == \A t \in Threads : at[t] \notin {"corrupted", "wrong_release"}

Large(b) == capacity[b] > MAX_ALLOC_SIZE

\* When no call is in progress the counters count, except that alloc_count_ is
\* one too low for each large block that has ended up in the pool.
CountersMatch ==
    (\A t \in Threads : at[t] = "idle") =>
        /\ size = Len(stack)
        /\ release_count_ = Len(stack)
        /\ alloc_count_ =
               Cardinality({b \in Blocks : users[b] = 1 /\ ~Large(b)})
                   - Cardinality({b \in Blocks : Container!InStack(b) /\ Large(b)})

\* A block is given to one user at a time.
Promise == INSTANCE Allocator
ImplementsAllocator == Promise!Spec

\* A compare-and-swap fails only because another call got on: in a finite
\* number of calls each one ends.
CallsEnd == \A t \in Threads : at[t] # "idle" ~> at[t] = "idle"

=============================================================================
