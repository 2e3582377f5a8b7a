--------------------------- MODULE MemoryPoolProofs ---------------------------
(***************************************************************************)
(* Proofs about MemoryPool, for every number of threads, blocks and calls  *)
(* and every set of requests.  What is proved of LockFreeStack holds of    *)
(* the container of the pool, since each step of the pool is one that      *)
(* module LockFreeStack allows.                                            *)
(***************************************************************************)
EXTENDS MemoryPool, FiniteSetTheorems, TLAPS

List == INSTANCE LockFreeStackProofs WITH Nodes <- Blocks

-----------------------------------------------------------------------------
(***************************************************************************)
(* The table of Memory, for requests of every size.                        *)
(***************************************************************************)

\* A number from each range rounded up to a size class.
LEMMA RoundUp32 ==
    ASSUME NEW r \in 1 .. 992
    PROVE  \E q \in 1 .. 31 : r <= 32 * q /\ 32 * q < r + 32
<1>1. PICK q \in Int : q = (r + 31) \div 32
  OBVIOUS
<1>2. 32 * q <= r + 31 /\ r + 31 < 32 * q + 32
  BY <1>1
<1> QED BY <1>2

LEMMA RoundUp128 ==
    ASSUME NEW r \in 1025 .. 1920
    PROVE  \E q \in 1 .. 7 : r <= 1024 + 128 * q /\ 1024 + 128 * q < r + 128
<1>1. PICK q \in Int : q = (r - 1024 + 127) \div 128
  OBVIOUS
<1>2. 128 * q <= r - 1024 + 127 /\ r - 1024 + 127 < 128 * q + 128
  BY <1>1
<1> QED BY <1>2

LEMMA RoundUp256 ==
    ASSUME NEW r \in 2049 .. 4096
    PROVE  \E q \in 1 .. 8 : r <= 2048 + 256 * q /\ 2048 + 256 * q < r + 256
<1>1. PICK q \in Int : q = (r - 2048 + 255) \div 256
  OBVIOUS
<1>2. 256 * q <= r - 2048 + 255 /\ r - 2048 + 255 < 256 * q + 256
  BY <1>1
<1> QED BY <1>2

\* A pool is in one of the three ranges of the constructor.
LEMMA Ranges ==
    ASSUME NEW s \in PoolSizes
    PROVE  \/ \E i \in 1 .. 31 : s = 32 * i
           \/ \E i \in 0 .. 7 : s = 1024 + 128 * i
           \/ \E i \in 0 .. 8 : s = 2048 + 256 * i
BY DEF PoolSizes

LEMMA PoolSizesNat == PoolSizes \subseteq 1 .. MAX_ALLOC_SIZE
<1> SUFFICES ASSUME NEW s \in PoolSizes PROVE s \in 1 .. 4096
  BY DEF MAX_ALLOC_SIZE
<1> QED BY Ranges

\* The pool that serves a request is the smallest one with room for it.
LEMMA ServingPool ==
    ASSUME NEW r \in 1 .. MAX_ALLOC_SIZE
    PROVE  \E s \in PoolSizes : /\ r <= s
                                /\ \A z \in PoolSizes : r <= z => s <= z
<1>0. r \in 1 .. 4096
  BY DEF MAX_ALLOC_SIZE
<1>1. CASE r \in 1 .. 992
  <2>1. PICK q \in 1 .. 31 : r <= 32 * q /\ 32 * q < r + 32
    BY <1>1, RoundUp32
  <2>2. 32 * q \in PoolSizes
    BY DEF PoolSizes
  <2>3. ASSUME NEW z \in PoolSizes, r <= z PROVE 32 * q <= z
    BY <1>1, <2>1, <2>3, Ranges
  <2> QED BY <2>1, <2>2, <2>3
<1>2. CASE r \in 993 .. 1024
  <2>1. 1024 + 128 * 0 \in PoolSizes
    BY DEF PoolSizes
  <2>2. ASSUME NEW z \in PoolSizes, r <= z PROVE 1024 <= z
    BY <1>2, <2>2, Ranges
  <2> QED BY <1>2, <2>1, <2>2
<1>3. CASE r \in 1025 .. 1920
  <2>1. PICK q \in 1 .. 7 : r <= 1024 + 128 * q /\ 1024 + 128 * q < r + 128
    BY <1>3, RoundUp128
  <2>2. 1024 + 128 * q \in PoolSizes
    BY DEF PoolSizes
  <2>3. ASSUME NEW z \in PoolSizes, r <= z PROVE 1024 + 128 * q <= z
    BY <1>3, <2>1, <2>3, Ranges
  <2> QED BY <2>1, <2>2, <2>3
<1>4. CASE r \in 1921 .. 2048
  <2>1. 2048 + 256 * 0 \in PoolSizes
    BY DEF PoolSizes
  <2>2. ASSUME NEW z \in PoolSizes, r <= z PROVE 2048 <= z
    BY <1>4, <2>2, Ranges
  <2> QED BY <1>4, <2>1, <2>2
<1>5. CASE r \in 2049 .. 4096
  <2>1. PICK q \in 1 .. 8 : r <= 2048 + 256 * q /\ 2048 + 256 * q < r + 256
    BY <1>5, RoundUp256, SMTT(30)
  <2>2. 2048 + 256 * q \in PoolSizes
    BY DEF PoolSizes
  <2>3. ASSUME NEW z \in PoolSizes, r <= z PROVE 2048 + 256 * q <= z
    BY <1>5, <2>1, <2>3, Ranges
  <2> QED BY <2>1, <2>2, <2>3
<1> QED BY <1>0, <1>1, <1>2, <1>3, <1>4, <1>5

\* The constructor of Memory fills the table so that each request finds a
\* pool whose blocks have room for it, and none smaller has.
THEOREM PoolHasRoom ==
    ASSUME NEW r \in 1 .. MAX_ALLOC_SIZE
    PROVE  /\ PoolSize(r) \in PoolSizes
           /\ r <= PoolSize(r)
           /\ \A s \in PoolSizes : r <= s => PoolSize(r) <= s
<1> DEFINE Room == {s \in PoolSizes : r <= s}
<1>1. \E s \in Room : \A z \in Room : s <= z
  BY ServingPool
<1>2. /\ (CHOOSE s \in Room : \A z \in Room : s <= z) \in Room
      /\ \A z \in Room : (CHOOSE s \in Room : \A y \in Room : s <= y) <= z
  BY <1>1
<1> QED BY <1>2 DEF PoolSize, Min

\* What a header remembers is a short.
LEMMA ShortNat == SHORT \in Nat \ {0}
BY DEF SHORT

LEMMA Remainder ==
    ASSUME NEW r \in Nat, NEW b \in Nat \ {0}
    PROVE  r % b \in 0 .. b - 1
BY Z3

LEMMA HeaderSizeType ==
    ASSUME NEW r \in Nat
    PROVE  HeaderSize(r) \in -SHORT .. SHORT - 1
<1>1. 2 * SHORT \in Nat \ {0}
  BY ShortNat
<1>2. r % (2 * SHORT) \in 0 .. 2 * SHORT - 1
  BY <1>1, Remainder
<1> QED BY <1>2, ShortNat DEF HeaderSize

-----------------------------------------------------------------------------

\* The constants: the pool is one of the table and serves each request that
\* a pool serves.
LEMMA ServingRequests ==
    /\ Requests \subseteq Nat \ {0}
    /\ alloc_size_ \in Nat \ {0} /\ alloc_size_ <= MAX_ALLOC_SIZE
    /\ \A r \in Requests : r <= MAX_ALLOC_SIZE => r <= alloc_size_
<1>1. Requests \subseteq Nat \ {0} /\ alloc_size_ \in PoolSizes
  BY MemoryPoolAssumption
<1>2. ASSUME NEW r \in Requests, r <= MAX_ALLOC_SIZE PROVE r <= alloc_size_
  <2>1. r \in 1 .. MAX_ALLOC_SIZE
    BY <1>1, <1>2 DEF MAX_ALLOC_SIZE
  <2>2. \A size_ \in {r, HeaderSize(r)} : Pooled(size_) => PoolSize(size_) = alloc_size_
    BY MemoryPoolAssumption
  <2>3. PoolSize(r) = alloc_size_
    BY <2>1, <2>2 DEF Pooled
  <2> QED BY <2>1, <2>3, PoolHasRoom
<1>3. alloc_size_ \in 1 .. MAX_ALLOC_SIZE
  BY <1>1, PoolSizesNat
<1> QED BY <1>1, <1>2, <1>3 DEF MAX_ALLOC_SIZE

-----------------------------------------------------------------------------
(***************************************************************************)
(* The container.                                                          *)
(***************************************************************************)

LEMMA ContainerFacts ==
    ASSUME List!IInv
    PROVE  /\ Container!TypeOK /\ Container!StackLinked /\ Container!NodeInOnePlace
           /\ \A t \in Threads : pc[t] = "pop_size" => node[t] \in Blocks
BY DEF List!IInv, List!TypeOK, List!StackLinked, List!NodeInOnePlace, List!NodeInv,
   Container!TypeOK, Container!StackLinked, Container!NodeInOnePlace, List!Holds,
   List!InStack, Container!Holds, Container!InStack, List!Stamped, Container!Stamped,
   List!PushPC, List!PopPC, Container!PushPC, Container!PopPC

LEMMA ContainerInit ==
    ASSUME Container!Init PROVE List!IInv
<1>1. List!Init
  BY DEF Container!Init, List!Init
<1> QED BY <1>1, List!InitIInv, MemoryPoolAssumption DEF List!NullIsNoNode

\* The ways in which a step of the pool may act on the container.
ContainerCall(t) ==
    \/ Container!Run(t) \/ Container!PushSize(t) \/ Container!PopSize(t)
    \/ Container!Pop(t)
    \/ \E b \in Blocks : Container!Push(t, b) \/ Container!NewNode(b)
    \/ UNCHANGED container

LEMMA ContainerStep ==
    ASSUME List!IInv, NEW t \in Threads, ContainerCall(t)
    PROVE  List!IInv' /\ Container!TypeOK' /\ Container!NodeInOnePlace'
<1>1. [List!Next]_(List!vars)
  BY DEF ContainerCall, container, List!vars, List!Next,
     List!Run, List!ReadPtr, List!ReadStamp, List!PushLink, List!PushCAS, List!PopReadNext,
     List!PopCAS, List!PushRetry, List!PopRetry, List!CompareExchange, List!PushSize,
     List!PopSize, List!Pop, List!Push, List!NewNode, List!Free, List!Holds, List!InStack,
     List!Step, Container!Run, Container!ReadPtr, Container!ReadStamp, Container!PushLink,
     Container!PushCAS, Container!PopReadNext, Container!PopCAS, Container!PushRetry,
     Container!PopRetry, Container!CompareExchange, Container!PushSize, Container!PopSize,
     Container!Pop, Container!Push, Container!NewNode, Container!Free, Container!Holds,
     Container!InStack, Container!Step
<1>2. List!IInv'
  BY <1>1, List!NextIInv, MemoryPoolAssumption
<1>3. Container!TypeOK' /\ Container!NodeInOnePlace'
  BY <1>2 DEF List!IInv, List!TypeOK, List!NodeInOnePlace, Container!TypeOK,
     Container!NodeInOnePlace, List!Holds, List!InStack, Container!Holds,
     Container!InStack, List!Stamped, Container!Stamped, List!PushPC, List!PopPC,
     Container!PushPC, Container!PopPC
<1> QED BY <1>2, <1>3

LEMMA ContainerMoves ==
    ASSUME List!IInv, NEW t \in Threads, Container!Run(t)
    PROVE  /\ pc[t] # "idle" /\ pc' = [pc EXCEPT ![t] = pc'[t]]
           /\ pc[t] \in Container!PushPC => pc'[t] \in Container!PushPC
           /\ pc[t] \in Container!PopPC => pc'[t] \in Container!PopPC \cup {"idle"}
           /\ \A b \in Blocks :
                /\ Container!InStack(b)' \/ Container!Holds(t, b)'
                       <=> Container!InStack(b) \/ Container!Holds(t, b)
                /\ \A u \in Threads \ {t} : Container!Holds(u, b)' <=> Container!Holds(u, b)
<1>1. List!Run(t)
  BY DEF List!Run, List!ReadPtr, List!ReadStamp, List!PushLink, List!PushCAS,
     List!PopReadNext, List!PopCAS, List!PushRetry, List!PopRetry, List!CompareExchange,
     List!Step, Container!Run, Container!ReadPtr, Container!ReadStamp, Container!PushLink,
     Container!PushCAS, Container!PopReadNext, Container!PopCAS, Container!PushRetry,
     Container!PopRetry, Container!CompareExchange, Container!Step
<1>2. /\ pc[t] # "idle" /\ pc' = [pc EXCEPT ![t] = pc'[t]]
      /\ pc[t] \in List!PushPC => pc'[t] \in List!PushPC
      /\ pc[t] \in List!PopPC => pc'[t] \in List!PopPC \cup {"idle"}
      /\ \A b \in Blocks :
           /\ List!InStack(b)' \/ List!Holds(t, b)' <=> List!InStack(b) \/ List!Holds(t, b)
           /\ \A u \in Threads \ {t} : List!Holds(u, b)' <=> List!Holds(u, b)
  BY <1>1, List!RunMoves, MemoryPoolAssumption
<1> QED BY <1>2 DEF List!PushPC, List!PopPC, Container!PushPC, Container!PopPC,
     List!Holds, List!InStack, Container!Holds, Container!InStack

-----------------------------------------------------------------------------
(***************************************************************************)
(* The inductive invariant.                                                *)
(***************************************************************************)

\* What a thread is doing in the pool and in the container.
ThreadInv ==
    \A t \in Threads :
        /\ at[t] \notin {"pop", "push"} => pc[t] = "idle"
        /\ at[t] = "pop" => pc[t] \in Container!PopPC \cup {"idle"}
        /\ at[t] = "push" => pc[t] \in Container!PushPC
        /\ at[t] \in {"attach", "push_check", "push_code"} => header[t] \in Blocks
        /\ at[t] \in {"pop", "attach"} =>
               request[t] \in Requests /\ request[t] <= MAX_ALLOC_SIZE

\* The code of a block says where it is.
CodeInv ==
    /\ \A b \in Blocks :
         /\ users[b] = 1 => code[b] = CURRENT_ALLOC
         /\ Container!InStack(b) => code[b] = CURRENT_RELEASE
         /\ \A t \in Threads : Container!Holds(t, b) => code[b] = CURRENT_RELEASE
    /\ \A t \in Threads :
         at[t] \in {"push_check", "push_code"} => code[header[t]] = CURRENT_ALLOC

\* A block in the pool has room for what the pool serves.
CapacityInv == \A b \in Blocks : Malloced(b) => capacity[b] >= alloc_size_

IInv ==
    /\ List!IInv
    /\ TypeOK
    /\ BlockInOnePlace
    /\ ThreadInv
    /\ CodeInv
    /\ CapacityInv
    /\ RoomInBlock
    /\ NoFalseAlarm

LEMMA InitIInv == Init => IInv
<1> SUFFICES ASSUME Init PROVE IInv
  OBVIOUS
<1>1. List!IInv
  BY ContainerInit DEF Init
<1>2. Container!TypeOK /\ Container!NodeInOnePlace
  BY <1>1, ContainerFacts
<1>3. \A b \in Blocks : ~Container!InStack(b) /\ \A t \in Threads : ~Container!Holds(t, b)
  BY DEF Init, Container!Init, Container!InStack, Container!Holds
<1>4. TypeOK
  BY <1>2, MemoryPoolAssumption, ShortNat DEF Init, TypeOK, ControlPoints
<1> QED BY <1>1, <1>2, <1>3, <1>4 DEF Init, Container!Init, IInv, BlockInOnePlace, Placed,
     Owns, Malloced, ThreadInv, CodeInv, CapacityInv, RoomInBlock, NoFalseAlarm

-----------------------------------------------------------------------------
(***************************************************************************)
(* The steps.                                                              *)
(***************************************************************************)

LEMMA RunContainerIInv ==
    ASSUME IInv, NEW t \in Threads, RunContainer(t)
    PROVE  IInv'
<1>0. /\ at[t] \in {"pop", "push"} /\ Container!Run(t) /\ List!IInv
      /\ UNCHANGED <<blocks, counts, at, header, request, held, calls>>
  BY DEF RunContainer, IInv
<1>1. List!IInv' /\ Container!TypeOK' /\ Container!NodeInOnePlace'
  BY <1>0, ContainerStep DEF ContainerCall
<1>2. /\ pc' = [pc EXCEPT ![t] = pc'[t]] /\ pc[t] # "idle"
      /\ pc[t] \in Container!PushPC => pc'[t] \in Container!PushPC
      /\ pc[t] \in Container!PopPC => pc'[t] \in Container!PopPC \cup {"idle"}
      /\ \A b \in Blocks :
           /\ Container!InStack(b)' \/ Container!Holds(t, b)'
                  <=> Container!InStack(b) \/ Container!Holds(t, b)
           /\ \A u \in Threads \ {t} : Container!Holds(u, b)' <=> Container!Holds(u, b)
  BY <1>0, ContainerMoves
<1>3. TypeOK'
  BY <1>0, <1>1 DEF IInv, TypeOK, blocks, counts, held
<1>4. ThreadInv'
  BY <1>0, <1>2 DEF IInv, ThreadInv, TypeOK, Container!TypeOK
<1>5. CodeInv'
  BY <1>0, <1>2 DEF IInv, CodeInv, blocks, held
<1>6. CapacityInv' /\ RoomInBlock' /\ NoFalseAlarm'
  BY <1>0 DEF IInv, CapacityInv, RoomInBlock, NoFalseAlarm, Malloced, blocks, held
<1>7. BlockInOnePlace'
  <2> SUFFICES ASSUME NEW b \in Blocks PROVE Placed(b)'
    BY <1>1 DEF BlockInOnePlace
  <2> DEFINE Keeps(u) == /\ at[u] \in {"attach", "push_check", "push_code"}
                         /\ header[u] = b
  <2>1. /\ \A u \in Threads : Owns(u, b) <=> Keeps(u) \/ Container!Holds(u, b)
        /\ \A u \in Threads : Owns(u, b)' <=> Keeps(u) \/ Container!Holds(u, b)'
        /\ ~Keeps(t)
        /\ Malloced(b)' = Malloced(b) /\ users' = users /\ header_size' = header_size
    BY <1>0 DEF Owns, Container!Holds, Malloced, blocks, held
  <2> HIDE DEF Keeps
  <2>2. /\ \A u \in Threads : Container!Holds(u, b)' =>
             /\ ~Container!InStack(b)'
             /\ \A v \in Threads : Container!Holds(v, b)' => v = u
    BY <1>1 DEF Container!NodeInOnePlace
  <2>3. Placed(b)
    BY DEF IInv, BlockInOnePlace
  <2> QED BY <1>2, <2>1, <2>2, <2>3 DEF Placed
<1> QED BY <1>1, <1>3, <1>4, <1>5, <1>6, <1>7 DEF IInv

\* The calls and steps in which no block moves: what is to be shown of them.
LEMMA Unmoved ==
    ASSUME IInv, List!IInv', Container!NodeInOnePlace',
           UNCHANGED <<stack, code, header_size, capacity, users, asked>>,
           \A u \in Threads, b \in Blocks :
               /\ Owns(u, b)' <=> Owns(u, b)
               /\ Container!Holds(u, b)' <=> Container!Holds(u, b),
           TypeOK', ThreadInv', NoFalseAlarm',
           \A u \in Threads : at'[u] \in {"push_check", "push_code"} =>
               code[header'[u]] = CURRENT_ALLOC
    PROVE  IInv'
<1>1. CodeInv'
  BY DEF IInv, CodeInv, Container!InStack
<1>2. CapacityInv' /\ RoomInBlock'
  BY DEF IInv, CapacityInv, RoomInBlock, Malloced
<1>3. \A b \in Blocks : Placed(b)'
  <2> TAKE b \in Blocks
  <2>1. Placed(b)
    BY DEF IInv, BlockInOnePlace
  <2>2. Container!InStack(b)' <=> Container!InStack(b)
    BY DEF Container!InStack
  <2>3. Malloced(b)' <=> Malloced(b)
    BY DEF Malloced
  <2> QED BY <2>1, <2>2, <2>3 DEF Placed
<1> QED BY <1>1, <1>2, <1>3 DEF IInv, BlockInOnePlace

LEMMA AllocateIInv ==
    ASSUME IInv, NEW t \in Threads, NEW r \in Requests, Allocate(t, r)
    PROVE  IInv'
<1>0. /\ calls < MaxCalls /\ r <= MAX_ALLOC_SIZE /\ List!IInv /\ Container!Pop(t)
      /\ at[t] = "idle" /\ at' = [at EXCEPT ![t] = "pop"]
      /\ request' = [request EXCEPT ![t] = r] /\ calls' = calls + 1
      /\ UNCHANGED <<blocks, counts, header, held>>
  BY DEF Allocate, Step, IInv
<1>1. List!IInv' /\ Container!TypeOK' /\ Container!NodeInOnePlace'
  BY <1>0, ContainerStep DEF ContainerCall
<1>2. /\ pc[t] = "idle" /\ pc' = [pc EXCEPT ![t] = "pop_ptr"] /\ stack' = stack
      /\ node' = [node EXCEPT ![t] = Null]
  BY <1>0 DEF Container!Pop, Container!Step
<1>3. TypeOK'
  BY <1>0, <1>1, MemoryPoolAssumption DEF IInv, TypeOK, blocks, counts, held, ControlPoints
<1>4. ThreadInv'
  BY <1>0, <1>2 DEF IInv, ThreadInv, TypeOK, Container!TypeOK, Container!PopPC
<1>5. \A u \in Threads, b \in Blocks :
          /\ Owns(u, b)' <=> Owns(u, b)
          /\ Container!Holds(u, b)' <=> Container!Holds(u, b)
  BY <1>0, <1>2 DEF Owns, Container!Holds, IInv, TypeOK, Container!TypeOK
<1>6. NoFalseAlarm'
  BY <1>0 DEF IInv, NoFalseAlarm, TypeOK
<1>7. \A u \in Threads : at'[u] \in {"push_check", "push_code"} =>
          code[header'[u]] = CURRENT_ALLOC
  BY <1>0 DEF IInv, CodeInv, TypeOK
<1> QED BY <1>0, <1>1, <1>2, <1>3, <1>4, <1>5, <1>6, <1>7, Unmoved DEF blocks, held

\* The pool has a free block: it has its code, and no other thread has it.
LEMMA PopCodeIInv ==
    ASSUME IInv, NEW t \in Threads, PopCode(t)
    PROVE  IInv'
<1> DEFINE n == node[t]
<1>0. /\ pc[t] = "pop_size" /\ at[t] = "pop" /\ List!IInv /\ Container!PopSize(t)
      /\ at' = [at EXCEPT ![t] = IF code[n] = CURRENT_RELEASE THEN "attach"
                                 ELSE "corrupted"]
      /\ header' = [header EXCEPT ![t] = n]
      /\ UNCHANGED <<blocks, request, held, calls, alloc_count_>>
  BY DEF PopCode, Step, IInv
<1>1. List!IInv' /\ Container!TypeOK' /\ Container!NodeInOnePlace'
  BY <1>0, ContainerStep DEF ContainerCall
<1>2. pc' = [pc EXCEPT ![t] = "idle"] /\ stack' = stack /\ node' = node
  BY <1>0 DEF Container!PopSize, Container!Step
<1>3. n \in Blocks /\ Container!Holds(t, n) /\ code[n] = CURRENT_RELEASE
  BY <1>0, ContainerFacts DEF Container!Holds, IInv, CodeInv
<1>4. release_count_' \in Int
  BY DEF PopCode, IInv, TypeOK
<1>5. TypeOK'
  BY <1>0, <1>1, <1>3, <1>4 DEF IInv, TypeOK, blocks, held, ControlPoints
<1>6. ThreadInv'
  BY <1>0, <1>2, <1>3 DEF IInv, ThreadInv, TypeOK, Container!TypeOK
<1>7. /\ \A u \in Threads, b \in Blocks : Owns(u, b)' <=> Owns(u, b)
      /\ \A u \in Threads, b \in Blocks :
             Container!Holds(u, b)' <=> Container!Holds(u, b) /\ u # t
  BY <1>0, <1>2, <1>3 DEF Owns, Container!Holds, IInv, TypeOK, Container!TypeOK
<1>8. NoFalseAlarm'
  BY <1>0, <1>3 DEF IInv, NoFalseAlarm, TypeOK
<1>9. CodeInv'
  BY <1>0, <1>2, <1>3, <1>7 DEF IInv, CodeInv, TypeOK, Container!InStack, blocks, held
<1>10. CapacityInv' /\ RoomInBlock'
  BY <1>0 DEF IInv, CapacityInv, RoomInBlock, Malloced, blocks, held
<1>11. \A b \in Blocks : Placed(b)'
  <2> TAKE b \in Blocks
  <2>1. Placed(b)
    BY DEF IInv, BlockInOnePlace
  <2>2. Container!InStack(b)' <=> Container!InStack(b)
    BY <1>2 DEF Container!InStack
  <2>3. (Malloced(b)' <=> Malloced(b)) /\ users' = users /\ header_size' = header_size
    BY <1>0 DEF Malloced, blocks, held
  <2> QED BY <1>7, <2>1, <2>2, <2>3 DEF Placed
<1> QED BY <1>1, <1>5, <1>6, <1>8, <1>9, <1>10, <1>11 DEF IInv, BlockInOnePlace

\* malloc gives a block that nobody has.
LEMMA MallocIInv ==
    ASSUME IInv, NEW t \in Threads, Malloc(t)
    PROVE  IInv'
<1>0. /\ pc[t] = "idle" /\ at[t] = "pop" /\ List!IInv
      /\ UNCHANGED <<container, code, header_size, counts, request, held, calls>>
  BY DEF Malloc, Step, IInv
<1>1. List!IInv' /\ Container!TypeOK' /\ Container!NodeInOnePlace'
  BY <1>0, ContainerStep DEF ContainerCall
<1>2. /\ stack' = stack /\ pc' = pc /\ node' = node
      /\ \A u \in Threads, b \in Blocks : Container!Holds(u, b)' <=> Container!Holds(u, b)
  BY <1>0 DEF container, Container!Holds
<1>3. CASE at' = [at EXCEPT ![t] = "idle"] /\ UNCHANGED <<capacity, header>>
  <2>1. TypeOK'
    BY <1>0, <1>1, <1>3 DEF IInv, TypeOK, counts, held, ControlPoints
  <2>2. ThreadInv'
    BY <1>0, <1>2, <1>3 DEF IInv, ThreadInv, TypeOK
  <2>3. \A u \in Threads, b \in Blocks : Owns(u, b)' <=> Owns(u, b)
    BY <1>0, <1>2, <1>3 DEF Owns, IInv, TypeOK
  <2>4. NoFalseAlarm'
    BY <1>0, <1>3 DEF IInv, NoFalseAlarm, TypeOK
  <2>5. \A u \in Threads : at'[u] \in {"push_check", "push_code"} =>
            code[header'[u]] = CURRENT_ALLOC
    BY <1>0, <1>3 DEF IInv, CodeInv, TypeOK
  <2> QED BY <1>0, <1>1, <1>2, <1>3, <2>1, <2>2, <2>3, <2>4, <2>5, Unmoved DEF held
<1>4. ASSUME NEW n \in Blocks, ~Malloced(n), at' = [at EXCEPT ![t] = "attach"],
             capacity' = [capacity EXCEPT ![n] = alloc_size_],
             header' = [header EXCEPT ![t] = n]
      PROVE  IInv'
  <2>0. alloc_size_ \in Nat \ {0}
    BY ServingRequests
  <2>1. TypeOK'
    BY <1>0, <1>1, <1>4, <2>0 DEF IInv, TypeOK, counts, held, ControlPoints
  <2>2. ThreadInv'
    BY <1>0, <1>2, <1>4 DEF IInv, ThreadInv, TypeOK
  <2>3. \A b \in Blocks : Malloced(b)' <=> Malloced(b) \/ b = n
    BY <1>4, <2>0 DEF Malloced, IInv, TypeOK
  <2>4. \A u \in Threads, b \in Blocks :
            Owns(u, b)' <=> Owns(u, b) \/ (u = t /\ b = n)
    BY <1>0, <1>2, <1>4 DEF Owns, IInv, TypeOK, Container!Holds
  <2>5. NoFalseAlarm'
    BY <1>0, <1>4 DEF IInv, NoFalseAlarm, TypeOK
  <2>6. CodeInv'
    BY <1>0, <1>2, <1>4 DEF IInv, CodeInv, TypeOK, Container!InStack, held
  <2>7. CapacityInv'
    BY <1>4, <2>0 DEF IInv, CapacityInv, Malloced, TypeOK
  <2>8. \A b \in Blocks : Placed(b) /\ (Container!InStack(b)' <=> Container!InStack(b))
    BY <1>2 DEF IInv, BlockInOnePlace, Container!InStack
  <2>9. RoomInBlock'
    <3>1. users[n] # 1
      BY <1>4, <2>8 DEF Placed
    <3> QED BY <1>0, <1>4, <3>1 DEF IInv, RoomInBlock, TypeOK, held
  <2>10. \A b \in Blocks : Placed(b)'
    <3> TAKE b \in Blocks
    <3>1. CASE b = n
      <4>1. users[n] = 0 /\ ~Container!InStack(n) /\ \A u \in Threads : ~Owns(u, n)
        BY <1>4, <2>8 DEF Placed, IInv, TypeOK
      <4> QED BY <1>0, <2>3, <2>4, <2>8, <3>1, <4>1 DEF Placed, held
    <3>2. CASE b # n
      BY <1>0, <2>3, <2>4, <2>8, <3>2 DEF Placed, held
    <3> QED BY <3>1, <3>2
  <2> QED BY <1>1, <2>1, <2>2, <2>5, <2>6, <2>7, <2>9, <2>10 DEF IInv, BlockInOnePlace
<1> QED BY <1>3, <1>4 DEF Malloc, Step

\* The application gets the block n with r bytes of room; what differs is only
\* where the block comes from.
LEMMA Handed ==
    ASSUME IInv, NEW t \in Threads, NEW n \in Blocks, NEW r \in Requests,
           AttachHeader(t, n, r), at[t] \in {"attach", "idle"},
           at[t] = "attach" => header[t] = n /\ UNCHANGED capacity,
           at[t] = "idle" => ~Malloced(n),
           capacity' \in [Blocks -> Nat],
           \A b \in Blocks \ {n} : capacity'[b] = capacity[b],
           capacity'[n] >= alloc_size_, capacity'[n] >= r,
           alloc_count_' \in Int, calls' \in 0 .. MaxCalls,
           UNCHANGED <<release_count_, header, request>>
    PROVE  IInv'
<1>0. /\ Container!NewNode(n) /\ List!IInv
      /\ code' = [code EXCEPT ![n] = CURRENT_ALLOC]
      /\ header_size' = [header_size EXCEPT ![n] = HeaderSize(r)]
      /\ users' = [users EXCEPT ![n] = @ + 1] /\ asked' = [asked EXCEPT ![n] = r]
      /\ at' = [at EXCEPT ![t] = "idle"]
  BY DEF AttachHeader, IInv
<1>1. List!IInv' /\ Container!TypeOK' /\ Container!NodeInOnePlace'
  BY <1>0, ContainerStep DEF ContainerCall
<1>2. /\ stack' = stack /\ pc' = pc /\ node' = node
      /\ ~Container!InStack(n) /\ \A u \in Threads : ~Container!Holds(u, n)
      /\ \A u \in Threads, b \in Blocks : Container!Holds(u, b)' <=> Container!Holds(u, b)
  BY <1>0 DEF Container!NewNode, Container!Holds, Container!Free
<1>3. \A b \in Blocks : Placed(b) /\ (Container!InStack(b)' <=> Container!InStack(b))
  BY <1>2 DEF IInv, BlockInOnePlace, Container!InStack
<1>4. users[n] = 0 /\ \A u \in Threads \ {t} : ~Owns(u, n)
  <2>1. CASE at[t] = "attach"
    <3>1. Owns(t, n)
      BY <2>1 DEF Owns
    <3> QED BY <1>3, <3>1 DEF Placed
  <2>2. CASE at[t] = "idle"
    BY <1>3, <2>2 DEF Placed, IInv, TypeOK
  <2> QED BY <2>1, <2>2
<1>5. HeaderSize(r) \in -SHORT .. SHORT - 1 /\ r \in Nat \ {0}
  BY HeaderSizeType, MemoryPoolAssumption
<1>6. TypeOK'
  BY <1>0, <1>1, <1>5 DEF IInv, TypeOK, ControlPoints
<1>7. ThreadInv'
  BY <1>0, <1>2 DEF IInv, ThreadInv, TypeOK
<1>8. \A u \in Threads, b \in Blocks : Owns(u, b)' <=> Owns(u, b) /\ b # n
  <2> TAKE u \in Threads, b \in Blocks
  <2>1. CASE u # t
    BY <1>0, <1>2, <1>4, <2>1 DEF Owns, IInv, TypeOK
  <2>2. CASE u = t
    BY <1>0, <1>2, <2>2 DEF Owns, IInv, TypeOK
  <2> QED BY <2>1, <2>2
<1>9. NoFalseAlarm'
  BY <1>0 DEF IInv, NoFalseAlarm, TypeOK
<1>10. CodeInv'
  <2>1. ASSUME NEW u \in Threads, at'[u] \in {"push_check", "push_code"}
        PROVE  code'[header'[u]] = CURRENT_ALLOC
    BY <1>0, <2>1 DEF IInv, CodeInv, ThreadInv, TypeOK
  <2>2. \A b \in Blocks : users'[b] = 1 => code'[b] = CURRENT_ALLOC
    BY <1>0 DEF IInv, CodeInv, TypeOK
  <2>3. \A b \in Blocks :
          /\ Container!InStack(b)' => code'[b] = CURRENT_RELEASE
          /\ \A u \in Threads : Container!Holds(u, b)' => code'[b] = CURRENT_RELEASE
    BY <1>0, <1>2, <1>3 DEF IInv, CodeInv, TypeOK
  <2> QED BY <2>1, <2>2, <2>3 DEF CodeInv
<1>11. CapacityInv'
  BY DEF IInv, CapacityInv, Malloced
<1>12. RoomInBlock'
  BY <1>0 DEF IInv, RoomInBlock, TypeOK
<1>13. \A b \in Blocks : Placed(b)'
  <2> TAKE b \in Blocks
  <2>1. CASE b = n
    <3>1. users'[n] = 1 /\ Malloced(n)'
      BY <1>0, <1>4, <1>5 DEF IInv, TypeOK, Malloced
    <3> QED BY <1>2, <1>3, <1>8, <2>1, <3>1 DEF Placed
  <2>2. CASE b # n
    <3>1. users'[b] = users[b] /\ header_size'[b] = header_size[b]
          /\ (Malloced(b)' <=> Malloced(b))
      BY <1>0, <2>2 DEF IInv, TypeOK, Malloced
    <3> QED BY <1>3, <1>8, <2>2, <3>1 DEF Placed
  <2> QED BY <2>1, <2>2
<1> QED BY <1>1, <1>6, <1>7, <1>9, <1>10, <1>11, <1>12, <1>13 DEF IInv, BlockInOnePlace

LEMMA PopAttachIInv ==
    ASSUME IInv, NEW t \in Threads, PopAttach(t)
    PROVE  IInv'
<1>1. /\ at[t] = "attach" /\ AttachHeader(t, header[t], request[t])
      /\ alloc_count_' = alloc_count_ + 1
      /\ UNCHANGED <<capacity, release_count_, header, request, calls>>
  BY DEF PopAttach
<1>2. /\ header[t] \in Blocks /\ request[t] \in Requests
      /\ request[t] <= MAX_ALLOC_SIZE
  BY <1>1 DEF IInv, ThreadInv
<1>3. Malloced(header[t]) /\ capacity[header[t]] >= alloc_size_
  <2>1. Owns(t, header[t])
    BY <1>1 DEF Owns
  <2> QED BY <1>2, <2>1 DEF IInv, BlockInOnePlace, Placed, CapacityInv
<1>4. request[t] <= alloc_size_ /\ alloc_size_ \in Nat /\ request[t] \in Nat
  BY <1>2, ServingRequests
<1>5. /\ capacity[header[t]] \in Nat /\ capacity \in [Blocks -> Nat]
      /\ alloc_count_ \in Int /\ calls \in 0 .. MaxCalls
  BY <1>2 DEF IInv, TypeOK
<1>6. capacity[header[t]] >= request[t]
  BY <1>3, <1>4, <1>5
<1> QED BY <1>1, <1>2, <1>3, <1>4, <1>5, <1>6, Handed

LEMMA AllocateLargeIInv ==
    ASSUME IInv, NEW t \in Threads, NEW r \in Requests, AllocateLarge(t, r)
    PROVE  IInv'
<1>1. PICK n \in Blocks : /\ ~Malloced(n) /\ capacity' = [capacity EXCEPT ![n] = r]
                          /\ AttachHeader(t, n, r)
  BY DEF AllocateLarge
<1>2. /\ calls < MaxCalls /\ r > MAX_ALLOC_SIZE /\ at[t] = "idle" /\ calls' = calls + 1
      /\ UNCHANGED <<counts, header, request>>
  BY DEF AllocateLarge
<1>3. /\ r \in Nat /\ capacity \in [Blocks -> Nat] /\ calls \in 0 .. MaxCalls
      /\ MaxCalls \in Nat /\ alloc_count_ \in Int
  BY MemoryPoolAssumption DEF IInv, TypeOK
<1>4. alloc_size_ \in Nat \ {0} /\ alloc_size_ <= MAX_ALLOC_SIZE
  BY ServingRequests
<1>5. capacity'[n] = r /\ r >= alloc_size_
  BY <1>1, <1>2, <1>3, <1>4 DEF MAX_ALLOC_SIZE
<1>6. capacity' \in [Blocks -> Nat] /\ \A b \in Blocks \ {n} : capacity'[b] = capacity[b]
  BY <1>1, <1>3
<1>7. calls' \in 0 .. MaxCalls
  BY <1>2, <1>3
<1> QED BY <1>1, <1>2, <1>3, <1>5, <1>6, <1>7, Handed DEF counts

LEMMA ReleaseIInv ==
    ASSUME IInv, NEW t \in Threads, NEW n \in Blocks, Release(t, n)
    PROVE  IInv'
<1>0. /\ at[t] = "idle" /\ at' = [at EXCEPT ![t] = "push_check"] /\ List!IInv
      /\ header' = [header EXCEPT ![t] = n] /\ users[n] > 0
      /\ users' = [users EXCEPT ![n] = @ - 1] /\ asked' = [asked EXCEPT ![n] = 0]
      /\ calls < MaxCalls /\ calls' = calls + 1
      /\ UNCHANGED <<container, blocks, counts, request>>
  BY DEF Release, GivesBack, Step, IInv
<1>1. List!IInv' /\ Container!TypeOK' /\ Container!NodeInOnePlace'
  BY <1>0, ContainerStep DEF ContainerCall
<1>2. /\ stack' = stack /\ pc' = pc /\ node' = node
      /\ \A u \in Threads, b \in Blocks : Container!Holds(u, b)' <=> Container!Holds(u, b)
  BY <1>0 DEF container, Container!Holds
<1>3. \A b \in Blocks : /\ Placed(b) /\ (Container!InStack(b)' <=> Container!InStack(b))
                        /\ (Malloced(b)' <=> Malloced(b))
  BY <1>0, <1>2 DEF IInv, BlockInOnePlace, Container!InStack, Malloced, blocks
<1>4. users[n] = 1 /\ users'[n] = 0 /\ Malloced(n) /\ ~Container!InStack(n)
      /\ code[n] = CURRENT_ALLOC /\ \A u \in Threads : ~Owns(u, n)
  <2>1. users[n] = 1
    BY <1>0, <1>3 DEF Placed, IInv, TypeOK
  <2> QED BY <1>0, <1>3, <2>1 DEF Placed, IInv, TypeOK, CodeInv
<1>5. TypeOK'
  BY <1>0, <1>1, <1>4, MemoryPoolAssumption DEF IInv, TypeOK, blocks, counts, ControlPoints
<1>6. ThreadInv'
  BY <1>0, <1>2 DEF IInv, ThreadInv, TypeOK
<1>7. NoFalseAlarm'
  BY <1>0 DEF IInv, NoFalseAlarm, TypeOK
<1>8. CodeInv'
  BY <1>0, <1>2, <1>3, <1>4 DEF IInv, CodeInv, TypeOK, blocks
<1>9. CapacityInv' /\ RoomInBlock'
  BY <1>0, <1>3, <1>4 DEF IInv, CapacityInv, RoomInBlock, TypeOK, blocks
<1>10. \A u \in Threads, b \in Blocks : Owns(u, b)' <=> Owns(u, b) \/ (u = t /\ b = n)
  BY <1>0, <1>2 DEF Owns, IInv, TypeOK, ThreadInv, Container!Holds
<1>11. \A b \in Blocks : Placed(b)'
  <2> TAKE b \in Blocks
  <2>1. CASE b = n
    BY <1>3, <1>4, <1>10, <2>1 DEF Placed
  <2>2. CASE b # n
    <3>1. users'[b] = users[b] /\ header_size' = header_size
      BY <1>0, <2>2 DEF IInv, TypeOK, blocks
    <3> QED BY <1>3, <1>10, <2>2, <3>1 DEF Placed
  <2> QED BY <2>1, <2>2
<1> QED BY <1>1, <1>5, <1>6, <1>7, <1>8, <1>9, <1>11 DEF IInv, BlockInOnePlace

\* A large block is gone, or lost if its header says no size.
LEMMA ReleaseLargeIInv ==
    ASSUME IInv, NEW t \in Threads, NEW n \in Blocks, ReleaseLarge(t, n)
    PROVE  IInv'
<1>0. /\ at[t] = "idle" /\ ~Pooled(header_size[n]) /\ List!IInv /\ users[n] > 0
      /\ users' = [users EXCEPT ![n] = @ - 1] /\ asked' = [asked EXCEPT ![n] = 0]
      /\ calls < MaxCalls /\ calls' = calls + 1
      /\ capacity' = IF header_size[n] > MAX_ALLOC_SIZE
                     THEN [capacity EXCEPT ![n] = 0] ELSE capacity
      /\ UNCHANGED <<container, code, header_size, counts, at, header, request>>
  BY DEF ReleaseLarge, GivesBack, IInv
<1>1. List!IInv' /\ Container!TypeOK' /\ Container!NodeInOnePlace'
  BY <1>0, ContainerStep DEF ContainerCall
<1>2. /\ stack' = stack /\ pc' = pc /\ node' = node
      /\ \A u \in Threads, b \in Blocks : Container!Holds(u, b)' <=> Container!Holds(u, b)
  BY <1>0 DEF container, Container!Holds
<1>3. \A b \in Blocks : /\ Placed(b) /\ (Container!InStack(b)' <=> Container!InStack(b))
                        /\ \A u \in Threads : Owns(u, b)' <=> Owns(u, b)
  BY <1>0, <1>2 DEF IInv, BlockInOnePlace, Container!InStack, Owns
<1>4. users[n] = 1 /\ users'[n] = 0 /\ ~Container!InStack(n)
      /\ \A u \in Threads : ~Owns(u, n)
  <2>1. users[n] = 1
    BY <1>0, <1>3 DEF Placed, IInv, TypeOK
  <2> QED BY <1>0, <1>3, <2>1 DEF Placed, IInv, TypeOK
<1>5. TypeOK'
  BY <1>0, <1>1, <1>4, MemoryPoolAssumption DEF IInv, TypeOK, counts
<1>6. ThreadInv' /\ NoFalseAlarm'
  BY <1>0, <1>2 DEF IInv, ThreadInv, NoFalseAlarm
<1>7. \A b \in Blocks \ {n} : users'[b] = users[b] /\ asked'[b] = asked[b]
                               /\ capacity'[b] = capacity[b]
  BY <1>0 DEF IInv, TypeOK
<1>8. CodeInv'
  BY <1>0, <1>2, <1>3, <1>4, <1>7 DEF IInv, CodeInv
<1>9. CapacityInv' /\ RoomInBlock'
  BY <1>0, <1>4, <1>7 DEF IInv, CapacityInv, RoomInBlock, Malloced, TypeOK
<1>10. \A b \in Blocks : Placed(b)'
  <2> TAKE b \in Blocks
  <2>1. CASE b = n
    <3>1. Malloced(n)' => header_size[n] <= 0
      <4>1. header_size[n] \in Int
        BY ShortNat DEF IInv, TypeOK
      <4>2. CASE header_size[n] > MAX_ALLOC_SIZE
        BY <1>0, <4>2 DEF Malloced, IInv, TypeOK
      <4>3. ~(header_size[n] \in 1 .. MAX_ALLOC_SIZE)
        BY <1>0 DEF Pooled
      <4>4. CASE ~(header_size[n] > MAX_ALLOC_SIZE)
        <5>1. MAX_ALLOC_SIZE \in Nat
          BY DEF MAX_ALLOC_SIZE
        <5> QED BY <4>1, <4>3, <4>4, <5>1
      <4> QED BY <4>2, <4>4
    <3> QED BY <1>0, <1>3, <1>4, <2>1, <3>1 DEF Placed
  <2>2. CASE b # n
    BY <1>0, <1>3, <1>7, <2>2 DEF Placed, Malloced
  <2> QED BY <2>1, <2>2
<1> QED BY <1>1, <1>5, <1>6, <1>8, <1>9, <1>10 DEF IInv, BlockInOnePlace

LEMMA PushCheckIInv ==
    ASSUME IInv, NEW t \in Threads, PushCheck(t)
    PROVE  IInv'
<1>0. /\ at[t] = "push_check" /\ List!IInv /\ code[header[t]] = CURRENT_ALLOC
      /\ UNCHANGED <<container, blocks, counts, header, request, held, calls>>
  BY DEF PushCheck, IInv, CodeInv
<1>1. at' = [at EXCEPT ![t] = "push_code"]
  BY <1>0 DEF PushCheck, Step
<1>2. List!IInv' /\ Container!TypeOK' /\ Container!NodeInOnePlace'
  BY <1>0, ContainerStep DEF ContainerCall
<1>3. /\ stack' = stack /\ pc' = pc
      /\ \A u \in Threads, b \in Blocks : Container!Holds(u, b)' <=> Container!Holds(u, b)
  BY <1>0 DEF container, Container!Holds
<1>4. TypeOK'
  BY <1>0, <1>1, <1>2 DEF IInv, TypeOK, blocks, counts, held, ControlPoints
<1>5. ThreadInv' /\ NoFalseAlarm'
  BY <1>0, <1>1, <1>3 DEF IInv, ThreadInv, NoFalseAlarm, TypeOK
<1>6. \A u \in Threads, b \in Blocks : Owns(u, b)' <=> Owns(u, b)
  BY <1>0, <1>1, <1>3 DEF Owns, IInv, TypeOK
<1>7. \A u \in Threads : at'[u] \in {"push_check", "push_code"} =>
          code[header'[u]] = CURRENT_ALLOC
  BY <1>0, <1>1 DEF IInv, CodeInv, TypeOK
<1> QED BY <1>0, <1>2, <1>3, <1>4, <1>5, <1>6, <1>7, Unmoved DEF blocks, held

LEMMA PushCodeIInv ==
    ASSUME IInv, NEW t \in Threads, PushCode(t)
    PROVE  IInv'
<1> DEFINE n == header[t]
<1>0. /\ at[t] = "push_code" /\ List!IInv /\ code[n] = CURRENT_ALLOC
      /\ UNCHANGED <<header_size, capacity, counts, header, request, held, calls>>
      /\ n \in Blocks /\ Owns(t, n) /\ pc[t] = "idle"
  BY DEF PushCode, Step, IInv, CodeInv, ThreadInv, Owns
<1>1. /\ at' = [at EXCEPT ![t] = "push"] /\ code' = [code EXCEPT ![n] = CURRENT_RELEASE]
      /\ Container!Push(t, n)
  BY <1>0 DEF PushCode, Step
<1>2. List!IInv' /\ Container!TypeOK' /\ Container!NodeInOnePlace'
  BY <1>0, <1>1, ContainerStep DEF ContainerCall
<1>3. /\ stack' = stack /\ pc' = [pc EXCEPT ![t] = "push_ptr"]
      /\ node' = [node EXCEPT ![t] = n]
  BY <1>1 DEF Container!Push, Container!Step
<1>4. \A u \in Threads, b \in Blocks :
          /\ Container!Holds(u, b)' <=> Container!Holds(u, b) \/ (u = t /\ b = n)
          /\ Owns(u, b)' <=> Owns(u, b)
  BY <1>0, <1>1, <1>3 DEF Owns, Container!Holds, IInv, TypeOK, Container!TypeOK
<1>5. \A b \in Blocks : /\ Placed(b) /\ (Container!InStack(b)' <=> Container!InStack(b))
                        /\ (Malloced(b)' <=> Malloced(b))
  BY <1>0, <1>3 DEF IInv, BlockInOnePlace, Container!InStack, Malloced
<1>6. users[n] = 0 /\ ~Container!InStack(n) /\ \A u \in Threads \ {t} : ~Owns(u, n)
  BY <1>0, <1>5 DEF Placed
<1>7. TypeOK'
  BY <1>0, <1>1, <1>2 DEF IInv, TypeOK, counts, held, ControlPoints
<1>8. ThreadInv' /\ NoFalseAlarm'
  BY <1>0, <1>1, <1>3 DEF IInv, ThreadInv, NoFalseAlarm, TypeOK, Container!TypeOK,
     Container!PushPC
<1>9. CapacityInv' /\ RoomInBlock'
  BY <1>0, <1>5 DEF IInv, CapacityInv, RoomInBlock, held
<1>10. \A b \in Blocks : Placed(b)'
  BY <1>0, <1>4, <1>5 DEF Placed, held
<1>11. CodeInv'
  <2>1. ASSUME NEW u \in Threads, at'[u] \in {"push_check", "push_code"}
        PROVE  code'[header'[u]] = CURRENT_ALLOC
    <3>1. u # t /\ at[u] = at'[u]
      BY <1>0, <1>1, <2>1 DEF IInv, TypeOK
    <3>2. header[u] \in Blocks /\ Owns(u, header[u]) /\ code[header[u]] = CURRENT_ALLOC
      BY <2>1, <3>1 DEF IInv, ThreadInv, CodeInv, Owns
    <3>3. header[u] # n
      BY <1>6, <3>1, <3>2
    <3> QED BY <1>0, <1>1, <3>2, <3>3 DEF IInv, TypeOK
  <2>2. \A b \in Blocks : users'[b] = 1 => code'[b] = CURRENT_ALLOC
    BY <1>0, <1>1, <1>6 DEF IInv, CodeInv, TypeOK, held
  <2>3. \A b \in Blocks :
          /\ Container!InStack(b)' => code'[b] = CURRENT_RELEASE
          /\ \A u \in Threads : Container!Holds(u, b)' => code'[b] = CURRENT_RELEASE
    BY <1>0, <1>1, <1>4, <1>5 DEF IInv, CodeInv, TypeOK
  <2> QED BY <2>1, <2>2, <2>3 DEF CodeInv
<1> QED BY <1>2, <1>7, <1>8, <1>9, <1>10, <1>11 DEF IInv, BlockInOnePlace

LEMMA PushCountIInv ==
    ASSUME IInv, NEW t \in Threads, PushCount(t)
    PROVE  IInv'
<1>0. /\ at[t] = "push" /\ at' = [at EXCEPT ![t] = "idle"] /\ List!IInv
      /\ Container!PushSize(t) /\ UNCHANGED <<blocks, header, request, held, calls>>
      /\ release_count_' = release_count_ + 1 /\ alloc_count_' = alloc_count_ - 1
  BY DEF PushCount, Step, IInv
<1>1. List!IInv' /\ Container!TypeOK' /\ Container!NodeInOnePlace'
  BY <1>0, ContainerStep DEF ContainerCall
<1>2. /\ pc[t] = "push_size" /\ pc' = [pc EXCEPT ![t] = "idle"] /\ stack' = stack
      /\ node' = node
  BY <1>0 DEF Container!PushSize, Container!Step
<1>3. TypeOK'
  BY <1>0, <1>1 DEF IInv, TypeOK, blocks, held, ControlPoints
<1>4. ThreadInv' /\ NoFalseAlarm'
  BY <1>0, <1>2 DEF IInv, ThreadInv, NoFalseAlarm, TypeOK, Container!TypeOK
<1>5. \A u \in Threads, b \in Blocks :
          /\ Owns(u, b)' <=> Owns(u, b)
          /\ Container!Holds(u, b)' <=> Container!Holds(u, b)
  BY <1>0, <1>2 DEF Owns, Container!Holds, IInv, TypeOK, Container!TypeOK
<1>6. \A u \in Threads : at'[u] \in {"push_check", "push_code"} =>
          code[header'[u]] = CURRENT_ALLOC
  BY <1>0 DEF IInv, CodeInv, TypeOK
<1> QED BY <1>0, <1>1, <1>2, <1>3, <1>4, <1>5, <1>6, Unmoved DEF blocks, held

LEMMA NextIInv == IInv /\ [Next]_vars => IInv'
<1> SUFFICES ASSUME IInv, [Next]_vars PROVE IInv'
  OBVIOUS
<1>1. CASE UNCHANGED vars
  <2>1. List!IInv'
    BY <1>1, List!NextIInv, MemoryPoolAssumption DEF vars, container, List!vars, IInv
  <2> QED BY <1>1, <2>1 DEF vars, container, blocks, counts, held, IInv, TypeOK,
         BlockInOnePlace, Placed, Owns, Malloced, ThreadInv, CodeInv, CapacityInv,
         RoomInBlock, NoFalseAlarm, Container!TypeOK, Container!NodeInOnePlace,
         Container!InStack, Container!Holds
<1>2. ASSUME NEW t \in Threads, Run(t)
      PROVE  IInv'
  BY <1>2, RunContainerIInv, PopCodeIInv, MallocIInv, PopAttachIInv, PushCheckIInv,
     PushCodeIInv, PushCountIInv DEF Run
<1>3. ASSUME NEW t \in Threads, NEW r \in Requests, Allocate(t, r) \/ AllocateLarge(t, r)
      PROVE  IInv'
  BY <1>3, AllocateIInv, AllocateLargeIInv
<1>4. ASSUME NEW t \in Threads, NEW b \in Blocks, Release(t, b) \/ ReleaseLarge(t, b)
      PROVE  IInv'
  BY <1>4, ReleaseIInv, ReleaseLargeIInv
<1> QED BY <1>1, <1>2, <1>3, <1>4 DEF Next

-----------------------------------------------------------------------------

THEOREM Invariance == Spec => []IInv
BY InitIInv, NextIInv, PTL DEF Spec

\* The types of MemoryPool, whatever threads, blocks and requests there are.
THEOREM TypeCorrect == Spec => []TypeOK
BY Invariance, PTL DEF IInv

\* The free list of the pool is never broken by a block that comes back while
\* another thread is between its reads and its compare-and-swap.
THEOREM ListIsStack == Spec => []StackLinked
<1>1. IInv => StackLinked
  BY ContainerFacts DEF IInv, StackLinked
<1> QED BY <1>1, Invariance, PTL

\* No block is in two places, and none is lost that its header has a size for.
THEOREM BlocksInOnePlace == Spec => []BlockInOnePlace
BY Invariance, PTL DEF IInv

\* Whoever asks for a number of bytes gets a block that has them.
THEOREM BlocksHaveRoom == Spec => []RoomInBlock
BY Invariance, PTL DEF IInv

\* The checks of MemoryPool::Pop and Push stay silent.
THEOREM ChecksSilent == Spec => []NoFalseAlarm
BY Invariance, PTL DEF IInv

-----------------------------------------------------------------------------
(***************************************************************************)
(* The counters.  CountersMatch speaks of a pool at rest; while calls are  *)
(* in progress each counter is out by the number of calls that have moved  *)
(* a block and not counted it, or counted and not moved it.  A set of such *)
(* calls or blocks is finite, because a step adds at most one to it.       *)
(***************************************************************************)

Busy == {t \in Threads : at[t] # "idle"}
Pushing == {t \in Threads : pc[t] = "push_size"}
Popping == {t \in Threads : pc[t] = "pop_size"}
Releasing == {t \in Threads : at[t] \in {"push_check", "push_code", "push"}}

Known == {b \in Blocks : Malloced(b)}
Given == {b \in Blocks : users[b] = 1 /\ ~Large(b)}

\* The pool or one of its calls has the block.
Kept(b) == Container!InStack(b) \/ \E t \in Threads : Owns(t, b)
KeptLarge == {b \in Blocks : Kept(b) /\ Large(b)}

SizeInv ==
    /\ IsFiniteSet(Busy)
    /\ size = Len(stack) - Cardinality(Pushing) + Cardinality(Popping)
    /\ release_count_ = size

AllocInv ==
    /\ IsFiniteSet(Known)
    /\ alloc_count_ = Cardinality(Given) + Cardinality(Releasing) - Cardinality(KeptLarge)

\* The header of a block in use has the size its holder has asked for.
HeaderInv ==
    \A b \in Blocks : users[b] = 1 =>
        asked[b] \in Requests /\ header_size[b] = HeaderSize(asked[b])

CountInv == IInv /\ HeaderInv /\ SizeInv /\ AllocInv

LEMMA OneMore ==
    ASSUME NEW S, IsFiniteSet(S), NEW x, x \notin S
    PROVE  Cardinality(S \cup {x}) = Cardinality(S) + 1
BY FS_AddElement

LEMMA OneLess ==
    ASSUME NEW S, IsFiniteSet(S), NEW x \in S
    PROVE  Cardinality(S \ {x}) = Cardinality(S) - 1
BY FS_RemoveElement

LEMMA PartsFinite ==
    ASSUME CountInv
    PROVE  /\ IsFiniteSet(Pushing) /\ Cardinality(Pushing) \in Nat
           /\ IsFiniteSet(Popping) /\ Cardinality(Popping) \in Nat
           /\ IsFiniteSet(Releasing) /\ Cardinality(Releasing) \in Nat
           /\ IsFiniteSet(Given) /\ Cardinality(Given) \in Nat
           /\ IsFiniteSet(KeptLarge) /\ Cardinality(KeptLarge) \in Nat
<1>1. IsFiniteSet(Busy) /\ IsFiniteSet(Known)
  BY DEF CountInv, SizeInv, AllocInv
<1>2. Pushing \in SUBSET Busy /\ Popping \in SUBSET Busy /\ Releasing \in SUBSET Busy
  BY DEF CountInv, IInv, ThreadInv, Pushing, Popping, Releasing, Busy
<1>3. Given \in SUBSET Known
  BY DEF CountInv, IInv, BlockInOnePlace, Placed, Given, Known
<1>4. KeptLarge \in SUBSET Known
  BY DEF CountInv, IInv, BlockInOnePlace, Placed, KeptLarge, Kept, Known
<1>5. /\ IsFiniteSet(Pushing) /\ IsFiniteSet(Popping) /\ IsFiniteSet(Releasing)
      /\ IsFiniteSet(Given) /\ IsFiniteSet(KeptLarge)
  BY <1>1, <1>2, <1>3, <1>4, FS_Subset
<1> QED BY <1>5, FS_CardinalityType

LEMMA BusyFinite ==
    ASSUME IInv, IsFiniteSet(Busy), NEW t \in Threads, NEW to, at' = [at EXCEPT ![t] = to]
    PROVE  IsFiniteSet(Busy')
<1>1. Busy' \in SUBSET (Busy \cup {t})
  BY DEF Busy, IInv, TypeOK
<1>2. IsFiniteSet(Busy \cup {t})
  BY FS_AddElement
<1> QED BY <1>1, <1>2, FS_Subset

LEMMA KnownFinite ==
    ASSUME IsFiniteSet(Known), NEW n \in Blocks,
           \A b \in Blocks \ {n} : capacity'[b] = capacity[b]
    PROVE  IsFiniteSet(Known')
<1>1. Known' \in SUBSET (Known \cup {n})
  BY DEF Known, Malloced
<1>2. IsFiniteSet(Known \cup {n})
  BY FS_AddElement
<1> QED BY <1>1, <1>2, FS_Subset

\* The steps that change no set of blocks.
LEMMA SameBlocks ==
    ASSUME UNCHANGED <<capacity, users>>, \A b \in Blocks : Kept(b)' <=> Kept(b)
    PROVE  Known' = Known /\ Given' = Given /\ KeptLarge' = KeptLarge
BY DEF Known, Given, KeptLarge, Malloced, Large

\* Where the block of a holder is not.
LEMMA HolderAlone ==
    ASSUME IInv, NEW b \in Blocks, users[b] = 1
    PROVE  ~Kept(b)
BY DEF IInv, BlockInOnePlace, Placed, Kept

\* Malloc does not give again what the pool or a call has.
LEMMA NewBlockAlone ==
    ASSUME IInv, NEW b \in Blocks, ~Malloced(b)
    PROVE  ~Kept(b) /\ users[b] = 0
BY DEF IInv, TypeOK, BlockInOnePlace, Placed, Kept

LEMMA HeaderSizeFits ==
    ASSUME NEW r \in 1 .. MAX_ALLOC_SIZE
    PROVE  HeaderSize(r) = r
<1>1. r \in 1 .. 4096
  BY DEF MAX_ALLOC_SIZE
<1>2. r % 65536 = r
  BY <1>1, Z3
<1> QED BY <1>1, <1>2 DEF HeaderSize, SHORT

\* A header names no pool only when the block is larger than any pool's.
LEMMA UnpooledIsLarge ==
    ASSUME IInv, HeaderInv, NEW b \in Blocks, users[b] = 1, ~Pooled(header_size[b])
    PROVE  Large(b)
<1>1. asked[b] \in Requests /\ header_size[b] = HeaderSize(asked[b])
  BY DEF HeaderInv
<1>2. asked[b] \in Nat \ {0} /\ capacity[b] \in Nat /\ asked[b] <= capacity[b]
  BY <1>1, MemoryPoolAssumption DEF IInv, TypeOK, RoomInBlock
<1>3. ~(asked[b] \in 1 .. MAX_ALLOC_SIZE)
  BY <1>1, HeaderSizeFits DEF Pooled
<1>4. MAX_ALLOC_SIZE \in Nat
  BY DEF MAX_ALLOC_SIZE
<1>5. asked[b] > MAX_ALLOC_SIZE
  BY <1>2, <1>3, <1>4
<1> QED BY <1>2, <1>4, <1>5 DEF Large

LEMMA HeaderInvStep ==
    ASSUME IInv, HeaderInv, [Next]_vars
    PROVE  HeaderInv'
<1>0. /\ users \in [Blocks -> Nat] /\ asked \in [Blocks -> Requests \cup {0}]
      /\ header_size \in [Blocks -> -SHORT .. SHORT - 1]
      /\ \A b \in Blocks : users[b] <= 1
  BY DEF IInv, TypeOK, BlockInOnePlace, Placed
<1>1. CASE UNCHANGED <<users, asked, header_size>>
  BY <1>1 DEF HeaderInv
<1>2. ASSUME NEW t \in Threads, NEW n \in Blocks, NEW r \in Requests, AttachHeader(t, n, r)
      PROVE  HeaderInv'
  BY <1>0, <1>2 DEF AttachHeader, HeaderInv
<1>3. ASSUME NEW n \in Blocks, GivesBack(n), UNCHANGED header_size
      PROVE  HeaderInv'
  BY <1>0, <1>3 DEF GivesBack, HeaderInv
<1>4. ASSUME NEW t \in Threads, Run(t)
      PROVE  HeaderInv'
  <2>1. CASE PopAttach(t)
    <3>1. header[t] \in Blocks /\ request[t] \in Requests
      BY <2>1 DEF PopAttach, IInv, ThreadInv
    <3> QED BY <1>2, <2>1, <3>1 DEF PopAttach
  <2>2. CASE ~PopAttach(t)
    BY <1>1, <1>4, <2>2 DEF Run, RunContainer, PopCode, Malloc, PushCheck, PushCode,
       PushCount, blocks, held
  <2> QED BY <2>1, <2>2
<1>5. ASSUME NEW t \in Threads, NEW r \in Requests, Allocate(t, r) \/ AllocateLarge(t, r)
      PROVE  HeaderInv'
  BY <1>1, <1>2, <1>5 DEF Allocate, AllocateLarge, blocks, held
<1>6. ASSUME NEW t \in Threads, NEW n \in Blocks, Release(t, n) \/ ReleaseLarge(t, n)
      PROVE  HeaderInv'
  BY <1>3, <1>6 DEF Release, ReleaseLarge, blocks
<1> QED BY <1>1, <1>4, <1>5, <1>6 DEF Next, vars, blocks, held

LEMMA ContainerCounts ==
    ASSUME List!IInv, NEW t \in Threads, Container!Run(t)
    PROVE  /\ pc[t] \notin {"push_size", "pop_size"} /\ size' = size
           /\ Len(stack) \in Nat
           /\ \/ pc'[t] = "push_size" /\ Len(stack') = Len(stack) + 1
              \/ pc'[t] = "pop_size" /\ Len(stack') = Len(stack) - 1
              \/ pc'[t] \notin {"push_size", "pop_size"} /\ stack' = stack
<1>1. List!Run(t)
  BY DEF List!Run, List!ReadPtr, List!ReadStamp, List!PushLink, List!PushCAS,
     List!PopReadNext, List!PopCAS, List!PushRetry, List!PopRetry, List!CompareExchange,
     List!Step, Container!Run, Container!ReadPtr, Container!ReadStamp, Container!PushLink,
     Container!PushCAS, Container!PopReadNext, Container!PopCAS, Container!PushRetry,
     Container!PopRetry, Container!CompareExchange, Container!Step
<1> QED BY <1>1, List!RunCounts, MemoryPoolAssumption

LEMMA RunContainerCounts ==
    ASSUME CountInv, IInv', NEW t \in Threads, RunContainer(t)
    PROVE  SizeInv' /\ AllocInv'
<1>0. /\ at[t] \in {"pop", "push"} /\ Container!Run(t) /\ List!IInv
      /\ UNCHANGED <<blocks, counts, at, header, request, held, calls>>
  BY DEF RunContainer, IInv, CountInv
<1>1. AllocInv'
  <2>1. \A b \in Blocks : Kept(b)' <=> Kept(b)
    <3> TAKE b \in Blocks
    <3> DEFINE Keeps(u) == /\ at[u] \in {"attach", "push_check", "push_code"}
                           /\ header[u] = b
    <3>1. /\ \A u \in Threads : Owns(u, b) <=> Keeps(u) \/ Container!Holds(u, b)
          /\ \A u \in Threads : Owns(u, b)' <=> Keeps(u) \/ Container!Holds(u, b)'
          /\ ~Keeps(t)
      BY <1>0 DEF Owns, Container!Holds
    <3> HIDE DEF Keeps
    <3>2. /\ Container!InStack(b)' \/ Container!Holds(t, b)'
                 <=> Container!InStack(b) \/ Container!Holds(t, b)
          /\ \A u \in Threads \ {t} : Container!Holds(u, b)' <=> Container!Holds(u, b)
      BY <1>0, ContainerMoves
    <3> QED BY <3>1, <3>2 DEF Kept
  <2>2. Known' = Known /\ Given' = Given /\ KeptLarge' = KeptLarge
    BY <1>0, <2>1, SameBlocks DEF blocks, held
  <2>3. Releasing' = Releasing
    BY <1>0 DEF Releasing
  <2> QED BY <1>0, <2>2, <2>3 DEF CountInv, AllocInv, counts
<1>2. SizeInv'
  <2>1. /\ pc[t] \notin {"push_size", "pop_size"} /\ size' = size /\ Len(stack) \in Nat
        /\ \/ pc'[t] = "push_size" /\ Len(stack') = Len(stack) + 1
           \/ pc'[t] = "pop_size" /\ Len(stack') = Len(stack) - 1
           \/ pc'[t] \notin {"push_size", "pop_size"} /\ stack' = stack
    BY <1>0, ContainerCounts
  <2>2. \A u \in Threads \ {t} : pc'[u] = pc[u]
    <3>1. pc' = [pc EXCEPT ![t] = pc'[t]]
      BY <1>0, ContainerMoves
    <3> QED BY <3>1 DEF CountInv, IInv, TypeOK, Container!TypeOK
  <2>3. /\ Pushing' = IF pc'[t] = "push_size" THEN Pushing \cup {t} ELSE Pushing
        /\ Popping' = IF pc'[t] = "pop_size" THEN Popping \cup {t} ELSE Popping
        /\ t \notin Pushing /\ t \notin Popping
    BY <2>1, <2>2 DEF Pushing, Popping
  <2>4. /\ Cardinality(Pushing \cup {t}) = Cardinality(Pushing) + 1
        /\ Cardinality(Popping \cup {t}) = Cardinality(Popping) + 1
        /\ Cardinality(Pushing) \in Nat /\ Cardinality(Popping) \in Nat
    BY <2>3, PartsFinite, OneMore
  <2>5. Busy' = Busy /\ release_count_' = release_count_
    BY <1>0 DEF Busy, counts
  <2>6. size = Len(stack) - Cardinality(Pushing) + Cardinality(Popping)
    BY DEF CountInv, SizeInv
  <2>7. size' = Len(stack') - Cardinality(Pushing') + Cardinality(Popping')
    <3>1. CASE pc'[t] = "push_size" /\ Len(stack') = Len(stack) + 1
      BY <2>1, <2>3, <2>4, <2>6, <3>1
    <3>2. CASE pc'[t] = "pop_size" /\ Len(stack') = Len(stack) - 1
      BY <2>1, <2>3, <2>4, <2>6, <3>2
    <3>3. CASE pc'[t] \notin {"push_size", "pop_size"} /\ stack' = stack
      BY <2>1, <2>3, <2>6, <3>3
    <3> QED BY <2>1, <3>1, <3>2, <3>3
  <2> QED BY <2>1, <2>5, <2>7 DEF CountInv, SizeInv
<1> QED BY <1>1, <1>2

\* The steps in which the container counts nothing.
LEMMA SizeKept ==
    ASSUME CountInv, IsFiniteSet(Busy'), UNCHANGED <<size, stack, release_count_>>,
           Pushing' = Pushing, Popping' = Popping
    PROVE  SizeInv'
BY DEF CountInv, SizeInv

\* The steps in which no block moves between the application and the pool.
LEMMA AllocKept ==
    ASSUME CountInv, UNCHANGED <<capacity, users, alloc_count_>>, Releasing' = Releasing,
           \A b \in Blocks : Kept(b)' <=> Kept(b)
    PROVE  AllocInv'
BY SameBlocks DEF CountInv, AllocInv

LEMMA AllocateCounts ==
    ASSUME CountInv, NEW t \in Threads, NEW r \in Requests, Allocate(t, r)
    PROVE  SizeInv' /\ AllocInv'
<1>0. /\ at[t] = "idle" /\ at' = [at EXCEPT ![t] = "pop"] /\ pc[t] = "idle"
      /\ pc' = [pc EXCEPT ![t] = "pop_ptr"] /\ node' = [node EXCEPT ![t] = Null]
      /\ UNCHANGED <<size, stack, capacity, users, alloc_count_, release_count_, header>>
      /\ IInv /\ IsFiniteSet(Busy)
  BY DEF Allocate, Step, Container!Pop, Container!Step, blocks, counts, held, CountInv,
     SizeInv
<1>1. at \in [Threads -> ControlPoints] /\ DOMAIN pc = Threads
  BY <1>0 DEF IInv, TypeOK, Container!TypeOK
<1>2. Pushing' = Pushing /\ Popping' = Popping /\ Releasing' = Releasing
  BY <1>0, <1>1 DEF Pushing, Popping, Releasing
<1>3. \A u \in Threads, b \in Blocks : Owns(u, b)' <=> Owns(u, b)
  BY <1>0, <1>1 DEF Owns, Container!Holds
<1>4. \A b \in Blocks : Kept(b)' <=> Kept(b)
  BY <1>0, <1>3 DEF Kept, Container!InStack
<1>5. IsFiniteSet(Busy')
  BY <1>0, BusyFinite
<1> QED BY <1>0, <1>2, <1>4, <1>5, SizeKept, AllocKept

\* The block leaves the container and the counter of free blocks.
LEMMA PopCodeCounts ==
    ASSUME CountInv, IInv', NEW t \in Threads, PopCode(t)
    PROVE  SizeInv' /\ AllocInv'
<1> DEFINE n == node[t]
<1>0. /\ pc[t] = "pop_size" /\ at[t] = "pop" /\ pc' = [pc EXCEPT ![t] = "idle"]
      /\ header' = [header EXCEPT ![t] = n] /\ size' = size - 1
      /\ UNCHANGED <<node, stack, capacity, users, alloc_count_>>
      /\ IInv /\ IsFiniteSet(Busy)
  BY DEF PopCode, Step, Container!PopSize, Container!Step, blocks, held, CountInv, SizeInv
<1>1. /\ at \in [Threads -> ControlPoints] /\ DOMAIN pc = Threads
      /\ DOMAIN header = Threads
  BY <1>0 DEF IInv, TypeOK, Container!TypeOK
<1>2. n \in Blocks /\ code[n] = CURRENT_RELEASE
  BY <1>0, ContainerFacts DEF Container!Holds, IInv, CodeInv
<1>3. at' = [at EXCEPT ![t] = "attach"] /\ release_count_' = release_count_ - 1
  BY <1>2 DEF PopCode, Step
<1>4. /\ Pushing' = Pushing /\ Releasing' = Releasing /\ Popping' = Popping \ {t}
      /\ t \in Popping
  BY <1>0, <1>1, <1>3 DEF Pushing, Popping, Releasing
<1>5. \A u \in Threads, b \in Blocks : Owns(u, b)' <=> Owns(u, b)
  BY <1>0, <1>1, <1>2, <1>3 DEF Owns, Container!Holds
<1>6. \A b \in Blocks : Kept(b)' <=> Kept(b)
  BY <1>0, <1>5 DEF Kept, Container!InStack
<1>7. AllocInv'
  BY <1>0, <1>4, <1>6, AllocKept
<1>8. SizeInv'
  <2>1. IsFiniteSet(Busy')
    BY <1>0, <1>3, BusyFinite
  <2>2. /\ Cardinality(Popping \ {t}) = Cardinality(Popping) - 1
        /\ Cardinality(Pushing) \in Nat /\ Cardinality(Popping) \in Nat
    BY <1>4, PartsFinite, OneLess
  <2>3. Len(stack) \in Nat
    BY <1>0 DEF IInv, TypeOK, Container!TypeOK
  <2> QED BY <1>0, <1>3, <1>4, <2>1, <2>2, <2>3 DEF CountInv, SizeInv
<1> QED BY <1>7, <1>8

\* Nobody has the block that malloc gives, and it is of the size of the pool.
LEMMA MallocCounts ==
    ASSUME CountInv, NEW t \in Threads, Malloc(t)
    PROVE  SizeInv' /\ AllocInv'
<1>0. /\ pc[t] = "idle" /\ at[t] = "pop" /\ UNCHANGED <<container, counts, users>>
      /\ IInv /\ IsFiniteSet(Busy) /\ IsFiniteSet(Known)
  BY DEF Malloc, Step, held, CountInv, SizeInv, AllocInv
<1>1. /\ at \in [Threads -> ControlPoints] /\ DOMAIN header = Threads
      /\ capacity \in [Blocks -> Nat]
  BY <1>0 DEF IInv, TypeOK
<1>2. UNCHANGED <<size, stack, pc, node, alloc_count_, release_count_>>
  BY <1>0 DEF container, counts
<1>3. PICK to \in {"attach", "idle"} : at' = [at EXCEPT ![t] = to]
  BY DEF Malloc, Step
<1>4. Pushing' = Pushing /\ Popping' = Popping /\ Releasing' = Releasing
  BY <1>0, <1>1, <1>2, <1>3 DEF Pushing, Popping, Releasing
<1>5. SizeInv'
  BY <1>0, <1>2, <1>3, <1>4, BusyFinite, SizeKept
<1>6. CASE at' = [at EXCEPT ![t] = "idle"] /\ UNCHANGED <<capacity, header>>
  <2>1. \A b \in Blocks : Kept(b)' <=> Kept(b)
    BY <1>0, <1>1, <1>2, <1>6 DEF Kept, Owns, Container!InStack, Container!Holds
  <2> QED BY <1>0, <1>2, <1>4, <1>5, <1>6, <2>1, AllocKept
<1>7. ASSUME NEW n \in Blocks, ~Malloced(n), at' = [at EXCEPT ![t] = "attach"],
             capacity' = [capacity EXCEPT ![n] = alloc_size_],
             header' = [header EXCEPT ![t] = n]
      PROVE  AllocInv'
  <2>1. ~Large(n)' /\ ~Large(n)
    BY <1>1, <1>7, ServingRequests DEF Large, Malloced, MAX_ALLOC_SIZE
  <2>2. \A b \in Blocks \ {n} :
            capacity'[b] = capacity[b] /\ (Kept(b)' <=> Kept(b)) /\ (Large(b)' <=> Large(b))
    BY <1>0, <1>1, <1>2, <1>7 DEF Kept, Owns, Container!InStack, Container!Holds, Large
  <2>3. users[n] = 0
    BY <1>0, <1>7, NewBlockAlone
  <2>4. Given' = Given /\ KeptLarge' = KeptLarge
    BY <1>0, <2>1, <2>2, <2>3 DEF Given, KeptLarge
  <2>5. IsFiniteSet(Known')
    BY <1>0, <2>2, KnownFinite
  <2> QED BY <1>2, <1>4, <2>4, <2>5 DEF CountInv, AllocInv
<1> QED BY <1>5, <1>6, <1>7 DEF Malloc, Step

\* What a block that the application gets changes, wherever it comes from.
LEMMA HandedCounts ==
    ASSUME CountInv, IInv', NEW t \in Threads, NEW n \in Blocks, NEW r \in Nat,
           AttachHeader(t, n, r), at[t] \in {"attach", "idle"}, users[n] = 0,
           \A b \in Blocks \ {n} : capacity'[b] = capacity[b],
           at[t] = "attach" => header[t] = n, UNCHANGED <<release_count_, header>>
    PROVE  /\ SizeInv' /\ Releasing' = Releasing
           /\ users'[n] = 1 /\ ~Kept(n)'
           /\ \A b \in Blocks \ {n} :
                /\ users'[b] = users[b] /\ (Large(b)' <=> Large(b))
                /\ Kept(b)' <=> Kept(b)
<1>0. /\ users' = [users EXCEPT ![n] = @ + 1] /\ at' = [at EXCEPT ![t] = "idle"]
      /\ UNCHANGED <<size, pc, node, stack>> /\ IInv /\ IsFiniteSet(Busy)
  BY DEF AttachHeader, Container!NewNode, CountInv, SizeInv
<1>1. at \in [Threads -> ControlPoints] /\ users \in [Blocks -> Nat]
  BY <1>0 DEF IInv, TypeOK
<1>2. Pushing' = Pushing /\ Popping' = Popping /\ Releasing' = Releasing
  BY <1>0, <1>1 DEF Pushing, Popping, Releasing
<1>3. SizeInv'
  BY <1>0, <1>2, BusyFinite, SizeKept
<1>4. users'[n] = 1 /\ \A b \in Blocks \ {n} : users'[b] = users[b]
  BY <1>0, <1>1
<1>5. ~Kept(n)'
  BY <1>4 DEF IInv, BlockInOnePlace, Placed, Kept
<1>6. ASSUME NEW b \in Blocks \ {n}
      PROVE  (Large(b)' <=> Large(b)) /\ (Kept(b)' <=> Kept(b))
  <2>1. \A u \in Threads : Owns(u, b)' <=> Owns(u, b)
    BY <1>0, <1>1 DEF Owns, Container!Holds
  <2> QED BY <1>0, <2>1 DEF Kept, Large, Container!InStack
<1> QED BY <1>2, <1>3, <1>4, <1>5, <1>6

LEMMA PopAttachCounts ==
    ASSUME CountInv, IInv', NEW t \in Threads, PopAttach(t)
    PROVE  SizeInv' /\ AllocInv'
<1> PICK n : n = header[t]
  OBVIOUS
<1>0. /\ at[t] = "attach" /\ AttachHeader(t, n, request[t]) /\ IInv
      /\ alloc_count_' = alloc_count_ + 1 /\ alloc_count_ \in Int
      /\ UNCHANGED <<capacity, release_count_, header>> /\ IsFiniteSet(Known)
  BY DEF PopAttach, CountInv, IInv, TypeOK, AllocInv
<1>1. n \in Blocks /\ Owns(t, n) /\ request[t] \in Nat
  BY <1>0, ServingRequests DEF IInv, ThreadInv, Owns
<1>2. users[n] = 0 /\ Kept(n)
  BY <1>0, <1>1 DEF IInv, BlockInOnePlace, Placed, Kept
<1>3. /\ SizeInv' /\ Releasing' = Releasing /\ users'[n] = 1 /\ ~Kept(n)'
      /\ \A b \in Blocks \ {n} : /\ users'[b] = users[b] /\ (Large(b)' <=> Large(b))
                                 /\ Kept(b)' <=> Kept(b)
  BY <1>0, <1>1, <1>2, HandedCounts
<1>4. Known' = Known /\ (Large(n)' <=> Large(n))
  BY <1>0 DEF Known, Malloced, Large
<1>5. /\ IsFiniteSet(Given) /\ Cardinality(Given) \in Nat
      /\ IsFiniteSet(KeptLarge) /\ Cardinality(KeptLarge) \in Nat
      /\ Cardinality(Releasing) \in Nat
  BY PartsFinite
<1>6. CASE Large(n)
  <2>1. Given' = Given /\ KeptLarge' = KeptLarge \ {n} /\ n \in KeptLarge
    BY <1>1, <1>2, <1>3, <1>4, <1>6 DEF Given, KeptLarge
  <2>2. Cardinality(KeptLarge') = Cardinality(KeptLarge) - 1
    BY <1>5, <2>1, OneLess
  <2> QED BY <1>0, <1>3, <1>4, <1>5, <2>1, <2>2 DEF CountInv, AllocInv
<1>7. CASE ~Large(n)
  <2>1. Given' = Given \cup {n} /\ n \notin Given /\ KeptLarge' = KeptLarge
    BY <1>1, <1>2, <1>3, <1>4, <1>7 DEF Given, KeptLarge
  <2>2. Cardinality(Given') = Cardinality(Given) + 1
    BY <1>5, <2>1, OneMore
  <2> QED BY <1>0, <1>3, <1>4, <1>5, <2>1, <2>2 DEF CountInv, AllocInv
<1> QED BY <1>3, <1>6, <1>7

\* A large block is counted nowhere.
LEMMA AllocateLargeCounts ==
    ASSUME CountInv, IInv', NEW t \in Threads, NEW r \in Requests, AllocateLarge(t, r)
    PROVE  SizeInv' /\ AllocInv'
<1>0. /\ at[t] = "idle" /\ r > MAX_ALLOC_SIZE /\ IInv
      /\ UNCHANGED <<counts, header>> /\ IsFiniteSet(Known)
  BY DEF AllocateLarge, CountInv, AllocInv
<1>1. PICK n \in Blocks : /\ ~Malloced(n) /\ capacity' = [capacity EXCEPT ![n] = r]
                          /\ AttachHeader(t, n, r)
  BY DEF AllocateLarge
<1>2. r \in Nat /\ capacity \in [Blocks -> Nat] /\ users \in [Blocks -> Nat]
  BY <1>0, ServingRequests DEF IInv, TypeOK
<1>3. /\ capacity'[n] = r /\ \A b \in Blocks \ {n} : capacity'[b] = capacity[b]
  BY <1>1, <1>2
<1>4. users[n] = 0 /\ ~Kept(n)
  BY <1>0, <1>1, NewBlockAlone
<1>5. /\ SizeInv' /\ Releasing' = Releasing /\ users'[n] = 1 /\ ~Kept(n)'
      /\ \A b \in Blocks \ {n} : /\ users'[b] = users[b] /\ (Large(b)' <=> Large(b))
                                 /\ Kept(b)' <=> Kept(b)
  BY <1>0, <1>1, <1>2, <1>3, <1>4, HandedCounts DEF counts
<1>6. Large(n)'
  BY <1>0, <1>3 DEF Large
<1>7. Given' = Given /\ KeptLarge' = KeptLarge
  BY <1>4, <1>5, <1>6 DEF Given, KeptLarge
<1>8. IsFiniteSet(Known')
  BY <1>0, <1>3, KnownFinite
<1> QED BY <1>0, <1>5, <1>7, <1>8 DEF CountInv, AllocInv, counts

LEMMA ReleaseCounts ==
    ASSUME CountInv, IInv', NEW t \in Threads, NEW n \in Blocks, Release(t, n)
    PROVE  SizeInv' /\ AllocInv'
<1>0. /\ at[t] = "idle" /\ at' = [at EXCEPT ![t] = "push_check"] /\ users[n] > 0
      /\ header' = [header EXCEPT ![t] = n] /\ users' = [users EXCEPT ![n] = @ - 1]
      /\ UNCHANGED <<container, blocks, counts>>
      /\ IInv /\ IsFiniteSet(Busy) /\ IsFiniteSet(Known)
  BY DEF Release, GivesBack, Step, CountInv, SizeInv, AllocInv
<1>1. /\ at \in [Threads -> ControlPoints] /\ DOMAIN header = Threads
      /\ users \in [Blocks -> Nat] /\ users[n] = 1
  BY <1>0 DEF IInv, TypeOK, BlockInOnePlace, Placed
<1>2. UNCHANGED <<size, stack, pc, node, capacity, alloc_count_, release_count_>>
  BY <1>0 DEF container, blocks, counts
<1>3. /\ Pushing' = Pushing /\ Popping' = Popping
      /\ Releasing' = Releasing \cup {t} /\ t \notin Releasing
  BY <1>0, <1>1, <1>2 DEF Pushing, Popping, Releasing
<1>4. SizeInv'
  BY <1>0, <1>2, <1>3, BusyFinite, SizeKept
<1>5. ~Kept(n) /\ Kept(n)' /\ users'[n] = 0
  <2>1. Owns(t, n)'
    BY <1>0, <1>1 DEF Owns
  <2> QED BY <1>0, <1>1, <2>1, HolderAlone DEF Kept
<1>6. \A b \in Blocks \ {n} : users'[b] = users[b] /\ (Kept(b)' <=> Kept(b))
  BY <1>0, <1>1, <1>2 DEF Kept, Owns, Container!InStack, Container!Holds
<1>7. Known' = Known /\ \A b \in Blocks : Large(b)' <=> Large(b)
  BY <1>2 DEF Known, Malloced, Large
<1>8. /\ IsFiniteSet(Given) /\ Cardinality(Given) \in Nat
      /\ IsFiniteSet(KeptLarge) /\ Cardinality(KeptLarge) \in Nat
      /\ IsFiniteSet(Releasing) /\ Cardinality(Releasing) \in Nat
  BY PartsFinite
<1>9. Cardinality(Releasing') = Cardinality(Releasing) + 1
  BY <1>3, <1>8, OneMore
<1>10. CASE Large(n)
  <2>1. Given' = Given /\ KeptLarge' = KeptLarge \cup {n} /\ n \notin KeptLarge
    BY <1>5, <1>6, <1>7, <1>10 DEF Given, KeptLarge
  <2>2. Cardinality(KeptLarge') = Cardinality(KeptLarge) + 1
    BY <1>8, <2>1, OneMore
  <2> QED BY <1>2, <1>4, <1>7, <1>8, <1>9, <2>1, <2>2 DEF CountInv, AllocInv
<1>11. CASE ~Large(n)
  <2>1. Given' = Given \ {n} /\ n \in Given /\ KeptLarge' = KeptLarge
    BY <1>1, <1>5, <1>6, <1>7, <1>11 DEF Given, KeptLarge
  <2>2. Cardinality(Given') = Cardinality(Given) - 1
    BY <1>8, <2>1, OneLess
  <2> QED BY <1>2, <1>4, <1>7, <1>8, <1>9, <2>1, <2>2 DEF CountInv, AllocInv
<1> QED BY <1>4, <1>10, <1>11

\* What no pool serves goes back to malloc: it was counted nowhere.
LEMMA ReleaseLargeCounts ==
    ASSUME CountInv, IInv', NEW t \in Threads, NEW n \in Blocks, ReleaseLarge(t, n)
    PROVE  SizeInv' /\ AllocInv'
<1>0. /\ at[t] = "idle" /\ ~Pooled(header_size[n]) /\ users[n] > 0
      /\ users' = [users EXCEPT ![n] = @ - 1]
      /\ capacity' = IF header_size[n] > MAX_ALLOC_SIZE
                     THEN [capacity EXCEPT ![n] = 0] ELSE capacity
      /\ UNCHANGED <<container, counts, at, header>>
      /\ IInv /\ HeaderInv /\ IsFiniteSet(Busy) /\ IsFiniteSet(Known)
  BY DEF ReleaseLarge, GivesBack, CountInv, SizeInv, AllocInv
<1>1. users \in [Blocks -> Nat] /\ users[n] = 1 /\ capacity \in [Blocks -> Nat]
  BY <1>0 DEF IInv, TypeOK, BlockInOnePlace, Placed
<1>2. UNCHANGED <<size, stack, pc, node, alloc_count_, release_count_>>
  BY <1>0 DEF container, counts
<1>3. Pushing' = Pushing /\ Popping' = Popping /\ Releasing' = Releasing /\ Busy' = Busy
  BY <1>0, <1>2 DEF Pushing, Popping, Releasing, Busy
<1>4. \A b \in Blocks : Kept(b)' <=> Kept(b)
  BY <1>0, <1>2 DEF Kept, Owns, Container!InStack, Container!Holds
<1>5. ~Kept(n) /\ Large(n) /\ users'[n] = 0
  BY <1>0, <1>1, HolderAlone, UnpooledIsLarge
<1>6. \A b \in Blocks \ {n} : users'[b] = users[b] /\ capacity'[b] = capacity[b]
  BY <1>0, <1>1
<1>7. Given' = Given /\ KeptLarge' = KeptLarge
  BY <1>4, <1>5, <1>6 DEF Given, KeptLarge, Large
<1>8. IsFiniteSet(Known')
  BY <1>0, <1>6, KnownFinite
<1>9. SizeInv'
  BY <1>0, <1>2, <1>3, SizeKept
<1> QED BY <1>2, <1>3, <1>7, <1>8, <1>9 DEF CountInv, AllocInv

\* The block goes from the releasing thread to its Push, uncounted.
LEMMA PushStartCounts ==
    ASSUME CountInv, NEW t \in Threads, PushCheck(t) \/ PushCode(t)
    PROVE  SizeInv' /\ AllocInv'
<1> PICK n : n = header[t]
  OBVIOUS
<1>0. /\ IInv /\ IsFiniteSet(Busy) /\ n \in Blocks /\ code[n] = CURRENT_ALLOC
      /\ at[t] \in {"push_check", "push_code"} /\ pc[t] = "idle"
  BY DEF PushCheck, PushCode, Step, CountInv, IInv, SizeInv, ThreadInv, CodeInv
<1>1. /\ at \in [Threads -> ControlPoints]
      /\ pc \in [Threads -> {"idle"} \cup Container!PushPC \cup Container!PopPC]
      /\ node \in [Threads -> Blocks \cup {Null}]
  BY <1>0 DEF IInv, TypeOK, Container!TypeOK
<1>2. /\ \/ at' = [at EXCEPT ![t] = "push_code"] /\ UNCHANGED <<pc, node>>
         \/ /\ at' = [at EXCEPT ![t] = "push"] /\ pc' = [pc EXCEPT ![t] = "push_ptr"]
            /\ node' = [node EXCEPT ![t] = n]
      /\ UNCHANGED <<size, stack, capacity, users, alloc_count_, release_count_, header>>
  BY <1>0 DEF PushCheck, PushCode, Step, Container!Push, Container!Step, container, blocks,
     counts, held
<1>3. Pushing' = Pushing /\ Popping' = Popping /\ Releasing' = Releasing
  BY <1>0, <1>1, <1>2 DEF Pushing, Popping, Releasing
<1>4. \A u \in Threads, b \in Blocks : Owns(u, b)' <=> Owns(u, b)
  BY <1>0, <1>1, <1>2 DEF Owns, Container!Holds
<1>5. \A b \in Blocks : Kept(b)' <=> Kept(b)
  BY <1>2, <1>4 DEF Kept, Container!InStack
<1>6. IsFiniteSet(Busy')
  BY <1>0, <1>2, BusyFinite
<1> QED BY <1>2, <1>3, <1>5, <1>6, SizeKept, AllocKept

LEMMA PushCountCounts ==
    ASSUME CountInv, NEW t \in Threads, PushCount(t)
    PROVE  SizeInv' /\ AllocInv'
<1>0. /\ at[t] = "push" /\ at' = [at EXCEPT ![t] = "idle"]
      /\ pc[t] = "push_size" /\ pc' = [pc EXCEPT ![t] = "idle"] /\ size' = size + 1
      /\ release_count_' = release_count_ + 1 /\ alloc_count_' = alloc_count_ - 1
      /\ UNCHANGED <<node, stack, capacity, users, header>>
      /\ IInv /\ IsFiniteSet(Busy)
  BY DEF PushCount, Step, Container!PushSize, Container!Step, blocks, held, CountInv, SizeInv
<1>1. /\ at \in [Threads -> ControlPoints]
      /\ pc \in [Threads -> {"idle"} \cup Container!PushPC \cup Container!PopPC]
      /\ stack \in Seq(Blocks)
  BY <1>0 DEF IInv, TypeOK, Container!TypeOK
<1>2. /\ Pushing' = Pushing \ {t} /\ t \in Pushing /\ Popping' = Popping
      /\ Releasing' = Releasing \ {t} /\ t \in Releasing
  BY <1>0, <1>1 DEF Pushing, Popping, Releasing
<1>3. \A u \in Threads, b \in Blocks : Owns(u, b)' <=> Owns(u, b)
  BY <1>0, <1>1 DEF Owns, Container!Holds
<1>4. \A b \in Blocks : Kept(b)' <=> Kept(b)
  BY <1>0, <1>3 DEF Kept, Container!InStack
<1>5. IsFiniteSet(Busy') /\ Known' = Known /\ Given' = Given /\ KeptLarge' = KeptLarge
  BY <1>0, <1>4, BusyFinite, SameBlocks
<1>6. /\ IsFiniteSet(Pushing) /\ Cardinality(Pushing) \in Nat
      /\ IsFiniteSet(Releasing) /\ Cardinality(Releasing) \in Nat
      /\ Cardinality(Popping) \in Nat /\ Cardinality(Given) \in Nat
      /\ Cardinality(KeptLarge) \in Nat
  BY PartsFinite
<1>7. /\ Cardinality(Pushing') = Cardinality(Pushing) - 1
      /\ Cardinality(Releasing') = Cardinality(Releasing) - 1
  BY <1>2, <1>6, OneLess
<1>8. SizeInv'
  BY <1>0, <1>1, <1>2, <1>5, <1>6, <1>7, SMTT(30) DEF CountInv, SizeInv
<1>9. AllocInv'
  BY <1>0, <1>5, <1>6, <1>7 DEF CountInv, AllocInv
<1> QED BY <1>8, <1>9

LEMMA InitCountInv == Init => CountInv
<1> SUFFICES ASSUME Init PROVE CountInv
  OBVIOUS
<1>1. IInv /\ HeaderInv
  BY InitIInv DEF Init, HeaderInv
<1>2. /\ Busy = {} /\ Pushing = {} /\ Popping = {} /\ Releasing = {}
      /\ Known = {} /\ Given = {} /\ KeptLarge = {}
  BY DEF Init, Container!Init, Busy, Pushing, Popping, Releasing, Known, Given, KeptLarge,
     Malloced, Large, MAX_ALLOC_SIZE
<1>3. size = 0 /\ Len(stack) = 0 /\ release_count_ = 0 /\ alloc_count_ = 0
  BY DEF Init, Container!Init
<1> QED BY <1>1, <1>2, <1>3, FS_EmptySet DEF CountInv, SizeInv, AllocInv

LEMMA NextCountInv == CountInv /\ [Next]_vars => CountInv'
<1> SUFFICES ASSUME CountInv, [Next]_vars PROVE CountInv'
  OBVIOUS
<1>1. IInv' /\ HeaderInv'
  BY NextIInv, HeaderInvStep DEF CountInv
<1>2. CASE UNCHANGED vars
  <2>1. \A b \in Blocks : Kept(b)' <=> Kept(b)
    BY <1>2 DEF vars, container, Kept, Owns, Container!InStack, Container!Holds
  <2>2. /\ Busy' = Busy /\ Pushing' = Pushing /\ Popping' = Popping
        /\ Releasing' = Releasing
    BY <1>2 DEF vars, container, Busy, Pushing, Popping, Releasing
  <2>3. UNCHANGED <<size, stack, release_count_, alloc_count_, capacity, users>>
    BY <1>2 DEF vars, container, blocks, counts, held
  <2> QED BY <1>1, <2>1, <2>2, <2>3, SizeKept, AllocKept DEF CountInv, SizeInv
<1>3. ASSUME NEW t \in Threads, Run(t)
      PROVE  SizeInv' /\ AllocInv'
  BY <1>1, <1>3, RunContainerCounts, PopCodeCounts, MallocCounts, PopAttachCounts,
     PushStartCounts, PushCountCounts DEF Run
<1>4. ASSUME NEW t \in Threads, NEW r \in Requests, Allocate(t, r) \/ AllocateLarge(t, r)
      PROVE  SizeInv' /\ AllocInv'
  BY <1>1, <1>4, AllocateCounts, AllocateLargeCounts
<1>5. ASSUME NEW t \in Threads, NEW b \in Blocks, Release(t, b) \/ ReleaseLarge(t, b)
      PROVE  SizeInv' /\ AllocInv'
  BY <1>1, <1>5, ReleaseCounts, ReleaseLargeCounts
<1> QED BY <1>1, <1>2, <1>3, <1>4, <1>5 DEF Next, CountInv

LEMMA CountInvMatches == CountInv => CountersMatch
<1> SUFFICES ASSUME CountInv, \A t \in Threads : at[t] = "idle"
             PROVE  /\ size = Len(stack)
                    /\ release_count_ = Len(stack)
                    /\ alloc_count_ =
                           Cardinality({b \in Blocks : users[b] = 1 /\ ~Large(b)})
                               - Cardinality({b \in Blocks : /\ Container!InStack(b)
                                                             /\ Large(b)})
  BY DEF CountersMatch
<1>1. \A t \in Threads : pc[t] = "idle"
  BY DEF CountInv, IInv, ThreadInv
<1>2. Pushing = {} /\ Popping = {} /\ Releasing = {}
  BY <1>1 DEF Pushing, Popping, Releasing
<1>3. \A b \in Blocks : Kept(b) <=> Container!InStack(b)
  BY <1>1 DEF Kept, Owns, Container!Holds
<1>4. KeptLarge = {b \in Blocks : Container!InStack(b) /\ Large(b)}
  BY <1>3 DEF KeptLarge
<1>5. Cardinality(Given) \in Nat /\ Cardinality(KeptLarge) \in Nat
  BY PartsFinite
<1>6. Len(stack) \in Nat
  BY DEF CountInv, IInv, TypeOK, Container!TypeOK
<1> QED BY <1>2, <1>4, <1>5, <1>6, FS_EmptySet DEF CountInv, SizeInv, AllocInv, Given

\* Whatever interleaving of calls has led to it, a pool at rest has counted
\* its blocks, except those larger than it serves (MemoryPool.cpp: the counters
\* that Push and Pop change in steps of their own).
THEOREM PoolCounts == Spec => []CountersMatch
BY InitCountInv, NextCountInv, CountInvMatches, PTL DEF Spec

-----------------------------------------------------------------------------
(***************************************************************************)
(* The refinement of Allocator.                                            *)
(***************************************************************************)

LEMMA StepOfAllocator == IInv /\ [Next]_vars => [Promise!Next]_users
<1> SUFFICES ASSUME IInv, [Next]_vars, users' # users PROVE Promise!Next
  OBVIOUS
<1>0. users \in [Blocks -> Nat] /\ \A b \in Blocks : Placed(b)
  BY DEF IInv, TypeOK, BlockInOnePlace
<1>1. ASSUME NEW n \in Blocks, users[n] = 0, users' = [users EXCEPT ![n] = @ + 1]
      PROVE  Promise!Next
  <2>1. users' = [users EXCEPT ![n] = 1]
    BY <1>0, <1>1
  <2> QED BY <1>1, <2>1 DEF Promise!Next, Promise!Allocate
<1>2. ASSUME NEW t \in Threads, PopAttach(t)
      PROVE  Promise!Next
  <2>1. header[t] \in Blocks /\ Owns(t, header[t])
    BY <1>2 DEF PopAttach, IInv, ThreadInv, Owns
  <2>2. users[header[t]] = 0
    BY <1>0, <2>1 DEF Placed
  <2> QED BY <1>1, <1>2, <2>1, <2>2 DEF PopAttach, AttachHeader
<1>3. ASSUME NEW t \in Threads, NEW r \in Requests, AllocateLarge(t, r)
      PROVE  Promise!Next
  <2>1. PICK n \in Blocks : ~Malloced(n) /\ AttachHeader(t, n, r)
    BY <1>3 DEF AllocateLarge
  <2>2. users[n] = 0
    BY <1>0, <2>1 DEF Placed
  <2> QED BY <1>1, <2>1, <2>2 DEF AttachHeader
<1>4. ASSUME NEW n \in Blocks, GivesBack(n)
      PROVE  Promise!Next
  <2>1. users[n] = 1
    BY <1>0, <1>4 DEF Placed, GivesBack
  <2>2. users' = [users EXCEPT ![n] = 0]
    BY <1>0, <1>4, <2>1 DEF GivesBack
  <2> QED BY <2>1, <2>2 DEF Promise!Next, Promise!Release
<1>5. ASSUME NEW t \in Threads, NEW b \in Blocks, Release(t, b) \/ ReleaseLarge(t, b)
      PROVE  Promise!Next
  BY <1>4, <1>5 DEF Release, ReleaseLarge
<1>6. ASSUME NEW t \in Threads, Run(t)
      PROVE  Promise!Next
  <2>1. CASE PopAttach(t)
    BY <1>2, <2>1
  <2>2. CASE ~PopAttach(t)
    BY <1>6, <2>2 DEF Run, RunContainer, PopCode, Malloc, PushCheck, PushCode, PushCount,
       held
  <2> QED BY <2>1, <2>2
<1>7. ASSUME NEW t \in Threads, NEW r \in Requests, Allocate(t, r)
      PROVE  Promise!Next
  BY <1>7 DEF Allocate, held
<1> QED BY <1>3, <1>5, <1>6, <1>7 DEF Next, vars, held

\* Memory::Allocate and Release keep the promise of module Allocator.
THEOREM KeepsPromise == Spec => ImplementsAllocator
<1>1. Init => Promise!Init
  BY DEF Init, Promise!Init
<1> QED BY <1>1, StepOfAllocator, Invariance, PTL DEF Spec, ImplementsAllocator,
     Promise!Spec

=============================================================================
