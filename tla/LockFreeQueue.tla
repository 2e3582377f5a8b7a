---------------------------- MODULE LockFreeQueue ----------------------------
(***************************************************************************)
(* LockFreeQueue.h: a queue of linked nodes whose first node is a dummy.   *)
(* Enqueue links a node behind the last one and then swings tail, Dequeue  *)
(* swings head; either helps a tail that lags behind.  A dequeued node is  *)
(* freed by TryDelete when pop_count says that no other Dequeue is under   *)
(* way, and is kept in free_list otherwise.                                *)
(*                                                                         *)
(* head and tail are 16-byte aligned pairs that one 16-byte move copies;   *)
(* every other access to shared memory is an action of its own.            *)
(***************************************************************************)
EXTENDS Integers, FiniteSets, Sequences

CONSTANTS
    Producers,          \* threads that call Enqueue
    Consumers,          \* threads that call Dequeue
    Nodes,              \* the addresses malloc can return
    Null,
    MaxEnqueues,        \* bounds: calls in a behaviour
    MaxDequeues,
    \* How the application uses the queue: in "phases", enqueueing first and
    \* dequeueing when that has ended (PushLockFreeQueue, then PopLockFreeQueue
    \* of LockFreeTest.cpp); with "one_producer" at a time; or "freely"
    \* (RandomPushPopLockFreeQueue).
    Disciplines

Threads == Producers \cup Consumers

ASSUME LockFreeQueueAssumption ==
    /\ Null \notin Nodes /\ Nodes # {}
    /\ MaxEnqueues \in Nat /\ MaxDequeues \in Nat
    /\ Disciplines \subseteq {"phases", "one_producer", "freely"}

VARIABLES
    head, tail,         \* StampNodes
    data, next,         \* fields of the nodes
    allocated,          \* nodes that malloc has returned and nobody has freed
    size,
    free_list,
    pop_count,
    pc,
    node,               \* Enqueue: the new node; Dequeue: what TryDelete frees
    first, last,        \* local copies of head and tail
    local_next,         \* the local variable next
    old_free_list, list_end,
                        \* the list a thread adds to free_list or releases
    destination,
    enqueued,           \* history: the values enqueued, numbered in their order
    dequeued,           \* history: how many values have left
    due,                \* history: the value a Dequeue has to return
    calls,              \* history: Enqueue and Dequeue calls made
    discipline          \* the way this behaviour uses the queue, never changed

shared == <<head, tail, data, next, allocated, size, free_list, pop_count>>
own_list == <<old_free_list, list_end>>
locals == <<node, first, last, local_next, own_list, destination>>
history == <<enqueued, dequeued, due, calls>>
vars == <<shared, locals, history, pc, discipline>>

-----------------------------------------------------------------------------

NoStampNode == [ptr |-> Null, stamp |-> 0]

EnqueuePC == {"e_tail", "e_next", "e_check", "e_link", "e_help", "e_swing", "e_size"}
AddPC == {"fl_walk", "fl_read", "fl_link", "fl_cas"}
DequeuePC == {"d_head", "d_tail", "d_next", "d_check", "d_empty", "d_help", "d_swing",
              "d_data", "d_size", "td_check", "td_free", "td_take", "td_count",
              "td_release", "fl_count"} \cup AddPC

Step(t, from, to) ==
    /\ pc[t] = from
    /\ pc' = [pc EXCEPT ![t] = to]
    /\ UNCHANGED discipline

\* What the discipline lets an application begin.
NoneEnqueues == \A t \in Threads : pc[t] \notin EnqueuePC
MayEnqueue == /\ discipline = "phases" => calls.dequeue = 0
              /\ discipline = "one_producer" => NoneEnqueues
MayDequeue == discipline = "phases" => NoneEnqueues

\* InterlockedCompareExchange128 of head or tail: what it becomes.
Swung(pair, seen, new) ==
    IF pair = seen THEN [ptr |-> new, stamp |-> seen.stamp + 1] ELSE pair

\* The object is static in the test, so free_list and pop_count, which the
\* constructor leaves alone, are zero.
Init ==
    /\ \E dummy \in Nodes :
         /\ head = [ptr |-> dummy, stamp |-> 0]
         /\ tail = [ptr |-> dummy, stamp |-> 0]
         /\ allocated = {dummy}
    /\ data = [n \in Nodes |-> 0]
    /\ next = [n \in Nodes |-> Null]
    /\ size = 0
    /\ free_list = Null
    /\ pop_count = 0
    /\ pc = [t \in Threads |-> "idle"]
    /\ node = [t \in Threads |-> Null]
    /\ first = [t \in Threads |-> NoStampNode]
    /\ last = [t \in Threads |-> NoStampNode]
    /\ local_next = [t \in Threads |-> Null]
    /\ old_free_list = [t \in Threads |-> Null]
    /\ list_end = [t \in Threads |-> Null]
    /\ destination = [t \in Threads |-> 0]
    /\ enqueued = 0
    /\ dequeued = 0
    /\ due = [t \in Threads |-> 0]
    /\ calls = [enqueue |-> 0, dequeue |-> 0]
    /\ discipline \in Disciplines

\* The locals of a call end with it.
Forget(t) ==
    /\ node' = [node EXCEPT ![t] = Null]
    /\ first' = [first EXCEPT ![t] = NoStampNode]
    /\ last' = [last EXCEPT ![t] = NoStampNode]
    /\ local_next' = [local_next EXCEPT ![t] = Null]
    /\ old_free_list' = [old_free_list EXCEPT ![t] = Null]
    /\ list_end' = [list_end EXCEPT ![t] = Null]
    /\ destination' = [destination EXCEPT ![t] = 0]

-----------------------------------------------------------------------------
(***************************************************************************)
(* Enqueue.                                                                *)
(***************************************************************************)

\* malloc and the constructor of Node; the value is known by the place it
\* gets in the queue, so it is filled in when the node is linked.
Enqueue(t) ==
    /\ calls.enqueue < MaxEnqueues /\ MayEnqueue
    /\ \E n \in Nodes \ allocated :
         /\ allocated' = allocated \cup {n}
         /\ next' = [next EXCEPT ![n] = Null]
         /\ node' = [node EXCEPT ![t] = n]
    /\ Step(t, "idle", "e_tail")
    /\ calls' = [calls EXCEPT !.enqueue = @ + 1]
    /\ UNCHANGED <<head, tail, data, size, free_list, pop_count, first, last,
                   local_next, own_list, destination, enqueued, dequeued, due>>

EnqueueReadTail(t) ==
    /\ Step(t, "e_tail", "e_next")
    /\ last' = [last EXCEPT ![t] = tail]
    /\ UNCHANGED <<shared, node, first, local_next, own_list, destination, history>>

EnqueueReadNext(t) ==
    /\ last[t].ptr \in allocated
    /\ Step(t, "e_next", "e_check")
    /\ local_next' = [local_next EXCEPT ![t] = next[last[t].ptr]]
    /\ UNCHANGED <<shared, node, first, last, own_list, destination, history>>

EnqueueCheck(t) ==
    /\ Step(t, "e_check",
            IF last[t].ptr # tail.ptr THEN "e_tail"
            ELSE IF local_next[t] = Null THEN "e_link" ELSE "e_help")
    /\ UNCHANGED <<shared, locals, history>>

\* Mutant: the link is a plain store.
EnqueueLinkStores(t) ==
    LET l == last[t].ptr IN
    /\ l \in allocated
    /\ Step(t, "e_link", "e_swing")
    /\ next' = [next EXCEPT ![l] = node[t]]
    /\ data' = [data EXCEPT ![node[t]] = enqueued + 1]
    /\ enqueued' = enqueued + 1
    /\ UNCHANGED <<head, tail, allocated, size, free_list, pop_count, locals,
                   dequeued, due, calls>>

\* last.ptr->next from nullptr to the new node, or another try.
EnqueueLink(t) ==
    LET l == last[t].ptr IN
    /\ l \in allocated /\ pc[t] = "e_link"
    /\ \/ /\ next[l] = Null
          /\ Step(t, "e_link", "e_swing")
          /\ next' = [next EXCEPT ![l] = node[t]]
          /\ data' = [data EXCEPT ![node[t]] = enqueued + 1]
          /\ enqueued' = enqueued + 1
       \/ /\ next[l] # Null
          /\ Step(t, "e_link", "e_tail")
          /\ UNCHANGED <<next, data, enqueued>>
    /\ UNCHANGED <<head, tail, allocated, size, free_list, pop_count, locals,
                   dequeued, due, calls>>

EnqueueSwing(t) ==
    /\ Step(t, "e_swing", "e_size")
    /\ tail' = Swung(tail, last[t], node[t])
    /\ UNCHANGED <<head, data, next, allocated, size, free_list, pop_count, locals,
                   history>>

EnqueueHelp(t) ==
    /\ Step(t, "e_help", "e_tail")
    /\ tail' = Swung(tail, last[t], local_next[t])
    /\ UNCHANGED <<head, data, next, allocated, size, free_list, pop_count, locals,
                   history>>

EnqueueSize(t) ==
    /\ Step(t, "e_size", "idle")
    /\ size' = size + 1
    /\ Forget(t)
    /\ UNCHANGED <<head, tail, data, next, allocated, free_list, pop_count, history>>

-----------------------------------------------------------------------------
(***************************************************************************)
(* Dequeue.                                                                *)
(***************************************************************************)

\* ++pop_count.
Dequeue(t) ==
    /\ calls.dequeue < MaxDequeues
    /\ MayDequeue
    /\ Step(t, "idle", "d_head")
    /\ pop_count' = pop_count + 1
    /\ calls' = [calls EXCEPT !.dequeue = @ + 1]
    /\ UNCHANGED <<head, tail, data, next, allocated, size, free_list, locals,
                   enqueued, dequeued, due>>

DequeueReadHead(t) ==
    /\ Step(t, "d_head", "d_tail")
    /\ first' = [first EXCEPT ![t] = head]
    /\ UNCHANGED <<shared, node, last, local_next, own_list, destination, history>>

DequeueReadTail(t) ==
    /\ Step(t, "d_tail", "d_next")
    /\ last' = [last EXCEPT ![t] = tail]
    /\ UNCHANGED <<shared, node, first, local_next, own_list, destination, history>>

DequeueReadNext(t) ==
    /\ first[t].ptr \in allocated
    /\ Step(t, "d_next", "d_check")
    /\ local_next' = [local_next EXCEPT ![t] = next[first[t].ptr]]
    /\ UNCHANGED <<shared, node, first, last, own_list, destination, history>>

DequeueCheck(t) ==
    /\ Step(t, "d_check",
            IF first[t].ptr # head.ptr THEN "d_head"
            ELSE IF first[t].ptr # last[t].ptr THEN "d_swing"
            ELSE IF local_next[t] = Null THEN "d_empty" ELSE "d_help")
    /\ UNCHANGED <<shared, locals, history>>

\* An empty queue returns false, and leaves pop_count as it is.
DequeueEmpty(t) ==
    /\ Step(t, "d_empty", "idle")
    /\ Forget(t)
    /\ UNCHANGED <<shared, history>>

DequeueHelp(t) ==
    /\ Step(t, "d_help", "d_head")
    /\ tail' = Swung(tail, last[t], local_next[t])
    /\ UNCHANGED <<head, data, next, allocated, size, free_list, pop_count, locals,
                   history>>

DequeueSwing(t) ==
    /\ pc[t] = "d_swing"
    /\ \/ /\ head = first[t]
          /\ Step(t, "d_swing", "d_data")
          /\ node' = [node EXCEPT ![t] = first[t].ptr]
          /\ dequeued' = dequeued + 1
          /\ due' = [due EXCEPT ![t] = dequeued + 1]
       \/ /\ head # first[t]
          /\ Step(t, "d_swing", "d_head")
          /\ UNCHANGED <<node, dequeued, due>>
    /\ head' = Swung(head, first[t], local_next[t])
    /\ UNCHANGED <<tail, data, next, allocated, size, free_list, pop_count, first,
                   last, local_next, own_list, destination, enqueued, calls>>

\* Mutant: the value of the node that leaves.
DequeueDataOfFirst(t) ==
    /\ node[t] \in allocated
    /\ Step(t, "d_data", "td_check")
    /\ destination' = [destination EXCEPT ![t] = data[node[t]]]
    /\ UNCHANGED <<shared, node, first, last, local_next, own_list, history>>

\* *destination = next->data.
DequeueData(t) ==
    /\ local_next[t] \in allocated
    /\ Step(t, "d_data", "td_check")
    /\ destination' = [destination EXCEPT ![t] = data[local_next[t]]]
    /\ UNCHANGED <<shared, node, first, last, local_next, own_list, history>>

DequeueSize(t) ==
    /\ Step(t, "d_size", "idle")
    /\ size' = size - 1
    /\ Forget(t)
    /\ UNCHANGED <<head, tail, data, next, allocated, free_list, pop_count, history>>

-----------------------------------------------------------------------------
(***************************************************************************)
(* TryDelete and the list of nodes whose deletion is put off.              *)
(***************************************************************************)

\* Mutant: the node is freed whoever else is in Dequeue.
TryDeleteCheckAlways(t) ==
    /\ Step(t, "td_check", "td_free")
    /\ UNCHANGED <<shared, locals, history>>

\* The only Dequeue frees the node, another one adds it to free_list.
TryDeleteCheck(t) ==
    /\ pc[t] = "td_check"
    /\ \/ /\ pop_count = 1
          /\ Step(t, "td_check", "td_free")
          /\ UNCHANGED <<node, own_list>>
       \/ /\ pop_count # 1
          /\ Step(t, "td_check", "fl_read")
          /\ old_free_list' = [old_free_list EXCEPT ![t] = node[t]]
          /\ list_end' = [list_end EXCEPT ![t] = node[t]]
          /\ UNCHANGED node
    /\ UNCHANGED <<shared, first, last, local_next, destination, history>>

TryDeleteFree(t) ==
    /\ node[t] \in allocated
    /\ Step(t, "td_free", "td_take")
    /\ allocated' = allocated \ {node[t]}
    /\ node' = [node EXCEPT ![t] = Null]
    /\ UNCHANGED <<head, tail, data, next, size, free_list, pop_count, first, last,
                   local_next, own_list, destination, history>>

\* Mutant: free_list is read and not emptied.
TryDeleteTakeKeeps(t) ==
    /\ Step(t, "td_take", "td_count")
    /\ old_free_list' = [old_free_list EXCEPT ![t] = free_list]
    /\ UNCHANGED <<shared, node, first, last, local_next, list_end, destination,
                   history>>

\* free_list is taken as a whole.
TryDeleteTake(t) ==
    /\ Step(t, "td_take", "td_count")
    /\ old_free_list' = [old_free_list EXCEPT ![t] = free_list]
    /\ free_list' = Null
    /\ UNCHANGED <<head, tail, data, next, allocated, size, pop_count, node, first,
                   last, local_next, list_end, destination, history>>

\* --pop_count: the list is released if that makes 0, or else put back.
TryDeleteCount(t) ==
    /\ Step(t, "td_count",
            IF pop_count = 1 THEN "td_release"
            ELSE IF old_free_list[t] # Null THEN "fl_walk" ELSE "d_size")
    /\ pop_count' = pop_count - 1
    /\ UNCHANGED <<head, tail, data, next, allocated, size, free_list, locals, history>>

\* The nodes of the list from n to end, the least set that has n and the next
\* of each of its nodes; one that is not allocated ends it too.
Segment(n, end) ==
    LET Closed == {S \in SUBSET Nodes :
                     /\ n \in S \cup {Null}
                     /\ \A x \in (S \cap allocated) \ {end} : next[x] \in S \cup {Null}}
    IN  {x \in Nodes : \A S \in Closed : x \in S}

Chain(n) == Segment(n, Null)

\* The list belongs to this thread: ReleaseFreeList is one action.
ReleaseFreeList(t) ==
    /\ Chain(old_free_list[t]) \subseteq allocated
    /\ Step(t, "td_release", "d_size")
    /\ allocated' = allocated \ Chain(old_free_list[t])
    /\ old_free_list' = [old_free_list EXCEPT ![t] = Null]
    /\ UNCHANGED <<head, tail, data, next, size, free_list, pop_count, node, first,
                   last, local_next, list_end, destination, history>>

\* Nobody else writes to the nodes of the list while its end is looked for.
AddListToFreeList(t) ==
    /\ Chain(old_free_list[t]) \subseteq allocated
    /\ Step(t, "fl_walk", "fl_read")
    /\ list_end' = [list_end EXCEPT ![t] =
                        CHOOSE n \in Chain(old_free_list[t]) : next[n] = Null]
    /\ UNCHANGED <<shared, node, first, last, local_next, old_free_list, destination,
                   history>>

\* AddNodeFreeList, in a loop until the compare-and-swap succeeds.
AddNodeRead(t) ==
    /\ Step(t, "fl_read", "fl_link")
    /\ local_next' = [local_next EXCEPT ![t] = free_list]
    /\ UNCHANGED <<shared, node, first, last, own_list, destination, history>>

AddNodeLink(t) ==
    /\ list_end[t] \in allocated
    /\ Step(t, "fl_link", "fl_cas")
    /\ next' = [next EXCEPT ![list_end[t]] = local_next[t]]
    /\ UNCHANGED <<head, tail, data, allocated, size, free_list, pop_count, locals,
                   history>>

\* Mutant: a list that is put back is counted off again.
AddNodeCASTwice(t) ==
    /\ pc[t] = "fl_cas"
    /\ \/ /\ free_list = local_next[t]
          /\ Step(t, "fl_cas", "fl_count")
          /\ free_list' = old_free_list[t]
          /\ node' = [node EXCEPT ![t] = Null]
          /\ old_free_list' = [old_free_list EXCEPT ![t] = Null]
          /\ list_end' = [list_end EXCEPT ![t] = Null]
       \/ /\ free_list # local_next[t]
          /\ Step(t, "fl_cas", "fl_read")
          /\ UNCHANGED <<free_list, node, own_list>>
    /\ UNCHANGED <<head, tail, data, next, allocated, size, pop_count, first, last,
                   local_next, destination, history>>

\* A node that TryDelete put off is counted off afterwards, a list that is
\* put back has been.
AddNodeCAS(t) ==
    /\ pc[t] = "fl_cas"
    /\ \/ /\ free_list = local_next[t]
          /\ Step(t, "fl_cas", IF node[t] # Null THEN "fl_count" ELSE "d_size")
          /\ free_list' = old_free_list[t]
          /\ node' = [node EXCEPT ![t] = Null]
          /\ old_free_list' = [old_free_list EXCEPT ![t] = Null]
          /\ list_end' = [list_end EXCEPT ![t] = Null]
       \/ /\ free_list # local_next[t]
          /\ Step(t, "fl_cas", "fl_read")
          /\ UNCHANGED <<free_list, node, own_list>>
    /\ UNCHANGED <<head, tail, data, next, allocated, size, pop_count, first, last,
                   local_next, destination, history>>

AddNodeCount(t) ==
    /\ Step(t, "fl_count", "d_size")
    /\ pop_count' = pop_count - 1
    /\ UNCHANGED <<head, tail, data, next, allocated, size, free_list, locals, history>>

TryDelete(t) ==
    \/ TryDeleteCheck(t) \/ TryDeleteFree(t) \/ TryDeleteTake(t) \/ TryDeleteCount(t)
    \/ ReleaseFreeList(t) \/ AddListToFreeList(t) \/ AddNodeRead(t) \/ AddNodeLink(t)
    \/ AddNodeCAS(t) \/ AddNodeCount(t)

-----------------------------------------------------------------------------

EnqueueStep(t) ==
    \/ EnqueueReadTail(t) \/ EnqueueReadNext(t) \/ EnqueueCheck(t) \/ EnqueueLink(t)
    \/ EnqueueSwing(t) \/ EnqueueHelp(t) \/ EnqueueSize(t)

DequeueStep(t) ==
    \/ DequeueReadHead(t) \/ DequeueReadTail(t) \/ DequeueReadNext(t)
    \/ DequeueCheck(t) \/ DequeueEmpty(t) \/ DequeueHelp(t) \/ DequeueSwing(t)
    \/ DequeueData(t) \/ TryDelete(t) \/ DequeueSize(t)

Next == \/ \E t \in Producers : Enqueue(t)
        \/ \E t \in Consumers : Dequeue(t)
        \/ \E t \in Threads : EnqueueStep(t) \/ DequeueStep(t)

Spec == Init /\ [][Next]_vars

-----------------------------------------------------------------------------
(***************************************************************************)
(* Properties.                                                             *)
(***************************************************************************)

NodeOrNull == Nodes \cup {Null}
StampNode == [ptr : NodeOrNull, stamp : Nat]

TypeOK ==
    /\ head \in StampNode /\ tail \in StampNode
    /\ data \in [Nodes -> 0 .. MaxEnqueues]
    /\ next \in [Nodes -> NodeOrNull]
    /\ allocated \subseteq Nodes
    /\ size \in Int
    /\ free_list \in NodeOrNull
    /\ pop_count \in 0 .. MaxDequeues
    /\ pc \in [Threads -> {"idle"} \cup EnqueuePC \cup DequeuePC]
    /\ node \in [Threads -> NodeOrNull]
    /\ first \in [Threads -> StampNode] /\ last \in [Threads -> StampNode]
    /\ local_next \in [Threads -> NodeOrNull]
    /\ old_free_list \in [Threads -> NodeOrNull]
    /\ list_end \in [Threads -> NodeOrNull]
    /\ destination \in [Threads -> 0 .. MaxEnqueues]
    /\ enqueued \in 0 .. MaxEnqueues /\ dequeued \in 0 .. enqueued
    /\ due \in [Threads -> 0 .. MaxEnqueues]
    /\ discipline \in Disciplines
    /\ calls \in [enqueue : 0 .. MaxEnqueues, dequeue : 0 .. MaxDequeues]

\* The nodes whose memory the next step of t reads, writes or frees.
Touches(t) ==
    CASE pc[t] \in {"e_next", "e_link"} -> {last[t].ptr}
      [] pc[t] = "d_next" -> {first[t].ptr}
      [] pc[t] = "d_data" -> {local_next[t]}
      [] pc[t] = "td_free" -> {node[t]}
      [] pc[t] \in {"td_release", "fl_walk"} -> Chain(old_free_list[t])
      [] pc[t] = "fl_link" -> {list_end[t]}
      [] OTHER -> {}

\* No thread touches a node that has been freed.
NoUseAfterFree == \A t \in Threads : Touches(t) \subseteq allocated

\* When pop_count is 1 and TryDelete frees the node, no other thread is about
\* to use the same node, the comment in TryDelete says.
NobodyHasTheHead ==
    \A t, u \in Threads : pc[t] = "td_free" /\ u # t => node[t] \notin Touches(u)

\* The number of the value in a node of the queue; head's has left.
Place(n) == IF n = head.ptr THEN dequeued ELSE data[n]

\* The nodes from head on are the dummy and the values that are enqueued and
\* not dequeued, in their order, tail is the last of them or the last but one,
\* and when no call is in progress size is the number of the values.
QueueLinked ==
    /\ \A n \in Chain(head.ptr) :
         /\ n \in allocated
         /\ IF next[n] = Null THEN Place(n) = enqueued
            ELSE next[n] # head.ptr /\ data[next[n]] = Place(n) + 1
    /\ tail.ptr \in Chain(head.ptr) /\ Place(tail.ptr) \in {enqueued, enqueued - 1}
    /\ (\A t \in Threads : pc[t] = "idle") => size = enqueued - dequeued

\* Dequeue hands out the values in the order of their Enqueues.
FirstInFirstOut == \A t \in Threads : destination[t] \in {0, due[t]}

\* The nodes a thread alone is responsible for: the one it enqueues, the one
\* it deletes, the list it has taken.
Held(t) ==
    CASE pc[t] \in {"e_tail", "e_next", "e_check", "e_link", "e_help"} -> {node[t]}
      [] pc[t] \in {"d_data", "td_check", "td_free"} -> {node[t]}
      [] pc[t] \in {"td_count", "td_release", "fl_walk"} -> Chain(old_free_list[t])
      [] pc[t] \in {"fl_read", "fl_link", "fl_cas"} ->
             Segment(old_free_list[t], list_end[t])
      [] OTHER -> {}

\* Every node that is allocated is in one place: in the queue, in free_list
\* or with one thread.  None is lost and none is freed twice.
NodeInOnePlace ==
    LET Queue == Chain(head.ptr)
        Free == Chain(free_list)
    IN  /\ allocated = Queue \cup Free \cup UNION {Held(t) : t \in Threads}
        /\ Queue \cap Free = {}
        /\ \A t \in Threads :
             /\ Held(t) \cap (Queue \cup Free) = {}
             /\ \A u \in Threads \ {t} : Held(t) \cap Held(u) = {}

=============================================================================
