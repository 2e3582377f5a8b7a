-------------------------- MODULE LockFreeQueueProofs --------------------------
(***************************************************************************)
(* Proofs about LockFreeQueue, for every number of threads, nodes and      *)
(* calls, of an application that enqueues and dequeues in phases or        *)
(* enqueues from one thread at a time: its types, that the nodes from head *)
(* on are the queue, that a node is in one place and is not used after it  *)
(* was freed, and that values leave in the order they entered.             *)
(***************************************************************************)
EXTENDS LockFreeQueue, FiniteSetTheorems, TLAPS

\* What an application must keep to: RandomPushPopLockFreeQueue of
\* LockFreeTest.cpp, "freely", does not.
SafeUse == Disciplines \subseteq {"phases", "one_producer"}

-----------------------------------------------------------------------------
(***************************************************************************)
(* The inductive invariant.                                                *)
(***************************************************************************)

Queue == Chain(head.ptr)
Free == Chain(free_list)

\* Where a thread has a node to link, a node to free, a list that ends with
\* Null, a list with a known end.
LinkPC == {"e_tail", "e_next", "e_check", "e_link", "e_help"}
DoomPC == {"td_free", "td_release"}
TakePC == {"d_data", "td_check", "td_free"}
TakenPC == {"td_count", "td_release", "fl_walk"}
PutPC == {"fl_read", "fl_link", "fl_cas"}

\* Where a Dequeue has read head and may read the node.
RefPC == {"d_tail", "d_next", "d_check", "d_help", "d_swing"}

\* The numbers of the nodes rise by one along the queue.
QueueInv ==
    /\ \A n \in Queue :
         /\ Place(n) \in dequeued .. enqueued
         /\ \A m \in Queue : Place(m) = Place(n) => m = n
         /\ IF next[n] = Null THEN Place(n) = enqueued
            ELSE next[n] # head.ptr /\ data[next[n]] = Place(n) + 1
    /\ tail.ptr \in Queue /\ Place(tail.ptr) \in {enqueued, enqueued - 1}

\* The list of nodes that are to be freed ends.
FreeEnds == free_list = Null \/ \E n \in Free : next[n] = Null

\* The node and the list that a thread has.
ListRead(t) ==
    /\ pc[t] \in LinkPC => next[node[t]] = Null
    /\ pc[t] \in {"td_take"} \cup TakenPC => node[t] = Null
    /\ pc[t] \in TakenPC =>
         old_free_list[t] = Null \/ \E n \in Held(t) : next[n] = Null
    /\ pc[t] = "fl_walk" => old_free_list[t] # Null
    /\ pc[t] \in PutPC => old_free_list[t] # Null /\ list_end[t] \in Held(t)
    /\ pc[t] = "fl_cas" => next[list_end[t]] = local_next[t]

\* What a thread has read may be out of date; it matters only if head or tail
\* still has the stamp it had.
HeadRead(t) ==
    /\ first[t].stamp <= head.stamp
    /\ pc[t] = "d_swing" => first[t].ptr # last[t].ptr
    /\ pc[t] \in {"d_next", "d_check", "d_swing"} /\ first[t] = head
         /\ first[t].ptr # last[t].ptr => tail.ptr # head.ptr
    /\ pc[t] \in {"d_check", "d_swing"} /\ first[t] = head
         /\ first[t].ptr # last[t].ptr => local_next[t] = next[head.ptr]

TailRead(t) ==
    /\ last[t].stamp <= tail.stamp
    /\ pc[t] \in {"d_help", "e_help"} => local_next[t] # Null
    /\ pc[t] = "d_help" => first[t].ptr = last[t].ptr
    /\ pc[t] \in {"d_check", "d_help"} /\ last[t] = tail /\ local_next[t] # Null
         /\ first[t].ptr = last[t].ptr => local_next[t] = next[tail.ptr]
    /\ pc[t] \in {"e_check", "e_help"} /\ last[t] = tail /\ local_next[t] # Null
         => local_next[t] = next[tail.ptr]
    /\ pc[t] = "e_swing" => node[t] # Null
    /\ pc[t] = "e_swing" /\ last[t] = tail => node[t] = next[tail.ptr]

\* An Enqueue has the node of the queue that was the tail, never one behind it.
LastRead(t) ==
    pc[t] \in LinkPC \ {"e_tail"} =>
        last[t].ptr \in Queue /\ Place(last[t].ptr) <= Place(tail.ptr)

\* A node that no thread links or is about to free.
Guarded(n) == /\ n \in allocated
              /\ \A t \in Threads : pc[t] \in LinkPC \cup DoomPC => n \notin Held(t)

\* A Dequeue may read a node that has left the queue, but none that is freed.
Refers(t) ==
    /\ pc[t] \in RefPC => Guarded(first[t].ptr)
    /\ pc[t] = "d_data" =>
         Guarded(local_next[t]) /\ data[local_next[t]] = due[t]

\* The value that is handed out.
Value(t) ==
    IF pc[t] \in {"td_check", "td_free", "td_take", "td_count", "td_release",
                  "fl_count", "d_size"} \cup AddPC
    THEN destination[t] = due[t] ELSE destination[t] = 0

ThreadInv(t) == /\ ListRead(t) /\ HeadRead(t) /\ TailRead(t)
                /\ LastRead(t) /\ Refers(t) /\ Value(t)

\* The calls that pop_count counts; a Dequeue that found the queue empty
\* stays counted.
Counted == {t \in Threads :
    \/ pc[t] \in {"d_head", "d_tail", "d_next", "d_check", "d_empty", "d_help",
                  "d_swing", "d_data", "td_check", "td_free", "td_take", "td_count",
                  "fl_count"}
    \/ pc[t] \in PutPC /\ node[t] # Null}

Busy == {t \in Threads : pc[t] # "idle"}
Linking == {t \in Threads : pc[t] \in LinkPC}
Linked == {t \in Threads : pc[t] \in {"e_swing", "e_size"}}
Leaving == {t \in Threads : pc[t] \in {"d_data", "td_check", "td_free", "td_take",
                "td_count", "td_release", "fl_count", "d_size"} \cup AddPC}

CountInv ==
    /\ IsFiniteSet(Busy)
    /\ Cardinality(Counted) <= pop_count /\ pop_count <= calls.dequeue
    /\ enqueued + Cardinality(Linking) <= calls.enqueue
    /\ size = enqueued - dequeued - Cardinality(Linked) + Cardinality(Leaving)

\* What the disciplines give.
DisciplineInv ==
    /\ calls.dequeue = 0 => \A t \in Threads : pc[t] \notin DequeuePC
    /\ discipline = "phases" =>
         \A t \in Threads : pc[t] \in EnqueuePC => calls.dequeue = 0
    /\ discipline = "one_producer" =>
         /\ \A t, u \in Threads : pc[t] \in EnqueuePC /\ pc[u] \in EnqueuePC => t = u
         /\ (\A t \in Threads : pc[t] # "e_swing") => Place(tail.ptr) = enqueued
         /\ \A t \in Threads :
              /\ pc[t] \in {"e_next", "e_check", "e_link"} => last[t] = tail
              /\ pc[t] # "e_help"
              /\ pc[t] = "e_swing" /\ last[t] # tail => Place(tail.ptr) = enqueued

\* What concerns the nodes and what the threads have read of them.
NodeInv == /\ NodeInOnePlace /\ QueueInv /\ FreeEnds
           /\ \A t \in Threads : ThreadInv(t)

IInv == SafeUse /\ TypeOK /\ NodeInv /\ CountInv /\ DisciplineInv

-----------------------------------------------------------------------------
(***************************************************************************)
(* Segments of linked nodes.                                               *)
(***************************************************************************)

\* Segment as a function of the links and of the allocated nodes.
Part(nx, al, n, end) ==
    LET Closed == {S \in SUBSET Nodes :
                     /\ n \in S \cup {Null}
                     /\ \A x \in (S \cap al) \ {end} : nx[x] \in S \cup {Null}}
    IN  {x \in Nodes : \A S \in Closed : x \in S}

Links == [Nodes -> NodeOrNull]

\* Null is not the address of a node.
LEMMA NullNoNode == Null \notin Nodes
BY LockFreeQueueAssumption

\* Part is the least set that is closed.
LEMMA PartLeast ==
    ASSUME NEW nx, NEW al, NEW n, NEW end, NEW S \in SUBSET Nodes,
           n \in S \cup {Null},
           \A x \in (S \cap al) \ {end} : nx[x] \in S \cup {Null}
    PROVE  Part(nx, al, n, end) \subseteq S
BY DEF Part

\* A segment has its first node, and the next of each of its nodes but the last.
LEMMA PartClosed ==
    ASSUME NEW nx \in Links, NEW al, NEW n \in NodeOrNull, NEW end
    PROVE  /\ Part(nx, al, n, end) \subseteq Nodes
           /\ n \in Part(nx, al, n, end) \cup {Null}
           /\ \A x \in (Part(nx, al, n, end) \cap al) \ {end} :
                nx[x] \in Part(nx, al, n, end) \cup {Null}
<1>1. Part(nx, al, n, end) \subseteq Nodes
  BY DEF Part
<1>2. n \in Part(nx, al, n, end) \cup {Null}
  BY DEF Part, NodeOrNull
<1>3. ASSUME NEW x \in (Part(nx, al, n, end) \cap al) \ {end}
      PROVE  nx[x] \in Part(nx, al, n, end) \cup {Null}
  <2>1. nx[x] \in NodeOrNull
    BY <1>1 DEF Links
  <2> SUFFICES ASSUME nx[x] # Null, NEW S \in SUBSET Nodes, n \in S \cup {Null},
                      \A y \in (S \cap al) \ {end} : nx[y] \in S \cup {Null}
               PROVE  nx[x] \in S
    BY <2>1 DEF Part, NodeOrNull
  <2>2. x \in S
    BY PartLeast
  <2> QED BY <2>2
<1> QED BY <1>1, <1>2, <1>3

\* What of memory two states have in common.
Agree(nx, nx2, al, al2, S) ==
    \A x \in S : (x \in al <=> x \in al2) /\ (x \in al => nx2[x] = nx[x])

\* Writes beside a segment leave it as it is.
LEMMA PartSame ==
    ASSUME NEW nx \in Links, NEW nx2 \in Links, NEW al, NEW al2,
           NEW n \in NodeOrNull, NEW end,
           Agree(nx, nx2, al, al2, Part(nx, al, n, end) \ {end})
    PROVE  Part(nx2, al2, n, end) = Part(nx, al, n, end)
<1> DEFINE P == Part(nx, al, n, end)
           P2 == Part(nx2, al2, n, end)
<1>1. /\ P \subseteq Nodes /\ n \in P \cup {Null}
      /\ \A x \in (P \cap al) \ {end} : nx[x] \in P \cup {Null}
  BY PartClosed
<1>2. /\ P2 \subseteq Nodes /\ n \in P2 \cup {Null}
      /\ \A x \in (P2 \cap al2) \ {end} : nx2[x] \in P2 \cup {Null}
  BY PartClosed
<1>3. \A x \in P \ {end} : (x \in al <=> x \in al2) /\ (x \in al => nx2[x] = nx[x])
  BY DEF Agree
<1> HIDE DEF P, P2
<1>4. \A x \in (P \cap al2) \ {end} : nx2[x] \in P \cup {Null}
  BY <1>1, <1>3
<1>5. P2 \subseteq P
  BY <1>1, <1>4 DEF P2, Part
<1>6. \A x \in (P2 \cap al) \ {end} : nx[x] \in P2 \cup {Null}
  BY <1>2, <1>3, <1>5
<1>7. P \subseteq P2
  BY <1>2, <1>6 DEF P, Part
<1> QED BY <1>5, <1>7 DEF P, P2

\* The list that begins with Null is empty.
LEMMA PartNull ==
    ASSUME NEW nx, NEW al, NEW end
    PROVE  Part(nx, al, Null, end) = {}
BY PartLeast

\* A segment that ends where it begins has one node.
LEMMA PartOne ==
    ASSUME NEW nx, NEW al, NEW n \in Nodes
    PROVE  Part(nx, al, n, n) = {n}
<1>1. Part(nx, al, n, n) \subseteq {n}
  <2> PICK S : S = {n}
    OBVIOUS
  <2>1. S \in SUBSET Nodes /\ n \in S \cup {Null}
        /\ \A x \in (S \cap al) \ {n} : nx[x] \in S \cup {Null}
    OBVIOUS
  <2>2. Part(nx, al, n, n) \subseteq S
    BY <2>1, PartLeast
  <2> QED BY <2>2
<1>2. n \in Part(nx, al, n, n)
  BY NullNoNode DEF Part
<1> QED BY <1>1, <1>2

\* A node whose next is Null ends its list.
LEMMA PartEnd ==
    ASSUME NEW nx \in Links, NEW al, NEW n \in NodeOrNull, NEW e, nx[e] = Null
    PROVE  Part(nx, al, n, e) = Part(nx, al, n, Null)
<1> DEFINE P == Part(nx, al, n, e)
           P2 == Part(nx, al, n, Null)
<1>1. /\ P \subseteq Nodes /\ n \in P \cup {Null}
      /\ \A x \in (P \cap al) \ {e} : nx[x] \in P \cup {Null}
  BY PartClosed
<1>2. /\ P2 \subseteq Nodes /\ n \in P2 \cup {Null}
      /\ \A x \in (P2 \cap al) \ {Null} : nx[x] \in P2 \cup {Null}
  BY PartClosed
<1> HIDE DEF P, P2
<1>3. P2 \subseteq P
  BY <1>1, PartLeast DEF P2
<1>4. P \subseteq P2
  <2>1. \A x \in (P2 \cap al) \ {e} : nx[x] \in P2 \cup {Null}
    BY <1>2, NullNoNode
  <2> QED BY <2>1, <1>2, PartLeast DEF P
<1> QED BY <1>3, <1>4 DEF P, P2

\* A segment whose end has another list behind it.
LEMMA PartJoin ==
    ASSUME NEW nx \in Links, NEW al, NEW n \in NodeOrNull, NEW e, e \in al,
           e \in Part(nx, al, n, e)
    PROVE  Part(nx, al, n, Null) = Part(nx, al, n, e) \cup Part(nx, al, nx[e], Null)
<1>0. e \in Nodes /\ nx[e] \in NodeOrNull
  BY DEF Part, Links
<1> DEFINE P == Part(nx, al, n, Null)
           A == Part(nx, al, n, e)
           B == Part(nx, al, nx[e], Null)
<1>1. /\ P \subseteq Nodes /\ n \in P \cup {Null}
      /\ \A x \in (P \cap al) \ {Null} : nx[x] \in P \cup {Null}
  BY PartClosed
<1>2. /\ A \subseteq Nodes /\ n \in A \cup {Null}
      /\ \A x \in (A \cap al) \ {e} : nx[x] \in A \cup {Null}
  BY PartClosed
<1>3. /\ B \subseteq Nodes /\ nx[e] \in B \cup {Null}
      /\ \A x \in (B \cap al) \ {Null} : nx[x] \in B \cup {Null}
  BY PartClosed, <1>0
<1>4. e \in A
  OBVIOUS
<1> HIDE DEF P, A, B
<1>5. P \subseteq A \cup B
  <2>1. \A x \in ((A \cup B) \cap al) \ {Null} : nx[x] \in (A \cup B) \cup {Null}
    BY <1>2, <1>3, NullNoNode
  <2> PICK S : S = A \cup B
    OBVIOUS
  <2>2. S \in SUBSET Nodes /\ n \in S \cup {Null}
        /\ \A x \in (S \cap al) \ {Null} : nx[x] \in S \cup {Null}
    BY <2>1, <1>2, <1>3
  <2>3. P \subseteq S
    BY <2>2, PartLeast DEF P
  <2> QED BY <2>3
<1>6. A \subseteq P
  BY <1>1, NullNoNode, PartLeast DEF A
<1>7. B \subseteq P
  <2>1. nx[e] \in P \cup {Null}
    BY <1>4, <1>6, <1>1, <1>0, NullNoNode
  <2> QED BY <2>1, <1>1, PartLeast DEF B
<1> QED BY <1>5, <1>6, <1>7 DEF P, A, B

\* The first node leaves.
LEMMA PartTail ==
    ASSUME NEW nx \in Links, NEW al, NEW h \in Nodes, h \in al, nx[h] \in Nodes,
           \A x \in Part(nx, al, h, Null) : nx[x] # h
    PROVE  Part(nx, al, nx[h], Null) = Part(nx, al, h, Null) \ {h}
<1> DEFINE P == Part(nx, al, h, Null)
           B == Part(nx, al, nx[h], Null)
<1>1. /\ P \subseteq Nodes /\ h \in P \cup {Null}
      /\ \A x \in (P \cap al) \ {Null} : nx[x] \in P \cup {Null}
  BY PartClosed DEF NodeOrNull
<1>3. /\ B \subseteq Nodes /\ nx[h] \in B \cup {Null}
      /\ \A x \in (B \cap al) \ {Null} : nx[x] \in B \cup {Null}
  BY PartClosed DEF NodeOrNull
<1>4. \A x \in P : nx[x] # h
  OBVIOUS
<1> HIDE DEF P, B
<1>5. B \subseteq P \ {h}
  <2>1. nx[h] \in P \ {h}
    BY <1>1, <1>4, NullNoNode
  <2>2. \A x \in ((P \ {h}) \cap al) \ {Null} : nx[x] \in (P \ {h}) \cup {Null}
    BY <1>1, <1>4
  <2> PICK S : S = P \ {h}
    OBVIOUS
  <2>3. S \in SUBSET Nodes /\ nx[h] \in S \cup {Null}
        /\ \A x \in (S \cap al) \ {Null} : nx[x] \in S \cup {Null}
    BY <2>1, <2>2, <1>1
  <2>4. B \subseteq S
    <3>1. Part(nx, al, nx[h], Null) \subseteq S
      BY <2>3 DEF Part
    <3> QED BY <3>1 DEF B
  <2> QED BY <2>4
<1>6. P \subseteq B \cup {h}
  <2>1. \A x \in ((B \cup {h}) \cap al) \ {Null} : nx[x] \in (B \cup {h}) \cup {Null}
    BY <1>3
  <2> PICK S : S = B \cup {h}
    OBVIOUS
  <2>2. S \in SUBSET Nodes /\ h \in S \cup {Null}
        /\ \A x \in (S \cap al) \ {Null} : nx[x] \in S \cup {Null}
    BY <2>1, <1>3
  <2>3. P \subseteq S
    BY <2>2, PartLeast DEF P
  <2> QED BY <2>3
<1> QED BY <1>5, <1>6 DEF P, B

\* A node is linked behind the last.
LinksBehind(nx, nx2, al, l, n) ==
    l \in al /\ nx[l] = Null /\ nx[n] = Null /\ nx2 = [nx EXCEPT ![l] = n]

\* The list then has the node, too.
LEMMA PartGrow ==
    ASSUME NEW nx \in Links, NEW al, NEW h \in NodeOrNull, NEW l, NEW n \in Nodes,
           NEW nx2, LinksBehind(nx, nx2, al, l, n),
           l \in Part(nx, al, h, Null), n \notin Part(nx, al, h, Null)
    PROVE  Part(nx2, al, h, Null) = Part(nx, al, h, Null) \cup {n}
<1> DEFINE P == Part(nx, al, h, Null)
           P2 == Part(nx2, al, h, Null)
<1> USE DEF LinksBehind
<1>0. l \in Nodes /\ nx2 \in Links /\ nx2[l] = n
      /\ \A x \in Nodes \ {l} : nx2[x] = nx[x]
  BY DEF Part, Links, NodeOrNull
<1>1. /\ P \subseteq Nodes /\ h \in P \cup {Null}
      /\ \A x \in (P \cap al) \ {Null} : nx[x] \in P \cup {Null}
  BY PartClosed
<1>2. /\ P2 \subseteq Nodes /\ h \in P2 \cup {Null}
      /\ \A x \in (P2 \cap al) \ {Null} : nx2[x] \in P2 \cup {Null}
  BY PartClosed, <1>0
<1>3. l \in P /\ n \notin P
  OBVIOUS
<1> HIDE DEF P, P2
<1>4. P2 \subseteq P \cup {n}
  <2>1. \A x \in ((P \cup {n}) \cap al) \ {Null} : nx2[x] \in (P \cup {n}) \cup {Null}
    BY <1>0, <1>1, <1>3
  <2> PICK S : S = P \cup {n}
    OBVIOUS
  <2>2. S \in SUBSET Nodes /\ h \in S \cup {Null}
        /\ \A x \in (S \cap al) \ {Null} : nx2[x] \in S \cup {Null}
    BY <2>1, <1>1
  <2>3. P2 \subseteq S
    <3>1. Part(nx2, al, h, Null) \subseteq S
      BY <2>2 DEF Part
    <3> QED BY <3>1 DEF P2
  <2> QED BY <2>3
<1>5. P \subseteq P2
  <2>1. \A x \in (P2 \cap al) \ {Null} : nx[x] \in P2 \cup {Null}
    BY <1>0, <1>2
  <2> QED BY <2>1, <1>2 DEF P, Part
<1>6. n \in P2
  BY <1>0, <1>2, <1>3, <1>5, NullNoNode
<1> QED BY <1>4, <1>5, <1>6 DEF P, P2

-----------------------------------------------------------------------------
(***************************************************************************)
(* Where the nodes are.                                                    *)
(***************************************************************************)

\* The queue and free_list are segments,
LEMMA QueueParts ==
    /\ Queue = Part(next, allocated, head.ptr, Null)
    /\ Free = Part(next, allocated, free_list, Null)
BY DEF Queue, Free, Chain, Segment, Part

\* before a step and after it.
LEMMA QueuePartsNext ==
    /\ Queue' = Part(next', allocated', head'.ptr, Null)
    /\ Free' = Part(next', allocated', free_list', Null)
BY DEF Queue, Free, Chain, Segment, Part

\* So is what a thread has in hand,
LEMMA HeldParts ==
    ASSUME NEW t
    PROVE  /\ pc[t] \in LinkPC \cup TakePC => Held(t) = {node[t]}
           /\ pc[t] \in TakenPC =>
                Held(t) = Part(next, allocated, old_free_list[t], Null)
           /\ pc[t] \in PutPC =>
                Held(t) = Part(next, allocated, old_free_list[t], list_end[t])
           /\ pc[t] \notin LinkPC \cup TakePC \cup TakenPC \cup PutPC => Held(t) = {}
<1>1. \A n, e : Segment(n, e) = Part(next, allocated, n, e)
  BY DEF Segment, Part
<1> QED BY <1>1 DEF Held, Chain, LinkPC, TakePC, TakenPC, PutPC

\* before a step and after it.
LEMMA HeldPartsNext ==
    ASSUME NEW t
    PROVE  /\ pc'[t] \in LinkPC \cup TakePC => Held(t)' = {node'[t]}
           /\ pc'[t] \in TakenPC =>
                Held(t)' = Part(next', allocated', old_free_list'[t], Null)
           /\ pc'[t] \in PutPC =>
                Held(t)' = Part(next', allocated', old_free_list'[t], list_end'[t])
           /\ pc'[t] \notin LinkPC \cup TakePC \cup TakenPC \cup PutPC => Held(t)' = {}
<1>1. \A n, e : Segment(n, e)' = Part(next', allocated', n, e)
  BY DEF Segment, Part
<1> QED BY <1>1 DEF Held, Chain, LinkPC, TakePC, TakenPC, PutPC

\* The locals of the other threads.
Others(t) ==
    \A u \in Threads \ {t} :
        /\ pc'[u] = pc[u] /\ node'[u] = node[u]
        /\ first'[u] = first[u] /\ last'[u] = last[u]
        /\ local_next'[u] = local_next[u]
        /\ old_free_list'[u] = old_free_list[u] /\ list_end'[u] = list_end[u]
        /\ destination'[u] = destination[u] /\ due'[u] = due[u]

\* A node that is written, allocated or freed outside of what a thread holds.
LEMMA HeldKept ==
    ASSUME TypeOK, next' \in Links, NEW u \in Threads,
           pc'[u] = pc[u], node'[u] = node[u],
           old_free_list'[u] = old_free_list[u], list_end'[u] = list_end[u],
           Agree(next, next', allocated, allocated', Held(u))
    PROVE  Held(u)' = Held(u)
<1>0. next \in Links /\ old_free_list[u] \in NodeOrNull
  BY DEF TypeOK, Links
<1>1. CASE pc[u] \in LinkPC \cup TakePC
  BY <1>1, HeldParts, HeldPartsNext
<1>2. CASE pc[u] \in TakenPC
  <2>1. Held(u) = Part(next, allocated, old_free_list[u], Null)
    BY <1>2, HeldParts
  <2>2. Held(u)' = Part(next', allocated', old_free_list[u], Null)
    BY <1>2, HeldPartsNext
  <2>3. Agree(next, next', allocated, allocated',
              Part(next, allocated, old_free_list[u], Null) \ {Null})
    BY <2>1 DEF Agree
  <2>4. Part(next', allocated', old_free_list[u], Null)
        = Part(next, allocated, old_free_list[u], Null)
    BY <1>0, <2>3, PartSame
  <2> QED BY <2>1, <2>2, <2>4
<1>3. CASE pc[u] \in PutPC
  <2>1. Held(u) = Part(next, allocated, old_free_list[u], list_end[u])
    BY <1>3, HeldParts
  <2>2. Held(u)' = Part(next', allocated', old_free_list[u], list_end[u])
    BY <1>3, HeldPartsNext
  <2>3. Agree(next, next', allocated, allocated',
              Part(next, allocated, old_free_list[u], list_end[u]) \ {list_end[u]})
    BY <2>1 DEF Agree
  <2>4. Part(next', allocated', old_free_list[u], list_end[u])
        = Part(next, allocated, old_free_list[u], list_end[u])
    BY <1>0, <2>3, PartSame
  <2> QED BY <2>1, <2>2, <2>4
<1>4. CASE pc[u] \notin LinkPC \cup TakePC \cup TakenPC \cup PutPC
  BY <1>4, HeldParts, HeldPartsNext
<1> QED BY <1>1, <1>2, <1>3, <1>4

\* The queue stays if its nodes do,
LEMMA QueueKept ==
    ASSUME TypeOK, next' \in Links, head'.ptr = head.ptr,
           Agree(next, next', allocated, allocated', Queue)
    PROVE  Queue' = Queue
<1>1. next \in Links /\ head.ptr \in NodeOrNull
  BY DEF TypeOK, Links, StampNode
<1>2. Agree(next, next', allocated, allocated',
            Part(next, allocated, head.ptr, Null) \ {Null})
  BY QueueParts DEF Agree
<1>3. Part(next', allocated', head.ptr, Null) = Part(next, allocated, head.ptr, Null)
  BY <1>1, <1>2, PartSame
<1> QED BY <1>3, QueueParts, QueuePartsNext

\* and so does free_list.
LEMMA FreeKept ==
    ASSUME TypeOK, next' \in Links, free_list' = free_list,
           Agree(next, next', allocated, allocated', Free)
    PROVE  Free' = Free
<1>1. next \in Links /\ free_list \in NodeOrNull
  BY DEF TypeOK, Links
<1>2. Agree(next, next', allocated, allocated',
            Part(next, allocated, free_list, Null) \ {Null})
  BY QueueParts DEF Agree
<1>3. Part(next', allocated', free_list, Null) = Part(next, allocated, free_list, Null)
  BY <1>1, <1>2, PartSame
<1> QED BY <1>3, QueueParts, QueuePartsNext

\* The places are disjoint, and all they have is allocated.
LEMMA Places ==
    ASSUME NodeInOnePlace
    PROVE  /\ allocated = Queue \cup Free \cup UNION {Held(t) : t \in Threads}
           /\ Queue \subseteq allocated /\ Free \subseteq allocated
           /\ Queue \cap Free = {}
           /\ \A t \in Threads : /\ Held(t) \subseteq allocated
                                /\ Held(t) \cap Queue = {} /\ Held(t) \cap Free = {}
                                /\ \A u \in Threads \ {t} : Held(t) \cap Held(u) = {}
BY DEF NodeInOnePlace, Queue, Free

\* Nodes of the queue are read by anybody.
LEMMA QueueGuarded ==
    ASSUME NodeInv, NEW n \in Queue
    PROVE  Guarded(n) /\ n \in Nodes
<1>1. n \in allocated /\ \A t \in Threads : n \notin Held(t)
  BY Places DEF NodeInv
<1>2. n \in Nodes
  BY DEF Queue, Chain, Segment
<1> QED BY <1>1, <1>2 DEF Guarded

\* The first node and the nodes behind it.
LEMMA QueueNodes ==
    ASSUME TypeOK, NodeInv
    PROVE  /\ head.ptr \in Queue
           /\ tail.ptr \in Queue
           /\ \A n \in Queue : /\ n \in Nodes /\ n # Null
                               /\ next[n] \in Queue \cup {Null}
                               /\ next[n] = Null <=> Place(n) = enqueued
           /\ \A n, m \in Queue : Place(n) = Place(m) => n = m
           /\ \A n \in Queue : next[n] # Null => Place(next[n]) = Place(n) + 1
<1>0. next \in Links /\ head.ptr \in NodeOrNull
  BY DEF TypeOK, Links, StampNode
<1>1. /\ Queue \subseteq Nodes /\ head.ptr \in Queue \cup {Null}
      /\ \A n \in (Queue \cap allocated) \ {Null} : next[n] \in Queue \cup {Null}
  BY <1>0, QueueParts, PartClosed
<1>2. tail.ptr \in Queue
  BY DEF NodeInv, QueueInv
<1>3. head.ptr \in Queue
  <2> SUFFICES ASSUME head.ptr = Null PROVE FALSE
    BY <1>1
  <2> QED BY <1>2, QueueParts, PartNull
<1>4. Queue \subseteq allocated
  BY Places DEF NodeInv
<1>5. \A n \in Queue : /\ n \in Nodes /\ n # Null
                       /\ next[n] \in Queue \cup {Null}
  BY <1>1, <1>4, NullNoNode
<1>6. \A n \in Queue : next[n] # Null => Place(next[n]) = Place(n) + 1
  BY DEF NodeInv, QueueInv, Place
<1>7. \A n \in Queue : next[n] = Null <=> Place(n) = enqueued
  <2> TAKE n \in Queue
  <2>1. next[n] = Null => Place(n) = enqueued
    BY DEF NodeInv, QueueInv
  <2>2. ASSUME next[n] # Null PROVE Place(n) # enqueued
    <3>1. next[n] \in Queue /\ Place(next[n]) = Place(n) + 1
      BY <1>5, <1>6, <2>2
    <3>2. Place(next[n]) \in dequeued .. enqueued /\ Place(n) \in dequeued .. enqueued
      BY <3>1 DEF NodeInv, QueueInv
    <3> QED BY <3>1, <3>2 DEF TypeOK
  <2> QED BY <2>1, <2>2
<1>8. \A n, m \in Queue : Place(n) = Place(m) => n = m
  BY DEF NodeInv, QueueInv
<1> QED BY <1>2, <1>3, <1>5, <1>6, <1>7, <1>8

\* A step that reads shared memory, or counts.
LEMMA QuietStep ==
    ASSUME TypeOK, NodeInv, NEW t \in Threads, Others(t),
           UNCHANGED <<head, tail, data, next, allocated, free_list,
                       enqueued, dequeued>>,
           Held(t)' = Held(t),
           pc'[t] \in LinkPC \cup DoomPC =>
               pc[t] \in LinkPC \cup DoomPC \/ Counted \subseteq {t},
           ListRead(t)', HeadRead(t)', TailRead(t)', Value(t)',
           pc'[t] \in LinkPC \ {"e_tail"} =>
               last'[t].ptr \in Queue /\ Place(last'[t].ptr) <= Place(tail.ptr),
           pc'[t] \in RefPC => Guarded(first'[t].ptr),
           pc'[t] # "d_data"
    PROVE  NodeInv'
<1>0. next' \in Links
  BY DEF TypeOK, Links
<1>1. \A u \in Threads : Held(u)' = Held(u)
  <2> SUFFICES ASSUME NEW u \in Threads \ {t} PROVE Held(u)' = Held(u)
    OBVIOUS
  <2> QED BY <1>0, HeldKept DEF Others, Agree
<1>2. Queue' = Queue
  BY <1>0, QueueKept DEF Agree
<1>3. Free' = Free
  BY <1>0, FreeKept DEF Agree
<1>4. NodeInOnePlace'
  <2>1. Chain(head.ptr)' = Chain(head.ptr) /\ Chain(free_list)' = Chain(free_list)
    BY <1>2, <1>3 DEF Queue, Free
  <2> QED BY <1>1, <2>1 DEF NodeInOnePlace, NodeInv
<1>5. \A n : Place(n)' = Place(n)
  BY DEF Place
<1>6. QueueInv'
  BY <1>2, <1>5 DEF QueueInv, NodeInv
<1>7. FreeEnds'
  BY <1>3 DEF FreeEnds, NodeInv
<1>8. ASSUME NEW u \in Threads \ {t} PROVE ThreadInv(u)'
  <2>1. ThreadInv(u)
    BY DEF NodeInv
  <2>2. ListRead(u)'
    BY <1>1, <2>1 DEF ThreadInv, ListRead, Others
  <2>3. HeadRead(u)' /\ TailRead(u)' /\ Value(u)'
    BY <2>1 DEF ThreadInv, HeadRead, TailRead, Value, Others
  <2>4. LastRead(u)'
    BY <1>2, <1>5, <2>1 DEF ThreadInv, LastRead, Others
  <2>5. Refers(u)'
    <3>1. CASE pc[u] \in RefPC \cup {"d_data"}
      <4>1. u \in Counted
        BY <3>1 DEF Counted, RefPC
      <4>2. pc'[t] \in LinkPC \cup DoomPC => pc[t] \in LinkPC \cup DoomPC
        BY <4>1
      <4>3. \A v \in Threads :
              pc'[v] \in LinkPC \cup DoomPC => pc[v] \in LinkPC \cup DoomPC
        BY <4>2 DEF Others
      <4>4. \A n : Guarded(n) => Guarded(n)'
        BY <1>1, <4>3 DEF Guarded
      <4> QED BY <2>1, <4>4 DEF ThreadInv, Refers, Others
    <3>2. CASE pc[u] \notin RefPC \cup {"d_data"}
      BY <3>2 DEF Refers, Others, RefPC
    <3> QED BY <3>1, <3>2
  <2> QED BY <2>2, <2>3, <2>4, <2>5 DEF ThreadInv
<1>9. ThreadInv(t)'
  <2>1. LastRead(t)'
    BY <1>2, <1>5 DEF LastRead
  <2>2. Refers(t)'
    <3>1. CASE pc'[t] \in RefPC
      <4>1. pc'[t] \notin LinkPC \cup DoomPC
        BY <3>1 DEF RefPC, LinkPC, DoomPC
      <4>2. \A v \in Threads :
              pc'[v] \in LinkPC \cup DoomPC => pc[v] \in LinkPC \cup DoomPC
        BY <4>1 DEF Others
      <4>3. \A n : Guarded(n) => Guarded(n)'
        BY <1>1, <4>2 DEF Guarded
      <4>4. \A n : n = first'[t].ptr => Guarded(n)'
        BY <3>1, <4>3
      <4> QED BY <3>1, <4>4 DEF Refers, RefPC
    <3>2. CASE pc'[t] \notin RefPC
      BY <3>2 DEF Refers, RefPC
    <3> QED BY <3>1, <3>2
  <2> QED BY <2>1, <2>2 DEF ThreadInv
<1> QED BY <1>4, <1>6, <1>7, <1>8, <1>9 DEF NodeInv

-----------------------------------------------------------------------------
(***************************************************************************)
(* What a step leaves to the other threads.                                *)
(***************************************************************************)

\* Nodes are written, but none that is linked in the queue.
LEMMA ReadsKept ==
    ASSUME TypeOK, NodeInv, NEW t \in Threads, Others(t), NEW u \in Threads \ {t},
           UNCHANGED <<head, tail, dequeued>>, Queue \subseteq Queue',
           \A n \in Queue : data'[n] = data[n] /\ (next[n] # Null => next'[n] = next[n])
    PROVE  HeadRead(u)' /\ TailRead(u)' /\ LastRead(u)' /\ Value(u)'
<1>1. ThreadInv(u)
  BY DEF NodeInv
<1>2. /\ head.ptr \in Queue /\ tail.ptr \in Queue
      /\ tail.ptr # head.ptr => next[head.ptr] # Null
  <2>1. \A n \in Queue : next[n] = Null => Place(n) = enqueued
    BY QueueNodes
  <2>2. Place(tail.ptr) \in dequeued .. enqueued /\ Place(head.ptr) = dequeued
    BY DEF NodeInv, QueueInv, Place
  <2>3. \A n \in Queue : Place(n) \in dequeued .. enqueued
    BY DEF NodeInv, QueueInv
  <2>4. \A n, m \in Queue : Place(n) = Place(m) => n = m
    BY QueueNodes
  <2> QED BY <2>1, <2>2, <2>4, QueueNodes DEF TypeOK
<1>3. HeadRead(u)'
  BY <1>1, <1>2 DEF ThreadInv, HeadRead, Others
<1>4. TailRead(u)'
  BY <1>1, <1>2 DEF ThreadInv, TailRead, Others
<1>5. LastRead(u)'
  <2>1. \A n \in Queue : Place(n)' = Place(n)
    BY DEF Place
  <2> SUFFICES ASSUME pc[u] \in LinkPC \ {"e_tail"}
               PROVE  /\ last[u].ptr \in Queue'
                      /\ \A n : n = last[u].ptr => Place(n)' <= Place(tail.ptr)'
    BY DEF LastRead, Others
  <2>2. last[u].ptr \in Queue /\ Place(last[u].ptr) <= Place(tail.ptr)
    BY <1>1 DEF ThreadInv, LastRead
  <2>3. \A n : n = tail.ptr => Place(n)' = Place(n)
    BY <1>2, <2>1
  <2>4. Place(tail.ptr)' = Place(tail.ptr)
    BY <2>3
  <2> QED BY <2>1, <2>2, <2>4
<1>6. Value(u)'
  BY <1>1 DEF ThreadInv, Value, Others
<1> QED BY <1>3, <1>4, <1>5, <1>6

\* A step that keeps the guarded nodes guarded keeps what others refer to.
LEMMA RefersKept ==
    ASSUME NodeInv, NEW t \in Threads, Others(t), NEW u \in Threads \ {t},
           \A n : Guarded(n) => Guarded(n)' /\ data'[n] = data[n]
    PROVE  Refers(u)'
<1>1. Refers(u)
  BY DEF NodeInv, ThreadInv
<1> QED BY <1>1 DEF Refers, Others

\* A step beside the list of a thread keeps what the thread knows of it.
LEMMA ListKept ==
    ASSUME NodeInv, NEW t \in Threads, Others(t), NEW u \in Threads \ {t},
           Held(u)' = Held(u), \A n \in Held(u) : next'[n] = next[n]
    PROVE  ListRead(u)'
<1>1. ListRead(u)
  BY DEF NodeInv, ThreadInv
<1>2. pc[u] \in LinkPC => node[u] \in Held(u)
  BY HeldParts
<1> QED BY <1>1, <1>2 DEF ListRead, Others, PutPC

\* The queue is kept though other nodes are written, allocated or freed.
LEMMA QueueInvKept ==
    ASSUME TypeOK, NodeInv, Queue' = Queue, UNCHANGED <<head, tail, enqueued, dequeued>>,
           \A n \in Queue : data'[n] = data[n] /\ next'[n] = next[n]
    PROVE  QueueInv'
<1>1. \A n \in Queue : Place(n)' = Place(n)
  BY DEF Place
<1>2. tail.ptr \in Queue
  BY QueueNodes
<1>3. \A n : n = tail.ptr => Place(n)' = Place(n)
  BY <1>1, <1>2
<1>4. \A n \in Queue : next[n] \in Queue \cup {Null}
  BY QueueNodes
<1> QED BY <1>1, <1>2, <1>3, <1>4 DEF QueueInv, NodeInv

\* A step that writes, allocates or frees nodes outside of the queue.
LEMMA AsideStep ==
    ASSUME TypeOK, NodeInv, NodeInOnePlace', NEW t \in Threads, Others(t),
           next' \in Links, UNCHANGED <<head, tail, data, enqueued, dequeued>>,
           Queue' = Queue, \A n \in Queue : next'[n] = next[n],
           \A u \in Threads \ {t} :
               Held(u)' = Held(u) /\ \A n \in Held(u) : next'[n] = next[n],
           \A n : Guarded(n) => Guarded(n)',
           FreeEnds', ListRead(t)', HeadRead(t)', TailRead(t)', Value(t)',
           pc'[t] \notin LinkPC \ {"e_tail"}, pc'[t] \notin RefPC \cup {"d_data"}
    PROVE  NodeInv'
<1>1. QueueInv'
  BY QueueInvKept
<1>2. ASSUME NEW u \in Threads \ {t} PROVE ThreadInv(u)'
  <2>1. HeadRead(u)' /\ TailRead(u)' /\ LastRead(u)' /\ Value(u)'
    BY ReadsKept
  <2>2. Refers(u)'
    BY RefersKept
  <2>3. ListRead(u)'
    BY ListKept
  <2> QED BY <2>1, <2>2, <2>3 DEF ThreadInv
<1>3. ThreadInv(t)'
  BY DEF ThreadInv, LastRead, Refers, RefPC
<1> QED BY <1>1, <1>2, <1>3 DEF NodeInv

-----------------------------------------------------------------------------
(***************************************************************************)
(* The nodes: steps that read shared memory, or count.                     *)
(***************************************************************************)

\* pop_count says whether a Dequeue is the only one.
LEMMA AloneCounted ==
    ASSUME TypeOK, CountInv, pop_count = 1, NEW t \in Counted
    PROVE  Counted \subseteq {t}
<1> SUFFICES ASSUME NEW u \in Counted, u # t
             PROVE  FALSE
  OBVIOUS
<1>1. IsFiniteSet(Counted)
  <2>1. Counted \subseteq {v \in Threads : pc[v] # "idle"}
    BY DEF Counted, Busy, PutPC
  <2> QED BY <2>1, FS_Subset DEF CountInv, Busy
<1>2. {t, u} \subseteq Counted
  OBVIOUS
<1>3. Cardinality({t, u}) = 2
  <2>1. IsFiniteSet({t}) /\ Cardinality({t}) = 1
    BY FS_Singleton
  <2>2. Cardinality({t} \cup {u}) = 2
    BY <2>1, FS_AddElement
  <2>3. {t, u} = {t} \cup {u}
    OBVIOUS
  <2> QED BY <2>2, <2>3
<1>4. Cardinality({t, u}) <= Cardinality(Counted)
  BY <1>1, <1>2, FS_Subset
<1>5. Cardinality(Counted) \in Nat /\ Cardinality(Counted) <= 1
  BY <1>1, FS_CardinalityType DEF CountInv
<1> QED BY <1>3, <1>4, <1>5

\* The steps of Enqueue that change no shared pointer.
LEMMA EnqueueReadsNodes ==
    ASSUME TypeOK, NodeInv, NEW t \in Threads,
           \/ EnqueueReadTail(t) \/ EnqueueReadNext(t) \/ EnqueueCheck(t)
           \/ (EnqueueLink(t) /\ next[last[t].ptr] # Null) \/ EnqueueSize(t)
    PROVE  NodeInv'
<1> USE DEF EnqueueReadTail, EnqueueReadNext, EnqueueCheck, EnqueueLink, EnqueueSize,
        Step, Forget, shared, locals, own_list, history, NoStampNode
<1>1. UNCHANGED <<head, tail, data, next, allocated, free_list, enqueued, dequeued>>
  OBVIOUS
<1>2. Others(t)
  BY DEF TypeOK, Others
<1>3. ThreadInv(t)
  BY DEF NodeInv
<1>4. Held(t)' = Held(t)
  <2>1. /\ pc[t] \in LinkPC => pc'[t] \in LinkPC /\ node'[t] = node[t]
        /\ pc'[t] \in LinkPC => pc[t] \in LinkPC
    BY DEF TypeOK, LinkPC
  <2>2. /\ pc[t] \notin TakePC \cup TakenPC \cup PutPC
        /\ pc'[t] \notin TakePC \cup TakenPC \cup PutPC
    BY DEF TypeOK, TakePC, TakenPC, PutPC
  <2> QED BY <2>1, <2>2, HeldParts, HeldPartsNext
<1>5. pc'[t] \in LinkPC \cup DoomPC => pc[t] \in LinkPC \cup DoomPC
  BY DEF TypeOK, LinkPC, DoomPC
<1>6. ListRead(t)'
  BY <1>3, <1>4 DEF TypeOK, ThreadInv, ListRead, LinkPC, TakenPC, PutPC
<1>7. HeadRead(t)'
  BY <1>3 DEF TypeOK, ThreadInv, HeadRead, StampNode
<1>8. TailRead(t)'
  BY <1>3 DEF TypeOK, ThreadInv, TailRead, StampNode
<1>9. Value(t)'
  BY <1>3 DEF TypeOK, ThreadInv, Value, AddPC
<1>10. pc'[t] \in LinkPC \ {"e_tail"} =>
         last'[t].ptr \in Queue /\ Place(last'[t].ptr) <= Place(tail.ptr)
  <2>1. tail.ptr \in Queue /\ Place(tail.ptr) \in Int
    BY QueueNodes DEF NodeInv, QueueInv, TypeOK
  <2>2. CASE EnqueueReadTail(t)
    <3>1. last'[t] = tail
      BY <2>2 DEF TypeOK
    <3> QED BY <2>1, <3>1
  <2>3. CASE ~ EnqueueReadTail(t)
    <3>1. pc'[t] \in LinkPC \ {"e_tail"} =>
            pc[t] \in LinkPC \ {"e_tail"} /\ last'[t] = last[t]
      BY <2>3 DEF TypeOK, LinkPC
    <3> QED BY <1>3, <3>1 DEF ThreadInv, LastRead
  <2> QED BY <2>2, <2>3
<1>11. pc'[t] \notin RefPC /\ pc'[t] # "d_data"
  BY DEF TypeOK, RefPC
<1> QED BY <1>1, <1>2, <1>4, <1>5, <1>6, <1>7, <1>8, <1>9, <1>10, <1>11, QuietStep

\* The steps of Dequeue that change no shared pointer.
LEMMA DequeueReadsNodes ==
    ASSUME TypeOK, NodeInv, NEW t \in Threads,
           \/ Dequeue(t) \/ DequeueReadHead(t) \/ DequeueReadTail(t)
           \/ DequeueReadNext(t) \/ DequeueCheck(t) \/ DequeueEmpty(t)
           \/ (DequeueSwing(t) /\ head # first[t])
           \/ DequeueData(t) \/ DequeueSize(t)
    PROVE  NodeInv'
<1> USE DEF Dequeue, DequeueReadHead, DequeueReadTail, DequeueReadNext, DequeueCheck,
        DequeueEmpty, DequeueSwing, DequeueData, DequeueSize, Swung,
        Step, Forget, shared, locals, own_list, history, NoStampNode
<1>1. UNCHANGED <<head, tail, data, next, allocated, free_list, enqueued, dequeued>>
  OBVIOUS
<1>2. Others(t)
  BY DEF TypeOK, Others
<1>3. ThreadInv(t)
  BY DEF NodeInv
<1>4. Held(t)' = Held(t)
  <2>1. CASE DequeueData(t)
    <3>1. pc[t] \in TakePC /\ pc'[t] \in TakePC /\ node'[t] = node[t]
      BY <2>1 DEF TypeOK, TakePC
    <3> QED BY <3>1, HeldParts, HeldPartsNext
  <2>2. CASE ~ DequeueData(t)
    <3>1. /\ pc[t] \notin LinkPC \cup TakePC \cup TakenPC \cup PutPC
          /\ pc'[t] \notin LinkPC \cup TakePC \cup TakenPC \cup PutPC
      BY <2>2 DEF TypeOK, LinkPC, TakePC, TakenPC, PutPC
    <3> QED BY <3>1, HeldParts, HeldPartsNext
  <2> QED BY <2>1, <2>2
<1>5. pc'[t] \notin LinkPC \cup DoomPC
  BY DEF TypeOK, LinkPC, DoomPC
<1>6. ListRead(t)'
  BY <1>3, <1>4 DEF TypeOK, ThreadInv, ListRead, LinkPC, TakenPC, PutPC
<1>7. HeadRead(t)'
  BY <1>3 DEF TypeOK, ThreadInv, HeadRead, StampNode
<1>8. TailRead(t)'
  BY <1>3 DEF TypeOK, ThreadInv, TailRead, StampNode
<1>9. Value(t)'
  BY <1>3 DEF TypeOK, ThreadInv, Value, Refers, AddPC
<1>10. pc'[t] \in RefPC => Guarded(first'[t].ptr)
  <2>1. CASE DequeueReadHead(t)
    <3>1. first'[t] = head
      BY <2>1 DEF TypeOK
    <3>2. Guarded(head.ptr)
      BY QueueNodes, QueueGuarded
    <3> QED BY <3>1, <3>2
  <2>2. CASE ~ DequeueReadHead(t)
    <3>1. pc'[t] \in RefPC => pc[t] \in RefPC /\ first'[t] = first[t]
      BY <2>2 DEF TypeOK, RefPC
    <3> QED BY <1>3, <3>1 DEF ThreadInv, Refers, RefPC
  <2> QED BY <2>1, <2>2
<1>11. pc'[t] \notin LinkPC /\ pc'[t] # "d_data"
  BY DEF TypeOK, LinkPC
<1> QED BY <1>1, <1>2, <1>4, <1>5, <1>6, <1>7, <1>8, <1>9, <1>10, <1>11, QuietStep

\* The steps of TryDelete that change no shared pointer.
LEMMA TryDeleteReadsNodes ==
    ASSUME TypeOK, NodeInv, CountInv, NEW t \in Threads,
           \/ TryDeleteCheck(t) \/ TryDeleteCount(t) \/ AddListToFreeList(t)
           \/ AddNodeRead(t) \/ (AddNodeCAS(t) /\ free_list # local_next[t])
           \/ AddNodeCount(t)
    PROVE  NodeInv'
<1> USE DEF TryDeleteCheck, TryDeleteCount, AddListToFreeList, AddNodeRead,
        AddNodeCAS, AddNodeCount, Step, shared, locals, own_list, history
<1>1. UNCHANGED <<head, tail, data, next, allocated, free_list, enqueued, dequeued>>
  OBVIOUS
<1>2. Others(t)
  BY DEF TypeOK, Others
<1>3. ThreadInv(t)
  BY DEF NodeInv
<1>4. Held(t)' = Held(t) /\ ListRead(t)'
  <2>1. CASE TryDeleteCheck(t)
    <3>1. Held(t) = {node[t]} /\ node[t] \in Nodes
      <4>1. Held(t) = {node[t]}
        BY <2>1, HeldParts DEF TakePC
      <4> QED BY <4>1, Places DEF NodeInv, TypeOK
    <3>2. CASE pc'[t] = "td_free"
      BY <2>1, <3>1, <3>2, HeldPartsNext
         DEF TypeOK, ListRead, LinkPC, TakePC, TakenPC, PutPC
    <3>3. CASE pc'[t] # "td_free"
      <4>1. /\ pc'[t] = "fl_read" /\ node'[t] = node[t]
            /\ old_free_list'[t] = node[t] /\ list_end'[t] = node[t]
        BY <2>1, <3>3 DEF TypeOK
      <4>2. Held(t)' = Part(next', allocated', node[t], node[t])
        BY <4>1, HeldPartsNext DEF PutPC
      <4>3. Held(t)' = {node[t]}
        BY <3>1, <4>2, PartOne
      <4> QED BY <3>1, <4>1, <4>3, NullNoNode DEF ListRead, LinkPC, TakenPC, PutPC
    <3> QED BY <3>2, <3>3
  <2>2. CASE TryDeleteCount(t)
    <3>1. Held(t) = Part(next, allocated, old_free_list[t], Null)
      BY <2>2, HeldParts DEF TakenPC
    <3>2. old_free_list[t] = Null => Held(t) = {}
      BY <3>1, PartNull
    <3>3. Held(t)' = Held(t)
      BY <2>2, <3>1, <3>2, HeldPartsNext DEF TypeOK, LinkPC, TakePC, TakenPC, PutPC
    <3> QED BY <1>3, <2>2, <3>3 DEF TypeOK, ThreadInv, ListRead, LinkPC, TakenPC, PutPC
  <2>3. CASE AddListToFreeList(t)
    <3>1. Held(t) = Part(next, allocated, old_free_list[t], Null)
      BY <2>3, HeldParts DEF TakenPC
    <3>2. Held(t) = Chain(old_free_list[t])
      BY <3>1 DEF Chain, Segment, Part
    <3>3. PICK e : e = CHOOSE n \in Chain(old_free_list[t]) : next[n] = Null
      OBVIOUS
    <3>4. old_free_list[t] # Null /\ node[t] = Null /\ \E n \in Held(t) : next[n] = Null
      BY <1>3, <2>3 DEF ThreadInv, ListRead, TakenPC
    <3>5. e \in Held(t) /\ next[e] = Null
      BY <3>2, <3>3, <3>4
    <3>6. /\ pc'[t] = "fl_read" /\ node'[t] = node[t]
          /\ old_free_list'[t] = old_free_list[t] /\ list_end'[t] = e
      BY <2>3, <3>3 DEF TypeOK
    <3>7. Held(t)' = Part(next, allocated, old_free_list[t], e)
      BY <1>1, <3>6, HeldPartsNext DEF PutPC
    <3>8. next \in Links /\ old_free_list[t] \in NodeOrNull
      BY DEF TypeOK, Links
    <3>9. Held(t)' = Held(t)
      BY <3>1, <3>5, <3>7, <3>8, PartEnd
    <3> QED BY <3>4, <3>5, <3>6, <3>9 DEF ListRead, LinkPC, TakenPC, PutPC
  <2>4. CASE AddNodeRead(t) \/ AddNodeCAS(t)
    <3>1. Held(t)' = Held(t)
      BY <2>4, <1>1, HeldParts, HeldPartsNext DEF TypeOK, PutPC
    <3> QED BY <1>3, <2>4, <3>1 DEF TypeOK, ThreadInv, ListRead, LinkPC, TakenPC, PutPC
  <2>5. CASE AddNodeCount(t)
    BY <2>5, HeldParts, HeldPartsNext
       DEF TypeOK, ListRead, LinkPC, TakePC, TakenPC, PutPC
  <2> QED BY <2>1, <2>2, <2>3, <2>4, <2>5
<1>5. pc'[t] \in LinkPC \cup DoomPC => Counted \subseteq {t}
  <2>1. pc'[t] \in LinkPC \cup DoomPC => pop_count = 1 /\ t \in Counted
    BY DEF TypeOK, LinkPC, DoomPC, Counted
  <2> QED BY <2>1, AloneCounted
<1>6. pc'[t] \notin LinkPC /\ pc'[t] \notin RefPC /\ pc'[t] # "d_data"
  BY DEF TypeOK, LinkPC, RefPC
<1>7. HeadRead(t)'
  BY <1>3 DEF TypeOK, ThreadInv, HeadRead, StampNode
<1>8. TailRead(t)'
  BY <1>3 DEF TypeOK, ThreadInv, TailRead, StampNode
<1>9. Value(t)'
  BY <1>3 DEF TypeOK, ThreadInv, Value, AddPC
<1> QED BY <1>1, <1>2, <1>4, <1>5, <1>6, <1>7, <1>8, <1>9, QuietStep

-----------------------------------------------------------------------------
(***************************************************************************)
(* The nodes: steps that write, allocate or free nodes, or free_list.      *)
(***************************************************************************)

\* malloc gives Enqueue a node that is nowhere else.
LEMMA EnqueueNodes ==
    ASSUME TypeOK, NodeInv, NEW t \in Threads, Enqueue(t)
    PROVE  NodeInv'
<1> USE DEF Enqueue, Step, own_list
<1>1. PICK n \in Nodes \ allocated :
        /\ allocated' = allocated \cup {n}
        /\ next' = [next EXCEPT ![n] = Null]
        /\ node' = [node EXCEPT ![t] = n]
  OBVIOUS
<1>2. Others(t)
  BY DEF TypeOK, Others
<1>3. ThreadInv(t)
  BY DEF NodeInv
<1>4. next' \in Links /\ \A m \in allocated : next'[m] = next[m] /\ m \in allocated'
  BY <1>1 DEF TypeOK, Links, NodeOrNull
<1>5. Held(t) = {} /\ Held(t)' = {n}
  <2>1. pc[t] \notin LinkPC \cup TakePC \cup TakenPC \cup PutPC
    BY DEF LinkPC, TakePC, TakenPC, PutPC
  <2>2. pc'[t] \in LinkPC /\ node'[t] = n
    BY <1>1 DEF TypeOK, LinkPC
  <2> QED BY <2>1, <2>2, HeldParts, HeldPartsNext
<1>6. \A u \in Threads \ {t} : Held(u)' = Held(u)
  <2> TAKE u \in Threads \ {t}
  <2>1. Agree(next, next', allocated, allocated', Held(u))
    BY <1>4, Places DEF NodeInv, Agree
  <2> QED BY <1>2, <1>4, <2>1, HeldKept DEF Others
<1>7. Queue' = Queue
  <2>1. Agree(next, next', allocated, allocated', Queue)
    BY <1>4, Places DEF NodeInv, Agree
  <2> QED BY <1>4, <2>1, QueueKept
<1>8. Free' = Free
  <2>1. Agree(next, next', allocated, allocated', Free)
    BY <1>4, Places DEF NodeInv, Agree
  <2> QED BY <1>4, <2>1, FreeKept
<1>9. NodeInOnePlace'
  BY <1>1, <1>5, <1>6, <1>7, <1>8, Places DEF NodeInv, NodeInOnePlace, Queue, Free
<1>10. \A m : Guarded(m) => Guarded(m)'
  <2> SUFFICES ASSUME NEW m, Guarded(m), NEW u \in Threads, pc'[u] \in LinkPC \cup DoomPC
               PROVE  m \in allocated' /\ m \notin Held(u)'
    BY <1>1 DEF Guarded
  <2>1. m \in allocated /\ m \in allocated' /\ m # n
    BY <1>1 DEF Guarded
  <2>2. CASE u = t
    BY <1>5, <2>1, <2>2
  <2>3. CASE u # t
    BY <1>2, <1>6, <2>1, <2>3 DEF Others, Guarded
  <2> QED BY <2>2, <2>3
<1>11. FreeEnds'
  BY <1>4, <1>8, Places DEF NodeInv, FreeEnds
<1>12. ListRead(t)'
  BY <1>1 DEF TypeOK, ListRead, LinkPC, TakenPC, PutPC
<1>13. HeadRead(t)' /\ TailRead(t)' /\ Value(t)'
  BY <1>3 DEF TypeOK, ThreadInv, HeadRead, TailRead, Value, AddPC
<1>14. pc'[t] \notin LinkPC \ {"e_tail"} /\ pc'[t] \notin RefPC \cup {"d_data"}
  BY DEF TypeOK, LinkPC, RefPC
<1>15. /\ \A m \in Queue : next'[m] = next[m]
       /\ \A u \in Threads \ {t} : \A m \in Held(u) : next'[m] = next[m]
  BY <1>4, Places DEF NodeInv
<1> QED BY <1>2, <1>4, <1>6, <1>7, <1>9, <1>10, <1>11, <1>12, <1>13, <1>14, <1>15, AsideStep

\* The node has left the queue and is in no other place, so it can go.
LEMMA FreeNodes ==
    ASSUME TypeOK, NodeInv, NEW t \in Threads, TryDeleteFree(t) \/ ReleaseFreeList(t)
    PROVE  NodeInv'
<1> USE DEF TryDeleteFree, ReleaseFreeList, Step, own_list, history
<1>1. Others(t)
  BY DEF TypeOK, Others
<1>2. ThreadInv(t)
  BY DEF NodeInv
<1>3. next' = next /\ next' \in Links
  BY DEF TypeOK, Links
<1>4. allocated' = allocated \ Held(t)
  <2>1. CASE TryDeleteFree(t)
    <3>1. Held(t) = {node[t]}
      BY <2>1, HeldParts DEF TakePC
    <3> QED BY <2>1, <3>1
  <2>2. CASE ReleaseFreeList(t)
    <3>1. Held(t) = Part(next, allocated, old_free_list[t], Null)
      BY <2>2, HeldParts DEF TakenPC
    <3>2. Held(t) = Chain(old_free_list[t])
      BY <3>1 DEF Chain, Segment, Part
    <3> QED BY <2>2, <3>2
  <2> QED BY <2>1, <2>2
<1>5. Held(t)' = {}
  <2>1. pc'[t] \notin LinkPC \cup TakePC \cup TakenPC \cup PutPC
    BY DEF TypeOK, LinkPC, TakePC, TakenPC, PutPC
  <2> QED BY <2>1, HeldPartsNext
<1>6. \A u \in Threads \ {t} : Held(u)' = Held(u)
  <2> TAKE u \in Threads \ {t}
  <2>1. Agree(next, next', allocated, allocated', Held(u))
    BY <1>3, <1>4, Places DEF NodeInv, Agree
  <2> QED BY <1>1, <1>3, <2>1, HeldKept DEF Others
<1>7. Queue' = Queue
  <2>1. Agree(next, next', allocated, allocated', Queue)
    BY <1>3, <1>4, Places DEF NodeInv, Agree
  <2> QED BY <1>3, <2>1, QueueKept
<1>8. Free' = Free
  <2>1. Agree(next, next', allocated, allocated', Free)
    BY <1>3, <1>4, Places DEF NodeInv, Agree
  <2> QED BY <1>3, <2>1, FreeKept
<1>9. NodeInOnePlace'
  BY <1>4, <1>5, <1>6, <1>7, <1>8, Places DEF NodeInv, NodeInOnePlace, Queue, Free
<1>10. \A m : Guarded(m) => Guarded(m)'
  <2>1. pc[t] \in DoomPC
    BY DEF DoomPC
  <2> SUFFICES ASSUME NEW m, Guarded(m), NEW u \in Threads, pc'[u] \in LinkPC \cup DoomPC
               PROVE  m \in allocated' /\ m \notin Held(u)'
    BY <1>4, <2>1 DEF Guarded
  <2>2. m \in allocated'
    BY <1>4, <2>1 DEF Guarded
  <2>3. m \notin Held(u)'
    BY <1>1, <1>5, <1>6 DEF Others, Guarded
  <2> QED BY <2>2, <2>3
<1>11. FreeEnds'
  BY <1>3, <1>8 DEF NodeInv, FreeEnds
<1>12. ListRead(t)'
  BY DEF TypeOK, ListRead, LinkPC, TakenPC, PutPC
<1>13. HeadRead(t)' /\ TailRead(t)' /\ Value(t)'
  BY <1>2 DEF TypeOK, ThreadInv, HeadRead, TailRead, Value, AddPC
<1>14. pc'[t] \notin LinkPC \ {"e_tail"} /\ pc'[t] \notin RefPC \cup {"d_data"}
  BY DEF TypeOK, LinkPC, RefPC
<1> QED BY <1>1, <1>3, <1>6, <1>7, <1>9, <1>10, <1>11, <1>12, <1>13, <1>14, AsideStep

\* free_list goes to the thread as a whole.
LEMMA TakeNodes ==
    ASSUME TypeOK, NodeInv, NEW t \in Threads, TryDeleteTake(t)
    PROVE  NodeInv'
<1> USE DEF TryDeleteTake, Step, history
<1>1. Others(t)
  BY DEF TypeOK, Others
<1>2. ThreadInv(t)
  BY DEF NodeInv
<1>3. next' = next /\ allocated' = allocated /\ next' \in Links
  BY DEF TypeOK, Links
<1>4. Held(t) = {}
  <2>1. pc[t] \notin LinkPC \cup TakePC \cup TakenPC \cup PutPC
    BY DEF LinkPC, TakePC, TakenPC, PutPC
  <2> QED BY <2>1, HeldParts
<1>5. Held(t)' = Free
  <2>1. pc'[t] \in TakenPC /\ old_free_list'[t] = free_list
    BY DEF TypeOK, TakenPC
  <2> QED BY <1>3, <2>1, HeldPartsNext, QueueParts
<1>6. Free' = {}
  BY QueuePartsNext, PartNull
<1>7. \A u \in Threads \ {t} : Held(u)' = Held(u)
  BY <1>1, <1>3, HeldKept DEF Others, Agree
<1>8. Queue' = Queue
  BY <1>3, QueueKept DEF Agree
<1>9. NodeInOnePlace'
  BY <1>3, <1>4, <1>5, <1>6, <1>7, <1>8, Places DEF NodeInv, NodeInOnePlace, Queue, Free
<1>10. \A m : Guarded(m) => Guarded(m)'
  <2>1. pc'[t] \notin LinkPC \cup DoomPC
    BY DEF TypeOK, LinkPC, DoomPC
  <2> QED BY <1>1, <1>3, <1>7, <2>1 DEF Others, Guarded
<1>11. FreeEnds'
  BY DEF FreeEnds
<1>12. ListRead(t)'
  <2>1. free_list = Null \/ \E n \in Free : next[n] = Null
    BY DEF NodeInv, FreeEnds
  <2>2. pc'[t] = "td_count" /\ old_free_list'[t] = free_list /\ node'[t] = node[t]
    BY DEF TypeOK
  <2>3. node[t] = Null
    BY <1>2 DEF ThreadInv, ListRead
  <2> QED BY <1>3, <1>5, <2>1, <2>2, <2>3 DEF ListRead, LinkPC, TakenPC, PutPC
<1>13. HeadRead(t)' /\ TailRead(t)' /\ Value(t)'
  BY <1>2 DEF TypeOK, ThreadInv, HeadRead, TailRead, Value, AddPC
<1>14. pc'[t] \notin LinkPC \ {"e_tail"} /\ pc'[t] \notin RefPC \cup {"d_data"}
  BY DEF TypeOK, LinkPC, RefPC
<1> QED BY <1>1, <1>3, <1>7, <1>8, <1>9, <1>10, <1>11, <1>12, <1>13, <1>14, AsideStep

\* The end of a thread's list gets the list in front of which it will be put.
LEMMA AddNodeLinkNodes ==
    ASSUME TypeOK, NodeInv, NEW t \in Threads, AddNodeLink(t)
    PROVE  NodeInv'
<1> USE DEF AddNodeLink, Step, locals, own_list, history
<1>1. Others(t)
  BY DEF Others, TypeOK
<1>2. ThreadInv(t)
  BY DEF NodeInv
<1>3. PICK e : e = list_end[t]
  OBVIOUS
<1>4. Held(t) = Part(next, allocated, old_free_list[t], e)
  BY <1>3, HeldParts DEF PutPC
<1>5. e \in Held(t) /\ e \in Nodes /\ old_free_list[t] # Null
  <2>1. e \in Held(t) /\ old_free_list[t] # Null
    BY <1>2, <1>3 DEF ThreadInv, ListRead, PutPC
  <2> QED BY <2>1, <1>4 DEF Part
<1>6. /\ next \in Links /\ next' \in Links /\ next'[e] = local_next[t]
      /\ \A m \in Nodes \ {e} : next'[m] = next[m]
      /\ allocated' = allocated
  BY <1>3, <1>5 DEF TypeOK, Links
<1>7. Held(t)' = Held(t)
  <2>1. /\ pc'[t] \in PutPC /\ old_free_list'[t] = old_free_list[t]
        /\ list_end'[t] = e
    BY <1>3 DEF TypeOK, PutPC
  <2>2. Held(t)' = Part(next', allocated', old_free_list[t], e)
    BY <2>1, HeldPartsNext
  <2>3. Agree(next, next', allocated, allocated',
              Part(next, allocated, old_free_list[t], e) \ {e})
    <3>1. Part(next, allocated, old_free_list[t], e) \subseteq Nodes
      BY DEF Part
    <3> QED BY <1>6, <3>1 DEF Agree
  <2>4. old_free_list[t] \in NodeOrNull
    BY DEF TypeOK
  <2>5. Part(next', allocated', old_free_list[t], e)
        = Part(next, allocated, old_free_list[t], e)
    BY <1>6, <2>3, <2>4, PartSame
  <2> QED BY <1>4, <2>2, <2>5
<1>8. /\ \A m \in Queue : next'[m] = next[m]
      /\ \A m \in Free : next'[m] = next[m]
      /\ \A u \in Threads \ {t} : \A m \in Held(u) : next'[m] = next[m]
  <2>1. \A m \in allocated : m \in Nodes
    BY DEF TypeOK
  <2>2. e \notin Queue /\ e \notin Free /\ \A u \in Threads \ {t} : e \notin Held(u)
    BY <1>5, Places DEF NodeInv
  <2>3. \A m \in Queue : m \in Nodes /\ m # e
    BY <2>1, <2>2, Places DEF NodeInv
  <2>4. \A m \in Free : m \in Nodes /\ m # e
    BY <2>1, <2>2, Places DEF NodeInv
  <2>5. \A u \in Threads \ {t} : \A m \in Held(u) : m \in Nodes /\ m # e
    BY <2>1, <2>2, Places DEF NodeInv
  <2> QED BY <1>6, <2>3, <2>4, <2>5
<1>9. \A u \in Threads \ {t} : Held(u)' = Held(u)
  <2> TAKE u \in Threads \ {t}
  <2>1. Agree(next, next', allocated, allocated', Held(u))
    BY <1>6, <1>8 DEF Agree
  <2> QED BY <1>1, <1>6, <2>1, HeldKept DEF Others
<1>10. Queue' = Queue
  <2>1. Agree(next, next', allocated, allocated', Queue)
    BY <1>6, <1>8 DEF Agree
  <2> QED BY <1>6, <2>1, QueueKept
<1>11. Free' = Free
  <2>1. Agree(next, next', allocated, allocated', Free)
    BY <1>6, <1>8 DEF Agree
  <2> QED BY <1>6, <2>1, FreeKept
<1>12. NodeInOnePlace'
  BY <1>6, <1>7, <1>9, <1>10, <1>11, Places DEF NodeInv, NodeInOnePlace, Queue, Free
<1>13. \A m : Guarded(m) => Guarded(m)'
  <2>1. pc'[t] \notin LinkPC \cup DoomPC
    BY DEF TypeOK, LinkPC, DoomPC
  <2> QED BY <1>1, <1>6, <1>9, <2>1 DEF Others, Guarded
<1>14. FreeEnds'
  BY <1>8, <1>11 DEF NodeInv, FreeEnds
<1>15. ListRead(t)'
  <2>1. /\ pc'[t] = "fl_cas" /\ old_free_list'[t] = old_free_list[t]
        /\ list_end'[t] = e /\ local_next'[t] = local_next[t]
    BY <1>3 DEF TypeOK
  <2> QED BY <1>5, <1>6, <1>7, <2>1 DEF ListRead, LinkPC, TakenPC, PutPC
<1>16. HeadRead(t)' /\ TailRead(t)' /\ Value(t)'
  BY <1>2 DEF TypeOK, ThreadInv, HeadRead, TailRead, Value, AddPC
<1>17. pc'[t] \notin LinkPC \ {"e_tail"} /\ pc'[t] \notin RefPC \cup {"d_data"}
  BY DEF TypeOK, LinkPC, RefPC
<1> QED BY <1>1, <1>6, <1>8, <1>9, <1>10, <1>12, <1>13, <1>14, <1>15, <1>16, <1>17,
           AsideStep

\* The list of the thread is put in front of free_list.
LEMMA AddNodeCASNodes ==
    ASSUME TypeOK, NodeInv, NEW t \in Threads, AddNodeCAS(t), free_list = local_next[t]
    PROVE  NodeInv'
<1> USE DEF AddNodeCAS, Step, history
<1>1. Others(t)
  BY DEF Others, TypeOK
<1>2. ThreadInv(t)
  BY DEF NodeInv
<1>3. next' = next /\ allocated' = allocated /\ next \in Links /\ next' \in Links
  BY DEF TypeOK, Links
<1>4. PICK e : e = list_end[t]
  OBVIOUS
<1>5. Held(t) = Part(next, allocated, old_free_list[t], e)
  BY <1>4, HeldParts DEF PutPC
<1>6. e \in Held(t) /\ old_free_list[t] # Null /\ next[e] = free_list
  BY <1>2, <1>4 DEF ThreadInv, ListRead, PutPC
<1>7. Free' = Held(t) \cup Free
  <2>1. e \in allocated /\ old_free_list[t] \in NodeOrNull
    BY <1>6, Places DEF NodeInv, TypeOK
  <2>2. e \in Part(next, allocated, old_free_list[t], e)
    BY <1>5, <1>6
  <2>3. Part(next, allocated, old_free_list[t], Null)
        = Part(next, allocated, old_free_list[t], e)
          \cup Part(next, allocated, next[e], Null)
    BY <1>3, <2>1, <2>2, PartJoin
  <2>4. Free' = Part(next, allocated, old_free_list[t], Null)
    BY <1>3, QueuePartsNext
  <2> QED BY <1>5, <1>6, <2>3, <2>4, QueueParts
<1>8. Held(t)' = {}
  <2>1. pc'[t] \notin LinkPC \cup TakePC \cup TakenPC \cup PutPC
    BY DEF TypeOK, LinkPC, TakePC, TakenPC, PutPC
  <2> QED BY <2>1, HeldPartsNext
<1>9. \A u \in Threads \ {t} : Held(u)' = Held(u)
  BY <1>1, <1>3, HeldKept DEF Others, Agree
<1>10. Queue' = Queue
  BY <1>3, QueueKept DEF Agree
<1>11. NodeInOnePlace'
  <2>1. allocated' = Queue' \cup Free' \cup UNION {Held(u)' : u \in Threads}
    <3>1. \A u \in Threads : Held(u) \subseteq Held(u)' \cup Free'
      BY <1>7, <1>9
    <3>2. \A u \in Threads : Held(u)' \subseteq Held(u)
      BY <1>8, <1>9
    <3> QED BY <1>3, <1>7, <1>10, <3>1, <3>2, Places DEF NodeInv
  <2>2. /\ Queue' \cap Free' = {}
        /\ \A u \in Threads : /\ Held(u)' \cap (Queue' \cup Free') = {}
                              /\ \A v \in Threads \ {u} : Held(u)' \cap Held(v)' = {}
    BY <1>7, <1>8, <1>9, <1>10, Places DEF NodeInv
  <2> QED BY <2>1, <2>2 DEF NodeInOnePlace, Queue, Free
<1>12. \A m : Guarded(m) => Guarded(m)'
  <2>1. pc'[t] \notin LinkPC \cup DoomPC
    BY DEF TypeOK, LinkPC, DoomPC
  <2> QED BY <1>1, <1>3, <1>9, <2>1 DEF Others, Guarded
<1>13. FreeEnds'
  <2>1. \E n \in Free' : next[n] = Null
    <3>1. CASE free_list = Null
      BY <1>6, <1>7, <3>1
    <3>2. CASE free_list # Null
      BY <1>7, <3>2 DEF NodeInv, FreeEnds
    <3> QED BY <3>1, <3>2
  <2> QED BY <1>3, <2>1 DEF FreeEnds
<1>14. ListRead(t)'
  BY DEF TypeOK, ListRead, LinkPC, TakenPC, PutPC
<1>15. HeadRead(t)' /\ TailRead(t)' /\ Value(t)'
  BY <1>2 DEF TypeOK, ThreadInv, HeadRead, TailRead, Value, AddPC
<1>16. pc'[t] \notin LinkPC \ {"e_tail"} /\ pc'[t] \notin RefPC \cup {"d_data"}
  BY DEF TypeOK, LinkPC, RefPC
<1> QED BY <1>1, <1>3, <1>9, <1>10, <1>11, <1>12, <1>13, <1>14, <1>15, <1>16, AsideStep

-----------------------------------------------------------------------------
(***************************************************************************)
(* The nodes: steps that change the queue.                                 *)
(***************************************************************************)

\* The compare-and-swap that links a node: it succeeds at the last node only.
LEMMA EnqueueLinkNodes ==
    ASSUME TypeOK, NodeInv, NEW t \in Threads, EnqueueLink(t), next[last[t].ptr] = Null
    PROVE  NodeInv'
<1> USE DEF EnqueueLink, Step, locals, own_list
<1>1. Others(t)
  BY DEF Others, TypeOK
<1>2. ThreadInv(t)
  BY DEF NodeInv
<1>3. PICK l, n : l = last[t].ptr /\ n = node[t]
  OBVIOUS
<1>4. /\ l \in Queue /\ l \in Nodes /\ next[l] = Null /\ Place(l) = enqueued
      /\ Place(tail.ptr) = enqueued
  <2>1. l \in Queue /\ Place(l) <= Place(tail.ptr)
    BY <1>2, <1>3 DEF ThreadInv, LastRead, LinkPC
  <2>2. Place(tail.ptr) \in {enqueued, enqueued - 1}
    BY DEF NodeInv, QueueInv
  <2>3. l \in Nodes /\ Place(l) = enqueued
    BY <1>3, <2>1, QueueNodes
  <2> QED BY <1>3, <2>1, <2>2, <2>3 DEF TypeOK
<1>5. Held(t) = {n} /\ n \in Nodes /\ n \in allocated /\ next[n] = Null
      /\ n \notin Queue /\ n # l /\ n # Null
  <2>1. Held(t) = {n}
    BY <1>3, HeldParts DEF LinkPC
  <2>2. n \in allocated /\ n \notin Queue
    BY <2>1, Places DEF NodeInv
  <2>3. next[n] = Null
    BY <1>2, <1>3 DEF ThreadInv, ListRead, LinkPC
  <2> QED BY <1>4, <2>1, <2>2, <2>3, NullNoNode DEF TypeOK
<1>6. /\ next \in Links /\ next' = [next EXCEPT ![l] = n] /\ next' \in Links
      /\ next'[l] = n /\ \A m \in Nodes \ {l} : next'[m] = next[m]
      /\ allocated' = allocated
  BY <1>3, <1>4, <1>5 DEF TypeOK, Links, NodeOrNull
<1>7. Queue' = Queue \cup {n}
  <2>1. l \in allocated /\ head.ptr \in NodeOrNull
    BY <1>4, Places DEF NodeInv, TypeOK, StampNode
  <2>2. l \in Part(next, allocated, head.ptr, Null)
        /\ n \notin Part(next, allocated, head.ptr, Null)
    BY <1>4, <1>5, QueueParts
  <2>3. Part(next', allocated, head.ptr, Null)
        = Part(next, allocated, head.ptr, Null) \cup {n}
    <3>1. LinksBehind(next, next', allocated, l, n)
      BY <1>4, <1>5, <1>6, <2>1 DEF LinksBehind
    <3> QED BY <1>5, <1>6, <2>1, <2>2, <3>1, PartGrow
  <2>4. Queue' = Part(next', allocated, head.ptr, Null)
    BY <1>6, QueuePartsNext
  <2> QED BY <2>3, <2>4, QueueParts
<1>8. Held(t)' = {}
  <2>1. pc'[t] \notin LinkPC \cup TakePC \cup TakenPC \cup PutPC
    BY <1>3, <1>4 DEF TypeOK, LinkPC, TakePC, TakenPC, PutPC
  <2> QED BY <2>1, HeldPartsNext
<1>9. /\ \A m \in Free : next'[m] = next[m]
      /\ \A u \in Threads \ {t} : \A m \in Held(u) : next'[m] = next[m]
  <2>1. \A m \in allocated : m \in Nodes
    BY DEF TypeOK
  <2>2. \A m \in Free : m \in Nodes /\ m # l
    BY <1>4, <2>1, Places DEF NodeInv
  <2>3. \A u \in Threads \ {t} : \A m \in Held(u) : m \in Nodes /\ m # l
    BY <1>4, <2>1, Places DEF NodeInv
  <2> QED BY <1>6, <2>2, <2>3
<1>10. \A u \in Threads \ {t} : Held(u)' = Held(u)
  <2> TAKE u \in Threads \ {t}
  <2>1. Agree(next, next', allocated, allocated', Held(u))
    BY <1>6, <1>9 DEF Agree
  <2> QED BY <1>1, <1>6, <2>1, HeldKept DEF Others
<1>11. Free' = Free
  <2>1. Agree(next, next', allocated, allocated', Free)
    BY <1>6, <1>9 DEF Agree
  <2> QED BY <1>6, <2>1, FreeKept
<1>12. NodeInOnePlace'
  BY <1>5, <1>6, <1>7, <1>8, <1>10, <1>11, Places
     DEF NodeInv, NodeInOnePlace, Queue, Free
<1>13. /\ \A m \in Nodes \ {n} : data'[m] = data[m]
       /\ data'[n] = enqueued + 1 /\ enqueued' = enqueued + 1
       /\ UNCHANGED <<head, tail, dequeued>>
  BY <1>3, <1>4, <1>5 DEF TypeOK
<1>14. /\ \A m \in Queue : m \in Nodes /\ m # n /\ data'[m] = data[m]
       /\ \A m \in Queue : Place(m)' = Place(m)
       /\ Place(n)' = enqueued + 1
       /\ \A m : m = tail.ptr => Place(m)' = Place(m)
  <2>1. \A m \in Queue : m \in Nodes /\ m # n
    BY <1>5, QueueNodes
  <2>2. head.ptr \in Queue /\ tail.ptr \in Queue
    BY QueueNodes
  <2>3. \A m \in Queue : Place(m)' = Place(m)
    BY <1>13, <2>1 DEF Place
  <2> QED BY <1>13, <2>1, <2>2, <2>3 DEF Place
<1>15. QueueInv'
  <2>1. \A m \in Queue : Place(m) \in dequeued .. enqueued
    BY DEF NodeInv, QueueInv
  <2>2. \A m \in Queue' : Place(m)' \in dequeued' .. enqueued'
    BY <1>7, <1>13, <1>14, <2>1 DEF TypeOK
  <2>3. \A m, k \in Queue' : Place(m)' = Place(k)' => m = k
    <3>1. \A m, k \in Queue : Place(m) = Place(k) => m = k
      BY QueueNodes
    <3>2. \A m \in Queue : Place(m)' # Place(n)'
      BY <1>14, <2>1 DEF TypeOK
    <3> QED BY <1>7, <1>14, <3>1, <3>2
  <2>4. ASSUME NEW m \in Queue'
        PROVE  IF next'[m] = Null THEN Place(m)' = enqueued'
               ELSE next'[m] # head'.ptr /\ data'[next'[m]] = Place(m)' + 1
    <3>1. CASE m = n
      BY <1>5, <1>6, <1>13, <1>14, <3>1
    <3>2. CASE m = l
      BY <1>4, <1>5, <1>6, <1>13, <1>14, <3>2, QueueNodes
    <3>3. CASE m # n /\ m # l
      <4>1. m \in Queue /\ next'[m] = next[m] /\ Place(m)' = Place(m)
        BY <1>6, <1>7, <1>14, <3>3
      <4>2. next[m] # Null
        <5>1. next[m] = Null => Place(m) = enqueued
          BY <4>1, QueueNodes
        <5>2. Place(m) = Place(l) => m = l
          BY <1>4, <4>1, QueueNodes
        <5> QED BY <1>4, <3>3, <5>1, <5>2
      <4>3. next[m] # head.ptr /\ data[next[m]] = Place(m) + 1 /\ next[m] \in Queue
        BY <4>1, <4>2, QueueNodes DEF NodeInv, QueueInv
      <4>4. data'[next[m]] = data[next[m]]
        BY <1>14, <4>3
      <4> QED BY <1>13, <4>1, <4>2, <4>3, <4>4
    <3> QED BY <3>1, <3>2, <3>3
  <2>5. tail'.ptr \in Queue' /\ Place(tail.ptr)' = enqueued
    <3>1. tail.ptr \in Queue
      BY QueueNodes
    <3>2. Place(tail.ptr)' = Place(tail.ptr)
      BY <1>14
    <3> QED BY <1>4, <1>7, <1>13, <3>1, <3>2
  <2>6. Place(tail.ptr)' \in {enqueued', enqueued' - 1}
    BY <1>13, <2>5 DEF TypeOK
  <2> QED BY <2>2, <2>3, <2>4, <2>5, <2>6 DEF QueueInv
<1>16. FreeEnds'
  BY <1>3, <1>4, <1>9, <1>11 DEF NodeInv, FreeEnds
<1>17. ASSUME NEW m, Guarded(m)
       PROVE  Guarded(m)' /\ data'[m] = data[m]
  <2>1. m \in Nodes /\ m # n
    BY <1>5, <1>17 DEF Guarded, LinkPC, TypeOK
  <2>2. Guarded(m)'
    BY <1>1, <1>6, <1>8, <1>10, <1>17 DEF Others, Guarded
  <2> QED BY <1>13, <2>1, <2>2
<1>18. ASSUME NEW u \in Threads \ {t} PROVE ThreadInv(u)'
  <2>1. HeadRead(u)' /\ TailRead(u)' /\ LastRead(u)' /\ Value(u)'
    <3>1. \A m \in Queue : next[m] # Null => next'[m] = next[m]
      BY <1>4, <1>6, <1>14
    <3> QED BY <1>1, <1>7, <1>13, <1>14, <3>1, ReadsKept
  <2>2. Refers(u)'
    BY <1>1, <1>17, RefersKept
  <2>3. ListRead(u)'
    BY <1>1, <1>9, <1>10, ListKept
  <2> QED BY <2>1, <2>2, <2>3 DEF ThreadInv
<1>19. ThreadInv(t)'
  <2>1. /\ pc'[t] = "e_swing" /\ node'[t] = n /\ last'[t] = last[t]
        /\ first'[t] = first[t] /\ destination'[t] = destination[t]
    BY <1>3, <1>4 DEF TypeOK
  <2>2. ListRead(t)' /\ LastRead(t)' /\ Refers(t)'
    BY <2>1 DEF ListRead, LastRead, Refers, LinkPC, TakenPC, PutPC, RefPC
  <2>3. HeadRead(t)' /\ Value(t)'
    BY <1>2, <1>13, <2>1 DEF ThreadInv, HeadRead, Value, AddPC
  <2>4. TailRead(t)'
    BY <1>2, <1>3, <1>5, <1>6, <1>13, <2>1 DEF ThreadInv, TailRead
  <2> QED BY <2>2, <2>3, <2>4 DEF ThreadInv
<1> QED BY <1>12, <1>15, <1>16, <1>18, <1>19 DEF NodeInv

\* tail moves, if its stamp is that which was read, and then to the last node.
LEMMA TailMoves ==
    ASSUME TypeOK, NodeInv, NEW t \in Threads,
           EnqueueSwing(t) \/ EnqueueHelp(t) \/ DequeueHelp(t), last[t] = tail,
           NEW n, n = next[tail.ptr]
    PROVE  /\ tail' = [ptr |-> n, stamp |-> tail.stamp + 1] /\ n # Null
           /\ tail.ptr \in Queue /\ n \in Queue /\ n # head.ptr
           /\ Place(n) = Place(tail.ptr) + 1 /\ Place(n) = enqueued
           /\ tail.stamp \in Nat
<1>1. ThreadInv(t)
  BY DEF NodeInv
<1>2. tail' = [ptr |-> n, stamp |-> tail.stamp + 1] /\ n # Null
  BY <1>1 DEF EnqueueSwing, EnqueueHelp, DequeueHelp, Step, Swung, ThreadInv, TailRead
<1>3. tail.ptr \in Queue /\ n \in Queue /\ Place(n) = Place(tail.ptr) + 1
  BY <1>2, QueueNodes
<1>4. n # head.ptr
  BY <1>2, <1>3 DEF NodeInv, QueueInv
<1>5. Place(n) \in dequeued .. enqueued /\ Place(tail.ptr) \in {enqueued, enqueued - 1}
  BY <1>3 DEF NodeInv, QueueInv
<1> QED BY <1>2, <1>3, <1>4, <1>5 DEF TypeOK, StampNode

\* tail is swung, or was already.
LEMMA TailStepNodes ==
    ASSUME TypeOK, NodeInv, NEW t \in Threads,
           EnqueueSwing(t) \/ EnqueueHelp(t) \/ DequeueHelp(t)
    PROVE  NodeInv'
<1> USE DEF EnqueueSwing, EnqueueHelp, DequeueHelp, Step, locals, own_list, history
<1>1. Others(t)
  BY DEF Others, TypeOK
<1>2. ThreadInv(t)
  BY DEF NodeInv
<1>3. UNCHANGED <<head, data, next, allocated, free_list, enqueued, dequeued>>
      /\ next \in Links /\ next' \in Links
  BY DEF TypeOK, Links
<1>4. Held(t)' = Held(t)
  <2>1. CASE EnqueueHelp(t)
    <3>1. pc[t] \in LinkPC /\ pc'[t] \in LinkPC /\ node'[t] = node[t]
      BY <2>1 DEF TypeOK, LinkPC
    <3> QED BY <3>1, HeldParts, HeldPartsNext
  <2>2. CASE ~ EnqueueHelp(t)
    <3>1. /\ pc[t] \notin LinkPC \cup TakePC \cup TakenPC \cup PutPC
          /\ pc'[t] \notin LinkPC \cup TakePC \cup TakenPC \cup PutPC
      BY <2>2 DEF TypeOK, LinkPC, TakePC, TakenPC, PutPC
    <3> QED BY <3>1, HeldParts, HeldPartsNext
  <2> QED BY <2>1, <2>2
<1>5. ListRead(t)' /\ Value(t)'
  BY <1>2, <1>4 DEF TypeOK, ThreadInv, ListRead, Value, LinkPC, TakenPC, PutPC, AddPC
<1>6. /\ HeadRead(t)' /\ LastRead(t)' /\ Refers(t)' /\ last'[t] = last[t]
      /\ pc'[t] \in {"e_size", "e_tail", "d_head"} /\ pc'[t] \notin DoomPC
      /\ pc'[t] \in LinkPC => pc[t] \in LinkPC
  BY <1>2 DEF TypeOK, ThreadInv, HeadRead, LastRead, Refers, LinkPC, DoomPC,
               RefPC
<1>7. CASE last[t] # tail
  <2>1. tail' = tail
    BY <1>7 DEF Swung
  <2>2. TailRead(t)'
    BY <1>2, <1>6, <2>1 DEF ThreadInv, TailRead
  <2>3. pc'[t] \notin LinkPC \ {"e_tail"} /\ pc'[t] \notin RefPC /\ pc'[t] # "d_data"
    BY <1>6 DEF LinkPC, RefPC
  <2> QED BY <1>1, <1>3, <1>4, <1>5, <1>6, <2>1, <2>2, <2>3, QuietStep
<1>8. CASE last[t] = tail
  <2>1. PICK n : n = next[tail.ptr]
    OBVIOUS
  <2>3. /\ tail' = [ptr |-> n, stamp |-> tail.stamp + 1]
        /\ tail.ptr \in Queue /\ n \in Queue /\ n # head.ptr
        /\ Place(n) = Place(tail.ptr) + 1 /\ Place(n) = enqueued
        /\ tail.stamp \in Nat
    BY <1>8, <2>1, TailMoves
  <2>4. tail'.ptr = n /\ tail'.stamp = tail.stamp + 1
    BY <2>3
  <2>5. Queue' = Queue /\ Free' = Free /\ \A u \in Threads : Held(u)' = Held(u)
    <3>1. Queue' = Queue /\ Free' = Free
      BY <1>3, QueueKept, FreeKept DEF Agree
    <3>2. \A u \in Threads \ {t} : Held(u)' = Held(u)
      BY <1>1, <1>3, HeldKept DEF Others, Agree
    <3> QED BY <1>4, <3>1, <3>2
  <2>6. NodeInOnePlace'
    BY <1>3, <2>5, Places DEF NodeInv, NodeInOnePlace, Queue, Free
  <2>7. \A m : Place(m)' = Place(m)
    BY <1>3 DEF Place
  <2>8. QueueInv'
    <3>1. \A m : m = tail'.ptr => Place(m)' = enqueued
      BY <2>3, <2>4, <2>7
    <3>2. Place(tail.ptr)' = enqueued
      BY <3>1
    <3> QED BY <1>3, <2>3, <2>4, <2>5, <2>7, <3>2 DEF NodeInv, QueueInv
  <2>9. FreeEnds'
    BY <1>3, <2>5 DEF NodeInv, FreeEnds
  <2>10. \A m : Guarded(m) => Guarded(m)'
    <3>1. \A u \in Threads : pc'[u] \in LinkPC \cup DoomPC => pc[u] \in LinkPC \cup DoomPC
      BY <1>1, <1>6 DEF Others
    <3> QED BY <1>3, <2>5, <3>1 DEF Guarded
  <2>11. \A u \in Threads : last[u].stamp \in Nat /\ last[u].stamp <= tail.stamp
    BY DEF NodeInv, ThreadInv, TailRead, TypeOK, StampNode
  <2>12. ASSUME NEW u \in Threads \ {t} PROVE ThreadInv(u)'
    <3>1. ThreadInv(u)
      BY DEF NodeInv
    <3>2. HeadRead(u)' /\ Value(u)'
      BY <1>1, <1>3, <2>3, <2>4, <3>1 DEF Others, ThreadInv, HeadRead, Value
    <3>3. TailRead(u)'
      <4>1. last[u].stamp <= tail'.stamp /\ last[u] # tail'
        BY <2>3, <2>4, <2>11
      <4> QED BY <1>1, <3>1, <4>1 DEF Others, ThreadInv, TailRead
    <3>4. LastRead(u)'
      <4>1. \A m : m = tail'.ptr => Place(m)' = Place(tail.ptr) + 1
        BY <2>3, <2>4, <2>7
      <4>2. Place(tail.ptr)' = Place(tail.ptr) + 1
        BY <4>1
      <4>3. \A m \in Queue : Place(m) \in Int
        BY DEF NodeInv, QueueInv, TypeOK
      <4> SUFFICES ASSUME pc[u] \in LinkPC \ {"e_tail"}
                   PROVE  /\ last[u].ptr \in Queue'
                          /\ \A m : m = last[u].ptr => Place(m)' <= Place(tail.ptr)'
        BY <1>1 DEF LastRead, Others
      <4>4. last[u].ptr \in Queue /\ Place(last[u].ptr) <= Place(tail.ptr)
        BY <3>1 DEF ThreadInv, LastRead
      <4> QED BY <2>3, <2>5, <2>7, <4>2, <4>3, <4>4
    <3>5. Refers(u)'
      BY <1>1, <1>3, <2>10, RefersKept
    <3>6. ListRead(u)'
      BY <1>1, <1>3, <2>5, ListKept
    <3> QED BY <3>2, <3>3, <3>4, <3>5, <3>6 DEF ThreadInv
  <2>13. TailRead(t)'
    BY <1>6, <2>3, <2>4, <2>11 DEF TailRead
  <2> QED BY <1>5, <1>6, <2>6, <2>8, <2>9, <2>12, <2>13 DEF NodeInv, ThreadInv
<1> QED BY <1>7, <1>8

\* In one_producer the tail that an Enqueue has read is the tail, and in
\* phases there is none while a Dequeue runs.
LEMMA LastIsTail ==
    ASSUME SafeUse, TypeOK, DisciplineInv, NEW t \in Threads, pc[t] \in DequeuePC,
           NEW u \in Threads, pc[u] \in LinkPC \ {"e_tail"}
    PROVE  last[u] = tail
<1>1. discipline \in {"phases", "one_producer"}
  BY DEF SafeUse, TypeOK
<1>2. pc[u] \in EnqueuePC
  BY DEF LinkPC, EnqueuePC
<1>3. discipline = "one_producer"
  BY <1>1, <1>2 DEF DisciplineInv
<1> QED BY <1>3 DEF DisciplineInv, LinkPC

\* head moves to the node behind it, which is there because tail is not at head.
LEMMA HeadMoves ==
    ASSUME TypeOK, NodeInv, NEW t \in Threads, DequeueSwing(t), head = first[t],
           NEW h, NEW n, h = head.ptr, n = next[head.ptr]
    PROVE  /\ tail.ptr # h /\ local_next[t] = n
           /\ h \in Queue /\ h \in Nodes /\ h \in allocated /\ Place(h) = dequeued
           /\ n \in Queue /\ n \in Nodes /\ n # Null /\ n # h
           /\ Place(n) = dequeued + 1 /\ data[n] = dequeued + 1
           /\ dequeued + 1 <= enqueued
<1>1. ThreadInv(t)
  BY DEF NodeInv
<1>2. tail.ptr # h /\ local_next[t] = n
  BY <1>1 DEF DequeueSwing, Step, ThreadInv, HeadRead
<1>3. h \in Queue /\ h \in Nodes /\ h \in allocated /\ Place(h) = dequeued
  BY QueueNodes, Places DEF NodeInv, Place
<1>4. n # Null
  <2>1. Place(tail.ptr) # Place(h)
    BY <1>2, <1>3, QueueNodes
  <2>2. Place(tail.ptr) \in dequeued .. enqueued
    BY QueueNodes DEF NodeInv, QueueInv
  <2>3. Place(h) # enqueued
    BY <1>3, <2>1, <2>2 DEF TypeOK
  <2> QED BY <1>3, <2>3, QueueNodes
<1>5. n \in Queue /\ n \in Nodes /\ Place(n) = dequeued + 1
  BY <1>3, <1>4, QueueNodes
<1>6. n # h
  BY <1>3, <1>5 DEF TypeOK
<1>7. data[n] = dequeued + 1
  BY <1>5, <1>6 DEF Place
<1>8. dequeued + 1 <= enqueued
  BY <1>5 DEF NodeInv, QueueInv, TypeOK
<1> QED BY <1>2, <1>3, <1>4, <1>5, <1>6, <1>7, <1>8

\* The compare-and-swap that moves head: the node that was the dummy leaves the
\* queue and is with this thread, the next one is the dummy now.
LEMMA DequeueSwingNodes ==
    ASSUME SafeUse, TypeOK, NodeInv, DisciplineInv, NEW t \in Threads,
           DequeueSwing(t), head = first[t]
    PROVE  NodeInv'
<1> USE DEF DequeueSwing, Step, own_list
<1>1. Others(t)
  BY DEF Others, TypeOK
<1>2. ThreadInv(t)
  BY DEF NodeInv
<1>3. PICK h, n : h = head.ptr /\ n = next[head.ptr]
  OBVIOUS
<1>4. UNCHANGED <<tail, data, next, allocated, free_list, enqueued>>
      /\ next \in Links /\ next' \in Links
  BY DEF TypeOK, Links
<1>5. tail.ptr # h /\ local_next[t] = n
  BY <1>3, HeadMoves
<1>6. /\ h \in Queue /\ h \in Nodes /\ h \in allocated /\ Place(h) = dequeued
      /\ n \in Queue /\ n \in Nodes /\ n # Null /\ n # h
      /\ Place(n) = dequeued + 1 /\ data[n] = dequeued + 1
  BY <1>3, HeadMoves
<1>7. /\ head' = [ptr |-> n, stamp |-> head.stamp + 1]
      /\ head'.ptr = n /\ head'.stamp = head.stamp + 1
      /\ pc'[t] = "d_data" /\ node'[t] = h /\ local_next'[t] = n
      /\ dequeued' = dequeued + 1 /\ due'[t] = dequeued + 1
      /\ first'[t] = first[t] /\ last'[t] = last[t]
      /\ destination'[t] = destination[t]
  BY <1>3, <1>5 DEF Swung, TypeOK
<1>8. Queue' = Queue \ {h}
  <2>1. \A x \in Queue : next[x] # h
    BY <1>3, <1>6, NullNoNode DEF NodeInv, QueueInv
  <2>2. Queue = Part(next, allocated, h, Null)
    BY <1>3, QueueParts
  <2>3. Queue' = Part(next, allocated, next[h], Null)
    BY <1>3, <1>4, <1>7, QueuePartsNext
  <2>4. \A x \in Part(next, allocated, h, Null) : next[x] # h
    BY <2>1, <2>2
  <2>5. Part(next, allocated, next[h], Null) = Part(next, allocated, h, Null) \ {h}
    BY <1>3, <1>4, <1>6, <2>4, PartTail
  <2> QED BY <2>2, <2>3, <2>5
<1>9. Held(t) = {} /\ Held(t)' = {h}
  <2>1. pc[t] \notin LinkPC \cup TakePC \cup TakenPC \cup PutPC
    BY DEF LinkPC, TakePC, TakenPC, PutPC
  <2>2. pc'[t] \in TakePC
    BY <1>7 DEF TakePC
  <2> QED BY <1>7, <2>1, <2>2, HeldParts, HeldPartsNext
<1>10. \A u \in Threads \ {t} : Held(u)' = Held(u)
  BY <1>1, <1>4, HeldKept DEF Others, Agree
<1>11. Free' = Free
  BY <1>4, FreeKept DEF Agree
<1>12. NodeInOnePlace'
  <2>1. h \notin Free /\ \A u \in Threads \ {t} : h \notin Held(u)
    BY <1>6, Places DEF NodeInv
  <2> QED BY <1>4, <1>6, <1>8, <1>9, <1>10, <1>11, <2>1, Places
          DEF NodeInv, NodeInOnePlace, Queue, Free
<1>13. \A m \in Queue' : Place(m)' = Place(m)
  BY <1>3, <1>4, <1>6, <1>7, <1>8 DEF Place
<1>14. QueueInv'
  <2>1. \A m \in Queue' : Place(m)' \in dequeued' .. enqueued'
    <3> TAKE m \in Queue'
    <3>1. m \in Queue /\ m # h
      BY <1>8
    <3>2. Place(m) \in dequeued .. enqueued /\ Place(m) # Place(h)
      BY <1>6, <3>1, QueueNodes DEF NodeInv, QueueInv
    <3> QED BY <1>4, <1>6, <1>7, <1>13, <3>2 DEF TypeOK
  <2>2. \A m, k \in Queue' : Place(m)' = Place(k)' => m = k
    <3>1. \A m, k \in Queue : Place(m) = Place(k) => m = k
      BY QueueNodes
    <3> QED BY <1>8, <1>13, <3>1
  <2>3. ASSUME NEW m \in Queue'
        PROVE  IF next'[m] = Null THEN Place(m)' = enqueued'
               ELSE next'[m] # head'.ptr /\ data'[next'[m]] = Place(m)' + 1
    <3>1. m \in Queue /\ m # h /\ Place(m)' = Place(m)
      BY <1>8, <1>13
    <3>2. next[m] = n => Place(m) = Place(h)
      <4>1. Place(m) \in Int
        BY <3>1 DEF NodeInv, QueueInv, TypeOK
      <4>2. next[m] = n => Place(n) = Place(m) + 1
        BY <1>6, <3>1, QueueNodes
      <4> QED BY <1>6, <4>1, <4>2 DEF TypeOK
    <3>3. next[m] # n
      BY <1>6, <3>1, <3>2, QueueNodes
    <3> QED BY <1>4, <1>7, <3>1, <3>3 DEF NodeInv, QueueInv
  <2>4. tail.ptr \in Queue'
    BY <1>5, <1>8, QueueNodes
  <2>5. \A m : m = tail.ptr => Place(m)' = Place(m)
    BY <1>13, <2>4
  <2>6. Place(tail.ptr)' = Place(tail.ptr)
    BY <1>4, <2>5
  <2>7. Place(tail.ptr)' \in {enqueued', enqueued' - 1}
    BY <1>4, <2>6 DEF NodeInv, QueueInv
  <2> QED BY <1>4, <2>1, <2>2, <2>3, <2>4, <2>7 DEF QueueInv
<1>15. FreeEnds'
  BY <1>4, <1>11 DEF NodeInv, FreeEnds
<1>16. \A m : Guarded(m) => Guarded(m)'
  <2>1. pc'[t] \notin LinkPC \cup DoomPC
    BY <1>7 DEF LinkPC, DoomPC
  <2> QED BY <1>1, <1>4, <1>10, <2>1 DEF Others, Guarded
<1>17. \A u \in Threads : first[u].stamp \in Nat /\ first[u].stamp <= head.stamp
  BY DEF NodeInv, ThreadInv, HeadRead, TypeOK, StampNode
<1>18. head.stamp \in Nat
  BY DEF TypeOK, StampNode
<1>19. ASSUME NEW u \in Threads \ {t} PROVE ThreadInv(u)'
  <2>1. ThreadInv(u)
    BY DEF NodeInv
  <2>2. HeadRead(u)'
    <3>1. first[u].stamp <= head'.stamp /\ first[u] # head'
      BY <1>7, <1>17, <1>18
    <3> QED BY <1>1, <2>1, <3>1 DEF Others, ThreadInv, HeadRead
  <2>3. TailRead(u)' /\ Value(u)'
    BY <1>1, <1>4, <2>1 DEF Others, ThreadInv, TailRead, Value
  <2>4. LastRead(u)'
    <3> SUFFICES ASSUME pc[u] \in LinkPC \ {"e_tail"}
                 PROVE  /\ last[u].ptr \in Queue'
                        /\ \A m : m = last[u].ptr => Place(m)' <= Place(tail.ptr)'
      BY <1>1 DEF LastRead, Others
    <3>1. last[u] = tail
      BY LastIsTail DEF DequeuePC
    <3>2. tail.ptr \in Queue' /\ Place(tail.ptr)' \in {enqueued', enqueued' - 1}
      BY <1>14 DEF QueueInv
    <3>3. \A m : m = tail'.ptr => Place(m)' <= Place(tail.ptr)'
      BY <1>4, <3>2 DEF TypeOK
    <3> QED BY <1>4, <3>1, <3>2, <3>3
  <2>5. Refers(u)'
    BY <1>1, <1>4, <1>16, RefersKept
  <2>6. ListRead(u)'
    BY <1>1, <1>4, <1>10, ListKept
  <2> QED BY <2>2, <2>3, <2>4, <2>5, <2>6 DEF ThreadInv
<1>20. ThreadInv(t)'
  <2>1. ListRead(t)' /\ LastRead(t)'
    BY <1>7 DEF ListRead, LastRead, LinkPC, TakenPC, PutPC
  <2>2. HeadRead(t)'
    BY <1>7, <1>17, <1>18 DEF HeadRead
  <2>3. TailRead(t)' /\ Value(t)'
    BY <1>2, <1>4, <1>7 DEF ThreadInv, TailRead, Value, AddPC
  <2>4. Refers(t)'
    <3>1. Guarded(n)'
      BY <1>6, <1>16, QueueGuarded
    <3>2. \A m : m = local_next'[t] => Guarded(m)'
      BY <1>7, <3>1
    <3> QED BY <1>4, <1>6, <1>7, <3>2 DEF Refers, RefPC
  <2> QED BY <2>1, <2>2, <2>3, <2>4 DEF ThreadInv
<1> QED BY <1>12, <1>14, <1>15, <1>19, <1>20 DEF NodeInv

\* Every step keeps the nodes in order.
LEMMA StepNodes ==
    ASSUME SafeUse, TypeOK, NodeInv, CountInv, DisciplineInv, NEW t \in Threads,
           Enqueue(t) \/ Dequeue(t) \/ EnqueueStep(t) \/ DequeueStep(t)
    PROVE  NodeInv'
<1>1. CASE Enqueue(t)
  BY <1>1, EnqueueNodes
<1>2. CASE EnqueueStep(t)
  <2>1. CASE EnqueueLink(t) /\ next[last[t].ptr] = Null
    BY <2>1, EnqueueLinkNodes
  <2>2. CASE EnqueueSwing(t) \/ EnqueueHelp(t)
    BY <2>2, TailStepNodes
  <2> QED BY <1>2, <2>1, <2>2, EnqueueReadsNodes DEF EnqueueStep
<1>3. CASE Dequeue(t)
  BY <1>3, DequeueReadsNodes
<1>4. CASE DequeueStep(t) /\ ~ TryDelete(t)
  <2>1. CASE DequeueHelp(t)
    BY <2>1, TailStepNodes
  <2>2. CASE DequeueSwing(t) /\ head = first[t]
    BY <2>2, DequeueSwingNodes
  <2> QED BY <1>4, <2>1, <2>2, DequeueReadsNodes DEF DequeueStep
<1>5. CASE TryDelete(t)
  <2>1. CASE TryDeleteFree(t) \/ ReleaseFreeList(t)
    BY <2>1, FreeNodes
  <2>2. CASE TryDeleteTake(t)
    BY <2>2, TakeNodes
  <2>3. CASE AddNodeLink(t)
    BY <2>3, AddNodeLinkNodes
  <2>4. CASE AddNodeCAS(t) /\ free_list = local_next[t]
    BY <2>4, AddNodeCASNodes
  <2>5. CASE \/ TryDeleteCheck(t) \/ TryDeleteCount(t) \/ AddListToFreeList(t)
             \/ AddNodeRead(t) \/ (AddNodeCAS(t) /\ free_list # local_next[t])
             \/ AddNodeCount(t)
    BY <2>5, TryDeleteReadsNodes
  <2> QED BY <1>5, <2>1, <2>2, <2>3, <2>4, <2>5 DEF TryDelete
<1> QED BY <1>1, <1>2, <1>3, <1>4, <1>5

-----------------------------------------------------------------------------
(***************************************************************************)
(* The counts.                                                             *)
(***************************************************************************)

\* A finite set that at most t enters or leaves.
LEMMA OneMoves ==
    ASSUME NEW S, NEW S2, NEW t, IsFiniteSet(S), S2 \ {t} = S \ {t}
    PROVE  /\ IsFiniteSet(S2)
           /\ Cardinality(S) \in Nat /\ Cardinality(S2) \in Nat
           /\ t \in S => Cardinality(S) >= 1
           /\ (t \in S <=> t \in S2) => Cardinality(S2) = Cardinality(S)
           /\ t \notin S /\ t \in S2 => Cardinality(S2) = Cardinality(S) + 1
           /\ t \in S /\ t \notin S2 => Cardinality(S2) = Cardinality(S) - 1
<1> PICK R : R = S \ {t}
  OBVIOUS
<1>1. IsFiniteSet(R)
  BY FS_Subset
<1>2. Cardinality(R) \in Nat
  BY <1>1, FS_CardinalityType
<1>3. IsFiniteSet(R \cup {t}) /\ Cardinality(R \cup {t}) = Cardinality(R) + 1
  BY <1>1, FS_AddElement
<1>4. S = IF t \in S THEN R \cup {t} ELSE R
  OBVIOUS
<1>5. S2 = IF t \in S2 THEN R \cup {t} ELSE R
  OBVIOUS
<1>6. Cardinality(S) = IF t \in S THEN Cardinality(R) + 1 ELSE Cardinality(R)
  BY <1>3, <1>4
<1>7. /\ IsFiniteSet(S2)
      /\ Cardinality(S2) = IF t \in S2 THEN Cardinality(R) + 1 ELSE Cardinality(R)
  BY <1>1, <1>3, <1>5
<1> QED BY <1>2, <1>6, <1>7

\* No other thread changes its group.
LEMMA GroupsMove ==
    ASSUME CountInv, NEW t \in Threads, Others(t)
    PROVE  /\ IsFiniteSet(Busy')
           /\ IsFiniteSet(Counted) /\ Counted' \ {t} = Counted \ {t}
           /\ IsFiniteSet(Linking) /\ Linking' \ {t} = Linking \ {t}
           /\ IsFiniteSet(Linked) /\ Linked' \ {t} = Linked \ {t}
           /\ IsFiniteSet(Leaving) /\ Leaving' \ {t} = Leaving \ {t}
<1>1. IsFiniteSet(Busy)
  BY DEF CountInv, Busy
<1>2. IsFiniteSet(Busy')
  <2>1. Busy' \ {t} = Busy \ {t}
    BY DEF Busy, Others
  <2> QED BY <1>1, <2>1, OneMoves
<1>3. /\ Counted \subseteq Busy /\ Linking \subseteq Busy
      /\ Linked \subseteq Busy /\ Leaving \subseteq Busy
  BY DEF Busy, Counted, Linking, Linked, Leaving, PutPC, LinkPC, AddPC
<1>4. /\ IsFiniteSet(Counted) /\ IsFiniteSet(Linking)
      /\ IsFiniteSet(Linked) /\ IsFiniteSet(Leaving)
  BY <1>1, <1>3, FS_Subset
<1>5. Counted' \ {t} = Counted \ {t}
  BY DEF Counted, Others
<1>6. Linking' \ {t} = Linking \ {t} /\ Linked' \ {t} = Linked \ {t}
      /\ Leaving' \ {t} = Leaving \ {t}
  BY DEF Linking, Linked, Leaving, Others
<1> QED BY <1>2, <1>4, <1>5, <1>6

\* What an Enqueue, and what a Dequeue, counts for.
LEMMA GroupBounds ==
    ASSUME TypeOK, CountInv, NEW t \in Threads
    PROVE  /\ t \in Counted => pop_count >= 1
           /\ t \in Linking => enqueued + 1 <= calls.enqueue
<1>1. /\ Counted \subseteq Busy /\ Linking \subseteq Busy
  BY DEF Busy, Counted, Linking, PutPC, LinkPC
<1>2. IsFiniteSet(Counted) /\ IsFiniteSet(Linking)
  BY <1>1, FS_Subset DEF CountInv, Busy
<1>3. t \in Counted => Cardinality(Counted) >= 1
  BY <1>2, OneMoves
<1>4. t \in Linking => Cardinality(Linking) >= 1
  BY <1>2, OneMoves
<1>5. Cardinality(Counted) \in Nat /\ Cardinality(Linking) \in Nat
  BY <1>2, FS_CardinalityType
<1> QED BY <1>3, <1>4, <1>5 DEF CountInv, TypeOK

\* Each step counts what it does.
LEMMA CountStep ==
    ASSUME TypeOK, TypeOK', CountInv, NEW t \in Threads, Others(t),
           \/ /\ t \in Counted' => t \in Counted
              /\ pop_count' = pop_count /\ calls' = calls
           \/ /\ t \notin Counted /\ pop_count' = pop_count + 1
              /\ calls' = [calls EXCEPT !.dequeue = @ + 1]
           \/ /\ t \in Counted /\ t \notin Counted'
              /\ pop_count' = pop_count - 1 /\ calls' = calls
           \/ /\ t \notin Counted' /\ pop_count' = pop_count
              /\ calls' = [calls EXCEPT !.enqueue = @ + 1],
           \/ (t \in Linking' <=> t \in Linking) /\ UNCHANGED <<enqueued, calls>>
           \/ (t \in Linking' <=> t \in Linking) /\ UNCHANGED enqueued
              /\ calls' = [calls EXCEPT !.dequeue = @ + 1]
           \/ t \notin Linking /\ t \in Linking' /\ UNCHANGED enqueued
              /\ calls' = [calls EXCEPT !.enqueue = @ + 1]
           \/ t \in Linking /\ t \notin Linking' /\ UNCHANGED calls
              /\ enqueued' = enqueued + 1,
           \/ (t \in Linked' <=> t \in Linked) /\ (t \in Leaving' <=> t \in Leaving)
              /\ UNCHANGED <<enqueued, dequeued, size>>
           \/ t \notin Linked /\ t \in Linked' /\ (t \in Leaving' <=> t \in Leaving)
              /\ enqueued' = enqueued + 1 /\ UNCHANGED <<dequeued, size>>
           \/ t \in Linked /\ t \notin Linked' /\ (t \in Leaving' <=> t \in Leaving)
              /\ size' = size + 1 /\ UNCHANGED <<enqueued, dequeued>>
           \/ t \notin Leaving /\ t \in Leaving' /\ (t \in Linked' <=> t \in Linked)
              /\ dequeued' = dequeued + 1 /\ UNCHANGED <<enqueued, size>>
           \/ t \in Leaving /\ t \notin Leaving' /\ (t \in Linked' <=> t \in Linked)
              /\ size' = size - 1 /\ UNCHANGED <<enqueued, dequeued>>
    PROVE  CountInv'
<1> PICK co, li, le, lg : /\ co = Cardinality(Counted) /\ li = Cardinality(Linking)
                          /\ le = Cardinality(Linked) /\ lg = Cardinality(Leaving)
  OBVIOUS
<1> PICK co2, li2, le2, lg2 :
        /\ co2 = Cardinality(Counted)' /\ li2 = Cardinality(Linking)'
        /\ le2 = Cardinality(Linked)' /\ lg2 = Cardinality(Leaving)'
  OBVIOUS
<1>1. IsFiniteSet(Busy')
  BY GroupsMove
<1>2. /\ co \in Nat /\ co2 \in Nat
      /\ (t \in Counted <=> t \in Counted') => co2 = co
      /\ t \notin Counted /\ t \in Counted' => co2 = co + 1
      /\ t \in Counted /\ t \notin Counted' => co2 = co - 1
  BY GroupsMove, OneMoves
<1>3. /\ li \in Nat /\ li2 \in Nat
      /\ (t \in Linking <=> t \in Linking') => li2 = li
      /\ t \notin Linking /\ t \in Linking' => li2 = li + 1
      /\ t \in Linking /\ t \notin Linking' => li2 = li - 1
  BY GroupsMove, OneMoves
<1>4. /\ le \in Nat /\ le2 \in Nat
      /\ (t \in Linked <=> t \in Linked') => le2 = le
      /\ t \notin Linked /\ t \in Linked' => le2 = le + 1
      /\ t \in Linked /\ t \notin Linked' => le2 = le - 1
  BY GroupsMove, OneMoves
<1>5. /\ lg \in Nat /\ lg2 \in Nat
      /\ (t \in Leaving <=> t \in Leaving') => lg2 = lg
      /\ t \notin Leaving /\ t \in Leaving' => lg2 = lg + 1
      /\ t \in Leaving /\ t \notin Leaving' => lg2 = lg - 1
  BY GroupsMove, OneMoves
<1>6. /\ calls.enqueue \in Nat /\ calls.dequeue \in Nat /\ pop_count \in Nat
      /\ enqueued \in Nat /\ dequeued \in Nat /\ size \in Int
      /\ calls = [enqueue |-> calls.enqueue, dequeue |-> calls.dequeue]
  BY DEF TypeOK
<1>7. /\ co <= pop_count /\ pop_count <= calls.dequeue
      /\ enqueued + li <= calls.enqueue
      /\ size = enqueued - dequeued - le + lg
  BY DEF CountInv
<1>8. co2 <= pop_count' /\ pop_count' <= calls'.dequeue
  BY <1>2, <1>6, <1>7
<1>9. enqueued' + li2 <= calls'.enqueue
  BY <1>3, <1>6, <1>7
<1>10. size' = enqueued' - dequeued' - le2 + lg2
  BY <1>4, <1>5, <1>6, <1>7
<1> QED BY <1>1, <1>8, <1>9, <1>10 DEF CountInv, Busy

\* The steps of Enqueue keep the counts,
LEMMA EnqueueCounts ==
    ASSUME TypeOK, TypeOK', NodeInv, CountInv, NEW t \in Threads,
           Enqueue(t) \/ EnqueueStep(t)
    PROVE  CountInv'
<1> USE DEF Step, shared, locals, own_list, history, Forget,
        Counted, Linking, Linked, Leaving, LinkPC, PutPC, AddPC
<1>1. Others(t)
  BY DEF TypeOK, Others, Enqueue, EnqueueStep, EnqueueReadTail, EnqueueReadNext,
         EnqueueCheck, EnqueueLink, EnqueueSwing, EnqueueHelp, EnqueueSize
<1>2. CASE Enqueue(t)
  <2>1. /\ t \notin Linking /\ t \in Linking' /\ t \notin Counted'
        /\ t \notin Linked /\ t \notin Linked' /\ t \notin Leaving /\ t \notin Leaving'
    BY <1>2 DEF TypeOK, Enqueue
  <2>2. /\ UNCHANGED <<pop_count, enqueued, dequeued, size>>
        /\ calls' = [calls EXCEPT !.enqueue = @ + 1]
    BY <1>2 DEF Enqueue
  <2> QED BY <1>1, <2>1, <2>2, CountStep
<1>3. CASE EnqueueLink(t) /\ next[last[t].ptr] = Null
  <2>1. /\ t \in Linking /\ t \notin Linking' /\ t \notin Counted'
        /\ t \notin Linked /\ t \in Linked' /\ t \notin Leaving /\ t \notin Leaving'
    BY <1>3 DEF TypeOK, EnqueueLink
  <2>2. UNCHANGED <<pop_count, calls, dequeued, size>> /\ enqueued' = enqueued + 1
    BY <1>3 DEF EnqueueLink
  <2> QED BY <1>1, <2>1, <2>2, CountStep
<1>4. CASE EnqueueSize(t)
  <2>1. /\ t \notin Linking /\ t \notin Linking' /\ t \notin Counted'
        /\ t \in Linked /\ t \notin Linked' /\ t \notin Leaving /\ t \notin Leaving'
    BY <1>4 DEF TypeOK, EnqueueSize
  <2>2. UNCHANGED <<pop_count, calls, enqueued, dequeued>> /\ size' = size + 1
    BY <1>4 DEF EnqueueSize
  <2> QED BY <1>1, <2>1, <2>2, CountStep
<1>5. CASE \/ EnqueueReadTail(t) \/ EnqueueReadNext(t) \/ EnqueueCheck(t)
           \/ (EnqueueLink(t) /\ next[last[t].ptr] # Null)
           \/ EnqueueSwing(t) \/ EnqueueHelp(t)
  <2>1. /\ t \in Linking <=> t \in Linking'
        /\ t \in Linked <=> t \in Linked'
        /\ t \notin Counted' /\ t \notin Leaving /\ t \notin Leaving'
    BY <1>5 DEF TypeOK, EnqueueReadTail, EnqueueReadNext, EnqueueCheck, EnqueueLink,
                EnqueueSwing, EnqueueHelp
  <2>2. UNCHANGED <<pop_count, calls, enqueued, dequeued, size>>
    BY <1>5 DEF EnqueueReadTail, EnqueueReadNext, EnqueueCheck, EnqueueLink,
                EnqueueSwing, EnqueueHelp
  <2> QED BY <1>1, <2>1, <2>2, CountStep
<1> QED BY <1>2, <1>3, <1>4, <1>5 DEF EnqueueStep

\* and the steps of Dequeue,
LEMMA DequeueCounts ==
    ASSUME TypeOK, TypeOK', NodeInv, CountInv, NEW t \in Threads,
           Dequeue(t) \/ (DequeueStep(t) /\ ~ TryDelete(t))
    PROVE  CountInv'
<1> USE DEF Step, shared, locals, own_list, history, Forget,
        Counted, Linking, Linked, Leaving, LinkPC, PutPC, AddPC
<1>1. Others(t)
  BY DEF TypeOK, Others, Dequeue, DequeueStep, DequeueReadHead, DequeueReadTail,
         DequeueReadNext, DequeueCheck, DequeueEmpty, DequeueHelp, DequeueSwing,
         DequeueData, DequeueSize
<1>2. CASE Dequeue(t)
  <2>1. /\ t \notin Linking /\ t \notin Linking' /\ t \notin Counted
        /\ t \notin Linked /\ t \notin Linked' /\ t \notin Leaving /\ t \notin Leaving'
    BY <1>2 DEF TypeOK, Dequeue
  <2>2. /\ UNCHANGED <<enqueued, dequeued, size>> /\ pop_count' = pop_count + 1
        /\ calls' = [calls EXCEPT !.dequeue = @ + 1]
    BY <1>2 DEF Dequeue
  <2> QED BY <1>1, <2>1, <2>2, CountStep
<1>3. CASE DequeueSwing(t) /\ head = first[t]
  <2>1. /\ t \notin Linking /\ t \notin Linking' /\ t \in Counted
        /\ t \notin Linked /\ t \notin Linked' /\ t \notin Leaving /\ t \in Leaving'
    BY <1>3 DEF TypeOK, DequeueSwing
  <2>2. UNCHANGED <<pop_count, calls, enqueued, size>> /\ dequeued' = dequeued + 1
    BY <1>3 DEF DequeueSwing
  <2> QED BY <1>1, <2>1, <2>2, CountStep
<1>4. CASE DequeueSize(t)
  <2>1. /\ t \notin Linking /\ t \notin Linking' /\ t \notin Counted'
        /\ t \notin Linked /\ t \notin Linked' /\ t \in Leaving /\ t \notin Leaving'
    BY <1>4 DEF TypeOK, DequeueSize
  <2>2. UNCHANGED <<pop_count, calls, enqueued, dequeued>> /\ size' = size - 1
    BY <1>4 DEF DequeueSize
  <2> QED BY <1>1, <2>1, <2>2, CountStep
<1>5. CASE \/ DequeueReadHead(t) \/ DequeueReadTail(t) \/ DequeueReadNext(t)
           \/ DequeueCheck(t) \/ DequeueEmpty(t) \/ DequeueHelp(t)
           \/ (DequeueSwing(t) /\ head # first[t]) \/ DequeueData(t)
  <2>1. /\ t \notin Linking /\ t \notin Linking' /\ t \notin Linked /\ t \notin Linked'
        /\ t \in Leaving <=> t \in Leaving'
        /\ t \in Counted
    BY <1>5 DEF TypeOK, DequeueReadHead, DequeueReadTail,
         DequeueReadNext, DequeueCheck, DequeueEmpty, DequeueHelp, DequeueSwing,
         DequeueData
  <2>2. UNCHANGED <<pop_count, calls, enqueued, dequeued, size>>
    BY <1>5 DEF DequeueReadHead, DequeueReadTail,
         DequeueReadNext, DequeueCheck, DequeueEmpty, DequeueHelp, DequeueSwing,
         DequeueData
  <2> QED BY <1>1, <2>1, <2>2, CountStep
<1> QED BY <1>2, <1>3, <1>4, <1>5 DEF DequeueStep

\* and those of TryDelete, each of which counts off once.
LEMMA TryDeleteCounts ==
    ASSUME TypeOK, TypeOK', NodeInv, CountInv, NEW t \in Threads, TryDelete(t)
    PROVE  CountInv'
<1> USE DEF Step, shared, locals, own_list, history,
        Counted, Linking, Linked, Leaving, LinkPC, PutPC, AddPC
<1>1. Others(t)
  BY DEF TypeOK, Others, TryDelete, TryDeleteCheck, TryDeleteFree, TryDeleteTake,
         TryDeleteCount, ReleaseFreeList, AddListToFreeList, AddNodeRead, AddNodeLink,
         AddNodeCAS, AddNodeCount
<1>2. /\ t \notin Linking /\ t \notin Linking' /\ t \notin Linked /\ t \notin Linked'
      /\ t \in Leaving /\ t \in Leaving'
      /\ UNCHANGED <<calls, enqueued, dequeued, size>>
  BY DEF TypeOK, TryDelete, TryDeleteCheck, TryDeleteFree, TryDeleteTake,
         TryDeleteCount, ReleaseFreeList, AddListToFreeList, AddNodeRead, AddNodeLink,
         AddNodeCAS, AddNodeCount
<1>3. CASE TryDeleteCount(t) \/ AddNodeCount(t)
  <2>1. t \in Counted /\ t \notin Counted' /\ pop_count' = pop_count - 1
    BY <1>3 DEF TypeOK, TryDeleteCount, AddNodeCount
  <2> QED BY <1>1, <1>2, <2>1, CountStep
<1>4. CASE ~ (TryDeleteCount(t) \/ AddNodeCount(t))
  <2>1. pop_count' = pop_count
    BY <1>4 DEF TryDelete, TryDeleteCheck, TryDeleteFree, TryDeleteTake,
         ReleaseFreeList, AddListToFreeList, AddNodeRead, AddNodeLink, AddNodeCAS
  <2>2. t \in Counted' => t \in Counted
    <3>1. pc[t] = "fl_walk" => node[t] = Null
      BY DEF NodeInv, ThreadInv, ListRead, TakenPC
    <3> QED BY <1>4, <3>1 DEF TypeOK, TryDelete, TryDeleteCheck, TryDeleteFree,
         TryDeleteTake, ReleaseFreeList, AddListToFreeList, AddNodeRead, AddNodeLink,
         AddNodeCAS
  <2> QED BY <1>1, <1>2, <2>1, <2>2, CountStep
<1> QED BY <1>3, <1>4

-----------------------------------------------------------------------------
(***************************************************************************)
(* The disciplines.                                                        *)
(***************************************************************************)

\* A call begins only if its discipline allows it.
LEMMA DisciplineStep ==
    ASSUME TypeOK, TypeOK', DisciplineInv, NEW t \in Threads, Others(t),
           discipline' = discipline,
           \/ pc[t] \notin DequeuePC /\ calls'.dequeue > 0
              /\ (discipline = "phases" => NoneEnqueues)
           \/ calls'.dequeue = calls.dequeue
              /\ (pc'[t] \in DequeuePC => pc[t] \in DequeuePC),
           pc'[t] \in EnqueuePC => calls'.dequeue = calls.dequeue,
           pc'[t] \in EnqueuePC => pc[t] \in EnqueuePC \/ MayEnqueue,
           discipline = "one_producer" =>
             /\ pc'[t] # "e_help"
             /\ \A u \in Threads : pc'[u] \in {"e_next", "e_check", "e_link"} =>
                  last'[u] = tail'
             /\ \A u \in Threads : pc'[u] = "e_swing" /\ last'[u] # tail' =>
                  Place(tail.ptr)' = enqueued'
             /\ (\A u \in Threads : pc'[u] # "e_swing") => Place(tail.ptr)' = enqueued'
    PROVE  DisciplineInv'
<1>1. calls'.dequeue = 0 => \A u \in Threads : pc'[u] \notin DequeuePC
  BY DEF DisciplineInv, Others, TypeOK
<1>2. discipline = "phases" =>
        \A u \in Threads : pc'[u] \in EnqueuePC => calls'.dequeue = 0
  BY DEF DisciplineInv, Others, MayEnqueue, NoneEnqueues, TypeOK
<1>3. discipline = "one_producer" =>
        \A v, u \in Threads : pc'[v] \in EnqueuePC /\ pc'[u] \in EnqueuePC => v = u
  BY DEF DisciplineInv, Others, MayEnqueue, NoneEnqueues
<1>4. discipline = "one_producer" => \A u \in Threads : pc'[u] # "e_help"
  BY DEF DisciplineInv, Others
<1> QED BY <1>1, <1>2, <1>3, <1>4 DEF DisciplineInv

\* A step that leaves tail and the last value as they are.
LEMMA TailKept ==
    ASSUME TypeOK, TypeOK', NodeInv, DisciplineInv, NEW t \in Threads, Others(t),
           UNCHANGED <<discipline, tail, enqueued>>,
           Place(tail.ptr)' = Place(tail.ptr),
           \/ pc[t] \notin DequeuePC /\ calls'.dequeue > 0
              /\ (discipline = "phases" => NoneEnqueues)
           \/ calls'.dequeue = calls.dequeue
              /\ (pc'[t] \in DequeuePC => pc[t] \in DequeuePC),
           pc'[t] \in EnqueuePC => calls'.dequeue = calls.dequeue,
           pc'[t] \in EnqueuePC => pc[t] \in EnqueuePC \/ MayEnqueue,
           pc[t] # "e_swing", pc'[t] # "e_swing",
           discipline = "one_producer" =>
             /\ pc'[t] # "e_help"
             /\ pc'[t] \in {"e_next", "e_check", "e_link"} => last'[t] = tail
    PROVE  DisciplineInv'
<1>1. ASSUME discipline = "one_producer"
      PROVE  /\ pc'[t] # "e_help"
             /\ \A u \in Threads : pc'[u] \in {"e_next", "e_check", "e_link"} =>
                  last'[u] = tail'
             /\ \A u \in Threads : pc'[u] = "e_swing" /\ last'[u] # tail' =>
                  Place(tail.ptr)' = enqueued'
             /\ (\A u \in Threads : pc'[u] # "e_swing") => Place(tail.ptr)' = enqueued'
  <2>1. \A u \in Threads : pc'[u] = "e_swing" <=> pc[u] = "e_swing"
    BY DEF Others
  <2>2. \A u \in Threads : pc'[u] \in {"e_next", "e_check", "e_link"} => last'[u] = tail'
    BY <1>1 DEF Others, DisciplineInv
  <2>3. \A u \in Threads : pc'[u] = "e_swing" /\ last'[u] # tail' =>
          Place(tail.ptr)' = enqueued'
    BY <1>1, <2>1 DEF Others, DisciplineInv
  <2>4. (\A u \in Threads : pc'[u] # "e_swing") => Place(tail.ptr)' = enqueued'
    BY <1>1, <2>1 DEF DisciplineInv
  <2> QED BY <1>1, <2>2, <2>3, <2>4
<1> QED BY <1>1, DisciplineStep

\* With one producer at a time, tail lags only while that one is about to swing it.
LEMMA EnqueueDiscipline ==
    ASSUME TypeOK, TypeOK', NodeInv, DisciplineInv, NEW t \in Threads,
           Enqueue(t) \/ EnqueueStep(t)
    PROVE  DisciplineInv'
<1> USE DEF Step, shared, locals, own_list, history, Forget, EnqueuePC, DequeuePC, AddPC
<1>1. Others(t)
  BY DEF TypeOK, Others, Enqueue, EnqueueStep, EnqueueReadTail, EnqueueReadNext,
         EnqueueCheck, EnqueueLink, EnqueueSwing, EnqueueHelp, EnqueueSize
<1>2. ThreadInv(t)
  BY DEF NodeInv
<1>3. CASE Enqueue(t)
  <2>1. Place(tail.ptr)' = Place(tail.ptr)
    BY <1>3 DEF Enqueue, Place
  <2> QED BY <1>1, <1>3, <2>1, TailKept DEF TypeOK, Enqueue
<1>4. CASE \/ EnqueueReadTail(t) \/ EnqueueReadNext(t) \/ EnqueueSize(t)
           \/ (EnqueueLink(t) /\ next[last[t].ptr] # Null)
  <2> USE DEF EnqueueReadTail, EnqueueReadNext, EnqueueSize, EnqueueLink
  <2>1. Place(tail.ptr)' = Place(tail.ptr)
    BY <1>4 DEF Place
  <2>2. discipline = "one_producer" =>
             /\ pc'[t] # "e_help"
             /\ pc'[t] \in {"e_next", "e_check", "e_link"} => last'[t] = tail
    BY <1>4 DEF TypeOK, DisciplineInv
  <2> QED BY <1>1, <1>4, <2>1, <2>2, TailKept DEF TypeOK
<1>5. CASE EnqueueCheck(t)
  <2> USE DEF EnqueueCheck
  <2>1. Place(tail.ptr)' = Place(tail.ptr)
    BY <1>5 DEF Place
  <2>2. ASSUME discipline = "one_producer"
        PROVE  /\ pc'[t] # "e_help"
               /\ pc'[t] \in {"e_next", "e_check", "e_link"} => last'[t] = tail
    <3>1. last[t] = tail
      BY <1>5, <2>2 DEF DisciplineInv
    <3>2. \A u \in Threads : pc[u] # "e_swing"
      BY <1>5, <2>2 DEF DisciplineInv
    <3>3. next[tail.ptr] = Null
      <4>1. Place(tail.ptr) = enqueued
        BY <2>2, <3>2 DEF DisciplineInv
      <4> QED BY <4>1, QueueNodes
    <3>4. local_next[t] = Null
      BY <1>2, <1>5, <3>1, <3>3 DEF ThreadInv, TailRead
    <3> QED BY <1>5, <3>1, <3>4 DEF TypeOK
  <2> QED BY <1>1, <1>5, <2>1, <2>2, TailKept DEF TypeOK
<1>6. CASE EnqueueLink(t) /\ next[last[t].ptr] = Null
  <2> USE DEF EnqueueLink
  <2>1. pc'[t] = "e_swing" /\ last'[t] = last[t] /\ tail' = tail /\ calls' = calls
        /\ discipline' = discipline
    BY <1>6 DEF TypeOK
  <2>3. discipline = "one_producer" => last[t] = tail
    BY <1>6 DEF DisciplineInv
  <2>4. discipline = "one_producer" => \A u \in Threads \ {t} : pc'[u] \notin EnqueuePC
    BY <1>1, <1>6 DEF DisciplineInv, Others
  <2> QED BY <1>1, <1>6, <2>1, <2>3, <2>4, DisciplineStep
<1>7. CASE EnqueueSwing(t)
  <2> USE DEF EnqueueSwing
  <2>1. pc'[t] = "e_size" /\ last'[t] = last[t] /\ calls' = calls
        /\ discipline' = discipline /\ enqueued' = enqueued
    BY <1>7 DEF TypeOK
  <2>2. \A n : Place(n)' = Place(n)
    BY <1>7 DEF Place
  <2>3. last[t] = tail => Place(tail.ptr)' = enqueued
    <3>1. ASSUME last[t] = tail, NEW n, n = next[tail.ptr]
          PROVE  tail'.ptr = n /\ Place(n)' = enqueued
      <4> HIDE DEF EnqueueSwing
      <4>1. /\ tail' = [ptr |-> n, stamp |-> tail.stamp + 1]
            /\ Place(n) = enqueued
        BY <1>7, <3>1, TailMoves
      <4> QED BY <2>2, <4>1
    <3>2. last[t] = tail => \A n : n = tail'.ptr => Place(n)' = enqueued
      BY <3>1
    <3> QED BY <3>2
  <2>4. last[t] # tail => tail' = tail /\ Place(tail.ptr)' = Place(tail.ptr)
    <3>1. last[t] # tail => tail' = tail
      BY <1>7 DEF Swung
    <3>2. last[t] # tail => \A n : n = tail'.ptr => Place(n)' = Place(tail.ptr)
      BY <2>2, <3>1
    <3> QED BY <3>1, <3>2
  <2>5. discipline = "one_producer" => Place(tail.ptr)' = enqueued
    BY <1>7, <2>3, <2>4 DEF DisciplineInv
  <2>7. discipline = "one_producer" => \A u \in Threads \ {t} : pc'[u] \notin EnqueuePC
    BY <1>1, <1>7 DEF DisciplineInv, Others
  <2> QED BY <1>1, <1>7, <2>1, <2>5, <2>7, DisciplineStep
<1>8. CASE EnqueueHelp(t)
  <2> USE DEF EnqueueHelp
  <2>1. discipline # "one_producer"
    BY <1>8 DEF DisciplineInv
  <2>2. pc'[t] = "e_tail" /\ calls' = calls /\ discipline' = discipline
    BY <1>8 DEF TypeOK
  <2> QED BY <1>1, <1>8, <2>1, <2>2, DisciplineStep
<1> QED BY <1>3, <1>4, <1>5, <1>6, <1>7, <1>8 DEF EnqueueStep

\* A Dequeue swings a tail that lags and nothing else.
LEMMA DequeueDiscipline ==
    ASSUME TypeOK, TypeOK', NodeInv, DisciplineInv, NEW t \in Threads,
           Dequeue(t) \/ DequeueStep(t)
    PROVE  DisciplineInv'
<1> USE DEF Step, shared, locals, own_list, history, Forget
<1>1. Others(t)
  BY DEF TypeOK, Others, Dequeue, DequeueStep, DequeueReadHead, DequeueReadTail,
         DequeueReadNext, DequeueCheck, DequeueEmpty, DequeueHelp, DequeueSwing,
         DequeueData, DequeueSize, TryDelete, TryDeleteCheck, TryDeleteFree,
         TryDeleteTake, TryDeleteCount, ReleaseFreeList, AddListToFreeList,
         AddNodeRead, AddNodeLink, AddNodeCAS, AddNodeCount
<1>2. ThreadInv(t)
  BY DEF NodeInv
<1>3. CASE Dequeue(t)
  <2> USE DEF Dequeue
  <2>1. Place(tail.ptr)' = Place(tail.ptr)
    BY <1>3 DEF Place
  <2>2. calls'.dequeue > 0
    BY <1>3 DEF TypeOK
  <2>3. pc'[t] = "d_head" /\ UNCHANGED <<discipline, tail, enqueued>>
        /\ (discipline = "phases" => NoneEnqueues) /\ pc[t] = "idle"
    BY <1>3 DEF TypeOK, MayDequeue
  <2> QED BY <1>1, <2>1, <2>2, <2>3, TailKept DEF EnqueuePC, DequeuePC, AddPC
<1>4. CASE DequeueStep(t)
  <2> USE DEF DequeueStep, DequeueReadHead, DequeueReadTail, DequeueReadNext,
         DequeueCheck, DequeueEmpty, DequeueHelp, DequeueSwing,
         DequeueData, DequeueSize, TryDelete, TryDeleteCheck, TryDeleteFree,
         TryDeleteTake, TryDeleteCount, ReleaseFreeList, AddListToFreeList,
         AddNodeRead, AddNodeLink, AddNodeCAS, AddNodeCount
  <2>1. /\ pc[t] \in DequeuePC /\ pc'[t] \notin EnqueuePC
        /\ pc[t] # "e_swing" /\ pc'[t] # "e_swing"
        /\ UNCHANGED <<calls, discipline, enqueued>>
    BY <1>4 DEF TypeOK, DequeuePC, EnqueuePC, AddPC
  <2>2. CASE DequeueHelp(t) /\ last[t] = tail
    <3>1. ASSUME NEW n, n = next[tail.ptr]
          PROVE  /\ tail'.ptr = n /\ n # Null /\ tail.ptr \in Queue
                 /\ Place(n)' = enqueued
      <4>1. Place(n)' = Place(n)
        BY <2>2 DEF Place
      <4> HIDE DEF DequeueStep, DequeueHelp
      <4>2. /\ tail' = [ptr |-> n, stamp |-> tail.stamp + 1] /\ n # Null
            /\ tail.ptr \in Queue /\ Place(n) = enqueued
        BY <2>2, <3>1, TailMoves
      <4> QED BY <4>1, <4>2
    <3>2. \A n : n = tail'.ptr => Place(n)' = enqueued
      BY <3>1
    <3>3. Place(tail.ptr)' = enqueued
      BY <3>2
    <3>4. discipline = "one_producer" =>
            \A u \in Threads : pc[u] \notin {"e_next", "e_check", "e_link"}
      <4>1. Place(tail.ptr) # enqueued
        BY <3>1, QueueNodes
      <4> QED BY <4>1 DEF DisciplineInv, EnqueuePC
    <3>5. discipline = "one_producer" =>
            \A u \in Threads : pc'[u] \notin {"e_next", "e_check", "e_link"}
      BY <1>1, <2>1, <3>4 DEF Others, EnqueuePC
    <3>7. pc'[t] # "e_help"
      BY <2>1 DEF EnqueuePC
    <3> HIDE DEF DequeueStep, DequeueHelp
    <3> QED BY <1>1, <2>1, <3>3, <3>5, <3>7, DisciplineStep
  <2>3. CASE ~ (DequeueHelp(t) /\ last[t] = tail)
    <3>1. tail' = tail
      BY <1>4, <2>3 DEF Swung
    <3>2. Place(tail.ptr)' = Place(tail.ptr)
      <4>1. CASE DequeueSwing(t) /\ head = first[t]
        <5>1. ASSUME NEW h, NEW n, h = head.ptr, n = next[head.ptr]
              PROVE  /\ tail.ptr # h /\ head'.ptr = n
                     /\ data' = data /\ dequeued' = dequeued + 1
                     /\ data[n] = dequeued + 1
          BY <4>1, <5>1, HeadMoves DEF Swung
        <5>2. tail.ptr # head.ptr /\ data' = data /\ data[head'.ptr] = dequeued'
          BY <5>1
        <5> QED BY <3>1, <5>2 DEF Place
      <4>2. CASE ~ (DequeueSwing(t) /\ head = first[t])
        <5>1. UNCHANGED <<head, data, dequeued>>
          BY <1>4, <4>2 DEF Swung
        <5> QED BY <3>1, <5>1 DEF Place
      <4> QED BY <4>1, <4>2
    <3>3. pc'[t] \notin {"e_next", "e_check", "e_link", "e_help"}
      BY <2>1 DEF EnqueuePC
    <3> HIDE DEF DequeueStep
    <3> QED BY <1>1, <2>1, <3>1, <3>2, <3>3, TailKept
  <2> QED BY <2>2, <2>3
<1> QED BY <1>3, <1>4


-----------------------------------------------------------------------------
(***************************************************************************)
(* The types.                                                              *)
(***************************************************************************)

\* What a compare-and-swap leaves in head or tail.
LEMMA SwungType ==
    ASSUME NEW pair \in StampNode, NEW seen \in StampNode, NEW n \in NodeOrNull
    PROVE  Swung(pair, seen, n) \in StampNode
BY DEF Swung, StampNode

\* The locals of a call that has ended.
LEMMA ForgetTypes ==
    ASSUME TypeOK, NEW t \in Threads, Forget(t)
    PROVE  /\ node' \in [Threads -> NodeOrNull]
           /\ first' \in [Threads -> StampNode] /\ last' \in [Threads -> StampNode]
           /\ local_next' \in [Threads -> NodeOrNull]
           /\ old_free_list' \in [Threads -> NodeOrNull]
           /\ list_end' \in [Threads -> NodeOrNull]
           /\ destination' \in [Threads -> 0 .. MaxEnqueues]
<1>1. Null \in NodeOrNull /\ NoStampNode \in StampNode /\ 0 \in 0 .. MaxEnqueues
  BY LockFreeQueueAssumption DEF NodeOrNull, StampNode, NoStampNode
<1> QED BY <1>1 DEF Forget, TypeOK

\* The steps of Enqueue keep the types,
LEMMA EnqueueTypes ==
    ASSUME TypeOK, NodeInv, CountInv, NEW t \in Threads, Enqueue(t) \/ EnqueueStep(t)
    PROVE  TypeOK'
<1> USE DEF Step, shared, locals, own_list, history, Forget
<1>1. MaxEnqueues \in Nat /\ MaxDequeues \in Nat
  BY LockFreeQueueAssumption
<1>2. CASE Enqueue(t)
  <2> USE DEF Enqueue
  <2>1. PICK n \in Nodes : /\ allocated' = allocated \cup {n}
                           /\ next' = [next EXCEPT ![n] = Null]
                           /\ node' = [node EXCEPT ![t] = n]
    BY <1>2
  <2>2. /\ allocated' \subseteq Nodes
        /\ next' \in [Nodes -> NodeOrNull] /\ node' \in [Threads -> NodeOrNull]
    BY <2>1 DEF TypeOK, NodeOrNull
  <2>3. calls' \in [enqueue : 0 .. MaxEnqueues, dequeue : 0 .. MaxDequeues]
    BY <1>1, <1>2 DEF TypeOK
  <2>4. pc' \in [Threads -> {"idle"} \cup EnqueuePC \cup DequeuePC]
    BY <1>2 DEF TypeOK, EnqueuePC
  <2> QED BY <1>2, <2>2, <2>3, <2>4 DEF TypeOK
<1>3. CASE EnqueueReadTail(t) \/ EnqueueReadNext(t) \/ EnqueueCheck(t)
  <2> USE DEF EnqueueReadTail, EnqueueReadNext, EnqueueCheck
  <2>1. pc' \in [Threads -> {"idle"} \cup EnqueuePC \cup DequeuePC]
    BY <1>3 DEF TypeOK, EnqueuePC
  <2>2. /\ last' \in [Threads -> StampNode] /\ local_next' \in [Threads -> NodeOrNull]
    BY <1>3 DEF TypeOK
  <2> QED BY <1>3, <2>1, <2>2 DEF TypeOK
<1>4. CASE EnqueueLink(t)
  <2> USE DEF EnqueueLink
  <2>1. pc' \in [Threads -> {"idle"} \cup EnqueuePC \cup DequeuePC]
    BY <1>4 DEF TypeOK, EnqueuePC
  <2>2. enqueued + 1 \in 0 .. MaxEnqueues
    <3>1. t \in Linking
      BY <1>4 DEF Linking, LinkPC
    <3> QED BY <3>1, <1>1, GroupBounds DEF TypeOK
  <2>3. /\ next' \in [Nodes -> NodeOrNull] /\ data' \in [Nodes -> 0 .. MaxEnqueues]
        /\ enqueued' \in 0 .. MaxEnqueues /\ dequeued \in 0 .. enqueued'
    BY <1>4, <1>1, <2>2 DEF TypeOK
  <2> QED BY <1>4, <2>1, <2>3 DEF TypeOK
<1>5. CASE EnqueueSwing(t) \/ EnqueueHelp(t)
  <2> USE DEF EnqueueSwing, EnqueueHelp
  <2>1. pc' \in [Threads -> {"idle"} \cup EnqueuePC \cup DequeuePC]
    BY <1>5 DEF TypeOK, EnqueuePC
  <2>2. tail' \in StampNode
    <3>1. /\ tail \in StampNode /\ last[t] \in StampNode
          /\ node[t] \in NodeOrNull /\ local_next[t] \in NodeOrNull
      BY DEF TypeOK
    <3>2. /\ Swung(tail, last[t], node[t]) \in StampNode
          /\ Swung(tail, last[t], local_next[t]) \in StampNode
      BY <3>1, SwungType
    <3> QED BY <1>5, <3>2
  <2> QED BY <1>5, <2>1, <2>2 DEF TypeOK
<1>6. CASE EnqueueSize(t)
  <2> USE DEF EnqueueSize
  <2>1. pc' \in [Threads -> {"idle"} \cup EnqueuePC \cup DequeuePC]
    BY <1>6 DEF TypeOK, EnqueuePC
  <2>2. /\ node' \in [Threads -> NodeOrNull]
        /\ first' \in [Threads -> StampNode] /\ last' \in [Threads -> StampNode]
        /\ local_next' \in [Threads -> NodeOrNull]
        /\ old_free_list' \in [Threads -> NodeOrNull]
        /\ list_end' \in [Threads -> NodeOrNull]
        /\ destination' \in [Threads -> 0 .. MaxEnqueues]
    <3> HIDE DEF Forget
    <3>1. Forget(t)
      BY <1>6
    <3> HIDE DEF EnqueueSize
    <3> QED BY <3>1, ForgetTypes
  <2>3. size' \in Int
    BY <1>6 DEF TypeOK
  <2> QED BY <1>6, <2>1, <2>2, <2>3 DEF TypeOK
<1> QED BY <1>2, <1>3, <1>4, <1>5, <1>6 DEF EnqueueStep

\* and the steps of Dequeue,
LEMMA DequeueTypes ==
    ASSUME TypeOK, NodeInv, CountInv, NEW t \in Threads,
           Dequeue(t) \/ (DequeueStep(t) /\ ~ TryDelete(t))
    PROVE  TypeOK'
<1> USE DEF Step, shared, locals, own_list, history, Forget
<1>1. MaxEnqueues \in Nat /\ MaxDequeues \in Nat
  BY LockFreeQueueAssumption
<1>2. CASE Dequeue(t)
  <2> USE DEF Dequeue
  <2>1. pc' \in [Threads -> {"idle"} \cup EnqueuePC \cup DequeuePC]
    BY <1>2 DEF TypeOK, DequeuePC
  <2>2. calls' \in [enqueue : 0 .. MaxEnqueues, dequeue : 0 .. MaxDequeues]
    BY <1>1, <1>2 DEF TypeOK
  <2>3. pop_count' \in 0 .. MaxDequeues
    BY <1>1, <1>2 DEF TypeOK, CountInv
  <2> QED BY <1>2, <2>1, <2>2, <2>3 DEF TypeOK
<1>3. CASE \/ DequeueReadHead(t) \/ DequeueReadTail(t) \/ DequeueReadNext(t)
           \/ DequeueCheck(t)
  <2> USE DEF DequeueReadHead, DequeueReadTail, DequeueReadNext, DequeueCheck
  <2>1. pc' \in [Threads -> {"idle"} \cup EnqueuePC \cup DequeuePC]
    BY <1>3 DEF TypeOK, DequeuePC
  <2>2. /\ first' \in [Threads -> StampNode] /\ last' \in [Threads -> StampNode]
        /\ local_next' \in [Threads -> NodeOrNull]
    BY <1>3 DEF TypeOK
  <2> QED BY <1>3, <2>1, <2>2 DEF TypeOK
<1>4. CASE DequeueEmpty(t) \/ DequeueSize(t)
  <2> USE DEF DequeueEmpty, DequeueSize
  <2>1. pc' \in [Threads -> {"idle"} \cup EnqueuePC \cup DequeuePC]
    BY <1>4 DEF TypeOK, DequeuePC
  <2>2. /\ node' \in [Threads -> NodeOrNull]
        /\ first' \in [Threads -> StampNode] /\ last' \in [Threads -> StampNode]
        /\ local_next' \in [Threads -> NodeOrNull]
        /\ old_free_list' \in [Threads -> NodeOrNull]
        /\ list_end' \in [Threads -> NodeOrNull]
        /\ destination' \in [Threads -> 0 .. MaxEnqueues]
    <3> HIDE DEF Forget
    <3>1. Forget(t)
      BY <1>4
    <3> HIDE DEF DequeueEmpty, DequeueSize
    <3> QED BY <3>1, ForgetTypes
  <2>3. size' \in Int
    BY <1>4 DEF TypeOK
  <2> QED BY <1>4, <2>1, <2>2, <2>3 DEF TypeOK
<1>5. CASE DequeueHelp(t)
  <2> USE DEF DequeueHelp
  <2>1. pc' \in [Threads -> {"idle"} \cup EnqueuePC \cup DequeuePC]
    BY <1>5 DEF TypeOK, DequeuePC
  <2>2. tail' \in StampNode
    BY <1>5, SwungType DEF TypeOK
  <2> QED BY <1>5, <2>1, <2>2 DEF TypeOK
<1>6. CASE DequeueSwing(t)
  <2>1. head = first[t] => dequeued + 1 <= enqueued
    <3>1. ASSUME head = first[t], NEW h, NEW n, h = head.ptr, n = next[head.ptr]
          PROVE  dequeued + 1 <= enqueued
      BY <1>6, <3>1, HeadMoves
    <3> QED BY <3>1
  <2> USE DEF DequeueSwing
  <2>2. pc' \in [Threads -> {"idle"} \cup EnqueuePC \cup DequeuePC]
    BY <1>6 DEF TypeOK, DequeuePC
  <2>3. head' \in StampNode
    BY <1>6, SwungType DEF TypeOK
  <2>4. node' \in [Threads -> NodeOrNull]
    BY <1>6 DEF TypeOK, StampNode
  <2>5. dequeued' \in 0 .. enqueued /\ due' \in [Threads -> 0 .. MaxEnqueues]
    BY <1>6, <1>1, <2>1 DEF TypeOK
  <2> QED BY <1>6, <2>2, <2>3, <2>4, <2>5 DEF TypeOK
<1>7. CASE DequeueData(t)
  <2> USE DEF DequeueData
  <2>1. pc' \in [Threads -> {"idle"} \cup EnqueuePC \cup DequeuePC]
    BY <1>7 DEF TypeOK, DequeuePC
  <2>2. destination' \in [Threads -> 0 .. MaxEnqueues]
    BY <1>7 DEF TypeOK
  <2> QED BY <1>7, <2>1, <2>2 DEF TypeOK
<1> QED BY <1>2, <1>3, <1>4, <1>5, <1>6, <1>7 DEF DequeueStep

\* and those of TryDelete.
LEMMA TryDeleteTypes ==
    ASSUME TypeOK, NodeInv, CountInv, NEW t \in Threads, TryDelete(t)
    PROVE  TypeOK'
<1> USE DEF Step, shared, locals, own_list, history
<1>1. MaxEnqueues \in Nat /\ MaxDequeues \in Nat
  BY LockFreeQueueAssumption
<1>2. CASE TryDeleteCheck(t) \/ TryDeleteFree(t) \/ TryDeleteTake(t) \/ ReleaseFreeList(t)
  <2> USE DEF TryDeleteCheck, TryDeleteFree, TryDeleteTake, ReleaseFreeList
  <2>1. pc' \in [Threads -> {"idle"} \cup EnqueuePC \cup DequeuePC]
    BY <1>2 DEF TypeOK, DequeuePC, AddPC
  <2>2. /\ node' \in [Threads -> NodeOrNull]
        /\ old_free_list' \in [Threads -> NodeOrNull]
        /\ list_end' \in [Threads -> NodeOrNull]
        /\ free_list' \in NodeOrNull /\ allocated' \subseteq Nodes
    BY <1>2 DEF TypeOK, NodeOrNull
  <2> QED BY <1>2, <2>1, <2>2 DEF TypeOK
<1>3. CASE TryDeleteCount(t) \/ AddNodeCount(t)
  <2> USE DEF TryDeleteCount, AddNodeCount
  <2>1. pc' \in [Threads -> {"idle"} \cup EnqueuePC \cup DequeuePC]
    BY <1>3 DEF TypeOK, DequeuePC, AddPC
  <2>2. pop_count' \in 0 .. MaxDequeues
    <3>1. t \in Counted
      BY <1>3 DEF Counted
    <3> QED BY <1>1, <1>3, <3>1, GroupBounds DEF TypeOK
  <2> QED BY <1>3, <2>1, <2>2 DEF TypeOK
<1>4. CASE AddListToFreeList(t)
  <2> USE DEF AddListToFreeList
  <2>1. pc' \in [Threads -> {"idle"} \cup EnqueuePC \cup DequeuePC]
    BY <1>4 DEF TypeOK, DequeuePC, AddPC
  <2>2. \E n \in Chain(old_free_list[t]) : next[n] = Null
    <3>1. ListRead(t)
      BY DEF NodeInv, ThreadInv
    <3>2. Held(t) = Chain(old_free_list[t])
      BY <1>4 DEF Held
    <3> QED BY <1>4, <3>1, <3>2 DEF ListRead, TakenPC
  <2>3. (CHOOSE n \in Chain(old_free_list[t]) : next[n] = Null) \in allocated
    BY <1>4, <2>2
  <2>4. list_end' \in [Threads -> NodeOrNull]
    BY <1>4, <2>3 DEF TypeOK, NodeOrNull
  <2> QED BY <1>4, <2>1, <2>4 DEF TypeOK
<1>5. CASE AddNodeRead(t) \/ AddNodeLink(t) \/ AddNodeCAS(t)
  <2> USE DEF AddNodeRead, AddNodeLink, AddNodeCAS
  <2>1. pc' \in [Threads -> {"idle"} \cup EnqueuePC \cup DequeuePC]
    BY <1>5 DEF TypeOK, DequeuePC, AddPC
  <2>2. /\ local_next' \in [Threads -> NodeOrNull]
        /\ next' \in [Nodes -> NodeOrNull]
        /\ free_list' \in NodeOrNull
    BY <1>5 DEF TypeOK
  <2>3. /\ node' \in [Threads -> NodeOrNull]
        /\ old_free_list' \in [Threads -> NodeOrNull]
        /\ list_end' \in [Threads -> NodeOrNull]
    BY <1>5 DEF TypeOK, NodeOrNull
  <2> QED BY <1>5, <2>1, <2>2, <2>3 DEF TypeOK
<1> QED BY <1>2, <1>3, <1>4, <1>5 DEF TryDelete

-----------------------------------------------------------------------------
(***************************************************************************)
(* The invariant holds.                                                    *)
(***************************************************************************)

\* The constructor makes a queue of the dummy alone.
LEMMA InitNodes ==
    ASSUME Init
    PROVE  NodeInv
<1>1. PICK dummy \in Nodes : /\ head = [ptr |-> dummy, stamp |-> 0]
                             /\ tail = [ptr |-> dummy, stamp |-> 0]
                             /\ allocated = {dummy}
  BY DEF Init
<1>2. next \in Links /\ \A n \in Nodes : next[n] = Null
  BY DEF Init, Links, NodeOrNull
<1>3. Queue = {dummy}
  <2>1. Part(next, allocated, dummy, dummy) = Part(next, allocated, dummy, Null)
    BY <1>2, PartEnd DEF NodeOrNull
  <2> QED BY <1>1, <2>1, QueueParts, PartOne
<1>4. Free = {}
  BY QueueParts, PartNull DEF Init
<1>5. \A t \in Threads : pc[t] = "idle" /\ Held(t) = {}
  BY DEF Init, Held
<1>6. NodeInOnePlace
  <2>1. UNION {Held(t) : t \in Threads} = {}
    BY <1>5
  <2> QED BY <1>1, <1>3, <1>4, <1>5, <2>1 DEF NodeInOnePlace, Queue, Free
<1>7. QueueInv
  BY <1>1, <1>2, <1>3 DEF QueueInv, Place, Init
<1>8. FreeEnds
  BY DEF FreeEnds, Init
<1>9. ASSUME NEW t \in Threads PROVE ThreadInv(t)
  <2>1. /\ pc[t] = "idle" /\ first[t].stamp = 0 /\ last[t].stamp = 0
        /\ destination[t] = 0
    BY DEF Init, NoStampNode
  <2>2. ListRead(t) /\ LastRead(t) /\ Refers(t)
    BY <2>1 DEF ListRead, LastRead, Refers, LinkPC, TakenPC, PutPC, RefPC
  <2>3. HeadRead(t) /\ TailRead(t)
    BY <1>1, <2>1 DEF HeadRead, TailRead
  <2>4. Value(t)
    BY <2>1 DEF Value, AddPC
  <2> QED BY <2>2, <2>3, <2>4 DEF ThreadInv
<1> QED BY <1>6, <1>7, <1>8, <1>9 DEF NodeInv

\* The invariant holds at first,
LEMMA InitIInv == SafeUse /\ Init => IInv
<1> SUFFICES ASSUME SafeUse, Init PROVE IInv
  OBVIOUS
<1>1. MaxEnqueues \in Nat /\ MaxDequeues \in Nat
  BY LockFreeQueueAssumption
<1>2. TypeOK
  <2>1. head \in StampNode /\ tail \in StampNode /\ allocated \subseteq Nodes
    BY DEF Init, StampNode, NodeOrNull
  <2>2. first \in [Threads -> StampNode] /\ last \in [Threads -> StampNode]
    BY DEF Init, StampNode, NodeOrNull, NoStampNode
  <2>3. /\ next \in [Nodes -> NodeOrNull] /\ free_list \in NodeOrNull
        /\ node \in [Threads -> NodeOrNull] /\ local_next \in [Threads -> NodeOrNull]
        /\ old_free_list \in [Threads -> NodeOrNull]
        /\ list_end \in [Threads -> NodeOrNull]
    BY DEF Init, NodeOrNull
  <2>4. /\ data \in [Nodes -> 0 .. MaxEnqueues]
        /\ destination \in [Threads -> 0 .. MaxEnqueues]
        /\ due \in [Threads -> 0 .. MaxEnqueues]
        /\ size \in Int /\ pop_count \in 0 .. MaxDequeues
        /\ enqueued \in 0 .. MaxEnqueues /\ dequeued \in 0 .. enqueued
        /\ calls \in [enqueue : 0 .. MaxEnqueues, dequeue : 0 .. MaxDequeues]
    BY <1>1 DEF Init
  <2>5. /\ pc \in [Threads -> {"idle"} \cup EnqueuePC \cup DequeuePC]
        /\ discipline \in Disciplines
    BY DEF Init
  <2> QED BY <2>1, <2>2, <2>3, <2>4, <2>5 DEF TypeOK
<1>3. \A t \in Threads : pc[t] = "idle"
  BY DEF Init
<1>4. CountInv
  <2>1. /\ Busy = {}
        /\ Counted = {} /\ Linking = {} /\ Linked = {} /\ Leaving = {}
    BY <1>3 DEF Busy, Counted, Linking, Linked, Leaving, PutPC, LinkPC, AddPC
  <2>2. IsFiniteSet({}) /\ Cardinality({}) = 0
    BY FS_EmptySet
  <2>3. /\ size = 0 /\ pop_count = 0 /\ enqueued = 0 /\ dequeued = 0
        /\ calls.enqueue = 0 /\ calls.dequeue = 0
    BY DEF Init
  <2>4. IsFiniteSet(Busy)
    BY <2>1, <2>2
  <2>5. /\ Cardinality(Counted) = 0 /\ Cardinality(Linking) = 0
        /\ Cardinality(Linked) = 0 /\ Cardinality(Leaving) = 0
    BY <2>1, <2>2
  <2> QED BY <2>3, <2>4, <2>5 DEF CountInv
<1>5. DisciplineInv
  <2>1. Place(tail.ptr) = enqueued
    BY DEF Init, Place
  <2> QED BY <1>3, <2>1 DEF DisciplineInv, EnqueuePC, DequeuePC, AddPC
<1> QED BY <1>2, <1>4, <1>5, InitNodes DEF IInv

\* and after every step.
LEMMA NextIInv == IInv /\ [Next]_vars => IInv'
<1> SUFFICES ASSUME IInv, [Next]_vars PROVE IInv'
  OBVIOUS
<1>0. SafeUse /\ TypeOK /\ NodeInv /\ CountInv /\ DisciplineInv
  BY DEF IInv
<1>1. SafeUse'
  BY <1>0 DEF SafeUse
<1>2. ASSUME NEW t \in Threads, Enqueue(t) \/ EnqueueStep(t) PROVE IInv'
  <2>1. TypeOK'
    BY <1>0, <1>2, EnqueueTypes
  <2>2. NodeInv'
    BY <1>0, <1>2, StepNodes
  <2>3. CountInv'
    BY <1>0, <1>2, <2>1, EnqueueCounts
  <2>4. DisciplineInv'
    BY <1>0, <1>2, <2>1, EnqueueDiscipline
  <2> QED BY <1>1, <2>1, <2>2, <2>3, <2>4 DEF IInv
<1>3. ASSUME NEW t \in Threads, Dequeue(t) \/ DequeueStep(t) PROVE IInv'
  <2>1. TypeOK'
    BY <1>0, <1>3, DequeueTypes, TryDeleteTypes
  <2>2. NodeInv'
    BY <1>0, <1>3, StepNodes
  <2>3. CountInv'
    BY <1>0, <1>3, <2>1, DequeueCounts, TryDeleteCounts
  <2>4. DisciplineInv'
    BY <1>0, <1>3, <2>1, DequeueDiscipline
  <2> QED BY <1>1, <2>1, <2>2, <2>3, <2>4 DEF IInv
<1>4. CASE UNCHANGED vars
  <2> USE <1>4 DEF vars, shared, locals, own_list, history
  <2>1. TypeOK'
    BY <1>0 DEF TypeOK
  <2>2. /\ Queue' = Queue /\ Free' = Free
        /\ \A t \in Threads : Held(t)' = Held(t)
    BY DEF Queue, Free, Held, Chain, Segment
  <2>3. NodeInOnePlace' /\ QueueInv' /\ FreeEnds'
    <3>1. \A n : Place(n)' = Place(n)
      BY DEF Place
    <3>2. QueueInv'
      BY <1>0, <2>2, <3>1 DEF NodeInv, QueueInv
    <3>3. NodeInOnePlace'
      BY <1>0, <2>2 DEF NodeInv, NodeInOnePlace, Queue, Free
    <3> QED BY <1>0, <2>2, <3>2, <3>3 DEF NodeInv, FreeEnds
  <2>4. \A t \in Threads : ThreadInv(t)'
    <3>1. \A n : Place(n)' = Place(n) /\ Guarded(n)' = Guarded(n)
      BY <2>2 DEF Place, Guarded
    <3> TAKE t \in Threads
    <3>2. ThreadInv(t)
      BY <1>0 DEF NodeInv
    <3>3. ListRead(t)' /\ HeadRead(t)' /\ TailRead(t)'
      BY <2>2, <3>2 DEF ThreadInv, ListRead, HeadRead, TailRead
    <3>4. LastRead(t)' /\ Refers(t)' /\ Value(t)'
      BY <2>2, <3>1, <3>2 DEF ThreadInv, LastRead, Refers, Value
    <3> QED BY <3>3, <3>4 DEF ThreadInv
  <2>5. CountInv'
    BY <1>0 DEF CountInv, Busy, Counted, Linking, Linked, Leaving
  <2>6. DisciplineInv'
    BY <1>0 DEF DisciplineInv, Place
  <2> QED BY <1>1, <2>1, <2>3, <2>4, <2>5, <2>6 DEF IInv, NodeInv
<1> QED BY <1>2, <1>3, <1>4 DEF Next, Threads

\* What holds in every state of an application that keeps to the disciplines.
THEOREM Invariance ==
    ASSUME SafeUse
    PROVE  Spec => []IInv
<1>1. Init => IInv
  BY InitIInv
<1> QED BY <1>1, NextIInv, PTL DEF Spec

-----------------------------------------------------------------------------
(***************************************************************************)
(* The properties.                                                         *)
(***************************************************************************)

\* The types of LockFreeQueue: for one, pop_count never falls below 0, though
\* a Dequeue counts itself off in one of three places.
THEOREM TypeCorrect ==
    ASSUME SafeUse
    PROVE  Spec => []TypeOK
<1>1. IInv => TypeOK
  BY DEF IInv
<1> QED BY <1>1, Invariance, PTL

\* What a thread touches is allocated and is not what another is about to free.
LEMMA TouchedNodes ==
    ASSUME IInv, NEW t \in Threads
    PROVE  /\ Touches(t) \subseteq allocated
           /\ \A u \in Threads \ {t} :
                pc[u] = "td_free" => node[u] \notin Touches(t)
<1>0. /\ ThreadInv(t) /\ NodeInv
      /\ Queue \subseteq allocated /\ Held(t) \subseteq allocated
      /\ \A u \in Threads : Held(u) \cap Queue = {}
      /\ \A u \in Threads \ {t} : Held(u) \cap Held(t) = {}
  <2>1. NodeInOnePlace /\ NodeInv /\ ThreadInv(t)
    BY DEF IInv, NodeInv
  <2> QED BY <2>1, Places
<1>1. \A u \in Threads : pc[u] = "td_free" => node[u] \in Held(u) /\ pc[u] \in DoomPC
  BY DEF Held, DoomPC
<1>2. CASE pc[t] \in {"e_next", "e_link"}
  <2>1. Touches(t) = {last[t].ptr} /\ last[t].ptr \in Queue
    BY <1>0, <1>2 DEF Touches, ThreadInv, LastRead, LinkPC
  <2> QED BY <1>0, <1>1, <2>1
<1>3. CASE pc[t] \in {"d_next", "d_data"}
  <2>1. PICK n : Touches(t) = {n} /\ Guarded(n)
    BY <1>0, <1>3 DEF Touches, ThreadInv, Refers, RefPC
  <2> QED BY <1>1, <2>1 DEF Guarded
<1>4. CASE pc[t] \in {"td_free", "td_release", "fl_walk", "fl_link"}
  <2>1. Touches(t) \subseteq Held(t)
    BY <1>0, <1>4 DEF Touches, Held, ThreadInv, ListRead, PutPC
  <2> QED BY <1>0, <1>1, <2>1
<1>5. CASE pc[t] \notin {"e_next", "e_link", "d_next", "d_data", "td_free",
                         "td_release", "fl_walk", "fl_link"}
  BY <1>5 DEF Touches
<1> QED BY <1>2, <1>3, <1>4, <1>5

\* No thread reads, writes or frees a node that was freed, though TryDelete
\* frees while other threads are in Dequeue and Enqueue.
THEOREM NodesAreLive ==
    ASSUME SafeUse
    PROVE  Spec => []NoUseAfterFree
<1>1. IInv => NoUseAfterFree
  BY TouchedNodes DEF NoUseAfterFree
<1> QED BY <1>1, Invariance, PTL

\* In the disciplines the comment in TryDelete is right: the node a thread is
\* about to free is one that no other thread is about to use.
THEOREM FreedAlone ==
    ASSUME SafeUse
    PROVE  Spec => []NobodyHasTheHead
<1>1. IInv => NobodyHasTheHead
  BY TouchedNodes DEF NobodyHasTheHead
<1> QED BY <1>1, Invariance, PTL

\* The nodes from head on are the values enqueued and not dequeued, in order,
\* tail is the last or the last but one, and size counts them when all is idle.
THEOREM ListIsQueue ==
    ASSUME SafeUse
    PROVE  Spec => []QueueLinked
<1>1. IInv => QueueLinked
  <2> SUFFICES ASSUME IInv PROVE QueueLinked
    OBVIOUS
  <2>1. QueueInv /\ CountInv /\ Queue \subseteq allocated /\ TypeOK
    BY Places DEF IInv, NodeInv
  <2>2. (\A t \in Threads : pc[t] = "idle") => size = enqueued - dequeued
    <3> SUFFICES ASSUME \A t \in Threads : pc[t] = "idle"
                 PROVE  size = enqueued - dequeued
      OBVIOUS
    <3>1. Linked = {} /\ Leaving = {}
      BY DEF Linked, Leaving, AddPC
    <3>2. Cardinality({}) = 0
      BY FS_EmptySet
    <3> QED BY <2>1, <3>1, <3>2 DEF CountInv, TypeOK
  <2> QED BY <2>1, <2>2 DEF QueueInv, QueueLinked, Queue
<1> QED BY <1>1, Invariance, PTL

\* The values leave the queue in the order they entered, whichever threads
\* enqueue and dequeue them.
THEOREM ValuesInOrder ==
    ASSUME SafeUse
    PROVE  Spec => []FirstInFirstOut
<1>1. IInv => FirstInFirstOut
  BY DEF IInv, NodeInv, ThreadInv, Value, FirstInFirstOut
<1> QED BY <1>1, Invariance, PTL

\* No node is lost and none is freed twice: each that is allocated is in the
\* queue, in free_list or with one thread.
THEOREM NodesInOnePlace ==
    ASSUME SafeUse
    PROVE  Spec => []NodeInOnePlace
<1>1. IInv => NodeInOnePlace
  BY DEF IInv, NodeInv
<1> QED BY <1>1, Invariance, PTL

=============================================================================
