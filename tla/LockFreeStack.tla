----------------------------- MODULE LockFreeStack -----------------------------
(***************************************************************************)
(* LockFreeStack (LockFreeStack.h): a linked list whose top is a pair of a *)
(* pointer and a stamp.  Push and Pop read the pair in two steps and       *)
(* replace it with a 128-bit compare-and-swap.  mymp::LockFreeStack, the   *)
(* container of a memory pool, is the same code over memory blocks.        *)
(*                                                                         *)
(* A node that has been popped may be pushed again, as the pool does; the  *)
(* nodes of LockFreeStack.h are new ones each time and are never freed.    *)
(***************************************************************************)
EXTENDS Integers, Sequences

CONSTANTS
    Threads,
    Nodes,
    Null

\* What is expected of the constants.  The users of the module, which take it
\* with INSTANCE, assume or prove it.
NullIsNoNode == Null \notin Nodes

VARIABLES
    top,                \* the StampNode: ptr and stamp
    next,               \* Node::next of each node
    size,
    pc,
    oldTop,             \* locals of Push and Pop
    oldNext,            \* oldTop.ptr->next, the new pointer Pop proposes
    node,               \* what a thread pushes, or Pop has returned
    stack               \* history: the nodes pushed and not popped, the top last

vars == <<top, next, size, pc, oldTop, oldNext, node, stack>>

-----------------------------------------------------------------------------

Init ==
    /\ top = [ptr |-> Null, stamp |-> 0]
    /\ next = [n \in Nodes |-> Null]
    /\ size = 0
    /\ pc = [t \in Threads |-> "idle"]
    /\ oldTop = [t \in Threads |-> top]
    /\ oldNext = [t \in Threads |-> Null]
    /\ node = [t \in Threads |-> Null]
    /\ stack = <<>>

Step(t, from, to) ==
    /\ pc[t] = from
    /\ pc' = [pc EXCEPT ![t] = to]

InStack(n) == \E i \in 1 .. Len(stack) : stack[i] = n

\* A call of thread t has the node to itself.
Holds(t, n) ==
    /\ pc[t] \in {"push_ptr", "push_stamp", "push_link", "push_cas", "pop_size"}
    /\ node[t] = n

Free(n) == ~InStack(n) /\ \A t \in Threads : ~Holds(t, n)

\* The constructor of a node, run by whoever has it.
NewNode(n) ==
    /\ n \in Nodes /\ Free(n)
    /\ next' = [next EXCEPT ![n] = Null]
    /\ UNCHANGED <<top, size, pc, oldTop, oldNext, node, stack>>

\* Push of a node that is nowhere else.
Push(t, n) ==
    /\ n \in Nodes /\ Free(n)
    /\ Step(t, "idle", "push_ptr")
    /\ node' = [node EXCEPT ![t] = n]
    /\ UNCHANGED <<top, next, size, oldTop, oldNext, stack>>

Pop(t) ==
    /\ Step(t, "idle", "pop_ptr")
    /\ node' = [node EXCEPT ![t] = Null]
    /\ UNCHANGED <<top, next, size, oldTop, oldNext, stack>>

\* Both loops read the pointer and then the stamp; another thread may move
\* the top in between.
ReadPtr(t) ==
    /\ \/ Step(t, "push_ptr", "push_stamp")
       \/ Step(t, "pop_ptr", "pop_stamp")
    /\ oldTop' = [oldTop EXCEPT ![t].ptr = top.ptr]
    /\ UNCHANGED <<top, next, size, oldNext, node, stack>>

\* Pop returns false when there was no top.
ReadStamp(t) ==
    /\ \/ Step(t, "push_stamp", "push_link")
       \/ Step(t, "pop_stamp", IF oldTop[t].ptr = Null THEN "idle" ELSE "pop_next")
    /\ oldTop' = [oldTop EXCEPT ![t].stamp = top.stamp]
    /\ UNCHANGED <<top, next, size, oldNext, node, stack>>

PushLink(t) ==
    /\ Step(t, "push_link", "push_cas")
    /\ next' = [next EXCEPT ![node[t]] = oldTop[t].ptr]
    /\ UNCHANGED <<top, size, oldTop, oldNext, node, stack>>

\* Mutants: only the pointer is compared; nothing is.
CompareExchangePointer(t) == top.ptr = oldTop[t].ptr
CompareExchangeAlways(t) == t \in Threads

\* InterlockedCompareExchange128 finds the pair that the thread has read.
CompareExchange(t) == top = oldTop[t]

\* Mutant: a failure proposes the same node again.
PopRetryInsists(t) == Step(t, "pop_cas", "pop_next")

\* After a failure the top is read again.
PopRetry(t) == Step(t, "pop_cas", "pop_ptr")
PushRetry(t) == Step(t, "push_cas", "push_ptr")

PushCAS(t) ==
    /\ \/ /\ CompareExchange(t)
          /\ Step(t, "push_cas", "push_size")
          /\ top' = [ptr |-> node[t], stamp |-> oldTop[t].stamp + 1]
          /\ stack' = Append(stack, node[t])
       \/ ~CompareExchange(t) /\ PushRetry(t) /\ UNCHANGED <<top, stack>>
    /\ UNCHANGED <<next, size, oldTop, oldNext, node>>

PushSize(t) ==
    /\ Step(t, "push_size", "idle")
    /\ size' = size + 1
    /\ UNCHANGED <<top, next, oldTop, oldNext, node, stack>>

\* oldTop.ptr->next, of a node that another thread may have popped.
PopReadNext(t) ==
    /\ Step(t, "pop_next", "pop_cas")
    /\ oldNext' = [oldNext EXCEPT ![t] = next[oldTop[t].ptr]]
    /\ UNCHANGED <<top, next, size, oldTop, node, stack>>

PopCAS(t) ==
    /\ \/ /\ CompareExchange(t)
          /\ Step(t, "pop_cas", "pop_size")
          /\ top' = [ptr |-> oldNext[t], stamp |-> oldTop[t].stamp + 1]
          /\ node' = [node EXCEPT ![t] = oldTop[t].ptr]
          /\ stack' = SubSeq(stack, 1, Len(stack) - 1)
       \/ ~CompareExchange(t) /\ PopRetry(t) /\ UNCHANGED <<top, node, stack>>
    /\ UNCHANGED <<next, size, oldTop, oldNext>>

\* Pop returns true and the data of the node.
PopSize(t) ==
    /\ Step(t, "pop_size", "idle")
    /\ size' = size - 1
    /\ UNCHANGED <<top, next, oldTop, oldNext, node, stack>>

\* The steps of a call up to the one that counts the node.
Run(t) == \/ ReadPtr(t) \/ ReadStamp(t) \/ PushLink(t) \/ PushCAS(t)
          \/ PopReadNext(t) \/ PopCAS(t)

Next == \E t \in Threads :
            \/ Run(t) \/ PushSize(t) \/ PopSize(t)
            \/ Pop(t)
            \/ \E n \in Nodes : Push(t, n) \/ NewNode(n)

Spec == Init /\ [][Next]_vars

-----------------------------------------------------------------------------

Stamped == [ptr : Nodes \cup {Null}, stamp : Nat]
PushPC == {"push_ptr", "push_stamp", "push_link", "push_cas", "push_size"}
PopPC == {"pop_ptr", "pop_stamp", "pop_next", "pop_cas", "pop_size"}

TypeOK ==
    /\ top \in Stamped
    /\ next \in [Nodes -> Nodes \cup {Null}]
    /\ size \in Int
    /\ pc \in [Threads -> {"idle"} \cup PushPC \cup PopPC]
    /\ oldTop \in [Threads -> Stamped]
    /\ oldNext \in [Threads -> Nodes \cup {Null}]
    /\ node \in [Threads -> Nodes \cup {Null}]
    /\ stack \in Seq(Nodes)

\* The linked list that starts at top is the stack of the nodes whose Push
\* has taken effect and whose Pop has not: no compare-and-swap that succeeds
\* installs an outdated next pointer.
StackLinked ==
    /\ top.ptr = IF stack = <<>> THEN Null ELSE stack[Len(stack)]
    /\ \A i \in 1 .. Len(stack) :
         next[stack[i]] = IF i = 1 THEN Null ELSE stack[i - 1]

\* A node is in the stack once, or one call has it, or neither.
NodeInOnePlace ==
    /\ \A i, j \in 1 .. Len(stack) : stack[i] = stack[j] => i = j
    /\ \A t \in Threads, n \in Nodes : Holds(t, n) =>
         /\ ~InStack(n)
         /\ \A u \in Threads : Holds(u, n) => u = t

=============================================================================
