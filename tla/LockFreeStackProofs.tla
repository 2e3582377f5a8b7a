-------------------------- MODULE LockFreeStackProofs --------------------------
(***************************************************************************)
(* Proofs about LockFreeStack, for every number of threads, nodes and      *)
(* calls: its types, that the linked list is the stack, and that a node is *)
(* in one place.                                                           *)
(***************************************************************************)
EXTENDS LockFreeStack, SequenceTheorems, TLAPS

USE DEF NullIsNoNode

-----------------------------------------------------------------------------
(***************************************************************************)
(* The inductive invariant.  What a thread has read may be out of date; it *)
(* is used only if the pair is still the top.  The stamp grows whenever    *)
(* the top moves, hence a thread whose pair is the top has read the next   *)
(* pointer of the node that is there now.                                  *)
(***************************************************************************)

StampRead == {"push_link", "push_cas", "pop_next", "pop_cas"}

ReadInv ==
    \A t \in Threads :
        /\ pc[t] \in StampRead => oldTop[t].stamp <= top.stamp
        /\ pc[t] \in {"pop_next", "pop_cas"} => oldTop[t].ptr # Null
        /\ pc[t] = "pop_cas" /\ oldTop[t] = top => oldNext[t] = next[top.ptr]

NodeInv ==
    \A t \in Threads :
        /\ pc[t] \in {"push_ptr", "push_stamp", "push_link", "push_cas", "pop_size"}
               => node[t] \in Nodes
        /\ pc[t] = "push_cas" => next[node[t]] = oldTop[t].ptr

IInv == NullIsNoNode /\ TypeOK /\ StackLinked /\ NodeInOnePlace /\ ReadInv /\ NodeInv

-----------------------------------------------------------------------------

LEMMA InitIInv == NullIsNoNode /\ Init => IInv
BY EmptySeq DEF Init, IInv, TypeOK, StackLinked, NodeInOnePlace, ReadInv, NodeInv,
   Holds, InStack, Stamped, StampRead, PushPC, PopPC

\* The last node of the stack is the one top points to.
LEMMA TopInStack ==
    ASSUME IInv, top.ptr # Null
    PROVE  /\ Len(stack) \in Nat \ {0}
           /\ stack[Len(stack)] = top.ptr
           /\ top.ptr \in Nodes
           /\ next[top.ptr] = IF Len(stack) = 1 THEN Null ELSE stack[Len(stack) - 1]
<1>1. stack \in Seq(Nodes) /\ stack # <<>>
  BY DEF IInv, TypeOK, StackLinked
<1>2. Len(stack) \in Nat \ {0}
  BY <1>1, EmptySeq
<1>3. stack[Len(stack)] = top.ptr
  BY <1>1 DEF IInv, StackLinked
<1>4. stack[Len(stack)] \in Nodes
  BY <1>1, <1>2, ElementOfSeq
<1>5. next[stack[Len(stack)]] = IF Len(stack) = 1 THEN Null ELSE stack[Len(stack) - 1]
  BY <1>2, SMTT(20) DEF IInv, StackLinked
<1> QED BY <1>2, <1>3, <1>4, <1>5

\* A step that leaves top and the stack alone and writes next, if at all, of
\* a node that is outside.
LEMMA Beside ==
    ASSUME IInv, UNCHANGED <<top, stack>>,
           NEW n \in Nodes, ~InStack(n), NEW p \in Nodes \cup {Null},
           next' = next \/ next' = [next EXCEPT ![n] = p]
    PROVE  StackLinked'
<1>1. \A i \in 1 .. Len(stack) : next'[stack[i]] = next[stack[i]]
  <2> TAKE i \in 1 .. Len(stack)
  <2>1. stack[i] \in Nodes /\ stack[i] # n
    BY ElementOfSeq DEF IInv, TypeOK, InStack
  <2> QED BY <2>1 DEF IInv, TypeOK
<1> QED BY <1>1 DEF IInv, StackLinked

LEMMA NewNodeIInv ==
    ASSUME IInv, NEW n \in Nodes, NewNode(n)
    PROVE  IInv'
<1> USE DEF NewNode
<1>1. TypeOK'
  BY DEF IInv, TypeOK
<1>2. StackLinked'
  BY Beside DEF Free
<1>3. NodeInOnePlace'
  BY DEF IInv, NodeInOnePlace, Holds, InStack
<1>4. ReadInv'
  <2> SUFFICES ASSUME NEW t \in Threads, pc[t] = "pop_cas", oldTop[t] = top
               PROVE  oldNext[t] = next'[top.ptr]
    BY DEF IInv, ReadInv
  <2>1. top.ptr # Null /\ oldNext[t] = next[top.ptr]
    BY DEF IInv, ReadInv
  <2>2. InStack(top.ptr) /\ top.ptr \in Nodes
    BY <2>1, TopInStack DEF InStack
  <2> QED BY <2>1, <2>2 DEF Free, IInv, TypeOK
<1>5. NodeInv'
  BY DEF IInv, NodeInv, TypeOK, Free, Holds
<1> QED BY <1>1, <1>2, <1>3, <1>4, <1>5 DEF IInv

LEMMA CallIInv ==
    ASSUME IInv, NEW t \in Threads, Pop(t) \/ \E n \in Nodes : Push(t, n)
    PROVE  IInv'
<1> USE DEF Push, Pop, Step
<1>1. TypeOK'
  BY DEF IInv, TypeOK, PushPC, PopPC
<1>2. StackLinked'
  BY DEF IInv, StackLinked
<1>3. NodeInOnePlace'
  BY DEF IInv, TypeOK, NodeInOnePlace, Holds, InStack, Free
<1>4. ReadInv'
  BY DEF IInv, TypeOK, ReadInv, StampRead
<1>5. NodeInv'
  BY DEF IInv, TypeOK, NodeInv
<1> QED BY <1>1, <1>2, <1>3, <1>4, <1>5 DEF IInv

\* The steps that read or count.
LEMMA ReadIInv ==
    ASSUME IInv, NEW t \in Threads,
           ReadPtr(t) \/ ReadStamp(t) \/ PopReadNext(t) \/ PushSize(t) \/ PopSize(t)
    PROVE  IInv'
<1> USE DEF ReadPtr, ReadStamp, PopReadNext, PushSize, PopSize, Step
<1>1. TypeOK'
  <2>1. CASE ReadPtr(t) \/ ReadStamp(t)
    <3>0. oldTop[t] \in Stamped /\ top \in Stamped /\ oldTop \in [Threads -> Stamped]
      BY DEF IInv, TypeOK
    <3>1. oldTop' \in [Threads -> Stamped]
      <4>1. CASE ReadPtr(t)
        <5>1. [oldTop[t] EXCEPT !.ptr = top.ptr] \in Stamped
          BY <3>0 DEF Stamped
        <5>2. oldTop' = [oldTop EXCEPT ![t] = [oldTop[t] EXCEPT !.ptr = top.ptr]]
          BY <4>1
        <5> QED BY <3>0, <5>1, <5>2
      <4>2. CASE ReadStamp(t)
        <5>1. [oldTop[t] EXCEPT !.stamp = top.stamp] \in Stamped
          BY <3>0 DEF Stamped
        <5>2. oldTop' = [oldTop EXCEPT ![t] = [oldTop[t] EXCEPT !.stamp = top.stamp]]
          BY <4>2
        <5> QED BY <3>0, <5>1, <5>2
      <4> QED BY <2>1, <4>1, <4>2
    <3>2. pc' \in [Threads -> {"idle"} \cup PushPC \cup PopPC]
      BY <2>1 DEF IInv, TypeOK, PushPC, PopPC
    <3> QED BY <2>1, <3>1, <3>2 DEF IInv, TypeOK
  <2>2. CASE PopReadNext(t)
    <3>1. oldTop[t].ptr \in Nodes
      BY <2>2 DEF IInv, TypeOK, ReadInv, Stamped
    <3> QED BY <2>2, <3>1 DEF IInv, TypeOK, PushPC, PopPC
  <2>3. CASE PushSize(t) \/ PopSize(t)
    BY <2>3 DEF IInv, TypeOK, PushPC, PopPC
  <2> QED BY <2>1, <2>2, <2>3
<1>2. StackLinked'
  BY DEF IInv, StackLinked
<1>3. NodeInOnePlace'
  BY DEF IInv, TypeOK, NodeInOnePlace, Holds, InStack, PushPC, PopPC
<1>4. ReadInv'
  <2>1. CASE ReadPtr(t)
    BY <2>1 DEF IInv, TypeOK, ReadInv, StampRead, Stamped
  <2>2. CASE ReadStamp(t)
    BY <2>2 DEF IInv, TypeOK, ReadInv, StampRead, Stamped
  <2>3. CASE PopReadNext(t)
    BY <2>3 DEF IInv, TypeOK, ReadInv, StampRead, Stamped
  <2>4. CASE PushSize(t) \/ PopSize(t)
    BY <2>4 DEF IInv, TypeOK, ReadInv, StampRead
  <2> QED BY <2>1, <2>2, <2>3, <2>4
<1>5. NodeInv'
  BY ZenonT(60) DEF IInv, TypeOK, NodeInv, Stamped
<1> QED BY <1>1, <1>2, <1>3, <1>4, <1>5 DEF IInv

LEMMA PushLinkIInv ==
    ASSUME IInv, NEW t \in Threads, PushLink(t)
    PROVE  IInv'
<1> USE DEF PushLink, Step
<1>0. node[t] \in Nodes /\ Holds(t, node[t]) /\ ~InStack(node[t])
      /\ oldTop[t].ptr \in Nodes \cup {Null}
  BY DEF IInv, TypeOK, NodeInv, NodeInOnePlace, Holds, Stamped
<1>1. TypeOK'
  BY <1>0 DEF IInv, TypeOK, PushPC, PopPC
<1>2. StackLinked'
  BY <1>0, Beside
<1>3. NodeInOnePlace'
  BY DEF IInv, TypeOK, NodeInOnePlace, Holds, InStack
<1>4. ReadInv'
  <2> SUFFICES ASSUME NEW u \in Threads
               PROVE  /\ pc'[u] \in StampRead => oldTop[u].stamp <= top.stamp
                      /\ pc'[u] \in {"pop_next", "pop_cas"} => oldTop[u].ptr # Null
                      /\ pc'[u] = "pop_cas" /\ oldTop[u] = top
                             => oldNext[u] = next'[top.ptr]
    BY DEF ReadInv
  <2>1. /\ pc'[u] \in StampRead => oldTop[u].stamp <= top.stamp
        /\ pc'[u] \in {"pop_next", "pop_cas"} => oldTop[u].ptr # Null
    BY DEF IInv, TypeOK, ReadInv, StampRead
  <2>2. ASSUME pc'[u] = "pop_cas", oldTop[u] = top
        PROVE  oldNext[u] = next'[top.ptr]
    <3>1. u # t /\ pc[u] = "pop_cas"
      BY <2>2 DEF IInv, TypeOK
    <3>2. top.ptr # Null /\ oldNext[u] = next[top.ptr]
      BY <2>2, <3>1 DEF IInv, ReadInv
    <3>3. InStack(top.ptr)
      BY <3>2, TopInStack DEF InStack
    <3> QED BY <1>0, <3>2, <3>3 DEF IInv, TypeOK
  <2> QED BY <2>1, <2>2
<1>5. NodeInv'
  <2> SUFFICES ASSUME NEW u \in Threads
               PROVE  /\ pc'[u] \in {"push_ptr", "push_stamp", "push_link", "push_cas",
                                     "pop_size"} => node[u] \in Nodes
                      /\ pc'[u] = "push_cas" => next'[node[u]] = oldTop[u].ptr
    BY DEF NodeInv
  <2>1. pc'[u] \in {"push_ptr", "push_stamp", "push_link", "push_cas", "pop_size"}
            => node[u] \in Nodes
    BY DEF IInv, TypeOK, NodeInv
  <2>2. ASSUME pc'[u] = "push_cas" PROVE next'[node[u]] = oldTop[u].ptr
    <3>1. CASE u = t
      BY <1>0, <3>1 DEF IInv, TypeOK
    <3>2. CASE u # t
      <4>1. pc[u] = "push_cas" /\ node[u] \in Nodes
        BY <2>2, <3>2 DEF IInv, TypeOK, NodeInv
      <4>2. node[u] # node[t]
        BY <1>0, <3>2, <4>1 DEF IInv, NodeInOnePlace, Holds
      <4> QED BY <1>0, <4>1, <4>2 DEF IInv, TypeOK, NodeInv
    <3> QED BY <3>1, <3>2
  <2> QED BY <2>1, <2>2
<1> QED BY <1>1, <1>2, <1>3, <1>4, <1>5 DEF IInv

\* After the top has moved, nobody's pair is the top.
LEMMA StampMoves ==
    ASSUME IInv, NEW t \in Threads, pc[t] \in {"push_cas", "pop_cas"}, top = oldTop[t],
           top'.stamp = oldTop[t].stamp + 1, pc' = [pc EXCEPT ![t] = pc'[t]],
           pc'[t] \notin StampRead, UNCHANGED <<next, oldTop, oldNext>>
    PROVE  ReadInv'
<1> SUFFICES ASSUME NEW u \in Threads, pc'[u] \in StampRead
             PROVE  /\ oldTop[u].stamp < top'.stamp
                    /\ pc'[u] \in {"pop_next", "pop_cas"} => oldTop[u].ptr # Null
  <2> QED BY DEF ReadInv, IInv, TypeOK, Stamped, StampRead
<1>1. pc[u] = pc'[u]
  BY DEF IInv, TypeOK
<1>2. oldTop[u].stamp <= top.stamp /\ oldTop[u].stamp \in Nat /\ top.stamp \in Nat
  BY <1>1 DEF IInv, ReadInv, TypeOK, Stamped
<1> QED BY <1>1, <1>2 DEF IInv, ReadInv

\* What a compare-and-swap that succeeds does to the stack.
LEMMA PushGrows ==
    ASSUME IInv, NEW t \in Threads, PushCAS(t), CompareExchange(t)
    PROVE  /\ Len(stack) \in Nat /\ Len(stack') = Len(stack) + 1
           /\ \A m : InStack(m)' <=> InStack(m) \/ m = node[t]
<1>1. node[t] \in Nodes /\ stack \in Seq(Nodes) /\ stack' = Append(stack, node[t])
  BY DEF PushCAS, Step, IInv, NodeInv, TypeOK
<1>2. /\ Len(stack') = Len(stack) + 1 /\ Len(stack) \in Nat
      /\ \A i \in 1 .. Len(stack) : stack'[i] = stack[i]
      /\ stack'[Len(stack) + 1] = node[t]
  BY <1>1, AppendProperties, LenProperties
<1> QED BY <1>2 DEF InStack

LEMMA PopShrinks ==
    ASSUME IInv, NEW t \in Threads, PopCAS(t), CompareExchange(t)
    PROVE  /\ top.ptr \in Nodes /\ InStack(top.ptr)
           /\ Len(stack) \in Nat /\ Len(stack') = Len(stack) - 1
           /\ \A m : InStack(m)' <=> InStack(m) /\ m # top.ptr
<1> DEFINE n == top.ptr
           k == Len(stack)
<1>1. n # Null /\ stack' = SubSeq(stack, 1, k - 1) /\ stack \in Seq(Nodes)
  BY DEF PopCAS, CompareExchange, Step, IInv, ReadInv, TypeOK
<1>2. k \in Nat \ {0} /\ stack[k] = n /\ n \in Nodes
  BY <1>1, TopInStack
<1>3. Len(stack') = k - 1 /\ \A i \in 1 .. k - 1 : stack'[i] = stack[i]
  <2>1. \A i \in 1 .. k - 1 : stack[i] \in Nodes
    BY <1>1, <1>2, ElementOfSeq
  <2>2. /\ Len(SubSeq(stack, 1, k - 1)) = IF 1 <= k - 1 THEN (k - 1) - 1 + 1 ELSE 0
        /\ \A i \in 1 .. (k - 1) - 1 + 1 : SubSeq(stack, 1, k - 1)[i] = stack[1 + i - 1]
    BY <1>2, <2>1, SubSeqProperties
  <2> HIDE DEF k
  <2> QED BY <1>1, <1>2, <2>2
<1>4. \A i \in 1 .. k : stack[i] = n => i = k
  BY <1>2 DEF IInv, NodeInOnePlace
<1> QED BY <1>2, <1>3, <1>4 DEF InStack

LEMMA PushCASIInv ==
    ASSUME IInv, NEW t \in Threads, PushCAS(t)
    PROVE  IInv'
<1>1. CASE top # oldTop[t]
  <2> USE <1>1 DEF PushCAS, CompareExchange, PushRetry, Step
  <2>1. TypeOK'
    BY DEF IInv, TypeOK, PushPC, PopPC
  <2>2. StackLinked'
    BY DEF IInv, StackLinked
  <2>3. NodeInOnePlace'
    BY DEF IInv, TypeOK, NodeInOnePlace, Holds, InStack
  <2>4. ReadInv' /\ NodeInv'
    BY DEF IInv, TypeOK, ReadInv, NodeInv, StampRead
  <2> QED BY <2>1, <2>2, <2>3, <2>4 DEF IInv
<1>2. CASE top = oldTop[t]
  <2> USE <1>2
  <2>0. /\ pc[t] = "push_cas" /\ pc' = [pc EXCEPT ![t] = "push_size"]
        /\ top' = [ptr |-> node[t], stamp |-> oldTop[t].stamp + 1]
        /\ stack' = Append(stack, node[t])
        /\ UNCHANGED <<next, size, oldTop, oldNext, node>>
    BY DEF PushCAS, CompareExchange, Step
  <2> DEFINE n == node[t]
  <2>1. /\ n \in Nodes /\ Holds(t, n) /\ ~InStack(n) /\ next[n] = top.ptr
        /\ stack \in Seq(Nodes) /\ oldTop[t].stamp \in Nat
        /\ \A u \in Threads : Holds(u, n) => u = t
    BY <2>0 DEF IInv, TypeOK, NodeInv, NodeInOnePlace, Holds, Stamped
  <2>2. /\ stack' \in Seq(Nodes) /\ Len(stack') = Len(stack) + 1 /\ Len(stack) \in Nat
        /\ \A i \in 1 .. Len(stack) : stack'[i] = stack[i]
        /\ stack'[Len(stack) + 1] = n /\ stack' # <<>>
    BY <2>0, <2>1, AppendProperties, LenProperties
  <2>3. TypeOK'
    BY <2>0, <2>1, <2>2 DEF IInv, TypeOK, PushPC, PopPC, Stamped
  <2>4. StackLinked'
    <3>1. top'.ptr = stack'[Len(stack')]
      BY <2>0, <2>2
    <3>2. ASSUME NEW i \in 1 .. Len(stack')
          PROVE  next'[stack'[i]] = IF i = 1 THEN Null ELSE stack'[i - 1]
      <4>1. CASE i \in 1 .. Len(stack)
        <5>1. next[stack[i]] = IF i = 1 THEN Null ELSE stack[i - 1]
          BY <4>1 DEF IInv, StackLinked
        <5>2. i # 1 => i - 1 \in 1 .. Len(stack)
          BY <2>2, <4>1
        <5> QED BY <2>0, <2>2, <4>1, <5>1, <5>2
      <4>2. CASE i = Len(stack) + 1
        <5>1. next'[stack'[i]] = top.ptr
          BY <2>0, <2>1, <2>2, <4>2
        <5>2. CASE stack = <<>>
          BY <2>2, <4>2, <5>1, <5>2, EmptySeq DEF IInv, StackLinked
        <5>3. CASE stack # <<>>
          <6>1. Len(stack) \in Nat \ {0} /\ top.ptr = stack[Len(stack)]
            BY <2>1, <5>3, EmptySeq DEF IInv, StackLinked
          <6> QED BY <2>2, <4>2, <5>1, <6>1
        <5> QED BY <5>2, <5>3
      <4> QED BY <2>2, <4>1, <4>2
    <3> QED BY <2>2, <3>1, <3>2 DEF StackLinked
  <2>5. NodeInOnePlace'
    <3>1. \A m : InStack(m)' <=> InStack(m) \/ m = n
      BY PushGrows DEF CompareExchange
    <3>2. \A u \in Threads, m \in Nodes : Holds(u, m)' <=> Holds(u, m) /\ u # t
      BY <2>0 DEF Holds, IInv, TypeOK
    <3>3. ASSUME NEW i \in 1 .. Len(stack'), NEW j \in 1 .. Len(stack'),
                 stack'[i] = stack'[j]
          PROVE  i = j
      <4>1. \A k \in 1 .. Len(stack) : stack[k] # n
        BY <2>1 DEF InStack
      <4>2. i \in 1 .. Len(stack) \/ i = Len(stack) + 1
        BY <2>2
      <4>3. j \in 1 .. Len(stack) \/ j = Len(stack) + 1
        BY <2>2
      <4> QED BY <2>2, <3>3, <4>1, <4>2, <4>3 DEF IInv, NodeInOnePlace
    <3>4. ASSUME NEW u \in Threads, NEW m \in Nodes, Holds(u, m)'
          PROVE  ~InStack(m)' /\ \A v \in Threads : Holds(v, m)' => v = u
      <4>1. Holds(u, m) /\ u # t
        BY <3>2, <3>4
      <4>2. m # n
        BY <2>1, <4>1
      <4>3. ~InStack(m) /\ \A v \in Threads : Holds(v, m) => v = u
        BY <4>1 DEF IInv, NodeInOnePlace
      <4> QED BY <3>1, <3>2, <4>2, <4>3
    <3> QED BY <3>3, <3>4 DEF NodeInOnePlace
  <2>6. ReadInv'
    <3>1. top'.stamp = oldTop[t].stamp + 1 /\ pc'[t] = "push_size"
          /\ pc' = [pc EXCEPT ![t] = pc'[t]]
      BY <2>0 DEF IInv, TypeOK
    <3> QED BY <2>0, <3>1, StampMoves DEF StampRead
  <2>7. NodeInv'
    BY <2>0 DEF IInv, TypeOK, NodeInv
  <2> QED BY <2>3, <2>4, <2>5, <2>6, <2>7 DEF IInv
<1> QED BY <1>1, <1>2

LEMMA PopCASIInv ==
    ASSUME IInv, NEW t \in Threads, PopCAS(t)
    PROVE  IInv'
<1>1. CASE top # oldTop[t]
  <2> USE <1>1 DEF PopCAS, CompareExchange, PopRetry, Step
  <2>1. TypeOK'
    BY DEF IInv, TypeOK, PushPC, PopPC
  <2>2. StackLinked'
    BY DEF IInv, StackLinked
  <2>3. NodeInOnePlace'
    BY DEF IInv, TypeOK, NodeInOnePlace, Holds, InStack
  <2>4. ReadInv' /\ NodeInv'
    BY DEF IInv, TypeOK, ReadInv, NodeInv, StampRead
  <2> QED BY <2>1, <2>2, <2>3, <2>4 DEF IInv
<1>2. CASE top = oldTop[t]
  <2> USE <1>2
  <2> DEFINE n == top.ptr
             k == Len(stack)
  <2>0. /\ pc[t] = "pop_cas" /\ pc' = [pc EXCEPT ![t] = "pop_size"]
        /\ top' = [ptr |-> oldNext[t], stamp |-> oldTop[t].stamp + 1]
        /\ node' = [node EXCEPT ![t] = n]
        /\ stack' = SubSeq(stack, 1, k - 1)
        /\ UNCHANGED <<next, size, oldTop, oldNext>>
    BY DEF PopCAS, CompareExchange, Step
  <2>1. /\ n # Null /\ oldNext[t] = next[n] /\ oldTop[t].stamp \in Nat
        /\ oldNext[t] \in Nodes \cup {Null} /\ stack \in Seq(Nodes)
    BY <2>0 DEF IInv, ReadInv, TypeOK, Stamped
  <2>2. /\ k \in Nat \ {0} /\ stack[k] = n /\ n \in Nodes
        /\ next[n] = IF k = 1 THEN Null ELSE stack[k - 1]
    BY <2>1, TopInStack
  <2>3. /\ stack' \in Seq(Nodes) /\ Len(stack') = k - 1
        /\ \A i \in 1 .. k - 1 : stack'[i] = stack[i]
    <3>1. \A i \in 1 .. k - 1 : stack[i] \in Nodes
      BY <2>1, <2>2, ElementOfSeq
    <3>2. /\ SubSeq(stack, 1, k - 1) \in Seq(Nodes)
          /\ Len(SubSeq(stack, 1, k - 1)) = IF 1 <= k - 1 THEN (k - 1) - 1 + 1 ELSE 0
          /\ \A i \in 1 .. (k - 1) - 1 + 1 : SubSeq(stack, 1, k - 1)[i] = stack[1 + i - 1]
      BY <2>2, <3>1, SubSeqProperties
    <3> HIDE DEF k
    <3> QED BY <2>0, <2>2, <3>2
  <2> HIDE DEF k
  <2>4. TypeOK'
    BY <2>0, <2>1, <2>2, <2>3 DEF IInv, TypeOK, PushPC, PopPC, Stamped
  <2>5. StackLinked'
    <3>1. top'.ptr = IF k = 1 THEN Null ELSE stack'[k - 1]
      BY <2>0, <2>1, <2>2, <2>3
    <3>2. stack' = <<>> <=> k = 1
      BY <2>2, <2>3, EmptySeq
    <3>3. ASSUME NEW i \in 1 .. Len(stack')
          PROVE  next'[stack'[i]] = IF i = 1 THEN Null ELSE stack'[i - 1]
      <4>1. i \in 1 .. k - 1 /\ i \in 1 .. k /\ (i # 1 => i - 1 \in 1 .. k - 1)
        BY <2>2, <2>3
      <4>2. next[stack[i]] = IF i = 1 THEN Null ELSE stack[i - 1]
        BY <4>1 DEF IInv, StackLinked, k
      <4> QED BY <2>0, <2>3, <4>1, <4>2
    <3> QED BY <2>3, <3>1, <3>2, <3>3 DEF StackLinked
  <2>6. NodeInOnePlace'
    <3>1. \A m : InStack(m)' <=> InStack(m) /\ m # n
      BY PopShrinks DEF CompareExchange
    <3>2. \A u \in Threads, m \in Nodes :
              Holds(u, m)' <=> Holds(u, m) \/ (u = t /\ m = n)
      BY <2>0 DEF Holds, IInv, TypeOK
    <3>3. InStack(n)
      BY <2>2 DEF InStack, k
    <3>4. ASSUME NEW i \in 1 .. Len(stack'), NEW j \in 1 .. Len(stack'),
                 stack'[i] = stack'[j]
          PROVE  i = j
      <4>1. i \in 1 .. k /\ j \in 1 .. k /\ stack[i] = stack[j]
        BY <2>2, <2>3, <3>4
      <4> QED BY <4>1 DEF IInv, NodeInOnePlace, k
    <3>5. ASSUME NEW u \in Threads, NEW m \in Nodes, Holds(u, m)'
          PROVE  ~InStack(m)' /\ \A v \in Threads : Holds(v, m)' => v = u
      <4>1. CASE m = n
        <5>1. \A v \in Threads : ~Holds(v, n)
          BY <2>2, <3>3 DEF IInv, NodeInOnePlace
        <5> QED BY <2>2, <3>1, <3>2, <3>5, <4>1, <5>1
      <4>2. CASE m # n
        <5>1. Holds(u, m)
          BY <3>2, <3>5, <4>2
        <5>2. ~InStack(m) /\ \A v \in Threads : Holds(v, m) => v = u
          BY <5>1 DEF IInv, NodeInOnePlace
        <5> QED BY <3>1, <3>2, <4>2, <5>2
      <4> QED BY <4>1, <4>2
    <3> QED BY <3>4, <3>5 DEF NodeInOnePlace
  <2>7. ReadInv'
    <3>1. top'.stamp = oldTop[t].stamp + 1 /\ pc'[t] = "pop_size"
          /\ pc' = [pc EXCEPT ![t] = pc'[t]]
      BY <2>0 DEF IInv, TypeOK
    <3> QED BY <2>0, <3>1, StampMoves DEF StampRead
  <2>8. NodeInv'
    BY <2>0, <2>2 DEF IInv, TypeOK, NodeInv
  <2> QED BY <2>4, <2>5, <2>6, <2>7, <2>8 DEF IInv
<1> QED BY <1>1, <1>2

LEMMA NextIInv == IInv /\ [Next]_vars => IInv'
<1> SUFFICES ASSUME IInv, [Next]_vars PROVE IInv'
  OBVIOUS
<1>1. CASE UNCHANGED vars
  BY <1>1 DEF vars, IInv, TypeOK, StackLinked, NodeInOnePlace, ReadInv, NodeInv, Holds,
     InStack
<1>2. ASSUME NEW t \in Threads, Run(t) \/ PushSize(t) \/ PopSize(t)
      PROVE  IInv'
  BY <1>2, ReadIInv, PushLinkIInv, PushCASIInv, PopCASIInv DEF Run
<1>3. ASSUME NEW t \in Threads, Pop(t) \/ \E n \in Nodes : Push(t, n)
      PROVE  IInv'
  BY <1>3, CallIInv
<1>4. ASSUME NEW n \in Nodes, NewNode(n)
      PROVE  IInv'
  BY <1>4, NewNodeIInv
<1> QED BY <1>1, <1>2, <1>3, <1>4 DEF Next

\* A step of a call moves nodes only between the call and the stack.
LEMMA RunMoves ==
    ASSUME IInv, NEW t \in Threads, Run(t)
    PROVE  /\ pc[t] # "idle" /\ pc' = [pc EXCEPT ![t] = pc'[t]]
           /\ pc[t] \in PushPC => pc'[t] \in PushPC
           /\ pc[t] \in PopPC => pc'[t] \in PopPC \cup {"idle"}
           /\ \A n \in Nodes :
                /\ InStack(n)' \/ Holds(t, n)' <=> InStack(n) \/ Holds(t, n)
                /\ \A u \in Threads \ {t} : Holds(u, n)' <=> Holds(u, n)
<1>1. CASE \/ ReadPtr(t) \/ ReadStamp(t) \/ PushLink(t) \/ PopReadNext(t)
           \/ (PushCAS(t) \/ PopCAS(t)) /\ ~CompareExchange(t)
  BY <1>1 DEF ReadPtr, ReadStamp, PushLink, PopReadNext, PushCAS, PopCAS, PushRetry,
     PopRetry, Step, PushPC, PopPC, IInv, TypeOK, Holds, InStack
<1>2. CASE PushCAS(t) /\ CompareExchange(t)
  <2>1. /\ pc[t] = "push_cas" /\ pc' = [pc EXCEPT ![t] = "push_size"] /\ node' = node
        /\ node[t] \in Nodes /\ Holds(t, node[t])
    BY <1>2 DEF PushCAS, PushRetry, Step, IInv, NodeInv, Holds
  <2>2. \A m : InStack(m)' <=> InStack(m) \/ m = node[t]
    BY <1>2, PushGrows
  <2> QED BY <2>1, <2>2 DEF PushPC, PopPC, Holds, IInv, TypeOK
<1>3. CASE PopCAS(t) /\ CompareExchange(t)
  <2>1. /\ pc[t] = "pop_cas" /\ pc' = [pc EXCEPT ![t] = "pop_size"]
        /\ node' = [node EXCEPT ![t] = top.ptr]
    BY <1>3 DEF PopCAS, CompareExchange, PopRetry, Step
  <2>2. top.ptr \in Nodes /\ InStack(top.ptr)
        /\ \A m : InStack(m)' <=> InStack(m) /\ m # top.ptr
    BY <1>3, PopShrinks
  <2> QED BY <2>1, <2>2 DEF PushPC, PopPC, Holds, IInv, TypeOK
<1> QED BY <1>1, <1>2, <1>3 DEF Run

\* A step of a call leaves the size to its last step, and the stack grows or
\* shrinks when the call comes to that one.
LEMMA RunCounts ==
    ASSUME IInv, NEW t \in Threads, Run(t)
    PROVE  /\ pc[t] \notin {"push_size", "pop_size"} /\ size' = size
           /\ Len(stack) \in Nat
           /\ \/ pc'[t] = "push_size" /\ Len(stack') = Len(stack) + 1
              \/ pc'[t] = "pop_size" /\ Len(stack') = Len(stack) - 1
              \/ pc'[t] \notin {"push_size", "pop_size"} /\ stack' = stack
<1>0. /\ Len(stack) \in Nat
      /\ pc \in [Threads -> {"idle"} \cup PushPC \cup PopPC]
  BY LenProperties DEF IInv, TypeOK
<1>1. CASE \/ ReadPtr(t) \/ ReadStamp(t) \/ PushLink(t) \/ PopReadNext(t)
           \/ (PushCAS(t) \/ PopCAS(t)) /\ ~CompareExchange(t)
  BY <1>0, <1>1 DEF ReadPtr, ReadStamp, PushLink, PopReadNext, PushCAS, PopCAS, PushRetry,
     PopRetry, Step
<1>2. CASE PushCAS(t) /\ CompareExchange(t)
  <2>1. pc[t] = "push_cas" /\ pc' = [pc EXCEPT ![t] = "push_size"] /\ size' = size
    BY <1>2 DEF PushCAS, PushRetry, Step
  <2> QED BY <1>0, <1>2, <2>1, PushGrows
<1>3. CASE PopCAS(t) /\ CompareExchange(t)
  <2>1. pc[t] = "pop_cas" /\ pc' = [pc EXCEPT ![t] = "pop_size"] /\ size' = size
    BY <1>3 DEF PopCAS, PopRetry, Step
  <2> QED BY <1>0, <1>3, <2>1, PopShrinks
<1> QED BY <1>1, <1>2, <1>3 DEF Run

THEOREM Invariance ==
    ASSUME NullIsNoNode
    PROVE  Spec => []IInv
<1>1. Init => IInv
  BY InitIInv
<1> QED BY <1>1, NextIInv, PTL DEF Spec

\* The types of LockFreeStack, whatever threads and nodes there are.
THEOREM TypeCorrect ==
    ASSUME NullIsNoNode
    PROVE  Spec => []TypeOK
<1>1. IInv => TypeOK
  BY DEF IInv
<1> QED BY <1>1, Invariance, PTL

\* The stamped compare-and-swap of Push and Pop (LockFreeStack.h:70 and 90)
\* keeps the list intact, though nodes come back behind a thread's reads.
THEOREM ListIsStack ==
    ASSUME NullIsNoNode
    PROVE  Spec => []StackLinked
<1>1. IInv => StackLinked
  BY DEF IInv
<1> QED BY <1>1, Invariance, PTL

\* No node is popped by two threads or is in the list twice.
THEOREM NodesInOnePlace ==
    ASSUME NullIsNoNode
    PROVE  Spec => []NodeInOnePlace
<1>1. IInv => NodeInOnePlace
  BY DEF IInv
<1> QED BY <1>1, Invariance, PTL

=============================================================================
