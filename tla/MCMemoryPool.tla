---------------------------- MODULE MCMemoryPool ----------------------------
EXTENDS MemoryPool

\* A block can leave and come back behind another thread's read.
ASSUME CallsForABA == MaxCalls >= 7

\* VIEW: the state without what is written before it is read again, namely
\* the locals of a loop before they are read and after it has ended, and the
\* header's size of a block that nobody uses.  No action and no property reads
\* any of these.
Live ==
    <<top, next, size, pc, stack, code, capacity, counts, at, users, asked, calls,
      [t \in Threads |->
         IF pc[t] \in {"push_stamp", "pop_stamp"} THEN <<oldTop[t].ptr, 0>>
         ELSE IF pc[t] \in {"push_link", "push_cas", "pop_next", "pop_cas"}
              THEN <<oldTop[t].ptr, oldTop[t].stamp>> ELSE <<Null, 0>>],
      [t \in Threads |-> IF pc[t] = "pop_cas" THEN oldNext[t] ELSE Null],
      [t \in Threads |->
         IF pc[t] \in Container!PushPC \cup {"pop_size"} THEN node[t] ELSE Null],
      [t \in Threads |->
         IF at[t] \in {"attach", "push_check", "push_code"} THEN header[t] ELSE Null],
      [t \in Threads |-> IF at[t] \in {"pop", "attach"} THEN request[t] ELSE 0],
      [b \in Blocks |->
         IF Malloced(b) /\ ~Container!InStack(b) /\ \A t \in Threads : ~Owns(t, b)
         THEN header_size[b] ELSE 0]>>

=============================================================================
