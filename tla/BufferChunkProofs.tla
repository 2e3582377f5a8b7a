--------------------------- MODULE BufferChunkProofs ---------------------------
(***************************************************************************)
(* Proofs about BufferChunk, for every number of threads, sessions, chunks *)
(* and SendBuffers, every size of the buffers and any number of bytes:     *)
(* what has been received stays until it is processed, what was written to *)
(* a SendBuffer stays until it is destroyed, and no chunk is lost or given *)
(* to two threads.                                                         *)
(***************************************************************************)
EXTENDS BufferChunk, SequenceTheorems, FiniteSetTheorems, TLAPS

-----------------------------------------------------------------------------
(***************************************************************************)
(* The inductive invariant.                                                *)
(***************************************************************************)

\* A thread in a handler is in that of its session alone, and reads no more
\* than there is.
HandlerInv ==
    \A t \in Threads :
        /\ pc[t] = "idle" => session[t] = None
        /\ pc[t] \notin {"idle", "push"} => session[t] # None
        /\ session[t] = None => count[t] = 0
        /\ session[t] # None => /\ receiving[session[t]] = "handled"
                                /\ count[t] <= recv_buffer_[session[t]].length_
                                /\ \A u \in Threads : session[u] = session[t] => u = t

\* CleanUp has moved the data to the beginning before the next WSARecv.
RecvInv == \A x \in Sessions : receiving[x] = "posted" => recv_buffer_[x].front_ = 0

\* The chunk of thread t has been chosen for the SendBuffer it wants to open.
Chosen(t) == pc[t] = "open" \/ (pc[t] = "push" /\ session[t] # None)

\* A chunk has one thread, and has room for what the thread opens next.
OwnInv ==
    \A t \in Threads :
        /\ L_buffer_chunk[t] # None =>
               \A u \in Threads : L_buffer_chunk[u] = L_buffer_chunk[t] => u = t
        /\ (Chosen(t) \/ pc[t] = "write") => L_buffer_chunk[t] # None
        /\ Chosen(t) => used_size_[L_buffer_chunk[t]] + size[t] <= BUFFER_CHUNK_SIZE

Listed(c) == \E i \in 1 .. Len(buffer_chunk_list_) : buffer_chunk_list_[i] = c
Moving(c) == \E t \in Threads : freed[t] = c
Referenced(c) == \/ \E t \in Threads : L_buffer_chunk[t] = c
                 \/ \E b \in SendBuffers : send_buffers[b].owner_ = c

\* Each chunk is in the list, on its way there or referred to, and once.
PlaceInv ==
    /\ \A i, j \in 1 .. Len(buffer_chunk_list_) :
           buffer_chunk_list_[i] = buffer_chunk_list_[j] => i = j
    /\ \A t \in Threads : freed[t] # None <=> pc[t] = "push"
    /\ \A t, u \in Threads : (freed[t] = freed[u] /\ freed[t] # None) => t = u
    /\ \A c \in made : /\ Listed(c) \/ Moving(c) \/ Referenced(c)
                       /\ ~(Listed(c) /\ Moving(c))
                       /\ Referenced(c) => ~Listed(c) /\ ~Moving(c)

\* An open SendBuffer begins where the used part of its chunk ends, and is
\* that of the thread that writes; a closed one lies in the used part.
StreamInv ==
    \A b \in SendBuffers :
        LET s == send_buffers[b]  c == s.owner_ IN
        /\ s.front_ = 0 /\ Len(sent[b]) = s.rear_
        /\ c = None => ~s.is_open_ /\ s.rear_ = 0
        /\ s.is_open_ =>
             /\ s.buffer_ = used_size_[c] /\ s.buffer_ + s.capacity_ <= BUFFER_CHUNK_SIZE
             /\ \E t \in Threads : pc[t] = "write" /\ L_buffer_chunk[t] = c
             /\ \A d \in SendBuffers : (send_buffers[d].is_open_ /\ send_buffers[d].owner_ = c) => d = b
        /\ (c # None /\ ~s.is_open_) => s.buffer_ + s.rear_ <= used_size_[c]

IInv == /\ TypeOK /\ HandlerInv /\ RecvInv /\ UnreadBytesKept
        /\ OwnInv /\ PlaceInv /\ StreamInv /\ SentBytesKept

-----------------------------------------------------------------------------
(***************************************************************************)
(* Streams.                                                                *)
(***************************************************************************)

\* A stream whose offsets are any numbers.
Stream == [front_ : Int, rear_ : Int, capacity_ : Int, length_ : Int, space_ : Int]

LEMMA RecvOffsets ==
    ASSUME NEW s \in RecvBuffer, StreamOK(s)
    PROVE  /\ s \in Stream
           /\ s.front_ \in Nat /\ s.rear_ \in Nat /\ s.length_ \in Nat /\ s.space_ \in Nat
           /\ s.capacity_ = recv_size /\ s.rear_ <= recv_size /\ recv_size \in Nat
           /\ s.length_ = s.rear_ - s.front_ /\ s.space_ = recv_size - s.length_
BY BufferChunkAssumption DEF RecvBuffer, StreamOK, Offset, Stream

LEMMA RecvBufferMade ==
    ASSUME NEW s \in Stream, s.capacity_ = recv_size, s.front_ >= 0, s.front_ <= s.rear_,
           s.rear_ <= recv_size, s.length_ = s.rear_ - s.front_,
           s.space_ = recv_size - s.length_
    PROVE  s \in RecvBuffer /\ StreamOK(s)
<1>1. /\ s.front_ \in Offset /\ s.rear_ \in Offset /\ s.length_ \in Offset
      /\ s.space_ \in Offset /\ s.capacity_ \in {recv_size}
  BY BufferChunkAssumption DEF Offset, Stream
<1> QED BY <1>1 DEF RecvBuffer, StreamOK, Stream

\* Data written behind the others, when these begin at 0.
LEMMA OnWriteRecv ==
    ASSUME NEW s \in RecvBuffer, StreamOK(s), s.front_ = 0, NEW n \in 1 .. s.space_
    PROVE  /\ OnWrite(s, n) \in RecvBuffer /\ StreamOK(OnWrite(s, n))
           /\ OnWrite(s, n).front_ = 0 /\ OnWrite(s, n).length_ = s.length_ + n
           /\ s.rear_ = s.length_ /\ s.rear_ + n <= recv_size
<1> DEFINE s1 == [s EXCEPT !.rear_ = @ + n]
           s2 == [s1 EXCEPT !.space_ = @ - n]
           s3 == [s2 EXCEPT !.length_ = @ + n]
<1>1. OnWrite(s, n) = s3
  BY DEF OnWrite
<1>2. s \in Stream /\ n \in Int
  BY RecvOffsets
<1>3. s1 \in Stream
  BY <1>2 DEF Stream
<1> HIDE DEF s1
<1>4. s2 \in Stream
  BY <1>2, <1>3 DEF Stream
<1> HIDE DEF s2
<1>5. s3 \in Stream
  BY <1>2, <1>4 DEF Stream
<1>6. /\ OnWrite(s, n).front_ = s.front_ /\ OnWrite(s, n).capacity_ = s.capacity_
      /\ OnWrite(s, n).rear_ = s.rear_ + n /\ OnWrite(s, n).length_ = s.length_ + n
      /\ OnWrite(s, n).space_ = s.space_ - n
  BY <1>2 DEF OnWrite, Stream
<1> HIDE DEF s3
<1> QED BY <1>1, <1>5, <1>6, RecvOffsets, RecvBufferMade

\* Data taken from the front.
LEMMA OnReadRecv ==
    ASSUME NEW s \in RecvBuffer, StreamOK(s), NEW n \in 0 .. s.length_
    PROVE  /\ OnRead(s, n) \in RecvBuffer /\ StreamOK(OnRead(s, n))
           /\ OnRead(s, n).front_ = s.front_ + n
           /\ OnRead(s, n).length_ = s.length_ - n
<1> DEFINE s1 == [s EXCEPT !.front_ = @ + n]
           s2 == [s1 EXCEPT !.space_ = @ + n]
           s3 == [s2 EXCEPT !.length_ = @ - n]
<1>1. OnRead(s, n) = s3
  BY DEF OnRead
<1>2. s \in Stream /\ n \in Int
  BY RecvOffsets
<1>3. s1 \in Stream
  BY <1>2 DEF Stream
<1> HIDE DEF s1
<1>4. s2 \in Stream
  BY <1>2, <1>3 DEF Stream
<1> HIDE DEF s2
<1>5. s3 \in Stream
  BY <1>2, <1>4 DEF Stream
<1>6. /\ OnRead(s, n).front_ = s.front_ + n /\ OnRead(s, n).capacity_ = s.capacity_
      /\ OnRead(s, n).rear_ = s.rear_ /\ OnRead(s, n).length_ = s.length_ - n
      /\ OnRead(s, n).space_ = s.space_ + n
  BY <1>2 DEF OnRead, Stream
<1> HIDE DEF s3
<1> QED BY <1>1, <1>5, <1>6, RecvOffsets, RecvBufferMade

\* The data moved to the front.
LEMMA CleanUpRecv ==
    ASSUME NEW s \in RecvBuffer, StreamOK(s)
    PROVE  /\ CleanUp(s) \in RecvBuffer /\ StreamOK(CleanUp(s))
           /\ CleanUp(s).front_ = 0
           /\ CleanUp(s).length_ = s.length_
<1> DEFINE s1 == [s EXCEPT !.front_ = 0]
           s2 == [s1 EXCEPT !.rear_ = s.length_]
<1>0. /\ s \in Stream
      /\ s.front_ \in Nat /\ s.rear_ \in Nat /\ s.length_ \in Nat /\ s.space_ \in Nat
      /\ s.capacity_ = recv_size /\ s.rear_ <= recv_size /\ recv_size \in Nat
      /\ s.length_ = s.rear_ - s.front_ /\ s.space_ = recv_size - s.length_
  BY RecvOffsets
<1>1. CASE s.length_ = s.capacity_ /\ s.length_ # 0
  BY <1>1, <1>0 DEF CleanUp
<1>2. CASE ~(s.length_ = s.capacity_ /\ s.length_ # 0)
  <2>1. CleanUp(s) = s2
    BY <1>2 DEF CleanUp
  <2>2. s1 \in Stream
    BY <1>0 DEF Stream
  <2>3. s2 \in Stream
    BY <1>0, <2>2 DEF Stream
  <2>4. /\ CleanUp(s).front_ = 0 /\ CleanUp(s).rear_ = s.length_
        /\ CleanUp(s).capacity_ = recv_size /\ CleanUp(s).length_ = s.length_
        /\ CleanUp(s).space_ = s.space_
    BY <1>0, <1>2 DEF CleanUp, Stream
  <2> HIDE DEF s1, s2
  <2> QED BY <1>0, <2>1, <2>3, <2>4, RecvBufferMade
<1> QED BY <1>1, <1>2

\* CleanUpData moves each byte of the data with its offset.
LEMMA CleanUpMoves ==
    ASSUME NEW s \in RecvBuffer, StreamOK(s), NEW d \in [0 .. recv_size - 1 -> Content]
    PROVE  /\ CleanUpData(s, d) \in [0 .. recv_size - 1 -> Content]
           /\ \A i \in 1 .. s.length_ : CleanUpData(s, d)[i - 1] = d[s.front_ + i - 1]
<1>1. CASE s.length_ \in {0, s.capacity_}
  <2>1. CleanUpData(s, d) = d
    BY <1>1 DEF CleanUpData
  <2>2. s.length_ = 0 \/ s.front_ = 0
    BY <1>1, RecvOffsets
  <2>3. s.length_ \in Nat /\ s.front_ \in Nat
    BY RecvOffsets
  <2> QED BY <2>1, <2>2, <2>3
<1>2. CASE s.length_ \notin {0, s.capacity_}
  <2>1. CleanUpData(s, d) = [p \in 0 .. recv_size - 1 |->
                                IF p < s.length_ THEN d[p + s.front_] ELSE d[p]]
    BY <1>2 DEF CleanUpData
  <2>2. /\ s.length_ \in Nat /\ s.front_ \in Nat /\ recv_size \in Nat
        /\ s.front_ + s.length_ <= recv_size
    BY RecvOffsets
  <2>3. \A p \in 0 .. recv_size - 1 : p < s.length_ => p + s.front_ \in 0 .. recv_size - 1
    BY <2>2
  <2>4. \A p \in 0 .. recv_size - 1 :
            (IF p < s.length_ THEN d[p + s.front_] ELSE d[p]) \in Content
    BY <2>3
  <2>5. \A i \in 1 .. s.length_ : CleanUpData(s, d)[i - 1] = d[i - 1 + s.front_]
    BY <2>1, <2>2
  <2>6. \A i \in 1 .. s.length_ : i - 1 + s.front_ = s.front_ + i - 1
    BY <2>2
  <2> QED BY <2>1, <2>4, <2>5, <2>6
<1> QED BY <1>1, <1>2

\* The n bytes from base + rear on are new, and those before as they were.
Copied(new, old, m, base, rear, n, bytes) ==
    /\ new \in [0 .. m - 1 -> Content]
    /\ \A p \in 0 .. m - 1 : p < base + rear => new[p] = old[p]
    /\ \A i \in 1 .. n : new[base + rear + i - 1] = bytes[i]

\* CopyTo changes the bytes behind the data of the stream.
LEMMA CopyToCopies ==
    ASSUME NEW m \in Nat, NEW d \in [0 .. m - 1 -> Content], NEW base \in Nat,
           NEW s, NEW rear \in Nat, s.rear_ = rear, NEW n \in Nat,
           NEW bytes \in [1 .. n -> Content], base + rear + n <= m
    PROVE  Copied(CopyTo(d, base, s, bytes), d, m, base, rear, n, bytes)
<1> DEFINE At(p) == IF p \in base + rear .. base + rear + n - 1
                    THEN bytes[p - base - rear + 1] ELSE d[p]
<1>0. Len(bytes) = n
  OBVIOUS
<1>1. CopyTo(d, base, s, bytes) = [p \in 0 .. m - 1 |-> At(p)]
  BY <1>0 DEF CopyTo
<1>2. ASSUME NEW p \in 0 .. m - 1, p \in base + rear .. base + rear + n - 1
      PROVE  p - base - rear + 1 \in 1 .. n
  BY <1>2
<1>3. \A p \in 0 .. m - 1 : At(p) \in Content
  BY <1>2
<1>4. \A p \in 0 .. m - 1 : p < base + rear => At(p) = d[p]
  OBVIOUS
<1>5. ASSUME NEW i \in 1 .. n
      PROVE  /\ base + rear + i - 1 \in 0 .. m - 1
             /\ base + rear + i - 1 \in base + rear .. base + rear + n - 1
             /\ (base + rear + i - 1) - base - rear + 1 = i
  OBVIOUS
<1>6. \A i \in 1 .. n : At(base + rear + i - 1) = bytes[i]
  BY <1>5
<1>7. \A i \in 1 .. n : base + rear + i - 1 \in 0 .. m - 1
  BY <1>5
<1> HIDE DEF At
<1> QED BY <1>1, <1>3, <1>4, <1>6, <1>7 DEF Copied

-----------------------------------------------------------------------------
(***************************************************************************)
(* Steps that leave one half of the state alone.                           *)
(***************************************************************************)

\* A thread that runs a handler has its session to itself.
LEMMA InHandler ==
    ASSUME IInv, NEW t \in Threads, pc[t] \notin {"idle", "push"}
    PROVE  /\ session[t] # None /\ session[t] \in Sessions
           /\ receiving[session[t]] = "handled"
           /\ count[t] \in Nat /\ count[t] <= recv_buffer_[session[t]].length_
           /\ \A u \in Threads : session[u] = session[t] => u = t
<1>1. HandlerInv /\ session[t] \in Sessions \cup {None} /\ count[t] \in 0 .. recv_size
  BY DEF IInv, TypeOK
<1>2. session[t] # None
  BY <1>1 DEF HandlerInv
<1> QED BY <1>1, <1>2 DEF HandlerInv

\* Nothing is received or processed, and who is in a handler stays there.
LEMMA ReceiveQuiet ==
    ASSUME IInv, UNCHANGED <<receive, session, count>>,
           \A u \in Threads : /\ pc'[u] = "idle" => session[u] = None
                              /\ pc'[u] \notin {"idle", "push"} => session[u] # None
    PROVE  HandlerInv' /\ RecvInv' /\ UnreadBytesKept'
<1> USE DEF receive
<1>1. HandlerInv'
  BY DEF IInv, HandlerInv
<1>2. RecvInv'
  BY DEF IInv, RecvInv
<1>3. UnreadBytesKept'
  BY DEF IInv, UnreadBytesKept
<1> QED BY <1>1, <1>2, <1>3

\* The chunks and the SendBuffers stay as they are.
LEMMA ChunksQuiet ==
    ASSUME IInv, UNCHANGED <<chunks, streams, freed>>,
           \A u \in Threads : /\ pc'[u] = "push" <=> pc[u] = "push"
                              /\ pc[u] = "write" <=> pc'[u] = "write"
    PROVE  PlaceInv' /\ StreamInv' /\ SentBytesKept'
<1> USE DEF chunks, streams
<1>1. /\ \A c : (Listed(c)' <=> Listed(c)) /\ (Moving(c)' <=> Moving(c))
      /\ \A c : Referenced(c)' <=> Referenced(c)
  BY DEF Listed, Moving, Referenced
<1>2. PlaceInv'
  BY <1>1 DEF IInv, PlaceInv
<1>3. StreamInv'
  BY DEF IInv, StreamInv
<1>4. SentBytesKept'
  BY DEF IInv, SentBytesKept, InUse
<1> QED BY <1>2, <1>3, <1>4

LEMMA OwnQuiet ==
    ASSUME IInv, UNCHANGED <<L_buffer_chunk, used_size_>>,
           \A u \in Threads : /\ Chosen(u)' => Chosen(u) /\ size'[u] = size[u]
                              /\ pc'[u] = "write" => pc[u] = "write"
    PROVE  OwnInv'
BY DEF IInv, OwnInv

-----------------------------------------------------------------------------
(***************************************************************************)
(* The receive loop keeps the invariant.                                   *)
(***************************************************************************)

\* The bytes of a packet follow those that were there.
LEMMA ProcessRecvInv ==
    ASSUME IInv, NEW t \in Threads, NEW x \in Sessions, NEW n \in 1 .. recv_size,
           ProcessRecv(t, x, n)
    PROVE  IInv'
<1> DEFINE s == recv_buffer_[x]
           bytes == [i \in 1 .. n |-> Byte(x, received[x] + i)]
<1>0. /\ pc[t] = "idle" /\ receiving[x] = "posted" /\ n \in 1 .. s.space_
      /\ pc' = [pc EXCEPT ![t] = "recv"]
      /\ session' = [session EXCEPT ![t] = x]
      /\ receiving' = [receiving EXCEPT ![x] = "handled"]
      /\ data' = [data EXCEPT ![x] = CopyTo(data[x], 0, s, bytes)]
      /\ recv_buffer_' = [recv_buffer_ EXCEPT ![x] = OnWrite(s, n)]
      /\ received' = [received EXCEPT ![x] = received[x] + n]
      /\ UNCHANGED <<processed, chunks, streams, count, size, freed>>
  BY DEF ProcessRecv, Step
<1>1. /\ s \in RecvBuffer /\ StreamOK(s) /\ s.front_ = 0
      /\ s.rear_ \in Nat /\ s.length_ \in Nat
      /\ received[x] \in Nat /\ processed[x] \in Nat
      /\ data[x] \in [0 .. recv_size - 1 -> Content]
      /\ recv_size \in Nat
  BY <1>0, BufferChunkAssumption DEF IInv, TypeOK, RecvInv, RecvBuffer, Offset
<1>2. /\ OnWrite(s, n) \in RecvBuffer /\ StreamOK(OnWrite(s, n))
      /\ OnWrite(s, n).front_ = 0 /\ OnWrite(s, n).length_ = s.length_ + n
      /\ s.rear_ = s.length_ /\ s.rear_ + n <= recv_size
  BY <1>0, <1>1, OnWriteRecv
<1>3. bytes \in [1 .. n -> Content]
  BY <1>1 DEF Content, Byte
<1>4. Copied(CopyTo(data[x], 0, s, bytes), data[x], recv_size, 0, s.rear_, n, bytes)
  <2> HIDE DEF s, bytes
  <2>1. /\ recv_size \in Nat /\ 0 \in Nat /\ s.rear_ \in Nat /\ n \in Nat
        /\ data[x] \in [0 .. recv_size - 1 -> Content]
        /\ 0 + s.rear_ + n <= recv_size
    BY <1>1, <1>2
  <2> QED BY ONLY <1>3, <2>1, CopyToCopies
<1>5. recv_buffer_'[x] = OnWrite(s, n) /\ receiving'[x] = "handled"
      /\ received'[x] = received[x] + n /\ data'[x] = CopyTo(data[x], 0, s, bytes)
      /\ \A y \in Sessions : y # x => /\ recv_buffer_'[y] = recv_buffer_[y]
                                      /\ receiving'[y] = receiving[y]
                                      /\ received'[y] = received[y] /\ data'[y] = data[y]
  BY <1>0 DEF IInv, TypeOK
<1>6. /\ pc'[t] = "recv" /\ session'[t] = x /\ session[t] = None
      /\ \A u \in Threads : u # t => pc'[u] = pc[u] /\ session'[u] = session[u]
  BY <1>0 DEF IInv, TypeOK, HandlerInv
<1> HIDE DEF s, bytes
<1>7. TypeOK'
  <2>1. recv_buffer_' \in [Sessions -> RecvBuffer] /\ \A y \in Sessions : StreamOK(recv_buffer_'[y])
    BY <1>0, <1>2, <1>5 DEF IInv, TypeOK
  <2>2. data' \in [Sessions -> [0 .. recv_size - 1 -> Content]]
    BY <1>0, <1>4 DEF IInv, TypeOK, Copied
  <2>3. received' \in [Sessions -> Nat] /\ receiving' \in [Sessions -> {"posted", "handled", "closed"}]
    BY <1>0, <1>1 DEF IInv, TypeOK
  <2>4. /\ pc' \in [Threads -> {"idle", "recv", "pop", "push", "open", "write", "read"}]
        /\ session' \in [Threads -> Sessions \cup {None}]
    BY <1>0 DEF IInv, TypeOK
  <2> QED BY <1>0, <2>1, <2>2, <2>3, <2>4 DEF IInv, TypeOK, chunks, streams, SendBuffer
<1>8. HandlerInv'
  <2>1. \A u \in Threads : session[u] # x
    BY <1>0, BufferChunkAssumption DEF IInv, HandlerInv
  <2>2. count'[t] = 0 /\ count' = count
    BY <1>0 DEF IInv, TypeOK, HandlerInv
  <2>3. x # None /\ 0 <= recv_buffer_'[x].length_
    BY <1>1, <1>2, <1>5, BufferChunkAssumption
  <2>4. \A u \in Threads : u # t /\ session[u] # None =>
            /\ session[u] \in Sessions /\ receiving'[session[u]] = receiving[session[u]]
            /\ recv_buffer_'[session[u]] = recv_buffer_[session[u]]
    BY <1>5, <2>1 DEF IInv, TypeOK
  <2>5. HandlerInv
    BY DEF IInv
  <2> QED BY ONLY <1>5, <1>6, <2>1, <2>2, <2>3, <2>4, <2>5, t \in Threads DEF HandlerInv
<1>9. RecvInv'
  BY <1>5 DEF IInv, RecvInv
<1>10. UnreadBytesKept'
  <2>0. /\ processed[x] + s.length_ = received[x]
        /\ \A i \in 1 .. s.length_ : data[x][s.front_ + i - 1] = Byte(x, processed[x] + i)
    BY <1>0 DEF IInv, UnreadBytesKept, s
  <2>1. ASSUME NEW i \in 1 .. s.length_
        PROVE  data'[x][0 + i - 1] = Byte(x, processed[x] + i)
    <3>1. i - 1 \in 0 .. recv_size - 1 /\ i - 1 < 0 + s.rear_ /\ 0 + i - 1 = i - 1
      BY <1>1, <1>2
    <3>2. data'[x][i - 1] = data[x][i - 1]
      BY <1>4, <1>5, <3>1 DEF Copied
    <3> QED BY <1>1, <2>0, <3>1, <3>2
  <2>2. ASSUME NEW i \in s.length_ + 1 .. s.length_ + n
        PROVE  data'[x][0 + i - 1] = Byte(x, processed[x] + i)
    <3> DEFINE j == i - s.length_
    <3>1. j \in 1 .. n /\ 0 + s.rear_ + j - 1 = 0 + i - 1 /\ received[x] + j = processed[x] + i
      <4>1. /\ i \in Int /\ s.length_ + 1 <= i /\ i <= s.length_ + n
            /\ s.length_ \in Nat /\ s.rear_ = s.length_ /\ n \in Nat
            /\ processed[x] \in Nat /\ received[x] = processed[x] + s.length_
        BY <1>0, <1>1, <1>2, <2>0
      <4> QED BY ONLY <4>1
    <3>2. data'[x][0 + s.rear_ + j - 1] = Byte(x, received[x] + j)
      <4> HIDE DEF j
      <4> QED BY <1>4, <1>5, <3>1 DEF Copied, bytes
    <3> QED BY <3>1, <3>2
  <2>3. \A i \in 1 .. s.length_ + n : data'[x][0 + i - 1] = Byte(x, processed[x] + i)
    BY <1>1, <2>1, <2>2
  <2>4. processed'[x] + (s.length_ + n) = received'[x]
    BY <1>0, <1>1, <1>5, <2>0
  <2> QED BY <1>0, <1>2, <1>5, <2>3, <2>4 DEF IInv, UnreadBytesKept
<1>11. PlaceInv' /\ StreamInv' /\ SentBytesKept'
  BY <1>0, <1>6, ChunksQuiet
<1>12. OwnInv'
  BY <1>0, <1>6, OwnQuiet DEF Chosen, chunks
<1> QED BY <1>7, <1>8, <1>9, <1>10, <1>11, <1>12 DEF IInv

LEMMA ProcessRecvCloseInv ==
    ASSUME IInv, NEW t \in Threads, NEW x \in Sessions, ProcessRecvClose(t, x)
    PROVE  IInv'
<1>0. /\ pc[t] = "idle" /\ receiving[x] = "posted"
      /\ receiving' = [receiving EXCEPT ![x] = "closed"]
      /\ UNCHANGED <<recv_buffer_, data, received, processed, chunks, streams, locals>>
  BY DEF ProcessRecvClose
<1>1. UNCHANGED <<pc, session, count, size, freed, chunks, streams>>
  BY <1>0 DEF locals
<1>2. /\ receiving'[x] = "closed"
      /\ \A y \in Sessions : y # x => receiving'[y] = receiving[y]
      /\ receiving' \in [Sessions -> {"posted", "handled", "closed"}]
  BY <1>0 DEF IInv, TypeOK
<1>3. TypeOK'
  BY <1>0, <1>1, <1>2 DEF IInv, TypeOK, chunks, streams, SendBuffer
<1>4. HandlerInv'
  <2>1. \A u \in Threads : session[u] # None => session[u] \in Sessions /\ session[u] # x
    BY <1>0 DEF IInv, TypeOK, HandlerInv
  <2> QED BY <1>0, <1>1, <1>2, <2>1 DEF IInv, HandlerInv
<1>5. RecvInv' /\ UnreadBytesKept'
  BY <1>0, <1>2 DEF IInv, RecvInv, UnreadBytesKept
<1>6. PlaceInv' /\ StreamInv' /\ SentBytesKept'
  BY <1>1, ChunksQuiet
<1>7. OwnInv'
  BY <1>1, OwnQuiet DEF Chosen, chunks
<1> QED BY <1>3, <1>4, <1>5, <1>6, <1>7 DEF IInv

\* OnRecv reads no more than there is, and the chunk it is content with has
\* room for the SendBuffer.
LEMMA OnRecvInv ==
    ASSUME IInv, NEW t \in Threads, NEW k \in 0 .. recv_size, NEW n \in 0 .. recv_size,
           OnRecv(t, k, n)
    PROVE  IInv'
<1> DEFINE next == IF k = 0 THEN "read" ELSE IF NeedsChunk(t, n) THEN "pop" ELSE "open"
<1>0. /\ pc[t] = "recv" /\ CanRead(Message(session[t]), k)
      /\ pc' = [pc EXCEPT ![t] = next]
      /\ count' = [count EXCEPT ![t] = k]
      /\ size' = [size EXCEPT ![t] = n]
      /\ UNCHANGED <<receive, chunks, streams, session, freed>>
  BY DEF OnRecv
<1>1. session[t] # None /\ session[t] \in Sessions
  BY <1>0, InHandler
<1>2. k <= recv_buffer_[session[t]].length_
  BY <1>0 DEF CanRead, Message, SetBuffer
<1>3. /\ pc'[t] = next /\ count'[t] = k /\ size'[t] = n /\ next \in {"read", "pop", "open"}
      /\ \A u \in Threads : u # t => pc'[u] = pc[u] /\ count'[u] = count[u] /\ size'[u] = size[u]
  BY <1>0 DEF IInv, TypeOK
<1>4. TypeOK'
  <2>1. /\ pc' \in [Threads -> {"idle", "recv", "pop", "push", "open", "write", "read"}]
        /\ count' \in [Threads -> 0 .. recv_size] /\ size' \in [Threads -> 0 .. recv_size]
    BY <1>0 DEF IInv, TypeOK
  <2> QED BY <1>0, <2>1 DEF IInv, TypeOK, receive, chunks, streams, SendBuffer
<1>5. HandlerInv'
  BY <1>0, <1>1, <1>2, <1>3 DEF IInv, HandlerInv, receive
<1>6. RecvInv' /\ UnreadBytesKept'
  BY <1>0 DEF IInv, RecvInv, UnreadBytesKept, receive
<1>7. PlaceInv' /\ StreamInv' /\ SentBytesKept'
  BY <1>0, <1>3, ChunksQuiet
<1>8. OwnInv'
  <2>1. next = "open" => /\ L_buffer_chunk[t] # None
                         /\ used_size_[L_buffer_chunk[t]] + n <= BUFFER_CHUNK_SIZE
    <3> SUFFICES ASSUME next = "open"
                 PROVE  /\ L_buffer_chunk[t] # None
                        /\ used_size_[L_buffer_chunk[t]] + n <= BUFFER_CHUNK_SIZE
      OBVIOUS
    <3>1. ~NeedsChunk(t, n)
      OBVIOUS
    <3>2. L_buffer_chunk[t] # None /\ ~(FreeSize(L_buffer_chunk[t]) < n)
      BY <3>1 DEF NeedsChunk
    <3>3. used_size_[L_buffer_chunk[t]] \in Nat /\ BUFFER_CHUNK_SIZE \in Nat
      BY <3>2, BufferChunkAssumption DEF IInv, TypeOK
    <3> QED BY <3>2, <3>3 DEF FreeSize
  <2>2. ASSUME NEW u \in Threads, u # t PROVE Chosen(u)' <=> Chosen(u)
    BY <1>0, <1>3, <2>2 DEF Chosen
  <2>3. Chosen(t)' => next = "open"
    BY <1>3 DEF Chosen
  <2>4. UNCHANGED <<L_buffer_chunk, used_size_>>
    BY <1>0 DEF chunks
  <2> HIDE DEF next
  <2> QED BY <1>3, <2>1, <2>2, <2>3, <2>4 DEF IInv, OwnInv
<1> QED BY <1>4, <1>5, <1>6, <1>7, <1>8 DEF IInv

LEMMA OnRecvWrongInv ==
    ASSUME IInv, NEW t \in Threads, OnRecvWrong(t)
    PROVE  IInv'
<1> DEFINE x == session[t]
<1>0. /\ pc[t] = "recv" /\ pc' = [pc EXCEPT ![t] = "idle"]
      /\ receiving' = [receiving EXCEPT ![x] = "closed"]
      /\ session' = [session EXCEPT ![t] = None]
      /\ count' = [count EXCEPT ![t] = 0]
      /\ size' = [size EXCEPT ![t] = 0]
      /\ UNCHANGED <<recv_buffer_, data, received, processed, chunks, streams, freed>>
  BY DEF OnRecvWrong, Step, Leave
<1>1. /\ pc'[t] = "idle" /\ session'[t] = None /\ count'[t] = 0
      /\ \A u \in Threads : u # t => /\ pc'[u] = pc[u] /\ session'[u] = session[u]
                                     /\ count'[u] = count[u] /\ size'[u] = size[u]
  BY <1>0 DEF IInv, TypeOK
<1>2. x \in Sessions /\ \A u \in Threads : session[u] = x => u = t
  BY <1>0, InHandler
<1>3. /\ receiving'[x] = "closed"
      /\ \A y \in Sessions : y # x => receiving'[y] = receiving[y]
      /\ receiving' \in [Sessions -> {"posted", "handled", "closed"}]
  BY <1>0, <1>2 DEF IInv, TypeOK
<1>4. TypeOK'
  <2>1. /\ pc' \in [Threads -> {"idle", "recv", "pop", "push", "open", "write", "read"}]
        /\ session' \in [Threads -> Sessions \cup {None}]
        /\ count' \in [Threads -> 0 .. recv_size] /\ size' \in [Threads -> 0 .. recv_size]
    BY <1>0, BufferChunkAssumption DEF IInv, TypeOK
  <2> QED BY <1>0, <1>3, <2>1 DEF IInv, TypeOK, chunks, streams, SendBuffer
<1> HIDE DEF x
<1>5. HandlerInv'
  <2>1. \A u \in Threads : u # t /\ session[u] # None => session[u] \in Sessions /\ session[u] # x
    BY <1>2 DEF IInv, TypeOK
  <2> QED BY <1>0, <1>1, <1>3, <2>1 DEF IInv, HandlerInv
<1>6. RecvInv' /\ UnreadBytesKept'
  BY <1>0, <1>3 DEF IInv, RecvInv, UnreadBytesKept
<1>7. PlaceInv' /\ StreamInv' /\ SentBytesKept'
  BY <1>0, <1>1, ChunksQuiet
<1>8. OwnInv'
  BY <1>0, <1>1, OwnQuiet DEF Chosen, chunks
<1> QED BY <1>4, <1>5, <1>6, <1>7, <1>8 DEF IInv

\* What OnRecv has left is moved to the beginning with its bytes.
LEMMA RegisterRecvInv ==
    ASSUME IInv, NEW t \in Threads, RegisterRecv(t)
    PROVE  IInv'
<1> DEFINE x == session[t]
           k == count[t]
           s == recv_buffer_[x]
           r == OnRead(s, k)
<1>0. /\ pc[t] = "read" /\ pc' = [pc EXCEPT ![t] = "idle"]
      /\ recv_buffer_' = [recv_buffer_ EXCEPT ![x] = CleanUp(r)]
      /\ data' = [data EXCEPT ![x] = CleanUpData(r, data[x])]
      /\ processed' = [processed EXCEPT ![x] = processed[x] + k]
      /\ receiving' = [receiving EXCEPT ![x] = "posted"]
      /\ session' = [session EXCEPT ![t] = None]
      /\ count' = [count EXCEPT ![t] = 0]
      /\ size' = [size EXCEPT ![t] = 0]
      /\ UNCHANGED <<received, chunks, streams, freed>>
  BY DEF RegisterRecv, Step, Leave
<1>1. /\ pc'[t] = "idle" /\ session'[t] = None /\ count'[t] = 0
      /\ \A u \in Threads : u # t => /\ pc'[u] = pc[u] /\ session'[u] = session[u]
                                     /\ count'[u] = count[u] /\ size'[u] = size[u]
  BY <1>0 DEF IInv, TypeOK
<1>2. /\ x \in Sessions /\ receiving[x] = "handled" /\ k \in Nat /\ k <= s.length_
      /\ \A u \in Threads : session[u] = x => u = t
  BY <1>0, InHandler
<1>3. /\ s \in RecvBuffer /\ StreamOK(s) /\ data[x] \in [0 .. recv_size - 1 -> Content]
      /\ processed[x] \in Nat /\ received[x] \in Nat
      /\ s.length_ \in Nat /\ s.front_ \in Nat /\ recv_size \in Nat
  BY <1>2, BufferChunkAssumption DEF IInv, TypeOK, RecvBuffer, Offset
<1>4. /\ r \in RecvBuffer /\ StreamOK(r)
      /\ r.front_ = s.front_ + k /\ r.length_ = s.length_ - k
  <2> HIDE DEF s, k
  <2>1. k \in 0 .. s.length_
    BY <1>2, <1>3
  <2> QED BY <1>3, <2>1, OnReadRecv
<1>5. /\ CleanUp(r) \in RecvBuffer /\ StreamOK(CleanUp(r))
      /\ CleanUp(r).front_ = 0 /\ CleanUp(r).length_ = r.length_
  <2> HIDE DEF r
  <2> QED BY <1>4, CleanUpRecv
<1>6. /\ CleanUpData(r, data[x]) \in [0 .. recv_size - 1 -> Content]
      /\ \A i \in 1 .. r.length_ : CleanUpData(r, data[x])[i - 1] = data[x][r.front_ + i - 1]
  <2> HIDE DEF r, x
  <2> QED BY <1>3, <1>4, CleanUpMoves
<1>7. /\ recv_buffer_'[x] = CleanUp(r) /\ data'[x] = CleanUpData(r, data[x])
      /\ processed'[x] = processed[x] + k /\ receiving'[x] = "posted"
      /\ \A y \in Sessions : y # x => /\ recv_buffer_'[y] = recv_buffer_[y]
                                      /\ data'[y] = data[y] /\ processed'[y] = processed[y]
                                      /\ receiving'[y] = receiving[y]
  BY <1>0, <1>2 DEF IInv, TypeOK
<1> HIDE DEF r, s, k, x
<1>8. TypeOK'
  <2>1. recv_buffer_' \in [Sessions -> RecvBuffer] /\ \A y \in Sessions : StreamOK(recv_buffer_'[y])
    BY <1>0, <1>5, <1>7 DEF IInv, TypeOK
  <2>2. data' \in [Sessions -> [0 .. recv_size - 1 -> Content]]
    BY <1>0, <1>6 DEF IInv, TypeOK
  <2>3. processed' \in [Sessions -> Nat] /\ receiving' \in [Sessions -> {"posted", "handled", "closed"}]
    BY <1>0, <1>2, <1>3 DEF IInv, TypeOK
  <2>4. /\ pc' \in [Threads -> {"idle", "recv", "pop", "push", "open", "write", "read"}]
        /\ session' \in [Threads -> Sessions \cup {None}]
        /\ count' \in [Threads -> 0 .. recv_size] /\ size' \in [Threads -> 0 .. recv_size]
    BY <1>0, BufferChunkAssumption DEF IInv, TypeOK
  <2> QED BY <1>0, <2>1, <2>2, <2>3, <2>4 DEF IInv, TypeOK, chunks, streams, SendBuffer
<1>9. HandlerInv'
  <2>1. \A u \in Threads : u # t /\ session[u] # None => session[u] \in Sessions /\ session[u] # x
    BY <1>2 DEF IInv, TypeOK
  <2> QED BY <1>1, <1>7, <2>1 DEF IInv, HandlerInv
<1>10. RecvInv'
  BY <1>5, <1>7 DEF IInv, RecvInv
<1>11. UnreadBytesKept'
  <2>1. /\ processed[x] + s.length_ = received[x]
        /\ \A i \in 1 .. s.length_ : data[x][s.front_ + i - 1] = Byte(x, processed[x] + i)
    BY <1>2 DEF IInv, UnreadBytesKept, s
  <2>2. processed'[x] + r.length_ = received'[x]
    BY <1>0, <1>2, <1>3, <1>4, <1>7, <2>1
  <2>3. ASSUME NEW i \in 1 .. r.length_
        PROVE  data'[x][0 + i - 1] = Byte(x, processed'[x] + i)
    <3>1. /\ k + i \in 1 .. s.length_ /\ r.front_ + i - 1 = s.front_ + (k + i) - 1
          /\ processed[x] + (k + i) = processed[x] + k + i /\ 0 + i - 1 = i - 1
      BY <1>2, <1>3, <1>4, SMTT(30)
    <3>2. data'[x][i - 1] = data[x][r.front_ + i - 1]
      BY <1>6, <1>7
    <3> QED BY <1>7, <2>1, <3>1, <3>2
  <2> QED BY <1>0, <1>5, <1>7, <2>2, <2>3 DEF IInv, UnreadBytesKept
<1>12. PlaceInv' /\ StreamInv' /\ SentBytesKept'
  BY <1>0, <1>1, ChunksQuiet
<1>13. OwnInv'
  BY <1>0, <1>1, OwnQuiet DEF Chosen, chunks
<1> QED BY <1>8, <1>9, <1>10, <1>11, <1>12, <1>13 DEF IInv

-----------------------------------------------------------------------------
(***************************************************************************)
(* Chunks and SendBuffers keep the invariant.                              *)
(***************************************************************************)

LEMMA FrontOfList ==
    ASSUME NEW S, NEW list \in Seq(S), list # <<>>
    PROVE  /\ Len(list) \in 1 .. Len(list) /\ Last(list) = list[Len(list)]
           /\ Last(list) \in S
           /\ Front(list) \in Seq(S) /\ Len(Front(list)) = Len(list) - 1
           /\ \A i \in 1 .. Len(list) - 1 : Front(list)[i] = list[i]
<1>1. Len(list) \in Nat /\ Len(list) # 0
  BY EmptySeq
<1>2. \A i \in 1 .. Len(list) - 1 : list[i] \in S
  BY ElementOfSeq
<1>3. Front(list) = [i \in 1 .. Len(list) - 1 |-> list[i]]
  BY <1>1 DEF Front
<1> HIDE DEF Front
<1>4. Front(list) \in Seq(S) /\ Len(Front(list)) = Len(list) - 1
  BY <1>1, <1>2, <1>3
<1> QED BY <1>1, <1>3, <1>4, ElementOfSeq DEF Last

\* None is not a chunk, and a chunk that exists is one of Chunks.
LEMMA RealChunks ==
    ASSUME IInv
    PROVE  /\ made \subseteq Chunks /\ None \notin made /\ None \notin Chunks
           /\ BUFFER_CHUNK_SIZE \in Nat /\ recv_size \in Nat
BY BufferChunkAssumption DEF IInv, TypeOK

\* The chunk that is popped has no reference; the old one is pushed with its last.
LEMMA PopChunkInv ==
    ASSUME IInv, NEW t \in Threads, PopChunk(t)
    PROVE  IInv'
<1>0. PICK old : old = L_buffer_chunk[t]
  OBVIOUS
<1> DEFINE kept == old \in References(L_buffer_chunk', send_buffers) \cup {None}
<1>1. PICK c \in Chunks :
        /\ IF buffer_chunk_list_ = <<>>
           THEN c \notin made /\ UNCHANGED buffer_chunk_list_
           ELSE c = Last(buffer_chunk_list_)
                /\ buffer_chunk_list_' = Front(buffer_chunk_list_)
        /\ made' = made \cup {c}
        /\ L_buffer_chunk' = [L_buffer_chunk EXCEPT ![t] = c]
        /\ Reset(c)
        /\ IF kept
           THEN Step(t, "pop", "open") /\ UNCHANGED freed
           ELSE Step(t, "pop", "push") /\ freed' = [freed EXCEPT ![t] = old]
        /\ UNCHANGED <<receive, chunk, streams, session, count, size>>
  BY <1>0 DEF PopChunk
<1>2. /\ pc[t] = "pop" /\ pc' = [pc EXCEPT ![t] = IF kept THEN "open" ELSE "push"]
      /\ freed' = [freed EXCEPT ![t] = IF kept THEN freed[t] ELSE old]
  BY <1>1 DEF Step, IInv, TypeOK
<1>3. /\ pc'[t] = (IF kept THEN "open" ELSE "push")
      /\ \A u \in Threads : u # t => pc'[u] = pc[u] /\ freed'[u] = freed[u]
      /\ freed'[t] = IF kept THEN None ELSE old
      /\ L_buffer_chunk'[t] = c
      /\ \A u \in Threads : u # t => L_buffer_chunk'[u] = L_buffer_chunk[u]
      /\ used_size_'[c] = 0
      /\ \A d \in Chunks : d # c => used_size_'[d] = used_size_[d]
  <2>1. freed[t] = None
    BY <1>2 DEF IInv, PlaceInv
  <2> HIDE DEF kept
  <2> QED BY <1>1, <1>2, <2>1 DEF Reset, IInv, TypeOK
<1>4. /\ buffer_chunk_list_' \in Seq(made)
      /\ \A d \in made : Listed(d)' <=> Listed(d) /\ d # c
      /\ \A i, j \in 1 .. Len(buffer_chunk_list_') :
             buffer_chunk_list_'[i] = buffer_chunk_list_'[j] => i = j
      /\ c \in made => Listed(c)
  <2>0. /\ buffer_chunk_list_ \in Seq(made)
        /\ \A i, j \in 1 .. Len(buffer_chunk_list_) :
               buffer_chunk_list_[i] = buffer_chunk_list_[j] => i = j
    BY DEF IInv, TypeOK, PlaceInv
  <2>1. CASE buffer_chunk_list_ = <<>>
    BY <1>1, <2>0, <2>1 DEF Listed
  <2>2. CASE buffer_chunk_list_ # <<>>
    <3> DEFINE n == Len(buffer_chunk_list_)
    <3>1. /\ n \in 1 .. n /\ c = buffer_chunk_list_[n]
          /\ buffer_chunk_list_' \in Seq(made) /\ Len(buffer_chunk_list_') = n - 1
          /\ \A i \in 1 .. n - 1 : buffer_chunk_list_'[i] = buffer_chunk_list_[i]
      BY <1>1, <2>0, <2>2, FrontOfList, SMTT(30)
    <3> HIDE DEF n
    <3>2. \A d : Listed(d) <=> \E i \in 1 .. n : buffer_chunk_list_[i] = d
      BY DEF Listed, n
    <3>3. \A d : Listed(d)' <=> \E i \in 1 .. n - 1 : buffer_chunk_list_[i] = d
      BY <3>1 DEF Listed
    <3>4. \A i, j \in 1 .. n : buffer_chunk_list_[i] = buffer_chunk_list_[j] => i = j
      BY <2>0 DEF n
    <3>5. 1 .. n - 1 \subseteq 1 .. n /\ \A i \in 1 .. n : i \in 1 .. n - 1 <=> i # n
      BY <3>1
    <3> QED BY <3>1, <3>2, <3>3, <3>4, <3>5
  <2> QED BY <2>1, <2>2
<1>5. ~Referenced(c) /\ ~Moving(c) /\ c # None
  <2>1. CASE c \in made
    BY <1>4, <2>1, RealChunks DEF IInv, PlaceInv
  <2>2. CASE c \notin made
    BY <2>2, RealChunks, SMTT(30) DEF IInv, TypeOK, Referenced, Moving, SendBuffer
  <2> QED BY <2>1, <2>2
<1>6. send_buffers' = send_buffers /\ sent' = sent
  BY <1>1 DEF streams
<1>7. /\ \A d : Referenced(d)' <=> (\E u \in Threads : L_buffer_chunk'[u] = d)
                                   \/ (\E b \in SendBuffers : send_buffers[b].owner_ = d)
      /\ Referenced(c)'
      /\ kept <=> (old = None \/ Referenced(old)')
      /\ \A d : d \notin {c, old} => (Referenced(d)' <=> Referenced(d))
  <2>1. \A d : Referenced(d)' <=> (\E u \in Threads : L_buffer_chunk'[u] = d)
                                   \/ (\E b \in SendBuffers : send_buffers[b].owner_ = d)
    BY <1>6 DEF Referenced
  <2>2. Referenced(c)'
    BY <1>3, <2>1
  <2>3. kept <=> (old = None \/ Referenced(old)')
    <3>1. kept <=> \/ old = None
                   \/ \E u \in Threads : L_buffer_chunk'[u] = old
                   \/ \E b \in SendBuffers : send_buffers[b].owner_ = old
      BY DEF References
    <3> HIDE DEF kept
    <3> QED BY <2>1, <3>1
  <2>4. \A d : d \notin {c, old} => (Referenced(d)' <=> Referenced(d))
    <3>1. \A u \in Threads : \A d : d \notin {c, old} => (L_buffer_chunk'[u] = d <=> L_buffer_chunk[u] = d)
      BY <1>0, <1>3
    <3> HIDE DEF kept
    <3> QED BY <2>1, <3>1 DEF Referenced
  <2> QED BY <2>1, <2>2, <2>3, <2>4
<1> HIDE DEF kept
<1>8. /\ made' \subseteq Chunks /\ made \subseteq made' /\ c \in made' /\ None \notin made'
      /\ old \in made \cup {None} /\ old # c
      /\ old # None => Referenced(old)
  BY <1>0, <1>1, <1>5, RealChunks DEF IInv, TypeOK, Referenced
<1>9. TypeOK'
  <2>1. buffer_chunk_list_' \in Seq(made')
    <3>1. Seq(made) \subseteq Seq(made')
      BY <1>8
    <3> QED BY <1>4, <3>1
  <2>2. L_buffer_chunk' \in [Threads -> made' \cup {None}]
    BY <1>1, <1>8 DEF IInv, TypeOK
  <2>3. used_size_' \in [Chunks -> 0 .. BUFFER_CHUNK_SIZE]
    BY <1>1, RealChunks DEF IInv, TypeOK, Reset
  <2>4. send_buffers' \in [SendBuffers -> SendBuffer']
    BY <1>1, <1>6, <1>8 DEF IInv, TypeOK, SendBuffer
  <2>5. pc' \in [Threads -> {"idle", "recv", "pop", "push", "open", "write", "read"}]
    BY <1>2 DEF IInv, TypeOK
  <2>6. freed' \in [Threads -> made' \cup {None}]
    BY <1>2, <1>8 DEF IInv, TypeOK
  <2>7. made' \subseteq Chunks
    BY <1>8
  <2> QED BY <1>1, <1>6, <2>1, <2>2, <2>3, <2>4, <2>5, <2>6, <2>7 DEF IInv, TypeOK, receive, streams
<1>10. HandlerInv' /\ RecvInv' /\ UnreadBytesKept'
  <2>1. session[t] # None
    BY <1>2, InHandler
  <2> QED BY <1>1, <1>3, <2>1, ReceiveQuiet DEF IInv, HandlerInv
<1>11. OwnInv'
  <2>1. ASSUME NEW u \in Threads, u # t
        PROVE  /\ L_buffer_chunk'[u] = L_buffer_chunk[u] /\ L_buffer_chunk[u] # c
               /\ (Chosen(u)' <=> Chosen(u)) /\ pc'[u] = pc[u] /\ size'[u] = size[u]
               /\ L_buffer_chunk[u] # None => used_size_'[L_buffer_chunk[u]] = used_size_[L_buffer_chunk[u]]
    <3>1. L_buffer_chunk'[u] = L_buffer_chunk[u] /\ pc'[u] = pc[u]
      BY <1>3, <2>1
    <3>2. size'[u] = size[u] /\ (Chosen(u)' <=> Chosen(u))
      BY <1>1, <3>1 DEF Chosen
    <3>3. L_buffer_chunk[u] # c
      BY <1>5 DEF Referenced
    <3>4. L_buffer_chunk[u] # None => L_buffer_chunk[u] \in Chunks
      BY RealChunks DEF IInv, TypeOK
    <3> QED BY <1>3, <3>1, <3>2, <3>3, <3>4
  <2>2. /\ pc'[t] # "write" /\ size'[t] \in 0 .. recv_size
        /\ used_size_'[c] + size'[t] <= BUFFER_CHUNK_SIZE
    BY <1>1, <1>3, BufferChunkAssumption DEF IInv, TypeOK
  <2>3. ASSUME NEW u \in Threads, u # t
        PROVE  /\ L_buffer_chunk'[u] # None =>
                      \A v \in Threads : L_buffer_chunk'[v] = L_buffer_chunk'[u] => v = u
               /\ (Chosen(u)' \/ pc'[u] = "write") => L_buffer_chunk'[u] # None
               /\ Chosen(u)' => used_size_'[L_buffer_chunk'[u]] + size'[u] <= BUFFER_CHUNK_SIZE
    BY <1>3, <2>1, <2>3 DEF IInv, OwnInv
  <2>4. /\ \A v \in Threads : L_buffer_chunk'[v] = L_buffer_chunk'[t] => v = t
        /\ L_buffer_chunk'[t] # None
    BY <1>3, <1>5, <2>1
  <2> QED BY <1>3, <2>2, <2>3, <2>4 DEF OwnInv
<1>12. PlaceInv'
  <2>0. PlaceInv
    BY DEF IInv
  <2>1. \A d : d # old /\ d # None => (Moving(d)' <=> Moving(d))
    BY <1>2, <1>3, <2>0 DEF Moving, PlaceInv
  <2>2. old # None => ~Listed(old) /\ ~Moving(old)
    BY <1>8, <2>0 DEF PlaceInv
  <2>3. \A u \in Threads : freed'[u] # None <=> pc'[u] = "push"
    BY <1>2, <1>3, <1>7, <2>0 DEF PlaceInv
  <2>4. \A u, v \in Threads : (freed'[u] = freed'[v] /\ freed'[u] # None) => u = v
    BY <1>3, <1>7, <2>0, <2>2 DEF PlaceInv, Moving
  <2>5. /\ ~Moving(c)' /\ ~Listed(c)'
    <3>1. ~Moving(c)'
      BY <1>5, <1>8, <2>1
    <3>2. ~Listed(c)'
      <4>1. CASE c \in made
        BY <1>4, <4>1
      <4>2. CASE c \notin made
        BY <1>4, <4>2, ElementOfSeq DEF Listed
      <4> QED BY <4>1, <4>2
    <3> QED BY <3>1, <3>2
  <2>6. (old # None /\ kept) => ~Moving(old)'
    BY <1>3, <2>2 DEF Moving
  <2>7. (old # None /\ ~kept) => Moving(old)' /\ ~Referenced(old)'
    BY <1>3, <1>7 DEF Moving
  <2>8. ASSUME NEW d \in made'
        PROVE  /\ Listed(d)' \/ Moving(d)' \/ Referenced(d)'
               /\ ~(Listed(d)' /\ Moving(d)')
               /\ Referenced(d)' => ~Listed(d)' /\ ~Moving(d)'
    <3>1. CASE d = c
      BY <1>7, <2>5, <3>1
    <3>2. CASE d = old
      <4>1. old # None /\ old \in made /\ ~Listed(old)'
        BY <1>4, <1>8, <2>2, <3>2
      <4> QED BY <1>7, <2>6, <2>7, <3>2, <4>1
    <3>3. CASE d \notin {c, old}
      BY <1>1, <1>4, <1>7, <1>8, <2>0, <2>1, <3>3 DEF PlaceInv
    <3> QED BY <3>1, <3>2, <3>3
  <2> QED BY <1>4, <2>3, <2>4, <2>8 DEF PlaceInv
<1>13. StreamInv'
  <2>1. \A b \in SendBuffers : send_buffers[b].owner_ # c
    BY <1>5 DEF Referenced
  <2>2. \A b \in SendBuffers : send_buffers[b].owner_ # None =>
              used_size_'[send_buffers[b].owner_] = used_size_[send_buffers[b].owner_]
    BY <1>3, <2>1, RealChunks DEF IInv, TypeOK, SendBuffer
  <2>3. \A u \in Threads : pc[u] = "write" =>
              u # t /\ pc'[u] = "write" /\ L_buffer_chunk'[u] = L_buffer_chunk[u]
    BY <1>2, <1>3
  <2> QED BY <1>6, <2>2, <2>3 DEF IInv, StreamInv
<1>14. SentBytesKept'
  BY <1>1, <1>6 DEF IInv, SentBytesKept, InUse
<1> QED BY <1>9, <1>10, <1>11, <1>12, <1>13, <1>14 DEF IInv

\* The chunk that was on its way is the last of the list.
LEMMA PushGlobalInv ==
    ASSUME IInv, NEW t \in Threads, PushGlobal(t)
    PROVE  IInv'
<1>0. PICK f : f = freed[t]
  OBVIOUS
<1> DEFINE next == IF session[t] = None THEN "idle" ELSE "open"
           n == Len(buffer_chunk_list_)
<1>1. /\ pc[t] = "push" /\ pc' = [pc EXCEPT ![t] = next]
      /\ buffer_chunk_list_' = Append(buffer_chunk_list_, f)
      /\ freed' = [freed EXCEPT ![t] = None]
      /\ UNCHANGED <<receive, made, L_buffer_chunk, used_size_, chunk, streams, session,
                     count, size>>
  BY <1>0 DEF PushGlobal, Step
<1>2. PlaceInv /\ f \in made /\ f # None /\ Moving(f)
  BY <1>0, <1>1 DEF IInv, TypeOK, PlaceInv, Moving
<1>3. /\ pc'[t] = next /\ freed'[t] = None
      /\ \A u \in Threads : u # t => pc'[u] = pc[u] /\ freed'[u] = freed[u]
  BY <1>1 DEF IInv, TypeOK
<1>4. next \in {"idle", "open"}
  OBVIOUS
<1>5. /\ buffer_chunk_list_' \in Seq(made)
      /\ n \in Nat /\ Len(buffer_chunk_list_') = n + 1
      /\ \A i \in 1 .. n : buffer_chunk_list_'[i] = buffer_chunk_list_[i]
      /\ buffer_chunk_list_'[n + 1] = f
  <2>1. buffer_chunk_list_ \in Seq(made)
    BY DEF IInv, TypeOK
  <2> QED BY <1>1, <1>2, <2>1, AppendProperties
<1>6. TypeOK'
  <2>1. pc' \in [Threads -> {"idle", "recv", "pop", "push", "open", "write", "read"}]
    BY <1>1, <1>4 DEF IInv, TypeOK
  <2>2. freed' \in [Threads -> made \cup {None}]
    BY <1>1 DEF IInv, TypeOK
  <2> QED BY <1>1, <1>5, <2>1, <2>2 DEF IInv, TypeOK, receive, streams, SendBuffer
<1>7. HandlerInv' /\ RecvInv' /\ UnreadBytesKept'
  <2>1. ASSUME NEW u \in Threads
        PROVE  /\ pc'[u] = "idle" => session[u] = None
               /\ pc'[u] \notin {"idle", "push"} => session[u] # None
    BY <1>3 DEF IInv, HandlerInv
  <2> QED BY <1>1, <2>1, ReceiveQuiet
<1>8. OwnInv'
  <2>1. ASSUME NEW u \in Threads
        PROVE  (Chosen(u)' => Chosen(u)) /\ (pc'[u] = "write" => pc[u] = "write")
    BY <1>1, <1>3 DEF Chosen
  <2> QED BY <1>1, <2>1, OwnQuiet
<1> HIDE DEF next, n
<1>9. PlaceInv'
  <2>1. \A i \in 1 .. n + 1 : i \in 1 .. n \/ i = n + 1
    BY <1>5
  <2>2. 1 .. n \subseteq 1 .. n + 1 /\ n + 1 \in 1 .. n + 1
    BY <1>5
  <2>3. \A d : Listed(d) <=> \E i \in 1 .. n : buffer_chunk_list_[i] = d
    BY DEF Listed, n
  <2>4. \A d : Listed(d)' <=> Listed(d) \/ d = f
    BY <1>5, <2>1, <2>2, <2>3 DEF Listed
  <2>5. \A d : d # None => (Moving(d)' <=> Moving(d) /\ d # f)
    BY <1>0, <1>2, <1>3 DEF Moving, PlaceInv
  <2>6. \A d : Referenced(d)' <=> Referenced(d)
    BY <1>1 DEF Referenced, streams
  <2>7. ~Listed(f) /\ ~Referenced(f)
    BY <1>2 DEF PlaceInv
  <2>8. \A i, j \in 1 .. Len(buffer_chunk_list_') :
            buffer_chunk_list_'[i] = buffer_chunk_list_'[j] => i = j
    <3>1. \A i, j \in 1 .. n : buffer_chunk_list_[i] = buffer_chunk_list_[j] => i = j
      BY <1>2 DEF PlaceInv, n
    <3>2. \A i \in 1 .. n : buffer_chunk_list_[i] # f
      BY <2>3, <2>7
    <3> QED BY <1>5, <2>1, <3>1, <3>2
  <2>9. \A u \in Threads : freed'[u] # None <=> pc'[u] = "push"
    BY <1>2, <1>3, <1>4 DEF PlaceInv
  <2>10. \A u, v \in Threads : (freed'[u] = freed'[v] /\ freed'[u] # None) => u = v
    BY <1>2, <1>3 DEF PlaceInv
  <2>11. \A d \in made : d # None
    BY RealChunks
  <2>12. made' = made
    BY <1>1
  <2> QED BY <1>2, <2>4, <2>5, <2>6, <2>7, <2>8, <2>9, <2>10, <2>11, <2>12 DEF PlaceInv
<1>10. StreamInv'
  <2>1. \A u \in Threads : pc[u] = "write" => pc'[u] = "write"
    BY <1>1, <1>3
  <2> QED BY <1>1, <2>1 DEF IInv, StreamInv, streams
<1>11. SentBytesKept'
  BY <1>1 DEF IInv, SentBytesKept, InUse, streams
<1> QED BY <1>6, <1>7, <1>8, <1>9, <1>10, <1>11 DEF IInv

\* A SendBuffer that is opened.
LEMMA OpenedMade ==
    ASSUME IInv, NEW c \in made, NEW base \in 0 .. BUFFER_CHUNK_SIZE, NEW n \in 0 .. recv_size
    PROVE  /\ Opened(base, n, c) \in SendBuffer /\ StreamOK(Opened(base, n, c))
           /\ Opened(base, n, c).front_ = 0 /\ Opened(base, n, c).rear_ = 0
           /\ Opened(base, n, c).capacity_ = n /\ Opened(base, n, c).buffer_ = base
           /\ Opened(base, n, c).owner_ = c /\ Opened(base, n, c).is_open_ = TRUE
BY RealChunks DEF Opened, SendBuffer, StreamOK, Offset

\* The new SendBuffer lies behind all others of its chunk, and is the only
\* open one there.
LEMMA OpenInv ==
    ASSUME IInv, NEW t \in Threads, Open(t)
    PROVE  IInv'
<1>0. PICK c : c = L_buffer_chunk[t]
  OBVIOUS
<1>1. PICK b \in SendBuffers :
        /\ ~InUse(b)
        /\ send_buffers' = [send_buffers EXCEPT ![b] = Opened(used_size_[c], size[t], c)]
        /\ pc[t] = "open" /\ pc' = [pc EXCEPT ![t] = "write"]
        /\ UNCHANGED <<receive, chunks, sent, session, count, size, freed>>
  BY <1>0 DEF Open, Step
<1> DEFINE new == Opened(used_size_[c], size[t], c)
<1>2. /\ UNCHANGED <<made, buffer_chunk_list_, L_buffer_chunk, used_size_, chunk>>
      /\ UNCHANGED <<receive, sent, session, count, size, freed>>
  BY <1>1 DEF chunks
<1>3. /\ pc'[t] = "write" /\ \A u \in Threads : u # t => pc'[u] = pc[u]
      /\ send_buffers'[b] = new
      /\ \A d \in SendBuffers : d # b => send_buffers'[d] = send_buffers[d]
      /\ send_buffers[b].owner_ = None
  BY <1>1 DEF IInv, TypeOK, InUse
<1>4. Chosen(t)
  BY <1>1 DEF Chosen
<1>5. /\ c # None /\ c \in made /\ c \in Chunks
      /\ used_size_[c] \in 0 .. BUFFER_CHUNK_SIZE /\ size[t] \in 0 .. recv_size
      /\ used_size_[c] + size[t] <= BUFFER_CHUNK_SIZE
      /\ \A u \in Threads : L_buffer_chunk[u] = c => u = t
  <2>1. OwnInv
    BY DEF IInv
  <2>2. c # None /\ used_size_[c] + size[t] <= BUFFER_CHUNK_SIZE
        /\ \A u \in Threads : L_buffer_chunk[u] = c => u = t
    BY <1>0, <1>4, <2>1 DEF OwnInv
  <2>3. c \in made /\ c \in Chunks
    BY <1>0, <2>2, RealChunks DEF IInv, TypeOK
  <2> QED BY <2>2, <2>3 DEF IInv, TypeOK
<1>6. /\ new \in SendBuffer /\ StreamOK(new)
      /\ new.front_ = 0 /\ new.rear_ = 0 /\ new.capacity_ = size[t]
      /\ new.buffer_ = used_size_[c] /\ new.owner_ = c /\ new.is_open_ = TRUE
  <2> DEFINE base == used_size_[c]
             n == size[t]
  <2>1. base \in 0 .. BUFFER_CHUNK_SIZE /\ n \in 0 .. recv_size /\ c \in made
    BY <1>5
  <2> HIDE DEF base, n
  <2>2. /\ Opened(base, n, c) \in SendBuffer /\ StreamOK(Opened(base, n, c))
        /\ Opened(base, n, c).front_ = 0 /\ Opened(base, n, c).rear_ = 0
        /\ Opened(base, n, c).capacity_ = n /\ Opened(base, n, c).buffer_ = base
        /\ Opened(base, n, c).owner_ = c /\ Opened(base, n, c).is_open_ = TRUE
    BY <2>1, OpenedMade
  <2> QED BY <2>2 DEF base, n
<1> HIDE DEF new
<1>7. TypeOK'
  <2>1. pc' \in [Threads -> {"idle", "recv", "pop", "push", "open", "write", "read"}]
    BY <1>1 DEF IInv, TypeOK
  <2>2. SendBuffer' = SendBuffer
    BY <1>2 DEF SendBuffer
  <2>3. send_buffers' \in [SendBuffers -> SendBuffer]
    BY <1>1, <1>6 DEF IInv, TypeOK, new
  <2>4. \A d \in SendBuffers : StreamOK(send_buffers'[d])
    BY <1>3, <1>6 DEF IInv, TypeOK
  <2> QED BY <1>2, <2>1, <2>2, <2>3, <2>4 DEF IInv, TypeOK, receive
<1>8. HandlerInv' /\ RecvInv' /\ UnreadBytesKept'
  <2>1. session[t] # None
    BY <1>1, InHandler
  <2>2. ASSUME NEW u \in Threads
        PROVE  /\ pc'[u] = "idle" => session[u] = None
               /\ pc'[u] \notin {"idle", "push"} => session[u] # None
    BY <1>3, <2>1 DEF IInv, HandlerInv
  <2> QED BY <1>2, <2>2, ReceiveQuiet
<1>9. OwnInv'
  <2>1. ASSUME NEW u \in Threads
        PROVE  Chosen(u)' => Chosen(u)
    BY <1>2, <1>3, <1>4 DEF Chosen
  <2> QED BY <1>0, <1>2, <1>3, <1>5, <2>1 DEF IInv, OwnInv
<1>10. PlaceInv'
  <2>1. \A d : d # None => (Referenced(d)' <=> Referenced(d))
    BY <1>0, <1>2, <1>3, <1>6 DEF Referenced
  <2>2. \A d : (Listed(d)' <=> Listed(d)) /\ (Moving(d)' <=> Moving(d))
    BY <1>2 DEF Listed, Moving
  <2>3. \A u \in Threads : pc'[u] = "push" <=> pc[u] = "push"
    BY <1>1, <1>3
  <2> QED BY <1>2, <2>1, <2>2, <2>3, RealChunks DEF IInv, PlaceInv
<1>11. StreamInv'
  <2>0. StreamInv
    BY DEF IInv
  <2>1. \A d \in SendBuffers : ~(send_buffers[d].is_open_ /\ send_buffers[d].owner_ = c)
    BY <1>1, <1>5, <2>0 DEF StreamInv
  <2>2. Len(sent[b]) = 0 /\ send_buffers[b].is_open_ = FALSE
    <3>1. send_buffers[b].is_open_ \in BOOLEAN
      BY DEF IInv, TypeOK, SendBuffer
    <3> QED BY <1>3, <2>0, <3>1 DEF StreamInv
  <2>3. \A u \in Threads : pc[u] = "write" => pc'[u] = "write"
    BY <1>1, <1>3
  <2>4. ASSUME NEW d \in SendBuffers
        PROVE  LET s == send_buffers'[d]  e == s.owner_ IN
          /\ s.front_ = 0 /\ Len(sent'[d]) = s.rear_
          /\ e = None => ~s.is_open_ /\ s.rear_ = 0
          /\ s.is_open_ =>
               /\ s.buffer_ = used_size_'[e] /\ s.buffer_ + s.capacity_ <= BUFFER_CHUNK_SIZE
               /\ \E u \in Threads : pc'[u] = "write" /\ L_buffer_chunk'[u] = e
               /\ \A g \in SendBuffers :
                      (send_buffers'[g].is_open_ /\ send_buffers'[g].owner_ = e) => g = d
          /\ (e # None /\ ~s.is_open_) => s.buffer_ + s.rear_ <= used_size_'[e]
    <3>1. CASE d = b
      <4>1. \A g \in SendBuffers :
              (send_buffers'[g].is_open_ /\ send_buffers'[g].owner_ = c) => g = b
        BY <1>3, <2>1
      <4> QED BY <1>0, <1>2, <1>3, <1>5, <1>6, <2>2, <3>1, <4>1
    <3>2. CASE d # b
      <4>1. send_buffers'[d] = send_buffers[d]
        BY <1>3, <3>2
      <4>2. send_buffers[d].is_open_ => send_buffers[d].owner_ # c
        BY <2>1
      <4>3. ASSUME send_buffers[d].is_open_, NEW g \in SendBuffers,
                   send_buffers'[g].is_open_, send_buffers'[g].owner_ = send_buffers[d].owner_
            PROVE  g = d
        <5>1. g # b
          BY <1>3, <1>6, <4>2, <4>3
        <5> QED BY <1>3, <2>0, <4>3, <5>1 DEF StreamInv
      <4> QED BY <1>2, <2>0, <2>3, <4>1, <4>3 DEF StreamInv
    <3> QED BY <3>1, <3>2
  <2> QED BY <2>4 DEF StreamInv
<1>12. SentBytesKept'
  <2>1. Len(sent[b]) = 0
    BY <1>3 DEF IInv, StreamInv
  <2> QED BY <1>2, <1>3, <2>1 DEF IInv, SentBytesKept, InUse
<1> QED BY <1>7, <1>8, <1>9, <1>10, <1>11, <1>12 DEF IInv

\* Data written behind the others of a SendBuffer.
LEMMA OnWriteSend ==
    ASSUME NEW s \in SendBuffer, StreamOK(s), s.front_ = 0, NEW n \in Nat, n <= s.space_
    PROVE  /\ OnWrite(s, n) \in SendBuffer /\ StreamOK(OnWrite(s, n))
           /\ OnWrite(s, n).front_ = 0 /\ OnWrite(s, n).rear_ = s.rear_ + n
           /\ OnWrite(s, n).capacity_ = s.capacity_ /\ OnWrite(s, n).buffer_ = s.buffer_
           /\ OnWrite(s, n).owner_ = s.owner_ /\ OnWrite(s, n).is_open_ = s.is_open_
           /\ s.rear_ \in Nat /\ s.capacity_ \in Nat /\ s.rear_ + n <= s.capacity_
<1> DEFINE Wide == [front_ : Int, rear_ : Int, capacity_ : Int, length_ : Int, space_ : Int,
                    buffer_ : 0 .. BUFFER_CHUNK_SIZE, owner_ : made \cup {None},
                    is_open_ : BOOLEAN]
           s1 == [s EXCEPT !.rear_ = @ + n]
           s2 == [s1 EXCEPT !.space_ = @ - n]
           s3 == [s2 EXCEPT !.length_ = @ + n]
<1>1. OnWrite(s, n) = s3
  BY DEF OnWrite
<1>2. s \in Wide /\ n \in Int
  BY BufferChunkAssumption DEF SendBuffer, Offset
<1>3. s1 \in Wide
  BY <1>2
<1> HIDE DEF s1
<1>4. s2 \in Wide
  BY <1>2, <1>3
<1> HIDE DEF s2
<1>5. s3 \in Wide
  BY <1>2, <1>4
<1>6. /\ OnWrite(s, n).front_ = s.front_ /\ OnWrite(s, n).capacity_ = s.capacity_
      /\ OnWrite(s, n).rear_ = s.rear_ + n /\ OnWrite(s, n).length_ = s.length_ + n
      /\ OnWrite(s, n).space_ = s.space_ - n /\ OnWrite(s, n).buffer_ = s.buffer_
      /\ OnWrite(s, n).owner_ = s.owner_ /\ OnWrite(s, n).is_open_ = s.is_open_
  BY <1>2 DEF OnWrite
<1>7. /\ s.rear_ \in Nat /\ s.capacity_ \in Nat /\ s.capacity_ <= recv_size /\ recv_size \in Nat
      /\ s.length_ = s.rear_ /\ s.space_ = s.capacity_ - s.rear_
  BY BufferChunkAssumption DEF SendBuffer, Offset, StreamOK
<1>8. s.rear_ + n <= s.capacity_
  BY <1>7
<1> HIDE DEF s3
<1>9. /\ s3.front_ \in Offset /\ s3.rear_ \in Offset /\ s3.capacity_ \in Offset
      /\ s3.length_ \in Offset /\ s3.space_ \in Offset
  BY <1>1, <1>6, <1>7, <1>8 DEF Offset
<1>10. s3 \in SendBuffer
  BY <1>5, <1>9 DEF SendBuffer
<1>11. StreamOK(OnWrite(s, n))
  BY <1>6, <1>7, <1>8 DEF StreamOK
<1> QED BY <1>1, <1>6, <1>7, <1>8, <1>10, <1>11

\* What is read of the message is what the session has received there.
LEMMA SegmentRead ==
    ASSUME IInv, NEW x \in Sessions, receiving[x] # "closed", NEW done \in Nat, NEW n \in Nat,
           done + n <= recv_buffer_[x].length_
    PROVE  /\ SubSeq(GetDataSegment(recv_buffer_[x], data[x]), done + 1, done + n)
                  \in [1 .. n -> Content]
           /\ \A i \in 1 .. n :
                 SubSeq(GetDataSegment(recv_buffer_[x], data[x]), done + 1, done + n)[i]
                     = Byte(x, processed[x] + done + i)
<1> DEFINE s == recv_buffer_[x]
           seg == GetDataSegment(s, data[x])
<1>0. PICK bytes : bytes = SubSeq(seg, done + 1, done + n)
  OBVIOUS
<1>1. s.length_ \in Nat /\ processed[x] \in Nat
  BY BufferChunkAssumption DEF IInv, TypeOK, RecvBuffer, Offset
<1>2. \A i \in 1 .. s.length_ : data[x][s.front_ + i - 1] = Byte(x, processed[x] + i)
  BY DEF IInv, UnreadBytesKept
<1>3. \A i \in 1 .. s.length_ : seg[i] = Byte(x, processed[x] + i)
  BY <1>2 DEF GetDataSegment
<1> HIDE DEF seg
<1>4. ASSUME NEW i \in done + 1 .. done + n
      PROVE  seg[i] = Byte(x, processed[x] + i) /\ seg[i] \in Content
  <2>1. i \in 1 .. s.length_ /\ processed[x] + i \in Nat
    BY <1>1
  <2>2. Byte(x, processed[x] + i) \in Content
    BY <2>1 DEF Byte, Content
  <2> QED BY <1>3, <2>1, <2>2
<1>5. /\ bytes \in Seq(Content) /\ Len(bytes) = IF done + 1 <= done + n THEN (done + n) - (done + 1) + 1 ELSE 0
      /\ \A i \in 1 .. (done + n) - (done + 1) + 1 : bytes[i] = seg[(done + 1) + i - 1]
  <2>1. \A i \in done + 1 .. done + n : seg[i] \in Content
    BY <1>4
  <2>2. done + 1 \in Int /\ done + n \in Int
    OBVIOUS
  <2> QED BY <1>0, <2>1, <2>2, SubSeqProperties
<1>6. Len(bytes) = n /\ (done + n) - (done + 1) + 1 = n
  BY <1>5
<1>7. bytes \in [1 .. n -> Content]
  BY <1>5, <1>6
<1>8. ASSUME NEW i \in 1 .. n
      PROVE  bytes[i] = Byte(x, processed[x] + done + i)
  <2>1. /\ (done + 1) + i - 1 = done + i /\ done + i \in done + 1 .. done + n
        /\ processed[x] + (done + i) = processed[x] + done + i
    BY <1>1
  <2> QED BY <1>4, <1>5, <1>6, <2>1
<1> QED BY ONLY <1>0, <1>7, <1>8 DEF seg, s

\* What is written follows what the SendBuffer holds, and lies behind all
\* that the other SendBuffers of the chunk hold.
LEMMA WriteInv ==
    ASSUME IInv, NEW t \in Threads, NEW n \in 1 .. recv_size, Write(t, n)
    PROVE  IInv'
<1>a. PICK x, c : x = session[t] /\ c = L_buffer_chunk[t]
  OBVIOUS
<1>b. PICK b \in SendBuffers :
        LET s == send_buffers[b]
            done == Len(sent[b])
            bytes == SubSeq(GetDataSegment(recv_buffer_[x], data[x]), done + 1, done + n)
            added == [i \in 1 .. n |-> Byte(x, processed[x] + done + i)]
        IN /\ IsOpen(t, b) /\ done + n <= count[t] /\ CanWrite(s, n)
           /\ chunk' = [chunk EXCEPT ![c] = CopyTo(chunk[c], s.buffer_, s, bytes)]
           /\ send_buffers' = [send_buffers EXCEPT ![b] = OnWrite(s, n)]
           /\ sent' = [sent EXCEPT ![b] = sent[b] \o added]
  BY <1>a DEF Write
<1>c. PICK s, done : s = send_buffers[b] /\ done = Len(sent[b])
  OBVIOUS
<1>d. PICK bytes, added :
        /\ bytes = SubSeq(GetDataSegment(recv_buffer_[x], data[x]), done + 1, done + n)
        /\ added = [i \in 1 .. n |-> Byte(x, processed[x] + done + i)]
  OBVIOUS
<1>0. /\ x = session[t] /\ c = L_buffer_chunk[t] /\ s = send_buffers[b] /\ done = Len(sent[b])
      /\ IsOpen(t, b) /\ done + n <= count[t] /\ CanWrite(s, n)
      /\ chunk' = [chunk EXCEPT ![c] = CopyTo(chunk[c], s.buffer_, s, bytes)]
      /\ send_buffers' = [send_buffers EXCEPT ![b] = OnWrite(s, n)]
      /\ sent' = [sent EXCEPT ![b] = sent[b] \o added]
  BY ONLY <1>a, <1>b, <1>c, <1>d
<1>1. /\ pc[t] = "write"
      /\ UNCHANGED <<made, buffer_chunk_list_, L_buffer_chunk, used_size_>>
      /\ UNCHANGED <<receive, pc, session, count, size, freed>>
  BY DEF Write, locals
<1>2. /\ s \in SendBuffer /\ StreamOK(s) /\ s.is_open_ /\ s.owner_ = c /\ n <= s.space_
      /\ n \in Nat
  BY <1>0 DEF IInv, TypeOK, IsOpen, CanWrite
<1>3. StreamInv
  BY DEF IInv
<1>4. /\ s.front_ = 0 /\ done = s.rear_ /\ c # None
      /\ s.buffer_ = used_size_[c] /\ s.buffer_ + s.capacity_ <= BUFFER_CHUNK_SIZE
      /\ \A d \in SendBuffers : (send_buffers[d].is_open_ /\ send_buffers[d].owner_ = c) => d = b
  BY <1>0, <1>2, <1>3 DEF StreamInv
<1>5. /\ OnWrite(s, n) \in SendBuffer /\ StreamOK(OnWrite(s, n))
      /\ OnWrite(s, n).front_ = 0 /\ OnWrite(s, n).rear_ = s.rear_ + n
      /\ OnWrite(s, n).capacity_ = s.capacity_ /\ OnWrite(s, n).buffer_ = s.buffer_
      /\ OnWrite(s, n).owner_ = s.owner_ /\ OnWrite(s, n).is_open_ = s.is_open_
      /\ s.rear_ \in Nat /\ s.capacity_ \in Nat /\ s.rear_ + n <= s.capacity_
  BY <1>2, <1>4, OnWriteSend
<1>6. /\ x \in Sessions /\ receiving[x] # "closed" /\ done + n <= recv_buffer_[x].length_
      /\ done \in Nat /\ processed[x] \in Nat
  <2>1. /\ x \in Sessions /\ receiving[x] # "closed"
        /\ count[t] \in Nat /\ count[t] <= recv_buffer_[x].length_
    BY <1>0, <1>1, InHandler
  <2>2. recv_buffer_[x].length_ \in Nat /\ processed[x] \in Nat
    BY <2>1, BufferChunkAssumption DEF IInv, TypeOK, RecvBuffer, Offset
  <2> QED BY <1>0, <1>2, <1>4, <1>5, <2>1, <2>2
<1>7. bytes \in [1 .. n -> Content] /\ \A i \in 1 .. n : bytes[i] = added[i]
  <2>1. /\ bytes \in [1 .. n -> Content]
        /\ \A i \in 1 .. n : bytes[i] = Byte(x, processed[x] + done + i)
    BY <1>2, <1>6, <1>d, SegmentRead
  <2> QED BY <1>d, <2>1
<1>8. added \in Seq(Content) /\ Len(added) = n
  <2>1. \A i \in 1 .. n : added[i] \in Content
    BY <1>7
  <2>2. Len(added) = n
    BY <1>d, <1>2
  <2> QED BY <1>d, <1>2, <2>1, <2>2
<1>9. c \in Chunks /\ BUFFER_CHUNK_SIZE \in Nat /\ s.buffer_ \in Nat
      /\ chunk[c] \in [0 .. BUFFER_CHUNK_SIZE - 1 -> Content]
  <2>1. c \in Chunks
    BY <1>0, <1>4, RealChunks DEF IInv, TypeOK
  <2>2. s.buffer_ \in 0 .. BUFFER_CHUNK_SIZE
    BY <1>2 DEF SendBuffer
  <2>3. chunk[c] \in [0 .. BUFFER_CHUNK_SIZE - 1 -> Content]
    BY <2>1 DEF IInv, TypeOK
  <2>4. BUFFER_CHUNK_SIZE \in Nat
    BY RealChunks
  <2> QED BY <2>1, <2>2, <2>3, <2>4
<1>e. /\ s.buffer_ \in Nat /\ s.rear_ \in Nat /\ s.capacity_ \in Nat /\ n \in Nat
      /\ BUFFER_CHUNK_SIZE \in Nat /\ done = s.rear_ /\ s.rear_ + n <= s.capacity_
      /\ s.buffer_ + s.capacity_ <= BUFFER_CHUNK_SIZE
  BY <1>2, <1>4, <1>5, <1>9
<1>10. Copied(CopyTo(chunk[c], s.buffer_, s, bytes), chunk[c], BUFFER_CHUNK_SIZE, s.buffer_,
              s.rear_, n, bytes)
  <2>1. s.buffer_ + s.rear_ + n <= BUFFER_CHUNK_SIZE
    BY <1>2, <1>4, <1>5, <1>9
  <2>2. s.rear_ \in Nat /\ n \in Nat
    BY <1>2, <1>5
  <2> QED BY ONLY <1>7, <1>9, <2>1, <2>2, CopyToCopies
<1>11. /\ chunk'[c] = CopyTo(chunk[c], s.buffer_, s, bytes)
       /\ \A d \in Chunks : d # c => chunk'[d] = chunk[d]
       /\ send_buffers'[b] = OnWrite(s, n)
       /\ \A d \in SendBuffers : d # b => send_buffers'[d] = send_buffers[d]
       /\ sent'[b] = sent[b] \o added
       /\ \A d \in SendBuffers : d # b => sent'[d] = sent[d]
  BY <1>0, <1>9 DEF IInv, TypeOK
<1>12. /\ sent'[b] \in Seq(Content) /\ Len(sent'[b]) = done + n
       /\ \A i \in 1 .. done + n :
              sent'[b][i] = IF i <= done THEN sent[b][i] ELSE added[i - done]
  <2>1. sent[b] \in Seq(Content) /\ Len(sent[b]) = done
    BY <1>0 DEF IInv, TypeOK
  <2>2. /\ sent[b] \o added \in Seq(Content)
        /\ Len(sent[b] \o added) = Len(sent[b]) + Len(added)
        /\ \A i \in 1 .. Len(sent[b]) + Len(added) : (sent[b] \o added)[i] =
               IF i <= Len(sent[b]) THEN sent[b][i] ELSE added[i - Len(sent[b])]
    BY ONLY <1>8, <2>1, ConcatProperties
  <2> QED BY ONLY <1>8, <1>11, <2>1, <2>2
<1>13. TypeOK'
  <2>1. SendBuffer' = SendBuffer
    BY <1>1 DEF SendBuffer
  <2>2. send_buffers' \in [SendBuffers -> SendBuffer]
    BY <1>0, <1>5 DEF IInv, TypeOK
  <2>3. \A d \in SendBuffers : StreamOK(send_buffers'[d])
    BY <1>5, <1>11 DEF IInv, TypeOK
  <2>4. chunk' \in [Chunks -> [0 .. BUFFER_CHUNK_SIZE - 1 -> Content]]
    <3>1. CopyTo(chunk[c], s.buffer_, s, bytes) \in [0 .. BUFFER_CHUNK_SIZE - 1 -> Content]
      BY <1>10 DEF Copied
    <3> QED BY <1>0, <3>1 DEF IInv, TypeOK
  <2>5. sent' \in [SendBuffers -> Seq(Content)]
    <3>1. sent[b] \o added \in Seq(Content)
      BY <1>11, <1>12
    <3> QED BY <1>0, <3>1 DEF IInv, TypeOK
  <2> QED BY <1>1, <2>1, <2>2, <2>3, <2>4, <2>5 DEF IInv, TypeOK, receive
<1>14. HandlerInv' /\ RecvInv' /\ UnreadBytesKept'
  BY <1>1, ReceiveQuiet DEF IInv, HandlerInv
<1>15. OwnInv'
  BY <1>1, OwnQuiet DEF Chosen
<1>16. PlaceInv'
  <2>1. \A d \in SendBuffers : send_buffers'[d].owner_ = send_buffers[d].owner_
    BY <1>0, <1>5, <1>11
  <2>2. /\ \A d : (Listed(d)' <=> Listed(d)) /\ (Moving(d)' <=> Moving(d))
        /\ \A d : Referenced(d)' <=> Referenced(d)
    BY <1>1, <2>1 DEF Listed, Moving, Referenced
  <2> QED BY <1>1, <2>2 DEF IInv, PlaceInv
<1>17. StreamInv'
  <2>1. ASSUME NEW d \in SendBuffers
        PROVE  /\ send_buffers'[d].owner_ = send_buffers[d].owner_
               /\ send_buffers'[d].is_open_ = send_buffers[d].is_open_
               /\ send_buffers'[d].front_ = send_buffers[d].front_
               /\ send_buffers'[d].buffer_ = send_buffers[d].buffer_
               /\ send_buffers'[d].capacity_ = send_buffers[d].capacity_
               /\ Len(sent'[d]) = send_buffers'[d].rear_
               /\ ~send_buffers[d].is_open_ => send_buffers'[d].rear_ = send_buffers[d].rear_
    <3>1. CASE d = b
      BY <1>0, <1>2, <1>4, <1>5, <1>11, <1>12, <3>1, ZenonT(60)
    <3>2. CASE d # b
      BY <1>3, <1>11, <3>2 DEF StreamInv
    <3> QED BY <3>1, <3>2
  <2> QED BY <1>1, <1>2, <1>3, <1>4, <2>1 DEF StreamInv
<1>18. SentBytesKept'
  <2>0. SentBytesKept
    BY DEF IInv
  <2>1. ASSUME NEW d \in SendBuffers, send_buffers'[d].owner_ # None, NEW i \in 1 .. Len(sent'[d])
        PROVE  chunk'[send_buffers'[d].owner_][send_buffers'[d].buffer_ + i - 1] = sent'[d][i]
    <3>1. CASE d = b /\ i <= done
      <4>1. i \in 1 .. done /\ s.buffer_ + i - 1 \in 0 .. BUFFER_CHUNK_SIZE - 1
            /\ s.buffer_ + i - 1 < s.buffer_ + s.rear_
        BY ONLY <1>e, <2>1, <3>1, SMTT(30)
      <4>2. chunk[c][s.buffer_ + i - 1] = sent[b][i]
        <5>1. \A k \in 1 .. done : chunk[c][s.buffer_ + k - 1] = sent[b][k]
          <6>1. s.owner_ # None => \A k \in 1 .. Len(sent[b]) :
                    chunk[s.owner_][s.buffer_ + k - 1] = sent[b][k]
            BY <1>c, <2>0 DEF SentBytesKept, InUse
          <6> QED BY ONLY <1>c, <1>2, <1>4, <6>1
        <5> QED BY ONLY <4>1, <5>1
      <4>3. chunk'[c][s.buffer_ + i - 1] = chunk[c][s.buffer_ + i - 1]
        BY <1>10, <1>11, <4>1 DEF Copied
      <4>4. sent'[b][i] = sent[b][i]
        BY <1>12, <2>1, <3>1
      <4> QED BY <1>2, <1>5, <1>11, <3>1, <4>2, <4>3, <4>4, SMTT(30)
    <3>2. CASE d = b /\ ~(i <= done)
      <4>1. PICK j \in 1 .. n : i = done + j
        <5>1. i - done \in 1 .. n /\ i = done + (i - done)
          BY <1>6, <1>12, <2>1, <3>2
        <5> QED BY <5>1
      <4>2. s.buffer_ + i - 1 = s.buffer_ + s.rear_ + j - 1 /\ i - done = j
        BY ONLY <1>e, <4>1, j \in 1 .. n
      <4>3. chunk'[c][s.buffer_ + s.rear_ + j - 1] = bytes[j]
        BY <1>10, <1>11 DEF Copied
      <4>4. sent'[b][i] = added[j]
        BY <1>12, <2>1, <3>2, <4>2
      <4> QED BY <1>2, <1>5, <1>7, <1>11, <3>2, <4>2, <4>3, <4>4, SMTT(30)
    <3>3. CASE d # b
      <4> DEFINE e == send_buffers[d]
      <4>1. /\ send_buffers'[d] = e /\ sent'[d] = sent[d] /\ e.owner_ # None
            /\ i \in 1 .. Len(sent[d])
        BY <1>11, <2>1, <3>3
      <4>2. chunk[e.owner_][e.buffer_ + i - 1] = sent[d][i]
        BY <2>0, <4>1 DEF SentBytesKept, InUse
      <4>3. CASE e.owner_ = c
        <5>1. e.buffer_ \in Nat /\ e.rear_ \in Nat /\ Len(sent[d]) = e.rear_ /\ e.is_open_ \in BOOLEAN
          <6>1. e \in SendBuffer
            BY DEF IInv, TypeOK
          <6>2. Len(sent[d]) = e.rear_
            BY <1>3 DEF StreamInv
          <6> HIDE DEF e
          <6> QED BY <6>1, <6>2, BufferChunkAssumption DEF SendBuffer, Offset
        <5>2. e.buffer_ + e.rear_ <= s.buffer_
          BY <1>3, <1>4, <3>3, <4>1, <4>3, <5>1 DEF StreamInv
        <5>3. e.buffer_ + i - 1 \in 0 .. BUFFER_CHUNK_SIZE - 1 /\ e.buffer_ + i - 1 < s.buffer_ + s.rear_
          <6>1. i \in Int /\ 1 <= i /\ i <= e.rear_
            BY <4>1, <5>1
          <6> HIDE DEF e
          <6>2. e.buffer_ \in Nat /\ e.rear_ \in Nat
            BY <5>1
          <6>3. e.buffer_ + i - 1 \in Nat /\ e.buffer_ + i - 1 < s.buffer_
            BY ONLY <1>e, <5>2, <6>1, <6>2, SMTT(30)
          <6> QED BY ONLY <1>e, <6>3, SMTT(30)
        <5>4. chunk'[c][e.buffer_ + i - 1] = chunk[c][e.buffer_ + i - 1]
          BY <1>10, <1>11, <5>3 DEF Copied
        <5> QED BY <4>1, <4>2, <4>3, <5>4
      <4>4. CASE e.owner_ # c
        <5>1. e.owner_ \in Chunks
          BY <4>1, RealChunks DEF IInv, TypeOK, SendBuffer
        <5> QED BY <1>11, <4>1, <4>2, <4>4, <5>1
      <4> QED BY <4>3, <4>4
    <3> QED BY <3>1, <3>2, <3>3
  <2> QED BY <2>1 DEF SentBytesKept, InUse
<1> QED BY <1>13, <1>14, <1>15, <1>16, <1>17, <1>18 DEF IInv

\* The used part of the chunk now ends where the data of the SendBuffer do.
LEMMA CloseInv ==
    ASSUME IInv, NEW t \in Threads, Close(t)
    PROVE  IInv'
<1>a. PICK c : c = L_buffer_chunk[t]
  OBVIOUS
<1>b. PICK b \in SendBuffers :
        /\ IsOpen(t, b)
        /\ send_buffers' = [send_buffers EXCEPT ![b].is_open_ = FALSE]
        /\ used_size_' = [used_size_ EXCEPT ![c] = @ + send_buffers[b].rear_]
  BY <1>a DEF Close, CloseChunk
<1>c. PICK s : s = send_buffers[b]
  OBVIOUS
<1>1. /\ pc[t] = "write" /\ pc' = [pc EXCEPT ![t] = "read"]
      /\ UNCHANGED <<receive, made, buffer_chunk_list_, L_buffer_chunk, chunk, sent, session,
                     count, size, freed>>
  BY DEF Close, Step
<1>2. s \in SendBuffer /\ StreamOK(s) /\ s.is_open_ /\ s.owner_ = c
  BY <1>a, <1>b, <1>c DEF IInv, TypeOK, IsOpen
<1>3. StreamInv
  BY DEF IInv
<1>4. /\ c # None /\ s.front_ = 0 /\ Len(sent[b]) = s.rear_
      /\ s.buffer_ = used_size_[c] /\ s.buffer_ + s.capacity_ <= BUFFER_CHUNK_SIZE
      /\ \A d \in SendBuffers : (send_buffers[d].is_open_ /\ send_buffers[d].owner_ = c) => d = b
  BY <1>2, <1>3, <1>c DEF StreamInv
<1>5. c \in Chunks /\ \A u \in Threads : L_buffer_chunk[u] = c => u = t
  BY <1>4, <1>a, RealChunks DEF IInv, TypeOK, OwnInv
<1>6. /\ s.buffer_ \in Nat /\ s.rear_ \in Nat /\ s.capacity_ \in Nat /\ s.rear_ <= s.capacity_
      /\ BUFFER_CHUNK_SIZE \in Nat /\ used_size_[c] \in Nat
      /\ used_size_[c] + s.rear_ \in 0 .. BUFFER_CHUNK_SIZE
      /\ used_size_[c] <= used_size_[c] + s.rear_
  <2>1. /\ s.buffer_ \in Nat /\ s.rear_ \in Nat /\ s.capacity_ \in Nat /\ s.rear_ <= s.capacity_
        /\ BUFFER_CHUNK_SIZE \in Nat
    BY <1>2, BufferChunkAssumption DEF SendBuffer, Offset, StreamOK
  <2> QED BY ONLY <1>4, <2>1
<1>7. /\ pc'[t] = "read" /\ \A u \in Threads : u # t => pc'[u] = pc[u]
      /\ used_size_'[c] = used_size_[c] + s.rear_
      /\ \A d \in Chunks : d # c => used_size_'[d] = used_size_[d]
  BY <1>1, <1>5, <1>b, <1>c DEF IInv, TypeOK
<1>8. /\ send_buffers' = [send_buffers EXCEPT ![b] = [s EXCEPT !.is_open_ = FALSE]]
      /\ send_buffers \in [SendBuffers -> SendBuffer]
  BY <1>b, <1>c DEF IInv, TypeOK
<1>9. /\ [s EXCEPT !.is_open_ = FALSE] \in SendBuffer /\ StreamOK([s EXCEPT !.is_open_ = FALSE])
      /\ [s EXCEPT !.is_open_ = FALSE].is_open_ = FALSE
      /\ [s EXCEPT !.is_open_ = FALSE].owner_ = c
      /\ [s EXCEPT !.is_open_ = FALSE].front_ = s.front_
      /\ [s EXCEPT !.is_open_ = FALSE].rear_ = s.rear_
      /\ [s EXCEPT !.is_open_ = FALSE].buffer_ = s.buffer_
  BY <1>2 DEF SendBuffer, StreamOK
<1>10. /\ send_buffers'[b] = [s EXCEPT !.is_open_ = FALSE]
       /\ \A d \in SendBuffers : d # b => send_buffers'[d] = send_buffers[d]
  BY <1>8
<1>11. \A d \in SendBuffers : /\ send_buffers'[d].owner_ = send_buffers[d].owner_
                              /\ send_buffers'[d].buffer_ = send_buffers[d].buffer_
  BY <1>2, <1>9, <1>10, <1>c
<1>12. TypeOK'
  <2>1. SendBuffer' = SendBuffer
    BY <1>1 DEF SendBuffer
  <2>2. send_buffers' \in [SendBuffers -> SendBuffer]
    BY ONLY <1>8, <1>9
  <2>3. \A d \in SendBuffers : StreamOK(send_buffers'[d])
    BY <1>9, <1>10 DEF IInv, TypeOK
  <2>4. used_size_' \in [Chunks -> 0 .. BUFFER_CHUNK_SIZE]
    BY <1>6, <1>b, <1>c DEF IInv, TypeOK
  <2>5. pc' \in [Threads -> {"idle", "recv", "pop", "push", "open", "write", "read"}]
    BY <1>1 DEF IInv, TypeOK
  <2> QED BY <1>1, <2>1, <2>2, <2>3, <2>4, <2>5 DEF IInv, TypeOK, receive
<1>13. HandlerInv' /\ RecvInv' /\ UnreadBytesKept'
  <2>1. session[t] # None
    BY <1>1, InHandler
  <2> QED BY <1>1, <1>7, <2>1, ReceiveQuiet DEF IInv, HandlerInv
<1>14. OwnInv'
  <2>1. ASSUME NEW u \in Threads
        PROVE  /\ Chosen(u)' => Chosen(u) /\ u # t
               /\ (Chosen(u)' \/ pc'[u] = "write") => (Chosen(u) \/ pc[u] = "write")
    BY <1>1, <1>7 DEF Chosen
  <2>2. ASSUME NEW u \in Threads, u # t, L_buffer_chunk[u] # None
        PROVE  used_size_'[L_buffer_chunk[u]] = used_size_[L_buffer_chunk[u]]
    <3>1. L_buffer_chunk[u] \in Chunks /\ L_buffer_chunk[u] # c
      BY <1>5, <2>2, RealChunks DEF IInv, TypeOK
    <3> QED BY <1>7, <3>1
  <2> QED BY <1>1, <2>1, <2>2 DEF IInv, OwnInv
<1>15. PlaceInv'
  <2>1. /\ \A d : (Listed(d)' <=> Listed(d)) /\ (Moving(d)' <=> Moving(d))
        /\ \A d : Referenced(d)' <=> Referenced(d)
    BY <1>1, <1>11 DEF Listed, Moving, Referenced
  <2>2. \A u \in Threads : pc'[u] = "push" <=> pc[u] = "push"
    BY <1>1, <1>7
  <2> QED BY <1>1, <2>1, <2>2 DEF IInv, PlaceInv
<1>16. StreamInv'
  <2>1. ASSUME NEW d \in SendBuffers, d # b, send_buffers[d].is_open_
        PROVE  LET e == send_buffers[d].owner_ IN
               /\ used_size_'[e] = used_size_[e]
               /\ \E u \in Threads : pc'[u] = "write" /\ L_buffer_chunk'[u] = e
    <3> DEFINE e == send_buffers[d].owner_
    <3>1. e # c /\ e # None
      BY <1>3, <1>4, <2>1 DEF StreamInv
    <3>2. e \in Chunks
      BY <3>1, RealChunks DEF IInv, TypeOK, SendBuffer
    <3>3. PICK u \in Threads : pc[u] = "write" /\ L_buffer_chunk[u] = e
      BY <1>3, <2>1 DEF StreamInv
    <3>4. u # t
      BY <1>a, <3>1, <3>3
    <3> QED BY <1>1, <1>7, <3>1, <3>2, <3>3, <3>4
  <2>2. ASSUME NEW d \in SendBuffers, d # b, ~send_buffers[d].is_open_, send_buffers[d].owner_ # None
        PROVE  send_buffers[d].buffer_ + send_buffers[d].rear_ <= used_size_'[send_buffers[d].owner_]
    <3> DEFINE e == send_buffers[d]
    <3>1. e \in SendBuffer /\ e.owner_ \in Chunks
      BY <2>2, RealChunks DEF IInv, TypeOK, SendBuffer
    <3>2. e.buffer_ + e.rear_ <= used_size_[e.owner_]
      BY <1>3, <2>2 DEF StreamInv
    <3>3. e.buffer_ \in Nat /\ e.rear_ \in Nat
      BY <3>1, BufferChunkAssumption DEF SendBuffer, Offset
    <3> HIDE DEF e
    <3>4. CASE e.owner_ = c
      <4>1. e.buffer_ + e.rear_ <= used_size_[c]
        BY <3>2, <3>4
      <4>2. e.buffer_ + e.rear_ <= used_size_[c] + s.rear_
        BY ONLY <1>6, <3>3, <4>1
      <4> QED BY <1>7, <3>4, <4>2 DEF e
    <3>5. CASE e.owner_ # c
      BY <1>7, <3>1, <3>2, <3>5 DEF e
    <3> QED BY <3>4, <3>5
  <2>3. ASSUME NEW d \in SendBuffers
        PROVE  LET r == send_buffers'[d]  e == r.owner_ IN
          /\ r.front_ = 0 /\ Len(sent'[d]) = r.rear_
          /\ e = None => ~r.is_open_ /\ r.rear_ = 0
          /\ r.is_open_ =>
               /\ r.buffer_ = used_size_'[e] /\ r.buffer_ + r.capacity_ <= BUFFER_CHUNK_SIZE
               /\ \E u \in Threads : pc'[u] = "write" /\ L_buffer_chunk'[u] = e
               /\ \A g \in SendBuffers :
                      (send_buffers'[g].is_open_ /\ send_buffers'[g].owner_ = e) => g = d
          /\ (e # None /\ ~r.is_open_) => r.buffer_ + r.rear_ <= used_size_'[e]
    <3>1. CASE d = b
      <4>1. s.buffer_ + s.rear_ <= used_size_'[c]
        BY <1>4, <1>6, <1>7
      <4> QED BY <1>1, <1>4, <1>9, <1>10, <3>1, <4>1
    <3>2. CASE d # b
      <4>1. send_buffers'[d] = send_buffers[d]
        BY <1>10, <3>2
      <4>2. ASSUME send_buffers[d].is_open_, NEW g \in SendBuffers,
                   send_buffers'[g].is_open_, send_buffers'[g].owner_ = send_buffers[d].owner_
            PROVE  g = d
        <5>1. g # b
          BY <1>9, <1>10, <4>2
        <5> QED BY <1>3, <1>10, <4>2, <5>1 DEF StreamInv
      <4>3. sent' = sent
        BY <1>1
      <4> QED BY <1>3, <2>1, <2>2, <3>2, <4>1, <4>2, <4>3 DEF StreamInv
    <3> QED BY <3>1, <3>2
  <2> QED BY <2>3 DEF StreamInv
<1>17. SentBytesKept'
  BY <1>1, <1>11 DEF IInv, SentBytesKept, InUse
<1> QED BY <1>12, <1>13, <1>14, <1>15, <1>16, <1>17 DEF IInv

\* One that is not in use.
LEMMA ClosedMade ==
    /\ Closed \in SendBuffer /\ StreamOK(Closed)
    /\ Closed.front_ = 0 /\ Closed.rear_ = 0 /\ Closed.owner_ = None
    /\ Closed.is_open_ = FALSE
<1> DEFINE o == Opened(0, 0, None)
<1>1. Closed = [o EXCEPT !.is_open_ = FALSE]
  BY DEF Closed
<1>2. o \in SendBuffer /\ o.front_ = 0 /\ o.rear_ = 0 /\ o.owner_ = None
      /\ o.length_ = 0 /\ o.space_ = 0 /\ o.capacity_ = 0
  BY BufferChunkAssumption DEF Opened, SendBuffer, Offset
<1> HIDE DEF o
<1>3. Closed \in SendBuffer
  BY <1>1, <1>2 DEF SendBuffer
<1>4. /\ Closed.front_ = 0 /\ Closed.rear_ = 0 /\ Closed.owner_ = None
      /\ Closed.length_ = 0 /\ Closed.space_ = 0 /\ Closed.capacity_ = 0
      /\ Closed.is_open_ = FALSE
  BY <1>1, <1>2 DEF SendBuffer
<1> QED BY <1>3, <1>4 DEF StreamOK

\* The chunk of the SendBuffer is pushed with the last reference to it.
LEMMA DestroyInv ==
    ASSUME IInv, NEW t \in Threads, NEW b \in SendBuffers, Destroy(t, b)
    PROVE  IInv'
<1>0. PICK c : c = send_buffers[b].owner_
  OBVIOUS
<1> DEFINE kept == c \in References(L_buffer_chunk, send_buffers')
<1>1. /\ pc[t] = "idle" /\ InUse(b) /\ ~send_buffers[b].is_open_
      /\ send_buffers' = [send_buffers EXCEPT ![b] = Closed]
      /\ sent' = [sent EXCEPT ![b] = <<>>]
      /\ UNCHANGED <<receive, chunks, session, count, size>>
  BY DEF Destroy
<1>2. UNCHANGED <<made, buffer_chunk_list_, L_buffer_chunk, used_size_, chunk>>
  BY <1>1 DEF chunks
<1>3. /\ session[t] = None /\ freed[t] = None
      /\ c # None /\ c \in made
  BY <1>0, <1>1 DEF IInv, TypeOK, HandlerInv, PlaceInv, InUse, SendBuffer
<1>4. /\ pc'[t] = (IF kept THEN "idle" ELSE "push")
      /\ freed'[t] = (IF kept THEN None ELSE c)
      /\ \A u \in Threads : u # t => pc'[u] = pc[u] /\ freed'[u] = freed[u]
      /\ pc' \in [Threads -> {"idle", "recv", "pop", "push", "open", "write", "read"}]
      /\ freed' \in [Threads -> made \cup {None}]
  <2>1. IF kept THEN UNCHANGED <<pc, freed>>
        ELSE Step(t, "idle", "push") /\ freed' = [freed EXCEPT ![t] = c]
    BY <1>0 DEF Destroy
  <2>2. /\ pc \in [Threads -> {"idle", "recv", "pop", "push", "open", "write", "read"}]
        /\ freed \in [Threads -> made \cup {None}]
    BY DEF IInv, TypeOK
  <2> HIDE DEF kept
  <2> QED BY <1>1, <1>3, <2>1, <2>2 DEF Step
<1>5. /\ send_buffers'[b] = Closed /\ sent'[b] = <<>>
      /\ \A d \in SendBuffers : d # b => /\ send_buffers'[d] = send_buffers[d]
                                         /\ sent'[d] = sent[d]
  BY <1>1 DEF IInv, TypeOK
<1>6. /\ Closed \in SendBuffer /\ StreamOK(Closed)
      /\ Closed.front_ = 0 /\ Closed.rear_ = 0 /\ Closed.owner_ = None
      /\ Closed.is_open_ = FALSE
  BY ClosedMade
<1>7. kept <=> Referenced(c)'
  <2>1. kept <=> \/ \E u \in Threads : L_buffer_chunk[u] = c
                 \/ \E d \in SendBuffers : send_buffers'[d].owner_ = c
    BY DEF References
  <2> HIDE DEF kept
  <2> QED BY <1>2, <2>1 DEF Referenced
<1> HIDE DEF kept
<1>8. TypeOK'
  <2>1. SendBuffer' = SendBuffer
    BY <1>2 DEF SendBuffer
  <2>2. send_buffers' \in [SendBuffers -> SendBuffer]
    BY <1>1, <1>6 DEF IInv, TypeOK
  <2>3. \A d \in SendBuffers : StreamOK(send_buffers'[d])
    BY <1>5, <1>6 DEF IInv, TypeOK
  <2>4. sent' \in [SendBuffers -> Seq(Content)]
    <3>1. sent \in [SendBuffers -> Seq(Content)] /\ <<>> \in Seq(Content)
      BY DEF IInv, TypeOK
    <3> QED BY <1>1, <3>1
  <2> QED BY <1>1, <1>2, <1>4, <2>1, <2>2, <2>3, <2>4 DEF IInv, TypeOK, receive
<1>9. HandlerInv' /\ RecvInv' /\ UnreadBytesKept'
  <2>1. ASSUME NEW u \in Threads
        PROVE  /\ pc'[u] = "idle" => session[u] = None
               /\ pc'[u] \notin {"idle", "push"} => session[u] # None
    BY <1>3, <1>4 DEF IInv, HandlerInv
  <2> QED BY <1>1, <2>1, ReceiveQuiet
<1>10. OwnInv'
  <2>1. ASSUME NEW u \in Threads
        PROVE  (Chosen(u)' => Chosen(u)) /\ (pc'[u] = "write" => pc[u] = "write")
    BY <1>1, <1>3, <1>4 DEF Chosen
  <2> QED BY <1>1, <1>2, <2>1, OwnQuiet
<1>11. PlaceInv'
  <2>0. PlaceInv
    BY DEF IInv
  <2>1. \A d : Listed(d)' <=> Listed(d)
    BY <1>2 DEF Listed
  <2>2. Referenced(c) /\ ~Listed(c) /\ ~Moving(c)
    BY <1>0, <1>3, <2>0 DEF Referenced, PlaceInv
  <2>3. \A d : d \notin {c, None} => (Referenced(d)' <=> Referenced(d))
    <3>1. \A d \in SendBuffers : \A e : e \notin {c, None} =>
              (send_buffers'[d].owner_ = e <=> send_buffers[d].owner_ = e)
      BY <1>0, <1>5, <1>6
    <3> QED BY <1>2, <3>1 DEF Referenced
  <2>4. \A d : d \notin {c, None} => (Moving(d)' <=> Moving(d))
    BY <1>3, <1>4 DEF Moving
  <2>5. kept => ~Moving(c)'
    BY <1>3, <1>4, <2>2 DEF Moving
  <2>6. ~kept => Moving(c)'
    BY <1>4 DEF Moving
  <2>7. \A u \in Threads : freed'[u] # None <=> pc'[u] = "push"
    BY <1>3, <1>4, <2>0 DEF PlaceInv
  <2>8. \A u, v \in Threads : (freed'[u] = freed'[v] /\ freed'[u] # None) => u = v
    BY <1>4, <2>0, <2>2 DEF PlaceInv, Moving
  <2>9. ASSUME NEW d \in made
        PROVE  /\ Listed(d)' \/ Moving(d)' \/ Referenced(d)'
               /\ ~(Listed(d)' /\ Moving(d)')
               /\ Referenced(d)' => ~Listed(d)' /\ ~Moving(d)'
    <3>1. CASE d = c
      BY <1>7, <2>1, <2>2, <2>5, <2>6, <3>1
    <3>2. CASE d # c
      <4>1. d # None
        BY RealChunks
      <4> QED BY <2>0, <2>1, <2>3, <2>4, <3>2, <4>1 DEF PlaceInv
    <3> QED BY <3>1, <3>2
  <2> QED BY <1>2, <2>0, <2>7, <2>8, <2>9 DEF PlaceInv
<1>12. StreamInv'
  <2>1. \A u \in Threads : pc[u] = "write" => pc'[u] = "write"
    BY <1>1, <1>4
  <2>2. StreamInv
    BY DEF IInv
  <2>3. ASSUME NEW d \in SendBuffers
        PROVE  LET r == send_buffers'[d]  e == r.owner_ IN
          /\ r.front_ = 0 /\ Len(sent'[d]) = r.rear_
          /\ e = None => ~r.is_open_ /\ r.rear_ = 0
          /\ r.is_open_ =>
               /\ r.buffer_ = used_size_'[e] /\ r.buffer_ + r.capacity_ <= BUFFER_CHUNK_SIZE
               /\ \E u \in Threads : pc'[u] = "write" /\ L_buffer_chunk'[u] = e
               /\ \A g \in SendBuffers :
                      (send_buffers'[g].is_open_ /\ send_buffers'[g].owner_ = e) => g = d
          /\ (e # None /\ ~r.is_open_) => r.buffer_ + r.rear_ <= used_size_'[e]
    <3>1. CASE d = b
      BY <1>5, <1>6, <3>1
    <3>2. CASE d # b
      <4>1. send_buffers'[d] = send_buffers[d] /\ sent'[d] = sent[d]
        BY <1>5, <3>2
      <4>2. \A g \in SendBuffers : send_buffers'[g].is_open_ =>
                send_buffers'[g] = send_buffers[g]
        BY <1>5, <1>6
      <4> QED BY <1>2, <2>1, <2>2, <4>1, <4>2 DEF StreamInv
    <3> QED BY <3>1, <3>2
  <2> QED BY <2>3 DEF StreamInv
<1>13. SentBytesKept'
  BY <1>2, <1>5, <1>6 DEF IInv, SentBytesKept, InUse
<1> QED BY <1>8, <1>9, <1>10, <1>11, <1>12, <1>13 DEF IInv

-----------------------------------------------------------------------------
(***************************************************************************)
(* The theorems.                                                           *)
(***************************************************************************)

LEMMA InitInv == Init => IInv
<1> SUFFICES ASSUME Init PROVE IInv
  OBVIOUS
<1> USE BufferChunkAssumption DEF Init
<1>1. SetBuffer(0, recv_size) \in RecvBuffer /\ StreamOK(SetBuffer(0, recv_size))
      /\ SetBuffer(0, recv_size).length_ = 0 /\ SetBuffer(0, recv_size).front_ = 0
  BY DEF SetBuffer, RecvBuffer, StreamOK, Offset
<1>2. /\ Closed \in SendBuffer /\ StreamOK(Closed)
      /\ Closed.front_ = 0 /\ Closed.rear_ = 0 /\ Closed.owner_ = None
      /\ Closed.is_open_ = FALSE
  BY ClosedMade
<1>3. TypeOK
  <2>1. recv_buffer_ \in [Sessions -> RecvBuffer] /\ \A x \in Sessions : StreamOK(recv_buffer_[x])
    BY <1>1
  <2>2. send_buffers \in [SendBuffers -> SendBuffer] /\ \A b \in SendBuffers : StreamOK(send_buffers[b])
    BY <1>2
  <2>3. data \in [Sessions -> [0 .. recv_size - 1 -> Content]]
    BY DEF Content
  <2>4. chunk \in [Chunks -> [0 .. BUFFER_CHUNK_SIZE - 1 -> Content]]
    BY DEF Content
  <2>5. sent \in [SendBuffers -> Seq(Content)] /\ buffer_chunk_list_ \in Seq(made)
    BY DEF Content
  <2>6. /\ used_size_ \in [Chunks -> 0 .. BUFFER_CHUNK_SIZE]
        /\ received \in [Sessions -> Nat] /\ processed \in [Sessions -> Nat]
        /\ count \in [Threads -> 0 .. recv_size] /\ size \in [Threads -> 0 .. recv_size]
    OBVIOUS
  <2> QED BY <2>1, <2>2, <2>3, <2>4, <2>5, <2>6 DEF TypeOK
<1>4. HandlerInv /\ OwnInv
  BY DEF HandlerInv, OwnInv, Chosen
<1>5. RecvInv /\ UnreadBytesKept
  BY <1>1 DEF RecvInv, UnreadBytesKept
<1>6. PlaceInv
  BY DEF PlaceInv
<1>7. StreamInv /\ SentBytesKept
  BY <1>2 DEF StreamInv, SentBytesKept, InUse
<1> QED BY <1>3, <1>4, <1>5, <1>6, <1>7 DEF IInv

LEMMA NextInv == IInv /\ [Next]_vars => IInv'
<1> SUFFICES ASSUME IInv, [Next]_vars PROVE IInv'
  OBVIOUS
<1>1. CASE UNCHANGED vars
  <2> USE <1>1 DEF vars, receive, chunks, streams, locals
  <2>1. TypeOK'
    BY DEF IInv, TypeOK, SendBuffer
  <2>2. HandlerInv' /\ RecvInv' /\ UnreadBytesKept'
    BY ReceiveQuiet DEF IInv, HandlerInv
  <2>3. PlaceInv' /\ StreamInv' /\ SentBytesKept'
    BY ChunksQuiet
  <2>4. OwnInv'
    BY OwnQuiet DEF Chosen
  <2> QED BY <2>1, <2>2, <2>3, <2>4 DEF IInv
<1>2. ASSUME NEW t \in Threads, NEW x \in Sessions, NEW n \in 1 .. recv_size, ProcessRecv(t, x, n)
      PROVE  IInv'
  BY <1>2, ProcessRecvInv
<1>3. ASSUME NEW t \in Threads, NEW x \in Sessions, ProcessRecvClose(t, x)
      PROVE  IInv'
  BY <1>3, ProcessRecvCloseInv
<1>4. ASSUME NEW t \in Threads, NEW k \in 0 .. recv_size, NEW n \in 0 .. recv_size, OnRecv(t, k, n)
      PROVE  IInv'
  BY <1>4, OnRecvInv
<1>5. ASSUME NEW t \in Threads, OnRecvWrong(t) PROVE IInv'
  BY <1>5, OnRecvWrongInv
<1>6. ASSUME NEW t \in Threads, RegisterRecv(t) PROVE IInv'
  BY <1>6, RegisterRecvInv
<1>7. ASSUME NEW t \in Threads, PopChunk(t) PROVE IInv'
  BY <1>7, PopChunkInv
<1>8. ASSUME NEW t \in Threads, PushGlobal(t) PROVE IInv'
  BY <1>8, PushGlobalInv
<1>9. ASSUME NEW t \in Threads, Open(t) PROVE IInv'
  BY <1>9, OpenInv
<1>10. ASSUME NEW t \in Threads, Close(t) PROVE IInv'
  BY <1>10, CloseInv
<1>11. ASSUME NEW t \in Threads, NEW n \in 1 .. recv_size, Write(t, n) PROVE IInv'
  BY <1>11, WriteInv
<1>12. ASSUME NEW t \in Threads, NEW b \in SendBuffers, Destroy(t, b) PROVE IInv'
  BY <1>12, DestroyInv
<1> QED
  BY <1>1, <1>2, <1>3, <1>4, <1>5, <1>6, <1>7, <1>8, <1>9, <1>10, <1>11, <1>12 DEF Next

LEMMA Inductive == Spec => []IInv
BY InitInv, NextInv, PTL DEF Spec

\* Every variable of the byte path keeps its type, and no offset of a
\* MemoryStream leaves its buffer, whatever the handlers read and write.
THEOREM TypeCorrect == Spec => []TypeOK
<1>1. IInv => TypeOK
  BY DEF IInv
<1> QED BY <1>1, Inductive, PTL

\* The receive buffer holds the bytes that OnRecv has not processed, in the
\* order they came in, through every OnWrite, OnRead and CleanUp.
THEOREM UnreadBytesStay == Spec => []UnreadBytesKept
<1>1. IInv => UnreadBytesKept
  BY DEF IInv
<1> QED BY <1>1, Inductive, PTL

\* WSARecv gets no more room than recv_buffer_ has behind its data, and
\* BufferChunk::Open no more than is left of the chunk.
THEOREM WritesStayInside == Spec => []WritesFit
<1>1. IInv => WritesFit
  <2> SUFFICES ASSUME IInv PROVE WritesFit
    OBVIOUS
  <2>1. ASSUME NEW x \in Sessions, receiving[x] = "posted"
        PROVE  recv_buffer_[x].rear_ + recv_buffer_[x].space_ <= recv_size
    <3>1. /\ recv_buffer_[x] \in RecvBuffer /\ StreamOK(recv_buffer_[x])
          /\ recv_buffer_[x].front_ = 0
      BY <2>1 DEF IInv, TypeOK, RecvInv
    <3> QED BY <3>1, RecvOffsets
  <2>2. ASSUME NEW b \in SendBuffers, send_buffers[b].is_open_
        PROVE  send_buffers[b].buffer_ + send_buffers[b].capacity_ <= BUFFER_CHUNK_SIZE
    BY <2>2 DEF IInv, StreamInv
  <2> QED BY <2>1, <2>2 DEF WritesFit
<1> QED BY <1>1, Inductive, PTL

\* What was written to a SendBuffer is what IOCP still reads from it until it
\* is destroyed, though its chunk passes from thread to thread.
THEOREM SentBytesStay == Spec => []SentBytesKept
<1>1. IInv => SentBytesKept
  BY DEF IInv
<1> QED BY <1>1, Inductive, PTL

\* A BufferChunk is in buffer_chunk_list_, on its way there or referred to by
\* a thread or a SendBuffer, once, and is the L_buffer_chunk of one thread.
THEOREM ChunksInOnePlace == Spec => []ChunkInOnePlace
<1>1. IInv => ChunkInOnePlace
  <2> SUFFICES ASSUME IInv, NEW c \in made
               PROVE  LET list == {i \in DOMAIN buffer_chunk_list_ : buffer_chunk_list_[i] = c}
                          move == {t \in Threads : freed[t] = c}
                          referenced == c \in References(L_buffer_chunk, send_buffers)
                      IN /\ referenced => list = {} /\ move = {}
                         /\ ~referenced => Cardinality(list) + Cardinality(move) = 1
                         /\ Cardinality({t \in Threads : L_buffer_chunk[t] = c}) <= 1
    BY DEF ChunkInOnePlace
  <2> DEFINE list == {i \in DOMAIN buffer_chunk_list_ : buffer_chunk_list_[i] = c}
             move == {t \in Threads : freed[t] = c}
             own == {t \in Threads : L_buffer_chunk[t] = c}
  <2>1. c \in References(L_buffer_chunk, send_buffers) <=> Referenced(c)
    BY DEF References, Referenced
  <2>2. PlaceInv /\ c # None
    BY RealChunks DEF IInv
  <2>3. Cardinality({}) = 0 /\ \A e : Cardinality({e}) = 1
    BY FS_EmptySet, FS_Singleton
  <2>4. /\ (list # {}) <=> Listed(c)
        /\ \A i, j \in list : i = j
    <3>1. buffer_chunk_list_ \in Seq(made)
      BY DEF IInv, TypeOK
    <3>2. DOMAIN buffer_chunk_list_ = 1 .. Len(buffer_chunk_list_)
      BY <3>1
    <3> QED BY <2>2, <3>2 DEF Listed, PlaceInv
  <2>5. /\ (move # {}) <=> Moving(c)
        /\ \A t, u \in move : t = u
    BY <2>2 DEF Moving, PlaceInv
  <2>6. \A t, u \in own : t = u
    BY <2>2 DEF IInv, OwnInv
  <2>7. /\ list = {} \/ \E e : list = {e}
        /\ move = {} \/ \E e : move = {e}
        /\ own = {} \/ \E e : own = {e}
    <3> HIDE DEF list, move, own
    <3>1. ASSUME NEW S, \A x, y \in S : x = y
          PROVE  S = {} \/ \E e : S = {e}
      BY <3>1
    <3> QED BY <2>4, <2>5, <2>6, <3>1
  <2>8. /\ Listed(c) \/ Moving(c) \/ Referenced(c)
        /\ ~(Listed(c) /\ Moving(c))
        /\ Referenced(c) => ~Listed(c) /\ ~Moving(c)
    BY <2>2 DEF PlaceInv
  <2> HIDE DEF list, move, own
  <2>9. Cardinality(own) <= 1
    <3>1. CASE own = {}
      BY <2>3, <3>1
    <3>2. CASE \E e : own = {e}
      <4>1. PICK e : own = {e}
        BY <3>2
      <4>2. Cardinality(own) = 1
        BY <2>3, <4>1
      <4> QED BY <4>2
    <3> QED BY <2>7, <3>1, <3>2
  <2>10. Referenced(c) => list = {} /\ move = {}
    BY <2>4, <2>5, <2>8
  <2>11. ~Referenced(c) => Cardinality(list) + Cardinality(move) = 1
    <3>1. ~Referenced(c) => \/ list = {} /\ \E e : move = {e}
                            \/ move = {} /\ \E e : list = {e}
      BY <2>4, <2>5, <2>7, <2>8
    <3> QED BY <2>3, <3>1
  <2> QED BY <2>1, <2>9, <2>10, <2>11 DEF list, move, own
<1> QED BY <1>1, Inductive, PTL

=============================================================================
