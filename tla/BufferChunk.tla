---------------------------- MODULE BufferChunk ----------------------------
(***************************************************************************)
(* The bytes of the sessions: from recv_buffer_ through OnRecv into the    *)
(* SendBuffers that are cut from the chunk of the thread (MemoryStream.cpp *)
(* and the receive loop of Session.cpp).  A chunk goes back to the manager *)
(* with the last reference to it, on whatever thread that is dropped, and  *)
(* may then become the chunk of another thread.                            *)
(*                                                                         *)
(* A thread has one SendBuffer open at a time, as Session::OnRecv.  What a *)
(* thread does with its own chunk is not told apart from what it does with *)
(* its session, which no other thread handles meanwhile.                   *)
(***************************************************************************)
EXTENDS Integers, SequencesExt, MemoryStream

CONSTANTS
    Threads, Sessions,
    Chunks,                 \* bound: memory for chunks
    SendBuffers,            \* bound: SendBuffers at a time
    None,
    BUFFER_CHUNK_SIZE,
    recv_size,              \* capacity of recv_buffer_
    MaxBytes                \* bound: bytes that all sessions receive

ASSUME BufferChunkAssumption ==
    /\ None \notin Chunks \cup Sessions
    /\ BUFFER_CHUNK_SIZE \in Nat /\ recv_size \in 1 .. BUFFER_CHUNK_SIZE
    /\ MaxBytes \in Nat

VARIABLES
    recv_buffer_,           \* offsets of the receive buffer of each session
    data,                   \* its contents
    receiving,              \* WSARecv posted, its handler running, or closed
    received, processed,    \* history: bytes of the session
    made,                   \* chunks that exist
    buffer_chunk_list_,     \* those of BufferManager
    L_buffer_chunk,
    used_size_,
    chunk,                  \* contents of each chunk
    send_buffers,           \* SendBuffers in use
    sent,                   \* history: what was written to each
    pc, session, count,     \* control point, session and process_length of a thread
    size,                   \* argument of MemoryStream::Open
    freed                   \* the chunk a thread hands to PushGlobal

receive == <<recv_buffer_, data, receiving, received, processed>>
chunks == <<made, buffer_chunk_list_, L_buffer_chunk, used_size_, chunk>>
streams == <<send_buffers, sent>>
locals == <<pc, session, count, size, freed>>
vars == <<receive, chunks, streams, locals>>

-----------------------------------------------------------------------------

\* The i-th byte that session x receives.
Byte(x, i) == <<x, i>>

\* A SendBuffer without data over that many bytes of the chunk c, from base on.
Opened(base, capacity, c) ==
    [front_ |-> 0, rear_ |-> 0, capacity_ |-> capacity, length_ |-> 0, space_ |-> capacity,
     buffer_ |-> base, owner_ |-> c, is_open_ |-> TRUE]

Closed == [Opened(0, 0, None) EXCEPT !.is_open_ = FALSE]

InUse(b) == send_buffers[b].owner_ # None

\* A std::shared_ptr keeps the chunk: a thread's own, or that of a SendBuffer.
References(own, buffers) ==
    {own[t] : t \in Threads} \cup {buffers[b].owner_ : b \in SendBuffers}

Step(t, from, to) ==
    /\ pc[t] = from
    /\ pc' = [pc EXCEPT ![t] = to]

Init ==
    /\ recv_buffer_ = [x \in Sessions |-> SetBuffer(0, recv_size)]
    /\ data = [x \in Sessions |-> [p \in 0 .. recv_size - 1 |-> None]]
    /\ receiving = [x \in Sessions |-> "posted"]
    /\ received = [x \in Sessions |-> 0]
    /\ processed = [x \in Sessions |-> 0]
    /\ made = {}
    /\ buffer_chunk_list_ = <<>>
    /\ L_buffer_chunk = [t \in Threads |-> None]
    /\ used_size_ = [c \in Chunks |-> 0]
    /\ chunk = [c \in Chunks |-> [p \in 0 .. BUFFER_CHUNK_SIZE - 1 |-> None]]
    /\ send_buffers = [b \in SendBuffers |-> Closed]
    /\ sent = [b \in SendBuffers |-> <<>>]
    /\ pc = [t \in Threads |-> "idle"]
    /\ session = [t \in Threads |-> None]
    /\ count = [t \in Threads |-> 0]
    /\ size = [t \in Threads |-> 0]
    /\ freed = [t \in Threads |-> None]

-----------------------------------------------------------------------------
(***************************************************************************)
(* The receive loop of a session.                                          *)
(***************************************************************************)

\* A packet of n bytes, which the system has written behind the data.
ProcessRecv(t, x, n) ==
    LET s == recv_buffer_[x] IN
    /\ receiving[x] = "posted"
    /\ n \in 1 .. s.space_ /\ n + FoldFunction(+, 0, received) <= MaxBytes
    /\ Step(t, "idle", "recv")
    /\ session' = [session EXCEPT ![t] = x]
    /\ receiving' = [receiving EXCEPT ![x] = "handled"]
    /\ data' = [data EXCEPT ![x] =
                  CopyTo(@, 0, s, [i \in 1 .. n |-> Byte(x, received[x] + i)])]
    /\ recv_buffer_' = [recv_buffer_ EXCEPT ![x] = OnWrite(s, n)]
    /\ received' = [received EXCEPT ![x] = @ + n]
    /\ UNCHANGED <<processed, chunks, streams, count, size, freed>>

\* A packet of no bytes, the only one when the buffer is full.
ProcessRecvClose(t, x) ==
    /\ pc[t] = "idle" /\ receiving[x] = "posted"
    /\ receiving' = [receiving EXCEPT ![x] = "closed"]
    /\ UNCHANGED <<recv_buffer_, data, received, processed, chunks, streams, locals>>

FreeSize(c) == BUFFER_CHUNK_SIZE - used_size_[c]

\* Mutant: the space left in the chunk is not looked at.
NeedsChunkOnce(t, n) == L_buffer_chunk[t] = None

\* The first test of Open is for a thread without a chunk; a new chunk is
\* large enough.
NeedsChunk(t, n) ==
    \/ L_buffer_chunk[t] = None
    \/ FreeSize(L_buffer_chunk[t]) < n

\* The stream over GetDataSegment that OnRecv reads its message from.
Message(x) == SetBuffer(recv_buffer_[x].length_, recv_buffer_[x].length_)

\* OnRecv reads k bytes, to echo them in a SendBuffer of n.  The one in
\* Session.cpp takes all of them and opens as many; an application's may leave
\* an incomplete message, or open more or less than it wants to write.  With
\* no bytes it sends nothing.
OnRecv(t, k, n) ==
    /\ pc[t] = "recv"
    /\ CanRead(Message(session[t]), k)
    /\ k = 0 => n = 0
    /\ pc' = [pc EXCEPT ![t] = IF k = 0 THEN "read"
                               ELSE IF NeedsChunk(t, n) THEN "pop" ELSE "open"]
    /\ count' = [count EXCEPT ![t] = k]
    /\ size' = [size EXCEPT ![t] = n]
    /\ UNCHANGED <<receive, chunks, streams, session, freed>>

\* The handler returns.
Leave(t) ==
    /\ session' = [session EXCEPT ![t] = None]
    /\ count' = [count EXCEPT ![t] = 0]
    /\ size' = [size EXCEPT ![t] = 0]

\* OnRecv returned a length that is negative or more than there is.
OnRecvWrong(t) ==
    /\ Step(t, "recv", "idle")
    /\ receiving' = [receiving EXCEPT ![session[t]] = "closed"]
    /\ Leave(t)
    /\ UNCHANGED <<recv_buffer_, data, received, processed, chunks, streams, freed>>

\* Mutant: RegisterRecv does not clean up.
RegisterRecvAtOnce(t) ==
    LET x == session[t] IN
    /\ Step(t, "read", "idle")
    /\ recv_buffer_' = [recv_buffer_ EXCEPT ![x] = OnRead(@, count[t])]
    /\ processed' = [processed EXCEPT ![x] = @ + count[t]]
    /\ receiving' = [receiving EXCEPT ![x] = "posted"]
    /\ Leave(t)
    /\ UNCHANGED <<data, received, chunks, streams, freed>>

\* OnRead, then RegisterRecv: CleanUp and WSARecv of GetSpace bytes.
RegisterRecv(t) ==
    LET x == session[t]  s == OnRead(recv_buffer_[x], count[t]) IN
    /\ Step(t, "read", "idle")
    /\ recv_buffer_' = [recv_buffer_ EXCEPT ![x] = CleanUp(s)]
    /\ data' = [data EXCEPT ![x] = CleanUpData(s, @)]
    /\ processed' = [processed EXCEPT ![x] = @ + count[t]]
    /\ receiving' = [receiving EXCEPT ![x] = "posted"]
    /\ Leave(t)
    /\ UNCHANGED <<received, chunks, streams, freed>>

-----------------------------------------------------------------------------
(***************************************************************************)
(* SendBuffers and their chunks.                                           *)
(***************************************************************************)

Reset(c) == used_size_' = [used_size_ EXCEPT ![c] = 0]

\* BufferManager::Pop takes the last chunk of the list or makes one; it
\* becomes the thread's and is Reset.  The thread's reference to its old
\* chunk is dropped and, when it was the last, that is pushed.
PopChunk(t) ==
    \E c \in Chunks :
        /\ IF buffer_chunk_list_ = <<>>
           THEN c \notin made /\ UNCHANGED buffer_chunk_list_
           ELSE c = Last(buffer_chunk_list_)
                /\ buffer_chunk_list_' = Front(buffer_chunk_list_)
        /\ made' = made \cup {c}
        /\ L_buffer_chunk' = [L_buffer_chunk EXCEPT ![t] = c]
        /\ Reset(c)
        /\ LET old == L_buffer_chunk[t] IN
           IF old \in References(L_buffer_chunk', send_buffers) \cup {None}
           THEN Step(t, "pop", "open") /\ UNCHANGED freed
           ELSE Step(t, "pop", "push") /\ freed' = [freed EXCEPT ![t] = old]
        /\ UNCHANGED <<receive, chunk, streams, session, count, size>>

\* BufferManager::Push under its lock, called by the last std::shared_ptr.
PushGlobal(t) ==
    /\ Step(t, "push", IF session[t] = None THEN "idle" ELSE "open")
    /\ buffer_chunk_list_' = Append(buffer_chunk_list_, freed[t])
    /\ freed' = [freed EXCEPT ![t] = None]
    /\ UNCHANGED <<receive, made, L_buffer_chunk, used_size_, chunk, streams, session,
                   count, size>>

\* The buffer_ of the stream is where the used part of the chunk ends.
Open(t) ==
    LET c == L_buffer_chunk[t] IN
    /\ Step(t, "open", "write")
    /\ \E b \in SendBuffers :
         /\ ~InUse(b)
         /\ send_buffers' = [send_buffers EXCEPT ![b] = Opened(used_size_[c], size[t], c)]
    /\ UNCHANGED <<receive, chunks, sent, session, count, size, freed>>

\* The SendBuffer that the thread has opened and not closed.
IsOpen(t, b) == send_buffers[b].is_open_ /\ send_buffers[b].owner_ = L_buffer_chunk[t]

\* The next n of the bytes that were read are copied to GetBufferRear, and
\* OnWrite: in one piece as in Session::OnRecv, or by a StreamWriter as far as
\* the SendBuffer has room.
Write(t, n) ==
    LET x == session[t]  c == L_buffer_chunk[t] IN
    /\ pc[t] = "write"
    /\ \E b \in SendBuffers :
         LET s == send_buffers[b]
             done == Len(sent[b])
             bytes == SubSeq(GetDataSegment(recv_buffer_[x], data[x]), done + 1, done + n)
         IN /\ IsOpen(t, b)
            /\ done + n <= count[t] /\ CanWrite(s, n)
            /\ chunk' = [chunk EXCEPT ![c] = CopyTo(@, s.buffer_, s, bytes)]
            /\ send_buffers' = [send_buffers EXCEPT ![b] = OnWrite(s, n)]
            /\ sent' = [sent EXCEPT ![b] =
                          @ \o [i \in 1 .. n |-> Byte(x, processed[x] + done + i)]]
    /\ UNCHANGED <<receive, made, buffer_chunk_list_, L_buffer_chunk, used_size_, locals>>

\* Mutant: the bytes written are not counted.
CloseChunkForgets(c, write_size) == UNCHANGED used_size_

CloseChunk(c, write_size) == used_size_' = [used_size_ EXCEPT ![c] = @ + write_size]

\* MemoryStream::Close, then Send: all is written, or there is no more room.
Close(t) ==
    /\ Step(t, "write", "read")
    /\ \E b \in SendBuffers :
         /\ IsOpen(t, b)
         /\ Len(sent[b]) = count[t] \/ ~CanWrite(send_buffers[b], 1)
         /\ send_buffers' = [send_buffers EXCEPT ![b].is_open_ = FALSE]
         /\ CloseChunk(L_buffer_chunk[t], send_buffers[b].rear_)
    /\ UNCHANGED <<receive, made, buffer_chunk_list_, L_buffer_chunk, chunk, sent, session,
                   count, size, freed>>

\* Mutant: the chunk is pushed with its last SendBuffer.
DestroyPushes(t, b) ==
    LET c == send_buffers[b].owner_ IN
    /\ pc[t] = "idle" /\ InUse(b) /\ ~send_buffers[b].is_open_
    /\ send_buffers' = [send_buffers EXCEPT ![b] = Closed]
    /\ sent' = [sent EXCEPT ![b] = <<>>]
    /\ IF \E d \in SendBuffers : d # b /\ send_buffers[d].owner_ = c
       THEN UNCHANGED <<pc, freed>>
       ELSE Step(t, "idle", "push") /\ freed' = [freed EXCEPT ![t] = c]
    /\ UNCHANGED <<receive, chunks, session, count, size>>

\* The last reference to a SendBuffer is dropped, when its bytes have been
\* sent or the session is gone; the chunk is pushed if that was its last.
Destroy(t, b) ==
    LET c == send_buffers[b].owner_ IN
    /\ pc[t] = "idle" /\ InUse(b) /\ ~send_buffers[b].is_open_
    /\ send_buffers' = [send_buffers EXCEPT ![b] = Closed]
    /\ sent' = [sent EXCEPT ![b] = <<>>]
    /\ IF c \in References(L_buffer_chunk, send_buffers')
       THEN UNCHANGED <<pc, freed>>
       ELSE Step(t, "idle", "push") /\ freed' = [freed EXCEPT ![t] = c]
    /\ UNCHANGED <<receive, chunks, session, count, size>>

Next ==
    \E t \in Threads :
        \/ \E x \in Sessions :
             \/ \E n \in 1 .. recv_size : ProcessRecv(t, x, n)
             \/ ProcessRecvClose(t, x)
        \/ \E k, n \in 0 .. recv_size : OnRecv(t, k, n)
        \/ OnRecvWrong(t) \/ RegisterRecv(t)
        \/ PopChunk(t) \/ PushGlobal(t) \/ Open(t) \/ Close(t)
        \/ \E n \in 1 .. recv_size : Write(t, n)
        \/ \E b \in SendBuffers : Destroy(t, b)

Spec == Init /\ [][Next]_vars

-----------------------------------------------------------------------------
(***************************************************************************)
(* Properties.                                                             *)
(***************************************************************************)

Content == {None} \cup (Sessions \X Nat)

Offset == 0 .. recv_size

RecvBuffer == [front_ : Offset, rear_ : Offset, capacity_ : {recv_size},
               length_ : Offset, space_ : Offset]

SendBuffer == [front_ : Offset, rear_ : Offset, capacity_ : Offset, length_ : Offset,
               space_ : Offset, buffer_ : 0 .. BUFFER_CHUNK_SIZE,
               owner_ : made \cup {None}, is_open_ : BOOLEAN]

\* The offsets of a stream agree with each other.
StreamOK(s) == /\ s.rear_ <= s.capacity_
               /\ s.length_ = s.rear_ - s.front_ /\ s.space_ = s.capacity_ - s.length_

\* Every variable has its type, and no offset is outside its buffer or chunk.
TypeOK ==
    /\ recv_buffer_ \in [Sessions -> RecvBuffer]
    /\ \A x \in Sessions : StreamOK(recv_buffer_[x])
    /\ data \in [Sessions -> [0 .. recv_size - 1 -> Content]]
    /\ receiving \in [Sessions -> {"posted", "handled", "closed"}]
    /\ received \in [Sessions -> Nat]
    /\ processed \in [Sessions -> Nat]
    /\ made \subseteq Chunks
    /\ buffer_chunk_list_ \in Seq(made)
    /\ L_buffer_chunk \in [Threads -> made \cup {None}]
    /\ used_size_ \in [Chunks -> 0 .. BUFFER_CHUNK_SIZE]
    /\ chunk \in [Chunks -> [0 .. BUFFER_CHUNK_SIZE - 1 -> Content]]
    /\ send_buffers \in [SendBuffers -> SendBuffer]
    /\ \A b \in SendBuffers : StreamOK(send_buffers[b])
    /\ sent \in [SendBuffers -> Seq(Content)]
    /\ pc \in [Threads -> {"idle", "recv", "pop", "push", "open", "write", "read"}]
    /\ session \in [Threads -> Sessions \cup {None}]
    /\ count \in [Threads -> 0 .. recv_size]
    /\ size \in [Threads -> 0 .. recv_size]
    /\ freed \in [Threads -> made \cup {None}]

\* The receive buffer holds the bytes received and not yet processed, in
\* order, whatever OnRecv leaves for later.
UnreadBytesKept ==
    \A x \in Sessions : receiving[x] # "closed" =>
        LET s == recv_buffer_[x] IN
        /\ processed[x] + s.length_ = received[x]
        /\ \A i \in 1 .. s.length_ : data[x][s.front_ + i - 1] = Byte(x, processed[x] + i)

\* WSARecv is never given more than the end of the buffer has room for, nor
\* is a SendBuffer opened beyond the end of its chunk.
WritesFit ==
    /\ \A x \in Sessions : receiving[x] = "posted" =>
         recv_buffer_[x].rear_ + recv_buffer_[x].space_ <= recv_size
    /\ \A b \in SendBuffers : send_buffers[b].is_open_ =>
         send_buffers[b].buffer_ + send_buffers[b].capacity_ <= BUFFER_CHUNK_SIZE

\* The bytes of a SendBuffer stay what was written to it until it is
\* destroyed, on whatever threads that chunk is filled meanwhile.
SentBytesKept ==
    \A b \in SendBuffers : InUse(b) =>
        LET s == send_buffers[b] IN
        \A i \in 1 .. Len(sent[b]) : chunk[s.owner_][s.buffer_ + i - 1] = sent[b][i]

\* A chunk is in the list of the manager, on its way there, or referred to,
\* and belongs to one thread at most: none is lost or handed out twice.
ChunkInOnePlace ==
    \A c \in made :
        LET Listed == {i \in DOMAIN buffer_chunk_list_ : buffer_chunk_list_[i] = c}
            Moving == {t \in Threads : freed[t] = c}
            referenced == c \in References(L_buffer_chunk, send_buffers)
        IN /\ referenced => Listed = {} /\ Moving = {}
           /\ ~referenced => Cardinality(Listed) + Cardinality(Moving) = 1
           /\ Cardinality({t \in Threads : L_buffer_chunk[t] = c}) <= 1

=============================================================================
