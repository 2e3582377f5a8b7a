---------------------------- MODULE MCBufferChunk ----------------------------
EXTENDS BufferChunk

\* Threads, sessions, chunks and SendBuffers are interchangeable.
Symmetry == Permutations(Threads) \cup Permutations(Sessions)
                \cup Permutations(Chunks) \cup Permutations(SendBuffers)

\* VIEW: the state without the contents of memory that nobody reads before it
\* is written again.
Live ==
    LET lies(s, base, p) == p \in base + s.front_ .. base + s.rear_ - 1
        unread == [x \in Sessions |->
            [p \in DOMAIN data[x] |->
                IF lies(recv_buffer_[x], 0, p) THEN data[x][p] ELSE None]]
        unsent == [c \in Chunks |->
            [p \in DOMAIN chunk[c] |->
                IF \E b \in SendBuffers :
                       /\ send_buffers[b].owner_ = c
                       /\ lies(send_buffers[b], send_buffers[b].buffer_, p)
                THEN chunk[c][p] ELSE None]]
    IN  <<recv_buffer_, unread, receiving, received, processed, made, buffer_chunk_list_,
          L_buffer_chunk, used_size_, unsent, streams, locals>>

=============================================================================
