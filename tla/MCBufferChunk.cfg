CONSTANTS
    t1 = t1
    t2 = t2
    x1 = x1
    x2 = x2
    c1 = c1
    c2 = c2
    c3 = c3
    b1 = b1
    b2 = b2
    None = None
    Threads = {t1, t2}
    Sessions = {x1, x2}
    Chunks = {c1, c2, c3}
    SendBuffers = {b1, b2}
    BUFFER_CHUNK_SIZE = 3
    recv_size = 2
    MaxBytes = 5
SPECIFICATION Spec
SYMMETRY Symmetry
VIEW Live
CHECK_DEADLOCK FALSE
INVARIANTS
    TypeOK
    UnreadBytesKept
    WritesFit
    SentBytesKept
    ChunkInOnePlace
