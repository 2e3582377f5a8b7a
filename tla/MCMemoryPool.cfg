CONSTANTS
    t1 = t1
    t2 = t2
    b1 = b1
    b2 = b2
    Null = Null
    Threads = {t1, t2}
    Blocks = {b1, b2}
    alloc_size_ = 32
    Requests = {32, 5000, 40000, 65568}
    MaxCalls = 7
SPECIFICATION FairSpec
CHECK_DEADLOCK FALSE
INVARIANTS
    TypeOK
    StackLinked
    BlockInOnePlace
    RoomInBlock
    NoFalseAlarm
    CountersMatch
PROPERTIES
    CallsEnd
    ImplementsAllocator
VIEW Live
