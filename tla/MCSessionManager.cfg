CONSTANTS
    t1 = t1
    t2 = t2
    s1 = s1
    s2 = s2
    s3 = s3
    None = None
    Threads = {t1, t2}
    Sessions = {s1, s2, s3}
    max_session_count_ = 2
    max_traverse_count = 5
SPECIFICATION FairSpec
INVARIANTS
    TypeOK
    NoCrash
    IdHasOneUser
    FailsOnlyWhenBusy
PROPERTIES
    CallsReturn
