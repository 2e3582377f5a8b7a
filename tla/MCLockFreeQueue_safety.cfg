CONSTANTS
    c1 = c1
    c2 = c2
    p1 = p1
    p2 = p2
    n1 = n1
    n2 = n2
    n3 = n3
    n4 = n4
    Null = Null
    Producers = {p1, p2}
    Consumers = {c1, c2}
    Nodes = {n1, n2, n3, n4}
    MaxEnqueues = 4
    MaxDequeues = 3
    Disciplines = {"phases", "one_producer"}
SPECIFICATION Spec
CHECK_DEADLOCK FALSE
SYMMETRY Symmetry
INVARIANTS
    TypeOK
    NoUseAfterFree
    QueueLinked
    FirstInFirstOut
    NodeInOnePlace
