CONSTANTS
    t1 = t1
    t2 = t2
    n1 = n1
    n2 = n2
    n3 = n3
    Null = Null
    Producers = {t1, t2}
    Consumers = {t1, t2}
    Nodes = {n1, n2, n3}
    MaxEnqueues = 2
    MaxDequeues = 2
    Disciplines = {"freely"}
SPECIFICATION Spec
CHECK_DEADLOCK FALSE
SYMMETRY Symmetry
INVARIANTS
    NobodyHasTheHead
