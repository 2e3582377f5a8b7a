CONSTANTS
    w1 = w1
    w2 = w2
    main = main
    s1 = s1
    s2 = s2
    s3 = s3
    s4 = s4
    s5 = s5
    None = None
    Workers = {w1, w2}
    Main = main
    Sessions = {s1, s2, s3, s4, s5}
    max_session_count_ = 2
    max_traverse_count = 1
    accept_count = 2
    MaxConnections = 0
    AcceptOutcomes = {"pending", "reset"}
SPECIFICATION Spec
CHECK_DEADLOCK FALSE
PROPERTIES
    DispatchedEventIsOurs
VIEW Live
