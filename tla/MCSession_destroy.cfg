CONSTANTS
    w1 = w1
    w2 = w2
    a1 = a1
    Workers = {w1, w2}
    Apps = {a1}
    MaxSends = 2
    MaxPackets = 2
    SkipPacketOnSuccess = TRUE
    RecvOutcomes = {"pending"}
    SendOutcomes = {"pending", "error"}
    DisconnectOutcomes = {"pending"}
SPECIFICATION Spec
CHECK_DEADLOCK FALSE
INVARIANTS
    DestroyAssertion
