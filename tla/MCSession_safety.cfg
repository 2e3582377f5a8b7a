CONSTANTS
    w1 = w1
    w2 = w2
    a1 = a1
    Workers = {w1, w2}
    Apps = {a1}
    MaxSends = 2
    MaxPackets = 2
    SkipPacketOnSuccess = TRUE
    RecvOutcomes = {"pending", "done", "error"}
    SendOutcomes = {"pending", "done", "error"}
    DisconnectOutcomes = {"pending", "error"}
SPECIFICATION Spec
SYMMETRY ThreadSymmetry
CHECK_DEADLOCK FALSE
INVARIANTS
    TypeOK
    SendExclusive
    RecvExclusive
    DisconnectOnce
    PacketHasOwner
    BuffersHeld
    SendOrder
    QueueHasSender
PROPERTIES
    ImplementsSendChannel
