CONSTANTS
    w1 = w1
    w2 = w2
    a1 = a1
    Workers = {w1, w2}
    Apps = {a1}
    MaxSends = 1
    MaxPackets = 2
    SkipPacketOnSuccess = FALSE
    RecvOutcomes = {"pending", "error"}
    SendOutcomes = {"pending", "error"}
    DisconnectOutcomes = {"pending", "done", "error"}
SPECIFICATION FairSpec
CHECK_DEADLOCK FALSE
PROPERTIES
    DisconnectReleases
