CONSTANTS
    u1 = u1
    u2 = u2
    p1 = p1
    p2 = p2
    Kicker = Kicker
    ConnectW = ConnectW
    Users <- TwoUsers
    Pubs <- OnePub
    Ops <- SubOps
    MaxSid = 2
    MaxConns = 3
    BufCap = 1
    PubHeaders <- NoHeaders
    SrvHeaders <- HeadersOn
    MaxSrvFrames = 1
    SlowPeer = FALSE

SPECIFICATION Spec
CONSTRAINT QueueBound
SYMMETRY SymmUsers
INVARIANT SubscriptionsRestored
