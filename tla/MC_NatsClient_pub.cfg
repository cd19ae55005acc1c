CONSTANTS
    u1 = u1
    u2 = u2
    p1 = p1
    p2 = p2
    Kicker = Kicker
    ConnectW = ConnectW
    Users <- OneUser
    Pubs <- TwoPubs
    Ops <- PublishAll
    MaxSid = 1
    MaxConns = 2
    BufCap = 1
    PubHeaders <- NoHeaders
    SrvHeaders <- HeadersOn
    MaxSrvFrames = 1
    SlowPeer = FALSE

SPECIFICATION Spec
CONSTRAINT QueueBound

INVARIANT TypeOK
INVARIANT BufferEmptyWhileConnected
