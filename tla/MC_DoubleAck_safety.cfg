\* Two threads acking, double-acking and closing, with two faults.
CONSTANTS
    t1 = t1
    t2 = t2
    Threads <- TwoThreads
    Ops <- AllAckOps
    MaxFaults = 3
SPECIFICATION FairSpec
PROPERTY DoubleAckReturnsWhileOpen
\* Once the message is double-acked (or the client closed and nothing is in
\* flight) every call returns at once and changes nothing: the end state.
CHECK_DEADLOCK FALSE
