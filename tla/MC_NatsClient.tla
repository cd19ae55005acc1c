--------------------------- MODULE MC_NatsClient ---------------------------
(***************************************************************************)
(* Models of NatsClient for TLC.  Application threads, publish identities  *)
(* and the waiters are model values; the Client operations the threads    *)
(* call are chosen per run, so that each run explores the interleavings   *)
(* its property is about within a few minutes.                             *)
(***************************************************************************)
EXTENDS NatsClient, TLC

CONSTANTS u1, u2, p1, p2

OneUser == {u1}
TwoUsers == {u1, u2}
OnePub == {p1}
TwoPubs == {p1, p2}

\* Headers a publish may carry and a server may announce.
NoHeaders == {FALSE}
HeadersOn == {TRUE}
AnyHeaders == BOOLEAN

\* Sets of Client operations called by the application threads.
SubOps == {"subscribe", "unsubscribe", "close"}
FlushOps == {"flush", "close"}
PublishFlush == {"publish", "flush"}
PublishOnly == {"publish"}
PublishAll == {"publish", "try_publish", "flush", "close"}

(***************************************************************************)
(* The queue of expected PONGs and the frames a server has sent but        *)
(* dispatch() has not decoded grow without limit when the client thread    *)
(* lags behind the heartbeat: every timeout queues one more waiter and     *)
(* PING, and every PONG read clears pings_out.  The models explore them up *)
(* to MaxQueued entries; that covers two heartbeat PINGs and a flush PING  *)
(* outstanding at once.                                                    *)
(***************************************************************************)
MaxQueued == 3

QueueBound ==
    /\ Len(pongs) <= MaxQueued
    /\ \A c \in Conns : Len(toClient[c]) <= MaxQueued

\* With a slow peer, every flush that times out leaves its PING in the
\* BufWriter of the live connection; those frames are cut at the same bound.
SlowBound == QueueBound /\ Len(wbuf) <= MaxQueued

\* Application threads are interchangeable.
SymmUsers == Permutations(TwoUsers)
=============================================================================
