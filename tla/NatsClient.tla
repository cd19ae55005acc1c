----------------------------- MODULE NatsClient -----------------------------
(***************************************************************************)
(* The connection engine of src/client.rs: the shared State (WriteState    *)
(* and ReadState), the user operations of Client (publish, try_publish,    *)
(* subscribe, unsubscribe, flush, close), the client thread (run,          *)
(* reconnect, dispatch), the flusher/heartbeat thread spawned by connect,  *)
(* and, as the environment, one server per connection.                    *)
(*                                                                         *)
(* Every operation that takes `state.write` (and `state.read` after it) is *)
(* one atomic step: all of them take the write lock first, so they are     *)
(* serialised by it.  The steps that take no lock or only the read lock    *)
(* touch data no other step reads in between.  The lock order itself is   *)
(* checked in LockOrder.                                                   *)
(*                                                                         *)
(* Bytes are abstracted to frames.  The BufWriter of the active writer is  *)
(* the sequence wbuf of frames not yet flushed; a flush hands them to the  *)
(* server of that connection, which processes them in order at once.  A   *)
(* write to a dead connection fails at the flush; an encode into the       *)
(* BufWriter of a dead connection may fail (when it had to flush).         *)
(***************************************************************************)
EXTENDS Naturals, Sequences, SequencesExt, FiniteSets

CONSTANTS
    Users,        \* threads of the application calling the Client
    Ops,          \* the Client operations those threads call
    Pubs,         \* publish identities (each published at most once)
    MaxSid,       \* bound on subscribe calls (next_sid <= MaxSid + 1)
    MaxConns,     \* connections the Connector hands out before it fails
    BufCap,       \* reconnect_buffer_size, in frames of size 1
    PubHeaders,   \* whether publishes may carry headers: {FALSE} or BOOLEAN
    SrvHeaders,   \* headers support a server may announce
    MaxSrvFrames, \* bound on frames a server sends on its own per connection
    SlowPeer,     \* a live peer may be too slow for a write with a timeout
    Kicker,       \* the flush_kicker clone queued by the heartbeat as waiter
    ConnectW      \* the pong_sender queued by connect() as first waiter

ASSUME Ops \subseteq {"publish", "try_publish", "subscribe", "unsubscribe",
                      "flush", "close"}
ASSUME /\ {MaxSid, MaxConns, BufCap, MaxSrvFrames} \subseteq Nat
       /\ SlowPeer \in BOOLEAN
       /\ PubHeaders \subseteq BOOLEAN /\ SrvHeaders \subseteq BOOLEAN
       /\ Kicker \notin Users /\ ConnectW \notin Users

MAX_PINGS_OUT == 2

Conns == 1..MaxConns
Sids == 1..MaxSid
Waiters == Users \cup {Kicker, ConnectW}

\* Client operations (proto::ClientOp) and server operations (ServerOp).
\* A PING carries, as a ghost, the waiter queued for it; the server echoes
\* it in the PONG.
PubOp(p, h) == [op |-> "PUB", arg |-> <<p, h>>]
SubOp(s)    == [op |-> "SUB", arg |-> s]
UnsubOp(s)  == [op |-> "UNSUB", arg |-> s]
PingOp(w)   == [op |-> "PING", arg |-> w]
PongOp      == [op |-> "PONG", arg |-> 0]
EOF         == [op |-> "EOF", arg |-> 0]

ClientFrames ==
    {PubOp(p, h) : p \in Pubs, h \in BOOLEAN} \cup {SubOp(s) : s \in Sids}
        \cup {UnsubOp(s) : s \in Sids} \cup {PingOp(w) : w \in Waiters} \cup {PongOp}

VARIABLES
    \* WriteState
    writer,     \* the connection of the active writer, 0 for None
    wbuf,       \* frames in that BufWriter not yet flushed
    rbuf,       \* the reconnect buffer: frames held (ReconnectBuffer)
    rsat,       \* the reconnect buffer is saturated
    kick,       \* flush_kicker, a channel of capacity 1, holds a signal
    nextSid,    \* next_sid
    \* ReadState
    subs,       \* subscriptions: the set of their sids
    pongs,      \* expected PONGs: queue of waiters
    pingsOut,   \* pings_out
    active,     \* a frame arrived since the last heartbeat timeout
    \* Client
    info,       \* server_info.headers
    shutdown,   \* shutdown flag
    \* the client thread (run)
    sup,        \* where run() is
    conn,       \* the connection run() is working with
    started,    \* connect(): "waiting", then "ok" or "err"
    \* application threads
    upc,        \* what each user thread is doing
    pend,       \* the op of a publish between its checks and the write lock
    oneshot,    \* the PONG channel of each user's flush
    \* servers, one per connection
    nconns,     \* connections made so far
    alive,      \* the connection is up
    hdrs,       \* the server announced headers support
    toClient,   \* frames sent by the server not yet decoded by dispatch
    srvSubs,    \* subscriptions the server holds for this client
    srvSent,    \* frames the server sent on its own
    deadline,   \* a write timeout is set on the connection's socket
    \* ghosts
    delivered,  \* publishes processed by some server
    acked,      \* publishes that returned Ok, per user
    bufAcked,   \* publishes accepted into the reconnect buffer
    badHpub     \* an HPUB reached a server that does not support headers

client == <<writer, wbuf, rbuf, rsat, kick, nextSid, subs, pongs, pingsOut,
            active, info, shutdown>>
threads == <<sup, conn, started, upc, pend, oneshot>>
servers == <<nconns, alive, hdrs, toClient, srvSubs, srvSent, deadline>>
ghosts == <<delivered, acked, bufAcked, badHpub>>
vars == <<client, threads, servers, ghosts>>

\* The reconnect buffer as specified by ReconnectBuffer; a PUB frame is one
\* unit of its capacity.
RB == INSTANCE ReconnectBuffer
        WITH Cap <- BufCap, Frames <- {PubOp(p, h) : p \in Pubs, h \in BOOLEAN},
             Size <- LAMBDA f : 1, frames <- rbuf, sat <- rsat, taken <- <<>>

-----------------------------------------------------------------------------
(***************************************************************************)
(* Helpers                                                                 *)
(***************************************************************************)

\* The server of connection c processes one frame.
ServerStep(c, s, f) ==
    CASE f.op = "PUB"   -> [s EXCEPT !.dlv = @ \cup {f.arg[1]},
                                     !.bad = @ \/ (f.arg[2] /\ ~hdrs[c])]
      [] f.op = "SUB"   -> [s EXCEPT !.subs = @ \cup {f.arg}]
      [] f.op = "UNSUB" -> [s EXCEPT !.subs = @ \ {f.arg}]
      [] f.op = "PING"  -> [s EXCEPT !.out = Append(@, [op |-> "PONG", arg |-> f.arg])]
      [] OTHER          -> s

\* The frames fs reach the server of connection c, which processes them.
Transmit(c, fs) ==
    LET r == FoldLeft(LAMBDA s, f : ServerStep(c, s, f),
                      [subs |-> srvSubs[c], out |-> toClient[c],
                       dlv |-> delivered, bad |-> badHpub], fs)
    IN  /\ srvSubs' = [srvSubs EXCEPT ![c] = r.subs]
        /\ toClient' = [toClient EXCEPT ![c] = r.out]
        /\ delivered' = r.dlv
        /\ badHpub' = r.bad

\* A flush of the frames fs to connection c succeeds: BufWriter::flush
\* writes nothing when nothing is buffered.
FlushOk(c, fs) == alive[c] \/ fs = <<>>

\* A write to the live socket of c may time out: a write timeout is set on
\* it and the peer is slow.
TimesOut(c) == SlowPeer /\ deadline[c]

\* Can a write succeed, fail?  It fails when it cannot be ok, and may fail
\* when it is slow.
Outcomes(ok, slow) == IF ~ok THEN {FALSE} ELSE IF slow THEN BOOLEAN ELSE {TRUE}

FlushOutcomes(c, fs) == Outcomes(FlushOk(c, fs), TimesOut(c) /\ fs # <<>>)

\* Can an encode of one frame into the BufWriter of connection c succeed,
\* fail?  It fails only when the BufWriter has to write through to a dead
\* socket, or to one where the write times out.
EncodeOutcomes(c) == IF alive[c] /\ ~TimesOut(c) THEN {TRUE} ELSE BOOLEAN

\* NatsStream::shutdown(): reads of the connection fail after the frames
\* already received.
ShutdownStream(c) ==
    /\ alive' = [alive EXCEPT ![c] = FALSE]
    /\ toClient' = IF alive[c] THEN [toClient EXCEPT ![c] = Append(@, EOF)]
                               ELSE toClient
    /\ UNCHANGED deadline

\* States of the one-shot channel of a flush: no flush, waiting, sender
\* dropped, message sent (ghost: by the PONG answering the PING of `by`, or
\* by a reconnect).
NoFlush    == [st |-> "none", by |-> "-"]
Waiting    == [st |-> "waiting", by |-> "-"]
Dropped    == [st |-> "dropped", by |-> "-"]
SentBy(x)  == [st |-> "sent", by |-> x]
Channel    == {NoFlush, Waiting, Dropped, SentBy("reconnect")}
                \cup {SentBy(w) : w \in Waiters}

\* The one-shot channels of the waiters in ws get a message (try_send).
Complete(ws, how) ==
    /\ oneshot' = [u \in Users |-> IF u \in Range(ws) THEN how ELSE oneshot[u]]
    /\ started' = IF ConnectW \in Range(ws) /\ started = "waiting"
                  THEN "ok" ELSE started

\* The senders of the waiters in ws are dropped (pongs.clear()).  The
\* select! of connect() also returns when its pong_sender is dropped.
Abandon(ws) ==
    /\ oneshot' = [u \in Users |-> IF u \in Range(ws) THEN Dropped ELSE oneshot[u]]
    /\ started' = IF ConnectW \in Range(ws) /\ started = "waiting"
                  THEN "ok" ELSE started

\* The local-disconnect action: drop the writer, clear the expected PONGs.
LocalDisconnect ==
    /\ writer' = 0
    /\ wbuf' = <<>>
    /\ pongs' = <<>>
    /\ Abandon(pongs)

-----------------------------------------------------------------------------
NoOp == [op |-> "NONE", arg |-> 0]

\* Client::connect: the State is built and run() is spawned; the caller
\* waits in select! for the first waiter or for run() to fail.
Init ==
    /\ writer = 0
    /\ wbuf = <<>>
    /\ rbuf = <<>>
    /\ rsat = FALSE
    /\ kick = FALSE
    /\ nextSid = 1
    /\ subs = {}
    /\ pongs = <<ConnectW>>
    /\ pingsOut = 0
    /\ active = TRUE
    /\ info = FALSE
    /\ shutdown = FALSE
    /\ sup = "connect"
    /\ conn = 0
    /\ started = "waiting"
    /\ upc = [u \in Users |-> "idle"]
    /\ pend = [u \in Users |-> NoOp]
    /\ oneshot = [u \in Users |-> NoFlush]
    /\ nconns = 0
    /\ alive = [c \in Conns |-> FALSE]
    /\ hdrs = [c \in Conns |-> FALSE]
    /\ toClient = [c \in Conns |-> <<>>]
    /\ srvSubs = [c \in Conns |-> {}]
    /\ srvSent = [c \in Conns |-> 0]
    /\ deadline = [c \in Conns |-> FALSE]
    /\ delivered = {}
    /\ acked = [u \in Users |-> {}]
    /\ bufAcked = {}
    /\ badHpub = FALSE

\* connect() has returned the Client to the application (and spawned the
\* flusher/heartbeat thread).
Ready == started = "ok"

\* Publish identities in use: returned Ok, or between checks and lock.
UsedPubs == UNION {acked[u] : u \in Users}
              \cup {pend[u].arg[1] : u \in {v \in Users : upc[v] = "publish"}}

(***************************************************************************)
(* Client::publish, first half: the headers check under the server_info   *)
(* lock and check_shutdown, both released before the write lock is taken.  *)
(* The failing checks return an error and change nothing.                  *)
(***************************************************************************)
PublishCheck(u, p, h) ==
    /\ "publish" \in Ops
    /\ Ready
    /\ upc[u] = "idle"
    /\ p \notin UsedPubs
    /\ h \in PubHeaders
    /\ h => info
    /\ ~shutdown
    /\ upc' = [upc EXCEPT ![u] = "publish"]
    /\ pend' = [pend EXCEPT ![u] = PubOp(p, h)]
    /\ UNCHANGED <<client, sup, conn, started, oneshot, servers, ghosts>>

\* Client::publish, second half, under the write lock.  Disconnected: encode
\* into the reconnect buffer and flush it.  Connected: encode into the
\* writer; on error, the local disconnect; then signal the flusher.
PublishWrite(u) ==
    LET f == pend[u]
        p == f.arg[1]
    IN
    /\ upc[u] = "publish"
    /\ upc' = [upc EXCEPT ![u] = "idle"]
    /\ pend' = [pend EXCEPT ![u] = NoOp]
    /\ \/ /\ writer = 0
          /\ \/ /\ RB!Put(f)
                /\ acked' = [acked EXCEPT ![u] = @ \cup {p}]
                /\ bufAcked' = bufAcked \cup {p}
             \/ /\ RB!Refuse(f)
                /\ UNCHANGED <<acked, bufAcked>>
          /\ UNCHANGED <<writer, wbuf, kick, pongs, started, oneshot>>
       \/ /\ writer # 0
          /\ kick' = TRUE
          /\ \E ok \in EncodeOutcomes(writer) :
                IF ok THEN /\ wbuf' = Append(wbuf, f)
                           /\ acked' = [acked EXCEPT ![u] = @ \cup {p}]
                           /\ UNCHANGED <<writer, pongs, started, oneshot>>
                      ELSE /\ LocalDisconnect
                           /\ UNCHANGED acked
          /\ UNCHANGED <<rbuf, rsat, bufAcked>>
    /\ UNCHANGED <<nextSid, subs, pingsOut, active, info, shutdown, sup, conn,
                   servers, delivered, badHpub>>

\* Client::try_publish: check_shutdown, then try_lock on the write state
\* (contention returns None and changes nothing).  It makes no headers
\* check.  Connected, a frame that the estimate says may not fit in the
\* BufWriter returns None; otherwise encode, signal, and on error the local
\* disconnect.
TryPublish(u, p, h) ==
    /\ "try_publish" \in Ops
    /\ Ready
    /\ upc[u] = "idle"
    /\ p \notin UsedPubs
    /\ h \in PubHeaders
    /\ ~shutdown
    /\ \/ /\ writer = 0
          /\ \/ /\ RB!Put(PubOp(p, h))
                /\ acked' = [acked EXCEPT ![u] = @ \cup {p}]
                /\ bufAcked' = bufAcked \cup {p}
             \/ /\ RB!Refuse(PubOp(p, h))
                /\ UNCHANGED <<acked, bufAcked>>
          /\ UNCHANGED <<writer, wbuf, kick, pongs, started, oneshot>>
       \/ /\ writer # 0
          /\ kick' = TRUE
          /\ \E ok \in EncodeOutcomes(writer) :
                IF ok THEN /\ wbuf' = Append(wbuf, PubOp(p, h))
                           /\ acked' = [acked EXCEPT ![u] = @ \cup {p}]
                           /\ UNCHANGED <<writer, pongs, started, oneshot>>
                      ELSE /\ LocalDisconnect
                           /\ UNCHANGED acked
          /\ UNCHANGED <<rbuf, rsat, bufAcked>>
    /\ UNCHANGED <<nextSid, subs, pingsOut, active, info, shutdown, sup, conn,
                   upc, pend, servers, delivered, badHpub>>

\* Client::subscribe, under both locks: allocate the sid, send SUB when
\* connected (an encode error is ignored: the SUB is not buffered), signal
\* the flusher, register the subscription.
Subscribe(u) ==
    /\ "subscribe" \in Ops
    /\ Ready
    /\ upc[u] = "idle"
    /\ nextSid <= MaxSid
    /\ ~shutdown
    /\ nextSid' = nextSid + 1
    /\ subs' = subs \cup {nextSid}
    /\ IF writer # 0
       THEN /\ \E ok \in EncodeOutcomes(writer) :
                 wbuf' = IF ok THEN Append(wbuf, SubOp(nextSid)) ELSE wbuf
            /\ kick' = TRUE
       ELSE UNCHANGED <<wbuf, kick>>
    /\ UNCHANGED <<writer, rbuf, rsat, pongs, pingsOut, active, info, shutdown,
                   threads, servers, ghosts>>

\* Client::unsubscribe, under both locks: remove the subscription (absent:
\* return Ok, nothing changes), send UNSUB when connected; an encode error
\* is returned before the flusher is signalled.
Unsubscribe(u, s) ==
    /\ "unsubscribe" \in Ops
    /\ Ready
    /\ upc[u] = "idle"
    /\ s \in subs
    /\ subs' = subs \ {s}
    /\ IF writer # 0
       THEN \E ok \in EncodeOutcomes(writer) :
               IF ok THEN /\ wbuf' = Append(wbuf, UnsubOp(s))
                          /\ kick' = TRUE
                     ELSE UNCHANGED <<wbuf, kick>>
       ELSE UNCHANGED <<wbuf, kick>>
    /\ UNCHANGED <<writer, rbuf, rsat, nextSid, pongs, pingsOut, active, info,
                   shutdown, threads, servers, ghosts>>

\* Client::flush, under the read lock: the caller's one-shot is queued as
\* the next expected PONG.
QueueWaiter(u) ==
    /\ pongs' = Append(pongs, u)
    /\ oneshot' = [oneshot EXCEPT ![u] = Waiting]
    /\ upc' = [upc EXCEPT ![u] = "flush"]

\* Client::flush, under the write lock: check_shutdown; when connected,
\* set the socket's write timeout, encode a PING, flush, clear the timeout
\* (an error returns at once: no waiter queued, the timeout left set, the
\* PING left in the BufWriter); then, under the read lock, queue the
\* caller's one-shot as waiter.  What a failed flush leaves in the
\* BufWriter of a dead connection reaches nobody, and no write to it can
\* succeed whatever its timeout; the model leaves wbuf and deadline as they
\* were there.
FlushSend(u) ==
    /\ "flush" \in Ops
    /\ Ready
    /\ upc[u] = "idle"
    /\ ~shutdown
    /\ \/ /\ writer = 0
          /\ QueueWaiter(u)
          /\ UNCHANGED <<wbuf, servers, delivered, badHpub>>
       \/ /\ writer # 0
          /\ LET out == Append(wbuf, PingOp(u))
                 set == [deadline EXCEPT ![writer] = TRUE]
             IN  \E ok \in Outcomes(FlushOk(writer, out), SlowPeer) :
                   IF ok THEN /\ Transmit(writer, out)
                              /\ wbuf' = <<>>
                              /\ QueueWaiter(u)
                              /\ deadline' = [deadline EXCEPT ![writer] = FALSE]
                         ELSE /\ wbuf' = IF alive[writer] THEN out ELSE wbuf
                              /\ deadline' = IF alive[writer] THEN set ELSE deadline
                              /\ UNCHANGED <<pongs, oneshot, upc, toClient,
                                             srvSubs, delivered, badHpub>>
          /\ UNCHANGED <<nconns, alive, hdrs, srvSent>>
    /\ UNCHANGED <<writer, rbuf, rsat, kick, nextSid, subs, pingsOut, active,
                   info, shutdown, sup, conn, started, pend, acked, bufAcked>>

\* The caller of flush returns from pong.recv(): Ok when its one-shot got
\* a message, ConnectionReset when the sender was dropped.
FlushWait(u) ==
    /\ upc[u] = "flush"
    /\ oneshot[u] # Waiting
    /\ upc' = [upc EXCEPT ![u] = "idle"]
    /\ oneshot' = [oneshot EXCEPT ![u] = NoFlush]
    /\ UNCHANGED <<client, sup, conn, started, pend, servers, ghosts>>

\* Client::close, under both locks, when shutdown() reports the first call:
\* UNSUB every subscription (errors ignored) and signal, clear the table,
\* flush the writer (errors ignored), drop every expected PONG.  The writer
\* is kept.  A second close changes nothing.
Close(u) ==
    /\ "close" \in Ops
    /\ Ready
    /\ upc[u] = "idle"
    /\ ~shutdown
    /\ shutdown' = TRUE
    /\ subs' = {}
    /\ pongs' = <<>>
    /\ Abandon(pongs)
    /\ IF writer # 0
       THEN LET out == wbuf \o SetToSeq({UnsubOp(s) : s \in subs}) IN
            /\ kick' = (kick \/ subs # {})
            /\ \E ok \in FlushOutcomes(writer, out) :
               IF ok
               THEN /\ Transmit(writer, out)
                    /\ wbuf' = <<>>
               ELSE /\ wbuf' = out
                    /\ UNCHANGED <<toClient, srvSubs, delivered, badHpub>>
       ELSE UNCHANGED <<kick, wbuf, toClient, srvSubs, delivered, badHpub>>
    /\ UNCHANGED <<writer, rbuf, rsat, nextSid, pingsOut, active, info, sup,
                   conn, upc, pend, nconns, alive, deadline, hdrs, srvSent, acked,
                   bufAcked>>

-----------------------------------------------------------------------------
(***************************************************************************)
(* The client thread: Client::run, reconnect and dispatch                  *)
(***************************************************************************)

\* connector.connect(use_backoff): a fresh connection to a server that
\* announces its headers support, or, when the Connector gives up, run()
\* returns the error (connect() returns it if it is still waiting).
SupConnect ==
    /\ sup = "connect"
    /\ \/ /\ nconns < MaxConns
          /\ nconns' = nconns + 1
          /\ conn' = nconns + 1
          /\ alive' = [alive EXCEPT ![nconns + 1] = TRUE]
          /\ \E h \in SrvHeaders : hdrs' = [hdrs EXCEPT ![nconns + 1] = h]
          /\ sup' = "reconnect"
          /\ UNCHANGED started
       \/ /\ nconns = MaxConns
          /\ sup' = "final"
          /\ started' = IF started = "waiting" THEN "err" ELSE started
          /\ UNCHANGED <<nconns, conn, alive, hdrs>>
    /\ UNCHANGED <<client, upc, pend, oneshot, toClient, srvSubs, srvSent,
                   deadline, ghosts>>

\* Fault variant of Resubscribe: the subscriptions are not re-announced.
ResubscribeNone == <<>>

\* The SUB frames re-announcing the subscriptions (HashMap order).
Resubscribe == SetToSeq({SubOp(s) : s \in subs})

\* Fault variant of TakeBuffer: the reconnect buffer is written out but
\* never cleared.
TakeBufferKept == UNCHANGED <<rbuf, rsat>>

\* write.buffer.clear(): the buffered frames are taken out of the buffer.
TakeBuffer ==
    /\ rbuf' = <<>>
    /\ rsat' = FALSE

\* Client::reconnect(server_info, writer) under both locks: drop the current
\* writer, encode a SUB per subscription, take the expected PONGs, take the
\* reconnect buffer (clear), write it and flush; on success install the
\* server info and the writer and complete every taken PONG.  An error of
\* the SUB encodes returns before anything is taken; an error of the write
\* or the flush returns after.  A closed client fails at check_shutdown.
SupReconnect ==
    LET c == conn
        out == Resubscribe \o rbuf
    IN
    /\ sup = "reconnect"
    /\ \/ /\ shutdown
          /\ sup' = "reset"
          /\ UNCHANGED <<writer, wbuf, rbuf, rsat, kick, pongs, info, started,
                         oneshot, toClient, srvSubs, delivered, badHpub>>
       \/ /\ ~shutdown
          /\ ~alive[c]
          /\ subs # {}
          /\ writer' = 0
          /\ wbuf' = <<>>
          /\ sup' = "reset"
          /\ UNCHANGED <<rbuf, rsat, kick, pongs, info, started, oneshot,
                         toClient, srvSubs, delivered, badHpub>>
       \/ /\ ~shutdown
          /\ TakeBuffer
          /\ pongs' = <<>>
          /\ wbuf' = <<>>
          /\ IF FlushOk(c, out)
             THEN /\ Transmit(c, out)
                  /\ info' = hdrs[c]
                  /\ writer' = c
                  /\ Complete(pongs, SentBy("reconnect"))
                  /\ kick' = (kick \/ Kicker \in Range(pongs))
                  /\ sup' = "dispatch"
             ELSE /\ writer' = 0
                  /\ Abandon(pongs)
                  /\ sup' = "reset"
                  /\ UNCHANGED <<kick, info, toClient, srvSubs, delivered,
                                 badHpub>>
    /\ UNCHANGED <<nextSid, subs, pingsOut, active, shutdown, conn, upc, pend,
                   nconns, alive, deadline, hdrs, srvSent, acked, bufAcked>>

\* The frame dispatch() decodes next from the current connection.
Frame == Head(toClient[conn])

\* One frame is taken from the connection (reader).
Consume == toClient' = [toClient EXCEPT ![conn] = Tail(@)]

Dispatching ==
    /\ sup = "dispatch"
    /\ toClient[conn] # <<>>

\* decode() reports the end of the stream: dispatch() returns ConnectionReset.
DispatchEof ==
    /\ Dispatching
    /\ Frame = EOF
    /\ Consume
    /\ sup' = "lost"
    /\ UNCHANGED <<client, conn, started, upc, pend, oneshot, nconns, alive, deadline,
                   hdrs, srvSubs, srvSent, ghosts>>

\* A frame decoded after close(): dispatch() breaks out of its loop and
\* returns ConnectionReset like at the end of the stream, so run() goes
\* through the lost-connection path and then sees the flag.
DispatchClosed ==
    /\ Dispatching
    /\ Frame # EOF
    /\ shutdown
    /\ Consume
    /\ sup' = "lost"
    /\ UNCHANGED <<client, conn, started, upc, pend, oneshot, nconns, alive, deadline,
                   hdrs, srvSubs, srvSent, ghosts>>

\* Fault variant of Decoded: the shutdown flag is not checked per frame.
DecodedNoShutdownCheck(op) ==
    /\ Dispatching
    /\ Frame.op = op
    /\ active' = TRUE

\* Every frame decoded before close() updates the activity first.
Decoded(op) ==
    /\ Dispatching
    /\ Frame.op = op
    /\ ~shutdown
    /\ active' = TRUE

\* ServerOp::Info: replace the server info.
DispatchInfo ==
    /\ Decoded("INFO")
    /\ Consume
    /\ info' = Frame.arg
    /\ UNCHANGED <<writer, wbuf, rbuf, rsat, kick, nextSid, subs, pongs,
                   pingsOut, shutdown, threads, nconns, alive, deadline, hdrs, srvSubs,
                   srvSent, ghosts>>

\* ServerOp::Ping: when connected, encode a PONG and signal the flusher; an
\* encode error ends dispatch() with that error.
DispatchPing ==
    /\ Decoded("PING")
    /\ Consume
    /\ IF writer # 0
       THEN \E ok \in EncodeOutcomes(writer) :
               IF ok THEN /\ wbuf' = Append(wbuf, PongOp)
                          /\ kick' = TRUE
                          /\ UNCHANGED sup
                     ELSE /\ sup' = "lost"
                          /\ UNCHANGED <<wbuf, kick>>
       ELSE UNCHANGED <<wbuf, kick, sup>>
    /\ UNCHANGED <<writer, rbuf, rsat, nextSid, subs, pongs, pingsOut, info,
                   shutdown, conn, started, upc, pend, oneshot, nconns, alive, deadline,
                   hdrs, srvSubs, srvSent, ghosts>>

\* Fault variant of DispatchPong: pings_out decremented instead of cleared.
DispatchPongDecrement ==
    /\ Decoded("PONG")
    /\ Consume
    /\ pingsOut' = pingsOut - 1
    /\ IF writer # 0 /\ pongs # <<>>
       THEN /\ pongs' = Tail(pongs)
            /\ Complete(<<Head(pongs)>>, SentBy(Frame.arg))
            /\ kick' = (kick \/ Head(pongs) = Kicker)
       ELSE UNCHANGED <<pongs, started, oneshot, kick>>
    /\ UNCHANGED <<writer, wbuf, rbuf, rsat, nextSid, subs, info, shutdown,
                   sup, conn, upc, pend, nconns, alive, deadline, hdrs, srvSubs, srvSent,
                   ghosts>>

\* ServerOp::Pong: pings_out := 0; when connected, complete the first
\* expected PONG.  A PONG read while disconnected completes nothing.
DispatchPong ==
    /\ Decoded("PONG")
    /\ Consume
    /\ pingsOut' = 0
    /\ IF writer # 0 /\ pongs # <<>>
       THEN /\ pongs' = Tail(pongs)
            /\ Complete(<<Head(pongs)>>, SentBy(Frame.arg))
            /\ kick' = (kick \/ Head(pongs) = Kicker)
       ELSE UNCHANGED <<pongs, started, oneshot, kick>>
    /\ UNCHANGED <<writer, wbuf, rbuf, rsat, nextSid, subs, info, shutdown,
                   sup, conn, upc, pend, nconns, alive, deadline, hdrs, srvSubs, srvSent,
                   ghosts>>

\* ServerOp::Msg / Hmsg: offered to the subscription's channel if it is
\* still registered (the channel is outside the model).
DispatchMsg ==
    /\ Decoded("MSG")
    /\ Consume
    /\ UNCHANGED <<writer, wbuf, rbuf, rsat, kick, nextSid, subs, pongs,
                   pingsOut, info, shutdown, threads, nconns, alive, deadline, hdrs,
                   srvSubs, srvSent, ghosts>>

\* dispatch() failed: the disconnect callback, then writer := None.  The
\* expected PONGs stay queued for the next reconnect.
SupLost ==
    /\ sup = "lost"
    /\ writer' = 0
    /\ wbuf' = <<>>
    /\ sup' = "reset"
    /\ UNCHANGED <<rbuf, rsat, kick, nextSid, subs, pongs, pingsOut, active,
                   info, shutdown, conn, started, upc, pend, oneshot, servers,
                   ghosts>>

\* End of a round of run(): pings_out := 0, then check_shutdown.
SupReset ==
    /\ sup = "reset"
    /\ pingsOut' = 0
    /\ sup' = IF shutdown THEN "final" ELSE "connect"
    /\ UNCHANGED <<writer, wbuf, rbuf, rsat, kick, nextSid, subs, pongs,
                   active, info, shutdown, conn, started, upc, pend, oneshot,
                   servers, ghosts>>

\* After run() returns: a last flush of the writer (errors ignored), then
\* the close callback; the thread ends.
SupFinal ==
    /\ sup = "final"
    /\ sup' = "exited"
    /\ \E ok \in IF writer # 0 THEN FlushOutcomes(writer, wbuf) ELSE {FALSE} :
       IF ok
       THEN /\ Transmit(writer, wbuf)
            /\ wbuf' = <<>>
       ELSE UNCHANGED <<wbuf, toClient, srvSubs, delivered, badHpub>>
    /\ UNCHANGED <<writer, rbuf, rsat, kick, nextSid, subs, pongs, pingsOut,
                   active, info, shutdown, conn, started, upc, pend, oneshot,
                   nconns, alive, deadline, hdrs, srvSent, acked, bufAcked>>

-----------------------------------------------------------------------------
(***************************************************************************)
(* The flusher/heartbeat thread: flush_wanted.recv_timeout(PING_INTERVAL)  *)
(***************************************************************************)

\* A flush signal arrives: (after the MIN_FLUSH_BETWEEN pause) flush the
\* writer under the write lock; on error shut the stream down, drop the
\* writer and clear the expected PONGs.
HbFlush ==
    /\ Ready
    /\ kick
    /\ kick' = FALSE
    /\ IF writer = 0
       THEN UNCHANGED <<writer, wbuf, pongs, started, oneshot, alive, deadline, toClient,
                        srvSubs, delivered, badHpub>>
       ELSE \E ok \in FlushOutcomes(writer, wbuf) :
       IF ok
       THEN /\ Transmit(writer, wbuf)
            /\ wbuf' = <<>>
            /\ UNCHANGED <<writer, pongs, started, oneshot, alive, deadline>>
       ELSE /\ ShutdownStream(writer)
            /\ LocalDisconnect
            /\ UNCHANGED <<srvSubs, delivered, badHpub>>
    /\ UNCHANGED <<rbuf, rsat, nextSid, subs, pingsOut, active, info, shutdown,
                   sup, conn, upc, pend, nconns, hdrs, srvSent, acked,
                   bufAcked>>

\* Fault variant of HbStale: the connection is dropped but the expected
\* PONGs are left queued.
HbStaleKeepsPongs ==
    /\ pingsOut >= MAX_PINGS_OUT
    /\ IF writer # 0 THEN ShutdownStream(writer)
                     ELSE UNCHANGED <<alive, deadline, toClient>>
    /\ writer' = 0
    /\ wbuf' = <<>>
    /\ UNCHANGED <<pingsOut, pongs, started, oneshot, srvSubs, delivered,
                   badHpub>>

\* Fault variant of HbStale: the writer is dropped but the stream is not
\* shut down.
HbStaleNoShutdown ==
    /\ pingsOut >= MAX_PINGS_OUT
    /\ LocalDisconnect
    /\ UNCHANGED <<pingsOut, alive, deadline, toClient, srvSubs, delivered, badHpub>>

\* PING_INTERVAL passes without a signal, with MAX_PINGS_OUT unanswered
\* PINGs: shut the stream down, writer := None, clear the expected PONGs.
HbStale ==
    /\ pingsOut >= MAX_PINGS_OUT
    /\ IF writer # 0 THEN ShutdownStream(writer)
                     ELSE UNCHANGED <<alive, deadline, toClient>>
    /\ LocalDisconnect
    /\ UNCHANGED <<pingsOut, srvSubs, delivered, badHpub>>

\* Fewer PINGs out and nothing arrived for PING_INTERVAL: count a PING out,
\* queue the flush_kicker as waiter, and when connected encode a PING
\* (error ignored) and flush it; a flush error disconnects as above.
HbPing ==
    /\ pingsOut < MAX_PINGS_OUT
    /\ pingsOut' = pingsOut + 1
    /\ LET q == Append(pongs, Kicker)
           out == Append(wbuf, PingOp(Kicker))
       IN
       IF writer = 0
       THEN /\ pongs' = q
            /\ UNCHANGED <<writer, wbuf, started, oneshot, alive, deadline, toClient,
                           srvSubs, delivered, badHpub>>
       ELSE \E ok \in FlushOutcomes(writer, out) :
       IF ok
       THEN /\ Transmit(writer, out)
            /\ wbuf' = <<>>
            /\ pongs' = q
            /\ UNCHANGED <<writer, started, oneshot, alive, deadline>>
       ELSE /\ ShutdownStream(writer)
            /\ writer' = 0
            /\ wbuf' = <<>>
            /\ pongs' = <<>>
            /\ Abandon(q)
            /\ UNCHANGED <<srvSubs, delivered, badHpub>>

\* Fewer PINGs out but a frame arrived within PING_INTERVAL: nothing to do.
HbIdle ==
    /\ pingsOut < MAX_PINGS_OUT
    /\ active
    /\ UNCHANGED <<pingsOut, writer, wbuf, pongs, started, oneshot, alive, deadline,
                   toClient, srvSubs, delivered, badHpub>>

\* recv_timeout(PING_INTERVAL) times out; the handler runs under both
\* locks.  When a frame arrived since the last timeout, PING_INTERVAL may
\* or may not have passed since it (last_active), so both HbPing and HbIdle
\* are possible; when none did, only HbPing is.
HbTimeout ==
    /\ Ready
    /\ ~kick
    /\ active' = FALSE
    /\ HbStale \/ HbPing \/ HbIdle
    /\ UNCHANGED <<rbuf, rsat, kick, nextSid, subs, info, shutdown, sup, conn,
                   upc, pend, nconns, hdrs, srvSent, acked, bufAcked>>

-----------------------------------------------------------------------------
(***************************************************************************)
(* The server of the current connection, the environment                   *)
(***************************************************************************)

\* The server sends a frame of its own: a PING, a MSG for a subscription it
\* holds, an INFO.
ServerSend ==
    LET c == conn IN
    /\ c # 0
    /\ alive[c]
    /\ srvSent[c] < MaxSrvFrames
    /\ \E f \in {[op |-> "PING", arg |-> 0], [op |-> "INFO", arg |-> hdrs[c]]}
                \cup {[op |-> "MSG", arg |-> s] : s \in srvSubs[c]} :
          toClient' = [toClient EXCEPT ![c] = Append(@, f)]
    /\ srvSent' = [srvSent EXCEPT ![c] = @ + 1]
    /\ UNCHANGED <<client, threads, nconns, alive, deadline, hdrs, srvSubs, ghosts>>

\* The connection breaks (the server closes it or the network fails).
ServerDrop ==
    /\ conn # 0
    /\ alive[conn]
    /\ ShutdownStream(conn)
    /\ UNCHANGED <<client, threads, nconns, hdrs, srvSubs, srvSent, ghosts>>

-----------------------------------------------------------------------------
UserStep(u) ==
    \/ \E p \in Pubs, h \in BOOLEAN : PublishCheck(u, p, h) \/ TryPublish(u, p, h)
    \/ PublishWrite(u)
    \/ Subscribe(u)
    \/ \E s \in Sids : Unsubscribe(u, s)
    \/ FlushSend(u)
    \/ FlushWait(u)
    \/ Close(u)

ClientThread ==
    \/ SupConnect \/ SupReconnect \/ SupLost \/ SupReset \/ SupFinal
    \/ DispatchEof \/ DispatchClosed \/ DispatchInfo \/ DispatchPing
    \/ DispatchPong \/ DispatchMsg

Heartbeat == HbFlush \/ HbTimeout

Server == ServerSend \/ ServerDrop

Next ==
    \/ \E u \in Users : UserStep(u)
    \/ ClientThread
    \/ Heartbeat
    \/ Server

(***************************************************************************)
(* Fairness: the client thread and the heartbeat thread are never starved  *)
(* (recv_timeout returns at the latest after PING_INTERVAL), and a user    *)
(* thread blocked in pong.recv() wakes once its channel holds a message or *)
(* is disconnected.  The application and the servers owe nothing.          *)
(***************************************************************************)
Fairness ==
    /\ WF_vars(ClientThread)
    /\ WF_vars(HbFlush)
    /\ WF_vars(HbTimeout)
    /\ \A u \in Users : WF_vars(FlushWait(u))

Spec == Init /\ [][Next]_vars

FairSpec == Spec /\ Fairness

-----------------------------------------------------------------------------
TypeOK ==
    /\ writer \in 0..MaxConns
    /\ wbuf \in Seq(ClientFrames)
    /\ RB!TypeOK
    /\ kick \in BOOLEAN
    /\ nextSid \in 1..MaxSid + 1
    /\ subs \subseteq 1..nextSid - 1
    /\ pongs \in Seq(Waiters)
    /\ pingsOut \in 0..MAX_PINGS_OUT
    /\ {active, info, shutdown, badHpub} \subseteq BOOLEAN
    /\ sup \in {"connect", "reconnect", "dispatch", "lost", "reset", "final",
                "exited"}
    /\ conn \in 0..MaxConns
    /\ started \in {"waiting", "ok", "err"}
    /\ upc \in [Users -> {"idle", "publish", "flush"}]
    /\ oneshot \in [Users -> Channel]
    /\ nconns \in 0..MaxConns
    /\ alive \in [Conns -> BOOLEAN] /\ deadline \in [Conns -> BOOLEAN]
    /\ srvSubs \in [Conns -> SUBSET Sids]
    /\ srvSent \in [Conns -> 0..MaxSrvFrames]
    /\ delivered \subseteq Pubs

-----------------------------------------------------------------------------
(***************************************************************************)
(* Properties                                                              *)
(***************************************************************************)

\* The subscriptions the server of connection c will hold once it has
\* processed what the client has encoded but not yet flushed.
ServerView(c) ==
    FoldLeft(LAMBDA S, f : CASE f.op = "SUB"   -> S \cup {f.arg}
                             [] f.op = "UNSUB" -> S \ {f.arg}
                             [] OTHER          -> S,
             srvSubs[c], wbuf)

(***************************************************************************)
(* Subscription restoration (subscribe, unsubscribe, close, reconnect):    *)
(* while the client has a writer on a live connection, the server of that *)
(* connection holds, or is about to hold, exactly the client's             *)
(* subscriptions, whatever reconnects and disconnections came before.      *)
(***************************************************************************)
SubscriptionsRestored ==
    writer # 0 /\ alive[writer] => ServerView(writer) = subs

(***************************************************************************)
(* PONG FIFO (flush, dispatch of PONG, heartbeat PING): a flush completed  *)
(* by a PONG is completed by the PONG that answers its own PING, never by *)
(* one answering an earlier PING or a PING of another caller.             *)
(***************************************************************************)
PongFifo ==
    \A u \in Users :
        oneshot[u] \in {SentBy(w) : w \in Waiters} => oneshot[u].by = u

(***************************************************************************)
(* The assertion assert_eq!(written, 0) of Client::publish: whenever a     *)
(* writer is installed the reconnect buffer is empty, across every         *)
(* interleaving of publishes, failed and successful reconnects.           *)
(***************************************************************************)
BufferEmptyWhileConnected ==
    writer # 0 => rbuf = <<>> /\ ~rsat

(***************************************************************************)
(* Liveness (flush, reconnect, heartbeat): a flush that has queued its     *)
(* waiter eventually returns, Ok or ConnectionReset, even when the server *)
(* never answers or the Connector gives up.                                *)
(***************************************************************************)
FlushReturns ==
    \A u \in Users : upc[u] = "flush" ~> upc[u] = "idle"

(***************************************************************************)
(* Every local disconnect (a failed flush or PING of the heartbeat, the    *)
(* stale-connection branch, an encode error in publish) and every lost     *)
(* connection is followed by a reconnect that installs a writer, or by the *)
(* end of the client thread: "the Supervisor later re-establishes the      *)
(* connection".  The writer is dropped under the write lock by one thread  *)
(* while the client thread, which alone reconnects, is blocked reading     *)
(* the stream, so the stream must be made to end.                          *)
(***************************************************************************)
DisconnectRecovers == writer = 0 ~> (writer # 0 \/ sup = "exited")

(***************************************************************************)
(* close(): "the Supervisor observes shutdown on its next guard and exits" *)
(* and its final act is the last flush and the close callback.  close()    *)
(* keeps the writer and does not shut the stream down, and dispatch()      *)
(* checks the flag only after it decodes a frame, so the client thread,    *)
(* blocked reading, must be woken by the server's traffic, a PONG to a     *)
(* heartbeat PING, or the stale branch's shutdown of the stream.          *)
(***************************************************************************)
CloseTerminates == shutdown ~> sup = "exited"

(***************************************************************************)
(* Reconnect replay (reconnect, publish while disconnected): a publish the *)
(* reconnect buffer accepted is still buffered or has reached a server.    *)
(***************************************************************************)
BufferedPublishesKept ==
    bufAcked \subseteq delivered \cup {f.arg[1] : f \in Range(rbuf)}

(***************************************************************************)
(* Headers (publish, try_publish, reconnect): a message with headers only *)
(* reaches a server that announced headers support.                        *)
(***************************************************************************)
HeadersOnlyWhereSupported == ~badHpub
=============================================================================
