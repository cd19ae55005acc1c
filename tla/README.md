# TLA+ models of the nats.rs blocking client (`src/client.rs`)

This directory holds TLA+ specifications of the connection engine in
`src/client.rs`, the TLC models that check them, and `PROJECT.json`. That file
lists the components, runs, fault variants (mutants), the source lines each
definition models, the findings and the hazards.

## The system

`Client` is a cheaply clonable handle on a shared `State`:

* `State.write` (`WriteState`) holds the following:
  * the active `BufWriter` (`writer`, `None` while disconnected or reconnecting);
  * the `flush_kicker` channel of capacity 1;
  * the reconnect `buffer`;
  * `next_sid`.
* `State.read` (`ReadState`) holds the following:
  * the `subscriptions` table;
  * the queue of expected PONGs (`pongs`, one-shot senders);
  * `last_active`;
  * `pings_out`.
* `shutdown` and `server_info` have mutexes of their own.
* The code's rule is that `write` is always locked before `read`.

Three kinds of thread share it:

* **The client thread** is spawned by `connect`. It runs `run()`, a loop of:
  * `Connector::connect`;
  * `reconnect()`, which re-announces the subscriptions, takes the pending
    PONGs, replays the reconnect buffer, installs the writer and completes the
    PONGs;
  * `dispatch()`, which decodes INFO, PING, PONG and MSG until the stream ends.

  After `run()` returns, the thread does one last flush.
* **The flusher/heartbeat thread** is spawned once `connect` returns. It waits
  on `flush_kicker` with a `PING_INTERVAL` timeout:
  * on a signal, it flushes the writer;
  * on a timeout, it either drops a connection with `MAX_PINGS_OUT` unanswered
    PINGs, or sends a PING whose PONG completes a `flush_kicker` waiter.
* **Application threads** call `publish`, `try_publish`, `subscribe`,
  `unsubscribe`, `flush`, `close` and `server_info`. `Message::respond`, `ack`
  and `ack_kind` are `publish` calls.

While disconnected, `publish` encodes into the fixed-size reconnect `Buffer`
(`written`/`flushed`). A frame that does not fit saturates the buffer.

`flush` sends a PING and queues a one-shot sender. It returns when a PONG, a
reconnect or a `pongs.clear()` completes or drops that sender.

## Modules

| Module | Models | State ↔ code |
|---|---|---|
| `ReconnectBuffer` | What `Buffer` promises: whole frames, saturation, `clear` hands back the frames | `frames` = decoded `bytes[..flushed]`, `sat` = `written == len` |
| `ReconnectBufferBytes` | `Buffer::new/clear/write/flush` byte by byte, with `proto::encode` as a sequence of `write()` calls that stops at the first error | `bytes`, `written`, `flushed`; `enc` = the encode in progress |
| `NatsClient` | `connect`, every Client operation, `run`/`reconnect`/`dispatch`, the heartbeat thread, and one server per connection as the environment | see below |
| `JsAckInfo` | `Message::jetstream_message_info`: split, the 10-slot token array, the `try_parse!` chains of both branches, against `Reference`, the two documented subject formats | `reply`, `done`, `info` |
| `DoubleAck` | `Message::respond`, `ack`, `ack_kind` and `double_ack` on clones sharing `double_acked`, with `close`; the server processes acks and answers reply subjects; acks and replies may be lost or late | `flag`, `closed`, `pc`/`gen` per thread, `ackNet`, `replyNet`, `faults` |
| `LockOrder` | The sequence of lock acquisitions and releases of every function that takes a lock, run by the three kinds of thread | `owner` of each of the four mutexes, `prog`/`pc` of each thread |
| `MC_*` | Model values, operation subsets, bounds, symmetry | — |

### NatsClient

Each operation that runs under `state.write` is one atomic action. All of
them take the write lock first, so they are serialised by it. Operations that
take no lock, or only `read`, touch data that no other step reads in between.
The lock order itself is checked separately in `LockOrder`.

`publish` is split at the point where it releases `server_info` and
`shutdown` and takes `write`:

* `PublishCheck` is the first half.
* `PublishWrite` is the second half.

The reason for the split is that a reconnect can run in between, and this is
where the stale-headers finding comes from.

`flush` has two actions:

* `FlushSend` runs under the lock.
* `FlushWait` is the blocked `pong.recv()`.

The state maps to the code as follows:

* Write state:
  * `writer`: the connection number, or 0 for `None`;
  * `wbuf`: frames in the `BufWriter` not yet flushed;
  * `rbuf`/`rsat`: the reconnect buffer, as the `ReconnectBuffer` instance `RB`, with one frame per unit of capacity;
  * `kick`: `flush_kicker`;
  * `nextSid`.
* Read state: `subs`, `pongs` (a queue of waiters), `pingsOut` and `active`.
  `active` means a frame has arrived since the last heartbeat timeout; it stands in for `last_active`.
* `info` and `shutdown`.
* The client thread: `sup` (where `run()` is), `conn` and `started` (connect's `select!`).
* Application threads: `upc`, `pend` and `oneshot`.
* The servers: `nconns`, `alive`, `hdrs`, `toClient`, `srvSubs`, `srvSent`,
  and `deadline`: a write timeout is set on the connection's socket.
* Ghost variables for the properties: `delivered`, `acked`, `bufAcked` and `badHpub`.

The heartbeat's timeout is `HbTimeout`, with three branches:

* `HbStale`: the `pings_out >= MAX_PINGS_OUT` branch.
* `HbPing`: the PING branch.
* `HbIdle`: a frame arrived less than `PING_INTERVAL` ago. Time is not
  modelled, so after a frame has arrived both `HbPing` and `HbIdle` are
  possible.

Bytes are abstracted to frames, and the environment is modelled as follows:

* A write to the `BufWriter` of a dead connection fails when the flush reaches
  the socket (`FlushOk`).
* An encode may fail there too (`EncodeOutcomes`), because a full `BufWriter`
  writes through.
* Each connection's server processes flushed frames in order (`Transmit`). It
  may also send a PING, an INFO or a MSG of its own (`ServerSend`), and the
  connection may break at any time (`ServerDrop`).
* With `SlowPeer = TRUE`, a write to a live socket may time out. `flush`
  sets the write timeout itself, so its PING write may time out. Any later
  write to that socket (`FlushOutcomes`, `EncodeOutcomes`) may time out while
  `deadline` is still set. `flush` leaves it set when its write fails
  (281-284). With `SlowPeer = FALSE`, writes fail only on a dead connection.
* A SUB whose encode fails is not buffered: `subscribe` ignores the error
  (`.ok()`) and registers the subscription anyway.
* The Connector hands out `MaxConns` connections, each announcing headers
  support from `SrvHeaders`, and then gives up.

## Runs

| Run | cfg | Checks | Shows |
|---|---|---|---|
| buffer_refinement | `MC_ReconnectBufferBytes.cfg` | `TypeOK`, `ImplementsReconnectBuffer` | Bytes never make a torn frame visible. The byte-level buffer refines the whole-frame buffer. |
| client_publish | `MC_NatsClient_pub.cfg` | `TypeOK`, `BufferEmptyWhileConnected` | With `publish`, `try_publish`, `flush` and `close`, across reconnects, heartbeat PINGs, stale PONGs and close: `assert_eq!(written, 0)` in `publish` cannot fire. |
| client_subscriptions | `MC_NatsClient_subs.cfg` | `SubscriptionsRestored` | The live server holds exactly the client's subscriptions. |
| client_flush_returns | `MC_NatsClient_live.cfg` | `FlushReturns`, `DisconnectRecovers`, `CloseTerminates` (liveness) | Every flush returns. Every disconnect is followed by a reconnect or the end of the client thread, when no write times out. After `close()` the client thread ends, although `close` neither drops the writer nor shuts the stream down: the heartbeat's PINGs make the server send the frame after which `dispatch` sees the flag, breaks out and returns `ConnectionReset` (819); `run()` then takes the lost-connection path (609-610) and sees the flag at its next check. |
| lock_order | `MC_LockOrder.cfg` | `NoCircularWait` | No circular wait among the four mutexes. |
| double_ack_ok | `MC_DoubleAck_safety.cfg` | `DoubleAckReturnsWhileOpen` | `double_ack` returns while the client is open, with up to three lost acks, lost or late replies and failed publishes. |
| slow_peer_no_reconnect | `MC_NatsClient_slow.cfg` | `DisconnectRecovers` | **Violated**: see Findings. |
| pong_after_failed_flush | `MC_NatsClient_pongs.cfg` | `PongFifo` | **Violated**: see Findings. |
| replay_loses_buffer | `MC_NatsClient_replay.cfg` | `BufferedPublishesKept` | **Violated**: see Findings. |
| publish_headers_stale | `MC_NatsClient_hpub_stale.cfg` | `HeadersOnlyWhereSupported` | **Violated**: see Findings. |
| js_ack_nine_tokens | `MC_JsAckInfo_nine.cfg` | `WellFormedIsParsed` | **Violated**: see Findings. |
| double_ack_after_close | `MC_DoubleAck_closed.cfg` | `DoubleAckReturns` | **Violated**: see Findings. |

Every property of a passing run has a fault variant, defined in its module
just before the definition it replaces. TLC finds the property violated when
the variant is substituted:

* `WriteOkOffByOne`: an off-by-one in the fit check.
* `WriteFullKeepsWritten`: a failed write that does not saturate the buffer.
* `DispatchPongDecrement`: `pings_out` decremented instead of cleared.
* `TakeBufferKept`: the buffer is never cleared.
* `ResubscribeNone`: the subscriptions are not re-announced.
* `HbStaleKeepsPongs`: the stale branch does not clear `pongs`.
* `HbStaleNoShutdown`: the stale branch drops the writer without shutting the
  stream down.
* `DecodedNoShutdownCheck`: `dispatch` does not check the shutdown flag per
  frame.
* `UnsubscribeReadFirst`: the swapped lock order.
* `WaitTimeoutNoRepublish`: a timeout retries the wait without publishing
  the ack again.

## Findings

1. **A flush timeout can stop reconnection for good.** `flush` sets a write
   timeout (281) and returns on a failed flush (283) before clearing it (284).
   A later `publish` whose encode writes through then times out on the live
   connection. Its error path (496-500) drops the writer without shutting the
   stream down. `dispatch` keeps blocking on the open connection, and the
   heartbeat's stale branch has no writer to shut down (219-221). So `run()`
   never reconnects, as long as the server keeps the connection open. The spec says the Supervisor later re-establishes the
   connection, and that the write deadline is cleared after the PING.
2. **A failed flush leaves an orphaned PING** (283). `flush` returns the
   error before queuing its waiter (289-290) and keeps the writer, with the
   PING still in the `BufWriter`. The next flush writes that PING out with its
   own, and `dispatch` pairs PONGs with waiters in FIFO order (746). So the
   orphaned PING's PONG completes the next waiter, and that flush returns Ok
   while its own PING is unanswered. The spec says each queue entry stands
   for a PING that was sent, and that a flush completes on its matching PONG.
   `PongFifo` holds when no write times out (`SlowPeer = FALSE`).
3. **A failed replay loses buffered publishes.** `reconnect` clears the
   reconnect buffer (668) before `write_all`/`flush` (671-672). When the new
   connection fails at that point, every buffered publish is lost, although
   each of them returned Ok.
4. **`publish`'s headers check is stale** (451-458). An HPUB accepted while
   connected to a server with headers support is buffered and replayed to the
   next server, before that server's `server_info` is even installed (675).
5. **A 9-token ack subject is not parsed** (1169). The `>= 9` branch reads the
   trailing token under `if n_tokens >= 9`, which always holds there, so a
   subject with exactly 9 tokens makes the whole call return `None`.
6. **`double_ack` never returns after `close`** (1043). Every `subscribe`
   error is retried after a sleep, including the permanent `NotConnected`.

Remarks, not runs: `try_publish` makes no headers check (515-584), so it
sends HPUB to servers without headers support. `publish` releases the
shutdown mutex after its check (461) before it takes the write lock (477),
so a `close()` in between lets it buffer a frame that no reconnect will send
and return Ok. TLC reaches this with two threads; it is the same split as
finding 4. A `flush` pending across a
lost connection is completed by the next reconnect although the old
connection's frames may be lost; the spec asks for exactly that.

## Bounds and why they suffice

Overall, each run makes its question's scenarios reachable within a few
minutes. The counterexamples and the mutants show that the interesting
interleavings occur under these bounds.

* **Connections and server frames.** `MaxConns = 2` gives one reconnect;
  the subscription run has `MaxConns = 3`, so a table changed across two
  disconnects is re-announced on a third connection. That
  is where every finding and `SubscriptionsRestored` bite: across a
  disconnect, a failed replay and a successful one. `MaxSrvFrames = 1` lets
  each server send one PING, INFO or MSG of its own.
* **Buffer, sids and users.**
  * `BufCap = 1`: one frame fits and the next saturates the buffer.
  * `MaxSid = 1`: one sid in general.
  * `MaxSid = 2` in the subscription run.
  * Two application threads where threads race: the subscriptions, flush and
    lock-order runs.
  * One thread in the run with every operation, which is otherwise too large.
* **Queues.** `pongs` and the PONGs in flight grow without bound while the
  client thread lags behind the heartbeat. `MC_NatsClient!QueueBound` cuts
  them at `MaxQueued = 3`, which covers two heartbeat PINGs plus a flush PING
  outstanding at once.
* **Byte buffer.** The byte-buffer model has a 5-byte buffer and frames of 1
  and 1+2 bytes. A partial frame can then sit behind a committed one, and a
  smaller frame can still fit after a failed write.

* **Ack subjects.** `JsAckInfo` parses every ack subject of 6 to 10 tokens,
  each a number or `"_"`. That covers both branches and every token count
  around the `7` and `>= 9` bounds, including the 9 tokens of finding 5.
* **double_ack.** Two threads and `MaxFaults = 3` in all: lost acks, lost
  or late replies and failed publishes. That is enough for a late reply to a
  dropped inbox followed by a republish, on either thread.
* **Slow peer.** `SlowPeer = TRUE` only in the two violation runs: one
  thread calling `publish` and `flush`, and one thread with every publish
  operation. With `SlowPeer = TRUE` the client_publish instance took more
  than eight minutes, so that run keeps `SlowPeer = FALSE`. The frames a timed-out flush leaves in
  the `BufWriter` of a live connection are cut at `MaxQueued`.

Symmetry over application threads is used only in the safety runs.

## Fairness

`FairSpec` assumes weak fairness for three things:

* **The client thread.** It never blocks on anything but the locks and the
  socket, and the server side is modelled.
* **Each of the heartbeat's two branches.** `recv_timeout` returns at the
  latest after `PING_INTERVAL`.
* **A thread blocked in `pong.recv()`.** Such a thread wakes once its channel
  holds a message or is disconnected.

Application threads and servers are given no fairness: they owe the client
nothing. In particular no server is assumed to drop a connection.

`DoubleAck`'s `FairSpec` gives each thread weak fairness on its loop, since
`next_timeout` returns after 100 ms, and weak fairness per thread on the
server processing that thread's acks. A single fairness condition on every
ack would let one thread's repeated `ack()` starve another thread's acks.
Faults and the calls threads make are owed nothing.

## Not modelled

* **`is_no_responders`, `message_id` and Display/Debug.** The first is a
  pure predicate on the payload and a headers map, the second reads a
  header, the rest is formatting; none changes state.
* **The Connector, `proto` and `NatsStream`.** They are not in `src/` and are
  abstracted to their outcomes.
* **The test hooks `inject_delay` and `inject_io_failure`.**
* **Subjects, payloads, queue groups and the MSG subscription channels.**
  Messages handed to a subscription change no client state.
* **Time.** `last_active` is abstracted to the `active` flag. A socket write
  timeout is only whether it is set (`deadline`), and a slow peer may make
  any write under it fail.

## Plan for later work

1. A violation run for the hazard at 218. `pings_out` is not reset when a
   connection is installed, so PINGs counted during a long
   `connector.connect` make the next timeout shut the fresh connection down.
   TLC reaches a reconnect that installs a writer with `pings_out = 2`.
2. A `respond`/`ack_kind` step in `DoubleAck`, with the ack kinds.
