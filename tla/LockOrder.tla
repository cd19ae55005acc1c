----------------------------- MODULE LockOrder -----------------------------
(***************************************************************************)
(* The locking protocol of src/client.rs.  Client holds four mutexes:      *)
(* state.write, state.read, shutdown and server_info (parking_lot, not     *)
(* reentrant).  State's doc comment demands that write is always taken     *)
(* before read.  Each function that takes locks is modelled by the         *)
(* sequence of acquisitions and releases it performs, in source order      *)
(* (a guard held to the end of a scope is released there).  Where a lock   *)
(* is taken only on an error path, the path that takes it is modelled: it  *)
(* holds a superset of the locks of the other path at every point.        *)
(*                                                                         *)
(* Three kinds of thread run these functions concurrently: the client     *)
(* thread (run, reconnect, dispatch, the final flush), the flusher /       *)
(* heartbeat thread, and the application threads (the Client API, and     *)
(* Message::respond / ack, which call publish).                            *)
(***************************************************************************)
EXTENDS Naturals, Sequences, Graphs

CONSTANTS
    Apps,       \* application threads
    None        \* no owner

W == "write"
R == "read"
S == "shutdown"
I == "server_info"
Locks == {W, R, S, I}

Acq(l) == [do |-> "acq", lock |-> l]     \* lock(): blocks while held
Try(l) == [do |-> "try", lock |-> l]     \* try_lock(): returns on contention
Rel(l) == [do |-> "rel", lock |-> l]     \* the guard is dropped

\* check_shutdown() and shutdown(): the shutdown flag under its own lock.
CheckShutdown == <<Acq(S), Rel(S)>>

\* The client thread, after run() returns: one final flush.
FinalFlush == <<Acq(W), Rel(W)>>

\* run(): writer := None after dispatch fails, pings_out := 0, then
\* check_shutdown.
RunRound == <<Acq(W), Rel(W), Acq(R), Rel(R)>> \o CheckShutdown

\* reconnect(): check_shutdown, write, read, then server_info under both.
Reconnect ==
    CheckShutdown \o <<Acq(W), Acq(R), Acq(I), Rel(I), Rel(R), Rel(W)>>

\* dispatch(), per decoded op: check_shutdown, update_activity (read), then
\* the op's handler.
DispatchHead == CheckShutdown \o <<Acq(R), Rel(R)>>
DispatchInfo == DispatchHead \o <<Acq(I), Rel(I)>>
DispatchPingPong == DispatchHead \o <<Acq(W), Acq(R), Rel(R), Rel(W)>>
DispatchMsg == DispatchHead \o <<Acq(R), Rel(R)>>

\* The heartbeat thread: a flush signal (read on a flush error), and a
\* timeout.
HbFlush == <<Acq(W), Acq(R), Rel(R), Rel(W)>>
HbTimeout == <<Acq(W), Acq(R), Rel(R), Rel(W)>>

\* Client::flush: check_shutdown under write, then read to queue the PONG.
Flush == <<Acq(W)>> \o CheckShutdown \o <<Acq(R), Rel(R), Rel(W)>>

\* Client::close: shutdown() under write and read.
Close == <<Acq(W), Acq(R)>> \o CheckShutdown \o <<Rel(R), Rel(W)>>

\* Client::subscribe: check_shutdown under write and read.
Subscribe == <<Acq(W), Acq(R)>> \o CheckShutdown \o <<Rel(R), Rel(W)>>

\* Fault variant of Unsubscribe: read taken before write.
UnsubscribeReadFirst == <<Acq(R), Acq(W), Rel(W), Rel(R)>>

\* Client::unsubscribe: write, read.
Unsubscribe == <<Acq(W), Acq(R), Rel(R), Rel(W)>>

\* Client::publish: the headers check under server_info, check_shutdown,
\* then write, and read on an encode error.
Publish ==
    <<Acq(I), Rel(I)>> \o CheckShutdown \o <<Acq(W), Acq(R), Rel(R), Rel(W)>>

\* Client::try_publish: check_shutdown, try_lock on write, read on an
\* encode error.
TryPublish == CheckShutdown \o <<Try(W), Acq(R), Rel(R), Rel(W)>>

\* Client::server_info.
ServerInfo == <<Acq(I), Rel(I)>>

ClientSites == {FinalFlush, RunRound, Reconnect, DispatchInfo,
                DispatchPingPong, DispatchMsg}
HbSites == {HbFlush, HbTimeout}
AppSites == {Flush, Close, Subscribe, Unsubscribe, Publish, TryPublish,
             ServerInfo}

Threads == {"client", "heartbeat"} \cup Apps

Sites(t) ==
    CASE t = "client"    -> ClientSites
      [] t = "heartbeat" -> HbSites
      [] OTHER           -> AppSites

VARIABLES
    prog,       \* the lock sequence of the function each thread is in
    pc,         \* the next step of it, 0 when the thread is between calls
    owner       \* the thread holding each lock

vars == <<prog, pc, owner>>

Init ==
    /\ prog = [t \in Threads |-> <<>>]
    /\ pc = [t \in Threads |-> 0]
    /\ owner = [l \in Locks |-> None]

\* A thread calls one of the functions it runs.
Call(t) ==
    /\ pc[t] = 0
    /\ \E p \in Sites(t) : prog' = [prog EXCEPT ![t] = p]
    /\ pc' = [pc EXCEPT ![t] = 1]
    /\ UNCHANGED owner

Step(t) == prog[t][pc[t]]

\* The function returns after its last step; every guard is dropped.
Return(t) == pc' = [pc EXCEPT ![t] = IF pc[t] = Len(prog[t]) THEN 0 ELSE @ + 1]

\* lock() or a successful try_lock() on a free lock.
Lock(t) ==
    /\ pc[t] # 0
    /\ Step(t).do \in {"acq", "try"}
    /\ owner[Step(t).lock] = None
    /\ owner' = [owner EXCEPT ![Step(t).lock] = t]
    /\ Return(t)
    /\ UNCHANGED prog

\* try_lock() on a held lock: the function returns at once (try_publish
\* returns None), dropping what it holds.
TryFail(t) ==
    /\ pc[t] # 0
    /\ Step(t).do = "try"
    /\ owner[Step(t).lock] # None
    /\ owner' = [l \in Locks |-> IF owner[l] = t THEN None ELSE owner[l]]
    /\ pc' = [pc EXCEPT ![t] = 0]
    /\ UNCHANGED prog

\* A guard is dropped.
Unlock(t) ==
    /\ pc[t] # 0
    /\ Step(t).do = "rel"
    /\ owner' = [owner EXCEPT ![Step(t).lock] = None]
    /\ Return(t)
    /\ UNCHANGED prog

Next == \E t \in Threads : Call(t) \/ Lock(t) \/ TryFail(t) \/ Unlock(t)

Spec == Init /\ [][Next]_vars

-----------------------------------------------------------------------------
\* Thread t is blocked in lock() on a lock held by thread u (u may be t:
\* the mutexes are not reentrant).
WaitsFor == [node |-> Threads,
             edge |-> {<<t, u>> \in Threads \X Threads :
                          /\ pc[t] # 0
                          /\ Step(t).do = "acq"
                          /\ owner[Step(t).lock] = u}]

(***************************************************************************)
(* No deadlock among the client thread, the heartbeat thread and the      *)
(* application threads, whatever functions they call in whatever          *)
(* interleaving: the waits-for graph never has a cycle.  This is what the *)
(* locking-protocol comment on State and every "NB see locking protocol" *)
(* drop order are meant to ensure.                                         *)
(***************************************************************************)
NoCircularWait == ~HasCycle(WaitsFor)
=============================================================================
