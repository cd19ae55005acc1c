----------------------------- MODULE DoubleAck -----------------------------
(***************************************************************************)
(* Message::ack and Message::double_ack (src/client.rs) on clones of one   *)
(* JetStream message, which share the double_acked flag, run by several    *)
(* application threads, with close() on the same Client.                   *)
(*                                                                         *)
(* double_ack loops: subscribe to a fresh inbox, publish the ack with that *)
(* inbox as reply subject, and wait 100ms on the subscription.  A reply    *)
(* sets double_acked and returns Ok; a timeout or an error sleeps or       *)
(* loops, dropping the subscription, so a reply to an earlier inbox is     *)
(* never seen.  Inboxes are numbered per thread by gen.                    *)
(*                                                                         *)
(* The Client is abstracted to the outcomes of its calls: subscribe and    *)
(* publish fail with NotConnected after close (check_shutdown); a publish  *)
(* may fail or its ack be lost in a connection loss, and a reply may be    *)
(* lost or arrive after the timeout.  Those faults are bounded by          *)
(* MaxFaults.  The server processes every ack it receives and answers one  *)
(* with a reply subject.  Subscription::next_timeout returns Ok on a       *)
(* message and Err on a timeout or once close() has dropped the           *)
(* subscription's sender.                                                  *)
(***************************************************************************)
EXTENDS Naturals, FiniteSets

CONSTANTS
    Threads,    \* application threads holding a clone of the message
    Ops,        \* the calls they make: "ack", "ack_kind", "double_ack", "close"
    MaxFaults   \* lost acks, lost or late replies and failed publishes

ASSUME /\ Ops \subseteq {"ack", "ack_kind", "double_ack", "close"}
       /\ MaxFaults \in Nat

VARIABLES
    flag,       \* double_acked, shared by the clones
    closed,     \* the client's shutdown flag
    pc,         \* where each thread is in double_ack, "idle" outside
    gen,        \* the inbox of each thread's current subscription
    ackNet,     \* acks published and not yet processed by the server
    replyNet,   \* the server's replies to acks, not yet received
    faults

vars == <<flag, closed, pc, gen, ackNet, replyNet, faults>>

AckMsg(f, g, r) == [from |-> f, gen |-> g, reply |-> r]
Reply(t, g) == [to |-> t, gen |-> g]

\* A fresh message (from_message, or dispatch's Default): not double-acked,
\* nothing sent; its clones share the flag.
Init ==
    /\ flag = FALSE
    /\ closed = FALSE
    /\ pc = [t \in Threads |-> "idle"]
    /\ gen = [t \in Threads |-> 0]
    /\ ackNet = {}
    /\ replyNet = {}
    /\ faults = 0

Fault == faults < MaxFaults /\ faults' = faults + 1

\* Message::respond: publish the payload on the message's reply subject
\* (a JetStream message always has one), with no reply subject of its own.
Respond(t) == ackNet' = ackNet \cup {AckMsg(t, 0, FALSE)}

\* ack(): returns Ok at once once double-acked, otherwise respond(b""),
\* which fails after close.
Ack(t) ==
    /\ "ack" \in Ops /\ pc[t] = "idle"
    /\ ~flag /\ ~closed
    /\ Respond(t)
    /\ UNCHANGED <<flag, closed, pc, gen, replyNet, faults>>

\* ack_kind(): respond with the given kind, double-acked or not.
AckKind(t) ==
    /\ "ack_kind" \in Ops /\ pc[t] = "idle"
    /\ ~closed
    /\ Respond(t)
    /\ UNCHANGED <<flag, closed, pc, gen, replyNet, faults>>

\* double_ack(): returns Ok at once once double-acked, else enters the loop.
DoubleAck(t) ==
    /\ "double_ack" \in Ops /\ pc[t] = "idle"
    /\ ~flag
    /\ pc' = [pc EXCEPT ![t] = "sub"]
    /\ UNCHANGED <<flag, closed, gen, ackNet, replyNet, faults>>

\* close(): sets shutdown and drops every subscription, whose receivers
\* then report disconnection.
Close(t) ==
    /\ "close" \in Ops /\ pc[t] = "idle"
    /\ ~closed
    /\ closed' = TRUE
    /\ replyNet' = {}
    /\ UNCHANGED <<flag, pc, gen, ackNet, faults>>

\* The loop's subscribe to a fresh inbox succeeds.
Subscribe(t) ==
    /\ pc[t] = "sub" /\ ~closed
    /\ gen' = [gen EXCEPT ![t] = @ + 1]
    /\ pc' = [pc EXCEPT ![t] = "pub"]
    /\ UNCHANGED <<flag, closed, ackNet, replyNet, faults>>

\* subscribe fails (only check_shutdown can fail it): sleep, continue.
SubscribeFail(t) ==
    /\ pc[t] = "sub" /\ closed
    /\ pc' = [pc EXCEPT ![t] = "sleep"]
    /\ UNCHANGED <<flag, closed, gen, ackNet, replyNet, faults>>

Sleep(t) ==
    /\ pc[t] = "sleep"
    /\ pc' = [pc EXCEPT ![t] = "sub"]
    /\ UNCHANGED <<flag, closed, gen, ackNet, replyNet, faults>>

\* The ack is published with the inbox as reply subject.
Publish(t) ==
    /\ pc[t] = "pub" /\ ~closed
    /\ ackNet' = ackNet \cup {AckMsg(t, gen[t], TRUE)}
    /\ pc' = [pc EXCEPT ![t] = "wait"]
    /\ UNCHANGED <<flag, closed, gen, replyNet, faults>>

\* publish fails, after close or on a write error: sleep, continue.
PublishFail(t) ==
    /\ pc[t] = "pub"
    /\ \/ closed /\ UNCHANGED faults
       \/ ~closed /\ Fault
    /\ pc' = [pc EXCEPT ![t] = "sleep"]
    /\ UNCHANGED <<flag, closed, gen, ackNet, replyNet>>

\* next_timeout returns the reply to the current inbox.
WaitReply(t) ==
    /\ pc[t] = "wait"
    /\ Reply(t, gen[t]) \in replyNet
    /\ flag' = TRUE
    /\ pc' = [pc EXCEPT ![t] = "idle"]
    /\ replyNet' = replyNet \ {Reply(t, gen[t])}
    /\ UNCHANGED <<closed, gen, ackNet, faults>>

\* The current inbox's ack or reply is still on its way.
InFlight(t) ==
    AckMsg(t, gen[t], TRUE) \in ackNet \/ Reply(t, gen[t]) \in replyNet

\* Fault variant of WaitTimeout: the same wait is retried, the ack is not
\* published again.
WaitTimeoutNoRepublish(t) ==
    /\ pc[t] = "wait"
    /\ IF InFlight(t) /\ ~closed THEN Fault ELSE UNCHANGED faults
    /\ UNCHANGED <<flag, closed, pc, gen, ackNet, replyNet>>

\* next_timeout returns Err: nothing came within 100ms (a fault when the
\* answer is merely late) or the subscription was dropped by close().  The
\* loop starts over.
WaitTimeout(t) ==
    /\ pc[t] = "wait"
    /\ IF InFlight(t) /\ ~closed THEN Fault ELSE UNCHANGED faults
    /\ pc' = [pc EXCEPT ![t] = "sub"]
    /\ UNCHANGED <<flag, closed, gen, ackNet, replyNet>>

(* The server and the connection. *)
\* The server processes an ack of thread t and answers its reply subject.
Process(t) ==
    \E a \in ackNet :
        /\ a.from = t
        /\ ackNet' = ackNet \ {a}
        /\ replyNet' = IF a.reply /\ ~closed
                       THEN replyNet \cup {Reply(a.from, a.gen)}
                       ELSE replyNet
        /\ UNCHANGED <<flag, closed, pc, gen, faults>>

LoseAck ==
    \E a \in ackNet :
        /\ Fault
        /\ ackNet' = ackNet \ {a}
        /\ UNCHANGED <<flag, closed, pc, gen, replyNet>>

LoseReply ==
    \E r \in replyNet :
        /\ Fault
        /\ replyNet' = replyNet \ {r}
        /\ UNCHANGED <<flag, closed, pc, gen, ackNet>>

Loop(t) ==
    \/ Subscribe(t) \/ SubscribeFail(t) \/ Sleep(t) \/ Publish(t)
    \/ PublishFail(t) \/ WaitReply(t) \/ WaitTimeout(t)

Next ==
    \/ \E t \in Threads :
          Ack(t) \/ AckKind(t) \/ DoubleAck(t) \/ Close(t) \/ Loop(t) \/ Process(t)
    \/ LoseAck \/ LoseReply

Spec == Init /\ [][Next]_vars

(***************************************************************************)
(* A thread in double_ack runs whenever it can; recv_timeout returns after *)
(* 100ms; the server processes every thread's acks it receives.  Faults   *)
(* and the calls application threads make are owed nothing.               *)
(***************************************************************************)
FairSpec == Spec /\ \A t \in Threads : WF_vars(Loop(t)) /\ WF_vars(Process(t))

-----------------------------------------------------------------------------
(***************************************************************************)
(* "Retry acknowledgement until we receive a response": every double_ack   *)
(* returns, through lost acks, lost and late replies and failed publishes, *)
(* unless the client is closed meanwhile.                                  *)
(***************************************************************************)
DoubleAckReturnsWhileOpen ==
    \A t \in Threads : pc[t] # "idle" ~> (pc[t] = "idle" \/ closed)

(***************************************************************************)
(* Every double_ack returns, also when close() is called: its warning     *)
(* says it retries "until the server connection is reestablished", and    *)
(* every other Client call returns an error once the client is closed.    *)
(***************************************************************************)
DoubleAckReturns == \A t \in Threads : pc[t] # "idle" ~> pc[t] = "idle"
=============================================================================
