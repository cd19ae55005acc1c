-------------------------- MODULE ReconnectBuffer --------------------------
(***************************************************************************)
(* What the reconnect buffer of src/client.rs (struct Buffer) promises to  *)
(* the client: it holds a sequence of WHOLE frames whose encoded size      *)
(* never exceeds the capacity; a frame either goes in completely or the    *)
(* buffer becomes saturated, and a saturated buffer refuses every frame    *)
(* until it is cleared.  Clearing hands back exactly the frames held.      *)
(*                                                                         *)
(* ReconnectBufferBytes refines this module; NatsClient uses it as the     *)
(* buffer of its write state.                                              *)
(***************************************************************************)
EXTENDS Naturals, Sequences

CONSTANTS
    Cap,        \* reconnect_buffer_size: capacity of the buffer in bytes
    Frames,     \* the frames that can be encoded into the buffer
    Size(_)     \* number of bytes of the encoding of a frame

ASSUME Cap \in Nat /\ \A f \in Frames : Size(f) \in Nat \ {0}

VARIABLES
    frames,     \* the frames held, oldest first: bytes[..flushed]
    sat,        \* no frame fits any more (written = capacity)
    taken       \* the frames handed out by the last clear()

RECURSIVE Used(_)
\* Number of bytes that a sequence of frames occupies.
Used(s) == IF s = <<>> THEN 0 ELSE Size(Head(s)) + Used(Tail(s))

Fits(f) == ~sat /\ Used(frames) + Size(f) <= Cap

\* A frame is encoded completely and committed (write + flush).
Put(f) ==
    /\ Fits(f)
    /\ frames' = Append(frames, f)
    /\ sat' = (Used(frames) + Size(f) = Cap)
    /\ UNCHANGED taken

\* A frame does not fit: the buffer saturates and the frame is refused.
Refuse(f) ==
    /\ ~Fits(f)
    /\ sat' = TRUE
    /\ UNCHANGED <<frames, taken>>

\* clear(): return the frames held and empty the buffer.
Clear ==
    /\ taken' = frames
    /\ frames' = <<>>
    /\ sat' = FALSE

Init ==
    /\ frames = <<>>
    /\ sat = FALSE
    /\ taken = <<>>

Next == Clear \/ \E f \in Frames : Put(f) \/ Refuse(f)

Spec == Init /\ [][Next]_<<frames, sat, taken>>

TypeOK ==
    /\ frames \in Seq(Frames)
    /\ sat \in BOOLEAN
    /\ taken \in Seq(Frames)
=============================================================================
