------------------------ MODULE ReconnectBufferBytes ------------------------
(***************************************************************************)
(* The reconnect buffer of src/client.rs at the level of bytes: the fixed  *)
(* slice `bytes`, the counters `written` and `flushed`, and the write(),   *)
(* flush() and clear() of impl Write for Buffer.                           *)
(*                                                                         *)
(* A publish while disconnected calls proto::encode(&mut write.buffer, op) *)
(* and then write.buffer.flush() (Client::publish, Client::try_publish).   *)
(* proto::encode is not in src/: it is modelled as a sequence of write()   *)
(* calls, one per piece of the frame (Chunks[f]), that stops at the first  *)
(* error.  Publishers and clear() run under the write lock, so at most one *)
(* encode is in progress (enc) and clear() never runs during one.          *)
(*                                                                         *)
(* A byte is the label <<f, k>>: the k-th byte of the encoding of frame f. *)
(***************************************************************************)
EXTENDS Naturals, Sequences, Functions

CONSTANTS
    Cap,        \* reconnect_buffer_size
    Frames,     \* frames a publish may encode
    Chunks,     \* Chunks[f]: sizes of the successive write() calls encoding f
    Zero,       \* a byte of the zeroed slice made by Buffer::new
    None        \* no encode in progress

ASSUME /\ Cap \in Nat
       /\ \A f \in Frames : Chunks[f] \in Seq(Nat \ {0}) /\ Chunks[f] # <<>>

\* Number of bytes of the encoding of a frame.
Size(f) == SumFunction(Chunks[f])

Byte == (Frames \X Nat) \cup {Zero}

VARIABLES
    bytes,      \* Buffer.bytes: Box<[u8]> of length Cap, zeroed by Buffer::new
    written,    \* Buffer.written
    flushed,    \* Buffer.flushed
    enc,        \* the encode in progress: frame, next chunk, written at start
    taken       \* the slice bytes[..flushed] returned by the last clear()

vars == <<bytes, written, flushed, enc, taken>>

(***************************************************************************)
(* Decoding the committed bytes back into frames.  A run of bytes that is  *)
(* not the complete encoding of one frame decodes to Torn.                 *)
(***************************************************************************)
Torn == "torn"

RECURSIVE Decode(_)
Decode(s) ==
    IF s = <<>> THEN <<>>
    ELSE LET f == s[1][1]
         IN  IF s[1] # Zero /\ Len(s) >= Size(f)
                 /\ \A k \in 1..Size(f) : s[k] = <<f, k>>
             THEN <<f>> \o Decode(SubSeq(s, Size(f) + 1, Len(s)))
             ELSE <<Torn>>

-----------------------------------------------------------------------------
\* Buffer::new(options.reconnect_buffer_size)
Init ==
    /\ bytes = [i \in 1..Cap |-> Zero]
    /\ written = 0
    /\ flushed = 0
    /\ enc = None
    /\ taken = <<>>

\* A publish takes the write lock and starts proto::encode into the buffer.
BeginEncode(f) ==
    /\ enc = None
    /\ enc' = [f |-> f, next |-> 1, start |-> written]
    /\ UNCHANGED <<bytes, written, flushed, taken>>

\* The size of the next write() call of the encode in progress.
ChunkLen == Chunks[enc.f][enc.next]

\* Offset, within the frame, of the first byte of that write() call.
ChunkOff == SumFunction(SubSeq(Chunks[enc.f], 1, enc.next - 1))

\* Fault variant of WriteOk: the fit check is off by one and lets a write
\* run one byte past the end of the slice.
WriteOkOffByOne ==
    /\ enc # None
    /\ enc.next <= Len(Chunks[enc.f])
    /\ ~(Cap - written + 1 < ChunkLen)
    /\ bytes' = [i \in 1..Cap |->
                    IF written < i /\ i <= written + ChunkLen
                    THEN <<enc.f, ChunkOff + i - written>>
                    ELSE bytes[i]]
    /\ written' = written + ChunkLen
    /\ enc' = [enc EXCEPT !.next = @ + 1]
    /\ UNCHANGED <<flushed, taken>>

\* write(buf) when buf fits: append it after `written`.
WriteOk ==
    /\ enc # None
    /\ enc.next <= Len(Chunks[enc.f])
    /\ ~(Cap - written < ChunkLen)
    /\ bytes' = [i \in 1..Cap |->
                    IF written < i /\ i <= written + ChunkLen
                    THEN <<enc.f, ChunkOff + i - written>>
                    ELSE bytes[i]]
    /\ written' = written + ChunkLen
    /\ enc' = [enc EXCEPT !.next = @ + 1]
    /\ UNCHANGED <<flushed, taken>>

\* Fault variant of WriteFull: the failed write leaves `written` where it
\* was instead of filling the buffer.
WriteFullKeepsWritten ==
    /\ enc # None
    /\ enc.next <= Len(Chunks[enc.f])
    /\ Cap - written < ChunkLen
    /\ enc' = None
    /\ UNCHANGED <<bytes, written, flushed, taken>>

\* write(buf) when buf does not fit: fill the buffer and fail.  The error
\* ends proto::encode and the publish returns it without calling flush().
WriteFull ==
    /\ enc # None
    /\ enc.next <= Len(Chunks[enc.f])
    /\ Cap - written < ChunkLen
    /\ written' = Cap
    /\ enc' = None
    /\ UNCHANGED <<bytes, flushed, taken>>

\* proto::encode succeeded: the publish calls flush(), flushed := written.
Commit ==
    /\ enc # None
    /\ enc.next > Len(Chunks[enc.f])
    /\ flushed' = written
    /\ enc' = None
    /\ UNCHANGED <<bytes, written, taken>>

\* clear(), called by reconnect() under the write lock.
Clear ==
    /\ enc = None
    /\ taken' = SubSeq(bytes, 1, flushed)
    /\ written' = 0
    /\ flushed' = 0
    /\ UNCHANGED <<bytes, enc>>

Next ==
    \/ \E f \in Frames : BeginEncode(f)
    \/ WriteOk
    \/ WriteFull
    \/ Commit
    \/ Clear

Spec == Init /\ [][Next]_vars

-----------------------------------------------------------------------------
TypeOK ==
    /\ bytes \in [1..Cap -> Byte]
    /\ written \in 0..Cap
    /\ flushed \in 0..Cap
    /\ enc \in [f : Frames, next : Nat \ {0}, start : 0..Cap] \cup {None}
    /\ taken \in Seq(Byte)

(***************************************************************************)
(* Refinement: the byte buffer implements ReconnectBuffer.  The frames it  *)
(* holds are the decoding of bytes[..flushed]; it is saturated when        *)
(* written = capacity (judged at the start of an encode while one is in    *)
(* progress); clear() hands back the decoding of the slice it returned.    *)
(* This fails if a torn frame can ever be committed into [..flushed], if a *)
(* frame that fits is refused, or if a saturated buffer takes a frame.     *)
(***************************************************************************)
Abstract == INSTANCE ReconnectBuffer
    WITH frames <- Decode(SubSeq(bytes, 1, flushed)),
         sat    <- IF enc = None THEN written = Cap ELSE enc.start = Cap,
         taken  <- Decode(taken)

\* The byte-level buffer behaves as the abstract buffer of whole frames.
ImplementsReconnectBuffer == Abstract!Spec
=============================================================================
