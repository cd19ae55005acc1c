---------------------- MODULE MC_ReconnectBufferBytes ----------------------
(* Model for ReconnectBufferBytes: frame f1 is encoded by two write() calls *)
(* of 1 and 2 bytes, frame f2 by one write() of 1 byte, in a 5-byte buffer: *)
(* f1 f1 leaves a partial frame behind a committed one, and a following f2  *)
(* would still fit after it.                                                *)
EXTENDS ReconnectBufferBytes

CONSTANTS f1, f2

MCFrames == {f1, f2}

MCChunks == [f \in MCFrames |-> IF f = f1 THEN <<1, 2>> ELSE <<1>>]
=============================================================================
