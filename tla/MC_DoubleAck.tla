---------------------------- MODULE MC_DoubleAck ----------------------------
(***************************************************************************)
(* Models of DoubleAck for TLC: two threads holding clones of the message, *)
(* and the calls they make.                                                *)
(***************************************************************************)
EXTENDS DoubleAck, TLC

CONSTANTS t1, t2

TwoThreads == {t1, t2}
AllAckOps == {"ack", "ack_kind", "double_ack", "close"}
SymmThreads == Permutations(TwoThreads)
=============================================================================
