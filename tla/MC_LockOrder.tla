---------------------------- MODULE MC_LockOrder ----------------------------
(* Two application threads besides the client and heartbeat threads: with *)
(* them every pair of functions can run against every other.              *)
EXTENDS LockOrder, TLC

CONSTANTS a1, a2

MCApps == {a1, a2}

SymmApps == Permutations(MCApps)
=============================================================================
