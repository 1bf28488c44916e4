---------------------------- MODULE MCRingBuffer ----------------------------
(* Small instances of RingBuffer. *)
EXTENDS RingBuffer, TLC

Symmetry == Permutations(Threads) \cup Permutations(Values)
=============================================================================
