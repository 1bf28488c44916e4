----------------------------- MODULE MCHashMap ------------------------------
(* Small instances of HashMap. *)
EXTENDS HashMap, TLC

Symmetry == Permutations(Threads) \cup Permutations(Nodes)
=============================================================================
