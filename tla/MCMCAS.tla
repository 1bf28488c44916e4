------------------------------- MODULE MCMCAS -------------------------------
(* Small instances of MCAS. *)
EXTENDS MCAS, TLC

CONSTANTS v0, v1

Swap(v) == IF v = v0 THEN v1 ELSE v0
Flip(a, v) == [address |-> a, expected |-> v, new |-> Swap(v)]

\* Both addresses, or one of them.
AllRequests ==
  {{Flip(1, v), Flip(2, v)} : v \in Values} \cup {{Flip(1, v)} : v \in Values}

Symmetry == Permutations(Threads) \cup Permutations(Values)
=============================================================================
