------------------------------ MODULE MCWFStack ------------------------------
(* Small instances of WFStack. *)
EXTENDS WFStack, TLC

Symmetry == Permutations(Nodes) \cup Permutations(Ops) \cup Permutations(Helpers)
==============================================================================
