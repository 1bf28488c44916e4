------------------------------ MODULE MCMRLock ------------------------------
(* Instances of MRLock for TLC. *)
EXTENDS MRLock

CONSTANTS t1, t2, t3, r1, r2

AllRequests == (SUBSET Resources) \ {{}}
=============================================================================
