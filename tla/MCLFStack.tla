--------------------------- MODULE MCLFStack ---------------------------
(* Small instances of LFStack. *)
EXTENDS LFStack
==============================================================================
