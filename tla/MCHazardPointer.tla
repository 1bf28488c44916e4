--------------------------- MODULE MCHazardPointer ---------------------------
(* Small instances of HazardPointerClient. *)
EXTENDS HazardPointerClient
==============================================================================
