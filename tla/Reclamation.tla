----------------------------- MODULE Reclamation -----------------------------
(***************************************************************************)
(* What tervel/util/memory/hp promises to the containers built on it, with *)
(* no watch table, no scan and no lists: the memory of an element goes     *)
(* round free -> live -> retired -> free, a holder can only be granted an  *)
(* element that is still live, and an element is not freed while it has a  *)
(* holder.                                                                 *)
(*                                                                         *)
(* HazardPointerClient implements this module (see RefinesReclamation).    *)
(***************************************************************************)
CONSTANTS
  Elems,      (* addresses an Element can be allocated at                  *)
  Holders,    (* whoever can hold an element: a thread and one of its slots *)
  Null        (* the null pointer                                          *)

VARIABLES
  life,       (* the state of the memory at each address                   *)
  holds       (* the set of <<holder, element>> grants in force            *)

Lives == {"free", "live", "retired"}

HeldBy(e) == {h \in Holders : <<h, e>> \in holds}

Init ==
  /\ life = [e \in Elems |-> "free"]
  /\ holds = {}

(* A shared address changes from old to new: old is unlinked, new becomes reachable. *)
Replace(old, new) ==
  /\ old \in Elems => life[old] = "live"
  /\ new \in Elems => life[new] = "free"
  /\ life' = [e \in Elems |-> CASE e = old -> "retired"
                                [] e = new /\ e # old -> "live"
                                [] OTHER -> life[e]]
  /\ UNCHANGED holds

Grant(h, e) ==
  /\ life[e] = "live"
  /\ \A f \in Elems : <<h, f>> \notin holds
  /\ holds' = holds \cup {<<h, e>>}
  /\ UNCHANGED life

Release(h, e) ==
  /\ <<h, e>> \in holds
  /\ holds' = holds \ {<<h, e>>}
  /\ UNCHANGED life

Free(e) ==
  /\ life[e] = "retired"
  /\ HeldBy(e) = {}
  /\ life' = [life EXCEPT ![e] = "free"]
  /\ UNCHANGED holds

Next ==
  \/ \E old, new \in Elems \cup {Null} : Replace(old, new)
  \/ \E h \in Holders, e \in Elems : Grant(h, e) \/ Release(h, e)
  \/ \E e \in Elems : Free(e)

Spec == Init /\ [][Next]_<<life, holds>>
==============================================================================
