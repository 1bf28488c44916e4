------------------------- MODULE HazardPointerClient -------------------------
(***************************************************************************)
(* The hazard pointer library under the weakest client the containers of   *)
(* tervel allow: threads watch whatever they read at a shared address, use *)
(* it, unwatch it, and replace the content of an address, passing what     *)
(* they removed to safe_delete once (as lf/stack/stack.h:194-196 and       *)
(* wf/hash-map/wf_hash_map.h:571-574 do).  A thread detaches when it holds *)
(* no watch, and the library is destroyed when every thread is gone.       *)
(***************************************************************************)
EXTENDS HazardPointer

CONSTANTS
  Cells       (* the shared std::atomic<void *> addresses                  *)

VARIABLES
  cell,       (* the content of each address                               *)
  address,    (* the address a thread is watching                          *)
  unlinked    (* what a thread removed and must still safe_delete          *)

clientVars == <<cell, address, unlinked>>
vars == <<hpVars, clientVars>>

Init ==
  /\ HPInit
  /\ cell = [c \in Cells |-> Null]
  /\ address \in [Threads -> Cells]
  /\ unlinked = [t \in Threads |-> Null]

------------------------------------------------------------------------------

(* Load an address and call watch with what was there. *)
CallWatch(t, s, c) ==
  /\ unlinked[t] = Null
  /\ <<t, s>> \notin granted
  /\ cell[c] # Null
  /\ WatchCall(t, s, cell[c])
  /\ address' = [address EXCEPT ![t] = c]
  /\ UNCHANGED <<cell, unlinked>>

Store(t) == WatchStore(t) /\ UNCHANGED clientVars

Validate(t) ==
  /\ WatchValidate(t, cell[address[t]], elem[t])
  /\ UNCHANGED clientVars

CallOnWatch(t) ==
  /\ \E success \in BOOLEAN : OnWatch(t, success)
  /\ UNCHANGED clientVars

Clear(t) == WatchClear(t) /\ UNCHANGED clientVars

CallUnwatch(t, s) ==
  /\ <<t, s>> \in granted
  /\ Unwatch(t, s)
  /\ UNCHANGED clientVars

(* A successful compare_exchange of an address: old leaves it, and new,    *)
(* null or an element just allocated, takes its place.                     *)
Replace(t, c, new) ==
  /\ hpc[t] = "out"
  /\ unlinked[t] = Null
  /\ new # Null => life[new] = "free"
  /\ cell' = [cell EXCEPT ![c] = new]
  /\ unlinked' = [unlinked EXCEPT ![t] = cell[c]]
  /\ life' = [e \in Elems |-> CASE e = cell[c] -> "retired"
                                [] e = new -> "live"
                                [] OTHER -> life[e]]
  /\ UNCHANGED <<watches, element_list, free_lists, hpc, slot, elem, pos, idx,
                 leaving, granted, address>>

CallSafeDelete(t) ==
  /\ unlinked[t] # Null
  /\ SafeDelete(t, unlinked[t])
  /\ unlinked' = [unlinked EXCEPT ![t] = Null]
  /\ UNCHANGED <<cell, address>>

CallSafeDeleteUnchecked(t) ==
  /\ unlinked[t] = Null
  /\ SafeDeleteUnchecked(t)
  /\ UNCHANGED clientVars

Scan(t) == ScanSlot(t) /\ UNCHANGED clientVars

CallOnIsWatched(t) ==
  /\ \E watched \in BOOLEAN : OnIsWatched(t, watched)
  /\ UNCHANGED clientVars

CallDetach(t) ==
  /\ unlinked[t] = Null
  /\ \A s \in SlotID : <<t, s>> \notin granted
  /\ Detach(t)
  /\ UNCHANGED clientVars

Send(t) == SendToManager(t) /\ UNCHANGED clientVars

Destroy(t) == DestroyElement(t) /\ UNCHANGED clientVars

(* Every thread is gone and the manager's lists are empty. *)
Finished ==
  /\ \A t \in Threads : hpc[t] = "gone" /\ free_lists[t] = <<>>
  /\ UNCHANGED vars

(* The steps of a library call thread t has begun. *)
InCall(t) ==
  \/ Store(t)
  \/ Validate(t)
  \/ CallOnWatch(t)
  \/ Clear(t)
  \/ Scan(t)
  \/ CallOnIsWatched(t)
  \/ Send(t)

Next ==
  \/ \E t \in Threads :
       \/ \E s \in SlotID :
            \/ \E c \in Cells : CallWatch(t, s, c)
            \/ CallUnwatch(t, s)
       \/ \E c \in Cells, new \in Pointers : Replace(t, c, new)
       \/ CallSafeDelete(t)
       \/ CallSafeDeleteUnchecked(t)
       \/ CallDetach(t)
       \/ InCall(t)
       \/ Destroy(t)
  \/ Finished

Spec == Init /\ [][Next]_vars

(* A thread inside a library call is eventually scheduled again. *)
FairSpec == Spec /\ \A t \in Threads : WF_vars(InCall(t))

------------------------------------------------------------------------------

TypeOK ==
  /\ life \in [Elems -> {"free", "live", "retired"}]
  /\ watches \in [0 .. (NumSlots - 1) -> Pointers]
  /\ element_list \in [Threads -> Seq(Elems)]
  /\ free_lists \in [Threads -> Seq(Elems)]
  /\ hpc \in [Threads -> HPStates]
  /\ slot \in [Threads -> SlotID]
  /\ elem \in [Threads -> Pointers]
  /\ pos \in [Threads -> Nat]
  /\ idx \in [Threads -> 0 .. (NumSlots - 1)]
  /\ leaving \in [Threads -> BOOLEAN]
  /\ granted \subseteq (Threads \X SlotID)
  /\ cell \in [Cells -> Pointers]
  /\ address \in [Threads -> Cells]
  /\ unlinked \in [Threads -> Pointers]

(* While a watch that returned true is in force, the element it names has  *)
(* not been deleted, so its memory has not been handed out again either:   *)
(* the promise of hazard_pointer.h:69-77, and what the order of the store  *)
(* and the re-read in watch (hazard_pointer.cc:60-62) is for.              *)
WatchedIsNeverFreed ==
  \A t \in Threads, s \in SlotID :
    <<t, s>> \in granted => /\ WatchedBy(t, s) \in Elems
                            /\ life[WatchedBy(t, s)] # "free"

Positions(list, e) == {k \in DOMAIN list : list[k] = e}

(* Where e waits to be freed: about to be passed to safe_delete, or at a   *)
(* position of a list.                                                     *)
Places(e) ==
  {<<t, "unlinked", 0>> : t \in {u \in Threads : unlinked[u] = e}}
    \cup (UNION {{<<t, "list", k>> : k \in Positions(element_list[t], e)} : t \in Threads})
    \cup (UNION {{<<t, "manager", k>> : k \in Positions(free_lists[t], e)} : t \in Threads})

(* An element that was unlinked and not deleted yet waits in exactly one   *)
(* place, and nothing else waits anywhere: neither the list surgery inside *)
(* the scan (hp_list.cc:64-90) nor the hand-over to the manager            *)
(* (hp_list.cc:36-41) deletes an element twice or loses one.               *)
RetiredOnce ==
  \A e \in Elems :
    /\ Places(e) # {} <=> life[e] = "retired"
    /\ \A p, q \in Places(e) : p = q

(* A slot is empty unless its watch is in force or being set: a watch that *)
(* failed leaves nothing behind that would keep an element alive, or make  *)
(* the next watch of the slot fail the assert of hazard_pointer.h:169.     *)
NoStaleWatch ==
  \A t \in Threads, s \in SlotID :
    WatchedBy(t, s) # Null =>
      \/ <<t, s>> \in granted
      \/ hpc[t] \in {"validate", "clear"} /\ slot[t] = s

(* The library implements Reclamation: a watch that returned true is a     *)
(* grant (of the element in its slot) to the pair of thread and slot.      *)
Abstract == INSTANCE Reclamation WITH
  Holders <- Threads \X SlotID,
  holds <- {<<h, WatchedBy(h[1], h[2])>> : h \in granted}

(* Every step of the library and its client is a step of Reclamation: in   *)
(* particular an element is granted only while it is live, and deleted     *)
(* only when nobody holds it.                                              *)
RefinesReclamation == Abstract!Spec

(* Every library call returns, however the other threads move: neither the *)
(* watch protocol nor the scan of hp_list.cc:64-90 waits for anybody.      *)
CallsReturn ==
  \A t \in Threads : hpc[t] \notin {"out", "gone"} ~> hpc[t] \in {"out", "gone"}
==============================================================================
