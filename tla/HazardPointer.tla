---------------------------- MODULE HazardPointer ----------------------------
(***************************************************************************)
(* The hazard pointer library of tervel/util/memory/hp: the shared table   *)
(* of watches, the watch protocol (store the slot, then re-read the        *)
(* address), safe_delete with its scan of the table one slot at a time,    *)
(* the thread-local lists of elements that could not be freed yet, and     *)
(* what becomes of them when a thread detaches and when the library shuts  *)
(* down.                                                                   *)
(*                                                                         *)
(* A thread makes one library call at a time; hpc is where it is in it     *)
(* ("out" when it runs the container's code).  The module holds the        *)
(* library's actions only: HazardPointerClient and LFStack supply the      *)
(* shared addresses and the calls.                                         *)
(***************************************************************************)
EXTENDS Naturals, Sequences, SequencesExt

CONSTANTS
  NumThreads, (* threads attached to the Tervel object                     *)
  END,        (* SlotID::END, the number of watch slots of each thread     *)
  Elems,      (* addresses an Element can be allocated at                  *)
  Null        (* nullptr                                                   *)

ASSUME NumThreadsAssumption == NumThreads \in Nat \ {0}
ASSUME ENDAssumption == END \in Nat \ {0}
ASSUME NullAssumption == Null \notin Elems

Threads == 0 .. (NumThreads - 1)
SlotID == 0 .. (END - 1)
NumSlots == NumThreads * END
Pointers == Elems \cup {Null}

VARIABLES
  life,         (* state of the memory at each address (the allocator's)   *)
  watches,      (* watches_, indexed by get_slot                           *)
  element_list, (* ElementList::element_list_ of each thread, head first   *)
  free_lists,   (* ListManager::free_lists_                                *)
  hpc,          (* where each thread is in its library call                *)
  slot,         (* its argument slot                                       *)
  elem,         (* its argument descr, null when no watch is being called  *)
  pos,          (* the list position try_to_free_elements is checking      *)
  idx,          (* the loop variable of contains                           *)
  leaving,      (* the scan was started by send_to_manager                 *)
  granted       (* history: the <<thread, slot>> whose watch() returned    *)
                (* true and that have not been unwatched                   *)

hpVars == <<life, watches, element_list, free_lists, hpc, slot, elem, pos, idx,
            leaving, granted>>

HPStates == {"out", "store", "validate", "on_watch", "clear",
             "contains", "on_is_watched", "send", "gone"}

(* get_slot: the position in watches_ of slot s of thread t. *)
GetSlot(t, s) == s + END * t

WatchedBy(t, s) == watches[GetSlot(t, s)]

HPInit ==
  /\ life = [e \in Elems |-> "free"]
  /\ watches = [i \in 0 .. (NumSlots - 1) |-> Null]
  /\ element_list = [t \in Threads |-> <<>>]
  /\ free_lists = [t \in Threads |-> <<>>]
  /\ hpc = [t \in Threads |-> "out"]
  /\ slot = [t \in Threads |-> 0]
  /\ elem = [t \in Threads |-> Null]
  /\ pos = [t \in Threads |-> 0]
  /\ idx = [t \in Threads |-> 0]
  /\ leaving = [t \in Threads |-> FALSE]
  /\ granted = {}

------------------------------------------------------------------------------
(* watch, clear_watch, unwatch *)

(* Call watch(s, e, address, expected); the address is the client's business. *)
WatchCall(t, s, e) ==
  /\ hpc[t] = "out"
  /\ hpc' = [hpc EXCEPT ![t] = "store"]
  /\ slot' = [slot EXCEPT ![t] = s]
  /\ elem' = [elem EXCEPT ![t] = e]
  /\ UNCHANGED <<life, watches, element_list, free_lists, pos, idx, leaving, granted>>

WatchStore(t) ==
  /\ hpc[t] = "store"
  /\ watches' = [watches EXCEPT ![GetSlot(t, slot[t])] = elem[t]]
  /\ hpc' = [hpc EXCEPT ![t] = "validate"]
  /\ UNCHANGED <<life, element_list, free_lists, slot, elem, pos, idx, leaving, granted>>

(* address->load() != expected, the re-read that makes the watch count.     *)
StillThereUnchecked(current, expected) == TRUE
StillThere(current, expected) == current = expected

(* The re-read; current is what the address holds now.                      *)
WatchValidate(t, current, expected) ==
  /\ hpc[t] = "validate"
  /\ IF StillThere(current, expected)
     THEN /\ hpc' = [hpc EXCEPT ![t] = "on_watch"]
          /\ granted' = granted \cup {<<t, slot[t]>>}
     ELSE /\ hpc' = [hpc EXCEPT ![t] = "clear"]
          /\ UNCHANGED granted
  /\ UNCHANGED <<life, watches, element_list, free_lists, slot, elem, pos, idx, leaving>>

(* The descriptor's own on_watch, which a subclass may make fail: watch()  *)
(* returns true, or gives the watch up and goes on to clear the slot.      *)
OnWatch(t, success) ==
  /\ hpc[t] = "on_watch"
  /\ IF success
     THEN /\ hpc' = [hpc EXCEPT ![t] = "out"]
          /\ elem' = [elem EXCEPT ![t] = Null]
          /\ UNCHANGED granted
     ELSE /\ hpc' = [hpc EXCEPT ![t] = "clear"]
          /\ granted' = granted \ {<<t, slot[t]>>}
          /\ UNCHANGED elem
  /\ UNCHANGED <<life, watches, element_list, free_lists, slot, pos, idx, leaving>>

(* clear_watch before watch() returns false. *)
WatchClearForgotten(t) ==
  /\ hpc[t] = "clear"
  /\ hpc' = [hpc EXCEPT ![t] = "out"]
  /\ elem' = [elem EXCEPT ![t] = Null]
  /\ UNCHANGED <<life, watches, element_list, free_lists, slot, pos, idx, leaving, granted>>
WatchClear(t) ==
  /\ hpc[t] = "clear"
  /\ watches' = [watches EXCEPT ![GetSlot(t, slot[t])] = Null]
  /\ hpc' = [hpc EXCEPT ![t] = "out"]
  /\ elem' = [elem EXCEPT ![t] = Null]
  /\ UNCHANGED <<life, element_list, free_lists, slot, pos, idx, leaving, granted>>

Unwatch(t, s) ==
  /\ hpc[t] = "out"
  /\ watches' = [watches EXCEPT ![GetSlot(t, s)] = Null]
  /\ granted' = granted \ {<<t, s>>}
  /\ UNCHANGED <<life, element_list, free_lists, hpc, slot, elem, pos, idx, leaving>>

------------------------------------------------------------------------------
(* safe_delete and try_to_free_elements *)

(* Where thread t is when try_to_free_elements has nothing left to check. *)
AfterScan(t) == IF leaving[t] THEN "send" ELSE "out"

(* try_to_free_elements checks positions 2 .. Len, then position 1: it goes *)
(* to position k of the list es, or to 1 from past the end.                *)
PositionStuck(k, es) == IF k <= Len(es) THEN k ELSE Len(es)
Position(k, es) == IF k <= Len(es) THEN k ELSE 1

GoTo(t, k, es) ==
  /\ pos' = [pos EXCEPT ![t] = Position(k, es)]
  /\ idx' = [idx EXCEPT ![t] = 0]
  /\ hpc' = [hpc EXCEPT ![t] = "contains"]

(* The scan is over. *)
Leave(t) ==
  /\ hpc' = [hpc EXCEPT ![t] = AfterScan(t)]
  /\ pos' = [pos EXCEPT ![t] = 0]
  /\ idx' = [idx EXCEPT ![t] = 0]

AddToUnsafeForgetful(e, es) == <<e>>
AddToUnsafe(e, es) == <<e>> \o es

(* safe_delete of an unlinked element: add_to_unsafe, then                 *)
(* try_to_free_elements.                                                   *)
SafeDelete(t, e) ==
  LET es == AddToUnsafe(e, element_list[t]) IN
  /\ hpc[t] = "out"
  /\ element_list' = [element_list EXCEPT ![t] = es]
  /\ GoTo(t, 2, es)
  /\ UNCHANGED <<life, watches, free_lists, slot, elem, leaving, granted>>

(* safe_delete(true) of an element no other thread has seen: it is deleted *)
(* at once, and the rest of the list is scanned all the same.              *)
SafeDeleteUnchecked(t) ==
  /\ hpc[t] = "out"
  /\ element_list[t] # <<>>
  /\ GoTo(t, 2, element_list[t])
  /\ UNCHANGED <<life, watches, element_list, free_lists, slot, elem, leaving, granted>>

(* The element at the scan position stays in the list. *)
Keep(t) ==
  /\ IF pos[t] = 1 THEN Leave(t) ELSE GoTo(t, pos[t] + 1, element_list[t])
  /\ UNCHANGED <<life, element_list>>

(* The element at the scan position is deleted and leaves the list. *)
Delete(t) ==
  LET es == RemoveAt(element_list[t], pos[t]) IN
  /\ life' = [life EXCEPT ![element_list[t][pos[t]]] = "free"]
  /\ element_list' = [element_list EXCEPT ![t] = es]
  /\ IF pos[t] = 1 THEN Leave(t) ELSE GoTo(t, pos[t], es)

LastSlotEarly(i) == i + 2 >= NumSlots
LastSlotLate(i) == i = NumSlots
LastSlot(i) == i + 1 = NumSlots

(* One iteration of contains: the load of watches_[idx]. *)
ScanSlot(t) ==
  /\ hpc[t] = "contains"
  /\ IF watches[idx[t]] = element_list[t][pos[t]]
     THEN Keep(t)
     ELSE /\ IF LastSlot(idx[t])
             THEN /\ hpc' = [hpc EXCEPT ![t] = "on_is_watched"]
                  /\ UNCHANGED idx
             ELSE /\ idx' = [idx EXCEPT ![t] = idx[t] + 1]
                  /\ UNCHANGED hpc
          /\ UNCHANGED <<pos, life, element_list>>
  /\ UNCHANGED <<watches, free_lists, slot, elem, leaving, granted>>

(* No slot held it: the descriptor's on_is_watched has the last word. *)
OnIsWatched(t, watched) ==
  /\ hpc[t] = "on_is_watched"
  /\ IF watched THEN Keep(t) ELSE Delete(t)
  /\ UNCHANGED <<watches, free_lists, slot, elem, leaving, granted>>

------------------------------------------------------------------------------
(* Detaching a thread, and the end of the library *)

(* ~ElementList: send_to_manager scans the list one last time ... *)
Detach(t) ==
  /\ hpc[t] = "out"
  /\ leaving' = [leaving EXCEPT ![t] = TRUE]
  /\ IF element_list[t] = <<>>
     THEN hpc' = [hpc EXCEPT ![t] = "send"] /\ UNCHANGED <<pos, idx>>
     ELSE GoTo(t, 2, element_list[t])
  /\ UNCHANGED <<life, watches, element_list, free_lists, slot, elem, granted>>

(* ... and hands what is left of it to the ListManager. *)
SendToManager(t) ==
  /\ hpc[t] = "send"
  /\ free_lists' = [free_lists EXCEPT ![t] = element_list[t]]
  /\ element_list' = [element_list EXCEPT ![t] = <<>>]
  /\ hpc' = [hpc EXCEPT ![t] = "gone"]
  /\ UNCHANGED <<life, watches, slot, elem, pos, idx, leaving, granted>>

(* ~ListManager, run once every thread is gone: one element of one list. *)
DestroyElement(t) ==
  /\ \A u \in Threads : hpc[u] = "gone"
  /\ free_lists[t] # <<>>
  /\ life' = [life EXCEPT ![Head(free_lists[t])] = "free"]
  /\ free_lists' = [free_lists EXCEPT ![t] = Tail(free_lists[t])]
  /\ UNCHANGED <<watches, element_list, hpc, slot, elem, pos, idx, leaving, granted>>
==============================================================================
