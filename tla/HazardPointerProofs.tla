------------------------- MODULE HazardPointerProofs -------------------------
(***************************************************************************)
(* Proofs about HazardPointerClient, for any number of threads, slots,     *)
(* addresses and elements.                                                 *)
(***************************************************************************)
EXTENDS HazardPointerClient, SequenceTheorems, TLAPS

------------------------------------------------------------------------------
(* The list of what waits to be deleted, and the rows of the table         *)

(* Where the elements of two lists are in the two put together.            *)
LEMMA ConcatIndices ==
  ASSUME NEW S, NEW a \in Seq(S), NEW b \in Seq(S)
  PROVE  /\ a \o b \in Seq(S)
         /\ Len(a \o b) = Len(a) + Len(b)
         /\ \A k \in 1 .. Len(a) : (a \o b)[k] = a[k]
         /\ \A k \in (Len(a) + 1) .. (Len(a) + Len(b)) : (a \o b)[k] = b[k - Len(a)]
  OBVIOUS

(* RemoveAt leaves what was below the position and moves down what was above. *)
LEMMA RemoveAtIndices ==
  ASSUME NEW S, NEW q \in Seq(S), NEW i \in 1 .. Len(q)
  PROVE  /\ RemoveAt(q, i) \in Seq(S)
         /\ Len(RemoveAt(q, i)) = Len(q) - 1
         /\ \A k \in 1 .. (Len(q) - 1) :
              RemoveAt(q, i)[k] = IF k < i THEN q[k] ELSE q[k + 1]
  <1> DEFINE l == SubSeq(q, 1, i - 1)
             r == SubSeq(q, i + 1, Len(q))
  <1>0. Len(q) \in Nat
    OBVIOUS
  <1>1. l \in Seq(S) /\ Len(l) = i - 1 /\ \A k \in 1 .. (i - 1) : l[k] = q[k]
    OBVIOUS
  <1>2. r \in Seq(S) /\ Len(r) = Len(q) - i /\ \A k \in 1 .. (Len(q) - i) : r[k] = q[i + k]
    OBVIOUS
  <1>3. RemoveAt(q, i) = l \o r
    BY DEF RemoveAt
  <1> HIDE DEF l, r
  <1>4. /\ l \o r \in Seq(S) /\ Len(l \o r) = Len(l) + Len(r)
        /\ \A k \in 1 .. Len(l) : (l \o r)[k] = l[k]
        /\ \A k \in (Len(l) + 1) .. (Len(l) + Len(r)) : (l \o r)[k] = r[k - Len(l)]
    <2>1. l \in Seq(S) /\ r \in Seq(S)
      BY <1>1, <1>2
    <2> QED
      BY <2>1, ConcatIndices
  <1>5. Len(l \o r) = Len(q) - 1
    BY <1>0, <1>1, <1>2, <1>4
  <1>6. ASSUME NEW k \in 1 .. (Len(q) - 1)
        PROVE  (l \o r)[k] = IF k < i THEN q[k] ELSE q[k + 1]
    <2>1. CASE k \in 1 .. (i - 1)
      BY <2>1, <1>0, <1>1, <1>4
    <2>2. CASE k \in i .. (Len(q) - 1)
      <3>1. (l \o r)[k] = r[k - (i - 1)]
        BY <2>2, <1>0, <1>1, <1>2, <1>4
      <3>2. k - (i - 1) \in 1 .. (Len(q) - i)
        BY <2>2, <1>0
      <3>3. r[k - (i - 1)] = q[i + (k - (i - 1))]
        BY <3>2, <1>2
      <3> QED
        BY <2>2, <3>1, <3>3, <1>0
    <2>3. k \in 1 .. (i - 1) \/ k \in i .. (Len(q) - 1)
      BY <1>0
    <2> QED
      BY <2>1, <2>2, <2>3
  <1> QED
    BY <1>3, <1>4, <1>5, <1>6

(* Rows that start in order do not overlap.                                *)
LEMMA TimesMonotone ==
  ASSUME NEW n \in Nat, NEW i \in Nat, NEW j \in Nat, i < j
  PROVE  n * i + n <= n * j
  <1>1. PICK d \in Nat : j = i + 1 + d
    BY i + 1 <= j, j - (i + 1) \in Nat
  <1>2. n * j = n * i + n + n * d
    BY <1>1, n * (i + 1 + d) = n * i + n * 1 + n * d
  <1>3. n * d >= 0
    OBVIOUS
  <1>4. n * i \in Nat /\ n * j \in Nat /\ n * d \in Nat
    OBVIOUS
  <1> QED
    BY <1>2, <1>3, <1>4

(* The slots of m rows are the first m * n numbers.                        *)
LEMMA RowRange ==
  ASSUME NEW m \in Nat, NEW n \in Nat, NEW t \in 0 .. (m - 1), NEW s \in 0 .. (n - 1)
  PROVE  s + n * t \in 0 .. (m * n - 1)
  <1>1. t \in Nat /\ s \in Nat /\ s < n /\ t < m
    OBVIOUS
  <1>2. n * t + n <= n * m
    BY <1>1, TimesMonotone
  <1>3. n * t \in Nat /\ n * m \in Nat /\ n * m = m * n
    BY <1>1
  <1> QED
    BY <1>1, <1>2, <1>3

(* A number is one slot of one row only.                                   *)
LEMMA RowInjective ==
  ASSUME NEW n \in Nat, NEW t \in Nat, NEW u \in Nat, NEW s \in 0 .. (n - 1), NEW r \in 0 .. (n - 1),
         s + n * t = r + n * u
  PROVE  t = u /\ s = r
  <1>1. s \in Nat /\ s < n /\ r \in Nat /\ r < n /\ n * t \in Nat /\ n * u \in Nat
    OBVIOUS
  <1>2. ~(t < u)
    <2> SUFFICES ASSUME t < u PROVE FALSE
      OBVIOUS
    <2>1. n * t + n <= n * u
      BY TimesMonotone
    <2> QED
      BY <1>1, <2>1
  <1>3. ~(u < t)
    <2> SUFFICES ASSUME u < t PROVE FALSE
      OBVIOUS
    <2>1. n * u + n <= n * t
      BY TimesMonotone
    <2> QED
      BY <1>1, <2>1
  <1>4. t = u
    BY <1>2, <1>3
  <1> QED
    BY <1>1, <1>4

-----------------------------------------------------------------------------
(* The table of watches and the scan of a list                             *)

(* get_slot stays inside the table, and gives every thread slots of its    *)
(* own (hazard_pointer.h:211-216).                                         *)
LEMMA GetSlotRange ==
  ASSUME NEW t \in Threads, NEW s \in SlotID
  PROVE  GetSlot(t, s) \in 0 .. (NumSlots - 1)
  <1>1. END \in Nat /\ NumThreads \in Nat /\ t \in 0 .. (NumThreads - 1) /\ s \in 0 .. (END - 1)
    BY NumThreadsAssumption, ENDAssumption DEF Threads, SlotID
  <1> QED
    BY <1>1, RowRange DEF GetSlot, NumSlots

(* No two pairs of a thread and a slot share a position of the table.      *)
LEMMA GetSlotInjective ==
  ASSUME NEW t \in Threads, NEW s \in SlotID, NEW u \in Threads, NEW r \in SlotID,
         GetSlot(t, s) = GetSlot(u, r)
  PROVE  t = u /\ s = r
  <1>1. END \in Nat /\ t \in Nat /\ u \in Nat /\ s \in 0 .. (END - 1) /\ r \in 0 .. (END - 1)
    BY NumThreadsAssumption, ENDAssumption DEF Threads, SlotID
  <1>2. s + END * t = r + END * u
    BY DEF GetSlot
  <1> QED
    BY <1>1, <1>2, RowInjective

(* The table has a first slot, where every scan begins.                    *)
LEMMA NumSlotsPositive == NumSlots \in Nat /\ 0 \in 0 .. (NumSlots - 1)
  <1>1. 0 \in Threads /\ 0 \in SlotID
    BY NumThreadsAssumption, ENDAssumption DEF Threads, SlotID
  <1>2. NumSlots \in Nat
    BY NumThreadsAssumption, ENDAssumption DEF NumSlots
  <1> QED
    BY <1>1, <1>2, GetSlotRange DEF GetSlot

(* The scan of a list that is not empty goes to a position of that list.   *)
LEMMA PositionInRange ==
  ASSUME NEW S, NEW q \in Seq(S), NEW k \in Nat \ {0}, q # <<>>
  PROVE  Position(k, q) \in 1 .. Len(q)
  BY DEF Position

------------------------------------------------------------------------------
(* The inductive invariant. *)

Scanning(t) == hpc[t] \in {"contains", "on_is_watched"}

(* A scan is at a position of the list it checks. *)
ScanInRange ==
  \A t \in Threads : Scanning(t) => pos[t] \in 1 .. Len(element_list[t])

(* Where a thread is in watch determines its slot and its grant. *)
WatchProtocol ==
  \A t \in Threads :
    /\ hpc[t] \in {"store", "validate", "on_watch"} => elem[t] \in Elems
    /\ hpc[t] \in {"validate", "on_watch"} => WatchedBy(t, slot[t]) = elem[t]
    /\ hpc[t] = "on_watch" => <<t, slot[t]>> \in granted
    /\ hpc[t] \in {"store", "validate", "clear"} => <<t, slot[t]>> \notin granted

(* What an address holds is live, and held there only. *)
LiveAtOneCell ==
  \A c \in Cells : cell[c] \in Elems =>
    /\ life[cell[c]] = "live"
    /\ \A d \in Cells : cell[d] = cell[c] => d = c

(* Everything that waits to be freed is retired ... *)
WaitingIsRetired ==
  \A t \in Threads :
    /\ unlinked[t] \in Elems => life[unlinked[t]] = "retired" /\ hpc[t] = "out"
    /\ \A k \in DOMAIN element_list[t] : life[element_list[t][k]] = "retired"
    /\ \A k \in DOMAIN free_lists[t] : life[free_lists[t][k]] = "retired"

(* ... and waits at one place only. *)
WaitsOnce ==
  \A t, u \in Threads :
    /\ unlinked[t] \in Elems /\ unlinked[t] = unlinked[u] => t = u
    /\ \A i \in DOMAIN element_list[t], j \in DOMAIN element_list[u] :
          element_list[t][i] = element_list[u][j] => t = u /\ i = j
    /\ \A i \in DOMAIN free_lists[t], j \in DOMAIN free_lists[u] :
          free_lists[t][i] = free_lists[u][j] => t = u /\ i = j
    /\ \A i \in DOMAIN element_list[t], j \in DOMAIN free_lists[u] :
          element_list[t][i] # free_lists[u][j]
    /\ \A i \in DOMAIN element_list[t] : element_list[t][i] # unlinked[u]
    /\ \A i \in DOMAIN free_lists[t] : free_lists[t][i] # unlinked[u]

(* A thread that is gone left nothing behind, and only such a thread has a  *)
(* list at the manager.                                                     *)
GoneIsEmpty ==
  \A t \in Threads :
    /\ hpc[t] = "gone" => element_list[t] = <<>>
    /\ hpc[t] # "gone" => free_lists[t] = <<>>
    /\ hpc[t] \in {"send", "gone"} \/ leaving[t] =>
         /\ unlinked[t] = Null
         /\ \A s \in SlotID : <<t, s>> \notin granted
    /\ leaving[t] => hpc[t] \in {"contains", "on_is_watched", "send", "gone"}

(* A scan that has passed a slot, or all of them, without finding the       *)
(* element it checks cannot have missed a grant of it: this is why the      *)
(* watch is stored before the address is read again.                        *)
ScanMissesNoGrant ==
  \A u \in Threads : Scanning(u) =>
    \A t \in Threads, s \in SlotID :
      <<t, s>> \in granted /\ WatchedBy(t, s) = element_list[u][pos[u]] =>
        hpc[u] = "contains" /\ idx[u] <= GetSlot(t, s)

IInv ==
  /\ TypeOK
  /\ ScanInRange
  /\ WatchProtocol
  /\ LiveAtOneCell
  /\ WaitingIsRetired
  /\ WaitsOnce
  /\ GoneIsEmpty
  /\ WatchedIsNeverFreed
  /\ ScanMissesNoGrant

------------------------------------------------------------------------------

(* The invariant holds when every thread has attached.                     *)
LEMMA InitIInv == Init => IInv
  <1> SUFFICES ASSUME Init PROVE IInv
    OBVIOUS
  <1> USE NumThreadsAssumption, ENDAssumption, NullAssumption DEF Init, HPInit
  <1>0. 0 \in SlotID /\ NumSlots \in Nat /\ 0 \in 0 .. (NumSlots - 1)
    <2>1. 0 \in Threads /\ 0 \in SlotID
      BY DEF Threads, SlotID
    <2>2. NumSlots \in Nat
      BY DEF NumSlots
    <2> QED
      BY <2>1, <2>2, GetSlotRange DEF GetSlot
  <1>1. TypeOK
    BY <1>0 DEF TypeOK, Pointers, HPStates
  <1>2. ScanInRange /\ WatchProtocol /\ WatchedIsNeverFreed /\ ScanMissesNoGrant
    BY DEF ScanInRange, Scanning, WatchProtocol, WatchedIsNeverFreed, ScanMissesNoGrant
  <1>3. LiveAtOneCell /\ WaitingIsRetired /\ WaitsOnce /\ GoneIsEmpty
    BY DEF LiveAtOneCell, WaitingIsRetired, WaitsOnce, GoneIsEmpty
  <1> QED
    BY <1>1, <1>2, <1>3 DEF IInv

(* Each action keeps the invariant: a call of watch ...                     *)
LEMMA CallWatchKeeps ==
  ASSUME IInv, NEW t \in Threads, NEW s \in SlotID, NEW c \in Cells, CallWatch(t, s, c)
  PROVE  IInv'
  <1> USE CallWatch(t, s, c), NullAssumption DEF IInv, CallWatch, WatchCall
  <1>21. TypeOK'
    BY DEF TypeOK, HPStates, Pointers
  <1>22. ScanInRange'
    BY DEF TypeOK, ScanInRange, Scanning
  <1>23. WatchProtocol'
    <2>1. \A u \in Threads \ {t} : /\ hpc'[u] = hpc[u] /\ elem'[u] = elem[u] /\ slot'[u] = slot[u]
      BY DEF TypeOK
    <2>2. /\ hpc'[t] = "store" => elem'[t] \in Elems /\ slot'[t] = s
          /\ hpc'[t] \in {"store", "out"} /\ granted' = granted /\ watches' = watches
      BY DEF TypeOK, Pointers
    <2> QED
      BY <2>1, <2>2 DEF WatchProtocol, WatchedBy
  <1>24. LiveAtOneCell'
    BY DEF TypeOK, LiveAtOneCell, WaitingIsRetired, Pointers
  <1>25. WaitingIsRetired'
    BY DEF TypeOK, WaitingIsRetired, LiveAtOneCell, WaitsOnce, Pointers
  <1>26. WaitsOnce'
    BY DEF TypeOK, WaitsOnce, WaitingIsRetired, LiveAtOneCell, GoneIsEmpty, Pointers
  <1>27. GoneIsEmpty'
    BY DEF TypeOK, GoneIsEmpty, Pointers
  <1>28. WatchedIsNeverFreed'
    BY DEF TypeOK, WatchedIsNeverFreed, WatchProtocol, LiveAtOneCell, WatchedBy, GoneIsEmpty,
         Pointers
  <1>29. ScanMissesNoGrant'
    BY DEF TypeOK, ScanMissesNoGrant, Scanning, WatchedBy
  <1> QED
    BY <1>21, <1>22, <1>23, <1>24, <1>25, <1>26, <1>27, <1>28, <1>29

(* ... its store: no grant is in force for the slot it overwrites ...       *)
LEMMA StoreKeeps ==
  ASSUME IInv, NEW t \in Threads, Store(t)
  PROVE  IInv'
  <1> USE Store(t), NullAssumption DEF IInv, Store, clientVars, WatchStore
  <1>21. TypeOK'
    <2>1. GetSlot(t, slot[t]) \in 0 .. (NumSlots - 1)
      BY GetSlotRange DEF TypeOK
    <2> QED
      BY <2>1 DEF TypeOK, HPStates, Pointers
  <1>22. ScanInRange'
    BY DEF TypeOK, ScanInRange, Scanning
  <1>23. WatchProtocol'
    BY GetSlotRange, GetSlotInjective DEF TypeOK, WatchProtocol, WatchedBy, Pointers
  <1>24. LiveAtOneCell'
    BY DEF TypeOK, LiveAtOneCell, WaitingIsRetired, Pointers
  <1>25. WaitingIsRetired'
    BY DEF TypeOK, WaitingIsRetired, LiveAtOneCell, WaitsOnce, Pointers
  <1>26. WaitsOnce'
    BY DEF TypeOK, WaitsOnce, WaitingIsRetired, LiveAtOneCell, GoneIsEmpty, Pointers
  <1>27. GoneIsEmpty'
    BY DEF TypeOK, GoneIsEmpty, Pointers
  <1>28. WatchedIsNeverFreed'
    BY GetSlotRange, GetSlotInjective DEF TypeOK, WatchedIsNeverFreed, WatchProtocol,
         LiveAtOneCell, WatchedBy, GoneIsEmpty, Pointers
  <1>29. ScanMissesNoGrant'
    <2> SUFFICES ASSUME NEW u \in Threads, Scanning(u)', NEW v \in Threads, NEW r \in SlotID,
          <<v, r>> \in granted', WatchedBy(v, r)' = (element_list[u][pos[u]])'
          PROVE hpc'[u] = "contains" /\ idx'[u] <= GetSlot(v, r)
      BY DEF ScanMissesNoGrant
    <2>1. u # t /\ Scanning(u) /\ hpc'[u] = hpc[u]
      BY DEF Scanning, TypeOK
    <2>2. <<v, r>> # <<t, slot[t]>>
      BY DEF WatchProtocol
    <2>3. GetSlot(v, r) # GetSlot(t, slot[t])
      BY <2>2, GetSlotInjective DEF TypeOK
    <2>4. WatchedBy(v, r)' = WatchedBy(v, r)
      BY <2>3, GetSlotRange DEF WatchedBy, TypeOK
    <2> QED
      BY <2>1, <2>4 DEF ScanMissesNoGrant
  <1> QED
    BY <1>21, <1>22, <1>23, <1>24, <1>25, <1>26, <1>27, <1>28, <1>29

(* ... its re-read: a grant begins, of an element still at the address, so *)
(* still live, so not one that a scan is checking ...                       *)
LEMMA ValidateKeeps ==
  ASSUME IInv, NEW t \in Threads, Validate(t)
  PROVE  IInv'
  <1> USE Validate(t), NullAssumption DEF IInv, Validate, clientVars, WatchValidate, StillThere
  <1>1. /\ <<t, slot[t]>> \in Threads \X SlotID
        /\ hpc' = [hpc EXCEPT ![t] = "on_watch"] \/ hpc' = [hpc EXCEPT ![t] = "clear"]
        /\ granted' = granted \/ granted' = granted \cup {<<t, slot[t]>>}
    BY DEF TypeOK
  <1>21. TypeOK'
    BY <1>1 DEF TypeOK, HPStates, Pointers
  <1>22. ScanInRange'
    BY DEF TypeOK, ScanInRange, Scanning
  <1>23. WatchProtocol'
    BY DEF TypeOK, WatchProtocol, WatchedBy, Pointers
  <1>24. LiveAtOneCell'
    BY DEF TypeOK, LiveAtOneCell, WaitingIsRetired, Pointers
  <1>25. WaitingIsRetired'
    BY DEF TypeOK, WaitingIsRetired, LiveAtOneCell, WaitsOnce, Pointers
  <1>26. WaitsOnce'
    BY DEF TypeOK, WaitsOnce, WaitingIsRetired, LiveAtOneCell, GoneIsEmpty, Pointers
  <1>27. GoneIsEmpty'
    BY <1>1 DEF TypeOK, GoneIsEmpty
  <1>28. WatchedIsNeverFreed'
    BY <1>1 DEF TypeOK, WatchedIsNeverFreed, WatchProtocol, LiveAtOneCell, WatchedBy
  <1>29. ScanMissesNoGrant'
    <2> SUFFICES ASSUME NEW u \in Threads, Scanning(u)', NEW v \in Threads, NEW r \in SlotID,
          <<v, r>> \in granted', WatchedBy(v, r)' = (element_list[u][pos[u]])'
          PROVE hpc'[u] = "contains" /\ idx'[u] <= GetSlot(v, r)
      BY DEF ScanMissesNoGrant
    <2>1. u # t /\ Scanning(u)
      BY DEF Scanning, TypeOK
    <2>2. CASE <<v, r>> \in granted
      BY <2>1, <2>2 DEF ScanMissesNoGrant, WatchedBy, TypeOK
    <2>3. CASE <<v, r>> \notin granted
      <3>1. v = t /\ r = slot[t] /\ cell[address[t]] = elem[t] /\ elem[t] \in Elems
        BY <2>3 DEF WatchProtocol
      <3>2. WatchedBy(v, r) = elem[t] /\ life[elem[t]] = "live"
        BY <3>1 DEF WatchProtocol, LiveAtOneCell, TypeOK
      <3>3. pos[u] \in DOMAIN element_list[u]
        BY <2>1 DEF ScanInRange, TypeOK
      <3>4. life[element_list[u][pos[u]]] = "retired"
        BY <3>3 DEF WaitingIsRetired
      <3> QED
        BY <3>2, <3>4 DEF WatchedBy
    <2> QED
      BY <2>2, <2>3
  <1> QED
    BY <1>21, <1>22, <1>23, <1>24, <1>25, <1>26, <1>27, <1>28, <1>29

(* ... the on_watch of the element ...                                      *)
LEMMA CallOnWatchKeeps ==
  ASSUME IInv, NEW t \in Threads, CallOnWatch(t)
  PROVE  IInv'
  <1> USE CallOnWatch(t), NullAssumption DEF IInv, CallOnWatch, clientVars, OnWatch
  <1>21. TypeOK'
    BY DEF TypeOK, HPStates, Pointers
  <1>22. ScanInRange'
    BY DEF TypeOK, ScanInRange, Scanning
  <1>23. WatchProtocol'
    BY DEF TypeOK, WatchProtocol, WatchedBy, Pointers
  <1>24. LiveAtOneCell'
    BY DEF TypeOK, LiveAtOneCell, WaitingIsRetired, Pointers
  <1>25. WaitingIsRetired'
    BY DEF TypeOK, WaitingIsRetired, LiveAtOneCell, WaitsOnce, Pointers
  <1>26. WaitsOnce'
    BY DEF TypeOK, WaitsOnce, WaitingIsRetired, LiveAtOneCell, GoneIsEmpty, Pointers
  <1>27. GoneIsEmpty'
    BY DEF TypeOK, GoneIsEmpty, Pointers
  <1>28. WatchedIsNeverFreed'
    BY DEF TypeOK, WatchedIsNeverFreed, WatchProtocol, LiveAtOneCell, WatchedBy, GoneIsEmpty,
         Pointers
  <1>29. ScanMissesNoGrant'
    <2>1. /\ UNCHANGED <<watches, element_list, pos, idx>> /\ granted' \subseteq granted
          /\ \A u \in Threads : Scanning(u)' => hpc'[u] = hpc[u]
      BY DEF TypeOK, Scanning
    <2> QED
      BY <2>1 DEF ScanMissesNoGrant, Scanning, WatchedBy
  <1> QED
    BY <1>21, <1>22, <1>23, <1>24, <1>25, <1>26, <1>27, <1>28, <1>29

(* ... clear_watch after a failure ...                                      *)
LEMMA ClearKeeps ==
  ASSUME IInv, NEW t \in Threads, Clear(t)
  PROVE  IInv'
  <1> USE Clear(t), NullAssumption DEF IInv, Clear, clientVars, WatchClear
  <1>21. TypeOK'
    <2>1. GetSlot(t, slot[t]) \in 0 .. (NumSlots - 1)
      BY GetSlotRange DEF TypeOK
    <2> QED
      BY <2>1 DEF TypeOK, HPStates, Pointers
  <1>22. ScanInRange'
    BY DEF TypeOK, ScanInRange, Scanning
  <1>23. WatchProtocol'
    BY GetSlotRange, GetSlotInjective DEF TypeOK, WatchProtocol, WatchedBy, Pointers
  <1>24. LiveAtOneCell'
    BY DEF TypeOK, LiveAtOneCell, WaitingIsRetired, Pointers
  <1>25. WaitingIsRetired'
    BY DEF TypeOK, WaitingIsRetired, LiveAtOneCell, WaitsOnce, Pointers
  <1>26. WaitsOnce'
    BY DEF TypeOK, WaitsOnce, WaitingIsRetired, LiveAtOneCell, GoneIsEmpty, Pointers
  <1>27. GoneIsEmpty'
    BY DEF TypeOK, GoneIsEmpty, Pointers
  <1>28. WatchedIsNeverFreed'
    BY GetSlotRange, GetSlotInjective DEF TypeOK, WatchedIsNeverFreed, WatchProtocol,
         LiveAtOneCell, WatchedBy, GoneIsEmpty, Pointers
  <1>29. ScanMissesNoGrant'
    <2> SUFFICES ASSUME NEW u \in Threads, Scanning(u)', NEW v \in Threads, NEW r \in SlotID,
          <<v, r>> \in granted', WatchedBy(v, r)' = (element_list[u][pos[u]])'
          PROVE hpc'[u] = "contains" /\ idx'[u] <= GetSlot(v, r)
      BY DEF ScanMissesNoGrant
    <2>1. u # t /\ Scanning(u) /\ hpc'[u] = hpc[u]
      BY DEF Scanning, TypeOK
    <2>2. <<v, r>> # <<t, slot[t]>>
      BY DEF WatchProtocol
    <2>3. GetSlot(v, r) # GetSlot(t, slot[t])
      BY <2>2, GetSlotInjective DEF TypeOK
    <2>4. WatchedBy(v, r)' = WatchedBy(v, r)
      BY <2>3, GetSlotRange DEF WatchedBy, TypeOK
    <2> QED
      BY <2>1, <2>4 DEF ScanMissesNoGrant
  <1> QED
    BY <1>21, <1>22, <1>23, <1>24, <1>25, <1>26, <1>27, <1>28, <1>29

(* ... unwatch ...                                                          *)
LEMMA CallUnwatchKeeps ==
  ASSUME IInv, NEW t \in Threads, NEW s \in SlotID, CallUnwatch(t, s)
  PROVE  IInv'
  <1> USE CallUnwatch(t, s), NullAssumption DEF IInv, CallUnwatch, clientVars, Unwatch
  <1>21. TypeOK'
    <2>1. GetSlot(t, s) \in 0 .. (NumSlots - 1)
      BY GetSlotRange DEF TypeOK
    <2> QED
      BY <2>1 DEF TypeOK, HPStates, Pointers
  <1>22. ScanInRange'
    BY DEF TypeOK, ScanInRange, Scanning
  <1>23. WatchProtocol'
    BY GetSlotRange, GetSlotInjective DEF TypeOK, WatchProtocol, WatchedBy, Pointers
  <1>24. LiveAtOneCell'
    BY DEF TypeOK, LiveAtOneCell, WaitingIsRetired, Pointers
  <1>25. WaitingIsRetired'
    BY DEF TypeOK, WaitingIsRetired, LiveAtOneCell, WaitsOnce, Pointers
  <1>26. WaitsOnce'
    BY DEF TypeOK, WaitsOnce, WaitingIsRetired, LiveAtOneCell, GoneIsEmpty, Pointers
  <1>27. GoneIsEmpty'
    BY DEF TypeOK, GoneIsEmpty, Pointers
  <1>28. WatchedIsNeverFreed'
    BY GetSlotRange, GetSlotInjective DEF TypeOK, WatchedIsNeverFreed, WatchProtocol,
         LiveAtOneCell, WatchedBy, GoneIsEmpty, Pointers
  <1>29. ScanMissesNoGrant'
    <2> SUFFICES ASSUME NEW u \in Threads, Scanning(u)', NEW v \in Threads, NEW r \in SlotID,
          <<v, r>> \in granted', WatchedBy(v, r)' = (element_list[u][pos[u]])'
          PROVE hpc'[u] = "contains" /\ idx'[u] <= GetSlot(v, r)
      BY DEF ScanMissesNoGrant
    <2>2. <<v, r>> # <<t, s>> /\ Scanning(u)
      BY DEF Scanning
    <2>3. GetSlot(v, r) # GetSlot(t, s)
      BY <2>2, GetSlotInjective DEF TypeOK
    <2>4. WatchedBy(v, r)' = WatchedBy(v, r)
      BY <2>3, GetSlotRange DEF WatchedBy, TypeOK
    <2> QED
      BY <2>2, <2>4 DEF ScanMissesNoGrant
  <1> QED
    BY <1>21, <1>22, <1>23, <1>24, <1>25, <1>26, <1>27, <1>28, <1>29

(* ... the exchange at an address: what it removes is retired, what it puts *)
(* there was free, so granted to nobody ...                                *)
LEMMA ReplaceKeeps ==
  ASSUME IInv, NEW t \in Threads, NEW c \in Cells, NEW new \in Pointers, Replace(t, c, new)
  PROVE  IInv'
  <1> USE Replace(t, c, new), NullAssumption DEF IInv, Replace
  <1>21. TypeOK'
    BY DEF TypeOK, HPStates, Pointers
  <1>22. ScanInRange'
    BY DEF TypeOK, ScanInRange, Scanning
  <1>23. WatchProtocol'
    BY DEF TypeOK, WatchProtocol, WatchedBy, Pointers
  <1>24. LiveAtOneCell'
    BY DEF TypeOK, LiveAtOneCell, WaitingIsRetired, Pointers
  <1>25. WaitingIsRetired'
    BY DEF TypeOK, WaitingIsRetired, LiveAtOneCell, WaitsOnce, Pointers
  <1>26. WaitsOnce'
    BY DEF TypeOK, WaitsOnce, WaitingIsRetired, LiveAtOneCell, GoneIsEmpty, Pointers
  <1>27. GoneIsEmpty'
    BY DEF TypeOK, GoneIsEmpty, Pointers
  <1>28. WatchedIsNeverFreed'
    BY DEF TypeOK, WatchedIsNeverFreed, WatchProtocol, LiveAtOneCell, WatchedBy, GoneIsEmpty,
         Pointers
  <1>29. ScanMissesNoGrant'
    BY DEF TypeOK, ScanMissesNoGrant, Scanning, WatchedBy
  <1> QED
    BY <1>21, <1>22, <1>23, <1>24, <1>25, <1>26, <1>27, <1>28, <1>29

(* ... safe_delete, which begins a scan ...                                 *)
LEMMA CallSafeDeleteKeeps ==
  ASSUME IInv, NEW t \in Threads, CallSafeDelete(t)
  PROVE  IInv'
  <1> USE CallSafeDelete(t), NullAssumption DEF IInv, CallSafeDelete, SafeDelete
  <1> DEFINE e == unlinked[t]
             es == <<e>> \o element_list[t]
  <1>0. e \in Elems /\ element_list[t] \in Seq(Elems) /\ Len(element_list[t]) \in Nat
    BY DEF TypeOK, Pointers
  <1>1. /\ es \in Seq(Elems) /\ es # <<>> /\ Len(es) = Len(element_list[t]) + 1
        /\ es[1] = e
        /\ \A k \in 2 .. Len(es) : k - 1 \in DOMAIN element_list[t] /\ es[k] = element_list[t][k - 1]
    BY <1>0
  <1>2. element_list' = [element_list EXCEPT ![t] = es]
    BY DEF AddToUnsafe
  <1>4. idx' = [idx EXCEPT ![t] = 0] /\ hpc' = [hpc EXCEPT ![t] = "contains"]
    BY DEF GoTo
  <1>5. hpc[t] = "out"
    OBVIOUS
  <1>7. pos' = [pos EXCEPT ![t] = Position(2, es)]
    BY DEF GoTo, AddToUnsafe
  <1> HIDE DEF es
  <1>8. Position(2, es) \in 1 .. Len(es)
    BY <1>1, PositionInRange
  <1>3. pos' = [pos EXCEPT ![t] = Position(2, es)] /\ Position(2, es) \in 1 .. Len(es)
    BY <1>7, <1>8
  <1>21. TypeOK'
    BY <1>0, <1>1, <1>2, <1>3, <1>4, NumSlotsPositive DEF TypeOK, HPStates, Pointers
  <1>22. ScanInRange'
    BY DEF TypeOK, ScanInRange, Scanning, AddToUnsafe, GoTo, Position
  <1>23. WatchProtocol'
    BY DEF TypeOK, WatchProtocol, WatchedBy, Pointers, AddToUnsafe, GoTo, Position
  <1>24. LiveAtOneCell'
    BY DEF TypeOK, LiveAtOneCell, WaitingIsRetired, Pointers, AddToUnsafe, GoTo, Position
  <1>25. WaitingIsRetired'
    BY DEF TypeOK, WaitingIsRetired, LiveAtOneCell, WaitsOnce, Pointers, AddToUnsafe, GoTo, Position
  <1>26. WaitsOnce'
    <2> USE DEF TypeOK, WaitsOnce, WaitingIsRetired
    <2>1. \A k \in DOMAIN es : k = 1 \/ k \in 2 .. Len(es)
      BY <1>1, <1>0
    <2>2. ASSUME NEW v \in Threads, NEW i \in DOMAIN element_list'[v]
          PROVE  \/ v = t /\ i = 1 /\ element_list'[v][i] = e
                 \/ v = t /\ i # 1 /\ i - 1 \in DOMAIN element_list[v] /\ element_list'[v][i] = element_list[v][i - 1]
                 \/ v # t /\ i \in DOMAIN element_list[v] /\ element_list'[v][i] = element_list[v][i]
      BY <2>2, <2>1, <1>0, <1>1, <1>2
    <2>3. ASSUME NEW v \in Threads, NEW w \in Threads, NEW i \in DOMAIN element_list'[v], NEW j \in DOMAIN element_list'[w],
               element_list'[v][i] = element_list'[w][j]
          PROVE  v = w /\ i = j
      <3>1. i \in Nat /\ j \in Nat
        BY <1>1, <1>2
      <3>2. CASE v = t /\ i = 1
        BY <2>2, <2>3, <3>2
      <3>3. CASE w = t /\ j = 1
        BY <2>2, <2>3, <3>3
      <3>4. CASE ~(v = t /\ i = 1) /\ ~(w = t /\ j = 1)
        <4> DEFINE m == IF v = t THEN i - 1 ELSE i
                   n == IF w = t THEN j - 1 ELSE j
        <4>1. m \in DOMAIN element_list[v] /\ element_list'[v][i] = element_list[v][m]
          BY <2>2, <3>4
        <4>2. n \in DOMAIN element_list[w] /\ element_list'[w][j] = element_list[w][n]
          BY <2>2, <3>4
        <4> HIDE DEF m, n
        <4>3. element_list[v][m] = element_list[w][n]
          BY <4>1, <4>2, <2>3
        <4>5. v = w /\ m = n
          BY <4>1, <4>2, <4>3
        <4> QED
          BY <4>5, <3>1 DEF m, n
      <3> QED
        BY <3>2, <3>3, <3>4
    <2>4. ASSUME NEW v \in Threads, NEW w \in Threads, NEW i \in DOMAIN element_list'[v]
          PROVE  /\ element_list'[v][i] # unlinked'[w]
                 /\ \A j \in DOMAIN free_lists[w] : element_list'[v][i] # free_lists[w][j]
      BY <2>2, <1>0
    <2> QED
      BY <2>3, <2>4
  <1>27. GoneIsEmpty'
    BY DEF TypeOK, GoneIsEmpty, Pointers, AddToUnsafe, GoTo, Position
  <1>28. WatchedIsNeverFreed'
    BY DEF TypeOK, WatchedIsNeverFreed, WatchProtocol, LiveAtOneCell, WatchedBy, GoneIsEmpty,
         Pointers, AddToUnsafe, GoTo, Position
  <1>29. ScanMissesNoGrant'
    <2> SUFFICES ASSUME NEW u \in Threads, Scanning(u)', NEW v \in Threads, NEW r \in SlotID,
          <<v, r>> \in granted', WatchedBy(v, r)' = (element_list[u][pos[u]])'
          PROVE hpc'[u] = "contains" /\ idx'[u] <= GetSlot(v, r)
      BY DEF ScanMissesNoGrant
    <2>1. CASE u = t
      BY <2>1, <1>4, GetSlotRange, NumSlotsPositive DEF TypeOK
    <2>2. CASE u # t
      BY <2>2, <1>2, <1>3, <1>4 DEF TypeOK, ScanMissesNoGrant, Scanning, WatchedBy
    <2> QED
      BY <2>1, <2>2
  <1> QED
    BY <1>21, <1>22, <1>23, <1>24, <1>25, <1>26, <1>27, <1>28, <1>29

(* ... safe_delete without a check ...                                      *)
LEMMA CallSafeDeleteUncheckedKeeps ==
  ASSUME IInv, NEW t \in Threads, CallSafeDeleteUnchecked(t)
  PROVE  IInv'
  <1> USE CallSafeDeleteUnchecked(t), NullAssumption DEF IInv, CallSafeDeleteUnchecked, clientVars, SafeDeleteUnchecked
  <1>0. element_list[t] \in Seq(Elems) /\ Position(2, element_list[t]) \in 1 .. Len(element_list[t])
    BY PositionInRange DEF TypeOK
  <1>2. /\ pos' = [pos EXCEPT ![t] = Position(2, element_list[t])]
        /\ idx' = [idx EXCEPT ![t] = 0]
        /\ hpc' = [hpc EXCEPT ![t] = "contains"]
    BY DEF GoTo
  <1>21. TypeOK'
    BY <1>0, <1>2, NumSlotsPositive DEF TypeOK, HPStates, Pointers
  <1>22. ScanInRange'
    BY DEF TypeOK, ScanInRange, Scanning, GoTo, Position
  <1>23. WatchProtocol'
    BY DEF TypeOK, WatchProtocol, WatchedBy, Pointers, GoTo, Position
  <1>24. LiveAtOneCell'
    BY DEF TypeOK, LiveAtOneCell, WaitingIsRetired, Pointers, GoTo, Position
  <1>25. WaitingIsRetired'
    BY DEF TypeOK, WaitingIsRetired, LiveAtOneCell, WaitsOnce, Pointers, GoTo, Position
  <1>26. WaitsOnce'
    BY DEF TypeOK, WaitsOnce, WaitingIsRetired, LiveAtOneCell, GoneIsEmpty, Pointers, GoTo, Position
  <1>27. GoneIsEmpty'
    BY DEF TypeOK, GoneIsEmpty, Pointers, GoTo, Position
  <1>28. WatchedIsNeverFreed'
    BY DEF TypeOK, WatchedIsNeverFreed, WatchProtocol, LiveAtOneCell, WatchedBy, GoneIsEmpty,
         Pointers, GoTo, Position
  <1>29. ScanMissesNoGrant'
    <2> SUFFICES ASSUME NEW u \in Threads, Scanning(u)', NEW v \in Threads, NEW r \in SlotID,
          <<v, r>> \in granted', WatchedBy(v, r)' = (element_list[u][pos[u]])'
          PROVE hpc'[u] = "contains" /\ idx'[u] <= GetSlot(v, r)
      BY DEF ScanMissesNoGrant
    <2>1. CASE u = t
      BY <2>1, <1>2, GetSlotRange, NumSlotsPositive DEF TypeOK
    <2>2. CASE u # t
      <3>1. hpc'[u] = hpc[u] /\ pos'[u] = pos[u] /\ idx'[u] = idx[u] /\ granted' = granted /\ watches' = watches
            /\ element_list'[u] = element_list[u]
        BY <2>2, <1>2 DEF TypeOK
      <3> QED
        BY <3>1 DEF ScanMissesNoGrant, Scanning, WatchedBy
    <2> QED
      BY <2>1, <2>2
  <1> QED
    BY <1>21, <1>22, <1>23, <1>24, <1>25, <1>26, <1>27, <1>28, <1>29

(* ... one slot of contains: a slot that differs from the element is passed *)
(* with no grant of it behind ...                                          *)
LEMMA ScanKeeps ==
  ASSUME IInv, NEW t \in Threads, Scan(t)
  PROVE  IInv'
  <1> USE Scan(t), NullAssumption DEF IInv, Scan, clientVars, ScanSlot
  <1>0. /\ element_list[t] \in Seq(Elems) /\ Len(element_list[t]) \in Nat /\ pos[t] \in 1 .. Len(element_list[t])
        /\ hpc[t] = "contains" /\ element_list[t] # <<>>
        /\ idx[t] \in 0 .. (NumSlots - 1)
        /\ element_list' = element_list /\ life' = life
    BY DEF TypeOK, ScanInRange, Scanning, Keep
  <1>2. \/ /\ watches[idx[t]] = element_list[t][pos[t]]
           /\ hpc' = [hpc EXCEPT ![t] = AfterScan(t)]
           /\ pos' = [pos EXCEPT ![t] = 0]
           /\ idx' = [idx EXCEPT ![t] = 0]
        \/ /\ watches[idx[t]] = element_list[t][pos[t]]
           /\ pos' = [pos EXCEPT ![t] = Position(pos[t] + 1, element_list[t])]
           /\ idx' = [idx EXCEPT ![t] = 0]
           /\ hpc' = [hpc EXCEPT ![t] = "contains"]
        \/ /\ watches[idx[t]] # element_list[t][pos[t]]
           /\ idx[t] + 1 = NumSlots
           /\ hpc' = [hpc EXCEPT ![t] = "on_is_watched"]
           /\ pos' = pos /\ idx' = idx
        \/ /\ watches[idx[t]] # element_list[t][pos[t]]
           /\ idx[t] + 1 # NumSlots
           /\ idx' = [idx EXCEPT ![t] = idx[t] + 1]
           /\ pos' = pos /\ hpc' = hpc
    BY DEF LastSlot, Keep, GoTo, Leave
  <1>3. Position(pos[t] + 1, element_list[t]) \in 1 .. Len(element_list[t])
    <2>1. pos[t] + 1 \in Nat \ {0}
      BY <1>0
    <2> QED
      BY <1>0, <2>1, PositionInRange
  <1>4. idx[t] + 1 # NumSlots => idx[t] + 1 \in 0 .. (NumSlots - 1)
    BY <1>0, NumSlotsPositive
  <1>5. AfterScan(t) \in {"out", "send"}
    BY DEF AfterScan
  <1>7. hpc' \in [Threads -> HPStates]
    <2>1. \/ hpc' = hpc
          \/ \E x \in {"out", "send", "contains", "on_is_watched"} : hpc' = [hpc EXCEPT ![t] = x]
      BY <1>2, <1>5
    <2> QED
      BY <2>1 DEF TypeOK, HPStates
  <1>8. pos' \in [Threads -> Nat]
    BY <1>0, <1>2, <1>3 DEF TypeOK
  <1>10. idx' \in [Threads -> 0 .. (NumSlots - 1)]
    BY <1>2, <1>4, NumSlotsPositive DEF TypeOK
  <1>21. TypeOK'
    BY <1>0, <1>7, <1>8, <1>10 DEF TypeOK
  <1>22. ScanInRange'
    BY <1>0, <1>2, <1>3, <1>5 DEF ScanInRange, Scanning, TypeOK
  <1>23. WatchProtocol'
    BY DEF TypeOK, WatchProtocol, WatchedBy, Pointers, Keep, GoTo, Position, Leave, AfterScan,
         LastSlot
  <1>24. LiveAtOneCell'
    BY DEF TypeOK, LiveAtOneCell, WaitingIsRetired, Pointers, Keep, GoTo, Position, Leave,
         AfterScan, LastSlot
  <1>25. WaitingIsRetired'
    BY DEF TypeOK, WaitingIsRetired, LiveAtOneCell, WaitsOnce, Pointers, Keep, GoTo, Position,
         Leave, AfterScan, LastSlot
  <1>26. WaitsOnce'
    <2>1. element_list' = element_list /\ free_lists' = free_lists /\ unlinked' = unlinked
      BY <1>0
    <2> QED
      BY <2>1 DEF WaitsOnce
  <1>27. GoneIsEmpty'
    BY DEF TypeOK, GoneIsEmpty, Pointers, Keep, GoTo, Position, Leave, AfterScan, LastSlot
  <1>28. WatchedIsNeverFreed'
    BY DEF TypeOK, WatchedIsNeverFreed, WatchProtocol, LiveAtOneCell, WatchedBy, GoneIsEmpty,
         Pointers, Keep, GoTo, Position, Leave, AfterScan, LastSlot
  <1>29. ScanMissesNoGrant'
    <2> SUFFICES ASSUME NEW u \in Threads, Scanning(u)', NEW v \in Threads, NEW r \in SlotID,
          <<v, r>> \in granted', WatchedBy(v, r)' = (element_list[u][pos[u]])'
          PROVE hpc'[u] = "contains" /\ idx'[u] <= GetSlot(v, r)
      BY DEF ScanMissesNoGrant
    <2>1. CASE u = t
      <3>1. GetSlot(v, r) \in 0 .. (NumSlots - 1)
        BY GetSlotRange
      <3>2. CASE idx' = [idx EXCEPT ![t] = 0] /\ hpc'[t] = "contains"
        BY <2>1, <3>1, <3>2, NumSlotsPositive DEF TypeOK
      <3>3. CASE watches[idx[t]] # element_list[t][pos[t]] /\ pos' = pos
        <4>1. idx[t] <= GetSlot(v, r) /\ GetSlot(v, r) # idx[t]
          BY <2>1, <3>3, <1>0 DEF ScanMissesNoGrant, Scanning, WatchedBy
        <4> QED
          BY <4>1, <3>1, <3>3, <2>1, <1>0, <1>2, NumSlotsPositive DEF TypeOK
      <3> QED
        BY <2>1, <3>2, <3>3, <1>2, <1>5 DEF Scanning, TypeOK
    <2>2. CASE u # t
      BY <2>2, <1>0, <1>2 DEF TypeOK, ScanMissesNoGrant, Scanning, WatchedBy
    <2> QED
      BY <2>1, <2>2
  <1> QED
    BY <1>21, <1>22, <1>23, <1>24, <1>25, <1>26, <1>27, <1>28, <1>29

(* ... the end of contains: what is deleted was found in no slot ...        *)
LEMMA CallOnIsWatchedKeeps ==
  ASSUME IInv, NEW t \in Threads, CallOnIsWatched(t)
  PROVE  IInv'
  <1> USE NullAssumption DEF IInv
  <1> DEFINE q == element_list[t]
             p == pos[t]
             e == q[p]
             es == RemoveAt(q, p)
  <1>0. /\ q \in Seq(Elems) /\ Len(q) \in Nat /\ p \in 1 .. Len(q) /\ e \in Elems /\ q # <<>>
        /\ hpc[t] = "on_is_watched"
        /\ watches' = watches /\ free_lists' = free_lists /\ slot' = slot /\ elem' = elem
        /\ leaving' = leaving /\ granted' = granted
        /\ cell' = cell /\ address' = address /\ unlinked' = unlinked
    BY DEF CallOnIsWatched, OnIsWatched, clientVars, TypeOK, ScanInRange, Scanning
  <1>1. \/ hpc' = [hpc EXCEPT ![t] = AfterScan(t)] /\ pos' = [pos EXCEPT ![t] = 0]
        \/ \E k \in 1 .. Len(element_list'[t]) :
              hpc' = [hpc EXCEPT ![t] = "contains"] /\ pos' = [pos EXCEPT ![t] = k]
    <2>1. CASE Keep(t)
      <3>1. p + 1 \in Nat \ {0}
        BY <1>0
      <3>2. Position(p + 1, q) \in 1 .. Len(q)
        BY <1>0, <3>1, PositionInRange
      <3> QED
        BY <2>1, <3>2 DEF Keep, Leave, GoTo
    <2>2. CASE Delete(t)
      <3>1. element_list'[t] = es
        BY <2>2, <1>0 DEF Delete, TypeOK
      <3>3. ASSUME p # 1 PROVE Position(p, es) \in 1 .. Len(es)
        <4>1. es \in Seq(Elems) /\ Len(es) = Len(q) - 1
          BY <1>0, RemoveAtIndices
        <4>2. Len(es) # 0
          BY <3>3, <4>1, <1>0
        <4>3. es # <<>>
          BY <4>2
        <4>4. p \in Nat \ {0}
          BY <1>0
        <4> QED
          BY <4>1, <4>3, <4>4, PositionInRange
      <3> QED
        BY <2>2, <3>1, <3>3 DEF Delete, Leave, GoTo
    <2> QED
      BY <2>1, <2>2 DEF CallOnIsWatched, OnIsWatched
  <1>2. idx' = [idx EXCEPT ![t] = 0]
    BY DEF CallOnIsWatched, OnIsWatched, Keep, Delete, Leave, GoTo
  <1>4. /\ es \in Seq(Elems)
        /\ Len(es) = Len(q) - 1
        /\ \A k \in 1 .. (Len(q) - 1) : es[k] = IF k < p THEN q[k] ELSE q[k + 1]
    BY <1>0, RemoveAtIndices
  <1>3. \/ element_list' = element_list /\ life' = life
        \/ /\ element_list' # element_list
           /\ element_list' = [element_list EXCEPT ![t] = es]
           /\ life' = [life EXCEPT ![e] = "free"]
    <2>1. Len(es) # Len(q)
      BY <1>0, <1>4
    <2>2. [element_list EXCEPT ![t] = es] # element_list
      BY <2>1 DEF TypeOK
    <2> QED
      BY <2>2 DEF CallOnIsWatched, OnIsWatched, Keep, Delete
  <1>5. AfterScan(t) \in {"out", "send"}
    BY DEF AfterScan
  <1>6. \A v \in Threads, s \in SlotID : <<v, s>> \in granted => WatchedBy(v, s) # e
    BY <1>0 DEF ScanMissesNoGrant, Scanning
  (* Where an element of a list of the next state is in the lists of this one. *)
  <1> DEFINE from(v, k) == IF v = t /\ element_list' # element_list /\ ~(k < p) THEN k + 1 ELSE k
  <1>7. ASSUME NEW v \in Threads, NEW k \in DOMAIN element_list'[v]
        PROVE  /\ from(v, k) \in DOMAIN element_list[v]
               /\ element_list'[v][k] = element_list[v][from(v, k)]
               /\ element_list' # element_list => element_list'[v][k] # e
    <2>0. element_list[v] \in Seq(Elems)
      BY DEF TypeOK
    <2>1. CASE element_list' = element_list
      BY <2>1
    <2>2. CASE element_list' # element_list /\ v # t
      <3>1. element_list'[v] = element_list[v]
        BY <1>3, <2>2 DEF TypeOK
      <3> QED
        BY <3>1, <2>2, <1>0 DEF WaitsOnce
    <2>3. CASE element_list' # element_list /\ v = t
      <3>1. element_list'[v] = es
        BY <1>3, <2>3 DEF TypeOK
      <3>2. k \in 1 .. (Len(q) - 1)
        BY <3>1, <1>4
      <3>3. CASE k < p
        <4>1. k \in DOMAIN q /\ k # p /\ p \in DOMAIN q
          BY <3>2, <3>3, <1>0
        <4>2. es[k] = q[k]
          BY <3>2, <3>3, <1>4
        <4>3. q[k] # q[p]
          BY <4>1 DEF WaitsOnce
        <4> QED
          BY <2>3, <3>1, <3>3, <4>1, <4>2, <4>3
      <3>4. CASE ~(k < p)
        <4>1. k + 1 \in DOMAIN q /\ k + 1 # p /\ p \in DOMAIN q
          BY <3>2, <3>4, <1>0
        <4>2. es[k] = q[k + 1]
          BY <3>2, <3>4, <1>4
        <4>3. q[k + 1] # q[p]
          BY <4>1 DEF WaitsOnce
        <4> QED
          BY <2>3, <3>1, <3>4, <4>1, <4>2, <4>3
      <3> QED
        BY <3>3, <3>4
    <2> QED
      BY <2>1, <2>2, <2>3
  <1>11. TypeOK'
    <2>1. hpc' \in [Threads -> HPStates]
      <3>1. \E x \in {"out", "send", "contains"} : hpc' = [hpc EXCEPT ![t] = x]
        BY <1>1, <1>5
      <3> QED
        BY <3>1 DEF TypeOK, HPStates
    <2>2. pos' \in [Threads -> Nat]
      <3>1. element_list'[t] = q \/ element_list'[t] = es
        BY <1>3 DEF TypeOK
      <3>2. Len(element_list'[t]) \in Nat
        BY <3>1, <1>0, <1>4
      <3>3. \E k \in Nat : pos' = [pos EXCEPT ![t] = k]
        BY <1>1, <3>2
      <3> QED
        BY <3>3 DEF TypeOK
    <2>3. idx' \in [Threads -> 0 .. (NumSlots - 1)]
      BY <1>2, NumSlotsPositive DEF TypeOK
    <2>4. element_list' \in [Threads -> Seq(Elems)]
      <3>1. \E x \in Seq(Elems) : element_list' = [element_list EXCEPT ![t] = x]
        BY <1>0, <1>3, <1>4 DEF TypeOK
      <3> QED
        BY <3>1 DEF TypeOK
    <2>5. life' \in [Elems -> {"free", "live", "retired"}]
      BY <1>3 DEF TypeOK
    <2> QED
      BY <1>0, <2>1, <2>2, <2>3, <2>4, <2>5 DEF TypeOK
  <1> HIDE DEF from, es, e, q, p
  <1>12. ScanInRange'
    <2> SUFFICES ASSUME NEW u \in Threads, Scanning(u)'
                 PROVE  pos'[u] \in 1 .. Len(element_list'[u])
      BY DEF ScanInRange
    <2>1. CASE u = t
      BY <2>1, <1>1, <1>5 DEF TypeOK, Scanning
    <2>2. CASE u # t
      BY <2>2, <1>1, <1>3 DEF TypeOK, Scanning, ScanInRange
    <2> QED
      BY <2>1, <2>2
  <1>13. WatchProtocol'
    BY <1>0, <1>1, <1>5 DEF WatchProtocol, WatchedBy, TypeOK
  <1>14. LiveAtOneCell'
    <2>1. life[e] = "retired"
      BY <1>0 DEF WaitingIsRetired, e, p, q
    <2> QED
      BY <2>1, <1>0, <1>3 DEF LiveAtOneCell, TypeOK
  <1>15. WaitingIsRetired'
    <2>1. ASSUME NEW v \in Threads
          PROVE  /\ unlinked'[v] \in Elems => life'[unlinked'[v]] = "retired" /\ hpc'[v] = "out"
                 /\ \A k \in DOMAIN free_lists'[v] : life'[free_lists'[v][k]] = "retired"
      <3>1. unlinked[v] # e /\ \A k \in DOMAIN free_lists[v] : free_lists[v][k] # e
        BY <1>0 DEF WaitsOnce, e, p, q
      <3>2. free_lists[v] \in Seq(Elems)
        BY DEF TypeOK
      <3> QED
        BY <3>1, <3>2, <1>0, <1>1, <1>3 DEF WaitingIsRetired, TypeOK
    <2>2. ASSUME NEW v \in Threads, NEW k \in DOMAIN element_list'[v]
          PROVE  life'[element_list'[v][k]] = "retired"
      <3>1. /\ from(v, k) \in DOMAIN element_list[v]
            /\ element_list'[v][k] = element_list[v][from(v, k)]
            /\ element_list' # element_list => element_list'[v][k] # e
        BY <1>7
      <3>2. life[element_list[v][from(v, k)]] = "retired" /\ element_list[v][from(v, k)] \in Elems
        BY <3>1 DEF WaitingIsRetired, TypeOK
      <3>3. life' = life \/ element_list' # element_list
        BY <1>3
      <3> QED
        BY <3>1, <3>2, <3>3, <1>3 DEF TypeOK
    <2> QED
      BY <2>1, <2>2 DEF WaitingIsRetired
  <1>16. WaitsOnce'
    <2>1. ASSUME NEW v \in Threads, NEW w \in Threads,
                 NEW i \in DOMAIN element_list'[v], NEW j \in DOMAIN element_list'[w],
                 element_list'[v][i] = element_list'[w][j]
          PROVE  v = w /\ i = j
      <3>1. element_list[v][from(v, i)] = element_list[w][from(w, j)]
        BY <2>1, <1>7
      <3>2. v = w /\ from(v, i) = from(w, j)
        BY <3>1, <1>7 DEF WaitsOnce
      <3>3. i \in Nat /\ j \in Nat /\ p \in Nat
        <4>1. element_list'[v] \in Seq(Elems) /\ element_list'[w] \in Seq(Elems)
          BY <1>11 DEF TypeOK
        <4> QED
          BY <4>1, <1>0
      <3> QED
        BY <3>2, <3>3 DEF from
    <2>2. ASSUME NEW v \in Threads, NEW w \in Threads, NEW i \in DOMAIN element_list'[v]
          PROVE  /\ element_list'[v][i] # unlinked[w]
                 /\ \A j \in DOMAIN free_lists[w] : element_list'[v][i] # free_lists[w][j]
      BY <1>7 DEF WaitsOnce
    <2> QED
      BY <2>1, <2>2, <1>0 DEF WaitsOnce
  <1>17. GoneIsEmpty'
    BY <1>0, <1>1, <1>3, <1>5 DEF GoneIsEmpty, TypeOK, AfterScan
  <1>18. WatchedIsNeverFreed'
    BY <1>0, <1>3, <1>6 DEF WatchedIsNeverFreed, WatchedBy, TypeOK
  <1>19. ScanMissesNoGrant'
    <2> SUFFICES ASSUME NEW u \in Threads, Scanning(u)', NEW v \in Threads, NEW r \in SlotID,
          <<v, r>> \in granted', WatchedBy(v, r)' = (element_list[u][pos[u]])'
          PROVE hpc'[u] = "contains" /\ idx'[u] <= GetSlot(v, r)
      BY DEF ScanMissesNoGrant
    <2>1. CASE u = t
      <3>1. hpc'[t] = "contains"
        BY <2>1, <1>1, <1>5 DEF TypeOK, Scanning
      <3> QED
        BY <2>1, <3>1, <1>2, GetSlotRange, NumSlotsPositive DEF TypeOK
    <2>2. CASE u # t
      <3>1. hpc'[u] = hpc[u] /\ pos'[u] = pos[u] /\ idx'[u] = idx[u] /\ element_list'[u] = element_list[u]
        BY <2>2, <1>0, <1>1, <1>2, <1>3 DEF TypeOK
      <3> QED
        BY <3>1, <1>0 DEF ScanMissesNoGrant, Scanning, WatchedBy
    <2> QED
      BY <2>1, <2>2
  <1> QED
    BY <1>11, <1>12, <1>13, <1>14, <1>15, <1>16, <1>17, <1>18, <1>19

(* ... detaching: the thread holds no grant any more ...                    *)
LEMMA CallDetachKeeps ==
  ASSUME IInv, NEW t \in Threads, CallDetach(t)
  PROVE  IInv'
  <1> USE CallDetach(t), NullAssumption DEF IInv, CallDetach, clientVars, Detach
  <1>0. element_list[t] \in Seq(Elems) /\ Len(element_list[t]) \in Nat
    BY DEF TypeOK
  <1>2. \/ hpc' = [hpc EXCEPT ![t] = "send"] /\ pos' = pos /\ idx' = idx
        \/ /\ pos' = [pos EXCEPT ![t] = Position(2, element_list[t])]
           /\ idx' = [idx EXCEPT ![t] = 0]
           /\ hpc' = [hpc EXCEPT ![t] = "contains"]
           /\ Position(2, element_list[t]) \in 1 .. Len(element_list[t])
    BY <1>0, PositionInRange DEF GoTo
  <1>3. hpc' \in [Threads -> HPStates]
    BY <1>2 DEF TypeOK, HPStates
  <1>4. pos' \in [Threads -> Nat]
    <2>1. pos' = pos \/ \E k \in Nat : pos' = [pos EXCEPT ![t] = k]
      BY <1>0, <1>2
    <2> QED
      BY <2>1 DEF TypeOK
  <1>5. idx' \in [Threads -> 0 .. (NumSlots - 1)]
    BY <1>2, NumSlotsPositive DEF TypeOK
  <1>21. TypeOK'
    BY <1>3, <1>4, <1>5 DEF TypeOK
  <1>22. ScanInRange'
    BY DEF TypeOK, ScanInRange, Scanning, GoTo, Position
  <1>23. WatchProtocol'
    BY DEF TypeOK, WatchProtocol, WatchedBy, Pointers, GoTo, Position
  <1>24. LiveAtOneCell'
    BY DEF TypeOK, LiveAtOneCell, WaitingIsRetired, Pointers, GoTo, Position
  <1>25. WaitingIsRetired'
    BY DEF TypeOK, WaitingIsRetired, LiveAtOneCell, WaitsOnce, Pointers, GoTo, Position
  <1>26. WaitsOnce'
    BY DEF TypeOK, WaitsOnce, WaitingIsRetired, LiveAtOneCell, GoneIsEmpty, Pointers, GoTo, Position
  <1>27. GoneIsEmpty'
    BY DEF TypeOK, GoneIsEmpty, Pointers, GoTo, Position
  <1>28. WatchedIsNeverFreed'
    BY DEF TypeOK, WatchedIsNeverFreed, WatchProtocol, LiveAtOneCell, WatchedBy, GoneIsEmpty,
         Pointers, GoTo, Position
  <1>29. ScanMissesNoGrant'
    <2> SUFFICES ASSUME NEW u \in Threads, Scanning(u)', NEW v \in Threads, NEW r \in SlotID,
          <<v, r>> \in granted', WatchedBy(v, r)' = (element_list[u][pos[u]])'
          PROVE hpc'[u] = "contains" /\ idx'[u] <= GetSlot(v, r)
      BY DEF ScanMissesNoGrant
    <2>1. CASE u = t
      BY <2>1, <1>2, GetSlotRange, NumSlotsPositive DEF TypeOK, Scanning
    <2>2. CASE u # t
      <3>1. hpc'[u] = hpc[u] /\ pos'[u] = pos[u] /\ idx'[u] = idx[u] /\ granted' = granted /\ watches' = watches
            /\ element_list'[u] = element_list[u]
        BY <2>2, <1>2 DEF TypeOK
      <3> QED
        BY <3>1 DEF ScanMissesNoGrant, Scanning, WatchedBy
    <2> QED
      BY <2>1, <2>2
  <1> QED
    BY <1>21, <1>22, <1>23, <1>24, <1>25, <1>26, <1>27, <1>28, <1>29

(* ... the hand-over of its list ...                                        *)
LEMMA SendKeeps ==
  ASSUME IInv, NEW t \in Threads, Send(t)
  PROVE  IInv'
  <1> USE Send(t), NullAssumption DEF IInv, Send, clientVars, SendToManager
  <1>21. TypeOK'
    BY DEF TypeOK, HPStates, Pointers
  <1>22. ScanInRange'
    BY DEF TypeOK, ScanInRange, Scanning
  <1>23. WatchProtocol'
    BY DEF TypeOK, WatchProtocol, WatchedBy, Pointers
  <1>24. LiveAtOneCell'
    BY DEF TypeOK, LiveAtOneCell, WaitingIsRetired, Pointers
  <1>25. WaitingIsRetired'
    BY DEF TypeOK, WaitingIsRetired, LiveAtOneCell, WaitsOnce, Pointers
  <1>26. WaitsOnce'
    BY DEF TypeOK, WaitsOnce, WaitingIsRetired, LiveAtOneCell, GoneIsEmpty, Pointers
  <1>27. GoneIsEmpty'
    BY DEF TypeOK, GoneIsEmpty, Pointers
  <1>28. WatchedIsNeverFreed'
    BY DEF TypeOK, WatchedIsNeverFreed, WatchProtocol, LiveAtOneCell, WatchedBy, GoneIsEmpty,
         Pointers
  <1>29. ScanMissesNoGrant'
    BY DEF TypeOK, ScanMissesNoGrant, Scanning, WatchedBy
  <1> QED
    BY <1>21, <1>22, <1>23, <1>24, <1>25, <1>26, <1>27, <1>28, <1>29

(* ... and the destructor of the manager, when no grant is left.            *)
LEMMA DestroyKeeps ==
  ASSUME IInv, NEW t \in Threads, Destroy(t)
  PROVE  IInv'
  <1> USE Destroy(t), NullAssumption DEF IInv, Destroy, clientVars, DestroyElement
  <1>21. TypeOK'
    BY DEF TypeOK, HPStates, Pointers
  <1>22. ScanInRange'
    BY DEF TypeOK, ScanInRange, Scanning
  <1>23. WatchProtocol'
    BY DEF TypeOK, WatchProtocol, WatchedBy, Pointers
  <1>24. LiveAtOneCell'
    BY DEF TypeOK, LiveAtOneCell, WaitingIsRetired, Pointers
  <1>25. WaitingIsRetired'
    BY DEF TypeOK, WaitingIsRetired, LiveAtOneCell, WaitsOnce, Pointers
  <1>26. WaitsOnce'
    <2> DEFINE from(u, k) == IF u = t THEN k + 1 ELSE k
    <2>1. \A u \in Threads : \A k \in DOMAIN free_lists'[u] :
            from(u, k) \in DOMAIN free_lists[u] /\ free_lists'[u][k] = free_lists[u][from(u, k)] /\ k \in Nat
      BY DEF TypeOK
    <2>2. element_list' = element_list /\ unlinked' = unlinked
      OBVIOUS
    <2> QED
      BY <2>1, <2>2 DEF WaitsOnce
  <1>27. GoneIsEmpty'
    BY DEF TypeOK, GoneIsEmpty, Pointers
  <1>28. WatchedIsNeverFreed'
    BY DEF TypeOK, WatchedIsNeverFreed, WatchProtocol, LiveAtOneCell, WatchedBy, GoneIsEmpty,
         Pointers
  <1>29. ScanMissesNoGrant'
    BY DEF TypeOK, ScanMissesNoGrant, Scanning, WatchedBy
  <1> QED
    BY <1>21, <1>22, <1>23, <1>24, <1>25, <1>26, <1>27, <1>28, <1>29

(* The invariant is inductive.                                              *)
LEMMA NextKeeps == IInv /\ [Next]_vars => IInv'
  <1> SUFFICES ASSUME IInv, [Next]_vars PROVE IInv'
    OBVIOUS
  <1>1. ASSUME NEW t \in Threads, NEW s \in SlotID, NEW c \in Cells, CallWatch(t, s, c)
        PROVE  IInv'
    BY <1>1, CallWatchKeeps
  <1>2. ASSUME NEW t \in Threads, NEW s \in SlotID, CallUnwatch(t, s)
        PROVE  IInv'
    BY <1>2, CallUnwatchKeeps
  <1>3. ASSUME NEW t \in Threads, NEW c \in Cells, NEW new \in Pointers, Replace(t, c, new)
        PROVE  IInv'
    BY <1>3, ReplaceKeeps
  <1>4. ASSUME NEW t \in Threads, CallSafeDelete(t) \/ CallSafeDeleteUnchecked(t)
                                  \/ CallDetach(t) \/ Destroy(t)
        PROVE  IInv'
    BY <1>4, CallSafeDeleteKeeps, CallSafeDeleteUncheckedKeeps, CallDetachKeeps, DestroyKeeps
  <1>5. ASSUME NEW t \in Threads, InCall(t)
        PROVE  IInv'
    BY <1>5, StoreKeeps, ValidateKeeps, CallOnWatchKeeps, ClearKeeps, ScanKeeps,
       CallOnIsWatchedKeeps, SendKeeps DEF InCall
  <1>6. CASE UNCHANGED vars
    <2> USE <1>6 DEF vars, hpVars, clientVars
    <2>1. TypeOK' /\ ScanInRange' /\ WatchProtocol' /\ LiveAtOneCell'
      BY DEF IInv, TypeOK, ScanInRange, Scanning, WatchProtocol, WatchedBy, LiveAtOneCell
    <2>2. WaitingIsRetired' /\ WaitsOnce' /\ GoneIsEmpty'
      BY DEF IInv, WaitingIsRetired, WaitsOnce, GoneIsEmpty
    <2>3. WatchedIsNeverFreed' /\ ScanMissesNoGrant'
      BY DEF IInv, WatchedIsNeverFreed, ScanMissesNoGrant, Scanning, WatchedBy
    <2> QED
      BY <2>1, <2>2, <2>3 DEF IInv
  <1> QED
    BY <1>1, <1>2, <1>3, <1>4, <1>5, <1>6 DEF Next, Finished

(* The invariant holds in every reachable state.                            *)
LEMMA Invariance == Spec => []IInv
  BY InitIInv, NextKeeps, PTL DEF Spec

(* Every variable keeps its type, for any number of threads, slots and     *)
(* elements.                                                               *)
THEOREM TypeCorrect == Spec => []TypeOK
  <1>1. IInv => TypeOK
    BY DEF IInv
  <1> QED
    BY <1>1, Invariance, PTL

(* No element is deleted while a watch() of it that returned true is in    *)
(* force: hazard_pointer.cc:54-95 and the scan of hp_list.cc:50-92 together *)
(* keep the promise of hazard_pointer.h:69-77.                             *)
THEOREM SafeReclamation == Spec => []WatchedIsNeverFreed
  <1>1. IInv => WatchedIsNeverFreed
    BY DEF IInv
  <1> QED
    BY <1>1, Invariance, PTL

------------------------------------------------------------------------------
(* No stale watch *)

(* A step that leaves the table and the grants alone, and that starts and   *)
(* ends outside the steps of watch that own a slot without a grant, leaves  *)
(* no stale watch.                                                          *)
LEMMA NoStaleWatchFrame ==
  ASSUME NoStaleWatch, watches' = watches, granted' = granted,
         \A t \in Threads : hpc[t] \in {"validate", "clear"} =>
            hpc'[t] \in {"validate", "clear"} /\ slot'[t] = slot[t]
  PROVE  NoStaleWatch'
  BY DEF NoStaleWatch, WatchedBy

(* The steps of watch and unwatch only write the slot they are about.       *)
LEMMA WatchStepsLeaveNothing ==
  ASSUME IInv, NoStaleWatch, NEW t \in Threads,
         \/ \E s \in SlotID : CallUnwatch(t, s)
         \/ Store(t) \/ Validate(t) \/ CallOnWatch(t) \/ Clear(t)
  PROVE  NoStaleWatch'
  <1> USE DEF NoStaleWatch, WatchedBy
  <1>0. TypeOK /\ WatchProtocol
    BY DEF IInv
  <1>a. ASSUME NEW r \in SlotID, NEW x, watches' = [watches EXCEPT ![GetSlot(t, r)] = x]
        PROVE  /\ watches'[GetSlot(t, r)] = x
               /\ \A u \in Threads, s \in SlotID :
                    (u = t /\ s = r) \/ watches'[GetSlot(u, s)] = watches[GetSlot(u, s)]
    BY <1>0, <1>a, GetSlotRange, GetSlotInjective DEF TypeOK
  <1>1. ASSUME NEW r \in SlotID, CallUnwatch(t, r) PROVE NoStaleWatch'
    <2>1. /\ watches' = [watches EXCEPT ![GetSlot(t, r)] = Null]
          /\ granted' = granted \ {<<t, r>>} /\ hpc' = hpc /\ slot' = slot
      BY <1>1 DEF CallUnwatch, Unwatch
    <2>2. /\ watches'[GetSlot(t, r)] = Null
          /\ \A u \in Threads, s \in SlotID :
               (u = t /\ s = r) \/ watches'[GetSlot(u, s)] = watches[GetSlot(u, s)]
      BY <1>a, <2>1
    <2> QED
      BY <2>1, <2>2
  <1>2. CASE Store(t)
    <2>1. /\ watches' = [watches EXCEPT ![GetSlot(t, slot[t])] = elem[t]]
          /\ granted' = granted /\ slot' = slot /\ hpc[t] = "store" /\ hpc'[t] = "validate"
          /\ \A u \in Threads : u # t => hpc'[u] = hpc[u]
          /\ slot[t] \in SlotID
      BY <1>0, <1>2 DEF Store, WatchStore, TypeOK
    <2>2. \A u \in Threads, s \in SlotID :
            (u = t /\ s = slot[t]) \/ watches'[GetSlot(u, s)] = watches[GetSlot(u, s)]
      BY <1>a, <2>1
    <2> QED
      BY <2>1, <2>2
  <1>3. ASSUME Validate(t) \/ CallOnWatch(t), NEW u \in Threads, NEW s \in SlotID,
               watches'[GetSlot(u, s)] # Null
        PROVE  \/ <<u, s>> \in granted'
               \/ hpc'[u] \in {"validate", "clear"} /\ slot'[u] = s
    <2>1. /\ watches' = watches /\ slot' = slot
          /\ \A v \in Threads : v # t => hpc'[v] = hpc[v]
          /\ \/ granted' = granted \cup {<<t, slot[t]>>}
             \/ granted' = granted
             \/ granted' = granted \ {<<t, slot[t]>>} /\ hpc'[t] = "clear"
          /\ hpc[t] = "validate" => hpc'[t] = "clear" \/ <<t, slot[t]>> \in granted'
          /\ hpc[t] \in {"validate", "on_watch"}
      BY <1>0, <1>3 DEF Validate, WatchValidate, CallOnWatch, OnWatch, TypeOK
    <2>2. CASE u # t
      BY <1>3, <2>1, <2>2
    <2>3. CASE u = t /\ s # slot[t]
      BY <1>3, <2>1, <2>3
    <2>4. CASE u = t /\ s = slot[t]
      BY <1>0, <1>3, <2>1, <2>4 DEF WatchProtocol
    <2> QED
      BY <2>2, <2>3, <2>4
  <1>4. CASE Clear(t)
    <2>1. /\ watches' = [watches EXCEPT ![GetSlot(t, slot[t])] = Null]
          /\ granted' = granted /\ slot' = slot
          /\ \A u \in Threads : u # t => hpc'[u] = hpc[u]
          /\ slot[t] \in SlotID
      BY <1>0, <1>4 DEF Clear, WatchClear, TypeOK
    <2>2. /\ watches'[GetSlot(t, slot[t])] = Null
          /\ \A u \in Threads, s \in SlotID :
               (u = t /\ s = slot[t]) \/ watches'[GetSlot(u, s)] = watches[GetSlot(u, s)]
      BY <1>a, <2>1
    <2> QED
      BY <2>1, <2>2
  <1> QED
    BY <1>1, <1>2, <1>3, <1>4

(* The other steps write no slot.                                           *)
LEMMA OtherStepsLeaveNothing ==
  ASSUME IInv, NoStaleWatch, NEW t \in Threads,
         \/ \E s \in SlotID, c \in Cells : CallWatch(t, s, c)
         \/ \E c \in Cells, new \in Pointers : Replace(t, c, new)
         \/ CallSafeDelete(t) \/ CallSafeDeleteUnchecked(t) \/ CallDetach(t)
         \/ Scan(t) \/ CallOnIsWatched(t) \/ Send(t) \/ Destroy(t)
  PROVE  NoStaleWatch'
  <1>0. hpc \in [Threads -> HPStates] /\ slot \in [Threads -> SlotID]
    BY DEF IInv, TypeOK
  <1>1. watches' = watches /\ granted' = granted
    BY DEF CallWatch, WatchCall, Replace, CallSafeDelete, SafeDelete,
       CallSafeDeleteUnchecked, SafeDeleteUnchecked, CallDetach, Detach, Scan, ScanSlot,
       CallOnIsWatched, OnIsWatched, Send, SendToManager, Destroy, DestroyElement
  <1>2. /\ hpc[t] \notin {"validate", "clear"} \/ UNCHANGED hpc
        /\ \A u \in Threads : u # t => hpc'[u] = hpc[u] /\ slot'[u] = slot[u]
        /\ UNCHANGED slot \/ hpc[t] = "out"
    <2>1. ASSUME NEW s \in SlotID, NEW c \in Cells, CallWatch(t, s, c) PROVE <1>2
      BY <1>0, <2>1 DEF CallWatch, WatchCall
    <2>2. CASE CallSafeDelete(t) \/ CallSafeDeleteUnchecked(t) \/ CallDetach(t) \/ Send(t)
      BY <1>0, <2>2 DEF CallSafeDelete, SafeDelete, CallSafeDeleteUnchecked,
         SafeDeleteUnchecked, CallDetach, Detach, Send, SendToManager, GoTo
    <2>3. CASE Scan(t)
      BY <1>0, <2>3 DEF Scan, ScanSlot, Keep, Leave, GoTo
    <2>4. CASE CallOnIsWatched(t)
      BY <1>0, <2>4 DEF CallOnIsWatched, OnIsWatched, Keep, Delete, Leave, GoTo
    <2>5. CASE Destroy(t) \/ \E c \in Cells, new \in Pointers : Replace(t, c, new)
      BY <2>5 DEF Destroy, DestroyElement, Replace
    <2> QED
      BY <2>1, <2>2, <2>3, <2>4, <2>5
  <1> QED
    BY <1>1, <1>2, NoStaleWatchFrame

(* A slot that is neither granted nor being set is empty: every way out of  *)
(* watch that fails clears the slot (hazard_pointer.cc:62-77), so nothing   *)
(* is pinned and the assert of hazard_pointer.h:169 holds.                  *)
THEOREM NothingStale == Spec => []NoStaleWatch
  <1>1. Init => NoStaleWatch
    BY GetSlotRange DEF Init, HPInit, NoStaleWatch, WatchedBy
  <1>2. IInv /\ NoStaleWatch /\ [Next]_vars => NoStaleWatch'
    <2> SUFFICES ASSUME IInv, NoStaleWatch, [Next]_vars PROVE NoStaleWatch'
      OBVIOUS
    <2>1. CASE Finished \/ UNCHANGED vars
      BY <2>1, NoStaleWatchFrame DEF Finished, vars, hpVars
    <2>2. CASE Next /\ ~Finished
      BY <2>2, WatchStepsLeaveNothing, OtherStepsLeaveNothing DEF Next, InCall
    <2> QED
      BY <2>1, <2>2
  <1> QED
    BY <1>1, <1>2, Invariance, PTL DEF Spec

------------------------------------------------------------------------------
(* The lists of retired elements: nothing is lost from them and nothing is *)
(* in them twice, whatever the scan, the hand-over and the destructor do.  *)

(* Element e is about to be passed to safe_delete, or in a list.           *)
Unlinked(e) == \E t \in Threads : unlinked[t] = e
Listed(e) == \E t \in Threads : \E k \in DOMAIN element_list[t] : element_list[t][k] = e
AtManager(e) == \E t \in Threads : \E k \in DOMAIN free_lists[t] : free_lists[t][k] = e

(* The converse of WaitingIsRetired: no retired element is lost.           *)
RetiredWaits ==
  \A e \in Elems : life[e] = "retired" => Unlinked(e) \/ Listed(e) \/ AtManager(e)

(* The steps of watch, and the reads of the scan, change neither the lists *)
(* nor the memory.                                                         *)
LEMMA RetiredWaitsFrame ==
  ASSUME RetiredWaits, life' = life, unlinked' = unlinked,
         element_list' = element_list, free_lists' = free_lists
  PROVE  RetiredWaits'
  BY DEF RetiredWaits, Unlinked, Listed, AtManager

(* What an exchange removes waits to be passed to safe_delete by the thread *)
(* that made it, which had nothing else to pass.                           *)
LEMMA ReplaceLosesNothing ==
  ASSUME IInv, RetiredWaits, NEW t \in Threads, NEW c \in Cells, NEW new \in Pointers,
         Replace(t, c, new)
  PROVE  RetiredWaits'
  <1>1. /\ unlinked' = [unlinked EXCEPT ![t] = cell[c]] /\ unlinked[t] = Null
        /\ element_list' = element_list /\ free_lists' = free_lists
    BY DEF Replace
  <1>2. unlinked \in [Threads -> Pointers]
    BY DEF IInv, TypeOK
  <1>3. ASSUME NEW e \in Elems, life'[e] = "retired"
        PROVE  e = cell[c] \/ life[e] = "retired"
    BY <1>3 DEF Replace
  <1>4. ASSUME NEW e \in Elems, Unlinked(e) \/ e = cell[c] PROVE Unlinked(e)'
    BY <1>1, <1>2, <1>4, NullAssumption DEF Unlinked
  <1>5. ASSUME NEW e \in Elems, Listed(e) \/ AtManager(e) PROVE (Listed(e) \/ AtManager(e))'
    BY <1>1, <1>5 DEF Listed, AtManager
  <1> QED
    BY <1>3, <1>4, <1>5 DEF RetiredWaits

(* safe_delete moves the element to the head of the thread's list, before  *)
(* all that was in it.                                                     *)
LEMMA SafeDeleteLosesNothing ==
  ASSUME IInv, RetiredWaits, NEW t \in Threads, CallSafeDelete(t)
  PROVE  RetiredWaits'
  <1> DEFINE q == element_list[t]
             es == <<unlinked[t]>> \o q
  <1>1. /\ unlinked[t] \in Elems /\ q \in Seq(Elems) /\ Len(q) \in Nat
        /\ element_list \in [Threads -> Seq(Elems)] /\ unlinked \in [Threads -> Pointers]
    BY DEF CallSafeDelete, IInv, TypeOK, Pointers
  <1>2. /\ life' = life /\ free_lists' = free_lists
        /\ unlinked' = [unlinked EXCEPT ![t] = Null]
        /\ element_list' = [element_list EXCEPT ![t] = es]
    BY DEF CallSafeDelete, SafeDelete, AddToUnsafe
  <1>3. /\ 1 \in DOMAIN es /\ es[1] = unlinked[t]
        /\ \A k \in DOMAIN q : k + 1 \in DOMAIN es /\ es[k + 1] = q[k]
    BY <1>1
  <1> HIDE DEF es
  <1>4. element_list'[t] = es /\ \A u \in Threads : u # t => element_list'[u] = element_list[u]
    BY <1>1, <1>2
  <1>5. ASSUME NEW e \in Elems, Unlinked(e) PROVE Unlinked(e)' \/ Listed(e)'
    <2>1. PICK u \in Threads : unlinked[u] = e
      BY <1>5 DEF Unlinked
    <2>2. CASE u = t
      BY <2>1, <2>2, <1>3, <1>4 DEF Listed
    <2>3. CASE u # t
      BY <2>1, <2>3, <1>1, <1>2 DEF Unlinked
    <2> QED
      BY <2>2, <2>3
  <1>6. ASSUME NEW e \in Elems, Listed(e) PROVE Listed(e)'
    <2>0. PICK u \in Threads : \E k \in DOMAIN element_list[u] : element_list[u][k] = e
      BY <1>6 DEF Listed
    <2>1. PICK k \in DOMAIN element_list[u] : element_list[u][k] = e
      BY <2>0
    <2>2. CASE u = t
      BY <2>1, <2>2, <1>3, <1>4 DEF Listed
    <2>3. CASE u # t
      BY <2>1, <2>3, <1>4 DEF Listed
    <2> QED
      BY <2>2, <2>3
  <1>7. ASSUME NEW e \in Elems, AtManager(e) PROVE AtManager(e)'
    BY <1>2, <1>7 DEF AtManager
  <1> QED
    BY <1>2, <1>5, <1>6, <1>7 DEF RetiredWaits

(* The scan drops only the element it deletes.                             *)
LEMMA DeleteLosesNothing ==
  ASSUME IInv, RetiredWaits, NEW t \in Threads, CallOnIsWatched(t), Delete(t)
  PROVE  RetiredWaits'
  <1> DEFINE q == element_list[t]
             p == pos[t]
             es == RemoveAt(q, p)
  <1>1. /\ q \in Seq(Elems) /\ Len(q) \in Nat /\ p \in 1 .. Len(q)
        /\ element_list \in [Threads -> Seq(Elems)] /\ life \in [Elems -> {"free", "live", "retired"}]
        /\ unlinked' = unlinked /\ free_lists' = free_lists
    BY DEF CallOnIsWatched, OnIsWatched, clientVars, IInv, TypeOK, ScanInRange, Scanning
  <1>2. /\ life' = [life EXCEPT ![q[p]] = "free"]
        /\ element_list' = [element_list EXCEPT ![t] = es]
    BY DEF Delete
  <1>3. /\ es \in Seq(Elems) /\ Len(es) = Len(q) - 1
        /\ \A k \in 1 .. (Len(q) - 1) : es[k] = IF k < p THEN q[k] ELSE q[k + 1]
    BY <1>1, RemoveAtIndices
  <1> HIDE DEF es
  <1>4. element_list'[t] = es /\ \A u \in Threads : u # t => element_list'[u] = element_list[u]
    BY <1>1, <1>2
  <1>5. ASSUME NEW e \in Elems, life'[e] = "retired" PROVE life[e] = "retired" /\ e # q[p]
    BY <1>1, <1>2, <1>5
  <1>6. ASSUME NEW e \in Elems, e # q[p], Listed(e) PROVE Listed(e)'
    <2>0. PICK u \in Threads : \E k \in DOMAIN element_list[u] : element_list[u][k] = e
      BY <1>6 DEF Listed
    <2>1. PICK k \in DOMAIN element_list[u] : element_list[u][k] = e
      BY <2>0
    <2>2. CASE u # t
      BY <2>1, <2>2, <1>4 DEF Listed
    <2>3. CASE u = t /\ k < p
      <3>0. k \in 1 .. (Len(q) - 1)
        BY <2>1, <2>3, <1>1
      <3>1. k \in DOMAIN es /\ es[k] = e
        BY <3>0, <2>1, <2>3, <1>1, <1>3
      <3> QED
        BY <3>1, <1>4 DEF Listed
    <2>4. CASE u = t /\ k > p
      <3>1. k - 1 \in 1 .. (Len(q) - 1) /\ ~(k - 1 < p) /\ (k - 1) + 1 = k
        BY <2>1, <2>4, <1>1
      <3>2. k - 1 \in DOMAIN es
        BY <3>1, <1>1, <1>3
      <3>3. es[k - 1] = q[(k - 1) + 1]
        BY <3>1, <1>3
      <3>4. es[k - 1] = e
        BY <3>1, <3>3, <2>1, <2>4
      <3> QED
        BY <3>2, <3>4, <1>4 DEF Listed
    <2>5. u = t => k \in 1 .. Len(q) /\ k # p
      BY <2>1, <1>1, <1>6
    <2> QED
      BY <2>2, <2>3, <2>4, <2>5, <1>1
  <1>7. ASSUME NEW e \in Elems, Unlinked(e) \/ AtManager(e) PROVE (Unlinked(e) \/ AtManager(e))'
    BY <1>1, <1>7 DEF Unlinked, AtManager
  <1> QED
    BY <1>5, <1>6, <1>7 DEF RetiredWaits

(* The hand-over moves the whole list, to a place that was empty.          *)
LEMMA SendLosesNothing ==
  ASSUME IInv, RetiredWaits, NEW t \in Threads, Send(t)
  PROVE  RetiredWaits'
  <1>1. /\ element_list \in [Threads -> Seq(Elems)] /\ free_lists \in [Threads -> Seq(Elems)]
        /\ free_lists[t] = <<>>
    BY DEF IInv, TypeOK, GoneIsEmpty, Send, SendToManager
  <1>2. /\ life' = life /\ unlinked' = unlinked
        /\ free_lists' = [free_lists EXCEPT ![t] = element_list[t]]
        /\ element_list' = [element_list EXCEPT ![t] = <<>>]
    BY DEF Send, SendToManager, clientVars
  <1>3. ASSUME NEW e \in Elems, Listed(e) PROVE Listed(e)' \/ AtManager(e)'
    <2>0. PICK u \in Threads : \E k \in DOMAIN element_list[u] : element_list[u][k] = e
      BY <1>3 DEF Listed
    <2>1. PICK k \in DOMAIN element_list[u] : element_list[u][k] = e
      BY <2>0
    <2>2. CASE u = t
      BY <2>1, <2>2, <1>1, <1>2 DEF AtManager
    <2>3. CASE u # t
      BY <2>1, <2>3, <1>1, <1>2 DEF Listed
    <2> QED
      BY <2>2, <2>3
  <1>4. ASSUME NEW e \in Elems, AtManager(e) PROVE AtManager(e)'
    <2>0. PICK u \in Threads : \E k \in DOMAIN free_lists[u] : free_lists[u][k] = e
      BY <1>4 DEF AtManager
    <2>1. PICK k \in DOMAIN free_lists[u] : free_lists[u][k] = e
      BY <2>0
    <2>2. u # t
      BY <2>1, <1>1
    <2> QED
      BY <2>1, <2>2, <1>1, <1>2 DEF AtManager
  <1>5. ASSUME NEW e \in Elems, Unlinked(e) PROVE Unlinked(e)'
    BY <1>2, <1>5 DEF Unlinked
  <1> QED
    BY <1>2, <1>3, <1>4, <1>5 DEF RetiredWaits

(* The destructor drops the head of a list, which it deletes.              *)
LEMMA DestroyLosesNothing ==
  ASSUME IInv, RetiredWaits, NEW t \in Threads, Destroy(t)
  PROVE  RetiredWaits'
  <1> DEFINE q == free_lists[t]
             es == Tail(q)
  <1>1. /\ q \in Seq(Elems) /\ q # <<>> /\ Len(q) \in Nat
        /\ free_lists \in [Threads -> Seq(Elems)] /\ life \in [Elems -> {"free", "live", "retired"}]
    BY DEF IInv, TypeOK, Destroy, DestroyElement
  <1>2. /\ unlinked' = unlinked /\ element_list' = element_list
        /\ life' = [life EXCEPT ![Head(q)] = "free"]
        /\ free_lists' = [free_lists EXCEPT ![t] = es]
    BY DEF Destroy, DestroyElement, clientVars
  <1>3. /\ Head(q) = q[1]
        /\ \A k \in DOMAIN q : k # 1 => k - 1 \in DOMAIN es /\ es[k - 1] = q[k]
    BY <1>1
  <1> HIDE DEF es
  <1>4. free_lists'[t] = es /\ \A u \in Threads : u # t => free_lists'[u] = free_lists[u]
    BY <1>1, <1>2
  <1>5. ASSUME NEW e \in Elems, life'[e] = "retired" PROVE life[e] = "retired" /\ e # Head(q)
    BY <1>1, <1>2, <1>5
  <1>6. ASSUME NEW e \in Elems, e # Head(q), AtManager(e) PROVE AtManager(e)'
    <2>0. PICK u \in Threads : \E k \in DOMAIN free_lists[u] : free_lists[u][k] = e
      BY <1>6 DEF AtManager
    <2>1. PICK k \in DOMAIN free_lists[u] : free_lists[u][k] = e
      BY <2>0
    <2>2. CASE u # t
      BY <2>1, <2>2, <1>4 DEF AtManager
    <2>3. CASE u = t
      <3>1. k # 1
        BY <2>1, <2>3, <1>3, <1>6
      <3>2. k - 1 \in DOMAIN es /\ es[k - 1] = e
        BY <2>1, <2>3, <3>1, <1>3
      <3> QED
        BY <3>2, <1>4 DEF AtManager
    <2> QED
      BY <2>2, <2>3
  <1>7. ASSUME NEW e \in Elems, Unlinked(e) \/ Listed(e) PROVE (Unlinked(e) \/ Listed(e))'
    BY <1>2, <1>7 DEF Unlinked, Listed
  <1> QED
    BY <1>5, <1>6, <1>7 DEF RetiredWaits

(* No step loses a retired element.                                        *)
LEMMA NextLosesNothing == IInv /\ RetiredWaits /\ [Next]_vars => RetiredWaits'
  <1> SUFFICES ASSUME IInv, RetiredWaits, [Next]_vars PROVE RetiredWaits'
    OBVIOUS
  <1>1. ASSUME NEW t \in Threads, NEW s \in SlotID,
               (\E c \in Cells : CallWatch(t, s, c)) \/ CallUnwatch(t, s)
        PROVE  RetiredWaits'
    BY <1>1, RetiredWaitsFrame DEF CallWatch, WatchCall, CallUnwatch, Unwatch, clientVars
  <1>2. ASSUME NEW t \in Threads, NEW c \in Cells, NEW new \in Pointers, Replace(t, c, new)
        PROVE  RetiredWaits'
    BY <1>2, ReplaceLosesNothing
  <1>3. ASSUME NEW t \in Threads,
               \/ Store(t) \/ Validate(t) \/ CallOnWatch(t) \/ Clear(t)
               \/ CallSafeDeleteUnchecked(t) \/ CallDetach(t) \/ Scan(t)
        PROVE  RetiredWaits'
    BY <1>3, RetiredWaitsFrame
       DEF Store, WatchStore, Validate, WatchValidate, CallOnWatch, OnWatch, Clear, WatchClear,
           CallSafeDeleteUnchecked, SafeDeleteUnchecked, CallDetach, Detach, Scan, ScanSlot,
           Keep, clientVars
  <1>4. ASSUME NEW t \in Threads, CallOnIsWatched(t) PROVE RetiredWaits'
    <2>1. CASE Delete(t)
      BY <1>4, <2>1, DeleteLosesNothing
    <2>2. CASE Keep(t)
      BY <1>4, <2>2, RetiredWaitsFrame DEF CallOnIsWatched, OnIsWatched, Keep, clientVars
    <2> QED
      BY <1>4, <2>1, <2>2 DEF CallOnIsWatched, OnIsWatched
  <1>5. ASSUME NEW t \in Threads, CallSafeDelete(t) \/ Send(t) \/ Destroy(t)
        PROVE  RetiredWaits'
    BY <1>5, SafeDeleteLosesNothing, SendLosesNothing, DestroyLosesNothing
  <1>6. CASE UNCHANGED vars
    BY <1>6, RetiredWaitsFrame DEF vars, hpVars, clientVars
  <1> QED
    BY <1>1, <1>2, <1>3, <1>4, <1>5, <1>6 DEF Next, InCall, Finished

(* Together with WaitsOnce this is RetiredOnce, which speaks of the set of *)
(* places.                                                                 *)
LEMMA OnePlace == IInv /\ RetiredWaits => RetiredOnce
  <1> SUFFICES ASSUME IInv, RetiredWaits, NEW e \in Elems
               PROVE  /\ Places(e) # {} <=> life[e] = "retired"
                      /\ \A p, q \in Places(e) : p = q
    BY DEF RetiredOnce
  <1>1. ASSUME NEW p
        PROVE  p \in Places(e) <=>
                 \/ \E t \in Threads : unlinked[t] = e /\ p = <<t, "unlinked", 0>>
                 \/ \E t \in Threads : \E k \in DOMAIN element_list[t] :
                      element_list[t][k] = e /\ p = <<t, "list", k>>
                 \/ \E t \in Threads : \E k \in DOMAIN free_lists[t] :
                      free_lists[t][k] = e /\ p = <<t, "manager", k>>
    BY DEF Places, Positions
  <1>2. life[e] = "retired" => Places(e) # {}
    BY <1>1 DEF RetiredWaits, Unlinked, Listed, AtManager
  <1>3. ASSUME NEW p \in Places(e) PROVE life[e] = "retired"
    BY <1>1, <1>3 DEF IInv, WaitingIsRetired
  <1>4. ASSUME NEW p \in Places(e), NEW q \in Places(e) PROVE p = q
    <2> DEFINE unl(t, x) == unlinked[t] = e /\ x = <<t, "unlinked", 0>>
               lst(t, k, x) == element_list[t][k] = e /\ x = <<t, "list", k>>
               mgr(t, k, x) == free_lists[t][k] = e /\ x = <<t, "manager", k>>
    <2>1. \A x \in {p, q} :
            \/ \E t \in Threads : unl(t, x)
            \/ \E t \in Threads : \E k \in DOMAIN element_list[t] : lst(t, k, x)
            \/ \E t \in Threads : \E k \in DOMAIN free_lists[t] : mgr(t, k, x)
      BY <1>1, <1>4
    <2>2. CASE \E t \in Threads : unl(t, p)
      BY <2>1, <2>2 DEF IInv, WaitsOnce
    <2>3. CASE \E t \in Threads : \E k \in DOMAIN element_list[t] : lst(t, k, p)
      BY <2>1, <2>3 DEF IInv, WaitsOnce
    <2>4. CASE \E t \in Threads : \E k \in DOMAIN free_lists[t] : mgr(t, k, p)
      BY <2>1, <2>4 DEF IInv, WaitsOnce
    <2> QED
      BY <2>1, <2>2, <2>3, <2>4
  <1> QED
    BY <1>2, <1>3, <1>4

(* An element that was unlinked and not yet deleted waits in exactly one   *)
(* place: neither the list surgery of the scan (hp_list.cc:64-90) nor the  *)
(* hand-over to the manager (hp_list.cc:36-41) loses an element or leaves  *)
(* it where it would be deleted twice.                                     *)
THEOREM NothingLost == Spec => []RetiredOnce
  <1>1. Init => RetiredWaits
    BY DEF Init, HPInit, RetiredWaits
  <1> QED
    BY <1>1, NextLosesNothing, OnePlace, Invariance, PTL DEF Spec

------------------------------------------------------------------------------
(* HazardPointerClient implements Reclamation: what the containers rely    *)
(* on, proved of the table, the scan and the lists.                        *)

(* The grants in force, as Reclamation sees them.                          *)
Held == {<<h, WatchedBy(h[1], h[2])>> : h \in granted}

(* Steps of Reclamation that take it nowhere.                              *)
Stutter == life' = life /\ Held' = Held

LEMMA HeldPairs ==
  ASSUME TypeOK, NEW h, NEW e
  PROVE  <<h, e>> \in Held <=> h \in granted /\ e = WatchedBy(h[1], h[2])
  BY DEF Held

(* A slot without a grant may be written: nobody holds anything through it. *)
LEMMA OtherSlotsStay ==
  ASSUME IInv, NEW t \in Threads, NEW s \in SlotID, NEW p \in Pointers,
         watches' = [watches EXCEPT ![GetSlot(t, s)] = p]
  PROVE  \A h \in granted \ {<<t, s>>} : WatchedBy(h[1], h[2])' = WatchedBy(h[1], h[2])
  <1> SUFFICES ASSUME NEW u \in Threads, NEW r \in SlotID, <<u, r>> \in granted, <<u, r>> # <<t, s>>
               PROVE  WatchedBy(u, r)' = WatchedBy(u, r)
    BY DEF IInv, TypeOK
  <1>1. GetSlot(u, r) # GetSlot(t, s)
    BY GetSlotInjective
  <1>2. GetSlot(u, r) \in 0 .. (NumSlots - 1) /\ watches \in [0 .. (NumSlots - 1) -> Pointers]
    BY GetSlotRange DEF IInv, TypeOK
  <1> QED
    BY <1>1, <1>2 DEF WatchedBy

LEMMA SameHeld ==
  ASSUME granted' = granted, \A h \in granted : WatchedBy(h[1], h[2])' = WatchedBy(h[1], h[2])
  PROVE  Held' = Held
  BY DEF Held

(* watch: a store into a slot that has no grant, and a grant of what is    *)
(* live if the re-read finds it.                                           *)
LEMMA WatchRefines ==
  ASSUME IInv, NEW t \in Threads, Store(t) \/ Validate(t) \/ Clear(t)
  PROVE  \/ Stutter
         \/ \E h \in Threads \X SlotID, e \in Elems : Abstract!Grant(h, e)
  <1>0. /\ slot \in [Threads -> SlotID] /\ elem \in [Threads -> Pointers]
        /\ address \in [Threads -> Cells] /\ granted \subseteq Threads \X SlotID
        /\ slot[t] \in SlotID /\ elem[t] \in Pointers /\ Null \in Pointers /\ TypeOK
    BY DEF IInv, TypeOK, Pointers
  <1>1. CASE Store(t) \/ Clear(t)
    <2>1. <<t, slot[t]>> \notin granted /\ granted' = granted /\ life' = life
      BY <1>1 DEF IInv, WatchProtocol, Store, WatchStore, Clear, WatchClear
    <2>2. PICK p \in Pointers : watches' = [watches EXCEPT ![GetSlot(t, slot[t])] = p]
      BY <1>0, <1>1 DEF Store, WatchStore, Clear, WatchClear
    <2>3. \A h \in granted : WatchedBy(h[1], h[2])' = WatchedBy(h[1], h[2])
      BY <1>0, <2>1, <2>2, OtherSlotsStay
    <2> QED
      BY <2>1, <2>3, SameHeld DEF Stutter
  <1>2. CASE Validate(t) /\ ~StillThere(cell[address[t]], elem[t])
    BY <1>2, SameHeld DEF Validate, WatchValidate, WatchedBy, Stutter
  <1>3. CASE Validate(t) /\ StillThere(cell[address[t]], elem[t])
    <2>0. PICK h \in Threads \X SlotID, e \in Pointers : h = <<t, slot[t]>> /\ e = elem[t]
      BY <1>0
    <2>1. /\ cell[address[t]] = e /\ e \in Elems /\ WatchedBy(t, slot[t]) = e
          /\ h \notin granted /\ granted' = granted \cup {h} /\ life' = life /\ watches' = watches
      BY <1>3, <2>0 DEF IInv, WatchProtocol, Validate, WatchValidate, StillThere
    <2>2. life[e] = "live"
      BY <1>0, <2>1 DEF IInv, LiveAtOneCell
    <2>3. \A f \in Elems : <<h, f>> \notin Held
      BY <1>0, <2>1, HeldPairs
    <2>4. Held' = Held \cup {<<h, e>>}
      BY <2>0, <2>1 DEF Held, WatchedBy
    <2>5. Abstract!Grant(h, e)
      BY <2>1, <2>2, <2>3, <2>4 DEF Abstract!Grant, Held
    <2> QED
      BY <2>1, <2>5
  <1> QED
    BY <1>1, <1>2, <1>3

(* A grant ends when unwatch clears its slot, or when on_watch refuses it. *)
LEMMA UnwatchRefines ==
  ASSUME IInv, NEW t \in Threads, CallOnWatch(t) \/ \E s \in SlotID : CallUnwatch(t, s)
  PROVE  \/ Stutter
         \/ \E h \in Threads \X SlotID, e \in Elems : Abstract!Release(h, e)
  <1>0. /\ slot \in [Threads -> SlotID] /\ granted \subseteq Threads \X SlotID
        /\ slot[t] \in SlotID /\ Null \in Pointers /\ TypeOK
    BY DEF IInv, TypeOK, Pointers
  <1>1. ASSUME NEW s \in SlotID, <<t, s>> \in granted, granted' = granted \ {<<t, s>>}, life' = life,
               \A h \in granted \ {<<t, s>>} : WatchedBy(h[1], h[2])' = WatchedBy(h[1], h[2])
        PROVE  \E h \in Threads \X SlotID, e \in Elems : Abstract!Release(h, e)
    <2>1. PICK e \in Elems : e = WatchedBy(t, s)
      BY <1>1 DEF IInv, WatchedIsNeverFreed
    <2>2. <<<<t, s>>, e>> \in Held
      BY <1>0, <1>1, <2>1, HeldPairs
    <2>3. Held' = Held \ {<<<<t, s>>, e>>}
      BY <1>1, <2>1 DEF Held
    <2>4. Abstract!Release(<<t, s>>, e)
      BY <1>1, <2>2, <2>3 DEF Abstract!Release, Held
    <2> QED
      BY <1>1, <2>4
  <1>2. ASSUME NEW s \in SlotID, CallUnwatch(t, s)
        PROVE  \E h \in Threads \X SlotID, e \in Elems : Abstract!Release(h, e)
    <2>1. <<t, s>> \in granted /\ granted' = granted \ {<<t, s>>} /\ life' = life
          /\ watches' = [watches EXCEPT ![GetSlot(t, s)] = Null]
      BY <1>2 DEF CallUnwatch, Unwatch
    <2> QED
      BY <1>0, <1>1, <2>1, OtherSlotsStay
  <1>3. ASSUME CallOnWatch(t)
        PROVE  \/ Stutter
               \/ \E h \in Threads \X SlotID, e \in Elems : Abstract!Release(h, e)
    <2>1. <<t, slot[t]>> \in granted /\ life' = life /\ watches' = watches
      BY <1>3 DEF CallOnWatch, OnWatch, IInv, WatchProtocol
    <2>2. granted' = granted \/ granted' = granted \ {<<t, slot[t]>>}
      BY <1>3 DEF CallOnWatch, OnWatch
    <2>3. \A h : WatchedBy(h[1], h[2])' = WatchedBy(h[1], h[2])
      BY <2>1 DEF WatchedBy
    <2> QED
      BY <1>0, <1>1, <2>1, <2>2, <2>3, SameHeld DEF Stutter
  <1> QED
    BY <1>2, <1>3

(* An exchange of an address unlinks what was there and publishes the new  *)
(* element.                                                                *)
LEMMA ReplaceRefines ==
  ASSUME IInv, NEW t \in Threads, NEW c \in Cells, NEW new \in Pointers, Replace(t, c, new)
  PROVE  \E old \in Elems \cup {Null} : Abstract!Replace(old, new)
  <1>1. /\ cell[c] \in Elems \cup {Null} /\ new \in Elems \cup {Null} /\ TypeOK
        /\ life \in [Elems -> {"free", "live", "retired"}]
    BY DEF IInv, TypeOK, Pointers
  <1>2. /\ cell[c] \in Elems => life[cell[c]] = "live"
        /\ new \in Elems => life[new] = "free"
    BY NullAssumption DEF IInv, LiveAtOneCell, Replace
  <1>3. granted' = granted /\ watches' = watches
    BY DEF Replace
  <1>4. Held' = Held
    BY <1>3, SameHeld DEF WatchedBy
  <1>5. life' = [e \in Elems |-> CASE e = cell[c] -> "retired"
                                   [] e = new /\ e # cell[c] -> "live"
                                   [] OTHER -> life[e]]
    BY <1>2 DEF Replace
  <1> QED
    BY <1>1, <1>2, <1>4, <1>5 DEF Abstract!Replace, Held

(* What the scan, or the destructor of the manager, deletes has no holder. *)
LEMMA DeleteRefines ==
  ASSUME IInv, NEW t \in Threads, CallOnIsWatched(t) \/ Destroy(t)
  PROVE  Stutter \/ \E e \in Elems : Abstract!Free(e)
  <1>0. /\ TypeOK /\ granted \subseteq Threads \X SlotID
        /\ life \in [Elems -> {"free", "live", "retired"}]
        /\ granted' = granted /\ watches' = watches
    BY DEF IInv, TypeOK, CallOnIsWatched, OnIsWatched, Destroy, DestroyElement
  <1>1. Held' = Held
    BY <1>0, SameHeld DEF WatchedBy
  <1>2. ASSUME NEW e \in Elems, life[e] = "retired", life' = [life EXCEPT ![e] = "free"],
               \A u \in Threads, s \in SlotID : <<u, s>> \in granted => WatchedBy(u, s) # e
        PROVE  Abstract!Free(e)
    <2>1. \A h \in Threads \X SlotID : <<h, e>> \notin Held
      BY <1>0, <1>2, HeldPairs
    <2>2. Abstract!HeldBy(e) = {}
      BY <2>1 DEF Abstract!HeldBy, Held
    <2> QED
      BY <1>1, <1>2, <2>2 DEF Abstract!Free, Held
  <1>3. CASE CallOnIsWatched(t)
    <2>1. hpc[t] = "on_is_watched" /\ (Keep(t) \/ Delete(t))
      BY <1>3 DEF CallOnIsWatched, OnIsWatched
    <2>2. CASE Keep(t)
      BY <1>1, <2>2 DEF Keep, Stutter
    <2>3. CASE Delete(t)
      <3>1. pos[t] \in 1 .. Len(element_list[t]) /\ element_list[t] \in Seq(Elems)
        BY <2>1 DEF IInv, ScanInRange, Scanning, TypeOK
      <3>2. PICK e \in Elems : e = element_list[t][pos[t]]
        BY <3>1
      <3>3. life[e] = "retired"
        BY <3>1, <3>2 DEF IInv, WaitingIsRetired
      <3>4. \A u \in Threads, s \in SlotID : <<u, s>> \in granted => WatchedBy(u, s) # e
        BY <2>1, <3>2 DEF IInv, ScanMissesNoGrant, Scanning
      <3>5. life' = [life EXCEPT ![e] = "free"]
        BY <2>3, <3>2 DEF Delete
      <3> QED
        BY <1>2, <3>3, <3>4, <3>5
    <2> QED
      BY <2>1, <2>2, <2>3
  <1>4. CASE Destroy(t)
    <2>1. free_lists[t] \in Seq(Elems) /\ free_lists[t] # <<>>
      BY <1>4 DEF IInv, TypeOK, Destroy, DestroyElement
    <2>2. PICK e \in Elems : e = free_lists[t][1] /\ e = Head(free_lists[t])
      BY <2>1
    <2>3. life[e] = "retired"
      BY <2>1, <2>2 DEF IInv, WaitingIsRetired
    <2>4. \A u \in Threads, s \in SlotID : <<u, s>> \notin granted
      BY <1>4 DEF IInv, GoneIsEmpty, Destroy, DestroyElement
    <2>5. life' = [life EXCEPT ![e] = "free"]
      BY <1>4, <2>2 DEF Destroy, DestroyElement
    <2> QED
      BY <1>2, <2>3, <2>4, <2>5
  <1> QED
    BY <1>3, <1>4

(* The other steps change neither the memory nor a grant.                  *)
LEMMA OthersStutter ==
  ASSUME NEW t \in Threads,
         \/ \E s \in SlotID, c \in Cells : CallWatch(t, s, c)
         \/ CallSafeDelete(t) \/ CallSafeDeleteUnchecked(t) \/ CallDetach(t)
         \/ Scan(t) \/ Send(t)
  PROVE  Stutter
  <1>1. watches' = watches /\ granted' = granted /\ life' = life
    BY DEF CallWatch, WatchCall, CallSafeDelete, SafeDelete, CallSafeDeleteUnchecked,
       SafeDeleteUnchecked, CallDetach, Detach, Scan, ScanSlot, Keep, Send, SendToManager
  <1> QED
    BY <1>1, SameHeld DEF WatchedBy, Stutter

LEMMA NextRefines == IInv /\ [Next]_vars => [Abstract!Next]_<<life, Held>>
  <1> SUFFICES ASSUME IInv, [Next]_vars PROVE Abstract!Next \/ Stutter
    BY DEF Stutter
  <1>1. CASE Finished \/ UNCHANGED vars
    BY <1>1, SameHeld DEF Finished, vars, hpVars, WatchedBy, Stutter
  <1>2. CASE Next /\ ~Finished
    <2>1. PICK t \in Threads :
            \/ \E s \in SlotID : (\E c \in Cells : CallWatch(t, s, c)) \/ CallUnwatch(t, s)
            \/ \E c \in Cells, new \in Pointers : Replace(t, c, new)
            \/ CallSafeDelete(t) \/ CallSafeDeleteUnchecked(t) \/ CallDetach(t)
            \/ InCall(t) \/ Destroy(t)
      BY <1>2 DEF Next
    <2>2. CASE \E c \in Cells, new \in Pointers : Replace(t, c, new)
      BY <2>2, ReplaceRefines DEF Abstract!Next, Pointers
    <2>3. CASE Store(t) \/ Validate(t) \/ Clear(t)
      BY <2>3, WatchRefines DEF Abstract!Next
    <2>4. CASE CallOnWatch(t) \/ \E s \in SlotID : CallUnwatch(t, s)
      BY <2>4, UnwatchRefines DEF Abstract!Next
    <2>5. CASE CallOnIsWatched(t) \/ Destroy(t)
      BY <2>5, DeleteRefines DEF Abstract!Next
    <2>6. CASE \/ \E s \in SlotID, c \in Cells : CallWatch(t, s, c)
               \/ CallSafeDelete(t) \/ CallSafeDeleteUnchecked(t) \/ CallDetach(t)
               \/ Scan(t) \/ Send(t)
      BY <2>6, OthersStutter
    <2> QED
      BY <2>1, <2>2, <2>3, <2>4, <2>5, <2>6 DEF InCall
  <1> QED
    BY <1>1, <1>2

(* The library implements Reclamation: an element is granted only while it *)
(* is live and deleted only when nobody holds it, though watch, the scan   *)
(* and unlinking are many steps of many threads (hazard_pointer.h:69-77).  *)
THEOREM LibraryReclaimsSafely == Spec => RefinesReclamation
  <1>1. Init => Abstract!Init
    BY DEF Init, HPInit, Abstract!Init
  <1>2. IInv /\ [Next]_vars => [Abstract!Next]_<<life, {<<h, WatchedBy(h[1], h[2])>> : h \in granted}>>
    BY NextRefines DEF Held
  <1> QED
    BY <1>1, <1>2, Invariance, PTL DEF Spec, RefinesReclamation, Abstract!Spec
==============================================================================
