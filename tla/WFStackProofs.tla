---------------------------- MODULE WFStackProofs ----------------------------
(***************************************************************************)
(* Of WFStack, for at most two threads, and any number of nodes, records,  *)
(* Helpers, slots and calls: no record and no Helper is read after it was  *)
(* deleted, the outcome of an announced operation is decided once, and is  *)
(* decided when the operation is withdrawn, and a Helper is off the top    *)
(* when its thread goes on.  What a third thread can do is the run         *)
(* wf_stack_watch.                                                         *)
(*                                                                         *)
(* A watch is good if nobody is deleting what it was granted of at that    *)
(* moment (GrantIsSafe).  What a watch is granted of, beside announced     *)
(* records, is a Helper at the top and the record it names; the thread     *)
(* that placed it is in finish (TopIsPlaced), and the other one is the one *)
(* that watches: nobody deletes anything (NobodyScans).                    *)
(***************************************************************************)
EXTENDS WFStack, SequenceTheorems, TLAPS

------------------------------------------------------------------------------
(* The list of what waits to be deleted, and the rows of the table         *)

(* Where the elements of two lists are in the two put together.            *)
LEMMA ConcatIndices ==
  ASSUME NEW S, NEW a \in Seq(S), NEW b \in Seq(S)
  PROVE  /\ a \o b \in Seq(S)
         /\ Len(a \o b) = Len(a) + Len(b)
         /\ \A k \in 1 .. Len(a) : (a \o b)[k] = a[k]
         /\ \A k \in (Len(a) + 1) .. (Len(a) + Len(b)) : (a \o b)[k] = b[k - Len(a)]
  OBVIOUS

(* RemoveAt leaves what was below the position and moves down what was above. *)
LEMMA RemoveAtIndices ==
  ASSUME NEW S, NEW q \in Seq(S), NEW i \in 1 .. Len(q)
  PROVE  /\ RemoveAt(q, i) \in Seq(S)
         /\ Len(RemoveAt(q, i)) = Len(q) - 1
         /\ \A k \in 1 .. (Len(q) - 1) :
              RemoveAt(q, i)[k] = IF k < i THEN q[k] ELSE q[k + 1]
  <1> DEFINE l == SubSeq(q, 1, i - 1)
             r == SubSeq(q, i + 1, Len(q))
  <1>0. Len(q) \in Nat
    OBVIOUS
  <1>1. l \in Seq(S) /\ Len(l) = i - 1 /\ \A k \in 1 .. (i - 1) : l[k] = q[k]
    OBVIOUS
  <1>2. r \in Seq(S) /\ Len(r) = Len(q) - i /\ \A k \in 1 .. (Len(q) - i) : r[k] = q[i + k]
    OBVIOUS
  <1>3. RemoveAt(q, i) = l \o r
    BY DEF RemoveAt
  <1> HIDE DEF l, r
  <1>4. /\ l \o r \in Seq(S) /\ Len(l \o r) = Len(l) + Len(r)
        /\ \A k \in 1 .. Len(l) : (l \o r)[k] = l[k]
        /\ \A k \in (Len(l) + 1) .. (Len(l) + Len(r)) : (l \o r)[k] = r[k - Len(l)]
    <2>1. l \in Seq(S) /\ r \in Seq(S)
      BY <1>1, <1>2
    <2> QED
      BY <2>1, ConcatIndices
  <1>5. Len(l \o r) = Len(q) - 1
    BY <1>0, <1>1, <1>2, <1>4
  <1>6. ASSUME NEW k \in 1 .. (Len(q) - 1)
        PROVE  (l \o r)[k] = IF k < i THEN q[k] ELSE q[k + 1]
    <2>1. CASE k \in 1 .. (i - 1)
      BY <2>1, <1>0, <1>1, <1>4
    <2>2. CASE k \in i .. (Len(q) - 1)
      <3>1. (l \o r)[k] = r[k - (i - 1)]
        BY <2>2, <1>0, <1>1, <1>2, <1>4
      <3>2. k - (i - 1) \in 1 .. (Len(q) - i)
        BY <2>2, <1>0
      <3>3. r[k - (i - 1)] = q[i + (k - (i - 1))]
        BY <3>2, <1>2
      <3> QED
        BY <2>2, <3>1, <3>3, <1>0
    <2>3. k \in 1 .. (i - 1) \/ k \in i .. (Len(q) - 1)
      BY <1>0
    <2> QED
      BY <2>1, <2>2, <2>3
  <1> QED
    BY <1>3, <1>4, <1>5, <1>6

(* Rows that start in order do not overlap.                                *)
LEMMA TimesMonotone ==
  ASSUME NEW n \in Nat, NEW i \in Nat, NEW j \in Nat, i < j
  PROVE  n * i + n <= n * j
  <1>1. PICK d \in Nat : j = i + 1 + d
    BY i + 1 <= j, j - (i + 1) \in Nat
  <1>2. n * j = n * i + n + n * d
    BY <1>1, n * (i + 1 + d) = n * i + n * 1 + n * d
  <1>3. n * d >= 0
    OBVIOUS
  <1>4. n * i \in Nat /\ n * j \in Nat /\ n * d \in Nat
    OBVIOUS
  <1> QED
    BY <1>2, <1>3, <1>4

(* The slots of m rows are the first m * n numbers.                        *)
LEMMA RowRange ==
  ASSUME NEW m \in Nat, NEW n \in Nat, NEW t \in 0 .. (m - 1), NEW s \in 0 .. (n - 1)
  PROVE  s + n * t \in 0 .. (m * n - 1)
  <1>1. t \in Nat /\ s \in Nat /\ s < n /\ t < m
    OBVIOUS
  <1>2. n * t + n <= n * m
    BY <1>1, TimesMonotone
  <1>3. n * t \in Nat /\ n * m \in Nat /\ n * m = m * n
    BY <1>1
  <1> QED
    BY <1>1, <1>2, <1>3

(* A number is one slot of one row only.                                   *)
LEMMA RowInjective ==
  ASSUME NEW n \in Nat, NEW t \in Nat, NEW u \in Nat, NEW s \in 0 .. (n - 1), NEW r \in 0 .. (n - 1),
         s + n * t = r + n * u
  PROVE  t = u /\ s = r
  <1>1. s \in Nat /\ s < n /\ r \in Nat /\ r < n /\ n * t \in Nat /\ n * u \in Nat
    OBVIOUS
  <1>2. ~(t < u)
    <2> SUFFICES ASSUME t < u PROVE FALSE
      OBVIOUS
    <2>1. n * t + n <= n * u
      BY TimesMonotone
    <2> QED
      BY <1>1, <2>1
  <1>3. ~(u < t)
    <2> SUFFICES ASSUME u < t PROVE FALSE
      OBVIOUS
    <2>1. n * u + n <= n * t
      BY TimesMonotone
    <2> QED
      BY <1>1, <2>1
  <1>4. t = u
    BY <1>2, <1>3
  <1> QED
    BY <1>1, <1>4

-----------------------------------------------------------------------------
(* The table of watches and the scan of a list                             *)

Slots == {SHORTUSE, SHORTUSE2, PROG_ASSUR}

(* The slots the stack uses are slots of the table.                        *)
LEMMA SlotsAreSlots == Slots \subseteq SlotID
  BY ENDAssumption, SlotsAssumption DEF Slots, SlotID, SHORTUSE, SHORTUSE2, PROG_ASSUR

(* get_slot stays inside the table, and gives every thread slots of its    *)
(* own (hazard_pointer.h:211-216).                                         *)
LEMMA GetSlotRange ==
  ASSUME NEW t \in Threads, NEW s \in Slots
  PROVE  GetSlot(t, s) \in 0 .. (NumSlots - 1)
  <1>1. END \in Nat /\ NumThreads \in Nat /\ t \in 0 .. (NumThreads - 1) /\ s \in 0 .. (END - 1)
    BY NumThreadsAssumption, ENDAssumption, SlotsAreSlots DEF Threads, SlotID
  <1> QED
    BY <1>1, RowRange DEF GetSlot, NumSlots

(* No two pairs of a thread and a slot share a position of the table.      *)
LEMMA GetSlotInjective ==
  ASSUME NEW t \in Threads, NEW s \in Slots, NEW u \in Threads, NEW r \in Slots,
         GetSlot(t, s) = GetSlot(u, r)
  PROVE  t = u /\ s = r
  <1>1. END \in Nat /\ t \in Nat /\ u \in Nat /\ s \in 0 .. (END - 1) /\ r \in 0 .. (END - 1)
    BY NumThreadsAssumption, ENDAssumption, SlotsAreSlots DEF Threads, SlotID
  <1>2. s + END * t = r + END * u
    BY DEF GetSlot
  <1> QED
    BY <1>1, <1>2, RowInjective

(* The table has a first slot, where every scan begins.                    *)
LEMMA NumSlotsPositive == NumSlots \in Nat /\ 0 \in 0 .. (NumSlots - 1)
  <1>1. 0 \in Threads /\ SHORTUSE \in Slots
    BY NumThreadsAssumption DEF Threads, Slots
  <1>2. NumSlots \in Nat
    BY NumThreadsAssumption, ENDAssumption DEF NumSlots
  <1>3. GetSlot(0, SHORTUSE) \in 0 .. (NumSlots - 1)
    BY <1>1, GetSlotRange
  <1> QED
    BY <1>2, <1>3

(* The scan of a list that is not empty goes to a position of that list.   *)
LEMMA PositionInRange ==
  ASSUME NEW S, NEW q \in Seq(S), NEW k \in Nat \ {0}, q # <<>>
  PROVE  Position(k, q) \in 1 .. Len(q)
  BY DEF Position

-----------------------------------------------------------------------------
(* The inductive invariant                                                 *)

(* Records and Helpers; of nodes nothing is claimed (finding 1).           *)
Shared == Ops \cup Helpers

Held(t, s) == <<t, s>> \in granted

(* Thread t keeps a record or a Helper by its watch in slot s.             *)
Keeps(t, s, e) ==
  /\ Held(t, s) /\ WatchedBy(t, s) = e
  /\ e \in IF s = SHORTUSE THEN Helpers ELSE Ops

Calling(t) == hpc[t] \in {"store", "validate", "on_watch", "clear"}
Scanning(t) == hpc[t] \in {"contains", "on_is_watched"}
Waiting(t) == Range(element_list[t])
Listed(e) == \E t \in Threads : e \in Waiting(t)

Finish == {"associate", "set_next", "install_new", "install_old"}

(* Thread t finishes the Helper it has placed, or one it met at the top.   *)
OwnFinish(t) == pc[t] \in Finish /\ fin[t] = helper[t]
Foreign(t) == pc[t] \in Finish /\ fin[t] # helper[t]

(* on_watch of a Helper is about to watch its record.                      *)
Meeting(t) == hpc[t] \in {"store", "validate", "on_watch"} /\ slot[t] = SHORTUSE2

(* Its watch of the record was granted: it will finish the Helper.         *)
Finishing(t) == Foreign(t) \/ (hpc[t] = "on_watch" /\ slot[t] = SHORTUSE2)

(* Its Helper was not placed yet.                                          *)
Unplaced(t) == helper[t] # Null /\ ~OwnFinish(t) /\ pc[t] # "not_valid"

(* The record of its own operation, until it is passed to safe_delete.     *)
Owning(t) ==
  IF op_table_[t] # Null THEN op_table_[t]
  ELSE IF pc[t] \in {"announce", "result"} THEN op[t] ELSE Null

(* Its help_complete knows that the operation was executed.                *)
Past(t) ==
  \/ pc[t] \in {"helped", "result", "not_valid"}
  \/ OwnFinish(t) /\ pc[t] # "associate"
  \/ pc[t] = "unwatch" /\ helper[t] = Null

(* The record's Helper was deleted; the record is next.                    *)
Gone(o) ==
  \E u \in Threads : hpc[u] = "on_is_watched" /\ Scanned(u) = o /\ hidx[u] = NumSlots

PCs == {"idle", "check", "delayed", "announce", "help", "not_done", "load", "next", "cas",
        "value", "fail", "associate", "set_next", "install_new", "install_old",
        "not_valid", "unwatch2", "unwatch", "helped", "result", "return"}

Types ==
  /\ life \in [Elems -> {"free", "private", "live", "retired"}]
  /\ watches \in [0 .. (NumSlots - 1) -> Pointers]
  /\ element_list \in [Threads -> Seq(Elems)]
  /\ hpc \in [Threads -> {"out", "store", "validate", "on_watch", "clear",
                       "contains", "on_is_watched"}]
  /\ slot \in [Threads -> Slots]
  /\ elem \in [Threads -> Pointers]
  /\ pos \in [Threads -> Nat]
  /\ idx \in [Threads -> 0 .. (NumSlots - 1)]
  /\ leaving = [t \in Threads |-> FALSE]
  /\ op_table_ \in [Threads -> Ops \cup {Null}]
  /\ help_id \in [Threads -> Threads]
  /\ lst_ \in Pointers
  /\ next_ \in [Nodes -> Nodes \cup Ops \cup {Null}]
  /\ elem_ \in [Ops -> Nodes \cup {Null}]
  /\ helper_ \in [Ops -> Helpers \cup {Null, Fail}]
  /\ op_ \in [Helpers -> Ops \cup {Null}]
  /\ old_value_ \in [Helpers -> Nodes \cup {Null}]
  /\ new_value_ \in [Helpers -> Nodes \cup Ops \cup {Null}]
  /\ pc \in [Threads -> PCs]
  /\ node \in [Threads -> Nodes \cup {Null}]
  /\ op \in [Threads -> Ops \cup {Null}]
  /\ helper \in [Threads -> Helpers \cup {Null}]
  /\ cur \in [Threads -> Nodes \cup {Null}]
  /\ nxt \in [Threads -> Nodes \cup Ops \cup {Null}]
  /\ fin \in [Threads -> Helpers \cup {Null}]
  /\ hidx \in [Threads -> 0 .. NumSlots]

(* Where a thread is in the library and in its operation.                  *)
ControlOf(t) ==
  /\ Calling(t) => pc[t] = IF slot[t] = PROG_ASSUR THEN "delayed" ELSE "load"
  /\ Scanning(t) => pc[t] \in {"unwatch", "return"} /\ pos[t] \in 1 .. Len(element_list[t])
  /\ pc[t] \in {"idle", "check", "delayed", "value", "return"} => op[t] = Null
  /\ pc[t] \in {"announce", "help", "not_done", "fail", "not_valid", "helped", "result"}
       => op[t] # Null
  /\ pc[t] \in {"not_done", "fail", "not_valid"} => helper[t] # Null
  /\ op[t] # Null /\ pc[t] \in {"load", "next", "cas", "unwatch2"} \cup Finish
       => helper[t] # Null
  /\ helper[t] # Null => op[t] # Null /\ pc[t] \notin {"announce", "help", "helped", "result"}
  /\ pc[t] \in Finish => fin[t] # Null
  /\ pc[t] \in {"value", "next"} => cur[t] # Null
  /\ pc[t] = "cas" /\ op[t] = Null /\ node[t] = Null => cur[t] # Null
  /\ hpc[t] # "on_is_watched" => hidx[t] = 0
  /\ hpc[t] = "on_is_watched" /\ Scanned(t) \notin Ops => hidx[t] = 0

Control == \A t \in Threads : ControlOf(t)

(* Where a thread is determines what it watches.                           *)
ProtocolOf(t) ==
  /\ Calling(t) /\ hpc[t] # "clear" =>
       elem[t] \in IF slot[t] = SHORTUSE THEN Elems ELSE Ops
  /\ hpc[t] \in {"validate", "on_watch"} => WatchedBy(t, slot[t]) = elem[t]
  /\ hpc[t] = "on_watch" => Held(t, slot[t])
  /\ hpc[t] \in {"store", "validate", "clear"} => ~Held(t, slot[t])
  /\ pc[t] = "load" /\ hpc[t] = "out" => ~Held(t, SHORTUSE)
  /\ pc[t] \in {"idle", "check", "delayed", "announce", "help", "not_done", "helped",
                "result", "return"} => ~Held(t, SHORTUSE)
  /\ Held(t, SHORTUSE2) =>
       Foreign(t) \/ pc[t] = "unwatch2" \/ (hpc[t] = "on_watch" /\ slot[t] = SHORTUSE2)
  /\ Held(t, PROG_ASSUR) =>
       /\ op_table_[t] = Null /\ pc[t] \notin {"announce", "result"}
       /\ op[t] # Null \/ (hpc[t] = "on_watch" /\ slot[t] = PROG_ASSUR)
  /\ Meeting(t) => Keeps(t, SHORTUSE, fin[t]) /\ elem[t] = op_[fin[t]]
  /\ Foreign(t) => Keeps(t, SHORTUSE, fin[t]) /\ Keeps(t, SHORTUSE2, op_[fin[t]])

WatchProtocol == \A t \in Threads : ProtocolOf(t)

(* A thread runs help_complete of its own record, which nobody deletes, or *)
(* of one it watches.                                                      *)
Owners ==
  \A t \in Threads :
    /\ op_table_[t] # Null => op[t] = op_table_[t] /\ pc[t] \notin {"announce", "result"}
    /\ Owning(t) # Null =>
         /\ life[Owning(t)] # "free" /\ ~Listed(Owning(t))
         /\ \A u \in Threads : Owning(u) = Owning(t) => u = t
    /\ op[t] # Null /\ op[t] # Owning(t) => Keeps(t, PROG_ASSUR, op[t])

HeldIsNotFree ==
  \A t \in Threads, s \in Slots, e \in Shared : Keeps(t, s, e) => life[e] # "free"

(* A scan that has passed a slot cannot have missed a grant of what it     *)
(* checks ...                                                              *)
ScanMissesNoGrant ==
  \A u \in Threads : Scanning(u) =>
    \A t \in Threads, s \in Slots :
      Keeps(t, s, Scanned(u)) => hpc[u] = "contains" /\ idx[u] <= GetSlot(t, s)

(* ... and the second scan, for the Helper of a record, has missed none of *)
(* that Helper: the strong watch (stack_op.h:101-109).                     *)
StrongWatch ==
  \A u \in Threads : hpc[u] = "on_is_watched" /\ Scanned(u) \in Ops /\ hidx[u] < NumSlots =>
    \A t \in Threads :
      Keeps(t, SHORTUSE, helper_[Scanned(u)]) => hidx[u] <= GetSlot(t, SHORTUSE)

(* What waits to be deleted waits once; a record waits when it was         *)
(* executed, a Helper when its thread has given it away.                   *)
Lists ==
  /\ \A t \in Threads : \A i, j \in DOMAIN element_list[t] :
       element_list[t][i] = element_list[t][j] /\ element_list[t][i] \in Shared => i = j
  /\ \A t, u \in Threads : \A e \in Shared : e \in Waiting(t) /\ e \in Waiting(u) => t = u
  /\ \A e \in Shared : Listed(e) => life[e] # "free"
  /\ \A o \in Ops : Listed(o) => helper_[o] # Null
  /\ \A t \in Threads : helper[t] # Null => ~Listed(helper[t])

(* A Helper belongs to the thread that made it; from the moment it is      *)
(* associated, to the record, which deletes it just before itself.         *)
HelperLife ==
  /\ \A h \in Helpers : life[h] # "free" => op_[h] # Null
  /\ \A t \in Threads : helper[t] # Null =>
       /\ life[helper[t]] # "free" /\ op_[helper[t]] = op[t]
       /\ \A u \in Threads : helper[u] = helper[t] => u = t
  /\ \A t \in Threads : Unplaced(t) =>
       /\ \A o \in Ops : helper_[o] = helper[t] => Gone(o)
       /\ \A u \in Threads : ~Keeps(u, SHORTUSE, helper[t])
  /\ \A o \in Ops : helper_[o] \in Helpers /\ ~Gone(o) =>
       /\ life[o] # "free" /\ life[helper_[o]] # "free"
       /\ op_[helper_[o]] = o /\ ~Listed(helper_[o])

(* A Helper at the top is one whose thread has not left finish.            *)
Placed(h) == \E t \in Threads : OwnFinish(t) /\ helper[t] = h
TopIsPlaced == lst_ \in Helpers => Placed(lst_)

(* Whoever finishes a Helper of another thread finds its record decided,   *)
(* or that thread still there.                                             *)
FinishOpen ==
  \A t \in Threads : Finishing(t) /\ helper_[op_[fin[t]]] = Null => Placed(fin[t])

Settled == \A t \in Threads : op[t] # Null /\ Past(t) => helper_[op[t]] # Null

IInv ==
  /\ Types
  /\ Control
  /\ WatchProtocol
  /\ Owners
  /\ HeldIsNotFree
  /\ ScanMissesNoGrant
  /\ StrongWatch
  /\ Lists
  /\ HelperLife
  /\ TopIsPlaced
  /\ FinishOpen
  /\ Settled

-----------------------------------------------------------------------------
(* What follows from the invariant                                         *)

LEMMA Kinds ==
  /\ Shared \subseteq Elems /\ Nodes \subseteq Elems
  /\ Null \notin Shared /\ Null \notin Nodes /\ Fail \notin Helpers /\ Fail # Null
  /\ \A e \in Ops : e \notin Helpers /\ e \notin Nodes
  /\ \A e \in Helpers : e \notin Ops /\ e \notin Nodes
  /\ \A e \in Elems : e \in Nodes \/ e \in Shared
  BY NullAssumption, ElemsAssumption, ApartAssumption, FailAssumption DEF Shared, Pointers

LEMMA SlotKinds ==
  /\ SHORTUSE \in Slots /\ SHORTUSE2 \in Slots /\ PROG_ASSUR \in Slots
  /\ SHORTUSE # SHORTUSE2 /\ SHORTUSE # PROG_ASSUR /\ SHORTUSE2 # PROG_ASSUR
  BY DEF Slots, SHORTUSE, SHORTUSE2, PROG_ASSUR

(* Two threads: whoever is neither t nor u is nobody.                      *)
LEMMA NoThird ==
  ASSUME NumThreads <= 2, NEW t \in Threads, NEW u \in Threads, NEW w \in Threads,
         t # u
  PROVE  w = t \/ w = u
  BY NumThreadsAssumption DEF Threads

(* The scan is at an element of the thread's list.                         *)
LEMMA ScannedWaits ==
  ASSUME Types, Control, NEW u \in Threads, Scanning(u)
  PROVE  /\ pos[u] \in 1 .. Len(element_list[u]) /\ pos[u] \in DOMAIN element_list[u]
         /\ Scanned(u) \in Elems /\ Scanned(u) \in Waiting(u) /\ Listed(Scanned(u))
  <1>1. element_list[u] \in Seq(Elems) /\ pos[u] \in 1 .. Len(element_list[u])
    BY DEF Types, Control, ControlOf
  <1>2. pos[u] \in DOMAIN element_list[u] /\ element_list[u][pos[u]] \in Elems
    BY <1>1
  <1> QED
    BY <1>1, <1>2 DEF Scanned, Waiting, Range, Listed

(* What a thread keeps, it keeps in one slot of its kind.                  *)
LEMMA KeptIsShared ==
  ASSUME NEW t, NEW s, NEW e, Keeps(t, s, e)
  PROVE  /\ Held(t, s) /\ WatchedBy(t, s) = e /\ e \in Shared
         /\ e \in Helpers => s = SHORTUSE
         /\ e \in Ops => s # SHORTUSE
  BY Kinds DEF Keeps, Shared

(* The record of an operation under way was not deleted, nor is it being   *)
(* deleted.                                                                *)
LEMMA RunningIsKept ==
  ASSUME IInv, NEW t \in Threads, op[t] # Null
  PROVE  /\ op[t] \in Ops /\ life[op[t]] # "free"
         /\ op[t] = Owning(t) \/ Keeps(t, PROG_ASSUR, op[t])
         /\ \A u \in Threads : hpc[u] = "on_is_watched" => Scanned(u) # op[t]
         /\ ~Gone(op[t])
  <1>1. op[t] \in Ops /\ op[t] \in Shared
    BY DEF IInv, Types, Shared
  <1>2. CASE op[t] = Owning(t)
    <2>1. life[op[t]] # "free" /\ ~Listed(op[t])
      BY <1>2 DEF IInv, Owners
    <2>2. \A u \in Threads : Scanning(u) => Scanned(u) # op[t]
      BY <2>1, ScannedWaits DEF IInv
    <2> QED
      BY <1>1, <1>2, <2>1, <2>2 DEF Gone, Scanning
  <1>3. CASE op[t] # Owning(t)
    <2>1. Keeps(t, PROG_ASSUR, op[t])
      BY <1>3 DEF IInv, Owners
    <2>2. life[op[t]] # "free"
      BY <1>1, <2>1, SlotKinds DEF IInv, HeldIsNotFree
    <2>3. \A u \in Threads : hpc[u] = "on_is_watched" => Scanned(u) # op[t]
      BY <2>1, SlotKinds DEF IInv, ScanMissesNoGrant, Scanning
    <2> QED
      BY <1>1, <2>1, <2>2, <2>3 DEF Gone
  <1> QED
    BY <1>2, <1>3

(* The Helper a thread has placed is its own, undeleted and given to       *)
(* nobody.                                                                 *)
LEMMA PlacedIsOwned ==
  ASSUME IInv, NEW h \in Helpers, Placed(h)
  PROVE  /\ life[h] # "free" /\ ~Listed(h)
         /\ \A t \in Threads : helper[t] = h => OwnFinish(t) /\ ~Unplaced(t)
         /\ \E t \in Threads : /\ OwnFinish(t) /\ helper[t] = h /\ hpc[t] = "out"
                               /\ op[t] # Null /\ op_[h] = op[t]
  <1>1. PICK t \in Threads : OwnFinish(t) /\ helper[t] = h
    BY DEF Placed
  <1>2. helper[t] # Null
    BY <1>1, Kinds DEF Shared
  <1>3. life[h] # "free" /\ op_[h] = op[t] /\ \A u \in Threads : helper[u] = h => u = t
    BY <1>1, <1>2 DEF IInv, HelperLife
  <1>4. ~Listed(h)
    BY <1>1, <1>2 DEF IInv, Lists
  <1>5. op[t] # Null /\ hpc[t] = "out"
    <2>1. hpc[t] \in {"out", "store", "validate", "on_watch", "clear", "contains",
                      "on_is_watched"}
      BY DEF IInv, Types
    <2> QED
      BY <1>1, <1>2, <2>1 DEF IInv, Control, ControlOf, OwnFinish, Finish, Calling, Scanning
  <1>6. \A u \in Threads : helper[u] = h => OwnFinish(u) /\ ~Unplaced(u)
    BY <1>1, <1>3 DEF Unplaced
  <1> QED
    BY <1>1, <1>3, <1>4, <1>5, <1>6

(* While a Helper is at the top, or its thread has not left it, and        *)
(* another thread looks, nobody scans.                                     *)
LEMMA NobodyScans ==
  ASSUME IInv, NumThreads <= 2, NEW t \in Threads, ~Scanning(t), ~OwnFinish(t),
         NEW h \in Helpers, Placed(h)
  PROVE  \A u \in Threads : ~Scanning(u)
  <1>1. PICK u \in Threads : OwnFinish(u) /\ helper[u] = h /\ hpc[u] = "out"
    BY PlacedIsOwned
  <1> QED
    BY <1>1, NoThird DEF Scanning

(* A Helper that was not placed yet is known to its thread only.           *)
LEMMA UnplacedIsPrivate ==
  ASSUME IInv, NEW t \in Threads, Unplaced(t)
  PROVE  /\ helper[t] \in Helpers /\ op[t] \in Ops /\ op_[helper[t]] = op[t]
         /\ lst_ # helper[t] /\ ~Listed(helper[t])
         /\ \A u \in Threads, s \in Slots : ~Keeps(u, s, helper[t])
         /\ \A u \in Threads : Finishing(u) \/ Meeting(u) => fin[u] # helper[t]
         /\ \A u \in Threads : OwnFinish(u) => helper[u] # helper[t]
         /\ \A o \in Ops : helper_[o] = helper[t] => Gone(o)
  <1>1. helper[t] \in Helpers /\ op[t] \in Ops /\ helper[t] # Null
    BY DEF IInv, Types, Control, ControlOf, Unplaced
  <1>2. ~Placed(helper[t])
    BY <1>1, PlacedIsOwned
  <1>3. lst_ # helper[t]
    BY <1>1, <1>2 DEF IInv, TopIsPlaced
  <1>4. \A u \in Threads, s \in Slots : ~Keeps(u, s, helper[t])
    BY <1>1, KeptIsShared DEF IInv, HelperLife
  <1>5. \A u \in Threads : Finishing(u) \/ Meeting(u) => Keeps(u, SHORTUSE, fin[u])
    BY DEF IInv, WatchProtocol, ProtocolOf, Finishing, Meeting
  <1>6. \A u \in Threads : Finishing(u) \/ Meeting(u) => fin[u] # helper[t]
    BY <1>4, <1>5, SlotKinds
  <1> QED
    BY <1>1, <1>2, <1>3, <1>4, <1>6 DEF IInv, HelperLife, Lists, Placed

(* Whoever finishes a Helper it met has both under watch.                  *)
LEMMA FinishingKeeps ==
  ASSUME IInv, NEW t \in Threads, Finishing(t)
  PROVE  /\ fin[t] \in Helpers /\ op_[fin[t]] \in Ops
         /\ Keeps(t, SHORTUSE, fin[t]) /\ Keeps(t, SHORTUSE2, op_[fin[t]])
         /\ life[fin[t]] # "free" /\ life[op_[fin[t]]] # "free"
         /\ \A u \in Threads : hpc[u] = "on_is_watched" => Scanned(u) # op_[fin[t]]
  <1>1. Keeps(t, SHORTUSE, fin[t]) /\ Keeps(t, SHORTUSE2, op_[fin[t]])
    <2>1. CASE Foreign(t)
      BY <2>1 DEF IInv, WatchProtocol, ProtocolOf
    <2>2. CASE hpc[t] = "on_watch" /\ slot[t] = SHORTUSE2
      <3>1. Keeps(t, SHORTUSE, fin[t]) /\ elem[t] = op_[fin[t]]
        BY <2>2 DEF IInv, WatchProtocol, ProtocolOf, Meeting
      <3>2. Held(t, SHORTUSE2) /\ WatchedBy(t, SHORTUSE2) = elem[t] /\ elem[t] \in Ops
        BY <2>2, SlotKinds DEF IInv, WatchProtocol, ProtocolOf, Calling
      <3> QED
        BY <3>1, <3>2, SlotKinds DEF Keeps
    <2> QED
      BY <2>1, <2>2 DEF Finishing
  <1>2. fin[t] \in Helpers /\ op_[fin[t]] \in Ops
    BY <1>1, SlotKinds DEF Keeps
  <1>3. life[fin[t]] # "free" /\ life[op_[fin[t]]] # "free"
    BY <1>1, <1>2, SlotKinds DEF IInv, HeldIsNotFree, Shared
  <1>4. \A u \in Threads : hpc[u] = "on_is_watched" => Scanned(u) # op_[fin[t]]
    BY <1>1, SlotKinds DEF IInv, ScanMissesNoGrant, Scanning
  <1> QED
    BY <1>1, <1>2, <1>3, <1>4

-----------------------------------------------------------------------------
(* What a step leaves alone                                                *)

(* The other threads stay where they are, with what they hold.             *)
Elsewhere(t) ==
  \A u \in Threads : u # t =>
    /\ pc'[u] = pc[u] /\ hpc'[u] = hpc[u] /\ slot'[u] = slot[u] /\ elem'[u] = elem[u]
    /\ pos'[u] = pos[u] /\ idx'[u] = idx[u] /\ hidx'[u] = hidx[u]
    /\ element_list'[u] = element_list[u] /\ op_table_'[u] = op_table_[u]
    /\ node'[u] = node[u] /\ op'[u] = op[u] /\ helper'[u] = helper[u]
    /\ cur'[u] = cur[u] /\ fin'[u] = fin[u]
    /\ \A s \in Slots : WatchedBy(u, s)' = WatchedBy(u, s) /\ (Held(u, s)' <=> Held(u, s))

Met(t) == Meeting(t) \/ Foreign(t)

LEMMA WatchesStay ==
  ASSUME watches' = watches, granted' = granted
  PROVE  /\ \A u, s : WatchedBy(u, s)' = WatchedBy(u, s) /\ (Held(u, s)' <=> Held(u, s))
         /\ \A u, s, e : Keeps(u, s, e)' <=> Keeps(u, s, e)
  BY DEF WatchedBy, Held, Keeps

(* A slot is written.                                                      *)
LEMMA SlotWrite ==
  ASSUME Types, NEW t \in Threads, NEW s \in Slots, NEW p \in Pointers,
         watches' = [watches EXCEPT ![GetSlot(t, s)] = p]
  PROVE  /\ watches' \in [0 .. (NumSlots - 1) -> Pointers]
         /\ WatchedBy(t, s)' = p
         /\ \A u \in Threads, r \in Slots : <<u, r>> # <<t, s>> =>
              WatchedBy(u, r)' = WatchedBy(u, r)
  <1>1. \A u \in Threads, r \in Slots : GetSlot(u, r) \in 0 .. (NumSlots - 1)
    BY GetSlotRange
  <1>2. \A u \in Threads, r \in Slots : <<u, r>> # <<t, s>> => GetSlot(u, r) # GetSlot(t, s)
    BY GetSlotInjective
  <1>3. watches \in [0 .. (NumSlots - 1) -> Pointers]
    BY DEF Types
  <1> QED
    BY <1>1, <1>2, <1>3 DEF WatchedBy

LEMMA ListsStay ==
  ASSUME element_list' = element_list
  PROVE  /\ \A u \in Threads : Waiting(u)' = Waiting(u)
         /\ \A e : Listed(e)' <=> Listed(e)
  BY DEF Waiting, Listed

(* The scans stay where they are.                                          *)
LEMMA ScansStay ==
  ASSUME element_list' = element_list, pos' = pos, hidx' = hidx,
         \A u \in Threads : hpc'[u] = "on_is_watched" <=> hpc[u] = "on_is_watched"
  PROVE  /\ \A u : Scanned(u)' = Scanned(u)
         /\ \A o : Gone(o)' <=> Gone(o)
  <1>1. \A u : Scanned(u)' = Scanned(u)
    BY DEF Scanned
  <1> QED
    BY <1>1 DEF Gone

(* The control of the other threads stays.                                 *)
LEMMA Others ==
  ASSUME Types, Control, WatchProtocol, NEW t \in Threads, Elsewhere(t),
         \A u \in Threads : u # t /\ Met(u) => op_'[fin[u]] = op_[fin[u]]
  PROVE  \A u \in Threads : u # t => ControlOf(u)' /\ ProtocolOf(u)'
  <1> SUFFICES ASSUME NEW u \in Threads, u # t PROVE ControlOf(u)' /\ ProtocolOf(u)'
    OBVIOUS
  <1>1. /\ pc'[u] = pc[u] /\ hpc'[u] = hpc[u] /\ slot'[u] = slot[u] /\ elem'[u] = elem[u]
        /\ pos'[u] = pos[u] /\ idx'[u] = idx[u] /\ hidx'[u] = hidx[u]
        /\ element_list'[u] = element_list[u] /\ op_table_'[u] = op_table_[u]
        /\ node'[u] = node[u] /\ op'[u] = op[u] /\ helper'[u] = helper[u]
        /\ cur'[u] = cur[u] /\ fin'[u] = fin[u]
    BY DEF Elsewhere
  <1>2. ControlOf(u)'
    BY <1>1 DEF Control, ControlOf, Calling, Scanning, Scanned
  <1>3. \A s \in Slots : WatchedBy(u, s)' = WatchedBy(u, s) /\ (Held(u, s)' <=> Held(u, s))
    BY DEF Elsewhere
  <1>4. /\ Held(u, SHORTUSE)' <=> Held(u, SHORTUSE)
        /\ Held(u, SHORTUSE2)' <=> Held(u, SHORTUSE2)
        /\ Held(u, PROG_ASSUR)' <=> Held(u, PROG_ASSUR)
        /\ WatchedBy(u, SHORTUSE)' = WatchedBy(u, SHORTUSE)
        /\ WatchedBy(u, SHORTUSE2)' = WatchedBy(u, SHORTUSE2)
    BY <1>3, SlotKinds
  <1>5. PICK s \in Slots : s = slot[u]
    BY DEF Types
  <1>6. /\ WatchedBy(u, slot[u])' = WatchedBy(u, slot[u])
        /\ Held(u, slot[u])' <=> Held(u, slot[u])
    <2>1. WatchedBy(u, s)' = WatchedBy(u, s) /\ (Held(u, s)' <=> Held(u, s))
      BY <1>3
    <2> QED
      BY <1>1, <1>5, <2>1 DEF WatchedBy, Held
  <1>7. ProtocolOf(u)
    BY DEF WatchProtocol
  <1>8. ASSUME Met(u) PROVE op_'[fin'[u]] = op_[fin[u]]
    BY <1>1, <1>8
  <1>9. /\ Calling(u)' <=> Calling(u)
        /\ Meeting(u)' <=> Meeting(u)
        /\ Foreign(u)' <=> Foreign(u)
    BY <1>1 DEF Calling, Meeting, Foreign
  <1>10. /\ Meeting(u)' => Keeps(u, SHORTUSE, fin[u])' /\ elem'[u] = op_'[fin'[u]]
         /\ Foreign(u)' => Keeps(u, SHORTUSE, fin[u])' /\ Keeps(u, SHORTUSE2, op_[fin[u]])'
    BY <1>1, <1>4, <1>7, <1>8, <1>9 DEF ProtocolOf, Met, Keeps
  <1>11. ProtocolOf(u)'
    BY <1>1, <1>4, <1>6, <1>7, <1>9, <1>10 DEF ProtocolOf
  <1> QED
    BY <1>2, <1>11

(* Thread u stays where it is.                                             *)
Stays(u) ==
  /\ op'[u] = op[u] /\ helper'[u] = helper[u] /\ fin'[u] = fin[u]
  /\ op_table_'[u] = op_table_[u] /\ element_list'[u] = element_list[u]
  /\ pc'[u] = pc[u] /\ hpc'[u] = hpc[u] /\ idx'[u] = idx[u] /\ hidx'[u] = hidx[u]
  /\ Waiting(u)' = Waiting(u) /\ Scanned(u)' = Scanned(u) /\ Owning(u)' = Owning(u)
  /\ Scanning(u)' <=> Scanning(u)
  /\ OwnFinish(u)' <=> OwnFinish(u)
  /\ Unplaced(u)' <=> Unplaced(u)
  /\ Finishing(u)' <=> Finishing(u)
  /\ Past(u)' <=> Past(u)
  /\ \A s \in Slots : \A e : Keeps(u, s, e)' <=> Keeps(u, s, e)

LEMMA OthersStay ==
  ASSUME NEW t \in Threads, Elsewhere(t)
  PROVE  \A u \in Threads : u # t => Stays(u)
  <1> SUFFICES ASSUME NEW u \in Threads, u # t PROVE Stays(u)
    OBVIOUS
  <1>1. /\ pc'[u] = pc[u] /\ hpc'[u] = hpc[u] /\ slot'[u] = slot[u] /\ pos'[u] = pos[u]
        /\ idx'[u] = idx[u] /\ hidx'[u] = hidx[u] /\ element_list'[u] = element_list[u]
        /\ op'[u] = op[u] /\ helper'[u] = helper[u] /\ fin'[u] = fin[u]
        /\ op_table_'[u] = op_table_[u]
        /\ \A s \in Slots : WatchedBy(u, s)' = WatchedBy(u, s) /\ (Held(u, s)' <=> Held(u, s))
    BY DEF Elsewhere
  <1>2. /\ Waiting(u)' = Waiting(u) /\ Scanned(u)' = Scanned(u) /\ Owning(u)' = Owning(u)
        /\ Scanning(u)' <=> Scanning(u)
    BY <1>1 DEF Waiting, Scanned, Scanning, Owning
  <1>3. OwnFinish(u)' <=> OwnFinish(u)
    BY <1>1 DEF OwnFinish
  <1>4. /\ Unplaced(u)' <=> Unplaced(u)
        /\ Finishing(u)' <=> Finishing(u)
        /\ Past(u)' <=> Past(u)
    BY <1>1, <1>3 DEF Unplaced, Finishing, Foreign, Past
  <1>5. \A s \in Slots : \A e : Keeps(u, s, e)' <=> Keeps(u, s, e)
    BY <1>1 DEF Keeps
  <1> QED
    BY <1>1, <1>2, <1>3, <1>4, <1>5 DEF Stays

(* A Helper a thread has met is one it keeps.                              *)
LEMMA MetIsKept ==
  ASSUME IInv, NEW t \in Threads, Met(t)
  PROVE  /\ fin[t] \in Helpers /\ Keeps(t, SHORTUSE, fin[t]) /\ life[fin[t]] # "free"
         /\ \A u \in Threads : Scanning(u) /\ Scanned(u) = fin[t] => hpc[u] = "contains"
  <1>1. Keeps(t, SHORTUSE, fin[t])
    BY DEF IInv, WatchProtocol, ProtocolOf, Met
  <1>2. fin[t] \in Helpers
    BY <1>1, KeptIsShared, SlotKinds DEF Keeps
  <1> QED
    BY <1>1, <1>2, SlotKinds DEF IInv, HeldIsNotFree, ScanMissesNoGrant, Shared

(* What is left of the invariant when the threads are where they should be *)
(* and watch what they should.                                             *)
Sharing ==
  /\ Owners /\ HeldIsNotFree /\ ScanMissesNoGrant /\ StrongWatch /\ Lists /\ HelperLife
  /\ TopIsPlaced /\ FinishOpen /\ Settled

(* A step that deletes and gives away nothing, watches nothing more, and   *)
(* places and takes out no Helper keeps all of it.                         *)
LEMMA QuietKeeps ==
  ASSUME IInv, NEW t \in Threads, Elsewhere(t),
         op_' = op_, helper_' = helper_, element_list'[t] = element_list[t],
         pos'[t] = pos[t], idx'[t] = idx[t], hidx'[t] = hidx[t],
         helper'[t] \in {Null, helper[t]},
         \A e \in Shared : life'[e] = life[e],
         hpc'[t] = "contains" <=> hpc[t] = "contains",
         hpc'[t] = "on_is_watched" <=> hpc[t] = "on_is_watched",
         \A s \in Slots : \A e : Keeps(t, s, e)' => Keeps(t, s, e),
         op'[t] = op[t] => \A e : Keeps(t, PROG_ASSUR, e) => Keeps(t, PROG_ASSUR, e)',
         op'[t] # op[t] => helper[t] = Null /\ (op'[t] # Null => Keeps(t, PROG_ASSUR, op[t])'),
         Owning(t)' = Owning(t),
         op_table_'[t] # Null => op'[t] = op_table_'[t] /\ pc'[t] \notin {"announce", "result"},
         OwnFinish(t) => \/ OwnFinish(t)' /\ helper'[t] = helper[t]
                         \/ lst_' # helper[t] /\ helper_[op[t]] # Null,
         Unplaced(t)' => Unplaced(t),
         Finishing(t)' => Finishing(t) /\ fin'[t] = fin[t],
         op'[t] # Null /\ Past(t)' =>
           op'[t] = op[t] /\ (Past(t) \/ helper_[op[t]] # Null),
         lst_' \in Helpers => lst_' = lst_
  PROVE  Sharing'
  <1>0. \A u \in Threads : u # t => Stays(u)
    BY OthersStay
  <1>1. \A u \in Threads :
          /\ helper'[u] \in {Null, helper[u]} /\ Owning(u)' = Owning(u)
          /\ hpc'[u] = "contains" <=> hpc[u] = "contains"
          /\ hpc'[u] = "on_is_watched" <=> hpc[u] = "on_is_watched"
          /\ hidx'[u] = hidx[u] /\ idx'[u] = idx[u]
          /\ Waiting(u)' = Waiting(u) /\ Scanned(u)' = Scanned(u)
          /\ element_list'[u] = element_list[u]
          /\ OwnFinish(u) => \/ OwnFinish(u)' /\ helper'[u] = helper[u]
                             \/ u = t /\ lst_' # helper[t] /\ helper_[op[t]] # Null
    BY <1>0 DEF Stays, Waiting, Scanned
  <1>2. \A u \in Threads : Scanning(u)' <=> Scanning(u)
    BY <1>1 DEF Scanning
  <1>3. /\ \A e : Listed(e)' <=> Listed(e)
        /\ \A o : Gone(o)' <=> Gone(o)
    BY <1>1 DEF Listed, Gone
  <1>4. \A u \in Threads, s \in Slots : \A e : Keeps(u, s, e)' => Keeps(u, s, e)
    BY <1>0 DEF Stays
  <1>5. \A u \in Threads : op'[u] # Null /\ op'[u] # Owning(u)' => Keeps(u, PROG_ASSUR, op[u])'
    <2> SUFFICES ASSUME NEW u \in Threads, op'[u] # Null, op'[u] # Owning(u)'
                 PROVE  Keeps(u, PROG_ASSUR, op[u])'
      OBVIOUS
    <2>1. CASE op'[u] = op[u]
      <3>1. Keeps(u, PROG_ASSUR, op[u])
        BY <1>1, <2>1 DEF IInv, Owners
      <3>2. \A e : Keeps(u, PROG_ASSUR, e) => Keeps(u, PROG_ASSUR, e)'
        BY <1>0, <2>1, SlotKinds DEF Stays
      <3>3. Keeps(u, PROG_ASSUR, op[u]) => Keeps(u, PROG_ASSUR, op[u])'
        BY <2>1, <3>2 DEF Keeps
      <3> QED
        BY <3>1, <3>3
    <2>2. CASE op'[u] # op[u]
      <3>1. u = t
        BY <1>0, <2>2 DEF Stays
      <3> QED
        BY <2>2, <3>1
    <2> QED
      BY <2>1, <2>2
  <1>6. \A u \in Threads : /\ op_table_'[u] # Null =>
                                op'[u] = op_table_'[u] /\ pc'[u] \notin {"announce", "result"}
                           /\ Finishing(u)' => Finishing(u) /\ fin'[u] = fin[u]
                           /\ op'[u] # Null /\ Past(u)' =>
                                op'[u] = op[u] /\ (Past(u) \/ helper_[op[u]] # Null)
                           /\ Unplaced(u)' => Unplaced(u)
                           /\ helper[u] # Null => op'[u] = op[u]
    BY <1>0 DEF Stays, IInv, Owners
  <1>7. \A u \in Threads : Owning(u) # Null => Owning(u) \in Shared
    BY DEF Owning, IInv, Types, Shared
  <1>8. Owners'
    BY <1>1, <1>3, <1>5, <1>6, <1>7 DEF IInv, Owners
  <1>9. HeldIsNotFree' /\ ScanMissesNoGrant' /\ StrongWatch'
    BY <1>1, <1>2, <1>4, SlotKinds DEF IInv, HeldIsNotFree, ScanMissesNoGrant, StrongWatch
  <1>10. Lists'
    <2>1. \A u \in Threads : helper[u] # Null => helper[u] \in Shared
      BY DEF IInv, Types, Shared
    <2> QED
      BY <1>1, <1>3, <2>1 DEF IInv, Lists
  <1>11. HelperLife'
    <2>1. \A u \in Threads : helper[u] # Null => helper[u] \in Shared
      BY DEF IInv, Types, Shared
    <2>2. \A o \in Ops : o \in Shared
      BY DEF Shared
    <2>3. \A h \in Helpers : h \in Shared
      BY DEF Shared
    <2>4. \A h \in Helpers : life'[h] # "free" => op_'[h] # Null
      BY <2>3 DEF IInv, HelperLife
    <2>5. \A u \in Threads : helper'[u] # Null =>
            /\ life'[helper'[u]] # "free" /\ op_'[helper'[u]] = op'[u]
            /\ \A w \in Threads : helper'[w] = helper'[u] => w = u
      BY <1>1, <1>6, <2>1 DEF IInv, HelperLife
    <2>6. \A u \in Threads : Unplaced(u)' =>
            /\ \A o \in Ops : helper_'[o] = helper'[u] => Gone(o)'
            /\ \A w \in Threads : ~Keeps(w, SHORTUSE, helper[u])'
      <3> SUFFICES ASSUME NEW u \in Threads, Unplaced(u)'
                   PROVE  /\ \A o \in Ops : helper_'[o] = helper'[u] => Gone(o)'
                          /\ \A w \in Threads : ~Keeps(w, SHORTUSE, helper[u])'
        OBVIOUS
      <3>1. Unplaced(u) /\ helper'[u] = helper[u]
        BY <1>1, <1>6 DEF Unplaced
      <3>2. \A w \in Threads : Keeps(w, SHORTUSE, helper[u])' => Keeps(w, SHORTUSE, helper[u])
        BY <1>0, <3>1, SlotKinds DEF Stays, Keeps
      <3> QED
        BY <1>3, <3>1, <3>2 DEF IInv, HelperLife
    <2>7. \A o \in Ops : helper_'[o] \in Helpers /\ ~Gone(o)' =>
            /\ life'[o] # "free" /\ life'[helper_'[o]] # "free"
            /\ op_'[helper_'[o]] = o /\ ~Listed(helper_[o])'
      BY <1>3, <2>2, <2>3 DEF IInv, HelperLife
    <2> QED
      BY <2>4, <2>5, <2>6, <2>7 DEF HelperLife
  <1>12. TopIsPlaced'
    <2> SUFFICES ASSUME lst_' \in Helpers PROVE Placed(lst_)'
      BY DEF TopIsPlaced
    <2>1. PICK w \in Threads : OwnFinish(w) /\ helper[w] = lst_'
      BY DEF IInv, TopIsPlaced, Placed
    <2> QED
      BY <1>1, <2>1 DEF Placed
  <1>13. FinishOpen'
    <2> SUFFICES ASSUME NEW u \in Threads, Finishing(u)', helper_'[op_'[fin'[u]]] = Null
                 PROVE  Placed(fin[u])'
      BY DEF FinishOpen
    <2>1. fin'[u] = fin[u] /\ helper_[op_[fin[u]]] = Null /\ Placed(fin[u]) /\ fin[u] \in Helpers
      BY <1>6, FinishingKeeps DEF IInv, FinishOpen
    <2>2. PICK w \in Threads : OwnFinish(w) /\ helper[w] = fin[u]
      BY <2>1 DEF Placed
    <2>3. op_[helper[w]] = op[w]
      BY <2>1, <2>2, Kinds DEF IInv, HelperLife, Shared
    <2> QED
      BY <1>1, <2>1, <2>2, <2>3 DEF Placed
  <1>14. Settled'
    BY <1>1, <1>6 DEF IInv, Settled
  <1> QED
    BY <1>8, <1>9, <1>10, <1>11, <1>12, <1>13, <1>14 DEF Sharing

(* What each lemma about an action puts together.                          *)
LEMMA Together ==
  ASSUME IInv, NEW t \in Threads, Elsewhere(t), Types', ControlOf(t)', ProtocolOf(t)', Sharing',
         \A u \in Threads : u # t /\ Met(u) => op_'[fin[u]] = op_[fin[u]]
  PROVE  IInv'
  <1>1. \A u \in Threads : u # t => ControlOf(u)' /\ ProtocolOf(u)'
    BY Others DEF IInv
  <1>2. Control' /\ WatchProtocol'
    BY <1>1 DEF Control, WatchProtocol
  <1> QED
    BY <1>2 DEF IInv, Sharing

-----------------------------------------------------------------------------
(* The loops of push and pop                                               *)

Apart == {"announce", "help", "not_done", "helped", "result", "not_valid", "unwatch2"}

(* A step of the stack's own code that touches no record and no Helper.    *)
LEMMA MovingKeeps ==
  ASSUME IInv, NEW t \in Threads, NEW l \in PCs, hpc[t] = "out",
         pc' = [pc EXCEPT ![t] = l],
         UNCHANGED <<watches, granted, element_list, hpc, slot, elem, pos, idx, op_table_,
                     op_, helper_, op, helper, fin, hidx>>,
         \A u \in Threads : u # t => node'[u] = node[u] /\ cur'[u] = cur[u],
         \A e \in Shared : life'[e] = life[e],
         l \in Finish <=> pc[t] \in Finish, l \in Finish => pc[t] # "associate",
         pc[t] \notin Apart, l \notin Apart,
         l = "unwatch" => op[t] = Null,
         l \in {"idle", "check", "delayed", "return", "load"} => ~Held(t, SHORTUSE),
         lst_' \in Helpers => lst_' = lst_,
         Types', ControlOf(t)'
  PROVE  IInv'
  <1> USE DEF IInv
  <1>1. pc'[t] = l
    BY DEF Types
  <1>2. /\ \A u, s : WatchedBy(u, s)' = WatchedBy(u, s) /\ (Held(u, s)' <=> Held(u, s))
        /\ \A u, s, e : Keeps(u, s, e)' <=> Keeps(u, s, e)
    BY WatchesStay
  <1>3. Elsewhere(t)
    BY <1>2 DEF Elsewhere, Types
  <1>4. ProtocolOf(t)
    BY DEF WatchProtocol
  <1>5. ProtocolOf(t)'
    BY <1>1, <1>2, <1>4 DEF ProtocolOf, Calling, Meeting, Foreign, Apart
  <1>6. Sharing'
    <2>1. /\ Owning(t)' = Owning(t)
          /\ op_table_'[t] # Null =>
               op[t] = op_table_'[t] /\ pc'[t] \notin {"announce", "result"}
      BY <1>1 DEF Owning, Owners, Apart
    <2>2. /\ OwnFinish(t)' <=> OwnFinish(t)
          /\ Unplaced(t)' => Unplaced(t)
          /\ Finishing(t)' => Finishing(t) /\ fin'[t] = fin[t]
      BY <1>1 DEF OwnFinish, Unplaced, Finishing, Foreign, Apart
    <2>3. op[t] # Null /\ Past(t)' => Past(t) \/ helper_[op[t]] # Null
      BY <1>1, <2>2 DEF Past, OwnFinish, Apart
    <2> QED
      BY <1>2, <1>3, <2>1, <2>2, <2>3, QuietKeeps
  <1> QED
    BY <1>3, <1>5, <1>6, Together

LEMMA CallPushKeeps ==
  ASSUME IInv, NEW t \in Threads, CallPush(t)
  PROVE  IInv'
  <1>1. PICK n \in Nodes :
          /\ hpc[t] = "out" /\ pc[t] = "idle"
          /\ life' = [life EXCEPT ![n] = "private"]
          /\ node' = [node EXCEPT ![t] = n]
          /\ next_' = [next_ EXCEPT ![n] = Null]
          /\ pc' = [pc EXCEPT ![t] = "check"]
          /\ UNCHANGED <<watches, element_list, hpc, slot, elem, pos, idx, leaving, granted,
                         op_table_, help_id, lst_, elem_, helper_, op_, old_value_, new_value_,
                         op, helper, cur, nxt, fin, hidx>>
    BY DEF CallPush, At, Goto, SetLife, paVars, helperVars
  <1>2. ControlOf(t) /\ ProtocolOf(t)
    BY DEF IInv, Control, WatchProtocol
  <1>3. Types'
    BY <1>1, Kinds DEF IInv, Types, PCs
  <1>4. ControlOf(t)'
    BY <1>1, <1>2 DEF ControlOf, Calling, Scanning, Finish, IInv, Types
  <1>5. \A e \in Shared : life'[e] = life[e]
    BY <1>1, Kinds DEF IInv, Types, Shared
  <1>6. "check" \in PCs /\ ~Held(t, SHORTUSE)
    BY <1>1, <1>2 DEF PCs, ProtocolOf
  <1>7. /\ "check" \in Finish <=> pc[t] \in Finish
        /\ pc[t] \notin Apart /\ "check" \notin Apart
        /\ \A u \in Threads : u # t => node'[u] = node[u] /\ cur'[u] = cur[u]
    BY <1>1 DEF Finish, Apart, IInv, Types
  <1> QED
    BY <1>1, <1>3, <1>4, <1>5, <1>6, <1>7, MovingKeeps

LEMMA CallPopKeeps ==
  ASSUME IInv, NEW t \in Threads, CallPop(t)
  PROVE  IInv'
  <1>1. /\ hpc[t] = "out" /\ pc[t] = "idle"
        /\ pc' = [pc EXCEPT ![t] = "check"]
        /\ UNCHANGED <<hpVars, op_table_, help_id, memVars, node, op, helper, cur, nxt, fin, hidx>>
    BY DEF CallPop, At, Goto, paVars
  <1>2. ControlOf(t) /\ ProtocolOf(t)
    BY DEF IInv, Control, WatchProtocol
  <1>3. Types'
    BY <1>1 DEF IInv, Types, PCs, hpVars, memVars, helperVars
  <1>4. ControlOf(t)'
    BY <1>1, <1>2 DEF ControlOf, Calling, Scanning, Finish, IInv, Types, hpVars
  <1>5. "check" \in PCs /\ ~Held(t, SHORTUSE)
    BY <1>1, <1>2 DEF PCs, ProtocolOf
  <1>6. /\ "check" \in Finish <=> pc[t] \in Finish
        /\ pc[t] \notin Apart /\ "check" \notin Apart
    BY <1>1 DEF Finish, Apart
  <1> QED
    BY <1>1, <1>3, <1>4, <1>5, <1>6, MovingKeeps DEF hpVars, memVars, helperVars

LEMMA LoadNullKeeps ==
  ASSUME IInv, NEW t \in Threads, LoadNull(t)
  PROVE  IInv'
  <1> DEFINE l == CASE IsPush(t) -> "cas"
                    [] ~IsPush(t) /\ Helping(t) -> "fail"
                    [] OTHER -> "unwatch"
  <1>1. /\ hpc[t] = "out" /\ pc[t] = "load"
        /\ pc' = [pc EXCEPT ![t] = l]
        /\ UNCHANGED <<hpVars, op_table_, help_id, memVars, node, op, helper, cur, nxt, fin, hidx>>
    BY DEF LoadNull, At, Goto, paVars
  <1>2. /\ l \in {"cas", "fail", "unwatch"}
        /\ l = "cas" /\ op[t] = Null => node[t] # Null
        /\ l = "fail" => op[t] # Null
        /\ l = "unwatch" => op[t] = Null
    BY DEF IsPush, Helping, Pushing
  <1> HIDE DEF l
  <1>3. ControlOf(t) /\ ProtocolOf(t)
    BY DEF IInv, Control, WatchProtocol
  <1>4. Types'
    BY <1>1, <1>2 DEF IInv, Types, PCs, hpVars, memVars, helperVars
  <1>5. ControlOf(t)'
    BY <1>1, <1>2, <1>3 DEF ControlOf, Calling, Scanning, Finish, IInv, Types, hpVars
  <1>6. /\ l \in PCs
        /\ l \in Finish <=> pc[t] \in Finish
        /\ pc[t] \notin Apart /\ l \notin Apart
    BY <1>1, <1>2 DEF Finish, Apart, PCs
  <1> QED
    BY <1>1, <1>2, <1>4, <1>5, <1>6, MovingKeeps DEF hpVars, memVars, helperVars, Finish

LEMMA ReadNextKeeps ==
  ASSUME IInv, NEW t \in Threads, ReadNext(t)
  PROVE  IInv'
  <1>1. /\ hpc[t] = "out" /\ pc[t] = "next"
        /\ pc' = [pc EXCEPT ![t] = "cas"]
        /\ nxt' = [nxt EXCEPT ![t] = next_[cur[t]]]
        /\ UNCHANGED <<hpVars, op_table_, help_id, memVars, node, op, helper, cur, fin, hidx>>
    BY DEF ReadNext, At, Goto, paVars
  <1>2. ControlOf(t) /\ ProtocolOf(t)
    BY DEF IInv, Control, WatchProtocol
  <1>3. cur[t] \in Nodes
    BY <1>1, <1>2 DEF ControlOf, IInv, Types
  <1>4. Types'
    BY <1>1, <1>3 DEF IInv, Types, PCs, hpVars, memVars, helperVars
  <1>5. ControlOf(t)'
    BY <1>1, <1>2 DEF ControlOf, Calling, Scanning, Finish, IInv, Types, hpVars
  <1>6. /\ "cas" \in PCs
        /\ "cas" \in Finish <=> pc[t] \in Finish
        /\ pc[t] \notin Apart /\ "cas" \notin Apart
    BY <1>1 DEF Finish, Apart, PCs
  <1> QED
    BY <1>1, <1>4, <1>5, <1>6, MovingKeeps DEF hpVars, memVars, helperVars, Finish

LEMMA CasPushKeeps ==
  ASSUME IInv, NEW t \in Threads, CasPush(t)
  PROVE  IInv'
  <1>1. /\ hpc[t] = "out" /\ pc[t] = "cas" /\ op[t] = Null /\ node[t] # Null
        /\ pc' = [pc EXCEPT ![t] = "unwatch"]
        /\ next_' = [next_ EXCEPT ![node[t]] = cur[t]]
        /\ \/ lst_' = node[t] /\ life' = [life EXCEPT ![node[t]] = "live"]
           \/ lst_' = lst_ /\ life' = life
        /\ UNCHANGED <<watches, element_list, hpc, slot, elem, pos, idx, leaving, granted,
                       op_table_, help_id, elem_, helper_, op_, old_value_, new_value_,
                       node, op, helper, cur, nxt, fin, hidx>>
    BY DEF CasPush, At, Goto, SetLife, Helping, Pushing, paVars, hpVars, helperVars
  <1>2. ControlOf(t) /\ ProtocolOf(t)
    BY DEF IInv, Control, WatchProtocol
  <1>3. node[t] \in Nodes /\ cur[t] \in Nodes \cup {Null}
    BY <1>1 DEF IInv, Types
  <1>4. Types'
    BY <1>1, <1>3, Kinds DEF IInv, Types, PCs, Pointers
  <1>5. ControlOf(t)'
    BY <1>1, <1>2 DEF ControlOf, Calling, Scanning, Finish, IInv, Types
  <1>6. /\ "unwatch" \in PCs
        /\ "unwatch" \in Finish <=> pc[t] \in Finish
        /\ pc[t] \notin Apart /\ "unwatch" \notin Apart
    BY <1>1 DEF Finish, Apart, PCs
  <1>7. /\ \A e \in Shared : life'[e] = life[e]
        /\ lst_' \in Helpers => lst_' = lst_
    BY <1>1, <1>3, Kinds DEF IInv, Types, Shared
  <1> QED
    BY <1>1, <1>4, <1>5, <1>6, <1>7, MovingKeeps DEF Finish

LEMMA CasPopKeeps ==
  ASSUME IInv, NEW t \in Threads, CasPop(t)
  PROVE  IInv'
  <1> DEFINE l == IF TopIsCur(t) THEN "value" ELSE "unwatch"
  <1>1. /\ hpc[t] = "out" /\ pc[t] = "cas" /\ op[t] = Null /\ node[t] = Null
        /\ pc' = [pc EXCEPT ![t] = l]
        /\ \/ lst_' = nxt[t] /\ life' = [life EXCEPT ![cur[t]] = "retired"]
           \/ lst_' = lst_ /\ life' = life
        /\ UNCHANGED <<watches, element_list, hpc, slot, elem, pos, idx, leaving, granted,
                       op_table_, help_id, next_, elem_, helper_, op_, old_value_, new_value_,
                       node, op, helper, cur, nxt, fin, hidx>>
    BY DEF CasPop, At, Goto, SetLife, Helping, Pushing, paVars, hpVars, helperVars
  <1>0. l \in {"value", "unwatch"}
    OBVIOUS
  <1> HIDE DEF l
  <1>2. ControlOf(t) /\ ProtocolOf(t)
    BY DEF IInv, Control, WatchProtocol
  <1>3. nxt[t] \in Nodes \cup Ops \cup {Null} /\ cur[t] \in Nodes
    BY <1>1, <1>2 DEF IInv, Types, ControlOf
  <1>4. Types'
    BY <1>0, <1>1, <1>3, Kinds DEF IInv, Types, PCs, Pointers, Shared
  <1>5. ControlOf(t)'
    BY <1>0, <1>1, <1>2, <1>3, Kinds DEF ControlOf, Calling, Scanning, Finish, IInv, Types
  <1>6. /\ l \in PCs
        /\ l \in Finish <=> pc[t] \in Finish
        /\ pc[t] \notin Apart /\ l \notin Apart
    BY <1>0, <1>1 DEF Finish, Apart, PCs
  <1>7. /\ \A e \in Shared : life'[e] = life[e]
        /\ lst_' \in Helpers => lst_' = lst_
    BY <1>1, <1>3, Kinds DEF IInv, Types, Shared
  <1> QED
    BY <1>0, <1>1, <1>4, <1>5, <1>6, <1>7, MovingKeeps DEF Finish

LEMMA NextRoundKeeps ==
  ASSUME IInv, NEW t \in Threads, NextRound(t)
  PROVE  IInv'
  <1>1. /\ hpc[t] = "out" /\ pc[t] = "delayed"
        /\ pc' = [pc EXCEPT ![t] = "load"]
        /\ UNCHANGED <<hpVars, op_table_, help_id, memVars, node, op, helper, cur, nxt, fin, hidx>>
    BY DEF NextRound, At, Goto
  <1>2. ControlOf(t) /\ ProtocolOf(t)
    BY DEF IInv, Control, WatchProtocol
  <1>3. Types'
    BY <1>1 DEF IInv, Types, PCs, hpVars, memVars, helperVars
  <1>4. ControlOf(t)'
    BY <1>1, <1>2 DEF ControlOf, Calling, Scanning, Finish, IInv, Types, hpVars
  <1>5. "load" \in PCs /\ ~Held(t, SHORTUSE)
    BY <1>1, <1>2 DEF PCs, ProtocolOf
  <1>6. /\ "load" \in Finish <=> pc[t] \in Finish
        /\ pc[t] \notin Apart /\ "load" \notin Apart
    BY <1>1 DEF Finish, Apart
  <1> QED
    BY <1>1, <1>3, <1>4, <1>5, <1>6, MovingKeeps DEF hpVars, memVars, helperVars

LEMMA SetNextKeeps ==
  ASSUME IInv, NEW t \in Threads, SetNext(t)
  PROVE  IInv'
  <1>1. /\ hpc[t] = "out" /\ pc[t] = "set_next"
        /\ pc' = [pc EXCEPT ![t] = "install_new"]
        /\ \/ next_' = next_
           \/ next_' = [next_ EXCEPT ![elem_[op_[fin[t]]]] = old_value_[fin[t]]]
        /\ UNCHANGED <<hpVars, op_table_, help_id, lst_, elem_, helper_, op_, old_value_,
                       new_value_, node, op, helper, cur, nxt, fin, hidx>>
    BY DEF SetNext, At, Goto, paVars, helperVars
  <1>2. ControlOf(t) /\ ProtocolOf(t)
    BY DEF IInv, Control, WatchProtocol
  <1>3. fin[t] \in Helpers /\ old_value_[fin[t]] \in Nodes \cup {Null}
    BY <1>1, <1>2 DEF ControlOf, IInv, Types, Finish
  <1>4. Types'
    BY <1>1, <1>3 DEF IInv, Types, PCs, hpVars
  <1>5. ControlOf(t)'
    BY <1>1, <1>2 DEF ControlOf, Calling, Scanning, Finish, IInv, Types, hpVars
  <1>6. /\ "install_new" \in PCs
        /\ "install_new" \in Finish <=> pc[t] \in Finish
        /\ pc[t] \notin Apart /\ "install_new" \notin Apart
    BY <1>1 DEF Finish, Apart, PCs
  <1> QED
    BY <1>1, <1>4, <1>5, <1>6, MovingKeeps DEF hpVars, Finish

LEMMA ReturnKeeps ==
  ASSUME IInv, NEW t \in Threads, Return(t)
  PROVE  IInv'
  <1>1. /\ hpc[t] = "out" /\ pc[t] = "return"
        /\ pc' = [pc EXCEPT ![t] = "idle"]
        /\ node' = [node EXCEPT ![t] = Null]
        /\ UNCHANGED <<hpVars, op_table_, help_id, memVars, op, helper, cur, nxt, fin, hidx>>
    BY DEF Return, At, Goto
  <1>2. ControlOf(t) /\ ProtocolOf(t)
    BY DEF IInv, Control, WatchProtocol
  <1>3. Types'
    BY <1>1 DEF IInv, Types, PCs, hpVars, memVars, helperVars
  <1>4. ControlOf(t)'
    BY <1>1, <1>2 DEF ControlOf, Calling, Scanning, Finish, IInv, Types, hpVars
  <1>5. "idle" \in PCs /\ ~Held(t, SHORTUSE)
    BY <1>1, <1>2 DEF PCs, ProtocolOf
  <1>6. /\ "idle" \in Finish <=> pc[t] \in Finish
        /\ pc[t] \notin Apart /\ "idle" \notin Apart
        /\ \A u \in Threads : u # t => node'[u] = node[u] /\ cur'[u] = cur[u]
    BY <1>1 DEF Finish, Apart, IInv, Types
  <1> QED
    BY <1>1, <1>3, <1>4, <1>5, <1>6, MovingKeeps DEF hpVars, memVars, helperVars

-----------------------------------------------------------------------------
(* The watches                                                             *)

LEMMA NextHelpIdIn ==
  ASSUME NEW i \in Threads
  PROVE  NextHelpId(i) \in Threads
  BY NumThreadsAssumption DEF NextHelpId, Threads

(* A watch is called ...                                                   *)
LEMMA CalledKeeps ==
  ASSUME IInv, NEW t \in Threads, NEW s \in {SHORTUSE, PROG_ASSUR}, NEW e \in Elems,
         hpc[t] = "out", ~Held(t, s), op[t] = Null \/ s = SHORTUSE,
         hpc' = [hpc EXCEPT ![t] = "store"],
         slot' = [slot EXCEPT ![t] = s],
         elem' = [elem EXCEPT ![t] = e],
         UNCHANGED <<life, watches, element_list, pos, idx, leaving, granted, op_table_, memVars,
                     node, op, helper, cur, nxt, fin, hidx>>,
         help_id' \in [Threads -> Threads],
         s = SHORTUSE => pc[t] = "load" /\ pc' = pc,
         s = PROG_ASSUR => e \in Ops /\ pc[t] = "check" /\ pc' = [pc EXCEPT ![t] = "delayed"]
  PROVE  IInv'
  <1>1. /\ \A u, r : WatchedBy(u, r)' = WatchedBy(u, r) /\ (Held(u, r)' <=> Held(u, r))
        /\ \A u, r, f : Keeps(u, r, f)' <=> Keeps(u, r, f)
    BY WatchesStay
  <1>2. Elsewhere(t)
    BY <1>1 DEF Elsewhere, IInv, Types
  <1>3. ControlOf(t) /\ ProtocolOf(t)
    BY DEF IInv, Control, WatchProtocol
  <1>4. Types'
    BY SlotKinds DEF IInv, Types, PCs, Pointers, memVars, helperVars
  <1>5. /\ hpc'[t] = "store" /\ slot'[t] = s /\ elem'[t] = e
        /\ pc'[t] = IF s = SHORTUSE THEN "load" ELSE "delayed"
    BY SlotKinds DEF IInv, Types
  <1>6. ControlOf(t)'
    BY <1>3, <1>5, SlotKinds DEF ControlOf, Calling, Scanning, Finish
  <1>7. Held(t, slot[t])' <=> Held(t, s)
    BY <1>5 DEF Held
  <1>8. ProtocolOf(t)'
    BY <1>1, <1>3, <1>5, <1>7, SlotKinds DEF ProtocolOf, Calling, Meeting, Foreign, Finish
  <1>9. Sharing'
    <2>1. /\ Owning(t)' = Owning(t)
          /\ op_table_'[t] # Null =>
               op[t] = op_table_'[t] /\ pc'[t] \notin {"announce", "result"}
          /\ OwnFinish(t)' <=> OwnFinish(t)
          /\ Unplaced(t)' => Unplaced(t)
          /\ Finishing(t)' => Finishing(t) /\ fin'[t] = fin[t]
          /\ Past(t)' => Past(t)
      BY <1>5, SlotKinds DEF Owning, IInv, Owners, OwnFinish, Unplaced, Finishing, Foreign, Past,
         Finish
    <2> QED
      BY <1>1, <1>2, <1>5, <2>1, QuietKeeps DEF memVars, helperVars
  <1> QED
    BY <1>2, <1>4, <1>6, <1>8, <1>9, Together DEF memVars, helperVars

LEMMA CheckKeeps ==
  ASSUME IInv, NEW t \in Threads, Check(t)
  PROVE  IInv'
  <1> DEFINE i == NextHelpId(help_id[t])
  <1>1. /\ hpc[t] = "out" /\ pc[t] = "check"
        /\ pc' = [pc EXCEPT ![t] = "delayed"]
        /\ help_id' = help_id \/ help_id' = [help_id EXCEPT ![t] = i]
        /\ UNCHANGED <<op_table_, memVars, node, op, helper, cur, nxt, fin, hidx>>
        /\ hpVars' = hpVars \/ (op_table_[i] # Null /\ WatchCall(t, PROG_ASSUR, op_table_[i]))
    BY DEF Check, At, Goto, SkipCheck, CheckPosition
  <1>2. ControlOf(t) /\ ProtocolOf(t)
    BY DEF IInv, Control, WatchProtocol
  <1>3. op[t] = Null /\ ~Held(t, SHORTUSE) /\ ~Held(t, PROG_ASSUR)
    BY <1>1, <1>2 DEF ControlOf, ProtocolOf
  <1>4. i \in Threads
    BY NextHelpIdIn DEF IInv, Types
  <1>5. help_id' \in [Threads -> Threads]
    BY <1>1, <1>4 DEF IInv, Types
  <1>6. CASE hpVars' = hpVars
    <2>1. Types'
      BY <1>1, <1>5, <1>6 DEF IInv, Types, PCs, hpVars, memVars, helperVars
    <2>2. ControlOf(t)'
      BY <1>1, <1>2, <1>6 DEF ControlOf, Calling, Scanning, Finish, IInv, Types, hpVars
    <2>3. /\ "delayed" \in PCs
          /\ "delayed" \in Finish <=> pc[t] \in Finish
          /\ pc[t] \notin Apart /\ "delayed" \notin Apart
      BY <1>1 DEF Finish, Apart, PCs
    <2> QED
      BY <1>1, <1>3, <1>6, <2>1, <2>2, <2>3, MovingKeeps DEF hpVars, memVars, helperVars
  <1>7. CASE op_table_[i] # Null /\ WatchCall(t, PROG_ASSUR, op_table_[i])
    <2>1. op_table_[i] \in Ops /\ op_table_[i] \in Elems
      BY <1>4, <1>7, Kinds DEF IInv, Types, Shared
    <2>2. /\ hpc' = [hpc EXCEPT ![t] = "store"]
          /\ slot' = [slot EXCEPT ![t] = PROG_ASSUR]
          /\ elem' = [elem EXCEPT ![t] = op_table_[i]]
          /\ UNCHANGED <<life, watches, element_list, free_lists, pos, idx, leaving, granted>>
      BY <1>7 DEF WatchCall
    <2> QED
      BY <1>1, <1>3, <1>5, <2>1, <2>2, SlotKinds, CalledKeeps
  <1> QED
    BY <1>1, <1>6, <1>7

LEMMA LoadKeeps ==
  ASSUME IInv, NEW t \in Threads, Load(t)
  PROVE  IInv'
  <1>1. /\ hpc[t] = "out" /\ pc[t] = "load" /\ lst_ # Null
        /\ hpc' = [hpc EXCEPT ![t] = "store"]
        /\ slot' = [slot EXCEPT ![t] = SHORTUSE]
        /\ elem' = [elem EXCEPT ![t] = lst_]
        /\ UNCHANGED <<life, watches, element_list, free_lists, pos, idx, leaving, granted,
                       paVars, memVars, locals>>
    BY DEF Load, At, WatchCall
  <1>2. ~Held(t, SHORTUSE)
    BY <1>1 DEF IInv, WatchProtocol, ProtocolOf
  <1>3. lst_ \in Elems /\ help_id \in [Threads -> Threads]
    BY <1>1 DEF IInv, Types, Pointers
  <1> QED
    BY <1>1, <1>2, <1>3, SlotKinds, CalledKeeps DEF paVars, locals

(* ... the slot is stored ...                                              *)
LEMMA StoreKeeps ==
  ASSUME IInv, NEW t \in Threads, Store(t)
  PROVE  IInv'
  <1>1. /\ hpc[t] = "store"
        /\ watches' = [watches EXCEPT ![GetSlot(t, slot[t])] = elem[t]]
        /\ hpc' = [hpc EXCEPT ![t] = "validate"]
        /\ UNCHANGED <<life, element_list, slot, elem, pos, idx, leaving, granted,
                       op_table_, help_id, memVars, pc, node, op, helper, cur, nxt, fin, hidx>>
    BY DEF Store, WatchStore, paVars, locals
  <1>2. PICK s \in Slots : s = slot[t]
    BY DEF IInv, Types
  <1>3. elem[t] \in Pointers
    BY DEF IInv, Types
  <1>4. /\ watches' \in [0 .. (NumSlots - 1) -> Pointers]
        /\ WatchedBy(t, s)' = elem[t]
        /\ \A u \in Threads, r \in Slots : <<u, r>> # <<t, s>> =>
             WatchedBy(u, r)' = WatchedBy(u, r)
    BY <1>1, <1>2, <1>3, SlotWrite DEF IInv
  <1>5. \A u, r : Held(u, r)' <=> Held(u, r)
    BY <1>1 DEF Held
  <1>6. ControlOf(t) /\ ProtocolOf(t)
    BY DEF IInv, Control, WatchProtocol
  <1>7. ~Held(t, s)
    BY <1>1, <1>2, <1>6 DEF ProtocolOf
  <1>8. \A u \in Threads, r \in Slots : \A e : Keeps(u, r, e)' <=> Keeps(u, r, e)
    <2> SUFFICES ASSUME NEW u \in Threads, NEW r \in Slots, NEW e
                 PROVE  Keeps(u, r, e)' <=> Keeps(u, r, e)
      OBVIOUS
    <2>1. CASE u = t /\ r = s
      BY <1>5, <1>7, <2>1 DEF Keeps
    <2>2. CASE ~(u = t /\ r = s)
      BY <1>4, <1>5, <2>2 DEF Keeps
    <2> QED
      BY <2>1, <2>2
  <1>9. Elsewhere(t)
    BY <1>1, <1>4, <1>5 DEF Elsewhere, IInv, Types
  <1>10. Types'
    BY <1>1, <1>4 DEF IInv, Types, memVars, helperVars
  <1>11. hpc'[t] = "validate" /\ slot'[t] = s /\ elem'[t] = elem[t]
    BY <1>1, <1>2 DEF IInv, Types
  <1>12. ControlOf(t)'
    BY <1>1, <1>2, <1>6, <1>11 DEF ControlOf, Calling, Scanning, Finish
  <1>13. /\ WatchedBy(t, slot[t])' = elem'[t]
         /\ ~Held(t, slot[t])'
    BY <1>4, <1>5, <1>7, <1>11 DEF WatchedBy, Held
  <1>14. ProtocolOf(t)'
    BY <1>1, <1>2, <1>5, <1>6, <1>8, <1>11, <1>13, SlotKinds DEF ProtocolOf, Calling, Meeting,
       Foreign, memVars, helperVars
  <1>15. Sharing'
    <2>1. /\ Owning(t)' = Owning(t)
          /\ op_table_'[t] # Null =>
               op[t] = op_table_'[t] /\ pc'[t] \notin {"announce", "result"}
          /\ OwnFinish(t)' <=> OwnFinish(t)
          /\ Unplaced(t)' => Unplaced(t)
          /\ Finishing(t)' => Finishing(t)
          /\ Past(t)' => Past(t)
      BY <1>1, <1>11 DEF Owning, IInv, Owners, OwnFinish, Unplaced, Finishing, Foreign, Past
    <2> QED
      BY <1>1, <1>8, <1>9, <1>11, <2>1, SlotKinds, QuietKeeps DEF memVars, helperVars
  <1> QED
    BY <1>1, <1>9, <1>10, <1>12, <1>14, <1>15, Together DEF memVars, helperVars

(* ... and cleared if the watch failed.                                    *)
LEMMA NotWatchedKeeps ==
  ASSUME IInv, NEW t \in Threads, NotWatched(t)
  PROVE  IInv'
  <1> DEFINE l == IF slot[t] = PROG_ASSUR THEN "delayed" ELSE "unwatch"
  <1>1. /\ hpc[t] = "clear"
        /\ watches' = [watches EXCEPT ![GetSlot(t, slot[t])] = Null]
        /\ hpc' = [hpc EXCEPT ![t] = "out"]
        /\ elem' = [elem EXCEPT ![t] = Null]
        /\ fin' = [fin EXCEPT ![t] = Null]
        /\ pc' = [pc EXCEPT ![t] = l]
        /\ UNCHANGED <<life, element_list, slot, pos, idx, leaving, granted,
                       op_table_, help_id, memVars, node, op, helper, cur, nxt, hidx>>
    BY DEF NotWatched, WatchClear, Goto, paVars
  <1>2. PICK s \in Slots : s = slot[t]
    BY DEF IInv, Types
  <1>3. Null \in Pointers
    BY DEF Pointers
  <1>4. /\ watches' \in [0 .. (NumSlots - 1) -> Pointers]
        /\ WatchedBy(t, s)' = Null
        /\ \A u \in Threads, r \in Slots : <<u, r>> # <<t, s>> =>
             WatchedBy(u, r)' = WatchedBy(u, r)
    BY <1>1, <1>2, <1>3, SlotWrite DEF IInv
  <1>5. \A u, r : Held(u, r)' <=> Held(u, r)
    BY <1>1 DEF Held
  <1>6. ControlOf(t) /\ ProtocolOf(t)
    BY DEF IInv, Control, WatchProtocol
  <1>7. ~Held(t, s)
    BY <1>1, <1>2, <1>6 DEF ProtocolOf
  <1>8. \A u \in Threads, r \in Slots : \A e : Keeps(u, r, e)' <=> Keeps(u, r, e)
    <2> SUFFICES ASSUME NEW u \in Threads, NEW r \in Slots, NEW e
                 PROVE  Keeps(u, r, e)' <=> Keeps(u, r, e)
      OBVIOUS
    <2>1. CASE u = t /\ r = s
      BY <1>5, <1>7, <2>1 DEF Keeps
    <2>2. CASE ~(u = t /\ r = s)
      BY <1>4, <1>5, <2>2 DEF Keeps
    <2> QED
      BY <2>1, <2>2
  <1>9. Elsewhere(t)
    BY <1>1, <1>4, <1>5 DEF Elsewhere, IInv, Types
  <1>10. Types'
    BY <1>1, <1>4 DEF IInv, Types, Pointers, PCs, memVars, helperVars
  <1>11. /\ hpc'[t] = "out" /\ slot'[t] = s /\ pc'[t] = l
         /\ pc[t] = IF s = PROG_ASSUR THEN "delayed" ELSE "load"
    BY <1>1, <1>2, <1>6 DEF IInv, Types, ControlOf, Calling
  <1>12. ControlOf(t)'
    BY <1>1, <1>2, <1>6, <1>11 DEF ControlOf, Calling, Scanning, Finish
  <1>13. ProtocolOf(t)'
    BY <1>1, <1>2, <1>5, <1>6, <1>7, <1>11, SlotKinds DEF ProtocolOf, Calling, Meeting,
       Foreign, Finish
  <1>14. Sharing'
    <2>1. /\ Owning(t)' = Owning(t)
          /\ op_table_'[t] # Null =>
               op'[t] = op_table_'[t] /\ pc'[t] \notin {"announce", "result"}
          /\ OwnFinish(t)' <=> OwnFinish(t)
          /\ Unplaced(t)' => Unplaced(t)
          /\ ~Finishing(t)'
      BY <1>1, <1>2, <1>11 DEF Owning, IInv, Owners, OwnFinish, Unplaced, Finishing, Foreign,
         Finish
    <2>2. op'[t] # Null => ~Past(t)'
      BY <1>1, <1>2, <1>6, <1>11 DEF Past, OwnFinish, Finish, ControlOf
    <2> QED
      BY <1>1, <1>8, <1>9, <1>11, <2>1, <2>2, SlotKinds, QuietKeeps DEF memVars, helperVars
  <1> QED
    BY <1>1, <1>9, <1>10, <1>12, <1>13, <1>14, Together DEF memVars, helperVars

(* A watch of a node was granted ...                                       *)
LEMMA NodeWatchedKeeps ==
  ASSUME IInv, NEW t \in Threads, NodeWatched(t)
  PROVE  IInv'
  <1> DEFINE l == IF IsPush(t) THEN "cas" ELSE "next"
  <1>1. /\ hpc[t] = "on_watch" /\ elem[t] \in Nodes
        /\ hpc' = [hpc EXCEPT ![t] = "out"]
        /\ elem' = [elem EXCEPT ![t] = Null]
        /\ cur' = [cur EXCEPT ![t] = elem[t]]
        /\ pc' = [pc EXCEPT ![t] = l]
        /\ UNCHANGED <<life, watches, element_list, slot, pos, idx, leaving, granted,
                       op_table_, help_id, memVars, node, op, helper, nxt, fin, hidx>>
    BY DEF NodeWatched, OnWatch, Watching, Goto, paVars
  <1>2. /\ \A u, s : WatchedBy(u, s)' = WatchedBy(u, s) /\ (Held(u, s)' <=> Held(u, s))
        /\ \A u, s, e : Keeps(u, s, e)' <=> Keeps(u, s, e)
    BY <1>1, WatchesStay
  <1>3. ControlOf(t) /\ ProtocolOf(t)
    BY DEF IInv, Control, WatchProtocol
  <1>4. slot[t] = SHORTUSE /\ elem[t] # Null
    BY <1>1, <1>3, Kinds DEF ProtocolOf, Calling
  <1>5. Elsewhere(t)
    BY <1>1, <1>2 DEF Elsewhere, IInv, Types
  <1>6. Types'
    BY <1>1 DEF IInv, Types, Pointers, PCs, memVars, helperVars
  <1>7. /\ hpc'[t] = "out" /\ pc'[t] = l /\ cur'[t] # Null /\ pc[t] = "load"
    BY <1>1, <1>3, <1>4, SlotKinds DEF IInv, Types, ControlOf, Calling
  <1>8. ControlOf(t)'
    BY <1>1, <1>3, <1>7 DEF ControlOf, Calling, Scanning, Finish
  <1>9. ProtocolOf(t)'
    BY <1>1, <1>2, <1>3, <1>4, <1>7, SlotKinds DEF ProtocolOf, Calling, Meeting, Foreign, Finish
  <1>10. Sharing'
    <2>1. /\ Owning(t)' = Owning(t)
          /\ op_table_'[t] # Null =>
               op'[t] = op_table_'[t] /\ pc'[t] \notin {"announce", "result"}
          /\ OwnFinish(t)' <=> OwnFinish(t)
          /\ Unplaced(t)' => Unplaced(t)
          /\ ~Finishing(t)' /\ ~Past(t)'
      BY <1>1, <1>7 DEF Owning, IInv, Owners, OwnFinish, Unplaced, Finishing, Foreign, Finish,
         Past
    <2> QED
      BY <1>1, <1>2, <1>5, <1>7, <2>1, SlotKinds, QuietKeeps DEF memVars, helperVars
  <1> QED
    BY <1>1, <1>5, <1>6, <1>8, <1>9, <1>10, Together DEF memVars, helperVars

(* ... of a Helper: its record is watched in turn ...                      *)
LEMMA OnWatchHelperKeeps ==
  ASSUME IInv, NEW t \in Threads, OnWatchHelper(t)
  PROVE  IInv'
  <1> DEFINE h == elem[t]
  <1>1. /\ hpc[t] = "on_watch" /\ h \in Helpers
        /\ hpc' = [hpc EXCEPT ![t] = "store"]
        /\ slot' = [slot EXCEPT ![t] = SHORTUSE2]
        /\ elem' = [elem EXCEPT ![t] = op_[h]]
        /\ fin' = [fin EXCEPT ![t] = h]
        /\ UNCHANGED <<life, watches, element_list, pos, idx, leaving, granted,
                       op_table_, help_id, memVars, pc, node, op, helper, cur, nxt, hidx>>
    BY DEF OnWatchHelper, paVars
  <1>2. /\ \A u, s : WatchedBy(u, s)' = WatchedBy(u, s) /\ (Held(u, s)' <=> Held(u, s))
        /\ \A u, s, e : Keeps(u, s, e)' <=> Keeps(u, s, e)
    BY <1>1, WatchesStay
  <1>3. ControlOf(t) /\ ProtocolOf(t)
    BY DEF IInv, Control, WatchProtocol
  <1>4. slot[t] = SHORTUSE
    BY <1>1, <1>3, Kinds DEF ProtocolOf, Calling
  <1>5. Keeps(t, SHORTUSE, h)
    BY <1>1, <1>3, <1>4 DEF ProtocolOf, Keeps
  <1>6. op_[h] \in Ops /\ op_[h] \in Pointers
    <2>1. life[h] # "free"
      BY <1>1, <1>5, SlotKinds DEF IInv, HeldIsNotFree, Shared
    <2> QED
      BY <1>1, <2>1, Kinds DEF IInv, HelperLife, Types, Pointers, Shared
  <1>7. Elsewhere(t)
    BY <1>1, <1>2 DEF Elsewhere, IInv, Types
  <1>8. Types'
    BY <1>1, <1>6, SlotKinds DEF IInv, Types, memVars, helperVars
  <1>9. /\ hpc'[t] = "store" /\ slot'[t] = SHORTUSE2 /\ elem'[t] = op_[h] /\ fin'[t] = h
        /\ pc'[t] = "load" /\ pc[t] = "load"
    BY <1>1, <1>3, <1>4, SlotKinds DEF IInv, Types, ControlOf, Calling
  <1>10. ControlOf(t)'
    BY <1>1, <1>3, <1>9, SlotKinds DEF ControlOf, Calling, Scanning, Finish
  <1>11. ~Held(t, SHORTUSE2)
    BY <1>3, <1>4, <1>9, SlotKinds DEF ProtocolOf, Foreign, Finish
  <1>12. ~Held(t, slot[t])' /\ Keeps(t, SHORTUSE, fin[t])' /\ elem'[t] = op_'[fin'[t]]
    <2>1. ~Held(t, slot[t])'
      BY <1>1, <1>9, <1>11 DEF Held
    <2>2. Keeps(t, SHORTUSE, fin[t])'
      BY <1>1, <1>5, <1>9 DEF Keeps, Held, WatchedBy
    <2> QED
      BY <1>1, <1>9, <2>1, <2>2 DEF memVars, helperVars
  <1>13. ProtocolOf(t)'
    BY <1>1, <1>2, <1>3, <1>4, <1>6, <1>9, <1>11, <1>12, SlotKinds DEF ProtocolOf, Calling,
       Meeting, Foreign, Finish
  <1>14. Sharing'
    <2>1. /\ Owning(t)' = Owning(t)
          /\ op_table_'[t] # Null =>
               op'[t] = op_table_'[t] /\ pc'[t] \notin {"announce", "result"}
          /\ OwnFinish(t)' <=> OwnFinish(t)
          /\ Unplaced(t)' => Unplaced(t)
          /\ ~Finishing(t)' /\ ~Past(t)'
      BY <1>1, <1>9 DEF Owning, IInv, Owners, OwnFinish, Unplaced, Finishing, Foreign, Finish,
         Past
    <2> QED
      BY <1>1, <1>2, <1>7, <1>9, <2>1, SlotKinds, QuietKeeps DEF memVars, helperVars
  <1> QED
    BY <1>1, <1>7, <1>8, <1>10, <1>13, <1>14, Together DEF memVars, helperVars

(* ... and when that was granted as well, the Helper is finished ...       *)
LEMMA HelperWatchedKeeps ==
  ASSUME IInv, NEW t \in Threads, HelperWatched(t)
  PROVE  IInv'
  <1>1. /\ hpc[t] = "on_watch" /\ elem[t] \in Ops /\ slot[t] = SHORTUSE2
        /\ hpc' = [hpc EXCEPT ![t] = "out"]
        /\ elem' = [elem EXCEPT ![t] = Null]
        /\ pc' = [pc EXCEPT ![t] = "associate"]
        /\ UNCHANGED <<life, watches, element_list, slot, pos, idx, leaving, granted,
                       op_table_, help_id, memVars, node, op, helper, cur, nxt, fin, hidx>>
    BY DEF HelperWatched, OnWatch, Watching, Goto, paVars
  <1>2. /\ \A u, s : WatchedBy(u, s)' = WatchedBy(u, s) /\ (Held(u, s)' <=> Held(u, s))
        /\ \A u, s, e : Keeps(u, s, e)' <=> Keeps(u, s, e)
    BY <1>1, WatchesStay
  <1>3. ControlOf(t) /\ ProtocolOf(t)
    BY DEF IInv, Control, WatchProtocol
  <1>4. pc[t] = "load" /\ pc'[t] = "associate" /\ hpc'[t] = "out"
    BY <1>1, <1>3, SlotKinds DEF IInv, Types, ControlOf, Calling
  <1>5. Finishing(t)
    BY <1>1 DEF Finishing
  <1>6. /\ fin[t] \in Helpers /\ fin[t] # Null
        /\ Keeps(t, SHORTUSE, fin[t]) /\ Keeps(t, SHORTUSE2, op_[fin[t]])
    BY <1>5, FinishingKeeps, Kinds DEF Shared
  <1>7. fin[t] # helper[t]
    <2> SUFFICES ASSUME helper[t] # Null PROVE fin[t] # helper[t]
      BY <1>6
    <2>1. Unplaced(t)
      BY <1>4 DEF Unplaced, OwnFinish, Finish
    <2> QED
      BY <1>5, <2>1, UnplacedIsPrivate
  <1>8. Elsewhere(t)
    BY <1>1, <1>2 DEF Elsewhere, IInv, Types
  <1>9. Types'
    BY <1>1 DEF IInv, Types, Pointers, PCs, memVars, helperVars
  <1>10. ControlOf(t)'
    BY <1>1, <1>3, <1>4, <1>6 DEF ControlOf, Calling, Scanning, Finish
  <1>11. Foreign(t)' /\ Keeps(t, SHORTUSE, fin[t])' /\ Keeps(t, SHORTUSE2, op_[fin[t]])'
    <2>1. Foreign(t)'
      BY <1>1, <1>4, <1>7 DEF Foreign, Finish
    <2>2. Keeps(t, SHORTUSE, fin[t])' /\ Keeps(t, SHORTUSE2, op_[fin[t]])'
      BY <1>1, <1>2, <1>6 DEF memVars, helperVars, Keeps, Held, WatchedBy
    <2> QED
      BY <2>1, <2>2
  <1>12. ProtocolOf(t)'
    BY <1>1, <1>2, <1>3, <1>4, <1>11, SlotKinds DEF ProtocolOf, Calling, Meeting
  <1>13. Sharing'
    <2>1. /\ Owning(t)' = Owning(t)
          /\ op_table_'[t] # Null =>
               op'[t] = op_table_'[t] /\ pc'[t] \notin {"announce", "result"}
      BY <1>1, <1>4 DEF Owning, IInv, Owners
    <2>2. ~OwnFinish(t) /\ ~OwnFinish(t)'
      BY <1>1, <1>4, <1>7 DEF OwnFinish, Finish
    <2>3. /\ Unplaced(t)' => Unplaced(t)
          /\ Finishing(t)' => Finishing(t)
          /\ ~Past(t)'
      BY <1>1, <1>4, <1>5, <2>2 DEF Unplaced, Past
    <2> QED
      BY <1>1, <1>2, <1>4, <1>8, <2>1, <2>2, <2>3, QuietKeeps DEF memVars, helperVars
  <1> QED
    BY <1>1, <1>8, <1>9, <1>10, <1>12, <1>13, Together DEF memVars, helperVars

(* ... or of an announced record, which is helped.                         *)
LEMMA RecordWatchedKeeps ==
  ASSUME IInv, NEW t \in Threads, RecordWatched(t)
  PROVE  IInv'
  <1>1. /\ hpc[t] = "on_watch" /\ elem[t] \in Ops /\ slot[t] = PROG_ASSUR
        /\ hpc' = [hpc EXCEPT ![t] = "out"]
        /\ elem' = [elem EXCEPT ![t] = Null]
        /\ op' = [op EXCEPT ![t] = elem[t]]
        /\ pc' = [pc EXCEPT ![t] = "help"]
        /\ UNCHANGED <<life, watches, element_list, slot, pos, idx, leaving, granted,
                       op_table_, help_id, memVars, node, helper, cur, nxt, fin, hidx>>
    BY DEF RecordWatched, OnWatch, Watching, Goto, paVars
  <1>2. /\ \A u, s : WatchedBy(u, s)' = WatchedBy(u, s) /\ (Held(u, s)' <=> Held(u, s))
        /\ \A u, s, e : Keeps(u, s, e)' <=> Keeps(u, s, e)
    BY <1>1, WatchesStay
  <1>3. ControlOf(t) /\ ProtocolOf(t)
    BY DEF IInv, Control, WatchProtocol
  <1>4. /\ pc[t] = "delayed" /\ pc'[t] = "help" /\ hpc'[t] = "out" /\ op'[t] = elem[t]
        /\ op'[t] # Null
    BY <1>1, <1>3, Kinds DEF IInv, Types, ControlOf, Calling, Shared
  <1>5. op[t] = Null /\ helper[t] = Null /\ op_table_[t] = Null
    BY <1>3, <1>4 DEF ControlOf, IInv, Owners
  <1>6. Elsewhere(t)
    BY <1>1, <1>2 DEF Elsewhere, IInv, Types
  <1>7. Types'
    BY <1>1 DEF IInv, Types, Pointers, PCs, memVars, helperVars
  <1>8. ControlOf(t)'
    BY <1>1, <1>3, <1>4, <1>5 DEF ControlOf, Calling, Scanning, Finish
  <1>9. ProtocolOf(t)'
    BY <1>1, <1>2, <1>3, <1>4, SlotKinds DEF ProtocolOf, Calling, Meeting, Foreign, Finish
  <1>10. Keeps(t, PROG_ASSUR, op[t])'
    BY <1>1, <1>2, <1>3, <1>4, SlotKinds DEF Keeps, ProtocolOf
  <1>11. Sharing'
    <2>1. /\ Owning(t)' = Owning(t)
          /\ op_table_'[t] # Null =>
               op'[t] = op_table_'[t] /\ pc'[t] \notin {"announce", "result"}
          /\ OwnFinish(t)' <=> OwnFinish(t)
          /\ Unplaced(t)' => Unplaced(t)
          /\ ~Finishing(t)' /\ ~Past(t)'
      BY <1>1, <1>4, <1>5 DEF Owning, IInv, Owners, OwnFinish, Unplaced, Finishing, Foreign,
         Finish, Past
    <2> QED
      BY <1>1, <1>2, <1>4, <1>5, <1>6, <1>10, <2>1, SlotKinds, QuietKeeps DEF memVars, helperVars
  <1> QED
    BY <1>1, <1>6, <1>7, <1>8, <1>9, <1>11, Together DEF memVars, helperVars

(* A slot is cleared.                                                      *)
LEMMA SlotCleared ==
  ASSUME Types, NEW t \in Threads, NEW s \in Slots, Unwatch(t, s)
  PROVE  /\ watches' \in [0 .. (NumSlots - 1) -> Pointers]
         /\ hpc[t] = "out" /\ ~Held(t, s)'
         /\ UNCHANGED <<life, element_list, hpc, slot, elem, pos, idx, leaving>>
         /\ \A u \in Threads, r \in Slots : <<u, r>> # <<t, s>> =>
              /\ WatchedBy(u, r)' = WatchedBy(u, r) /\ (Held(u, r)' <=> Held(u, r))
              /\ \A e : Keeps(u, r, e)' <=> Keeps(u, r, e)
         /\ \A r \in Slots : \A e : Keeps(t, r, e)' => Keeps(t, r, e)
  <1>1. /\ hpc[t] = "out"
        /\ watches' = [watches EXCEPT ![GetSlot(t, s)] = Null]
        /\ granted' = granted \ {<<t, s>>}
        /\ UNCHANGED <<life, element_list, hpc, slot, elem, pos, idx, leaving>>
    BY DEF Unwatch
  <1>2. Null \in Pointers
    BY DEF Pointers
  <1>3. /\ watches' \in [0 .. (NumSlots - 1) -> Pointers]
        /\ \A u \in Threads, r \in Slots : <<u, r>> # <<t, s>> =>
             WatchedBy(u, r)' = WatchedBy(u, r)
    BY <1>1, <1>2, SlotWrite
  <1>4. ~Held(t, s)' /\ \A u, r : <<u, r>> # <<t, s>> => (Held(u, r)' <=> Held(u, r))
    BY <1>1 DEF Held
  <1>5. \A u \in Threads, r \in Slots : <<u, r>> # <<t, s>> =>
          \A e : Keeps(u, r, e)' <=> Keeps(u, r, e)
    BY <1>3, <1>4 DEF Keeps
  <1>6. \A r \in Slots : \A e : Keeps(t, r, e)' => Keeps(t, r, e)
    <2> SUFFICES ASSUME NEW r \in Slots, NEW e, Keeps(t, r, e)' PROVE Keeps(t, r, e)
      OBVIOUS
    <2>1. r # s
      BY <1>4 DEF Keeps
    <2> QED
      BY <1>5, <2>1
  <1> QED
    BY <1>1, <1>3, <1>4, <1>5, <1>6

LEMMA LeaveScopeKeeps ==
  ASSUME IInv, NEW t \in Threads, LeaveScope(t)
  PROVE  IInv'
  <1> DEFINE l == CASE Helping(t) /\ helper[t] = Null -> "helped"
                    [] Helping(t) /\ helper[t] # Null -> "not_done"
                    [] ~Helping(t) /\ result[t] = "none" -> "delayed"
                    [] OTHER -> "return"
  <1>1. /\ pc[t] = "unwatch" /\ Unwatch(t, SHORTUSE)
        /\ pc' = [pc EXCEPT ![t] = l]
        /\ cur' = [cur EXCEPT ![t] = Null]
        /\ nxt' = [nxt EXCEPT ![t] = Null]
        /\ UNCHANGED <<op_table_, help_id, memVars, node, op, helper, fin, hidx>>
    BY DEF LeaveScope, At, Goto, paVars
  <1>2. /\ l \in {"helped", "not_done", "delayed", "return"}
        /\ l = "helped" => op[t] # Null /\ helper[t] = Null
        /\ l = "not_done" => op[t] # Null /\ helper[t] # Null
        /\ l \in {"delayed", "return"} => op[t] = Null
    BY DEF Helping
  <1> HIDE DEF l
  <1>3. /\ watches' \in [0 .. (NumSlots - 1) -> Pointers]
        /\ hpc[t] = "out" /\ ~Held(t, SHORTUSE)'
        /\ UNCHANGED <<life, element_list, hpc, slot, elem, pos, idx, leaving>>
        /\ \A u \in Threads, r \in Slots : <<u, r>> # <<t, SHORTUSE>> =>
             /\ WatchedBy(u, r)' = WatchedBy(u, r) /\ (Held(u, r)' <=> Held(u, r))
             /\ \A e : Keeps(u, r, e)' <=> Keeps(u, r, e)
        /\ \A r \in Slots : \A e : Keeps(t, r, e)' => Keeps(t, r, e)
    BY <1>1, SlotKinds, SlotCleared DEF IInv
  <1>4. ControlOf(t) /\ ProtocolOf(t)
    BY DEF IInv, Control, WatchProtocol
  <1>5. Elsewhere(t)
    BY <1>1, <1>3 DEF Elsewhere, IInv, Types
  <1>6. Types'
    BY <1>1, <1>2, <1>3 DEF IInv, Types, PCs, memVars, helperVars
  <1>7. pc'[t] = l /\ hpc'[t] = "out"
    BY <1>1, <1>3 DEF IInv, Types
  <1>8. ControlOf(t)'
    BY <1>1, <1>2, <1>3, <1>4, <1>7 DEF ControlOf, Calling, Scanning, Finish
  <1>9. /\ Held(t, SHORTUSE2)' <=> Held(t, SHORTUSE2)
        /\ Held(t, PROG_ASSUR)' <=> Held(t, PROG_ASSUR)
        /\ \A e : Keeps(t, PROG_ASSUR, e)' <=> Keeps(t, PROG_ASSUR, e)
    BY <1>3, SlotKinds
  <1>10. ProtocolOf(t)'
    BY <1>1, <1>2, <1>3, <1>4, <1>7, <1>9 DEF ProtocolOf, Calling, Meeting, Foreign, Finish
  <1>11. Sharing'
    <2>1. /\ Owning(t)' = Owning(t)
          /\ op_table_'[t] # Null =>
               op'[t] = op_table_'[t] /\ pc'[t] \notin {"announce", "result"}
          /\ OwnFinish(t)' <=> OwnFinish(t)
          /\ Unplaced(t)' => Unplaced(t)
          /\ ~Finishing(t)'
          /\ Past(t)' => Past(t)
      BY <1>1, <1>2, <1>7 DEF Owning, IInv, Owners, OwnFinish, Unplaced, Finishing, Foreign,
         Finish, Past
    <2> QED
      BY <1>1, <1>3, <1>5, <1>9, <2>1, QuietKeeps DEF memVars, helperVars
  <1> QED
    BY <1>1, <1>5, <1>6, <1>8, <1>10, <1>11, Together DEF memVars, helperVars

LEMMA UnwatchRecordKeeps ==
  ASSUME IInv, NEW t \in Threads, UnwatchRecord(t)
  PROVE  IInv'
  <1>1. /\ pc[t] = "unwatch2" /\ Unwatch(t, SHORTUSE2)
        /\ pc' = [pc EXCEPT ![t] = "unwatch"]
        /\ UNCHANGED <<op_table_, help_id, memVars, node, op, helper, cur, nxt, fin, hidx>>
    BY DEF UnwatchRecord, At, Goto, paVars
  <1>2. /\ watches' \in [0 .. (NumSlots - 1) -> Pointers]
        /\ hpc[t] = "out" /\ ~Held(t, SHORTUSE2)'
        /\ UNCHANGED <<life, element_list, hpc, slot, elem, pos, idx, leaving>>
        /\ \A u \in Threads, r \in Slots : <<u, r>> # <<t, SHORTUSE2>> =>
             /\ WatchedBy(u, r)' = WatchedBy(u, r) /\ (Held(u, r)' <=> Held(u, r))
             /\ \A e : Keeps(u, r, e)' <=> Keeps(u, r, e)
        /\ \A r \in Slots : \A e : Keeps(t, r, e)' => Keeps(t, r, e)
    BY <1>1, SlotKinds, SlotCleared DEF IInv
  <1>3. ControlOf(t) /\ ProtocolOf(t)
    BY DEF IInv, Control, WatchProtocol
  <1>4. Elsewhere(t)
    BY <1>1, <1>2 DEF Elsewhere, IInv, Types
  <1>5. Types'
    BY <1>1, <1>2 DEF IInv, Types, PCs, memVars, helperVars
  <1>6. pc'[t] = "unwatch" /\ hpc'[t] = "out"
    BY <1>1, <1>2 DEF IInv, Types
  <1>7. ControlOf(t)'
    BY <1>1, <1>2, <1>3, <1>6 DEF ControlOf, Calling, Scanning, Finish
  <1>8. /\ Held(t, PROG_ASSUR)' <=> Held(t, PROG_ASSUR)
        /\ \A e : Keeps(t, PROG_ASSUR, e)' <=> Keeps(t, PROG_ASSUR, e)
    BY <1>2, SlotKinds
  <1>9. ProtocolOf(t)'
    BY <1>1, <1>2, <1>3, <1>6, <1>8 DEF ProtocolOf, Calling, Meeting, Foreign, Finish
  <1>10. Sharing'
    <2>1. /\ Owning(t)' = Owning(t)
          /\ op_table_'[t] # Null =>
               op'[t] = op_table_'[t] /\ pc'[t] \notin {"announce", "result"}
          /\ OwnFinish(t)' <=> OwnFinish(t)
          /\ Unplaced(t)' => Unplaced(t)
          /\ ~Finishing(t)'
      BY <1>1, <1>6 DEF Owning, IInv, Owners, OwnFinish, Unplaced, Finishing, Foreign, Finish
    <2>2. op'[t] # Null => ~Past(t)'
      BY <1>1, <1>3, <1>6 DEF Past, OwnFinish, Finish, ControlOf
    <2> QED
      BY <1>1, <1>2, <1>4, <1>8, <2>1, <2>2, QuietKeeps DEF memVars, helperVars
  <1> QED
    BY <1>1, <1>4, <1>5, <1>7, <1>9, <1>10, Together DEF memVars, helperVars

-----------------------------------------------------------------------------
(* The announcement                                                        *)

LEMMA AnnounceOpKeeps ==
  ASSUME IInv, NEW t \in Threads, AnnounceOp(t)
  PROVE  IInv'
  <1>1. /\ hpc[t] = "out" /\ pc[t] = "announce"
        /\ op_table_' = [op_table_ EXCEPT ![t] = op[t]]
        /\ pc' = [pc EXCEPT ![t] = "help"]
        /\ UNCHANGED <<hpVars, help_id, memVars, node, op, helper, cur, nxt, fin, hidx>>
    BY DEF AnnounceOp, Announce, At, Goto
  <1>2. /\ \A u, s : WatchedBy(u, s)' = WatchedBy(u, s) /\ (Held(u, s)' <=> Held(u, s))
        /\ \A u, s, e : Keeps(u, s, e)' <=> Keeps(u, s, e)
    BY <1>1, WatchesStay DEF hpVars
  <1>3. ControlOf(t) /\ ProtocolOf(t)
    BY DEF IInv, Control, WatchProtocol
  <1>4. pc'[t] = "help" /\ op_table_'[t] = op[t] /\ op[t] # Null
    BY <1>1, <1>3 DEF IInv, Types, ControlOf
  <1>5. op_table_[t] = Null
    BY <1>1 DEF IInv, Owners
  <1>6. Elsewhere(t)
    BY <1>1, <1>2 DEF Elsewhere, IInv, Types, hpVars
  <1>7. Types'
    BY <1>1 DEF IInv, Types, PCs, hpVars, memVars, helperVars
  <1>8. ControlOf(t)'
    BY <1>1, <1>3, <1>4 DEF ControlOf, Calling, Scanning, Finish, hpVars
  <1>9. ProtocolOf(t)'
    BY <1>1, <1>2, <1>3, <1>4 DEF ProtocolOf, Calling, Meeting, Foreign, Finish, hpVars
  <1>10. Sharing'
    <2>1. /\ Owning(t)' = Owning(t)
          /\ op_table_'[t] # Null =>
               op'[t] = op_table_'[t] /\ pc'[t] \notin {"announce", "result"}
          /\ OwnFinish(t)' <=> OwnFinish(t)
          /\ Unplaced(t)' => Unplaced(t)
          /\ ~Finishing(t)' /\ ~Past(t)'
      BY <1>1, <1>4, <1>5 DEF Owning, OwnFinish, Unplaced, Finishing, Foreign, Finish, Past,
         hpVars
    <2> QED
      BY <1>1, <1>2, <1>6, <2>1, QuietKeeps DEF hpVars, memVars, helperVars
  <1> QED
    BY <1>1, <1>6, <1>7, <1>8, <1>9, <1>10, Together DEF memVars, helperVars

LEMMA HelpedKeeps ==
  ASSUME IInv, NEW t \in Threads, Helped(t)
  PROVE  IInv'
  <1>1. /\ hpc[t] = "out" /\ pc[t] = "helped"
        /\ UNCHANGED <<help_id, memVars, node, helper, cur, nxt, fin, hidx>>
    BY DEF Helped, At
  <1>2. ControlOf(t) /\ ProtocolOf(t)
    BY DEF IInv, Control, WatchProtocol
  <1>3. op[t] # Null /\ helper[t] = Null
    BY <1>1, <1>2 DEF ControlOf
  <1>4. CASE Owner(t)
    <2>1. /\ op_table_' = [op_table_ EXCEPT ![t] = Null]
          /\ pc' = [pc EXCEPT ![t] = "result"]
          /\ UNCHANGED <<hpVars, op>>
      BY <1>4 DEF Helped, Withdraw, Goto
    <2>2. /\ \A u, s : WatchedBy(u, s)' = WatchedBy(u, s) /\ (Held(u, s)' <=> Held(u, s))
          /\ \A u, s, e : Keeps(u, s, e)' <=> Keeps(u, s, e)
      BY <2>1, WatchesStay DEF hpVars
    <2>3. pc'[t] = "result" /\ op_table_'[t] = Null
      BY <2>1 DEF IInv, Types
    <2>4. op_table_[t] = op[t]
      BY <1>4 DEF Owner
    <2>5. Elsewhere(t)
      BY <1>1, <2>1, <2>2 DEF Elsewhere, IInv, Types, hpVars
    <2>6. Types'
      BY <1>1, <2>1 DEF IInv, Types, PCs, hpVars, memVars, helperVars
    <2>7. ControlOf(t)'
      BY <1>1, <1>2, <1>3, <2>1, <2>3 DEF ControlOf, Calling, Scanning, Finish, hpVars
    <2>8. ProtocolOf(t)'
      <3>1. ~Held(t, PROG_ASSUR)
        BY <1>2, <1>3, <2>4 DEF ProtocolOf
      <3> QED
        BY <1>1, <1>2, <2>1, <2>2, <2>3, <3>1
           DEF ProtocolOf, Calling, Meeting, Foreign, Finish, hpVars
    <2>9. Sharing'
      <3>1. /\ Owning(t)' = Owning(t)
            /\ OwnFinish(t)' <=> OwnFinish(t)
            /\ ~Unplaced(t)' /\ ~Finishing(t)' /\ Past(t)
        BY <1>1, <1>3, <2>1, <2>3, <2>4 DEF Owning, OwnFinish, Unplaced, Finishing, Foreign,
           Finish, Past, hpVars
      <3> QED
        BY <1>1, <2>1, <2>2, <2>3, <2>5, <3>1, QuietKeeps DEF hpVars, memVars, helperVars
    <2> QED
      BY <1>1, <2>5, <2>6, <2>7, <2>8, <2>9, Together DEF memVars, helperVars
  <1>5. CASE ~Owner(t)
    <2>1. /\ Unwatch(t, PROG_ASSUR)
          /\ op' = [op EXCEPT ![t] = Null]
          /\ pc' = [pc EXCEPT ![t] = "delayed"]
          /\ op_table_' = op_table_
      BY <1>5 DEF Helped, Goto
    <2>2. /\ watches' \in [0 .. (NumSlots - 1) -> Pointers]
          /\ ~Held(t, PROG_ASSUR)'
          /\ UNCHANGED <<life, element_list, hpc, slot, elem, pos, idx, leaving>>
          /\ \A u \in Threads, r \in Slots : <<u, r>> # <<t, PROG_ASSUR>> =>
               /\ WatchedBy(u, r)' = WatchedBy(u, r) /\ (Held(u, r)' <=> Held(u, r))
               /\ \A e : Keeps(u, r, e)' <=> Keeps(u, r, e)
          /\ \A r \in Slots : \A e : Keeps(t, r, e)' => Keeps(t, r, e)
      BY <2>1, SlotKinds, SlotCleared DEF IInv
    <2>3. pc'[t] = "delayed" /\ op'[t] = Null
      BY <2>1 DEF IInv, Types
    <2>4. op_table_[t] = Null
      BY <1>5 DEF IInv, Owners, Owner
    <2>5. Elsewhere(t)
      BY <1>1, <2>1, <2>2 DEF Elsewhere, IInv, Types
    <2>6. Types'
      BY <1>1, <2>1, <2>2 DEF IInv, Types, PCs, memVars, helperVars
    <2>7. ControlOf(t)'
      BY <1>1, <1>2, <1>3, <2>2, <2>3 DEF ControlOf, Calling, Scanning, Finish
    <2>8. /\ Held(t, SHORTUSE)' <=> Held(t, SHORTUSE)
          /\ Held(t, SHORTUSE2)' <=> Held(t, SHORTUSE2)
      BY <2>2, SlotKinds
    <2>9. ProtocolOf(t)'
      BY <1>1, <1>2, <2>2, <2>3, <2>8 DEF ProtocolOf, Calling, Meeting, Foreign, Finish
    <2>10. Sharing'
      <3>1. /\ Owning(t)' = Owning(t)
            /\ OwnFinish(t)' <=> OwnFinish(t)
            /\ ~Unplaced(t)' /\ ~Finishing(t)'
        BY <1>1, <1>3, <2>1, <2>2, <2>3, <2>4 DEF Owning, OwnFinish, Unplaced, Finishing,
           Foreign, Finish
      <3> QED
        BY <1>1, <1>3, <2>1, <2>2, <2>3, <2>4, <2>5, <3>1, QuietKeeps DEF memVars, helperVars
    <2> QED
      BY <1>1, <2>5, <2>6, <2>7, <2>9, <2>10, Together DEF memVars, helperVars
  <1> QED
    BY <1>4, <1>5

(* The library is where it was.                                            *)
LEMMA LibraryStays ==
  ASSUME UNCHANGED <<watches, granted, element_list, hpc, pos, idx, hidx>>
  PROVE  /\ \A u, s : WatchedBy(u, s)' = WatchedBy(u, s) /\ (Held(u, s)' <=> Held(u, s))
         /\ \A u, s, e : Keeps(u, s, e)' <=> Keeps(u, s, e)
         /\ \A e : Listed(e)' <=> Listed(e)
         /\ \A o : Gone(o)' <=> Gone(o)
         /\ \A u \in Threads : /\ Scanning(u)' <=> Scanning(u)
                               /\ Waiting(u)' = Waiting(u) /\ Scanned(u)' = Scanned(u)
  BY WatchesStay, ListsStay, ScansStay DEF Scanning

(* ... and so is what the scans know.                                      *)
LEMMA ScansKeep ==
  ASSUME IInv, UNCHANGED <<watches, granted, element_list, hpc, pos, idx, hidx>>,
         \A e \in Shared : life'[e] = "free" =>
           life[e] = "free" \/ \A u \in Threads, s \in Slots : ~Keeps(u, s, e),
         \A u \in Threads : hpc[u] = "on_is_watched" /\ Scanned(u) \in Ops =>
           helper_'[Scanned(u)] = helper_[Scanned(u)]
  PROVE  HeldIsNotFree' /\ ScanMissesNoGrant' /\ StrongWatch'
  <1>1. /\ \A u, s, e : Keeps(u, s, e)' <=> Keeps(u, s, e)
        /\ \A u \in Threads : /\ Scanning(u)' <=> Scanning(u)
                              /\ Scanned(u)' = Scanned(u)
    BY LibraryStays
  <1>2. HeldIsNotFree'
    BY <1>1 DEF IInv, HeldIsNotFree
  <1>3. ScanMissesNoGrant'
    BY <1>1 DEF IInv, ScanMissesNoGrant
  <1>4. StrongWatch'
    BY <1>1 DEF IInv, StrongWatch
  <1> QED
    BY <1>2, <1>3, <1>4

(* A record that was free becomes the thread's own.                        *)
LEMMA NewOpKeeps ==
  ASSUME IInv, NEW t \in Threads, NewOp(t)
  PROVE  IInv'
  <1>1. PICK o \in Ops :
          /\ hpc[t] = "out" /\ pc[t] = "delayed" /\ Available(o)
          /\ life' = [life EXCEPT ![o] = "live"]
          /\ op' = [op EXCEPT ![t] = o]
          /\ elem_' = [elem_ EXCEPT ![o] = node[t]]
          /\ helper_' = [helper_ EXCEPT ![o] = Null]
          /\ next_' = IF Pushing(t) THEN [next_ EXCEPT ![node[t]] = o] ELSE next_
          /\ pc' = [pc EXCEPT ![t] = "announce"]
          /\ UNCHANGED <<watches, element_list, hpc, slot, elem, pos, idx, leaving, granted,
                         op_table_, help_id, lst_, op_, old_value_, new_value_,
                         node, helper, cur, nxt, fin, hidx>>
    BY DEF NewOp, At, Goto, SetLife, helperVars
  <1>2. life[o] = "free" /\ o \in Shared /\ o # Null /\ o \notin Helpers
    BY <1>1, Kinds DEF Available, Shared
  <1>3. ControlOf(t) /\ ProtocolOf(t)
    BY DEF IInv, Control, WatchProtocol
  <1>4. /\ pc'[t] = "announce" /\ op'[t] = o
        /\ op[t] = Null /\ helper[t] = Null /\ op_table_[t] = Null
    BY <1>1, <1>3 DEF IInv, Types, ControlOf, Owners
  <1>5. /\ \A u, s : WatchedBy(u, s)' = WatchedBy(u, s) /\ (Held(u, s)' <=> Held(u, s))
        /\ \A u, s, e : Keeps(u, s, e)' <=> Keeps(u, s, e)
        /\ \A e : Listed(e)' <=> Listed(e)
        /\ \A p : Gone(p)' <=> Gone(p)
        /\ \A u \in Threads : /\ Scanning(u)' <=> Scanning(u)
                              /\ Waiting(u)' = Waiting(u) /\ Scanned(u)' = Scanned(u)
    BY <1>1, LibraryStays
  <1>6. Elsewhere(t)
    BY <1>1, <1>5 DEF Elsewhere, IInv, Types
  <1>7. \A u \in Threads : u # t => Stays(u)
    BY <1>6, OthersStay
  <1>8. Types'
    BY <1>1, <1>2 DEF IInv, Types, PCs
  <1>9. ControlOf(t)'
    BY <1>1, <1>2, <1>3, <1>4 DEF ControlOf, Calling, Scanning, Finish
  <1>10. ProtocolOf(t)'
    BY <1>1, <1>3, <1>4, <1>5 DEF ProtocolOf, Calling, Meeting, Foreign, Finish
  <1>11. /\ ~Listed(o)
         /\ \A u \in Threads : Owning(u) # o /\ op[u] # o
    BY <1>2, RunningIsKept DEF IInv, Lists, Owners
  <1>12. /\ \A e \in Shared : e # o => life'[e] = life[e]
         /\ life'[o] = "live"
         /\ \A p \in Ops : p # o => helper_'[p] = helper_[p]
         /\ helper_'[o] = Null
    BY <1>1, <1>2, Kinds DEF IInv, Types
  <1>13. Owners'
    <2>1. Owning(t)' = o
      BY <1>1, <1>4 DEF Owning
    <2>2. \A u \in Threads : Owning(u) # Null => Owning(u) \in Shared
      BY DEF Owning, IInv, Types, Shared
    <2>3. \A u \in Threads : u # t =>
            /\ Owning(u)' = Owning(u) /\ op'[u] = op[u] /\ op_table_'[u] = op_table_[u]
            /\ pc'[u] = pc[u]
      BY <1>7 DEF Stays
    <2> QED
      BY <1>1, <1>4, <1>5, <1>11, <1>12, <2>1, <2>2, <2>3 DEF IInv, Owners
  <1>14. HeldIsNotFree' /\ ScanMissesNoGrant' /\ StrongWatch'
    <2>1. \A u \in Threads : hpc[u] = "on_is_watched" => Scanned(u) # o
      BY <1>11, ScannedWaits DEF IInv, Scanning
    <2> QED
      BY <1>1, <1>12, <2>1, ScansKeep
  <1>15. Lists'
    <2>1. \A e \in Shared : Listed(e) => e # o
      BY <1>11
    <2>2. \A p \in Ops : p \in Shared
      BY DEF Shared
    <2> QED
      BY <1>1, <1>5, <1>12, <2>1, <2>2 DEF IInv, Lists
  <1>16. OwnFinish(t)' <=> OwnFinish(t)
    BY <1>1, <1>4 DEF OwnFinish, Finish
  <1>17. \A u \in Threads : OwnFinish(u)' <=> OwnFinish(u)
    BY <1>7, <1>16 DEF Stays
  <1>18. HelperLife'
    <2>1. \A h \in Helpers : h \in Shared /\ h # o
      BY <1>2 DEF Shared
    <2>2. \A u \in Threads : helper[u] # Null => helper[u] \in Helpers /\ u # t
      BY <1>4 DEF IInv, Types
    <2>3. \A u \in Threads : Unplaced(u)' => Unplaced(u) /\ helper[u] # Null
      BY <1>1, <1>7, <1>4 DEF Stays, Unplaced
    <2>4. \A h \in Helpers : life'[h] # "free" => op_'[h] # Null
      BY <1>1, <1>12, <2>1 DEF IInv, HelperLife
    <2>5. \A u \in Threads : helper'[u] # Null =>
            /\ life'[helper'[u]] # "free" /\ op_'[helper'[u]] = op'[u]
            /\ \A w \in Threads : helper'[w] = helper'[u] => w = u
      BY <1>1, <1>7, <1>12, <2>1, <2>2 DEF IInv, HelperLife, Stays
    <2>6. \A u \in Threads : Unplaced(u)' =>
            /\ \A p \in Ops : helper_'[p] = helper'[u] => Gone(p)'
            /\ \A w \in Threads : ~Keeps(w, SHORTUSE, helper[u])'
      BY <1>1, <1>5, <1>12, <2>3 DEF IInv, HelperLife, Keeps
    <2>7. \A p \in Ops : helper_'[p] \in Helpers /\ ~Gone(p)' =>
            /\ life'[p] # "free" /\ life'[helper_'[p]] # "free"
            /\ op_'[helper_'[p]] = p /\ ~Listed(helper_[p])'
      <3> SUFFICES ASSUME NEW p \in Ops, helper_'[p] \in Helpers, ~Gone(p)'
                   PROVE  /\ life'[p] # "free" /\ life'[helper_'[p]] # "free"
                          /\ op_'[helper_'[p]] = p /\ ~Listed(helper_[p])'
        OBVIOUS
      <3>1. p # o /\ helper_'[p] = helper_[p] /\ p \in Shared
        BY <1>12, Kinds DEF Shared
      <3>2. /\ life[p] # "free" /\ life[helper_[p]] # "free"
            /\ op_[helper_[p]] = p /\ ~Listed(helper_[p])
        BY <1>5, <3>1 DEF IInv, HelperLife
      <3> QED
        BY <1>1, <1>5, <1>12, <2>1, <3>1, <3>2
    <2> QED
      BY <2>4, <2>5, <2>6, <2>7 DEF HelperLife
  <1>19. TopIsPlaced' /\ FinishOpen' /\ Settled'
    <2>1. \A h : Placed(h)' <=> Placed(h)
      BY <1>1, <1>17 DEF Placed
    <2>2. \A u \in Threads : Finishing(u)' => u # t /\ Finishing(u)
      BY <1>1, <1>4, <1>7 DEF Stays, Finishing, Foreign, Finish
    <2>3. \A u \in Threads : Finishing(u) => op_[fin[u]] # o /\ op_[fin[u]] \in Ops
      BY <1>2, FinishingKeeps
    <2>4. FinishOpen'
      BY <1>1, <1>12, <2>1, <2>2, <2>3 DEF IInv, FinishOpen
    <2>5. ~Past(t)'
      BY <1>4, <1>16, <1>1 DEF Past, OwnFinish, Finish
    <2>6. Settled'
      <3> SUFFICES ASSUME NEW u \in Threads, op'[u] # Null, Past(u)'
                   PROVE  helper_'[op'[u]] # Null
        BY DEF Settled
      <3>1. u # t
        BY <2>5
      <3>2. op'[u] = op[u] /\ Past(u) /\ op[u] \in Ops /\ op[u] # o
        BY <1>7, <1>11, <3>1, RunningIsKept DEF Stays
      <3> QED
        BY <1>12, <3>2 DEF IInv, Settled
    <2> QED
      BY <1>1, <2>1, <2>4, <2>6 DEF IInv, TopIsPlaced
  <1> QED
    BY <1>1, <1>6, <1>8, <1>9, <1>10, <1>13, <1>14, <1>15, <1>18, <1>19, Together DEF Sharing

-----------------------------------------------------------------------------
(* help_complete                                                           *)

(* A Helper that was free becomes the thread's own ...                     *)
LEMMA NewHelperKeeps ==
  ASSUME IInv, NEW t \in Threads, NewHelper(t)
  PROVE  IInv'
  <1>1. PICK h \in Helpers :
          /\ hpc[t] = "out" /\ pc[t] = "help" /\ Available(h)
          /\ life' = [life EXCEPT ![h] = "private"]
          /\ helper' = [helper EXCEPT ![t] = h]
          /\ op_' = [op_ EXCEPT ![h] = op[t]]
          /\ old_value_' = [old_value_ EXCEPT ![h] = Null]
          /\ new_value_' = [new_value_ EXCEPT ![h] = elem_[op[t]]]
          /\ pc' = [pc EXCEPT ![t] = "not_done"]
          /\ UNCHANGED <<watches, element_list, hpc, slot, elem, pos, idx, leaving, granted,
                         op_table_, help_id, lst_, next_, elem_, helper_,
                         node, op, cur, nxt, fin, hidx>>
    BY DEF NewHelper, At, Goto, SetLife, paVars
  <1>2. life[h] = "free" /\ h \in Shared /\ h # Null /\ h \notin Ops
    BY <1>1, Kinds DEF Available, Shared
  <1>3. ControlOf(t) /\ ProtocolOf(t)
    BY DEF IInv, Control, WatchProtocol
  <1>4. /\ pc'[t] = "not_done" /\ helper'[t] = h
        /\ op[t] \in Ops /\ op[t] # Null /\ helper[t] = Null
    BY <1>1, <1>3 DEF IInv, Types, ControlOf
  <1>5. /\ \A u, s : WatchedBy(u, s)' = WatchedBy(u, s) /\ (Held(u, s)' <=> Held(u, s))
        /\ \A u, s, e : Keeps(u, s, e)' <=> Keeps(u, s, e)
        /\ \A e : Listed(e)' <=> Listed(e)
        /\ \A p : Gone(p)' <=> Gone(p)
        /\ \A u \in Threads : Waiting(u)' = Waiting(u)
    BY <1>1, LibraryStays
  <1>6. Elsewhere(t)
    BY <1>1, <1>5 DEF Elsewhere, IInv, Types
  <1>7. \A u \in Threads : u # t => Stays(u)
    BY <1>6, OthersStay
  <1>8. Types'
    BY <1>1, <1>2, <1>4 DEF IInv, Types, PCs
  <1>9. ControlOf(t)'
    BY <1>1, <1>2, <1>3, <1>4 DEF ControlOf, Calling, Scanning, Finish
  <1>10. ProtocolOf(t)'
    BY <1>1, <1>3, <1>4, <1>5 DEF ProtocolOf, Calling, Meeting, Foreign, Finish
  <1>11. /\ ~Listed(h) /\ \A u \in Threads, s \in Slots : ~Keeps(u, s, h)
         /\ \A u \in Threads : helper[u] # h
         /\ \A o \in Ops : helper_[o] = h => Gone(o)
         /\ ~Placed(h) /\ lst_ # h
    <2>1. ~Listed(h) /\ \A u \in Threads, s \in Slots : ~Keeps(u, s, h)
      BY <1>2 DEF IInv, Lists, HeldIsNotFree
    <2>2. \A u \in Threads : helper[u] # h
      BY <1>2 DEF IInv, HelperLife
    <2>3. \A o \in Ops : helper_[o] = h => Gone(o)
      BY <1>2 DEF IInv, HelperLife
    <2>4. ~Placed(h)
      BY <2>2 DEF Placed
    <2> QED
      BY <2>1, <2>2, <2>3, <2>4 DEF IInv, TopIsPlaced
  <1>12. \A u \in Threads : Met(u) => fin[u] # h /\ fin[u] \in Helpers
    BY <1>2, MetIsKept
  <1>13. /\ \A e \in Shared : e # h => life'[e] = life[e]
         /\ life'[h] = "private"
         /\ \A g \in Helpers : g # h => op_'[g] = op_[g]
         /\ op_'[h] = op[t]
    BY <1>1, <1>2, Kinds DEF IInv, Types
  <1>14. Owners'
    <2>1. \A u \in Threads : Owning(u)' = Owning(u)
      BY <1>1, <1>4, <1>7 DEF Stays, Owning
    <2>2. \A u \in Threads : Owning(u) # Null => Owning(u) \in Shared /\ Owning(u) # h
      BY <1>2 DEF Owning, IInv, Types, Shared
    <2>3. \A u \in Threads : u # t => pc'[u] = pc[u]
      BY <1>7 DEF Stays
    <2> QED
      BY <1>1, <1>4, <1>5, <1>13, <2>1, <2>2, <2>3 DEF IInv, Owners
  <1>15. HeldIsNotFree' /\ ScanMissesNoGrant' /\ StrongWatch'
    BY <1>1, <1>13, ScansKeep
  <1>16. Lists'
    BY <1>1, <1>4, <1>5, <1>7, <1>11, <1>13 DEF IInv, Lists, Stays
  <1>17. OwnFinish(t)' <=> OwnFinish(t)
    BY <1>1, <1>4 DEF OwnFinish, Finish
  <1>18. HelperLife'
    <2>1. \A g \in Helpers : g \in Shared
      BY DEF Shared
    <2>2. \A u \in Threads : helper[u] # Null => helper[u] \in Helpers /\ u # t
      BY <1>4 DEF IInv, Types
    <2>3. \A g \in Helpers : life'[g] # "free" => op_'[g] # Null
      BY <1>4, <1>13, <2>1 DEF IInv, HelperLife
    <2>4. \A u \in Threads : helper'[u] # Null =>
            /\ life'[helper'[u]] # "free" /\ op_'[helper'[u]] = op'[u]
            /\ \A w \in Threads : helper'[w] = helper'[u] => w = u
      BY <1>1, <1>4, <1>7, <1>11, <1>13, <2>1, <2>2 DEF IInv, HelperLife, Stays
    <2>5. \A u \in Threads : Unplaced(u)' =>
            /\ \A p \in Ops : helper_'[p] = helper'[u] => Gone(p)'
            /\ \A w \in Threads : ~Keeps(w, SHORTUSE, helper[u])'
      <3> SUFFICES ASSUME NEW u \in Threads, Unplaced(u)'
                   PROVE  /\ \A p \in Ops : helper_'[p] = helper'[u] => Gone(p)'
                          /\ \A w \in Threads : ~Keeps(w, SHORTUSE, helper'[u])
        BY <1>1 DEF Keeps, Held, WatchedBy
      <3>1. CASE u = t
        BY <1>1, <1>4, <1>5, <1>11, <3>1, SlotKinds
      <3>2. CASE u # t
        BY <1>1, <1>5, <1>7, <3>2 DEF IInv, HelperLife, Stays
      <3> QED
        BY <3>1, <3>2
    <2>6. \A p \in Ops : helper_'[p] \in Helpers /\ ~Gone(p)' =>
            /\ life'[p] # "free" /\ life'[helper_'[p]] # "free"
            /\ op_'[helper_'[p]] = p /\ ~Listed(helper_[p])'
      BY <1>1, <1>2, <1>5, <1>11, <1>13, <2>1 DEF IInv, HelperLife, Shared
    <2> QED
      BY <2>3, <2>4, <2>5, <2>6 DEF HelperLife
  <1>19. TopIsPlaced' /\ FinishOpen' /\ Settled'
    <2>1. \A g : Placed(g)' <=> Placed(g)
      <3> SUFFICES ASSUME NEW g PROVE Placed(g)' <=> Placed(g)
        OBVIOUS
      <3>1. ~OwnFinish(t)
        BY <1>1 DEF OwnFinish, Finish
      <3> QED
        BY <1>7, <1>17, <3>1 DEF Placed, Stays
    <2>2. \A u \in Threads : Finishing(u)' => u # t /\ Finishing(u) /\ Met(u) /\ fin'[u] = fin[u]
      BY <1>1, <1>4, <1>7 DEF Stays, Finishing, Foreign, Finish, Met, Meeting
    <2>3. \A u \in Threads : Finishing(u) => fin[u] \in Helpers
      BY FinishingKeeps
    <2>4. FinishOpen'
      BY <1>1, <1>12, <1>13, <2>1, <2>2, <2>3 DEF IInv, FinishOpen
    <2>5. ~Past(t)'
      BY <1>4, <1>1 DEF Past, OwnFinish, Finish
    <2>6. Settled'
      BY <1>1, <1>7, <2>5 DEF IInv, Settled, Stays
    <2> QED
      BY <1>1, <2>1, <2>4, <2>6 DEF IInv, TopIsPlaced
  <1> QED
    BY <1>1, <1>6, <1>8, <1>9, <1>10, <1>12, <1>13, <1>14, <1>15, <1>16, <1>18, <1>19, Together
       DEF Sharing

(* ... is deleted if it is not needed ...                                  *)
LEMMA DeletedKeeps ==
  ASSUME IInv, NEW t \in Threads, hpc[t] = "out", pc[t] \in {"not_done", "fail"},
         life' = [life EXCEPT ![helper[t]] = "free"],
         op_' = [op_ EXCEPT ![helper[t]] = Null],
         old_value_' = [old_value_ EXCEPT ![helper[t]] = Null],
         new_value_' = [new_value_ EXCEPT ![helper[t]] = Null],
         helper' = [helper EXCEPT ![t] = Null],
         pc' = [pc EXCEPT ![t] = IF pc[t] = "not_done" THEN "helped" ELSE "unwatch"],
         \/ helper_[op[t]] # Null /\ helper_' = helper_
         \/ helper_[op[t]] = Null /\ helper_' = [helper_ EXCEPT ![op[t]] = Fail],
         UNCHANGED <<watches, element_list, hpc, slot, elem, pos, idx, leaving, granted,
                     op_table_, help_id, lst_, next_, elem_, node, op, cur, nxt, fin, hidx>>
  PROVE  IInv'
  <1> DEFINE h == helper[t]
  <1>1. ControlOf(t) /\ ProtocolOf(t)
    BY DEF IInv, Control, WatchProtocol
  <1>2. Unplaced(t)
    BY <1>1 DEF Unplaced, OwnFinish, Finish, ControlOf
  <1>3. /\ h \in Helpers /\ op[t] \in Ops /\ op[t] # Null /\ h \in Shared /\ h # Null
        /\ h \notin Ops
    BY <1>2, UnplacedIsPrivate, Kinds DEF Shared
  <1>4. /\ lst_ # h /\ ~Listed(h)
        /\ \A u \in Threads, s \in Slots : ~Keeps(u, s, h)
        /\ \A o \in Ops : helper_[o] = h => Gone(o)
        /\ ~Placed(h)
    BY <1>2, UnplacedIsPrivate DEF Placed
  <1>5. \A u \in Threads : Met(u) => fin[u] # h /\ fin[u] \in Helpers
    BY <1>4, MetIsKept, SlotKinds
  <1>6. \A u \in Threads : u # t => helper[u] # h
    BY <1>3 DEF IInv, HelperLife
  <1>7. /\ pc'[t] \in {"helped", "unwatch"} /\ helper'[t] = Null
    BY DEF IInv, Types
  <1>8. /\ \A u, s : WatchedBy(u, s)' = WatchedBy(u, s) /\ (Held(u, s)' <=> Held(u, s))
        /\ \A u, s, e : Keeps(u, s, e)' <=> Keeps(u, s, e)
        /\ \A e : Listed(e)' <=> Listed(e)
        /\ \A p : Gone(p)' <=> Gone(p)
        /\ \A u \in Threads : Waiting(u)' = Waiting(u)
    BY LibraryStays
  <1>9. Elsewhere(t)
    BY <1>8 DEF Elsewhere, IInv, Types
  <1>10. \A u \in Threads : u # t => Stays(u)
    BY <1>9, OthersStay
  <1>11. Types'
    BY <1>3 DEF IInv, Types, PCs
  <1>12. ControlOf(t)'
    BY <1>1, <1>3, <1>7 DEF ControlOf, Calling, Scanning, Finish, IInv, Types
  <1>13. ProtocolOf(t)'
    BY <1>1, <1>8, <1>7 DEF ProtocolOf, Calling, Meeting, Foreign, Finish, IInv, Types
  <1>14. /\ \A e \in Shared : e # h => life'[e] = life[e]
         /\ \A g \in Helpers : g # h => op_'[g] = op_[g]
         /\ life'[h] = "free"
    BY <1>3, Kinds DEF IInv, Types
  <1>15. /\ \A p \in Ops : p # op[t] => helper_'[p] = helper_[p]
         /\ helper_'[op[t]] # Null
         /\ \A p \in Ops : helper_'[p] \in Helpers => helper_'[p] = helper_[p]
         /\ \A p \in Ops : helper_[p] # Null => helper_'[p] # Null
    BY <1>3, Kinds DEF IInv, Types
  <1>16. ~OwnFinish(t) /\ ~OwnFinish(t)' /\ ~Unplaced(t)' /\ ~Finishing(t)'
    BY <1>7 DEF OwnFinish, Finish, Unplaced, Finishing, Foreign
  <1>17. Owners'
    <2>1. \A u \in Threads : Owning(u)' = Owning(u)
      BY <1>7, <1>10 DEF Stays, Owning
    <2>2. \A u \in Threads : Owning(u) # Null => Owning(u) \in Shared /\ Owning(u) # h
      BY <1>3 DEF Owning, IInv, Types, Shared
    <2>3. \A u \in Threads : u # t => pc'[u] = pc[u]
      BY <1>10 DEF Stays
    <2> QED
      BY <1>7, <1>8, <1>14, <2>1, <2>2, <2>3 DEF IInv, Owners
  <1>18. HeldIsNotFree' /\ ScanMissesNoGrant' /\ StrongWatch'
    <2>1. \A u \in Threads : hpc[u] = "on_is_watched" => Scanned(u) # op[t]
      BY <1>3, RunningIsKept
    <2> QED
      BY <1>4, <1>14, <1>15, <2>1, ScansKeep
  <1>19. Lists'
    <2>1. \A e \in Shared : Listed(e) => e # h
      BY <1>4
    <2>2. \A u \in Threads : helper'[u] # Null => helper'[u] = helper[u]
      BY <1>7, <1>10 DEF Stays
    <2>3. \A p \in Ops : p \in Shared
      BY DEF Shared
    <2> QED
      BY <1>8, <1>14, <1>15, <2>1, <2>2, <2>3 DEF IInv, Lists
  <1>20. HelperLife'
    <2>1. \A g \in Helpers : g \in Shared
      BY DEF Shared
    <2>2. \A u \in Threads : helper'[u] # Null =>
            u # t /\ helper'[u] = helper[u] /\ helper[u] \in Helpers /\ helper[u] # h
      BY <1>6, <1>7, <1>10 DEF IInv, Types, Stays
    <2>3. \A g \in Helpers : life'[g] # "free" => op_'[g] # Null
      BY <1>14, <2>1 DEF IInv, HelperLife
    <2>4. \A u \in Threads : helper'[u] # Null =>
            /\ life'[helper'[u]] # "free" /\ op_'[helper'[u]] = op'[u]
            /\ \A w \in Threads : helper'[w] = helper'[u] => w = u
      BY <1>14, <2>1, <2>2 DEF IInv, HelperLife
    <2>5. \A u \in Threads : Unplaced(u)' =>
            /\ \A p \in Ops : helper_'[p] = helper'[u] => Gone(p)'
            /\ \A w \in Threads : ~Keeps(w, SHORTUSE, helper[u])'
      <3> SUFFICES ASSUME NEW u \in Threads, Unplaced(u)'
                   PROVE  /\ \A p \in Ops : helper_'[p] = helper'[u] => Gone(p)'
                          /\ \A w \in Threads : ~Keeps(w, SHORTUSE, helper[u])'
        OBVIOUS
      <3>1. helper'[u] # Null /\ u # t
        BY <1>16 DEF Unplaced
      <3>2. Unplaced(u) /\ helper'[u] = helper[u] /\ helper[u] \in Helpers
        BY <1>10, <2>2, <3>1 DEF Stays
      <3>3. \A w \in Threads : ~Keeps(w, SHORTUSE, helper'[u])
        BY <3>2 DEF IInv, HelperLife
      <3> QED
        BY <1>8, <1>15, <3>2, <3>3 DEF IInv, HelperLife, Keeps, Held, WatchedBy
    <2>6. \A p \in Ops : helper_'[p] \in Helpers /\ ~Gone(p)' =>
            /\ life'[p] # "free" /\ life'[helper_'[p]] # "free"
            /\ op_'[helper_'[p]] = p /\ ~Listed(helper_[p])'
      <3> SUFFICES ASSUME NEW p \in Ops, helper_'[p] \in Helpers, ~Gone(p)'
                   PROVE  /\ life'[p] # "free" /\ life'[helper_'[p]] # "free"
                          /\ op_'[helper_'[p]] = p /\ ~Listed(helper_[p])'
        OBVIOUS
      <3>1. helper_'[p] = helper_[p] /\ ~Gone(p) /\ helper_[p] # h /\ p \in Shared /\ p # h
        BY <1>3, <1>4, <1>8, <1>15 DEF Shared
      <3>2. /\ life[p] # "free" /\ life[helper_[p]] # "free"
            /\ op_[helper_[p]] = p /\ ~Listed(helper_[p])
        BY <3>1 DEF IInv, HelperLife
      <3> QED
        BY <1>8, <1>14, <2>1, <3>1, <3>2 DEF Listed
    <2> QED
      BY <2>3, <2>4, <2>5, <2>6 DEF HelperLife
  <1>21. TopIsPlaced' /\ FinishOpen' /\ Settled'
    <2>1. \A g : Placed(g)' <=> Placed(g)
      BY <1>10, <1>16 DEF Placed, Stays
    <2>2. \A u \in Threads : Finishing(u)' => u # t /\ Finishing(u) /\ fin'[u] = fin[u]
      BY <1>10, <1>16 DEF Stays
    <2>3. \A u \in Threads : Finishing(u) =>
            fin[u] \in Helpers /\ op_[fin[u]] \in Ops /\ op_'[fin[u]] = op_[fin[u]]
      BY <1>5, <1>14, FinishingKeeps DEF Finishing, Met, Meeting
    <2>4. FinishOpen'
      BY <1>15, <2>1, <2>2, <2>3 DEF IInv, FinishOpen
    <2>5. Settled'
      BY <1>10, <1>15, RunningIsKept DEF IInv, Settled, Stays
    <2> QED
      BY <2>1, <2>4, <2>5 DEF IInv, TopIsPlaced
  <1> QED
    BY <1>5, <1>9, <1>11, <1>12, <1>13, <1>14, <1>17, <1>18, <1>19, <1>20, <1>21, Together
       DEF Sharing

LEMMA NotDoneKeeps ==
  ASSUME IInv, NEW t \in Threads, NotDone(t)
  PROVE  IInv'
  <1>1. /\ hpc[t] = "out" /\ pc[t] = "not_done"
        /\ UNCHANGED <<op_table_, help_id, lst_, next_, elem_, helper_, node, op, cur, nxt, fin,
                       hidx>>
    BY DEF NotDone, At, paVars
  <1>2. ControlOf(t)
    BY DEF IInv, Control
  <1>3. CASE helper_[op[t]] = Null
    <2>1. /\ pc' = [pc EXCEPT ![t] = "load"]
          /\ UNCHANGED <<hpVars, helper, helperVars>>
      BY <1>3 DEF NotDone, Goto
    <2>2. /\ \A u, s : WatchedBy(u, s)' = WatchedBy(u, s) /\ (Held(u, s)' <=> Held(u, s))
          /\ \A u, s, e : Keeps(u, s, e)' <=> Keeps(u, s, e)
      BY <2>1, WatchesStay DEF hpVars
    <2>3. Elsewhere(t)
      BY <1>1, <2>1, <2>2 DEF Elsewhere, IInv, Types, hpVars
    <2>4. Types'
      BY <1>1, <2>1 DEF IInv, Types, PCs, hpVars, helperVars
    <2>5. pc'[t] = "load"
      BY <2>1 DEF IInv, Types
    <2>6. ControlOf(t)'
      BY <1>1, <1>2, <2>1, <2>5 DEF ControlOf, Calling, Scanning, Finish, hpVars
    <2>7. ProtocolOf(t)'
      BY <1>1, <2>1, <2>2, <2>5 DEF IInv, WatchProtocol, ProtocolOf, Calling, Meeting, Foreign,
         Finish, hpVars
    <2>8. Sharing'
      <3>1. /\ Owning(t)' = Owning(t)
            /\ op_table_'[t] # Null =>
                 op'[t] = op_table_'[t] /\ pc'[t] \notin {"announce", "result"}
            /\ OwnFinish(t)' <=> OwnFinish(t)
            /\ Unplaced(t)' => Unplaced(t)
            /\ ~Finishing(t)' /\ ~Past(t)'
        BY <1>1, <2>1, <2>5 DEF Owning, IInv, Owners, OwnFinish, Unplaced, Finishing, Foreign,
           Finish, Past, hpVars
      <3> QED
        BY <1>1, <2>1, <2>2, <2>3, <3>1, QuietKeeps DEF hpVars, helperVars
    <2> QED
      BY <2>1, <2>3, <2>4, <2>6, <2>7, <2>8, Together DEF helperVars
  <1>4. CASE helper_[op[t]] # Null
    <2>1. /\ life' = [life EXCEPT ![helper[t]] = "free"]
          /\ op_' = [op_ EXCEPT ![helper[t]] = Null]
          /\ old_value_' = [old_value_ EXCEPT ![helper[t]] = Null]
          /\ new_value_' = [new_value_ EXCEPT ![helper[t]] = Null]
          /\ helper' = [helper EXCEPT ![t] = Null]
          /\ pc' = [pc EXCEPT ![t] = "helped"]
          /\ UNCHANGED <<watches, element_list, hpc, slot, elem, pos, idx, leaving, granted>>
      BY <1>4 DEF NotDone, DeleteHelper, SetLife, Scrub, Goto
    <2> QED
      BY <1>1, <1>4, <2>1, DeletedKeeps
  <1> QED
    BY <1>3, <1>4

LEMMA FailPopKeeps ==
  ASSUME IInv, NEW t \in Threads, FailPop(t)
  PROVE  IInv'
  <1>1. /\ hpc[t] = "out" /\ pc[t] = "fail"
        /\ life' = [life EXCEPT ![helper[t]] = "free"]
        /\ op_' = [op_ EXCEPT ![helper[t]] = Null]
        /\ old_value_' = [old_value_ EXCEPT ![helper[t]] = Null]
        /\ new_value_' = [new_value_ EXCEPT ![helper[t]] = Null]
        /\ helper' = [helper EXCEPT ![t] = Null]
        /\ pc' = [pc EXCEPT ![t] = "unwatch"]
        /\ helper_' = [helper_ EXCEPT ![op[t]] = IF helper_[op[t]] = Null THEN Fail
                                                 ELSE helper_[op[t]]]
        /\ UNCHANGED <<watches, element_list, hpc, slot, elem, pos, idx, leaving, granted,
                       op_table_, help_id, lst_, next_, elem_, node, op, cur, nxt, fin, hidx>>
    BY DEF FailPop, DeleteHelper, SetLife, Scrub, At, Goto, paVars
  <1>2. \/ helper_[op[t]] # Null /\ helper_' = helper_
        \/ helper_[op[t]] = Null /\ helper_' = [helper_ EXCEPT ![op[t]] = Fail]
    BY <1>1 DEF IInv, Types
  <1> QED
    BY <1>1, <1>2, DeletedKeeps

(* ... or placed at the top ...                                            *)
LEMMA PlaceKeeps ==
  ASSUME IInv, NEW t \in Threads, Place(t)
  PROVE  IInv'
  <1> DEFINE h == helper[t]
  <1>1. /\ hpc[t] = "out" /\ pc[t] = "cas" /\ op[t] # Null
        /\ old_value_' = [old_value_ EXCEPT ![h] = cur[t]]
        /\ \/ new_value_' = [new_value_ EXCEPT ![h] = elem_[op[t]]]
           \/ new_value_' = [new_value_ EXCEPT ![h] = nxt[t]]
        /\ UNCHANGED <<watches, element_list, hpc, slot, elem, pos, idx, leaving, granted,
                       op_table_, help_id, next_, elem_, helper_, op_,
                       node, op, helper, cur, nxt, hidx>>
    BY DEF Place, At, SetLife, Helping, paVars, hpVars
  <1>2. ControlOf(t) /\ ProtocolOf(t)
    BY DEF IInv, Control, WatchProtocol
  <1>3. h \in Helpers /\ h # Null /\ h \in Shared /\ op[t] \in Ops
    BY <1>1, <1>2 DEF IInv, Types, ControlOf, Shared
  <1>4. /\ old_value_' \in [Helpers -> Nodes \cup {Null}]
        /\ new_value_' \in [Helpers -> Nodes \cup Ops \cup {Null}]
    BY <1>1, <1>3 DEF IInv, Types
  <1>5. ~OwnFinish(t) /\ Unplaced(t)
    BY <1>1, <1>3 DEF OwnFinish, Finish, Unplaced
  <1>6. /\ \A u, s : WatchedBy(u, s)' = WatchedBy(u, s) /\ (Held(u, s)' <=> Held(u, s))
        /\ \A u, s, e : Keeps(u, s, e)' <=> Keeps(u, s, e)
        /\ \A e : Listed(e)' <=> Listed(e)
        /\ \A p : Gone(p)' <=> Gone(p)
        /\ \A u \in Threads : Waiting(u)' = Waiting(u)
    BY <1>1, LibraryStays
  <1>7. CASE ~TopIsCur(t)
    <2>1. pc' = [pc EXCEPT ![t] = "unwatch"] /\ UNCHANGED <<lst_, life, fin>>
      BY <1>7 DEF Place, Goto, hpVars
    <2>2. Elsewhere(t)
      BY <1>1, <1>6, <2>1 DEF Elsewhere, IInv, Types
    <2>3. Types'
      BY <1>1, <1>4, <2>1 DEF IInv, Types, PCs
    <2>4. pc'[t] = "unwatch"
      BY <2>1 DEF IInv, Types
    <2>5. ControlOf(t)'
      BY <1>1, <1>2, <2>1, <2>4 DEF ControlOf, Calling, Scanning, Finish
    <2>6. ProtocolOf(t)'
      BY <1>1, <1>2, <1>6, <2>1, <2>4 DEF ProtocolOf, Calling, Meeting, Foreign, Finish
    <2>7. Sharing'
      <3>1. /\ Owning(t)' = Owning(t)
            /\ op_table_'[t] # Null =>
                 op'[t] = op_table_'[t] /\ pc'[t] \notin {"announce", "result"}
            /\ ~OwnFinish(t)' /\ ~Finishing(t)' /\ ~Past(t)'
        BY <1>1, <1>3, <2>1, <2>4 DEF Owning, IInv, Owners, OwnFinish, Finishing, Foreign, Finish,
           Past
      <3> QED
        BY <1>1, <1>5, <1>6, <2>1, <2>2, <3>1, QuietKeeps
    <2> QED
      BY <1>1, <2>2, <2>3, <2>5, <2>6, <2>7, Together
  <1>8. CASE TopIsCur(t)
    <2>1. /\ pc' = [pc EXCEPT ![t] = "associate"]
          /\ lst_' = h
          /\ life' = [life EXCEPT ![h] = "live"]
          /\ fin' = [fin EXCEPT ![t] = h]
      BY <1>8 DEF Place, Goto, SetLife
    <2>2. Elsewhere(t)
      BY <1>1, <1>6, <2>1 DEF Elsewhere, IInv, Types
    <2>3. \A u \in Threads : u # t => Stays(u)
      BY <2>2, OthersStay
    <2>4. Types'
      BY <1>1, <1>3, <1>4, <2>1, Kinds DEF IInv, Types, PCs, Pointers
    <2>5. pc'[t] = "associate" /\ fin'[t] = h
      BY <2>1 DEF IInv, Types
    <2>6. ControlOf(t)'
      BY <1>1, <1>2, <1>3, <2>5 DEF ControlOf, Calling, Scanning, Finish
    <2>7. ProtocolOf(t)'
      BY <1>1, <1>2, <1>6, <2>5 DEF ProtocolOf, Calling, Meeting, Foreign, Finish
    <2>8. OwnFinish(t)' /\ ~Unplaced(t)' /\ ~Finishing(t)' /\ ~Past(t)'
      BY <1>1, <2>5 DEF OwnFinish, Unplaced, Finishing, Foreign, Finish, Past
    <2>9. life'[h] = "live" /\ \A e \in Shared : e # h => life'[e] = life[e]
      BY <1>3, <2>1, Kinds DEF IInv, Types
    <2>10. Owners'
      <3>1. \A u \in Threads : Owning(u)' = Owning(u)
        BY <1>1, <2>3, <2>5 DEF Stays, Owning
      <3>2. \A u \in Threads : Owning(u) # Null => Owning(u) \in Shared
        BY DEF Owning, IInv, Types, Shared
      <3>3. \A u \in Threads : u # t => pc'[u] = pc[u]
        BY <2>3 DEF Stays
      <3> QED
        BY <1>1, <1>6, <2>5, <2>9, <3>1, <3>2, <3>3 DEF IInv, Owners
    <2>11. HeldIsNotFree' /\ ScanMissesNoGrant' /\ StrongWatch'
      BY <1>1, <2>9, ScansKeep
    <2>12. Lists'
      BY <1>1, <1>6, <2>9 DEF IInv, Lists
    <2>13. HelperLife'
      <3>1. \A g \in Helpers : g \in Shared
        BY DEF Shared
      <3>2. \A u \in Threads : helper[u] # Null => helper[u] \in Shared
        BY DEF IInv, Types, Shared
      <3>3. \A g \in Helpers : life'[g] # "free" => op_'[g] # Null
        BY <1>1, <1>3, <2>9, <3>1 DEF IInv, HelperLife
      <3>4. \A u \in Threads : helper'[u] # Null =>
              /\ life'[helper'[u]] # "free" /\ op_'[helper'[u]] = op'[u]
              /\ \A w \in Threads : helper'[w] = helper'[u] => w = u
        BY <1>1, <2>9, <3>2 DEF IInv, HelperLife
      <3>5. \A u \in Threads : Unplaced(u)' =>
              /\ \A p \in Ops : helper_'[p] = helper'[u] => Gone(p)'
              /\ \A w \in Threads : ~Keeps(w, SHORTUSE, helper[u])'
        BY <1>1, <1>6, <2>3, <2>8 DEF IInv, HelperLife, Stays, Keeps, Held, WatchedBy
      <3>6. \A p \in Ops : helper_'[p] \in Helpers /\ ~Gone(p)' =>
              /\ life'[p] # "free" /\ life'[helper_'[p]] # "free"
              /\ op_'[helper_'[p]] = p /\ ~Listed(helper_[p])'
        <4> SUFFICES ASSUME NEW p \in Ops, helper_'[p] \in Helpers, ~Gone(p)'
                     PROVE  /\ life'[p] # "free" /\ life'[helper_'[p]] # "free"
                            /\ op_'[helper_'[p]] = p /\ ~Listed(helper_[p])'
          OBVIOUS
        <4>1. /\ life[p] # "free" /\ life[helper_[p]] # "free"
              /\ op_[helper_[p]] = p /\ ~Listed(helper_[p])
          BY <1>1, <1>6 DEF IInv, HelperLife
        <4> QED
          BY <1>1, <2>9, <3>1, <4>1 DEF Shared, Listed, Waiting
      <3> QED
        BY <3>3, <3>4, <3>5, <3>6 DEF HelperLife
    <2>14. TopIsPlaced' /\ FinishOpen' /\ Settled'
      <3>1. Placed(h)'
        BY <1>1, <2>8 DEF Placed, OwnFinish
      <3>2. \A g : Placed(g) => Placed(g)'
        BY <1>5, <2>3 DEF Placed, Stays
      <3>3. TopIsPlaced'
        BY <2>1, <2>8, <1>1 DEF TopIsPlaced, Placed
      <3>4. \A u \in Threads : Finishing(u)' => u # t /\ Finishing(u) /\ fin'[u] = fin[u]
        BY <2>3, <2>8 DEF Stays
      <3>5. FinishOpen'
        <4> SUFFICES ASSUME NEW u \in Threads, Finishing(u)', helper_'[op_'[fin'[u]]] = Null
                     PROVE  Placed(fin[u])'
          BY DEF FinishOpen
        <4>1. Placed(fin[u]) /\ fin'[u] = fin[u] /\ u # t
          BY <1>1, <3>4 DEF IInv, FinishOpen
        <4>2. PICK w \in Threads : OwnFinish(w) /\ helper[w] = fin[u]
          BY <4>1 DEF Placed
        <4>3. OwnFinish(w)' /\ helper'[w] = fin'[u]
          BY <1>1, <1>5, <2>3, <4>1, <4>2 DEF Stays
        <4> QED
          BY <4>3 DEF Placed
      <3>6. Settled'
        BY <1>1, <2>3, <2>8 DEF IInv, Settled, Stays
      <3> QED
        BY <3>3, <3>5, <3>6
    <2> QED
      BY <1>1, <2>2, <2>4, <2>6, <2>7, <2>10, <2>11, <2>12, <2>13, <2>14, Together DEF Sharing
  <1> QED
    BY <1>7, <1>8

(* ... where its record associates with it, or did with another one ...    *)
LEMMA AssociateKeeps ==
  ASSUME IInv, NEW t \in Threads, Associate(t)
  PROVE  IInv'
  <1> DEFINE h == fin[t]
             o == op_[h]
  <1>1. /\ hpc[t] = "out" /\ pc[t] = "associate"
        /\ UNCHANGED <<watches, element_list, hpc, slot, elem, pos, idx, leaving, granted,
                       op_table_, help_id, lst_, next_, elem_, op_, old_value_, new_value_,
                       node, op, helper, cur, nxt, fin, hidx>>
    BY DEF Associate, At, SetLife, paVars, hpVars, helperVars
  <1>2. ControlOf(t) /\ ProtocolOf(t)
    BY DEF IInv, Control, WatchProtocol
  <1>3. h \in Helpers /\ h # Null
    BY <1>1, <1>2 DEF IInv, Types, ControlOf, Finish
  <1>4. /\ o \in Ops /\ life[o] # "free"
        /\ \A u \in Threads : hpc[u] = "on_is_watched" => Scanned(u) # o
    <2>1. CASE OwnFinish(t)
      <3>1. helper[t] = h /\ op[t] # Null
        BY <1>2, <1>3, <2>1 DEF OwnFinish, ControlOf
      <3>2. o = op[t]
        BY <1>3, <3>1 DEF IInv, HelperLife
      <3> QED
        BY <3>1, <3>2, RunningIsKept
    <2>2. CASE Foreign(t)
      BY <2>2, FinishingKeeps DEF Finishing
    <2> QED
      BY <1>1, <2>1, <2>2 DEF OwnFinish, Foreign, Finish
  <1>5. /\ \A u, s : WatchedBy(u, s)' = WatchedBy(u, s) /\ (Held(u, s)' <=> Held(u, s))
        /\ \A u, s, e : Keeps(u, s, e)' <=> Keeps(u, s, e)
        /\ \A e : Listed(e)' <=> Listed(e)
        /\ \A p : Gone(p)' <=> Gone(p)
        /\ \A u \in Threads : Waiting(u)' = Waiting(u)
    BY <1>1, LibraryStays
  <1>6. \E l \in {"set_next", "install_new", "install_old"} :
          /\ pc' = [pc EXCEPT ![t] = l]
          /\ \/ helper_[o] # Null /\ helper_' = helper_ /\ life' = life
             \/ /\ helper_[o] = Null /\ helper_' = [helper_ EXCEPT ![o] = h]
                /\ \/ elem_[o] # Null /\ life' = [life EXCEPT ![elem_[o]] = "live"]
                   \/ life' = [life EXCEPT ![old_value_[h]] = "retired"]
    BY DEF Associate, Associates, Goto, SetLife, hpVars
  <1>7. PICK l \in {"set_next", "install_new", "install_old"} :
          /\ pc' = [pc EXCEPT ![t] = l]
          /\ \/ helper_[o] # Null /\ helper_' = helper_ /\ life' = life
             \/ /\ helper_[o] = Null /\ helper_' = [helper_ EXCEPT ![o] = h]
                /\ \/ elem_[o] # Null /\ life' = [life EXCEPT ![elem_[o]] = "live"]
                   \/ life' = [life EXCEPT ![old_value_[h]] = "retired"]
    BY <1>6
  <1>8. elem_[o] \in Nodes \cup {Null} /\ old_value_[h] \in Nodes \cup {Null}
    BY <1>3, <1>4 DEF IInv, Types
  <1>9. \A e \in Shared : life'[e] = life[e]
    <2> SUFFICES ASSUME NEW e \in Shared PROVE life'[e] = life[e]
      OBVIOUS
    <2>1. elem_[o] # e /\ old_value_[h] # e
      BY <1>8, Kinds DEF Shared
    <2>2. life \in [Elems -> {"free", "private", "live", "retired"}] /\ e \in Elems
      BY Kinds DEF IInv, Types
    <2> QED
      BY <1>7, <2>1, <2>2
  <1>10. Elsewhere(t)
    BY <1>1, <1>5, <1>7 DEF Elsewhere, IInv, Types
  <1>11. \A u \in Threads : u # t => Stays(u)
    BY <1>10, OthersStay
  <1>12. Types'
    <2>1. life' \in [Elems -> {"free", "private", "live", "retired"}]
      BY <1>7 DEF IInv, Types
    <2>2. helper_' \in [Ops -> Helpers \cup {Null, Fail}]
      BY <1>3, <1>4, <1>7 DEF IInv, Types
    <2>3. pc' \in [Threads -> PCs]
      BY <1>7 DEF IInv, Types, PCs
    <2> QED
      BY <1>1, <2>1, <2>2, <2>3 DEF IInv, Types
  <1>13. pc'[t] = l
    BY <1>7 DEF IInv, Types
  <1>14. ControlOf(t)'
    BY <1>1, <1>2, <1>13 DEF ControlOf, Calling, Scanning, Finish
  <1>15. ProtocolOf(t)'
    <2>1. Foreign(t)' <=> Foreign(t)
      BY <1>1, <1>13 DEF Foreign, Finish
    <2>2. Foreign(t)' => Keeps(t, SHORTUSE, fin[t])' /\ Keeps(t, SHORTUSE2, op_[fin[t]])'
      BY <1>1, <1>2, <2>1 DEF ProtocolOf, Keeps, Held, WatchedBy
    <2> QED
      BY <1>1, <1>2, <1>5, <1>13, <2>1, <2>2 DEF ProtocolOf, Calling, Meeting
  <1>16. /\ \A u \in Threads : OwnFinish(u)' <=> OwnFinish(u)
         /\ \A u \in Threads : Unplaced(u)' <=> Unplaced(u)
         /\ \A u \in Threads : Finishing(u)' <=> Finishing(u)
    <2>1. OwnFinish(t)' <=> OwnFinish(t)
      BY <1>1, <1>13 DEF OwnFinish, Finish
    <2>2. Unplaced(t)' <=> Unplaced(t)
      BY <1>1, <1>13, <2>1 DEF Unplaced
    <2>3. Finishing(t)' <=> Finishing(t)
      BY <1>1, <1>13 DEF Finishing, Foreign, Finish
    <2> QED
      BY <1>11, <2>1, <2>2, <2>3 DEF Stays
  <1>17. /\ \A p \in Ops : p # o => helper_'[p] = helper_[p]
         /\ helper_[o] # Null => helper_'[o] = helper_[o]
         /\ helper_[o] = Null => helper_'[o] = h
    BY <1>4, <1>7 DEF IInv, Types
  <1>18. helper_[o] = Null => Placed(h)
    <2>1. CASE OwnFinish(t)
      BY <2>1 DEF Placed, OwnFinish
    <2>2. CASE Foreign(t)
      BY <2>2 DEF IInv, FinishOpen, Finishing
    <2> QED
      BY <1>1, <2>1, <2>2 DEF OwnFinish, Foreign, Finish
  <1>19. Owners'
    <2>1. \A u \in Threads : Owning(u)' = Owning(u)
      BY <1>1, <1>11, <1>13 DEF Stays, Owning
    <2>2. \A u \in Threads : Owning(u) # Null => Owning(u) \in Shared
      BY DEF Owning, IInv, Types, Shared
    <2>3. \A u \in Threads : u # t => pc'[u] = pc[u]
      BY <1>11 DEF Stays
    <2> QED
      BY <1>1, <1>5, <1>9, <1>13, <2>1, <2>2, <2>3 DEF IInv, Owners
  <1>20. HeldIsNotFree' /\ ScanMissesNoGrant' /\ StrongWatch'
    BY <1>1, <1>4, <1>9, <1>17, ScansKeep
  <1>21. Lists'
    BY <1>1, <1>3, <1>5, <1>9, <1>17 DEF IInv, Lists, Shared
  <1>22. HelperLife'
    <2>1. \A g \in Helpers : g \in Shared
      BY DEF Shared
    <2>2. \A u \in Threads : helper[u] # Null => helper[u] \in Shared
      BY DEF IInv, Types, Shared
    <2>3. \A g \in Helpers : life'[g] # "free" => op_'[g] # Null
      BY <1>1, <1>9, <2>1 DEF IInv, HelperLife
    <2>4. \A u \in Threads : helper'[u] # Null =>
            /\ life'[helper'[u]] # "free" /\ op_'[helper'[u]] = op'[u]
            /\ \A w \in Threads : helper'[w] = helper'[u] => w = u
      BY <1>1, <1>9, <2>2 DEF IInv, HelperLife
    <2>5. \A u \in Threads : Unplaced(u)' =>
            /\ \A p \in Ops : helper_'[p] = helper'[u] => Gone(p)'
            /\ \A w \in Threads : ~Keeps(w, SHORTUSE, helper[u])'
      <3> SUFFICES ASSUME NEW u \in Threads, Unplaced(u)
                   PROVE  /\ \A p \in Ops : helper_'[p] = helper[u] => Gone(p)
                          /\ \A w \in Threads : ~Keeps(w, SHORTUSE, helper[u])
        BY <1>1, <1>5, <1>16 DEF Keeps, Held, WatchedBy
      <3>1. helper_[o] = Null => helper[u] # h
        BY <1>3, <1>18, PlacedIsOwned
      <3>2. \A p \in Ops : helper_'[p] = helper[u] => helper_[p] = helper[u]
        BY <1>17, <3>1
      <3> QED
        BY <3>2 DEF IInv, HelperLife
    <2>6. \A p \in Ops : helper_'[p] \in Helpers /\ ~Gone(p)' =>
            /\ life'[p] # "free" /\ life'[helper_'[p]] # "free"
            /\ op_'[helper_'[p]] = p /\ ~Listed(helper_[p])'
      <3> SUFFICES ASSUME NEW p \in Ops, helper_'[p] \in Helpers, ~Gone(p)'
                   PROVE  /\ life'[p] # "free" /\ life'[helper_'[p]] # "free"
                          /\ op_'[helper_'[p]] = p /\ ~Listed(helper_[p])'
        OBVIOUS
      <3>1. PICK g \in Helpers : g = helper_'[p]
        OBVIOUS
      <3>2. life[p] # "free" /\ life[g] # "free" /\ op_[g] = p /\ ~Listed(g)
        <4>1. CASE helper_'[p] = helper_[p]
          BY <1>5, <3>1, <4>1 DEF IInv, HelperLife
        <4>2. CASE helper_'[p] # helper_[p]
          <5>1. p = o /\ helper_[o] = Null /\ g = h
            BY <1>17, <3>1, <4>2
          <5> QED
            BY <1>3, <1>4, <1>18, <5>1, PlacedIsOwned
        <4> QED
          BY <4>1, <4>2
      <3>3. ~Listed(helper_[p])'
        BY <1>1, <3>1, <3>2 DEF Listed, Waiting
      <3> QED
        BY <1>1, <1>9, <2>1, <3>1, <3>2, <3>3 DEF Shared
    <2> QED
      BY <2>3, <2>4, <2>5, <2>6 DEF HelperLife
  <1>23. TopIsPlaced' /\ FinishOpen' /\ Settled'
    <2>1. \A g : Placed(g)' <=> Placed(g)
      BY <1>1, <1>16 DEF Placed
    <2>2. \A u \in Threads : Finishing(u) => op_[fin[u]] \in Ops
      BY FinishingKeeps
    <2>3. FinishOpen'
      <3> SUFFICES ASSUME NEW u \in Threads, Finishing(u), helper_'[op_[fin[u]]] = Null
                   PROVE  Placed(fin[u])
        BY <1>1, <1>16, <2>1 DEF FinishOpen, Placed
      <3>1. helper_[op_[fin[u]]] = Null
        BY <1>3, <1>17, <2>2, Kinds DEF Shared
      <3> QED
        BY <3>1 DEF IInv, FinishOpen
    <2>4. Settled'
      <3> SUFFICES ASSUME NEW u \in Threads, op[u] # Null, Past(u)'
                   PROVE  helper_'[op[u]] # Null
        BY <1>1 DEF Settled
      <3>1. op[u] \in Ops
        BY DEF IInv, Types
      <3>2. helper_[op[u]] # Null => helper_'[op[u]] # Null
        BY <1>3, <1>17, <3>1
      <3>3. CASE u = t
        <4>1. OwnFinish(t) /\ helper[t] # Null
          BY <1>1, <1>3, <1>13, <1>16, <3>3 DEF Past, OwnFinish, Finish
        <4>2. op[t] = o
          BY <4>1 DEF IInv, HelperLife, OwnFinish
        <4> QED
          BY <1>3, <1>17, <3>3, <4>2
      <3>4. CASE u # t
        BY <1>11, <3>2, <3>4 DEF IInv, Settled, Stays
      <3> QED
        BY <3>3, <3>4
    <2> QED
      BY <1>1, <2>1, <2>3, <2>4 DEF IInv, TopIsPlaced
  <1> QED
    BY <1>1, <1>10, <1>12, <1>14, <1>15, <1>19, <1>20, <1>21, <1>22, <1>23, Together DEF Sharing

(* ... and from where its thread, or another one, takes it out.            *)
LEMMA InstallKeeps ==
  ASSUME IInv, NEW t \in Threads, Install(t)
  PROVE  IInv'
  <1> DEFINE l == IF fin[t] = helper[t] THEN "not_valid" ELSE "unwatch2"
  <1>1. /\ pc[t] \in {"install_new", "install_old"}
        /\ pc' = [pc EXCEPT ![t] = l]
        /\ fin' = [fin EXCEPT ![t] = Null]
        /\ UNCHANGED <<hpVars, paVars, next_, elem_, helper_, op_, old_value_, new_value_,
                       node, op, helper, cur, nxt, hidx>>
    BY DEF Install, Goto, helperVars
  <1>2. ControlOf(t) /\ ProtocolOf(t)
    BY DEF IInv, Control, WatchProtocol
  <1>3. hpc[t] = "out" /\ fin[t] \in Helpers /\ fin[t] # Null
    <2>1. hpc[t] \in {"out", "store", "validate", "on_watch", "clear", "contains",
                      "on_is_watched"}
      BY DEF IInv, Types
    <2> QED
      BY <1>1, <1>2, <2>1 DEF IInv, Types, ControlOf, Finish, Calling, Scanning
  <1>4. /\ lst_ = fin[t] => lst_' \in Nodes \cup Ops \cup {Null}
        /\ lst_ # fin[t] => lst_' = lst_
    BY <1>1, <1>3 DEF Install, TopIsMarked, IInv, Types
  <1>5. pc'[t] = l /\ fin'[t] = Null
    BY <1>1 DEF IInv, Types
  <1>6. /\ \A u, s : WatchedBy(u, s)' = WatchedBy(u, s) /\ (Held(u, s)' <=> Held(u, s))
        /\ \A u, s, e : Keeps(u, s, e)' <=> Keeps(u, s, e)
    BY <1>1, WatchesStay DEF hpVars
  <1>7. Elsewhere(t)
    BY <1>1, <1>6 DEF Elsewhere, IInv, Types, hpVars, paVars
  <1>8. Types'
    <2>1. lst_' \in Pointers
      BY <1>4, Kinds DEF IInv, Types, Pointers, Shared
    <2>2. pc' \in [Threads -> PCs]
      BY <1>1 DEF IInv, Types, PCs
    <2> QED
      BY <1>1, <2>1, <2>2 DEF IInv, Types, hpVars, paVars
  <1>9. ControlOf(t)'
    BY <1>1, <1>2, <1>3, <1>5 DEF ControlOf, Calling, Scanning, Finish, hpVars
  <1>10. ProtocolOf(t)'
    <2>1. Held(t, SHORTUSE2) => l = "unwatch2"
      BY <1>1, <1>2, <1>3 DEF ProtocolOf, Foreign
    <2> QED
      BY <1>1, <1>2, <1>3, <1>5, <1>6, <2>1
         DEF ProtocolOf, Calling, Meeting, Foreign, Finish, hpVars, paVars
  <1>11. Sharing'
    <2>1. Owning(t)' = Owning(t)
      BY <1>1, <1>5 DEF Owning, paVars
    <2>2. /\ op_table_'[t] # Null => op'[t] = op_table_'[t] /\ pc'[t] \notin {"announce", "result"}
          /\ ~Finishing(t)'
          /\ Unplaced(t)' => Unplaced(t)
      BY <1>1, <1>3, <1>5 DEF IInv, Owners, paVars, hpVars, Finishing, Foreign, Unplaced,
         OwnFinish, Finish
    <2>3. OwnFinish(t) => lst_' # helper[t] /\ helper_[op[t]] # Null
      <3> SUFFICES ASSUME OwnFinish(t) PROVE lst_' # helper[t] /\ helper_[op[t]] # Null
        OBVIOUS
      <3>1. fin[t] = helper[t] /\ op[t] # Null
        BY <1>2, <1>3 DEF OwnFinish, ControlOf
      <3>2. helper_[op[t]] # Null
        BY <1>1, <3>1 DEF IInv, Settled, Past
      <3>3. lst_' # helper[t]
        BY <1>3, <1>4, <3>1, Kinds DEF Shared
      <3> QED
        BY <3>2, <3>3
    <2>4. op'[t] # Null /\ Past(t)' => Past(t)
      BY <1>1, <1>3, <1>5 DEF Past, OwnFinish, Finish
    <2>5. lst_' \in Helpers => lst_' = lst_
      BY <1>4, Kinds DEF Shared
    <2> QED
      BY <1>1, <1>6, <1>7, <2>1, <2>2, <2>3, <2>4, <2>5, QuietKeeps DEF hpVars, paVars
  <1> QED
    BY <1>1, <1>7, <1>8, <1>9, <1>10, <1>11, Together

-----------------------------------------------------------------------------
(* What is given away                                                      *)

(* A new head of a list: no record and no Helper that was not there twice  *)
(* is there twice.                                                         *)
LEMMA PrependOnce ==
  ASSUME NEW q \in Seq(Elems), NEW e \in Elems, e \in Shared => e \notin Range(q),
         \A i, j \in DOMAIN q : q[i] = q[j] /\ q[i] \in Shared => i = j
  PROVE  /\ <<e>> \o q \in Seq(Elems) /\ <<e>> \o q # <<>>
         /\ Range(<<e>> \o q) = Range(q) \cup {e}
         /\ \A i, j \in DOMAIN (<<e>> \o q) :
              (<<e>> \o q)[i] = (<<e>> \o q)[j] /\ (<<e>> \o q)[i] \in Shared => i = j
  <1> DEFINE r == <<e>> \o q
             n == Len(q)
  <1>0. n \in Nat /\ DOMAIN q = 1 .. n
    OBVIOUS
  <1>1. /\ r \in Seq(Elems) /\ Len(r) = n + 1 /\ r[1] = e
        /\ \A k \in 2 .. (n + 1) : r[k] = q[k - 1]
    <2>1. <<e>> \in Seq(Elems) /\ Len(<<e>>) = 1 /\ <<e>>[1] = e
      OBVIOUS
    <2> QED
      BY <1>0, <2>1, ConcatIndices
  <1>2. DOMAIN r = 1 .. (n + 1)
    BY <1>0, <1>1
  <1>3. r # <<>>
    BY <1>0, <1>1
  <1> HIDE DEF r, n
  <1>4. \A k \in 1 .. n : q[k] \in Range(q)
    BY <1>0 DEF Range
  <1>5. \A k \in 1 .. (n + 1) : k # 1 => k \in 2 .. (n + 1) /\ k - 1 \in 1 .. n
    BY <1>0
  <1>6. ASSUME NEW j \in 1 .. (n + 1), NEW k \in 1 .. (n + 1), r[j] = r[k], r[j] \in Shared
        PROVE  j = k
    <2>1. CASE j = 1 \/ k = 1
      BY <1>1, <1>4, <1>5, <1>6, <2>1
    <2>2. CASE j # 1 /\ k # 1
      <3>1. q[j - 1] = q[k - 1] /\ j - 1 \in 1 .. n /\ k - 1 \in 1 .. n /\ q[j - 1] \in Shared
        BY <1>1, <1>5, <1>6, <2>2
      <3>2. j - 1 = k - 1
        BY <1>0, <3>1
      <3> QED
        BY <1>0, <3>2
    <2> QED
      BY <2>1, <2>2
  <1>7. \A k \in 1 .. n : q[k] \in Range(r)
    <2> SUFFICES ASSUME NEW k \in 1 .. n PROVE q[k] \in Range(r)
      OBVIOUS
    <2>1. k + 1 \in 2 .. (n + 1) /\ (k + 1) - 1 = k /\ k + 1 \in 1 .. (n + 1)
      BY <1>0
    <2> QED
      BY <1>1, <1>2, <2>1 DEF Range
  <1>8. 1 \in 1 .. (n + 1)
    BY <1>0
  <1>9. \A k \in 1 .. (n + 1) : r[k] \in Range(q) \cup {e}
    BY <1>1, <1>4, <1>5
  <1>10. Range(r) = Range(q) \cup {e}
    <2>1. Range(r) \subseteq Range(q) \cup {e}
      BY <1>2, <1>9 DEF Range
    <2>2. e \in Range(r)
      BY <1>1, <1>2, <1>8 DEF Range
    <2>3. Range(q) \subseteq Range(r)
      BY <1>0, <1>7 DEF Range
    <2> QED
      BY <2>1, <2>2, <2>3
  <1> QED
    BY <1>1, <1>2, <1>3, <1>6, <1>10 DEF r, n

(* A node, a Helper or a record is passed to safe_delete: its thread had   *)
(* it for itself.                                                          *)
LEMMA GivenKeeps ==
  ASSUME IInv, NEW t \in Threads, NEW e \in Elems, SafeDelete(t, e), NEW l \in PCs,
         \/ pc[t] \in {"value", "not_valid"} /\ l = "unwatch" /\ op' = op
         \/ pc[t] = "result" /\ l = "return" /\ op' = [op EXCEPT ![t] = Null],
         pc' = [pc EXCEPT ![t] = l],
         helper' = [helper EXCEPT ![t] = Null],
         UNCHANGED <<op_table_, help_id, lst_, next_, elem_, helper_, op_, old_value_,
                     new_value_, node, cur, nxt, fin, hidx>>,
         e \in Shared => /\ ~Listed(e) /\ life[e] # "free"
                         /\ e \in Ops => helper_[e] # Null
                         /\ \A u \in Threads : Owning(u)' # e
                         /\ \A u \in Threads : u # t => helper[u] # e
                         /\ \A o \in Ops : helper_[o] = e => Gone(o)
  PROVE  IInv'
  <1> DEFINE q == element_list[t]
             r == <<e>> \o q
  <1>1. /\ hpc[t] = "out"
        /\ element_list' = [element_list EXCEPT ![t] = r]
        /\ pos' = [pos EXCEPT ![t] = Position(2, r)]
        /\ idx' = [idx EXCEPT ![t] = 0]
        /\ hpc' = [hpc EXCEPT ![t] = "contains"]
        /\ UNCHANGED <<life, watches, slot, elem, leaving, granted>>
    BY DEF SafeDelete, GoTo, AddToUnsafe
  <1>2. ControlOf(t) /\ ProtocolOf(t)
    BY DEF IInv, Control, WatchProtocol
  <1>3. q \in Seq(Elems) /\ (e \in Shared => e \notin Range(q))
    BY DEF IInv, Types, Listed, Waiting
  <1>4. /\ r \in Seq(Elems) /\ r # <<>>
        /\ Range(r) = Range(q) \cup {e}
        /\ \A i, j \in DOMAIN r : r[i] = r[j] /\ r[i] \in Shared => i = j
    <2>1. \A i, j \in DOMAIN q : q[i] = q[j] /\ q[i] \in Shared => i = j
      BY DEF IInv, Lists
    <2>2. /\ r \in Seq(Elems) /\ r # <<>> /\ Range(r) = Range(q) \cup {e}
          /\ \A i, j \in DOMAIN r : r[i] = r[j] /\ r[i] \in Shared => i = j
      <3> HIDE DEF q
      <3> QED
        BY <1>3, <2>1, PrependOnce, Zenon
    <2> QED
      BY <2>2
  <1> HIDE DEF r
  <1>5. Position(2, r) \in 1 .. Len(r) /\ Position(2, r) \in Nat
    BY <1>4, PositionInRange
  <1>6. /\ element_list'[t] = r /\ pos'[t] = Position(2, r) /\ idx'[t] = 0
        /\ hpc'[t] = "contains" /\ pc'[t] = l /\ helper'[t] = Null
        /\ op'[t] = IF l = "unwatch" THEN op[t] ELSE Null
    BY <1>1 DEF IInv, Types
  <1>7. /\ \A u, s : WatchedBy(u, s)' = WatchedBy(u, s) /\ (Held(u, s)' <=> Held(u, s))
        /\ \A u, s, p : Keeps(u, s, p)' <=> Keeps(u, s, p)
    BY <1>1, WatchesStay
  <1>8. Elsewhere(t)
    BY <1>1, <1>7 DEF Elsewhere, IInv, Types
  <1>9. \A u \in Threads : u # t => Stays(u)
    BY <1>8, OthersStay
  <1>10. helper[t] = Null \/ pc[t] = "not_valid"
    BY <1>2 DEF ControlOf
  <1>11. Types'
    <2>1. element_list' \in [Threads -> Seq(Elems)]
      BY <1>1, <1>4 DEF IInv, Types
    <2>2. pos' \in [Threads -> Nat] /\ idx' \in [Threads -> 0 .. (NumSlots - 1)]
      BY <1>1, <1>5, NumSlotsPositive DEF IInv, Types
    <2>3. /\ hpc' \in [Threads -> {"out", "store", "validate", "on_watch", "clear",
                                 "contains", "on_is_watched"}]
          /\ pc' \in [Threads -> PCs]
          /\ helper' \in [Threads -> Helpers \cup {Null}]
          /\ op' \in [Threads -> Ops \cup {Null}]
      BY <1>1 DEF IInv, Types
    <2> QED
      BY <1>1, <2>1, <2>2, <2>3 DEF IInv, Types
  <1>12. ControlOf(t)'
    BY <1>1, <1>2, <1>5, <1>6 DEF ControlOf, Calling, Scanning, Finish
  <1>13. ProtocolOf(t)'
    BY <1>1, <1>2, <1>6, <1>7 DEF ProtocolOf, ControlOf, Calling, Meeting, Foreign, Finish
  <1>14. /\ Waiting(t)' = Waiting(t) \cup {e}
         /\ \A u \in Threads : u # t => Waiting(u)' = Waiting(u)
         /\ \A p : Listed(p)' <=> Listed(p) \/ p = e
    <2>1. Waiting(t)' = Waiting(t) \cup {e}
      BY <1>4, <1>6 DEF Waiting
    <2>2. \A u \in Threads : u # t => Waiting(u)' = Waiting(u)
      BY <1>9 DEF Stays
    <2> QED
      BY <2>1, <2>2 DEF Listed
  <1>15. \A o : Gone(o)' <=> Gone(o)
    BY <1>1, <1>6, <1>9 DEF Gone, Stays
  <1>16. /\ ~OwnFinish(t) /\ ~OwnFinish(t)' /\ ~Unplaced(t)' /\ ~Finishing(t)'
         /\ \A h : Placed(h)' <=> Placed(h)
    <2>1. ~OwnFinish(t) /\ ~OwnFinish(t)' /\ ~Unplaced(t)' /\ ~Finishing(t)'
      BY <1>6 DEF OwnFinish, Finish, Unplaced, Finishing, Foreign
    <2> QED
      BY <1>9, <2>1 DEF Placed, Stays
  <1>17. Owners'
    <2>1. op_table_[t] # Null => l = "unwatch" /\ op[t] = op_table_[t]
      BY DEF IInv, Owners
    <2>2. Owning(t)' \in {Null, Owning(t)} /\ (l = "unwatch" => Owning(t)' = Owning(t))
      BY <1>6, <2>1 DEF Owning
    <2>3. \A u \in Threads : u # t =>
            /\ Owning(u)' = Owning(u) /\ op'[u] = op[u] /\ pc'[u] = pc[u]
            /\ op_table_'[u] = op_table_[u]
      BY <1>9 DEF Stays
    <2>4. \A u \in Threads : Owning(u) # Null => Owning(u) \in Shared
      BY DEF Owning, IInv, Types, Shared
    <2>5. \A u \in Threads : op_table_'[u] # Null =>
            op'[u] = op_table_'[u] /\ pc'[u] \notin {"announce", "result"}
      BY <1>6, <2>1, <2>3 DEF IInv, Owners
    <2>6. \A u \in Threads : Owning(u)' # Null =>
            /\ life'[Owning(u)'] # "free" /\ ~Listed(Owning(u))'
            /\ \A w \in Threads : Owning(w)' = Owning(u)' => w = u
      <3> SUFFICES ASSUME NEW u \in Threads, Owning(u)' # Null
                   PROVE  /\ life'[Owning(u)'] # "free" /\ ~Listed(Owning(u))'
                          /\ \A w \in Threads : Owning(w)' = Owning(u)' => w = u
        OBVIOUS
      <3>1. Owning(u)' = Owning(u) /\ Owning(u)' # e
        BY <2>2, <2>3, <2>4
      <3>2. ~Listed(Owning(u)) /\ life[Owning(u)] # "free"
        BY <3>1 DEF IInv, Owners
      <3>3. ~Listed(Owning(u))'
        <4>1. \A w \in Threads : Owning(u) \notin Waiting(w)
          BY <3>2 DEF Listed
        <4>2. \A w \in Threads : Owning(u)' \notin Waiting(w)'
          BY <1>14, <3>1, <4>1
        <4> QED
          BY <4>2 DEF Listed
      <3>4. \A w \in Threads : Owning(w)' = Owning(u)' => w = u
        BY <2>2, <2>3, <3>1 DEF IInv, Owners
      <3> QED
        BY <1>1, <3>1, <3>2, <3>3, <3>4
    <2>7. \A u \in Threads : op'[u] # Null /\ op'[u] # Owning(u)' => Keeps(u, PROG_ASSUR, op[u])'
      <3> SUFFICES ASSUME NEW u \in Threads, op'[u] # Null, op'[u] # Owning(u)'
                   PROVE  Keeps(u, PROG_ASSUR, op[u])'
        OBVIOUS
      <3>1. op'[u] = op[u] /\ Owning(u)' = Owning(u)
        BY <1>6, <2>2, <2>3
      <3>2. Keeps(u, PROG_ASSUR, op'[u])
        BY <3>1 DEF IInv, Owners
      <3> QED
        BY <1>7, <3>1, <3>2 DEF Keeps
    <2> QED
      BY <2>5, <2>6, <2>7 DEF Owners
  <1>18. HeldIsNotFree' /\ ScanMissesNoGrant' /\ StrongWatch'
    <2>1. HeldIsNotFree'
      BY <1>1, <1>7 DEF IInv, HeldIsNotFree
    <2>2. \A u \in Threads : u # t =>
            /\ hpc'[u] = hpc[u] /\ idx'[u] = idx[u] /\ hidx'[u] = hidx[u]
            /\ Scanned(u)' = Scanned(u) /\ (Scanning(u)' <=> Scanning(u))
      BY <1>9 DEF Stays
    <2>3. \A u \in Threads, s \in Slots : GetSlot(u, s) \in Nat /\ 0 <= GetSlot(u, s)
      BY GetSlotRange, NumSlotsPositive
    <2>4. ScanMissesNoGrant'
      BY <1>6, <1>7, <2>2, <2>3 DEF IInv, ScanMissesNoGrant
    <2>5. StrongWatch'
      BY <1>6, <1>7, <2>2 DEF IInv, StrongWatch
    <2> QED
      BY <2>1, <2>4, <2>5
  <1>19. Lists'
    <2>1. \A u \in Threads : u # t => element_list'[u] = element_list[u]
      BY <1>9 DEF Stays
    <2>2. \A u \in Threads : \A i, j \in DOMAIN element_list'[u] :
            element_list'[u][i] = element_list'[u][j] /\ element_list'[u][i] \in Shared => i = j
      BY <1>4, <1>6, <2>1 DEF IInv, Lists
    <2>3. \A u, w \in Threads : \A p \in Shared : p \in Waiting(u)' /\ p \in Waiting(w)' => u = w
      <3> SUFFICES ASSUME NEW u \in Threads, NEW w \in Threads, NEW p \in Shared,
                          p \in Waiting(u)', p \in Waiting(w)'
                   PROVE  u = w
        OBVIOUS
      <3>1. CASE p = e
        <4>1. \A v \in Threads : p \notin Waiting(v)
          BY <3>1 DEF Listed
        <4> QED
          BY <1>14, <4>1
      <3>2. CASE p # e
        <4>1. p \in Waiting(u) /\ p \in Waiting(w)
          BY <1>14, <3>2
        <4> QED
          BY <4>1 DEF IInv, Lists
      <3> QED
        BY <3>1, <3>2
    <2>4. /\ \A p \in Shared : Listed(p)' => life'[p] # "free"
          /\ \A o \in Ops : Listed(o)' => helper_'[o] # Null
      BY <1>1, <1>14 DEF IInv, Lists, Shared
    <2>5. \A u \in Threads : helper'[u] # Null => ~Listed(helper[u])'
      <3> SUFFICES ASSUME NEW u \in Threads, helper'[u] # Null PROVE ~Listed(helper[u])'
        OBVIOUS
      <3>1. u # t /\ helper'[u] = helper[u] /\ helper[u] \in Shared
        BY <1>6, <1>9 DEF Stays, IInv, Types, Shared
      <3>2. \A w \in Threads : helper[u] \notin Waiting(w) /\ helper[u] # e
        BY <3>1 DEF IInv, Lists, Listed
      <3>3. \A w \in Threads : helper'[u] \notin Waiting(w)'
        BY <1>14, <3>1, <3>2
      <3> QED
        BY <3>3 DEF Listed
    <2> QED
      BY <2>2, <2>3, <2>4, <2>5 DEF Lists
  <1>20. HelperLife'
    <2>1. \A h \in Helpers : life'[h] # "free" => op_'[h] # Null
      BY <1>1 DEF IInv, HelperLife
    <2>2. \A u \in Threads : u # t => helper'[u] = helper[u] /\ op'[u] = op[u]
      BY <1>9 DEF Stays
    <2>3. \A u \in Threads : helper'[u] # Null =>
            /\ life'[helper'[u]] # "free" /\ op_'[helper'[u]] = op'[u]
            /\ \A w \in Threads : helper'[w] = helper'[u] => w = u
      BY <1>1, <1>6, <2>2 DEF IInv, HelperLife
    <2>4. \A u \in Threads : Unplaced(u)' =>
            /\ \A o \in Ops : helper_'[o] = helper'[u] => Gone(o)'
            /\ \A w \in Threads : ~Keeps(w, SHORTUSE, helper[u])'
      <3> SUFFICES ASSUME NEW u \in Threads, Unplaced(u)'
                   PROVE  /\ \A o \in Ops : helper_'[o] = helper'[u] => Gone(o)'
                          /\ \A w \in Threads : ~Keeps(w, SHORTUSE, helper[u])'
        OBVIOUS
      <3>1. Unplaced(u) /\ helper'[u] = helper[u]
        BY <1>9, <1>16 DEF Stays
      <3>2. \A w \in Threads : ~Keeps(w, SHORTUSE, helper'[u])
        BY <3>1 DEF IInv, HelperLife
      <3> QED
        BY <1>7, <1>15, <3>1, <3>2 DEF IInv, HelperLife, Keeps
    <2>5. \A o \in Ops : helper_'[o] \in Helpers /\ ~Gone(o)' =>
            /\ life'[o] # "free" /\ life'[helper_'[o]] # "free"
            /\ op_'[helper_'[o]] = o /\ ~Listed(helper_[o])'
      <3> SUFFICES ASSUME NEW o \in Ops, helper_[o] \in Helpers, ~Gone(o)
                   PROVE  /\ life[o] # "free" /\ life[helper_[o]] # "free"
                          /\ op_[helper_[o]] = o /\ ~Listed(helper_[o])'
        BY <1>1, <1>15
      <3>1. /\ life[o] # "free" /\ life[helper_[o]] # "free"
            /\ op_[helper_[o]] = o /\ ~Listed(helper_[o])
        BY DEF IInv, HelperLife
      <3>2. helper_[o] # e
        BY DEF Shared
      <3>3. \A w \in Threads : helper_'[o] \notin Waiting(w)'
        BY <1>14, <3>1, <3>2 DEF Listed
      <3> QED
        BY <3>1, <3>3 DEF Listed
    <2> QED
      BY <2>1, <2>3, <2>4, <2>5 DEF HelperLife
  <1>21. TopIsPlaced' /\ FinishOpen' /\ Settled'
    <2>1. \A u \in Threads : Finishing(u)' => u # t /\ Finishing(u) /\ fin'[u] = fin[u]
      BY <1>9, <1>16 DEF Stays
    <2>2. FinishOpen'
      BY <1>16, <2>1 DEF IInv, FinishOpen
    <2>3. op'[t] # Null => Past(t) /\ op'[t] = op[t]
      BY <1>2, <1>6 DEF Past, ControlOf
    <2>4. Settled'
      BY <1>9, <2>3 DEF IInv, Settled, Stays
    <2> QED
      BY <1>16, <2>2, <2>4 DEF IInv, TopIsPlaced
  <1> QED
    BY <1>8, <1>11, <1>12, <1>13, <1>17, <1>18, <1>19, <1>20, <1>21, Together DEF Sharing

LEMMA ValueKeeps ==
  ASSUME IInv, NEW t \in Threads, Value(t)
  PROVE  IInv'
  <1>1. /\ pc[t] = "value" /\ SafeDelete(t, cur[t])
        /\ pc' = [pc EXCEPT ![t] = "unwatch"]
        /\ UNCHANGED <<paVars, memVars, node, op, helper, cur, nxt, fin, hidx>>
    BY DEF Value, At, Goto
  <1>2. cur[t] \in Nodes /\ helper[t] = Null
    BY <1>1 DEF IInv, Types, Control, ControlOf
  <1>3. cur[t] \in Elems /\ cur[t] \notin Shared
    BY <1>2, Kinds DEF Shared
  <1>4. helper' = [helper EXCEPT ![t] = Null]
    BY <1>1, <1>2 DEF IInv, Types
  <1>5. "unwatch" \in PCs
    BY DEF PCs
  <1> QED
    BY <1>1, <1>3, <1>4, <1>5, GivenKeeps DEF paVars, memVars, helperVars

LEMMA ResultKeeps ==
  ASSUME IInv, NEW t \in Threads, Result(t)
  PROVE  IInv'
  <1> DEFINE o == op[t]
  <1>1. /\ pc[t] = "result" /\ SafeDelete(t, o)
        /\ pc' = [pc EXCEPT ![t] = "return"]
        /\ op' = [op EXCEPT ![t] = Null]
        /\ UNCHANGED <<paVars, memVars, node, helper, cur, nxt, fin, hidx>>
    BY DEF Result, At, Goto
  <1>2. o \in Ops /\ o # Null /\ helper[t] = Null /\ op_table_[t] = Null
    BY <1>1 DEF IInv, Types, Control, ControlOf, Owners
  <1>3. o \in Elems /\ o \in Shared /\ o \notin Helpers
    BY <1>2, Kinds DEF Shared
  <1>4. Owning(t) = o
    BY <1>1, <1>2 DEF Owning
  <1>5. ~Listed(o) /\ life[o] # "free" /\ \A u \in Threads : Owning(u) = o => u = t
    BY <1>2, <1>4 DEF IInv, Owners
  <1>6. helper_[o] # Null
    BY <1>1, <1>2 DEF IInv, Settled, Past
  <1>7. \A u \in Threads : Owning(u)' # o
    <2>1. Owning(t)' = Null
      BY <1>1, <1>2 DEF Owning, paVars, IInv, Types
    <2>2. \A u \in Threads : u # t => Owning(u)' = Owning(u)
      BY <1>1 DEF Owning, paVars, IInv, Types
    <2> QED
      BY <1>2, <1>5, <2>1, <2>2
  <1>8. \A u \in Threads : helper[u] # o
    BY <1>2, <1>3 DEF IInv, Types
  <1>9. \A p \in Ops : helper_[p] # o
    <2>1. o \in Pointers
      BY <1>3 DEF Pointers
    <2> QED
      BY <1>2, <1>3, <2>1, FailAssumption DEF IInv, Types
  <1>10. helper' = [helper EXCEPT ![t] = Null]
    BY <1>1, <1>2 DEF IInv, Types
  <1>11. "return" \in PCs
    BY DEF PCs
  <1> QED
    BY <1>1, <1>3, <1>5, <1>6, <1>7, <1>8, <1>9, <1>10, <1>11, GivenKeeps
       DEF paVars, memVars, helperVars

(* The Helper of another record's thread is deleted with that record.      *)
LEMMA NotValidKeeps ==
  ASSUME IInv, NEW t \in Threads, NotValid(t)
  PROVE  IInv'
  <1> DEFINE h == helper[t]
  <1>1. /\ hpc[t] = "out" /\ pc[t] = "not_valid"
        /\ pc' = [pc EXCEPT ![t] = "unwatch"]
        /\ helper' = [helper EXCEPT ![t] = Null]
        /\ UNCHANGED <<paVars, memVars, node, op, cur, nxt, fin, hidx>>
    BY DEF NotValid, At, Goto
  <1>2. ControlOf(t) /\ ProtocolOf(t)
    BY DEF IInv, Control, WatchProtocol
  <1>3. h \in Helpers /\ h # Null /\ h \in Elems /\ h \in Shared /\ h \notin Ops /\ op[t] \in Ops
    BY <1>1, <1>2, Kinds DEF IInv, Types, ControlOf, Shared
  <1>4. /\ ~Listed(h) /\ life[h] # "free" /\ op_[h] = op[t]
        /\ \A u \in Threads : u # t => helper[u] # h
    BY <1>3 DEF IInv, Lists, HelperLife
  <1>5. "unwatch" \in PCs
    BY DEF PCs
  <1>6. CASE helper_[op[t]] # h
    <2>1. SafeDelete(t, h)
      BY <1>6 DEF NotValid
    <2>2. \A u \in Threads : Owning(u)' # h
      <3>1. \A u \in Threads : Owning(u)' \in {op_table_[u], op[u], Null}
        BY <1>1 DEF Owning, paVars
      <3> QED
        BY <1>3, <3>1 DEF IInv, Types
    <2>3. \A o \in Ops : helper_[o] = h => Gone(o)
      BY <1>3, <1>4, <1>6 DEF IInv, HelperLife
    <2> QED
      BY <1>1, <1>3, <1>4, <1>5, <2>1, <2>2, <2>3, GivenKeeps DEF paVars, memVars, helperVars
  <1>7. CASE helper_[op[t]] = h
    <2>1. UNCHANGED hpVars
      BY <1>7 DEF NotValid
    <2>2. /\ \A u, s : WatchedBy(u, s)' = WatchedBy(u, s) /\ (Held(u, s)' <=> Held(u, s))
          /\ \A u, s, e : Keeps(u, s, e)' <=> Keeps(u, s, e)
      BY <2>1, WatchesStay DEF hpVars
    <2>3. Elsewhere(t)
      BY <1>1, <2>1, <2>2 DEF Elsewhere, IInv, Types, hpVars, paVars
    <2>4. Types'
      BY <1>1, <2>1 DEF IInv, Types, PCs, hpVars, paVars, memVars, helperVars
    <2>5. pc'[t] = "unwatch" /\ helper'[t] = Null
      BY <1>1 DEF IInv, Types
    <2>6. ControlOf(t)'
      BY <1>1, <1>2, <2>1, <2>5 DEF ControlOf, Calling, Scanning, Finish, hpVars
    <2>7. ProtocolOf(t)'
      BY <1>1, <1>2, <2>1, <2>2, <2>5
         DEF ProtocolOf, Calling, Meeting, Foreign, Finish, hpVars, paVars
    <2>8. Sharing'
      <3>1. /\ Owning(t)' = Owning(t)
            /\ op_table_'[t] # Null =>
                 op'[t] = op_table_'[t] /\ pc'[t] \notin {"announce", "result"}
            /\ ~OwnFinish(t) /\ ~Unplaced(t)' /\ ~Finishing(t)' /\ Past(t)
        BY <1>1, <2>1, <2>5 DEF Owning, IInv, Owners, paVars, OwnFinish, Unplaced, Finishing,
           Foreign, Finish, Past, hpVars
      <3> QED
        BY <1>1, <2>1, <2>2, <2>3, <2>5, <3>1, QuietKeeps DEF hpVars, paVars, memVars, helperVars
    <2> QED
      BY <1>1, <2>3, <2>4, <2>6, <2>7, <2>8, Together DEF memVars, helperVars
  <1> QED
    BY <1>6, <1>7

-----------------------------------------------------------------------------
(* The scan of the table                                                   *)

(* The scan of thread t goes on, or ends, and nothing else happens.        *)
LEMMA ScanMoves ==
  ASSUME IInv, NEW t \in Threads, Scanning(t), Elsewhere(t),
         UNCHANGED <<life, watches, element_list, slot, elem, leaving, granted, paVars, memVars,
                     pc, node, op, helper, cur, nxt, fin>>,
         hpc'[t] \in {"out", "contains", "on_is_watched"},
         ~(hpc[t] = "on_is_watched" /\ hidx[t] = NumSlots),
         ~(hpc'[t] = "on_is_watched" /\ hidx'[t] = NumSlots),
         Scanning(t)' => \A u \in Threads, s \in Slots :
           Keeps(u, s, Scanned(t)') => hpc'[t] = "contains" /\ idx'[t] <= GetSlot(u, s),
         hpc'[t] = "on_is_watched" /\ Scanned(t)' \in Ops /\ hidx'[t] < NumSlots =>
           \A u \in Threads :
             Keeps(u, SHORTUSE, helper_[Scanned(t)']) => hidx'[t] <= GetSlot(u, SHORTUSE),
         Types', ControlOf(t)'
  PROVE  IInv'
  <1>1. /\ \A u, s : WatchedBy(u, s)' = WatchedBy(u, s) /\ (Held(u, s)' <=> Held(u, s))
        /\ \A u, s, e : Keeps(u, s, e)' <=> Keeps(u, s, e)
        /\ \A u \in Threads : Waiting(u)' = Waiting(u)
        /\ \A e : Listed(e)' <=> Listed(e)
    BY WatchesStay, ListsStay
  <1>2. \A u \in Threads : u # t => Stays(u)
    BY OthersStay
  <1>3. ControlOf(t) /\ ProtocolOf(t)
    BY DEF IInv, Control, WatchProtocol
  <1>4. pc[t] \in {"unwatch", "return"} /\ pc'[t] = pc[t] /\ hpc[t] # "on_watch"
    BY <1>3 DEF ControlOf, Scanning
  <1>5. ProtocolOf(t)'
    BY <1>1, <1>3, <1>4 DEF ProtocolOf, Calling, Meeting, Foreign, Finish, paVars
  <1>6. \A o : Gone(o)' <=> Gone(o)
    BY <1>2 DEF Gone, Stays
  <1>7. /\ \A u \in Threads : Owning(u)' = Owning(u)
        /\ \A u \in Threads : OwnFinish(u)' <=> OwnFinish(u)
        /\ \A u \in Threads : Unplaced(u)' <=> Unplaced(u)
        /\ \A u \in Threads : Past(u)' <=> Past(u)
        /\ \A h : Placed(h)' <=> Placed(h)
    BY DEF Owning, OwnFinish, Unplaced, Past, Placed, paVars
  <1>8. \A u \in Threads : Finishing(u)' <=> Finishing(u)
    <2>1. Finishing(t)' <=> Finishing(t)
      BY <1>4 DEF Finishing, Foreign
    <2> QED
      BY <1>2, <2>1 DEF Stays
  <1>9. Owners'
    <2>1. \A u \in Threads : Keeps(u, PROG_ASSUR, op[u])' <=> Keeps(u, PROG_ASSUR, op[u])
      BY <1>1 DEF Keeps
    <2>2. \A u \in Threads : Listed(Owning(u))' <=> Listed(Owning(u))
      BY <1>1, <1>7 DEF Listed
    <2> QED
      BY <1>7, <2>1, <2>2 DEF IInv, Owners, paVars
  <1>10. HeldIsNotFree'
    BY <1>1 DEF IInv, HeldIsNotFree
  <1>11. \A u \in Threads : u # t =>
           /\ hpc'[u] = hpc[u] /\ idx'[u] = idx[u] /\ hidx'[u] = hidx[u]
           /\ Scanned(u)' = Scanned(u) /\ (Scanning(u)' <=> Scanning(u))
    BY <1>2 DEF Stays
  <1>12. ScanMissesNoGrant'
    <2> SUFFICES ASSUME NEW u \in Threads, Scanning(u)', NEW w \in Threads, NEW s \in Slots,
                        Keeps(w, s, Scanned(u))'
                 PROVE  hpc'[u] = "contains" /\ idx'[u] <= GetSlot(w, s)
      BY DEF ScanMissesNoGrant
    <2>1. Keeps(w, s, Scanned(u)')
      BY <1>1 DEF Keeps
    <2> QED
      BY <1>11, <2>1 DEF IInv, ScanMissesNoGrant
  <1>13. StrongWatch'
    <2> SUFFICES ASSUME NEW u \in Threads, hpc'[u] = "on_is_watched", Scanned(u)' \in Ops,
                        hidx'[u] < NumSlots, NEW w \in Threads,
                        Keeps(w, SHORTUSE, helper_[Scanned(u)])'
                 PROVE  hidx'[u] <= GetSlot(w, SHORTUSE)
      BY DEF StrongWatch
    <2>1. Keeps(w, SHORTUSE, helper_[Scanned(u)'])
      BY <1>1 DEF Keeps, memVars
    <2> QED
      BY <1>11, <2>1 DEF IInv, StrongWatch
  <1>14. Lists'
    BY <1>1 DEF IInv, Lists, memVars, Listed
  <1>15. HelperLife'
    <2>1. \A u \in Threads : \A h : Keeps(u, SHORTUSE, h)' <=> Keeps(u, SHORTUSE, h)
      BY <1>1
    <2>2. \A u \in Threads : Unplaced(u)' =>
            /\ \A o \in Ops : helper_'[o] = helper'[u] => Gone(o)'
            /\ \A w \in Threads : ~Keeps(w, SHORTUSE, helper[u])'
      BY <1>1, <1>6, <1>7 DEF IInv, HelperLife, memVars, Keeps
    <2>3. \A o \in Ops : helper_'[o] \in Helpers /\ ~Gone(o)' =>
            /\ life'[o] # "free" /\ life'[helper_'[o]] # "free"
            /\ op_'[helper_'[o]] = o /\ ~Listed(helper_[o])'
      BY <1>6 DEF IInv, HelperLife, memVars, helperVars, Listed, Waiting
    <2> QED
      BY <2>2, <2>3 DEF IInv, HelperLife, memVars, helperVars
  <1>16. TopIsPlaced' /\ FinishOpen' /\ Settled'
    <2>1. TopIsPlaced'
      BY <1>7 DEF IInv, TopIsPlaced, memVars, Placed
    <2>2. FinishOpen'
      BY <1>7, <1>8 DEF IInv, FinishOpen, memVars, helperVars, Placed
    <2>3. Settled'
      BY <1>7 DEF IInv, Settled, memVars
    <2> QED
      BY <2>1, <2>2, <2>3
  <1> QED
    BY <1>5, <1>9, <1>10, <1>12, <1>13, <1>14, <1>15, <1>16, Together
       DEF Sharing, memVars, helperVars

(* What is scanned is kept: it is somebody's.                              *)
LEMMA KeepKeeps ==
  ASSUME IInv, NEW t \in Threads, Scanning(t), Keep(t),
         hidx' = [hidx EXCEPT ![t] = 0], ~(hpc[t] = "on_is_watched" /\ hidx[t] = NumSlots),
         UNCHANGED <<watches, slot, elem, leaving, granted, paVars, memVars,
                     pc, node, op, helper, cur, nxt, fin>>
  PROVE  IInv'
  <1> DEFINE q == element_list[t]
             k == Position(pos[t] + 1, q)
  <1>1. ControlOf(t)
    BY DEF IInv, Control
  <1>2. /\ pos[t] \in 1 .. Len(q) /\ q \in Seq(Elems)
        /\ pc[t] \in {"unwatch", "return"}
    BY <1>1 DEF IInv, Types, ControlOf
  <1>3. q # <<>> /\ pos[t] + 1 \in Nat \ {0} /\ pos[t] + 1 \in Nat
    BY <1>2
  <1>4. k \in 1 .. Len(q) /\ k \in Nat
    BY <1>2, <1>3, PositionInRange
  <1> HIDE DEF k
  <1>5. /\ UNCHANGED <<life, element_list>>
        /\ idx' = [idx EXCEPT ![t] = 0]
        /\ \/ /\ hpc' = [hpc EXCEPT ![t] = "out"]
              /\ pos' = [pos EXCEPT ![t] = 0]
           \/ /\ hpc' = [hpc EXCEPT ![t] = "contains"]
              /\ pos' = [pos EXCEPT ![t] = k]
    BY DEF Keep, Leave, GoTo, AfterScan, IInv, Types, k
  <1>6. /\ idx'[t] = 0 /\ hidx'[t] = 0 /\ hpc'[t] \in {"out", "contains"}
        /\ hpc'[t] = "contains" => pos'[t] \in 1 .. Len(q)
    BY <1>4, <1>5 DEF IInv, Types
  <1>7. \A u, s : WatchedBy(u, s)' = WatchedBy(u, s) /\ (Held(u, s)' <=> Held(u, s))
    BY <1>5, WatchesStay
  <1>8. Elsewhere(t)
    BY <1>5, <1>7 DEF Elsewhere, IInv, Types, paVars
  <1>9. Types'
    <2>1. pos' \in [Threads -> Nat]
      <3>1. pos \in [Threads -> Nat] /\ 0 \in Nat
        BY DEF IInv, Types
      <3>2. pos' = [pos EXCEPT ![t] = 0] \/ pos' = [pos EXCEPT ![t] = k]
        BY <1>5
      <3> QED
        BY <1>4, <3>1, <3>2
    <2>a. idx' \in [Threads -> 0 .. (NumSlots - 1)]
      BY <1>5, NumSlotsPositive DEF IInv, Types
    <2>b. hidx' \in [Threads -> 0 .. NumSlots]
      <3>1. 0 \in 0 .. NumSlots
        BY NumSlotsPositive
      <3> QED
        BY <3>1 DEF IInv, Types
    <2>2. hpc' \in [Threads -> {"out", "store", "validate", "on_watch", "clear",
                               "contains", "on_is_watched"}]
      BY <1>5 DEF IInv, Types
    <2> QED
      BY <1>5, <2>1, <2>2, <2>a, <2>b DEF IInv, Types, paVars, memVars, helperVars
  <1>10. ControlOf(t)'
    BY <1>1, <1>2, <1>5, <1>6 DEF ControlOf, Calling, Scanning, Finish
  <1>11. \A u \in Threads, s \in Slots : 0 <= GetSlot(u, s)
    BY GetSlotRange, NumSlotsPositive
  <1>12. hpc'[t] # "on_is_watched" /\ (Scanning(t)' => hpc'[t] = "contains")
    BY <1>6 DEF Scanning
  <1>13. /\ hpc'[t] \in {"out", "contains", "on_is_watched"}
         /\ Scanning(t)' => \A u \in Threads, s \in Slots :
              Keeps(u, s, Scanned(t)') => hpc'[t] = "contains" /\ idx'[t] <= GetSlot(u, s)
    BY <1>6, <1>11, <1>12
  <1> QED
    BY <1>5, <1>8, <1>9, <1>10, <1>12, <1>13, ScanMoves

(* The slot the scan looks at does not hold what it looks for.             *)
LEMMA NextSlot ==
  ASSUME NEW t \in Threads, NEW s \in Slots, NEW e, NEW i \in 0 .. (NumSlots - 1),
         Keeps(t, s, e), watches[i] # e, i <= GetSlot(t, s)
  PROVE  i + 1 <= GetSlot(t, s) /\ i + 1 # NumSlots
  <1>1. GetSlot(t, s) \in 0 .. (NumSlots - 1) /\ NumSlots \in Nat
    BY GetSlotRange, NumSlotsPositive
  <1>2. GetSlot(t, s) # i
    BY DEF Keeps, WatchedBy
  <1> QED
    BY <1>1, <1>2

LEMMA ScanKeeps ==
  ASSUME IInv, NEW t \in Threads, Scan(t)
  PROVE  IInv'
  <1>1. /\ hpc[t] = "contains" /\ ScanSlot(t)
        /\ UNCHANGED <<watches, slot, elem, leaving, granted, paVars, memVars, locals>>
    BY DEF Scan, ScanSlot
  <1>2. Scanning(t) /\ ControlOf(t) /\ hidx[t] = 0
    BY <1>1 DEF Scanning, IInv, Control, ControlOf
  <1>3. NumSlots \in Nat /\ NumSlots # 0 /\ idx[t] \in 0 .. (NumSlots - 1)
    BY NumSlotsPositive DEF IInv, Types
  <1>4. CASE watches[idx[t]] = element_list[t][pos[t]]
    <2>1. Keep(t)
      BY <1>1, <1>4 DEF ScanSlot
    <2>2. hidx' = [hidx EXCEPT ![t] = 0]
      BY <1>1, <1>2 DEF locals, IInv, Types
    <2> QED
      BY <1>1, <1>2, <2>1, <2>2, KeepKeeps DEF locals
  <1>5. CASE watches[idx[t]] # element_list[t][pos[t]]
    <2>1. /\ \/ /\ idx[t] + 1 = NumSlots /\ hpc' = [hpc EXCEPT ![t] = "on_is_watched"]
                /\ idx' = idx
             \/ /\ idx[t] + 1 # NumSlots /\ hpc' = hpc
                /\ idx' = [idx EXCEPT ![t] = idx[t] + 1]
          /\ UNCHANGED <<pos, life, element_list>>
      BY <1>1, <1>5 DEF ScanSlot, LastSlot
    <2>2. \A u, s : WatchedBy(u, s)' = WatchedBy(u, s) /\ (Held(u, s)' <=> Held(u, s))
      BY <1>1, WatchesStay
    <2>3. Elsewhere(t)
      BY <1>1, <2>1, <2>2 DEF Elsewhere, IInv, Types, paVars, locals
    <2>4. Types'
      <3>1. idx' \in [Threads -> 0 .. (NumSlots - 1)]
        <4>1. idx[t] + 1 # NumSlots => idx[t] + 1 \in 0 .. (NumSlots - 1)
          BY <1>3
        <4>2. idx \in [Threads -> 0 .. (NumSlots - 1)]
          BY DEF IInv, Types
        <4>3. CASE idx' = idx
          BY <4>2, <4>3
        <4>4. CASE idx' # idx
          <5>1. idx[t] + 1 \in 0 .. (NumSlots - 1) /\ idx' = [idx EXCEPT ![t] = idx[t] + 1]
            BY <2>1, <4>1, <4>4
          <5> QED
            BY <4>2, <5>1
        <4> QED
          BY <4>3, <4>4
      <3>2. hpc' \in [Threads -> {"out", "store", "validate", "on_watch", "clear",
                                 "contains", "on_is_watched"}]
        BY <2>1 DEF IInv, Types
      <3> QED
        BY <1>1, <2>1, <3>1, <3>2 DEF IInv, Types, paVars, memVars, helperVars, locals
    <2>5. hpc'[t] \in {"contains", "on_is_watched"} /\ hidx'[t] = 0
      BY <1>1, <1>2, <2>1 DEF IInv, Types, locals
    <2>6. ControlOf(t)'
      BY <1>1, <1>2, <2>1, <2>5 DEF ControlOf, Calling, Scanning, Finish, locals
    <2>7. Scanned(t)' = Scanned(t) /\ watches[idx[t]] # Scanned(t)
      BY <1>5, <2>1 DEF Scanned
    <2>8. \A u \in Threads, s \in Slots :
            Keeps(u, s, Scanned(t)') => hpc'[t] = "contains" /\ idx'[t] <= GetSlot(u, s)
      <3> SUFFICES ASSUME NEW u \in Threads, NEW s \in Slots, Keeps(u, s, Scanned(t))
                   PROVE  hpc'[t] = "contains" /\ idx'[t] <= GetSlot(u, s)
        BY <2>7
      <3>1. idx[t] <= GetSlot(u, s)
        BY <1>2 DEF IInv, ScanMissesNoGrant
      <3>2. idx[t] + 1 <= GetSlot(u, s) /\ idx[t] + 1 # NumSlots
        BY <1>3, <2>7, <3>1, NextSlot
      <3> QED
        BY <1>1, <2>1, <3>2 DEF IInv, Types
    <2>9. \A u \in Threads : 0 <= GetSlot(u, SHORTUSE)
      BY GetSlotRange, SlotKinds, NumSlotsPositive
    <2> QED
      BY <1>1, <1>2, <1>3, <2>1, <2>3, <2>4, <2>5, <2>6, <2>8, <2>9, ScanMoves DEF locals
  <1> QED
    BY <1>4, <1>5

(* The Helper of a record nobody watches is deleted: nobody watches the    *)
(* Helper either.                                                          *)
LEMMA HelperFreed ==
  ASSUME IInv, NEW t \in Threads, NEW h \in Helpers,
         hpc[t] = "on_is_watched", Scanned(t) \in Ops, h = helper_[Scanned(t)],
         hidx[t] < NumSlots, hidx[t] + 1 = NumSlots, watches[hidx[t]] # h,
         life' = [life EXCEPT ![h] = "free"],
         op_' = [op_ EXCEPT ![h] = Null],
         old_value_' = [old_value_ EXCEPT ![h] = Null],
         new_value_' = [new_value_ EXCEPT ![h] = Null],
         hidx' = [hidx EXCEPT ![t] = hidx[t] + 1],
         UNCHANGED <<watches, element_list, hpc, slot, elem, pos, idx, leaving, granted, paVars,
                     lst_, next_, elem_, helper_, pc, node, op, helper, cur, nxt, fin>>
  PROVE  IInv'
  <1> DEFINE o == Scanned(t)
  <1>1. ControlOf(t) /\ ProtocolOf(t)
    BY DEF IInv, Control, WatchProtocol
  <1>2. /\ h \in Shared /\ h \notin Ops /\ h # Null
        /\ NumSlots \in Nat /\ hidx[t] \in 0 .. NumSlots /\ hidx[t] \in 0 .. (NumSlots - 1)
    BY Kinds, NumSlotsPositive DEF IInv, Types, Shared
  <1>3. /\ Scanning(t) /\ o \in Waiting(t) /\ o \in Shared
        /\ \A u \in Threads : Scanning(u) /\ Scanned(u) = o => u = t
    <2>1. Scanning(t) /\ o \in Waiting(t) /\ o \in Shared
      BY ScannedWaits DEF IInv, Scanning, Shared
    <2>2. \A u \in Threads : Scanning(u) => Scanned(u) \in Waiting(u)
      BY ScannedWaits DEF IInv
    <2> QED
      BY <2>1, <2>2 DEF IInv, Lists
  <1>4. ~Gone(o)
    BY <1>2, <1>3 DEF Gone, Scanning
  <1>5. life[h] # "free" /\ op_[h] = o /\ ~Listed(h)
    BY <1>4 DEF IInv, HelperLife
  <1>6. \A u \in Threads, s \in Slots : ~Keeps(u, s, h)
    <2> SUFFICES ASSUME NEW u \in Threads, NEW s \in Slots, Keeps(u, s, h) PROVE FALSE
      OBVIOUS
    <2>1. s = SHORTUSE
      BY KeptIsShared
    <2>2. hidx[t] <= GetSlot(u, SHORTUSE)
      BY <2>1 DEF IInv, StrongWatch
    <2> QED
      BY <1>2, <2>1, <2>2, NextSlot
  <1>7. \A u \in Threads : helper[u] # h
    <2> SUFFICES ASSUME NEW u \in Threads, helper[u] = h PROVE FALSE
      OBVIOUS
    <2>1. op[u] = o /\ op[u] # Null
      BY <1>2, <1>5, Kinds DEF IInv, HelperLife, Shared
    <2> QED
      BY <2>1, RunningIsKept
  <1>8. \A u \in Threads : Met(u) \/ Finishing(u) => fin[u] # h /\ fin[u] \in Helpers
    BY <1>6, MetIsKept, FinishingKeeps, SlotKinds
  <1>9. /\ \A u, s : WatchedBy(u, s)' = WatchedBy(u, s) /\ (Held(u, s)' <=> Held(u, s))
        /\ \A u, s, e : Keeps(u, s, e)' <=> Keeps(u, s, e)
        /\ \A u \in Threads : Waiting(u)' = Waiting(u)
        /\ \A e : Listed(e)' <=> Listed(e)
    BY WatchesStay, ListsStay
  <1>10. Elsewhere(t)
    BY <1>9 DEF Elsewhere, IInv, Types, paVars
  <1>11. \A u \in Threads : u # t => Stays(u)
    BY <1>10, OthersStay
  <1>12. hidx'[t] = NumSlots /\ Scanned(t)' = Scanned(t)
    BY DEF IInv, Types, Scanned
  <1>13. Types'
    <2>1. hidx' \in [Threads -> 0 .. NumSlots]
      <3>1. hidx[t] + 1 \in 0 .. NumSlots
        BY <1>2
      <3> QED
        BY <3>1 DEF IInv, Types
    <2> QED
      BY <2>1 DEF IInv, Types, paVars
  <1>14. ControlOf(t)'
    BY <1>1, <1>12 DEF ControlOf, Calling, Scanning, Finish
  <1>15. ProtocolOf(t)'
    BY <1>1, <1>9 DEF ProtocolOf, ControlOf, Calling, Scanning, Meeting, Foreign, Finish, paVars
  <1>16. /\ \A e \in Shared : e # h => life'[e] = life[e]
         /\ \A g \in Helpers : g # h => op_'[g] = op_[g]
         /\ life'[h] = "free"
    BY <1>2, Kinds DEF IInv, Types
  <1>17. \A p : Gone(p) => Gone(p)'
    <2> SUFFICES ASSUME NEW p, Gone(p) PROVE Gone(p)'
      OBVIOUS
    <2>1. PICK u \in Threads : hpc[u] = "on_is_watched" /\ Scanned(u) = p /\ hidx[u] = NumSlots
      BY DEF Gone
    <2>2. u # t
      BY <1>2, <2>1
    <2> QED
      BY <1>11, <2>1, <2>2 DEF Gone, Stays
  <1>18. \A p : p = o => Gone(p)'
    BY <1>12 DEF Gone
  <1>19. /\ \A u \in Threads : Owning(u)' = Owning(u)
         /\ \A u \in Threads : OwnFinish(u)' <=> OwnFinish(u)
         /\ \A u \in Threads : Unplaced(u)' <=> Unplaced(u)
         /\ \A u \in Threads : Finishing(u)' <=> Finishing(u)
         /\ \A u \in Threads : Past(u)' <=> Past(u)
         /\ \A g : Placed(g)' <=> Placed(g)
    BY DEF Owning, OwnFinish, Unplaced, Past, Placed, Finishing, Foreign, paVars
  <1>20. Owners'
    <2>1. \A u \in Threads : Keeps(u, PROG_ASSUR, op[u])' <=> Keeps(u, PROG_ASSUR, op[u])
      BY <1>9 DEF Keeps
    <2>2. \A u \in Threads : Listed(Owning(u))' <=> Listed(Owning(u))
      BY <1>9, <1>19 DEF Listed
    <2>3. \A u \in Threads : Owning(u) # Null => Owning(u) \in Shared /\ Owning(u) # h
      BY <1>2 DEF Owning, IInv, Types, Shared
    <2> QED
      BY <1>16, <1>19, <2>1, <2>2, <2>3 DEF IInv, Owners, paVars
  <1>21. HeldIsNotFree' /\ ScanMissesNoGrant'
    <2>1. HeldIsNotFree'
      BY <1>6, <1>9, <1>16 DEF IInv, HeldIsNotFree
    <2>2. \A u \in Threads : Scanned(u)' = Scanned(u) /\ (Scanning(u)' <=> Scanning(u))
      BY DEF Scanned, Scanning
    <2> QED
      BY <1>9, <2>1, <2>2 DEF IInv, ScanMissesNoGrant, Keeps
  <1>22. StrongWatch'
    <2> SUFFICES ASSUME NEW u \in Threads, hpc'[u] = "on_is_watched", Scanned(u)' \in Ops,
                        hidx'[u] < NumSlots, NEW w \in Threads,
                        Keeps(w, SHORTUSE, helper_[Scanned(u)])'
                 PROVE  hidx'[u] <= GetSlot(w, SHORTUSE)
      BY DEF StrongWatch
    <2>1. u # t
      BY <1>2, <1>12
    <2>2. hpc[u] = "on_is_watched" /\ Scanned(u)' = Scanned(u) /\ hidx'[u] = hidx[u]
      BY <1>11, <2>1 DEF Stays
    <2>3. Keeps(w, SHORTUSE, helper_[Scanned(u)])
      BY <1>9, <2>2 DEF Keeps
    <2> QED
      BY <2>2, <2>3 DEF IInv, StrongWatch
  <1>23. Lists'
    <2>1. \A u \in Threads : helper[u] # Null => ~Listed(helper[u])'
      BY <1>9 DEF IInv, Lists, Listed
    <2> QED
      BY <1>5, <1>9, <1>16, <2>1 DEF IInv, Lists
  <1>24. HelperLife'
    <2>1. \A g \in Helpers : g \in Shared
      BY DEF Shared
    <2>2. \A g \in Helpers : life'[g] # "free" => op_'[g] # Null
      BY <1>16, <2>1 DEF IInv, HelperLife
    <2>3. \A u \in Threads : helper[u] # Null => helper[u] \in Helpers /\ helper[u] # h
      BY <1>7 DEF IInv, Types
    <2>4. \A u \in Threads : helper'[u] # Null =>
            /\ life'[helper'[u]] # "free" /\ op_'[helper'[u]] = op'[u]
            /\ \A w \in Threads : helper'[w] = helper'[u] => w = u
      BY <1>16, <2>1, <2>3 DEF IInv, HelperLife
    <2>5. \A u \in Threads : Unplaced(u)' =>
            /\ \A p \in Ops : helper_'[p] = helper'[u] => Gone(p)'
            /\ \A w \in Threads : ~Keeps(w, SHORTUSE, helper[u])'
      BY <1>9, <1>17, <1>19 DEF IInv, HelperLife, Keeps
    <2>6. \A p \in Ops : helper_'[p] \in Helpers /\ ~Gone(p)' =>
            /\ life'[p] # "free" /\ life'[helper_'[p]] # "free"
            /\ op_'[helper_'[p]] = p /\ ~Listed(helper_[p])'
      <3> SUFFICES ASSUME NEW p \in Ops, helper_[p] \in Helpers, ~Gone(p)'
                   PROVE  /\ life'[p] # "free" /\ life'[helper_[p]] # "free"
                          /\ op_'[helper_[p]] = p /\ ~Listed(helper_[p])'
        OBVIOUS
      <3>1. ~Gone(p) /\ p # o
        BY <1>17, <1>18
      <3>2. /\ life[p] # "free" /\ life[helper_[p]] # "free"
            /\ op_[helper_[p]] = p /\ ~Listed(helper_[p])
        BY <3>1 DEF IInv, HelperLife
      <3>3. helper_[p] # h /\ p # h /\ p \in Shared
        BY <1>2, <1>5, <3>1, <3>2 DEF Shared
      <3>4. ~Listed(helper_[p])'
        BY <1>9, <3>2 DEF Listed
      <3> QED
        BY <1>16, <2>1, <3>2, <3>3, <3>4
    <2> QED
      BY <2>2, <2>4, <2>5, <2>6 DEF HelperLife
  <1>25. TopIsPlaced' /\ FinishOpen' /\ Settled'
    <2>1. TopIsPlaced'
      BY <1>19 DEF IInv, TopIsPlaced, Placed
    <2>2. FinishOpen'
      BY <1>8, <1>16, <1>19 DEF IInv, FinishOpen, Placed
    <2>3. Settled'
      BY <1>19 DEF IInv, Settled
    <2> QED
      BY <2>1, <2>2, <2>3
  <1>26. \A u \in Threads : u # t /\ Met(u) => op_'[fin[u]] = op_[fin[u]]
    BY <1>8, <1>16
  <1> QED
    BY <1>10, <1>13, <1>14, <1>15, <1>20, <1>21, <1>22, <1>23, <1>24, <1>25, <1>26, Together
       DEF Sharing

LEMMA ScanHelperKeeps ==
  ASSUME IInv, NEW t \in Threads, ScanHelper(t)
  PROVE  IInv'
  <1> DEFINE o == Scanned(t)
             h == helper_[o]
  <1>1. /\ hpc[t] = "on_is_watched" /\ o \in Ops /\ h # Fail /\ hidx[t] < NumSlots
        /\ UNCHANGED <<paVars, lst_, next_, elem_, helper_, pc, node, op, helper, cur, nxt, fin>>
    BY DEF ScanHelper
  <1>2. Scanning(t) /\ Listed(o) /\ ControlOf(t)
    BY <1>1, ScannedWaits DEF IInv, Scanning, Control
  <1>3. h \in Helpers
    BY <1>1, <1>2 DEF IInv, Lists, Types
  <1>4. NumSlots \in Nat /\ NumSlots # 0 /\ hidx[t] \in 0 .. (NumSlots - 1) /\ hidx[t] # NumSlots
    BY <1>1, NumSlotsPositive DEF IInv, Types
  <1>5. CASE watches[hidx[t]] = h
    <2>1. Keep(t) /\ hidx' = [hidx EXCEPT ![t] = 0] /\ UNCHANGED helperVars
          /\ UNCHANGED <<watches, slot, elem, leaving, granted>>
      BY <1>5 DEF ScanHelper, OnIsWatched
    <2> QED
      BY <1>1, <1>2, <1>4, <2>1, KeepKeeps DEF memVars
  <1>6. CASE watches[hidx[t]] # h /\ hidx[t] + 1 = NumSlots
    <2>1. /\ hidx' = [hidx EXCEPT ![t] = hidx[t] + 1]
          /\ SetLife(h, "free") /\ Scrub(h)
      BY <1>6 DEF ScanHelper
    <2> QED
      BY <1>1, <1>3, <1>6, <2>1, HelperFreed DEF SetLife, Scrub
  <1>7. CASE watches[hidx[t]] # h /\ hidx[t] + 1 # NumSlots
    <2>1. /\ hidx' = [hidx EXCEPT ![t] = hidx[t] + 1]
          /\ UNCHANGED <<hpVars, helperVars>>
      BY <1>7 DEF ScanHelper
    <2>2. \A u, s : WatchedBy(u, s)' = WatchedBy(u, s) /\ (Held(u, s)' <=> Held(u, s))
      BY <2>1, WatchesStay DEF hpVars
    <2>3. Elsewhere(t)
      BY <1>1, <2>1, <2>2 DEF Elsewhere, IInv, Types, paVars, hpVars
    <2>4. hidx[t] + 1 \in 0 .. NumSlots
      BY <1>4
    <2>5. Types'
      <3>1. hidx' \in [Threads -> 0 .. NumSlots]
        BY <2>1, <2>4 DEF IInv, Types
      <3> QED
        BY <1>1, <2>1, <3>1 DEF IInv, Types, paVars, hpVars, helperVars
    <2>6. /\ hidx'[t] = hidx[t] + 1 /\ Scanned(t)' = Scanned(t) /\ hpc'[t] = hpc[t]
          /\ idx'[t] = idx[t] /\ Scanning(t)' = Scanning(t)
      BY <2>1 DEF IInv, Types, Scanned, Scanning, hpVars
    <2>7. ControlOf(t)'
      BY <1>1, <1>2, <2>1, <2>6 DEF ControlOf, Calling, Scanning, Finish, hpVars
    <2>8. \A u \in Threads : Keeps(u, SHORTUSE, helper_[Scanned(t)']) =>
            hidx'[t] <= GetSlot(u, SHORTUSE)
      <3> SUFFICES ASSUME NEW u \in Threads, Keeps(u, SHORTUSE, h)
                   PROVE  hidx[t] + 1 <= GetSlot(u, SHORTUSE)
        BY <2>6
      <3>1. hidx[t] <= GetSlot(u, SHORTUSE)
        BY <1>1 DEF IInv, StrongWatch
      <3> QED
        BY <1>4, <1>7, <3>1, NextSlot, SlotKinds
    <2>9. \A u \in Threads, s \in Slots :
            Keeps(u, s, Scanned(t)') => hpc'[t] = "contains" /\ idx'[t] <= GetSlot(u, s)
      BY <1>2, <2>6 DEF IInv, ScanMissesNoGrant
    <2> QED
      BY <1>1, <1>2, <1>4, <1>7, <2>1, <2>3, <2>5, <2>6, <2>7, <2>8, <2>9, ScanMoves
         DEF hpVars, memVars
  <1> QED
    BY <1>5, <1>6, <1>7

(* A list without a position: no record and no Helper that was not there   *)
(* twice is there twice, and the one at that position is not there.        *)
LEMMA RemoveOnce ==
  ASSUME NEW q \in Seq(Elems), NEW i \in 1 .. Len(q),
         \A j, k \in DOMAIN q : q[j] = q[k] /\ q[j] \in Shared => j = k
  PROVE  /\ RemoveAt(q, i) \in Seq(Elems) /\ Len(RemoveAt(q, i)) = Len(q) - 1
         /\ Range(RemoveAt(q, i)) \subseteq Range(q)
         /\ q[i] \in Shared => q[i] \notin Range(RemoveAt(q, i))
         /\ \A j, k \in DOMAIN RemoveAt(q, i) :
              RemoveAt(q, i)[j] = RemoveAt(q, i)[k] /\ RemoveAt(q, i)[j] \in Shared => j = k
  <1> DEFINE r == RemoveAt(q, i)
             n == Len(q)
             from(k) == IF k < i THEN k ELSE k + 1
  <1>0. n \in Nat /\ DOMAIN q = 1 .. n /\ i \in 1 .. n
    OBVIOUS
  <1>1. /\ r \in Seq(Elems) /\ Len(r) = n - 1
        /\ \A k \in 1 .. (n - 1) : r[k] = q[from(k)]
    BY RemoveAtIndices
  <1>2. DOMAIN r = 1 .. (n - 1)
    BY <1>1
  <1> HIDE DEF r, n
  <1>3. \A k \in 1 .. (n - 1) : from(k) \in 1 .. n /\ from(k) # i
    BY <1>0
  <1>4. \A j, k \in 1 .. (n - 1) : from(j) = from(k) => j = k
    BY <1>0
  <1> HIDE DEF from
  <1>5. Range(r) \subseteq Range(q)
    BY <1>0, <1>1, <1>2, <1>3 DEF Range
  <1>6. q[i] \in Shared => q[i] \notin Range(r)
    BY <1>0, <1>1, <1>2, <1>3 DEF Range
  <1>7. \A j, k \in DOMAIN r : r[j] = r[k] /\ r[j] \in Shared => j = k
    BY <1>0, <1>1, <1>2, <1>3, <1>4
  <1> QED
    BY <1>1, <1>5, <1>6, <1>7 DEF r, n

(* What nobody watches is deleted.                                         *)
LEMMA FreedKeeps ==
  ASSUME IInv, NEW t \in Threads, OnIsWatched(t, FALSE),
         Scanned(t) \in Ops =>
           helper_'[Scanned(t)] = Null
         , \A o \in Ops : o # Scanned(t) => helper_'[o] = helper_[o],
         \A h \in Helpers : h # Scanned(t) => op_'[h] = op_[h],
         hidx' = [hidx EXCEPT ![t] = 0],
         helper_' \in [Ops -> Helpers \cup {Null, Fail}],
         op_' \in [Helpers -> Ops \cup {Null}],
         next_' \in [Nodes -> Nodes \cup Ops \cup {Null}],
         elem_' \in [Ops -> Nodes \cup {Null}],
         old_value_' \in [Helpers -> Nodes \cup {Null}],
         new_value_' \in [Helpers -> Nodes \cup Ops \cup {Null}],
         UNCHANGED <<paVars, lst_, pc, node, op, helper, cur, nxt, fin>>
  PROVE  IInv'
  <1> DEFINE q == element_list[t]
             e == Scanned(t)
             r == RemoveAt(q, pos[t])
             k == Position(pos[t], r)
  <1>1. ControlOf(t) /\ ProtocolOf(t)
    BY DEF IInv, Control, WatchProtocol
  <1>2. hpc[t] = "on_is_watched" /\ Scanning(t)
    BY DEF OnIsWatched, Scanning
  <1>3. /\ q \in Seq(Elems) /\ pos[t] \in 1 .. Len(q) /\ pc[t] \in {"unwatch", "return"}
        /\ e \in Elems /\ e \in Waiting(t) /\ Listed(e) /\ e = q[pos[t]]
    BY <1>1, <1>2, ScannedWaits DEF IInv, Types, ControlOf, Scanned
  <1>4. /\ r \in Seq(Elems) /\ Len(r) = Len(q) - 1 /\ Range(r) \subseteq Range(q)
        /\ e \in Shared => e \notin Range(r)
        /\ \A i, j \in DOMAIN r : r[i] = r[j] /\ r[i] \in Shared => i = j
    <2>1. \A i, j \in DOMAIN q : q[i] = q[j] /\ q[i] \in Shared => i = j
      BY DEF IInv, Lists
    <2> HIDE DEF q, e
    <2>2. q \in Seq(Elems) /\ pos[t] \in 1 .. Len(q)
      BY <1>3
    <2>3. /\ r \in Seq(Elems) /\ Len(r) = Len(q) - 1 /\ Range(r) \subseteq Range(q)
          /\ q[pos[t]] \in Shared => q[pos[t]] \notin Range(r)
          /\ \A i, j \in DOMAIN r : r[i] = r[j] /\ r[i] \in Shared => i = j
      BY <2>1, <2>2, RemoveOnce
    <2> QED
      BY <1>3, <2>3
  <1> HIDE DEF r
  <1>5. pos[t] # 1 => k \in 1 .. Len(r) /\ k \in Nat
    <2> SUFFICES ASSUME pos[t] # 1 PROVE k \in 1 .. Len(r) /\ k \in Nat
      OBVIOUS
    <2>1. pos[t] \in Nat \ {0} /\ r # <<>>
      BY <1>3, <1>4
    <2>2. k \in 1 .. Len(r)
      BY <1>4, <2>1, PositionInRange
    <2> QED
      BY <2>2
  <1> HIDE DEF k
  <1>6. /\ life' = [life EXCEPT ![e] = "free"]
        /\ element_list' = [element_list EXCEPT ![t] = r]
        /\ idx' = [idx EXCEPT ![t] = 0]
        /\ \/ /\ hpc' = [hpc EXCEPT ![t] = "out"]
              /\ pos' = [pos EXCEPT ![t] = 0]
           \/ /\ hpc' = [hpc EXCEPT ![t] = "contains"] /\ pos[t] # 1
              /\ pos' = [pos EXCEPT ![t] = k]
        /\ UNCHANGED <<watches, slot, elem, leaving, granted>>
    BY DEF OnIsWatched, Delete, Leave, GoTo, AfterScan, IInv, Types, k, r, Scanned
  <1>7. /\ idx'[t] = 0 /\ hidx'[t] = 0 /\ element_list'[t] = r
        /\ hpc'[t] \in {"out", "contains"}
        /\ hpc'[t] = "contains" => pos'[t] \in 1 .. Len(r)
    BY <1>5, <1>6 DEF IInv, Types
  <1>8. /\ \A u, s : WatchedBy(u, s)' = WatchedBy(u, s) /\ (Held(u, s)' <=> Held(u, s))
        /\ \A u, s, p : Keeps(u, s, p)' <=> Keeps(u, s, p)
    BY <1>6, WatchesStay
  <1>9. Elsewhere(t)
    BY <1>6, <1>8 DEF Elsewhere, IInv, Types, paVars
  <1>10. \A u \in Threads : u # t => Stays(u)
    BY <1>9, OthersStay
  <1>11. Types'
    <2>1. life' \in [Elems -> {"free", "private", "live", "retired"}]
      BY <1>3, <1>6 DEF IInv, Types
    <2>2. element_list' \in [Threads -> Seq(Elems)]
      BY <1>4, <1>6 DEF IInv, Types
    <2>3. idx' \in [Threads -> 0 .. (NumSlots - 1)]
      BY <1>6, NumSlotsPositive DEF IInv, Types
    <2>4. hidx' \in [Threads -> 0 .. NumSlots]
      <3>1. 0 \in 0 .. NumSlots
        BY NumSlotsPositive
      <3> QED
        BY <3>1 DEF IInv, Types
    <2>5. hpc' \in [Threads -> {"out", "store", "validate", "on_watch", "clear",
                               "contains", "on_is_watched"}]
      BY <1>6 DEF IInv, Types
    <2>6. pos' \in [Threads -> Nat]
      <3>1. pos \in [Threads -> Nat] /\ 0 \in Nat
        BY DEF IInv, Types
      <3>2. \/ pos' = [pos EXCEPT ![t] = 0]
            \/ pos' = [pos EXCEPT ![t] = k] /\ k \in Nat
        BY <1>5, <1>6
      <3> QED
        BY <3>1, <3>2
    <2> QED
      BY <1>6, <2>1, <2>2, <2>3, <2>4, <2>5, <2>6 DEF IInv, Types, paVars
  <1>12. ControlOf(t)'
    BY <1>1, <1>3, <1>7 DEF ControlOf, Calling, Scanning, Finish
  <1>13. ProtocolOf(t)'
    BY <1>1, <1>2, <1>3, <1>7, <1>8 DEF ProtocolOf, Calling, Meeting, Foreign, Finish, paVars
  <1>14. e \in Shared => /\ \A u \in Threads, s \in Slots : ~Keeps(u, s, e)
                         /\ \A u \in Threads : e \in Waiting(u) => u = t
                         /\ \A u \in Threads : Owning(u) # e /\ op[u] # e /\ helper[u] # e
                         /\ \A u \in Threads : Finishing(u) \/ Met(u) => fin[u] # e
                         /\ \A u \in Threads : Finishing(u) => op_[fin[u]] # e
                         /\ \A o \in Ops : helper_[o] = e => Gone(o)
    <2> SUFFICES ASSUME e \in Shared
                 PROVE  /\ \A u \in Threads, s \in Slots : ~Keeps(u, s, e)
                        /\ \A u \in Threads : e \in Waiting(u) => u = t
                        /\ \A u \in Threads : Owning(u) # e /\ op[u] # e /\ helper[u] # e
                        /\ \A u \in Threads : Finishing(u) \/ Met(u) => fin[u] # e
                        /\ \A u \in Threads : Finishing(u) => op_[fin[u]] # e
                        /\ \A o \in Ops : helper_[o] = e => Gone(o)
      OBVIOUS
    <2>1. e # Null
      BY Kinds
    <2>2. \A u \in Threads, s \in Slots : ~Keeps(u, s, e)
      BY <1>2 DEF IInv, ScanMissesNoGrant
    <2>3. \A u \in Threads : Owning(u) # e /\ op[u] # e /\ helper[u] # e
      BY <1>2, <1>3, <2>1, RunningIsKept DEF IInv, Owners, Lists
    <2>4. \A u \in Threads : Finishing(u) \/ Met(u) => fin[u] # e
      BY <2>2, FinishingKeeps, MetIsKept, SlotKinds
    <2>5. \A u \in Threads : Finishing(u) => op_[fin[u]] # e
      BY <1>2, FinishingKeeps
    <2>6. \A o \in Ops : helper_[o] = e => Gone(o)
      <3> SUFFICES ASSUME NEW o \in Ops, helper_[o] = e, ~Gone(o) PROVE FALSE
        OBVIOUS
      <3>1. e \in Helpers
        <4>1. e \in Pointers
          BY <1>3 DEF Pointers
        <4> QED
          BY <2>1, <4>1, FailAssumption DEF IInv, Types
      <3> QED
        BY <1>3, <3>1 DEF IInv, HelperLife
    <2> QED
      BY <1>3, <2>2, <2>3, <2>4, <2>5, <2>6 DEF IInv, Lists
  <1>15. /\ \A p \in Shared : p # e => life'[p] = life[p]
         /\ \A p \in Elems : life'[p] # "free" => p # e /\ life[p] # "free"
    BY <1>3, <1>6, Kinds DEF IInv, Types
  <1>16. /\ Waiting(t)' \subseteq Waiting(t)
         /\ \A u \in Threads : u # t => Waiting(u)' = Waiting(u)
         /\ \A u \in Threads : Waiting(u)' \subseteq Waiting(u)
         /\ e \in Shared => \A u \in Threads : e \notin Waiting(u)'
    <2>1. Waiting(t)' \subseteq Waiting(t) /\ (e \in Shared => e \notin Waiting(t)')
      BY <1>4, <1>7 DEF Waiting
    <2>2. \A u \in Threads : u # t => Waiting(u)' = Waiting(u)
      BY <1>10 DEF Stays
    <2> QED
      BY <1>14, <2>1, <2>2
  <1>17. \A p : (\A u \in Threads : p \notin Waiting(u)) => \A u \in Threads : p \notin Waiting(u)'
    BY <1>16
  <1>18. \A p \in Ops : p # e => (Gone(p)' <=> Gone(p))
    BY <1>7, <1>10 DEF Gone, Stays
  <1>19. /\ \A u \in Threads : Owning(u)' = Owning(u)
         /\ \A u \in Threads : OwnFinish(u)' <=> OwnFinish(u)
         /\ \A u \in Threads : Unplaced(u)' <=> Unplaced(u)
         /\ \A u \in Threads : Past(u)' <=> Past(u)
         /\ \A h : Placed(h)' <=> Placed(h)
    BY DEF Owning, OwnFinish, Unplaced, Past, Placed, paVars
  <1>20. \A u \in Threads : Finishing(u)' <=> Finishing(u)
    <2>1. Finishing(t)' <=> Finishing(t)
      BY <1>2, <1>3, <1>7 DEF Finishing, Foreign, Finish
    <2> QED
      BY <1>10, <2>1 DEF Stays
  <1>21. Owners'
    <2>1. \A u \in Threads : Keeps(u, PROG_ASSUR, op[u])' <=> Keeps(u, PROG_ASSUR, op[u])
      BY <1>8 DEF Keeps
    <2>2. \A u \in Threads : Owning(u) # Null => Owning(u) \in Shared /\ ~Listed(Owning(u))'
      <3> SUFFICES ASSUME NEW u \in Threads, Owning(u) # Null
                   PROVE  Owning(u) \in Shared /\ ~Listed(Owning(u))'
        OBVIOUS
      <3>1. Owning(u) \in Shared /\ ~Listed(Owning(u))
        BY DEF Owning, IInv, Types, Owners, Shared
      <3>2. \A w \in Threads : Owning(u)' \notin Waiting(w)'
        BY <1>17, <1>19, <3>1 DEF Listed
      <3> QED
        BY <3>1, <3>2 DEF Listed
    <2> QED
      BY <1>14, <1>15, <1>19, <2>1, <2>2 DEF IInv, Owners, paVars
  <1>22. HeldIsNotFree'
    BY <1>8, <1>14, <1>15 DEF IInv, HeldIsNotFree
  <1>23. \A u \in Threads : u # t =>
           /\ hpc'[u] = hpc[u] /\ idx'[u] = idx[u] /\ hidx'[u] = hidx[u]
           /\ Scanned(u)' = Scanned(u) /\ (Scanning(u)' <=> Scanning(u))
    BY <1>10 DEF Stays
  <1>24. \A u \in Threads, s \in Slots : 0 <= GetSlot(u, s)
    BY GetSlotRange, NumSlotsPositive
  <1>25. ScanMissesNoGrant'
    <2> SUFFICES ASSUME NEW u \in Threads, Scanning(u)', NEW w \in Threads, NEW s \in Slots,
                        Keeps(w, s, Scanned(u))'
                 PROVE  hpc'[u] = "contains" /\ idx'[u] <= GetSlot(w, s)
      BY DEF ScanMissesNoGrant
    <2>1. CASE u = t
      BY <1>7, <1>24, <2>1 DEF Scanning
    <2>2. CASE u # t
      <3>1. Keeps(w, s, Scanned(u))
        BY <1>8, <1>23, <2>2 DEF Keeps
      <3> QED
        BY <1>23, <2>2, <3>1 DEF IInv, ScanMissesNoGrant
    <2> QED
      BY <2>1, <2>2
  <1>26. StrongWatch'
    <2> SUFFICES ASSUME NEW u \in Threads, hpc'[u] = "on_is_watched", Scanned(u)' \in Ops,
                        hidx'[u] < NumSlots, NEW w \in Threads,
                        Keeps(w, SHORTUSE, helper_[Scanned(u)])'
                 PROVE  hidx'[u] <= GetSlot(w, SHORTUSE)
      BY DEF StrongWatch
    <2>1. u # t
      BY <1>7
    <2>2. hpc[u] = "on_is_watched" /\ Scanned(u)' = Scanned(u) /\ hidx'[u] = hidx[u]
      BY <1>23, <2>1
    <2>3. Scanned(u) # e
      <3>1. Scanned(u) \in Waiting(u) /\ Scanned(u) \in Shared
        BY <2>2, ScannedWaits DEF IInv, Scanning, Shared
      <3> QED
        BY <1>14, <2>1, <3>1
    <2>4. Keeps(w, SHORTUSE, helper_[Scanned(u)])
      BY <1>8, <2>2, <2>3 DEF Keeps
    <2> QED
      BY <2>2, <2>4 DEF IInv, StrongWatch
  <1>27. Lists'
    <2>1. \A u \in Threads : u # t => element_list'[u] = element_list[u]
      BY <1>10 DEF Stays
    <2>2. \A u \in Threads : \A i, j \in DOMAIN element_list'[u] :
            element_list'[u][i] = element_list'[u][j] /\ element_list'[u][i] \in Shared => i = j
      BY <1>4, <1>7, <2>1 DEF IInv, Lists
    <2>3. \A u, w \in Threads : \A p \in Shared : p \in Waiting(u)' /\ p \in Waiting(w)' => u = w
      BY <1>16 DEF IInv, Lists
    <2>4. \A p \in Shared : Listed(p)' => Listed(p) /\ p # e
      BY <1>16 DEF Listed
    <2>5. /\ \A p \in Shared : Listed(p)' => life'[p] # "free"
          /\ \A o \in Ops : Listed(o)' => helper_'[o] # Null
      BY <1>15, <2>4 DEF IInv, Lists, Shared
    <2>6. \A u \in Threads : helper'[u] # Null => ~Listed(helper[u])'
      <3> SUFFICES ASSUME NEW u \in Threads, helper[u] # Null PROVE ~Listed(helper[u])'
        OBVIOUS
      <3>1. ~Listed(helper[u])
        BY DEF IInv, Lists
      <3>2. \A w \in Threads : helper'[u] \notin Waiting(w)'
        BY <1>17, <3>1 DEF Listed
      <3> QED
        BY <3>2 DEF Listed
    <2> QED
      BY <2>2, <2>3, <2>5, <2>6 DEF Lists
  <1>28. HelperLife'
    <2>1. \A h \in Helpers : h \in Shared /\ h \in Elems
      BY Kinds DEF Shared
    <2>2. \A h \in Helpers : life'[h] # "free" => op_'[h] # Null
      BY <1>15, <2>1 DEF IInv, HelperLife
    <2>3. \A u \in Threads : helper[u] # Null => helper[u] \in Helpers /\ helper[u] # e
      BY <1>14, <2>1 DEF IInv, Types
    <2>4. \A u \in Threads : helper'[u] # Null =>
            /\ life'[helper'[u]] # "free" /\ op_'[helper'[u]] = op'[u]
            /\ \A w \in Threads : helper'[w] = helper'[u] => w = u
      BY <1>15, <2>1, <2>3 DEF IInv, HelperLife
    <2>5. \A u \in Threads : Unplaced(u)' =>
            /\ \A p \in Ops : helper_'[p] = helper'[u] => Gone(p)'
            /\ \A w \in Threads : ~Keeps(w, SHORTUSE, helper[u])'
      <3> SUFFICES ASSUME NEW u \in Threads, Unplaced(u)
                   PROVE  /\ \A p \in Ops : helper_'[p] = helper[u] => Gone(p)'
                          /\ \A w \in Threads : ~Keeps(w, SHORTUSE, helper[u])'
        BY <1>19
      <3>1. helper[u] # Null
        BY DEF Unplaced
      <3>2. \A p \in Ops : helper_'[p] = helper[u] => p # e /\ helper_[p] = helper[u]
        BY <3>1
      <3> QED
        BY <1>8, <1>18, <3>2 DEF IInv, HelperLife, Keeps
    <2>6. \A p \in Ops : helper_'[p] \in Helpers /\ ~Gone(p)' =>
            /\ life'[p] # "free" /\ life'[helper_'[p]] # "free"
            /\ op_'[helper_'[p]] = p /\ ~Listed(helper_[p])'
      <3> SUFFICES ASSUME NEW p \in Ops, helper_'[p] \in Helpers, ~Gone(p)'
                   PROVE  /\ life'[p] # "free" /\ life'[helper_'[p]] # "free"
                          /\ op_'[helper_'[p]] = p /\ ~Listed(helper_[p])'
        OBVIOUS
      <3>1. p # e /\ helper_'[p] = helper_[p] /\ ~Gone(p) /\ p \in Shared
        <4>1. p # e
          BY <2>1, Kinds DEF Shared
        <4> QED
          BY <1>18, <4>1 DEF Shared
      <3>2. /\ life[p] # "free" /\ life[helper_[p]] # "free"
            /\ op_[helper_[p]] = p /\ ~Listed(helper_[p])
        BY <3>1 DEF IInv, HelperLife
      <3>3. helper_[p] # e
        BY <1>3, <3>2
      <3>4. \A w \in Threads : helper_'[p] \notin Waiting(w)'
        BY <1>17, <3>1, <3>2 DEF Listed
      <3> QED
        BY <1>15, <2>1, <3>1, <3>2, <3>3, <3>4 DEF Listed
    <2> QED
      BY <2>2, <2>4, <2>5, <2>6 DEF HelperLife
  <1>29. TopIsPlaced' /\ FinishOpen' /\ Settled'
    <2>1. TopIsPlaced'
      BY <1>19 DEF IInv, TopIsPlaced, Placed
    <2>2. \A u \in Threads : Finishing(u) =>
            fin[u] \in Helpers /\ fin[u] \in Shared /\ op_[fin[u]] \in Ops /\ op_[fin[u]] \in Shared
      BY FinishingKeeps DEF Shared
    <2>3. FinishOpen'
      <3> SUFFICES ASSUME NEW u \in Threads, Finishing(u), helper_'[op_'[fin[u]]] = Null
                   PROVE  Placed(fin[u])
        BY <1>19, <1>20 DEF FinishOpen, Placed
      <3>1. fin[u] # e /\ op_[fin[u]] # e
        BY <1>14, <2>2
      <3> QED
        BY <2>2, <3>1 DEF IInv, FinishOpen
    <2>4. Settled'
      <3>1. \A u \in Threads : op[u] # Null => op[u] \in Ops /\ op[u] # e
        BY <1>14 DEF IInv, Types, Shared
      <3> QED
        BY <1>19, <3>1 DEF IInv, Settled
    <2> QED
      BY <2>1, <2>3, <2>4
  <1>30. \A u \in Threads : u # t /\ Met(u) => op_'[fin[u]] = op_[fin[u]]
    <2> SUFFICES ASSUME NEW u \in Threads, Met(u) PROVE op_'[fin[u]] = op_[fin[u]]
      OBVIOUS
    <2>1. fin[u] \in Helpers /\ fin[u] \in Shared
      BY MetIsKept DEF Shared
    <2> QED
      BY <1>14, <2>1
  <1> QED
    BY <1>9, <1>11, <1>12, <1>13, <1>21, <1>22, <1>25, <1>26, <1>27, <1>28, <1>29, <1>30, Together
       DEF Sharing

LEMMA NotHeldKeeps ==
  ASSUME IInv, NEW t \in Threads, NotHeld(t)
  PROVE  IInv'
  <1> DEFINE e == Scanned(t)
  <1>1. /\ hpc[t] = "on_is_watched" /\ e \notin Ops /\ OnIsWatched(t, FALSE)
        /\ UNCHANGED <<paVars, lst_, elem_, helper_, locals>>
    BY DEF NotHeld
  <1>2. e \in Elems /\ hidx[t] = 0
    BY <1>1, ScannedWaits DEF IInv, Scanning, Control, ControlOf
  <1>3. hidx' = [hidx EXCEPT ![t] = 0]
    BY <1>1, <1>2 DEF locals, IInv, Types
  <1>4. /\ \A h \in Helpers : h # e => op_'[h] = op_[h]
        /\ op_' \in [Helpers -> Ops \cup {Null}]
        /\ next_' \in [Nodes -> Nodes \cup Ops \cup {Null}]
        /\ old_value_' \in [Helpers -> Nodes \cup {Null}]
        /\ new_value_' \in [Helpers -> Nodes \cup Ops \cup {Null}]
    <2>1. CASE e \in Helpers
      BY <2>1 DEF NotHeld, Scrub, IInv, Types
    <2>2. CASE e \notin Helpers
      BY <2>2 DEF NotHeld, IInv, Types, helperVars
    <2> QED
      BY <2>1, <2>2
  <1>5. helper_' \in [Ops -> Helpers \cup {Null, Fail}] /\ elem_' \in [Ops -> Nodes \cup {Null}]
    BY <1>1 DEF IInv, Types
  <1> QED
    BY <1>1, <1>3, <1>4, <1>5, FreedKeeps DEF locals

LEMMA DeleteOpKeeps ==
  ASSUME IInv, NEW t \in Threads, DeleteOp(t)
  PROVE  IInv'
  <1> DEFINE o == Scanned(t)
  <1>1. /\ o \in Ops /\ OnIsWatched(t, FALSE)
        /\ helper_' = [helper_ EXCEPT ![o] = Null]
        /\ elem_' = [elem_ EXCEPT ![o] = Null]
        /\ hidx' = [hidx EXCEPT ![t] = 0]
        /\ UNCHANGED <<paVars, lst_, next_, helperVars, pc, node, op, helper, cur, nxt, fin>>
    BY DEF DeleteOp
  <1>2. /\ helper_' \in [Ops -> Helpers \cup {Null, Fail}] /\ elem_' \in [Ops -> Nodes \cup {Null}]
        /\ helper_'[o] = Null
        /\ \A p \in Ops : p # o => helper_'[p] = helper_[p]
    BY <1>1 DEF IInv, Types
  <1>3. /\ op_' \in [Helpers -> Ops \cup {Null}]
        /\ next_' \in [Nodes -> Nodes \cup Ops \cup {Null}]
        /\ old_value_' \in [Helpers -> Nodes \cup {Null}]
        /\ new_value_' \in [Helpers -> Nodes \cup Ops \cup {Null}]
        /\ \A h \in Helpers : h # o => op_'[h] = op_[h]
    BY <1>1 DEF IInv, Types, helperVars
  <1> QED
    BY <1>1, <1>2, <1>3, FreedKeeps

-----------------------------------------------------------------------------
(* The grant of a watch                                                    *)

(* What is granted is not deleted, nobody deletes it, and it is at the top *)
(* or in the table of announcements.                                       *)
LEMMA GrantKeeps ==
  ASSUME IInv, NEW t \in Threads, NEW s \in Slots, NEW e \in Shared, Elsewhere(t),
         hpc[t] = "validate", slot[t] = s, elem[t] = e,
         e \in IF s = SHORTUSE THEN Helpers ELSE Ops,
         hpc' = [hpc EXCEPT ![t] = "on_watch"],
         granted' = granted \cup {<<t, s>>},
         UNCHANGED <<life, watches, element_list, slot, elem, pos, idx, leaving, paVars, memVars,
                     pc, node, op, helper, cur, nxt, fin, hidx>>,
         life[e] # "free",
         \A u \in Threads : Scanning(u) => Scanned(u) # e,
         \A u \in Threads : hpc[u] = "on_is_watched" /\ Scanned(u) \in Ops =>
           helper_[Scanned(u)] # e,
         \A u \in Threads : Unplaced(u) => helper[u] # e,
         s = SHORTUSE2 /\ helper_[op_[fin[t]]] = Null => Placed(fin[t])
  PROVE  Sharing'
  <1>1. hpc'[t] = "on_watch" /\ pc[t] \in {"load", "delayed"} /\ slot'[t] = s
    <2>1. ControlOf(t)
      BY DEF IInv, Control
    <2> QED
      BY <2>1 DEF ControlOf, Calling, IInv, Types
  <1>2. \A u \in Threads : u # t => Stays(u)
    BY OthersStay
  <1>3. \A u \in Threads, r \in Slots : \A p : Keeps(u, r, p)' =>
          Keeps(u, r, p) \/ (u = t /\ r = s /\ p = e)
    <2>1. \A r \in Slots, p \in Shared : Held(t, r)' => Held(t, r) \/ r = s
      BY DEF Held
    <2>2. WatchedBy(t, s) = e /\ \A r : WatchedBy(t, r)' = WatchedBy(t, r)
      <3>1. ProtocolOf(t)
        BY DEF IInv, WatchProtocol
      <3> QED
        BY <3>1 DEF ProtocolOf, WatchedBy
    <2>3. \A r \in Slots : \A p : Keeps(t, r, p)' => Keeps(t, r, p) \/ (r = s /\ p = e)
      BY <2>1, <2>2 DEF Keeps
    <2> QED
      BY <1>2, <2>3 DEF Stays
  <1>4. \A p : Keeps(t, PROG_ASSUR, p) => Keeps(t, PROG_ASSUR, p)'
    BY DEF Keeps, Held, WatchedBy
  <1>5. \A u \in Threads : \A p : Keeps(u, PROG_ASSUR, p) => Keeps(u, PROG_ASSUR, p)'
    BY <1>2, <1>4, SlotKinds DEF Stays
  <1>6. /\ \A u \in Threads : Waiting(u)' = Waiting(u)
        /\ \A p : Listed(p)' <=> Listed(p)
        /\ \A u \in Threads : Scanned(u)' = Scanned(u)
        /\ \A p : Gone(p)' <=> Gone(p)
    BY <1>1, <1>2, ListsStay DEF Gone, Scanned, Stays
  <1>7. \A u \in Threads : /\ Scanning(u)' <=> Scanning(u)
                           /\ hpc'[u] = "on_is_watched" <=> hpc[u] = "on_is_watched"
                           /\ Scanning(u) => hpc'[u] = hpc[u]
    BY <1>1, <1>2 DEF Scanning, Stays
  <1>8. /\ \A u \in Threads : Owning(u)' = Owning(u)
        /\ \A u \in Threads : OwnFinish(u)' <=> OwnFinish(u)
        /\ \A u \in Threads : Unplaced(u)' <=> Unplaced(u)
        /\ \A u \in Threads : Past(u)' <=> Past(u)
        /\ \A h : Placed(h)' <=> Placed(h)
    BY DEF Owning, OwnFinish, Unplaced, Past, Placed, paVars
  <1>9. /\ \A u \in Threads : u # t => (Finishing(u)' <=> Finishing(u))
        /\ Finishing(t)' => s = SHORTUSE2
    BY <1>1, <1>2 DEF Stays, Finishing, Foreign, Finish
  <1>10. Owners'
    <2>1. \A u \in Threads : Keeps(u, PROG_ASSUR, op[u]) => Keeps(u, PROG_ASSUR, op[u])'
      BY <1>5 DEF Keeps
    <2>2. \A u \in Threads : Listed(Owning(u))' <=> Listed(Owning(u))
      BY <1>6, <1>8 DEF Listed
    <2> QED
      BY <1>8, <2>1, <2>2 DEF IInv, Owners, paVars
  <1>11. HeldIsNotFree'
    BY <1>3 DEF IInv, HeldIsNotFree
  <1>12. ScanMissesNoGrant'
    <2> SUFFICES ASSUME NEW u \in Threads, Scanning(u)', NEW w \in Threads, NEW r \in Slots,
                        Keeps(w, r, Scanned(u))'
                 PROVE  hpc'[u] = "contains" /\ idx'[u] <= GetSlot(w, r)
      BY DEF ScanMissesNoGrant
    <2>1. Scanning(u) /\ Scanned(u)' = Scanned(u) /\ hpc'[u] = hpc[u]
      BY <1>6, <1>7
    <2>2. Keeps(w, r, Scanned(u))
      <3>1. Keeps(w, r, Scanned(u)') \/ Scanned(u)' = e
        <4>1. PICK p : p = Scanned(u)'
          OBVIOUS
        <4>2. Keeps(w, r, p)'
          BY <4>1 DEF Keeps
        <4> QED
          BY <1>3, <4>1, <4>2
      <3> QED
        BY <2>1, <3>1
    <2> QED
      BY <2>1, <2>2 DEF IInv, ScanMissesNoGrant
  <1>13. StrongWatch'
    <2> SUFFICES ASSUME NEW u \in Threads, hpc'[u] = "on_is_watched", Scanned(u)' \in Ops,
                        hidx'[u] < NumSlots, NEW w \in Threads,
                        Keeps(w, SHORTUSE, helper_[Scanned(u)])'
                 PROVE  hidx'[u] <= GetSlot(w, SHORTUSE)
      BY DEF StrongWatch
    <2>1. hpc[u] = "on_is_watched" /\ Scanned(u)' = Scanned(u)
      BY <1>6, <1>7
    <2>2. Keeps(w, SHORTUSE, helper_[Scanned(u)])
      <3>1. PICK p : p = helper_[Scanned(u)]
        OBVIOUS
      <3>2. Keeps(w, SHORTUSE, p)' /\ p # e
        BY <2>1, <3>1 DEF Keeps, memVars
      <3> QED
        BY <1>3, <3>1, <3>2, SlotKinds
    <2> QED
      BY <2>1, <2>2 DEF IInv, StrongWatch
  <1>14. Lists'
    <2>1. \A u \in Threads : Listed(helper[u])' <=> Listed(helper[u])
      BY <1>6 DEF Listed
    <2> QED
      BY <1>6, <2>1 DEF IInv, Lists, memVars
  <1>15. HelperLife'
    <2>1. \A u \in Threads : Unplaced(u)' =>
            /\ \A o \in Ops : helper_'[o] = helper'[u] => Gone(o)'
            /\ \A w \in Threads : ~Keeps(w, SHORTUSE, helper[u])'
      <3> SUFFICES ASSUME NEW u \in Threads, Unplaced(u)
                   PROVE  /\ \A o \in Ops : helper_[o] = helper[u] => Gone(o)
                          /\ \A w \in Threads : ~Keeps(w, SHORTUSE, helper[u])'
        BY <1>6, <1>8 DEF memVars
      <3>1. \A o \in Ops : helper_[o] = helper[u] => Gone(o)
        BY DEF IInv, HelperLife
      <3>2. \A w \in Threads : ~Keeps(w, SHORTUSE, helper[u])'
        <4> SUFFICES ASSUME NEW w \in Threads, Keeps(w, SHORTUSE, helper[u])'
                     PROVE  FALSE
          OBVIOUS
        <4>1. PICK p : p = helper'[u]
          OBVIOUS
        <4>2. Keeps(w, SHORTUSE, p)'
          BY <4>1 DEF Keeps
        <4>3. p = helper[u]
          BY <4>1
        <4>4. p # e /\ ~Keeps(w, SHORTUSE, p)
          BY <4>3 DEF IInv, HelperLife, Keeps
        <4> QED
          BY <1>3, <4>2, <4>4, SlotKinds
      <3> QED
        BY <3>1, <3>2
    <2>2. \A o \in Ops : helper_'[o] \in Helpers /\ ~Gone(o)' =>
            /\ life'[o] # "free" /\ life'[helper_'[o]] # "free"
            /\ op_'[helper_'[o]] = o /\ ~Listed(helper_[o])'
      BY <1>6 DEF IInv, HelperLife, memVars, helperVars, Listed, Waiting
    <2> QED
      BY <2>1, <2>2 DEF IInv, HelperLife, memVars, helperVars
  <1>16. TopIsPlaced' /\ FinishOpen' /\ Settled'
    <2>1. TopIsPlaced'
      BY <1>8 DEF IInv, TopIsPlaced, memVars, Placed
    <2>2. FinishOpen'
      <3> SUFFICES ASSUME NEW u \in Threads, Finishing(u)', helper_[op_[fin[u]]] = Null
                   PROVE  Placed(fin[u])
        BY <1>8 DEF FinishOpen, memVars, helperVars, Placed
      <3> QED
        BY <1>9 DEF IInv, FinishOpen
    <2>3. Settled'
      BY <1>8 DEF IInv, Settled, memVars
    <2> QED
      BY <2>1, <2>2, <2>3
  <1> QED
    BY <1>10, <1>11, <1>12, <1>13, <1>14, <1>15, <1>16 DEF Sharing

(* A record in the table of announcements belongs to its thread; a Helper  *)
(* at the top is one whose thread, the only other one, is in finish: it    *)
(* deletes nothing.                                                        *)
LEMMA GrantIsSafe ==
  ASSUME IInv, NumThreads <= 2, NEW t \in Threads, hpc[t] = "validate",
         elem[t] \in IF slot[t] = SHORTUSE THEN Helpers ELSE Ops,
         elem[t] = IF slot[t] = PROG_ASSUR THEN op_table_[help_id[t]] ELSE elem[t],
         slot[t] # PROG_ASSUR => lst_ = Expected(t)
  PROVE  /\ life[elem[t]] # "free"
         /\ \A u \in Threads : Scanning(u) => Scanned(u) # elem[t]
         /\ \A u \in Threads : hpc[u] = "on_is_watched" /\ Scanned(u) \in Ops =>
              helper_[Scanned(u)] # elem[t]
         /\ \A u \in Threads : Unplaced(u) => helper[u] # elem[t]
         /\ slot[t] = SHORTUSE2 /\ helper_[op_[fin[t]]] = Null => Placed(fin[t])
  <1> DEFINE e == elem[t]
  <1>1. ControlOf(t) /\ ProtocolOf(t)
    BY DEF IInv, Control, WatchProtocol
  <1>2. /\ slot[t] \in Slots /\ help_id[t] \in Threads
        /\ slot[t] # PROG_ASSUR => pc[t] = "load"
    BY <1>1 DEF IInv, Types, ControlOf, Calling
  <1>3. ~Scanning(t) /\ (slot[t] # PROG_ASSUR => ~OwnFinish(t))
    BY <1>2 DEF Scanning, OwnFinish, Finish
  <1>4. e \in Ops =>
          /\ \A u \in Threads : Unplaced(u) => helper[u] # e
          /\ \A u \in Threads : hpc[u] = "on_is_watched" /\ Scanned(u) \in Ops =>
               helper_[Scanned(u)] # e
    <2> SUFFICES ASSUME e \in Ops
                 PROVE  /\ \A u \in Threads : Unplaced(u) => helper[u] # e
                        /\ \A o \in Ops : helper_[o] # e
      OBVIOUS
    <2>1. e \notin Helpers /\ e # Null /\ e # Fail
      BY Kinds, FailAssumption DEF Shared, Pointers
    <2> QED
      BY <2>1 DEF IInv, Types, Unplaced
  <1>5. CASE slot[t] = PROG_ASSUR
    <2>1. e \in Ops /\ e # Null /\ op_table_[help_id[t]] = e
      BY <1>5, SlotKinds, Kinds DEF Shared
    <2>2. Owning(help_id[t]) = e
      BY <2>1 DEF Owning
    <2>3. life[e] # "free" /\ ~Listed(e)
      BY <1>2, <2>1, <2>2 DEF IInv, Owners
    <2>4. \A u \in Threads : Scanning(u) => Scanned(u) # e
      BY <2>3, ScannedWaits DEF IInv
    <2> QED
      BY <1>4, <1>5, <2>1, <2>3, <2>4, SlotKinds
  <1>6. CASE slot[t] = SHORTUSE
    <2>1. e \in Helpers /\ Placed(e)
      <3>1. e \in Helpers /\ lst_ = e
        BY <1>6, SlotKinds DEF Expected
      <3> QED
        BY <3>1 DEF IInv, TopIsPlaced
    <2>2. \A u \in Threads : ~Scanning(u)
      BY <1>3, <1>6, <2>1, NobodyScans, SlotKinds
    <2>3. life[e] # "free" /\ \A u \in Threads : Unplaced(u) => helper[u] # e
      BY <2>1, PlacedIsOwned
    <2> QED
      BY <1>6, <2>2, <2>3, SlotKinds DEF Scanning
  <1>7. CASE slot[t] = SHORTUSE2
    <2>1. /\ e \in Ops /\ fin[t] \in Helpers /\ e = op_[fin[t]] /\ Placed(fin[t])
      <3>1. Meeting(t) /\ lst_ = fin[t] /\ e \in Ops
        BY <1>7, SlotKinds DEF Meeting, Expected
      <3>2. e = op_[fin[t]] /\ fin[t] \in Helpers
        BY <1>1, <3>1, MetIsKept DEF ProtocolOf, Met
      <3> QED
        BY <3>1, <3>2 DEF IInv, TopIsPlaced
    <2>2. \A u \in Threads : ~Scanning(u)
      BY <1>3, <1>7, <2>1, NobodyScans, SlotKinds
    <2>3. PICK w \in Threads : op[w] # Null /\ op_[fin[t]] = op[w]
      BY <2>1, PlacedIsOwned
    <2>4. life[e] # "free"
      BY <2>1, <2>3, RunningIsKept
    <2> QED
      BY <1>4, <2>1, <2>2, <2>4 DEF Scanning
  <1> QED
    BY <1>2, <1>5, <1>6, <1>7 DEF Slots

LEMMA ValidateKeeps ==
  ASSUME IInv, NumThreads <= 2, NEW t \in Threads, Validate(t)
  PROVE  IInv'
  <1> DEFINE e == elem[t]
             s == slot[t]
  <1>1. /\ hpc[t] = "validate" /\ Calling(t)
        /\ UNCHANGED <<life, watches, element_list, slot, elem, pos, idx, leaving, paVars, memVars,
                       locals>>
    BY DEF Validate, ValidateRecord, WatchValidate, Calling
  <1>2. ControlOf(t) /\ ProtocolOf(t)
    BY DEF IInv, Control, WatchProtocol
  <1>3. /\ s \in Slots /\ pc[t] \in {"load", "delayed"} /\ (s # PROG_ASSUR => pc[t] = "load")
        /\ s = PROG_ASSUR => pc[t] = "delayed"
        /\ ~Held(t, s) /\ WatchedBy(t, s) = e
        /\ e \in IF s = SHORTUSE THEN Elems ELSE Ops
    BY <1>1, <1>2 DEF IInv, Types, ControlOf, ProtocolOf, Calling
  <1>4. \/ hpc' = [hpc EXCEPT ![t] = "clear"] /\ granted' = granted
        \/ /\ hpc' = [hpc EXCEPT ![t] = "on_watch"]
           /\ granted' = granted \cup {<<t, s>>}
           /\ e = IF s = PROG_ASSUR THEN op_table_[help_id[t]] ELSE e
           /\ s # PROG_ASSUR => lst_ = Expected(t)
    BY DEF Validate, ValidateRecord, WatchValidate, StillThere
  <1>5. /\ \A u, r : WatchedBy(u, r)' = WatchedBy(u, r)
        /\ \A u, r : <<u, r>> # <<t, s>> => (Held(u, r)' <=> Held(u, r))
        /\ \A r : Held(t, r) => Held(t, r)'
    BY <1>1, <1>4 DEF WatchedBy, Held
  <1>6. Elsewhere(t)
    BY <1>1, <1>4, <1>5 DEF Elsewhere, IInv, Types, paVars, locals
  <1>7. Types'
    <2>1. hpc' \in [Threads -> {"out", "store", "validate", "on_watch", "clear",
                               "contains", "on_is_watched"}]
      BY <1>4 DEF IInv, Types
    <2> QED
      BY <1>1, <2>1 DEF IInv, Types, paVars, memVars, helperVars, locals
  <1>8. /\ hpc'[t] \in {"clear", "on_watch"} /\ pc'[t] = pc[t] /\ slot'[t] = s /\ elem'[t] = e
        /\ fin'[t] = fin[t]
    BY <1>1, <1>4 DEF IInv, Types, locals
  <1>9. ControlOf(t)'
    BY <1>1, <1>2, <1>3, <1>8 DEF ControlOf, Calling, Scanning, Finish, locals
  <1>10. /\ Owning(t)' = Owning(t)
         /\ op_table_'[t] # Null => op'[t] = op_table_'[t] /\ pc'[t] \notin {"announce", "result"}
         /\ op_table_[t] # Null => op[t] # Null
         /\ OwnFinish(t)' <=> OwnFinish(t)
         /\ Unplaced(t)' => Unplaced(t)
         /\ Past(t)' <=> Past(t)
    BY <1>1, Kinds DEF Owning, IInv, Owners, Types, paVars, locals, OwnFinish, Unplaced, Past, Shared
  <1>11. CASE hpc'[t] = "clear"
    <2>1. /\ granted' = granted
          /\ \A u, r : Held(u, r)' <=> Held(u, r)
          /\ \A u, r, p : Keeps(u, r, p)' <=> Keeps(u, r, p)
      <3>1. granted' = granted
        BY <1>4, <1>11 DEF IInv, Types
      <3> QED
        BY <1>1, <3>1, WatchesStay
    <2>2. ProtocolOf(t)'
      BY <1>1, <1>2, <1>3, <1>5, <1>8, <1>11, <2>1
         DEF ProtocolOf, Calling, Meeting, Foreign, Finish, paVars, memVars, locals
    <2>3. ~Finishing(t)'
      BY <1>3, <1>8, <1>11 DEF Finishing, Foreign, Finish
    <2>4. Sharing'
      BY <1>1, <1>6, <1>8, <1>10, <1>11, <2>1, <2>3, QuietKeeps DEF memVars, helperVars, locals
    <2> QED
      BY <1>1, <1>6, <1>7, <1>9, <2>2, <2>4, Together DEF memVars, helperVars
  <1>12. CASE hpc'[t] = "on_watch"
    <2>1. /\ hpc' = [hpc EXCEPT ![t] = "on_watch"]
          /\ granted' = granted \cup {<<t, s>>}
          /\ e = IF s = PROG_ASSUR THEN op_table_[help_id[t]] ELSE e
          /\ s # PROG_ASSUR => lst_ = Expected(t)
      BY <1>4, <1>12 DEF IInv, Types
    <2>2. Held(t, s)'
      BY <1>1, <2>1 DEF Held
    <2>3. \A r : r # s => (Held(t, r)' <=> Held(t, r))
      BY <1>5
    <2>4. ProtocolOf(t)'
      <3>1. /\ s # SHORTUSE => (Held(t, SHORTUSE)' <=> Held(t, SHORTUSE))
            /\ s # SHORTUSE2 => (Held(t, SHORTUSE2)' <=> Held(t, SHORTUSE2))
            /\ s # PROG_ASSUR => (Held(t, PROG_ASSUR)' <=> Held(t, PROG_ASSUR))
            /\ WatchedBy(t, SHORTUSE)' = WatchedBy(t, SHORTUSE)
            /\ WatchedBy(t, slot[t])' = e
            /\ Held(t, slot[t])'
        <4>1. slot'[t] = s /\ WatchedBy(t, s)' = WatchedBy(t, s)
          BY <1>5, <1>8
        <4> QED
          BY <1>1, <1>3, <1>5, <2>2, <2>3, <4>1 DEF WatchedBy, Held
      <3>2. Meeting(t)' => Keeps(t, SHORTUSE, fin[t])' /\ elem'[t] = op_'[fin'[t]]
        <4> SUFFICES ASSUME Meeting(t)'
                     PROVE  Keeps(t, SHORTUSE, fin[t])' /\ elem'[t] = op_'[fin'[t]]
          OBVIOUS
        <4>1. Meeting(t) /\ s = SHORTUSE2
          BY <1>1, <1>8 DEF Meeting
        <4>2. Keeps(t, SHORTUSE, fin[t]) /\ e = op_[fin[t]]
          BY <1>2, <4>1 DEF ProtocolOf
        <4> QED
          BY <1>1, <1>8, <3>1, <4>1, <4>2, SlotKinds DEF Keeps, memVars, helperVars, locals
      <3>3. ~Foreign(t)'
        BY <1>3, <1>8 DEF Foreign, Finish
      <3>4. s = PROG_ASSUR => op_table_'[t] = Null
        BY <1>1, <1>2, <1>3, <1>10 DEF ControlOf, paVars
      <3> QED
        BY <1>1, <1>2, <1>3, <1>8, <1>12, <3>1, <3>2, <3>3, <3>4, SlotKinds
           DEF ProtocolOf, Calling, Foreign, Finish, paVars, locals
    <2>5. CASE e \in IF s = SHORTUSE THEN Helpers ELSE Ops
      <3>1. /\ life[e] # "free"
            /\ \A u \in Threads : Scanning(u) => Scanned(u) # e
            /\ \A u \in Threads : hpc[u] = "on_is_watched" /\ Scanned(u) \in Ops =>
                 helper_[Scanned(u)] # e
            /\ \A u \in Threads : Unplaced(u) => helper[u] # e
            /\ s = SHORTUSE2 /\ helper_[op_[fin[t]]] = Null => Placed(fin[t])
        BY <1>1, <2>1, <2>5, GrantIsSafe
      <3>2. e \in Shared
        BY <2>5 DEF Shared
      <3>3. Sharing'
        BY <1>1, <1>3, <1>6, <2>1, <2>5, <3>1, <3>2, GrantKeeps DEF locals
      <3> QED
        BY <1>1, <1>6, <1>7, <1>9, <2>4, <3>3, Together DEF memVars, helperVars
    <2>6. CASE ~(e \in IF s = SHORTUSE THEN Helpers ELSE Ops)
      <3>1. s = SHORTUSE /\ e \notin Helpers
        BY <1>3, <2>6
      <3>2. \A r \in Slots : \A p : Keeps(t, r, p)' <=> Keeps(t, r, p)
        BY <1>3, <1>5, <2>3, <3>1 DEF Keeps
      <3>3. ~Finishing(t)'
        BY <1>3, <1>8, <3>1, SlotKinds DEF Finishing, Foreign, Finish
      <3>4. Sharing'
        BY <1>1, <1>6, <1>8, <1>10, <3>2, <3>3, SlotKinds, QuietKeeps
           DEF memVars, helperVars, locals
      <3> QED
        BY <1>1, <1>6, <1>7, <1>9, <2>4, <3>4, Together DEF memVars, helperVars
    <2> QED
      BY <2>5, <2>6
  <1> QED
    BY <1>8, <1>11, <1>12

-----------------------------------------------------------------------------
(* The invariant holds                                                     *)

LEMMA InitHolds == Init => IInv
  <1> SUFFICES ASSUME Init PROVE IInv
    OBVIOUS
  <1>1. /\ 0 \in Threads /\ SHORTUSE = 0 /\ NumSlots \in Nat /\ 0 \in 0 .. (NumSlots - 1)
        /\ 0 \in 0 .. NumSlots
    BY NumThreadsAssumption, NumSlotsPositive DEF Threads, SHORTUSE
  <1>2. Types
    <2>1. hpc \in [Threads -> {"out", "store", "validate", "on_watch", "clear",
                              "contains", "on_is_watched"}] /\ slot \in [Threads -> Slots]
      BY <1>1, SlotKinds DEF Init, HPInit
    <2>2. element_list \in [Threads -> Seq(Elems)] /\ life \in [Elems -> {"free", "private", "live", "retired"}]
      BY DEF Init, HPInit
    <2>3. /\ watches \in [0 .. (NumSlots - 1) -> Pointers] /\ elem \in [Threads -> Pointers]
          /\ lst_ \in Pointers
      BY DEF Init, HPInit, Pointers
    <2>4. pos \in [Threads -> Nat] /\ idx \in [Threads -> 0 .. (NumSlots - 1)]
          /\ hidx \in [Threads -> 0 .. NumSlots] /\ leaving = [t \in Threads |-> FALSE]
      BY <1>1 DEF Init, HPInit
    <2>5. op_table_ \in [Threads -> Ops \cup {Null}] /\ help_id \in [Threads -> Threads]
      BY <1>1 DEF Init, PAInit
    <2>6. /\ next_ \in [Nodes -> Nodes \cup Ops \cup {Null}]
          /\ elem_ \in [Ops -> Nodes \cup {Null}]
          /\ helper_ \in [Ops -> Helpers \cup {Null, Fail}]
          /\ op_ \in [Helpers -> Ops \cup {Null}]
          /\ old_value_ \in [Helpers -> Nodes \cup {Null}]
          /\ new_value_ \in [Helpers -> Nodes \cup Ops \cup {Null}]
      BY DEF Init
    <2>7. /\ pc \in [Threads -> PCs]
          /\ node \in [Threads -> Nodes \cup {Null}]
          /\ op \in [Threads -> Ops \cup {Null}]
          /\ helper \in [Threads -> Helpers \cup {Null}]
          /\ cur \in [Threads -> Nodes \cup {Null}]
          /\ nxt \in [Threads -> Nodes \cup Ops \cup {Null}]
          /\ fin \in [Threads -> Helpers \cup {Null}]
      BY DEF Init, PCs
    <2> QED
      BY <2>1, <2>2, <2>3, <2>4, <2>5, <2>6, <2>7 DEF Types
  <1>3. \A t \in Threads : /\ hpc[t] = "out" /\ pc[t] = "idle" /\ op[t] = Null
                           /\ helper[t] = Null /\ hidx[t] = 0 /\ op_table_[t] = Null
                           /\ element_list[t] = <<>>
    BY DEF Init, HPInit, PAInit
  <1>4. \A t, s : ~Held(t, s)
    BY DEF Init, HPInit, Held
  <1>5. \A e : ~Listed(e)
    BY <1>3 DEF Listed, Waiting, Range
  <1>6. /\ \A o \in Ops : helper_[o] = Null
        /\ \A e \in Elems : life[e] = "free"
        /\ lst_ = Null /\ Shared \subseteq Elems /\ Null \notin Shared
    BY Kinds DEF Init, HPInit
  <1>7. Control
    BY <1>3 DEF Control, ControlOf, Calling, Scanning, Finish
  <1>8. \A t \in Threads : /\ ~Meeting(t) /\ ~Foreign(t) /\ ~Finishing(t) /\ ~Scanning(t)
                           /\ ~Unplaced(t) /\ Owning(t) = Null /\ ~Past(t)
    BY <1>3 DEF Meeting, Foreign, Finishing, Scanning, Unplaced, Owning, Past, OwnFinish, Finish
  <1>9. WatchProtocol
    BY <1>3, <1>4, <1>8 DEF WatchProtocol, ProtocolOf, Calling
  <1>10. \A t, s, e : ~Keeps(t, s, e)
    BY <1>4 DEF Keeps
  <1>11. Owners /\ HeldIsNotFree /\ ScanMissesNoGrant /\ StrongWatch
    BY <1>3, <1>8, <1>10 DEF Owners, HeldIsNotFree, ScanMissesNoGrant, StrongWatch
  <1>12. Lists
    BY <1>3, <1>5 DEF Lists, Waiting, Range
  <1>13. HelperLife
    <2>1. Helpers \subseteq Elems /\ Null \notin Helpers
      BY <1>6 DEF Shared
    <2> QED
      BY <1>3, <1>6, <1>8, <2>1 DEF HelperLife
  <1>14. TopIsPlaced /\ FinishOpen /\ Settled
    BY <1>3, <1>6, <1>8 DEF TopIsPlaced, FinishOpen, Settled, Shared
  <1> QED
    BY <1>2, <1>7, <1>9, <1>11, <1>12, <1>13, <1>14 DEF IInv

(* Nothing of what the invariant reads changes.                            *)
LEMMA StutterKeeps ==
  ASSUME IInv, UNCHANGED vars
  PROVE  IInv'
  <1>1. UNCHANGED <<life, watches, element_list, hpc, slot, elem, pos, idx, leaving, granted,
                    op_table_, help_id, lst_, next_, elem_, helper_, op_, old_value_, new_value_,
                    pc, node, op, helper, cur, nxt, fin, hidx>>
    BY DEF vars, hpVars, paVars, memVars, helperVars, locals
  <1>2. /\ Types' /\ Control' /\ WatchProtocol'
    BY <1>1 DEF IInv, Types, Control, ControlOf, Calling, Scanning, Scanned, WatchProtocol,
                ProtocolOf, Held, Keeps, WatchedBy, Foreign, Meeting
  <1>3. /\ \A t, s, e : Keeps(t, s, e)' <=> Keeps(t, s, e)
        /\ \A e : Listed(e)' <=> Listed(e)
        /\ \A t \in Threads : Owning(t)' = Owning(t)
        /\ \A o : Gone(o)' <=> Gone(o)
        /\ \A t : Scanned(t)' = Scanned(t)
        /\ \A t : Waiting(t)' = Waiting(t)
    BY <1>1 DEF Keeps, Held, WatchedBy, Listed, Waiting, Owning, Gone, Scanned
  <1>4. Owners'
    <2>1. \A t \in Threads : Keeps(t, PROG_ASSUR, op[t]) => Keeps(t, PROG_ASSUR, op[t])'
      BY <1>1 DEF Keeps, Held, WatchedBy
    <2>2. \A t \in Threads : Listed(Owning(t))' <=> Listed(Owning(t))
      BY <1>1, <1>3 DEF Listed, Waiting
    <2> QED
      BY <1>1, <1>3, <2>1, <2>2 DEF IInv, Owners
  <1>5. HeldIsNotFree' /\ ScanMissesNoGrant' /\ StrongWatch'
    BY <1>1 DEF IInv, HeldIsNotFree, ScanMissesNoGrant, StrongWatch, Keeps, Held, WatchedBy,
                Scanning, Scanned
  <1>6. Lists'
    BY <1>1 DEF IInv, Lists, Listed, Waiting
  <1>7. HelperLife'
    BY <1>1 DEF IInv, HelperLife, Unplaced, OwnFinish, Gone, Scanned, Keeps, Held, WatchedBy,
                Listed, Waiting
  <1>8. TopIsPlaced' /\ FinishOpen' /\ Settled'
    BY <1>1 DEF IInv, TopIsPlaced, FinishOpen, Settled, Placed, OwnFinish, Finishing, Foreign, Past
  <1> QED
    BY <1>2, <1>4, <1>5, <1>6, <1>7, <1>8 DEF IInv

LEMMA NextKeeps ==
  ASSUME IInv, NumThreads <= 2, [Next]_vars
  PROVE  IInv'
  <1>1. CASE UNCHANGED vars
    BY <1>1, StutterKeeps
  <1>2. CASE Finished
    BY <1>2, StutterKeeps DEF Finished
  <1>3. ASSUME NEW t \in Threads, CallPush(t) \/ CallPop(t) \/ Step(t)
        PROVE  IInv'
    <2>1. CASE CallPush(t) \/ CallPop(t)
      BY <2>1, CallPushKeeps, CallPopKeeps
    <2>2. CASE Check(t) \/ NextRound(t) \/ NewOp(t) \/ AnnounceOp(t)
      BY <2>2, CheckKeeps, NextRoundKeeps, NewOpKeeps, AnnounceOpKeeps
    <2>3. CASE Load(t) \/ LoadNull(t) \/ ReadNext(t) \/ CasPush(t) \/ CasPop(t) \/ Value(t)
      BY <2>3, LoadKeeps, LoadNullKeeps, ReadNextKeeps, CasPushKeeps, CasPopKeeps, ValueKeeps
    <2>4. CASE NewHelper(t) \/ NotDone(t) \/ FailPop(t) \/ Place(t)
      BY <2>4, NewHelperKeeps, NotDoneKeeps, FailPopKeeps, PlaceKeeps
    <2>5. CASE Associate(t) \/ SetNext(t) \/ Install(t) \/ NotValid(t) \/ UnwatchRecord(t)
      BY <2>5, AssociateKeeps, SetNextKeeps, InstallKeeps, NotValidKeeps, UnwatchRecordKeeps
    <2>6. CASE LeaveScope(t) \/ Helped(t) \/ Result(t) \/ Return(t)
      BY <2>6, LeaveScopeKeeps, HelpedKeeps, ResultKeeps, ReturnKeeps
    <2>7. CASE Store(t) \/ Validate(t) \/ NotWatched(t)
      BY <2>7, StoreKeeps, ValidateKeeps, NotWatchedKeeps
    <2>8. CASE RecordWatched(t) \/ OnWatchHelper(t) \/ HelperWatched(t) \/ NodeWatched(t)
      BY <2>8, RecordWatchedKeeps, OnWatchHelperKeeps, HelperWatchedKeeps, NodeWatchedKeeps
    <2>9. CASE Scan(t) \/ NotHeld(t) \/ ScanHelper(t) \/ DeleteOp(t)
      BY <2>9, ScanKeeps, NotHeldKeeps, ScanHelperKeeps, DeleteOpKeeps
    <2> QED
      BY <1>3, <2>1, <2>2, <2>3, <2>4, <2>5, <2>6, <2>7, <2>8, <2>9 DEF Step, InLibrary
  <1> QED
    BY <1>1, <1>2, <1>3 DEF Next

(* Where each thread is, what it watches, who owns each record and each    *)
(* Helper and which scans have passed what: the argument of all that       *)
(* follows.                                                                *)
THEOREM Invariance ==
  ASSUME NumThreads <= 2
  PROVE  Spec => []IInv
  <1>1. IInv /\ [Next]_vars => IInv'
    BY NextKeeps
  <1> QED
    BY <1>1, InitHolds, PTL DEF Spec

-----------------------------------------------------------------------------
(* What it means                                                           *)

(* No thread reads a record or a Helper that was deleted: at every step of *)
(* help_complete and of finish, for two threads (progress_assurance.cc:45, *)
(* helper.h:50, stack_op.h:101-109).                                       *)
THEOREM NothingDeletedIsRead ==
  ASSUME NumThreads <= 2
  PROVE  Spec => []RecordsOutliveHelp
  <1>1. IInv => RecordsOutliveHelp
    <2> SUFFICES ASSUME IInv, NEW t \in Threads, NEW e \in InUse(t)
                 PROVE  life[e] # "free"
      BY DEF RecordsOutliveHelp
    <2>1. CASE pc[t] \in {"help", "not_done", "fail", "not_valid"}
      <3>1. e = op[t] /\ op[t] # Null
        BY <2>1 DEF InUse, IInv, Control, ControlOf
      <3> QED
        BY <3>1, RunningIsKept
    <2>2. CASE pc[t] \in Finish
      <3>1. e \in {fin[t], op_[fin[t]]}
        BY <2>2 DEF InUse, Finish
      <3>2. CASE Foreign(t)
        BY <3>1, <3>2, FinishingKeeps DEF Finishing
      <3>3. CASE OwnFinish(t)
        <4>1. fin[t] \in Helpers /\ Placed(fin[t])
          BY <2>2, <3>3 DEF IInv, Types, Control, ControlOf, OwnFinish, Placed
        <4>2. PICK u \in Threads : op[u] # Null /\ op_[fin[t]] = op[u]
          BY <4>1, PlacedIsOwned
        <4> QED
          BY <3>1, <4>1, <4>2, PlacedIsOwned, RunningIsKept
      <3> QED
        BY <2>2, <3>2, <3>3 DEF Foreign, OwnFinish
    <2>3. CASE pc[t] \notin {"help", "not_done", "fail", "not_valid"} \cup Finish
      BY <2>3 DEF InUse, Finish
    <2> QED
      BY <2>1, <2>2, <2>3
  <1> QED
    BY <1>1, Invariance, PTL

(* make_announcement withdraws an operation only when somebody has         *)
(* executed it (progress_assurance.h:193).                                 *)
THEOREM WithdrawnIsDone ==
  ASSUME NumThreads <= 2
  PROVE  Spec => []DoneWhenWithdrawn
  <1>1. IInv => DoneWhenWithdrawn
    <2> SUFFICES ASSUME IInv, NEW t \in Threads, pc[t] = "result"
                 PROVE  helper_[op[t]] # Null
      BY DEF DoneWhenWithdrawn
    <2>1. op[t] # Null /\ Past(t)
      BY DEF IInv, Control, ControlOf, Past
    <2> QED
      BY <2>1 DEF IInv, Settled
  <1> QED
    BY <1>1, Invariance, PTL

(* A thread that has left finish finds its Helper out of the list: the     *)
(* assert of stack_op.h:160 and 219.                                       *)
THEOREM TheHelperIsOut ==
  ASSUME NumThreads <= 2
  PROVE  Spec => []HelperLeaves
  <1>1. IInv => HelperLeaves
    <2> SUFFICES ASSUME IInv, NEW t \in Threads, pc[t] = "not_valid", lst_ = helper[t]
                 PROVE  FALSE
      BY DEF HelperLeaves
    <2>1. helper[t] \in Helpers
      BY DEF IInv, Types, Control, ControlOf
    <2>2. Placed(helper[t])
      BY <2>1 DEF IInv, TopIsPlaced
    <2>3. OwnFinish(t)
      BY <2>1, <2>2, PlacedIsOwned
    <2> QED
      BY <2>3 DEF OwnFinish, Finish
  <1> QED
    BY <1>1, Invariance, PTL

(* A record that is associated and waits for nobody: its Helper is its     *)
(* own, is nobody's to delete, and no scan is at either of the two.        *)
LEMMA DecidedIsKept ==
  ASSUME IInv, NEW o \in Ops, NEW h \in Helpers,
         helper_[o] = h, life[o] # "free", ~Deleting(o)
  PROVE  /\ life[h] # "free" /\ op_[h] = o
         /\ \A t \in Threads : Unplaced(t) => helper[t] # h
         /\ \A t \in Threads : Scanning(t) => Scanned(t) # o /\ Scanned(t) # h
         /\ \A t \in Threads : hpc[t] = "on_is_watched" /\ hidx[t] < NumSlots
              /\ Scanned(t) \in Ops => helper_[Scanned(t)] # h
  <1>1. ~Listed(o)
    BY DEF Deleting, Listed, Waiting, ToSet, Range
  <1>2. \A t \in Threads : Scanning(t) => Scanned(t) # o
    BY <1>1, ScannedWaits DEF IInv
  <1>3. ~Gone(o)
    BY <1>2 DEF Gone, Scanning
  <1>4. life[h] # "free" /\ op_[h] = o /\ ~Listed(h)
    BY <1>3 DEF IInv, HelperLife
  <1>5. \A t \in Threads : Scanning(t) => Scanned(t) # h
    BY <1>4, ScannedWaits DEF IInv
  <1>6. \A t \in Threads : Unplaced(t) => helper[t] # h
    BY <1>3 DEF IInv, HelperLife
  <1>7. ASSUME NEW t \in Threads, hpc[t] = "on_is_watched", hidx[t] < NumSlots,
               Scanned(t) \in Ops, helper_[Scanned(t)] = h
        PROVE  FALSE
    <2> DEFINE p == Scanned(t)
    <2>1. ~Gone(p)
      <3> SUFFICES ASSUME NEW u \in Threads, hpc[u] = "on_is_watched", Scanned(u) = p,
                          hidx[u] = NumSlots
                   PROVE  FALSE
        BY DEF Gone
      <3>1. p \in Waiting(u) /\ p \in Waiting(t) /\ p \in Shared
        BY <1>7, ScannedWaits DEF IInv, Scanning, Shared
      <3>2. u = t
        BY <3>1 DEF IInv, Lists
      <3>3. NumSlots \in Nat
        BY NumSlotsPositive
      <3> QED
        BY <1>7, <3>2, <3>3
    <2>2. op_[h] = p
      BY <1>7, <2>1 DEF IInv, HelperLife
    <2> QED
      BY <1>2, <1>4, <1>7, <2>2 DEF Scanning
  <1> QED
    BY <1>2, <1>4, <1>5, <1>6, <1>7

LEMMA DecidedStays ==
  ASSUME IInv, NEW t \in Threads, CallPush(t) \/ CallPop(t) \/ Step(t),
         NEW o \in Ops, NEW h \in Helpers, helper_[o] = h, life[o] # "free", ~Deleting(o)
  PROVE  helper_'[o] = h /\ old_value_'[h] = old_value_[h]
  <1> DEFINE Stay == helper_'[o] = h /\ old_value_'[h] = old_value_[h]
  <1>1. /\ life[h] # "free" /\ op_[h] = o
        /\ \A u \in Threads : Unplaced(u) => helper[u] # h
        /\ \A u \in Threads : Scanning(u) => Scanned(u) # o /\ Scanned(u) # h
        /\ hpc[t] = "on_is_watched" /\ hidx[t] < NumSlots /\ Scanned(t) \in Ops
             => helper_[Scanned(t)] # h
    BY DecidedIsKept
  <1>2. /\ helper_ \in [Ops -> Helpers \cup {Null, Fail}]
        /\ old_value_ \in [Helpers -> Nodes \cup {Null}]
        /\ ControlOf(t) /\ o # Null /\ h # Null /\ o \notin Nodes /\ h \notin Nodes
    BY Kinds DEF IInv, Types, Control, Shared
  <1>3. helper_' = helper_ /\ old_value_' = old_value_ => Stay
    OBVIOUS
  <1>4. CASE CallPush(t) \/ CallPop(t) \/ Check(t) \/ NextRound(t) \/ AnnounceOp(t)
    BY <1>3, <1>4 DEF CallPush, CallPop, Check, NextRound, AnnounceOp, memVars, helperVars
  <1>5. CASE NewOp(t)
    <2>1. PICK p \in Ops : Available(p) /\ helper_' = [helper_ EXCEPT ![p] = Null]
      BY <1>5 DEF NewOp
    <2>2. p # o
      BY <2>1, Kinds DEF Available
    <2> QED
      BY <1>2, <1>5, <2>1, <2>2 DEF NewOp, helperVars
  <1>6. CASE Load(t) \/ LoadNull(t) \/ ReadNext(t) \/ CasPush(t) \/ CasPop(t) \/ Value(t)
    BY <1>3, <1>6 DEF Load, LoadNull, ReadNext, CasPush, CasPop, Value, memVars, helperVars
  <1>7. CASE NewHelper(t)
    <2>1. PICK g \in Helpers : Available(g) /\ old_value_' = [old_value_ EXCEPT ![g] = Null]
      BY <1>7 DEF NewHelper
    <2>2. g # h
      BY <1>1, <2>1, Kinds DEF Available
    <2> QED
      BY <1>2, <1>7, <2>1, <2>2 DEF NewHelper
  <1>8. CASE NotDone(t) \/ FailPop(t)
    <2>1. pc[t] \in {"not_done", "fail"} /\ helper[t] # h
      <3>1. pc[t] \in {"not_done", "fail"} /\ Unplaced(t)
        BY <1>2, <1>8 DEF NotDone, FailPop, At, ControlOf, Unplaced, OwnFinish, Finish
      <3> QED
        BY <1>1, <3>1
    <2>2. old_value_' = old_value_ \/ old_value_' = [old_value_ EXCEPT ![helper[t]] = Null]
      BY <1>8 DEF NotDone, FailPop, DeleteHelper, Scrub, helperVars
    <2>3. helper_'[o] = h
      BY <1>2, <1>8 DEF NotDone, FailPop
    <2> QED
      BY <1>2, <2>1, <2>2, <2>3
  <1>9. CASE Place(t)
    <2>1. helper[t] # h
      <3>1. Unplaced(t)
        BY <1>2, <1>9 DEF Place, At, Helping, ControlOf, Unplaced, OwnFinish, Finish
      <3> QED
        BY <1>1, <3>1
    <2> QED
      BY <1>2, <1>9, <2>1 DEF Place
  <1>10. CASE Associate(t)
    <2>1. \/ helper_' = helper_
          \/ /\ helper_[op_[fin[t]]] = Null
             /\ helper_' = [helper_ EXCEPT ![op_[fin[t]]] = fin[t]]
      BY <1>10 DEF Associate, Associates
    <2> QED
      BY <1>2, <1>10, <2>1 DEF Associate, helperVars
  <1>11. CASE SetNext(t) \/ Install(t) \/ NotValid(t) \/ UnwatchRecord(t)
    BY <1>3, <1>11 DEF SetNext, Install, NotValid, UnwatchRecord, memVars, helperVars
  <1>12. CASE LeaveScope(t) \/ Helped(t) \/ Result(t) \/ Return(t)
    BY <1>3, <1>12 DEF LeaveScope, Helped, Result, Return, memVars, helperVars
  <1>13. CASE Store(t) \/ Validate(t) \/ NotWatched(t) \/ Scan(t)
    BY <1>3, <1>13 DEF Store, Validate, ValidateRecord, NotWatched, Scan, memVars, helperVars
  <1>14. CASE RecordWatched(t) \/ OnWatchHelper(t) \/ HelperWatched(t) \/ NodeWatched(t)
    BY <1>3, <1>14 DEF RecordWatched, OnWatchHelper, HelperWatched, NodeWatched, memVars, helperVars
  <1>15. CASE NotHeld(t)
    <2>1. Scanned(t) # h
      BY <1>1, <1>15 DEF NotHeld, Scanning
    <2>2. old_value_' = old_value_ \/ old_value_' = [old_value_ EXCEPT ![Scanned(t)] = Null]
      BY <1>15 DEF NotHeld, Scrub, helperVars
    <2> QED
      BY <1>2, <1>15, <2>1, <2>2 DEF NotHeld
  <1>16. CASE ScanHelper(t)
    <2>1. helper_[Scanned(t)] # h
      BY <1>1, <1>16 DEF ScanHelper
    <2>2. \/ old_value_' = old_value_
          \/ old_value_' = [old_value_ EXCEPT ![helper_[Scanned(t)]] = Null]
      BY <1>16 DEF ScanHelper, Scrub, helperVars
    <2> QED
      BY <1>2, <1>16, <2>1, <2>2 DEF ScanHelper
  <1>17. CASE DeleteOp(t)
    <2>1. Scanned(t) # o
      BY <1>1, <1>17 DEF DeleteOp, Scanning
    <2> QED
      BY <1>2, <1>17, <2>1 DEF DeleteOp, helperVars
  <1> QED
    BY <1>4, <1>5, <1>6, <1>7, <1>8, <1>9, <1>10, <1>11, <1>12, <1>13, <1>14, <1>15, <1>16, <1>17
       DEF Step, InLibrary

(* The outcome of an announced operation is decided once: until its record *)
(* is passed to safe_delete no step, of its thread, of one that helps or   *)
(* of one that scans, changes its Helper or what that Helper replaced      *)
(* (stack_op.h:62-75, read at 77-87).                                      *)
THEOREM TheOutcomeStays ==
  ASSUME NumThreads <= 2
  PROVE  Spec => DecidedOnce
  <1>1. IInv /\ [Next]_vars =>
          [\A o \in Ops, h \in Helpers :
             helper_[o] = h /\ life[o] # "free" /\ ~Deleting(o) =>
               helper_'[o] = h /\ old_value_'[h] = old_value_[h]]_vars
    <2> SUFFICES ASSUME IInv, Next, NEW o \in Ops, NEW h \in Helpers,
                        helper_[o] = h, life[o] # "free", ~Deleting(o), ~(UNCHANGED vars)
                 PROVE  helper_'[o] = h /\ old_value_'[h] = old_value_[h]
      OBVIOUS
    <2>1. PICK t \in Threads : CallPush(t) \/ CallPop(t) \/ Step(t)
      BY DEF Next, Finished
    <2> QED
      BY <2>1, DecidedStays
  <1> QED
    BY <1>1, Invariance, PTL DEF Spec, DecidedOnce
=============================================================================
