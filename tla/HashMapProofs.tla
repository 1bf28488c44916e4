---------------------------- MODULE HashMapProofs ----------------------------
(***************************************************************************)
(* Proofs about HashMap, for any number of threads, keys, values and nodes *)
(* and any widths of the arrays that keep get_position inside the key.     *)
(***************************************************************************)
EXTENDS HashMap, TLAPS, FiniteSetTheorems

(* The nodes a thread relies on: those it watches, the one its accessor    *)
(* names, and the one it lets go of or is about to retire.                 *)
Uses(t) ==
  Watches(t) \cup ({va[t]} \ {Null})
    \cup (IF At(t, "release") \/ At(t, "retire") THEN {Cur(t)} ELSE {})

(* An insert that has not put its node into the map, and will not if it    *)
(* was refused.                                                            *)
Fresh(t) ==
  /\ call[t] # Null /\ Kind(t) = "insert"
  /\ call[t].at \notin {"retire", "grow"}
  /\ call[t].at = "done" => call[t].res = "refused"

(* Who has raised the access count of a node.                              *)
Counting(n) == {t \in Threads : At(t, "uncount") /\ Cur(t) = n}
Accessing(n) == {t \in Threads : va[t] = n}
Releasing(n) == {t \in Threads : At(t, "release") /\ Cur(t) = n}
Total(n) == Cardinality(Counting(n)) + Cardinality(Accessing(n)) + Cardinality(Releasing(n))

Types ==
  /\ tree \in [Locations -> Nodes \cup {Null, "array"}]
  /\ key_ \in [Nodes -> Keys \cup {Null}]
  /\ value_ \in [Nodes -> Values \cup {Null}]
  /\ \A n \in allocated : key_[n] \in Keys /\ value_[n] \in Values
  /\ access_count_ \in [Nodes -> Int]
  /\ op_table_ \in [Threads -> Locations \cup {Null}]
  /\ call \in [Threads -> Calls \cup {Null}]
  /\ va \in [Threads -> Nodes \cup {Null}]
  /\ retired \subseteq dead /\ dead \subseteq allocated /\ allocated \subseteq Nodes

(* Where a thread is tells what it executes, where, and with which node.   *)
Sound(c) ==
  /\ c.at \in {"place", "alive", "replace", "expand", "grow"} => c.kind = "insert"
  /\ c.at \in {"count", "uncount", "release"} => c.kind = "at"
  /\ c.at \in {"kill", "shrink", "unlink"} => c.kind = "remove"
  /\ c.at = "retire" => c.kind # "at"
  /\ c.at \in {"validate", "alive", "count", "uncount", "kill", "replace", "expand", "shrink", "unlink",
               "retire", "release"} => c.cur \in Nodes
  /\ c.kind = "insert" => c.node \in Nodes /\ (c.at # "done" => c.res = Null)
  /\ c.loc = LocationOf(c.key, DepthOf(c.loc))
  /\ c.at \in {"force", "force_validate", "force_expand"} => c.force \in Locations
  /\ c.at \in {"force_validate", "force_expand"} => DepthOf(c.force) < MaxDepth

Control == \A t \in Threads : call[t] # Null => Sound(call[t])

(* What is known of the node under the watch.                              *)
Known(t) ==
  /\ At(t, "uncount") \/ At(t, "replace") \/ At(t, "shrink") \/ At(t, "unlink") \/ At(t, "retire")
       => Cur(t) \in dead
  /\ At(t, "expand") => key_[Cur(t)] # Key(t)

KnownNodes == \A t \in Threads : Known(t)

(* A location other threads can have come to: below an array.              *)
Parent(loc) == SubSeq(loc, 1, Len(loc) - 1)
Reached(loc) == DepthOf(loc) > 0 => tree[Parent(loc)] = "array"

Routes ==
  \A t \in Threads :
    /\ call[t] # Null => Reached(call[t].loc) /\ (call[t].force # Null => Reached(call[t].force))
    /\ op_table_[t] # Null => Reached(op_table_[t])

(* The map: nodes on their paths, at one place each, below arrays.         *)
Placed(loc) ==
  /\ IsNode(tree[loc]) =>
       /\ loc = LocationOf(key_[tree[loc]], DepthOf(loc))
       /\ tree[loc] \in allocated \ retired
       /\ key_[tree[loc]] \in Keys
       /\ \A other \in Locations : tree[other] = tree[loc] => other = loc
  /\ tree[loc] = "array" => DepthOf(loc) < MaxDepth
  /\ tree[loc] # Null => Reached(loc)

Paths == \A loc \in Locations : Placed(loc)

(* What a thread relies on is not freed.                                   *)
UsesAreAllocated == \A t \in Threads : Uses(t) \subseteq allocated

(* The node of an insert that has not happened is nobody else's.           *)
Private ==
  \A t \in Threads : Fresh(t) =>
    /\ call[t].node \in allocated \ dead
    /\ key_[call[t].node] = Key(t)
    /\ ~Linked(call[t].node)
    /\ \A u \in Threads : call[t].node \notin Uses(u)
    /\ \A u \in Threads : Fresh(u) /\ call[u].node = call[t].node => u = t

(* Nobody reads a dead node through an accessor.                           *)
DeadIsUnread ==
  \A t \in Threads : va[t] \notin dead /\ (At(t, "release") => Cur(t) \notin dead)

(* A node that is about to be retired is off the map, and one thread's.    *)
Retiring ==
  \A t \in Threads : At(t, "retire") =>
    /\ Cur(t) \notin retired
    /\ ~Linked(Cur(t))
    /\ \A u \in Threads : At(u, "retire") /\ Cur(u) = Cur(t) => u = t

(* The access count: who raised it, less NumThreads for the dead.          *)
Counts ==
  \A n \in allocated :
    access_count_[n] = Total(n) - (IF n \in dead THEN NumThreads ELSE 0)

IInv ==
  /\ Types
  /\ Control
  /\ KnownNodes
  /\ Routes
  /\ Paths
  /\ UsesAreAllocated
  /\ Private
  /\ DeadIsUnread
  /\ Retiring
  /\ Counts

------------------------------------------------------------------------------
(* Locations *)

LEMMA MaxDepthIsNat == MaxDepth \in Nat
  <1>1. KEY_BITS - PRIMARY_POW \in Nat /\ SECONDARY_POW \in Nat \ {0}
    BY KeysAssumption, PowAssumption
  <1>2. \A a \in Nat, b \in Nat \ {0} : a \div b \in Nat
    OBVIOUS
  <1> QED
    BY <1>1, <1>2 DEF MaxDepth

LEMMA LocationShape ==
  ASSUME NEW k \in Keys, NEW d \in Nat
  PROVE  /\ Len(LocationOf(k, d)) = d + 1
         /\ DepthOf(LocationOf(k, d)) = d
         /\ \A i \in 1 .. d + 1 : LocationOf(k, d)[i] = GetPosition(k, i - 1)
  <1> DEFINE S == {GetPosition(k, i - 1) : i \in 1 .. (d + 1)}
             loc == [i \in 1 .. (d + 1) |-> GetPosition(k, i - 1)]
  <1>1. LocationOf(k, d) = loc
    BY DEF LocationOf
  <1>2. loc \in [1 .. (d + 1) -> S]
    OBVIOUS
  <1>3. d + 1 \in Nat
    OBVIOUS
  <1>4. loc \in Seq(S) /\ Len(loc) = d + 1
    <2> HIDE DEF S
    <2> QED
      BY <1>2, <1>3
  <1> QED
    BY <1>1, <1>4 DEF DepthOf

LEMMA LocationIn ==
  ASSUME NEW k \in Keys, NEW d \in 0 .. MaxDepth
  PROVE  LocationOf(k, d) \in Locations
  BY DEF Locations

LEMMA DepthInRange ==
  ASSUME NEW loc \in Locations
  PROVE  DepthOf(loc) \in 0 .. MaxDepth
  <1>1. PICK k \in Keys, d \in 0 .. MaxDepth : loc = LocationOf(k, d)
    BY DEF Locations
  <1>2. DepthOf(LocationOf(k, d)) = d
    BY LocationShape
  <1> QED
    BY <1>1, <1>2

(* One level down and up again.                                            *)
LEMMA ParentOfDeeper ==
  ASSUME NEW k \in Keys, NEW d \in Nat
  PROVE  Parent(LocationOf(k, d + 1)) = LocationOf(k, d)
  <1> DEFINE p == Parent(LocationOf(k, d + 1))
  <1>1. Len(LocationOf(k, d + 1)) = d + 2
    BY LocationShape
  <1>2. /\ p = [i \in 1 .. d + 1 |-> LocationOf(k, d + 1)[i]]
    BY <1>1 DEF Parent
  <1>3. \A i \in 1 .. d + 1 : LocationOf(k, d + 1)[i] = GetPosition(k, i - 1)
    BY LocationShape
  <1>4. p = [i \in 1 .. d + 1 |-> GetPosition(k, i - 1)]
    BY <1>2, <1>3
  <1> QED
    BY <1>4 DEF LocationOf

LEMMA Deeper ==
  ASSUME NEW k \in Keys, NEW d \in 0 .. MaxDepth, d < MaxDepth
  PROVE  /\ LocationOf(k, d + 1) \in Locations
         /\ DepthOf(LocationOf(k, d + 1)) = d + 1
         /\ Parent(LocationOf(k, d + 1)) = LocationOf(k, d)
  BY MaxDepthIsNat, LocationIn, LocationShape, ParentOfDeeper

LEMMA ParentIn ==
  ASSUME NEW loc \in Locations, DepthOf(loc) > 0
  PROVE  Parent(loc) \in Locations
  <1>1. PICK k \in Keys, d \in 0 .. MaxDepth : loc = LocationOf(k, d)
    BY DEF Locations
  <1>2. d \in Nat /\ d > 0
    BY <1>1, LocationShape, MaxDepthIsNat
  <1>3. Parent(loc) = LocationOf(k, d - 1)
    BY <1>1, <1>2, ParentOfDeeper, d - 1 \in Nat, (d - 1) + 1 = d
  <1> QED
    <2>1. d - 1 \in 0 .. MaxDepth
      BY <1>2, MaxDepthIsNat
    <2> QED
      BY <2>1, <1>3, LocationIn

------------------------------------------------------------------------------
(* What one thread's step leaves alone *)

LEMMA CallIn ==
  ASSUME Types, NEW t \in Threads, call[t] # Null
  PROVE  call[t] \in Calls
  BY DEF Types

LEMMA OthersStay ==
  ASSUME Types, NEW t \in Threads, NEW c, Become(t, c)
  PROVE  /\ call'[t] = c
         /\ \A u \in Threads : u # t => call'[u] = call[u]
         /\ \A u \in Threads : u # t =>
              /\ \A l : At(u, l)' <=> At(u, l)
              /\ Cur(u)' = Cur(u)
              /\ Watches(u)' = Watches(u)
              /\ Fresh(u)' <=> Fresh(u)
              /\ va'[u] = va[u] => Uses(u)' = Uses(u)
  <1>1. call'[t] = c /\ \A u \in Threads : u # t => call'[u] = call[u]
    BY DEF Become, Types
  <1>2. \A u \in Threads : u # t =>
          /\ \A l : At(u, l)' <=> At(u, l)
          /\ Cur(u)' = Cur(u)
    BY <1>1 DEF At, Cur
  <1>3. \A u \in Threads : u # t => Watches(u)' = Watches(u) /\ (Fresh(u)' <=> Fresh(u))
    BY <1>1, <1>2 DEF Watches, Fresh, Kind
  <1> QED
    BY <1>1, <1>2, <1>3 DEF Uses

(* Arrays stay where they were put, so what was reached can be reached.    *)
ArraysStay == \A loc \in Locations : tree[loc] = "array" => tree'[loc] = "array"

LEMMA ReachedStays ==
  ASSUME ArraysStay, NEW loc \in Locations, Reached(loc)
  PROVE  Reached(loc)'
  BY ParentIn DEF ArraysStay, Reached

(* A step of thread t that becomes c, and neither allocates nor frees.     *)
Move(t, c) ==
  /\ Become(t, c)
  /\ UNCHANGED <<key_, allocated>>
  /\ c # Null => Sound(c) /\ Reached(c.loc)' /\ (c.force # Null => Reached(c.force)')
  /\ \/ op_table_' = op_table_
     \/ \E l \in Locations \cup {Null} :
          op_table_' = [op_table_ EXCEPT ![t] = l] /\ (l # Null => Reached(l)')
  /\ ArraysStay
  /\ Known(t)'
  /\ \A u \in Threads : u # t => va'[u] = va[u]
  /\ dead \subseteq dead' /\ dead' \subseteq dead \cup Uses(t)
  /\ \A n \in Nodes : Linked(n)' => Linked(n) \/ (Fresh(t) /\ ~Fresh(t)' /\ n = call[t].node)
  /\ Uses(t)' \subseteq Uses(t) \cup {n \in Nodes : Linked(n)}
  /\ Fresh(t)' => Fresh(t) /\ c.node = call[t].node /\ c.key = Key(t)
  /\ At(t, "retire")' =>
       /\ c.cur \notin retired'
       /\ ~Linked(c.cur)'
       /\ \A u \in Threads : u # t /\ At(u, "retire") => Cur(u) # c.cur
  /\ retired' = retired \/ (At(t, "retire") /\ retired' = retired \cup {Cur(t)})

LEMMA LinkedIsAllocated ==
  ASSUME Paths, NEW n \in Nodes, Linked(n)
  PROVE  n \in allocated \ retired
  BY DEF Paths, Placed, Linked, IsNode

LEMMA MoveKeeps ==
  ASSUME IInv, NEW t \in Threads, NEW c, Move(t, c),
         Types', Paths', DeadIsUnread', Counts'
  PROVE  IInv'
  <1> USE DEF IInv
  <1>1. /\ call'[t] = c
        /\ \A u \in Threads : u # t => call'[u] = call[u]
        /\ \A u \in Threads : u # t =>
             /\ \A l : At(u, l)' <=> At(u, l)
             /\ Cur(u)' = Cur(u)
             /\ Fresh(u)' <=> Fresh(u)
             /\ Uses(u)' = Uses(u)
    BY OthersStay DEF Move
  <1>2. Control'
    BY <1>1 DEF Control, Move
  <1>3. KnownNodes'
    <2> SUFFICES ASSUME NEW u \in Threads, u # t PROVE Known(u)'
      BY DEF KnownNodes, Move
    <2>1. Known(u) /\ Key(u)' = Key(u)
      BY <1>1 DEF KnownNodes, Key
    <2> QED
      BY <1>1, <2>1 DEF Known, Move
  <1>4. Routes'
    <2>1. \A u \in Threads : call'[u] # Null =>
            Reached(call[u].loc)' /\ (call'[u].force # Null => Reached(call[u].force)')
      <3> SUFFICES ASSUME NEW u \in Threads, call'[u] # Null
                   PROVE  Reached(call[u].loc)' /\ (call'[u].force # Null => Reached(call[u].force)')
        OBVIOUS
      <3>1. CASE u = t
        BY <1>1, <3>1 DEF Move
      <3>2. CASE u # t
        <4>1. call'[u] = call[u] /\ call[u] \in Calls
          BY <1>1, <3>2, CallIn
        <4>2. PICK l, f : l = call[u].loc /\ f = call[u].force
          OBVIOUS
        <4>3. /\ l \in Locations /\ Reached(l)
              /\ f # Null => f \in Locations /\ Reached(f)
          BY <4>1, <4>2 DEF Calls, Routes
        <4>4. Reached(l)' /\ (f # Null => Reached(f)')
          BY <4>3, ReachedStays DEF Move
        <4> QED
          BY <4>1, <4>2, <4>4
      <3> QED
        BY <3>1, <3>2
    <2>2. \A u \in Threads : op_table_'[u] # Null => Reached(op_table_[u])'
      <3> SUFFICES ASSUME NEW u \in Threads, op_table_'[u] # Null PROVE Reached(op_table_[u])'
        OBVIOUS
      <3>1. PICK l : l = op_table_'[u]
        OBVIOUS
      <3>2. op_table_[u] = l => l \in Locations /\ Reached(l)
        BY <3>1 DEF Types, Routes
      <3>3. op_table_[u] = l => Reached(l)'
        BY <3>2, ReachedStays DEF Move
      <3>4. CASE op_table_' = op_table_
        BY <3>1, <3>3, <3>4
      <3>5. CASE op_table_' # op_table_
        <4>1. PICK m \in Locations \cup {Null} :
                op_table_' = [op_table_ EXCEPT ![t] = m] /\ (m # Null => Reached(m)')
          BY <3>5 DEF Move
        <4>2. l = IF u = t THEN m ELSE op_table_[u]
          BY <3>1, <4>1 DEF Types
        <4> QED
          BY <3>1, <3>3, <4>1, <4>2
      <3> QED
        BY <3>4, <3>5
    <2> QED
      BY <2>1, <2>2 DEF Routes
  <1>5. UsesAreAllocated'
    BY <1>1, LinkedIsAllocated DEF UsesAreAllocated, Move
  <1>6. Private'
    <2> SUFFICES ASSUME NEW u \in Threads, Fresh(u)'
                 PROVE  /\ call'[u].node \in allocated' \ dead'
                        /\ key_'[call'[u].node] = Key(u)'
                        /\ ~Linked(call[u].node)'
                        /\ \A w \in Threads : call'[u].node \notin Uses(w)'
                        /\ \A w \in Threads : Fresh(w)' /\ call'[w].node = call'[u].node => w = u
      BY DEF Private
    <2>1. \A w \in Threads : Fresh(w)' => Fresh(w) /\ call'[w].node = call[w].node /\ Key(w)' = Key(w)
      BY <1>1 DEF Move, Key
    <2>2. PICK n : n = call[u].node
      OBVIOUS
    <2>3. /\ n \in allocated \ dead /\ key_[n] = Key(u) /\ ~Linked(n)
          /\ \A w \in Threads : n \notin Uses(w)
          /\ \A w \in Threads : Fresh(w) /\ call[w].node = n => w = u
      BY <2>1, <2>2 DEF Private
    <2>4. n \in Nodes
      BY <2>3 DEF Types
    <2>5. n \in allocated' \ dead' /\ key_'[n] = Key(u)'
      BY <2>1, <2>3 DEF Move
    <2>6. ~Linked(n)'
      BY <2>2, <2>3, <2>4 DEF Move
    <2>7. \A w \in Threads : n \notin Uses(w)'
      BY <1>1, <2>3 DEF Move
    <2> QED
      BY <2>1, <2>2, <2>3, <2>5, <2>6, <2>7
  <1>7. Retiring'
    <2> SUFFICES ASSUME NEW u \in Threads, At(u, "retire")'
                 PROVE  /\ Cur(u)' \notin retired'
                        /\ ~Linked(Cur(u))'
                        /\ \A w \in Threads : At(w, "retire")' /\ Cur(w)' = Cur(u)' => w = u
      BY DEF Retiring
    <2>1. Cur(t)' = c.cur
      BY <1>1 DEF Cur
    <2>2. CASE u = t
      BY <1>1, <2>1, <2>2 DEF Move
    <2>3. CASE u # t
      <3>1. At(u, "retire") /\ Cur(u)' = Cur(u)
        BY <1>1, <2>3
      <3>2. /\ Cur(u) \notin retired /\ ~Linked(Cur(u))
            /\ \A w \in Threads : At(w, "retire") /\ Cur(w) = Cur(u) => w = u
        BY <3>1 DEF Retiring
      <3>3. Cur(u) \in Uses(u) /\ Cur(u) \in Nodes
        <4>1. Cur(u) \in Uses(u)
          BY <3>1 DEF Uses
        <4> QED
          BY <4>1 DEF UsesAreAllocated, Types
      <3>4. Cur(u) \notin retired'
        BY <2>3, <3>2 DEF Move
      <3>5. ~Linked(Cur(u))'
        <4>1. ~(Fresh(t) /\ Cur(u) = call[t].node)
          BY <3>3 DEF Private
        <4>2. PICK n \in Nodes : n = Cur(u)
          BY <3>3
        <4>3. ~Linked(n)'
          BY <4>1, <4>2, <3>2 DEF Move
        <4> QED
          BY <3>1, <4>2, <4>3
      <3>6. \A w \in Threads : At(w, "retire")' /\ Cur(w)' = Cur(u) => w = u
        BY <1>1, <2>1, <2>3, <3>1, <3>2 DEF Move
      <3> QED
        BY <3>1, <3>4, <3>5, <3>6
    <2> QED
      BY <2>2, <2>3
  <1> QED
    BY <1>2, <1>3, <1>4, <1>5, <1>6, <1>7

(* A step that raises and lowers no count, and kills nothing.              *)
LEMMA QuietCounts ==
  ASSUME IInv, NEW t \in Threads, NEW c, Become(t, c),
         UNCHANGED <<access_count_, va, dead, allocated>>,
         ~At(t, "uncount"), ~At(t, "release"), c = Null \/ c.at \notin {"uncount", "release"}
  PROVE  DeadIsUnread' /\ Counts'
  <1> USE DEF IInv
  <1>1. \A u \in Threads :
          /\ At(u, "uncount")' <=> At(u, "uncount")
          /\ At(u, "release")' <=> At(u, "release")
          /\ At(u, "uncount") \/ At(u, "release") => Cur(u)' = Cur(u)
    BY OthersStay DEF At
  <1>2. \A n : Counting(n)' = Counting(n) /\ Accessing(n)' = Accessing(n) /\ Releasing(n)' = Releasing(n)
    BY <1>1 DEF Counting, Accessing, Releasing
  <1>3. DeadIsUnread'
    BY <1>1 DEF DeadIsUnread
  <1>4. Counts'
    BY <1>2 DEF Counts, Total
  <1> QED
    BY <1>3, <1>4

(* A further array, with what the location held at its next position.      *)
LEMMA ExpandMapKeeps ==
  ASSUME Types, Paths, NEW loc \in Locations, Reached(loc), DepthOf(loc) < MaxDepth,
         NEW n \in Nodes \cup {Null}, ExpandMap(loc, n), UNCHANGED <<key_, allocated, retired>>
  PROVE  /\ tree' \in [Locations -> Nodes \cup {Null, "array"}]
         /\ Paths'
         /\ ArraysStay
         /\ \A m \in Nodes : Linked(m)' => Linked(m)
  <1> USE NullAssumption, NodesAssumption
  <1>1. CASE tree[loc] # n
    <2>1. tree' = tree
      BY <1>1 DEF ExpandMap
    <2>2. Paths'
      BY <2>1 DEF Paths, Placed, Reached
    <2> QED
      BY <2>1, <2>2 DEF Types, ArraysStay, Linked
  <1>2. CASE tree[loc] = n /\ n = Null
    <2>1. tree' = [tree EXCEPT ![loc] = "array"]
      BY <1>2 DEF ExpandMap
    <2>2. /\ tree' \in [Locations -> Nodes \cup {Null, "array"}]
          /\ \A l \in Locations : tree'[l] = IF l = loc THEN "array" ELSE tree[l]
      BY <2>1 DEF Types
    <2>3. ArraysStay
      BY <2>2 DEF ArraysStay
    <2>4. Paths'
      <3> SUFFICES ASSUME NEW l \in Locations PROVE Placed(l)'
        BY DEF Paths
      <3>1. tree'[l] # Null => Reached(l)'
        BY <2>2, <2>3, ReachedStays DEF Paths, Placed
      <3> QED
        BY <2>2, <3>1 DEF Paths, Placed, IsNode
    <2> QED
      BY <2>2, <2>3, <2>4 DEF Linked
  <1>3. CASE tree[loc] = n /\ n # Null
    <2>1. n \in Nodes /\ key_[n] \in Keys /\ loc = LocationOf(key_[n], DepthOf(loc)) /\ Placed(loc)
      BY <1>3 DEF Paths, Placed, IsNode
    <2>2. PICK child : child = LocationOf(key_[n], DepthOf(loc) + 1)
      OBVIOUS
    <2>3. child \in Locations /\ DepthOf(child) = DepthOf(loc) + 1 /\ Parent(child) = loc /\ child # loc
      BY <2>1, <2>2, Deeper, DepthInRange, MaxDepthIsNat
    <2>4. tree' = [tree EXCEPT ![loc] = "array", ![child] = n]
      BY <1>3, <2>2 DEF ExpandMap
    <2>5. /\ tree' \in [Locations -> Nodes \cup {Null, "array"}]
          /\ \A l \in Locations : tree'[l] = IF l = child THEN n ELSE IF l = loc THEN "array" ELSE tree[l]
      BY <2>1, <2>3, <2>4 DEF Types
    <2>6. tree[child] = Null
      <3>1. DepthOf(child) > 0 /\ tree[Parent(child)] # "array"
        BY <1>3, <2>1, <2>3, DepthInRange
      <3> QED
        BY <2>3, <3>1 DEF Paths, Placed, Reached
    <2>7. ArraysStay
      BY <2>5, <2>6 DEF ArraysStay
    <2>8. Reached(child)' /\ \A l \in Locations : Reached(l) => Reached(l)'
      <3>1. tree'[Parent(child)] = "array"
        BY <2>3, <2>5
      <3> QED
        BY <2>7, <3>1, ReachedStays DEF Reached
    <2>9. Paths'
      <3> SUFFICES ASSUME NEW l \in Locations PROVE Placed(l)'
        BY DEF Paths
      <3>1. tree'[l] # Null => Reached(l)'
        BY <2>5, <2>8 DEF Paths, Placed
      <3>2. tree'[l] = "array" => DepthOf(l) < MaxDepth
        BY <2>1, <2>5 DEF Paths, Placed
      <3>3. ASSUME IsNode(tree'[l])
            PROVE  /\ l = LocationOf(key_[tree'[l]], DepthOf(l))
                   /\ tree'[l] \in allocated \ retired /\ key_[tree'[l]] \in Keys
                   /\ \A other \in Locations : tree'[other] = tree'[l] => other = l
        <4>1. \A m \in Locations : m # loc /\ tree[m] = n => FALSE
          BY <1>3, <2>1 DEF Placed, IsNode
        <4>2. CASE l = child
          <5>1. tree'[l] = n /\ n \in allocated \ retired
            BY <1>3, <2>1, <2>5, <4>2 DEF Placed, IsNode
          <5>2. \A other \in Locations : tree'[other] = n => other = child
            BY <2>1, <2>5, <4>1
          <5> QED
            BY <2>1, <2>2, <2>3, <4>2, <5>1, <5>2
        <4>3. CASE l # child
          <5>1. l # loc /\ tree'[l] = tree[l] /\ tree[l] # n /\ IsNode(tree[l])
            BY <2>5, <3>3, <4>1, <4>3 DEF IsNode
          <5> QED
            BY <2>5, <5>1 DEF Paths, Placed, IsNode
        <4> QED
          BY <4>2, <4>3
      <3> QED
        BY <3>1, <3>2, <3>3 DEF Placed, IsNode
    <2> QED
      BY <1>3, <2>5, <2>7, <2>9 DEF Linked
  <1> QED
    BY <1>1, <1>2, <1>3

------------------------------------------------------------------------------
(* Steps that change nothing of the map *)

WatchStates == {"alive", "count", "uncount", "kill", "replace", "expand", "shrink", "unlink", "force_expand"}

LEMMA Becomes ==
  ASSUME Types, NEW t \in Threads, NEW c \in Calls, Become(t, c)
  PROVE  /\ call'[t] = c /\ c # Null
         /\ \A l : At(t, l)' <=> c.at = l
         /\ Cur(t)' = c.cur /\ Key(t)' = c.key
         /\ Watches(t)' = IF c.at \in WatchStates THEN {c.cur} \ {Null} ELSE {}
         /\ Fresh(t)' <=> /\ c.kind = "insert" /\ c.at \notin {"retire", "grow"}
                          /\ c.at = "done" => c.res = "refused"
  <1>1. call'[t] = c /\ c # Null
    BY OthersStay, CallsAssumption
  <1> QED
    BY <1>1 DEF At, Cur, Key, Kind, Watches, Fresh, WatchStates

(* What is known of a thread inside a call.                                *)
LEMMA InCall ==
  ASSUME IInv, NEW t \in Threads, call[t] # Null
  PROVE  /\ call[t] \in Calls /\ Sound(call[t]) /\ Known(t)
         /\ Reached(call[t].loc) /\ (call[t].force # Null => Reached(call[t].force))
         /\ Watches(t) = IF call[t].at \in WatchStates THEN {Cur(t)} \ {Null} ELSE {}
         /\ \A l : At(t, l) <=> call[t].at = l
  BY CallIn DEF IInv, Control, KnownNodes, Routes, Watches, WatchStates, At

(* A step that leaves the map alone, whatever it does to the announcement. *)
Quiet(t, c) ==
  /\ c \in Calls
  /\ Become(t, c)
  /\ UNCHANGED <<tree, key_, value_, allocated, access_count_, va, retired, dead>>
  /\ Sound(c) /\ Reached(c.loc) /\ (c.force # Null => Reached(c.force))
  /\ \/ op_table_' = op_table_
     \/ \E l \in Locations \cup {Null} :
          op_table_' = [op_table_ EXCEPT ![t] = l] /\ (l # Null => Reached(l))
  /\ c.at \notin {"uncount", "release", "retire"}
  /\ ~At(t, "uncount") /\ ~At(t, "release")
  /\ c.at \in {"replace", "shrink", "unlink"} => c.cur \in dead
  /\ c.at = "expand" => key_[c.cur] # c.key
  /\ c.at \in WatchStates /\ c.cur # Null => c.cur \in Watches(t) \/ Linked(c.cur)
  /\ c.kind = "insert" => call[t] # Null /\ c.node = call[t].node /\ c.key = Key(t) /\ c.kind = Kind(t)
  /\ c.kind = "insert" /\ c.at # "grow" /\ (c.at = "done" => c.res = "refused") => Fresh(t)

LEMMA QuietKeeps ==
  ASSUME IInv, NEW t \in Threads, NEW c, Quiet(t, c)
  PROVE  IInv'
  <1> USE DEF IInv
  <1>1. c \in Calls /\ Become(t, c)
    BY DEF Quiet
  <1>2. /\ call'[t] = c /\ c # Null
        /\ \A l : At(t, l)' <=> c.at = l
        /\ Cur(t)' = c.cur /\ Key(t)' = c.key
        /\ Watches(t)' = IF c.at \in WatchStates THEN {c.cur} \ {Null} ELSE {}
        /\ Fresh(t)' <=> /\ c.kind = "insert" /\ c.at \notin {"retire", "grow"}
                         /\ c.at = "done" => c.res = "refused"
    BY <1>1, Becomes
  <1>3. Types'
    <2>1. call' \in [Threads -> Calls \cup {Null}]
      BY <1>1 DEF Types, Become
    <2>2. op_table_' \in [Threads -> Locations \cup {Null}]
      BY DEF Types, Quiet
    <2> QED
      BY <2>1, <2>2 DEF Types, Quiet
  <1>4. DeadIsUnread' /\ Counts'
    BY QuietCounts, <1>1 DEF Quiet
  <1>5. \A l : Reached(l)' <=> Reached(l)
    BY DEF Quiet, Reached
  <1>6. Paths'
    BY <1>5 DEF Quiet, Paths, Placed
  <1>7. Move(t, c)
    <2>1. Known(t)'
      BY <1>2 DEF Known, Quiet
    <2>2. \A n : Linked(n)' <=> Linked(n)
      BY DEF Linked, Quiet
    <2>3. Uses(t)' \subseteq Uses(t) \cup {n \in Nodes : Linked(n)}
      <3>1. Watches(t)' \subseteq Watches(t) \cup {n \in Nodes : Linked(n)}
        BY <1>1, <1>2 DEF Quiet, Calls
      <3> QED
        BY <1>2, <3>1 DEF Quiet, Uses
    <2>4. Fresh(t)' => Fresh(t) /\ c.node = call[t].node /\ c.key = Key(t)
      BY <1>2 DEF Quiet
    <2>5. ~At(t, "retire")'
      BY <1>2 DEF Quiet
    <2>6. \/ op_table_' = op_table_
          \/ \E l \in Locations \cup {Null} :
               op_table_' = [op_table_ EXCEPT ![t] = l] /\ (l # Null => Reached(l)')
      BY <1>5 DEF Quiet
    <2>7. Sound(c) /\ Reached(c.loc)' /\ (c.force # Null => Reached(c.force)')
      BY <1>5 DEF Quiet
    <2> QED
      BY <1>1, <2>1, <2>2, <2>3, <2>4, <2>5, <2>6, <2>7 DEF Move, Quiet, ArraysStay
  <1> QED
    BY <1>3, <1>4, <1>6, <1>7, MoveKeeps

LEMMA CallRemoveOrAtKeeps ==
  ASSUME IInv, NEW t \in Threads, CallRemoveOrAt(t)
  PROVE  IInv'
  <1>1. PICK kind \in {"remove", "at"}, k \in Keys : Become(t, NewCall(kind, k, Null, Null))
    BY DEF CallRemoveOrAt
  <1>2. PICK c : c = NewCall(kind, k, Null, Null)
    OBVIOUS
  <1>3. LocationOf(k, 0) \in Locations /\ DepthOf(LocationOf(k, 0)) = 0
    BY LocationIn, LocationShape, MaxDepthIsNat
  <1>4. /\ c \in Calls
        /\ c.at = "load" /\ c.kind # "insert" /\ c.cur = Null /\ c.force = Null
        /\ c.loc = LocationOf(c.key, DepthOf(c.loc)) /\ Reached(c.loc)
    BY <1>2, <1>3, LIMITAssumption DEF NewCall, Calls, Reached
  <1>5. ~At(t, "uncount") /\ ~At(t, "release")
    BY DEF CallRemoveOrAt, At
  <1>6. Quiet(t, c)
    BY <1>1, <1>2, <1>4, <1>5 DEF Quiet, Sound, CallRemoveOrAt, nodeVars, WatchStates
  <1> QED
    BY <1>6, QuietKeeps

LEMMA AnnounceKeeps ==
  ASSUME IInv, NEW t \in Threads, Announce(t)
  PROVE  IInv'
  <1>1. call[t] # Null /\ call[t].at = "load"
    BY DEF Announce, At
  <1>2. PICK c : c = [call[t] EXCEPT !.at = "force", !.force = Loc(t)]
    OBVIOUS
  <1>3. /\ c \in Calls
        /\ c.at = "force" /\ c.force = call[t].loc
        /\ c.kind = call[t].kind /\ c.key = call[t].key /\ c.node = call[t].node
        /\ c.loc = call[t].loc /\ c.res = call[t].res
    BY ZenonT(40), <1>1, <1>2, InCall DEF Calls, Loc
  <1>4. /\ Quiet(t, c)
    BY <1>1, <1>2, <1>3, InCall DEF Quiet, Sound, Announce, nodeVars, WatchStates, Key, Kind, Loc, Fresh, Calls
  <1> QED
    BY <1>4, QuietKeeps

(* A round that failed.                                                    *)
LEMMA DelayedKeeps ==
  ASSUME IInv, NEW t \in Threads, call[t] # Null, call[t].at \in {"validate", "place", "replace"}, Delayed(t),
         UNCHANGED <<tree, nodeVars, access_count_, op_table_, va, retired, dead>>
  PROVE  IInv'
  <1>1. PICK left : left = IF call[t].left = 1 /\ Kind(t) = "remove" THEN LIMIT ELSE call[t].left - 1
    OBVIOUS
  <1>2. PICK c : c = [call[t] EXCEPT !.at = "load", !.cur = Null, !.left = left]
    OBVIOUS
  <1>3. left \in Int
    BY <1>1, InCall, LIMITAssumption DEF Calls
  <1>4. /\ c \in Calls
        /\ c.at = "load" /\ c.cur = Null
        /\ c.kind = call[t].kind /\ c.key = call[t].key /\ c.node = call[t].node
        /\ c.loc = call[t].loc /\ c.res = call[t].res /\ c.force = call[t].force
    BY ZenonT(40), <1>2, <1>3, InCall DEF Calls
  <1>5. Become(t, c)
    BY <1>1, <1>2 DEF Delayed
  <1>6. Quiet(t, c)
    BY <1>4, <1>5, InCall DEF Quiet, Sound, nodeVars, WatchStates, Key, Kind, Fresh, At
  <1> QED
    BY <1>6, QuietKeeps

(* The first load of a location: below an array one goes deeper, and an    *)
(* array is never at the last level.                                       *)
LEMMA LoadKeeps ==
  ASSUME IInv, NEW t \in Threads, Load(t)
  PROVE  IInv'
  <1>1. call[t] # Null /\ call[t].at = "load"
    BY DEF Load, At
  <1>2. CASE tree[Loc(t)] = Null /\ Kind(t) = "insert"
    <2>1. PICK c : c = [call[t] EXCEPT !.at = "place"]
      OBVIOUS
    <2>2. /\ c \in Calls
          /\ c.kind = call[t].kind /\ c.key = call[t].key /\ c.node = call[t].node
          /\ c.at = "place" /\ c.loc = call[t].loc /\ c.cur = call[t].cur
          /\ c.res = call[t].res /\ c.force = call[t].force
      BY ZenonT(40), <1>1, <2>1, InCall DEF Calls
    <2>3. Become(t, c)
      BY <1>1, <1>2, <2>1 DEF Load, Goto
    <2>4. Quiet(t, c)
      BY <1>1, <1>2, <2>2, <2>3, InCall
      DEF Quiet, Sound, Load, nodeVars, WatchStates, Key, Kind, Loc, Cur, Fresh, At, Calls
    <2> QED
      BY <2>4, QuietKeeps
  <1>3. CASE tree[Loc(t)] = Null /\ Kind(t) # "insert"
    <2>1. PICK c : c = [call[t] EXCEPT !.at = "done", !.res = "refused", !.cur = Null]
      OBVIOUS
    <2>2. /\ c \in Calls
          /\ c.kind = call[t].kind /\ c.key = call[t].key /\ c.node = call[t].node
          /\ c.at = "done" /\ c.loc = call[t].loc /\ c.cur = Null
          /\ c.res = "refused" /\ c.force = call[t].force
      BY ZenonT(40), <1>1, <2>1, InCall DEF Calls
    <2>3. Become(t, c)
      BY <1>1, <1>3, <2>1 DEF Load, Decide
    <2>4. Quiet(t, c)
      BY <1>1, <1>3, <2>2, <2>3, InCall
      DEF Quiet, Sound, Load, nodeVars, WatchStates, Key, Kind, Loc, Cur, Fresh, At, Calls
    <2> QED
      BY <2>4, QuietKeeps
  <1>4. CASE IsNode(tree[Loc(t)])
    <2>1. PICK c : c = [call[t] EXCEPT !.at = "validate", !.cur = tree[Loc(t)]]
      OBVIOUS
    <2>2. /\ c \in Calls
          /\ c.kind = call[t].kind /\ c.key = call[t].key /\ c.node = call[t].node
          /\ c.at = "validate" /\ c.loc = call[t].loc /\ c.cur = tree[Loc(t)]
          /\ c.res = call[t].res /\ c.force = call[t].force
      BY ZenonT(40), <1>1, <1>4, <2>1, InCall DEF Calls, Loc, IsNode
    <2>3. Become(t, c)
      BY <1>1, <1>4, <2>1, NullAssumption DEF Load, GotoWith, IsNode
    <2>4. Quiet(t, c)
      BY <1>1, <1>4, <2>2, <2>3, InCall
      DEF Quiet, Sound, Load, nodeVars, WatchStates, Key, Kind, Loc, Cur, Fresh, At, Calls, IsNode
    <2> QED
      BY <2>4, QuietKeeps
  <1>5. tree[Loc(t)] = "array" =>
          LET l == LocationOf(Key(t), DepthOf(Loc(t)) + 1) IN
          /\ l \in Locations
          /\ DepthOf(l) = DepthOf(Loc(t)) + 1
          /\ Parent(l) = Loc(t)
    <2>1. call[t] \in Calls /\ Loc(t) = LocationOf(Key(t), DepthOf(Loc(t)))
      BY <1>1, InCall DEF Sound, Loc, Key
    <2>2. Loc(t) \in Locations /\ Key(t) \in Keys
      BY <2>1 DEF Calls, Loc, Key
    <2>3. tree[Loc(t)] = "array" => DepthOf(Loc(t)) < MaxDepth
      BY <2>2 DEF IInv, Paths, Placed
    <2> QED
      BY <2>1, <2>2, <2>3, DepthInRange, Deeper
  <1>6. CASE tree[Loc(t)] = "array"
    <2>1. PICK c : c = [call[t] EXCEPT !.loc = LocationOf(Key(t), DepthOf(Loc(t)) + 1)]
      OBVIOUS
    <2>2. /\ c \in Calls
          /\ c.kind = call[t].kind /\ c.key = call[t].key /\ c.node = call[t].node
          /\ c.at = call[t].at /\ c.loc = LocationOf(Key(t), DepthOf(Loc(t)) + 1) /\ c.cur = call[t].cur
          /\ c.res = call[t].res /\ c.force = call[t].force
      BY ZenonT(40), <1>1, <1>6, <2>1, InCall, <1>5 DEF Calls, Loc, Key
    <2>3. Become(t, c)
      BY <1>1, <1>6, <2>1, NullAssumption, NodesAssumption DEF Load, IsNode
    <2>4. Reached(c.loc) /\ c.loc = LocationOf(c.key, DepthOf(c.loc))
      BY <1>6, <1>5, <2>2 DEF Reached, Loc, Key
    <2>5. Quiet(t, c)
      BY <1>1, <1>6, <2>2, <2>3, <2>4, InCall
      DEF Quiet, Sound, Load, nodeVars, WatchStates, Key, Kind, Loc, Cur, Fresh, At, Calls
    <2> QED
      BY <2>5, QuietKeeps
  <1>7. tree[Loc(t)] \in Nodes \cup {Null, "array"}
    BY <1>1, InCall DEF IInv, Types, Loc, Calls
  <1> QED
    BY <1>2, <1>3, <1>4, <1>6, <1>7 DEF IsNode

(* The watch is granted if the node is still there.                        *)
LEMMA ValidateKeeps ==
  ASSUME IInv, NEW t \in Threads, Validate(t)
  PROVE  IInv'
  <1>1. call[t] # Null /\ call[t].at = "validate"
    BY DEF Validate, At
  <1>2. CASE tree[Loc(t)] # Cur(t)
    BY <1>1, <1>2, DelayedKeeps DEF Validate
  <1>3. Kind(t) \in {"insert", "remove", "at"}
    BY <1>1, InCall DEF Calls, Kind
  <1>4. CASE tree[Loc(t)] = Cur(t) /\ Kind(t) = "insert"
    <2>1. PICK c : c = [call[t] EXCEPT !.at = "alive"]
      OBVIOUS
    <2>2. /\ c \in Calls
          /\ c.kind = call[t].kind /\ c.key = call[t].key /\ c.node = call[t].node
          /\ c.at = "alive" /\ c.loc = call[t].loc /\ c.cur = call[t].cur
          /\ c.res = call[t].res /\ c.force = call[t].force
      BY ZenonT(40), <1>1, <2>1, InCall DEF Calls
    <2>3. Become(t, c)
      BY <1>1, <1>4, <2>1 DEF Validate, Goto
    <2>4. Linked(Cur(t))
      BY <1>1, <1>4, InCall DEF Linked, Calls, Loc
    <2>5. Quiet(t, c)
      BY <1>1, <1>4, <2>2, <2>3, <2>4, InCall
      DEF Quiet, Sound, Validate, nodeVars, WatchStates, Key, Kind, Loc, Cur, Fresh, At, Calls
    <2> QED
      BY <2>5, QuietKeeps
  <1>5. CASE tree[Loc(t)] = Cur(t) /\ Kind(t) # "insert" /\ ~SameKey(t)
    <2>1. PICK c : c = [call[t] EXCEPT !.at = "done", !.res = "refused", !.cur = Null]
      OBVIOUS
    <2>2. /\ c \in Calls
          /\ c.kind = call[t].kind /\ c.key = call[t].key /\ c.node = call[t].node
          /\ c.at = "done" /\ c.loc = call[t].loc /\ c.cur = Null
          /\ c.res = "refused" /\ c.force = call[t].force
      BY ZenonT(40), <1>1, <2>1, InCall DEF Calls
    <2>3. Become(t, c)
      BY <1>1, <1>5, <2>1 DEF Validate, Decide
    <2>4. Quiet(t, c)
      BY <1>1, <1>5, <2>2, <2>3, InCall
      DEF Quiet, Sound, Validate, nodeVars, WatchStates, Key, Kind, Loc, Cur, Fresh, At, Calls
    <2> QED
      BY <2>4, QuietKeeps
  <1>6. CASE tree[Loc(t)] = Cur(t) /\ Kind(t) = "at" /\ SameKey(t)
    <2>1. PICK c : c = [call[t] EXCEPT !.at = "count"]
      OBVIOUS
    <2>2. /\ c \in Calls
          /\ c.kind = call[t].kind /\ c.key = call[t].key /\ c.node = call[t].node
          /\ c.at = "count" /\ c.loc = call[t].loc /\ c.cur = call[t].cur
          /\ c.res = call[t].res /\ c.force = call[t].force
      BY ZenonT(40), <1>1, <2>1, InCall DEF Calls
    <2>3. Become(t, c)
      BY <1>1, <1>6, <2>1 DEF Validate, Goto
    <2>4. Linked(Cur(t))
      BY <1>1, <1>6, InCall DEF Linked, Calls, Loc
    <2>5. Quiet(t, c)
      BY <1>1, <1>6, <2>2, <2>3, <2>4, InCall
      DEF Quiet, Sound, Validate, nodeVars, WatchStates, Key, Kind, Loc, Cur, Fresh, At, Calls
    <2> QED
      BY <2>5, QuietKeeps
  <1>7. CASE tree[Loc(t)] = Cur(t) /\ Kind(t) = "remove" /\ SameKey(t)
    <2>1. PICK c : c = [call[t] EXCEPT !.at = "kill"]
      OBVIOUS
    <2>2. /\ c \in Calls
          /\ c.kind = call[t].kind /\ c.key = call[t].key /\ c.node = call[t].node
          /\ c.at = "kill" /\ c.loc = call[t].loc /\ c.cur = call[t].cur
          /\ c.res = call[t].res /\ c.force = call[t].force
      BY ZenonT(40), <1>1, <2>1, InCall DEF Calls
    <2>3. Become(t, c)
      BY <1>1, <1>7, <2>1 DEF Validate, Goto
    <2>4. Linked(Cur(t))
      BY <1>1, <1>7, InCall DEF Linked, Calls, Loc
    <2>5. Quiet(t, c)
      BY <1>1, <1>7, <2>2, <2>3, <2>4, InCall
      DEF Quiet, Sound, Validate, nodeVars, WatchStates, Key, Kind, Loc, Cur, Fresh, At, Calls
    <2> QED
      BY <2>5, QuietKeeps
  <1> QED
    BY <1>4, <1>5, <1>6, <1>7, <1>2, <1>3

LEMMA ShrinkKeeps ==
  ASSUME IInv, NEW t \in Threads, Shrink(t)
  PROVE  IInv'
  <1>1. call[t] # Null /\ call[t].at = "shrink"
    BY DEF Shrink, At
  <1>2. PICK c : c = [call[t] EXCEPT !.at = "unlink"]
    OBVIOUS
  <1>3. /\ c \in Calls
        /\ c.kind = call[t].kind /\ c.key = call[t].key /\ c.node = call[t].node
        /\ c.at = "unlink" /\ c.loc = call[t].loc /\ c.cur = call[t].cur
        /\ c.res = call[t].res /\ c.force = call[t].force
    BY ZenonT(40), <1>1, <1>2, InCall DEF Calls
  <1>4. Become(t, c)
    BY <1>1, <1>2 DEF Shrink, Goto
  <1>5. Quiet(t, c)
    BY <1>1, <1>3, <1>4, InCall
    DEF Quiet, Sound, Shrink, nodeVars, WatchStates, Key, Kind, Loc, Cur, Fresh, At, Calls, Known
  <1> QED
    BY <1>5, QuietKeeps

LEMMA GrowKeeps ==
  ASSUME IInv, NEW t \in Threads, Grow(t)
  PROVE  IInv'
  <1>1. call[t] # Null /\ call[t].at = "grow"
    BY DEF Grow, At
  <1>2. PICK c : c = [call[t] EXCEPT !.at = "done"]
    OBVIOUS
  <1>3. /\ c \in Calls
        /\ c.kind = call[t].kind /\ c.key = call[t].key /\ c.node = call[t].node
        /\ c.at = "done" /\ c.loc = call[t].loc /\ c.cur = call[t].cur
        /\ c.res = call[t].res /\ c.force = call[t].force
    BY ZenonT(40), <1>1, <1>2, InCall DEF Calls
  <1>4. Become(t, c)
    BY <1>1, <1>2 DEF Grow, Goto
  <1>5. Quiet(t, c)
    BY <1>1, <1>3, <1>4, InCall, NullAssumption
    DEF Quiet, Sound, Grow, nodeVars, WatchStates, Key, Kind, Loc, Cur, Fresh, At, Calls
  <1> QED
    BY <1>5, QuietKeeps

LEMMA ForceValidateKeeps ==
  ASSUME IInv, NEW t \in Threads, ForceValidate(t)
  PROVE  IInv'
  <1>1. call[t] # Null /\ call[t].at = "force_validate"
    BY DEF ForceValidate, At
  <1>2. CASE tree[call[t].force] = Cur(t)
    <2>1. PICK c : c = [call[t] EXCEPT !.at = "force_expand"]
      OBVIOUS
    <2>2. /\ c \in Calls
          /\ c.kind = call[t].kind /\ c.key = call[t].key /\ c.node = call[t].node
          /\ c.at = "force_expand" /\ c.loc = call[t].loc /\ c.cur = call[t].cur
          /\ c.res = call[t].res /\ c.force = call[t].force
      BY ZenonT(40), <1>1, <2>1, InCall DEF Calls
    <2>3. Become(t, c)
      BY <1>1, <1>2, <2>1 DEF ForceValidate, Goto
    <2>4. Cur(t) \in Nodes => Linked(Cur(t))
      BY <1>1, <1>2, InCall DEF Linked, Sound
    <2>5. Quiet(t, c)
      BY <1>1, <1>2, <2>2, <2>3, <2>4, InCall
      DEF Quiet, Sound, ForceValidate, nodeVars, WatchStates, Key, Kind, Loc, Cur, Fresh, At, Calls
    <2> QED
      BY <2>5, QuietKeeps
  <1>3. CASE tree[call[t].force] # Cur(t)
    <2>1. PICK c : c = [call[t] EXCEPT !.at = "force", !.cur = Null]
      OBVIOUS
    <2>2. /\ c \in Calls
          /\ c.kind = call[t].kind /\ c.key = call[t].key /\ c.node = call[t].node
          /\ c.at = "force" /\ c.loc = call[t].loc /\ c.cur = Null
          /\ c.res = call[t].res /\ c.force = call[t].force
      BY ZenonT(40), <1>1, <2>1, InCall DEF Calls
    <2>3. Become(t, c)
      BY <1>1, <1>3, <2>1 DEF ForceValidate, GotoWith
    <2>4. Quiet(t, c)
      BY <1>1, <1>3, <2>2, <2>3, InCall
      DEF Quiet, Sound, ForceValidate, nodeVars, WatchStates, Key, Kind, Loc, Cur, Fresh, At, Calls
    <2> QED
      BY <2>4, QuietKeeps
  <1> QED
    BY <1>2, <1>3

LEMMA NumThreadsIsNat == NumThreads \in Nat
  BY FS_CardinalityType, ThreadsAssumption DEF NumThreads

(* Nobody but a remove makes a count negative.                             *)
LEMMA CountsAreNat ==
  ASSUME NEW n
  PROVE  /\ IsFiniteSet(Counting(n)) /\ IsFiniteSet(Accessing(n)) /\ IsFiniteSet(Releasing(n))
         /\ Cardinality(Counting(n)) \in Nat
         /\ Cardinality(Accessing(n)) \in Nat
         /\ Cardinality(Releasing(n)) \in Nat
         /\ Total(n) \in Nat
  <1>1. Counting(n) \subseteq Threads /\ Accessing(n) \subseteq Threads /\ Releasing(n) \subseteq Threads
    BY DEF Counting, Accessing, Releasing
  <1>2. IsFiniteSet(Counting(n)) /\ IsFiniteSet(Accessing(n)) /\ IsFiniteSet(Releasing(n))
    BY <1>1, FS_Subset, ThreadsAssumption
  <1> QED
    BY <1>2, FS_CardinalityType DEF Total

LEMMA NegativeIsDead ==
  ASSUME IInv, NEW n \in allocated, access_count_[n] < 0
  PROVE  n \in dead
  <1>1. access_count_[n] = Total(n) - (IF n \in dead THEN NumThreads ELSE 0)
    BY DEF IInv, Counts
  <1> QED
    BY <1>1, CountsAreNat, NumThreadsIsNat

LEMMA WatchedIsAllocated ==
  ASSUME IInv, NEW t \in Threads, call[t] # Null, call[t].at \in WatchStates, Cur(t) # Null
  PROVE  Cur(t) \in Uses(t) /\ Cur(t) \in allocated
  <1>1. Cur(t) \in Watches(t)
    BY InCall
  <1> QED
    BY <1>1 DEF Uses, IInv, UsesAreAllocated

(* A negative count is that of a dead node.                                *)
LEMMA SeeAliveKeeps ==
  ASSUME IInv, NEW t \in Threads, SeeAlive(t)
  PROVE  IInv'
  <1>1. call[t] # Null /\ call[t].at = "alive"
    BY DEF SeeAlive, At
  <1>2. CASE access_count_[Cur(t)] < 0
    <2>1. PICK c : c = [call[t] EXCEPT !.at = "replace"]
      OBVIOUS
    <2>2. /\ c \in Calls
          /\ c.kind = call[t].kind /\ c.key = call[t].key /\ c.node = call[t].node
          /\ c.at = "replace" /\ c.loc = call[t].loc /\ c.cur = call[t].cur
          /\ c.res = call[t].res /\ c.force = call[t].force
      BY ZenonT(40), <1>1, <2>1, InCall DEF Calls
    <2>3. Become(t, c)
      BY <1>1, <1>2, <2>1 DEF SeeAlive, Goto
    <2>4. Cur(t) \in dead
      BY <1>1, <1>2, InCall, WatchedIsAllocated, NegativeIsDead, NullAssumption DEF WatchStates, Sound, Cur
    <2>5. Quiet(t, c)
      BY <1>1, <1>2, <2>2, <2>3, <2>4, InCall
      DEF Quiet, Sound, SeeAlive, nodeVars, WatchStates, Key, Kind, Loc, Cur, Fresh, At, Calls
    <2> QED
      BY <2>5, QuietKeeps
  <1>3. CASE ~(access_count_[Cur(t)] < 0) /\ SameKey(t)
    <2>1. PICK c : c = [call[t] EXCEPT !.at = "done", !.res = "refused", !.cur = Null]
      OBVIOUS
    <2>2. /\ c \in Calls
          /\ c.kind = call[t].kind /\ c.key = call[t].key /\ c.node = call[t].node
          /\ c.at = "done" /\ c.loc = call[t].loc /\ c.cur = Null
          /\ c.res = "refused" /\ c.force = call[t].force
      BY ZenonT(40), <1>1, <2>1, InCall DEF Calls
    <2>3. Become(t, c)
      BY <1>1, <1>3, <2>1 DEF SeeAlive, Decide
    <2>4. Quiet(t, c)
      BY <1>1, <1>3, <2>2, <2>3, InCall
      DEF Quiet, Sound, SeeAlive, nodeVars, WatchStates, Key, Kind, Loc, Cur, Fresh, At, Calls
    <2> QED
      BY <2>4, QuietKeeps
  <1>4. CASE ~(access_count_[Cur(t)] < 0) /\ ~SameKey(t)
    <2>1. PICK c : c = [call[t] EXCEPT !.at = "expand"]
      OBVIOUS
    <2>2. /\ c \in Calls
          /\ c.kind = call[t].kind /\ c.key = call[t].key /\ c.node = call[t].node
          /\ c.at = "expand" /\ c.loc = call[t].loc /\ c.cur = call[t].cur
          /\ c.res = call[t].res /\ c.force = call[t].force
      BY ZenonT(40), <1>1, <2>1, InCall DEF Calls
    <2>3. Become(t, c)
      BY <1>1, <1>4, <2>1 DEF SeeAlive, Goto
    <2>4. Quiet(t, c)
      BY <1>1, <1>4, <2>2, <2>3, InCall
      DEF Quiet, Sound, SeeAlive, nodeVars, WatchStates, Key, Kind, Loc, Cur, Fresh, At, Calls, SameKey
    <2> QED
      BY <2>4, QuietKeeps
  <1> QED
    BY <1>2, <1>3, <1>4

(* Helping an announcement, the first load.                                *)
LEMMA ForceLoadKeeps ==
  ASSUME IInv, NEW t \in Threads, ForceLoad(t)
  PROVE  IInv'
  <1>1. call[t] # Null /\ call[t].at = "force"
    BY DEF ForceLoad, At
  <1>2. /\ call[t].force \in Locations
        /\ tree[call[t].force] \in Nodes \cup {Null, "array"}
        /\ DepthOf(call[t].force) \in Nat /\ MaxDepth \in Nat
    BY <1>1, InCall, DepthInRange, MaxDepthIsNat DEF Sound, IInv, Types
  <1>3. CASE DepthOf(call[t].force) >= MaxDepth \/ tree[call[t].force] = "array"
    <2>0. PICK left \in Int : left = LIMIT
      BY LIMITAssumption
    <2>1. PICK c : c = [call[t] EXCEPT !.at = "load", !.cur = Null, !.force = Null, !.left = left]
      OBVIOUS
    <2>2. /\ c \in Calls
          /\ c.kind = call[t].kind /\ c.key = call[t].key /\ c.node = call[t].node
          /\ c.at = "load" /\ c.loc = call[t].loc /\ c.cur = Null
          /\ c.res = call[t].res /\ c.force = Null
      BY ZenonT(40), <1>1, <2>1, InCall DEF Calls
    <2>3. Become(t, c)
      BY <1>1, <1>3, <2>0, <2>1 DEF ForceLoad, ForceDone
    <2>4. Quiet(t, c)
      BY <1>1, <1>3, <2>2, <2>3, InCall
      DEF Quiet, Sound, ForceLoad, nodeVars, WatchStates, Key, Kind, Loc, Cur, Fresh, At, Calls, ForceDone
    <2> QED
      BY <2>4, QuietKeeps
  <1>4. CASE tree[call[t].force] = Null /\ ~(DepthOf(call[t].force) >= MaxDepth)
    <2>1. PICK c : c = [call[t] EXCEPT !.at = "force_expand", !.cur = Null]
      OBVIOUS
    <2>2. /\ c \in Calls
          /\ c.kind = call[t].kind /\ c.key = call[t].key /\ c.node = call[t].node
          /\ c.at = "force_expand" /\ c.loc = call[t].loc /\ c.cur = Null
          /\ c.res = call[t].res /\ c.force = call[t].force
      BY ZenonT(40), <1>1, <2>1, InCall DEF Calls
    <2>3. Become(t, c)
      BY <1>1, <1>4, <2>1, NullAssumption DEF ForceLoad, GotoWith
    <2>4. Quiet(t, c)
      BY <1>1, <1>4, <2>2, <2>3, InCall, <1>2
      DEF Quiet, Sound, ForceLoad, nodeVars, WatchStates, Key, Kind, Loc, Cur, Fresh, At, Calls, ForceDone
    <2> QED
      BY <2>4, QuietKeeps
  <1>5. CASE tree[call[t].force] \in Nodes /\ ~(DepthOf(call[t].force) >= MaxDepth)
    <2>1. PICK c : c = [call[t] EXCEPT !.at = "force_validate", !.cur = tree[call[t].force]]
      OBVIOUS
    <2>2. /\ c \in Calls
          /\ c.kind = call[t].kind /\ c.key = call[t].key /\ c.node = call[t].node
          /\ c.at = "force_validate" /\ c.loc = call[t].loc /\ c.cur = tree[call[t].force]
          /\ c.res = call[t].res /\ c.force = call[t].force
      BY ZenonT(40), <1>1, <1>5, <2>1, InCall DEF Calls
    <2>3. Become(t, c)
      BY <1>1, <1>5, <2>1, NullAssumption, NodesAssumption DEF ForceLoad, GotoWith
    <2>4. Quiet(t, c)
      BY <1>1, <1>5, <2>2, <2>3, InCall, <1>2
      DEF Quiet, Sound, ForceLoad, nodeVars, WatchStates, Key, Kind, Loc, Cur, Fresh, At, Calls, ForceDone
    <2> QED
      BY <2>4, QuietKeeps
  <1> QED
    BY <1>3, <1>4, <1>5, <1>2

------------------------------------------------------------------------------
(* Steps that change the map *)

(* Another content of a location that holds no array.                      *)
LEMMA PutKeeps ==
  ASSUME Types, Paths, NEW loc \in Locations, NEW n \in Nodes \cup {Null},
         tree[loc] # "array", n # Null => Reached(loc),
         n # Null => /\ n \in allocated \ retired
                     /\ key_[n] \in Keys
                     /\ loc = LocationOf(key_[n], DepthOf(loc))
                     /\ ~Linked(n),
         tree' = [tree EXCEPT ![loc] = n], UNCHANGED <<key_, allocated, retired>>
  PROVE  /\ tree' \in [Locations -> Nodes \cup {Null, "array"}]
         /\ Paths'
         /\ ArraysStay
         /\ \A m \in Nodes : Linked(m)' => Linked(m) \/ m = n
         /\ \A m \in Nodes : tree[loc] = m => ~Linked(m)'
  <1> USE NullAssumption, NodesAssumption
  <1>1. /\ tree' \in [Locations -> Nodes \cup {Null, "array"}]
        /\ \A l \in Locations : tree'[l] = IF l = loc THEN n ELSE tree[l]
    BY DEF Types
  <1>2. ArraysStay
    BY <1>1 DEF ArraysStay
  <1>3. Paths'
    <2> SUFFICES ASSUME NEW l \in Locations PROVE Placed(l)'
      BY DEF Paths
    <2>1. tree'[l] # Null => Reached(l)'
      <3>1. tree'[l] # Null => Reached(l)
        BY <1>1 DEF Paths, Placed
      <3> QED
        BY <1>2, <3>1, ReachedStays
    <2>2. tree'[l] = "array" => DepthOf(l) < MaxDepth
      BY <1>1 DEF Paths, Placed
    <2>3. CASE l = loc
      <3>1. tree'[l] = n
        BY <1>1, <2>3
      <3>2. n # Null => \A other \in Locations : tree'[other] = n => other = l
        BY <1>1, <2>3 DEF Linked
      <3> QED
        BY <2>1, <2>2, <2>3, <3>1, <3>2 DEF Placed, IsNode
    <2>4. CASE l # loc
      <3>1. tree'[l] = tree[l] /\ Placed(l)
        BY <1>1, <2>4 DEF Paths
      <3>2. tree[l] \in Nodes => tree[l] # n
        BY DEF Linked
      <3>3. tree[l] \in Nodes => \A other \in Locations : tree'[other] = tree[l] => other = l
        BY <1>1, <3>1, <3>2 DEF Placed, IsNode
      <3> QED
        BY <2>1, <2>2, <3>1, <3>3 DEF Placed, IsNode
    <2> QED
      BY <2>3, <2>4
  <1>4. \A m \in Nodes : Linked(m)' => Linked(m) \/ m = n
    BY <1>1 DEF Linked
  <1>5. \A m \in Nodes : tree[loc] = m => ~Linked(m)'
    <2> SUFFICES ASSUME NEW m \in Nodes, tree[loc] = m, NEW l \in Locations, tree'[l] = m
                 PROVE  FALSE
      BY DEF Linked
    <2>1. n # m
      BY DEF Linked
    <2>2. l # loc /\ tree[l] = tree[loc]
      BY <1>1, <2>1
    <2> QED
      BY <2>2 DEF Paths, Placed, IsNode
  <1> QED
    BY <1>1, <1>2, <1>3, <1>4, <1>5

(* A step inside a call that may change the tree, and ends where nothing is watched. *)
TreeStep(t, c) ==
  /\ call[t] # Null /\ c \in Calls
  /\ Become(t, c)
  /\ UNCHANGED <<key_, value_, allocated, access_count_, va, dead, op_table_>>
  /\ tree' \in [Locations -> Nodes \cup {Null, "array"}]
  /\ Paths'
  /\ ArraysStay
  /\ retired' = retired \/ (At(t, "retire") /\ retired' = retired \cup {Cur(t)})
  /\ \A n \in Nodes : Linked(n)' => Linked(n) \/ (Fresh(t) /\ n = call[t].node /\ c.at = "grow")
                                              \/ (Fresh(t) /\ n = call[t].node /\ c.at = "retire")
  /\ c.kind = Kind(t) /\ c.key = Key(t) /\ c.node = call[t].node
  /\ c.loc = call[t].loc /\ c.force = call[t].force
  /\ Sound(c)
  /\ c.at \notin WatchStates /\ c.at # "release"
  /\ ~At(t, "uncount") /\ ~At(t, "release")
  /\ c.at = "retire" =>
       /\ c.cur \in dead /\ c.cur \in Uses(t)
       /\ c.cur \notin retired' /\ ~Linked(c.cur)'
       /\ \A u \in Threads : u # t /\ At(u, "retire") => Cur(u) # c.cur
  /\ c.kind = "insert" /\ c.at \notin {"retire", "grow"} => Fresh(t) /\ c.at # "done"

LEMMA TreeStepKeeps ==
  ASSUME IInv, NEW t \in Threads, NEW c, TreeStep(t, c)
  PROVE  IInv'
  <1> USE DEF IInv
  <1>1. c \in Calls /\ Become(t, c) /\ Paths'
    BY DEF TreeStep
  <1>2. /\ call'[t] = c /\ c # Null
        /\ \A l : At(t, l)' <=> c.at = l
        /\ Cur(t)' = c.cur /\ Key(t)' = c.key
        /\ Watches(t)' = IF c.at \in WatchStates THEN {c.cur} \ {Null} ELSE {}
        /\ Fresh(t)' <=> /\ c.kind = "insert" /\ c.at \notin {"retire", "grow"}
                         /\ c.at = "done" => c.res = "refused"
    BY <1>1, Becomes
  <1>3. Types'
    <2>1. call' \in [Threads -> Calls \cup {Null}]
      BY <1>1 DEF Types, Become
    <2>2. retired' \subseteq dead'
      BY InCall DEF TreeStep, Types, Known, At
    <2> QED
      BY <2>1, <2>2 DEF Types, TreeStep
  <1>4. DeadIsUnread' /\ Counts'
    BY QuietCounts, <1>1 DEF TreeStep, WatchStates
  <1>5. Move(t, c)
    <2>1. Known(t)'
      BY <1>2 DEF Known, TreeStep, WatchStates
    <2>2. Uses(t)' \subseteq Uses(t)
      BY <1>2 DEF TreeStep, Uses
    <2>3. /\ Fresh(t)' => Fresh(t) /\ c.node = call[t].node /\ c.key = Key(t)
          /\ \A n \in Nodes : Linked(n)' => Linked(n) \/ (Fresh(t) /\ ~Fresh(t)' /\ n = call[t].node)
      BY <1>2 DEF TreeStep
    <2>4. PICK l, f : l = call[t].loc /\ f = call[t].force
      OBVIOUS
    <2>5. l \in Locations /\ Reached(l) /\ (f # Null => f \in Locations /\ Reached(f))
      BY <2>4, InCall DEF TreeStep, Calls
    <2>6. Reached(l)' /\ (f # Null => Reached(f)')
      BY <2>5, ReachedStays DEF TreeStep
    <2>7. Sound(c) /\ Reached(c.loc)' /\ (c.force # Null => Reached(c.force)')
      BY <2>4, <2>6 DEF TreeStep
    <2>8. /\ At(t, "retire")' =>
               /\ c.cur \notin retired'
               /\ ~Linked(c.cur)'
               /\ \A u \in Threads : u # t /\ At(u, "retire") => Cur(u) # c.cur
          /\ retired' = retired \/ (At(t, "retire") /\ retired' = retired \cup {Cur(t)})
      BY <1>2 DEF TreeStep
    <2> QED
      BY <1>1, <2>1, <2>2, <2>3, <2>7, <2>8 DEF Move, TreeStep
  <1> QED
    BY <1>1, <1>3, <1>4, <1>5, MoveKeeps

LEMMA PlaceKeeps ==
  ASSUME IInv, NEW t \in Threads, Place(t)
  PROVE  IInv'
  <1> USE NullAssumption
  <1>1. call[t] # Null /\ call[t].at = "place"
    BY DEF Place, At
  <1>2. call[t] \in Calls /\ Sound(call[t]) /\ Loc(t) \in Locations /\ Reached(Loc(t))
    BY <1>1, InCall DEF Calls, Loc
  <1>3. CASE tree[Loc(t)] # Null
    <2>1. tree' = tree /\ Delayed(t)
      BY <1>3 DEF Place, Cas
    <2> QED
      BY <1>1, <2>1, DelayedKeeps DEF Place
  <1>4. CASE tree[Loc(t)] = Null
    <2>1. PICK c : c = [call[t] EXCEPT !.at = "grow"]
      OBVIOUS
    <2>2. /\ c \in Calls
          /\ c.kind = call[t].kind /\ c.key = call[t].key /\ c.node = call[t].node
          /\ c.at = "grow" /\ c.loc = call[t].loc /\ c.res = call[t].res /\ c.force = call[t].force
      BY ZenonT(40), <1>2, <2>1 DEF Calls
    <2>3. Become(t, c)
      BY <1>1, <1>4, <2>1 DEF Place, Goto
    <2>4. PICK n, loc : n = call[t].node /\ loc = Loc(t)
      OBVIOUS
    <2>5. Fresh(t) /\ c.kind = "insert" /\ n \in Nodes
      BY <1>1, <1>2, <2>2, <2>4 DEF Fresh, Sound, Kind
    <2>6. n \in allocated \ dead /\ key_[n] = Key(t) /\ ~Linked(n)
      BY <2>4, <2>5 DEF IInv, Private
    <2>7. /\ n \in allocated \ retired /\ key_[n] \in Keys /\ loc = LocationOf(key_[n], DepthOf(loc))
          /\ tree' = [tree EXCEPT ![loc] = n] /\ tree[loc] # "array" /\ Reached(loc) /\ loc \in Locations
      BY <1>2, <1>4, <2>4, <2>6 DEF IInv, Types, Sound, Key, Loc, Calls, Place, Cas
    <2>8. /\ tree' \in [Locations -> Nodes \cup {Null, "array"}]
          /\ Paths'
          /\ ArraysStay
          /\ \A m \in Nodes : Linked(m)' => Linked(m) \/ m = n
      BY <2>5, <2>6, <2>7, PutKeeps DEF IInv, Place, nodeVars
    <2>9. TreeStep(t, c)
      BY <1>1, <1>2, <2>2, <2>3, <2>4, <2>5, <2>8
      DEF TreeStep, Sound, Place, nodeVars, WatchStates, Key, Kind, At
    <2> QED
      BY <2>9, TreeStepKeeps
  <1> QED
    BY <1>3, <1>4

(* The dead node that is replaced leaves the map, so nobody else retires it. *)
LEMMA ReplaceKeeps ==
  ASSUME IInv, NEW t \in Threads, Replace(t)
  PROVE  IInv'
  <1> USE NullAssumption, NodesAssumption
  <1>1. call[t] # Null /\ call[t].at = "replace"
    BY DEF Replace, At
  <1>2. call[t] \in Calls /\ Sound(call[t]) /\ Loc(t) \in Locations /\ Reached(Loc(t)) /\ Cur(t) \in dead
    BY <1>1, InCall DEF Calls, Loc, Known
  <1>3. CASE tree[Loc(t)] # Cur(t)
    <2>1. tree' = tree /\ Delayed(t)
      BY <1>3 DEF Replace, Cas
    <2> QED
      BY <1>1, <2>1, DelayedKeeps DEF Replace
  <1>4. CASE tree[Loc(t)] = Cur(t)
    <2>1. PICK c : c = [call[t] EXCEPT !.at = "retire"]
      OBVIOUS
    <2>2. /\ c \in Calls
          /\ c.kind = call[t].kind /\ c.key = call[t].key /\ c.node = call[t].node
          /\ c.at = "retire" /\ c.loc = call[t].loc /\ c.res = call[t].res /\ c.force = call[t].force
          /\ c.cur = call[t].cur
      BY ZenonT(40), <1>2, <2>1 DEF Calls
    <2>3. Become(t, c)
      BY <1>1, <1>4, <2>1 DEF Replace, Goto
    <2>4. PICK n, loc, old : n = call[t].node /\ loc = Loc(t) /\ old = Cur(t)
      OBVIOUS
    <2>5. Fresh(t) /\ c.kind = "insert" /\ n \in Nodes /\ old \in Nodes /\ c.cur = old
      BY <1>1, <1>2, <2>2, <2>4 DEF Fresh, Sound, Kind, Cur
    <2>6. n \in allocated \ dead /\ key_[n] = Key(t) /\ ~Linked(n)
      BY <2>4, <2>5 DEF IInv, Private
    <2>7. /\ n \in allocated \ retired /\ key_[n] \in Keys /\ loc = LocationOf(key_[n], DepthOf(loc))
          /\ tree' = [tree EXCEPT ![loc] = n] /\ tree[loc] # "array" /\ Reached(loc) /\ loc \in Locations
      BY <1>2, <1>4, <2>4, <2>5, <2>6 DEF IInv, Types, Sound, Key, Loc, Calls, Replace, Cas
    <2>8. /\ tree' \in [Locations -> Nodes \cup {Null, "array"}]
          /\ Paths'
          /\ ArraysStay
          /\ \A m \in Nodes : Linked(m)' => Linked(m) \/ m = n
          /\ ~Linked(old)'
      BY <1>4, <2>4, <2>5, <2>6, <2>7, PutKeeps DEF IInv, Replace, nodeVars
    <2>9. Linked(old) /\ old \in Uses(t) /\ old \notin retired
      BY <1>1, <1>2, <1>4, <2>4, <2>5, WatchedIsAllocated, LinkedIsAllocated DEF Linked, WatchStates, IInv
    <2>10. \A u \in Threads : At(u, "retire") => Cur(u) # old
      BY <2>9 DEF IInv, Retiring
    <2>11. TreeStep(t, c)
      BY <1>1, <1>2, <2>2, <2>3, <2>4, <2>5, <2>8, <2>9, <2>10
      DEF TreeStep, Sound, Replace, nodeVars, WatchStates, Key, Kind, At
    <2> QED
      BY <2>11, TreeStepKeeps
  <1> QED
    BY <1>3, <1>4

LEMMA UnlinkKeeps ==
  ASSUME IInv, NEW t \in Threads, Unlink(t)
  PROVE  IInv'
  <1> USE NullAssumption, NodesAssumption
  <1>1. call[t] # Null /\ call[t].at = "unlink"
    BY DEF Unlink, At
  <1>2. call[t] \in Calls /\ Sound(call[t]) /\ Loc(t) \in Locations /\ Cur(t) \in dead
    BY <1>1, InCall DEF Calls, Loc, Known
  <1>3. CASE tree[Loc(t)] # Cur(t)
    <2>1. PICK c : c = [call[t] EXCEPT !.at = "done", !.cur = Null]
      OBVIOUS
    <2>2. /\ c \in Calls
          /\ c.kind = call[t].kind /\ c.key = call[t].key /\ c.node = call[t].node
          /\ c.at = "done" /\ c.loc = call[t].loc /\ c.cur = Null
          /\ c.res = call[t].res /\ c.force = call[t].force
      BY ZenonT(40), <1>2, <2>1 DEF Calls
    <2>3. Become(t, c) /\ tree' = tree
      BY <1>3, <2>1 DEF Unlink, GotoWith, Cas
    <2>4. Quiet(t, c)
      BY <1>1, <2>2, <2>3, InCall
      DEF Quiet, Sound, Unlink, nodeVars, WatchStates, Key, Kind, Fresh, At
    <2> QED
      BY <2>4, QuietKeeps
  <1>4. CASE tree[Loc(t)] = Cur(t)
    <2>1. PICK c : c = [call[t] EXCEPT !.at = "retire"]
      OBVIOUS
    <2>2. /\ c \in Calls
          /\ c.kind = call[t].kind /\ c.key = call[t].key /\ c.node = call[t].node
          /\ c.at = "retire" /\ c.loc = call[t].loc /\ c.res = call[t].res /\ c.force = call[t].force
          /\ c.cur = call[t].cur
      BY ZenonT(40), <1>2, <2>1 DEF Calls
    <2>3. Become(t, c)
      BY <1>1, <1>4, <2>1 DEF Unlink, Goto
    <2>4. PICK loc, old : loc = Loc(t) /\ old = Cur(t)
      OBVIOUS
    <2>5. c.kind = "remove" /\ old \in Nodes /\ c.cur = old
      BY <1>1, <1>2, <2>2, <2>4 DEF Sound, Kind, Cur
    <2>6. tree' = [tree EXCEPT ![loc] = Null] /\ tree[loc] # "array" /\ loc \in Locations
      BY <1>2, <1>4, <2>4, <2>5 DEF Unlink, Cas
    <2>7. /\ tree' \in [Locations -> Nodes \cup {Null, "array"}]
          /\ Paths'
          /\ ArraysStay
          /\ \A m \in Nodes : Linked(m)' => Linked(m) \/ m = Null
          /\ ~Linked(old)'
      <3>1. Null \in Nodes \cup {Null} /\ Types /\ Paths /\ UNCHANGED <<key_, allocated, retired>> /\ tree[loc] = old
        BY <1>4, <2>4 DEF IInv, Unlink, nodeVars
      <3> QED
        BY <2>5, <2>6, <3>1, PutKeeps
    <2>8. Linked(old) /\ old \in Uses(t) /\ old \notin retired
      BY <1>1, <1>2, <1>4, <2>4, <2>5, WatchedIsAllocated, LinkedIsAllocated DEF Linked, WatchStates, IInv
    <2>9. \A u \in Threads : At(u, "retire") => Cur(u) # old
      BY <2>8 DEF IInv, Retiring
    <2>10. TreeStep(t, c)
      BY <1>1, <1>2, <2>2, <2>3, <2>4, <2>5, <2>7, <2>8, <2>9
      DEF TreeStep, Sound, Unlink, nodeVars, WatchStates, Key, Kind, At
    <2> QED
      BY <2>10, TreeStepKeeps
  <1> QED
    BY <1>3, <1>4

LEMMA RetireKeeps ==
  ASSUME IInv, NEW t \in Threads, Retire(t)
  PROVE  IInv'
  <1>1. call[t] # Null /\ call[t].at = "retire"
    BY DEF Retire, At
  <1>2. call[t] \in Calls /\ Sound(call[t])
    BY <1>1, InCall
  <1>3. PICK at : at = IF Kind(t) = "insert" THEN "grow" ELSE "done"
    OBVIOUS
  <1>4. PICK c : c = [call[t] EXCEPT !.at = at, !.cur = Null]
    OBVIOUS
  <1>5. /\ c \in Calls
        /\ c.kind = call[t].kind /\ c.key = call[t].key /\ c.node = call[t].node
        /\ c.at = at /\ c.loc = call[t].loc /\ c.cur = Null
        /\ c.res = call[t].res /\ c.force = call[t].force
    BY ZenonT(40), <1>2, <1>3, <1>4 DEF Calls
  <1>6. Become(t, c) /\ tree' = tree
    BY <1>3, <1>4 DEF Retire, GotoWith
  <1>7. retired' = retired \cup {Cur(t)} /\ ~Linked(Cur(t)) /\ UNCHANGED <<key_, allocated>>
    BY <1>1 DEF Retire, IInv, Retiring, At, nodeVars
  <1>8. Paths'
    <2> SUFFICES ASSUME NEW l \in Locations PROVE Placed(l)'
      BY DEF Paths
    <2>1. Placed(l) /\ tree[l] # Cur(t)
      BY <1>7 DEF IInv, Paths, Linked
    <2> QED
      BY <1>6, <1>7, <2>1 DEF Placed, IsNode, Reached
  <1>9. TreeStep(t, c)
    BY <1>1, <1>2, <1>3, <1>5, <1>6, <1>7, <1>8
    DEF TreeStep, Sound, Retire, nodeVars, WatchStates, Key, Kind, At, IInv, Types, ArraysStay, Linked
  <1> QED
    BY <1>9, TreeStepKeeps

(* Two keys part at the last level at the latest.                          *)
LEMMA ExpandKeeps ==
  ASSUME IInv, NEW t \in Threads, Expand(t)
  PROVE  IInv'
  <1> USE NullAssumption, NodesAssumption
  <1>1. call[t] # Null /\ call[t].at = "expand"
    BY DEF Expand, At
  <1>2. call[t] \in Calls /\ Sound(call[t]) /\ Loc(t) \in Locations /\ Reached(Loc(t)) /\ Cur(t) \in Nodes
        /\ key_[Cur(t)] # Key(t)
    BY <1>1, InCall DEF Calls, Loc, Cur, Sound, Known
  <1>3. PICK c : c = [call[t] EXCEPT !.at = "load", !.cur = Null]
    OBVIOUS
  <1>4. /\ c \in Calls
        /\ c.kind = call[t].kind /\ c.key = call[t].key /\ c.node = call[t].node
        /\ c.at = "load" /\ c.loc = call[t].loc /\ c.cur = Null
        /\ c.res = call[t].res /\ c.force = call[t].force
    BY ZenonT(40), <1>2, <1>3 DEF Calls
  <1>5. Become(t, c)
    BY <1>3 DEF Expand, GotoWith
  <1>6. PICK loc, n : loc = Loc(t) /\ n = Cur(t)
    OBVIOUS
  <1>7. ExpandMap(loc, n) /\ UNCHANGED <<key_, allocated, retired>>
    BY <1>6 DEF Expand, nodeVars
  <1>8. tree[loc] = n => DepthOf(loc) < MaxDepth
    <2> SUFFICES ASSUME tree[loc] = n, ~(DepthOf(loc) < MaxDepth) PROVE FALSE
      OBVIOUS
    <2>1. DepthOf(loc) = MaxDepth
      BY <1>2, <1>6, DepthInRange, MaxDepthIsNat
    <2>2. loc = LocationOf(Key(t), MaxDepth) /\ Key(t) \in Keys
      BY <1>2, <1>6, <2>1 DEF Sound, Loc, Key, Calls
    <2>3. loc = LocationOf(key_[n], MaxDepth) /\ key_[n] \in Keys
      BY <1>2, <1>6, <2>1 DEF IInv, Paths, Placed, IsNode
    <2> QED
      BY <1>2, <1>6, <2>2, <2>3, PathsAssumption
  <1>9. /\ tree' \in [Locations -> Nodes \cup {Null, "array"}]
        /\ Paths'
        /\ ArraysStay
        /\ \A m \in Nodes : Linked(m)' => Linked(m)
    <2>1. CASE tree[loc] = n
      BY <1>2, <1>6, <1>7, <1>8, <2>1, ExpandMapKeeps DEF IInv
    <2>2. CASE tree[loc] # n
      <3>1. tree' = tree
        BY <1>7, <2>2 DEF ExpandMap
      <3> QED
        BY <1>7, <3>1 DEF IInv, Types, Paths, Placed, Reached, ArraysStay, Linked
    <2> QED
      BY <2>1, <2>2
  <1>10. TreeStep(t, c)
    BY <1>1, <1>2, <1>4, <1>5, <1>9
    DEF TreeStep, Sound, Expand, nodeVars, WatchStates, Key, Kind, At, Fresh
  <1> QED
    BY <1>10, TreeStepKeeps

LEMMA ForceExpandKeeps ==
  ASSUME IInv, NEW t \in Threads, ForceExpand(t)
  PROVE  IInv'
  <1>1. call[t] # Null /\ call[t].at = "force_expand"
    BY DEF ForceExpand, At
  <1>2. call[t] \in Calls /\ Sound(call[t]) /\ Reached(call[t].force) /\ call[t].force \in Locations
        /\ DepthOf(call[t].force) < MaxDepth /\ Cur(t) \in Nodes \cup {Null}
    BY <1>1, InCall, CallsAssumption DEF Calls, Cur, Sound
  <1>3. PICK c : c = [call[t] EXCEPT !.at = "force", !.cur = Null]
    OBVIOUS
  <1>4. /\ c \in Calls
        /\ c.kind = call[t].kind /\ c.key = call[t].key /\ c.node = call[t].node
        /\ c.at = "force" /\ c.loc = call[t].loc /\ c.cur = Null
        /\ c.res = call[t].res /\ c.force = call[t].force
    BY ZenonT(40), <1>2, <1>3 DEF Calls
  <1>5. Become(t, c)
    BY <1>3 DEF ForceExpand, GotoWith
  <1>6. PICK loc, n : loc = call[t].force /\ n = Cur(t)
    OBVIOUS
  <1>7. ExpandMap(loc, n) /\ UNCHANGED <<key_, allocated, retired>>
    BY <1>6 DEF ForceExpand, nodeVars
  <1>8. /\ tree' \in [Locations -> Nodes \cup {Null, "array"}]
        /\ Paths'
        /\ ArraysStay
        /\ \A m \in Nodes : Linked(m)' => Linked(m)
    BY <1>2, <1>6, <1>7, ExpandMapKeeps DEF IInv
  <1>9. TreeStep(t, c)
    BY <1>1, <1>2, <1>4, <1>5, <1>8
    DEF TreeStep, Sound, ForceExpand, nodeVars, WatchStates, Key, Kind, At, Fresh
  <1> QED
    BY <1>9, TreeStepKeeps

------------------------------------------------------------------------------
(* Steps that change an access count *)

LEMMA CardinalityOfSubset ==
  ASSUME NEW S, S \subseteq Threads
  PROVE  IsFiniteSet(S) /\ Cardinality(S) \in Nat /\ Cardinality(S) <= NumThreads
  BY FS_Subset, FS_CardinalityType, ThreadsAssumption DEF NumThreads

(* Two sets of threads that differ in one.                                 *)
LEMMA ChangeOfOne ==
  ASSUME NEW S, NEW R, S \subseteq Threads, R \subseteq Threads, NEW t \in Threads,
         \A u \in Threads : u # t => (u \in S <=> u \in R)
  PROVE  Cardinality(R) = Cardinality(S) - (IF t \in S THEN 1 ELSE 0) + (IF t \in R THEN 1 ELSE 0)
  <1>1. /\ IsFiniteSet(S) /\ IsFiniteSet(R)
        /\ Cardinality(S) \in Nat /\ Cardinality(R) \in Nat
    BY CardinalityOfSubset
  <1>2. CASE t \in S /\ t \in R
    <2>1. S = R
      BY <1>2
    <2> QED
      BY <1>1, <1>2, <2>1
  <1>3. CASE t \notin S /\ t \notin R
    <2>1. S = R
      BY <1>3
    <2> QED
      BY <1>1, <1>3, <2>1
  <1>4. CASE t \in S /\ t \notin R
    <2>1. R = S \ {t}
      BY <1>4
    <2>2. Cardinality(R) = Cardinality(S) - 1
      BY <1>1, <1>4, <2>1, FS_RemoveElement
    <2> QED
      BY <1>1, <1>4, <2>2
  <1>5. CASE t \notin S /\ t \in R
    <2>1. R = S \cup {t}
      BY <1>5
    <2>2. Cardinality(R) = Cardinality(S) + 1
      BY <1>1, <1>5, <2>1, FS_AddElement
    <2> QED
      BY <1>1, <1>5, <2>2
  <1> QED
    BY <1>2, <1>3, <1>4, <1>5

(* What a thread has added to a count.                                     *)
One(p) == IF p THEN 1 ELSE 0
Weight(t, n) == One(t \in Counting(n)) + One(t \in Accessing(n)) + One(t \in Releasing(n))

LEMMA TotalMoves ==
  ASSUME Types, NEW t \in Threads, NEW c, Become(t, c), \A u \in Threads : u # t => va'[u] = va[u], NEW n
  PROVE  /\ Total(n) \in Nat
         /\ Total(n)' = Total(n) - Weight(t, n) + Weight(t, n)'
  <1>1. /\ Counting(n) \subseteq Threads /\ Counting(n)' \subseteq Threads
        /\ Accessing(n) \subseteq Threads /\ Accessing(n)' \subseteq Threads
        /\ Releasing(n) \subseteq Threads /\ Releasing(n)' \subseteq Threads
    BY DEF Counting, Accessing, Releasing
  <1>2. \A u \in Threads : u # t =>
          /\ u \in Counting(n) <=> u \in Counting(n)'
          /\ u \in Accessing(n) <=> u \in Accessing(n)'
          /\ u \in Releasing(n) <=> u \in Releasing(n)'
    BY OthersStay DEF Counting, Accessing, Releasing
  <1>3. PICK co, ac, re, coo, acc, ree :
          /\ co = Counting(n) /\ ac = Accessing(n) /\ re = Releasing(n)
          /\ coo = Counting(n)' /\ acc = Accessing(n)' /\ ree = Releasing(n)'
    OBVIOUS
  <1>4. /\ Cardinality(coo) = Cardinality(co) - One(t \in co) + One(t \in coo)
        /\ Cardinality(acc) = Cardinality(ac) - One(t \in ac) + One(t \in acc)
        /\ Cardinality(ree) = Cardinality(re) - One(t \in re) + One(t \in ree)
    BY <1>1, <1>2, <1>3, ChangeOfOne DEF One
  <1>5. Cardinality(co) \in Nat /\ Cardinality(ac) \in Nat /\ Cardinality(re) \in Nat
    BY <1>1, <1>3, CardinalityOfSubset
  <1> QED
    BY <1>3, <1>4, <1>5 DEF Total, Weight, One

(* A node that is dead for whoever looks at its count: those who raised it *)
(* for a moment are fewer than NumThreads, for the one who looks did not.  *)
LEMMA DeadIsNegative ==
  ASSUME IInv, NEW t \in Threads, NEW n \in dead, ~(At(t, "uncount") /\ Cur(t) = n)
  PROVE  access_count_[n] < 0
  <1>1. n \in allocated /\ n # Null
    BY NullAssumption DEF IInv, Types
  <1>2. Accessing(n) = {} /\ Releasing(n) = {}
    BY DEF IInv, DeadIsUnread, Accessing, Releasing
  <1>3. Cardinality(Counting(n)) < NumThreads
    <2>1. Counting(n) \subseteq Threads /\ t \notin Counting(n)
      BY DEF Counting
    <2>2. IsFiniteSet(Counting(n)) /\ Cardinality(Counting(n)) \in Nat
      BY <2>1, CardinalityOfSubset
    <2>3. Cardinality(Counting(n) \cup {t}) = Cardinality(Counting(n)) + 1
      BY <2>1, <2>2, FS_AddElement
    <2>4. Cardinality(Counting(n) \cup {t}) <= NumThreads
      BY <2>1, CardinalityOfSubset
    <2> QED
      BY <2>2, <2>3, <2>4, CardinalityOfSubset, NumThreadsIsNat
  <1>4. Cardinality({}) = 0
    BY FS_EmptySet
  <1>5. NumThreads \in Nat /\ Cardinality(Counting(n)) \in Nat
    BY CountsAreNat, NumThreadsIsNat
  <1>6. Total(n) = Cardinality(Counting(n))
    BY <1>2, <1>4, <1>5 DEF Total
  <1>7. access_count_[n] = Cardinality(Counting(n)) - NumThreads
    BY <1>1, <1>6 DEF IInv, Counts
  <1> QED
    BY <1>3, <1>5, <1>7

(* What a thread adds to a count is what it answers for.                   *)
Answers(t, n, d) == \A m \in Nodes : Weight(t, m)' = Weight(t, m) + (IF m = n THEN d ELSE 0)

LEMMA CountsFollow ==
  ASSUME IInv, NEW t \in Threads, NEW c, Become(t, c), \A u \in Threads : u # t => va'[u] = va[u],
         NEW n \in Nodes, NEW d \in Int, Add(n, d), Answers(t, n, d),
         UNCHANGED <<allocated, dead>>
  PROVE  Counts'
  <1> SUFFICES ASSUME NEW m \in allocated
               PROVE  access_count_'[m] = Total(m)' - (IF m \in dead THEN NumThreads ELSE 0)
    BY DEF Counts
  <1>1. Total(m) \in Nat /\ Total(m)' = Total(m) - Weight(t, m) + Weight(t, m)'
    BY TotalMoves DEF IInv
  <1>2. access_count_'[m] = access_count_[m] + (IF m = n THEN d ELSE 0)
    BY DEF IInv, Types, Add
  <1>3. Weight(t, m)' = Weight(t, m) + (IF m = n THEN d ELSE 0)
    BY DEF IInv, Types, Answers
  <1>4. access_count_[m] = Total(m) - (IF m \in dead THEN NumThreads ELSE 0)
    BY DEF IInv, Counts
  <1>5. Weight(t, m) \in Nat /\ NumThreads \in Nat
    BY NumThreadsIsNat DEF Weight, One
  <1> QED
    BY <1>1, <1>2, <1>4, <1>5, <1>3

(* A step that leaves the tree and what is allocated alone; c is Null when *)
(* the thread is in no call afterwards.                                    *)
Tally(t, c) ==
  /\ Become(t, c)
  /\ UNCHANGED <<tree, key_, value_, allocated, retired, op_table_>>
  /\ access_count_' \in [Nodes -> Int]
  /\ va' \in [Threads -> Nodes \cup {Null}] /\ \A u \in Threads : u # t => va'[u] = va[u]
  /\ dead \subseteq dead' /\ dead' \subseteq dead \cup Uses(t)
  /\ c # Null =>
       /\ c \in Calls /\ call[t] # Null
       /\ c.kind # "insert" /\ c.loc = call[t].loc /\ c.force = call[t].force
       /\ Sound(c)
       /\ c.at \in {"uncount", "shrink", "done", "release"}
       /\ c.at \in {"uncount", "shrink"} => c.cur \in dead'
  /\ Uses(t)' \subseteq Uses(t)

LEMMA TallyKeeps ==
  ASSUME IInv, NEW t \in Threads, NEW c, Tally(t, c), DeadIsUnread', Counts'
  PROVE  IInv'
  <1> USE DEF IInv
  <1>1. Become(t, c)
    BY DEF Tally
  <1>2. call'[t] = c
    BY <1>1, OthersStay
  <1>3. Types'
    <2>1. call' \in [Threads -> Calls \cup {Null}]
      BY <1>1 DEF Types, Become, Tally
    <2>2. dead' \subseteq allocated
      BY DEF Types, Tally, UsesAreAllocated
    <2> QED
      BY <2>1, <2>2 DEF Types, Tally
  <1>4. \A l : Reached(l)' <=> Reached(l)
    BY DEF Tally, Reached
  <1>5. Paths'
    BY <1>4 DEF Tally, Paths, Placed
  <1>6. Move(t, c)
    <2>1. Known(t)' /\ ~At(t, "retire")' /\ ~Fresh(t)'
      BY <1>2 DEF Known, Tally, At, Cur, Fresh, Kind
    <2>2. \A n : Linked(n)' <=> Linked(n)
      BY DEF Linked, Tally
    <2>3. c # Null => Sound(c) /\ Reached(c.loc)' /\ (c.force # Null => Reached(c.force)')
      BY <1>4, InCall DEF Tally
    <2> QED
      BY <1>1, <2>1, <2>2, <2>3 DEF Move, Tally, ArraysStay
  <1> QED
    BY <1>3, <1>5, <1>6, MoveKeeps

LEMMA CountAccessKeeps ==
  ASSUME IInv, NEW t \in Threads, CountAccess(t)
  PROVE  IInv'
  <1> USE NullAssumption
  <1>1. call[t] # Null /\ call[t].at = "count"
    BY DEF CountAccess, At
  <1>2. call[t] \in Calls /\ Sound(call[t]) /\ Kind(t) = "at" /\ Types
    BY <1>1, InCall DEF Sound, Kind, IInv
  <1>3. PICK n, v : n = Cur(t) /\ v = va[t]
    OBVIOUS
  <1>4. n \in Nodes /\ n \in allocated /\ n \in Uses(t) /\ v \in Nodes \cup {Null}
    BY <1>1, <1>2, <1>3, WatchedIsAllocated DEF Sound, Cur, WatchStates, Types
  <1>5. /\ Add(n, 1)
        /\ UNCHANGED <<tree, nodeVars, op_table_, retired, dead>>
    BY <1>3 DEF CountAccess
  <1>6. CASE access_count_[n] < 0
    <2>1. ~(access_count_[n] >= 0)
      BY <1>2, <1>4, <1>6 DEF Types
    <2>2. PICK c : c = [call[t] EXCEPT !.at = "uncount"]
      OBVIOUS
    <2>3. /\ c \in Calls
          /\ c.kind = call[t].kind /\ c.key = call[t].key /\ c.node = call[t].node
          /\ c.at = "uncount" /\ c.loc = call[t].loc /\ c.cur = n
          /\ c.res = call[t].res /\ c.force = call[t].force
      BY ZenonT(40), <1>2, <1>3, <2>2 DEF Calls, Cur
    <2>4. Become(t, c) /\ va' = va
      BY <1>3, <2>1, <2>2 DEF CountAccess, Goto
    <2>5. n \in dead
      BY <1>4, <1>6, NegativeIsDead
    <2>6. /\ call'[t] = c /\ c # Null
          /\ \A l : At(t, l)' <=> c.at = l
          /\ Cur(t)' = c.cur
          /\ Watches(t)' = IF c.at \in WatchStates THEN {c.cur} \ {Null} ELSE {}
      BY <1>2, <2>3, <2>4, Becomes
    <2>7. Uses(t)' \subseteq Uses(t)
      BY <1>1, <1>2, <1>4, <2>3, <2>4, <2>6 DEF Uses, WatchStates
    <2>8. Tally(t, c)
      BY <1>1, <1>2, <1>5, <2>3, <2>4, <2>5, <2>7 DEF Tally, nodeVars, Types, Sound, Kind, Add
    <2>9. DeadIsUnread'
      <3> SUFFICES ASSUME NEW u \in Threads
                   PROVE  va'[u] \notin dead' /\ (At(u, "release")' => Cur(u)' \notin dead')
        BY DEF DeadIsUnread
      <3> QED
        BY <1>2, <1>5, <2>3, <2>4, <2>6, OthersStay DEF DeadIsUnread, IInv
    <2>10. Counts'
      <3>1. Answers(t, n, 1)
        BY <1>1, <1>2, <2>3, <2>4, <2>6 DEF Answers, Weight, One, Counting, Accessing, Releasing, At, Cur
      <3>2. UNCHANGED <<allocated, dead>>
        BY <1>5 DEF nodeVars
      <3> QED
        BY <1>4, <1>5, <2>4, <3>1, <3>2, CountsFollow
    <2> QED
      BY <2>8, <2>9, <2>10, TallyKeeps
  <1>7. CASE ~(access_count_[n] < 0)
    <2>1. access_count_[n] >= 0
      BY <1>2, <1>4, <1>7 DEF Types
    <2>2. PICK at : at = IF v = Null THEN "done" ELSE "release"
      OBVIOUS
    <2>3. PICK c : c = [call[t] EXCEPT !.at = at, !.res = value_[n], !.cur = v]
      OBVIOUS
    <2>4. value_[n] \in Values \cup {Null} /\ at \in {"done", "release"}
      BY <1>2, <1>4, <2>2 DEF Types
    <2>5. /\ c \in Calls
          /\ c.kind = call[t].kind /\ c.key = call[t].key /\ c.node = call[t].node
          /\ c.at = at /\ c.loc = call[t].loc /\ c.cur = v
          /\ c.force = call[t].force
      BY ZenonT(40), <1>2, <1>4, <2>3, <2>4 DEF Calls
    <2>6. Become(t, c) /\ va' = [va EXCEPT ![t] = n]
      BY <1>3, <2>1, <2>2, <2>3 DEF CountAccess
    <2>7. n \notin dead
      BY <1>1, <1>7, DeadIsNegative DEF At
    <2>8. /\ call'[t] = c /\ c # Null
          /\ \A l : At(t, l)' <=> c.at = l
          /\ Cur(t)' = c.cur
          /\ Watches(t)' = IF c.at \in WatchStates THEN {c.cur} \ {Null} ELSE {}
      BY <1>2, <2>5, <2>6, Becomes
    <2>9. va'[t] = n /\ \A u \in Threads : u # t => va'[u] = va[u]
      BY <1>2, <2>6 DEF Types
    <2>10. Uses(t)' \subseteq Uses(t)
      BY <1>1, <1>2, <1>3, <1>4, <2>2, <2>5, <2>8, <2>9 DEF Uses, WatchStates
    <2>11. Tally(t, c)
      BY <1>1, <1>2, <1>4, <1>5, <2>2, <2>5, <2>6, <2>9, <2>10 DEF Tally, nodeVars, Types, Sound, Kind, Add
    <2>12. DeadIsUnread'
      <3> SUFFICES ASSUME NEW u \in Threads
                   PROVE  va'[u] \notin dead' /\ (At(u, "release")' => Cur(u)' \notin dead')
        BY DEF DeadIsUnread
      <3>1. CASE u = t
        BY <1>3, <1>5, <2>5, <2>7, <2>8, <2>9, <3>1 DEF DeadIsUnread, IInv
      <3>2. CASE u # t
        BY <1>2, <1>5, <2>6, <2>9, <3>2, OthersStay DEF DeadIsUnread, IInv
      <3> QED
        BY <3>1, <3>2
    <2>13. Counts'
      <3>1. UNCHANGED <<allocated, dead>>
        BY <1>5 DEF nodeVars
      <3> SUFFICES Answers(t, n, 1)
        BY <1>4, <1>5, <2>6, <2>9, <3>1, CountsFollow
      <3> SUFFICES ASSUME NEW m \in Nodes
                   PROVE  Weight(t, m)' = Weight(t, m) + (IF m = n THEN 1 ELSE 0)
        BY DEF Answers
      <3>2. Weight(t, m) = One(v = m)
        BY <1>1, <1>3 DEF Weight, One, Counting, Accessing, Releasing, At
      <3>3. Weight(t, m)' = One(m = n) + One(v = m)
        BY <2>2, <2>5, <2>8, <2>9 DEF Weight, One, Counting, Accessing, Releasing
      <3> QED
        BY <3>2, <3>3 DEF One
    <2> QED
      BY <2>11, <2>12, <2>13, TallyKeeps
  <1> QED
    BY <1>6, <1>7

LEMMA UncountKeeps ==
  ASSUME IInv, NEW t \in Threads, Uncount(t)
  PROVE  IInv'
  <1> USE NullAssumption
  <1>1. call[t] # Null /\ call[t].at = "uncount"
    BY DEF Uncount, At
  <1>2. call[t] \in Calls /\ Sound(call[t]) /\ Kind(t) = "at" /\ Types
    BY <1>1, InCall DEF Sound, Kind, IInv
  <1>3. PICK n : n = Cur(t)
    OBVIOUS
  <1>4. n \in Nodes
    BY <1>1, <1>2, <1>3 DEF Sound, Cur
  <1>5. /\ Add(n, -1)
        /\ UNCHANGED <<tree, nodeVars, op_table_, va, retired, dead>>
    BY <1>3 DEF Uncount
  <1>6. PICK c : c = [call[t] EXCEPT !.at = "done", !.res = "refused", !.cur = Null]
    OBVIOUS
  <1>7. /\ c \in Calls
        /\ c.kind = call[t].kind /\ c.key = call[t].key /\ c.node = call[t].node
        /\ c.at = "done" /\ c.loc = call[t].loc /\ c.cur = Null /\ c.force = call[t].force
    BY ZenonT(40), <1>2, <1>6 DEF Calls
  <1>8. Become(t, c)
    BY <1>6 DEF Uncount, Decide
  <1>9. /\ call'[t] = c /\ c # Null
        /\ \A l : At(t, l)' <=> c.at = l
        /\ Cur(t)' = c.cur
        /\ Watches(t)' = IF c.at \in WatchStates THEN {c.cur} \ {Null} ELSE {}
    BY <1>2, <1>7, <1>8, Becomes
  <1>10. Uses(t)' \subseteq Uses(t)
    BY <1>5, <1>7, <1>9 DEF Uses, WatchStates
  <1>11. Tally(t, c)
    BY <1>1, <1>2, <1>4, <1>5, <1>7, <1>8, <1>10 DEF Tally, nodeVars, Types, Sound, Kind, Add
  <1>12. DeadIsUnread'
    <2> SUFFICES ASSUME NEW u \in Threads
                 PROVE  va'[u] \notin dead' /\ (At(u, "release")' => Cur(u)' \notin dead')
      BY DEF DeadIsUnread
    <2> QED
      BY <1>2, <1>5, <1>7, <1>8, <1>9, OthersStay DEF DeadIsUnread, IInv
  <1>13. Counts'
    <2>1. Answers(t, n, -1)
      BY <1>1, <1>3, <1>5, <1>7, <1>9 DEF Answers, Weight, One, Counting, Accessing, Releasing, At
    <2>2. UNCHANGED <<allocated, dead, va>>
      BY <1>5 DEF nodeVars
    <2> QED
      BY <1>4, <1>5, <1>8, <2>1, <2>2, CountsFollow
  <1> QED
    BY <1>11, <1>12, <1>13, TallyKeeps

LEMMA ReleaseKeeps ==
  ASSUME IInv, NEW t \in Threads, Release(t)
  PROVE  IInv'
  <1> USE NullAssumption
  <1>1. call[t] # Null /\ call[t].at = "release"
    BY DEF Release, At
  <1>2. call[t] \in Calls /\ Sound(call[t]) /\ Kind(t) = "at" /\ Types
    BY <1>1, InCall DEF Sound, Kind, IInv
  <1>3. PICK n : n = Cur(t)
    OBVIOUS
  <1>4. n \in Nodes
    BY <1>1, <1>2, <1>3 DEF Sound, Cur
  <1>5. /\ Add(n, -1)
        /\ UNCHANGED <<tree, nodeVars, op_table_, va, retired, dead>>
    BY <1>3 DEF Release
  <1>6. PICK c : c = [call[t] EXCEPT !.at = "done", !.cur = Null]
    OBVIOUS
  <1>7. /\ c \in Calls
        /\ c.kind = call[t].kind /\ c.key = call[t].key /\ c.node = call[t].node
        /\ c.at = "done" /\ c.loc = call[t].loc /\ c.cur = Null /\ c.force = call[t].force
    BY ZenonT(40), <1>2, <1>6 DEF Calls
  <1>8. Become(t, c)
    BY <1>6 DEF Release, GotoWith
  <1>9. /\ call'[t] = c /\ c # Null
        /\ \A l : At(t, l)' <=> c.at = l
        /\ Cur(t)' = c.cur
        /\ Watches(t)' = IF c.at \in WatchStates THEN {c.cur} \ {Null} ELSE {}
    BY <1>2, <1>7, <1>8, Becomes
  <1>10. Uses(t)' \subseteq Uses(t)
    BY <1>5, <1>7, <1>9 DEF Uses, WatchStates
  <1>11. Tally(t, c)
    BY <1>1, <1>2, <1>4, <1>5, <1>7, <1>8, <1>10 DEF Tally, nodeVars, Types, Sound, Kind, Add
  <1>12. DeadIsUnread'
    <2> SUFFICES ASSUME NEW u \in Threads
                 PROVE  va'[u] \notin dead' /\ (At(u, "release")' => Cur(u)' \notin dead')
      BY DEF DeadIsUnread
    <2> QED
      BY <1>2, <1>5, <1>7, <1>8, <1>9, OthersStay DEF DeadIsUnread, IInv
  <1>13. Counts'
    <2>1. Answers(t, n, -1)
      BY <1>1, <1>3, <1>5, <1>7, <1>9 DEF Answers, Weight, One, Counting, Accessing, Releasing, At
    <2>2. UNCHANGED <<allocated, dead, va>>
      BY <1>5 DEF nodeVars
    <2> QED
      BY <1>4, <1>5, <1>8, <2>1, <2>2, CountsFollow
  <1> QED
    BY <1>11, <1>12, <1>13, TallyKeeps

LEMMA ResetKeeps ==
  ASSUME IInv, NEW t \in Threads, Reset(t)
  PROVE  IInv'
  <1> USE NullAssumption
  <1>1. call[t] = Null /\ va[t] # Null /\ Types
    BY DEF Reset, IInv
  <1>2. PICK n : n = va[t]
    OBVIOUS
  <1>3. n \in Nodes
    BY <1>1, <1>2 DEF Types
  <1>4. /\ Add(n, -1)
        /\ va' = [va EXCEPT ![t] = Null]
        /\ UNCHANGED <<tree, nodeVars, op_table_, call, retired, dead>>
    BY <1>2 DEF Reset
  <1>5. Become(t, Null)
    BY <1>1, <1>4 DEF Become, Types
  <1>6. va'[t] = Null /\ \A u \in Threads : u # t => va'[u] = va[u]
    BY <1>1, <1>4 DEF Types
  <1>7. \A u, l : ~At(t, l) /\ ~At(t, l)' /\ (At(u, l)' <=> At(u, l)) /\ Cur(u)' = Cur(u)
    BY <1>1, <1>4 DEF At, Cur
  <1>8. Uses(t)' \subseteq Uses(t)
    BY <1>1, <1>4, <1>6, <1>7 DEF Uses, Watches
  <1>9. Tally(t, Null)
    BY <1>1, <1>3, <1>4, <1>5, <1>6, <1>8 DEF Tally, nodeVars, Types, Add
  <1>10. DeadIsUnread'
    <2> SUFFICES ASSUME NEW u \in Threads
                 PROVE  va'[u] \notin dead' /\ (At(u, "release")' => Cur(u)' \notin dead')
      BY DEF DeadIsUnread
    <2>1. Null \notin dead
      BY <1>1 DEF Types
    <2> QED
      BY <1>4, <1>6, <1>7, <2>1 DEF DeadIsUnread, IInv
  <1>11. Counts'
    <2>1. Answers(t, n, -1)
      BY <1>2, <1>3, <1>6, <1>7 DEF Answers, Weight, One, Counting, Accessing, Releasing
    <2>2. UNCHANGED <<allocated, dead>>
      BY <1>4 DEF nodeVars
    <2> QED
      BY <1>3, <1>4, <1>5, <1>6, <2>1, <2>2, CountsFollow
  <1> QED
    BY <1>9, <1>10, <1>11, TallyKeeps

(* A node is killed only while nobody has raised its count: nobody reads it. *)
LEMMA KillKeeps ==
  ASSUME IInv, NEW t \in Threads, Kill(t)
  PROVE  IInv'
  <1> USE NullAssumption
  <1>1. call[t] # Null /\ call[t].at = "kill"
    BY DEF Kill, At
  <1>2. call[t] \in Calls /\ Sound(call[t]) /\ Kind(t) = "remove" /\ Types
    BY <1>1, InCall DEF Sound, Kind, IInv
  <1>3. PICK n : n = Cur(t)
    OBVIOUS
  <1>4. n \in Nodes /\ n \in allocated /\ n \in Uses(t)
    BY <1>1, <1>2, <1>3, WatchedIsAllocated DEF Sound, Cur, WatchStates
  <1>5. CASE access_count_[n] # 0
    <2>1. PICK c : c = [call[t] EXCEPT !.at = "done", !.res = "refused", !.cur = Null]
      OBVIOUS
    <2>2. /\ c \in Calls
          /\ c.kind = call[t].kind /\ c.key = call[t].key /\ c.node = call[t].node
          /\ c.at = "done" /\ c.loc = call[t].loc /\ c.cur = Null
          /\ c.force = call[t].force
      BY ZenonT(40), <1>2, <2>1 DEF Calls
    <2>3. Become(t, c) /\ UNCHANGED <<access_count_, dead>>
      BY <1>3, <1>5, <2>1 DEF Kill, Decide
    <2>4. Quiet(t, c)
      BY <1>1, <1>2, <2>2, <2>3, InCall
      DEF Quiet, Sound, Kill, nodeVars, WatchStates, Key, Kind, At
    <2> QED
      BY <2>4, QuietKeeps
  <1>6. CASE access_count_[n] = 0
    <2>1. PICK c : c = [call[t] EXCEPT !.at = "shrink", !.res = "done"]
      OBVIOUS
    <2>2. /\ c \in Calls
          /\ c.kind = call[t].kind /\ c.key = call[t].key /\ c.node = call[t].node
          /\ c.at = "shrink" /\ c.loc = call[t].loc /\ c.cur = n
          /\ c.force = call[t].force
      BY ZenonT(40), <1>2, <1>3, <2>1 DEF Calls, Cur
    <2>3. /\ Become(t, c)
          /\ access_count_' = [access_count_ EXCEPT ![n] = DeadCount]
          /\ dead' = dead \cup {n}
          /\ UNCHANGED <<tree, nodeVars, op_table_, va, retired>>
      BY <1>3, <1>6, <2>1 DEF Kill
    <2>4. /\ call'[t] = c /\ c # Null
          /\ \A l : At(t, l)' <=> c.at = l
          /\ Cur(t)' = c.cur
          /\ Watches(t)' = IF c.at \in WatchStates THEN {c.cur} \ {Null} ELSE {}
      BY <1>2, <2>2, <2>3, Becomes
    <2>5. n \notin dead
      BY <1>1, <1>6, DeadIsNegative, 0 < 0 <=> FALSE DEF At
    <2>6. Total(n) = 0
      <3>1. access_count_[n] = Total(n) - 0 /\ Total(n) \in Nat
        BY <1>4, <2>5, CountsAreNat DEF IInv, Counts
      <3> QED
        BY <1>6, <3>1
    <2>7. Counting(n) = {} /\ Accessing(n) = {} /\ Releasing(n) = {}
      <3>1. /\ Cardinality(Counting(n)) = 0
            /\ Cardinality(Accessing(n)) = 0
            /\ Cardinality(Releasing(n)) = 0
        BY <2>6, CountsAreNat DEF Total
      <3> QED
        BY <3>1, CountsAreNat, FS_EmptySet
    <2>8. Uses(t)' \subseteq Uses(t)
      BY <1>1, <1>2, <1>4, <2>2, <2>3, <2>4 DEF Uses, WatchStates
    <2>9. access_count_' \in [Nodes -> Int]
      <3>1. DeadCount \in Int /\ access_count_ \in [Nodes -> Int]
        BY <1>2, NumThreadsIsNat DEF Types, DeadCount
      <3> QED
        BY <1>4, <2>3, <3>1
    <2>10. Tally(t, c)
      BY <1>1, <1>2, <1>4, <2>2, <2>3, <2>8, <2>9 DEF Tally, nodeVars, Types, Sound, Kind
    <2>11. DeadIsUnread'
      <3> SUFFICES ASSUME NEW u \in Threads
                   PROVE  va'[u] \notin dead' /\ (At(u, "release")' => Cur(u)' \notin dead')
        BY DEF DeadIsUnread
      <3>1. va[u] # n /\ ~(At(u, "release") /\ Cur(u) = n)
        BY <2>7 DEF Accessing, Releasing
      <3>2. At(u, "release")' => At(u, "release") /\ Cur(u)' = Cur(u)
        BY <1>2, <2>2, <2>3, <2>4, OthersStay
      <3> QED
        BY <2>3, <3>1, <3>2 DEF DeadIsUnread, IInv
    <2>12. Counts'
      <3> SUFFICES ASSUME NEW m \in allocated
                   PROVE  access_count_'[m] = Total(m)' - (IF m \in dead' THEN NumThreads ELSE 0)
        BY <2>3 DEF Counts, nodeVars
      <3>1. Total(m)' = Total(m) /\ Total(m) \in Nat
        <4>1. Weight(t, m)' = Weight(t, m) /\ Weight(t, m) \in Nat
          BY <1>1, <2>2, <2>3, <2>4 DEF Weight, One, Counting, Accessing, Releasing, At
        <4> QED
          BY <1>2, <2>3, <4>1, TotalMoves
      <3>2. access_count_'[m] = IF m = n THEN -NumThreads ELSE access_count_[m]
        BY <1>2, <1>4, <2>3 DEF Types, DeadCount
      <3>3. access_count_[m] = Total(m) - (IF m \in dead THEN NumThreads ELSE 0)
        BY DEF IInv, Counts
      <3> QED
        BY <2>3, <2>5, <2>6, <3>1, <3>2, <3>3, NumThreadsIsNat
    <2> QED
      BY <2>10, <2>11, <2>12, TallyKeeps
  <1> QED
    BY <1>5, <1>6

------------------------------------------------------------------------------
(* Steps that allocate or free a node *)

(* What nobody uses and the map does not hold can go; a call may end with  *)
(* it.                                                                     *)
LEMMA DeallocateKeeps ==
  ASSUME IInv, NEW n \in allocated, Deallocate(n),
         \A u \in Threads : n \notin Uses(u), ~Linked(n),
         retired' = retired \ {n}, dead' = dead \ {n},
         UNCHANGED <<tree, op_table_, va>>,
         call' \in [Threads -> Calls \cup {Null}],
         \A u \in Threads : call'[u] = call[u] \/ (call'[u] = Null /\ At(u, "done")),
         \A u \in Threads : Fresh(u)' => call[u].node # n
  PROVE  IInv'
  <1> USE NullAssumption DEF IInv
  <1>1. n \in Nodes /\ Types
    BY DEF Types
  <1>2. /\ allocated' = allocated \ {n}
        /\ \A m : m # n /\ m \in Nodes =>
             key_'[m] = key_[m] /\ value_'[m] = value_[m] /\ access_count_'[m] = access_count_[m]
    BY <1>1 DEF Deallocate, Types
  <1>3. Types'
    <2>1. key_' \in [Nodes -> Keys \cup {Null}] /\ value_' \in [Nodes -> Values \cup {Null}]
          /\ access_count_' \in [Nodes -> Int]
      BY <1>1 DEF Deallocate, Types
    <2>2. \A m \in allocated' : key_'[m] \in Keys /\ value_'[m] \in Values
      BY <1>1, <1>2 DEF Types
    <2> QED
      BY <1>1, <1>2, <2>1, <2>2 DEF Types
  <1>4. \A u \in Threads : \A l : l # "done" =>
          /\ At(u, l)' <=> At(u, l)
          /\ At(u, l) => call'[u] = call[u] /\ Cur(u)' = Cur(u)
    BY DEF At, Cur
  <1>5. \A u \in Threads :
          /\ call'[u] # Null => call'[u] = call[u] /\ call[u] # Null
          /\ Watches(u)' = Watches(u)
          /\ Fresh(u)' => Fresh(u) /\ call'[u] = call[u]
    <2> TAKE u \in Threads
    <2>1. CASE call'[u] = call[u]
      BY <2>1 DEF Watches, Fresh, Cur, Kind
    <2>2. CASE call'[u] = Null /\ At(u, "done")
      BY <2>2 DEF Watches, Fresh, At
    <2> QED
      BY <2>1, <2>2
  <1>6. \A u \in Threads : Uses(u)' = Uses(u)
    BY <1>4, <1>5 DEF Uses
  <1>7. \A l : Reached(l)' <=> Reached(l)
    BY DEF Reached
  <1>8. \A m : Linked(m)' <=> Linked(m)
    BY DEF Linked
  <1>9. Control'
    BY <1>5 DEF Control
  <1>10. KnownNodes'
    <2> SUFFICES ASSUME NEW u \in Threads PROVE Known(u)'
      BY DEF KnownNodes
    <2>1. Known(u) /\ (At(u, "expand") => Key(u)' = Key(u))
      BY <1>4 DEF KnownNodes, Key
    <2>2. At(u, "uncount") \/ At(u, "replace") \/ At(u, "shrink") \/ At(u, "unlink") \/ At(u, "retire")
            => Cur(u) # n
      <3>1. Cur(u) \in Uses(u) \/ Cur(u) = Null \/ ~(At(u, "uncount") \/ At(u, "replace") \/ At(u, "shrink")
                                                      \/ At(u, "unlink") \/ At(u, "retire"))
        BY DEF Uses, Watches, At
      <3> QED
        BY <1>1, <3>1
    <2>3. At(u, "expand") => Cur(u) # n /\ Cur(u) \in Nodes
      <3>1. SUFFICES ASSUME At(u, "expand") PROVE Cur(u) # n /\ Cur(u) \in Nodes
        OBVIOUS
      <3>2. call[u] # Null /\ call[u].at = "expand"
        BY <3>1 DEF At
      <3>3. Cur(u) \in Nodes
        BY <3>2, InCall DEF Sound, Cur
      <3>4. Cur(u) \in Uses(u)
        BY <3>2, <3>3, WatchedIsAllocated DEF WatchStates
      <3> QED
        BY <3>3, <3>4
    <2> QED
      BY <1>2, <1>4, <2>1, <2>2, <2>3 DEF Known
  <1>11. Routes'
    <2>1. \A u \in Threads : call'[u] # Null =>
            Reached(call[u].loc)' /\ (call'[u].force # Null => Reached(call[u].force)')
      <3> TAKE u \in Threads
      <3> HAVE call'[u] # Null
      <3>1. PICK l, f : l = call[u].loc /\ f = call[u].force
        OBVIOUS
      <3>2. call'[u] = call[u] /\ Reached(l) /\ (f # Null => Reached(f))
        BY <1>5, <3>1 DEF Routes
      <3>3. Reached(l)' /\ (f # Null => Reached(f)')
        BY <1>7, <3>2
      <3> QED
        BY <3>1, <3>2, <3>3
    <2>2. \A u \in Threads : op_table_'[u] # Null => Reached(op_table_[u])'
      <3> TAKE u \in Threads
      <3>1. PICK l : l = op_table_[u]
        OBVIOUS
      <3>2. l # Null => Reached(l)'
        BY <1>7, <3>1 DEF Routes
      <3> QED
        BY <3>1, <3>2
    <2> QED
      BY <2>1, <2>2 DEF Routes
  <1>12. Paths'
    <2> SUFFICES ASSUME NEW l \in Locations PROVE Placed(l)'
      BY DEF Paths
    <2>1. Placed(l) /\ tree[l] # n
      BY DEF Paths, Linked
    <2> QED
      BY <1>2, <1>7, <2>1 DEF Placed, IsNode
  <1>13. UsesAreAllocated'
    BY <1>2, <1>6 DEF UsesAreAllocated
  <1>14. Private'
    <2> SUFFICES ASSUME NEW u \in Threads, Fresh(u)'
                 PROVE  /\ call'[u].node \in allocated' \ dead'
                        /\ key_'[call'[u].node] = Key(u)'
                        /\ ~Linked(call[u].node)'
                        /\ \A w \in Threads : call'[u].node \notin Uses(w)'
                        /\ \A w \in Threads : Fresh(w)' /\ call'[w].node = call'[u].node => w = u
      BY DEF Private
    <2>1. PICK m : m = call[u].node
      OBVIOUS
    <2>2. Fresh(u) /\ call'[u] = call[u] /\ m # n /\ Key(u)' = Key(u)
      BY <1>5, <2>1 DEF Key
    <2>3. /\ m \in allocated \ dead /\ key_[m] = Key(u) /\ ~Linked(m)
          /\ \A w \in Threads : m \notin Uses(w)
          /\ \A w \in Threads : Fresh(w) /\ call[w].node = m => w = u
      BY <2>1, <2>2 DEF Private
    <2>4. m \in Nodes /\ ~Linked(m)'
      BY <1>8, <2>3 DEF Types
    <2> QED
      BY <1>2, <1>5, <1>6, <2>1, <2>2, <2>3, <2>4
  <1>15. DeadIsUnread'
    BY <1>4 DEF DeadIsUnread
  <1>16. Retiring'
    <2> SUFFICES ASSUME NEW u \in Threads, At(u, "retire")'
                 PROVE  /\ Cur(u)' \notin retired'
                        /\ ~Linked(Cur(u))'
                        /\ \A w \in Threads : At(w, "retire")' /\ Cur(w)' = Cur(u)' => w = u
      BY DEF Retiring
    <2>1. PICK m : m = Cur(u)
      OBVIOUS
    <2>2. At(u, "retire") /\ Cur(u)' = m
      BY <1>4, <2>1
    <2>3. m \notin retired /\ ~Linked(m) /\ \A w \in Threads : At(w, "retire") /\ Cur(w) = m => w = u
      BY <2>1, <2>2 DEF Retiring
    <2>4. ~Linked(m)'
      BY <1>8, <2>3
    <2> QED
      BY <1>4, <2>2, <2>3, <2>4
  <1>17. Counts'
    <2> SUFFICES ASSUME NEW m \in allocated, m # n
                 PROVE  access_count_'[m] = Total(m)' - (IF m \in dead' THEN NumThreads ELSE 0)
      BY <1>2 DEF Counts
    <2>1. Counting(m)' = Counting(m) /\ Accessing(m)' = Accessing(m) /\ Releasing(m)' = Releasing(m)
      BY <1>4 DEF Counting, Accessing, Releasing
    <2>2. Total(m)' = Total(m)
      BY <2>1 DEF Total
    <2>3. m \in Nodes
      BY DEF Types
    <2> QED
      BY <1>2, <2>2, <2>3 DEF Counts
  <1> QED
    BY <1>3, <1>9, <1>10, <1>11, <1>12, <1>13, <1>14, <1>15, <1>16, <1>17

LEMMA FreeKeeps ==
  ASSUME IInv, NEW n \in Nodes, Free(n)
  PROVE  IInv'
  <1>1. n \in retired /\ n \in dead /\ n \in allocated
    BY DEF Free, IInv, Types
  <1>2. \A u \in Threads : n \notin Uses(u)
    BY <1>1 DEF Free, Uses, IInv, DeadIsUnread, Retiring
  <1>3. ~Linked(n)
    BY <1>1, LinkedIsAllocated DEF IInv
  <1>4. \A u \in Threads : Fresh(u)' => call[u].node # n
    BY <1>1 DEF Free, Fresh, Kind, IInv, Private
  <1>5. call' \in [Threads -> Calls \cup {Null}] /\ \A u \in Threads : call'[u] = call[u]
    BY DEF Free, IInv, Types
  <1> QED
    BY <1>1, <1>2, <1>3, <1>4, <1>5, DeallocateKeeps DEF Free

LEMMA ReturnKeeps ==
  ASSUME IInv, NEW t \in Threads, Return(t)
  PROVE  IInv'
  <1> USE NullAssumption
  <1>1. call[t] # Null /\ call[t].at = "done" /\ Types
    BY DEF Return, At, IInv
  <1>2. Become(t, Null) /\ call'[t] = Null /\ \A u \in Threads : u # t => call'[u] = call[u]
    BY <1>1 DEF Return, Become, Types
  <1>3. CASE Kind(t) = "insert" /\ call[t].res = "refused"
    <2>1. PICK n : n = call[t].node
      OBVIOUS
    <2>2. Fresh(t)
      BY <1>1, <1>3 DEF Fresh
    <2>3. /\ n \in allocated \ dead /\ ~Linked(n)
          /\ \A u \in Threads : n \notin Uses(u)
          /\ \A u \in Threads : Fresh(u) /\ call[u].node = n => u = t
      BY <2>1, <2>2 DEF IInv, Private
    <2>4. Deallocate(n) /\ UNCHANGED <<tree, op_table_, va, retired, dead>>
      BY <1>3, <2>1 DEF Return
    <2>5. retired' = retired \ {n} /\ dead' = dead \ {n}
      BY <1>1, <2>3, <2>4 DEF Types
    <2>6. call' \in [Threads -> Calls \cup {Null}]
      BY <1>1 DEF Types, Return
    <2>7. \A u \in Threads : call'[u] = call[u] \/ (call'[u] = Null /\ At(u, "done"))
      BY <1>1, <1>2 DEF At
    <2>8. \A u \in Threads : Fresh(u)' => call[u].node # n
      BY <1>2, <2>3 DEF Fresh, Kind
    <2> QED
      BY <2>3, <2>4, <2>5, <2>6, <2>7, <2>8, DeallocateKeeps
  <1>4. CASE ~(Kind(t) = "insert" /\ call[t].res = "refused")
    <2>1. UNCHANGED <<tree, key_, value_, allocated, access_count_, retired, dead, op_table_, va>>
      BY <1>4 DEF Return, nodeVars
    <2>2. DeadIsUnread' /\ Counts'
      BY <1>1, <1>2, <2>1, QuietCounts DEF At
    <2>3. Uses(t)' \subseteq Uses(t)
      BY <1>2, <2>1 DEF Uses, Watches, At
    <2>4. Tally(t, Null)
      BY <1>1, <1>2, <2>1, <2>3 DEF Tally, Types
    <2> QED
      BY <2>2, <2>4, TallyKeeps
  <1> QED
    BY <1>3, <1>4

LEMMA CallInsertKeeps ==
  ASSUME IInv, NEW t \in Threads, CallInsert(t)
  PROVE  IInv'
  <1> USE NullAssumption DEF IInv
  <1>1. PICK k \in Keys, v \in Values, n \in Nodes \ allocated,
             f \in {Null} \cup {op_table_[u] : u \in Threads} :
          /\ allocated' = allocated \cup {n}
          /\ key_' = [key_ EXCEPT ![n] = k]
          /\ value_' = [value_ EXCEPT ![n] = v]
          /\ access_count_' = [access_count_ EXCEPT ![n] = 0]
          /\ Become(t, [NewCall("insert", k, v, n) EXCEPT
                          !.force = f, !.at = IF f = Null THEN "load" ELSE "force"])
    BY DEF CallInsert
  <1>2. PICK at : at = IF f = Null THEN "load" ELSE "force"
    OBVIOUS
  <1>3. PICK c : c = [NewCall("insert", k, v, n) EXCEPT !.force = f, !.at = at]
    OBVIOUS
  <1>4. LocationOf(k, 0) \in Locations /\ DepthOf(LocationOf(k, 0)) = 0
    BY LocationIn, LocationShape, MaxDepthIsNat
  <1>5. f \in Locations \cup {Null} /\ (f # Null => Reached(f))
    BY DEF Types, Routes
  <1>6. /\ c \in Calls
        /\ c.kind = "insert" /\ c.key = k /\ c.node = n /\ c.at = at
        /\ c.loc = LocationOf(k, 0) /\ c.cur = Null /\ c.res = Null /\ c.force = f
    BY <1>2, <1>3, <1>4, <1>5, LIMITAssumption, LIMIT \in Int DEF NewCall, Calls
  <1>7. Become(t, c)
    BY <1>1, <1>2, <1>3
  <1>8. /\ UNCHANGED <<tree, size_, op_table_, va, retired, dead>> /\ call[t] = Null
        /\ Types
    BY DEF CallInsert
  <1>9. /\ call'[t] = c /\ c # Null
        /\ \A u \in Threads : u # t => call'[u] = call[u]
        /\ \A u \in Threads : u # t =>
             /\ \A l : At(u, l)' <=> At(u, l)
             /\ Cur(u)' = Cur(u)
             /\ Fresh(u)' <=> Fresh(u)
             /\ Uses(u)' = Uses(u)
    BY <1>6, <1>7, <1>8, OthersStay, Becomes
  <1>10. at \in {"load", "force"} /\ (\A l : At(t, l)' <=> at = l) /\ Uses(t)' = Uses(t)
    BY <1>2, <1>6, <1>8, <1>9 DEF At, Uses, Watches
  <1>11. /\ \A m \in allocated : key_'[m] = key_[m] /\ value_'[m] = value_[m]
                                   /\ access_count_'[m] = access_count_[m]
         /\ key_'[n] = k /\ value_'[n] = v /\ access_count_'[n] = 0
    BY <1>1, <1>8 DEF Types
  <1>12. Types'
    <2>1. call' \in [Threads -> Calls \cup {Null}]
      BY <1>6, <1>7, <1>8 DEF Types, Become
    <2>2. /\ key_' \in [Nodes -> Keys \cup {Null}] /\ value_' \in [Nodes -> Values \cup {Null}]
          /\ access_count_' \in [Nodes -> Int]
      BY <1>1, <1>8 DEF Types
    <2>3. \A m \in allocated' : key_'[m] \in Keys /\ value_'[m] \in Values
      BY <1>1, <1>8, <1>11 DEF Types
    <2> QED
      BY <1>1, <1>8, <2>1, <2>2, <2>3 DEF Types
  <1>13. Control'
    <2>1. Sound(c)
      BY <1>4, <1>5, <1>6, <1>10, <1>2 DEF Sound
    <2> QED
      BY <1>9, <2>1 DEF Control
  <1>14. \A l : Reached(l)' <=> Reached(l)
    BY <1>8 DEF Reached
  <1>15. \A m : Linked(m)' <=> Linked(m)
    BY <1>8 DEF Linked
  <1>16. \A u \in Threads : Uses(u)' = Uses(u) /\ n \notin Uses(u)
    BY <1>9, <1>10 DEF UsesAreAllocated
  <1>17. ~Linked(n)
    BY LinkedIsAllocated
  <1>18. KnownNodes'
    <2> SUFFICES ASSUME NEW u \in Threads PROVE Known(u)'
      BY DEF KnownNodes
    <2>1. CASE u = t
      BY <1>10, <2>1 DEF Known
    <2>2. CASE u # t
      <3>1. Known(u) /\ Key(u)' = Key(u)
        BY <1>9, <2>2 DEF KnownNodes, Key
      <3>2. At(u, "expand") => Cur(u) \in allocated
        <4>1. SUFFICES ASSUME At(u, "expand") PROVE Cur(u) \in allocated
          OBVIOUS
        <4>2. call[u] # Null /\ call[u].at = "expand"
          BY <4>1 DEF At
        <4> QED
          BY <4>2, WatchedIsAllocated, InCall DEF Sound, Cur, WatchStates
      <3> QED
        BY <1>8, <1>9, <1>11, <2>2, <3>1, <3>2 DEF Known
    <2> QED
      BY <2>1, <2>2
  <1>19. Routes'
    <2>1. \A u \in Threads : call'[u] # Null =>
            Reached(call[u].loc)' /\ (call'[u].force # Null => Reached(call[u].force)')
      <3> TAKE u \in Threads
      <3> HAVE call'[u] # Null
      <3>1. CASE u = t
        <4>1. PICK l : l = c.loc
          OBVIOUS
        <4>2. Reached(l)' /\ (f # Null => Reached(f)')
          <5>1. Reached(l)
            BY <1>4, <1>6, <4>1 DEF Reached
          <5> QED
            BY <1>5, <1>14, <5>1
        <4> QED
          BY <1>6, <1>9, <3>1, <4>1, <4>2
      <3>2. CASE u # t
        <4>1. PICK l, g : l = call[u].loc /\ g = call[u].force
          OBVIOUS
        <4>2. call'[u] = call[u] /\ Reached(l) /\ (g # Null => Reached(g))
          BY <1>9, <3>2, <4>1 DEF Routes
        <4>3. Reached(l)' /\ (g # Null => Reached(g)')
          BY <1>14, <4>2
        <4> QED
          BY <4>1, <4>2, <4>3
      <3> QED
        BY <3>1, <3>2
    <2>2. \A u \in Threads : op_table_'[u] # Null => Reached(op_table_[u])'
      <3> TAKE u \in Threads
      <3>1. PICK l : l = op_table_[u]
        OBVIOUS
      <3>2. l # Null => Reached(l)'
        BY <1>14, <3>1 DEF Routes
      <3> QED
        BY <1>8, <3>1, <3>2
    <2> QED
      BY <2>1, <2>2 DEF Routes
  <1>20. Paths'
    <2> SUFFICES ASSUME NEW l \in Locations PROVE Placed(l)'
      BY DEF Paths
    <2>1. Placed(l)
      BY DEF Paths
    <2> QED
      BY <1>1, <1>8, <1>11, <1>14, <2>1 DEF Placed, IsNode
  <1>21. UsesAreAllocated'
    BY <1>1, <1>16 DEF UsesAreAllocated
  <1>22. Private'
    <2> SUFFICES ASSUME NEW u \in Threads, Fresh(u)'
                 PROVE  /\ call'[u].node \in allocated' \ dead'
                        /\ key_'[call'[u].node] = Key(u)'
                        /\ ~Linked(call[u].node)'
                        /\ \A w \in Threads : call'[u].node \notin Uses(w)'
                        /\ \A w \in Threads : Fresh(w)' /\ call'[w].node = call'[u].node => w = u
      BY DEF Private
    <2>1. \A w \in Threads : w # t /\ Fresh(w)' => call'[w].node = call[w].node /\ call[w].node \in allocated
      BY <1>9 DEF Private
    <2>2. CASE u = t
      <3>1. call'[u].node = n /\ Key(u)' = k
        BY <1>6, <1>9, <2>2 DEF Key
      <3>2. ~Linked(n)'
        BY <1>15, <1>17
      <3>3. n \in allocated' \ dead'
        BY <1>1, <1>8 DEF Types
      <3> QED
        BY <1>11, <1>16, <2>1, <2>2, <3>1, <3>2, <3>3
    <2>3. CASE u # t
      <3>1. PICK m : m = call[u].node
        OBVIOUS
      <3>2. Fresh(u) /\ call'[u].node = m /\ Key(u)' = Key(u)
        BY <1>9, <2>3, <3>1 DEF Key
      <3>3. /\ m \in allocated \ dead /\ key_[m] = Key(u) /\ ~Linked(m)
            /\ \A w \in Threads : m \notin Uses(w)
            /\ \A w \in Threads : Fresh(w) /\ call[w].node = m => w = u
        BY <3>1, <3>2 DEF Private
      <3>4. ~Linked(m)'
        BY <1>15, <3>3
      <3>5. \A w \in Threads : Fresh(w)' /\ call'[w].node = m => w = u
        BY <1>6, <1>9, <2>1, <3>3
      <3> QED
        BY <1>1, <1>8, <1>11, <1>16, <3>2, <3>3, <3>4, <3>5
    <2> QED
      BY <2>2, <2>3
  <1>23. DeadIsUnread'
    BY <1>8, <1>9, <1>10 DEF DeadIsUnread
  <1>24. Retiring'
    <2> SUFFICES ASSUME NEW u \in Threads, At(u, "retire")'
                 PROVE  /\ Cur(u)' \notin retired'
                        /\ ~Linked(Cur(u))'
                        /\ \A w \in Threads : At(w, "retire")' /\ Cur(w)' = Cur(u)' => w = u
      BY DEF Retiring
    <2>1. PICK m : m = Cur(u)
      OBVIOUS
    <2>2. At(u, "retire") /\ Cur(u)' = m /\ u # t
      BY <1>9, <1>10, <2>1
    <2>3. m \notin retired /\ ~Linked(m) /\ \A w \in Threads : At(w, "retire") /\ Cur(w) = m => w = u
      BY <2>1, <2>2 DEF Retiring
    <2>4. ~Linked(m)'
      BY <1>15, <2>3
    <2> QED
      BY <1>8, <1>9, <1>10, <2>2, <2>3, <2>4
  <1>25. Counts'
    <2> SUFFICES ASSUME NEW m \in allocated'
                 PROVE  access_count_'[m] = Total(m)' - (IF m \in dead' THEN NumThreads ELSE 0)
      BY DEF Counts
    <2>1. Counting(m)' = Counting(m) /\ Accessing(m)' = Accessing(m) /\ Releasing(m)' = Releasing(m)
      <3>1. \A u \in Threads : /\ At(u, "uncount")' <=> At(u, "uncount")
                               /\ At(u, "release")' <=> At(u, "release")
                               /\ At(u, "uncount") \/ At(u, "release") => Cur(u)' = Cur(u)
        BY <1>8, <1>9, <1>10 DEF At
      <3> QED
        BY <1>8, <3>1 DEF Counting, Accessing, Releasing
    <2>2. Total(m)' = Total(m)
      BY <2>1 DEF Total
    <2>3. CASE m \in allocated
      BY <1>8, <1>11, <2>2, <2>3 DEF Counts
    <2>4. CASE m = n
      <3>1. Counting(n) = {} /\ Accessing(n) = {} /\ Releasing(n) = {}
        BY <1>16 DEF Counting, Accessing, Releasing, Uses, Watches, At
      <3>2. Total(n) = 0
        BY <3>1, FS_EmptySet DEF Total
      <3>3. n \notin dead'
        BY <1>8 DEF Types
      <3> QED
        BY <1>11, <2>2, <2>4, <3>2, <3>3
    <2> QED
      BY <1>1, <2>3, <2>4
  <1> QED
    BY <1>12, <1>13, <1>18, <1>19, <1>20, <1>21, <1>22, <1>23, <1>24, <1>25

------------------------------------------------------------------------------
(* The invariant, and what follows from it *)

LEMMA InitIInv == Init => IInv
  <1> SUFFICES ASSUME Init PROVE IInv
    OBVIOUS
  <1> USE NullAssumption, NodesAssumption
  <1>1. Types
    BY DEF Init, Types
  <1>2. \A t \in Threads : call[t] = Null /\ va[t] = Null /\ op_table_[t] = Null
    BY DEF Init
  <1>3. \A t \in Threads : (\A l : ~At(t, l)) /\ ~Fresh(t) /\ Watches(t) = {}
    BY <1>2 DEF At, Fresh, Watches
  <1>4. \A t \in Threads : Uses(t) = {}
    BY <1>2, <1>3 DEF Uses
  <1>5. Control /\ KnownNodes /\ Routes /\ Private /\ Retiring
    BY <1>2, <1>3 DEF Control, KnownNodes, Known, Routes, Private, Retiring
  <1>6. Paths
    BY CallsAssumption DEF Init, Paths, Placed, IsNode
  <1>7. UsesAreAllocated /\ DeadIsUnread /\ Counts
    BY <1>2, <1>3, <1>4 DEF Init, UsesAreAllocated, DeadIsUnread, Counts
  <1> QED
    BY <1>1, <1>5, <1>6, <1>7 DEF IInv

LEMMA StutterKeeps ==
  ASSUME IInv, UNCHANGED vars
  PROVE  IInv'
  <1> USE DEF IInv, vars, nodeVars
  <1>1. Types'
    BY DEF Types
  <1>2. /\ \A t : Watches(t)' = Watches(t) /\ Cur(t)' = Cur(t) /\ Kind(t)' = Kind(t) /\ Key(t)' = Key(t)
        /\ \A t, l : At(t, l)' <=> At(t, l)
    BY DEF Watches, Cur, Kind, Key, At
  <1>3. \A t : Uses(t)' = Uses(t) /\ (Fresh(t)' <=> Fresh(t))
    BY <1>2 DEF Uses, Fresh
  <1>4. \A l : (Reached(l)' <=> Reached(l)) /\ (Linked(l)' <=> Linked(l)) /\ (Placed(l)' <=> Placed(l))
    BY DEF Reached, Linked, Placed
  <1>5. Control' /\ KnownNodes'
    BY <1>2 DEF Control, KnownNodes, Known
  <1>6. Routes'
    BY DEF Routes, Reached
  <1>7. Paths' /\ UsesAreAllocated' /\ DeadIsUnread'
    BY <1>2, <1>3, <1>4 DEF Paths, UsesAreAllocated, DeadIsUnread
  <1>8. Private'
    BY <1>2, <1>3 DEF Private, Linked
  <1>9. Retiring'
    BY <1>2 DEF Retiring, Linked
  <1>10. Counts'
    <2>1. \A n : Counting(n)' = Counting(n) /\ Accessing(n)' = Accessing(n) /\ Releasing(n)' = Releasing(n)
      BY <1>2 DEF Counting, Accessing, Releasing
    <2> QED
      BY <2>1 DEF Counts, Total
  <1> QED
    BY <1>1, <1>5, <1>6, <1>7, <1>8, <1>9, <1>10

LEMMA NextIInv == IInv /\ [Next]_vars => IInv'
  <1> SUFFICES ASSUME IInv, [Next]_vars PROVE IInv'
    OBVIOUS
  <1>1. CASE UNCHANGED vars
    BY <1>1, StutterKeeps
  <1>2. ASSUME NEW n \in Nodes, Free(n) PROVE IInv'
    BY <1>2, FreeKeeps
  <1>3. ASSUME NEW t \in Threads, CallInsert(t) \/ CallRemoveOrAt(t) \/ Reset(t) \/ Step(t) PROVE IInv'
    <2>1. CASE CallInsert(t)
      BY <2>1, CallInsertKeeps
    <2>2. CASE CallRemoveOrAt(t)
      BY <2>2, CallRemoveOrAtKeeps
    <2>3. CASE Reset(t)
      BY <2>3, ResetKeeps
    <2>4. CASE Announce(t) \/ Load(t) \/ Validate(t)
      BY <2>4, AnnounceKeeps, LoadKeeps, ValidateKeeps
    <2>5. CASE CountAccess(t) \/ Uncount(t) \/ Release(t)
      BY <2>5, CountAccessKeeps, UncountKeeps, ReleaseKeeps
    <2>6. CASE Place(t) \/ SeeAlive(t) \/ Replace(t) \/ Retire(t) \/ Grow(t) \/ Expand(t)
      BY <2>6, PlaceKeeps, SeeAliveKeeps, ReplaceKeeps, RetireKeeps, GrowKeeps, ExpandKeeps
    <2>7. CASE Kill(t) \/ Shrink(t) \/ Unlink(t)
      BY <2>7, KillKeeps, ShrinkKeeps, UnlinkKeeps
    <2>8. CASE ForceLoad(t) \/ ForceValidate(t) \/ ForceExpand(t)
      BY <2>8, ForceLoadKeeps, ForceValidateKeeps, ForceExpandKeeps
    <2>9. CASE Return(t)
      BY <2>9, ReturnKeeps
    <2> QED
      BY <1>3, <2>1, <2>2, <2>3, <2>4, <2>5, <2>6, <2>7, <2>8, <2>9 DEF Step
  <1> QED
    BY <1>1, <1>2, <1>3 DEF Next

THEOREM Invariance == Spec => []IInv
  BY InitIInv, NextIInv, PTL DEF Spec

(* The counter of the keys needs no invariant.                             *)
LEMMA SizeIsInt == Spec => [](size_ \in Int)
  <1>1. Init => size_ \in Int
    BY SizesAssumption DEF Init
  <1>2. size_ \in Int /\ [Next]_vars => (size_ \in Int)'
    <2> SUFFICES ASSUME size_ \in Int, [Next]_vars PROVE size_' \in Int
      OBVIOUS
    <2>1. CASE UNCHANGED vars
      BY <2>1 DEF vars
    <2>2. ASSUME NEW n \in Nodes, Free(n) PROVE size_' \in Int
      BY <2>2 DEF Free
    <2>3. ASSUME NEW t \in Threads, CallInsert(t) \/ CallRemoveOrAt(t) \/ Reset(t) \/ Step(t)
          PROVE  size_' \in Int
      <3>1. CASE Grow(t) \/ Shrink(t)
        BY <3>1 DEF Grow, Shrink
      <3>2. CASE CallInsert(t) \/ CallRemoveOrAt(t) \/ Reset(t) \/ Return(t)
        BY <3>2 DEF CallInsert, CallRemoveOrAt, Reset, Return
      <3>3. CASE Announce(t) \/ Load(t) \/ Validate(t) \/ CountAccess(t) \/ Uncount(t) \/ Release(t)
        BY <3>3 DEF Announce, Load, Validate, CountAccess, Uncount, Release
      <3>4. CASE Place(t) \/ SeeAlive(t) \/ Replace(t) \/ Retire(t) \/ Expand(t) \/ Kill(t) \/ Unlink(t)
        BY <3>4 DEF Place, SeeAlive, Replace, Retire, Expand, Kill, Unlink
      <3>5. CASE ForceLoad(t) \/ ForceValidate(t) \/ ForceExpand(t)
        BY <3>5 DEF ForceLoad, ForceValidate, ForceExpand
      <3> QED
        BY <2>3, <3>1, <3>2, <3>3, <3>4, <3>5 DEF Step
    <2> QED
      BY <2>1, <2>2, <2>3 DEF Next
  <1> QED
    BY <1>1, <1>2, PTL DEF Spec

(* The variables keep their types: every location holds nothing, a node or *)
(* an array, and whatever was retired or marked dead is still allocated.   *)
THEOREM TypeCorrect == Spec => []TypeOK
  <1>1. IInv /\ size_ \in Int => TypeOK
    BY DEF IInv, Types, TypeOK
  <1> QED
    BY <1>1, Invariance, SizeIsInt, PTL

(* Every node of the map is on the path of its key, below arrays only, and *)
(* at one location: an insert that moves a node into a further array loses *)
(* and doubles nothing, whatever else happens to the node meanwhile.       *)
THEOREM NodesAreOnTheirPaths == Spec => []OnItsPath
  <1>1. IInv => OnItsPath
    BY DEF IInv, Paths, Placed, OnItsPath, Reached, Parent
  <1> QED
    BY <1>1, Invariance, PTL

(* What a thread watches, or reads through a ValueAccessor long after at() *)
(* returned, has not been freed; and no accessor names a removed node.     *)
THEOREM AccessorsProtectNodes == Spec => []NoUseAfterFree
  <1>1. IInv => NoUseAfterFree
    <2> SUFFICES ASSUME IInv, NEW t \in Threads
                 PROVE  /\ Watches(t) \subseteq allocated
                        /\ va[t] # Null => va[t] \in allocated \ (retired \cup dead)
                        /\ At(t, "release") => Cur(t) \in allocated
      BY DEF NoUseAfterFree
    <2> QED
      BY DEF IInv, UsesAreAllocated, Uses, DeadIsUnread, Types
  <1> QED
    BY <1>1, Invariance, PTL

(* Whatever the threads do that raise the count of a removed node for a    *)
(* moment, nobody who is about to act on that count sees it non-negative.  *)
THEOREM TheDeadStayDead == Spec => []DeadStaysDead
  <1>1. IInv => DeadStaysDead
    <2> SUFFICES ASSUME IInv, NEW t \in Threads, At(t, "count") \/ At(t, "alive") \/ At(t, "kill"), Cur(t) \in dead
                 PROVE  access_count_[Cur(t)] < 0
      BY DEF DeadStaysDead
    <2>1. ~At(t, "uncount")
      BY DEF At
    <2> QED
      BY <2>1, DeadIsNegative
  <1> QED
    BY <1>1, Invariance, PTL

-----------------------------------------------------------------------------
(* HashMap implements AbstractMap, and size_ counts its keys               *)

(* Above whatever there is on the path of a key there are arrays.          *)
ArraysAbove ==
  \A k \in Keys : \A d \in 0 .. MaxDepth : \A e \in 0 .. MaxDepth :
    e < d /\ tree[LocationOf(k, d)] # Null => tree[LocationOf(k, e)] = "array"

(* A node that is neither on the map nor dead belongs to an insert.        *)
Live(n) == Linked(n) /\ n \notin dead

NoneIsLost ==
  \A n \in allocated :
    Linked(n) \/ n \in dead \/ \E t \in Threads : Fresh(t) /\ call[t].node = n

(* The history of a call that is not decided has what its key is now.      *)
SeenNow(t) ==
  seen[t] = IF call[t] = Null \/ Decided(t) THEN {} ELSE seen[t] \cup {State[Key(t)]}

History == seen \in [Threads -> SUBSET {"absent", "free", "read"}] /\ \A t \in Threads : SeenNow(t)

(* A dead node is found with its key: the key was absent meanwhile.        *)
Finding(t) == At(t, "count") \/ At(t, "kill") \/ At(t, "uncount")

Found ==
  \A t \in Threads : Finding(t) =>
    key_[Cur(t)] = Key(t) /\ (Cur(t) \in dead => "absent" \in seen[t])

(* What a call brings, and what it will return.                            *)
Bringing(t) ==
  /\ Kind(t) = "insert" => call[t].value \in Values
  /\ Kind(t) = "insert" /\ Fresh(t) => value_[call[t].node] = call[t].value
  /\ Kind(t) # "insert" /\ Decided(t) => call[t].res # Null

Bringings == \A t \in Threads : call[t] # Null => Bringing(t)

JInv ==
  /\ ArraysAbove
  /\ NoneIsLost
  /\ History
  /\ Found
  /\ Bringings

------------------------------------------------------------------------------
(* Where the node of a key is *)

LEMMA AtDepth ==
  ASSUME IInv, NEW n \in Nodes, Linked(n)
  PROVE  /\ key_[n] \in Keys
         /\ \E d \in 0 .. MaxDepth : /\ tree[LocationOf(key_[n], d)] = n
                                     /\ Reached(LocationOf(key_[n], d))
  <1>1. PICK loc \in Locations : tree[loc] = n
    BY DEF Linked
  <1>2. /\ key_[n] \in Keys /\ loc = LocationOf(key_[n], DepthOf(loc))
        /\ Reached(loc)
    BY <1>1, NullAssumption DEF IInv, Paths, Placed, IsNode
  <1>3. DepthOf(loc) \in 0 .. MaxDepth
    BY DepthInRange
  <1> QED
    BY <1>1, <1>2, <1>3

(* A location that was reached and is not an array is where the node is,   *)
(* if there is one.                                                        *)
LEMMA Alone ==
  ASSUME IInv, ArraysAbove, NEW k \in Keys, NEW d \in 0 .. MaxDepth,
         Reached(LocationOf(k, d)), tree[LocationOf(k, d)] # "array",
         NEW n \in Nodes, Linked(n), key_[n] = k
  PROVE  tree[LocationOf(k, d)] = n
  <1> USE NullAssumption, NodesAssumption, MaxDepthIsNat
  <1>1. PICK e \in 0 .. MaxDepth : tree[LocationOf(k, e)] = n
    BY AtDepth
  <1>2. ~(d < e)
    BY <1>1 DEF ArraysAbove
  <1>3. ~(e < d)
    <2> SUFFICES ASSUME e < d PROVE FALSE
      OBVIOUS
    <2>1. d - 1 \in 0 .. MaxDepth /\ d - 1 \in Nat /\ (d - 1) + 1 = d /\ d \in Nat /\ d > 0
      BY MaxDepthIsNat
    <2>2. Parent(LocationOf(k, d)) = LocationOf(k, d - 1) /\ DepthOf(LocationOf(k, d)) = d
      BY <2>1, ParentOfDeeper, LocationShape
    <2>3. tree[LocationOf(k, d - 1)] = "array"
      BY <2>1, <2>2 DEF Reached
    <2>4. e < d - 1 => tree[LocationOf(k, e)] = "array"
      BY <2>1, <2>3 DEF ArraysAbove
    <2>5. e = d - 1 \/ e < d - 1
      BY <2>1
    <2> QED
      BY <1>1, <2>3, <2>4, <2>5
  <1>4. e = d
    BY <1>2, <1>3
  <1> QED
    BY <1>1, <1>4

LEMMA HolderIs ==
  ASSUME IInv, ArraysAbove, NEW n \in Nodes, Live(n)
  PROVE  key_[n] \in Keys /\ Holder(key_[n]) = {n}
  <1> USE NullAssumption, NodesAssumption
  <1>1. PICK k : k = key_[n]
    OBVIOUS
  <1>2. k \in Keys /\ Linked(n)
    BY <1>1, AtDepth DEF Live
  <1>3. PICK d \in 0 .. MaxDepth : tree[LocationOf(k, d)] = n /\ Reached(LocationOf(k, d))
    BY <1>1, <1>2, AtDepth
  <1>4. \A m \in Nodes : Linked(m) /\ key_[m] = k => m = n
    BY <1>2, <1>3, Alone
  <1> QED
    BY <1>1, <1>2, <1>4 DEF Holder, Live

LEMMA HolderThen ==
  IInv' /\ ArraysAbove' =>
    \A n \in Nodes : Live(n)' => \E k \in Keys : k = key_'[n] /\ Holder(k)' = {n}
  <1>1. IInv /\ ArraysAbove =>
          \A n \in Nodes : Live(n) => \E k \in Keys : k = key_[n] /\ Holder(k) = {n}
    BY HolderIs
  <1>2. (IInv /\ ArraysAbove =>
           \A n \in Nodes : Live(n) => \E k \in Keys : k = key_[n] /\ Holder(k) = {n})'
    BY <1>1, PTL
  <1> QED
    BY <1>2

LEMMA NobodyHolds ==
  ASSUME IInv, ArraysAbove, NEW k \in Keys, NEW loc \in Locations, loc = LocationOf(k, DepthOf(loc)),
         Reached(loc), tree[loc] # "array",
         tree[loc] \in Nodes => tree[loc] \in dead \/ key_[tree[loc]] # k
  PROVE  Holder(k) = {}
  <1>1. \A m \in Nodes : Linked(m) /\ key_[m] = k => tree[loc] = m
    BY DepthInRange, Alone
  <1> QED
    BY <1>1 DEF Holder

(* What is held.                                                           *)
LEMMA MapIs ==
  ASSUME NEW k \in Keys
  PROVE  /\ Holder(k) = {} => Map[k] = Null /\ Readers[k] = 0 /\ State[k] = "absent"
         /\ \A n : Holder(k) = {n} => Map[k] = value_[n] /\ Readers[k] = access_count_[n]
  <1>1. Holder(k) = {} => Map[k] = Null /\ Readers[k] = 0
    BY DEF Map, Readers
  <1>2. ASSUME NEW n, Holder(k) = {n} PROVE Map[k] = value_[n] /\ Readers[k] = access_count_[n]
    <2>1. PICK m : m = CHOOSE h \in Holder(k) : TRUE
      OBVIOUS
    <2>2. m = n /\ Holder(k) # {}
      BY <1>2, <2>1
    <2> QED
      BY <2>1, <2>2 DEF Map, Readers
  <1>3. State[k] = IF Map[k] = Null THEN "absent" ELSE IF Readers[k] = 0 THEN "free" ELSE "read"
    BY DEF State
  <1> QED
    BY <1>1, <1>2, <1>3

LEMMA MapIsThen ==
  ASSUME NEW k \in Keys
  PROVE  /\ Holder(k)' = {} => Map'[k] = Null /\ Readers'[k] = 0 /\ State'[k] = "absent"
         /\ \A n : Holder(k)' = {n} => Map'[k] = value_'[n] /\ Readers'[k] = access_count_'[n]
  <1>1. Holder(k)' = {} => Map'[k] = Null /\ Readers'[k] = 0
    BY DEF Map, Readers
  <1>2. ASSUME NEW n, Holder(k)' = {n} PROVE Map'[k] = value_'[n] /\ Readers'[k] = access_count_'[n]
    <2>1. PICK m : m = CHOOSE h \in Holder(k)' : TRUE
      OBVIOUS
    <2>2. m = n /\ Holder(k)' # {}
      BY <1>2, <2>1
    <2> QED
      BY <2>1, <2>2 DEF Map, Readers
  <1>3. State'[k] = IF Map'[k] = Null THEN "absent" ELSE IF Readers'[k] = 0 THEN "free" ELSE "read"
    BY DEF State
  <1> QED
    BY <1>1, <1>2, <1>3

(* What becomes of a key whose node, if it has one, stays.                 *)
LEMMA KeyStays ==
  ASSUME IInv, ArraysAbove, NEW k \in Keys,
         \A n \in Nodes : n \in Holder(k)' <=> n \in Holder(k),
         \A n \in Holder(k) : value_'[n] = value_[n]
  PROVE  /\ Map'[k] = Map[k]
         /\ (\A n \in Holder(k) : access_count_'[n] = access_count_[n]) => Readers'[k] = Readers[k]
  <1>1. Holder(k)' = Holder(k)
    BY DEF Holder
  <1>2. CASE Holder(k) = {}
    BY <1>1, <1>2, MapIs, MapIsThen
  <1>3. CASE Holder(k) # {}
    <2>1. PICK n \in Holder(k) : TRUE
      BY <1>3
    <2>2. Holder(k) = {n}
      BY HolderIs DEF Holder, Live
    <2> QED
      BY <1>1, <2>2, MapIs, MapIsThen
  <1> QED
    BY <1>2, <1>3

LEMMA MapStays ==
  ASSUME IInv, ArraysAbove, \A n \in Nodes : Live(n)' <=> Live(n),
         \A n \in Nodes : Live(n) => key_'[n] = key_[n] /\ value_'[n] = value_[n]
  PROVE  /\ Map' = Map
         /\ (\A n \in Nodes : Live(n) => access_count_'[n] = access_count_[n]) =>
              Readers' = Readers /\ State' = State
  <1>1. \A k \in Keys : \A n \in Nodes : n \in Holder(k)' <=> n \in Holder(k)
    BY DEF Holder, Live
  <1>2. \A k \in Keys : \A n \in Holder(k) : Live(n) /\ n \in Nodes
    BY DEF Holder, Live
  <1>3. \A k \in Keys : Map'[k] = Map[k]
    BY <1>1, <1>2, KeyStays
  <1>4. Map' = Map
    BY <1>3 DEF Map
  <1>5. ASSUME \A n \in Nodes : Live(n) => access_count_'[n] = access_count_[n]
        PROVE  Readers' = Readers /\ State' = State
    <2>1. \A k \in Keys : Readers'[k] = Readers[k]
      BY <1>1, <1>2, <1>5, KeyStays
    <2>2. Readers' = Readers
      BY <2>1 DEF Readers
    <2> QED
      BY <1>4, <2>2 DEF State
  <1> QED
    BY <1>4, <1>5

------------------------------------------------------------------------------
(* What a step has to show *)

(* A thread whose call changes.                                            *)
Minds(u) ==
  /\ Finding(u)' => /\ key_'[Cur(u)'] = Key(u)'
                    /\ Cur(u)' \in dead' => "absent" \in seen'[u]
  /\ call'[u] # Null => Bringing(u)'

LEMMA StateIn == \A k \in Keys : State[k] \in {"absent", "free", "read"}
  BY DEF State

LEMMA LookIs ==
  ASSUME Look, NEW u \in Threads
  PROVE  seen'[u] = IF call'[u] = Null \/ call'[u].at \in After THEN {}
                    ELSE (IF call[u] = Null THEN {} ELSE seen[u]) \cup {State'[call'[u].key]}
  BY DEF Look

LEMMA HistoryKeeps ==
  ASSUME IInv', JInv, Look
  PROVE  History'
  <1>1. \A u \in Threads : call'[u] # Null => call'[u].key \in Keys
    BY DEF IInv, Types, Calls
  <1>2. \A k \in Keys : State'[k] \in {"absent", "free", "read"}
    BY DEF State
  <1>3. seen' \in [Threads -> SUBSET {"absent", "free", "read"}]
    <2>1. \A u \in Threads : seen'[u] \subseteq {"absent", "free", "read"}
      <3> TAKE u \in Threads
      <3>1. seen[u] \subseteq {"absent", "free", "read"}
        BY DEF JInv, History
      <3>2. PICK new : new = State'[call'[u].key]
        OBVIOUS
      <3>3. call'[u] # Null => new \in {"absent", "free", "read"}
        BY <1>1, <1>2, <3>2
      <3>4. seen'[u] = IF call'[u] = Null \/ call'[u].at \in After THEN {}
                       ELSE (IF call[u] = Null THEN {} ELSE seen[u]) \cup {new}
        BY <3>2, LookIs
      <3> QED
        BY <3>1, <3>3, <3>4
    <2>2. seen' = [u \in Threads |-> seen'[u]]
      BY DEF Look
    <2> QED
      BY <2>1, <2>2
  <1>4. \A u \in Threads : SeenNow(u)'
    <2> TAKE u \in Threads
    <2> QED
      BY LookIs DEF SeenNow, Decided, Key
  <1> QED
    BY <1>3, <1>4 DEF History

LEMMA JKeeps ==
  ASSUME IInv, IInv', JInv, Look, ArraysAbove', NoneIsLost',
         \A n \in allocated : n \in allocated' => key_'[n] = key_[n] /\ value_'[n] = value_[n],
         \A u \in Threads : Finding(u) /\ Cur(u) \in dead' => Cur(u) \in dead \/ State'[Key(u)] = "absent",
         \A u \in Threads : call'[u] = call[u] \/ Minds(u)
  PROVE  JInv'
  <1> USE NullAssumption
  <1>1. History'
    BY HistoryKeeps
  <1>2. Found'
    <2> SUFFICES ASSUME NEW u \in Threads, Finding(u)'
                 PROVE  /\ key_'[Cur(u)'] = Key(u)'
                        /\ Cur(u)' \in dead' => "absent" \in seen'[u]
      BY DEF Found
    <2>1. CASE Minds(u)
      BY <2>1 DEF Minds
    <2>2. CASE call'[u] = call[u]
      <3>1. Finding(u) /\ Cur(u)' = Cur(u) /\ Key(u)' = Key(u) /\ call[u] # Null
            /\ call[u].at \in {"count", "kill", "uncount"}
        BY <2>2 DEF Finding, At, Cur, Key
      <3>2. Cur(u) \in allocated
        BY <3>1, WatchedIsAllocated, InCall DEF WatchStates, Sound, Cur
      <3>3. Cur(u) \in allocated'
        <4>1. Cur(u) \in Uses(u)' /\ Cur(u) # Null
          BY <3>1, <3>2, <2>2 DEF Uses, Watches, Cur, At, IInv, Types
        <4> QED
          BY <4>1 DEF IInv, UsesAreAllocated
      <3>4. key_[Cur(u)] = Key(u) /\ (Cur(u) \in dead => "absent" \in seen[u])
        BY <3>1 DEF JInv, Found
      <3>5. seen[u] \cup {State'[Key(u)]} \subseteq seen'[u]
        BY <2>2, <3>1, LookIs DEF After, Key
      <3> QED
        BY <3>1, <3>2, <3>3, <3>4, <3>5
    <2> QED
      BY <2>1, <2>2
  <1>3. Bringings'
    <2> SUFFICES ASSUME NEW u \in Threads, call'[u] # Null PROVE Bringing(u)'
      BY DEF Bringings
    <2>1. CASE Minds(u)
      BY <2>1 DEF Minds
    <2>2. CASE call'[u] = call[u]
      <3>1. Bringing(u) /\ (Fresh(u)' <=> Fresh(u)) /\ (Kind(u)' = Kind(u)) /\ (Decided(u)' <=> Decided(u))
        BY <2>2 DEF JInv, Bringings, Fresh, Kind, Decided
      <3>2. Fresh(u) => call[u].node \in allocated /\ call[u].node \in allocated'
        BY <2>2, <3>1 DEF IInv, Private
      <3> QED
        BY <2>2, <3>1, <3>2 DEF Bringing
    <2> QED
      BY <2>1, <2>2
  <1> QED
    BY <1>1, <1>2, <1>3 DEF JInv

(* The call of one thread goes on, or is decided.                          *)
Goes(t) ==
  /\ call[t] # Null /\ call'[t] # Null
  /\ call'[t].kind = call[t].kind /\ call'[t].key = call[t].key
  /\ call'[t].value = call[t].value /\ call'[t].node = call[t].node
  /\ \A u \in Threads : u # t => call'[u] = call[u]

(* No call begins or returns.                                              *)
SameCalls ==
  \A u \in Threads :
    /\ call'[u] = Null <=> call[u] = Null
    /\ Pending(u)' = Pending(u)
    /\ call[u] # Null => call'[u].key = call[u].key

LEMMA PendingIs ==
  ASSUME IInv, JInv, NEW u \in Threads
  PROVE  /\ Pending(u) = Null <=> call[u] = Null
         /\ call[u] # Null => Pending(u).kind = Kind(u) /\ Pending(u).key = Key(u) /\ Key(u) \in Keys
         /\ call[u] # Null /\ Kind(u) = "insert" => Pending(u).value = call[u].value /\ call[u].value \in Values
         /\ Outcome(u) = Null <=> call[u] = Null \/ ~Decided(u)
         /\ call[u] # Null => Kind(u) \in {"insert", "remove", "at"}
  <1>1. CASE call[u] = Null
    BY <1>1 DEF Pending, Outcome
  <1>2. CASE call[u] # Null
    <2>1. call[u] \in Calls /\ Bringing(u)
      BY <1>2, CallIn DEF IInv, JInv, Bringings
    <2>2. Kind(u) \in {"insert", "remove", "at"} /\ Key(u) \in Keys
      BY <2>1 DEF Calls, Kind, Key
    <2>3. Pending(u) \in Abstract!Calls
      BY <1>2, <2>1, <2>2 DEF Pending, Abstract!Calls, Bringing
    <2>4. Pending(u) # Null
      BY <2>3, PendingAssumption
    <2>5. Outcome(u) = Null <=> ~Decided(u)
      BY <1>2, <2>1, <2>2, NullAssumption DEF Outcome, Bringing
    <2> QED
      BY <1>2, <2>1, <2>2, <2>4, <2>5 DEF Pending, Bringing
  <1> QED
    BY <1>1, <1>2

LEMMA OutcomeThen ==
  ASSUME JInv', NEW u \in Threads
  PROVE  Outcome(u)' = Null <=> call'[u] = Null \/ ~Decided(u)'
  BY NullAssumption DEF JInv, Bringings, Bringing, Outcome

LEMMA GoesStays ==
  ASSUME NEW t \in Threads, Goes(t)
  PROVE  SameCalls /\ \A u \in Threads : u # t => Outcome(u)' = Outcome(u)
  BY DEF Goes, SameCalls, Pending, Outcome, Kind, Key, Decided

LEMMA LookMaps ==
  ASSUME IInv, JInv, JInv', Look, SameCalls
  PROVE  Abstract!Look /\ [u \in Threads |-> Pending(u)]' = [u \in Threads |-> Pending(u)]
  <1>1. \A u \in Threads : Pending(u)' = Pending(u)
    BY DEF SameCalls
  <1>2. \A u \in Threads : call'[u] = Null <=> call[u] = Null
    BY DEF SameCalls
  <1>3. \A u \in Threads :
          seen'[u] = IF Pending(u) = Null \/ Outcome(u)' # Null THEN {}
                     ELSE seen[u] \cup {State'[Pending(u).key]}
    <2> TAKE u \in Threads
    <2>1. CASE call[u] = Null
      BY <1>2, <2>1, LookIs, PendingIs
    <2>2. CASE call[u] # Null
      <3>1. call'[u].key = Pending(u).key /\ call'[u] # Null
        BY <1>2, <2>2, PendingIs DEF SameCalls, Key
      <3> QED
        BY <2>2, <3>1, LookIs, PendingIs, OutcomeThen DEF Decided
    <2> QED
      BY <2>1, <2>2
  <1>4. seen' = [u \in Threads |-> IF Pending(u) = Null \/ Outcome(u)' # Null THEN {}
                                   ELSE seen[u] \cup {State'[Pending(u).key]}]
    <2>1. seen' = [u \in Threads |-> seen'[u]]
      BY DEF Look
    <2> QED
      BY <1>3, <2>1
  <1> QED
    BY <1>1, <1>4 DEF Abstract!Look, Abstract!State, State

(* A step that the abstract map does not see.                              *)
LEMMA Stutters ==
  ASSUME IInv, JInv, JInv', Look, Map' = Map, Readers' = Readers, State' = State,
         SameCalls, \A u \in Threads : Outcome(u)' = Outcome(u)
  PROVE  UNCHANGED Abstract!vars
  <1> USE DEF SameCalls
  <1>1. \A u \in Threads : seen'[u] = seen[u]
    <2> TAKE u \in Threads
    <2>1. SeenNow(u)
      BY DEF JInv, History
    <2>2. CASE call[u] = Null
      BY <2>1, <2>2, LookIs DEF SeenNow
    <2>3. CASE call[u] # Null
      <3>1. Decided(u)' <=> Decided(u)
        BY <2>3, PendingIs, OutcomeThen
      <3> QED
        BY <2>1, <2>3, <3>1, LookIs DEF SeenNow, Decided, Key
    <2> QED
      BY <2>2, <2>3
  <1>2. seen' = seen
    <2>1. seen' = [u \in Threads |-> seen'[u]] /\ seen = [u \in Threads |-> seen[u]]
      BY DEF Look, JInv, History
    <2> QED
      BY <1>1, <2>1
  <1> QED
    BY <1>2 DEF Abstract!vars

------------------------------------------------------------------------------
(* The fields of a call after a step *)

LEMMA OthersGo ==
  ASSUME IInv, NEW t \in Threads, NEW c, Become(t, c)
  PROVE  call'[t] = c /\ \A u \in Threads : u # t => call'[u] = call[u]
  BY OthersStay DEF IInv

Labels == After \cup {"load", "place", "validate", "alive", "count", "kill", "uncount", "replace", "expand",
                      "force", "force_validate", "force_expand"}

LEMMA GotoGoes ==
  ASSUME IInv, NEW t \in Threads, call[t] # Null, NEW l \in Labels, Goto(t, l)
  PROVE  /\ call'[t].at = l /\ call'[t].cur = call[t].cur /\ call'[t].res = call[t].res
         /\ Goes(t)
  <1>1. PICK c : c = [call[t] EXCEPT !.at = l]
    OBVIOUS
  <1>2. c.at = l /\ c.cur = call[t].cur /\ c.res = call[t].res /\ c.kind = call[t].kind /\ c.key = call[t].key
        /\ c.value = call[t].value /\ c.node = call[t].node /\ c \in Calls
    BY ZenonT(40), <1>1, CallIn DEF IInv, Calls, Labels, After
  <1>3. Become(t, c)
    BY <1>1 DEF Goto
  <1> QED
    BY <1>2, <1>3, OthersGo, CallsAssumption DEF Goes

LEMMA GotoWithGoes ==
  ASSUME IInv, NEW t \in Threads, call[t] # Null, NEW l \in Labels, NEW n \in Nodes \cup {Null}, GotoWith(t, l, n)
  PROVE  /\ call'[t].at = l /\ call'[t].cur = n /\ call'[t].res = call[t].res
         /\ Goes(t)
  <1>1. PICK c : c = [call[t] EXCEPT !.at = l, !.cur = n]
    OBVIOUS
  <1>2. c.at = l /\ c.cur = n /\ c.res = call[t].res /\ c.kind = call[t].kind /\ c.key = call[t].key
        /\ c.value = call[t].value /\ c.node = call[t].node /\ c \in Calls
    BY ZenonT(40), <1>1, CallIn DEF IInv, Calls, Labels, After
  <1>3. Become(t, c)
    BY <1>1 DEF GotoWith
  <1> QED
    BY <1>2, <1>3, OthersGo, CallsAssumption DEF Goes

LEMMA DecideGoes ==
  ASSUME IInv, NEW t \in Threads, call[t] # Null, NEW r \in Values \cup {"refused", "done"}, Decide(t, r)
  PROVE  /\ call'[t].at = "done" /\ call'[t].res = r
         /\ Goes(t)
  <1>1. PICK c : c = [call[t] EXCEPT !.at = "done", !.res = r, !.cur = Null]
    OBVIOUS
  <1>2. c.at = "done" /\ c.res = r /\ c.kind = call[t].kind /\ c.key = call[t].key
        /\ c.value = call[t].value /\ c.node = call[t].node /\ c \in Calls
    BY ZenonT(40), <1>1, CallIn DEF IInv, Calls, Labels, After
  <1>3. Become(t, c)
    BY <1>1 DEF Decide
  <1> QED
    BY <1>2, <1>3, OthersGo, CallsAssumption DEF Goes

LEMMA DelayedGoes ==
  ASSUME IInv, NEW t \in Threads, call[t] # Null, Delayed(t)
  PROVE  /\ call'[t].at = "load" /\ call'[t].res = call[t].res
         /\ Goes(t)
  <1>1. PICK left : left = IF call[t].left = 1 /\ Kind(t) = "remove" THEN LIMIT ELSE call[t].left - 1
    OBVIOUS
  <1>2. left \in Int
    BY <1>1, CallIn, LIMITAssumption DEF IInv, Calls
  <1>3. PICK c : c = [call[t] EXCEPT !.at = "load", !.cur = Null, !.left = left]
    OBVIOUS
  <1>4. c.at = "load" /\ c.res = call[t].res /\ c.kind = call[t].kind /\ c.key = call[t].key
        /\ c.value = call[t].value /\ c.node = call[t].node /\ c \in Calls
    BY ZenonT(40), <1>3, <1>2, CallIn DEF IInv, Calls, Labels, After
  <1>5. Become(t, c)
    BY <1>1, <1>3 DEF Delayed
  <1> QED
    BY <1>4, <1>5, OthersGo, CallsAssumption DEF Goes

LEMMA ForceDoneGoes ==
  ASSUME IInv, NEW t \in Threads, call[t] # Null, ForceDone(t)
  PROVE  /\ call'[t].at = "load" /\ call'[t].res = call[t].res
         /\ Goes(t)
  <1>1. PICK left \in Int : left = LIMIT
    BY LIMITAssumption
  <1>2. PICK c : c = [call[t] EXCEPT !.at = "load", !.cur = Null, !.force = Null, !.left = left]
    OBVIOUS
  <1>3. c.at = "load" /\ c.res = call[t].res /\ c.kind = call[t].kind /\ c.key = call[t].key
        /\ c.value = call[t].value /\ c.node = call[t].node /\ c \in Calls
    BY ZenonT(40), <1>2, CallIn DEF IInv, Calls, Labels, After
  <1>4. Become(t, c)
    BY <1>2, <1>1 DEF ForceDone
  <1> QED
    BY <1>3, <1>4, OthersGo, CallsAssumption DEF Goes

------------------------------------------------------------------------------
(* The invariant after a step *)

LEMMA FinderUses ==
  ASSUME IInv, NEW u \in Threads, Finding(u)
  PROVE  /\ Cur(u) \in Uses(u) /\ Cur(u) \in Nodes /\ Cur(u) \in allocated
         /\ call[u] # Null /\ Key(u) \in Keys /\ ~Decided(u)
  <1>1. call[u] # Null /\ call[u].at \in {"count", "kill", "uncount"}
    BY DEF Finding, At
  <1>2. call[u] \in Calls /\ Sound(call[u])
    BY <1>1, InCall
  <1>3. Cur(u) \in Nodes /\ Cur(u) # Null /\ Key(u) \in Keys
    BY <1>1, <1>2, NullAssumption DEF Sound, Cur, Key, Calls
  <1> QED
    BY <1>1, <1>3, WatchedIsAllocated DEF WatchStates, Decided, After

(* A node that is used and is not dead is on the map.                      *)
LEMMA UsedIsLive ==
  ASSUME IInv, JInv, NEW u \in Threads, NEW n \in Uses(u), n \notin dead
  PROVE  Live(n) /\ n \in Nodes
  <1>1. n \in allocated /\ n \in Nodes
    BY DEF IInv, UsesAreAllocated, Types
  <1>2. \A w \in Threads : Fresh(w) => call[w].node # n
    BY DEF IInv, Private
  <1> QED
    BY <1>1, <1>2 DEF Live, JInv, NoneIsLost

LEMMA ArraysAboveKeeps ==
  ASSUME IInv', ArraysAbove, ArraysStay,
         \A loc \in Locations : tree'[loc] # Null /\ DepthOf(loc) > 0 => tree[Parent(loc)] # Null
  PROVE  ArraysAbove'
  <1> SUFFICES ASSUME NEW k \in Keys, NEW d \in 0 .. MaxDepth, NEW e \in 0 .. MaxDepth,
                      e < d, tree'[LocationOf(k, d)] # Null
               PROVE  tree'[LocationOf(k, e)] = "array"
    BY DEF ArraysAbove
  <1>1. d - 1 \in 0 .. MaxDepth /\ d - 1 \in Nat /\ (d - 1) + 1 = d /\ d \in Nat /\ d > 0
    BY MaxDepthIsNat
  <1>2. Parent(LocationOf(k, d)) = LocationOf(k, d - 1) /\ DepthOf(LocationOf(k, d)) = d
    BY <1>1, ParentOfDeeper, LocationShape
  <1>3. LocationOf(k, d) \in Locations /\ LocationOf(k, e) \in Locations
    BY LocationIn
  <1>4. tree[LocationOf(k, d - 1)] # Null
    BY <1>1, <1>2, <1>3
  <1>5. CASE e = d - 1
    <2>1. PICK loc : loc = LocationOf(k, d)
      OBVIOUS
    <2>2. loc \in Locations /\ tree'[loc] # Null /\ DepthOf(loc) > 0 /\ Parent(loc) = LocationOf(k, e)
      BY <1>1, <1>2, <1>3, <1>5, <2>1
    <2>3. Reached(loc)'
      BY <2>2 DEF IInv, Paths, Placed
    <2> QED
      BY <2>2, <2>3 DEF Reached
  <1>6. CASE e < d - 1
    BY <1>1, <1>3, <1>4, <1>6 DEF ArraysAbove, ArraysStay
  <1> QED
    BY <1>1, <1>5, <1>6

LEMMA SameTree ==
  ASSUME tree' = tree
  PROVE  /\ ArraysAbove => ArraysAbove'
         /\ \A n : Linked(n)' <=> Linked(n)
  BY DEF ArraysAbove, Linked

LEMMA NoneIsLostKeeps ==
  ASSUME JInv, NEW t \in Threads, Goes(t), allocated' = allocated, dead \subseteq dead', allocated \subseteq Nodes,
         \A n \in Nodes : Linked(n) => Linked(n)' \/ n \in dead',
         Fresh(t) => Fresh(t)' \/ Linked(call[t].node)'
  PROVE  NoneIsLost'
  <1> SUFFICES ASSUME NEW n \in allocated, ~Linked(n)', n \notin dead'
               PROVE  \E u \in Threads : Fresh(u)' /\ call'[u].node = n
    BY DEF NoneIsLost
  <1>1. PICK u \in Threads : Fresh(u) /\ call[u].node = n
    BY DEF JInv, NoneIsLost
  <1>2. call'[u].node = n
    BY <1>1 DEF Goes
  <1>3. u # t => (Fresh(u)' <=> Fresh(u))
    BY DEF Goes, Fresh, Kind
  <1> QED
    BY <1>1, <1>2, <1>3

(* The step of a call that leaves the nodes as they are.                   *)
LEMMA GoesKeeps ==
  ASSUME IInv, IInv', JInv, Look, NEW t \in Threads, Goes(t), UNCHANGED <<key_, value_, allocated, dead>>,
         ArraysAbove', \A n \in Nodes : Linked(n) => Linked(n)' \/ n \in dead,
         Fresh(t) => Fresh(t)' \/ Linked(call[t].node)', Minds(t)
  PROVE  JInv'
  <1>1. NoneIsLost'
    BY NoneIsLostKeeps DEF IInv, Types
  <1>2. \A u \in Threads : call'[u] = call[u] \/ Minds(u)
    BY DEF Goes
  <1> QED
    BY <1>1, <1>2, JKeeps

LEMMA MindsSimple ==
  ASSUME JInv, NEW t \in Threads, Goes(t), ~Finding(t)', UNCHANGED <<key_, value_>>, Fresh(t)' => Fresh(t),
         Kind(t) # "insert" /\ Decided(t)' => call'[t].res # Null
  PROVE  Minds(t)
  <1>1. Bringing(t)
    BY DEF JInv, Bringings, Goes
  <1>2. Bringing(t)'
    BY <1>1 DEF Bringing, Goes, Kind
  <1> QED
    BY <1>2 DEF Minds

(* A step that changes neither what the map holds nor an outcome.          *)
LEMMA SilentKeeps ==
  ASSUME IInv, IInv', JInv, Look, NEW t \in Threads, Goes(t), UNCHANGED <<key_, value_, allocated, dead>>,
         ArraysAbove', \A n \in Nodes : n \notin dead => (Linked(n)' <=> Linked(n)),
         \A n \in Nodes : Live(n) => access_count_'[n] = access_count_[n],
         Fresh(t) => Fresh(t)', Minds(t), Outcome(t)' = Outcome(t)
  PROVE  JInv' /\ UNCHANGED Abstract!vars
  <1>1. JInv'
    BY GoesKeeps
  <1>2. SameCalls /\ \A u \in Threads : Outcome(u)' = Outcome(u)
    BY GoesStays
  <1>3. Map' = Map /\ Readers' = Readers /\ State' = State
    BY MapStays DEF Live, JInv
  <1> QED
    BY <1>1, <1>2, <1>3, Stutters

(* The outcome of one call.                                                *)
LEMMA OutcomeChanges ==
  ASSUME NEW t \in Threads, Goes(t), NEW o, Outcome(t)' = o
  PROVE  [u \in Threads |-> Outcome(u)]' = [[u \in Threads |-> Outcome(u)] EXCEPT ![t] = o]
  BY GoesStays

(* A call that is refused.                                                 *)
LEMMA RefusedKeeps ==
  ASSUME IInv, IInv', JInv, Look, NEW t \in Threads, Goes(t), UNCHANGED <<tree, key_, value_, allocated, dead>>,
         \A n \in Nodes : Live(n) => access_count_'[n] = access_count_[n],
         ~Decided(t), call'[t].at = "done", call'[t].res = "refused",
         Kind(t) = "insert" => Map[Key(t)] # Null,
         Kind(t) = "remove" => seen[t] \cap {"absent", "read"} # {},
         Kind(t) = "at" => "absent" \in seen[t]
  PROVE  JInv' /\ Abstract!Next
  <1> USE NullAssumption
  <1>1. call[t] # Null /\ call'[t] # Null /\ Kind(t)' = Kind(t)
    BY DEF Goes, Kind
  <1>2. (Fresh(t)' <=> Kind(t) = "insert") /\ Decided(t)' /\ ~Finding(t)'
    BY <1>1 DEF Fresh, Decided, After, Finding, At
  <1>3. Fresh(t) <=> Kind(t) = "insert"
    BY <1>1 DEF Fresh, Decided, After
  <1>4. JInv' /\ \A n : Linked(n)' <=> Linked(n)
    <2>1. Minds(t)
      BY <1>2, <1>3, MindsSimple
    <2>2. ArraysAbove' /\ \A n : Linked(n)' <=> Linked(n)
      BY SameTree DEF JInv
    <2> QED
      BY <1>2, <1>3, <2>1, <2>2, GoesKeeps
  <1>5. Map' = Map /\ Readers' = Readers
    BY <1>4, MapStays DEF Live, JInv
  <1>6. SameCalls
    BY GoesStays
  <1>7. Abstract!Look /\ [u \in Threads |-> Pending(u)]' = [u \in Threads |-> Pending(u)]
    BY <1>4, <1>6, LookMaps
  <1>8. Outcome(t)' = "refused"
    BY <1>1, <1>2 DEF Outcome
  <1>9. [u \in Threads |-> Outcome(u)]' = [[u \in Threads |-> Outcome(u)] EXCEPT ![t] = "refused"]
    BY <1>8, OutcomeChanges
  <1>10. Pending(t) # Null /\ Pending(t).kind = Kind(t) /\ Pending(t).key = Key(t) /\ Outcome(t) = Null
         /\ Kind(t) \in {"insert", "remove", "at"}
    BY <1>1, PendingIs
  <1>11. CASE Kind(t) = "insert"
    BY <1>4, <1>5, <1>7, <1>9, <1>10, <1>11 DEF Abstract!Next, Abstract!Insert, Abstract!Undecided, Abstract!Decide
  <1>12. CASE Kind(t) = "remove"
    BY <1>4, <1>5, <1>7, <1>9, <1>10, <1>12 DEF Abstract!Next, Abstract!RemoveNothing, Abstract!Undecided, Abstract!Decide
  <1>13. CASE Kind(t) = "at"
    BY <1>4, <1>5, <1>7, <1>9, <1>10, <1>13 DEF Abstract!Next, Abstract!FindNothing, Abstract!Undecided, Abstract!Decide
  <1> QED
    BY <1>10, <1>11, <1>12, <1>13

------------------------------------------------------------------------------
(* What an insert does *)

LEMMA FreshIsUnread ==
  ASSUME IInv, NEW t \in Threads, Fresh(t)
  PROVE  /\ call[t].node \in Nodes /\ call[t].node \in allocated /\ call[t].node \notin dead
         /\ key_[call[t].node] = Key(t) /\ ~Linked(call[t].node)
         /\ access_count_[call[t].node] = 0
  <1> USE NullAssumption
  <1>1. PICK n : n = call[t].node
    OBVIOUS
  <1>2. /\ n \in allocated /\ n \in Nodes /\ n \notin dead /\ key_[n] = Key(t) /\ ~Linked(n)
        /\ \A u \in Threads : n \notin Uses(u)
    BY <1>1 DEF IInv, Private, Types
  <1>3. Counting(n) = {}
    BY <1>2 DEF Counting, Uses, Watches, At
  <1>4. Accessing(n) = {} /\ Releasing(n) = {}
    BY <1>2 DEF Accessing, Releasing, Uses
  <1>5. Total(n) = 0
    BY <1>3, <1>4, FS_EmptySet DEF Total
  <1>6. access_count_[n] = 0
    BY <1>2, <1>5 DEF IInv, Counts
  <1> QED
    BY <1>1, <1>2, <1>6

LEMMA InsertKeeps ==
  ASSUME IInv, IInv', JInv, Look, NEW t \in Threads, Goes(t), Fresh(t), ~Decided(t),
         UNCHANGED <<key_, value_, access_count_, allocated, dead>>,
         NEW loc \in Locations, loc = LocationOf(Key(t), DepthOf(loc)), Reached(loc),
         tree[loc] = Null \/ tree[loc] \in dead,
         tree' = [tree EXCEPT ![loc] = call[t].node],
         call'[t].at \in {"grow", "retire"}, call'[t].res = Null
  PROVE  JInv' /\ Abstract!Next
  <1> USE NullAssumption, NodesAssumption
  <1>1. PICK n, k : n = call[t].node /\ k = Key(t)
    OBVIOUS
  <1>2. /\ n \in Nodes /\ n \in allocated /\ n \notin dead /\ key_[n] = k /\ ~Linked(n) /\ access_count_[n] = 0
        /\ k \in Keys /\ call[t] # Null /\ call'[t] # Null /\ Kind(t) = "insert" /\ Kind(t)' = "insert"
        /\ value_[n] = call[t].value
    BY <1>1, FreshIsUnread, PendingIs DEF Goes, Fresh, Kind, JInv, Bringings, Bringing
  <1>3. tree'[loc] = n /\ \A l \in Locations : l # loc => tree'[l] = tree[l]
    BY <1>1 DEF IInv, Types
  <1>4. Linked(n)' /\ \A m \in Nodes : m # n /\ m \notin dead => (Linked(m)' <=> Linked(m))
    BY <1>2, <1>3 DEF Linked
  <1>5. ~Fresh(t)' /\ Decided(t)' /\ ~Finding(t)'
    BY <1>2 DEF Fresh, Decided, After, Finding, At
  <1>6. JInv'
    <2>1. dead \subseteq Nodes
      BY DEF IInv, Types
    <2>2. ArraysStay
      BY <1>3, <2>1 DEF ArraysStay
    <2>3. ASSUME NEW l \in Locations, tree'[l] # Null, DepthOf(l) > 0 PROVE tree[Parent(l)] # Null
      <3>1. Reached(l)
        BY <1>3, <2>3 DEF IInv, Paths, Placed
      <3> QED
        BY <2>3, <3>1 DEF Reached
    <2>4. ArraysAbove'
      BY <2>2, <2>3, ArraysAboveKeeps DEF JInv
    <2>5. Minds(t)
      BY <1>2, <1>5, MindsSimple
    <2> QED
      <3>1. Linked(call[t].node)'
        BY <1>1, <1>3 DEF Linked, Goes
      <3> QED
        BY <1>4, <2>4, <2>5, <3>1, GoesKeeps
  <1>7. Map[k] = Null /\ Readers[k] = 0
    <2>1. dead \subseteq Nodes
      BY DEF IInv, Types
    <2>2. Holder(k) = {}
      BY <1>1, <1>2, <2>1, NobodyHolds DEF JInv
    <2> QED
      BY <1>2, <2>2, MapIs
  <1>8. Map'[k] = call[t].value /\ Readers'[k] = 0
    <2>1. Live(n)'
      BY <1>2, <1>4 DEF Live
    <2>2. Holder(k)' = {n}
      <3>1. ArraysAbove' /\ key_'[n] = k
        BY <1>2, <1>6 DEF JInv
      <3> QED
        BY <1>2, <2>1, <3>1, HolderThen
    <2> QED
      BY <1>2, <2>2, MapIsThen
  <1>9. ASSUME NEW l \in Keys, l # k PROVE Map'[l] = Map[l] /\ Readers'[l] = Readers[l]
    <2>1. \A m \in Nodes : m \in Holder(l)' <=> m \in Holder(l)
      BY <1>2, <1>4, <1>9 DEF Holder
    <2> QED
      BY <2>1, KeyStays DEF JInv
  <1>10. Map' = [Map EXCEPT ![k] = call[t].value] /\ Readers' = Readers
    <2> DEFINE M == Map  R == Readers
    <2>1. M = [l \in Keys |-> M[l]] /\ R = [l \in Keys |-> R[l]]
      BY DEF Map, Readers
    <2>2. M' = [l \in Keys |-> M'[l]] /\ R' = [l \in Keys |-> R'[l]]
      BY DEF Map, Readers
    <2> HIDE DEF M, R
    <2>3. M' = [M EXCEPT ![k] = call[t].value] /\ R' = R
      BY <1>2, <1>7, <1>8, <1>9, <2>1, <2>2 DEF M, R
    <2> QED
      BY <2>3 DEF M, R
  <1>11. Abstract!Look /\ [u \in Threads |-> Pending(u)]' = [u \in Threads |-> Pending(u)]
    BY <1>6, GoesStays, LookMaps
  <1>12. Outcome(t)' = "done"
    BY <1>2, <1>5 DEF Outcome
  <1>13. [u \in Threads |-> Outcome(u)]' = [[u \in Threads |-> Outcome(u)] EXCEPT ![t] = "done"]
    BY <1>12, OutcomeChanges
  <1>14. Pending(t) # Null /\ Pending(t).kind = "insert" /\ Pending(t).key = k /\ Outcome(t) = Null
         /\ Pending(t).value = call[t].value
    BY <1>1, <1>2, PendingIs
  <1> QED
    BY <1>6, <1>7, <1>10, <1>11, <1>13, <1>14 DEF Abstract!Next, Abstract!Insert, Abstract!Undecided, Abstract!Decide

------------------------------------------------------------------------------
(* The steps of a call *)

(* What the abstract map makes of a step.                                  *)
Maps == Abstract!Next \/ UNCHANGED Abstract!vars

LEMMA SimpleKeeps ==
  ASSUME IInv, IInv', JInv, Look, NEW t \in Threads, Goes(t),
         UNCHANGED <<tree, key_, value_, access_count_, allocated, dead>>,
         Fresh(t)' <=> Fresh(t), ~Finding(t)', Decided(t)' <=> Decided(t), call'[t].res = call[t].res
  PROVE  JInv' /\ Maps
  <1>1. Kind(t)' = Kind(t) /\ Bringing(t)
    BY DEF Goes, Kind, JInv, Bringings
  <1>2. Minds(t)
    BY <1>1, MindsSimple DEF Bringing
  <1>3. Outcome(t)' = Outcome(t)
    BY <1>1 DEF Outcome, Goes
  <1>4. ArraysAbove' /\ \A n : Linked(n)' <=> Linked(n)
    BY SameTree DEF JInv
  <1> QED
    BY <1>2, <1>3, <1>4, SilentKeeps DEF Maps

(* Before it is decided a call only moves on.                              *)
Moving == {"load", "place", "validate", "alive", "replace", "expand", "force", "force_validate", "force_expand"}

LEMMA MovingKeeps ==
  ASSUME IInv, IInv', JInv, Look, NEW t \in Threads, Goes(t),
         UNCHANGED <<tree, key_, value_, access_count_, allocated, dead>>,
         call[t].at \in Moving, call'[t].at \in Moving, call'[t].res = call[t].res
  PROVE  JInv' /\ Maps
  <1>1. Kind(t)' = Kind(t) /\ call[t] # Null /\ call'[t] # Null
    BY DEF Goes, Kind
  <1>2. (Fresh(t)' <=> Fresh(t)) /\ ~Finding(t)'
    BY <1>1 DEF Fresh, Moving, Finding, At
  <1>3. ~Decided(t)' /\ ~Decided(t)
    BY DEF Moving, Decided, After
  <1> QED
    BY <1>2, <1>3, SimpleKeeps

LEMMA AnnounceGoes ==
  ASSUME IInv, NEW t \in Threads, Announce(t)
  PROVE  Goes(t) /\ call[t].at = "load" /\ call'[t].at = "force" /\ call'[t].res = call[t].res
  <1>1. PICK c : c = [call[t] EXCEPT !.at = "force", !.force = Loc(t)]
    OBVIOUS
  <1>2. call[t] # Null /\ call[t].at = "load"
    BY DEF Announce, At
  <1>3. /\ c.at = "force" /\ c.res = call[t].res /\ c.kind = call[t].kind /\ c.key = call[t].key
        /\ c.value = call[t].value /\ c.node = call[t].node /\ c \in Calls
    BY ZenonT(40), <1>1, <1>2, CallIn DEF IInv, Calls, Loc
  <1>4. Become(t, c)
    BY <1>1 DEF Announce
  <1> QED
    BY <1>2, <1>3, <1>4, OthersGo, CallsAssumption DEF Goes

LEMMA AnnounceMaps ==
  ASSUME IInv, IInv', JInv, Look, NEW t \in Threads, Announce(t)
  PROVE  JInv' /\ Maps
  BY AnnounceGoes, MovingKeeps DEF Announce, Moving, nodeVars

(* The key of a call whose location holds no live node with that key.      *)
LEMMA AbsentNow ==
  ASSUME IInv, JInv, NEW t \in Threads, call[t] # Null, tree[Loc(t)] # "array",
         tree[Loc(t)] \in Nodes => tree[Loc(t)] \in dead \/ key_[tree[Loc(t)]] # Key(t)
  PROVE  ~Decided(t) => "absent" \in seen[t]
  <1>1. PICK k, loc : k = Key(t) /\ loc = Loc(t)
    OBVIOUS
  <1>2. k \in Keys /\ loc \in Locations /\ loc = LocationOf(k, DepthOf(loc)) /\ Reached(loc)
    BY <1>1, InCall DEF Calls, Sound, Key, Loc
  <1>3. Holder(k) = {}
    BY <1>1, <1>2, NobodyHolds DEF JInv
  <1>4. State[k] = "absent"
    BY <1>2, <1>3, MapIs
  <1> QED
    BY <1>1, <1>4 DEF JInv, History, SeenNow

LEMMA SeenStays ==
  ASSUME Look, NEW t \in Threads, Goes(t), ~Decided(t)'
  PROVE  seen[t] \subseteq seen'[t]
  BY LookIs DEF Goes, Decided

LEMMA DescendGoes ==
  ASSUME IInv, NEW t \in Threads, call[t] # Null, tree[Loc(t)] = "array",
         Become(t, [call[t] EXCEPT !.loc = LocationOf(Key(t), DepthOf(Loc(t)) + 1)])
  PROVE  Goes(t) /\ call'[t].at = call[t].at /\ call'[t].res = call[t].res
  <1>1. PICK loc : loc = LocationOf(Key(t), DepthOf(Loc(t)) + 1)
    OBVIOUS
  <1>2. PICK c : c = [call[t] EXCEPT !.loc = loc]
    OBVIOUS
  <1>3. Become(t, c)
    BY <1>1, <1>2
  <1>4. call[t] \in Calls
    BY CallIn DEF IInv
  <1>5. /\ c.at = call[t].at /\ c.res = call[t].res /\ c.kind = call[t].kind /\ c.key = call[t].key
        /\ c.value = call[t].value /\ c.node = call[t].node
    BY <1>2, <1>4 DEF Calls
  <1>6. c \in Calls
    <2>1. PICK k, l : k = Key(t) /\ l = Loc(t)
      OBVIOUS
    <2>2. k \in Keys /\ l \in Locations /\ tree[l] = "array"
      BY <1>4, <2>1 DEF Calls, Key, Loc
    <2>3. DepthOf(l) < MaxDepth /\ DepthOf(l) \in 0 .. MaxDepth
      BY <2>2, DepthInRange DEF IInv, Paths, Placed
    <2>4. loc \in Locations
      BY <1>1, <2>1, <2>2, <2>3, Deeper
    <2> QED
      BY <1>2, <1>4, <2>4 DEF Calls
  <1> QED
    BY <1>3, <1>5, <1>6, OthersGo, CallsAssumption DEF Goes

LEMMA LoadMaps ==
  ASSUME IInv, IInv', JInv, Look, NEW t \in Threads, Load(t)
  PROVE  JInv' /\ Maps
  <1>1. PICK w : w = tree[Loc(t)]
    OBVIOUS
  <1>2. /\ call[t] # Null /\ call[t].at = "load" /\ call[t] \in Calls /\ ~Decided(t)
        /\ Kind(t) \in {"insert", "remove", "at"}
        /\ UNCHANGED <<tree, key_, value_, access_count_, allocated, dead>>
        /\ w \in Nodes \cup {Null, "array"}
    BY <1>1, InCall DEF Load, At, nodeVars, Decided, After, Kind, Calls, IInv, Types, Loc
  <1>3. CASE w = Null /\ Kind(t) = "insert"
    <2>1. Goto(t, "place")
      BY <1>1, <1>3 DEF Load
    <2>2. call'[t].at = "place" /\ call'[t].res = call[t].res /\ Goes(t)
      BY <1>2, <2>1, GotoGoes DEF Labels
    <2> QED
      BY <1>2, <2>2, MovingKeeps DEF Moving
  <1>4. CASE w = Null /\ Kind(t) # "insert"
    <2>1. Decide(t, "refused")
      BY <1>1, <1>4 DEF Load
    <2>2. call'[t].at = "done" /\ call'[t].res = "refused" /\ Goes(t)
      BY <1>2, <2>1, DecideGoes
    <2>3. "absent" \in seen[t]
      BY <1>1, <1>2, <1>4, NullAssumption, AbsentNow
    <2> QED
      BY <1>2, <1>4, <2>2, <2>3, RefusedKeeps DEF Maps
  <1>5. CASE w \in Nodes
    <2>1. GotoWith(t, "validate", w)
      BY <1>1, <1>5, NullAssumption DEF Load, IsNode
    <2>2. call'[t].at = "validate" /\ call'[t].res = call[t].res /\ Goes(t)
      BY <1>2, <1>5, <2>1, GotoWithGoes DEF Labels
    <2> QED
      BY <1>2, <2>2, MovingKeeps DEF Moving
  <1>6. CASE w = "array"
    <2>1. Become(t, [call[t] EXCEPT !.loc = LocationOf(Key(t), DepthOf(Loc(t)) + 1)])
      BY <1>1, <1>6, NullAssumption, NodesAssumption DEF Load, IsNode
    <2>2. Goes(t) /\ call'[t].at = call[t].at /\ call'[t].res = call[t].res
      BY <1>1, <1>2, <1>6, <2>1, DescendGoes
    <2> QED
      BY <1>2, <2>2, MovingKeeps DEF Moving
  <1> QED
    BY <1>2, <1>3, <1>4, <1>5, <1>6

LEMMA DelayedMaps ==
  ASSUME IInv, IInv', JInv, Look, NEW t \in Threads, call[t] # Null, call[t].at \in Moving, Delayed(t),
         UNCHANGED <<tree, key_, value_, access_count_, allocated, dead>>
  PROVE  JInv' /\ Maps
  BY DelayedGoes, MovingKeeps DEF Moving

LEMMA ValidateMaps ==
  ASSUME IInv, IInv', JInv, Look, NEW t \in Threads, Validate(t)
  PROVE  JInv' /\ Maps
  <1>1. PICK n : n = Cur(t)
    OBVIOUS
  <1>2. /\ call[t] # Null /\ call[t].at = "validate" /\ call[t] \in Calls /\ ~Decided(t)
        /\ Kind(t) \in {"insert", "remove", "at"} /\ n \in Nodes
        /\ UNCHANGED <<tree, key_, value_, access_count_, allocated, dead>>
    BY <1>1, InCall DEF Validate, At, nodeVars, Decided, After, Kind, Calls, Sound, Cur
  <1>3. CASE tree[Loc(t)] # n
    BY <1>1, <1>2, <1>3, DelayedMaps DEF Validate, Moving
  <1>4. CASE tree[Loc(t)] = n /\ Kind(t) = "insert"
    <2>1. Goto(t, "alive")
      BY <1>1, <1>4 DEF Validate
    <2>2. call'[t].at = "alive" /\ call'[t].res = call[t].res /\ Goes(t)
      BY <1>2, <2>1, GotoGoes DEF Labels
    <2> QED
      BY <1>2, <2>2, MovingKeeps DEF Moving
  <1>5. CASE tree[Loc(t)] = n /\ Kind(t) # "insert" /\ ~SameKey(t)
    <2>1. Decide(t, "refused")
      BY <1>1, <1>5 DEF Validate
    <2>2. call'[t].at = "done" /\ call'[t].res = "refused" /\ Goes(t)
      BY <1>2, <2>1, DecideGoes
    <2>3. "absent" \in seen[t]
      BY <1>1, <1>2, <1>5, NodesAssumption, AbsentNow DEF SameKey
    <2> QED
      BY <1>2, <1>5, <2>2, <2>3, RefusedKeeps DEF Maps
  <1>6. CASE tree[Loc(t)] = n /\ Kind(t) # "insert" /\ SameKey(t)
    <2>1. PICK l : l = IF Kind(t) = "at" THEN "count" ELSE "kill"
      OBVIOUS
    <2>2. Goto(t, l)
      BY <1>1, <1>6, <2>1 DEF Validate
    <2>3. call'[t].at = l /\ call'[t].res = call[t].res /\ Goes(t) /\ call'[t].cur = n
      BY <1>1, <1>2, <2>1, <2>2, GotoGoes DEF Labels, Cur
    <2>4. ~Decided(t)' /\ ~Fresh(t)' /\ ~Fresh(t) /\ Kind(t)' = Kind(t) /\ Kind(t)' # "insert"
      BY <1>6, <2>1, <2>3 DEF Decided, After, Fresh, Goes, Kind
    <2>5. Minds(t)
      <3>1. key_'[Cur(t)'] = Key(t)'
        BY <1>1, <1>2, <1>6, <2>3 DEF SameKey, Goes, Cur, Key
      <3>2. Cur(t)' \in dead' => "absent" \in seen'[t]
        BY <1>2, <1>6, <2>3, <2>4, NodesAssumption, AbsentNow, SeenStays DEF Cur
      <3> QED
        BY <2>4, <3>1, <3>2 DEF Minds, Bringing
    <2>6. Outcome(t)' = Outcome(t)
      BY <1>2, <2>4 DEF Outcome
    <2>7. ArraysAbove' /\ \A m : Linked(m)' <=> Linked(m)
      BY <1>2, SameTree DEF JInv
    <2> QED
      BY <1>2, <2>3, <2>4, <2>5, <2>6, <2>7, SilentKeeps DEF Maps
  <1> QED
    BY <1>3, <1>4, <1>5, <1>6

(* at: a node that is found alive has one reader more.                     *)
LEMMA HolderAlone ==
  ASSUME IInv, JInv, NEW n \in Nodes, Live(n)
  PROVE  /\ key_[n] \in Keys /\ Holder(key_[n]) = {n}
         /\ Map[key_[n]] = value_[n] /\ Readers[key_[n]] = access_count_[n]
         /\ value_[n] \in Values /\ access_count_[n] \in Nat
         /\ access_count_[n] = Total(n)
  <1>1. PICK k : k = key_[n]
    OBVIOUS
  <1>2. k \in Keys /\ Holder(k) = {n}
    BY <1>1, HolderIs DEF JInv
  <1>3. Map[k] = value_[n] /\ Readers[k] = access_count_[n]
    BY <1>2, MapIs
  <1>4. n \in allocated /\ n \notin dead
    BY LinkedIsAllocated DEF IInv, Live
  <1>5. access_count_[n] = Total(n)
    BY <1>4, CountsAreNat DEF IInv, Counts
  <1> QED
    BY <1>1, <1>2, <1>3, <1>4, <1>5, CountsAreNat DEF IInv, Types

(* The readers of one key change by one.                                   *)
LEMMA ReadersMove ==
  ASSUME IInv, JInv, ArraysAbove', IInv', UNCHANGED <<tree, key_, value_, dead>>, NEW n \in Nodes, Live(n),
         NEW d \in Int, Add(n, d)
  PROVE  /\ Map' = Map
         /\ Readers' = [Readers EXCEPT ![key_[n]] = @ + d]
  <1>1. PICK k : k = key_[n]
    OBVIOUS
  <1>2. k \in Keys /\ Holder(k) = {n} /\ Readers[k] = access_count_[n]
    BY <1>1, HolderAlone
  <1>3. \A m : Live(m)' <=> Live(m)
    BY SameTree DEF Live
  <1>4. Map' = Map
    BY <1>3, MapStays DEF JInv
  <1>5. access_count_'[n] = access_count_[n] + d /\ \A m \in Nodes : m # n => access_count_'[m] = access_count_[m]
    BY DEF Add, IInv, Types
  <1>6. \A l \in Keys : Holder(l)' = Holder(l)
    BY <1>3 DEF Holder, Live
  <1>7. Readers'[k] = Readers[k] + d
    BY <1>2, <1>5, <1>6, MapIsThen
  <1>8. ASSUME NEW l \in Keys, l # k PROVE Readers'[l] = Readers[l]
    <2>1. \A m \in Holder(l) : m \in Nodes /\ m # n
      BY <1>1, <1>8 DEF Holder
    <2> QED
      BY <1>5, <1>6, <2>1, KeyStays DEF JInv, Holder
  <1>9. Readers' = [Readers EXCEPT ![k] = @ + d]
    <2> DEFINE R == Readers
    <2>1. R = [l \in Keys |-> R[l]] /\ R' = [l \in Keys |-> R'[l]]
      BY DEF Readers
    <2> HIDE DEF R
    <2>2. R' = [R EXCEPT ![k] = @ + d]
      BY <1>2, <1>7, <1>8, <2>1 DEF R
    <2> QED
      BY <2>2 DEF R
  <1> QED
    BY <1>1, <1>4, <1>9

LEMMA CountAccessMaps ==
  ASSUME IInv, IInv', JInv, Look, NEW t \in Threads, CountAccess(t)
  PROVE  JInv' /\ Maps
  <1> USE NullAssumption
  <1>1. PICK n, k : n = Cur(t) /\ k = Key(t)
    OBVIOUS
  <1>2. /\ call[t] # Null /\ call[t].at = "count" /\ call[t] \in Calls /\ ~Decided(t) /\ Finding(t)
        /\ Kind(t) = "at" /\ n \in Nodes /\ n \in Uses(t) /\ n \in allocated
        /\ UNCHANGED <<tree, key_, value_, allocated, dead>> /\ Add(n, 1)
        /\ key_[n] = k /\ (n \in dead => "absent" \in seen[t])
    <2>1. At(t, "count") /\ Finding(t)
      BY DEF CountAccess, Finding
    <2>2. call[t] # Null /\ call[t].at = "count" /\ call[t] \in Calls /\ Kind(t) = "at"
      BY <2>1, InCall DEF At, Sound, Kind
    <2> QED
      BY <1>1, <2>1, <2>2, FinderUses DEF CountAccess, nodeVars, JInv, Found
  <1>3. ArraysAbove' /\ \A m : Linked(m)' <=> Linked(m)
    BY <1>2, SameTree DEF JInv
  <1>4. CASE access_count_[n] >= 0
    <2>1. n \notin dead
      BY <1>2, <1>4, DeadIsNegative DEF At, IInv, Types
    <2>2. Live(n)
      BY <1>2, <2>1, UsedIsLive
    <2>3. Map[k] = value_[n] /\ value_[n] \in Values /\ k \in Keys
      BY <1>2, <2>2, HolderAlone
    <2>4. PICK l \in {"done", "release"} : l = IF va[t] = Null THEN "done" ELSE "release"
      OBVIOUS
    <2>5. PICK r \in Values, v \in Nodes \cup {Null} : r = value_[n] /\ v = va[t]
      BY <2>3 DEF IInv, Types
    <2>6. PICK c : c = [call[t] EXCEPT !.at = l, !.res = r, !.cur = v]
      OBVIOUS
    <2>7. Become(t, c)
      BY <1>1, <1>4, <2>4, <2>5, <2>6 DEF CountAccess
    <2>8. /\ c.at = l /\ c.res = value_[n] /\ c.kind = call[t].kind /\ c.key = call[t].key
          /\ c.value = call[t].value /\ c.node = call[t].node /\ c \in Calls
      BY ZenonT(40), <1>2, <2>5, <2>6 DEF Calls
    <2>9. call'[t] = c /\ Goes(t)
      BY <1>2, <2>7, <2>8, OthersGo, CallsAssumption DEF Goes
    <2>10. ~Finding(t)' /\ Decided(t)' /\ ~Fresh(t)' /\ ~Fresh(t) /\ Kind(t)' = "at"
      BY <1>2, <2>8, <2>9 DEF Finding, At, Decided, After, Fresh, Kind
    <2>11. JInv'
      <3>1. Minds(t)
        BY <1>2, <2>3, <2>8, <2>9, <2>10, MindsSimple
      <3> QED
        BY <1>2, <1>3, <2>9, <2>10, <3>1, GoesKeeps
    <2>12. Map' = Map /\ Readers' = [Readers EXCEPT ![k] = @ + 1]
      BY <1>2, <1>3, <2>2, ReadersMove
    <2>13. Abstract!Look /\ [u \in Threads |-> Pending(u)]' = [u \in Threads |-> Pending(u)]
      BY <2>9, <2>11, GoesStays, LookMaps
    <2>14. Outcome(t)' = value_[n]
      BY <2>8, <2>9, <2>10 DEF Outcome, Goes
    <2>15. [u \in Threads |-> Outcome(u)]' = [[u \in Threads |-> Outcome(u)] EXCEPT ![t] = value_[n]]
      BY <2>9, <2>14, OutcomeChanges
    <2>16. Pending(t) # Null /\ Pending(t).kind = "at" /\ Pending(t).key = k /\ Outcome(t) = Null
      BY <1>1, <1>2, PendingIs
    <2> QED
      BY <2>3, <2>11, <2>12, <2>13, <2>15, <2>16
      DEF Maps, Abstract!Next, Abstract!Find, Abstract!Undecided, Abstract!Decide
  <1>5. CASE ~(access_count_[n] >= 0)
    <2>1. n \in dead
      BY <1>2, <1>5, NegativeIsDead DEF IInv, Types
    <2>2. Goto(t, "uncount")
      BY <1>1, <1>5 DEF CountAccess
    <2>3. call'[t].at = "uncount" /\ call'[t].res = call[t].res /\ Goes(t) /\ call'[t].cur = n
      BY <1>1, <1>2, <2>2, GotoGoes DEF Labels, Cur
    <2>4. ~Decided(t)' /\ ~Fresh(t)' /\ ~Fresh(t) /\ Kind(t)' = Kind(t) /\ Kind(t)' # "insert"
      BY <1>2, <2>3 DEF Decided, After, Fresh, Goes, Kind
    <2>5. Minds(t)
      <3>1. key_'[Cur(t)'] = Key(t)'
        BY <1>1, <1>2, <2>3 DEF Goes, Cur, Key
      <3>2. "absent" \in seen'[t]
        BY <1>2, <2>1, <2>3, <2>4, SeenStays
      <3> QED
        BY <2>4, <3>1, <3>2 DEF Minds, Bringing
    <2>6. Outcome(t)' = Outcome(t)
      BY <1>2, <2>4 DEF Outcome
    <2>7. \A m \in Nodes : Live(m) => access_count_'[m] = access_count_[m]
      BY <1>2, <2>1 DEF Live, Add, IInv, Types
    <2> QED
      BY <1>2, <1>3, <2>3, <2>4, <2>5, <2>6, <2>7, SilentKeeps DEF Maps
  <1> QED
    BY <1>4, <1>5

LEMMA UncountMaps ==
  ASSUME IInv, IInv', JInv, Look, NEW t \in Threads, Uncount(t)
  PROVE  JInv' /\ Maps
  <1>1. PICK n : n = Cur(t)
    OBVIOUS
  <1>2. /\ call[t] # Null /\ call[t].at = "uncount" /\ ~Decided(t) /\ Kind(t) = "at" /\ n \in dead
        /\ UNCHANGED <<tree, key_, value_, allocated, dead>> /\ Add(n, -1)
        /\ "absent" \in seen[t]
    <2>1. At(t, "uncount") /\ Finding(t)
      BY DEF Uncount, Finding
    <2>2. call[t] # Null /\ call[t].at = "uncount" /\ Kind(t) = "at" /\ Cur(t) \in dead
      BY <2>1, InCall DEF At, Sound, Kind, Known
    <2> QED
      BY <1>1, <2>1, <2>2, FinderUses DEF Uncount, nodeVars, JInv, Found
  <1>3. call'[t].at = "done" /\ call'[t].res = "refused" /\ Goes(t)
    BY <1>2, DecideGoes DEF Uncount
  <1>4. \A m \in Nodes : Live(m) => access_count_'[m] = access_count_[m]
    BY <1>2 DEF Live, Add, IInv, Types
  <1> QED
    BY <1>2, <1>3, <1>4, RefusedKeeps DEF Maps

(* An accessor lets go of its node.                                        *)
LEMMA ReleaseStep ==
  ASSUME IInv, JInv, JInv', IInv', Look, NEW n \in Nodes, Live(n), Total(n) > 0, Add(n, -1),
         UNCHANGED <<tree, key_, value_, dead>>, SameCalls, \A u \in Threads : Outcome(u)' = Outcome(u)
  PROVE  Maps
  <1>1. PICK k : k = key_[n]
    OBVIOUS
  <1>2. k \in Keys /\ Readers[k] > 0 /\ Readers[k] \in Nat
    BY <1>1, HolderAlone
  <1>3. Map' = Map /\ Readers' = [Readers EXCEPT ![k] = @ + (-1)]
    BY <1>1, ReadersMove DEF JInv
  <1>4. Readers' = [Readers EXCEPT ![k] = @ - 1]
    BY <1>2, <1>3
  <1>5. Abstract!Look /\ [u \in Threads |-> Pending(u)]' = [u \in Threads |-> Pending(u)]
    BY LookMaps
  <1>6. Abstract!Release(k)
    BY <1>2, <1>3, <1>4, <1>5 DEF Abstract!Release
  <1> QED
    BY <1>2, <1>6 DEF Maps, Abstract!Next

LEMMA TotalIsPositive ==
  ASSUME NEW n, NEW t \in Threads, t \in Accessing(n) \cup Releasing(n)
  PROVE  Total(n) > 0
  <1>1. Accessing(n) # {} \/ Releasing(n) # {}
    OBVIOUS
  <1>2. Cardinality(Accessing(n)) # 0 \/ Cardinality(Releasing(n)) # 0
    BY <1>1, CountsAreNat, FS_EmptySet
  <1> QED
    BY <1>2, CountsAreNat DEF Total

LEMMA ReleaseMaps ==
  ASSUME IInv, IInv', JInv, Look, NEW t \in Threads, Release(t)
  PROVE  JInv' /\ Maps
  <1>1. PICK n : n = Cur(t)
    OBVIOUS
  <1>2. /\ call[t] # Null /\ call[t].at = "release" /\ Decided(t) /\ Kind(t) = "at" /\ n \notin dead
        /\ UNCHANGED <<tree, key_, value_, allocated, dead>> /\ Add(n, -1)
        /\ n \in Uses(t) /\ t \in Releasing(n)
    <2>1. At(t, "release")
      BY DEF Release
    <2>2. call[t] # Null /\ call[t].at = "release" /\ Kind(t) = "at" /\ Cur(t) \notin dead
      BY <2>1, InCall DEF At, Sound, Kind, IInv, DeadIsUnread
    <2> QED
      BY <1>1, <2>1, <2>2 DEF Release, nodeVars, Decided, After, Uses, Releasing
  <1>3. Live(n) /\ n \in Nodes /\ Total(n) > 0
    BY <1>2, UsedIsLive, TotalIsPositive
  <1>4. call'[t].at = "done" /\ call'[t].res = call[t].res /\ Goes(t)
    BY <1>2, GotoWithGoes DEF Release, Labels, After
  <1>5. Kind(t)' = "at" /\ ~Fresh(t) /\ ~Fresh(t)' /\ Decided(t)' /\ ~Finding(t)' /\ Bringing(t)
    BY <1>2, <1>4 DEF Goes, Kind, Fresh, Decided, After, Finding, At, JInv, Bringings
  <1>6. JInv'
    <2>1. Minds(t)
      BY <1>2, <1>4, <1>5, MindsSimple DEF Bringing
    <2>2. ArraysAbove' /\ \A m : Linked(m)' <=> Linked(m)
      BY <1>2, SameTree DEF JInv
    <2> QED
      BY <1>2, <1>4, <1>5, <2>1, <2>2, GoesKeeps
  <1>7. Outcome(t)' = Outcome(t)
    BY <1>2, <1>4, <1>5 DEF Outcome, Goes
  <1>8. SameCalls /\ \A u \in Threads : Outcome(u)' = Outcome(u)
    BY <1>4, <1>7, GoesStays
  <1> QED
    BY <1>2, <1>3, <1>6, <1>8, ReleaseStep

LEMMA ResetMaps ==
  ASSUME IInv, IInv', JInv, Look, NEW t \in Threads, Reset(t)
  PROVE  JInv' /\ Maps
  <1>1. PICK n : n = va[t]
    OBVIOUS
  <1>2. /\ n # Null /\ n \notin dead /\ UNCHANGED <<tree, key_, value_, allocated, dead, call>> /\ Add(n, -1)
        /\ n \in Uses(t) /\ t \in Accessing(n)
    BY <1>1 DEF Reset, nodeVars, IInv, DeadIsUnread, Uses, Accessing
  <1>3. Live(n) /\ n \in Nodes /\ Total(n) > 0
    BY <1>2, UsedIsLive, TotalIsPositive
  <1>4. SameCalls /\ \A u \in Threads : Outcome(u)' = Outcome(u)
    BY <1>2 DEF SameCalls, Pending, Outcome, Kind, Key, Decided
  <1>5. ArraysAbove' /\ \A m : Linked(m)' <=> Linked(m)
    BY <1>2, SameTree DEF JInv
  <1>6. NoneIsLost'
    <2>1. \A u \in Threads : Fresh(u)' <=> Fresh(u)
      BY <1>2 DEF Fresh, Kind
    <2> QED
      BY <1>2, <1>5, <2>1 DEF JInv, NoneIsLost
  <1>7. JInv'
    BY <1>2, <1>5, <1>6, JKeeps
  <1> QED
    BY <1>2, <1>3, <1>4, <1>7, ReleaseStep

(* insert                                                                  *)
LEMMA PlaceMaps ==
  ASSUME IInv, IInv', JInv, Look, NEW t \in Threads, Place(t)
  PROVE  JInv' /\ Maps
  <1>1. PICK loc : loc = Loc(t)
    OBVIOUS
  <1>2. /\ call[t] # Null /\ call[t].at = "place" /\ call[t] \in Calls /\ ~Decided(t) /\ Kind(t) = "insert"
        /\ Fresh(t) /\ call[t].res = Null
        /\ loc \in Locations /\ loc = LocationOf(Key(t), DepthOf(loc)) /\ Reached(loc)
        /\ UNCHANGED <<key_, value_, access_count_, allocated, dead>>
        /\ Cas(loc, Null, call[t].node)
    BY <1>1, InCall DEF Place, At, nodeVars, Decided, After, Kind, Key, Loc, Calls, Sound, Fresh
  <1>3. CASE tree[loc] = Null
    <2>1. Goto(t, "grow")
      BY <1>1, <1>3 DEF Place
    <2>2. call'[t].at = "grow" /\ call'[t].res = Null /\ Goes(t)
      BY <1>2, <2>1, GotoGoes DEF Labels, After
    <2>3. tree' = [tree EXCEPT ![loc] = call[t].node]
      BY <1>2, <1>3 DEF Cas
    <2> QED
      BY <1>2, <1>3, <2>2, <2>3, InsertKeeps DEF Maps
  <1>4. CASE tree[loc] # Null
    <2>1. Delayed(t) /\ tree' = tree
      BY <1>1, <1>2, <1>4 DEF Place, Cas
    <2> QED
      BY <1>2, <2>1, DelayedMaps DEF Moving
  <1> QED
    BY <1>3, <1>4

LEMMA SeeAliveMaps ==
  ASSUME IInv, IInv', JInv, Look, NEW t \in Threads, SeeAlive(t)
  PROVE  JInv' /\ Maps
  <1>1. PICK n : n = Cur(t)
    OBVIOUS
  <1>2. /\ call[t] # Null /\ call[t].at = "alive" /\ ~Decided(t) /\ Kind(t) = "insert"
        /\ n \in Nodes /\ n \in Uses(t)
        /\ UNCHANGED <<tree, key_, value_, access_count_, allocated, dead>>
    BY <1>1, InCall, WatchedIsAllocated, NullAssumption
    DEF SeeAlive, At, nodeVars, Decided, After, Kind, Sound, WatchStates, Cur
  <1>3. CASE access_count_[n] < 0
    <2>1. Goto(t, "replace")
      BY <1>1, <1>3 DEF SeeAlive
    <2>2. call'[t].at = "replace" /\ call'[t].res = call[t].res /\ Goes(t)
      BY <1>2, <2>1, GotoGoes DEF Labels
    <2> QED
      BY <1>2, <2>2, MovingKeeps DEF Moving
  <1>4. CASE ~(access_count_[n] < 0) /\ SameKey(t)
    <2>1. Decide(t, "refused")
      BY <1>1, <1>4 DEF SeeAlive
    <2>2. call'[t].at = "done" /\ call'[t].res = "refused" /\ Goes(t)
      BY <1>2, <2>1, DecideGoes
    <2>3. n \notin dead
      BY <1>2, <1>4, DeadIsNegative DEF At
    <2>4. Map[Key(t)] # Null
      BY <1>1, <1>2, <1>4, <2>3, UsedIsLive, HolderAlone, NullAssumption DEF SameKey
    <2> QED
      BY <1>2, <2>2, <2>4, RefusedKeeps DEF Maps
  <1>5. CASE ~(access_count_[n] < 0) /\ ~SameKey(t)
    <2>1. Goto(t, "expand")
      BY <1>1, <1>5 DEF SeeAlive
    <2>2. call'[t].at = "expand" /\ call'[t].res = call[t].res /\ Goes(t)
      BY <1>2, <2>1, GotoGoes DEF Labels
    <2> QED
      BY <1>2, <2>2, MovingKeeps DEF Moving
  <1> QED
    BY <1>3, <1>4, <1>5

LEMMA ReplaceMaps ==
  ASSUME IInv, IInv', JInv, Look, NEW t \in Threads, Replace(t)
  PROVE  JInv' /\ Maps
  <1>1. PICK loc, n : loc = Loc(t) /\ n = Cur(t)
    OBVIOUS
  <1>2. /\ call[t] # Null /\ call[t].at = "replace" /\ call[t] \in Calls /\ ~Decided(t) /\ Kind(t) = "insert"
        /\ Fresh(t) /\ call[t].res = Null /\ n \in dead
        /\ loc \in Locations /\ loc = LocationOf(Key(t), DepthOf(loc)) /\ Reached(loc)
        /\ UNCHANGED <<key_, value_, access_count_, allocated, dead>>
        /\ Cas(loc, n, call[t].node)
    BY <1>1, InCall DEF Replace, At, nodeVars, Decided, After, Kind, Key, Loc, Calls, Sound, Fresh, Known
  <1>3. CASE tree[loc] = n
    <2>1. Goto(t, "retire")
      BY <1>1, <1>3 DEF Replace
    <2>2. call'[t].at = "retire" /\ call'[t].res = Null /\ Goes(t)
      BY <1>2, <2>1, GotoGoes DEF Labels, After
    <2>3. tree' = [tree EXCEPT ![loc] = call[t].node]
      BY <1>2, <1>3 DEF Cas
    <2> QED
      BY <1>2, <1>3, <2>2, <2>3, InsertKeeps DEF Maps
  <1>4. CASE tree[loc] # n
    <2>1. Delayed(t) /\ tree' = tree
      BY <1>1, <1>2, <1>4 DEF Replace, Cas
    <2> QED
      BY <1>2, <2>1, DelayedMaps DEF Moving
  <1> QED
    BY <1>3, <1>4

(* A call that is decided tidies up.                                       *)
LEMMA TidyKeeps ==
  ASSUME IInv, IInv', JInv, Look, NEW t \in Threads, Goes(t),
         UNCHANGED <<tree, key_, value_, access_count_, allocated, dead>>,
         call[t].at \in After \ {"done", "release"}, call'[t].at \in After, call'[t].res = call[t].res,
         Kind(t) = "insert" => call[t].at \in {"retire", "grow"} /\ call'[t].at \in {"grow", "done"}
  PROVE  JInv' /\ Maps
  <1>1. Kind(t)' = Kind(t) /\ call[t] # Null /\ call'[t] # Null
    BY DEF Goes, Kind
  <1>2. Kind(t) = "insert" => call[t].res = Null
    BY <1>1, InCall DEF Sound, Kind
  <1>3. ~Fresh(t)' /\ ~Fresh(t) /\ ~Finding(t)' /\ Decided(t)' /\ Decided(t)
    BY <1>1, <1>2, NullAssumption DEF Fresh, Finding, At, Decided, After, Kind
  <1> QED
    BY <1>3, SimpleKeeps

LEMMA RetireMaps ==
  ASSUME IInv, IInv', JInv, Look, NEW t \in Threads, Retire(t)
  PROVE  JInv' /\ Maps
  <1>1. PICK l \in {"grow", "done"} : l = IF Kind(t) = "insert" THEN "grow" ELSE "done"
    OBVIOUS
  <1>2. call[t] # Null /\ call[t].at = "retire" /\ GotoWith(t, l, Null)
        /\ UNCHANGED <<tree, key_, value_, access_count_, allocated, dead>>
    BY <1>1 DEF Retire, At, nodeVars
  <1>3. call'[t].at = l /\ call'[t].res = call[t].res /\ Goes(t)
    BY <1>2, GotoWithGoes DEF Labels, After
  <1> QED
    BY <1>2, <1>3, TidyKeeps DEF After

LEMMA GrowMaps ==
  ASSUME IInv, IInv', JInv, Look, NEW t \in Threads, Grow(t)
  PROVE  JInv' /\ Maps
  <1>1. call[t] # Null /\ call[t].at = "grow" /\ Goto(t, "done")
        /\ UNCHANGED <<tree, key_, value_, access_count_, allocated, dead>>
    BY DEF Grow, At, nodeVars
  <1>2. call'[t].at = "done" /\ call'[t].res = call[t].res /\ Goes(t)
    BY <1>1, GotoGoes DEF Labels, After
  <1> QED
    BY <1>1, <1>2, TidyKeeps DEF After

LEMMA ShrinkMaps ==
  ASSUME IInv, IInv', JInv, Look, NEW t \in Threads, Shrink(t)
  PROVE  JInv' /\ Maps
  <1>1. call[t] # Null /\ call[t].at = "shrink" /\ Goto(t, "unlink") /\ Kind(t) = "remove"
        /\ UNCHANGED <<tree, key_, value_, access_count_, allocated, dead>>
    BY InCall DEF Shrink, At, nodeVars, Sound, Kind
  <1>2. call'[t].at = "unlink" /\ call'[t].res = call[t].res /\ Goes(t)
    BY <1>1, GotoGoes DEF Labels, After
  <1> QED
    BY <1>1, <1>2, TidyKeeps DEF After

LEMMA ForceLoadMaps ==
  ASSUME IInv, IInv', JInv, Look, NEW t \in Threads, ForceLoad(t)
  PROVE  JInv' /\ Maps
  <1>1. PICK loc : loc = call[t].force
    OBVIOUS
  <1>2. /\ call[t] # Null /\ call[t].at = "force" /\ loc \in Locations
        /\ UNCHANGED <<tree, key_, value_, access_count_, allocated, dead>>
    BY <1>1, InCall DEF ForceLoad, At, nodeVars, Sound
  <1>3. CASE ForceDone(t)
    BY <1>2, <1>3, ForceDoneGoes, MovingKeeps DEF Moving
  <1>4. CASE ~ForceDone(t)
    <2>1. PICK l \in {"force_expand", "force_validate"} : l = IF tree[loc] = Null THEN "force_expand" ELSE "force_validate"
      OBVIOUS
    <2>2. GotoWith(t, l, tree[loc]) /\ tree[loc] # "array"
      BY <1>1, <1>4, <2>1 DEF ForceLoad
    <2>3. tree[loc] \in Nodes \cup {Null}
      BY <1>2, <2>2 DEF IInv, Types
    <2>4. call'[t].at = l /\ call'[t].res = call[t].res /\ Goes(t)
      BY <1>2, <2>2, <2>3, GotoWithGoes DEF Labels
    <2> QED
      BY <1>2, <2>4, MovingKeeps DEF Moving
  <1> QED
    BY <1>3, <1>4

LEMMA ForceValidateMaps ==
  ASSUME IInv, IInv', JInv, Look, NEW t \in Threads, ForceValidate(t)
  PROVE  JInv' /\ Maps
  <1>1. /\ call[t] # Null /\ call[t].at = "force_validate"
        /\ UNCHANGED <<tree, key_, value_, access_count_, allocated, dead>>
    BY DEF ForceValidate, At, nodeVars
  <1>2. call'[t].at \in {"force", "force_expand"} /\ call'[t].res = call[t].res /\ Goes(t)
    BY <1>1, GotoGoes, GotoWithGoes DEF ForceValidate, Labels
  <1> QED
    BY <1>1, <1>2, MovingKeeps DEF Moving

(* An array takes the place of a node, which moves below it.               *)
LEMMA ExpandMapMoves ==
  ASSUME IInv, IInv', JInv, NEW loc \in Locations, Reached(loc), NEW n \in Nodes \cup {Null},
         tree[loc] = n => DepthOf(loc) < MaxDepth, ExpandMap(loc, n), UNCHANGED <<key_, allocated, retired>>
  PROVE  ArraysAbove' /\ \A m \in Nodes : Linked(m)' <=> Linked(m)
  <1> USE NullAssumption, NodesAssumption
  <1>1. CASE tree[loc] # n
    <2>1. tree' = tree
      BY <1>1 DEF ExpandMap
    <2> QED
      BY <2>1, SameTree DEF JInv
  <1>2. CASE tree[loc] = n /\ n = Null
    <2>1. tree' = [tree EXCEPT ![loc] = "array"]
      BY <1>2 DEF ExpandMap
    <2>2. tree'[loc] = "array" /\ \A l \in Locations : l # loc => tree'[l] = tree[l]
      BY <2>1 DEF IInv, Types
    <2>3. \A m \in Nodes : Linked(m)' <=> Linked(m)
      BY <1>2, <2>2 DEF Linked
    <2>4. ArraysStay
      BY <2>2 DEF ArraysStay
    <2>5. ASSUME NEW l \in Locations, tree'[l] # Null, DepthOf(l) > 0 PROVE tree[Parent(l)] # Null
      <3>1. Reached(l)
        BY <2>2, <2>5 DEF IInv, Paths, Placed
      <3> QED
        BY <2>5, <3>1 DEF Reached
    <2> QED
      BY <2>3, <2>4, <2>5, ArraysAboveKeeps DEF JInv
  <1>3. CASE tree[loc] = n /\ n # Null
    <2>1. PICK k, d : k = key_[n] /\ d = DepthOf(loc)
      OBVIOUS
    <2>2. k \in Keys /\ d \in 0 .. MaxDepth /\ d < MaxDepth /\ loc = LocationOf(k, d)
      BY <1>3, <2>1, DepthInRange DEF IInv, Paths, Placed, IsNode
    <2>3. PICK deeper : deeper = LocationOf(k, d + 1)
      OBVIOUS
    <2>4. deeper \in Locations /\ DepthOf(deeper) = d + 1 /\ Parent(deeper) = loc
      BY <2>2, <2>3, Deeper
    <2>5. deeper # loc /\ DepthOf(deeper) > 0
      <3>1. d \in Nat /\ d + 1 > 0 /\ d + 1 # d
        BY <2>2, MaxDepthIsNat
      <3> QED
        BY <2>1, <2>4, <3>1
    <2>6. tree[deeper] = Null
      <3>1. tree[loc] # "array"
        BY <1>3
      <3>2. ~Reached(deeper)
        BY <2>4, <2>5, <3>1 DEF Reached
      <3> QED
        BY <2>4, <3>2 DEF IInv, Paths, Placed
    <2>7. tree' = [tree EXCEPT ![loc] = "array", ![deeper] = n]
      BY <1>3, <2>1, <2>3 DEF ExpandMap
    <2>8. /\ tree'[loc] = "array" /\ tree'[deeper] = n
          /\ \A l \in Locations : l # loc /\ l # deeper => tree'[l] = tree[l]
      BY <2>4, <2>5, <2>7 DEF IInv, Types
    <2>9. \A m \in Nodes : Linked(m)' <=> Linked(m)
      BY <1>3, <2>4, <2>6, <2>8 DEF Linked
    <2>10. ArraysStay
      BY <1>3, <2>6, <2>8 DEF ArraysStay
    <2>11. ASSUME NEW l \in Locations, tree'[l] # Null, DepthOf(l) > 0 PROVE tree[Parent(l)] # Null
      <3>1. CASE l = deeper
        BY <1>3, <2>4, <3>1
      <3>2. CASE l # deeper
        <4>1. tree[l] # Null
          BY <1>3, <2>8, <2>11, <3>2
        <4>2. Reached(l)
          BY <4>1 DEF IInv, Paths, Placed
        <4> QED
          BY <2>11, <4>2 DEF Reached
      <3> QED
        BY <3>1, <3>2
    <2> QED
      BY <2>9, <2>10, <2>11, ArraysAboveKeeps DEF JInv
  <1> QED
    BY <1>1, <1>2, <1>3

(* A call that is not decided, and rearranges the locations.               *)
LEMMA RearrangeKeeps ==
  ASSUME IInv, IInv', JInv, Look, NEW t \in Threads, Goes(t),
         UNCHANGED <<key_, value_, access_count_, allocated, dead>>,
         ArraysAbove', \A m \in Nodes : Linked(m)' <=> Linked(m),
         call[t].at \in Moving, call'[t].at \in Moving, call'[t].res = call[t].res
  PROVE  JInv' /\ Maps
  <1>1. Kind(t)' = Kind(t) /\ call[t] # Null /\ call'[t] # Null
    BY DEF Goes, Kind
  <1>2. (Fresh(t)' <=> Fresh(t)) /\ ~Finding(t)'
    BY <1>1 DEF Fresh, Moving, Finding, At
  <1>3. ~Decided(t)' /\ ~Decided(t)
    BY DEF Moving, Decided, After
  <1>4. Minds(t)
    BY <1>2, <1>3, MindsSimple
  <1>5. Outcome(t)' = Outcome(t)
    BY <1>3 DEF Outcome
  <1> QED
    BY <1>2, <1>4, <1>5, SilentKeeps DEF Maps

LEMMA ExpandMaps ==
  ASSUME IInv, IInv', JInv, Look, NEW t \in Threads, Expand(t)
  PROVE  JInv' /\ Maps
  <1>1. PICK loc, n : loc = Loc(t) /\ n = Cur(t)
    OBVIOUS
  <1>2. call[t] # Null /\ call[t].at = "expand" /\ GotoWith(t, "load", Null) /\ ExpandMap(loc, n)
        /\ UNCHANGED <<key_, value_, access_count_, allocated, dead, retired>>
    BY <1>1 DEF Expand, At, nodeVars
  <1>3. /\ loc \in Locations /\ loc = LocationOf(Key(t), DepthOf(loc)) /\ Key(t) \in Keys /\ Reached(loc)
        /\ n \in Nodes /\ key_[n] # Key(t)
    BY <1>1, <1>2, InCall DEF Calls, Loc, Cur, Key, Sound, Known
  <1>4. tree[loc] = n => DepthOf(loc) < MaxDepth
    <2> SUFFICES ASSUME tree[loc] = n, ~(DepthOf(loc) < MaxDepth) PROVE FALSE
      OBVIOUS
    <2>1. DepthOf(loc) = MaxDepth
      BY <1>3, DepthInRange, MaxDepthIsNat
    <2>2. loc = LocationOf(key_[n], MaxDepth) /\ key_[n] \in Keys
      BY <1>3, <2>1 DEF IInv, Paths, Placed, IsNode
    <2> QED
      BY <1>3, <2>1, <2>2, PathsAssumption
  <1>5. ArraysAbove' /\ \A m \in Nodes : Linked(m)' <=> Linked(m)
    BY <1>2, <1>3, <1>4, ExpandMapMoves
  <1>6. call'[t].at = "load" /\ call'[t].res = call[t].res /\ Goes(t)
    BY <1>2, GotoWithGoes DEF Labels
  <1> QED
    BY <1>2, <1>5, <1>6, RearrangeKeeps DEF Moving

LEMMA ForceExpandMaps ==
  ASSUME IInv, IInv', JInv, Look, NEW t \in Threads, ForceExpand(t)
  PROVE  JInv' /\ Maps
  <1>1. PICK loc, n : loc = call[t].force /\ n = Cur(t)
    OBVIOUS
  <1>2. call[t] # Null /\ call[t].at = "force_expand" /\ GotoWith(t, "force", Null) /\ ExpandMap(loc, n)
        /\ UNCHANGED <<key_, value_, access_count_, allocated, dead, retired>>
    BY <1>1 DEF ForceExpand, At, nodeVars
  <1>3. loc \in Locations /\ Reached(loc) /\ n \in Nodes \cup {Null} /\ DepthOf(loc) < MaxDepth
    BY <1>1, <1>2, InCall, CallsAssumption DEF Calls, Cur, Sound
  <1>4. ArraysAbove' /\ \A m \in Nodes : Linked(m)' <=> Linked(m)
    BY <1>2, <1>3, ExpandMapMoves
  <1>5. call'[t].at = "force" /\ call'[t].res = call[t].res /\ Goes(t)
    BY <1>2, GotoWithGoes DEF Labels
  <1> QED
    BY <1>2, <1>4, <1>5, RearrangeKeeps DEF Moving

LEMMA UnlinkMaps ==
  ASSUME IInv, IInv', JInv, Look, NEW t \in Threads, Unlink(t)
  PROVE  JInv' /\ Maps
  <1> USE NullAssumption, NodesAssumption
  <1>1. PICK loc, n : loc = Loc(t) /\ n = Cur(t)
    OBVIOUS
  <1>2. /\ call[t] # Null /\ call[t].at = "unlink" /\ Kind(t) = "remove" /\ loc \in Locations
        /\ n \in dead /\ n \in Nodes /\ Cas(loc, n, Null)
        /\ UNCHANGED <<key_, value_, access_count_, allocated, dead>>
    BY <1>1, InCall DEF Unlink, At, nodeVars, Sound, Kind, Known, Cur, Loc, Calls
  <1>3. call'[t].at \in {"retire", "done"} /\ call'[t].res = call[t].res /\ Goes(t)
    BY <1>2, GotoGoes, GotoWithGoes DEF Unlink, Labels, After
  <1>4. ~Fresh(t) /\ ~Fresh(t)' /\ ~Finding(t)' /\ Decided(t)' /\ Decided(t) /\ Kind(t)' = "remove" /\ Bringing(t)
    BY <1>2, <1>3 DEF Fresh, Finding, At, Decided, After, Kind, Goes, JInv, Bringings
  <1>5. Minds(t)
    BY <1>2, <1>3, <1>4, MindsSimple DEF Bringing, Goes, Kind
  <1>6. Outcome(t)' = Outcome(t)
    BY <1>2, <1>3, <1>4 DEF Outcome, Goes
  <1>7. ArraysAbove' /\ \A m \in Nodes : m \notin dead => (Linked(m)' <=> Linked(m))
    <2>1. CASE tree[loc] # n
      <3>1. tree' = tree
        BY <1>2, <2>1 DEF Cas
      <3> QED
        BY <3>1, SameTree DEF JInv
    <2>2. CASE tree[loc] = n
      <3>1. tree' = [tree EXCEPT ![loc] = Null]
        BY <1>2, <2>2 DEF Cas
      <3>2. tree'[loc] = Null /\ \A l \in Locations : l # loc => tree'[l] = tree[l]
        BY <1>2, <3>1 DEF IInv, Types
      <3>3. \A m \in Nodes : m \notin dead => (Linked(m)' <=> Linked(m))
        BY <1>2, <2>2, <3>2 DEF Linked
      <3>4. ArraysStay
        BY <1>2, <2>2, <3>2 DEF ArraysStay
      <3>5. ASSUME NEW l \in Locations, tree'[l] # Null, DepthOf(l) > 0 PROVE tree[Parent(l)] # Null
        <4>1. Reached(l)
          BY <3>2, <3>5 DEF IInv, Paths, Placed
        <4> QED
          BY <3>5, <4>1 DEF Reached
      <3> QED
        BY <3>3, <3>4, <3>5, ArraysAboveKeeps DEF JInv
    <2> QED
      BY <2>1, <2>2
  <1> QED
    BY <1>2, <1>3, <1>4, <1>5, <1>6, <1>7, SilentKeeps DEF Maps

LEMMA KillMaps ==
  ASSUME IInv, IInv', JInv, Look, NEW t \in Threads, Kill(t)
  PROVE  JInv' /\ Maps
  <1> USE NullAssumption
  <1>1. PICK n, k : n = Cur(t) /\ k = Key(t)
    OBVIOUS
  <1>2. /\ call[t] # Null /\ call[t].at = "kill" /\ call[t] \in Calls /\ ~Decided(t) /\ Finding(t)
        /\ Kind(t) = "remove" /\ n \in Nodes /\ n \in Uses(t) /\ n \in allocated /\ k \in Keys
        /\ UNCHANGED <<tree, key_, value_, allocated>>
        /\ key_[n] = k /\ (n \in dead => "absent" \in seen[t])
    <2>1. At(t, "kill") /\ Finding(t)
      BY DEF Kill, Finding
    <2>2. call[t] # Null /\ call[t].at = "kill" /\ call[t] \in Calls /\ Kind(t) = "remove"
      BY <2>1, InCall DEF At, Sound, Kind
    <2> QED
      BY <1>1, <2>1, <2>2, FinderUses DEF Kill, nodeVars, JInv, Found
  <1>3. ArraysAbove' /\ \A m : Linked(m)' <=> Linked(m)
    BY <1>2, SameTree DEF JInv
  <1>4. CASE access_count_[n] # 0
    <2>1. Decide(t, "refused") /\ UNCHANGED <<access_count_, dead>>
      BY <1>1, <1>4 DEF Kill
    <2>2. call'[t].at = "done" /\ call'[t].res = "refused" /\ Goes(t)
      BY <1>2, <2>1, DecideGoes
    <2>3. seen[t] \cap {"absent", "read"} # {}
      <3>1. CASE n \in dead
        BY <1>2, <3>1
      <3>2. CASE n \notin dead
        <4>1. Live(n)
          BY <1>2, <3>2, UsedIsLive
        <4>2. Map[k] # Null /\ Readers[k] # 0
          BY <1>2, <1>4, <4>1, HolderAlone
        <4>3. State[k] = "read"
          BY <1>2, <4>2 DEF State
        <4> QED
          BY <1>1, <1>2, <4>3 DEF JInv, History, SeenNow
      <3> QED
        BY <3>1, <3>2
    <2> QED
      BY <1>2, <2>1, <2>2, <2>3, RefusedKeeps DEF Maps
  <1>5. CASE access_count_[n] = 0
    <2>1. n \notin dead
      BY <1>2, <1>5, DeadIsNegative DEF At
    <2>2. Live(n)
      BY <1>2, <2>1, UsedIsLive
    <2>3. Map[k] = value_[n] /\ value_[n] \in Values /\ Readers[k] = 0 /\ Holder(k) = {n}
      BY <1>2, <1>5, <2>2, HolderAlone
    <2>4. PICK c : c = [call[t] EXCEPT !.at = "shrink", !.res = "done"]
      OBVIOUS
    <2>5. /\ Become(t, c) /\ dead' = dead \cup {n}
          /\ access_count_' = [access_count_ EXCEPT ![n] = DeadCount]
      BY <1>1, <1>5, <2>4 DEF Kill
    <2>6. /\ c.at = "shrink" /\ c.res = "done" /\ c.kind = call[t].kind /\ c.key = call[t].key
          /\ c.value = call[t].value /\ c.node = call[t].node /\ c \in Calls
      BY ZenonT(40), <1>2, <2>4 DEF Calls
    <2>7. call'[t] = c /\ Goes(t)
      BY <1>2, <2>5, <2>6, OthersGo, CallsAssumption DEF Goes
    <2>8. ~Finding(t)' /\ Decided(t)' /\ ~Fresh(t)' /\ ~Fresh(t) /\ Kind(t)' = "remove"
      BY <1>2, <2>6, <2>7 DEF Finding, At, Decided, After, Fresh, Kind
    <2>9. \A l \in Keys : \A m : m \in Holder(l)' <=> m \in Holder(l) /\ m # n
      BY <1>2, <1>3, <2>5 DEF Holder
    <2>10. Map'[k] = Null /\ Readers'[k] = 0 /\ State'[k] = "absent"
      <3>1. Holder(k)' = {}
        BY <1>2, <2>3, <2>9
      <3> QED
        BY <1>2, <3>1, MapIsThen
    <2>11. JInv'
      <3>1. Minds(t)
        BY <1>2, <2>6, <2>7, <2>8, MindsSimple
      <3>2. NoneIsLost'
        BY <1>2, <1>3, <2>5, <2>7, <2>8, NoneIsLostKeeps DEF IInv, Types
      <3>3. \A u \in Threads : Finding(u) /\ Cur(u) \in dead' => Cur(u) \in dead \/ State'[Key(u)] = "absent"
        <4> TAKE u \in Threads
        <4>1. Finding(u) => key_[Cur(u)] = Key(u)
          BY DEF JInv, Found
        <4> QED
          BY <1>2, <2>5, <2>10, <4>1
      <3>4. \A u \in Threads : call'[u] = call[u] \/ Minds(u)
        BY <2>7, <3>1 DEF Goes
      <3> QED
        BY <1>2, <1>3, <3>2, <3>3, <3>4, JKeeps
    <2>12. ASSUME NEW l \in Keys, l # k PROVE Map'[l] = Map[l] /\ Readers'[l] = Readers[l]
      <3>1. \A m \in Holder(l) : m \in Nodes /\ m # n
        BY <1>2, <2>12 DEF Holder
      <3>2. \A m \in Nodes : m # n => access_count_'[m] = access_count_[m]
        BY <2>5 DEF IInv, Types
      <3> QED
        BY <1>2, <2>9, <3>1, <3>2, KeyStays DEF JInv
    <2>13. Map' = [Map EXCEPT ![k] = Null] /\ Readers' = Readers
      <3> DEFINE M == Map  R == Readers
      <3>1. M = [l \in Keys |-> M[l]] /\ R = [l \in Keys |-> R[l]]
        BY DEF Map, Readers
      <3>2. M' = [l \in Keys |-> M'[l]] /\ R' = [l \in Keys |-> R'[l]]
        BY DEF Map, Readers
      <3> HIDE DEF M, R
      <3>3. M' = [M EXCEPT ![k] = Null] /\ R' = R
        BY <1>2, <2>3, <2>10, <2>12, <3>1, <3>2 DEF M, R
      <3> QED
        BY <3>3 DEF M, R
    <2>14. Abstract!Look /\ [u \in Threads |-> Pending(u)]' = [u \in Threads |-> Pending(u)]
      BY <2>7, <2>11, GoesStays, LookMaps
    <2>15. Outcome(t)' = "done"
      BY <2>6, <2>7, <2>8 DEF Outcome, Goes
    <2>16. [u \in Threads |-> Outcome(u)]' = [[u \in Threads |-> Outcome(u)] EXCEPT ![t] = "done"]
      BY <2>7, <2>15, OutcomeChanges
    <2>17. Pending(t) # Null /\ Pending(t).kind = "remove" /\ Pending(t).key = k /\ Outcome(t) = Null
      BY <1>1, <1>2, PendingIs
    <2>18. Map[k] # Null
      BY <2>3
    <2>19. Abstract!Remove(t)
      BY <1>2, <2>3, <2>13, <2>14, <2>16, <2>17, <2>18
      DEF Abstract!Remove, Abstract!Undecided, Abstract!Decide, Abstract!State
    <2> QED
      BY <2>11, <2>19 DEF Maps, Abstract!Next
  <1> QED
    BY <1>4, <1>5

------------------------------------------------------------------------------
(* The steps in which a call begins or returns, and memory is given back   *)

LEMMA SeenIsSame ==
  ASSUME JInv, Look, State' = State, NEW u \in Threads, call'[u] = call[u]
  PROVE  seen'[u] = seen[u]
  <1>1. SeenNow(u)
    BY DEF JInv, History
  <1> QED
    BY <1>1, LookIs DEF SeenNow, Decided, Key

LEMMA SeenChanges ==
  ASSUME JInv, Look, State' = State, NEW t \in Threads, \A u \in Threads : u # t => call'[u] = call[u],
         NEW s, seen'[t] = s
  PROVE  seen' = [seen EXCEPT ![t] = s]
  <1>1. \A u \in Threads : u # t => seen'[u] = seen[u]
    BY SeenIsSame
  <1>2. seen' = [u \in Threads |-> seen'[u]] /\ seen = [u \in Threads |-> seen[u]]
    BY DEF Look, JInv, History
  <1> QED
    BY <1>1, <1>2

LEMMA OneChanges ==
  ASSUME NEW t \in Threads, \A u \in Threads : u # t => call'[u] = call[u]
  PROVE  /\ [u \in Threads |-> Pending(u)]' = [[u \in Threads |-> Pending(u)] EXCEPT ![t] = Pending(t)']
         /\ [u \in Threads |-> Outcome(u)]' = [[u \in Threads |-> Outcome(u)] EXCEPT ![t] = Outcome(t)']
  <1>1. \A u \in Threads : u # t => Pending(u)' = Pending(u) /\ Outcome(u)' = Outcome(u)
    BY DEF Pending, Outcome, Kind, Key, Decided
  <1> QED
    BY <1>1

LEMMA ReturnMaps ==
  ASSUME IInv, IInv', JInv, Look, NEW t \in Threads, Return(t)
  PROVE  JInv' /\ Maps
  <1> USE NullAssumption
  <1>1. /\ call[t] # Null /\ call[t].at = "done" /\ Decided(t)
        /\ call'[t] = Null /\ (\A u \in Threads : u # t => call'[u] = call[u])
        /\ tree' = tree /\ dead' = dead
    BY DEF Return, At, IInv, Types, Decided, After
  <1>2. PICK n : n = call[t].node
    OBVIOUS
  <1>3. \/ UNCHANGED <<key_, value_, access_count_, allocated>> /\ ~Fresh(t)
        \/ /\ Fresh(t) /\ allocated' = allocated \ {n} /\ ~Linked(n)
           /\ \A m : m # n => key_'[m] = key_[m] /\ value_'[m] = value_[m]
                              /\ access_count_'[m] = access_count_[m]
    <2>1. CASE Kind(t) = "insert" /\ call[t].res = "refused"
      <3>1. Fresh(t)
        BY <1>1, <2>1 DEF Fresh
      <3>2. ~Linked(n)
        BY <1>2, <3>1, FreshIsUnread
      <3>3. Deallocate(n)
        BY <1>2, <2>1 DEF Return
      <3>4. \A m : m # n => key_'[m] = key_[m] /\ value_'[m] = value_[m] /\ access_count_'[m] = access_count_[m]
        BY <3>3 DEF Deallocate
      <3> QED
        BY <3>1, <3>2, <3>3, <3>4 DEF Deallocate
    <2>2. CASE ~(Kind(t) = "insert" /\ call[t].res = "refused")
      BY <1>1, <2>2 DEF Return, nodeVars, Fresh
    <2> QED
      BY <2>1, <2>2
  <1>4. ArraysAbove' /\ \A m : Linked(m)' <=> Linked(m)
    BY <1>1, SameTree DEF JInv
  <1>5. JInv'
    <2>1. NoneIsLost'
      <3> SUFFICES ASSUME NEW m \in allocated', ~Linked(m), m \notin dead
                   PROVE  \E u \in Threads : Fresh(u)' /\ call'[u].node = m
        BY <1>1, <1>4 DEF NoneIsLost
      <3>1. PICK u \in Threads : Fresh(u) /\ call[u].node = m
        BY <1>3 DEF JInv, NoneIsLost
      <3>2. u # t
        BY <1>2, <1>3, <3>1
      <3>3. Fresh(u)'
        BY <1>1, <3>1, <3>2 DEF Fresh, Kind
      <3> QED
        BY <1>1, <3>1, <3>2, <3>3
    <2>2. \A m \in allocated : m \in allocated' => key_'[m] = key_[m] /\ value_'[m] = value_[m]
      BY <1>3
    <2>3. \A u \in Threads : call'[u] = call[u] \/ Minds(u)
      BY <1>1 DEF Minds, Finding, At
    <2> QED
      BY <1>1, <1>4, <2>1, <2>2, <2>3, JKeeps
  <1>6. Map' = Map /\ Readers' = Readers /\ State' = State
    <2>1. \A m \in Nodes : Live(m)' <=> Live(m)
      BY <1>1, <1>4 DEF Live
    <2>2. \A m \in Nodes : Live(m) => key_'[m] = key_[m] /\ value_'[m] = value_[m]
                                      /\ access_count_'[m] = access_count_[m]
      BY <1>3 DEF Live
    <2> QED
      BY <2>1, <2>2, MapStays DEF JInv
  <1>7. seen' = [seen EXCEPT ![t] = {}]
    <2>1. seen'[t] = {}
      BY <1>1, LookIs
    <2> QED
      BY <1>1, <1>6, <2>1, SeenChanges
  <1>8. Pending(t)' = Null /\ Outcome(t)' = Null
    BY <1>1 DEF Pending, Outcome
  <1>9. Pending(t) # Null /\ Outcome(t) # Null
    BY <1>1, PendingIs
  <1>10. /\ [u \in Threads |-> Pending(u)]' = [[u \in Threads |-> Pending(u)] EXCEPT ![t] = Null]
         /\ [u \in Threads |-> Outcome(u)]' = [[u \in Threads |-> Outcome(u)] EXCEPT ![t] = Null]
    BY <1>1, <1>8, OneChanges
  <1>11. Abstract!Return(t)
    BY <1>6, <1>7, <1>9, <1>10 DEF Abstract!Return
  <1> QED
    BY <1>5, <1>11 DEF Maps, Abstract!Next

(* A call begins.                                                          *)
LEMMA BeginMaps ==
  ASSUME IInv, IInv', JInv, JInv', Look, NEW t \in Threads, call[t] = Null, call'[t] # Null,
         \A u \in Threads : u # t => call'[u] = call[u],
         Map' = Map, Readers' = Readers, State' = State, ~Decided(t)'
  PROVE  Maps
  <1>1. PICK c : c = Pending(t)'
    OBVIOUS
  <1>2. call'[t] \in Calls /\ Bringing(t)'
    BY DEF IInv, Types, JInv, Bringings
  <1>3. c \in Abstract!Calls /\ c.key = call'[t].key
    <2>1. call'[t].kind \in {"insert", "remove", "at"} /\ call'[t].key \in Keys
      BY <1>2 DEF Calls
    <2> QED
      BY <1>1, <1>2, <2>1 DEF Pending, Kind, Key, Abstract!Calls, Bringing
  <1>4. seen' = [seen EXCEPT ![t] = {State[c.key]}]
    <2>1. seen'[t] = {State'[call'[t].key]}
      BY LookIs DEF Decided
    <2> QED
      BY <1>3, <2>1, SeenChanges
  <1>5. Pending(t) = Null /\ Outcome(t) = Null /\ Outcome(t)' = Null
    BY DEF Pending, Outcome
  <1>6. /\ [u \in Threads |-> Pending(u)]' = [[u \in Threads |-> Pending(u)] EXCEPT ![t] = c]
        /\ [u \in Threads |-> Outcome(u)]' = [u \in Threads |-> Outcome(u)]
    BY <1>1, <1>5, OneChanges
  <1>7. Abstract!Call(t)
    BY <1>3, <1>4, <1>5, <1>6 DEF Abstract!Call, Abstract!State, State
  <1> QED
    BY <1>7 DEF Maps, Abstract!Next

LEMMA CallInsertMaps ==
  ASSUME IInv, IInv', JInv, Look, NEW t \in Threads, CallInsert(t)
  PROVE  JInv' /\ Maps
  <1> USE NullAssumption
  <1>1. PICK k \in Keys, v \in Values, n \in Nodes \ allocated,
             f \in {Null} \cup {op_table_[u] : u \in Threads} :
          /\ allocated' = allocated \cup {n}
          /\ key_' = [key_ EXCEPT ![n] = k]
          /\ value_' = [value_ EXCEPT ![n] = v]
          /\ access_count_' = [access_count_ EXCEPT ![n] = 0]
          /\ Become(t, [NewCall("insert", k, v, n) EXCEPT
                          !.force = f, !.at = IF f = Null THEN "load" ELSE "force"])
    BY DEF CallInsert
  <1>2. PICK at \in {"load", "force"} : at = IF f = Null THEN "load" ELSE "force"
    OBVIOUS
  <1>3. PICK c : c = [NewCall("insert", k, v, n) EXCEPT !.force = f, !.at = at]
    OBVIOUS
  <1>4. LocationOf(k, 0) \in Locations
    BY LocationIn, MaxDepthIsNat
  <1>5. f \in Locations \cup {Null}
    BY DEF IInv, Types
  <1>6. c \in Calls /\ c.kind = "insert" /\ c.value = v /\ c.node = n /\ c.at = at
    BY <1>2, <1>3, <1>4, <1>5, LIMITAssumption, LIMIT \in Int DEF NewCall, Calls
  <1>7. /\ call'[t] = c /\ c # Null /\ \A u \in Threads : u # t => call'[u] = call[u]
    BY <1>1, <1>2, <1>3, <1>6, OthersGo, CallsAssumption
  <1>8. /\ tree' = tree /\ dead' = dead /\ call[t] = Null
        /\ value_'[n] = v
        /\ \A m : m # n => key_'[m] = key_[m] /\ value_'[m] = value_[m] /\ access_count_'[m] = access_count_[m]
    BY <1>1 DEF CallInsert, IInv, Types
  <1>9. ArraysAbove' /\ \A m : Linked(m)' <=> Linked(m)
    BY <1>8, SameTree DEF JInv
  <1>10. Fresh(t)' /\ ~Finding(t)' /\ ~Decided(t)'
    BY <1>6, <1>7 DEF Fresh, Kind, Finding, At, Decided, After
  <1>11. JInv'
    <2>1. NoneIsLost'
      <3> SUFFICES ASSUME NEW m \in allocated', ~Linked(m), m \notin dead
                   PROVE  \E u \in Threads : Fresh(u)' /\ call'[u].node = m
        BY <1>8, <1>9 DEF NoneIsLost
      <3>1. CASE m = n
        BY <1>6, <1>7, <1>10, <3>1
      <3>2. CASE m # n
        <4>1. PICK u \in Threads : Fresh(u) /\ call[u].node = m
          BY <1>1, <3>2 DEF JInv, NoneIsLost
        <4>2. u # t
          BY <1>8, <4>1 DEF Fresh
        <4>3. Fresh(u)'
          BY <1>7, <4>1, <4>2 DEF Fresh, Kind
        <4> QED
          BY <1>7, <4>1, <4>2, <4>3
      <3> QED
        BY <3>1, <3>2
    <2>2. \A m \in allocated : m \in allocated' => key_'[m] = key_[m] /\ value_'[m] = value_[m]
      BY <1>8
    <2>3. Bringing(t)'
      BY <1>6, <1>7, <1>8 DEF Bringing, Kind
    <2>4. \A u \in Threads : call'[u] = call[u] \/ Minds(u)
      BY <1>7, <1>10, <2>3 DEF Minds
    <2> QED
      BY <1>8, <1>9, <2>1, <2>2, <2>4, JKeeps
  <1>12. Map' = Map /\ Readers' = Readers /\ State' = State
    <2>1. \A m \in Nodes : Live(m)' <=> Live(m)
      BY <1>8, <1>9 DEF Live
    <2>2. ~Live(n)
      BY LinkedIsAllocated DEF Live, IInv
    <2>3. \A m \in Nodes : Live(m) => key_'[m] = key_[m] /\ value_'[m] = value_[m]
                                      /\ access_count_'[m] = access_count_[m]
      BY <1>8, <2>2
    <2> QED
      BY <2>1, <2>3, MapStays DEF JInv
  <1> QED
    BY <1>7, <1>8, <1>10, <1>11, <1>12, BeginMaps

LEMMA CallRemoveOrAtMaps ==
  ASSUME IInv, IInv', JInv, Look, NEW t \in Threads, CallRemoveOrAt(t)
  PROVE  JInv' /\ Maps
  <1> USE NullAssumption
  <1>1. PICK kind \in {"remove", "at"}, k \in Keys : Become(t, NewCall(kind, k, Null, Null))
    BY DEF CallRemoveOrAt
  <1>2. PICK c : c = NewCall(kind, k, Null, Null)
    OBVIOUS
  <1>3. LocationOf(k, 0) \in Locations
    BY LocationIn, MaxDepthIsNat
  <1>4. c \in Calls /\ c.kind \in {"remove", "at"} /\ c.at = "load"
    BY <1>2, <1>3, LIMITAssumption, LIMIT \in Int DEF NewCall, Calls
  <1>5. /\ call'[t] = c /\ c # Null /\ \A u \in Threads : u # t => call'[u] = call[u]
    BY <1>1, <1>2, <1>4, OthersGo, CallsAssumption
  <1>6. call[t] = Null /\ UNCHANGED <<tree, dead, key_, value_, allocated, access_count_>>
    BY DEF CallRemoveOrAt, nodeVars
  <1>7. ArraysAbove' /\ \A m : Linked(m)' <=> Linked(m)
    BY <1>6, SameTree DEF JInv
  <1>8. ~Finding(t)' /\ ~Decided(t)'
    BY <1>4, <1>5 DEF Finding, At, Decided, After
  <1>9. JInv'
    <2>1. NoneIsLost'
      <3>1. \A u \in Threads : Fresh(u) => Fresh(u)' /\ call'[u] = call[u]
        BY <1>5, <1>6 DEF Fresh, Kind
      <3> QED
        BY <1>6, <1>7, <3>1 DEF JInv, NoneIsLost
    <2>2. Bringing(t)'
      BY <1>4, <1>5, <1>8 DEF Bringing, Kind
    <2>3. \A u \in Threads : call'[u] = call[u] \/ Minds(u)
      BY <1>5, <1>8, <2>2 DEF Minds
    <2> QED
      BY <1>6, <1>7, <2>1, <2>3, JKeeps
  <1>10. Map' = Map /\ Readers' = Readers /\ State' = State
    <2>1. \A m \in Nodes : Live(m)' <=> Live(m)
      BY <1>6, <1>7 DEF Live
    <2> QED
      BY <1>6, <2>1, MapStays DEF JInv
  <1> QED
    BY <1>5, <1>6, <1>8, <1>9, <1>10, BeginMaps

LEMMA FreeMaps ==
  ASSUME IInv, IInv', JInv, Look, NEW n \in Nodes, Free(n)
  PROVE  JInv' /\ Maps
  <1>1. /\ tree' = tree /\ call' = call /\ dead' = dead \ {n} /\ allocated' = allocated \ {n}
        /\ ~Linked(n)
        /\ \A m : m # n => key_'[m] = key_[m] /\ value_'[m] = value_[m] /\ access_count_'[m] = access_count_[m]
    <2>1. \A m : m # n => key_'[m] = key_[m] /\ value_'[m] = value_[m] /\ access_count_'[m] = access_count_[m]
      BY DEF Free, Deallocate
    <2>2. ~Linked(n)
      BY LinkedIsAllocated DEF Free, IInv
    <2> QED
      BY <2>1, <2>2 DEF Free, Deallocate
  <1>2. ArraysAbove' /\ \A m : Linked(m)' <=> Linked(m)
    BY <1>1, SameTree DEF JInv
  <1>3. SameCalls /\ \A u \in Threads : Outcome(u)' = Outcome(u)
    BY <1>1 DEF SameCalls, Pending, Outcome, Kind, Key, Decided
  <1>4. JInv'
    <2>1. NoneIsLost'
      <3>1. \A u \in Threads : Fresh(u)' <=> Fresh(u)
        BY <1>1 DEF Fresh, Kind
      <3> QED
        BY <1>1, <1>2, <3>1 DEF JInv, NoneIsLost
    <2>2. \A m \in allocated : m \in allocated' => key_'[m] = key_[m] /\ value_'[m] = value_[m]
      BY <1>1
    <2> QED
      BY <1>1, <1>2, <2>1, <2>2, JKeeps
  <1>5. Map' = Map /\ Readers' = Readers /\ State' = State
    <2>1. \A m \in Nodes : Live(m)' <=> Live(m)
      BY <1>1, <1>2 DEF Live
    <2>2. \A m \in Nodes : Live(m) => key_'[m] = key_[m] /\ value_'[m] = value_[m]
                                      /\ access_count_'[m] = access_count_[m]
      BY <1>1 DEF Live
    <2> QED
      BY <2>1, <2>2, MapStays DEF JInv
  <1> QED
    BY <1>3, <1>4, <1>5, Stutters DEF Maps

------------------------------------------------------------------------------
(* The refinement *)

LEMMA InitMaps == Init => JInv /\ Abstract!Init
  <1> SUFFICES ASSUME Init PROVE JInv /\ Abstract!Init
    OBVIOUS
  <1> USE NullAssumption
  <1>1. /\ \A loc \in Locations : tree[loc] = Null
        /\ \A u \in Threads : call[u] = Null /\ seen[u] = {}
        /\ seen = [u \in Threads |-> {}] /\ allocated = {}
    BY DEF Init
  <1>2. \A u \in Threads : ~Finding(u) /\ SeenNow(u)
    BY <1>1 DEF Finding, At, SeenNow
  <1>3. ArraysAbove
    BY <1>1, LocationIn DEF ArraysAbove
  <1>4. JInv
    BY <1>1, <1>2, <1>3 DEF JInv, NoneIsLost, History, Found, Bringings
  <1>5. \A k \in Keys : Holder(k) = {}
    BY <1>1 DEF Holder, Linked
  <1>6. Map = [k \in Keys |-> Null] /\ Readers = [k \in Keys |-> 0]
    BY <1>5 DEF Map, Readers
  <1>7. /\ [u \in Threads |-> Pending(u)] = [u \in Threads |-> Null]
        /\ [u \in Threads |-> Outcome(u)] = [u \in Threads |-> Null]
    BY <1>1 DEF Pending, Outcome
  <1> QED
    BY <1>1, <1>4, <1>6, <1>7 DEF Abstract!Init

LEMMA NextMaps ==
  ASSUME IInv, IInv', JInv, Next
  PROVE  JInv' /\ Maps
  <1>1. Look
    BY DEF Next
  <1>2. CASE \E n \in Nodes : Free(n)
    BY <1>1, <1>2, FreeMaps
  <1>3. ASSUME NEW t \in Threads, CallInsert(t) \/ CallRemoveOrAt(t) \/ Reset(t)
        PROVE  JInv' /\ Maps
    BY <1>1, <1>3, CallInsertMaps, CallRemoveOrAtMaps, ResetMaps
  <1>4. ASSUME NEW t \in Threads, Step(t)
        PROVE  JInv' /\ Maps
    <2>1. CASE Announce(t) \/ Load(t) \/ Validate(t) \/ CountAccess(t) \/ Uncount(t) \/ Release(t)
      BY <1>1, <2>1, AnnounceMaps, LoadMaps, ValidateMaps, CountAccessMaps, UncountMaps, ReleaseMaps
    <2>2. CASE Place(t) \/ SeeAlive(t) \/ Replace(t) \/ Retire(t) \/ Grow(t) \/ Expand(t)
      BY <1>1, <2>2, PlaceMaps, SeeAliveMaps, ReplaceMaps, RetireMaps, GrowMaps, ExpandMaps
    <2>3. CASE Kill(t) \/ Shrink(t) \/ Unlink(t)
      BY <1>1, <2>3, KillMaps, ShrinkMaps, UnlinkMaps
    <2>4. CASE ForceLoad(t) \/ ForceValidate(t) \/ ForceExpand(t) \/ Return(t)
      BY <1>1, <2>4, ForceLoadMaps, ForceValidateMaps, ForceExpandMaps, ReturnMaps
    <2> QED
      BY <1>4, <2>1, <2>2, <2>3, <2>4 DEF Step
  <1> QED
    BY <1>2, <1>3, <1>4 DEF Next

LEMMA NothingHappens ==
  ASSUME IInv, JInv, UNCHANGED vars
  PROVE  JInv' /\ Maps
  <1> USE DEF vars, nodeVars
  <1>1. /\ \A m : Linked(m)' <=> Linked(m)
        /\ \A u \in Threads : /\ Fresh(u)' <=> Fresh(u)
                              /\ Pending(u)' = Pending(u) /\ Outcome(u)' = Outcome(u)
    BY DEF Linked, Fresh, Pending, Outcome, Kind, Key, Decided
  <1>2. Map' = Map /\ Readers' = Readers /\ State' = State
    <2>1. \A m \in Nodes : Live(m)' <=> Live(m)
      BY <1>1 DEF Live
    <2> QED
      BY <2>1, MapStays DEF JInv
  <1>3. ArraysAbove' /\ NoneIsLost'
    BY <1>1, SameTree DEF JInv, NoneIsLost
  <1>4. History'
    BY <1>2 DEF JInv, History, SeenNow, Decided, Key
  <1>5. Found' /\ Bringings'
    BY <1>1 DEF JInv, Found, Finding, At, Cur, Key, Bringings, Bringing, Kind, Decided
  <1> QED
    BY <1>1, <1>2, <1>3, <1>4, <1>5 DEF JInv, Maps, Abstract!vars

(* The hash map is linearizable: insert, remove and at take effect at one  *)
(* step of the call, and a key that has readers is not removed.            *)
THEOREM MapIsLinearizable == Spec => RefinesMap
  <1>1. Init => JInv /\ Abstract!Init
    BY InitMaps
  <1>2. IInv /\ IInv' /\ JInv /\ [Next]_vars => JInv' /\ [Abstract!Next]_(Abstract!vars)
    <2> SUFFICES ASSUME IInv, IInv', JInv, [Next]_vars PROVE JInv' /\ Maps
      BY DEF Maps
    <2> QED
      BY NextMaps, NothingHappens
  <1>3. Spec => []IInv
    BY Invariance
  <1>4. Spec => []JInv
    BY <1>1, <1>2, <1>3, PTL DEF Spec
  <1> QED
    BY <1>1, <1>2, <1>3, <1>4, PTL DEF Spec, RefinesMap, Abstract!Spec

------------------------------------------------------------------------------
(* size_ *)

(* What the account of size_ looks at.                                     *)
Held == {k \in Keys : Map[k] # Null}
Grows(t) == At(t, "grow") \/ (At(t, "retire") /\ Kind(t) = "insert")
Shrinking == {t \in Threads : At(t, "shrink")}
Growing == {t \in Threads : Grows(t)}

Account == size_ = Cardinality(Held) + Cardinality(Shrinking) - Cardinality(Growing)

(* The call of a thread takes effect: a key comes, or goes.                *)
Effect(t) == call[t] # Null /\ Outcome(t) = Null /\ Outcome(t)' = "done"
Puts(t) == Effect(t) /\ Kind(t) = "insert"
Takes(t) == Effect(t) /\ Kind(t) = "remove"

LEMMA OutcomesThen ==
  ASSUME NEW t \in Threads, NEW o,
         [u \in Threads |-> Outcome(u)]' = [[u \in Threads |-> Outcome(u)] EXCEPT ![t] = o]
  PROVE  Outcome(t)' = o /\ \A u \in Threads : u # t => Outcome(u)' = Outcome(u)
  <1> DEFINE f == [u \in Threads |-> Outcome(u)]
  <1>1. \A u \in Threads : f[u] = Outcome(u) /\ f'[u] = Outcome(u)'
    OBVIOUS
  <1>2. f' = [f EXCEPT ![t] = o] /\ f = [u \in Threads |-> f[u]]
    BY <1>1
  <1> HIDE DEF f
  <1>3. f'[t] = o /\ \A u \in Threads : u # t => f'[u] = f[u]
    BY <1>2
  <1> QED
    BY <1>1, <1>3

LEMMA MapMoves ==
  ASSUME IInv, JInv, Maps
  PROVE  \/ Map' = Map /\ \A u \in Threads : ~Puts(u) /\ ~Takes(u)
         \/ \E t \in Threads :
              /\ Puts(t) /\ \A u \in Threads : u # t => ~Effect(u)
              /\ Key(t) \in Keys /\ Map[Key(t)] = Null /\ call[t].value \in Values
              /\ Map' = [Map EXCEPT ![Key(t)] = call[t].value]
         \/ \E t \in Threads :
              /\ Takes(t) /\ \A u \in Threads : u # t => ~Effect(u)
              /\ Key(t) \in Keys /\ Map[Key(t)] # Null
              /\ Map' = [Map EXCEPT ![Key(t)] = Null]
  <1> USE NullAssumption
  <1>1. ASSUME Map' = Map, [u \in Threads |-> Outcome(u)]' = [u \in Threads |-> Outcome(u)]
        PROVE  Map' = Map /\ \A u \in Threads : ~Puts(u) /\ ~Takes(u)
    <2>1. \A u \in Threads : Outcome(u)' = Outcome(u)
      BY <1>1
    <2> QED
      BY <1>1, <2>1 DEF Puts, Takes, Effect
  <1>2. ASSUME NEW t \in Threads, NEW o, o = "done" => Kind(t) = "at", Map' = Map,
               [u \in Threads |-> Outcome(u)]' = [[u \in Threads |-> Outcome(u)] EXCEPT ![t] = o]
        PROVE  Map' = Map /\ \A u \in Threads : ~Puts(u) /\ ~Takes(u)
    BY <1>2, OutcomesThen DEF Puts, Takes, Effect
  <1>3. CASE UNCHANGED Abstract!vars
    BY <1>1, <1>3 DEF Abstract!vars
  <1>4. ASSUME NEW t \in Threads, Abstract!Call(t)
        PROVE  Map' = Map /\ \A u \in Threads : ~Puts(u) /\ ~Takes(u)
    BY <1>1, <1>4 DEF Abstract!Call
  <1>5. ASSUME NEW k \in Keys, Abstract!Release(k)
        PROVE  Map' = Map /\ \A u \in Threads : ~Puts(u) /\ ~Takes(u)
    BY <1>1, <1>5 DEF Abstract!Release
  <1>6. ASSUME NEW t \in Threads, Abstract!RemoveNothing(t) \/ Abstract!FindNothing(t) \/ Abstract!Return(t)
        PROVE  Map' = Map /\ \A u \in Threads : ~Puts(u) /\ ~Takes(u)
    BY <1>2, <1>6 DEF Abstract!RemoveNothing, Abstract!FindNothing, Abstract!Return, Abstract!Decide
  <1>7. ASSUME NEW t \in Threads, Abstract!Find(t)
        PROVE  Map' = Map /\ \A u \in Threads : ~Puts(u) /\ ~Takes(u)
    <2>1. Kind(t) = "at"
      BY <1>7, PendingIs DEF Abstract!Find, Abstract!Undecided
    <2> QED
      BY <1>2, <1>7, <2>1 DEF Abstract!Find, Abstract!Decide
  <1>8. ASSUME NEW t \in Threads, Abstract!Insert(t)
        PROVE  \/ Map' = Map /\ \A u \in Threads : ~Puts(u) /\ ~Takes(u)
               \/ /\ Puts(t) /\ \A u \in Threads : u # t => ~Effect(u)
                  /\ Key(t) \in Keys /\ Map[Key(t)] = Null /\ call[t].value \in Values
                  /\ Map' = [Map EXCEPT ![Key(t)] = call[t].value]
    <2>1. /\ call[t] # Null /\ Kind(t) = "insert" /\ Outcome(t) = Null /\ Key(t) \in Keys
          /\ Pending(t).key = Key(t) /\ Pending(t).value = call[t].value /\ call[t].value \in Values
      BY <1>8, PendingIs DEF Abstract!Insert, Abstract!Undecided
    <2>2. CASE Map[Key(t)] = Null
      <3>1. /\ Map' = [Map EXCEPT ![Key(t)] = call[t].value]
            /\ [u \in Threads |-> Outcome(u)]' = [[u \in Threads |-> Outcome(u)] EXCEPT ![t] = "done"]
        BY <1>8, <2>1, <2>2 DEF Abstract!Insert, Abstract!Decide
      <3> QED
        BY <2>1, <2>2, <3>1, OutcomesThen DEF Puts, Effect
    <2>3. CASE Map[Key(t)] # Null
      <3>1. /\ Map' = Map
            /\ [u \in Threads |-> Outcome(u)]' = [[u \in Threads |-> Outcome(u)] EXCEPT ![t] = "refused"]
        BY <1>8, <2>1, <2>3 DEF Abstract!Insert, Abstract!Decide
      <3> QED
        BY <1>2, <3>1
    <2> QED
      BY <2>2, <2>3
  <1>9. ASSUME NEW t \in Threads, Abstract!Remove(t)
        PROVE  /\ Takes(t) /\ \A u \in Threads : u # t => ~Effect(u)
               /\ Key(t) \in Keys /\ Map[Key(t)] # Null
               /\ Map' = [Map EXCEPT ![Key(t)] = Null]
    <2>1. /\ call[t] # Null /\ Kind(t) = "remove" /\ Outcome(t) = Null /\ Key(t) \in Keys
          /\ Pending(t).key = Key(t)
      BY <1>9, PendingIs DEF Abstract!Remove, Abstract!Undecided
    <2>2. Map[Key(t)] # Null /\ Map' = [Map EXCEPT ![Key(t)] = Null]
      BY <1>9, <2>1 DEF Abstract!Remove, Abstract!State
    <2>3. [u \in Threads |-> Outcome(u)]' = [[u \in Threads |-> Outcome(u)] EXCEPT ![t] = "done"]
      BY <1>9 DEF Abstract!Remove, Abstract!Decide
    <2> QED
      BY <2>1, <2>2, <2>3, OutcomesThen DEF Takes, Effect
  <1> QED
    BY <1>3, <1>4, <1>5, <1>6, <1>7, <1>8, <1>9 DEF Maps, Abstract!Next

LEMMA HeldIsFinite == IsFiniteSet(Held) /\ Cardinality(Held) \in Nat
  BY KeysAssumption, FS_Subset, FS_CardinalityType DEF Held

LEMMA HeldMoves ==
  ASSUME IInv, JInv, Maps, NEW t \in Threads, \A u \in Threads : u # t => ~Puts(u) /\ ~Takes(u)
  PROVE  Cardinality(Held)' = Cardinality(Held) + One(Puts(t)) - One(Takes(t))
  <1> USE NullAssumption
  <1>1. CASE Map' = Map /\ ~Puts(t) /\ ~Takes(t)
    <2>1. Held' = Held
      BY <1>1 DEF Held
    <2> QED
      BY <1>1, <2>1, HeldIsFinite DEF One
  <1>2. PICK k : k = Key(t)
    OBVIOUS
  <1>3. Puts(t) => ~Takes(t)
    BY DEF Puts, Takes
  <1>4. ASSUME Puts(t), k \in Keys, Map[k] = Null, call[t].value \in Values,
               Map' = [Map EXCEPT ![k] = call[t].value]
        PROVE  Cardinality(Held)' = Cardinality(Held) + One(Puts(t)) - One(Takes(t))
    <2>1. Held' = Held \cup {k}
      <3>1. Map'[k] # Null /\ \A l \in Keys : l # k => Map'[l] = Map[l]
        BY <1>4 DEF Map
      <3> QED
        BY <1>4, <3>1 DEF Held
    <2>2. k \notin Held
      BY <1>4 DEF Held
    <2>3. Cardinality(Held)' = Cardinality(Held) + 1
      BY <2>1, <2>2, HeldIsFinite, FS_AddElement
    <2> QED
      BY <1>3, <1>4, <2>3, HeldIsFinite DEF One
  <1>5. ASSUME Takes(t), k \in Keys, Map[k] # Null, Map' = [Map EXCEPT ![k] = Null]
        PROVE  Cardinality(Held)' = Cardinality(Held) + One(Puts(t)) - One(Takes(t))
    <2>1. Held' = Held \ {k}
      <3>1. Map'[k] = Null /\ \A l \in Keys : l # k => Map'[l] = Map[l]
        BY <1>5 DEF Map
      <3> QED
        BY <1>5, <3>1 DEF Held
    <2>2. k \in Held
      BY <1>5 DEF Held
    <2>3. Cardinality(Held)' = Cardinality(Held) - 1
      BY <2>1, <2>2, HeldIsFinite, FS_RemoveElement
    <2> QED
      BY <1>3, <1>5, <2>3, HeldIsFinite DEF One
  <1> QED
    BY <1>1, <1>2, <1>4, <1>5, MapMoves

(* The account is kept by every step of one thread that keeps its part.    *)
Owed(t) == One(At(t, "shrink")) - One(Grows(t))

LEMMA AccountKeeps ==
  ASSUME IInv, JInv, Maps, Account, NEW t \in Threads, \A u \in Threads : u # t => call'[u] = call[u],
         size_' = size_ + One(Puts(t)) - One(Takes(t)) + Owed(t)' - Owed(t)
  PROVE  Account'
  <1>1. \A u \in Threads : u # t => ~Puts(u) /\ ~Takes(u)
    BY NullAssumption DEF Puts, Takes, Effect, Outcome, Kind, Decided
  <1>2. Cardinality(Held)' = Cardinality(Held) + One(Puts(t)) - One(Takes(t))
    BY <1>1, HeldMoves
  <1>3. \A u \in Threads : u # t => (At(u, "shrink")' <=> At(u, "shrink")) /\ (Grows(u)' <=> Grows(u))
    BY DEF Grows, At, Kind
  <1>4. Cardinality(Shrinking)' = Cardinality(Shrinking) - One(At(t, "shrink")) + One(At(t, "shrink"))'
    <2>1. Shrinking \subseteq Threads /\ Shrinking' \subseteq Threads
      BY DEF Shrinking
    <2>2. \A u \in Threads : (u \in Shrinking <=> At(u, "shrink")) /\ (u \in Shrinking' <=> At(u, "shrink")')
      BY DEF Shrinking
    <2>3. Cardinality(Shrinking') = Cardinality(Shrinking) - (IF t \in Shrinking THEN 1 ELSE 0)
                                      + (IF t \in Shrinking' THEN 1 ELSE 0)
      BY <1>3, <2>1, <2>2, ChangeOfOne
    <2> QED
      BY <2>2, <2>3 DEF One
  <1>5. Cardinality(Growing)' = Cardinality(Growing) - One(Grows(t)) + One(Grows(t))'
    <2>1. Growing \subseteq Threads /\ Growing' \subseteq Threads
      BY DEF Growing
    <2>2. \A u \in Threads : (u \in Growing <=> Grows(u)) /\ (u \in Growing' <=> Grows(u)')
      BY DEF Growing
    <2>3. Cardinality(Growing') = Cardinality(Growing) - (IF t \in Growing THEN 1 ELSE 0)
                                    + (IF t \in Growing' THEN 1 ELSE 0)
      BY <1>3, <2>1, <2>2, ChangeOfOne
    <2> QED
      BY <2>2, <2>3 DEF One
  <1>6. /\ Cardinality(Held) \in Nat /\ Cardinality(Shrinking) \in Nat /\ Cardinality(Growing) \in Nat
    BY HeldIsFinite, CardinalityOfSubset DEF Shrinking, Growing
  <1>7. /\ One(At(t, "shrink")) \in Int /\ One(Grows(t)) \in Int /\ One(Puts(t)) \in Int /\ One(Takes(t)) \in Int
        /\ One(At(t, "shrink"))' \in Int /\ One(Grows(t))' \in Int
    BY DEF One
  <1> QED
    BY <1>2, <1>4, <1>5, <1>6, <1>7 DEF Account, Owed

(* A step that has nothing to do with the account.                         *)
LEMMA PlainKeeps ==
  ASSUME IInv, JInv, Maps, Account, NEW t \in Threads, \A u \in Threads : u # t => call'[u] = call[u],
         size_' = size_,
         call[t] # Null => call[t].at \notin {"shrink", "grow", "retire"},
         call'[t] # Null => call'[t].at \notin {"shrink", "grow"} /\ (call'[t].at = "retire" => call'[t].kind = "remove"),
         call[t] # Null /\ call'[t] # Null =>
           Kind(t) = "at" \/ Decided(t) \/ call'[t].at \notin After \/ call'[t].res = "refused"
  PROVE  Account'
  <1> USE NullAssumption
  <1>1. ~Puts(t) /\ ~Takes(t)
    BY PendingIs DEF Puts, Takes, Effect, Outcome, Decided
  <1>2. Owed(t) = 0 /\ Owed(t)' = 0
    BY DEF Owed, One, Grows, At, Kind
  <1>3. size_' = size_ + One(Puts(t)) - One(Takes(t)) + Owed(t)' - Owed(t)
    <2>1. size_ \in Int
      BY HeldIsFinite, CardinalityOfSubset DEF Account, Shrinking, Growing
    <2> QED
      BY <1>1, <1>2, <2>1 DEF One
  <1> QED
    BY <1>3, AccountKeeps

(* The same for a call that goes on.                                       *)
LEMMA PlainGoes ==
  ASSUME IInv, JInv, Maps, Account, NEW t \in Threads, Goes(t), size_' = size_,
         call[t].at \notin {"shrink", "grow", "retire"}, call'[t].at \notin {"shrink", "grow", "retire"},
         Kind(t) = "at" \/ Decided(t) \/ call'[t].at \notin After \/ call'[t].res = "refused"
  PROVE  Account'
  BY PlainKeeps DEF Goes

LEMMA SearchAccounts ==
  ASSUME IInv, JInv, Maps, Account, NEW t \in Threads, Announce(t) \/ Load(t) \/ Validate(t)
  PROVE  Account'
  <1> USE NullAssumption, NodesAssumption
  <1>1. CASE Announce(t)
    BY <1>1, AnnounceGoes, PlainGoes DEF Announce, After
  <1>2. CASE Load(t)
    <2>1. call[t] # Null /\ call[t].at = "load" /\ size_' = size_ /\ tree[Loc(t)] \in Nodes \cup {Null, "array"}
      BY <1>2, InCall DEF Load, At, IInv, Types, Loc, Calls
    <2>2. Goes(t) /\ (call'[t].at \in {"place", "validate", "load"} \/ (call'[t].at = "done" /\ call'[t].res = "refused"))
      BY <1>2, <2>1, GotoGoes, DecideGoes, GotoWithGoes, DescendGoes DEF Load, Labels, IsNode
    <2> QED
      BY <2>1, <2>2, PlainGoes DEF After
  <1>3. CASE Validate(t)
    <2>1. call[t] # Null /\ call[t].at = "validate" /\ size_' = size_
      BY <1>3 DEF Validate, At
    <2>2. Goes(t) /\ (\/ call'[t].at \in {"alive", "count", "kill", "load"}
                      \/ call'[t].at = "done" /\ call'[t].res = "refused")
      BY <1>3, <2>1, GotoGoes, DecideGoes, DelayedGoes DEF Validate, Labels
    <2> QED
      BY <2>1, <2>2, PlainGoes DEF After
  <1> QED
    BY <1>1, <1>2, <1>3

LEMMA AtAccounts ==
  ASSUME IInv, JInv, Maps, Account, NEW t \in Threads,
         CountAccess(t) \/ Uncount(t) \/ Release(t) \/ Reset(t)
  PROVE  Account'
  <1> USE NullAssumption
  <1>1. CASE Reset(t)
    BY <1>1, PlainKeeps DEF Reset
  <1>2. CASE Uncount(t)
    <2>1. call[t] # Null /\ call[t].at = "uncount" /\ size_' = size_
      BY <1>2 DEF Uncount, At
    <2>2. Goes(t) /\ call'[t].at = "done" /\ call'[t].res = "refused"
      BY <1>2, <2>1, DecideGoes DEF Uncount
    <2> QED
      BY <2>1, <2>2, PlainGoes
  <1>3. CASE Release(t)
    <2>1. call[t] # Null /\ call[t].at = "release" /\ size_' = size_
      BY <1>3 DEF Release, At
    <2>2. Goes(t) /\ call'[t].at = "done"
      BY <1>3, <2>1, GotoWithGoes DEF Release, Labels, After
    <2> QED
      BY <2>1, <2>2, PlainGoes DEF Decided, After
  <1>4. CASE CountAccess(t)
    <2>1. call[t] # Null /\ call[t].at = "count" /\ size_' = size_ /\ Kind(t) = "at" /\ call[t] \in Calls
      BY <1>4, InCall DEF CountAccess, At, Sound, Kind
    <2>2. CASE access_count_[Cur(t)] >= 0
      <3>1. PICK l, c : /\ l = IF va[t] = Null THEN "done" ELSE "release"
                        /\ c = [call[t] EXCEPT !.at = l, !.res = value_[Cur(t)], !.cur = va[t]]
        OBVIOUS
      <3>2. Become(t, c)
        BY <1>4, <2>2, <3>1 DEF CountAccess
      <3>3. c.at = l
        BY <2>1, <3>1 DEF Calls
      <3>4. call'[t] = c /\ \A u \in Threads : u # t => call'[u] = call[u]
        BY <3>2, OthersGo
      <3> QED
        BY <2>1, <3>1, <3>3, <3>4, PlainKeeps
    <2>3. CASE ~(access_count_[Cur(t)] >= 0)
      <3>1. Goes(t) /\ call'[t].at = "uncount"
        BY <1>4, <2>1, <2>3, GotoGoes DEF CountAccess, Labels
      <3> QED
        BY <2>1, <3>1, PlainGoes
    <2> QED
      BY <2>2, <2>3
  <1> QED
    BY <1>1, <1>2, <1>3, <1>4

(* An insert that takes effect will count its key.                         *)
LEMMA PutAccounts ==
  ASSUME IInv, JInv, Maps, Account, NEW t \in Threads, Goes(t), size_' = size_, Kind(t) = "insert",
         call[t].at \in {"place", "replace"}, call'[t].at \in {"grow", "retire"}, call'[t].res = Null
  PROVE  Account'
  <1>1. Kind(t)' = "insert" /\ call[t] # Null /\ call'[t] # Null
    BY DEF Goes, Kind
  <1>2. Puts(t) /\ ~Takes(t)
    BY <1>1 DEF Puts, Takes, Effect, Outcome, Decided, After
  <1>3. Owed(t) = 0 /\ Owed(t)' = -1
    BY <1>1 DEF Owed, One, Grows, At
  <1>4. size_ \in Int
    BY HeldIsFinite, CardinalityOfSubset DEF Account, Shrinking, Growing
  <1>5. size_' = size_ + One(Puts(t)) - One(Takes(t)) + Owed(t)' - Owed(t)
    BY <1>2, <1>3, <1>4 DEF One
  <1> QED
    BY <1>5, AccountKeeps DEF Goes

LEMMA InsertAccounts ==
  ASSUME IInv, JInv, Maps, Account, NEW t \in Threads,
         Place(t) \/ SeeAlive(t) \/ Replace(t) \/ Expand(t)
  PROVE  Account'
  <1> USE NullAssumption
  <1>1. CASE Place(t)
    <2>1. call[t] # Null /\ call[t].at = "place" /\ size_' = size_ /\ Kind(t) = "insert" /\ call[t].res = Null
      BY <1>1, InCall DEF Place, At, Sound, Kind
    <2>2. Goes(t) /\ call'[t].at \in {"grow", "load"} /\ call'[t].res = Null
      BY <1>1, <2>1, GotoGoes, DelayedGoes DEF Place, Labels, After
    <2> QED
      BY <2>1, <2>2, PutAccounts, PlainGoes DEF After
  <1>2. CASE Replace(t)
    <2>1. call[t] # Null /\ call[t].at = "replace" /\ size_' = size_ /\ Kind(t) = "insert" /\ call[t].res = Null
      BY <1>2, InCall DEF Replace, At, Sound, Kind
    <2>2. Goes(t) /\ call'[t].at \in {"retire", "load"} /\ call'[t].res = Null
      BY <1>2, <2>1, GotoGoes, DelayedGoes DEF Replace, Labels, After
    <2> QED
      BY <2>1, <2>2, PutAccounts, PlainGoes DEF After
  <1>3. CASE SeeAlive(t)
    <2>1. call[t] # Null /\ call[t].at = "alive" /\ size_' = size_
      BY <1>3 DEF SeeAlive, At
    <2>2. Goes(t) /\ (call'[t].at \in {"replace", "expand"} \/ (call'[t].at = "done" /\ call'[t].res = "refused"))
      BY <1>3, <2>1, GotoGoes, DecideGoes DEF SeeAlive, Labels
    <2> QED
      BY <2>1, <2>2, PlainGoes DEF After
  <1>4. CASE Expand(t)
    <2>1. call[t] # Null /\ call[t].at = "expand" /\ size_' = size_
      BY <1>4 DEF Expand, At
    <2>2. Goes(t) /\ call'[t].at = "load"
      BY <1>4, <2>1, GotoWithGoes DEF Expand, Labels
    <2> QED
      BY <2>1, <2>2, PlainGoes DEF After
  <1> QED
    BY <1>1, <1>2, <1>3, <1>4

LEMMA KillAccounts ==
  ASSUME IInv, JInv, Maps, Account, NEW t \in Threads, Kill(t)
  PROVE  Account'
  <1> USE NullAssumption
  <1>1. call[t] # Null /\ call[t].at = "kill" /\ size_' = size_ /\ Kind(t) = "remove" /\ call[t] \in Calls
    BY InCall DEF Kill, At, Sound, Kind
  <1>2. CASE access_count_[Cur(t)] # 0
    <2>1. Goes(t) /\ call'[t].at = "done" /\ call'[t].res = "refused"
      BY <1>1, <1>2, DecideGoes DEF Kill
    <2> QED
      BY <1>1, <2>1, PlainGoes
  <1>3. CASE access_count_[Cur(t)] = 0
    <2>1. PICK c : c = [call[t] EXCEPT !.at = "shrink", !.res = "done"]
      OBVIOUS
    <2>2. Become(t, c)
      BY <1>3, <2>1 DEF Kill
    <2>3. /\ c.at = "shrink" /\ c.res = "done" /\ c.kind = call[t].kind /\ c \in Calls
      BY ZenonT(40), <1>1, <2>1 DEF Calls
    <2>4. call'[t] = c /\ c # Null /\ \A u \in Threads : u # t => call'[u] = call[u]
      BY <2>2, <2>3, OthersGo, CallsAssumption
    <2>5. Kind(t)' = "remove"
      BY <1>1, <2>3, <2>4 DEF Kind
    <2>6. Takes(t) /\ ~Puts(t)
      BY <1>1, <2>3, <2>4, <2>5 DEF Puts, Takes, Effect, Outcome, Decided, After
    <2>7. Owed(t) = 0 /\ Owed(t)' = 1
      BY <1>1, <2>3, <2>4 DEF Owed, One, Grows, At
    <2>8. size_ \in Int
      BY HeldIsFinite, CardinalityOfSubset DEF Account, Shrinking, Growing
    <2>9. size_' = size_ + One(Puts(t)) - One(Takes(t)) + Owed(t)' - Owed(t)
      BY <1>1, <2>6, <2>7, <2>8 DEF One
    <2> QED
      BY <2>4, <2>9, AccountKeeps
  <1> QED
    BY <1>2, <1>3

(* A call that is decided counts its key, or has done so.                  *)
LEMMA DecidedAccounts ==
  ASSUME IInv, JInv, Maps, Account, NEW t \in Threads, Goes(t), Decided(t),
         size_' = size_ + Owed(t)' - Owed(t)
  PROVE  Account'
  <1>1. ~Puts(t) /\ ~Takes(t)
    BY PendingIs DEF Puts, Takes, Effect
  <1>2. Owed(t) \in Int /\ Owed(t)' \in Int /\ size_ \in Int
    BY HeldIsFinite, CardinalityOfSubset DEF Owed, One, Account, Shrinking, Growing
  <1>3. size_' = size_ + One(Puts(t)) - One(Takes(t)) + Owed(t)' - Owed(t)
    BY <1>1, <1>2 DEF One
  <1> QED
    BY <1>3, AccountKeeps DEF Goes

LEMMA TidyAccounts ==
  ASSUME IInv, JInv, Maps, Account, NEW t \in Threads,
         Retire(t) \/ Grow(t) \/ Shrink(t) \/ Unlink(t)
  PROVE  Account'
  <1> USE NullAssumption
  <1>1. call[t] # Null /\ call[t].at \in {"retire", "grow", "shrink", "unlink"} /\ Decided(t) /\ size_ \in Int
    BY HeldIsFinite, CardinalityOfSubset
    DEF Retire, Grow, Shrink, Unlink, At, Decided, After, Account, Shrinking, Growing
  <1>2. CASE Retire(t)
    <2>1. call[t].at = "retire" /\ size_' = size_
      BY <1>2 DEF Retire, At
    <2>2. Goes(t) /\ call'[t].at = IF Kind(t) = "insert" THEN "grow" ELSE "done"
      BY <1>1, <1>2, GotoWithGoes DEF Retire, Labels, After
    <2>3. Owed(t)' = Owed(t) /\ Owed(t) \in Int
      BY <2>1, <2>2 DEF Owed, One, Grows, At, Goes, Kind
    <2> QED
      BY <1>1, <2>1, <2>2, <2>3, DecidedAccounts
  <1>3. CASE Grow(t)
    <2>1. call[t].at = "grow" /\ size_' = size_ + 1
      BY <1>3 DEF Grow, At
    <2>2. Goes(t) /\ call'[t].at = "done"
      BY <1>1, <1>3, GotoGoes DEF Grow, Labels, After
    <2>3. Owed(t)' = 0 /\ Owed(t) = -1
      BY <1>1, <2>1, <2>2 DEF Owed, One, Grows, At, Goes
    <2> QED
      BY <1>1, <2>1, <2>2, <2>3, DecidedAccounts
  <1>4. CASE Shrink(t)
    <2>1. call[t].at = "shrink" /\ size_' = size_ - 1
      BY <1>4 DEF Shrink, At
    <2>2. Goes(t) /\ call'[t].at = "unlink"
      BY <1>1, <1>4, GotoGoes DEF Shrink, Labels, After
    <2>3. Owed(t)' = 0 /\ Owed(t) = 1
      BY <1>1, <2>1, <2>2 DEF Owed, One, Grows, At, Goes
    <2> QED
      BY <1>1, <2>1, <2>2, <2>3, DecidedAccounts
  <1>5. CASE Unlink(t)
    <2>1. call[t].at = "unlink" /\ size_' = size_ /\ Kind(t) = "remove"
      BY <1>5, InCall DEF Unlink, At, Sound, Kind
    <2>2. Goes(t) /\ call'[t].at \in {"retire", "done"}
      BY <1>1, <1>5, GotoGoes, GotoWithGoes DEF Unlink, Labels, After
    <2>3. Owed(t)' = 0 /\ Owed(t) = 0
      BY <2>1, <2>2 DEF Owed, One, Grows, At, Goes, Kind
    <2> QED
      BY <1>1, <2>1, <2>2, <2>3, DecidedAccounts
  <1> QED
    BY <1>2, <1>3, <1>4, <1>5

LEMMA ForceAccounts ==
  ASSUME IInv, JInv, Maps, Account, NEW t \in Threads,
         ForceLoad(t) \/ ForceValidate(t) \/ ForceExpand(t)
  PROVE  Account'
  <1> USE NullAssumption
  <1>1. call[t] # Null /\ call[t].at \in {"force", "force_validate", "force_expand"} /\ size_' = size_
    BY DEF ForceLoad, ForceValidate, ForceExpand, At
  <1>2. Goes(t) /\ call'[t].at \in {"load", "force", "force_validate", "force_expand"}
    <2>1. CASE ForceLoad(t)
      <3>1. call[t].force \in Locations
        BY <1>1, <2>1, InCall DEF ForceLoad, At, Sound
      <3>2. tree[call[t].force] # "array" => tree[call[t].force] \in Nodes \cup {Null}
        BY <3>1 DEF IInv, Types
      <3> QED
        BY <1>1, <2>1, <3>2, ForceDoneGoes, GotoWithGoes DEF ForceLoad, Labels
    <2>2. CASE ForceValidate(t)
      BY <1>1, <2>2, GotoGoes, GotoWithGoes DEF ForceValidate, Labels
    <2>3. CASE ForceExpand(t)
      BY <1>1, <2>3, GotoWithGoes DEF ForceExpand, Labels
    <2> QED
      BY <2>1, <2>2, <2>3
  <1> QED
    BY <1>1, <1>2, PlainGoes DEF After

LEMMA CallsAccount ==
  ASSUME IInv, JInv, Maps, Account, NEW t \in Threads, CallInsert(t) \/ CallRemoveOrAt(t) \/ Return(t)
  PROVE  Account'
  <1> USE NullAssumption
  <1>1. CASE Return(t)
    <2>1. /\ call'[t] = Null /\ call[t].at = "done" /\ size_' = size_
          /\ \A u \in Threads : u # t => call'[u] = call[u]
      BY <1>1 DEF Return, At, IInv, Types
    <2> QED
      BY <2>1, PlainKeeps
  <1>2. CASE CallInsert(t)
    <2>1. PICK k \in Keys, v \in Values, n \in Nodes, f \in {Null} \cup {op_table_[u] : u \in Threads} :
            Become(t, [NewCall("insert", k, v, n) EXCEPT
                         !.force = f, !.at = IF f = Null THEN "load" ELSE "force"])
      BY <1>2 DEF CallInsert
    <2>2. PICK at \in {"load", "force"} : at = IF f = Null THEN "load" ELSE "force"
      OBVIOUS
    <2>3. PICK c : c = [NewCall("insert", k, v, n) EXCEPT !.force = f, !.at = at]
      OBVIOUS
    <2>4. c.at = at
      BY <2>3 DEF NewCall
    <2>5. call'[t] = c /\ \A u \in Threads : u # t => call'[u] = call[u]
      BY <2>1, <2>2, <2>3, OthersGo
    <2> QED
      BY <1>2, <2>4, <2>5, PlainKeeps DEF CallInsert
  <1>3. CASE CallRemoveOrAt(t)
    <2>1. PICK kind \in {"remove", "at"}, k \in Keys : Become(t, NewCall(kind, k, Null, Null))
      BY <1>3 DEF CallRemoveOrAt
    <2>2. PICK c : c = NewCall(kind, k, Null, Null)
      OBVIOUS
    <2>3. c.at = "load"
      BY <2>2 DEF NewCall
    <2>4. call'[t] = c /\ \A u \in Threads : u # t => call'[u] = call[u]
      BY <2>1, <2>2, OthersGo
    <2> QED
      BY <1>3, <2>3, <2>4, PlainKeeps DEF CallRemoveOrAt
  <1> QED
    BY <1>1, <1>2, <1>3

(* Nothing that is counted changes.                                        *)
LEMMA SameAccount ==
  ASSUME IInv, JInv, Maps, Account, call' = call, size_' = size_
  PROVE  Account'
  <1>1. \A u \in Threads : ~Puts(u) /\ ~Takes(u)
    BY NullAssumption DEF Puts, Takes, Effect, Outcome, Kind, Decided
  <1>2. Map' = Map
    BY <1>1, MapMoves
  <1> QED
    BY <1>2 DEF Account, Held, Shrinking, Growing, Grows, At, Kind

LEMMA NextAccounts ==
  ASSUME IInv, JInv, Maps, Account, [Next]_vars
  PROVE  Account'
  <1>1. CASE UNCHANGED vars
    BY <1>1, SameAccount DEF vars
  <1>2. ASSUME NEW n \in Nodes, Free(n) PROVE Account'
    BY <1>2, SameAccount DEF Free
  <1>3. ASSUME NEW t \in Threads, CallInsert(t) \/ CallRemoveOrAt(t) \/ Reset(t) \/ Step(t)
        PROVE  Account'
    BY <1>3, CallsAccount, SearchAccounts, AtAccounts, InsertAccounts, KillAccounts, TidyAccounts, ForceAccounts
    DEF Step
  <1> QED
    BY <1>1, <1>2, <1>3 DEF Next

(* size_ counts the keys, up to the calls that have not counted theirs     *)
(* yet, if its memory held zero.                                           *)
THEOREM SizeIsRight ==
  ASSUME InitialSizes \subseteq {0}
  PROVE  Spec => []SizeAddsUp
  <1>1. Init => Account
    <2> SUFFICES ASSUME Init PROVE Account
      OBVIOUS
    <2>1. size_ = 0 /\ \A u \in Threads : call[u] = Null
      BY DEF Init
    <2>2. \A k \in Keys : Map[k] = Null
      BY InitMaps DEF Abstract!Init
    <2>3. Held = {} /\ Shrinking = {} /\ Growing = {}
      BY <2>1, <2>2 DEF Held, Shrinking, Growing, Grows, At
    <2> QED
      BY <2>1, <2>3, FS_EmptySet DEF Account
  <1>2. IInv /\ JInv /\ Maps /\ Account /\ [Next]_vars => Account'
    BY NextAccounts
  <1>3. IInv /\ IInv' /\ JInv /\ [Next]_vars => JInv' /\ Maps
    BY NextMaps, NothingHappens
  <1>4. IInv /\ JInv /\ Account => SizeAddsUp
    <2> SUFFICES ASSUME IInv, JInv, Account PROVE SizeAddsUp
      OBVIOUS
    <2>1. \A k \in Keys : Holder(k) # {} <=> Map[k] # Null
      <3> SUFFICES ASSUME NEW k \in Keys, Holder(k) # {} PROVE Map[k] # Null
        BY MapIs
      <3>1. PICK n \in Nodes : Live(n) /\ key_[n] = k
        BY DEF Holder, Live
      <3> QED
        BY <3>1, HolderAlone, NullAssumption
    <2>2. {k \in Keys : Holder(k) # {}} = Held
      BY <2>1 DEF Held
    <2> QED
      BY <2>2 DEF Account, Shrinking, Growing, Grows, SizeAddsUp
  <1>5. Init => JInv
    BY InitMaps
  <1>6. Spec => []IInv
    BY Invariance
  <1> QED
    BY <1>1, <1>2, <1>3, <1>4, <1>5, <1>6, PTL DEF Spec
=============================================================================
