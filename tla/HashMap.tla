------------------------------ MODULE HashMap -------------------------------
(***************************************************************************)
(* The hash map of tervel/containers/wf/hash-map/wf_hash_map.h: an array   *)
(* whose locations hold nothing, a data node or a further array, addressed *)
(* by the next bits of the key.  A remove marks the node dead by the       *)
(* access count that at() raises, and unlinks it afterwards; an insert     *)
(* that meets another key moves that node into a further array.  A thread  *)
(* that is delayed announces that its location be made an array.           *)
(*                                                                         *)
(* A location is the path of positions that leads to it: an array stays    *)
(* where it was put.  The hazard pointer library is taken at its word      *)
(* (module Reclamation): a node that was passed to safe_delete is freed    *)
(* when no watch that was granted is in force.                             *)
(***************************************************************************)
EXTENDS Integers, Sequences, FiniteSets

CONSTANTS
  Threads,
  KEY_BITS,               \* the width of the word a key is
  Keys, Values,
  PRIMARY_POW,            \* primary_array_pow_
  SECONDARY_POW,          \* secondary_array_pow_
  Nodes,                  \* the addresses a DataNode can be allocated at
  LIMIT,                  \* TERVEL_PROG_ASSUR_LIMIT
  InitialSizes,           \* what the memory of size_ may hold
  Null

ASSUME KeysAssumption == KEY_BITS \in Nat /\ IsFiniteSet(Keys) /\ Keys \subseteq 0 .. (2 ^ KEY_BITS - 1)
ASSUME PowAssumption == PRIMARY_POW \in 1 .. KEY_BITS /\ SECONDARY_POW \in 1 .. KEY_BITS
\* Else the last level begins at the end of the key, and get_position reads
\* the word behind it (wf_hash_map.h:734).
ASSUME WidthsAssumption == (KEY_BITS - PRIMARY_POW) % SECONDARY_POW # 0
ASSUME NullAssumption == Null \notin Nodes \cup Values \cup {"array", "refused", "done"}
ASSUME NodesAssumption == "array" \notin Nodes
ASSUME ThreadsAssumption == IsFiniteSet(Threads)
ASSUME SizesAssumption == InitialSizes \subseteq Int
\* With a limit of zero remove would never get past isDelayed.
ASSUME LIMITAssumption == LIMIT \in Nat \ {0}

VARIABLES
  tree,                   \* the content of each location
  key_, value_, access_count_,      \* of the DataNodes
  size_,
  op_table_,              \* the ForceExpandOp of each thread: its location, or Null
  call,                   \* what a thread executes, or Null
  va,                     \* per thread, the node of its ValueAccessor, or Null
  allocated,              \* the addresses in use
  retired,                \* those of them that were passed to safe_delete
  dead,                   \* history: the nodes a remove marked
  seen                    \* history: what the key of a call was meanwhile

nodeVars == <<key_, value_, allocated>>
vars == <<tree, nodeVars, access_count_, size_, op_table_, call, va, retired, dead, seen>>

-----------------------------------------------------------------------------
(* get_position and max_depth *)

MaxDepth == (KEY_BITS - PRIMARY_POW) \div SECONDARY_POW + 1

Word(x) == x % 2 ^ KEY_BITS
ShiftLeft(x, n) == Word(x * 2 ^ n)
ShiftRight(x, n) == x \div 2 ^ n

\* The bits that depth d stands for; those beyond the key are zero.
GetPosition(k, d) ==
  LET start == (d - 1) * SECONDARY_POW + PRIMARY_POW
      over == start + SECONDARY_POW - KEY_BITS
  IN IF d = 0 THEN ShiftRight(k, KEY_BITS - PRIMARY_POW)
     ELSE IF over < 0 THEN ShiftRight(ShiftLeft(k, start), KEY_BITS - SECONDARY_POW)
     ELSE ShiftLeft(ShiftRight(ShiftLeft(k, start), KEY_BITS - SECONDARY_POW + over), over)

LocationOf(k, d) == [i \in 1 .. d + 1 |-> GetPosition(k, i - 1)]
Locations == {LocationOf(k, d) : k \in Keys, d \in 0 .. MaxDepth}
DepthOf(loc) == Len(loc) - 1

\* The positions of a key tell it from every other key.
ASSUME PathsAssumption ==
  \A k, l \in Keys : LocationOf(k, MaxDepth) = LocationOf(l, MaxDepth) => k = l

-----------------------------------------------------------------------------

IsNode(w) == w \in Nodes
NumThreads == Cardinality(Threads)

Init ==
  /\ tree = [loc \in Locations |-> Null]
  /\ key_ = [n \in Nodes |-> Null]
  /\ value_ = [n \in Nodes |-> Null]
  /\ access_count_ = [n \in Nodes |-> 0]
  /\ size_ \in InitialSizes
  /\ op_table_ = [t \in Threads |-> Null]
  /\ call = [t \in Threads |-> Null]
  /\ va = [t \in Threads |-> Null]
  /\ allocated = {}
  /\ retired = {}
  /\ dead = {}
  /\ seen = [t \in Threads |-> {}]

At(t, l) == call[t] # Null /\ call[t].at = l
Kind(t) == call[t].kind
Key(t) == call[t].key
Loc(t) == call[t].loc
Cur(t) == call[t].cur

Become(t, c) == call' = [call EXCEPT ![t] = c]
Goto(t, l) == Become(t, [call[t] EXCEPT !.at = l])
GotoWith(t, l, n) == Become(t, [call[t] EXCEPT !.at = l, !.cur = n])
Decide(t, res) == Become(t, [call[t] EXCEPT !.at = "done", !.res = res, !.cur = Null])

\* A round that failed.  remove has nothing to announce: it counts anew.
Delayed(t) ==
  Become(t, [call[t] EXCEPT !.at = "load", !.cur = Null,
                            !.left = IF @ = 1 /\ Kind(t) = "remove" THEN LIMIT ELSE @ - 1])

\* compare_exchange of a location.
Cas(loc, old, new) == tree' = IF tree[loc] = old THEN [tree EXCEPT ![loc] = new] ELSE tree

-----------------------------------------------------------------------------
(* What the map holds                                                      *)

Linked(n) == \E loc \in Locations : tree[loc] = n
Holder(k) == {n \in Nodes : Linked(n) /\ n \notin dead /\ key_[n] = k}
Map == [k \in Keys |-> IF Holder(k) = {} THEN Null ELSE value_[CHOOSE n \in Holder(k) : TRUE]]
Readers == [k \in Keys |-> IF Holder(k) = {} THEN 0 ELSE access_count_[CHOOSE n \in Holder(k) : TRUE]]
State == [k \in Keys |-> IF Map[k] = Null THEN "absent" ELSE IF Readers[k] = 0 THEN "free" ELSE "read"]

\* A call is decided before the steps that only tidy up after it.
After == {"unlink", "shrink", "retire", "grow", "release", "done"}
Decided(t) == call[t].at \in After
Look == seen' = [t \in Threads |->
                   IF call'[t] = Null \/ call'[t].at \in After THEN {}
                   ELSE (IF call[t] = Null THEN {} ELSE seen[t]) \cup {State'[call'[t].key]}]

-----------------------------------------------------------------------------
(* The calls *)

NewCall(kind, k, v, n) ==
  [kind |-> kind, key |-> k, value |-> v, node |-> n, at |-> "load", loc |-> LocationOf(k, 0), cur |-> Null,
   left |-> LIMIT, res |-> Null, force |-> Null]

\* insert checks for an announcement first: one is met, or none.
CallInsert(t) ==
  /\ call[t] = Null
  /\ \E k \in Keys, v \in Values, n \in Nodes \ allocated,
        loc \in {Null} \cup {op_table_[u] : u \in Threads} :
       /\ allocated' = allocated \cup {n}
       /\ key_' = [key_ EXCEPT ![n] = k]
       /\ value_' = [value_ EXCEPT ![n] = v]
       /\ access_count_' = [access_count_ EXCEPT ![n] = 0]
       /\ Become(t, [NewCall("insert", k, v, n) EXCEPT
                       !.force = loc, !.at = IF loc = Null THEN "load" ELSE "force"])
  /\ UNCHANGED <<tree, size_, op_table_, va, retired, dead>>

CallRemoveOrAt(t) ==
  /\ call[t] = Null
  /\ \E kind \in {"remove", "at"}, k \in Keys : Become(t, NewCall(kind, k, Null, Null))
  /\ UNCHANGED <<tree, nodeVars, access_count_, size_, op_table_, va, retired, dead>>

\* isDelayed(0)
IsDelayed(t) == call[t].left = 0

Announce(t) ==
  /\ At(t, "load") /\ IsDelayed(t)
  /\ op_table_' = [op_table_ EXCEPT ![t] = Loc(t)]
  /\ Become(t, [call[t] EXCEPT !.at = "force", !.force = Loc(t)])
  /\ UNCHANGED <<tree, nodeVars, access_count_, size_, va, retired, dead>>

\* hp_watch_and_get_value: the first read.  A data node is watched, and then
\* must still be there.
Load(t) ==
  LET w == tree[Loc(t)] IN
  /\ At(t, "load") /\ ~IsDelayed(t)
  /\ IF w = Null
     THEN IF Kind(t) = "insert" THEN Goto(t, "place") ELSE Decide(t, "refused")
     ELSE IF IsNode(w) THEN GotoWith(t, "validate", w)
     ELSE Become(t, [call[t] EXCEPT !.loc = LocationOf(Key(t), DepthOf(Loc(t)) + 1)])
  /\ UNCHANGED <<tree, nodeVars, access_count_, size_, op_table_, va, retired, dead>>

SameKey(t) == key_[Cur(t)] = Key(t)

Validate(t) ==
  /\ At(t, "validate")
  /\ IF tree[Loc(t)] # Cur(t) THEN Delayed(t)
     ELSE IF Kind(t) = "insert" THEN Goto(t, "alive")
     ELSE IF ~SameKey(t) THEN Decide(t, "refused")
     ELSE Goto(t, IF Kind(t) = "at" THEN "count" ELSE "kill")
  /\ UNCHANGED <<tree, nodeVars, access_count_, size_, op_table_, va, retired, dead>>

-----------------------------------------------------------------------------
(* at *)

Add(n, i) == access_count_' = [access_count_ EXCEPT ![n] = @ + i]

\* Instead of CountAccess: the sign of the count is not looked at.
CountAccessBlind(t) ==
  /\ At(t, "count")
  /\ Add(Cur(t), 1)
  /\ va' = [va EXCEPT ![t] = Cur(t)]
  /\ Become(t, [call[t] EXCEPT !.at = IF va[t] = Null THEN "done" ELSE "release",
                               !.res = value_[Cur(t)], !.cur = va[t]])
  /\ UNCHANGED <<tree, nodeVars, size_, op_table_, retired, dead>>

\* The access count is raised; it was negative if the node was deleted.
CountAccess(t) ==
  /\ At(t, "count")
  /\ Add(Cur(t), 1)
  /\ IF access_count_[Cur(t)] >= 0
     THEN /\ Become(t, [call[t] EXCEPT !.at = IF va[t] = Null THEN "done" ELSE "release",
                                       !.res = value_[Cur(t)], !.cur = va[t]])
          /\ va' = [va EXCEPT ![t] = Cur(t)]
     ELSE Goto(t, "uncount") /\ UNCHANGED va
  /\ UNCHANGED <<tree, nodeVars, size_, op_table_, retired, dead>>

Uncount(t) ==
  /\ At(t, "uncount")
  /\ Add(Cur(t), -1)
  /\ Decide(t, "refused")
  /\ UNCHANGED <<tree, nodeVars, size_, op_table_, va, retired, dead>>

\* ValueAccessor::init lets go of the node the accessor named before.
Release(t) ==
  /\ At(t, "release")
  /\ Add(Cur(t), -1)
  /\ GotoWith(t, "done", Null)
  /\ UNCHANGED <<tree, nodeVars, size_, op_table_, va, retired, dead>>

\* ValueAccessor::reset.
Reset(t) ==
  /\ call[t] = Null /\ va[t] # Null
  /\ Add(va[t], -1)
  /\ va' = [va EXCEPT ![t] = Null]
  /\ UNCHANGED <<tree, nodeVars, size_, op_table_, call, retired, dead>>

-----------------------------------------------------------------------------
(* insert *)

Place(t) ==
  /\ At(t, "place")
  /\ Cas(Loc(t), Null, call[t].node)
  /\ IF tree[Loc(t)] = Null THEN Goto(t, "grow") ELSE Delayed(t)
  /\ UNCHANGED <<nodeVars, access_count_, size_, op_table_, va, retired, dead>>

\* A dead node may be replaced, the key of a live one is present, another live
\* one has to move.
SeeAlive(t) ==
  /\ At(t, "alive")
  /\ IF access_count_[Cur(t)] < 0 THEN Goto(t, "replace")
     ELSE IF SameKey(t) THEN Decide(t, "refused")
     ELSE Goto(t, "expand")
  /\ UNCHANGED <<tree, nodeVars, access_count_, size_, op_table_, va, retired, dead>>

Replace(t) ==
  /\ At(t, "replace")
  /\ Cas(Loc(t), Cur(t), call[t].node)
  /\ IF tree[Loc(t)] = Cur(t) THEN Goto(t, "retire") ELSE Delayed(t)
  /\ UNCHANGED <<nodeVars, access_count_, size_, op_table_, va, retired, dead>>

Retire(t) ==
  /\ At(t, "retire")
  /\ retired' = retired \cup {Cur(t)}
  /\ GotoWith(t, IF Kind(t) = "insert" THEN "grow" ELSE "done", Null)
  /\ UNCHANGED <<tree, nodeVars, access_count_, size_, op_table_, va, dead>>

Grow(t) ==
  /\ At(t, "grow")
  /\ size_' = size_ + 1
  /\ Goto(t, "done") 
  /\ UNCHANGED <<tree, nodeVars, access_count_, op_table_, va, retired, dead>>

\* Instead of ExpandMap: the array is stored without a compare_exchange.
ExpandMapBlind(loc, n) ==
  tree' = IF n = Null THEN [tree EXCEPT ![loc] = "array"]
          ELSE [tree EXCEPT ![loc] = "array", ![LocationOf(key_[n], DepthOf(loc) + 1)] = n]

\* expand_map: an array, with the node that was there at its next position.
ExpandMap(loc, n) ==
  tree' = IF tree[loc] # n THEN tree
          ELSE IF n = Null THEN [tree EXCEPT ![loc] = "array"]
          ELSE [tree EXCEPT ![loc] = "array", ![LocationOf(key_[n], DepthOf(loc) + 1)] = n]

Expand(t) ==
  /\ At(t, "expand")
  /\ ExpandMap(Loc(t), Cur(t))
  /\ GotoWith(t, "load", Null)
  /\ UNCHANGED <<nodeVars, access_count_, size_, op_table_, va, retired, dead>>

-----------------------------------------------------------------------------
(* remove *)

\* Instead of DeadCount: a count that the other threads' at() can bring to zero.
DeadCountShort == 1 - NumThreads

DeadCount == -NumThreads

\* Instead of Kill: size_ is left alone.
KillUncounted(t) ==
  /\ At(t, "kill")
  /\ IF access_count_[Cur(t)] = 0
     THEN /\ access_count_' = [access_count_ EXCEPT ![Cur(t)] = DeadCount]
          /\ dead' = dead \cup {Cur(t)}
          /\ Become(t, [call[t] EXCEPT !.at = "unlink", !.res = "done"])
     ELSE Decide(t, "refused") /\ UNCHANGED <<access_count_, dead>>
  /\ UNCHANGED <<tree, nodeVars, size_, op_table_, va, retired>>

Kill(t) ==
  /\ At(t, "kill")
  /\ IF access_count_[Cur(t)] = 0
     THEN /\ access_count_' = [access_count_ EXCEPT ![Cur(t)] = DeadCount]
          /\ dead' = dead \cup {Cur(t)}
          /\ Become(t, [call[t] EXCEPT !.at = "shrink", !.res = "done"])
     ELSE Decide(t, "refused") /\ UNCHANGED <<access_count_, dead>>
  /\ UNCHANGED <<tree, nodeVars, size_, op_table_, va, retired>>

Shrink(t) ==
  /\ At(t, "shrink")
  /\ size_' = size_ - 1
  /\ Goto(t, "unlink")
  /\ UNCHANGED <<tree, nodeVars, access_count_, op_table_, va, retired, dead>>

\* Instead of Unlink: the node is retired though it may still be linked elsewhere.
UnlinkAnyway(t) ==
  /\ At(t, "unlink")
  /\ Cas(Loc(t), Cur(t), Null)
  /\ Goto(t, "retire")
  /\ UNCHANGED <<nodeVars, access_count_, size_, op_table_, va, retired, dead>>

\* A node that was moved meanwhile is left to an insert that meets it.
Unlink(t) ==
  /\ At(t, "unlink")
  /\ Cas(Loc(t), Cur(t), Null)
  /\ IF tree[Loc(t)] = Cur(t) THEN Goto(t, "retire") ELSE GotoWith(t, "done", Null)
  /\ UNCHANGED <<nodeVars, access_count_, size_, op_table_, va, retired, dead>>

-----------------------------------------------------------------------------
(* ForceExpandOp::help_complete, of the thread's own or of one it met      *)

ForceDone(t) ==
  /\ Become(t, [call[t] EXCEPT !.at = "load", !.cur = Null, !.force = Null, !.left = LIMIT])
  /\ op_table_' = [op_table_ EXCEPT ![t] = Null]

ForceLoad(t) ==
  LET loc == call[t].force IN
  /\ At(t, "force")
  /\ IF DepthOf(loc) >= MaxDepth \/ tree[loc] = "array" THEN ForceDone(t)
     ELSE GotoWith(t, IF tree[loc] = Null THEN "force_expand" ELSE "force_validate", tree[loc])
          /\ UNCHANGED op_table_
  /\ UNCHANGED <<tree, nodeVars, access_count_, size_, va, retired, dead>>

ForceValidate(t) ==
  /\ At(t, "force_validate")
  /\ IF tree[call[t].force] = Cur(t) THEN Goto(t, "force_expand") ELSE GotoWith(t, "force", Null)
  /\ UNCHANGED <<tree, nodeVars, access_count_, size_, op_table_, va, retired, dead>>

ForceExpand(t) ==
  /\ At(t, "force_expand")
  /\ ExpandMap(call[t].force, Cur(t))
  /\ GotoWith(t, "force", Null)
  /\ UNCHANGED <<nodeVars, access_count_, size_, op_table_, va, retired, dead>>

-----------------------------------------------------------------------------

Deallocate(n) ==
  /\ allocated' = allocated \ {n}
  /\ key_' = [key_ EXCEPT ![n] = Null]
  /\ value_' = [value_ EXCEPT ![n] = Null]
  /\ access_count_' = [access_count_ EXCEPT ![n] = 0]

\* Instead of Return: the node is deleted after an insert that succeeded, too.
ReturnDeletes(t) ==
  /\ At(t, "done")
  /\ call' = [call EXCEPT ![t] = Null]
  /\ IF Kind(t) = "insert" THEN Deallocate(call[t].node) ELSE UNCHANGED <<nodeVars, access_count_>>
  /\ UNCHANGED <<tree, size_, op_table_, va, retired, dead>>

\* A call returns; the node of an insert that was refused is deleted.
Return(t) ==
  /\ At(t, "done")
  /\ call' = [call EXCEPT ![t] = Null]
  /\ IF Kind(t) = "insert" /\ call[t].res = "refused" THEN Deallocate(call[t].node)
     ELSE UNCHANGED <<nodeVars, access_count_>>
  /\ UNCHANGED <<tree, size_, op_table_, va, retired, dead>>

\* What a thread has under its SHORTUSE watch.
Watches(t) ==
  IF call[t] # Null /\ call[t].at \in {"alive", "count", "uncount", "kill", "replace", "expand",
                                       "shrink", "unlink", "force_expand"}
  THEN {Cur(t)} \ {Null} ELSE {}

\* The hazard pointer library frees a node (external: module Reclamation).
Free(n) ==
  /\ n \in retired
  /\ \A t \in Threads : n \notin Watches(t)
  /\ retired' = retired \ {n}
  /\ Deallocate(n)
  /\ dead' = dead \ {n}
  /\ UNCHANGED <<tree, size_, op_table_, call, va>>

Step(t) ==
  \/ Announce(t) \/ Load(t) \/ Validate(t)
  \/ CountAccess(t) \/ Uncount(t) \/ Release(t)
  \/ Place(t) \/ SeeAlive(t) \/ Replace(t) \/ Retire(t) \/ Grow(t) \/ Expand(t)
  \/ Kill(t) \/ Shrink(t) \/ Unlink(t)
  \/ ForceLoad(t) \/ ForceValidate(t) \/ ForceExpand(t)
  \/ Return(t)

Next ==
  /\ \/ \E t \in Threads : CallInsert(t) \/ CallRemoveOrAt(t) \/ Reset(t) \/ Step(t)
     \/ \E n \in Nodes : Free(n)
  /\ Look

Spec == Init /\ [][Next]_vars

-----------------------------------------------------------------------------

Calls ==
  [kind : {"insert", "remove", "at"}, key : Keys, value : Values \cup {Null}, node : Nodes \cup {Null},
   at : {"load", "place", "validate", "alive", "count", "kill", "uncount", "release", "replace",
         "retire", "grow", "expand", "shrink", "unlink", "force", "force_validate", "force_expand",
         "done"},
   loc : Locations, cur : Nodes \cup {Null}, left : Int,
   res : Values \cup {Null, "refused", "done"}, force : Locations \cup {Null}]

ASSUME CallsAssumption == Null \notin Locations /\ Null \notin Calls

TypeOK ==
  /\ tree \in [Locations -> Nodes \cup {Null, "array"}]
  /\ \A n \in allocated : key_[n] \in Keys /\ value_[n] \in Values
  /\ access_count_ \in [Nodes -> Int] /\ size_ \in Int
  /\ op_table_ \in [Threads -> Locations \cup {Null}]
  /\ va \in [Threads -> Nodes \cup {Null}]
  /\ retired \subseteq allocated /\ dead \subseteq allocated
  /\ call \in [Threads -> Calls \cup {Null}]

\* Every node of the map is on the path of its key, below arrays only, and
\* once: an expansion and a remove of the same node do not lose or double it.
OnItsPath ==
  \A loc \in Locations :
    /\ IsNode(tree[loc]) =>
         /\ loc = LocationOf(key_[tree[loc]], DepthOf(loc))
         /\ tree[loc] \in allocated \ retired
         /\ \A other \in Locations : tree[other] = tree[loc] => other = loc
    /\ tree[loc] # Null /\ DepthOf(loc) > 0 => tree[SubSeq(loc, 1, Len(loc) - 1)] = "array"

\* Nobody uses a node whose memory was given back: neither under a watch nor,
\* long after the call, through a ValueAccessor.
NoUseAfterFree ==
  \A t \in Threads :
    /\ Watches(t) \subseteq allocated
    /\ va[t] # Null => va[t] \in allocated \ (retired \cup dead)
    /\ At(t, "release") => Cur(t) \in allocated

\* A node that a remove marked is never taken for a live one again, though
\* every at() that finds it raises the count for a moment: the count must stay
\* negative for whoever looks (wf_hash_map.h:498, 571 and 649).
DeadStaysDead ==
  \A t \in Threads : (At(t, "count") \/ At(t, "alive") \/ At(t, "kill")) /\ Cur(t) \in dead =>
    access_count_[Cur(t)] < 0

\* size_ counts the keys, up to the calls that have not counted theirs yet.
SizeAddsUp ==
  size_ = Cardinality({k \in Keys : Holder(k) # {}})
            + Cardinality({t \in Threads : At(t, "shrink")})
            - Cardinality({t \in Threads : At(t, "grow") \/ (At(t, "retire") /\ Kind(t) = "insert")})

Pending(t) ==
  IF call[t] = Null THEN Null
  ELSE IF Kind(t) = "insert" THEN [kind |-> "insert", key |-> Key(t), value |-> call[t].value]
  ELSE [kind |-> Kind(t), key |-> Key(t)]

Outcome(t) ==
  IF call[t] = Null \/ ~Decided(t) THEN Null
  ELSE IF Kind(t) = "insert" /\ call[t].res = Null THEN "done" ELSE call[t].res

Abstract == INSTANCE AbstractMap WITH
  map <- Map, readers <- Readers,
  pending <- [t \in Threads |-> Pending(t)],
  outcome <- [t \in Threads |-> Outcome(t)]

\* The calls of the abstract map are records.
ASSUME PendingAssumption == Null \notin Abstract!Calls

\* insert, remove and at are linearizable, and a key that is being read is not
\* removed (wf_hash_map.h:106-144).
RefinesMap == Abstract!Spec
=============================================================================
