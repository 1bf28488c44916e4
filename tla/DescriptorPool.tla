--------------------------- MODULE DescriptorPool ---------------------------
(***************************************************************************)
(* The reference counted descriptors of tervel/util/memory/rc: watch and   *)
(* unwatch (descriptor_util.h), the pools each thread takes descriptors    *)
(* from and gives them back to (descriptor_pool.cc), and the PoolManager   *)
(* the threads exchange descriptors through (pool_manager.cc).             *)
(*                                                                         *)
(* Memory is never handed back before the end, so a count can always be    *)
(* raised; what a watch must prevent is that a descriptor is given out     *)
(* again.  One action per access of a shared word, the list surgery of the *)
(* owner of a pool in the step before it.                                  *)
(***************************************************************************)
EXTENDS Naturals, Sequences, SequencesExt, FiniteSets

CONSTANTS
  NumThreads,
  Elems,      \* bound: the PoolElements that can be allocated
  MIN_NODES, MAX_NODES,
  Null

ASSUME NumThreadsAssumption == NumThreads \in Nat \ {0}
ASSUME NodesAssumption == MIN_NODES \in Nat /\ MAX_NODES \in Nat /\ MIN_NODES < MAX_NODES
ASSUME NullAssumption == Null \notin Elems

Threads == 0 .. (NumThreads - 1)

VARIABLES
  ref_count,
  safe_pool_, safe_pool_count_,      \* of the pool of each thread
  unsafe_pool_, unsafe_pool_count_,
  managed_safe, managed_unsafe,      \* pools_[t] of the PoolManager
  allocated,  \* the elements that were allocated
  cell,       \* the shared address descriptors are placed at
  owned,      \* per thread, the descriptors it got and has not freed
  placed,     \* the descriptors that were at the address and are not safe again
  watching,   \* the descriptor a thread is watching, or Null
  pc,
  pos,        \* loop variable of try_clear_unsafe_pool and get_safe_elements
  leaving,    \* the thread is destroying its pool
  chain       \* the list a thread is handing to the manager

clientVars == <<cell, owned, placed, watching>>
localVars == <<safe_pool_, safe_pool_count_, unsafe_pool_, unsafe_pool_count_>>
vars == <<ref_count, localVars, managed_safe, managed_unsafe, allocated, clientVars, pc, pos, leaving,
          chain>>

\* A thread attaches: the constructor of its pool reserves MIN_NODES elements.
Init ==
  /\ ref_count = [e \in Elems |-> 0]
  /\ safe_pool_ \in [Threads -> [1 .. MIN_NODES -> Elems]]
  /\ \A t, u \in Threads : \A i, j \in 1 .. MIN_NODES :
       safe_pool_[t][i] = safe_pool_[u][j] => t = u /\ i = j
  /\ safe_pool_count_ = [t \in Threads |-> MIN_NODES]
  /\ unsafe_pool_ = [t \in Threads |-> <<>>]
  /\ unsafe_pool_count_ = [t \in Threads |-> 0]
  /\ managed_safe = [t \in Threads |-> <<>>]
  /\ managed_unsafe = [t \in Threads |-> <<>>]
  /\ allocated = {safe_pool_[t][i] : t \in Threads, i \in 1 .. MIN_NODES}
  /\ cell = Null
  /\ owned = [t \in Threads |-> {}]
  /\ placed = {}
  /\ watching = [t \in Threads |-> Null]
  /\ pc = [t \in Threads |-> "out"]
  /\ pos = [t \in Threads |-> 0]
  /\ leaving = [t \in Threads |-> FALSE]
  /\ chain = [t \in Threads |-> <<>>]

Goto(t, l) == pc' = [pc EXCEPT ![t] = l]
Watched(e) == ref_count[e] > 0
Fresh == Elems \ allocated

-----------------------------------------------------------------------------
(* watch, unwatch *)

CountForgotten(e, n) == UNCHANGED ref_count      \* a mutant
Count(e, n) == ref_count' = [ref_count EXCEPT ![e] = @ + n]
Uncount(e) == ref_count' = [ref_count EXCEPT ![e] = @ - 1]

\* The address was read, the count of what was there is raised.
CallWatch(t) ==
  /\ pc[t] = "out" /\ cell # Null
  /\ watching' = [watching EXCEPT ![t] = cell]
  /\ Goto(t, "count")
  /\ UNCHANGED <<ref_count, localVars, managed_safe, managed_unsafe, allocated, cell, owned, placed, pos, leaving, chain>>

WatchCount(t) ==
  /\ pc[t] = "count"
  /\ Count(watching[t], 1)
  /\ Goto(t, "validate")
  /\ UNCHANGED <<localVars, managed_safe, managed_unsafe, allocated, clientVars, pos, leaving, chain>>

\* Is it still there?
StillThereUnchecked(t) == TRUE                   \* a mutant
StillThere(t) == cell = watching[t]

\* on_watch may refuse it too.
WatchValidate(t) ==
  /\ pc[t] = "validate"
  /\ \E success \in BOOLEAN : Goto(t, IF StillThere(t) /\ success THEN "using" ELSE "uncount")
  /\ UNCHANGED <<ref_count, localVars, managed_safe, managed_unsafe, allocated, clientVars, pos, leaving, chain>>

Unwatch(t) ==
  /\ pc[t] \in {"using", "uncount"}
  /\ Uncount(watching[t])
  /\ watching' = [watching EXCEPT ![t] = Null]
  /\ Goto(t, "out")
  /\ UNCHANGED <<localVars, managed_safe, managed_unsafe, allocated, cell, owned, placed, pos, leaving, chain>>

-----------------------------------------------------------------------------
(* The client: a descriptor is placed once, anyone who watches it and its  *)
(* owner may remove it, its owner frees it when it is not there.           *)

Place(t) ==
  /\ pc[t] = "out" /\ cell = Null
  /\ \E e \in owned[t] \ placed : cell' = e /\ placed' = placed \cup {e}
  /\ UNCHANGED <<ref_count, localVars, managed_safe, managed_unsafe, allocated, owned, watching, pc, pos, leaving, chain>>

TakeOff(t) ==
  /\ cell # Null
  /\ (pc[t] = "out" /\ cell \in owned[t]) \/ (pc[t] = "using" /\ StillThere(t))
  /\ cell' = Null
  /\ UNCHANGED <<ref_count, localVars, managed_safe, managed_unsafe, allocated, owned, placed, watching, pc, pos, leaving, chain>>

-----------------------------------------------------------------------------
(* The pool of a thread                                                    *)

Push(e, list) == <<e>> \o list
Without(list, i) == RemoveAt(list, i)

AddToSafeUncounted(t, e) ==                      \* a mutant
  /\ safe_pool_' = [safe_pool_ EXCEPT ![t] = Push(e, @)]
  /\ UNCHANGED safe_pool_count_

AddToSafe(t, e) ==
  /\ safe_pool_' = [safe_pool_ EXCEPT ![t] = Push(e, @)]
  /\ safe_pool_count_' = [safe_pool_count_ EXCEPT ![t] = @ + 1]

\* get_from_pool, and the destructor, begin with try_clear_unsafe_pool.
Begin(t, last) ==
  /\ pc[t] = "out"
  /\ Goto(t, "clear")
  /\ leaving' = [leaving EXCEPT ![t] = last]
  /\ pos' = [pos EXCEPT ![t] = 2]
  /\ UNCHANGED <<ref_count, localVars, managed_safe, managed_unsafe, allocated, clientVars, chain>>

GetDescriptor(t) == Begin(t, FALSE)
Detach(t) == owned[t] = {} /\ Begin(t, TRUE)

\* The next element of the unsafe pool: the head is looked at last.
Position(t) == IF pos[t] <= Len(unsafe_pool_[t]) THEN pos[t] ELSE 1

\* Where the thread goes when the unsafe pool was looked through.
Cleared(t) ==
  /\ Goto(t, IF leaving[t] THEN "send_unsafe"
             ELSE IF safe_pool_[t]' = <<>> THEN "peek" ELSE "pop")
  /\ pos' = [pos EXCEPT ![t] = 0]

ClearUnsafe(t) ==
  LET k == Position(t) IN
  /\ pc[t] = "clear"
  /\ IF unsafe_pool_[t] = <<>> \/ Watched(unsafe_pool_[t][k])
     THEN UNCHANGED <<localVars, placed>>
     ELSE /\ AddToSafe(t, unsafe_pool_[t][k])
          /\ placed' = placed \ {unsafe_pool_[t][k]}
          /\ unsafe_pool_' = [unsafe_pool_ EXCEPT ![t] = Without(@, k)]
          /\ unsafe_pool_count_' = [unsafe_pool_count_ EXCEPT ![t] = @ - 1]
  /\ IF unsafe_pool_[t] = <<>> \/ k = 1
     THEN Cleared(t)
     ELSE /\ pos' = [pos EXCEPT ![t] = IF Len(unsafe_pool_[t]') = Len(unsafe_pool_[t]) THEN k + 1 ELSE k]
          /\ UNCHANGED pc
  /\ UNCHANGED <<ref_count, managed_safe, managed_unsafe, allocated, cell, owned, watching, leaving, chain>>

\* get_safe_elements: the manager's pools are emptied one after the other.
NextPool(t, l) ==
  /\ pos' = [pos EXCEPT ![t] = @ + 1]
  /\ Goto(t, IF pos[t] + 1 = NumThreads THEN "allocate" ELSE l)

Peek(t) ==
  /\ pc[t] = "peek"
  /\ IF managed_safe[pos[t]] = <<>> THEN NextPool(t, "peek") ELSE Goto(t, "exchange") /\ UNCHANGED pos
  /\ UNCHANGED <<ref_count, localVars, managed_safe, managed_unsafe, allocated, clientVars, leaving, chain>>

Exchange(t) ==
  LET got == managed_safe[pos[t]] IN
  /\ pc[t] = "exchange"
  /\ managed_safe' = [managed_safe EXCEPT ![pos[t]] = <<>>]
  /\ safe_pool_' = [safe_pool_ EXCEPT ![t] = got \o @]
  /\ safe_pool_count_' = [safe_pool_count_ EXCEPT ![t] = @ + Len(got)]
  /\ IF got # <<>> /\ safe_pool_count_[t]' >= MIN_NODES
     THEN Goto(t, "allocate") /\ UNCHANGED pos
     ELSE NextPool(t, "peek")
  /\ UNCHANGED <<ref_count, unsafe_pool_, unsafe_pool_count_, managed_unsafe, allocated, clientVars, leaving, chain>>

\* reserve allocates what is missing.
Allocate(t) ==
  /\ pc[t] = "allocate"
  /\ IF safe_pool_count_[t] < MIN_NODES
     THEN /\ \E e \in Fresh : AddToSafe(t, e) /\ allocated' = allocated \cup {e}
          /\ UNCHANGED pc
     ELSE Goto(t, "pop") /\ UNCHANGED <<safe_pool_, safe_pool_count_, allocated>>
  /\ UNCHANGED <<ref_count, unsafe_pool_, unsafe_pool_count_, managed_safe, managed_unsafe, clientVars, pos, leaving, chain>>

Pop(t) ==
  /\ pc[t] = "pop"
  /\ IF safe_pool_[t] # <<>>
     THEN /\ owned' = [owned EXCEPT ![t] = @ \cup {Head(safe_pool_[t])}]
          /\ safe_pool_' = [safe_pool_ EXCEPT ![t] = Tail(@)]
          /\ safe_pool_count_' = [safe_pool_count_ EXCEPT ![t] = @ - 1]
          /\ UNCHANGED allocated
     ELSE /\ \E e \in Fresh : owned' = [owned EXCEPT ![t] = @ \cup {e}] /\ allocated' = allocated \cup {e}
          /\ UNCHANGED <<safe_pool_, safe_pool_count_>>
  /\ Goto(t, "out")
  /\ UNCHANGED <<ref_count, unsafe_pool_, unsafe_pool_count_, managed_safe, managed_unsafe,
                 cell, placed, watching, pos, leaving, chain>>

-----------------------------------------------------------------------------
(* free_descriptor                                                         *)

\* offload: what is above MIN_NODES of a pool that exceeds MAX_NODES.
Extra(count) == IF count > MAX_NODES THEN count - MIN_NODES ELSE 0

\* dont_check is for a descriptor nobody else had access to.
FreeDescriptor(t) ==
  /\ pc[t] = "out"
  /\ \E e \in owned[t] \ {cell}, dont_check \in BOOLEAN :
       LET safe == dont_check \/ ~Watched(e)
           list == IF safe THEN Push(e, safe_pool_[t]) ELSE safe_pool_[t]
           count == IF safe THEN safe_pool_count_[t] + 1 ELSE safe_pool_count_[t]
           extra == Extra(count)
       IN
       /\ dont_check => e \notin placed
       /\ safe_pool_' = [safe_pool_ EXCEPT ![t] = SubSeq(list, extra + 1, Len(list))]
       /\ safe_pool_count_' = [safe_pool_count_ EXCEPT ![t] = count - extra]
       /\ IF safe THEN UNCHANGED <<unsafe_pool_, unsafe_pool_count_>>
          ELSE /\ unsafe_pool_' = [unsafe_pool_ EXCEPT ![t] = Push(e, @)]
               /\ unsafe_pool_count_' = [unsafe_pool_count_ EXCEPT ![t] = @ + 1]
       /\ owned' = [owned EXCEPT ![t] = @ \ {e}]
       /\ placed' = IF safe THEN placed \ {e} ELSE placed
       /\ chain' = [chain EXCEPT ![t] = SubSeq(list, 1, extra)]
       /\ Goto(t, IF extra = 0 THEN "out" ELSE "add")
  /\ UNCHANGED <<ref_count, managed_safe, managed_unsafe, allocated, cell, watching, pos, leaving>>

\* add_safe_elements: what the manager's pool holds is taken and appended.
AddLoadBlind(t) ==                               \* a mutant
  /\ pc[t] = "add"
  /\ Goto(t, "add_store")
  /\ UNCHANGED <<ref_count, localVars, managed_safe, managed_unsafe, allocated, clientVars, pos, leaving, chain>>

AddLoad(t) ==
  /\ pc[t] = "add"
  /\ Goto(t, IF managed_safe[t] = <<>> THEN "add_store" ELSE "add_exchange")
  /\ UNCHANGED <<ref_count, localVars, managed_safe, managed_unsafe, allocated, clientVars, pos, leaving, chain>>

AddExchange(t) ==
  /\ pc[t] = "add_exchange"
  /\ managed_safe' = [managed_safe EXCEPT ![t] = <<>>]
  /\ chain' = [chain EXCEPT ![t] = @ \o managed_safe[t]]
  /\ Goto(t, "add_store")
  /\ UNCHANGED <<ref_count, localVars, managed_unsafe, allocated, clientVars, pos, leaving>>

AddStore(t) ==
  /\ pc[t] = "add_store"
  /\ managed_safe' = [managed_safe EXCEPT ![t] = chain[t]]
  /\ chain' = [chain EXCEPT ![t] = <<>>]
  /\ Goto(t, IF leaving[t] THEN "gone" ELSE "out")
  /\ UNCHANGED <<ref_count, localVars, managed_unsafe, allocated, clientVars, pos, leaving>>

\* The end of the destructor: what is left goes to the manager.
SendUnsafe(t) ==
  /\ pc[t] = "send_unsafe"
  /\ managed_unsafe' = [managed_unsafe EXCEPT ![t] = unsafe_pool_[t]]
  /\ unsafe_pool_' = [unsafe_pool_ EXCEPT ![t] = <<>>]
  /\ unsafe_pool_count_' = [unsafe_pool_count_ EXCEPT ![t] = 0]
  /\ chain' = [chain EXCEPT ![t] = safe_pool_[t]]
  /\ safe_pool_' = [safe_pool_ EXCEPT ![t] = <<>>]
  /\ safe_pool_count_' = [safe_pool_count_ EXCEPT ![t] = 0]
  /\ Goto(t, IF safe_pool_[t] = <<>> THEN "gone" ELSE "add")
  /\ UNCHANGED <<ref_count, managed_safe, allocated, clientVars, pos, leaving>>

-----------------------------------------------------------------------------

Next ==
  \E t \in Threads :
    \/ CallWatch(t) \/ WatchCount(t) \/ WatchValidate(t) \/ Unwatch(t)
    \/ Place(t) \/ TakeOff(t)
    \/ GetDescriptor(t) \/ ClearUnsafe(t) \/ Peek(t) \/ Exchange(t) \/ Allocate(t) \/ Pop(t)
    \/ FreeDescriptor(t) \/ AddLoad(t) \/ AddExchange(t) \/ AddStore(t)
    \/ Detach(t) \/ SendUnsafe(t)

Spec == Init /\ [][Next]_vars

-----------------------------------------------------------------------------

Lists == {safe_pool_, unsafe_pool_, managed_safe, managed_unsafe, chain}

TypeOK ==
  /\ ref_count \in [Elems -> Nat]
  /\ \A list \in Lists : list \in [Threads -> Seq(Elems)]
  /\ \A count \in {safe_pool_count_, unsafe_pool_count_, pos} : count \in [Threads -> Nat]
  /\ allocated \subseteq Elems /\ placed \subseteq Elems
  /\ leaving \in [Threads -> BOOLEAN]
  /\ cell \in Elems \cup {Null}
  /\ owned \in [Threads -> SUBSET Elems]
  /\ watching \in [Threads -> Elems \cup {Null}]
  /\ pc \in [Threads -> {"out", "count", "validate", "using", "uncount", "clear",
                         "peek", "exchange", "allocate", "pop", "add", "add_exchange",
                         "add_store", "send_unsafe", "gone"}]

\* The counts kept beside the lists are their lengths (verify_pool_count).
CountsMatch ==
  \A t \in Threads :
    /\ safe_pool_count_[t] = Len(safe_pool_[t])
    /\ unsafe_pool_count_[t] = Len(unsafe_pool_[t])

ListNames == {"safe", "unsafe", "managed", "managed_unsafe", "chain"}

ListOf(list, t) ==
  CASE list = "safe" -> safe_pool_[t]
    [] list = "unsafe" -> unsafe_pool_[t]
    [] list = "managed" -> managed_safe[t]
    [] list = "managed_unsafe" -> managed_unsafe[t]
    [] list = "chain" -> chain[t]

\* Where an element is: with an owner, or at a position of a list.
Whereabouts(e) ==
  {<<"owner", t, 0>> : t \in {u \in Threads : e \in owned[u]}}
    \cup UNION {{<<list, t, i>> : i \in {j \in DOMAIN ListOf(list, t) : ListOf(list, t)[j] = e}} :
                  list \in ListNames, t \in Threads}

\* An allocated element is in exactly one place: none is lost or given out
\* twice when lists are cut, exchanged with the manager and put together.
InOnePlace == \A e \in Elems : Cardinality(Whereabouts(e)) = (IF e \in allocated THEN 1 ELSE 0)

\* The pools implement Reclamation, as the hazard pointers do: a descriptor
\* that was removed is free again when it reaches a safe pool, and never while
\* a watch of it is in force.
Abstract == INSTANCE Reclamation WITH
  Holders <- Threads,
  life <- [e \in Elems |-> IF e = cell THEN "live" ELSE IF e \in placed THEN "retired" ELSE "free"],
  holds <- {<<t, watching[t]>> : t \in {u \in Threads : pc[u] = "using"}}

RefinesReclamation == Abstract!Spec
=============================================================================
