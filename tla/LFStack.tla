------------------------------- MODULE LFStack -------------------------------
(***************************************************************************)
(* The lock-free stack of tervel/containers/lf/stack/stack.h over the      *)
(* hazard pointer library: push and pop, the Accessor that watches the top *)
(* node, the nodes they allocate, and the scan that frees a popped node    *)
(* once nobody watches it, after which its memory is used again.           *)
(*                                                                         *)
(* pc is where a thread is in push or pop; hpc where it is in the library  *)
(* call it is making from there.                                           *)
(***************************************************************************)
EXTENDS HazardPointer

CONSTANTS
  Values      (* what is pushed                                            *)

ASSUME FiniteAssumption == IsFiniteSet(Elems)

SHORTUSE == 0

VARIABLES
  _stack,     (* the pointer to the top node                               *)
  next,       (* Node::_next, at each address                              *)
  val,        (* Node::_val, at each address                               *)
  pc,         (* where each thread is                                      *)
  node,       (* push: its new node; null in pop                           *)
  cur,        (* Accessor::_val                                            *)
  nxt,        (* pop: cur->next() as it was read                           *)
  result      (* what the operation returns                                *)

stackVars == <<_stack, next, val>>
opVars == <<pc, node, cur, nxt, result>>
vars == <<hpVars, stackVars, opVars>>

(* What an operation returns: push true, pop true with a value, pop false. *)
NoResult == [state |-> "none"]
Pushed == [state |-> "pushed"]
Popped(v) == [state |-> "popped", value |-> v]
Empty == [state |-> "empty"]

Init ==
  /\ HPInit
  /\ _stack = Null
  /\ next = [e \in Elems |-> Null]
  /\ val = [e \in Elems |-> CHOOSE v \in Values : TRUE]
  /\ pc = [t \in Threads |-> "idle"]
  /\ node = [t \in Threads |-> Null]
  /\ cur = [t \in Threads |-> Null]
  /\ nxt = [t \in Threads |-> Null]
  /\ result = [t \in Threads |-> NoResult]

At(t, l) == pc[t] = l
Goto(t, l) == pc' = [pc EXCEPT ![t] = l]

(* An allocation or an unlinking; every other library variable is left.    *)
SetLife(e, l) ==
  /\ life' = [life EXCEPT ![e] = l]
  /\ UNCHANGED <<watches, element_list, free_lists, hpc, slot, elem, pos, idx,
                 leaving, granted>>

------------------------------------------------------------------------------
(* Calls *)

(* push(v): new Node(v), at any free address. *)
CallPush(t, v) ==
  /\ At(t, "idle")
  /\ \E e \in Elems :
       /\ life[e] = "free"
       /\ SetLife(e, "private")
       /\ node' = [node EXCEPT ![t] = e]
       /\ val' = [val EXCEPT ![e] = v]
       /\ next' = [next EXCEPT ![e] = Null]
  /\ Goto(t, "load")
  /\ UNCHANGED <<_stack, cur, nxt, result>>

CallPop(t) ==
  /\ At(t, "idle")
  /\ Goto(t, "load")
  /\ UNCHANGED <<hpVars, stackVars, node, cur, nxt, result>>

------------------------------------------------------------------------------
(* Accessor::load *)

(* The first load of the top: a node is passed to HazardPointer::watch ... *)
Load(t) ==
  /\ At(t, "load")
  /\ _stack # Null
  /\ Goto(t, "watch")
  /\ WatchCall(t, SHORTUSE, _stack)
  /\ UNCHANGED <<stackVars, node, cur, nxt, result>>

(* ... and null is accepted as it is: push goes on, pop returns false.     *)
LoadNull(t) ==
  /\ At(t, "load")
  /\ _stack = Null
  /\ IF node[t] = Null
     THEN /\ result' = [result EXCEPT ![t] = Empty]
          /\ Goto(t, "unwatch")
     ELSE /\ Goto(t, "push")
          /\ UNCHANGED result
  /\ UNCHANGED <<hpVars, stackVars, node, cur, nxt>>

Store(t) ==
  /\ At(t, "watch")
  /\ WatchStore(t)
  /\ UNCHANGED <<stackVars, opVars>>

Validate(t) ==
  /\ At(t, "watch")
  /\ WatchValidate(t, _stack, elem[t])
  /\ UNCHANGED <<stackVars, opVars>>

(* A Node has the default on_watch: load returns true. *)
Watched(t) ==
  /\ At(t, "watch")
  /\ OnWatch(t, TRUE)
  /\ cur' = [cur EXCEPT ![t] = elem[t]]
  /\ Goto(t, IF node[t] = Null THEN "next" ELSE "push")
  /\ UNCHANGED <<stackVars, node, nxt, result>>

(* load returns false: the loop goes round. *)
NotWatched(t) ==
  /\ At(t, "watch")
  /\ WatchClear(t)
  /\ Goto(t, "unwatch")
  /\ UNCHANGED <<stackVars, node, cur, nxt, result>>

------------------------------------------------------------------------------
(* push and pop *)

(* The comparison of compare_exchange_strong(cur, ...) on the top. *)
TopIsCurBlind(t) == TRUE
TopIsCur(t) == _stack = cur[t]

(* Where push goes when its compare_exchange failed: round the loop.       *)
RetryStale == "push"
Retry == "unwatch"

(* elem->next(cur), then the compare_exchange of the top from cur to elem. *)
Push(t) ==
  /\ At(t, "push")
  /\ IF TopIsCur(t)
     THEN /\ _stack' = node[t]
          /\ SetLife(node[t], "live")
          /\ result' = [result EXCEPT ![t] = Pushed]
          /\ Goto(t, "unwatch")
     ELSE /\ Goto(t, Retry)
          /\ UNCHANGED <<_stack, result, hpVars>>
  /\ next' = [next EXCEPT ![node[t]] = cur[t]]
  /\ UNCHANGED <<val, node, cur, nxt>>

(* pop: cur->next(). *)
ReadNext(t) ==
  /\ At(t, "next")
  /\ nxt' = [nxt EXCEPT ![t] = next[cur[t]]]
  /\ Goto(t, "cas")
  /\ UNCHANGED <<hpVars, stackVars, node, cur, result>>

(* pop: the compare_exchange of the top from cur to next. *)
Unlink(t) ==
  /\ At(t, "cas")
  /\ IF TopIsCur(t)
     THEN /\ _stack' = nxt[t]
          /\ SetLife(cur[t], "retired")
          /\ Goto(t, "value")
     ELSE /\ Goto(t, "unwatch")
          /\ UNCHANGED <<_stack, hpVars>>
  /\ UNCHANGED <<next, val, node, cur, nxt, result>>

(* pop: v = cur->value(), then cur->safe_delete(), which begins its scan. *)
Value(t) ==
  /\ At(t, "value")
  /\ result' = [result EXCEPT ![t] = Popped(val[cur[t]])]
  /\ SafeDelete(t, cur[t])
  /\ Goto(t, "unwatch")
  /\ UNCHANGED <<stackVars, node, cur, nxt>>

Scan(t) == ScanSlot(t) /\ UNCHANGED <<stackVars, opVars>>

(* A Node has the default on_is_watched. *)
NotHeld(t) == OnIsWatched(t, FALSE) /\ UNCHANGED <<stackVars, opVars>>

(* ~Accessor, at the end of each round of the loop. *)
LeaveScope(t) ==
  /\ At(t, "unwatch")
  /\ Unwatch(t, SHORTUSE)
  /\ Goto(t, IF result[t] = NoResult THEN "load" ELSE "return")
  /\ cur' = [cur EXCEPT ![t] = Null]
  /\ nxt' = [nxt EXCEPT ![t] = Null]
  /\ UNCHANGED <<stackVars, node, result>>

Return(t) ==
  /\ At(t, "return")
  /\ Goto(t, "idle")
  /\ node' = [node EXCEPT ![t] = Null]
  /\ result' = [result EXCEPT ![t] = NoResult]
  /\ UNCHANGED <<hpVars, stackVars, cur, nxt>>

------------------------------------------------------------------------------

(* The steps of an operation thread t has begun. *)
Step(t) ==
  \/ Load(t) \/ LoadNull(t) \/ Store(t) \/ Validate(t) \/ Watched(t) \/ NotWatched(t)
  \/ Push(t)
  \/ ReadNext(t) \/ Unlink(t) \/ Value(t)
  \/ Scan(t) \/ NotHeld(t)
  \/ LeaveScope(t) \/ Return(t)

Next ==
  \E t \in Threads :
    \/ \E v \in Values : CallPush(t, v)
    \/ CallPop(t)
    \/ Step(t)

Spec == Init /\ [][Next]_vars

(* Some thread inside an operation keeps running; no thread is promised to. *)
FairSpec == Spec /\ WF_vars(\E t \in Threads : Step(t))

------------------------------------------------------------------------------

(* No thread reads a field of a node whose memory was freed, or freed and  *)
(* allocated again: next() and value() of stack.h:189,195 are only called  *)
(* on a node the Accessor still watches.                                   *)
NoUseAfterFree ==
  \A t \in Threads : pc[t] \in {"next", "value"} => life[cur[t]] \in {"live", "retired"}

(* The nodes from p down, n at most. *)
Below[n \in 0 .. Cardinality(Elems)] ==
  [p \in Pointers |-> IF n = 0 \/ p = Null THEN <<>> ELSE <<p>> \o Below[n - 1][next[p]]]

Nodes == Below[Cardinality(Elems)][_stack]

(* A node is live exactly while it can be reached from the top, so a node  *)
(* that was popped cannot be reached by anybody who starts at the top, and *)
(* a node that can be reached is not in any list of nodes to free.         *)
LiveIsReachable == {e \in Elems : life[e] = "live"} = {Nodes[i] : i \in DOMAIN Nodes}

(* The operation of a thread as AbstractStack sees it: it has taken effect *)
(* once its compare_exchange succeeded (a pop then returns the value of    *)
(* the node it holds), or once a pop loaded a null top.                    *)
Operation(t) ==
  CASE pc[t] = "idle" -> [state |-> "idle"]
    [] pc[t] = "value" -> Popped(val[cur[t]])
    [] result[t] # NoResult -> result[t]
    [] pc[t] \notin {"idle", "value"} /\ result[t] = NoResult /\ node[t] # Null -> [state |-> "pushing", value |-> val[node[t]]]
    [] OTHER -> [state |-> "popping"]

Abstract == INSTANCE AbstractStack WITH
  contents <- [i \in DOMAIN Nodes |-> val[Nodes[i]]],
  op <- [t \in Threads |-> Operation(t)]

(* push and pop are linearizable, memory reuse included: each takes effect *)
(* at one step between its call and its return, and returns what the stack *)
(* held at that step (stack.h:137-144 and 170-177).                        *)
RefinesStack == Abstract!Spec

(* Lock freedom: while some thread inside an operation keeps running, some *)
(* operation returns again and again, wherever the other threads stopped.  *)
LockFree ==
  \/ <>[](\A t \in Threads : pc[t] = "idle")
  \/ []<><<\E t \in Threads : Return(t)>>_vars
==============================================================================
