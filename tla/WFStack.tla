------------------------------- MODULE WFStack -------------------------------
(***************************************************************************)
(* The wait-free stack of tervel/containers/wf/stack: the loops of push    *)
(* and pop, the operation records PushOp and PopOp with their              *)
(* help_complete, the Helper objects that take the place of the top node   *)
(* (marked in their lowest bit) while an announced operation is executed,  *)
(* and the on_watch by which a thread that finds one finishes it first.    *)
(*                                                                         *)
(* A marked Helper in lst_ is represented by the Helper itself: no node    *)
(* and no Helper share an address.  Values are left out: which node an     *)
(* operation pushed or popped says as much.                                *)
(***************************************************************************)
EXTENDS ProgressAssurance, FiniteSets

CONSTANTS
  Nodes,      (* addresses of Node,                                        *)
  Ops,        (* of PushOp and PopOp,                                      *)
  Helpers,    (* and of Helper                                             *)
  Fail,       (* StackOp::fail_val_                                        *)
  MaxCalls    (* bound on the operations started                           *)

ASSUME ElemsAssumption == Elems = Nodes \cup Ops \cup Helpers
ASSUME ApartAssumption ==
  Nodes \cap Ops = {} /\ Nodes \cap Helpers = {} /\ Ops \cap Helpers = {}
ASSUME FailAssumption == Fail \notin Pointers

VARIABLES
  lst_,       (* the top: null, a node, or a Helper (marked)               *)
  next_,      (* Node::next_                                               *)
  elem_,      (* PushOp::elem_; null in a PopOp                            *)
  helper_,    (* StackOp::helper_                                          *)
  op_,        (* Helper::op_                                               *)
  old_value_, (* Helper::old_value_                                        *)
  new_value_, (* Helper::new_value_                                        *)
  pc,         (* where each thread is                                      *)
  node,       (* push: its new node; null in pop                           *)
  op,         (* the record whose help_complete it runs, null if none      *)
  helper,     (* help_complete: its own Helper, until it is given away     *)
  cur,        (* Accessor::_val                                            *)
  nxt,        (* cur->next() as it was read                                *)
  fin,        (* the Helper whose finish it runs                           *)
  hidx,       (* loop variable of contains in StackOp::on_is_watched       *)
  result,     (* what the operation returns                                *)
  calls       (* operations started so far                                 *)

helperVars == <<op_, old_value_, new_value_>>
memVars == <<lst_, next_, elem_, helper_, helperVars>>
locals == <<pc, node, op, helper, cur, nxt, fin, hidx, result, calls>>
vars == <<hpVars, paVars, memVars, locals>>

Init ==
  /\ HPInit
  /\ PAInit
  /\ lst_ = Null
  /\ next_ = [n \in Nodes |-> Null]
  /\ elem_ = [o \in Ops |-> Null]
  /\ helper_ = [o \in Ops |-> Null]
  /\ op_ = [h \in Helpers |-> Null]
  /\ old_value_ = [h \in Helpers |-> Null]
  /\ new_value_ = [h \in Helpers |-> Null]
  /\ pc = [t \in Threads |-> "idle"]
  /\ node = [t \in Threads |-> Null]
  /\ op = [t \in Threads |-> Null]
  /\ helper = [t \in Threads |-> Null]
  /\ cur = [t \in Threads |-> Null]
  /\ nxt = [t \in Threads |-> Null]
  /\ fin = [t \in Threads |-> Null]
  /\ hidx = [t \in Threads |-> 0]
  /\ result = [t \in Threads |-> "none"]
  /\ calls = 0

(* Thread t runs the stack's own code, at l. *)
At(t, l) == hpc[t] = "out" /\ pc[t] = l
Goto(t, l) == pc' = [pc EXCEPT ![t] = l]
Pushing(t) == node[t] # Null
Helping(t) == op[t] # Null
Owner(t) == op_table_[t] = op[t]

(* Thread t runs a push: its own, or the one whose record it is helping.   *)
IsPush(t) == IF Helping(t) THEN elem_[op[t]] # Null ELSE Pushing(t)

(* What the library call of thread t is about. *)
Watching(t, set) == hpc[t] # "out" /\ elem[t] \in set

------------------------------------------------------------------------------
(* Allocation.  A node nobody refers to any more is one the code leaks (it *)
(* never passes a node popped by a PopOp to safe_delete): the model may    *)
(* use it again, where the program takes fresh memory.                     *)

Referenced(e) ==
  \/ e = lst_
  \/ \E n \in Nodes : life[n] # "free" /\ next_[n] = e
  \/ \E o \in Ops : life[o] # "free" /\ elem_[o] = e
  \/ \E h \in Helpers : life[h] # "free" /\ e \in {old_value_[h], new_value_[h]}
  \/ \E t \in Threads : \/ e \in {node[t], cur[t], nxt[t], elem[t]}
                        \/ \E i \in DOMAIN element_list[t] : element_list[t][i] = e

Available(e) == life[e] = "free" \/ (e \in Nodes /\ ~Referenced(e))

SetLife(e, l) ==
  /\ life' = [life EXCEPT ![e] = l]
  /\ UNCHANGED <<watches, element_list, free_lists, hpc, slot, elem, pos, idx,
                 leaving, granted>>

(* Freed memory: RecordsOutliveHelp says that nobody reads it, so the      *)
(* model forgets what it held.                                             *)
Scrub(h) ==
  /\ op_' = [op_ EXCEPT ![h] = Null]
  /\ old_value_' = [old_value_ EXCEPT ![h] = Null]
  /\ new_value_' = [new_value_ EXCEPT ![h] = Null]

------------------------------------------------------------------------------
(* push and pop: the call and check_for_announcement *)

CallPush(t) ==
  /\ At(t, "idle") /\ calls < MaxCalls
  /\ calls' = calls + 1
  /\ \E n \in Nodes :
       /\ Available(n)
       /\ SetLife(n, "private")
       /\ node' = [node EXCEPT ![t] = n]
       /\ next_' = [next_ EXCEPT ![n] = Null]
  /\ Goto(t, "check")
  /\ UNCHANGED <<paVars, lst_, elem_, helper_, helperVars,
                 op, helper, cur, nxt, fin, hidx, result>>

CallPop(t) ==
  /\ At(t, "idle") /\ calls < MaxCalls
  /\ calls' = calls + 1
  /\ Goto(t, "check")
  /\ UNCHANGED <<hpVars, paVars, memVars, node, op, helper, cur, nxt, fin, hidx, result>>

Check(t) ==
  /\ At(t, "check")
  /\ SkipCheck(t) \/ CheckPosition(t)
  /\ Goto(t, "delayed")
  /\ UNCHANGED <<memVars, node, op, helper, cur, nxt, fin, hidx, result, calls>>

(* The watch of a record succeeded: help it. *)
RecordWatched(t) ==
  /\ Watching(t, Ops) /\ slot[t] = PROG_ASSUR
  /\ OnWatch(t, TRUE)
  /\ op' = [op EXCEPT ![t] = elem[t]]
  /\ Goto(t, "help")
  /\ UNCHANGED <<paVars, memVars, node, helper, cur, nxt, fin, hidx, result, calls>>

------------------------------------------------------------------------------
(* The steps of HazardPointer::watch on a record, a Helper or a node *)

Store(t) == WatchStore(t) /\ UNCHANGED <<paVars, memVars, locals>>

(* What the top must still be: the node or the marked Helper that was      *)
(* read there, also for the watch of that Helper's record.  (Without its   *)
(* mark a Helper is never what the top holds.)                             *)
ExpectedUnmarked(t) == IF elem[t] \in Nodes THEN elem[t] ELSE Fail
Expected(t) == IF slot[t] = SHORTUSE2 THEN fin[t] ELSE elem[t]

Validate(t) ==
  /\ IF slot[t] = PROG_ASSUR
     THEN ValidateRecord(t)
     ELSE WatchValidate(t, lst_, Expected(t)) /\ UNCHANGED paVars
  /\ UNCHANGED <<memVars, locals>>

(* A watch failed: check_for_announcement goes on to the operation, load   *)
(* and Helper::on_watch return false.                                      *)
NotWatched(t) ==
  /\ WatchClear(t)
  /\ fin' = [fin EXCEPT ![t] = Null]
  /\ Goto(t, IF slot[t] = PROG_ASSUR THEN "delayed" ELSE "unwatch")
  /\ UNCHANGED <<paVars, memVars, node, op, helper, cur, nxt, hidx, result, calls>>

(* Helper::on_watch watches the Helper's record in turn, at the same       *)
(* address; the watch of the Helper is cleared at the end of the round.    *)
OnWatchHelper(t) ==
  /\ hpc[t] = "on_watch" /\ elem[t] \in Helpers
  /\ hpc' = [hpc EXCEPT ![t] = "store"]
  /\ slot' = [slot EXCEPT ![t] = SHORTUSE2]
  /\ elem' = [elem EXCEPT ![t] = op_[elem[t]]]
  /\ fin' = [fin EXCEPT ![t] = elem[t]]
  /\ UNCHANGED <<life, watches, element_list, free_lists, pos, idx, leaving, granted,
                 paVars, memVars, pc, node, op, helper, cur, nxt, hidx, result, calls>>

(* Both are watched: finish. *)
HelperWatched(t) ==
  /\ Watching(t, Ops) /\ slot[t] = SHORTUSE2
  /\ OnWatch(t, TRUE)
  /\ Goto(t, "associate")
  /\ UNCHANGED <<paVars, memVars, node, op, helper, cur, nxt, fin, hidx, result, calls>>

(* A node is watched by its address alone: load returns true. *)
NodeWatched(t) ==
  /\ Watching(t, Nodes)
  /\ OnWatch(t, TRUE)
  /\ cur' = [cur EXCEPT ![t] = elem[t]]
  /\ Goto(t, IF IsPush(t) THEN "cas" ELSE "next")
  /\ UNCHANGED <<paVars, memVars, node, op, helper, nxt, fin, hidx, result, calls>>

------------------------------------------------------------------------------
(* The loop shared by push, pop and help_complete: Accessor::load, the     *)
(* compare_exchange of the top, ~Accessor                                  *)

(* The first load of the top: what is there is watched ... *)
Load(t) ==
  /\ At(t, "load")
  /\ lst_ # Null
  /\ WatchCall(t, SHORTUSE, lst_)
  /\ UNCHANGED <<paVars, memVars, locals>>

(* ... but null: a push goes on, a pop finds the stack empty.              *)
LoadNull(t) ==
  /\ At(t, "load")
  /\ lst_ = Null
  /\ Goto(t, CASE IsPush(t) -> "cas"
               [] ~IsPush(t) /\ Helping(t) -> "fail"
               [] OTHER -> "unwatch")
  /\ IF IsPush(t) \/ Helping(t)
     THEN UNCHANGED result
     ELSE result' = [result EXCEPT ![t] = "empty"]
  /\ UNCHANGED <<hpVars, paVars, memVars, node, op, helper, cur, nxt, fin, hidx, calls>>

ReadNext(t) ==
  /\ At(t, "next")
  /\ nxt' = [nxt EXCEPT ![t] = next_[cur[t]]]
  /\ Goto(t, "cas")
  /\ UNCHANGED <<hpVars, paVars, memVars, node, op, helper, cur, fin, hidx, result, calls>>

TopIsCur(t) == lst_ = cur[t]

(* push: next_ of the new node, then the compare_exchange. *)
CasPush(t) ==
  /\ At(t, "cas") /\ ~Helping(t) /\ Pushing(t)
  /\ next_' = [next_ EXCEPT ![node[t]] = cur[t]]
  /\ Goto(t, "unwatch")
  /\ IF TopIsCur(t)
     THEN /\ lst_' = node[t]
          /\ SetLife(node[t], "live")
          /\ result' = [result EXCEPT ![t] = "pushed"]
     ELSE UNCHANGED <<lst_, hpVars, result>>
  /\ UNCHANGED <<paVars, elem_, helper_, helperVars,
                 node, op, helper, cur, nxt, fin, hidx, calls>>

CasPop(t) ==
  /\ At(t, "cas") /\ ~Helping(t) /\ ~Pushing(t)
  /\ IF TopIsCur(t)
     THEN /\ lst_' = nxt[t]
          /\ SetLife(cur[t], "retired")
          /\ Goto(t, "value")
     ELSE /\ Goto(t, "unwatch")
          /\ UNCHANGED <<lst_, hpVars>>
  /\ UNCHANGED <<paVars, next_, elem_, helper_, helperVars,
                 node, op, helper, cur, nxt, fin, hidx, result, calls>>

(* pop: cur->value(), then cur->safe_delete(). *)
Value(t) ==
  /\ At(t, "value")
  /\ result' = [result EXCEPT ![t] = "popped"]
  /\ SafeDelete(t, cur[t])
  /\ Goto(t, "unwatch")
  /\ UNCHANGED <<paVars, memVars, node, op, helper, cur, nxt, fin, hidx, calls>>

(* ~Accessor (and, after a failed load of a Helper, the clear_watch of its *)
(* slot before): the loop goes round or ends.                              *)
LeaveScope(t) ==
  /\ At(t, "unwatch")
  /\ Unwatch(t, SHORTUSE)
  /\ Goto(t, CASE Helping(t) /\ helper[t] = Null -> "helped"
               [] Helping(t) /\ helper[t] # Null -> "not_done"
               [] ~Helping(t) /\ result[t] = "none" -> "delayed"
               [] OTHER -> "return")
  /\ cur' = [cur EXCEPT ![t] = Null]
  /\ nxt' = [nxt EXCEPT ![t] = Null]
  /\ UNCHANGED <<paVars, memVars, node, op, helper, fin, hidx, result, calls>>

(* The loop condition of push and pop: another round ... *)
NextRound(t) ==
  /\ At(t, "delayed") /\ ~IsDelayed(t)
  /\ CountRound(t)
  /\ Goto(t, "load")
  /\ UNCHANGED <<hpVars, op_table_, help_id, delay_count, memVars,
                 node, op, helper, cur, nxt, fin, hidx, result, calls>>

(* ... or a new PushOp or PopOp, to be announced. *)
NewOp(t) ==
  /\ At(t, "delayed") /\ IsDelayed(t)
  /\ CountRound(t)
  /\ \E o \in Ops :
       /\ Available(o)
       /\ SetLife(o, "live")
       /\ op' = [op EXCEPT ![t] = o]
       /\ elem_' = [elem_ EXCEPT ![o] = node[t]]
       /\ helper_' = [helper_ EXCEPT ![o] = Null]
       /\ next_' = IF Pushing(t) THEN [next_ EXCEPT ![node[t]] = o] ELSE next_
  /\ Goto(t, "announce")
  /\ UNCHANGED <<op_table_, help_id, delay_count, lst_, helperVars,
                 node, helper, cur, nxt, fin, hidx, result, calls>>

AnnounceOp(t) ==
  /\ At(t, "announce")
  /\ Announce(t, op[t])
  /\ Goto(t, "help")
  /\ UNCHANGED <<hpVars, help_id, delay_count, counter_, memVars,
                 node, op, helper, cur, nxt, fin, hidx, result, calls>>

------------------------------------------------------------------------------
(* help_complete *)

NewHelper(t) ==
  /\ At(t, "help")
  /\ \E h \in Helpers :
       /\ Available(h)
       /\ SetLife(h, "private")
       /\ helper' = [helper EXCEPT ![t] = h]
       /\ op_' = [op_ EXCEPT ![h] = op[t]]
       /\ old_value_' = [old_value_ EXCEPT ![h] = Null]
       /\ new_value_' = [new_value_ EXCEPT ![h] = elem_[op[t]]]
  /\ Goto(t, "not_done")
  /\ UNCHANGED <<paVars, lst_, next_, elem_, helper_, node, op, cur, nxt, fin, hidx, result, calls>>

(* delete helper: no other thread has seen it. *)
DeleteHelper(t) ==
  /\ SetLife(helper[t], "free")
  /\ Scrub(helper[t])
  /\ helper' = [helper EXCEPT ![t] = Null]

NotDone(t) ==
  /\ At(t, "not_done")
  /\ IF helper_[op[t]] = Null
     THEN Goto(t, "load") /\ UNCHANGED <<hpVars, helper, helperVars>>
     ELSE Goto(t, "helped") /\ DeleteHelper(t)
  /\ UNCHANGED <<paVars, lst_, next_, elem_, helper_, node, op, cur, nxt, fin, hidx, result, calls>>

(* PopOp: fail() and break. *)
FailPop(t) ==
  /\ At(t, "fail")
  /\ helper_' = [helper_ EXCEPT ![op[t]] = IF helper_[op[t]] = Null THEN Fail
                                           ELSE helper_[op[t]]]
  /\ DeleteHelper(t)
  /\ Goto(t, "unwatch")
  /\ UNCHANGED <<paVars, lst_, next_, elem_,
                 node, op, cur, nxt, fin, hidx, result, calls>>

(* old_value_ and new_value_, then the compare_exchange of the top from    *)
(* cur to the marked Helper.                                               *)
Place(t) ==
  /\ At(t, "cas") /\ Helping(t)
  /\ old_value_' = [old_value_ EXCEPT ![helper[t]] = cur[t]]
  /\ new_value_' = [new_value_ EXCEPT ![helper[t]] = IF IsPush(t) THEN elem_[op[t]] ELSE nxt[t]]
  /\ IF TopIsCur(t)
     THEN /\ lst_' = helper[t]
          /\ SetLife(helper[t], "live")
          /\ fin' = [fin EXCEPT ![t] = helper[t]]
          /\ Goto(t, "associate")
     ELSE /\ Goto(t, "unwatch")
          /\ UNCHANGED <<lst_, hpVars, fin>>
  /\ UNCHANGED <<paVars, next_, elem_, helper_, op_, node, op, helper, cur, nxt, hidx, result, calls>>

(* StackOp::associate succeeds once for a record, for one Helper: at this  *)
(* step the announced operation takes effect.                              *)
AssociatesAgain(o, h) == helper_[o] # h
AssociatesNever(o, h) == helper_[o] = h
Associates(o, h) == helper_[o] = Null

Associate(t) ==
  LET h == fin[t]
      o == op_[h]
  IN
  /\ At(t, "associate")
  /\ IF Associates(o, h)
     THEN /\ helper_' = [helper_ EXCEPT ![o] = h]
          /\ IF elem_[o] # Null THEN SetLife(elem_[o], "live") ELSE SetLife(old_value_[h], "retired")
          /\ Goto(t, IF elem_[o] # Null THEN "set_next" ELSE "install_new")
     ELSE /\ Goto(t, "install_old")
          /\ UNCHANGED <<helper_, hpVars>>
  /\ UNCHANGED <<paVars, lst_, next_, elem_, helperVars,
                 node, op, helper, cur, nxt, fin, hidx, result, calls>>

(* PushOp::associate: the next_ of elem_ changes from the record to what   *)
(* the Helper replaced.                                                    *)
SetNext(t) ==
  LET o == op_[fin[t]]
      n == elem_[o]
  IN
  /\ At(t, "set_next")
  /\ next_' = IF next_[n] = o THEN [next_ EXCEPT ![n] = old_value_[fin[t]]] ELSE next_
  /\ Goto(t, "install_new")
  /\ UNCHANGED <<hpVars, paVars, lst_, elem_, helper_, helperVars,
                 node, op, helper, cur, nxt, fin, hidx, result, calls>>

(* What finish expects at the top: the Helper with its mark. *)
TopIsUnmarked(h) == lst_ = old_value_[h]
TopIsMarked(h) == lst_ = h

(* The end of finish: the compare_exchange of the top from the marked      *)
(* Helper to new_value_ if associate returned true, to old_value_ if not.  *)
Install(t) ==
  /\ pc[t] \in {"install_new", "install_old"}
  /\ IF TopIsMarked(fin[t])
     THEN lst_' = IF pc[t] = "install_new" THEN new_value_[fin[t]] ELSE old_value_[fin[t]]
     ELSE UNCHANGED lst_
  /\ Goto(t, IF fin[t] = helper[t] THEN "not_valid" ELSE "unwatch2")
  /\ fin' = [fin EXCEPT ![t] = Null]
  /\ UNCHANGED <<hpVars, paVars, next_, elem_, helper_, helperVars,
                 node, op, helper, cur, nxt, hidx, result, calls>>

(* A Helper the record did not associate with is passed to safe_delete;    *)
(* the one it did is the record's to delete.                               *)
NotValid(t) ==
  /\ At(t, "not_valid")
  /\ IF helper_[op[t]] # helper[t] THEN SafeDelete(t, helper[t]) ELSE UNCHANGED hpVars
  /\ helper' = [helper EXCEPT ![t] = Null]
  /\ Goto(t, "unwatch")
  /\ UNCHANGED <<paVars, memVars, node, op, cur, nxt, fin, hidx, result, calls>>

(* Helper::on_watch ends. *)
UnwatchRecord(t) ==
  /\ At(t, "unwatch2")
  /\ Unwatch(t, SHORTUSE2)
  /\ Goto(t, "unwatch")
  /\ UNCHANGED <<paVars, memVars, node, op, helper, cur, nxt, fin, hidx, result, calls>>

(* help_complete returned: to make_announcement, which clears the table,   *)
(* or to check_for_announcement, which unwatches the record.               *)
Helped(t) ==
  /\ At(t, "helped")
  /\ IF Owner(t)
     THEN /\ Withdraw(t)
          /\ Goto(t, "result")
          /\ UNCHANGED <<hpVars, op>>
     ELSE /\ Unwatch(t, PROG_ASSUR)
          /\ op' = [op EXCEPT ![t] = Null]
          /\ Goto(t, "delayed")
          /\ UNCHANGED op_table_
  /\ UNCHANGED <<help_id, delay_count, counter_, memVars,
                 node, helper, cur, nxt, fin, hidx, result, calls>>

(* What push and pop return, then op->safe_delete(). *)
Result(t) ==
  /\ At(t, "result")
  /\ result' = [result EXCEPT ![t] = CASE Pushing(t) -> "pushed"
                                       [] ~Pushing(t) /\ helper_[op[t]] = Fail -> "empty"
                                       [] OTHER -> "popped"]
  /\ SafeDelete(t, op[t])
  /\ op' = [op EXCEPT ![t] = Null]
  /\ Goto(t, "return")
  /\ UNCHANGED <<paVars, memVars, node, helper, cur, nxt, fin, hidx, calls>>

Return(t) ==
  /\ At(t, "return")
  /\ StartLimit(t)
  /\ node' = [node EXCEPT ![t] = Null]
  /\ result' = [result EXCEPT ![t] = "none"]
  /\ Goto(t, "idle")
  /\ UNCHANGED <<hpVars, op_table_, help_id, delay_count, memVars,
                 op, helper, cur, nxt, fin, hidx, calls>>

------------------------------------------------------------------------------
(* safe_delete: the scan of the watch table *)

Scan(t) == ScanSlot(t) /\ UNCHANGED <<paVars, memVars, locals>>

Scanned(t) == element_list[t][pos[t]]

(* Nodes and Helpers have the default on_is_watched. *)
NotHeld(t) ==
  /\ hpc[t] = "on_is_watched" /\ Scanned(t) \notin Ops
  /\ OnIsWatched(t, FALSE)
  /\ IF Scanned(t) \in Helpers
     THEN Scrub(Scanned(t)) /\ UNCHANGED next_
     ELSE /\ next_' = [next_ EXCEPT ![Scanned(t)] = Null]
          /\ UNCHANGED helperVars
  /\ UNCHANGED <<paVars, lst_, elem_, helper_, locals>>

(* StackOp::on_is_watched: a record is held while its Helper is watched;   *)
(* if nobody watches it, ~StackOp deletes it ...                           *)
ScanHelper(t) ==
  LET h == helper_[Scanned(t)] IN
  /\ hpc[t] = "on_is_watched" /\ Scanned(t) \in Ops
  /\ h # Fail
  /\ hidx[t] < NumSlots
  /\ IF watches[hidx[t]] = h
     THEN /\ OnIsWatched(t, TRUE)
          /\ hidx' = [hidx EXCEPT ![t] = 0]
          /\ UNCHANGED helperVars
     ELSE /\ hidx' = [hidx EXCEPT ![t] = hidx[t] + 1]
          /\ IF hidx[t] + 1 = NumSlots
             THEN SetLife(h, "free") /\ Scrub(h)
             ELSE UNCHANGED <<hpVars, helperVars>>
  /\ UNCHANGED <<paVars, lst_, next_, elem_, helper_, pc, node, op, helper, cur, nxt, fin, result, calls>>

(* ... and then the record itself is deleted. *)
DeleteOp(t) ==
  LET o == Scanned(t) IN
  /\ hpc[t] = "on_is_watched" /\ o \in Ops
  /\ helper_[o] = Fail \/ hidx[t] = NumSlots
  /\ OnIsWatched(t, FALSE)
  /\ helper_' = [helper_ EXCEPT ![o] = Null]
  /\ elem_' = [elem_ EXCEPT ![o] = Null]
  /\ hidx' = [hidx EXCEPT ![t] = 0]
  /\ UNCHANGED <<paVars, lst_, next_, helperVars, pc, node, op, helper, cur, nxt, fin, result, calls>>

------------------------------------------------------------------------------

InLibrary(t) ==
  \/ Store(t) \/ Validate(t) \/ NotWatched(t)
  \/ RecordWatched(t) \/ OnWatchHelper(t) \/ HelperWatched(t) \/ NodeWatched(t)
  \/ Scan(t) \/ NotHeld(t) \/ ScanHelper(t) \/ DeleteOp(t)

(* The steps of an operation thread t has begun. *)
Step(t) ==
  \/ Check(t)
  \/ NextRound(t) \/ NewOp(t) \/ AnnounceOp(t)
  \/ Load(t) \/ LoadNull(t) \/ ReadNext(t)
  \/ CasPush(t) \/ CasPop(t) \/ Value(t)
  \/ NewHelper(t) \/ NotDone(t) \/ FailPop(t) \/ Place(t)
  \/ Associate(t) \/ SetNext(t) \/ Install(t) \/ NotValid(t) \/ UnwatchRecord(t)
  \/ LeaveScope(t) \/ Helped(t) \/ Result(t) \/ Return(t)
  \/ InLibrary(t)

(* The bound on the calls is reached. *)
Finished ==
  /\ calls = MaxCalls
  /\ \A t \in Threads : At(t, "idle")
  /\ UNCHANGED vars

Next ==
  \/ \E t \in Threads : CallPush(t) \/ CallPop(t) \/ Step(t)
  \/ Finished

Spec == Init /\ [][Next]_vars

------------------------------------------------------------------------------

(* The records and Helpers thread t is about to read. *)
InUse(t) ==
  CASE pc[t] \in {"help", "not_done", "fail", "not_valid"} -> {op[t]}
    [] pc[t] \in {"associate", "set_next"} -> {fin[t], op_[fin[t]]}
    [] pc[t] \in {"install_new", "install_old"} -> {fin[t]}
    [] OTHER -> {}

(* No thread reads a record or a Helper that was deleted, and one its own  *)
(* thread does not use any more waits for the threads that still help with *)
(* it: the watches of progress_assurance.cc:45 and helper.h:50, and the    *)
(* strong watch of stack_op.h:101-109.  (Two threads at most: see          *)
(* WatchedIsNeverFreed for what a third one can do.)                       *)
RecordsOutliveHelp == \A t \in Threads : \A e \in InUse(t) : life[e] # "free"

(* make_announcement clears its position of the table only when the        *)
(* operation was executed, by whichever thread: "on return the OpRecord    *)
(* must be completed" (progress_assurance.h:193).                          *)
DoneWhenWithdrawn ==
  \A t \in Threads : pc[t] = "result" => helper_[op[t]] # Null

(* A thread leaves finish with its Helper out of the list, whoever took it *)
(* out: the assert of stack_op.h:160 and 219.                              *)
HelperLeaves == \A t \in Threads : pc[t] = "not_valid" => lst_ # helper[t]

Deleting(o) == \E t \in Threads : o \in ToSet(element_list[t])

(* The outcome of an announced operation is decided once: until its record *)
(* is passed to safe_delete it keeps its Helper, and that Helper the node  *)
(* it replaced (stack_op.h:62-75; result reads both, 77-87).               *)
DecidedOnce ==
  [][\A o \in Ops, h \in Helpers :
       helper_[o] = h /\ life[o] # "free" /\ ~Deleting(o) =>
         helper_'[o] = h /\ old_value_'[h] = old_value_[h]]_vars

(* An operation of a thread that keeps running returns, also when the      *)
(* other threads stop anywhere: a Helper left at the top is finished by    *)
(* whoever finds it (accessor.h:89-97), an announced operation by whoever  *)
(* checks the table.                                                       *)
NobodyWaits ==
  \A t \in Threads : WF_vars(Step(t)) => (pc[t] # "idle" ~> pc[t] = "idle")

(* What is under node n; an announced push that took effect may still have *)
(* to replace its record there.                                            *)
Under(n) ==
  IF next_[n] \notin Ops THEN next_[n]
  ELSE IF helper_[next_[n]] \in Helpers THEN old_value_[helper_[next_[n]]] ELSE Null

(* The nodes from p down. *)
Below[n \in 0 .. Cardinality(Nodes), p \in Nodes \cup {Null}] ==
  IF n = 0 \/ p = Null THEN {} ELSE {p} \cup Below[n - 1, Under(p)]

(* The top once the announced operation that holds it is finished.         *)
Top ==
  IF lst_ \notin Helpers THEN lst_
  ELSE IF helper_[op_[lst_]] = lst_ THEN new_value_[lst_] ELSE old_value_[lst_]

(* The node of a push that took effect can be reached from the top until a *)
(* pop takes it off: "This method gurantees that upon return, the          *)
(* described push operation is complete" (stack_op.h:199-200), and for a   *)
(* pop stack_op.h:131-132.  The code violates it: the second thread to run *)
(* finish on one Helper puts the old top back.                             *)
LiveIsReachable == {n \in Nodes : life[n] = "live"} = Below[Cardinality(Nodes), Top]

(* What a thread watches is not deleted while it is watched (accessor.h:   *)
(* 50-52, the promise of the hazard pointers).  The code violates it with  *)
(* three threads: a record is passed to safe_delete while a Helper that    *)
(* names it can still be read from the top.                                *)
WatchedIsNeverFreed ==
  \A g \in granted : life[WatchedBy(g[1], g[2])] # "free"
==============================================================================
