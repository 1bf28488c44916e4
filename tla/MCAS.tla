-------------------------------- MODULE MCAS --------------------------------
(***************************************************************************)
(* The multi-word compare-and-swap of tervel/algorithms/wf/mcas.  An       *)
(* operation replaces the expected value of each of its addresses by a     *)
(* Helper, in the order of the addresses; when every row has its Helper    *)
(* the operation passes, and the Helpers give way to the new values.  A    *)
(* thread that meets the Helper of another operation completes that        *)
(* operation first, recursively; a thread that was delayed announces its   *)
(* operation or returns from the recursion to its own.                     *)
(*                                                                         *)
(* One action per access of shared memory.  stack[t] is the call stack of  *)
(* a thread: a frame per activation of mcas_complete, with the mcas_remove *)
(* it is in; the frame of the thread's own operation is at the bottom.     *)
(***************************************************************************)
EXTENDS Integers, Sequences, FiniteSets

CONSTANTS
  Threads,
  Addrs,        \* integers: rows are sorted by address
  Values,
  Requests,     \* the sets of triples a call may ask for
  ReadAddrs,    \* the addresses that are read
  Null, FAIL_CONST,
  LIMIT,        \* TERVEL_PROG_ASSUR_LIMIT: rounds of a row before a delay
  MaxOps,       \* bound: the operations, each with an object of its own
  ReadsBefore   \* bound: reads begin before this operation does

ASSUME AddrsAssumption == Addrs \subseteq Int /\ IsFiniteSet(Addrs) /\ ReadAddrs \subseteq Addrs
ASSUME ThreadsAssumption == IsFiniteSet(Threads)
ASSUME LIMITAssumption == LIMIT \in Nat \cup {-1}
ASSUME MaxOpsAssumption == MaxOps \in Nat /\ ReadsBefore \in 1 .. MaxOps

VARIABLES
  mem,          \* what is at each address: a value or a Helper
  cas_rows_, state_, helper_,    \* per operation; helper_ of each row
  op_table_,    \* the announced operation of each thread
  op,           \* the operation a thread executes, or Null
  stack,
  retired,      \* per thread, its operations that wait to be deleted
  unchecked,    \* those of them this safe_delete has still to look at
  scan,         \* the one of them no hazard pointer watch was found on
  deleted,      \* the operations whose memory was given back
  held          \* history: per thread and address, the values the address
                \* stood for since the thread's call began

reclamation == <<retired, unchecked, scan, deleted>>
vars == <<mem, cas_rows_, state_, helper_, op_table_, op, stack, retired, unchecked, scan,
          deleted, held>>

Ops == 1 .. MaxOps
Triples == [address : Addrs, expected : Values, new : Values]
MaxRows == Cardinality(Addrs)
Helper(o, i, t) == [op |-> o, row |-> i, by |-> t]
Helpers == [op : Ops, row : 1 .. MaxRows, by : Threads]
IsDescriptor(w) == w \notin Values

\* add_cas_triple rejects an address that has a row already.
ASSUME RequestsAssumption ==
  \A S \in Requests :
    /\ S # {} /\ S \subseteq Triples
    /\ \A r, s \in S : r.address = s.address => r = s

\* A mark on the pointer tells a Helper from a value (rc::is_descriptor_first).
ASSUME WordsAssumption ==
  /\ Values \cap Helpers = {}
  /\ {Null, FAIL_CONST} \cap (Values \cup Helpers \cup Ops) = {} /\ Null # FAIL_CONST
  /\ Null \notin {"pass", "fail"} \cup [kind : {"read"}, address : Addrs]
  /\ \A S \in Requests : Null # [kind |-> "mcas", triples |-> S]

Row(o, i) == cas_rows_[o][i]
RowCount(o) == Len(cas_rows_[o])
InProgress(o) == state_[o] = "IN_PROGRESS"

\* The value an address stands for (Helper::get_logical_value).
LogicalOf(w) ==
  IF ~IsDescriptor(w) THEN w
  ELSE IF helper_[w.op][w.row] = w /\ state_[w.op] = "PASS"
  THEN Row(w.op, w.row).new
  ELSE Row(w.op, w.row).expected

Logical == [a \in Addrs |-> LogicalOf(mem[a])]
Nothing == [a \in Addrs |-> {}]

Init ==
  /\ mem \in [Addrs -> Values]
  /\ cas_rows_ = [o \in Ops |-> <<>>]
  /\ state_ = [o \in Ops |-> "IN_PROGRESS"]
  /\ helper_ = [o \in Ops |-> [i \in 1 .. MaxRows |-> Null]]
  /\ op_table_ = [t \in Threads |-> Null]
  /\ op = [t \in Threads |-> Null]
  /\ stack = [t \in Threads |-> <<>>]
  /\ retired = [t \in Threads |-> {}]
  /\ unchecked = [t \in Threads |-> {}]
  /\ scan = [t \in Threads |-> Null]
  /\ deleted = {}
  /\ held = [t \in Threads |-> Nothing]

-----------------------------------------------------------------------------
(* The call stack                                                          *)

\* row: where the activation is, or the address that is read.  wf: the
\* operation is announced, nobody gives it up.  val: what was read.  left:
\* Limit::counter_.  res: what the activation above returned.
Frame(o, i, wf) ==
  [op |-> o, row |-> i, at |-> "load", wf |-> wf, val |-> Null, left |-> LIMIT, res |-> FALSE]
ReadFrame(a) == [Frame(Null, a, FALSE) EXCEPT !.left = -1]
Address(f) == IF f.op = Null THEN f.row ELSE Row(f.op, f.row).address

Top(t) == stack[t][Len(stack[t])]
At(t, l) == stack[t] # <<>> /\ Top(t).at = l
Below(t) == SubSeq(stack[t], 1, Len(stack[t]) - 1)
Become(t, f) == stack' = [stack EXCEPT ![t] = Append(Below(t), f)]
Goto(t, l) == Become(t, [Top(t) EXCEPT !.at = l])
Push(t, l, f) == stack' = [stack EXCEPT ![t] = Append(Append(Below(t), [Top(t) EXCEPT !.at = l]), f)]

\* RecursiveAction::recursive_depth: the activations that wait for one above.
Depth(t) == Cardinality({i \in 1 .. Len(stack[t]) : stack[t][i].at = "helping"})

\* A bug: an activation that is unwound goes on as if it had returned false.
RecursiveReturnUnseen(t) ==
  stack' = [stack EXCEPT ![t] =
    Append(SubSeq(stack[t], 1, Len(stack[t]) - 2),
           [stack[t][Len(stack[t]) - 1] EXCEPT !.at = "uninstall", !.res = FALSE])]

\* set_recursive_return: every activation returns, up to the lowest one, which
\* reads its address again.
RecursiveReturn(t) ==
  LET waiting == {i \in 1 .. Len(stack[t]) : stack[t][i].at = "helping"}
      base == CHOOSE i \in waiting : \A j \in waiting : i <= j
  IN stack' = [stack EXCEPT ![t] =
       Append(SubSeq(stack[t], 1, base - 1), [stack[t][base] EXCEPT !.at = "reload"])]

\* mcas_complete returns b: to mcas_remove, to make_announcement, to
\* check_for_announcement (a frame at the bottom that is not the thread's
\* own), or to execute.
Returned(t, b) ==
  IF Below(t) # <<>>
  THEN LET f == Below(t)[Len(stack[t]) - 1]
       IN stack' = [stack EXCEPT ![t] =
            Append(SubSeq(stack[t], 1, Len(stack[t]) - 2),
                   [f EXCEPT !.at = IF f.at = "helping" THEN "uninstall" ELSE "withdraw", !.res = b])]
  ELSE IF Top(t).op = op[t]
  THEN Become(t, [Top(t) EXCEPT !.at = "cleanup", !.row = 1, !.res = b])
  ELSE Become(t, Frame(op[t], 1, FALSE))

NextRow(t) ==
  LET f == Top(t) IN
  IF f.row < RowCount(f.op) THEN Become(t, Frame(f.op, f.row + 1, f.wf)) ELSE Goto(t, "pass")

-----------------------------------------------------------------------------
(* The calls                                                               *)

\* A bug: the rows stay in an order that depends on the values.
SortedOtherwise(S) ==
  LET some == CHOOSE v \in Values : TRUE IN
  CHOOSE rows \in [1 .. Cardinality(S) -> S] :
    \A i \in 2 .. Cardinality(S) :
      IF rows[1].expected = some
      THEN rows[i - 1].address > rows[i].address
      ELSE rows[i - 1].address < rows[i].address

\* add_cas_triple leaves the rows in descending order of their addresses.
Sorted(S) ==
  CHOOSE rows \in [1 .. Cardinality(S) -> S] :
    \A i \in 2 .. Cardinality(S) : rows[i - 1].address > rows[i].address

Begin(t) == held' = [held EXCEPT ![t] = [a \in Addrs |-> {Logical[a]}]]

\* execute, with check_for_announcement: the operation of some position of the
\* table, or none, is completed first.
CallExecute(t) ==
  /\ stack[t] = <<>> /\ unchecked[t] = {}
  /\ \E o \in Ops : \E S \in Requests :
       /\ \A p \in Ops : RowCount(p) = 0 <=> p >= o
       /\ cas_rows_' = [cas_rows_ EXCEPT ![o] = Sorted(S)]
       /\ op' = [op EXCEPT ![t] = o]
       /\ \E p \in ({o} \cup {op_table_[u] : u \in Threads}) \ {Null} :
            stack' = [stack EXCEPT ![t] = <<Frame(p, 1, p # o)>>]
  /\ Begin(t)
  /\ UNCHANGED <<mem, state_, helper_, op_table_, reclamation>>

CallRead(t) ==
  /\ stack[t] = <<>> /\ unchecked[t] = {}
  /\ RowCount(ReadsBefore) = 0
  /\ \E a \in ReadAddrs : stack' = [stack EXCEPT ![t] = <<ReadFrame(a)>>]
  /\ Begin(t)
  /\ UNCHANGED <<mem, cas_rows_, state_, helper_, op_table_, op, reclamation>>

-----------------------------------------------------------------------------
(* mcas_complete                                                           *)

Cas(a, old, new) == mem' = IF mem[a] = old THEN [mem EXCEPT ![a] = new] ELSE mem

\* compare_exchange of a row's helper_ from null; what it then holds.
Associated(o, i, w) == IF helper_[o][i] = Null THEN w ELSE helper_[o][i]

SetHelper(o, i, w) == helper_' = [helper_ EXCEPT ![o][i] = Associated(o, i, w)]

Load(t) ==
  /\ At(t, "load") \/ At(t, "reload")
  /\ Become(t, [Top(t) EXCEPT !.val = mem[Address(Top(t))],
                              !.at = IF Top(t).op # Null THEN "row"
                                     ELSE IF IsDescriptor(mem[Address(Top(t))]) THEN "watch"
                                     ELSE "done"])
  /\ UNCHANGED <<mem, helper_, state_, op_table_, op, reclamation>>

\* Is the row settled?
SeeHelper(t) ==
  LET f == Top(t)
      h == helper_[f.op][f.row]
  IN
  /\ At(t, "row")
  /\ IF h = Null THEN Goto(t, "state")
     ELSE IF h = FAIL_CONST THEN Goto(t, "fail")
     ELSE NextRow(t)
  /\ UNCHANGED <<mem, helper_, state_, op_table_, op, reclamation>>

\* Is the operation over?  If not, and the row was not delayed, what was read
\* tells what to do.
SeeState(t) ==
  LET f == Top(t)
      delayed == ~f.wf /\ f.left = 0
      count == IF f.wf \/ f.left < 0 THEN f.left ELSE f.left - 1
  IN
  /\ At(t, "state")
  /\ IF ~InProgress(f.op) THEN Returned(t, state_[f.op] = "PASS") /\ UNCHANGED op_table_
     ELSE IF delayed /\ Depth(t) = 0
     THEN Push(t, "announced", Frame(f.op, 1, TRUE)) /\ op_table_' = [op_table_ EXCEPT ![t] = f.op]
     ELSE IF delayed THEN RecursiveReturn(t) /\ UNCHANGED op_table_
     ELSE /\ Become(t, [f EXCEPT !.left = count,
                                 !.at = IF IsDescriptor(f.val) THEN "watch"
                                        ELSE IF f.val = Row(f.op, f.row).expected THEN "place"
                                        ELSE "mismatch"])
          /\ UNCHANGED op_table_
  /\ UNCHANGED <<mem, helper_, state_, op, reclamation>>

\* A bug: the operation fails though the row can still be associated.
MismatchOpen(t) ==
  /\ At(t, "mismatch")
  /\ Goto(t, "fail")
  /\ UNCHANGED <<mem, helper_, state_, op_table_, op, reclamation>>

Mismatch(t) ==
  LET f == Top(t) IN
  /\ At(t, "mismatch")
  /\ SetHelper(f.op, f.row, FAIL_CONST)
  /\ Goto(t, IF Associated(f.op, f.row, FAIL_CONST) = FAIL_CONST THEN "fail" ELSE "row")
  /\ UNCHANGED <<mem, state_, op_table_, op, reclamation>>

Place(t) ==
  LET f == Top(t)
      placed == mem[Address(f)] = f.val
  IN
  /\ At(t, "place")
  /\ Cas(Address(f), f.val, Helper(f.op, f.row, t))
  /\ Become(t, [f EXCEPT !.val = mem[Address(f)], !.at = IF placed THEN "associate" ELSE "row"])
  /\ UNCHANGED <<helper_, state_, op_table_, op, reclamation>>

AssociateOwn(t) ==
  LET f == Top(t)
      h == Helper(f.op, f.row, t)
  IN
  /\ At(t, "associate")
  /\ SetHelper(f.op, f.row, h)
  /\ IF Associated(f.op, f.row, h) = h THEN NextRow(t) ELSE Goto(t, "undo")
  /\ UNCHANGED <<mem, state_, op_table_, op, reclamation>>

\* The Helper came too late: the expected value returns.
Undo(t) ==
  LET f == Top(t) IN
  /\ At(t, "undo")
  /\ Cas(Address(f), Helper(f.op, f.row, t), Row(f.op, f.row).expected)
  /\ Goto(t, IF helper_[f.op][f.row] = FAIL_CONST THEN "fail" ELSE "over")
  /\ UNCHANGED <<helper_, state_, op_table_, op, reclamation>>

Over(t) ==
  /\ At(t, "over")
  /\ Returned(t, state_[Top(t).op] = "PASS")
  /\ UNCHANGED <<mem, helper_, state_, op_table_, op, reclamation>>

Decide(o, s) == state_' = [state_ EXCEPT ![o] = IF @ = "IN_PROGRESS" THEN s ELSE @]

\* A row that failed, or the last row that is associated, settles the outcome.
SetFail(t) ==
  /\ At(t, "fail")
  /\ Decide(Top(t).op, "FAIL")
  /\ Returned(t, FALSE)
  /\ UNCHANGED <<mem, helper_, op_table_, op, reclamation>>

SetPass(t) ==
  /\ At(t, "pass")
  /\ Decide(Top(t).op, "PASS")
  /\ Returned(t, state_[Top(t).op] \in {"IN_PROGRESS", "PASS"})
  /\ UNCHANGED <<mem, helper_, op_table_, op, reclamation>>

Withdraw(t) ==
  /\ At(t, "withdraw")
  /\ op_table_' = [op_table_ EXCEPT ![t] = Null]
  /\ Goto(t, "over")
  /\ UNCHANGED <<mem, helper_, state_, op, reclamation>>

-----------------------------------------------------------------------------
(* A Helper that is met: the reference counted watch with Helper::on_watch *)
(* and its hazard pointer watch of the operation, then mcas_remove.        *)

Watch(t) ==
  LET f == Top(t) IN
  /\ At(t, "watch")
  /\ Goto(t, IF mem[Address(f)] = f.val THEN "on_watch" ELSE "reload")
  /\ UNCHANGED <<mem, helper_, state_, op_table_, op, reclamation>>

OnWatch(t) ==
  LET f == Top(t)
      h == f.val
      found == Associated(h.op, h.row, h)
  IN
  /\ At(t, "on_watch")
  /\ SetHelper(h.op, h.row, h)
  /\ Goto(t, IF found # h THEN "restore" ELSE IF f.op = Null THEN "value" ELSE "own_row")
  /\ UNCHANGED <<mem, state_, op_table_, op, reclamation>>

Restore(t) ==
  LET f == Top(t) IN
  /\ At(t, "restore")
  /\ Cas(Address(f), f.val, Row(f.val.op, f.val.row).expected)
  /\ Goto(t, "reload")
  /\ UNCHANGED <<helper_, state_, op_table_, op, reclamation>>

\* The watch may have associated a Helper of this very row.
OwnRow(t) ==
  LET f == Top(t) IN
  /\ At(t, "own_row")
  /\ IF helper_[f.op][f.row] # Null THEN Goto(t, "row")
     ELSE IF Depth(t) > Cardinality(Threads) + 1 THEN RecursiveReturn(t)
     ELSE Goto(t, "remove")
  /\ UNCHANGED <<mem, helper_, state_, op_table_, op, reclamation>>

\* A second watch, and Helper::complete.
RemoveDescriptor(t) ==
  LET f == Top(t) IN
  /\ At(t, "remove")
  /\ IF mem[Address(f)] = f.val
     THEN Push(t, "helping", Frame(f.val.op, f.val.row, FALSE))
     ELSE Goto(t, "reload")
  /\ UNCHANGED <<mem, helper_, state_, op_table_, op, reclamation>>

Uninstall(t) ==
  LET f == Top(t)
      row == Row(f.val.op, f.val.row)
  IN
  /\ At(t, "uninstall")
  /\ Cas(Address(f), f.val, IF f.res THEN row.new ELSE row.expected)
  /\ Goto(t, "reload")
  /\ UNCHANGED <<helper_, state_, op_table_, op, reclamation>>
-----------------------------------------------------------------------------
(* cleanup, the end of a call, and safe_delete of the operation            *)

Installed(o, i, res) == IF res THEN Row(o, i).new ELSE Row(o, i).expected

\* A bug: the loop stops one row early.
CleanupShort(t) ==
  LET f == Top(t)
      h == helper_[f.op][f.row]
      last == f.row = RowCount(f.op)
  IN
  /\ At(t, "cleanup")
  /\ IF h = FAIL_CONST \/ last
     THEN Goto(t, "done") /\ UNCHANGED mem
     ELSE /\ Cas(Address(f), h, Installed(f.op, f.row, f.res))
          /\ Become(t, [f EXCEPT !.row = @ + 1])
  /\ UNCHANGED <<helper_, state_, op_table_, op, reclamation>>

Cleanup(t) ==
  LET f == Top(t)
      h == helper_[f.op][f.row]
      last == f.row = RowCount(f.op)
  IN
  /\ At(t, "cleanup")
  /\ IF h = FAIL_CONST
     THEN Goto(t, "done") /\ UNCHANGED mem
     ELSE /\ Cas(Address(f), h, Installed(f.op, f.row, f.res))
          /\ Become(t, [f EXCEPT !.at = IF last THEN "done" ELSE "cleanup",
                                 !.row = IF last THEN @ ELSE @ + 1])
  /\ UNCHANGED <<helper_, state_, op_table_, op, reclamation>>

\* A bug: the new value is read as soon as the Helper is there.
ReadValueEarly(t) ==
  LET f == Top(t)
      row == Row(f.val.op, f.val.row)
  IN
  /\ At(t, "value")
  /\ Become(t, [f EXCEPT !.at = "done",
                         !.val = IF state_[f.val.op] = "FAIL" THEN row.expected ELSE row.new])
  /\ UNCHANGED <<mem, helper_, state_, op_table_, op, reclamation>>

\* get_logical_value, for a reader.
ReadValue(t) ==
  LET f == Top(t)
      row == Row(f.val.op, f.val.row)
  IN
  /\ At(t, "value")
  /\ Become(t, [f EXCEPT !.at = "done",
                         !.val = IF state_[f.val.op] = "PASS" THEN row.new ELSE row.expected])
  /\ UNCHANGED <<mem, helper_, state_, op_table_, op, reclamation>>

\* The end of a call.  An operation is deleted safely: it joins those of the
\* thread that still wait, and all are checked again.
Return(t) ==
  LET over == {op[t]} \ {Null} IN
  /\ At(t, "done")
  /\ stack' = [stack EXCEPT ![t] = <<>>]
  /\ op' = [op EXCEPT ![t] = Null]
  /\ retired' = [retired EXCEPT ![t] = @ \cup over]
  /\ unchecked' = [unchecked EXCEPT ![t] = IF over = {} THEN {} ELSE retired'[t]]
  /\ held' = [held EXCEPT ![t] = Nothing]
  /\ UNCHANGED <<mem, cas_rows_, helper_, state_, op_table_, scan, deleted>>

\* A bug: the watch that on_watch of a Helper sets is not seen.
HazardWatchedShort(o) ==
  \E t \in Threads : stack[t] # <<>> /\ stack[t][1].wf /\ stack[t][1].op = o

\* Who holds operation o under a hazard pointer: on_watch of a Helper, and the
\* check for announcements.
HazardWatched(o) ==
  \E t \in Threads : stack[t] # <<>> /\
    \/ Top(t).at \in {"on_watch", "restore"} /\ Top(t).val.op = o
    \/ stack[t][1].wf /\ stack[t][1].op = o

\* Who holds a Helper under a reference count.
Counted(h) ==
  \E t \in Threads : \E i \in 1 .. Len(stack[t]) :
    stack[t][i].at \in {"on_watch", "restore", "value", "helping", "uninstall"} /\ stack[t][i].val = h

\* MultiWordCompareAndSwap::on_is_watched: the Helpers up to a row that failed.
OnIsWatched(o) == \E i \in 1 .. RowCount(o) : helper_[o][i] # FAIL_CONST /\ Counted(helper_[o][i])

Check(t, o) == unchecked' = [unchecked EXCEPT ![t] = @ \ {o}]

\* HazardPointer::is_watched: the slots first, then on_is_watched.
StartScan(t) ==
  /\ scan[t] = Null
  /\ \E o \in unchecked[t] :
       IF HazardWatched(o)
       THEN Check(t, o) /\ UNCHANGED scan
       ELSE scan' = [scan EXCEPT ![t] = o] /\ UNCHANGED unchecked
  /\ UNCHANGED <<mem, cas_rows_, helper_, state_, op_table_, op, stack, retired, deleted, held>>

FinishScan(t) ==
  /\ scan[t] # Null
  /\ scan' = [scan EXCEPT ![t] = Null]
  /\ Check(t, scan[t])
  /\ IF OnIsWatched(scan[t])
     THEN UNCHANGED <<retired, deleted>>
     ELSE /\ retired' = [retired EXCEPT ![t] = @ \ {scan[t]}]
          /\ deleted' = deleted \cup {scan[t]}
  /\ UNCHANGED <<mem, cas_rows_, helper_, state_, op_table_, op, stack, held>>

-----------------------------------------------------------------------------

Access(t) ==
  \/ Load(t) \/ SeeHelper(t) \/ SeeState(t) \/ Mismatch(t) \/ Place(t)
  \/ AssociateOwn(t) \/ Undo(t) \/ Over(t) \/ SetFail(t) \/ SetPass(t) \/ Withdraw(t)
  \/ Watch(t) \/ OnWatch(t) \/ Restore(t) \/ OwnRow(t) \/ RemoveDescriptor(t) \/ Uninstall(t)
  \/ Cleanup(t) \/ ReadValue(t)

Step(t) ==
  /\ Access(t)
  /\ UNCHANGED cas_rows_
  /\ held' = [u \in Threads |->
                IF stack[u] = <<>> THEN held[u]
                ELSE [a \in Addrs |-> held[u][a] \cup {Logical'[a]}]]

Next ==
  \E t \in Threads :
    \/ CallExecute(t) \/ CallRead(t) \/ Step(t) \/ Return(t)
    \/ StartScan(t) \/ FinishScan(t)

Spec == Init /\ [][Next]_vars

-----------------------------------------------------------------------------

Rows(o) == 1 .. RowCount(o)

\* A Helper that is associated with its row stays at its address until the
\* operation is over: only then may a thread that comes too late put the
\* expected value back (mcas_imp.h:164).
AssociatedStays ==
  \A o \in Ops : \A i \in Rows(o) :
    InProgress(o) /\ helper_[o][i] \notin {Null, FAIL_CONST} => mem[Row(o, i).address] = helper_[o][i]

\* A thread only helps downwards: each operation it helps is waited for at a
\* lower address than the one before, so no operation waits for itself and the
\* recursion is as deep as there are addresses, not as there are operations.
HelpGoesDown ==
  \A t \in Threads : \A i, j \in 1 .. Len(stack[t]) :
    i < j /\ stack[t][i].at = "helping" /\ stack[t][j].at = "helping"
      => Address(stack[t][j]) < Address(stack[t][i])

\* An operation is over when somebody returns from it, and what is returned is
\* its outcome; a row that failed and a row that is not settled exclude PASS.
AnswerIsOutcome ==
  /\ \A t \in Threads : At(t, "over") => ~InProgress(Top(t).op)
  /\ \A t \in Threads : At(t, "cleanup") =>
       /\ ~InProgress(Top(t).op)
       /\ Top(t).res = (state_[Top(t).op] = "PASS")
       /\ helper_[Top(t).op][Top(t).row] # Null
  /\ \A o \in Ops : \A i \in Rows(o) :
       state_[o] = "PASS" => helper_[o][i] \notin {Null, FAIL_CONST}

\* When execute returns, no Helper associated with its rows is left.
NothingLeft ==
  \A o \in Ops : o \in deleted \cup UNION {retired[t] : t \in Threads} =>
    \A i \in Rows(o) : mem[Row(o, i).address] # helper_[o][i]

\* No thread uses an operation whose memory was given back.  (Two threads at
\* most: with a third, on_watch can take a watch that comes too late for one
\* that protects the operation, mcas_helper.h:76-83.)
NoUseAfterFree ==
  \A t \in Threads : \A i \in 1 .. Len(stack[t]) :
    LET f == stack[t][i] IN
    /\ f.op \notin deleted
    /\ f.at \in {"on_watch", "restore", "value", "helping", "uninstall"} => f.val.op \notin deleted

\* execute and read are linearizable.
Pending(t) ==
  IF stack[t] = <<>> THEN Null
  ELSE IF op[t] = Null THEN [kind |-> "read", address |-> Top(t).row]
  ELSE [kind |-> "mcas", triples |-> {Row(op[t], i) : i \in Rows(op[t])}]

Outcome(t) ==
  IF stack[t] = <<>> THEN Null
  ELSE IF op[t] = Null THEN IF At(t, "done") THEN Top(t).val ELSE Null
  ELSE CASE state_[op[t]] = "PASS" -> "pass"
         [] state_[op[t]] = "FAIL" -> "fail"
         [] OTHER -> Null

Abstract == INSTANCE AbstractMCAS WITH
  memory <- Logical,
  pending <- [t \in Threads |-> Pending(t)],
  outcome <- [t \in Threads |-> Outcome(t)]

RefinesMCAS == Abstract!Spec
=============================================================================
