-------------------------- MODULE ProgressAssurance --------------------------
(***************************************************************************)
(* The announcement scheme of tervel/util/progress_assurance: a table with *)
(* one operation record per thread.  A thread whose operation was delayed  *)
(* too often announces it there; every thread, at the start of some of its *)
(* own operations, looks at one position of the table and helps what it    *)
(* finds, under a hazard pointer watch of slot PROG_ASSUR.                 *)
(*                                                                         *)
(* The module holds the scheme's steps; the container supplies             *)
(* help_complete and the records (WFStack is the first to do so).          *)
(***************************************************************************)
EXTENDS HazardPointer, Integers

CONSTANTS
  LIMIT,       (* TERVEL_PROG_ASSUR_LIMIT: rounds before an announcement;  *)
               (* -1: never announce                                       *)
  HELP_DELAY   (* TERVEL_PROG_ASSUR_DELAY: operations between two checks   *)

ASSUME LIMITAssumption == LIMIT \in Nat \cup {-1}
ASSUME HELP_DELAYAssumption == HELP_DELAY \in Nat

SHORTUSE == 0
SHORTUSE2 == 1
PROG_ASSUR == 2

(* END is what follows them in the enumeration SlotID.                     *)
ASSUME SlotsAssumption == PROG_ASSUR < END

VARIABLES
  op_table_,   (* the announced operation record of each thread            *)
  help_id,     (* the position a thread checked last                       *)
  delay_count, (* operations until a thread's next check                   *)
  counter_     (* Limit::counter_ of a thread's operation: rounds left     *)

paVars == <<op_table_, help_id, delay_count, counter_>>

PAInit ==
  /\ op_table_ = [t \in Threads |-> Null]
  /\ help_id = [t \in Threads |-> 0]
  /\ delay_count = [t \in Threads |-> HELP_DELAY]
  /\ counter_ = [t \in Threads |-> LIMIT]

------------------------------------------------------------------------------
(* check_for_announcement *)

(* The next position to check: every thread's comes round again.           *)
NextHelpId(i) == IF i + 1 >= NumThreads THEN 0 ELSE i + 1

(* Not yet. *)
SkipCheck(t) ==
  /\ delay_count[t] # 0
  /\ delay_count' = [delay_count EXCEPT ![t] = delay_count[t] - 1]
  /\ UNCHANGED <<hpVars, op_table_, help_id, counter_>>

(* One position: a record that is there is watched, on the condition that  *)
(* the position still holds it.                                            *)
CheckPosition(t) ==
  LET i == NextHelpId(help_id[t]) IN
  /\ delay_count[t] = 0
  /\ delay_count' = [delay_count EXCEPT ![t] = HELP_DELAY]
  /\ help_id' = [help_id EXCEPT ![t] = i]
  /\ IF op_table_[i] = Null
     THEN UNCHANGED hpVars
     ELSE WatchCall(t, PROG_ASSUR, op_table_[i])
  /\ UNCHANGED <<op_table_, counter_>>

ValidateRecord(t) ==
  /\ WatchValidate(t, op_table_[help_id[t]], elem[t])
  /\ UNCHANGED paVars

------------------------------------------------------------------------------
(* Limit and make_announcement *)

StartLimit(t) == counter_' = [counter_ EXCEPT ![t] = LIMIT]

(* isDelayed() is true once, in the round that starts with the count at    *)
(* zero; below zero the count has no effect, so it stops at -1.            *)
IsDelayed(t) == counter_[t] = 0

CountRound(t) ==
  counter_' = [counter_ EXCEPT ![t] = IF counter_[t] < 0 THEN -1 ELSE counter_[t] - 1]

Announce(t, op) == op_table_' = [op_table_ EXCEPT ![t] = op]

Withdraw(t) == op_table_' = [op_table_ EXCEPT ![t] = Null]
==============================================================================
