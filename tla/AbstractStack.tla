---------------------------- MODULE AbstractStack ----------------------------
(***************************************************************************)
(* What the stacks of tervel promise: a sequence of values, on which every *)
(* operation takes effect once, at one moment between its call and its     *)
(* return.  push returns true; pop returns true with the value it removed  *)
(* from the top, or false if the stack was empty at that moment.           *)
(***************************************************************************)
EXTENDS Naturals, Sequences

CONSTANTS
  Threads,
  Values

VARIABLES
  contents,   (* the stack, top first                                      *)
  op          (* the operation of each thread, as far as it got            *)

Idle == [state |-> "idle"]
Pushing(v) == [state |-> "pushing", value |-> v]
Popping == [state |-> "popping"]
Pushed == [state |-> "pushed"]
Popped(v) == [state |-> "popped", value |-> v]
Empty == [state |-> "empty"]

Init ==
  /\ contents = <<>>
  /\ op = [t \in Threads |-> Idle]

Call(t) ==
  /\ op[t] = Idle
  /\ \E o \in {Popping} \cup {Pushing(v) : v \in Values} : op' = [op EXCEPT ![t] = o]
  /\ UNCHANGED contents

Push(t) ==
  \E v \in Values :
    /\ op[t] = Pushing(v)
    /\ contents' = <<v>> \o contents
    /\ op' = [op EXCEPT ![t] = Pushed]

Pop(t) ==
  /\ op[t] = Popping
  /\ IF contents = <<>>
     THEN /\ op' = [op EXCEPT ![t] = Empty]
          /\ UNCHANGED contents
     ELSE /\ op' = [op EXCEPT ![t] = Popped(Head(contents))]
          /\ contents' = Tail(contents)

Return(t) ==
  /\ op[t].state \in {"pushed", "popped", "empty"}
  /\ op' = [op EXCEPT ![t] = Idle]
  /\ UNCHANGED contents

Next == \E t \in Threads : Call(t) \/ Push(t) \/ Pop(t) \/ Return(t)

Spec == Init /\ [][Next]_<<contents, op>>
==============================================================================
