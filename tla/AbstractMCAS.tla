---------------------------- MODULE AbstractMCAS ----------------------------
(***************************************************************************)
(* What tervel/algorithms/wf/mcas promises: execute() changes all its      *)
(* addresses at one moment of the call, if each held its expected value,   *)
(* and otherwise none; read() returns a value the address held at a moment *)
(* of the call.                                                            *)
(***************************************************************************)
CONSTANTS
  Threads, Addrs, Values, Null,
  Requests,     \* the sets of triples a call may ask for
  ReadAddrs     \* the addresses that are read

VARIABLES
  memory,       \* the value of each address
  pending,      \* the call a thread is in, or Null
  outcome,      \* what it will return, once that is settled, or Null
  held          \* per thread and address, the values held since the call began

vars == <<memory, pending, outcome, held>>

MCASCall(S) == [kind |-> "mcas", triples |-> S]
ReadCall(a) == [kind |-> "read", address |-> a]

Nothing == [a \in Addrs |-> {}]

Init ==
  /\ memory \in [Addrs -> Values]
  /\ pending = [t \in Threads |-> Null]
  /\ outcome = [t \in Threads |-> Null]
  /\ held = [t \in Threads |-> Nothing]

Call(t, c) ==
  /\ pending[t] = Null
  /\ pending' = [pending EXCEPT ![t] = c]
  /\ held' = [held EXCEPT ![t] = [a \in Addrs |-> {memory[a]}]]
  /\ UNCHANGED <<memory, outcome>>

Undecided(t, kind) == pending[t] # Null /\ pending[t].kind = kind /\ outcome[t] = Null

NewValue(S, a) == (CHOOSE r \in S : r.address = a).new

Succeed(t) ==
  /\ Undecided(t, "mcas")
  /\ LET S == pending[t].triples IN
       /\ \A r \in S : memory[r.address] = r.expected
       /\ memory' = [a \in Addrs |-> IF \E r \in S : r.address = a THEN NewValue(S, a) ELSE memory[a]]
  /\ outcome' = [outcome EXCEPT ![t] = "pass"]
  /\ held' = [u \in Threads |->
                IF pending[u] = Null THEN held[u]
                ELSE [a \in Addrs |-> held[u][a] \cup {memory'[a]}]]
  /\ UNCHANGED pending

\* Some address did not hold its expected value at some moment of the call.
Miss(t) ==
  /\ Undecided(t, "mcas")
  /\ \E r \in pending[t].triples : \E v \in held[t][r.address] : v # r.expected
  /\ outcome' = [outcome EXCEPT ![t] = "fail"]
  /\ UNCHANGED <<memory, pending, held>>

Look(t) ==
  /\ Undecided(t, "read")
  /\ \E v \in held[t][pending[t].address] : outcome' = [outcome EXCEPT ![t] = v]
  /\ UNCHANGED <<memory, pending, held>>

Return(t) ==
  /\ pending[t] # Null
  /\ outcome[t] # Null
  /\ pending' = [pending EXCEPT ![t] = Null]
  /\ outcome' = [outcome EXCEPT ![t] = Null]
  /\ held' = [held EXCEPT ![t] = Nothing]
  /\ UNCHANGED memory

Next ==
  \E t \in Threads :
    \/ \E S \in Requests : Call(t, MCASCall(S))
    \/ \E a \in ReadAddrs : Call(t, ReadCall(a))
    \/ Succeed(t) \/ Miss(t) \/ Look(t) \/ Return(t)

Spec == Init /\ [][Next]_vars
=============================================================================
