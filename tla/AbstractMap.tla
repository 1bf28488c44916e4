----------------------------- MODULE AbstractMap -----------------------------
(***************************************************************************)
(* What tervel/containers/wf/hash-map promises: insert, remove and at take *)
(* effect at one moment of the call.  at() counts its caller as a reader   *)
(* of the key until the caller releases it; a key that has readers is not  *)
(* removed.                                                                *)
(***************************************************************************)
EXTENDS Naturals

CONSTANTS Threads, Keys, Values, Null

VARIABLES
  map,        \* the value of each key, or Null
  readers,    \* the readers of each key
  pending,    \* the call a thread is in, or Null
  outcome,    \* what it will return, once that is settled, or Null
  seen        \* what the key of the call was during the call

vars == <<map, readers, pending, outcome, seen>>

Calls ==
  [kind : {"insert"}, key : Keys, value : Values] \cup [kind : {"remove", "at"}, key : Keys]

State == [k \in Keys |-> IF map[k] = Null THEN "absent" ELSE IF readers[k] = 0 THEN "free" ELSE "read"]

Init ==
  /\ map = [k \in Keys |-> Null]
  /\ readers = [k \in Keys |-> 0]
  /\ pending = [t \in Threads |-> Null]
  /\ outcome = [t \in Threads |-> Null]
  /\ seen = [t \in Threads |-> {}]

Call(t) ==
  /\ pending[t] = Null
  /\ \E c \in Calls :
       /\ pending' = [pending EXCEPT ![t] = c]
       /\ seen' = [seen EXCEPT ![t] = {State[c.key]}]
  /\ UNCHANGED <<map, readers, outcome>>

Undecided(t, kind) == pending[t] # Null /\ pending[t].kind = kind /\ outcome[t] = Null
Decide(t, o) == outcome' = [outcome EXCEPT ![t] = o]

\* Everyone whose call is not settled sees what became of its key.
Look == seen' = [t \in Threads |-> IF pending[t] = Null \/ outcome'[t] # Null THEN {} ELSE seen[t] \cup {State'[pending[t].key]}]

Insert(t) ==
  /\ Undecided(t, "insert")
  /\ LET c == pending[t] IN
       IF map[c.key] = Null
       THEN map' = [map EXCEPT ![c.key] = c.value] /\ Decide(t, "done")
       ELSE Decide(t, "refused") /\ UNCHANGED map
  /\ Look
  /\ UNCHANGED <<readers, pending>>

Remove(t) ==
  /\ Undecided(t, "remove")
  /\ State[pending[t].key] = "free"
  /\ map' = [map EXCEPT ![pending[t].key] = Null]
  /\ Decide(t, "done")
  /\ Look
  /\ UNCHANGED <<readers, pending>>

\* The key was absent, or was being read, at some moment of the call.
RemoveNothing(t) ==
  /\ Undecided(t, "remove")
  /\ seen[t] \cap {"absent", "read"} # {}
  /\ Decide(t, "refused")
  /\ Look
  /\ UNCHANGED <<map, readers, pending>>

Find(t) ==
  /\ Undecided(t, "at")
  /\ LET k == pending[t].key IN
       /\ map[k] # Null
       /\ readers' = [readers EXCEPT ![k] = @ + 1]
       /\ Decide(t, map[k])
  /\ Look
  /\ UNCHANGED <<map, pending>>

FindNothing(t) ==
  /\ Undecided(t, "at")
  /\ "absent" \in seen[t]
  /\ Decide(t, "refused")
  /\ Look
  /\ UNCHANGED <<map, readers, pending>>

Release(k) ==
  /\ readers[k] > 0
  /\ readers' = [readers EXCEPT ![k] = @ - 1]
  /\ Look
  /\ UNCHANGED <<map, pending, outcome>>

Return(t) ==
  /\ pending[t] # Null /\ outcome[t] # Null
  /\ pending' = [pending EXCEPT ![t] = Null]
  /\ outcome' = [outcome EXCEPT ![t] = Null]
  /\ seen' = [seen EXCEPT ![t] = {}]
  /\ UNCHANGED <<map, readers>>

Next ==
  \/ \E t \in Threads :
       \/ Call(t) \/ Insert(t) \/ Remove(t) \/ RemoveNothing(t)
       \/ Find(t) \/ FindNothing(t) \/ Return(t)
  \/ \E k \in Keys : Release(k)

Spec == Init /\ [][Next]_vars
=============================================================================
