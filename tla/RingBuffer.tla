----------------------------- MODULE RingBuffer -----------------------------
(***************************************************************************)
(* enqueue and dequeue of tervel/containers/wf/ring-buffer: a thread takes *)
(* a ticket (the old value of tail_ or head_), which names a position of   *)
(* the array, and then works at that position until it placed or took a    *)
(* value, or must give the ticket up and take another.                     *)
(*                                                                         *)
(* One action per access of a shared word.  This is the loop of a thread   *)
(* that is never delayed: nothing is announced.                            *)
(***************************************************************************)
EXTENDS Integers, FiniteSets

CONSTANTS
  Threads,
  Values,       \* the objects enqueued, each at most once with success: the
                \* buffer does not protect an object that is used again
  capacity_,
  LoadOrders,   \* which of the two counters isFull and isEmpty may load
                \* first: the language leaves it to the compiler
  NoValue,
  MaxTicket     \* bound: the tickets of each counter

ASSUME ThreadsAssumption == IsFiniteSet(Threads)
ASSUME capacityAssumption == capacity_ \in Nat \ {0}
ASSUME LoadOrdersAssumption == LoadOrders \subseteq {"head", "tail"}
ASSUME NoValueAssumption == NoValue \notin Values
ASSUME MaxTicketAssumption == MaxTicket \in Nat

VARIABLES
  head_, tail_,
  array_,       \* the words of the buffer
  seqid_,       \* Value::seqid_
  pc,           \* the access a thread makes next
  op,           \* the operation a thread is in
  value,        \* its argument, or the value dequeue found; NoValue if none
  seqid,        \* the ticket a thread holds, or NoTicket
  val,          \* the word it read
  count,        \* the counter it loaded first in isFull or isEmpty; cur_head
  taken,        \* history: the values dequeued
  older,        \* history: per value, those enqueued when its enqueue began
  gone,         \* history: per thread, those dequeued when its dequeue began
  seen          \* history: the threads whose call to dequeue saw a moment at
                \* which the buffer could count as empty

counters == <<head_, tail_>>
histories == <<taken, older, gone>>
vars == <<counters, array_, seqid_, pc, op, value, seqid, val, count, histories, seen>>

NoTicket == -1
Positions == 0 .. capacity_ - 1
GetPos(s) == s % capacity_

-----------------------------------------------------------------------------
(* The words.  A value's word is its address, the sequence id is in the    *)
(* object; the lowest bit of either kind of word is the delay mark.        *)

EmptyType(s) == [kind |-> "empty", id |-> s, mark |-> FALSE]
ValueType(v) == [kind |-> "value", id |-> v, mark |-> FALSE]
DelayMarkValue(w) == [w EXCEPT !.mark = TRUE]
NextSeqIdBackwards(s) == s - capacity_                   \* a mutant
NextSeqId(s) == s + capacity_

IsValue(w) == w.kind = "value"
IsEmptyType(w) == w.kind = "empty"
SeqIdOf(w) == IF IsValue(w) THEN seqid_[w.id] ELSE w.id

Nothing == EmptyType(0)
Cell(t) == array_[GetPos(seqid[t])]

IsFull(tail, head) == tail - head >= capacity_
IsEmptyEarly(tail, head) == tail - head <= 1              \* a mutant
IsEmpty(tail, head) == tail - head <= 0

Enqueuing(t) == op[t] = "enqueue"
Dequeuing(t) == op[t] = "dequeue"

Init ==
  /\ head_ = 0
  /\ tail_ = 0
  /\ array_ = [i \in Positions |-> EmptyType(i)]
  /\ seqid_ = [v \in Values |-> -1]
  /\ pc = [t \in Threads |-> "idle"]
  /\ op = [t \in Threads |-> "none"]
  /\ value = [t \in Threads |-> NoValue]
  /\ seqid = [t \in Threads |-> NoTicket]
  /\ val = [t \in Threads |-> Nothing]
  /\ count = [t \in Threads |-> 0]
  /\ taken = {}
  /\ older = [v \in Values |-> {}]
  /\ gone = [t \in Threads |-> {}]
  /\ seen = {}

Goto(t, l) == pc' = [pc EXCEPT ![t] = l]
At(t, l) == pc[t] = l
Keep(t, w) == val' = [val EXCEPT ![t] = w]

\* The outer loop again, for a new ticket.
GiveUp(t) ==
  /\ Goto(t, "check")
  /\ seqid' = [seqid EXCEPT ![t] = NoTicket]
  /\ Keep(t, Nothing)

\* The end of the call.
Leave(t) ==
  /\ Goto(t, "idle")
  /\ op' = [op EXCEPT ![t] = "none"]
  /\ seqid' = [seqid EXCEPT ![t] = NoTicket]
  /\ value' = [value EXCEPT ![t] = NoValue]
  /\ Keep(t, Nothing)

Present == {v \in Values : \E i \in Positions : IsValue(array_[i]) /\ array_[i].id = v}
Enqueued == Present \cup taken

-----------------------------------------------------------------------------
(* The call, isFull or isEmpty, and the ticket                             *)

CallEnqueue(t) ==
  /\ At(t, "idle")
  /\ \E v \in Values \ (Enqueued \cup {value[u] : u \in Threads}) :
       /\ value' = [value EXCEPT ![t] = v]
       /\ older' = [older EXCEPT ![v] = Enqueued]
  /\ op' = [op EXCEPT ![t] = "enqueue"]
  /\ Goto(t, "check")
  /\ UNCHANGED <<counters, array_, seqid_, seqid, val, count, taken, gone>>

CallDequeue(t) ==
  /\ At(t, "idle")
  /\ gone' = [gone EXCEPT ![t] = taken]
  /\ op' = [op EXCEPT ![t] = "dequeue"]
  /\ Goto(t, "check")
  /\ UNCHANGED <<counters, array_, seqid_, value, seqid, val, count, taken, older>>

LoadCounter(t) ==
  /\ At(t, "check")
  /\ \E first \in LoadOrders :
       /\ count' = [count EXCEPT ![t] = IF first = "head" THEN head_ ELSE tail_]
       /\ Goto(t, IF first = "head" THEN "load_tail" ELSE "load_head")
  /\ UNCHANGED <<counters, array_, seqid_, op, value, seqid, val, histories>>

\* What isFull or isEmpty returns, once the second counter is loaded.
Refused(t) ==
  LET head == IF At(t, "load_tail") THEN count[t] ELSE head_
      tail == IF At(t, "load_tail") THEN tail_ ELSE count[t]
  IN IF Enqueuing(t) THEN IsFull(tail, head) ELSE IsEmpty(tail, head)

LoadOther(t) ==
  /\ pc[t] \in {"load_head", "load_tail"}
  /\ IF Refused(t)
     THEN Leave(t)
     ELSE Goto(t, "ticket") /\ UNCHANGED <<op, value, seqid, val>>
  /\ count' = [count EXCEPT ![t] = 0]
  /\ UNCHANGED <<counters, array_, seqid_, histories>>

\* nextTail or nextHead.
Ticket(t) ==
  /\ At(t, "ticket")
  /\ IF Enqueuing(t)
     THEN /\ tail_ < MaxTicket
          /\ tail_' = tail_ + 1
          /\ seqid' = [seqid EXCEPT ![t] = tail_]
          /\ UNCHANGED head_
     ELSE /\ head_ < MaxTicket
          /\ head_' = head_ + 1
          /\ seqid' = [seqid EXCEPT ![t] = head_]
          /\ UNCHANGED tail_
  /\ Goto(t, "read")
  /\ UNCHANGED <<array_, seqid_, op, value, val, count, histories>>

-----------------------------------------------------------------------------
(* The inner loop *)

LaterLap(t) == SeqIdOf(Cell(t)) > NextSeqId(seqid[t])      \* a mutant
Later(t) == SeqIdOf(Cell(t)) > seqid[t]
Ready(t) == IsEmptyType(Cell(t)) /\ SeqIdOf(Cell(t)) = seqid[t] /\ ~Cell(t).mark
MineAnyTicket(t) == IsValue(Cell(t))                      \* a mutant
Mine(t) == IsValue(Cell(t)) /\ SeqIdOf(Cell(t)) = seqid[t]
Closed(t) == IsEmptyType(Cell(t)) /\ Cell(t).mark

\* readValue and getInfo: a word of a later ticket ends the loop; otherwise
\* the thread goes on with what it read.
Read(t) ==
  /\ At(t, "read")
  /\ IF Later(t)
     THEN GiveUp(t) /\ UNCHANGED value
     ELSE /\ Keep(t, Cell(t))
          /\ Goto(t, CASE Enqueuing(t) /\ Ready(t) -> "put"
                       [] Dequeuing(t) /\ Mine(t) -> "take"
                       [] Dequeuing(t) /\ Closed(t) -> "get_head"
                       [] OTHER -> "backoff")
          /\ value' = IF Mine(t) /\ Dequeuing(t) THEN [value EXCEPT ![t] = Cell(t).id] ELSE value
          /\ UNCHANGED seqid
  /\ UNCHANGED <<counters, array_, seqid_, op, count, histories>>

\* backoff: has the word changed?  enqueue passes over everything but an empty
\* word that is not marked; dequeue passes over a marked value of an earlier
\* ticket.
PassesOver(t) == IF Enqueuing(t) THEN IsValue(val[t]) \/ val[t].mark ELSE IsValue(val[t]) /\ val[t].mark

Backoff(t) ==
  /\ At(t, "backoff")
  /\ IF Cell(t) # val[t]
     THEN Goto(t, "read") /\ Keep(t, Nothing) /\ UNCHANGED seqid
     ELSE IF PassesOver(t)
     THEN GiveUp(t)
     ELSE /\ Goto(t, CASE Enqueuing(t) -> "put"
                       [] Dequeuing(t) /\ IsValue(val[t]) -> "mark"
                       [] OTHER -> "skip")
          /\ UNCHANGED <<seqid, val>>
  /\ UNCHANGED <<counters, array_, seqid_, op, value, count, histories>>

Again(t) == Goto(t, "read") /\ Keep(t, Nothing) /\ UNCHANGED <<array_, seqid>>

Write(t, w) == array_' = [array_ EXCEPT ![GetPos(seqid[t])] = w]

\* enqueue: compare_exchange from an empty word to the value.
Put(t) ==
  /\ At(t, "put")
  /\ seqid_' = [seqid_ EXCEPT ![value[t]] = seqid[t]]
  /\ IF Cell(t) = val[t]
     THEN Write(t, ValueType(value[t])) /\ Leave(t)
     ELSE Again(t) /\ UNCHANGED <<op, value>>
  /\ UNCHANGED <<counters, count, histories>>

\* What a dequeued value leaves behind: the next empty word, marked if the
\* value was.
LeftBehindOpen(t) == EmptyType(NextSeqId(seqid[t]))       \* a mutant
LeftBehind(t) == [EmptyType(NextSeqId(seqid[t])) EXCEPT !.mark = val[t].mark \/ At(t, "take_again")]

\* dequeue: compare_exchange of the value it found.  If that fails the value
\* was marked meanwhile, and a second one expects what is there now.
Take(t) ==
  /\ pc[t] \in {"take", "take_again"}
  /\ IF Cell(t) = val[t]
     THEN /\ Write(t, LeftBehind(t))
          /\ taken' = taken \cup {value[t]}
          /\ Leave(t)
     ELSE /\ Goto(t, IF At(t, "take") THEN "take_again" ELSE "read")
          /\ Keep(t, IF At(t, "take") THEN Cell(t) ELSE Nothing)
          /\ UNCHANGED <<array_, op, value, seqid, taken>>
  /\ UNCHANGED <<counters, seqid_, count, older, gone>>

\* atomic_delay_mark: whatever is there now.
Mark(t) ==
  /\ At(t, "mark")
  /\ Write(t, DelayMarkValue(Cell(t)))
  /\ Goto(t, "read") /\ Keep(t, Nothing)
  /\ UNCHANGED <<counters, seqid_, op, value, seqid, count, histories>>

\* A marked empty word is opened for a lap that nobody has a ticket of.
GetHead(t) ==
  /\ At(t, "get_head")
  /\ count' = [count EXCEPT ![t] = head_]
  /\ Goto(t, "reopen")
  /\ UNCHANGED <<counters, array_, seqid_, op, value, seqid, val, histories>>

NewLap(head, pos) == head + 2 * capacity_ - GetPos(head) + pos

Reopen(t) ==
  /\ At(t, "reopen")
  /\ IF Cell(t) = val[t]
     THEN Write(t, EmptyType(NewLap(count[t], GetPos(seqid[t]))))
     ELSE UNCHANGED array_
  /\ Goto(t, "read") /\ Keep(t, Nothing)
  /\ count' = [count EXCEPT ![t] = 0]
  /\ UNCHANGED <<counters, seqid_, op, value, seqid, histories>>

\* dequeue: nobody enqueued with its ticket, and nobody will.
Skip(t) ==
  /\ At(t, "skip")
  /\ IF Cell(t) = val[t]
     THEN Write(t, EmptyType(NextSeqId(seqid[t]))) /\ GiveUp(t)
     ELSE Again(t)
  /\ UNCHANGED <<counters, seqid_, op, value, count, histories>>

-----------------------------------------------------------------------------

Step(t) ==
  \/ CallEnqueue(t) \/ CallDequeue(t)
  \/ LoadCounter(t) \/ LoadOther(t) \/ Ticket(t)
  \/ Read(t) \/ Backoff(t) \/ Put(t) \/ Take(t) \/ Mark(t)
  \/ GetHead(t) \/ Reopen(t) \/ Skip(t)

\* At this moment a linearization may have the buffer empty, seen from t's call
\* of dequeue: every other dequeue that has begun may count as done.
EmptyFor(t) ==
  Dequeuing(t) /\ Cardinality(Present) <= Cardinality({u \in Threads \ {t} : Dequeuing(u)})

Next ==
  \E t \in Threads :
    /\ Step(t)
    /\ seen' = {u \in Threads : pc'[u] # "idle" /\ (u \in seen \/ EmptyFor(u)')}

Spec == Init /\ [][Next]_vars

-----------------------------------------------------------------------------

Words == [kind : {"empty"}, id : Nat, mark : BOOLEAN] \cup [kind : {"value"}, id : Values, mark : BOOLEAN]

TypeOK ==
  /\ head_ \in Nat
  /\ tail_ \in Nat
  /\ array_ \in [Positions -> Words]
  /\ seqid_ \in [Values -> Nat \cup {-1}]
  /\ pc \in [Threads -> {"idle", "check", "load_head", "load_tail", "ticket", "read", "backoff",
                         "put", "take", "take_again", "mark", "get_head", "reopen", "skip"}]
  /\ op \in [Threads -> {"none", "enqueue", "dequeue"}]
  /\ value \in [Threads -> Values \cup {NoValue}]
  /\ seqid \in [Threads -> Nat \cup {NoTicket}]
  /\ val \in [Threads -> Words]
  /\ count \in [Threads -> Nat]
  /\ taken \subseteq Values
  /\ seen \subseteq Threads

\* The dequeue that holds ticket s.
HeldBy(t, s) == Dequeuing(t) /\ seqid[t] = s

\* No value is stranded: the ticket that takes it has not been given out, or
\* the dequeue that holds it has not given it up.  A value whose ticket was
\* given up would stay in the buffer for ever, and its position with it.
NothingStranded ==
  \A i \in Positions :
    IsValue(array_[i]) =>
      LET s == SeqIdOf(array_[i])
      IN s >= head_ \/ \E t \in Threads : HeldBy(t, s)

\* First in, first out (ring_buffer.h:55): a value is not dequeued by a call
\* that began after a value was dequeued whose enqueue began after its own had
\* returned.
FIFO ==
  [][\A t \in Threads : \A a \in taken' \ taken :
       Dequeuing(t) /\ a = value[t] => \A b \in gone[t] : a \notin older[b]]_vars

\* The sequence id of a position never falls back: a slow thread whose ticket
\* the position has passed can tell.
PositionsMoveOn ==
  [][\A i \in Positions : SeqIdOf(array_[i])' >= SeqIdOf(array_[i])]_vars

\* dequeue "returns false in the event the ring buffer is empty"
\* (ring_buffer.h:195): at some moment of the call it was.
RefusedWhenEmpty ==
  [][\A t \in Threads :
       pc[t] \in {"load_head", "load_tail"} /\ Dequeuing(t) /\ pc'[t] = "idle" =>
         t \in seen \/ EmptyFor(t)]_vars
=============================================================================
