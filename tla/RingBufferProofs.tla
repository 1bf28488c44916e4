-------------------------- MODULE RingBufferProofs --------------------------
(***************************************************************************)
(* For every number of threads, values and positions: the types of         *)
(* RingBuffer are right, no value is stranded at a ticket that was given   *)
(* up, the sequence id of a position never falls back, values leave first  *)
(* in, first out, and a dequeue that loads head_ before tail_ fails only   *)
(* when the buffer was empty.                                              *)
(*                                                                         *)
(* The argument is about the tickets that are dead: given out to a dequeue *)
(* that no longer holds them.  A dequeue gives its ticket up only when its *)
(* position shows a later sequence id or a mark, so nobody can enqueue     *)
(* with the ticket any more (Passed).  What is delicate is the step that   *)
(* takes the mark away again (Reopen): the sequence id it writes is above  *)
(* every dead ticket, because the tickets that died while the word was     *)
(* marked are below the head the thread loaded after it saw the word, or   *)
(* below the word's own id (Reopening).                                    *)
(***************************************************************************)
EXTENDS RingBuffer, FiniteSetTheorems, TLAPS

Working == {"read", "backoff", "put", "take", "take_again", "mark", "get_head", "reopen", "skip"}

\* Where a thread is and what it holds there.
Shape(t) ==
  /\ At(t, "idle") <=> op[t] = "none"
  /\ pc[t] \in Working <=> seqid[t] # NoTicket
  /\ At(t, "put") => Enqueuing(t)
  /\ pc[t] \in {"take", "take_again", "mark", "get_head", "reopen", "skip"} => Dequeuing(t)

\* Two dequeues never hold the same ticket.
Ticketed(t) ==
  Dequeuing(t) =>
    /\ seqid[t] < head_
    /\ \A u \in Threads \ {t} : HeldBy(u, seqid[t]) => seqid[t] = NoTicket

\* An object that somebody is about to enqueue is not in the buffer, and was
\* not; what somebody read is or was.
Objects(t) ==
  /\ Enqueuing(t) => value[t] \in Values \ Enqueued
  /\ Enqueuing(t) => \A u \in Threads \ {t} : Enqueuing(u) => value[u] # value[t]
  /\ IsValue(val[t]) => val[t].id \in Enqueued

\* What a thread knows of the word it read.
BackingOff(t) ==
  At(t, "backoff") =>
    /\ Dequeuing(t) /\ IsValue(val[t]) => SeqIdOf(val[t]) # seqid[t]
    /\ Dequeuing(t) /\ IsEmptyType(val[t]) => ~val[t].mark
    /\ IsEmptyType(val[t]) => val[t].id <= seqid[t]

Replacing(t) ==
  pc[t] \in {"put", "skip"} => IsEmptyType(val[t]) /\ ~val[t].mark /\ val[t].id <= seqid[t]

Taking(t) ==
  pc[t] \in {"take", "take_again"} =>
    /\ IsValue(Cell(t)) /\ Cell(t).id = value[t]
    /\ SeqIdOf(Cell(t)) = seqid[t]

Dead == {s \in 0 .. (head_ - 1) : \A t \in Threads : ~HeldBy(t, s)}

\* The head a thread knows when it has read a marked empty word.
HeadOf(t) == IF At(t, "reopen") THEN count[t] ELSE head_

Reopening(t) ==
  pc[t] \in {"get_head", "reopen"} =>
    /\ IsEmptyType(val[t]) /\ val[t].mark
    /\ val[t].id <= SeqIdOf(Cell(t))
    /\ HeadOf(t) <= head_
    /\ val[t].id <= NewLap(HeadOf(t), GetPos(seqid[t]))
    /\ Cell(t) = val[t] =>
         \A s \in Dead : GetPos(s) = GetPos(seqid[t]) => s < HeadOf(t) \/ s < val[t].id

Local(t) ==
  /\ Shape(t) /\ Ticketed(t) /\ Objects(t)
  /\ BackingOff(t) /\ Replacing(t) /\ Taking(t) /\ Reopening(t)

Places ==
  \A i \in Positions :
    /\ SeqIdOf(array_[i]) \in Nat
    /\ IsValue(array_[i]) => GetPos(SeqIdOf(array_[i])) = i
    /\ IsEmptyType(array_[i]) => array_[i].id <= NewLap(head_, i)

Passed ==
  \A s \in Dead : array_[GetPos(s)].mark \/ SeqIdOf(array_[GetPos(s)]) > s

IInv ==
  /\ TypeOK /\ Places /\ Passed /\ NothingStranded
  /\ \A t \in Threads : Local(t)

-----------------------------------------------------------------------------
(* Arithmetic of positions and laps *)

LEMMA PosInRange == \A s \in Nat : GetPos(s) \in Positions
  BY capacityAssumption, SMT DEF GetPos, Positions

LEMMA LapAbove ==
  ASSUME NEW h \in Nat, NEW p \in Positions
  PROVE  NewLap(h, p) \in Nat /\ NewLap(h, p) > h + capacity_
  BY capacityAssumption, SMT DEF NewLap, GetPos, Positions

LEMMA LapMonotone ==
  ASSUME NEW h \in Nat, NEW k \in Nat, h <= k, NEW p \in Positions
  PROVE  NewLap(h, p) <= NewLap(k, p)
<1> DEFINE a == h \div capacity_
           b == k \div capacity_
<1>1. /\ h = (capacity_ * a) + (h % capacity_)
      /\ k = (capacity_ * b) + (k % capacity_)
      /\ a \in Int /\ b \in Int
      /\ h % capacity_ \in 0 .. capacity_ - 1
      /\ k % capacity_ \in 0 .. capacity_ - 1
  BY capacityAssumption, SMT
<1> HIDE DEF a, b
<1>2. a <= b
  <2> SUFFICES ASSUME a >= b + 1
               PROVE  FALSE
    BY <1>1
  <2>1. capacity_ * a >= capacity_ * (b + 1)
    BY <1>1, capacityAssumption, SMT
  <2>2. capacity_ * (b + 1) = (capacity_ * b) + capacity_
    BY <1>1, capacityAssumption, SMT
  <2> QED
    BY <1>1, <2>1, <2>2, capacityAssumption, SMT
<1>3. capacity_ * a <= capacity_ * b
  BY <1>1, <1>2, capacityAssumption, SMT
<1> QED
  BY <1>1, <1>3, capacityAssumption, SMT DEF NewLap, GetPos, Positions

-----------------------------------------------------------------------------
(* Words *)

LEMMA WordFacts ==
  ASSUME NEW w \in Words
  PROVE  /\ IsValue(w) <=> ~IsEmptyType(w)
         /\ IsValue(w) => w.id \in Values
         /\ IsEmptyType(w) => w.id \in Nat /\ SeqIdOf(w) = w.id
         /\ w.mark \in BOOLEAN
         /\ DelayMarkValue(w) \in Words
         /\ DelayMarkValue(w).mark
         /\ DelayMarkValue(w).id = w.id
         /\ IsValue(DelayMarkValue(w)) <=> IsValue(w)
  BY DEF Words, IsValue, IsEmptyType, SeqIdOf, DelayMarkValue

LEMMA EmptyTypeFacts ==
  ASSUME NEW n \in Nat
  PROVE  /\ EmptyType(n) \in Words
         /\ IsEmptyType(EmptyType(n)) /\ ~IsValue(EmptyType(n))
         /\ SeqIdOf(EmptyType(n)) = n /\ EmptyType(n).id = n /\ ~EmptyType(n).mark
  BY DEF Words, IsValue, IsEmptyType, SeqIdOf, EmptyType

LEMMA ValueTypeFacts ==
  ASSUME NEW v \in Values
  PROVE  /\ ValueType(v) \in Words
         /\ IsValue(ValueType(v)) /\ ~IsEmptyType(ValueType(v))
         /\ ValueType(v).id = v /\ ~ValueType(v).mark
  BY DEF Words, IsValue, IsEmptyType, ValueType

-----------------------------------------------------------------------------
(* What a step of one thread leaves of the others' knowledge *)

\* The step of t, as the other threads see it.
OnlyMoves(t) ==
  \A u \in Threads \ {t} :
    /\ pc'[u] = pc[u] /\ op'[u] = op[u] /\ value'[u] = value[u]
    /\ seqid'[u] = seqid[u] /\ val'[u] = val[u] /\ count'[u] = count[u]

KeepsTicket(t) ==
  Dequeuing(t)' /\ seqid'[t] # NoTicket =>
    (Dequeuing(t) /\ seqid'[t] = seqid[t]) \/ seqid'[t] >= head_

KeepsValue(t) ==
  Enqueuing(t)' =>
    \/ Enqueuing(t) /\ value'[t] = value[t]
    \/ \A u \in Threads \ {t} : value'[t] # value[u]

EnqueuedByStep(t) ==
  /\ Enqueued \subseteq Enqueued'
  /\ \A v \in Enqueued : seqid_'[v] = seqid_[v]
  /\ \A v \in Enqueued' \ Enqueued : Enqueuing(t) /\ v = value[t]

\* Values are taken by the dequeue that holds their ticket, positions move on,
\* and a marked empty word is there with every dead ticket below it, or was
\* there when the ticket died; or nobody can have read it before.
WordsByStep(t) ==
  \A i \in Positions :
    /\ SeqIdOf(array_[i])' \in Nat /\ SeqIdOf(array_[i])' >= SeqIdOf(array_[i])
    /\ IsValue(array_[i]) =>
         (IsValue(array_'[i]) /\ array_'[i].id = array_[i].id) \/ HeldBy(t, SeqIdOf(array_[i]))
    /\ IsEmptyType(array_'[i]) /\ array_'[i].mark =>
         \/ SeqIdOf(array_[i]) < array_'[i].id
         \/ \A s \in Dead' : GetPos(s) = i => (array_'[i] = array_[i] /\ s \in Dead) \/ s < array_'[i].id

MovesOn == \A i \in Positions : SeqIdOf(array_[i])' >= SeqIdOf(array_[i])

LEMMA OthersKeep ==
  ASSUME IInv, TypeOK', NEW t \in Threads, OnlyMoves(t), head_ <= head_',
         KeepsTicket(t), KeepsValue(t), EnqueuedByStep(t), WordsByStep(t),
         NEW u \in Threads \ {t}
  PROVE  Local(u)'
<1>1. Local(u) /\ u \in Threads
  BY DEF IInv
<1>2. pc'[u] = pc[u] /\ op'[u] = op[u] /\ value'[u] = value[u] /\ seqid'[u] = seqid[u]
      /\ val'[u] = val[u] /\ count'[u] = count[u]
  BY DEF OnlyMoves
<1>3. Shape(u)'
  BY <1>1, <1>2 DEF Local, Shape, At, Enqueuing, Dequeuing
<1>4. Ticketed(u)'
  BY <1>1, <1>2 DEF Local, Ticketed, IInv, TypeOK, HeldBy, Dequeuing, OnlyMoves, KeepsTicket, NoTicket
<1>5. Objects(u)'
  BY <1>1, <1>2 DEF Local, Objects, Enqueuing, OnlyMoves, KeepsValue, EnqueuedByStep, IInv
<1>6. SeqIdOf(val[u])' = SeqIdOf(val[u])
  BY <1>1, <1>2 DEF Local, Objects, EnqueuedByStep, SeqIdOf
<1>7. BackingOff(u)' /\ Replacing(u)'
  BY <1>1, <1>2, <1>6 DEF Local, BackingOff, Replacing, At, Dequeuing
<1>8. pc[u] \in Working => seqid[u] \in Nat /\ GetPos(seqid[u]) \in Positions
  BY <1>1, PosInRange DEF Local, Shape, IInv, TypeOK, NoTicket
<1>9. Taking(u)'
  <2> SUFFICES ASSUME pc[u] \in {"take", "take_again"}
               PROVE  /\ IsValue(Cell(u))' /\ Cell(u)'.id = value[u]
                      /\ SeqIdOf(Cell(u))' = seqid[u]
    BY <1>2 DEF Taking
  <2> DEFINE i == GetPos(seqid[u])
  <2>1. i \in Positions /\ seqid[u] \in Nat
    BY <1>8 DEF Working
  <2>2. IsValue(array_[i]) /\ array_[i].id = value[u] /\ SeqIdOf(array_[i]) = seqid[u]
    BY <1>1 DEF Local, Taking, Cell
  <2>3. ~HeldBy(t, seqid[u])
    BY <1>1, <2>1 DEF Local, Ticketed, Shape, At, Working, NoTicket
  <2>4. IsValue(array_'[i]) /\ array_'[i].id = value[u]
    BY <2>1, <2>2, <2>3 DEF WordsByStep
  <2>5. seqid_'[value[u]] = seqid_[value[u]]
    BY <1>8, <2>1, <2>2, WordFacts DEF EnqueuedByStep, Enqueued, Present, IInv, TypeOK
  <2>6. Cell(u)' = array_'[i]
    BY <1>2 DEF Cell
  <2> QED
    BY <2>2, <2>4, <2>5, <2>6 DEF SeqIdOf, IsValue
<1>10. Reopening(u)'
  <2> SUFFICES ASSUME pc[u] \in {"get_head", "reopen"}
               PROVE  Reopening(u)'
    BY <1>2 DEF Reopening
  <2> DEFINE i == GetPos(seqid[u])
  <2>1. i \in Positions
    BY <1>8 DEF Working
  <2>2. Cell(u)' = array_'[i] /\ Cell(u) = array_[i]
    BY <1>2 DEF Cell
  <2>3. SeqIdOf(Cell(u))' >= SeqIdOf(Cell(u))
    BY <2>1, <2>2 DEF WordsByStep, SeqIdOf, IsValue
  <2>4. HeadOf(u) \in Nat /\ HeadOf(u)' \in Nat /\ HeadOf(u) <= HeadOf(u)' /\ HeadOf(u)' <= head_'
    BY <1>1, <1>2 DEF Local, Reopening, HeadOf, At, IInv, TypeOK
  <2>5. NewLap(HeadOf(u), i) <= NewLap(HeadOf(u)', i)
    BY <2>1, <2>4, LapMonotone
  <2>6. val[u] \in Words /\ val[u].id \in Nat /\ IsEmptyType(val[u]) /\ val[u].mark
    BY <1>1, WordFacts DEF Local, Reopening, IInv, TypeOK
  <2>7. SeqIdOf(Cell(u)) \in Nat /\ SeqIdOf(Cell(u))' \in Int
    BY <2>1, <2>2, <2>3 DEF IInv, Places, WordsByStep, SeqIdOf, IsValue
  <2>8. ASSUME Cell(u)' = val[u], NEW s \in Dead', GetPos(s) = i
        PROVE  s < HeadOf(u)' \/ s < val[u].id
    <3>1. (Cell(u) = val[u] /\ s \in Dead) \/ s < val[u].id
      <4>1. array_'[i] = val[u] /\ array_[i] = Cell(u)
        BY <2>2, <2>8
      <4>2. ~(SeqIdOf(array_[i]) < array_'[i].id)
        <5>1. val[u].id <= SeqIdOf(Cell(u))
          BY <1>1 DEF Local, Reopening
        <5> QED
          BY <2>6, <2>7, <4>1, <5>1
      <4>3. \A r \in Dead' : GetPos(r) = i => (array_'[i] = array_[i] /\ r \in Dead) \/ r < array_'[i].id
        BY <2>1, <2>6, <4>1, <4>2 DEF WordsByStep
      <4> QED
        BY <2>8, <4>1, <4>3
    <3>2. s \in Nat
      BY DEF Dead, IInv, TypeOK
    <3> QED
      BY <1>1, <2>4, <2>8, <3>1, <3>2 DEF Local, Reopening
  <2>9. NewLap(HeadOf(u), i) \in Nat /\ NewLap(HeadOf(u)', i) \in Nat
    BY <2>1, <2>4, LapAbove
  <2>10. val[u].id <= SeqIdOf(Cell(u)) /\ val[u].id <= NewLap(HeadOf(u), i)
    BY <1>1 DEF Local, Reopening
  <2>11. val[u].id <= SeqIdOf(Cell(u))' /\ val[u].id <= NewLap(HeadOf(u)', i)
    BY <2>3, <2>5, <2>6, <2>7, <2>9, <2>10
  <2> QED
    BY <1>2, <2>4, <2>6, <2>8, <2>11 DEF Reopening
<1> QED
  BY <1>3, <1>4, <1>5, <1>7, <1>9, <1>10 DEF Local

-----------------------------------------------------------------------------
(* Steps that write no word of the buffer *)

\* The word that lets t give its ticket up.
MayGiveUp(t) ==
  \/ SeqIdOf(Cell(t)) > seqid[t]
  \/ IsValue(Cell(t)) /\ Cell(t).mark /\ SeqIdOf(Cell(t)) # seqid[t]

LEMMA LocalStep ==
  ASSUME IInv, TypeOK', NEW t \in Threads, OnlyMoves(t),
         head_' = head_, array_' = array_, taken' = taken,
         \A v \in Enqueued : seqid_'[v] = seqid_[v],
         KeepsTicket(t), KeepsValue(t), Local(t)',
         NEW gives \in BOOLEAN, gives => MayGiveUp(t),
         \A s \in Nat : HeldBy(t, s) /\ ~HeldBy(t, s)' => gives
  PROVE  IInv' /\ MovesOn /\ EnqueuedByStep(t) /\ WordsByStep(t)
<1>1. Enqueued' = Enqueued
  BY DEF Enqueued, Present, IsValue
<1>2. \A i \in Positions : SeqIdOf(array_[i])' = SeqIdOf(array_[i])
  BY WordFacts DEF SeqIdOf, IsValue, Enqueued, Present, IInv, TypeOK
<1>3. ASSUME NEW s \in Dead', s \notin Dead
      PROVE  HeldBy(t, s) /\ gives /\ s = seqid[t] /\ s \in Nat
  <2>1. s \in 0 .. (head_ - 1) /\ s \in Nat
    BY <1>3 DEF Dead, IInv, TypeOK
  <2>2. PICK u \in Threads : HeldBy(u, s)
    BY <1>3, <2>1 DEF Dead
  <2>3. ~HeldBy(u, s)'
    BY <1>3 DEF Dead, HeldBy, Dequeuing
  <2>4. u = t
    BY <2>2, <2>3 DEF OnlyMoves, HeldBy, Dequeuing
  <2> QED
    BY <2>1, <2>2, <2>3, <2>4 DEF HeldBy
<1>4. EnqueuedByStep(t)
  BY <1>1 DEF EnqueuedByStep
<1>5. WordsByStep(t)
  <2> SUFFICES ASSUME NEW i \in Positions, IsEmptyType(array_[i]), array_[i].mark,
                      NEW s \in Dead', GetPos(s) = i, s \notin Dead
               PROVE  s < array_[i].id
    BY <1>2 DEF WordsByStep, IInv, Places, TypeOK
  <2>1. Cell(t) = array_[i] /\ s = seqid[t]
    BY <1>3 DEF Cell
  <2> QED
    BY <1>3, <2>1, WordFacts DEF MayGiveUp, IInv, TypeOK
<1>6. Places'
  BY <1>2 DEF IInv, Places, IsValue, IsEmptyType
<1>7. Passed'
  <2> SUFFICES ASSUME NEW s \in Dead'
               PROVE  array_[GetPos(s)].mark \/ SeqIdOf(array_[GetPos(s)]) > s
    BY <1>2, PosInRange DEF Passed, Dead, IInv, TypeOK
  <2>1. CASE s \in Dead
    BY <2>1 DEF IInv, Passed
  <2>2. CASE s \notin Dead
    BY <2>2, <1>3 DEF MayGiveUp, Cell
  <2> QED
    BY <2>1, <2>2
<1>8. NothingStranded'
  <2> SUFFICES ASSUME NEW i \in Positions, IsValue(array_[i]),
                      NEW s \in Nat, s = SeqIdOf(array_[i]), s < head_,
                      \A u \in Threads : ~HeldBy(u, s)'
               PROVE  FALSE
    BY <1>2 DEF NothingStranded, IsValue, IInv, Places, TypeOK, HeldBy, Dequeuing
  <2>1. GetPos(s) = i
    BY DEF IInv, Places
  <2>2. PICK u \in Threads : HeldBy(u, s)
    BY <2>1 DEF IInv, NothingStranded, TypeOK
  <2>3. u = t /\ ~HeldBy(t, s)'
    BY <2>2, <1>2 DEF OnlyMoves, HeldBy, Dequeuing
  <2>4. gives /\ s = seqid[t] /\ Cell(t) = array_[i]
    BY <2>1, <2>2, <2>3 DEF HeldBy, Cell
  <2>5. MayGiveUp(t) /\ SeqIdOf(Cell(t)) = s
    BY <2>4
  <2> QED
    BY <2>4, <2>5 DEF MayGiveUp
<1>9. \A u \in Threads \ {t} : Local(u)'
  BY <1>4, <1>5, OthersKeep DEF IInv, TypeOK
<1> QED
  BY <1>4, <1>5, <1>6, <1>7, <1>8, <1>9 DEF IInv, MovesOn, WordsByStep

LEMMA CallEnqueueKeeps ==
  ASSUME IInv, NEW t \in Threads, CallEnqueue(t), seen' \subseteq Threads
  PROVE  IInv' /\ MovesOn /\ EnqueuedByStep(t) /\ WordsByStep(t)
<1> USE DEF CallEnqueue, Goto, At, Enqueuing, Dequeuing, counters
<1>1. TypeOK'
  BY DEF IInv, TypeOK, Words
<1>2. OnlyMoves(t) /\ KeepsTicket(t) /\ KeepsValue(t)
  BY DEF IInv, TypeOK, OnlyMoves, KeepsTicket, KeepsValue
<1>3. Local(t)'
  <2>1. Local(t)
    BY DEF IInv
  <2>2. Enqueued' = Enqueued
    BY DEF Enqueued, Present, IsValue
  <2>3. Shape(t)' /\ Ticketed(t)' /\ BackingOff(t)' /\ Replacing(t)' /\ Taking(t)' /\ Reopening(t)'
    BY <2>1 DEF IInv, TypeOK, Local, Shape, Working, Ticketed, BackingOff, Replacing, Taking, Reopening
  <2>4. Objects(t)'
    BY <2>1, <2>2 DEF IInv, TypeOK, Local, Objects
  <2> QED
    BY <2>3, <2>4 DEF Local
<1>4. \A s \in Nat : HeldBy(t, s) /\ ~HeldBy(t, s)' => FALSE
  BY DEF IInv, TypeOK, HeldBy, Local, Shape
<1> QED
  BY <1>1, <1>2, <1>3, <1>4, LocalStep

LEMMA CallDequeueKeeps ==
  ASSUME IInv, NEW t \in Threads, CallDequeue(t), seen' \subseteq Threads
  PROVE  IInv' /\ MovesOn /\ EnqueuedByStep(t) /\ WordsByStep(t)
<1> USE DEF CallDequeue, Goto, At, Enqueuing, Dequeuing, counters
<1>1. TypeOK'
  BY DEF IInv, TypeOK, Words
<1>2. OnlyMoves(t) /\ KeepsTicket(t) /\ KeepsValue(t)
  BY DEF IInv, TypeOK, OnlyMoves, KeepsTicket, KeepsValue, Local, Shape, Working
<1>3. Local(t)'
  <2>1. Local(t)
    BY DEF IInv
  <2>2. Enqueued' = Enqueued
    BY DEF Enqueued, Present, IsValue
  <2>3. Shape(t)' /\ Ticketed(t)' /\ BackingOff(t)' /\ Replacing(t)' /\ Taking(t)' /\ Reopening(t)'
    BY <2>1 DEF IInv, TypeOK, Local, Shape, Working, Ticketed, HeldBy, NoTicket, BackingOff, Replacing, Taking, Reopening
  <2>4. Objects(t)'
    BY <2>1, <2>2 DEF IInv, TypeOK, Local, Objects
  <2> QED
    BY <2>3, <2>4 DEF Local
<1>4. \A s \in Nat : HeldBy(t, s) /\ ~HeldBy(t, s)' => FALSE
  BY DEF IInv, TypeOK, HeldBy, Local, Shape
<1> QED
  BY <1>1, <1>2, <1>3, <1>4, LocalStep

LEMMA LoadCounterKeeps ==
  ASSUME IInv, NEW t \in Threads, LoadCounter(t), seen' \subseteq Threads
  PROVE  IInv' /\ MovesOn /\ EnqueuedByStep(t) /\ WordsByStep(t)
<1> USE DEF LoadCounter, Goto, At, Enqueuing, Dequeuing, counters, histories
<1>1. TypeOK'
  BY DEF IInv, TypeOK, Words
<1>2. OnlyMoves(t) /\ KeepsTicket(t) /\ KeepsValue(t)
  BY DEF IInv, TypeOK, OnlyMoves, KeepsTicket, KeepsValue
<1>3. Local(t)'
  <2>1. Local(t)
    BY DEF IInv
  <2>2. Enqueued' = Enqueued
    BY DEF Enqueued, Present, IsValue
  <2>3. Shape(t)' /\ Ticketed(t)' /\ BackingOff(t)' /\ Replacing(t)' /\ Taking(t)' /\ Reopening(t)'
    BY <2>1 DEF IInv, TypeOK, Local, Shape, Working, Ticketed, HeldBy, BackingOff, Replacing, Taking, Reopening
  <2>4. Objects(t)'
    BY <2>1, <2>2 DEF IInv, TypeOK, Local, Objects
  <2> QED
    BY <2>3, <2>4 DEF Local
<1>4. \A s \in Nat : HeldBy(t, s) /\ ~HeldBy(t, s)' => FALSE
  BY DEF IInv, TypeOK, HeldBy
<1> QED
  BY <1>1, <1>2, <1>3, <1>4, LocalStep

LEMMA LoadOtherKeeps ==
  ASSUME IInv, NEW t \in Threads, LoadOther(t), seen' \subseteq Threads
  PROVE  IInv' /\ MovesOn /\ EnqueuedByStep(t) /\ WordsByStep(t)
<1> USE DEF LoadOther, Leave, Goto, Keep, At, Enqueuing, Dequeuing, counters, histories
<1>0. Nothing \in Words /\ ~IsValue(Nothing)
  BY EmptyTypeFacts DEF Nothing
<1>1. TypeOK'
  BY <1>0 DEF IInv, TypeOK
<1>2. OnlyMoves(t) /\ KeepsTicket(t) /\ KeepsValue(t)
  BY DEF IInv, TypeOK, OnlyMoves, KeepsTicket, KeepsValue
<1>3. Local(t)'
  <2>1. Local(t)
    BY DEF IInv
  <2>2. Enqueued' = Enqueued
    BY DEF Enqueued, Present, IsValue
  <2>3. Shape(t)' /\ Ticketed(t)' /\ BackingOff(t)' /\ Replacing(t)' /\ Taking(t)' /\ Reopening(t)'
    BY <2>1 DEF IInv, TypeOK, Local, Shape, Working, Ticketed, HeldBy, BackingOff, Replacing, Taking, Reopening
  <2>4. Objects(t)'
    BY <1>0, <2>1, <2>2 DEF IInv, TypeOK, Local, Objects
  <2> QED
    BY <2>3, <2>4 DEF Local
<1>4. \A s \in Nat : HeldBy(t, s) /\ ~HeldBy(t, s)' => FALSE
  BY DEF IInv, TypeOK, HeldBy, Local, Shape, Working, NoTicket
<1> QED
  BY <1>1, <1>2, <1>3, <1>4, LocalStep

LEMMA NothingFacts == Nothing \in Words /\ ~IsValue(Nothing)
  BY EmptyTypeFacts DEF Nothing

\* A thread with a ticket is inside a call, at a position of the array.
LEMMA Holding ==
  ASSUME IInv, NEW t \in Threads, pc[t] \in Working
  PROVE  /\ seqid[t] \in Nat /\ GetPos(seqid[t]) \in Positions
         /\ Cell(t) \in Words
         /\ Enqueuing(t) <=> ~Dequeuing(t)
         /\ Local(t)
<1>1. Local(t)
  BY DEF IInv
<1>2. seqid[t] \in Nat
  BY <1>1 DEF IInv, TypeOK, Local, Shape, NoTicket
<1>3. GetPos(seqid[t]) \in Positions
  BY <1>2, PosInRange
<1>4. op[t] # "none" /\ op[t] \in {"none", "enqueue", "dequeue"}
  BY <1>1 DEF IInv, TypeOK, Local, Shape, Working, At
<1> QED
  BY <1>1, <1>2, <1>3, <1>4 DEF IInv, TypeOK, Cell, Enqueuing, Dequeuing

\* t read another word, or goes on to read one.
LEMMA StaysAtPosition ==
  ASSUME IInv, TypeOK', NEW t \in Threads, OnlyMoves(t),
         head_' = head_, array_' = array_, taken' = taken,
         \A v \in Enqueued : seqid_'[v] = seqid_[v],
         pc[t] \in Working, pc'[t] \in Working, op'[t] = op[t], seqid'[t] = seqid[t],
         Enqueuing(t) => value'[t] = value[t],
         IsValue(val'[t]) => val'[t].id \in Enqueued,
         At(t, "put")' => Enqueuing(t),
         pc'[t] \in {"take", "take_again", "mark", "get_head", "reopen", "skip"} => Dequeuing(t),
         BackingOff(t)', Replacing(t)', Taking(t)', Reopening(t)'
  PROVE  IInv' /\ MovesOn /\ EnqueuedByStep(t) /\ WordsByStep(t)
<1>1. Local(t) /\ op[t] # "none" /\ seqid[t] # NoTicket
  BY DEF IInv, Local, Shape, Working, At
<1>2. Enqueued' = Enqueued
  BY DEF Enqueued, Present, IsValue
<1>3. KeepsTicket(t) /\ KeepsValue(t)
  BY DEF KeepsTicket, KeepsValue, Dequeuing, Enqueuing
<1>4. Shape(t)'
  BY <1>1 DEF Local, Shape, Working, At, Enqueuing, Dequeuing
<1>5. Ticketed(t)'
  BY <1>1 DEF Local, Ticketed, OnlyMoves, HeldBy, Dequeuing
<1>6. Objects(t)'
  BY <1>1, <1>2 DEF Local, Objects, OnlyMoves, Enqueuing, IsValue
<1>7. \A s \in Nat : HeldBy(t, s) /\ ~HeldBy(t, s)' => FALSE
  BY DEF HeldBy, Dequeuing
<1>8. Local(t)'
  BY <1>4, <1>5, <1>6 DEF Local
<1> QED
  BY <1>3, <1>7, <1>8, LocalStep

\* t gives its ticket up, for another one or for good.
LEMMA LeavesPosition ==
  ASSUME IInv, TypeOK', NEW t \in Threads, OnlyMoves(t),
         head_' = head_, array_' = array_, seqid_' = seqid_, taken' = taken,
         pc[t] \in Working, pc'[t] = "check", op'[t] = op[t], seqid'[t] = NoTicket,
         value'[t] = value[t], ~IsValue(val'[t]),
         Dequeuing(t) => MayGiveUp(t)
  PROVE  IInv' /\ MovesOn /\ EnqueuedByStep(t) /\ WordsByStep(t)
<1>1. Local(t) /\ op[t] # "none"
  BY DEF IInv, Local, Shape, Working, At
<1>2. Enqueued' = Enqueued
  BY DEF Enqueued, Present, IsValue
<1>3. KeepsTicket(t) /\ KeepsValue(t)
  BY DEF KeepsTicket, KeepsValue, Dequeuing, Enqueuing
<1>4. Shape(t)' /\ BackingOff(t)' /\ Replacing(t)' /\ Taking(t)' /\ Reopening(t)'
  BY <1>1 DEF Shape, Working, At, BackingOff, Replacing, Taking, Reopening
<1>5. Ticketed(t)'
  BY <1>1 DEF IInv, TypeOK, Local, Ticketed, NoTicket
<1>6. Objects(t)'
  BY <1>1, <1>2 DEF Local, Objects, OnlyMoves, Enqueuing, IsValue
<1>7. \A s \in Nat : HeldBy(t, s) /\ ~HeldBy(t, s)' => Dequeuing(t)
  BY DEF HeldBy
<1>8. Local(t)'
  BY <1>4, <1>5, <1>6 DEF Local
<1> QED
  BY <1>3, <1>7, <1>8, LocalStep DEF Dequeuing

LEMMA ReadKeeps ==
  ASSUME IInv, NEW t \in Threads, Read(t), seen' \subseteq Threads
  PROVE  IInv' /\ MovesOn /\ EnqueuedByStep(t) /\ WordsByStep(t)
<1> USE DEF Read, Goto, Keep, At, counters, histories
<1>1. pc[t] \in Working
  BY DEF Working
<1>2. /\ seqid[t] \in Nat /\ Cell(t) \in Words /\ Local(t)
      /\ Enqueuing(t) <=> ~Dequeuing(t)
      /\ GetPos(seqid[t]) \in Positions
  BY <1>1, Holding
<1>3. CASE Later(t)
  <2>1. TypeOK'
    BY <1>3, NothingFacts DEF GiveUp, IInv, TypeOK, NoTicket
  <2>2. OnlyMoves(t)
    BY <1>3 DEF GiveUp, IInv, TypeOK, OnlyMoves
  <2>3. MayGiveUp(t)
    BY <1>3 DEF Later, MayGiveUp
  <2> QED
    BY <1>1, <1>3, <2>1, <2>2, <2>3, NothingFacts, LeavesPosition DEF GiveUp, IInv, TypeOK
<1>4. CASE ~Later(t)
  <2>1. TypeOK'
    BY <1>2, <1>4, WordFacts DEF IInv, TypeOK, Mine
  <2>2. OnlyMoves(t)
    BY <1>4 DEF IInv, TypeOK, OnlyMoves
  <2>3. /\ val'[t] = Cell(t) /\ seqid'[t] = seqid[t] /\ op'[t] = op[t]
        /\ Cell(t)' = Cell(t) /\ head_' = head_ /\ array_' = array_ /\ seqid_' = seqid_
    BY <1>4 DEF IInv, TypeOK, Cell
  <2>4. /\ pc'[t] = CASE Enqueuing(t) /\ Ready(t) -> "put"
                       [] Dequeuing(t) /\ Mine(t) -> "take"
                       [] Dequeuing(t) /\ Closed(t) -> "get_head"
                       [] OTHER -> "backoff"
        /\ value'[t] = IF Mine(t) /\ Dequeuing(t) THEN Cell(t).id ELSE value[t]
    BY <1>4 DEF IInv, TypeOK
  <2>5. SeqIdOf(Cell(t)) \in Nat /\ SeqIdOf(Cell(t)) <= seqid[t]
    BY <1>2, <1>4 DEF Later, IInv, Places, Cell
  <2>6. /\ SeqIdOf(val[t])' = SeqIdOf(Cell(t))
        /\ IsEmptyType(Cell(t)) => Cell(t).id = SeqIdOf(Cell(t))
        /\ IsValue(Cell(t)) <=> ~IsEmptyType(Cell(t))
    BY <1>2, <2>3, WordFacts DEF SeqIdOf, IsValue
  <2>7. BackingOff(t)' /\ Replacing(t)' /\ Taking(t)'
    BY <1>2, <2>3, <2>4, <2>5, <2>6 DEF BackingOff, Replacing, Taking, Ready, Mine, Closed,
       Dequeuing, Enqueuing, IsEmptyType, IsValue
  <2>8. Reopening(t)'
    <3> SUFFICES ASSUME pc'[t] = "get_head" PROVE Reopening(t)'
      BY <2>4 DEF Reopening
    <3>1. IsEmptyType(Cell(t)) /\ Cell(t).mark
      BY <2>4 DEF Closed
    <3>2. Cell(t).id <= NewLap(head_, GetPos(seqid[t]))
      BY <1>2, <3>1 DEF IInv, Places, Cell
    <3>3. HeadOf(t)' = head_ /\ head_ \in Nat
      BY <2>3 DEF HeadOf, IInv, TypeOK
    <3>4. \A s \in Dead' : s < head_
      BY <2>3, <3>3 DEF Dead
    <3>5. SeqIdOf(Cell(t))' = SeqIdOf(Cell(t))
      BY <2>3 DEF SeqIdOf, IsValue
    <3> QED
      BY <1>2, <2>3, <2>5, <2>6, <3>1, <3>2, <3>3, <3>4, <3>5 DEF Reopening, IsEmptyType
  <2>9. IsValue(val'[t]) => val'[t].id \in Enqueued
    BY <1>2, <2>3, WordFacts DEF Enqueued, Present, Cell
  <2> QED
    BY <1>1, <1>2, <1>4, <2>1, <2>2, <2>3, <2>4, <2>7, <2>8, <2>9, StaysAtPosition DEF Working
<1> QED
  BY <1>3, <1>4

LEMMA BackoffKeeps ==
  ASSUME IInv, NEW t \in Threads, Backoff(t), seen' \subseteq Threads
  PROVE  IInv' /\ MovesOn /\ EnqueuedByStep(t) /\ WordsByStep(t)
<1> USE DEF Backoff, Goto, Keep, At, counters, histories
<1>1. pc[t] \in Working
  BY DEF Working
<1>2. /\ seqid[t] \in Nat /\ Cell(t) \in Words /\ Local(t) /\ val[t] \in Words
      /\ Enqueuing(t) <=> ~Dequeuing(t)
  BY <1>1, Holding DEF IInv, TypeOK
<1>3. TypeOK' /\ OnlyMoves(t)
  BY NothingFacts DEF GiveUp, IInv, TypeOK, NoTicket, OnlyMoves
<1>4. CASE Cell(t) # val[t]
  BY <1>1, <1>3, <1>4, NothingFacts, StaysAtPosition
     DEF IInv, TypeOK, Working, BackingOff, Replacing, Taking, Reopening
<1>5. CASE Cell(t) = val[t] /\ PassesOver(t)
  <2>1. Dequeuing(t) => MayGiveUp(t)
    BY <1>2, <1>5 DEF PassesOver, MayGiveUp, Local, BackingOff
  <2> QED
    BY <1>1, <1>3, <1>5, <2>1, NothingFacts, LeavesPosition DEF GiveUp, IInv, TypeOK
<1>6. CASE Cell(t) = val[t] /\ ~PassesOver(t)
  <2>1. /\ pc'[t] = CASE Enqueuing(t) -> "put"
                       [] Dequeuing(t) /\ IsValue(val[t]) -> "mark"
                       [] OTHER -> "skip"
        /\ val' = val /\ seqid' = seqid /\ value' = value /\ op' = op /\ taken' = taken
    BY <1>6 DEF IInv, TypeOK
  <2>2. Replacing(t)'
    BY <1>2, <1>6, <2>1, WordFacts DEF PassesOver, Replacing, Local, BackingOff, IsValue, IsEmptyType
  <2>3. BackingOff(t)' /\ Taking(t)' /\ Reopening(t)'
    BY <2>1 DEF BackingOff, Taking, Reopening
  <2>4. IsValue(val'[t]) => val'[t].id \in Enqueued
    BY <1>2, <2>1 DEF Local, Objects
  <2> QED
    BY <1>1, <1>2, <1>3, <2>1, <2>2, <2>3, <2>4, StaysAtPosition DEF Working
<1> QED
  BY <1>4, <1>5, <1>6

LEMMA GetHeadKeeps ==
  ASSUME IInv, NEW t \in Threads, GetHead(t), seen' \subseteq Threads
  PROVE  IInv' /\ MovesOn /\ EnqueuedByStep(t) /\ WordsByStep(t)
<1> USE DEF GetHead, Goto, At, counters, histories
<1>1. pc[t] \in Working
  BY DEF Working
<1>2. Local(t) /\ pc'[t] = "reopen" /\ count'[t] = head_
  BY DEF IInv, TypeOK
<1>3. TypeOK' /\ OnlyMoves(t)
  BY DEF IInv, TypeOK, OnlyMoves
<1>4. BackingOff(t)' /\ Replacing(t)' /\ Taking(t)'
  BY <1>2 DEF BackingOff, Replacing, Taking
<1>5. Cell(t)' = Cell(t) /\ SeqIdOf(Cell(t))' = SeqIdOf(Cell(t)) /\ Dead' \subseteq Dead
  BY DEF Cell, SeqIdOf, IsValue, Dead, HeldBy, Dequeuing
<1>6. Reopening(t)'
  BY <1>2, <1>5 DEF Local, Reopening, HeadOf
<1>7. IsValue(val[t]) => val[t].id \in Enqueued
  BY <1>2 DEF Local, Objects
<1> QED
  BY <1>1, <1>2, <1>3, <1>4, <1>6, <1>7, StaysAtPosition DEF Working, Local, Shape

LEMMA TicketKeeps ==
  ASSUME IInv, NEW t \in Threads, Ticket(t), seen' \subseteq Threads
  PROVE  IInv' /\ MovesOn /\ EnqueuedByStep(t) /\ WordsByStep(t)
<1> USE DEF Ticket, Goto, At, histories
<1>1. Local(t) /\ pc'[t] = "read" /\ op[t] # "none" /\ seqid[t] = NoTicket
  BY DEF IInv, TypeOK, Local, Shape, Working
<1>2. TypeOK' /\ OnlyMoves(t) /\ head_ \in Nat /\ head_' \in Nat /\ head_ <= head_'
  BY DEF IInv, TypeOK, OnlyMoves
<1>3. KeepsTicket(t) /\ KeepsValue(t)
  BY DEF IInv, TypeOK, KeepsTicket, KeepsValue, Dequeuing, Enqueuing
<1>4. Enqueued' = Enqueued /\ \A i \in Positions : SeqIdOf(array_[i])' = SeqIdOf(array_[i])
  BY DEF Enqueued, Present, IsValue, SeqIdOf
<1>5. Dead' \subseteq Dead
  <2> SUFFICES ASSUME NEW s \in Dead' PROVE s \in Dead
    OBVIOUS
  <2>1. s \in 0 .. (head_' - 1) /\ \A u \in Threads : ~(op'[u] = "dequeue" /\ seqid'[u] = s)
    BY DEF Dead, HeldBy, Dequeuing
  <2>2. \A u \in Threads \ {t} : ~(op[u] = "dequeue" /\ seqid[u] = s)
    BY <2>1 DEF IInv, TypeOK
  <2>3. s # seqid[t]
    BY <1>1, <1>2, <2>1 DEF NoTicket
  <2>4. s \in 0 .. (head_ - 1)
    BY <1>1, <2>1 DEF IInv, TypeOK, Enqueuing
  <2> QED
    BY <2>2, <2>3, <2>4 DEF Dead, HeldBy, Dequeuing
<1>6. EnqueuedByStep(t) /\ WordsByStep(t)
  BY <1>4, <1>5 DEF EnqueuedByStep, WordsByStep, IInv, Places
<1>7. \A u \in Threads \ {t} : Local(u)'
  BY <1>2, <1>3, <1>6, OthersKeep
<1>8. Local(t)'
  <2>1. Shape(t)' /\ BackingOff(t)' /\ Replacing(t)' /\ Taking(t)' /\ Reopening(t)'
    BY <1>1 DEF IInv, TypeOK, Local, Shape, Working, BackingOff, Replacing, Taking, Reopening,
       NoTicket, Enqueuing, Dequeuing
  <2>2. Objects(t)'
    BY <1>1, <1>4 DEF Local, Objects, Enqueuing, IsValue
  <2>3. Ticketed(t)'
    <3> SUFFICES ASSUME Dequeuing(t)
                 PROVE  /\ seqid'[t] < head_'
                        /\ \A u \in Threads \ {t} : ~HeldBy(u, seqid[t])'
      BY DEF Ticketed, HeldBy, Dequeuing
    <3>1. seqid'[t] = head_ /\ head_' = head_ + 1
      BY DEF Dequeuing, Enqueuing, IInv, TypeOK
    <3>2. \A u \in Threads \ {t} : Dequeuing(u) => seqid[u] < head_
      BY DEF IInv, Local, Ticketed
    <3> QED
      BY <1>2, <3>1, <3>2 DEF IInv, TypeOK, HeldBy, Dequeuing
  <2> QED
    BY <2>1, <2>2, <2>3 DEF Local
<1>9. Places'
  <2> SUFFICES ASSUME NEW i \in Positions, IsEmptyType(array_[i])
               PROVE  array_[i].id <= NewLap(head_', i)
    BY <1>4 DEF IInv, Places, IsValue, IsEmptyType
  <2>1. NewLap(head_, i) <= NewLap(head_', i) /\ NewLap(head_, i) \in Nat /\ NewLap(head_', i) \in Nat
    BY <1>2, LapMonotone, LapAbove
  <2>2. array_[i].id <= NewLap(head_, i) /\ array_[i].id \in Nat
    BY WordFacts DEF IInv, Places, TypeOK
  <2> QED
    BY <2>1, <2>2
<1>10. Passed'
  <2>1. \A s \in Dead : GetPos(s) \in Positions
    BY <1>2, PosInRange DEF Dead
  <2> SUFFICES ASSUME NEW s \in Dead'
               PROVE  array_[GetPos(s)].mark \/ SeqIdOf(array_[GetPos(s)])' > s
    BY DEF Passed
  <2>2. SeqIdOf(array_[GetPos(s)])' = SeqIdOf(array_[GetPos(s)])
    BY <1>4, <1>5, <2>1
  <2> QED
    BY <1>5, <2>2 DEF IInv, Passed
<1>11. NothingStranded'
  <2> SUFFICES ASSUME NEW i \in Positions, IsValue(array_[i]),
                      NEW s \in Nat, s = SeqIdOf(array_[i]), s < head_'
               PROVE  \E u \in Threads : HeldBy(u, s)'
    BY <1>2, <1>4 DEF NothingStranded, IsValue, IInv, Places, HeldBy, Dequeuing
  <2>1. CASE s < head_
    <3>1. PICK u \in Threads : HeldBy(u, s)
      BY <1>2, <2>1 DEF IInv, NothingStranded
    <3>2. u # t
      BY <1>1, <3>1 DEF HeldBy, NoTicket
    <3> QED
      BY <3>1, <3>2 DEF OnlyMoves, HeldBy, Dequeuing, IInv, TypeOK
  <2>2. CASE s >= head_
    BY <1>1, <1>2, <2>2 DEF HeldBy, Dequeuing, Enqueuing, IInv, TypeOK
  <2> QED
    BY <1>2, <2>1, <2>2
<1> QED
  BY <1>2, <1>6, <1>7, <1>8, <1>9, <1>10, <1>11 DEF IInv, MovesOn, WordsByStep

-----------------------------------------------------------------------------
(* Steps that write a word *)

\* The word w, whose sequence id is then n, may replace the one at the
\* position of t.
MayReplace(t, w, n) ==
  /\ n >= SeqIdOf(Cell(t))
  /\ IsEmptyType(w) => w.id <= NewLap(head_, GetPos(seqid[t]))
  /\ IsValue(w) => GetPos(n) = GetPos(seqid[t]) /\ (n >= head_ \/ \E u \in Threads : HeldBy(u, n)')
  /\ IsValue(Cell(t)) => (IsValue(w) /\ w.id = Cell(t).id) \/ HeldBy(t, SeqIdOf(Cell(t)))
  /\ \A s \in Dead' :
       GetPos(s) = GetPos(seqid[t]) => w.mark \/ n > s
  /\ IsEmptyType(w) /\ w.mark =>
       \/ SeqIdOf(Cell(t)) < w.id
       \/ \A s \in Dead' : GetPos(s) = GetPos(seqid[t]) => (w = Cell(t) /\ s \in Dead) \/ s < w.id

LEMMA NewlyDead ==
  ASSUME IInv, NEW t \in Threads, OnlyMoves(t), head_' = head_
  PROVE  \A s \in Dead' : s \in Nat /\ s < head_ /\ (s \in Dead \/ s = seqid[t])
<1> SUFFICES ASSUME NEW s \in Dead', s # seqid[t]
             PROVE  s \in Dead
  BY DEF Dead, IInv, TypeOK
<1>1. \A u \in Threads : ~(op'[u] = "dequeue" /\ seqid'[u] = s)
  BY DEF Dead, HeldBy, Dequeuing
<1>2. \A u \in Threads : ~HeldBy(u, s)
  BY <1>1 DEF OnlyMoves, HeldBy, Dequeuing
<1> QED
  BY <1>2 DEF Dead

LEMMA WriteStep ==
  ASSUME IInv, TypeOK', NEW t \in Threads, pc[t] \in Working, OnlyMoves(t), head_' = head_,
         NEW w \in Words, Write(t, w), NEW n \in Nat, n = SeqIdOf(w)', MayReplace(t, w, n),
         EnqueuedByStep(t), KeepsTicket(t), KeepsValue(t), Local(t)'
  PROVE  IInv' /\ MovesOn /\ EnqueuedByStep(t) /\ WordsByStep(t)
<1>0. PICK p : p = GetPos(seqid[t])
  OBVIOUS
<1>1. p \in Positions /\ seqid[t] \in Nat /\ Cell(t) = array_[p]
  BY <1>0, Holding DEF Cell
<1>2. array_'[p] = w /\ \A i \in Positions \ {p} : array_'[i] = array_[i]
  BY <1>0, <1>1 DEF Write, IInv, TypeOK
<1>3. SeqIdOf(array_[p])' = n /\ \A i \in Positions \ {p} : SeqIdOf(array_[i])' = SeqIdOf(array_[i])
  <2>1. SeqIdOf(array_[p])' = n
    BY <1>2 DEF SeqIdOf, IsValue
  <2>2. ASSUME NEW i \in Positions \ {p}
        PROVE  SeqIdOf(array_[i])' = SeqIdOf(array_[i])
    <3>1. array_[i] \in Words
      BY DEF IInv, TypeOK
    <3>2. IsValue(array_[i]) => array_[i].id \in Enqueued
      BY <3>1, WordFacts DEF Enqueued, Present
    <3> QED
      BY <1>2, <3>2 DEF EnqueuedByStep, SeqIdOf, IsValue
  <2> QED
    BY <2>1, <2>2
<1>4. \A s \in Dead' : s \in Nat /\ s < head_ /\ (s \in Dead \/ s = seqid[t])
  BY NewlyDead
<1>5. WordsByStep(t)
  <2> SUFFICES ASSUME NEW i \in Positions
               PROVE
                 /\ SeqIdOf(array_[i])' \in Nat /\ SeqIdOf(array_[i])' >= SeqIdOf(array_[i])
                 /\ IsValue(array_[i]) =>
                      (IsValue(array_'[i]) /\ array_'[i].id = array_[i].id) \/ HeldBy(t, SeqIdOf(array_[i]))
                 /\ IsEmptyType(array_'[i]) /\ array_'[i].mark =>
                      \/ SeqIdOf(array_[i]) < array_'[i].id
                      \/ \A s \in Dead' : GetPos(s) = i => (array_'[i] = array_[i] /\ s \in Dead) \/ s < array_'[i].id
    BY DEF WordsByStep
  <2>1. CASE i = p
    BY <1>0, <1>1, <1>2, <1>3, <2>1 DEF MayReplace
  <2>2. CASE i # p
    BY <1>0, <1>2, <1>3, <1>4, <2>2 DEF IInv, Places
  <2> QED
    BY <2>1, <2>2
<1>6. \A u \in Threads \ {t} : Local(u)'
  BY <1>5, OthersKeep DEF IInv, TypeOK
<1>7. Places'
  <2> SUFFICES ASSUME NEW i \in Positions
               PROVE  /\ SeqIdOf(array_[i])' \in Nat
                      /\ IsValue(array_'[i]) => GetPos(SeqIdOf(array_[i])') = i
                      /\ IsEmptyType(array_'[i]) => array_'[i].id <= NewLap(head_, i)
    BY DEF Places, IsValue, IsEmptyType
  <2>1. CASE i = p
    BY <1>0, <1>1, <1>2, <1>3, <2>1 DEF MayReplace
  <2>2. CASE i # p
    BY <1>2, <1>3, <2>2 DEF IInv, Places
  <2> QED
    BY <2>1, <2>2
<1>8. Passed'
  <2> SUFFICES ASSUME NEW s \in Dead'
               PROVE  array_'[GetPos(s)].mark \/ SeqIdOf(array_[GetPos(s)])' > s
    BY DEF Passed
  <2>1. CASE GetPos(s) = p
    BY <1>0, <1>1, <1>2, <1>3, <2>1 DEF MayReplace
  <2>2. CASE GetPos(s) # p
    <3>1. s \in Dead /\ GetPos(s) \in Positions
      BY <1>0, <1>4, <2>2, PosInRange
    <3>2. SeqIdOf(array_[GetPos(s)])' = SeqIdOf(array_[GetPos(s)]) /\ array_'[GetPos(s)] = array_[GetPos(s)]
      BY <1>2, <1>3, <2>2, <3>1
    <3> QED
      BY <3>1, <3>2 DEF IInv, Passed
  <2> QED
    BY <2>1, <2>2
<1>9. NothingStranded'
  <2> SUFFICES ASSUME NEW i \in Positions, IsValue(array_'[i]),
                      NEW s \in Nat, s = SeqIdOf(array_[i])', s < head_
               PROVE  \E u \in Threads : HeldBy(u, s)'
    <3>1. \A i \in Positions : SeqIdOf(array_[i])' \in Nat
      BY <1>7 DEF Places
    <3> QED
      BY <3>1 DEF NothingStranded, IsValue, HeldBy, Dequeuing, IInv, TypeOK
  <2>1. CASE i = p
    BY <1>0, <1>1, <1>2, <1>3, <2>1 DEF MayReplace, IInv, TypeOK
  <2>2. CASE i # p
    <3>1. IsValue(array_[i]) /\ s = SeqIdOf(array_[i]) /\ GetPos(s) = i
      BY <1>2, <1>3, <2>2 DEF IInv, Places
    <3>2. PICK u \in Threads : HeldBy(u, s)
      BY <3>1 DEF IInv, NothingStranded, TypeOK
    <3>3. u # t
      BY <1>0, <2>2, <3>1, <3>2 DEF HeldBy
    <3> QED
      BY <3>2, <3>3 DEF OnlyMoves, HeldBy, Dequeuing
  <2> QED
    BY <2>1, <2>2
<1> QED
  BY <1>5, <1>6, <1>7, <1>8, <1>9 DEF IInv, MovesOn, WordsByStep

LEMMA MarkKeeps ==
  ASSUME IInv, NEW t \in Threads, Mark(t), seen' \subseteq Threads
  PROVE  IInv' /\ MovesOn /\ EnqueuedByStep(t) /\ WordsByStep(t)
<1> USE DEF Mark, Goto, Keep, At, counters, histories
<1>1. pc[t] \in Working /\ Dequeuing(t)
  BY DEF Working, IInv, Local, Shape
<1>2. /\ seqid[t] \in Nat /\ Cell(t) \in Words /\ Local(t) /\ GetPos(seqid[t]) \in Positions
      /\ ~Enqueuing(t)
  BY <1>1, Holding
<1>0. PICK old, w, n : old = Cell(t) /\ w = DelayMarkValue(old) /\ n = SeqIdOf(old)
  OBVIOUS
<1>3. /\ w \in Words /\ w.mark /\ w.id = old.id /\ (IsValue(w) <=> IsValue(old))
      /\ IsEmptyType(w) <=> IsEmptyType(old)
      /\ old = array_[GetPos(seqid[t])]
  BY <1>0, <1>2, WordFacts DEF Cell
<1>4. n \in Nat /\ SeqIdOf(w)' = n
  BY <1>0, <1>2, <1>3 DEF IInv, Places, SeqIdOf, IsValue
<1>5. TypeOK' /\ OnlyMoves(t)
  <2>1. array_' \in [Positions -> Words]
    BY <1>0, <1>2, <1>3 DEF Write, IInv, TypeOK
  <2> QED
    BY <2>1, NothingFacts DEF IInv, TypeOK, OnlyMoves
<1>6. Dead' = Dead
  BY DEF Dead, HeldBy, Dequeuing
<1>7. Enqueued' = Enqueued
  <2>1. Present' = Present
    <3>1. \A i \in Positions : (IsValue(array_'[i]) <=> IsValue(array_[i])) /\ array_'[i].id = array_[i].id
      BY <1>0, <1>2, <1>3 DEF Write, IInv, TypeOK
    <3> QED
      BY <3>1 DEF Present, IsValue
  <2> QED
    BY <2>1 DEF Enqueued
<1>8. MayReplace(t, w, n)
  <2>1. n >= SeqIdOf(Cell(t)) /\ (IsEmptyType(w) => w.id <= NewLap(head_, GetPos(seqid[t])))
    BY <1>0, <1>2, <1>3, <1>4 DEF IInv, Places
  <2>2. IsValue(w) => GetPos(n) = GetPos(seqid[t]) /\ (n >= head_ \/ \E u \in Threads : HeldBy(u, n)')
    <3> SUFFICES ASSUME IsValue(w), ~(n >= head_)
                 PROVE  \E u \in Threads : HeldBy(u, n)
      BY <1>0, <1>2, <1>3, <1>4 DEF IInv, Places, HeldBy, Dequeuing
    <3> QED
      BY <1>0, <1>2, <1>3, <1>4 DEF IInv, TypeOK, NothingStranded
  <2>3. IsEmptyType(w) => \A s \in Dead : GetPos(s) = GetPos(seqid[t]) => (w = Cell(t) /\ s \in Dead) \/ s < w.id
    <3>1. CASE old.mark
      BY <1>0, <1>2, <1>3, <3>1 DEF DelayMarkValue, Words
    <3>2. CASE ~old.mark
      BY <1>0, <1>2, <1>3, <3>2, WordFacts DEF IInv, Passed
    <3> QED
      BY <3>1, <3>2
  <2> QED
    BY <1>0, <1>3, <1>6, <2>1, <2>2, <2>3 DEF MayReplace
<1>9. EnqueuedByStep(t) /\ KeepsTicket(t) /\ KeepsValue(t)
  BY <1>1, <1>7 DEF EnqueuedByStep, KeepsTicket, KeepsValue, Enqueuing, Dequeuing
<1>10. Local(t)'
  <2>1. pc'[t] = "read" /\ val'[t] = Nothing
    BY DEF IInv, TypeOK
  <2>2. Shape(t)' /\ BackingOff(t)' /\ Replacing(t)' /\ Taking(t)' /\ Reopening(t)'
    BY <1>1, <1>2, <2>1 DEF Local, Shape, Working, BackingOff, Replacing, Taking, Reopening, Enqueuing, Dequeuing
  <2>3. Ticketed(t)' /\ Objects(t)'
    BY <1>2, <1>7, <2>1, NothingFacts DEF Local, Ticketed, Objects, HeldBy, Enqueuing, Dequeuing, IsValue
  <2> QED
    BY <2>2, <2>3 DEF Local
<1> QED
  BY <1>0, <1>1, <1>3, <1>4, <1>5, <1>8, <1>9, <1>10, WriteStep

LEMMA PutKeeps ==
  ASSUME IInv, NEW t \in Threads, Put(t), seen' \subseteq Threads
  PROVE  IInv' /\ MovesOn /\ EnqueuedByStep(t) /\ WordsByStep(t)
<1> USE DEF Put, Goto, Keep, At, counters, histories
<1>1. pc[t] \in Working /\ Enqueuing(t) /\ Local(t)
  BY DEF Working, IInv, Local, Shape
<1>2. /\ seqid[t] \in Nat /\ Cell(t) \in Words /\ GetPos(seqid[t]) \in Positions /\ ~Dequeuing(t)
      /\ value[t] \in Values \ Enqueued
      /\ IsEmptyType(val[t]) /\ ~val[t].mark /\ val[t].id <= seqid[t]
  BY <1>1, Holding DEF Local, Objects, Replacing
<1>3. \A v \in Enqueued : seqid_'[v] = seqid_[v]
  BY <1>2 DEF Enqueued, Present, IInv, TypeOK
<1>4. CASE Cell(t) # val[t]
  <2>1. TypeOK' /\ OnlyMoves(t)
    BY <1>2, <1>4, NothingFacts DEF Again, IInv, TypeOK, OnlyMoves
  <2>2. /\ pc'[t] = "read" /\ val'[t] = Nothing /\ seqid'[t] = seqid[t] /\ op'[t] = op[t]
        /\ value'[t] = value[t] /\ head_' = head_ /\ array_' = array_ /\ taken' = taken
    BY <1>4 DEF Again, IInv, TypeOK
  <2>3. BackingOff(t)' /\ Replacing(t)' /\ Taking(t)' /\ Reopening(t)'
    BY <2>2 DEF BackingOff, Replacing, Taking, Reopening
  <2> QED
    BY <1>1, <1>3, <2>1, <2>2, <2>3, NothingFacts, StaysAtPosition DEF Working
<1>5. CASE Cell(t) = val[t]
  <2>0. PICK w, n : w = ValueType(value[t]) /\ n = seqid[t]
    OBVIOUS
  <2>1. /\ w \in Words /\ IsValue(w) /\ ~IsEmptyType(w) /\ w.id = value[t] /\ n \in Nat
        /\ SeqIdOf(w)' = n
        /\ Write(t, w)
    BY <1>2, <1>5, <2>0, ValueTypeFacts DEF SeqIdOf, IsValue, IInv, TypeOK
  <2>2. TypeOK' /\ OnlyMoves(t)
    <3>1. array_' \in [Positions -> Words]
      BY <1>2, <2>1 DEF Write, IInv, TypeOK
    <3> QED
      BY <1>2, <1>5, <3>1, NothingFacts DEF Leave, IInv, TypeOK, OnlyMoves, NoTicket
  <2>3. pc'[t] = "idle" /\ op'[t] = "none" /\ seqid'[t] = NoTicket /\ val'[t] = Nothing
    BY <1>5 DEF Leave, IInv, TypeOK
  <2>4. Dead' \subseteq Dead
    <3>1. \A s \in Dead' : s \in 0 .. (head_ - 1) /\ \A u \in Threads : ~(op'[u] = "dequeue" /\ seqid'[u] = s)
      BY DEF Dead, HeldBy, Dequeuing
    <3> QED
      BY <1>2, <2>2, <3>1 DEF Dead, HeldBy, Dequeuing, OnlyMoves
  <2>5. /\ \A s \in Dead : GetPos(s) = GetPos(seqid[t]) => s < val[t].id
        /\ SeqIdOf(Cell(t)) = val[t].id /\ val[t].id \in Nat
    BY <1>2, <1>5, WordFacts DEF IInv, Passed, Cell
  <2>6. n >= head_ \/ \E u \in Threads : HeldBy(u, n)'
    <3> SUFFICES ASSUME n < head_ PROVE \E u \in Threads : HeldBy(u, n)'
      BY <2>1 DEF IInv, TypeOK
    <3>1. n \notin Dead
      BY <1>2, <2>0, <2>5
    <3>2. PICK u \in Threads : HeldBy(u, n)
      BY <2>1, <3>1 DEF Dead, IInv, TypeOK
    <3> QED
      BY <1>2, <2>2, <3>2 DEF HeldBy, Dequeuing, OnlyMoves
  <2>7. \A s \in Dead' : s \in Nat
    BY NewlyDead, <2>2
  <2>8. MayReplace(t, w, n)
    BY <1>2, <1>5, <2>0, <2>1, <2>4, <2>5, <2>6, <2>7, WordFacts DEF MayReplace
  <2>9. EnqueuedByStep(t)
    <3>1. \A i \in Positions \ {GetPos(seqid[t])} : array_'[i] = array_[i]
      BY <2>1 DEF Write, IInv, TypeOK
    <3>2. array_'[GetPos(seqid[t])] = w /\ ~IsValue(array_[GetPos(seqid[t])])
      BY <1>2, <1>5, <2>1, WordFacts DEF Write, IInv, TypeOK, Cell
    <3>3. Present' = Present \cup {value[t]}
      BY <1>2, <2>1, <3>1, <3>2 DEF Present, IsValue
    <3> QED
      BY <1>1, <1>3, <3>3 DEF EnqueuedByStep, Enqueued
  <2>10. KeepsTicket(t) /\ KeepsValue(t)
    BY <2>3 DEF KeepsTicket, KeepsValue, Enqueuing, Dequeuing
  <2>11. Local(t)'
    BY <2>3, NothingFacts DEF Local, Shape, Ticketed, Objects, BackingOff, Replacing, Taking, Reopening,
       Working, Enqueuing, Dequeuing, IsValue
  <2> QED
    BY <1>1, <2>1, <2>2, <2>8, <2>9, <2>10, <2>11, WriteStep
<1> QED
  BY <1>4, <1>5

LEMMA TakeKeeps ==
  ASSUME IInv, NEW t \in Threads, Take(t), seen' \subseteq Threads
  PROVE  IInv' /\ MovesOn /\ EnqueuedByStep(t) /\ WordsByStep(t)
<1> USE DEF Take, Goto, Keep, At, counters
<1>1. pc[t] \in Working /\ Dequeuing(t) /\ Local(t)
  BY DEF Working, IInv, Local, Shape
<1>2. /\ seqid[t] \in Nat /\ Cell(t) \in Words /\ GetPos(seqid[t]) \in Positions /\ ~Enqueuing(t)
      /\ IsValue(Cell(t)) /\ Cell(t).id = value[t] /\ SeqIdOf(Cell(t)) = seqid[t]
      /\ value[t] \in Values /\ value[t] \in Present
  BY <1>1, Holding, WordFacts DEF Local, Taking, Present, Cell
<1>3. CASE Cell(t) # val[t]
  <2>1. TypeOK' /\ OnlyMoves(t)
    BY <1>2, <1>3, NothingFacts DEF IInv, TypeOK, OnlyMoves
  <2>2. /\ (pc'[t] = "take_again" /\ val'[t] = Cell(t)) \/ (pc'[t] = "read" /\ val'[t] = Nothing)
        /\ seqid' = seqid /\ op' = op /\ value' = value /\ head_' = head_ /\ array_' = array_
        /\ taken' = taken /\ seqid_' = seqid_
    BY <1>3 DEF IInv, TypeOK
  <2>3. BackingOff(t)' /\ Replacing(t)' /\ Reopening(t)'
    BY <2>2 DEF BackingOff, Replacing, Reopening
  <2>4. Taking(t)'
    BY <1>2, <2>2 DEF Taking, Cell, SeqIdOf, IsValue
  <2>5. IsValue(val'[t]) => val'[t].id \in Enqueued
    BY <1>2, <2>2, NothingFacts DEF Enqueued
  <2> QED
    BY <1>1, <2>1, <2>2, <2>3, <2>4, <2>5, StaysAtPosition DEF Working
<1>4. CASE Cell(t) = val[t]
  <2>0. PICK w, n : w = LeftBehind(t) /\ n = seqid[t] + capacity_
    OBVIOUS
  <2>1. /\ w \in Words /\ ~IsValue(w) /\ IsEmptyType(w) /\ w.id = n /\ n \in Nat
        /\ val[t].mark => w.mark
        /\ n > seqid[t]
    <3>1. NextSeqId(seqid[t]) \in Nat /\ NextSeqId(seqid[t]) = n /\ n > seqid[t] /\ n \in Nat
      BY <1>2, <2>0, capacityAssumption DEF NextSeqId
    <3>2. PICK e : e = EmptyType(NextSeqId(seqid[t]))
      OBVIOUS
    <3>3. e = [kind |-> "empty", id |-> n, mark |-> FALSE]
      BY <3>1, <3>2 DEF EmptyType
    <3>4. PICK m \in BOOLEAN : m = (val[t].mark \/ At(t, "take_again"))
      BY <1>2, <1>4, WordFacts
    <3>5. w = [kind |-> "empty", id |-> n, mark |-> m]
      BY <2>0, <3>2, <3>3, <3>4 DEF LeftBehind
    <3> QED
      BY <3>1, <3>4, <3>5 DEF Words, IsValue, IsEmptyType
  <2>2. SeqIdOf(w)' = n /\ Write(t, w)
    BY <1>4, <2>0, <2>1 DEF SeqIdOf, IsValue
  <2>3. TypeOK' /\ OnlyMoves(t)
    <3>1. array_' \in [Positions -> Words]
      BY <1>2, <2>1, <2>2 DEF Write, IInv, TypeOK
    <3> QED
      BY <1>2, <1>4, <3>1, NothingFacts DEF Leave, IInv, TypeOK, OnlyMoves, NoTicket
  <2>4. /\ pc'[t] = "idle" /\ op'[t] = "none" /\ seqid'[t] = NoTicket /\ val'[t] = Nothing
        /\ head_' = head_ /\ seqid_' = seqid_ /\ taken' = taken \cup {value[t]}
    BY <1>4 DEF Leave, IInv, TypeOK
  <2>5. \A s \in Dead' : s \in Nat /\ (s \in Dead \/ s = seqid[t])
    BY NewlyDead, <2>3, <2>4
  <2>6. \A s \in Dead' : GetPos(s) = GetPos(seqid[t]) => w.mark \/ n > s
    <3> SUFFICES ASSUME NEW s \in Dead, GetPos(s) = GetPos(seqid[t]), s \in Nat
                 PROVE  w.mark \/ n > s
      BY <1>2, <2>1, <2>5
    <3>1. Cell(t).mark \/ seqid[t] > s
      BY <1>2 DEF IInv, Passed, Cell
    <3> QED
      BY <1>2, <1>4, <2>1, <3>1
  <2>7. w.id <= NewLap(head_, GetPos(seqid[t]))
    <3>1. seqid[t] < head_ /\ head_ \in Nat
      BY <1>1 DEF Local, Ticketed, IInv, TypeOK
    <3>2. NewLap(head_, GetPos(seqid[t])) \in Nat /\ NewLap(head_, GetPos(seqid[t])) > head_ + capacity_
      BY <1>2, <3>1, LapAbove
    <3> QED
      BY <1>2, <2>0, <2>1, <3>1, <3>2, capacityAssumption
  <2>8. MayReplace(t, w, n)
    BY <1>1, <1>2, <2>1, <2>6, <2>7 DEF MayReplace, HeldBy
  <2>9. EnqueuedByStep(t)
    <3>1. \A i \in Positions \ {GetPos(seqid[t])} : array_'[i] = array_[i]
      BY <2>2 DEF Write, IInv, TypeOK
    <3>2. array_'[GetPos(seqid[t])] = w /\ array_[GetPos(seqid[t])].id = value[t]
      BY <1>2, <2>2 DEF Write, IInv, TypeOK, Cell
    <3>3. Present' \subseteq Present /\ Present \subseteq Present' \cup {value[t]}
      BY <1>2, <2>1, <3>1, <3>2 DEF Present, IsValue
    <3> QED
      BY <1>2, <2>4, <3>3 DEF EnqueuedByStep, Enqueued
  <2>10. KeepsTicket(t) /\ KeepsValue(t)
    BY <2>4 DEF KeepsTicket, KeepsValue, Enqueuing, Dequeuing
  <2>11. Local(t)'
    BY <2>4, NothingFacts DEF Local, Shape, Ticketed, Objects, BackingOff, Replacing, Taking, Reopening,
       Working, Enqueuing, Dequeuing, IsValue
  <2> QED
    BY <1>1, <2>1, <2>2, <2>3, <2>4, <2>8, <2>9, <2>10, <2>11, WriteStep
<1> QED
  BY <1>3, <1>4

LEMMA ReopenKeeps ==
  ASSUME IInv, NEW t \in Threads, Reopen(t), seen' \subseteq Threads
  PROVE  IInv' /\ MovesOn /\ EnqueuedByStep(t) /\ WordsByStep(t)
<1> USE DEF Reopen, Goto, Keep, At, counters, histories
<1>1. pc[t] \in Working /\ Dequeuing(t) /\ Local(t)
  BY DEF Working, IInv, Local, Shape
<1>2. /\ seqid[t] \in Nat /\ Cell(t) \in Words /\ GetPos(seqid[t]) \in Positions /\ ~Enqueuing(t)
      /\ IsEmptyType(val[t]) /\ val[t].mark /\ val[t] \in Words
      /\ count[t] \in Nat /\ count[t] <= head_ /\ head_ \in Nat
      /\ val[t].id <= NewLap(count[t], GetPos(seqid[t])) /\ val[t].id \in Nat
      /\ Cell(t) = val[t] => \A s \in Dead : GetPos(s) = GetPos(seqid[t]) => s < count[t] \/ s < val[t].id
  BY <1>1, Holding, WordFacts DEF Local, Reopening, HeadOf, IInv, TypeOK
<1>3. /\ pc'[t] = "read" /\ val'[t] = Nothing /\ seqid' = seqid /\ op' = op /\ value' = value
      /\ head_' = head_ /\ seqid_' = seqid_ /\ taken' = taken /\ OnlyMoves(t)
  BY DEF IInv, TypeOK, OnlyMoves
<1>4. BackingOff(t)' /\ Replacing(t)' /\ Taking(t)' /\ Reopening(t)'
  BY <1>3 DEF BackingOff, Replacing, Taking, Reopening
<1>5. CASE Cell(t) # val[t]
  <2>1. TypeOK'
    BY <1>5, NothingFacts DEF IInv, TypeOK
  <2> QED
    BY <1>1, <1>3, <1>4, <1>5, <2>1, NothingFacts, StaysAtPosition DEF Working
<1>6. CASE Cell(t) = val[t]
  <2>0. PICK w, n : n = NewLap(count[t], GetPos(seqid[t])) /\ w = EmptyType(n)
    OBVIOUS
  <2>1. /\ n \in Nat /\ n > count[t] + capacity_
        /\ n <= NewLap(head_, GetPos(seqid[t]))
    BY <1>2, <2>0, LapAbove, LapMonotone
  <2>2. w \in Words /\ IsEmptyType(w) /\ ~IsValue(w) /\ w.id = n /\ ~w.mark
    BY <2>0, <2>1, EmptyTypeFacts
  <2>3. SeqIdOf(w)' = n /\ Write(t, w)
    BY <1>6, <2>0, <2>2 DEF SeqIdOf, IsValue
  <2>4. TypeOK'
    <3>1. array_' \in [Positions -> Words]
      BY <1>2, <2>2, <2>3 DEF Write, IInv, TypeOK
    <3> QED
      BY <3>1, NothingFacts DEF IInv, TypeOK
  <2>5. Dead' \subseteq Dead
    BY <1>3 DEF Dead, HeldBy, Dequeuing
  <2>6. \A s \in Dead' : GetPos(s) = GetPos(seqid[t]) => n > s
    <3> SUFFICES ASSUME NEW s \in Dead, s \in Nat, s < count[t] \/ s < val[t].id
                 PROVE  n > s
      BY <1>2, <1>3, <1>6, <2>5, NewlyDead
    <3> QED
      BY <1>2, <2>0, <2>1, capacityAssumption
  <2>7. SeqIdOf(Cell(t)) = val[t].id /\ ~IsValue(Cell(t))
    BY <1>2, <1>6, WordFacts
  <2>8. MayReplace(t, w, n)
    BY <1>2, <2>0, <2>1, <2>2, <2>6, <2>7 DEF MayReplace
  <2>9. EnqueuedByStep(t)
    <3>1. \A i \in Positions \ {GetPos(seqid[t])} : array_'[i] = array_[i]
      BY <2>3 DEF Write, IInv, TypeOK
    <3>2. array_'[GetPos(seqid[t])] = w /\ ~IsValue(array_[GetPos(seqid[t])])
      BY <1>2, <2>3, <2>7 DEF Write, IInv, TypeOK, Cell
    <3>3. Present' = Present
      BY <2>2, <3>1, <3>2 DEF Present, IsValue
    <3> QED
      BY <1>3, <3>3 DEF EnqueuedByStep, Enqueued
  <2>10. KeepsTicket(t) /\ KeepsValue(t) /\ Enqueued' \subseteq Enqueued
    BY <1>1, <1>2, <1>3, <2>9 DEF KeepsTicket, KeepsValue, Enqueuing, Dequeuing, EnqueuedByStep
  <2>11. Local(t)'
    BY <1>1, <1>2, <1>3, <1>4, <2>10, NothingFacts DEF Local, Shape, Ticketed, Objects, HeldBy,
       Working, Enqueuing, Dequeuing, IsValue
  <2> QED
    BY <1>1, <1>3, <2>1, <2>2, <2>3, <2>4, <2>8, <2>9, <2>10, <2>11, WriteStep
<1> QED
  BY <1>5, <1>6

LEMMA SkipKeeps ==
  ASSUME IInv, NEW t \in Threads, Skip(t), seen' \subseteq Threads
  PROVE  IInv' /\ MovesOn /\ EnqueuedByStep(t) /\ WordsByStep(t)
<1> USE DEF Skip, Goto, Keep, At, counters, histories
<1>1. pc[t] \in Working /\ Dequeuing(t) /\ Local(t)
  BY DEF Working, IInv, Local, Shape
<1>2. /\ seqid[t] \in Nat /\ Cell(t) \in Words /\ GetPos(seqid[t]) \in Positions /\ ~Enqueuing(t)
      /\ IsEmptyType(val[t]) /\ ~val[t].mark /\ val[t] \in Words
      /\ val[t].id <= seqid[t] /\ val[t].id \in Nat
      /\ seqid[t] < head_ /\ head_ \in Nat
  BY <1>1, Holding, WordFacts DEF Local, Replacing, Ticketed, IInv, TypeOK
<1>3. CASE Cell(t) # val[t]
  <2>1. TypeOK' /\ OnlyMoves(t)
    BY <1>3, NothingFacts DEF Again, IInv, TypeOK, OnlyMoves
  <2>2. /\ pc'[t] = "read" /\ val'[t] = Nothing /\ seqid' = seqid /\ op' = op /\ value' = value
        /\ head_' = head_ /\ array_' = array_ /\ taken' = taken /\ seqid_' = seqid_
    BY <1>3 DEF Again, IInv, TypeOK
  <2>3. BackingOff(t)' /\ Replacing(t)' /\ Taking(t)' /\ Reopening(t)'
    BY <2>2 DEF BackingOff, Replacing, Taking, Reopening
  <2> QED
    BY <1>1, <2>1, <2>2, <2>3, NothingFacts, StaysAtPosition DEF Working
<1>4. CASE Cell(t) = val[t]
  <2>0. PICK w, n : n = NextSeqId(seqid[t]) /\ w = EmptyType(n)
    OBVIOUS
  <2>1. n \in Nat /\ n = seqid[t] + capacity_ /\ n > seqid[t]
    BY <1>2, <2>0, capacityAssumption DEF NextSeqId
  <2>2. w \in Words /\ IsEmptyType(w) /\ ~IsValue(w) /\ w.id = n /\ ~w.mark
    BY <2>0, <2>1, EmptyTypeFacts
  <2>3. SeqIdOf(w)' = n /\ Write(t, w)
    BY <1>4, <2>0, <2>2 DEF SeqIdOf, IsValue
  <2>4. TypeOK' /\ OnlyMoves(t)
    <3>1. array_' \in [Positions -> Words]
      BY <1>2, <2>2, <2>3 DEF Write, IInv, TypeOK
    <3> QED
      BY <1>4, <3>1, NothingFacts DEF GiveUp, IInv, TypeOK, OnlyMoves, NoTicket
  <2>5. /\ pc'[t] = "check" /\ val'[t] = Nothing /\ seqid'[t] = NoTicket /\ op' = op /\ value' = value
        /\ head_' = head_ /\ taken' = taken /\ seqid_' = seqid_
    BY <1>4 DEF GiveUp, IInv, TypeOK
  <2>6. SeqIdOf(Cell(t)) = val[t].id /\ ~IsValue(Cell(t))
    BY <1>2, <1>4, WordFacts
  <2>7. \A s \in Dead' : GetPos(s) = GetPos(seqid[t]) => n > s
    <3> SUFFICES ASSUME NEW s \in Dead, s \in Nat, GetPos(s) = GetPos(seqid[t])
                 PROVE  n > s
      BY <2>1, <2>4, <2>5, NewlyDead
    <3>1. val[t].id > s
      BY <1>2, <1>4, <2>6 DEF IInv, Passed, Cell
    <3> QED
      BY <1>2, <2>1, <3>1
  <2>8. w.id <= NewLap(head_, GetPos(seqid[t]))
    <3>1. NewLap(head_, GetPos(seqid[t])) \in Nat /\ NewLap(head_, GetPos(seqid[t])) > head_ + capacity_
      BY <1>2, LapAbove
    <3> QED
      BY <1>2, <2>1, <2>2, <3>1, capacityAssumption
  <2>9. MayReplace(t, w, n)
    BY <1>2, <2>1, <2>2, <2>6, <2>7, <2>8 DEF MayReplace
  <2>10. EnqueuedByStep(t)
    <3>1. \A i \in Positions \ {GetPos(seqid[t])} : array_'[i] = array_[i]
      BY <2>3 DEF Write, IInv, TypeOK
    <3>2. array_'[GetPos(seqid[t])] = w /\ ~IsValue(array_[GetPos(seqid[t])])
      BY <1>2, <2>3, <2>6 DEF Write, IInv, TypeOK, Cell
    <3>3. Present' = Present
      BY <2>2, <3>1, <3>2 DEF Present, IsValue
    <3> QED
      BY <2>5, <3>3 DEF EnqueuedByStep, Enqueued
  <2>11. KeepsTicket(t) /\ KeepsValue(t)
    BY <1>2, <2>5 DEF KeepsTicket, KeepsValue, Enqueuing, Dequeuing
  <2>12. Shape(t)' /\ BackingOff(t)' /\ Replacing(t)' /\ Taking(t)' /\ Reopening(t)'
    BY <1>1, <2>5 DEF Shape, Working, BackingOff, Replacing, Taking, Reopening, Dequeuing
  <2>13. Ticketed(t)' /\ Objects(t)'
    BY <1>2, <2>5, NothingFacts DEF Ticketed, Objects, NoTicket, HeldBy, Enqueuing, Dequeuing, IsValue
  <2> QED
    BY <1>1, <2>1, <2>2, <2>3, <2>4, <2>5, <2>9, <2>10, <2>11, <2>12, <2>13, WriteStep DEF Local
<1> QED
  BY <1>3, <1>4

-----------------------------------------------------------------------------

LEMMA InitIInv == Init => IInv
<1> SUFFICES ASSUME Init PROVE IInv
  OBVIOUS
<1> USE DEF Init
<1>1. /\ \A i \in Positions : array_[i] = EmptyType(i) /\ i \in Nat
      /\ Nothing \in Words /\ ~IsValue(Nothing)
  BY NothingFacts DEF Positions
<1>2. \A i \in Positions : EmptyType(i) \in Words /\ SeqIdOf(EmptyType(i)) = i /\ ~IsValue(EmptyType(i))
                            /\ EmptyType(i).id = i
  BY <1>1, EmptyTypeFacts
<1>3. TypeOK
  BY <1>1, <1>2 DEF TypeOK, NoTicket
<1>4. Places
  <2> SUFFICES ASSUME NEW i \in Positions PROVE i \in Nat /\ i <= NewLap(0, i)
    BY <1>1, <1>2 DEF Places
  <2>1. NewLap(0, i) \in Nat /\ NewLap(0, i) > 0 + capacity_
    BY LapAbove
  <2> QED
    BY <2>1, capacityAssumption DEF Positions
<1>5. Passed
  BY DEF Passed, Dead
<1>6. NothingStranded
  BY <1>1, <1>2 DEF NothingStranded
<1>7. ASSUME NEW t \in Threads PROVE Local(t)
  BY <1>1, <1>7 DEF Local, Shape, Ticketed, Objects, BackingOff, Replacing, Taking, Reopening, At, Working,
     Enqueuing, Dequeuing, NoTicket
<1> QED
  BY <1>3, <1>4, <1>5, <1>6, <1>7 DEF IInv

LEMMA StepKeeps ==
  ASSUME IInv, NEW t \in Threads, Step(t), seen' \subseteq Threads
  PROVE  IInv' /\ MovesOn /\ EnqueuedByStep(t) /\ WordsByStep(t)
BY CallEnqueueKeeps, CallDequeueKeeps, LoadCounterKeeps, LoadOtherKeeps, TicketKeeps, ReadKeeps,
   BackoffKeeps, PutKeeps, TakeKeeps, MarkKeeps, GetHeadKeeps, ReopenKeeps, SkipKeeps DEF Step

LEMMA NextKeeps == IInv /\ [Next]_vars => IInv' /\ MovesOn
<1> SUFFICES ASSUME IInv, [Next]_vars PROVE IInv' /\ MovesOn
  OBVIOUS
<1>1. ASSUME NEW t \in Threads, Step(t), seen' \subseteq Threads
      PROVE  IInv' /\ MovesOn
  BY <1>1, StepKeeps
<1>2. CASE UNCHANGED vars
  <2> USE <1>2 DEF vars, counters, histories
  <2>1. TypeOK' /\ NothingStranded'
    BY DEF IInv, TypeOK, NothingStranded, SeqIdOf, IsValue, HeldBy, Dequeuing
  <2>2. Dead' = Dead /\ Places' /\ Passed'
    BY DEF IInv, Places, Passed, Dead, SeqIdOf, IsValue, IsEmptyType, HeldBy, Dequeuing
  <2>3. ASSUME NEW t \in Threads PROVE Local(t)'
    <3>1. Local(t)
      BY DEF IInv
    <3>2. Shape(t)' /\ Ticketed(t)' /\ Objects(t)'
      BY <3>1 DEF Local, Shape, Ticketed, Objects, At, Enqueuing, Dequeuing, HeldBy, Enqueued, Present, IsValue
    <3>3. BackingOff(t)' /\ Replacing(t)' /\ Taking(t)'
      BY <3>1 DEF Local, BackingOff, Replacing, Taking, At, Dequeuing, SeqIdOf, IsValue, IsEmptyType, Cell
    <3>4. Reopening(t)'
      BY <2>2, <3>1 DEF Local, Reopening, HeadOf, At, SeqIdOf, IsValue, IsEmptyType, Cell
    <3> QED
      BY <3>2, <3>3, <3>4 DEF Local
  <2>4. MovesOn
    BY DEF IInv, Places, MovesOn, SeqIdOf, IsValue
  <2> QED
    BY <2>1, <2>2, <2>3, <2>4 DEF IInv
<1> QED
  BY <1>1, <1>2 DEF Next

LEMMA Invariance == Spec => []IInv
  BY InitIInv, NextKeeps, PTL DEF Spec

\* Every variable keeps its type, for any number of threads, values and
\* positions: among others, sequence ids never become negative.
THEOREM TypeCorrect == Spec => []TypeOK
<1>1. IInv => TypeOK
  BY DEF IInv
<1> QED
  BY <1>1, Invariance, PTL

\* A value is never stranded at a ticket that was given up (dequeue gives up
\* only what can no longer be enqueued with), for any number of threads.
THEOREM NoValueStranded == Spec => []NothingStranded
<1>1. IInv => NothingStranded
  BY DEF IInv
<1> QED
  BY <1>1, Invariance, PTL

\* The sequence id of a position never falls back, for any number of threads:
\* a thread with an old ticket always sees that the position moved on.
THEOREM NeverFallsBack == Spec => PositionsMoveOn
<1>1. IInv /\ [Next]_vars => [\A i \in Positions : SeqIdOf(array_[i])' >= SeqIdOf(array_[i])]_vars
  BY NextKeeps DEF MovesOn
<1> QED
  BY <1>1, Invariance, PTL DEF Spec, PositionsMoveOn

-----------------------------------------------------------------------------
(* First in, first out                                                     *)
(*                                                                         *)
(* A ticket is above every ticket that was used when its call began: the   *)
(* enqueue of b that began when a was in the buffer places b above a, and  *)
(* the dequeue that began when b was gone works above b, hence above a.    *)
(* It can only take a value of its own ticket, so not a.                   *)

Numbered ==
  /\ older \in [Values -> SUBSET Values]
  /\ gone \in [Threads -> SUBSET Values]
  /\ \A v \in Enqueued :
       /\ seqid_[v] < tail_
       /\ older[v] \subseteq Enqueued
       /\ \A a \in older[v] : seqid_[a] < seqid_[v]
  /\ \A v \in taken : seqid_[v] < head_

\* What the ticket of a call is above.
EnqueuesAbove(t) ==
  Enqueuing(t) =>
    /\ older[value[t]] \subseteq Enqueued
    /\ seqid[t] # NoTicket => seqid[t] < tail_ /\ \A a \in older[value[t]] : seqid_[a] < seqid[t]

DequeuesAbove(t) ==
  Dequeuing(t) =>
    /\ gone[t] \subseteq taken
    /\ seqid[t] # NoTicket => \A b \in gone[t] : seqid_[b] < seqid[t]

\* The head isEmpty loaded first is not above the head.
HeadWas(t) == At(t, "load_tail") => count[t] <= head_

Above(t) == EnqueuesAbove(t) /\ DequeuesAbove(t) /\ HeadWas(t)

FInv == Numbered /\ \A t \in Threads : Above(t)

\* A dequeue that found a value keeps its ticket, and the value stays there
\* until this dequeue takes it.
Found(t) ==
  /\ At(t, "idle") => value[t] = NoValue
  /\ Dequeuing(t) /\ value[t] # NoValue =>
       /\ seqid[t] # NoTicket
       /\ IsValue(Cell(t)) /\ Cell(t).id = value[t] /\ seqid_[value[t]] = seqid[t]

LEMMA OnlyItself ==
  ASSUME TypeOK, NEW t \in Threads, Step(t)
  PROVE  OnlyMoves(t)
<1> USE DEF OnlyMoves, TypeOK, Goto, Keep, histories
<1>1. CASE CallEnqueue(t) \/ CallDequeue(t) \/ LoadCounter(t) \/ Ticket(t) \/ GetHead(t)
  BY <1>1 DEF CallEnqueue, CallDequeue, LoadCounter, Ticket, GetHead
<1>2. CASE LoadOther(t)
  BY <1>2 DEF LoadOther, Leave
<1>3. CASE Read(t)
  BY <1>3 DEF Read, GiveUp
<1>4. CASE Backoff(t)
  BY <1>4 DEF Backoff, GiveUp
<1>5. CASE Put(t)
  BY <1>5 DEF Put, Leave, Again
<1>6. CASE Take(t)
  BY <1>6 DEF Take, Leave
<1>7. CASE Mark(t) \/ Reopen(t)
  BY <1>7 DEF Mark, Reopen
<1>8. CASE Skip(t)
  BY <1>8 DEF Skip, GiveUp, Again
<1> QED
  BY <1>1, <1>2, <1>3, <1>4, <1>5, <1>6, <1>7, <1>8 DEF Step

\* A step of t as far as the tickets go: the counters only grow, a value comes
\* in under a ticket of t, and one goes out below the head.
Advances(t) ==
  /\ head_ <= head_' /\ tail_ <= tail_' /\ taken \subseteq taken'
  /\ older' \in [Values -> SUBSET Values] /\ gone' \in [Threads -> SUBSET Values]
  /\ \A u \in Threads \ {t} :
       gone'[u] = gone[u] /\ (Enqueuing(u) => older'[value[u]] = older[value[u]])
  /\ \A v \in Enqueued : older'[v] = older[v]
  /\ \A v \in Enqueued' \ Enqueued :
       seqid_'[v] = seqid[t] /\ seqid[t] # NoTicket /\ older'[v] = older[v]
  /\ \A v \in taken' \ taken : v \in Enqueued /\ seqid_[v] < head_

LEMMA FifoStep ==
  ASSUME IInv, TypeOK', FInv, NEW t \in Threads, OnlyMoves(t), EnqueuedByStep(t), Advances(t), Above(t)'
  PROVE  FInv'
<1>1. /\ head_ \in Nat /\ head_' \in Nat /\ tail_ \in Nat /\ tail_' \in Nat
      /\ head_ <= head_' /\ tail_ <= tail_'
      /\ Enqueued \subseteq Enqueued' /\ taken \subseteq taken' /\ taken \subseteq Enqueued
      /\ Enqueued \subseteq Values
  BY DEF IInv, TypeOK, Advances, EnqueuedByStep, Enqueued, Present
<1>2. \A v \in Enqueued : seqid_'[v] = seqid_[v] /\ older'[v] = older[v] /\ seqid_[v] \in Int
  BY <1>1 DEF EnqueuedByStep, Advances, IInv, TypeOK
<1>3. Numbered'
  <2>1. ASSUME NEW v \in Enqueued
        PROVE  /\ seqid_'[v] < tail_' /\ older'[v] \subseteq Enqueued'
               /\ \A a \in older'[v] : seqid_'[a] < seqid_'[v]
    <3>1. /\ seqid_[v] < tail_ /\ older[v] \subseteq Enqueued
          /\ \A a \in older[v] : seqid_[a] < seqid_[v]
      BY DEF FInv, Numbered
    <3>2. \A a \in older[v] : seqid_'[a] = seqid_[a]
      BY <1>2, <3>1
    <3> QED
      BY <1>1, <1>2, <3>1, <3>2
  <2>2. ASSUME NEW v \in Enqueued' \ Enqueued
        PROVE  /\ seqid_'[v] < tail_' /\ older'[v] \subseteq Enqueued'
               /\ \A a \in older'[v] : seqid_'[a] < seqid_'[v]
    <3>1. Enqueuing(t) /\ v = value[t]
      BY DEF EnqueuedByStep
    <3>2. seqid_'[v] = seqid[t] /\ seqid[t] # NoTicket /\ older'[v] = older[v]
      BY DEF Advances
    <3>3. /\ older[v] \subseteq Enqueued /\ seqid[t] < tail_
          /\ \A a \in older[v] : seqid_[a] < seqid[t]
      BY <3>1, <3>2 DEF FInv, Above, EnqueuesAbove
    <3>4. \A a \in older[v] : seqid_'[a] = seqid_[a]
      BY <1>2, <3>3
    <3>5. seqid[t] \in Int
      BY DEF IInv, TypeOK, NoTicket
    <3> QED
      BY <1>1, <3>2, <3>3, <3>4, <3>5
  <2>3. ASSUME NEW v \in taken' PROVE seqid_'[v] < head_'
    <3>1. v \in Enqueued /\ seqid_[v] < head_
      BY <1>1 DEF Advances, FInv, Numbered
    <3> QED
      BY <1>1, <1>2, <3>1
  <2>4. older' \in [Values -> SUBSET Values] /\ gone' \in [Threads -> SUBSET Values]
    BY DEF Advances
  <2> QED
    BY <2>1, <2>2, <2>3, <2>4 DEF Numbered
<1>4. ASSUME NEW u \in Threads \ {t} PROVE Above(u)'
  <2>1. /\ pc'[u] = pc[u] /\ op'[u] = op[u] /\ value'[u] = value[u] /\ seqid'[u] = seqid[u]
        /\ count'[u] = count[u] /\ count[u] \in Nat /\ seqid[u] \in Int
    BY DEF OnlyMoves, IInv, TypeOK, NoTicket
  <2>2. EnqueuesAbove(u) /\ DequeuesAbove(u) /\ HeadWas(u)
    BY DEF FInv, Above
  <2>3. EnqueuesAbove(u)'
    <3> SUFFICES ASSUME Enqueuing(u)
                 PROVE  /\ older'[value[u]] \subseteq Enqueued'
                        /\ seqid[u] # NoTicket =>
                             seqid[u] < tail_' /\ \A a \in older'[value[u]] : seqid_'[a] < seqid[u]
      BY <2>1 DEF EnqueuesAbove, Enqueuing
    <3>1. older'[value[u]] = older[value[u]]
      BY DEF Advances
    <3>2. older[value[u]] \subseteq Enqueued
      BY <2>2 DEF EnqueuesAbove
    <3>3. \A a \in older[value[u]] : seqid_'[a] = seqid_[a]
      BY <1>2, <3>2
    <3> QED
      BY <1>1, <2>1, <2>2, <3>1, <3>2, <3>3 DEF EnqueuesAbove
  <2>4. DequeuesAbove(u)'
    <3> SUFFICES ASSUME Dequeuing(u)
                 PROVE  /\ gone[u] \subseteq taken'
                        /\ seqid[u] # NoTicket => \A b \in gone[u] : seqid_'[b] < seqid[u]
      BY <2>1 DEF DequeuesAbove, Dequeuing, Advances
    <3> QED
      BY <1>1, <1>2, <2>2 DEF DequeuesAbove
  <2>5. HeadWas(u)'
    BY <1>1, <2>1, <2>2 DEF HeadWas, At
  <2> QED
    BY <2>3, <2>4, <2>5 DEF Above
<1> QED
  BY <1>3, <1>4 DEF FInv

\* A step of t that takes no ticket, and neither puts a value nor takes one.
LEMMA QuietStep ==
  ASSUME IInv, TypeOK', FInv, NEW t \in Threads, OnlyMoves(t), EnqueuedByStep(t),
         head_' = head_, tail_' = tail_, taken' = taken, older' = older, gone' = gone,
         \A v \in Enqueued : seqid_'[v] = seqid_[v],
         Enqueued' \subseteq Enqueued,
         op'[t] \in {op[t], "none"}, seqid'[t] \in {seqid[t], NoTicket},
         Enqueuing(t)' => value'[t] = value[t],
         HeadWas(t)'
  PROVE  FInv'
<1>1. Enqueued' = Enqueued
  BY DEF EnqueuedByStep
<1>2. Above(t) /\ Numbered /\ taken \subseteq Enqueued
  BY DEF FInv, Enqueued
<1>3. Advances(t)
  BY <1>1, <1>2 DEF Advances, Numbered, IInv, TypeOK
<1>4. EnqueuesAbove(t)'
  <2> SUFFICES ASSUME Enqueuing(t)'
               PROVE  /\ older[value[t]] \subseteq Enqueued
                      /\ seqid'[t] # NoTicket =>
                           seqid'[t] < tail_ /\ \A a \in older[value[t]] : seqid_'[a] < seqid'[t]
    BY <1>1 DEF EnqueuesAbove
  <2>1. Enqueuing(t)
    BY DEF Enqueuing
  <2>2. older[value[t]] \subseteq Enqueued
    BY <1>2, <2>1 DEF Above, EnqueuesAbove
  <2> QED
    BY <1>2, <2>1, <2>2 DEF Above, EnqueuesAbove
<1>5. DequeuesAbove(t)'
  <2> SUFFICES ASSUME Dequeuing(t)'
               PROVE  /\ gone[t] \subseteq taken
                      /\ seqid'[t] # NoTicket => \A b \in gone[t] : seqid_'[b] < seqid'[t]
    BY DEF DequeuesAbove
  <2>1. Dequeuing(t)
    BY DEF Dequeuing
  <2> QED
    BY <1>2, <2>1 DEF Above, DequeuesAbove
<1> QED
  BY <1>3, <1>4, <1>5, FifoStep DEF Above

LEMMA QuietKeeps ==
  ASSUME IInv, IInv', FInv, NEW t \in Threads, Step(t), EnqueuedByStep(t),
         LoadCounter(t) \/ LoadOther(t) \/ Read(t) \/ Backoff(t) \/ Mark(t)
           \/ GetHead(t) \/ Reopen(t) \/ Skip(t)
  PROVE  FInv'
<1>1. OnlyMoves(t) /\ TypeOK /\ TypeOK' /\ Shape(t)
  BY OnlyItself DEF IInv, Local
<1>2. CASE LoadCounter(t)
  <2>1. /\ Enqueued' = Enqueued
        /\ head_' = head_ /\ tail_' = tail_ /\ taken' = taken /\ older' = older /\ gone' = gone
        /\ seqid_' = seqid_ /\ op' = op /\ seqid' = seqid /\ value' = value
    BY <1>2 DEF LoadCounter, Enqueued, Present, IsValue, counters, histories
  <2>2. HeadWas(t)'
    BY <1>1, <1>2 DEF LoadCounter, HeadWas, At, Goto, TypeOK, counters
  <2> QED
    BY <1>1, <2>1, <2>2, QuietStep
<1>3. CASE LoadOther(t)
  <2>1. /\ Enqueued' = Enqueued
        /\ head_' = head_ /\ tail_' = tail_ /\ taken' = taken /\ older' = older /\ gone' = gone
        /\ seqid_' = seqid_
    BY <1>3 DEF LoadOther, Enqueued, Present, IsValue, counters, histories
  <2>2. /\ pc'[t] \in {"idle", "ticket"} /\ op'[t] \in {op[t], "none"}
        /\ seqid'[t] \in {seqid[t], NoTicket} /\ (Enqueuing(t)' => value'[t] = value[t])
    <3>1. CASE Refused(t)
      BY <1>1, <1>3, <3>1 DEF LoadOther, Leave, Goto, Enqueuing, TypeOK, histories
    <3>2. CASE ~Refused(t)
      BY <1>1, <1>3, <3>2 DEF LoadOther, Goto, Enqueuing, TypeOK, histories, counters
    <3> QED
      BY <3>1, <3>2
  <2>3. HeadWas(t)'
    BY <2>2 DEF HeadWas, At
  <2> QED
    BY <1>1, <2>1, <2>2, <2>3, QuietStep
<1>4. CASE Read(t)
  <2>1. /\ Enqueued' = Enqueued
        /\ head_' = head_ /\ tail_' = tail_ /\ taken' = taken /\ older' = older /\ gone' = gone
        /\ seqid_' = seqid_ /\ op' = op
    BY <1>4 DEF Read, Enqueued, Present, IsValue, counters, histories
  <2>2. /\ pc'[t] # "load_tail" /\ seqid'[t] \in {seqid[t], NoTicket}
        /\ (Enqueuing(t)' => value'[t] = value[t])
    <3>1. CASE Later(t)
      BY <1>1, <1>4, <3>1 DEF Read, GiveUp, Goto, TypeOK
    <3>2. CASE ~Later(t)
      BY <1>1, <1>4, <3>2 DEF Read, Goto, TypeOK, Enqueuing, Dequeuing
    <3> QED
      BY <3>1, <3>2
  <2>3. HeadWas(t)'
    BY <2>2 DEF HeadWas, At
  <2> QED
    BY <1>1, <2>1, <2>2, <2>3, QuietStep
<1>5. CASE Backoff(t) \/ GetHead(t)
  <2>1. /\ Enqueued' = Enqueued
        /\ head_' = head_ /\ tail_' = tail_ /\ taken' = taken /\ older' = older /\ gone' = gone
        /\ seqid_' = seqid_ /\ op' = op /\ value' = value
    BY <1>5 DEF Backoff, GetHead, Enqueued, Present, IsValue, counters, histories
  <2>2. pc'[t] # "load_tail" /\ seqid'[t] \in {seqid[t], NoTicket}
    BY <1>1, <1>5 DEF Backoff, GetHead, GiveUp, Goto, TypeOK, counters
  <2>3. HeadWas(t)'
    BY <2>2 DEF HeadWas, At
  <2> QED
    BY <1>1, <2>1, <2>2, <2>3, QuietStep
<1>6. CASE Mark(t) \/ Reopen(t) \/ Skip(t)
  <2>1. /\ head_' = head_ /\ tail_' = tail_ /\ taken' = taken /\ older' = older /\ gone' = gone
        /\ seqid_' = seqid_ /\ op' = op /\ value' = value
    BY <1>6 DEF Mark, Reopen, Skip, counters, histories
  <2>2. pc'[t] # "load_tail" /\ seqid'[t] \in {seqid[t], NoTicket}
    BY <1>1, <1>6 DEF Mark, Reopen, Skip, GiveUp, Again, Goto, TypeOK
  <2>3. HeadWas(t)'
    BY <2>2 DEF HeadWas, At
  <2>4. ~Enqueuing(t)
    BY <1>1, <1>6 DEF Shape, Mark, Reopen, Skip, At, Enqueuing, Dequeuing
  <2>5. Enqueued' \subseteq Enqueued
    BY <2>4 DEF EnqueuedByStep
  <2> QED
    BY <1>1, <2>1, <2>2, <2>3, <2>5, QuietStep
<1> QED
  BY <1>2, <1>3, <1>4, <1>5, <1>6

\* The thread announces the value it will enqueue: nobody else works with it.
LEMMA CallEnqueueFifo ==
  ASSUME IInv, IInv', FInv, NEW t \in Threads, Step(t), EnqueuedByStep(t), CallEnqueue(t)
  PROVE  FInv'
<1>1. OnlyMoves(t) /\ TypeOK /\ TypeOK' /\ Shape(t) /\ Numbered /\ At(t, "idle")
  BY OnlyItself DEF IInv, Local, FInv, CallEnqueue
<1>2. PICK v \in Values \ (Enqueued \cup {value[u] : u \in Threads}) :
        value' = [value EXCEPT ![t] = v] /\ older' = [older EXCEPT ![v] = Enqueued]
  BY DEF CallEnqueue
<1>3. /\ Enqueued' = Enqueued /\ Enqueued \subseteq Values
      /\ head_' = head_ /\ tail_' = tail_ /\ taken' = taken /\ gone' = gone
      /\ seqid_' = seqid_ /\ seqid' = seqid /\ op' = [op EXCEPT ![t] = "enqueue"]
      /\ pc' = [pc EXCEPT ![t] = "check"]
  BY <1>1 DEF CallEnqueue, Enqueued, Present, IsValue, counters, Goto, TypeOK
<1>4. older' \in [Values -> SUBSET Values] /\ \A w \in Values \ {v} : older'[w] = older[w]
  BY <1>1, <1>2, <1>3 DEF Numbered
<1>5. Advances(t)
  <2>1. \A u \in Threads \ {t} : Enqueuing(u) => older'[value[u]] = older[value[u]]
    BY <1>2, <1>4 DEF IInv, Local, Objects
  <2>2. \A w \in Enqueued : older'[w] = older[w]
    BY <1>2, <1>3, <1>4
  <2> QED
    BY <1>1, <1>3, <1>4, <2>1, <2>2 DEF Advances, Numbered, TypeOK
<1>6. seqid'[t] = NoTicket /\ value'[t] = v /\ older'[v] = Enqueued /\ op'[t] = "enqueue" /\ pc'[t] = "check"
  BY <1>1, <1>2, <1>3 DEF Shape, Working, At, TypeOK, Numbered
<1>7. Above(t)'
  BY <1>3, <1>6 DEF Above, EnqueuesAbove, DequeuesAbove, HeadWas, Enqueuing, Dequeuing, At
<1> QED
  BY <1>1, <1>5, <1>7, FifoStep

LEMMA CallDequeueFifo ==
  ASSUME IInv, IInv', FInv, NEW t \in Threads, Step(t), EnqueuedByStep(t), CallDequeue(t)
  PROVE  FInv'
<1>1. OnlyMoves(t) /\ TypeOK /\ TypeOK' /\ Shape(t) /\ Numbered /\ At(t, "idle")
  BY OnlyItself DEF IInv, Local, FInv, CallDequeue
<1>2. /\ Enqueued' = Enqueued /\ taken \subseteq Values
      /\ head_' = head_ /\ tail_' = tail_ /\ taken' = taken /\ gone' = [gone EXCEPT ![t] = taken]
      /\ seqid_' = seqid_ /\ seqid' = seqid /\ op' = [op EXCEPT ![t] = "dequeue"]
      /\ pc' = [pc EXCEPT ![t] = "check"] /\ older' = older
  BY <1>1 DEF CallDequeue, Enqueued, Present, IsValue, counters, Goto, TypeOK
<1>3. Advances(t)
  BY <1>1, <1>2 DEF Advances, Numbered, TypeOK
<1>4. seqid'[t] = NoTicket /\ gone'[t] = taken /\ op'[t] = "dequeue" /\ pc'[t] = "check"
  BY <1>1, <1>2 DEF Shape, Working, At, TypeOK, Numbered
<1>5. Above(t)'
  BY <1>2, <1>4 DEF Above, EnqueuesAbove, DequeuesAbove, HeadWas, Enqueuing, Dequeuing, At
<1> QED
  BY <1>1, <1>3, <1>5, FifoStep

\* A new ticket is above every ticket that was used.
LEMMA TicketFifo ==
  ASSUME IInv, IInv', FInv, NEW t \in Threads, Step(t), EnqueuedByStep(t), Ticket(t)
  PROVE  FInv'
<1>1. OnlyMoves(t) /\ TypeOK /\ TypeOK' /\ Shape(t) /\ Numbered /\ Above(t) /\ At(t, "ticket")
  BY OnlyItself DEF IInv, Local, FInv, Ticket
<1>2. /\ Enqueued' = Enqueued /\ taken \subseteq Enqueued
      /\ taken' = taken /\ gone' = gone /\ seqid_' = seqid_ /\ op' = op /\ older' = older
      /\ value' = value /\ pc' = [pc EXCEPT ![t] = "read"]
      /\ head_ \in Nat /\ tail_ \in Nat /\ head_ <= head_' /\ tail_ <= tail_'
  BY <1>1 DEF Ticket, Enqueued, Present, IsValue, Goto, TypeOK, histories
<1>3. Advances(t)
  BY <1>1, <1>2 DEF Advances, Numbered
<1>4. CASE Enqueuing(t)
  <2>1. seqid'[t] = tail_ /\ tail_' = tail_ + 1
    BY <1>1, <1>4 DEF Ticket, TypeOK
  <2>2. older[value[t]] \subseteq Enqueued
    BY <1>1, <1>4 DEF Above, EnqueuesAbove
  <2> QED
    BY <1>1, <1>2, <1>3, <1>4, <2>1, <2>2, FifoStep
       DEF Numbered, Above, EnqueuesAbove, DequeuesAbove, HeadWas, Enqueuing, Dequeuing, At, TypeOK
<1>5. CASE ~Enqueuing(t)
  <2>1. Dequeuing(t)
    BY <1>1, <1>5 DEF Shape, At, TypeOK, Enqueuing, Dequeuing
  <2>2. seqid'[t] = head_
    BY <1>1, <1>5 DEF Ticket, TypeOK
  <2>3. gone[t] \subseteq taken
    BY <1>1, <2>1 DEF Above, DequeuesAbove
  <2> QED
    BY <1>1, <1>2, <1>3, <1>5, <2>1, <2>2, <2>3, FifoStep
       DEF Numbered, Above, EnqueuesAbove, DequeuesAbove, HeadWas, Enqueuing, Dequeuing, At, TypeOK
<1> QED
  BY <1>4, <1>5

LEMMA PutFifo ==
  ASSUME IInv, IInv', FInv, NEW t \in Threads, Step(t), EnqueuedByStep(t), Put(t)
  PROVE  FInv'
<1>1. OnlyMoves(t) /\ TypeOK /\ TypeOK' /\ Shape(t) /\ Numbered /\ Above(t) /\ At(t, "put")
  BY OnlyItself DEF IInv, Local, FInv, Put
<1>2. /\ Enqueuing(t) /\ seqid[t] # NoTicket /\ value[t] \in Values \ Enqueued
      /\ head_' = head_ /\ tail_' = tail_ /\ taken' = taken /\ older' = older /\ gone' = gone
      /\ seqid_' = [seqid_ EXCEPT ![value[t]] = seqid[t]]
  BY <1>1 DEF Put, Shape, Working, At, counters, histories, IInv, Local, Objects
<1>3. CASE Cell(t) # val[t]
  <2>1. Enqueued' = Enqueued /\ op' = op /\ value' = value /\ seqid' = seqid /\ pc'[t] = "read"
    BY <1>1, <1>3 DEF Put, Again, Goto, Enqueued, Present, IsValue, TypeOK, histories
  <2>2. HeadWas(t)'
    BY <2>1 DEF HeadWas, At
  <2>3. \A v \in Enqueued : seqid_'[v] = seqid_[v]
    BY DEF EnqueuedByStep
  <2> QED
    BY <1>1, <1>2, <2>1, <2>2, <2>3, QuietStep
<1>4. CASE Cell(t) = val[t]
  <2>1. op'[t] = "none" /\ pc'[t] = "idle"
    BY <1>1, <1>4 DEF Put, Leave, Goto, TypeOK
  <2>2. Above(t)'
    BY <2>1 DEF Above, EnqueuesAbove, DequeuesAbove, HeadWas, Enqueuing, Dequeuing, At
  <2>3. seqid_'[value[t]] = seqid[t] /\ \A v \in Enqueued' \ Enqueued : v = value[t]
    BY <1>1, <1>2 DEF EnqueuedByStep, TypeOK
  <2>4. Advances(t)
    BY <1>1, <1>2, <2>3 DEF Advances, Numbered, TypeOK
  <2> QED
    BY <1>1, <2>2, <2>4, FifoStep
<1> QED
  BY <1>3, <1>4

LEMMA TakeFifo ==
  ASSUME IInv, IInv', FInv, NEW t \in Threads, Step(t), EnqueuedByStep(t), Take(t)
  PROVE  FInv'
<1>1. /\ OnlyMoves(t) /\ TypeOK /\ TypeOK' /\ Shape(t) /\ Ticketed(t) /\ Taking(t) /\ Numbered /\ Above(t)
      /\ pc[t] \in {"take", "take_again"}
  BY OnlyItself DEF IInv, Local, FInv, Take
<1>2. /\ Dequeuing(t) /\ ~Enqueuing(t) /\ seqid[t] < head_
      /\ IsValue(Cell(t)) /\ Cell(t).id = value[t] /\ seqid_[value[t]] = seqid[t]
  BY <1>1 DEF Shape, Ticketed, Taking, SeqIdOf, Enqueuing, Dequeuing
<1>3. value[t] \in Enqueued
  BY <1>1, <1>2, Holding, WordFacts DEF Working, Enqueued, Present, Cell
<1>4. /\ head_' = head_ /\ tail_' = tail_ /\ older' = older /\ gone' = gone /\ seqid_' = seqid_
      /\ Enqueued' \subseteq Enqueued
  BY <1>2 DEF Take, counters, EnqueuedByStep
<1>5. CASE Cell(t) # val[t]
  <2>1. op' = op /\ value' = value /\ seqid' = seqid /\ taken' = taken /\ pc'[t] \in {"take_again", "read"}
    BY <1>1, <1>5 DEF Take, Goto, TypeOK
  <2>2. HeadWas(t)'
    BY <2>1 DEF HeadWas, At
  <2> QED
    BY <1>1, <1>4, <2>1, <2>2, QuietStep
<1>6. CASE Cell(t) = val[t]
  <2>1. op'[t] = "none" /\ pc'[t] = "idle" /\ taken' = taken \cup {value[t]}
    BY <1>1, <1>6 DEF Take, Leave, Goto, TypeOK
  <2>2. Above(t)'
    BY <2>1 DEF Above, EnqueuesAbove, DequeuesAbove, HeadWas, Enqueuing, Dequeuing, At
  <2>3. Advances(t)
    BY <1>1, <1>2, <1>3, <1>4, <2>1 DEF Advances, Numbered, TypeOK
  <2> QED
    BY <1>1, <2>2, <2>3, FifoStep
<1> QED
  BY <1>5, <1>6

LEMMA FifoKeeps == IInv /\ FInv /\ [Next]_vars => FInv'
<1> SUFFICES ASSUME IInv, FInv, [Next]_vars PROVE FInv'
  OBVIOUS
<1>1. ASSUME NEW t \in Threads, Step(t), seen' \subseteq Threads
      PROVE  FInv'
  <2>1. IInv' /\ EnqueuedByStep(t)
    BY <1>1, StepKeeps
  <2> QED
    BY <1>1, <2>1, CallEnqueueFifo, CallDequeueFifo, TicketFifo, PutFifo, TakeFifo, QuietKeeps DEF Step
<1>2. CASE UNCHANGED vars
  <2>1. Enqueued' = Enqueued
    BY <1>2 DEF vars, counters, histories, Enqueued, Present, IsValue
  <2>2. Numbered'
    BY <1>2, <2>1 DEF vars, counters, histories, FInv, Numbered
  <2>3. ASSUME NEW t \in Threads PROVE Above(t)'
    <3>1. Above(t)
      BY DEF FInv
    <3> QED
      BY <1>2, <2>1, <3>1 DEF vars, counters, histories, Above, EnqueuesAbove, DequeuesAbove, HeadWas,
         Enqueuing, Dequeuing, At
  <2> QED
    BY <2>2, <2>3 DEF FInv
<1> QED
  BY <1>1, <1>2 DEF Next

LEMMA InitFInv == Init => FInv
<1> SUFFICES ASSUME Init PROVE FInv
  OBVIOUS
<1>1. Enqueued = {}
  <2>1. \A i \in Positions : ~IsValue(array_[i])
    BY DEF Init, EmptyType, IsValue
  <2> QED
    BY <2>1 DEF Init, Enqueued, Present
<1>2. Numbered
  BY <1>1 DEF Init, Numbered
<1>3. ASSUME NEW t \in Threads PROVE Above(t)
  BY DEF Init, Above, EnqueuesAbove, DequeuesAbove, HeadWas, Enqueuing, Dequeuing, At
<1> QED
  BY <1>2, <1>3 DEF FInv

\* Nobody but t takes what t found.
LEMMA OthersFound ==
  ASSUME IInv, IInv', NEW t \in Threads, Step(t), EnqueuedByStep(t), WordsByStep(t),
         NEW u \in Threads \ {t}, Found(u)
  PROVE  Found(u)'
<1>1. /\ pc'[u] = pc[u] /\ op'[u] = op[u] /\ value'[u] = value[u] /\ seqid'[u] = seqid[u]
  BY OnlyItself DEF OnlyMoves, IInv
<1>2. At(u, "idle")' => value'[u] = NoValue
  BY <1>1 DEF Found, At
<1>3. ASSUME Dequeuing(u), value[u] # NoValue
      PROVE  /\ seqid[u] # NoTicket
             /\ IsValue(Cell(u))' /\ Cell(u)'.id = value[u] /\ seqid_'[value[u]] = seqid[u]
  <2> DEFINE i == GetPos(seqid[u])
  <2>1. /\ seqid[u] # NoTicket /\ seqid[u] \in Nat /\ i \in Positions
        /\ IsValue(array_[i]) /\ array_[i].id = value[u] /\ seqid_[value[u]] = seqid[u]
    BY <1>3, PosInRange DEF Found, Cell, IInv, TypeOK, NoTicket
  <2>2. SeqIdOf(array_[i]) = seqid[u]
    BY <2>1 DEF SeqIdOf
  <2>3. ~HeldBy(t, seqid[u])
    BY <1>3, <2>1 DEF IInv, Local, Ticketed
  <2>4. IsValue(array_'[i]) /\ array_'[i].id = value[u]
    BY <2>1, <2>2, <2>3 DEF WordsByStep
  <2>5. value[u] \in Enqueued
    BY <2>1, WordFacts DEF Enqueued, Present, IInv, TypeOK
  <2>6. seqid_'[value[u]] = seqid[u]
    BY <2>1, <2>5 DEF EnqueuedByStep
  <2>7. Cell(u)' = array_'[i]
    BY <1>1 DEF Cell
  <2> QED
    BY <2>1, <2>4, <2>6, <2>7 DEF IsValue
<1> QED
  BY <1>1, <1>2, <1>3 DEF Found, Dequeuing

LEMMA OwnFound ==
  ASSUME IInv, IInv', NEW t \in Threads, Step(t), Found(t)
  PROVE  Found(t)'
<1>1. TypeOK /\ Shape(t) /\ Local(t)
  BY DEF IInv, Local
<1> USE DEF Goto, At, Enqueuing, Dequeuing
<1>2. CASE CallEnqueue(t)
  BY <1>1, <1>2 DEF CallEnqueue, Found, TypeOK
<1>3. CASE CallDequeue(t)
  BY <1>1, <1>3 DEF CallDequeue, Found, TypeOK
<1>4. CASE LoadCounter(t) \/ LoadOther(t) \/ Ticket(t)
  <2>1. seqid[t] = NoTicket
    BY <1>1, <1>4 DEF LoadCounter, LoadOther, Ticket, Shape, Working
  <2>2. Dequeuing(t) => value[t] = NoValue
    BY <2>1 DEF Found
  <2>3. CASE LoadCounter(t)
    BY <1>1, <2>2, <2>3 DEF LoadCounter, Found, TypeOK
  <2>4. CASE Ticket(t)
    BY <1>1, <2>2, <2>4 DEF Ticket, Found, TypeOK
  <2>5. CASE LoadOther(t) /\ Refused(t)
    BY <1>1, <2>2, <2>5 DEF LoadOther, Leave, Found, TypeOK
  <2>6. CASE LoadOther(t) /\ ~Refused(t)
    BY <1>1, <2>2, <2>6 DEF LoadOther, Found, TypeOK
  <2> QED
    BY <1>4, <2>3, <2>4, <2>5, <2>6
<1>5. CASE Read(t)
  <2>1. /\ seqid_' = seqid_ /\ array_' = array_ /\ op' = op /\ pc'[t] # "idle"
    BY <1>1, <1>5 DEF Read, GiveUp, TypeOK
  <2>2. seqid[t] \in Nat /\ Cell(t) \in Words /\ seqid[t] # NoTicket
    BY <1>5, Holding DEF Working, Read, NoTicket
  <2>3. CASE Later(t)
    <3>1. ~Dequeuing(t) \/ value[t] = NoValue
      BY <1>1, <2>2, <2>3 DEF Found, Later, SeqIdOf
    <3> QED
      BY <1>1, <1>5, <2>1, <2>3, <3>1 DEF Read, Found
  <2>4. CASE ~Later(t)
    <3>1. seqid' = seqid /\ Cell(t)' = Cell(t)
      BY <1>5, <2>1, <2>4 DEF Read, Cell
    <3>2. value'[t] = IF Mine(t) /\ Dequeuing(t) THEN Cell(t).id ELSE value[t]
      BY <1>1, <1>5, <2>4 DEF Read, TypeOK
    <3> QED
      BY <1>1, <2>1, <2>2, <3>1, <3>2 DEF Found, Mine, SeqIdOf, IsValue
  <2> QED
    BY <2>3, <2>4
<1>6. CASE Backoff(t)
  <2>1. seqid_' = seqid_ /\ array_' = array_ /\ op' = op /\ value' = value /\ pc'[t] # "idle"
    BY <1>1, <1>6 DEF Backoff, GiveUp, TypeOK
  <2>2. CASE seqid' = seqid
    BY <1>1, <2>1, <2>2 DEF Found, Cell, IsValue
  <2>3. CASE seqid' # seqid
    <3>1. Cell(t) = val[t]
      BY <1>6, <2>3 DEF Backoff
    <3>2. ~Dequeuing(t) \/ value[t] = NoValue
      BY <1>1, <1>6, <3>1 DEF Backoff, Local, BackingOff, Found, SeqIdOf
    <3> QED
      BY <2>1, <3>2 DEF Found
  <2> QED
    BY <2>2, <2>3
<1>7. CASE Put(t)
  <2>1. Enqueuing(t)
    BY <1>1, <1>7 DEF Put, Shape
  <2>2. CASE Cell(t) = val[t]
    BY <1>1, <1>7, <2>2 DEF Put, Leave, Found, TypeOK
  <2>3. CASE Cell(t) # val[t]
    BY <1>1, <1>7, <2>1, <2>3 DEF Put, Again, Found, TypeOK
  <2> QED
    BY <2>2, <2>3
<1>8. CASE Take(t)
  <2>1. CASE Cell(t) = val[t]
    BY <1>1, <1>8, <2>1 DEF Take, Leave, Found, TypeOK
  <2>2. CASE Cell(t) # val[t]
    <3>1. /\ array_' = array_ /\ op' = op /\ value' = value /\ seqid' = seqid /\ seqid_' = seqid_
          /\ pc'[t] # "idle"
      BY <1>1, <1>8, <2>2 DEF Take, TypeOK
    <3> QED
      BY <3>1 DEF Found, Cell, IsValue
  <2> QED
    BY <2>1, <2>2
<1>9. CASE GetHead(t)
  BY <1>1, <1>9 DEF GetHead, Found, TypeOK, Cell, IsValue, histories
<1>10. CASE Mark(t) \/ Reopen(t) \/ Skip(t)
  <2>1. /\ op' = op /\ value' = value /\ seqid_' = seqid_ /\ pc'[t] # "idle" /\ Dequeuing(t)
    BY <1>1, <1>10 DEF Mark, Reopen, Skip, GiveUp, Again, TypeOK, Shape
  <2>2. SUFFICES ASSUME value[t] # NoValue
                 PROVE  /\ seqid'[t] # NoTicket
                        /\ IsValue(Cell(t))' /\ Cell(t)'.id = value[t] /\ seqid_[value[t]] = seqid'[t]
    BY <2>1 DEF Found
  <2>3. /\ IsValue(Cell(t)) /\ Cell(t).id = value[t] /\ seqid_[value[t]] = seqid[t] /\ seqid[t] # NoTicket
        /\ GetPos(seqid[t]) \in Positions /\ Cell(t) \in Words
    BY <1>10, <2>1, <2>2, Holding DEF Found, Working, Mark, Reopen, Skip
  <2>4. CASE Mark(t)
    <3>1. seqid' = seqid /\ Cell(t)' = DelayMarkValue(Cell(t))
      BY <1>1, <2>3, <2>4 DEF Mark, Write, Cell, TypeOK
    <3> QED
      BY <2>3, <3>1, WordFacts DEF IsValue
  <2>5. CASE Reopen(t) \/ Skip(t)
    <3>1. IsEmptyType(val[t])
      BY <1>1, <2>5 DEF Local, Reopening, Replacing, Reopen, Skip
    <3>2. Cell(t) # val[t]
      BY <2>3, <3>1 DEF IsValue, IsEmptyType
    <3>3. seqid' = seqid /\ array_' = array_
      BY <2>5, <3>2 DEF Reopen, Skip, Again
    <3> QED
      BY <2>3, <3>3 DEF Cell, IsValue
  <2> QED
    BY <1>10, <2>4, <2>5
<1> QED
  BY <1>2, <1>3, <1>4, <1>5, <1>6, <1>7, <1>8, <1>9, <1>10 DEF Step

LEMMA FoundKeeps == IInv /\ (\A t \in Threads : Found(t)) /\ [Next]_vars => (\A t \in Threads : Found(t))'
<1> SUFFICES ASSUME IInv, \A t \in Threads : Found(t), [Next]_vars, NEW u \in Threads
             PROVE  Found(u)'
  OBVIOUS
<1>1. ASSUME NEW t \in Threads, Step(t), seen' \subseteq Threads
      PROVE  Found(u)'
  <2>1. IInv' /\ EnqueuedByStep(t) /\ WordsByStep(t)
    BY <1>1, StepKeeps
  <2> QED
    BY <1>1, <2>1, OthersFound, OwnFound
<1>2. CASE UNCHANGED vars
  <2>1. Found(u)
    OBVIOUS
  <2> QED
    BY <1>2, <2>1 DEF vars, counters, histories, Found, At, Dequeuing, IsValue, Cell
<1> QED
  BY <1>1, <1>2 DEF Next

FifoInv == IInv /\ FInv /\ \A t \in Threads : Found(t)

LEMMA FifoInvariance == Spec => []FifoInv
<1>1. FifoInv /\ [Next]_vars => FifoInv'
  BY NextKeeps, FifoKeeps, FoundKeeps DEF FifoInv
<1>2. Init => FifoInv
  <2>1. Init => \A t \in Threads : Found(t)
    BY DEF Init, Found, Dequeuing
  <2> QED
    BY <2>1, InitIInv, InitFInv DEF FifoInv
<1> QED
  BY <1>1, <1>2, PTL DEF Spec

\* First in, first out (ring_buffer.h:55), for any number of threads, values
\* and positions: no call of dequeue takes a value that was enqueued before
\* another one was begun, when that other one was gone before the call began.
THEOREM FirstInFirstOut == Spec => FIFO
<1> DEFINE InOrder ==
      \A t \in Threads : \A a \in taken' \ taken :
        Dequeuing(t) /\ a = value[t] => \A b \in gone[t] : a \notin older[b]
<1>1. FifoInv /\ [Next]_vars => [InOrder]_vars
  <2> SUFFICES ASSUME FifoInv, Next, NEW t \in Threads, NEW a \in taken' \ taken,
                      Dequeuing(t), a = value[t], NEW b \in gone[t], a \in older[b]
               PROVE  FALSE
    OBVIOUS
  <2>1. PICK u \in Threads : Step(u)
    BY DEF Next
  <2>2. Take(u)
    BY <2>1 DEF Step, CallEnqueue, CallDequeue, LoadCounter, LoadOther, Ticket, Read, Backoff, Put, Mark,
       GetHead, Reopen, Skip, histories
  <2>3. a = value[u] /\ pc[u] \in {"take", "take_again"}
    BY <2>2 DEF Take
  <2>4. Dequeuing(u) /\ seqid[u] # NoTicket
    BY <2>3 DEF FifoInv, IInv, Local, Shape, Working
  <2>5. seqid_[a] = seqid[u]
    BY <2>3 DEF FifoInv, IInv, Local, Taking, SeqIdOf
  <2>6. a # NoValue
    <3>1. Cell(u) \in Words
      BY <2>3, Holding DEF Working, FifoInv
    <3>2. IsValue(Cell(u)) /\ Cell(u).id = a
      BY <2>3 DEF FifoInv, IInv, Local, Taking
    <3> QED
      BY <3>1, <3>2, WordFacts, NoValueAssumption
  <2>7. seqid_[a] = seqid[t]
    BY <2>6 DEF FifoInv, Found
  <2>8. \A c \in gone[t] : c \in taken /\ seqid_[c] < seqid[t]
    BY <2>4, <2>5, <2>7 DEF FifoInv, FInv, Above, DequeuesAbove
  <2>9. seqid_[a] < seqid_[b]
    BY <2>8 DEF FifoInv, FInv, Numbered, Enqueued
  <2>10. seqid_[a] \in Int /\ seqid_[b] \in Int
    BY <2>8, <2>9 DEF FifoInv, FInv, Numbered, IInv, TypeOK, Enqueued, Present
  <2> QED
    BY <2>7, <2>8, <2>9, <2>10
<1>2. Spec => [][InOrder]_vars
  BY <1>1, FifoInvariance, PTL DEF Spec
<1> QED
  BY <1>2 DEF FIFO, InOrder

-----------------------------------------------------------------------------
(* What isEmpty says                                                       *)
(*                                                                         *)
(* When head_ was loaded first, a buffer that is found empty has given out *)
(* the tickets of all its values to dequeues: each value that is present   *)
(* has a dequeue of its own, other than the one that is refused.           *)

\* The other dequeues are at least as many as the values present.
LEMMA TakersEnough ==
  ASSUME IInv, FInv, tail_ <= head_, NEW t \in Threads, Dequeuing(t), seqid[t] = NoTicket
  PROVE  EmptyFor(t)
<1> DEFINE D == {u \in Threads \ {t} : Dequeuing(u)}
           f == [v \in Present |-> CHOOSE u \in D : seqid[u] = seqid_[v]]
<1>1. /\ \A i \in Positions : array_[i] \in Words
      /\ \A v \in Present : v \in Values /\ v \in Enqueued
      /\ \A v \in Values : seqid_[v] \in Int
      /\ head_ \in Nat /\ tail_ \in Nat
  BY DEF IInv, TypeOK, Present, Enqueued
<1>2. ASSUME NEW v \in Present
      PROVE  \E u \in D : seqid[u] = seqid_[v]
  <2>1. PICK i \in Positions : IsValue(array_[i]) /\ array_[i].id = v
    BY DEF Present
  <2>2. SeqIdOf(array_[i]) = seqid_[v]
    BY <2>1 DEF SeqIdOf
  <2>3. seqid_[v] < tail_ /\ seqid_[v] \in Nat
    BY <1>1, <2>2 DEF FInv, Numbered, IInv, Places
  <2>4. ~(seqid_[v] >= head_)
    BY <1>1, <2>3
  <2>5. PICK u \in Threads : HeldBy(u, seqid_[v])
    BY <2>1, <2>2, <2>4 DEF IInv, NothingStranded
  <2>6. u # t
    BY <2>3, <2>5 DEF HeldBy, NoTicket
  <2> QED
    BY <2>5, <2>6 DEF HeldBy
<1>3. \A v \in Present : f[v] \in D /\ seqid[f[v]] = seqid_[v]
  BY <1>2
<1>4. ASSUME NEW v \in Present, NEW w \in Present, seqid_[v] = seqid_[w]
      PROVE  v = w
  <2>1. PICK i \in Positions : IsValue(array_[i]) /\ array_[i].id = v
    BY DEF Present
  <2>2. PICK j \in Positions : IsValue(array_[j]) /\ array_[j].id = w
    BY DEF Present
  <2>3. GetPos(seqid_[v]) = i /\ GetPos(seqid_[w]) = j
    BY <2>1, <2>2 DEF IInv, Places, SeqIdOf
  <2> QED
    BY <1>4, <2>1, <2>2, <2>3
<1> HIDE DEF f
<1>5. f \in [Present -> D]
  BY <1>3 DEF f
<1>6. f \in Injection(Present, D)
  BY <1>3, <1>4, <1>5 DEF Injection, IsInjective
<1>7. IsFiniteSet(D)
  BY ThreadsAssumption, FS_Subset
<1>8. Cardinality(Present) <= Cardinality(D)
  BY <1>6, <1>7, FS_Injection
<1> QED
  BY <1>8 DEF EmptyFor

\* "returns false in the event the ring buffer is empty" (ring_buffer.h:195),
\* for any number of threads, values and positions, when isEmpty loads head_
\* before tail_: a call of dequeue that fails saw a moment at which the buffer
\* was empty, every other dequeue counted as done.
THEOREM RefusalMeansEmpty ==
  ASSUME LoadOrders \subseteq {"head"}
  PROVE  Spec => RefusedWhenEmpty
<1> DEFINE HeadFirst == \A t \in Threads : ~At(t, "load_head")
           Honest == \A t \in Threads :
             pc[t] \in {"load_head", "load_tail"} /\ Dequeuing(t) /\ pc'[t] = "idle" =>
               t \in seen \/ EmptyFor(t)
<1>1. Init => HeadFirst
  BY DEF Init, At
<1>2. FifoInv /\ HeadFirst /\ [Next]_vars => HeadFirst'
  <2> SUFFICES ASSUME FifoInv, HeadFirst, [Next]_vars, NEW u \in Threads
               PROVE  pc'[u] # "load_head"
    BY DEF At
  <2>1. pc[u] # "load_head" /\ TypeOK
    BY DEF At, FifoInv, IInv
  <2>2. CASE UNCHANGED vars
    BY <2>1, <2>2 DEF vars
  <2>3. ASSUME NEW t \in Threads, Step(t), u # t
        PROVE  pc'[u] # "load_head"
    BY <2>1, <2>3, OnlyItself DEF OnlyMoves
  <2>4. ASSUME Step(u) PROVE pc'[u] # "load_head"
    <3>1. CASE LoadCounter(u)
      BY <2>1, <3>1 DEF LoadCounter, Goto, TypeOK
    <3>2. CASE CallEnqueue(u) \/ CallDequeue(u) \/ Ticket(u) \/ GetHead(u) \/ Mark(u) \/ Reopen(u)
      BY <2>1, <3>2 DEF CallEnqueue, CallDequeue, Ticket, GetHead, Mark, Reopen, Goto, TypeOK
    <3>3. CASE LoadOther(u)
      BY <2>1, <3>3 DEF LoadOther, Leave, Goto, TypeOK
    <3>4. CASE Read(u)
      BY <2>1, <3>4 DEF Read, GiveUp, Goto, TypeOK
    <3>5. CASE Backoff(u) \/ Skip(u)
      BY <2>1, <3>5 DEF Backoff, Skip, GiveUp, Again, Goto, TypeOK
    <3>6. CASE Put(u) \/ Take(u)
      BY <2>1, <3>6 DEF Put, Take, Leave, Again, Goto, TypeOK
    <3> QED
      BY <2>4, <3>1, <3>2, <3>3, <3>4, <3>5, <3>6 DEF Step
  <2> QED
    BY <2>2, <2>3, <2>4 DEF Next
<1>3. FifoInv /\ HeadFirst /\ [Next]_vars => [Honest]_vars
  <2> SUFFICES ASSUME FifoInv, HeadFirst, Next, NEW t \in Threads,
                      pc[t] \in {"load_head", "load_tail"}, Dequeuing(t), pc'[t] = "idle"
               PROVE  EmptyFor(t)
    OBVIOUS
  <2>1. At(t, "load_tail") /\ TypeOK /\ Shape(t)
    BY DEF At, FifoInv, IInv, Local
  <2>2. PICK u \in Threads : Step(u)
    BY DEF Next
  <2>3. u = t
    BY <2>1, <2>2, OnlyItself DEF OnlyMoves, At
  <2>4. LoadOther(t)
    BY <2>1, <2>2, <2>3 DEF Step, At, CallEnqueue, CallDequeue, LoadCounter, Ticket, Read, Backoff, Put, Take,
       Mark, GetHead, Reopen, Skip
  <2>5. Refused(t)
    BY <2>1, <2>4 DEF LoadOther, Goto, TypeOK
  <2>6. tail_ - count[t] <= 0
    BY <2>1, <2>5 DEF Refused, IsEmpty, Enqueuing, Dequeuing
  <2>7. count[t] <= head_
    BY <2>1 DEF FifoInv, FInv, Above, HeadWas
  <2>8. tail_ <= head_
    BY <2>1, <2>6, <2>7 DEF TypeOK
  <2>9. seqid[t] = NoTicket
    BY <2>1 DEF Shape, Working, At
  <2> QED
    BY <2>8, <2>9, TakersEnough DEF FifoInv
<1>4. Spec => [][Honest]_vars
  BY <1>1, <1>2, <1>3, FifoInvariance, PTL DEF Spec
<1> QED
  BY <1>4 DEF RefusedWhenEmpty, Honest
=============================================================================
