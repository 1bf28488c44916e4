---------------------------- MODULE MRLockProofs ----------------------------
(***************************************************************************)
(* Of MRLock, for every number of threads, resources, cells and positions: *)
(* type correctness; and, until Lock has been called CellCount + 2 times,  *)
(* that requests which share a resource are granted first come, first      *)
(* served, and never at the same time.  The run mrlock_exclusion shows     *)
(* that the next call may break both.                                      *)
(*                                                                         *)
(* Until then the positions given out are at most CellCount + 1, counted   *)
(* from where the queue was: each cell holds one request, but the first    *)
(* holds two.  Unlock takes a cell off that it has seen empty, so released *)
(* (Knows), as long as it was not filled again in between; only the        *)
(* first one is, and whoever gets it is the last.                          *)
(***************************************************************************)
EXTENDS MRLock, SequenceTheorems, FiniteSetTheorems, TLAPS

------------------------------------------------------------------------------
(* Lists                                                                   *)

(* Where the elements of two lists are in the two put together.            *)
LEMMA ConcatIndices ==
  ASSUME NEW S, NEW a \in Seq(S), NEW b \in Seq(S)
  PROVE  /\ a \o b \in Seq(S)
         /\ Len(a \o b) = Len(a) + Len(b)
         /\ \A k \in 1 .. Len(a) : (a \o b)[k] = a[k]
         /\ \A k \in (Len(a) + 1) .. (Len(a) + Len(b)) : (a \o b)[k] = b[k - Len(a)]
  OBVIOUS

(* RemoveAt leaves what was below the position and moves down what was above. *)
LEMMA RemoveAtIndices ==
  ASSUME NEW S, NEW q \in Seq(S), NEW i \in 1 .. Len(q)
  PROVE  /\ RemoveAt(q, i) \in Seq(S)
         /\ Len(RemoveAt(q, i)) = Len(q) - 1
         /\ \A k \in 1 .. (Len(q) - 1) :
              RemoveAt(q, i)[k] = IF k < i THEN q[k] ELSE q[k + 1]
  <1> DEFINE l == SubSeq(q, 1, i - 1)
             r == SubSeq(q, i + 1, Len(q))
  <1>0. Len(q) \in Nat
    OBVIOUS
  <1>1. l \in Seq(S) /\ Len(l) = i - 1 /\ \A k \in 1 .. (i - 1) : l[k] = q[k]
    OBVIOUS
  <1>2. r \in Seq(S) /\ Len(r) = Len(q) - i /\ \A k \in 1 .. (Len(q) - i) : r[k] = q[i + k]
    OBVIOUS
  <1>3. RemoveAt(q, i) = l \o r
    BY DEF RemoveAt
  <1> HIDE DEF l, r
  <1>4. /\ l \o r \in Seq(S) /\ Len(l \o r) = Len(l) + Len(r)
        /\ \A k \in 1 .. Len(l) : (l \o r)[k] = l[k]
        /\ \A k \in (Len(l) + 1) .. (Len(l) + Len(r)) : (l \o r)[k] = r[k - Len(l)]
    <2>1. l \in Seq(S) /\ r \in Seq(S)
      BY <1>1, <1>2
    <2> QED
      BY <2>1, ConcatIndices
  <1>5. Len(l \o r) = Len(q) - 1
    BY <1>0, <1>1, <1>2, <1>4
  <1>6. ASSUME NEW k \in 1 .. (Len(q) - 1)
        PROVE  (l \o r)[k] = IF k < i THEN q[k] ELSE q[k + 1]
    <2>1. CASE k \in 1 .. (i - 1)
      BY <2>1, <1>0, <1>1, <1>4
    <2>2. CASE k \in i .. (Len(q) - 1)
      <3>1. (l \o r)[k] = r[k - (i - 1)]
        BY <2>2, <1>0, <1>1, <1>2, <1>4
      <3>2. k - (i - 1) \in 1 .. (Len(q) - i)
        BY <2>2, <1>0
      <3>3. r[k - (i - 1)] = q[i + (k - (i - 1))]
        BY <3>2, <1>2
      <3> QED
        BY <2>2, <3>1, <3>3, <1>0
    <2>3. k \in 1 .. (i - 1) \/ k \in i .. (Len(q) - 1)
      BY <1>0
    <2> QED
      BY <2>1, <2>2, <2>3
  <1> QED
    BY <1>3, <1>4, <1>5, <1>6

\* How far a position is from start.
Off(start, p) == Less(p, start)

-----------------------------------------------------------------------------
(* Arithmetic of positions                                                 *)

LEMMA CellCountFacts ==
  /\ CellCount \in Nat /\ CellCount >= 2 /\ CellCount \in Nat \ {0} /\ Mask = CellCount - 1
  /\ Word \in Nat /\ Word \in Nat \ {0} /\ Word >= 2 * CellCount
BY CellCountAssumption, WordAssumption DEF Mask

\* The remainder is the number below m that a differs from by a multiple of m.
LEMMA ModIs ==
  ASSUME NEW m \in Nat \ {0}, NEW a \in Int, NEW q \in Int, NEW r \in 0 .. m - 1, a = m * q + r
  PROVE  a % m = r
<1> DEFINE d == a \div m
           e == a % m
<1>1. a = (m * d) + e /\ d \in Int /\ e \in 0 .. m - 1
  BY SMT
<1> HIDE DEF d, e
<1>2. ~(d > q)
  <2> SUFFICES ASSUME d >= q + 1 PROVE FALSE
    BY <1>1
  <2>1. m * d >= m * (q + 1)
    BY <1>1, SMT
  <2>2. m * (q + 1) = (m * q) + m
    BY <1>1, SMT
  <2> QED
    BY <1>1, <2>1, <2>2, SMT
<1>3. ~(q > d)
  <2> SUFFICES ASSUME q >= d + 1 PROVE FALSE
    BY <1>1
  <2>1. m * q >= m * (d + 1)
    BY <1>1, SMT
  <2>2. m * (d + 1) = (m * d) + m
    BY <1>1, SMT
  <2> QED
    BY <1>1, <2>1, <2>2, SMT
<1>4. d = q
  BY <1>1, <1>2, <1>3
<1>5. e = r
  BY <1>1, <1>4, SMT
<1> QED
  BY <1>5 DEF e

LEMMA PlusIs ==
  ASSUME NEW p \in Positions, NEW n \in 0 .. Word
  PROVE  /\ Plus(p, n) \in Positions
         /\ Plus(p, n) = IF p + n < Word THEN p + n ELSE p + n - Word
<1>1. p + n \in Int /\ p + n >= 0 /\ p + n < 2 * Word /\ 0 \in Int /\ 1 \in Int /\ p \in Int /\ n \in Int
  BY CellCountFacts DEF Positions
<1>2. CASE p + n < Word
  <2>1. p + n \in 0 .. Word - 1 /\ p + n = Word * 0 + (p + n)
    BY <1>1, <1>2, CellCountFacts
  <2>2. (p + n) % Word = p + n
    BY <1>1, <2>1, CellCountFacts, ModIs
  <2> QED
    BY <1>2, <2>1, <2>2 DEF Plus, Positions
<1>3. CASE ~(p + n < Word)
  <2>1. p + n - Word \in 0 .. Word - 1 /\ p + n = Word * 1 + (p + n - Word)
    <3>1. Word * 1 = Word
      BY CellCountFacts
    <3> QED
      BY <1>1, <1>3, <3>1, CellCountFacts
  <2>2. (p + n) % Word = p + n - Word
    BY <1>1, <2>1, CellCountFacts, ModIs
  <2> QED
    BY <1>3, <2>1, <2>2 DEF Plus, Positions
<1> QED
  BY <1>2, <1>3

LEMMA LessIs ==
  ASSUME NEW p \in Positions, NEW q \in Positions
  PROVE  /\ Less(p, q) \in 0 .. Word - 1
         /\ Less(p, q) = IF p >= q THEN p - q ELSE p - q + Word
<1>1. p - q \in Int /\ p \in Int /\ q \in Int /\ 0 \in Int /\ -1 \in Int
  BY CellCountFacts DEF Positions
<1>2. CASE p >= q
  <2>1. p - q \in 0 .. Word - 1 /\ p - q = Word * 0 + (p - q)
    BY <1>1, <1>2, CellCountFacts DEF Positions
  <2>2. (p - q) % Word = p - q
    BY <1>1, <2>1, CellCountFacts, ModIs
  <2> QED
    BY <1>2, <2>1, <2>2 DEF Less
<1>3. CASE ~(p >= q)
  <2>1. p - q + Word \in 0 .. Word - 1 /\ p - q = Word * (-1) + (p - q + Word)
    BY <1>1, <1>3, CellCountFacts DEF Positions
  <2>2. (p - q) % Word = p - q + Word
    BY <1>1, <2>1, CellCountFacts, ModIs
  <2> QED
    BY <1>3, <2>1, <2>2 DEF Less
<1> QED
  BY <1>2, <1>3

LEMMA CellInRange == \A p \in Positions : CellOf(p) \in Cells
  BY CellCountFacts, SMT DEF Positions, CellOf, Cells

LEMMA OffFacts ==
  ASSUME NEW start \in Positions, NEW p \in Positions
  PROVE  /\ Off(start, p) \in Nat /\ Off(start, p) < Word
         /\ Off(start, p) = 0 <=> p = start
         /\ \A q \in Positions : Off(start, p) = Off(start, q) => p = q
<1>1. Off(start, p) \in 0 .. Word - 1 /\ Off(start, p) = IF p >= start THEN p - start ELSE p - start + Word
  BY LessIs DEF Off
<1>2. \A q \in Positions : Off(start, q) = IF q >= start THEN q - start ELSE q - start + Word
  BY LessIs DEF Off
<1> QED
  BY <1>1, <1>2, CellCountFacts DEF Positions

LEMMA OffPlus ==
  ASSUME NEW start \in Positions, NEW p \in Positions, NEW n \in 0 .. Word
  PROVE  /\ Plus(p, n) \in Positions
         /\ Off(start, Plus(p, n)) =
              IF Off(start, p) + n < Word THEN Off(start, p) + n ELSE Off(start, p) + n - Word
<1>1. Plus(p, n) \in Positions /\ Plus(p, n) = IF p + n < Word THEN p + n ELSE p + n - Word
  BY PlusIs
<1>2. \A q \in Positions : Off(start, q) = IF q >= start THEN q - start ELSE q - start + Word
  BY LessIs DEF Off
<1> QED
  BY <1>1, <1>2, CellCountFacts DEF Positions

LEMMA OffLess ==
  ASSUME NEW start \in Positions, NEW p \in Positions, NEW q \in Positions,
         Off(start, q) <= Off(start, p)
  PROVE  Less(p, q) = Off(start, p) - Off(start, q)
<1>1. \A a, b \in Positions : Less(a, b) = IF a >= b THEN a - b ELSE a - b + Word
  BY LessIs
<1> QED
  BY <1>1, CellCountFacts DEF Off, Positions

\* Two positions share a cell when they are laps apart.
LEMMA SameCell ==
  ASSUME NEW start \in Positions, NEW p \in Positions, NEW q \in Positions,
         Off(start, p) < CellCount, Off(start, q) <= CellCount + 1
  PROVE  CellOf(q) = CellOf(p) <=> q = p \/ Off(start, q) = Off(start, p) + CellCount
<1> DEFINE a == p \div CellCount
           b == q \div CellCount
           w == Word \div CellCount
           x == Off(start, p)
           y == Off(start, q)
<1>1. /\ p = (CellCount * a) + CellOf(p) /\ q = (CellCount * b) + CellOf(q)
      /\ a \in Int /\ b \in Int /\ p \in Int /\ q \in Int
      /\ CellOf(p) \in 0 .. CellCount - 1 /\ CellOf(q) \in 0 .. CellCount - 1
  BY CellCountFacts, SMT DEF CellOf, Positions
<1>2. Word = CellCount * w /\ w \in Int
  BY CellCountFacts, WordAssumption, SMT
<1>3. /\ x = (IF p >= start THEN p - start ELSE p - start + Word)
      /\ y = (IF q >= start THEN q - start ELSE q - start + Word)
      /\ x \in Nat /\ y \in Nat /\ start \in Int
      /\ x < CellCount /\ y <= CellCount + 1
  BY LessIs, OffFacts DEF Off, Positions
<1>4. PICK k \in {-1, 0, 1} : y - x = q - p + (Word * k)
  BY <1>1, <1>3, CellCountFacts
<1> DEFINE d == b - a + (w * k)
<1>5. y - x = (CellCount * d) + (CellOf(q) - CellOf(p)) /\ d \in Int
  <2>1. CellCount * d = (CellCount * b) - (CellCount * a) + ((CellCount * w) * k)
    BY <1>1, <1>2, <1>4, CellCountFacts, SMT
  <2>2. d \in Int /\ CellCount * d \in Int /\ CellCount * a \in Int /\ CellCount * b \in Int
    BY <1>1, <1>2, <1>4, CellCountFacts, SMT
  <2>3. Word * k = (CellCount * w) * k /\ Word * k \in Int
    BY <1>2, CellCountFacts
  <2> HIDE DEF d, a, b, w, x, y
  <2>4. q - p = (CellCount * b) - (CellCount * a) + (CellOf(q) - CellOf(p))
    BY <1>1, <2>2
  <2> QED
    BY <1>1, <1>3, <1>4, <2>1, <2>2, <2>3, <2>4
<1> HIDE DEF d, a, b, w, x, y
<1>0. CellCount * d \in Int /\ CellOf(p) \in Int /\ CellOf(q) \in Int
  BY <1>1, <1>5, CellCountFacts
<1>6. ASSUME CellOf(q) = CellOf(p)
      PROVE  q = p \/ y = x + CellCount
  <2>1. y - x = CellCount * d
    BY <1>0, <1>1, <1>3, <1>5, <1>6
  <2>2. d >= 0
    <3> SUFFICES ASSUME d <= -1 PROVE FALSE
      BY <1>5
    <3>1. CellCount * d <= CellCount * (-1)
      BY <1>5, CellCountFacts, SMT
    <3> QED
      BY <1>3, <2>1, <3>1, CellCountFacts
  <2>3. d <= 1
    <3> SUFFICES ASSUME d >= 2 PROVE FALSE
      BY <1>5
    <3>1. CellCount * d >= CellCount * 2
      BY <1>5, CellCountFacts, SMT
    <3> QED
      BY <1>3, <2>1, <3>1, CellCountFacts
  <2>4. d = 0 \/ d = 1
    BY <1>5, <2>2, <2>3
  <2>5. y = x \/ y = x + CellCount
    BY <1>3, <2>1, <2>4, CellCountFacts
  <2> QED
    BY <2>5, OffFacts DEF x, y
<1>7. ASSUME y = x + CellCount
      PROVE  CellOf(q) = CellOf(p)
  <2>1. CellCount * 1 = (CellCount * d) + (CellOf(q) - CellOf(p))
    BY <1>0, <1>1, <1>3, <1>5, <1>7, CellCountFacts
  <2>2. ~(d >= 2)
    <3> SUFFICES ASSUME d >= 2 PROVE FALSE
      OBVIOUS
    <3>1. CellCount * d >= CellCount * 2
      BY <1>5, CellCountFacts, SMT
    <3> QED
      BY <1>0, <1>1, <2>1, <3>1, CellCountFacts
  <2>3. ~(d <= 0)
    <3> SUFFICES ASSUME d <= 0 PROVE FALSE
      OBVIOUS
    <3>1. CellCount * d <= CellCount * 0
      BY <1>5, CellCountFacts, SMT
    <3> QED
      BY <1>0, <1>1, <2>1, <3>1, CellCountFacts
  <2>4. d = 1
    BY <1>5, <2>2, <2>3
  <2> QED
    BY <1>1, <2>1, <2>4, CellCountFacts
<1> QED
  BY <1>6, <1>7 DEF x, y
-----------------------------------------------------------------------------
(* Types                                                                   *)

LEMMA InitTypeOK == Init => TypeOK
<1> SUFFICES ASSUME NEW start \in Positions, InitAt(start) PROVE TypeOK
  BY StartsAssumption DEF Init
<1>1. \A c \in Cells : Plus(start, (c - start) % CellCount) \in Positions
  <2> SUFFICES ASSUME NEW c \in Cells PROVE Plus(start, (c - start) % CellCount) \in Positions
    OBVIOUS
  <2>1. (c - start) % CellCount \in 0 .. CellCount - 1
    BY CellCountFacts, SMT DEF Cells, Positions
  <2> QED
    BY <2>1, CellCountFacts, PlusIs
<1>2. 0 \in Positions /\ <<>> \in Seq(Threads) /\ 0 \in 0 .. MaxLocks
  BY CellCountFacts, MaxLocksAssumption DEF Positions
<1> QED
  BY <1>1, <1>2 DEF InitAt, TypeOK, InitialBits

LEMMA StepTypeOK ==
  ASSUME TypeOK, NEW t \in Threads, CallLock(t) \/ Lock(t) \/ Unlock(t)
  PROVE  TypeOK'
<1>a. 1 \in 0 .. Word /\ Mask + 1 \in 0 .. Word
  BY CellCountFacts
<1>b. calls \in 0 .. MaxLocks /\ (calls < MaxLocks => calls + 1 \in 0 .. MaxLocks)
  <2>1. calls \in 0 .. MaxLocks
    BY DEF TypeOK
  <2> QED
    BY <2>1, MaxLocksAssumption
<1>c. \A i \in DOMAIN queue : RemoveAt(queue, i) \in Seq(Threads)
  <2>1. queue \in Seq(Threads)
    BY DEF TypeOK
  <2>2. DOMAIN queue = 1 .. Len(queue)
    BY <2>1
  <2> QED
    BY <2>1, <2>2, RemoveAtIndices
<1>d. Append(queue, t) \in Seq(Threads)
  <2>1. queue \in Seq(Threads)
    BY DEF TypeOK
  <2> QED
    BY <2>1
<1> USE DEF TypeOK, Locking, Unlocking, Goes, lockVars, ticketVars
<1>0. /\ \A p \in Positions : CellOf(p) \in Cells /\ Plus(p, 1) \in Positions /\ NextLap(p) \in Positions
      /\ Resources \in SUBSET Resources /\ {} \in SUBSET Resources
      /\ resources[t] \in SUBSET Resources
      /\ pos[t] \in Positions /\ handle[t] \in Positions /\ spinPos[t] \in Positions
  <2>1. \A p \in Positions : CellOf(p) \in Cells /\ Plus(p, 1) \in Positions /\ NextLap(p) \in Positions
    BY <1>a, CellInRange, PlusIs DEF NextLap
  <2> QED
    BY <2>1, RequestsAssumption
<1>1. CASE CallLock(t)
  BY <1>b, <1>1 DEF CallLock
<1>2. CASE LoadTail(t) \/ LoadSequence(t) \/ TakeFails(t)
  BY <1>2 DEF LoadTail, LoadSequence, TakeFails
<1>3. CASE Take(t)
  <2>1. m_tail' \in Positions /\ handle' \in [Threads -> Positions] /\ queue' \in Seq(Threads)
    BY <1>0, <1>d, <1>3 DEF Take
  <2> QED
    BY <1>3, <2>1 DEF Take
<1>4. CASE WriteBits(t) \/ Publish(t)
  <2>1. CASE WriteBits(t)
    <3>1. m_bits' \in [Cells -> SUBSET Resources]
      BY <1>0, <2>1 DEF WriteBits
    <3> QED
      BY <2>1, <3>1 DEF WriteBits
  <2>2. CASE Publish(t)
    <3>1. m_sequence' \in [Cells -> Positions]
      BY <1>0, <2>2 DEF Publish
    <3> QED
      BY <2>2, <3>1 DEF Publish
  <2> QED
    BY <1>4, <2>1, <2>2
<1>5. CASE LoadHead(t)
  BY <1>5 DEF LoadHead, Waits
<1>6. CASE SeeSequence(t)
  BY <1>0, <1>6 DEF SeeSequence, Moves, Waits
<1>7. CASE SeeBits(t)
  BY <1>0, <1>7 DEF SeeBits, Moves, Waits
<1>8. CASE Release(t)
  BY <1>0, <1>c, <1>8 DEF Release
<1>9. CASE FirstCell(t) \/ Empty(t) \/ Used(t) \/ TakeOffFails(t)
  BY <1>9 DEF FirstCell, Empty, Used, TakeOffFails
<1>10. CASE TakeOff(t) \/ Fill(t) \/ Recycle(t)
  <2>1. CASE TakeOff(t)
    BY <1>0, <2>1 DEF TakeOff
  <2>2. CASE Fill(t)
    <3>1. m_bits' \in [Cells -> SUBSET Resources]
      BY <1>0, <2>2 DEF Fill, FreeBits
    <3> QED
      BY <2>2, <3>1 DEF Fill
  <2>3. CASE Recycle(t)
    <3>1. m_sequence' \in [Cells -> Positions]
      BY <1>0, <2>3 DEF Recycle
    <3> QED
      BY <2>3, <3>1 DEF Recycle
  <2> QED
    BY <1>10, <2>1, <2>2, <2>3
<1> QED
  BY <1>1, <1>2, <1>3, <1>4, <1>5, <1>6, <1>7, <1>8, <1>9, <1>10 DEF Lock, Unlock

LEMMA NextTypeOK == TypeOK /\ [Next]_vars => TypeOK'
<1>1. TypeOK /\ UNCHANGED vars => TypeOK'
  BY DEF TypeOK, vars
<1> QED
  BY <1>1, StepTypeOK DEF Next, Finished

\* Every variable keeps its type, for any number of threads, resources and
\* cells: positions and sequences stay words, also when they wrap.
THEOREM TypeCorrect == Spec => []TypeOK
  BY InitTypeOK, NextTypeOK, PTL DEF Spec
-----------------------------------------------------------------------------
(* The first lap                                                           *)

Asking == {"load tail", "load sequence", "take"}
Owning == {"write bits", "publish", "load head", "see sequence", "see bits", "held"}

Askers == {t \in Threads : at[t] \in Asking}
Owns(t, p) == at[t] \in Owning /\ handle[t] = p

\* The one who got position p has begun to unlock.
Done(start, p) == Off(start, p) < Off(start, m_tail) /\ \A t \in Threads : ~Owns(t, p)

\* No thread will make the first cell of the first lap ready any more.
Lapped(start) ==
  /\ Off(start, m_head) >= 1
  /\ \A t \in Threads : at[t] \in {"fill", "recycle"} => pos[t] # start

Counted(start) ==
  /\ IsFiniteSet(Askers)
  /\ Off(start, m_tail) + Cardinality(Askers) = calls
  /\ Off(start, m_head) <= Off(start, m_tail)
  /\ Off(start, m_tail) = CellCount + 1 => Lapped(start)

\* The queue is in the order of the positions.
Queued(start) ==
  /\ \A t \in Threads : at[t] \in Owning <=> \E i \in DOMAIN queue : queue[i] = t
  /\ \A i, j \in DOMAIN queue : i < j => Off(start, handle[queue[i]]) < Off(start, handle[queue[j]])
  /\ \A t \in Threads : at[t] \in Owning => Off(start, handle[t]) < Off(start, m_tail)
  /\ \A t \in Threads : at[t] \in Asking \cup Owning => resources[t] \in Requests

\* The cells of the first lap.
CellOk(start, p) ==
  LET seq == Off(start, m_sequence[CellOf(p)])
      off == Off(start, p)
  IN
  /\ off >= Off(start, m_tail) => seq = off /\ m_bits[CellOf(p)] = Resources
  /\ \A t \in Threads : Owns(t, p) =>
       seq \in {off, off + 1} /\ m_bits[CellOf(p)] \in {Resources, resources[t]}
  /\ off >= 1 => seq \in {off, off + 1, off + CellCount}
  /\ off = 0 /\ Off(start, m_tail) <= CellCount => seq \in {0, 1, CellCount}
  /\ off = 0 /\ ~Lapped(start) => seq \in {0, 1}
  /\ off < Off(start, m_head) => Done(start, p)

CellsOk(start) == \A p \in Positions : Off(start, p) < CellCount => CellOk(start, p)

\* Nobody who got an earlier position than p and did not begin to unlock is in
\* the way of t.
Clear(start, t, p) ==
  \A u \in Threads :
    at[u] \in Owning /\ Off(start, handle[u]) < Off(start, p) => resources[u] \cap resources[t] = {}

Waiting(start, t) ==
  /\ at[t] = "held" => Clear(start, t, handle[t])
  /\ at[t] \in {"see sequence", "see bits"} =>
       \/ Clear(start, t, handle[t])
       \/ Off(start, spinPos[t]) < Off(start, handle[t]) /\ Clear(start, t, spinPos[t])

\* What a thread knows of the position it read.
Knows(start, t) ==
  LET off == Off(start, pos[t]) IN
  /\ at[t] \in {"load sequence", "take"} => off <= Off(start, m_tail)
  /\ at[t] = "take" /\ off = CellCount => Lapped(start)
  /\ at[t] \in {"empty?", "used?", "take off"} => off <= Off(start, m_head)
  /\ at[t] \in {"used?", "take off"} /\ off < CellCount => Done(start, pos[t])
  /\ at[t] = "take off" => off <= CellCount /\ off < Off(start, m_tail)
  /\ at[t] \in {"fill", "recycle"} =>
       /\ off <= CellCount /\ off < Off(start, m_head)
       /\ \A u \in Threads \ {t} : at[u] \in {"fill", "recycle"} => pos[u] # pos[t]

FirstLap(start) ==
  /\ Counted(start) /\ Queued(start) /\ CellsOk(start)
  /\ \A t \in Threads : Waiting(start, t) /\ Knows(start, t)

LapInv == calls <= CellCount + 1 => \E start \in Positions : FirstLap(start)

\* A cell that nobody took yet waits for the first position that falls on it.
LEMMA ReadyCell ==
  ASSUME NEW start \in Positions, NEW p \in Positions, Off(start, p) < CellCount
  PROVE  Plus(start, (CellOf(p) - start) % CellCount) = p
<1> DEFINE a == p \div CellCount
           w == Word \div CellCount
           x == Off(start, p)
<1>1. /\ p = (CellCount * a) + CellOf(p) /\ a \in Int /\ p \in Int
      /\ CellOf(p) \in 0 .. CellCount - 1
  BY CellCountFacts, SMT DEF CellOf, Positions
<1>2. Word = CellCount * w /\ w \in Int
  BY CellCountFacts, WordAssumption, SMT
<1>3. /\ x = (IF p >= start THEN p - start ELSE p - start + Word)
      /\ x \in Nat /\ start \in Int /\ x \in 0 .. CellCount - 1 /\ x \in 0 .. Word
  <2>1. x = (IF p >= start THEN p - start ELSE p - start + Word)
    BY LessIs DEF Off
  <2>2. x \in Nat /\ x < CellCount
    BY OffFacts
  <2> HIDE DEF x
  <2> QED
    BY <2>1, <2>2, CellCountFacts DEF Positions
<1>4. PICK k \in {0, 1} : p - start = x - (Word * k)
  BY <1>1, <1>3, CellCountFacts
<1> DEFINE q == 0 - (a + (w * k))
<1>5. q \in Int /\ CellOf(p) - start \in Int /\ CellOf(p) - start = (CellCount * q) + x
  <2>1. CellCount * q = 0 - (CellCount * a) - ((CellCount * w) * k) /\ q \in Int
    BY <1>1, <1>2, <1>4, CellCountFacts, SMT
  <2> HIDE DEF q, a, w, x
  <2>2. Word * k = (CellCount * w) * k /\ Word * k \in Int /\ CellCount * a \in Int /\ CellCount * q \in Int
    <3>1. Word * k = (CellCount * w) * k
      BY <1>2
    <3> QED
      BY <1>1, <1>4, <2>1, <3>1, CellCountFacts
  <2> QED
    BY <1>1, <1>3, <1>4, <2>1, <2>2
<1> HIDE DEF q, a, w, x
<1>6. (CellOf(p) - start) % CellCount = x
  BY <1>3, <1>5, ModIs, CellCountFacts
<1>7. Plus(start, x) = IF start + x < Word THEN start + x ELSE start + x - Word
  BY <1>3, PlusIs
<1> QED
  BY <1>1, <1>3, <1>6, <1>7, CellCountFacts DEF Positions

LEMMA InitLap ==
  ASSUME NEW start \in Positions, InitAt(start)
  PROVE  FirstLap(start)
<1>1. Off(start, start) = 0 /\ 0 \in Int /\ CellCount \in Int /\ CellCount >= 2
  BY OffFacts, CellCountFacts
<1>2. Counted(start)
  <2>1. Askers = {}
    BY DEF InitAt, Askers, Asking
  <2>2. IsFiniteSet(Askers) /\ Cardinality(Askers) = 0
    BY <2>1, FS_EmptySet
  <2> QED
    BY <1>1, <2>2 DEF InitAt, Counted
<1>3. Queued(start)
  BY <1>1 DEF InitAt, Queued, Owning, Asking
<1>4. CellsOk(start)
  <2> SUFFICES ASSUME NEW p \in Positions, Off(start, p) < CellCount PROVE CellOk(start, p)
    BY DEF CellsOk
  <2>1. CellOf(p) \in Cells /\ m_sequence[CellOf(p)] = p /\ m_bits[CellOf(p)] = Resources
    BY CellInRange, ReadyCell DEF InitAt, InitialBits
  <2>2. Off(start, p) \in Nat /\ Off(start, m_tail) = 0 /\ Off(start, m_head) = 0
    BY <1>1, OffFacts DEF InitAt
  <2>3. \A t \in Threads : ~Owns(t, p)
    BY DEF InitAt, Owns, Owning
  <2> QED
    BY <1>1, <2>1, <2>2, <2>3 DEF CellOk
<1>5. \A t \in Threads : Waiting(start, t) /\ Knows(start, t)
  BY DEF InitAt, Waiting, Knows
<1> QED
  BY <1>2, <1>3, <1>4, <1>5 DEF FirstLap

-----------------------------------------------------------------------------
(* What a step leaves of the first lap                                     *)

\* Positions in the first lap and the two after it are not wrapped around.
LEMMA LapFacts ==
  ASSUME TypeOK, NEW start \in Positions, FirstLap(start), calls <= CellCount + 1
  PROVE  /\ Off(start, m_head) \in Nat /\ Off(start, m_tail) \in Nat
         /\ Off(start, m_head) <= Off(start, m_tail)
         /\ Off(start, m_tail) <= CellCount + 1
         /\ \A t \in Threads : at[t] \in Asking => Off(start, m_tail) <= CellCount
         /\ \A t \in Threads : /\ Off(start, pos[t]) \in Nat /\ Off(start, handle[t]) \in Nat
                               /\ Off(start, spinPos[t]) \in Nat
         /\ \A t \in Threads : at[t] \in Owning =>
              Off(start, handle[t]) < Off(start, m_tail) /\ Off(start, handle[t]) <= CellCount
<1>1. /\ m_head \in Positions /\ m_tail \in Positions /\ calls \in Nat
      /\ \A t \in Threads : pos[t] \in Positions /\ handle[t] \in Positions /\ spinPos[t] \in Positions
  <2>1. calls \in 0 .. MaxLocks
    BY DEF TypeOK
  <2>2. calls \in Nat
    BY <2>1, MaxLocksAssumption
  <2> QED
    BY <2>2 DEF TypeOK
<1>2. Off(start, m_head) \in Nat /\ Off(start, m_tail) \in Nat
  BY <1>1, OffFacts
<1>3. Cardinality(Askers) \in Nat /\ \A t \in Askers : Cardinality(Askers) >= 1
  <2>1. IsFiniteSet(Askers)
    BY DEF FirstLap, Counted
  <2>2. Cardinality(Askers) \in Nat /\ (Cardinality(Askers) = 0 <=> Askers = {})
    BY <2>1, FS_CardinalityType, FS_EmptySet
  <2> QED
    BY <2>2
<1>4. /\ Off(start, m_tail) + Cardinality(Askers) = calls
      /\ Off(start, m_head) <= Off(start, m_tail)
  BY DEF FirstLap, Counted
<1>5. Off(start, m_tail) <= CellCount + 1
  BY <1>1, <1>2, <1>3, <1>4, CellCountFacts
<1>6. ASSUME NEW t \in Threads, at[t] \in Asking
      PROVE  Off(start, m_tail) <= CellCount
  <2>1. Cardinality(Askers) >= 1
    BY <1>3, <1>6 DEF Askers
  <2> QED
    BY <1>1, <1>2, <1>3, <1>4, <2>1, CellCountFacts
<1>7. \A t \in Threads : /\ Off(start, pos[t]) \in Nat /\ Off(start, handle[t]) \in Nat
                         /\ Off(start, spinPos[t]) \in Nat
  BY <1>1, OffFacts
<1>8. \A t \in Threads : at[t] \in Owning => Off(start, handle[t]) < Off(start, m_tail)
  BY DEF FirstLap, Queued
<1>9. \A t \in Threads : at[t] \in Owning => Off(start, handle[t]) <= CellCount
  BY <1>2, <1>5, <1>7, <1>8, CellCountFacts
<1> QED
  BY <1>2, <1>4, <1>5, <1>6, <1>7, <1>8, <1>9

\* The queue holds the positions in use, and each is used once.
LEMMA OwnerUnique ==
  ASSUME NEW start, Queued(start), NEW p, NEW t \in Threads, NEW u \in Threads, Owns(t, p), Owns(u, p),
         queue \in Seq(Threads), Off(start, p) \in Nat
  PROVE  t = u
<1>1. PICK i \in DOMAIN queue : queue[i] = t
  BY DEF Queued, Owns
<1>2. PICK j \in DOMAIN queue : queue[j] = u
  BY DEF Queued, Owns
<1>3. i \in Nat /\ j \in Nat
  BY <1>1, <1>2
<1>4. ~(i < j) /\ ~(j < i)
  BY <1>1, <1>2 DEF Queued, Owns
<1>5. i = j
  BY <1>3, <1>4
<1> QED
  BY <1>1, <1>2, <1>5

Filling == {"fill", "recycle"}

\* What a step of thread t may do to what the others rely on: a position it
\* gets is the next one, a cell it takes off is the first one.
Orderly(start, t) ==
  /\ \A u \in Threads \ {t} :
       /\ at'[u] = at[u] /\ pos'[u] = pos[u] /\ handle'[u] = handle[u]
       /\ spinPos'[u] = spinPos[u] /\ resources'[u] = resources[u]
  /\ Off(start, m_head) <= Off(start, m_head')
  /\ Off(start, m_tail) <= Off(start, m_tail')
  /\ at'[t] \in Owning =>
       \/ at[t] \in Owning /\ handle'[t] = handle[t] /\ resources'[t] = resources[t]
       \/ handle'[t] = m_tail
  /\ at'[t] \in Filling => \/ at[t] \in Filling /\ pos'[t] = pos[t]
                           \/ pos'[t] = m_head

LEMMA OrderlyKeeps ==
  ASSUME TypeOK, TypeOK', NEW start \in Positions, FirstLap(start), calls <= CellCount + 1,
         NEW t \in Threads, Orderly(start, t)
  PROVE  /\ Lapped(start) => Lapped(start)'
         /\ \A p \in Positions : Done(start, p) => Done(start, p)'
         /\ \A p \in Positions : Off(start, p) < Off(start, m_tail) =>
              \A u \in Threads : Owns(u, p)' => Owns(u, p) /\ resources'[u] = resources[u]
         /\ \A u \in Threads \ {t} : Waiting(start, u)' /\ Knows(start, u)'
<1> DEFINE h == Off(start, m_head)
           n == Off(start, m_tail)
           hh == Off(start, m_head')
           nn == Off(start, m_tail')
<1>1. /\ h \in Nat /\ n \in Nat /\ h <= n /\ hh \in Nat /\ nn \in Nat /\ h <= hh /\ n <= nn
      /\ \A p \in Positions : Off(start, p) \in Nat
      /\ \A u \in Threads : at[u] \in Owning => Off(start, handle[u]) < n
      /\ \A u \in Threads : pos[u] \in Positions /\ handle[u] \in Positions /\ spinPos[u] \in Positions
      /\ \A u \in Threads : pos'[u] \in Positions /\ handle'[u] \in Positions
      /\ m_head \in Positions /\ m_tail \in Positions
  <2>1. m_head' \in Positions /\ m_tail' \in Positions /\ m_head \in Positions /\ m_tail \in Positions
    BY DEF TypeOK
  <2>2. hh \in Nat /\ nn \in Nat
    BY <2>1, OffFacts
  <2>3. /\ \A u \in Threads : pos[u] \in Positions /\ handle[u] \in Positions /\ spinPos[u] \in Positions
        /\ \A u \in Threads : pos'[u] \in Positions /\ handle'[u] \in Positions
    BY DEF TypeOK
  <2> QED
    BY <2>1, <2>2, <2>3, LapFacts, OffFacts DEF Orderly
<1>2. Lapped(start) => Lapped(start)'
  <2> SUFFICES ASSUME Lapped(start), NEW u \in Threads, at'[u] \in Filling, pos'[u] = start PROVE FALSE
    BY <1>1 DEF Lapped, Filling
  <2>1. h >= 1 /\ Off(start, start) = 0
    BY OffFacts DEF Lapped
  <2>2. pos'[u] = m_head \/ (at[u] \in Filling /\ pos[u] = start)
    BY DEF Orderly
  <2>3. CASE pos'[u] = m_head
    BY <1>1, <2>1, <2>3
  <2>4. CASE at[u] \in Filling /\ pos[u] = start
    BY <2>4 DEF Lapped, Filling
  <2> QED
    BY <2>2, <2>3, <2>4
<1>3. ASSUME NEW u \in Threads, at'[u] \in Owning
      PROVE  \/ at[u] \in Owning /\ handle'[u] = handle[u] /\ resources'[u] = resources[u]
             \/ handle'[u] = m_tail
  BY <1>3 DEF Orderly
<1>4. ASSUME NEW p \in Positions, Off(start, p) < n, NEW u \in Threads, Owns(u, p)'
      PROVE  Owns(u, p) /\ resources'[u] = resources[u]
  <2>1. at'[u] \in Owning /\ handle'[u] = p
    BY <1>4 DEF Owns
  <2>2. handle'[u] # m_tail
    BY <1>1, <1>4, <2>1
  <2> QED
    BY <1>3, <2>1, <2>2 DEF Owns
<1>5. \A p \in Positions : Done(start, p) => Done(start, p)'
  BY <1>1, <1>4 DEF Done
<1>6. ASSUME NEW u \in Threads \ {t}, NEW o \in Nat, o <= n,
             \A v \in Threads : at[v] \in Owning /\ Off(start, handle[v]) < o =>
                               resources[v] \cap resources[u] = {}
      PROVE  \A v \in Threads : at'[v] \in Owning /\ Off(start, handle'[v]) < o =>
                               resources'[v] \cap resources'[u] = {}
  <2> SUFFICES ASSUME NEW v \in Threads, at'[v] \in Owning, Off(start, handle'[v]) < o
               PROVE  resources'[v] \cap resources'[u] = {}
    OBVIOUS
  <2>1. handle'[v] # m_tail
    BY <1>1, <1>6
  <2>2. at[v] \in Owning /\ handle'[v] = handle[v] /\ resources'[v] = resources[v]
    BY <1>3, <2>1
  <2>3. resources'[u] = resources[u]
    BY DEF Orderly
  <2> QED
    BY <1>6, <2>2, <2>3
<1>7. ASSUME NEW u \in Threads \ {t}
      PROVE  Waiting(start, u)'
  <2>1. /\ at'[u] = at[u] /\ handle'[u] = handle[u] /\ spinPos'[u] = spinPos[u]
        /\ Off(start, handle[u]) \in Nat /\ Off(start, spinPos[u]) \in Nat
    BY <1>1 DEF Orderly
  <2>2. Waiting(start, u)
    BY DEF FirstLap
  <2>3. at[u] \in Owning => Off(start, handle[u]) <= n
    BY <1>1, <2>1
  <2>4. CASE at[u] = "held"
    <3>1. Off(start, handle[u]) <= n /\ Clear(start, u, handle[u])
      BY <2>2, <2>3, <2>4 DEF Owning, Waiting
    <3> QED
      BY <1>6, <2>1, <2>4, <3>1 DEF Waiting, Clear
  <2>5. CASE at[u] \in {"see sequence", "see bits"}
    <3>1. Off(start, handle[u]) <= n
      BY <2>3, <2>5 DEF Owning
    <3>2. CASE Clear(start, u, handle[u])
      BY <1>6, <2>1, <2>5, <3>1, <3>2 DEF Waiting, Clear
    <3>3. CASE Off(start, spinPos[u]) < Off(start, handle[u]) /\ Clear(start, u, spinPos[u])
      <4>1. Off(start, spinPos[u]) <= n
        BY <1>1, <2>1, <3>1, <3>3
      <4> QED
        BY <1>6, <2>1, <2>5, <3>3, <4>1 DEF Waiting, Clear
    <3> QED
      BY <2>2, <2>5, <3>2, <3>3 DEF Waiting
  <2>6. CASE at[u] \notin {"held", "see sequence", "see bits"}
    BY <2>1, <2>6 DEF Waiting
  <2> QED
    BY <2>4, <2>5, <2>6
<1>8. ASSUME NEW u \in Threads \ {t}
      PROVE  Knows(start, u)'
  <2> DEFINE off == Off(start, pos[u])
  <2>1. /\ at'[u] = at[u] /\ pos'[u] = pos[u] /\ pos[u] \in Positions /\ off \in Nat
    BY <1>1 DEF Orderly
  <2>2. Knows(start, u)
    BY DEF FirstLap
  <2>l. at[u] = "take" /\ off = CellCount => Lapped(start)
    BY <2>2 DEF Knows
  <2>a. /\ at[u] \in {"load sequence", "take"} => off <= n
        /\ at[u] \in {"empty?", "used?", "take off"} => off <= h
        /\ at[u] = "take off" => off <= CellCount /\ off < n
        /\ at[u] \in Filling => off <= CellCount /\ off < h
    BY <2>2 DEF Knows, Filling
  <2>b. off # h \/ at[u] \notin Filling
    <3>1. off \in Nat /\ h \in Nat
      BY <1>1, <2>1
    <3>2. at[u] \in Filling => off < h
      BY <2>a
    <3> HIDE DEF off, h
    <3> QED
      BY <3>1, <3>2
  <2>3. /\ at[u] \in {"load sequence", "take"} => off <= nn
        /\ at[u] \in {"empty?", "used?", "take off"} => off <= hh
        /\ at[u] = "take off" => off <= CellCount /\ off < nn
        /\ at[u] \in Filling => off <= CellCount /\ off < hh
    <3>1. off \in Nat /\ h \in Nat /\ n \in Nat /\ hh \in Nat /\ nn \in Nat /\ h <= hh /\ n <= nn
      BY <1>1, <2>1
    <3>2. CellCount \in Int
      BY CellCountFacts
    <3> HIDE DEF off, h, n, hh, nn
    <3>3. (off <= n => off <= nn) /\ (off <= h => off <= hh) /\ (off < n => off < nn) /\ (off < h => off < hh)
      BY <3>1
    <3> QED
      BY <3>3, <2>a, Zenon
  <2>c. at[u] = "take" /\ off = CellCount => Lapped(start)'
    BY <1>2, <2>l
  <2>4. at[u] \in {"used?", "take off"} /\ off < CellCount => Done(start, pos[u])'
    <3> SUFFICES ASSUME NEW p, p = pos[u], Done(start, p) PROVE Done(start, p)'
      BY <2>1, <2>2 DEF Knows, Done, Owns
    <3> QED
      BY <1>5, <2>1
  <2>5. ASSUME at[u] \in Filling, NEW v \in Threads \ {u}, at'[v] \in Filling
        PROVE  pos'[v] # pos[u]
    <3>1. CASE at[v] \in Filling /\ pos'[v] = pos[v]
      BY <2>2, <2>5, <3>1 DEF Knows, Filling
    <3>2. CASE v = t /\ pos'[v] = m_head
      BY <2>b, <2>5, <3>2
    <3> QED
      BY <2>5, <3>1, <3>2 DEF Orderly
  <2> HIDE DEF off, nn, hh
  <2>6. off = Off(start, pos'[u]) /\ nn = Off(start, m_tail') /\ hh = Off(start, m_head')
    BY <2>1 DEF off, nn, hh
  <2> QED
    BY <2>1, <2>c, <2>3, <2>4, <2>5, <2>6 DEF Knows, Filling
<1> QED
  BY <1>2, <1>4, <1>5, <1>7, <1>8

\* A step that leaves a cell alone leaves what is known of it.
LEMMA CellStays ==
  ASSUME NEW start, NEW p, CellOk(start, p),
         m_sequence'[CellOf(p)] = m_sequence[CellOf(p)], m_bits'[CellOf(p)] = m_bits[CellOf(p)],
         Off(start, p) \in Nat, Off(start, m_tail) \in Nat, Off(start, m_tail') \in Nat,
         Off(start, m_tail) <= Off(start, m_tail'),
         Lapped(start) => Lapped(start)',
         \A u \in Threads : Owns(u, p)' => Owns(u, p) /\ resources'[u] = resources[u],
         Off(start, p) < Off(start, m_head') => Done(start, p)'
  PROVE  CellOk(start, p)'
<1> DEFINE seq == Off(start, m_sequence[CellOf(p)])
           off == Off(start, p)
           n == Off(start, m_tail)
           nn == Off(start, m_tail')
<1>1. seq = Off(start, m_sequence'[CellOf(p)])
  OBVIOUS
<1>2. CellCount \in Int
  BY CellCountFacts
<1>3. (off >= nn => off >= n) /\ (nn <= CellCount => n <= CellCount)
  <2> HIDE DEF off, n, nn
  <2> QED
    BY <1>2 DEF off, n, nn
<1>4. /\ off >= nn => seq = off /\ m_bits'[CellOf(p)] = Resources
      /\ off >= 1 => seq \in {off, off + 1, off + CellCount}
      /\ off = 0 /\ nn <= CellCount => seq \in {0, 1, CellCount}
  <2> HIDE DEF off, n, nn, seq
  <2> QED
    BY <1>3, Zenon DEF CellOk, off, n, nn, seq
<1>5. off = 0 /\ ~Lapped(start)' => seq \in {0, 1}
  BY Zenon DEF CellOk
<1>6. \A u \in Threads : Owns(u, p)' =>
         seq \in {off, off + 1} /\ m_bits'[CellOf(p)] \in {Resources, resources'[u]}
  BY Zenon DEF CellOk
<1> HIDE DEF seq, off, n, nn
<1> QED
  BY <1>1, <1>4, <1>5, <1>6, Zenon DEF CellOk, off, seq, nn

\* The first cell, once it holds the request of the next lap.
LEMMA CellLapped ==
  ASSUME NEW start \in Positions, Off(start, m_tail') = CellCount + 1, Lapped(start)', Done(start, start)'
  PROVE  CellOk(start, start)'
<1>1. Off(start, start) = 0 /\ 0 < CellCount + 1 /\ ~(CellCount + 1 <= CellCount) /\ ~(0 >= 1)
      /\ ~(0 >= CellCount + 1)
  BY OffFacts, CellCountFacts
<1>2. \A u \in Threads : ~Owns(u, start)'
  BY DEF Done
<1> QED
  BY <1>1, <1>2 DEF CellOk

\* A thread that has a position, and did not begin to unlock, had it before.
KeepsTicket(t) ==
  at'[t] \in Owning => at[t] \in Owning /\ handle'[t] = handle[t] /\ resources'[t] = resources[t]

\* A step that changes the cell of position q alone.
LEMMA CellChanges ==
  ASSUME TypeOK, TypeOK', NEW start \in Positions, FirstLap(start), calls <= CellCount + 1,
         NEW t \in Threads, Orderly(start, t), KeepsTicket(t), m_head' = m_head, m_tail' = m_tail,
         NEW q \in Positions, Off(start, q) <= CellCount, Off(start, q) < Off(start, m_tail),
         \A c \in Cells : c # CellOf(q) => m_sequence'[c] = m_sequence[c] /\ m_bits'[c] = m_bits[c],
         Off(start, q) < CellCount => CellOk(start, q)'
  PROVE  CellsOk(start)'
<1> SUFFICES ASSUME NEW p \in Positions, Off(start, p) < CellCount
             PROVE  CellOk(start, p)'
  BY DEF CellsOk
<1>1. /\ CellOk(start, p) /\ CellOk(start, start) /\ Off(start, start) = 0
      /\ Off(start, p) \in Nat /\ Off(start, q) \in Nat /\ Off(start, m_tail) \in Nat /\ Off(start, m_head) \in Nat
      /\ Off(start, m_head) <= Off(start, m_tail) /\ Off(start, m_tail) <= CellCount + 1
  <2>1. Off(start, start) = 0 /\ Off(start, start) < CellCount
    BY OffFacts, CellCountFacts
  <2>2. CellsOk(start)
    BY DEF FirstLap
  <2> QED
    BY <2>1, <2>2, OffFacts, LapFacts DEF CellsOk
<1>2. CASE q = p
  BY <1>2
<1>3. CASE CellOf(p) # CellOf(q)
  <2>1. m_sequence'[CellOf(p)] = m_sequence[CellOf(p)] /\ m_bits'[CellOf(p)] = m_bits[CellOf(p)]
    BY <1>3, CellInRange
  <2>2. Off(start, p) < Off(start, m_head') => Done(start, p)'
    BY <1>1, OrderlyKeeps DEF CellOk
  <2>3. \A u \in Threads : Owns(u, p)' => Owns(u, p) /\ resources'[u] = resources[u]
    BY DEF Orderly, KeepsTicket, Owns
  <2> QED
    BY <1>1, <2>1, <2>2, <2>3, CellStays, OrderlyKeeps
<1>4. CASE q # p /\ CellOf(p) = CellOf(q)
  <2>1. Off(start, q) = Off(start, p) + CellCount
    BY <1>1, <1>4, SameCell, CellCountFacts
  <2>2. Off(start, p) = 0 /\ Off(start, m_tail) = CellCount + 1
    BY <1>1, <2>1, CellCountFacts
  <2>3. p = start
    BY <2>2, OffFacts
  <2>4. Lapped(start)
    BY <2>2 DEF FirstLap, Counted
  <2>5. Off(start, start) < Off(start, m_head)
    BY <1>1, <2>4 DEF Lapped
  <2>6. Done(start, start)
    BY <1>1, <2>5 DEF CellOk
  <2> QED
    BY <2>2, <2>3, <2>4, <2>6, CellLapped, OrderlyKeeps
<1> QED
  BY <1>2, <1>3, <1>4

-----------------------------------------------------------------------------
(* The actions                                                             *)

\* What was shown of thread t is what is left to show.
LEMMA LapStep ==
  ASSUME TypeOK, TypeOK', NEW start \in Positions, FirstLap(start), calls <= CellCount + 1,
         NEW t \in Threads, Orderly(start, t),
         Counted(start)', Queued(start)', CellsOk(start)', Waiting(start, t)', Knows(start, t)'
  PROVE  FirstLap(start)'
<1>1. \A u \in Threads : Waiting(start, u)' /\ Knows(start, u)'
  BY OrderlyKeeps
<1> QED
  BY <1>1 DEF FirstLap

\* Steps of a thread that asks for a position, waits, or unlocks, and changes
\* only what it knows itself.
LEMMA QuietStep ==
  ASSUME TypeOK, TypeOK', NEW start \in Positions, FirstLap(start), calls <= CellCount + 1,
         NEW t \in Threads, Orderly(start, t), UNCHANGED <<lockVars, ticketVars>>,
         at'[t] \in Asking <=> at[t] \in Asking,
         at'[t] \in Owning <=> at[t] \in Owning,
         Waiting(start, t)', Knows(start, t)'
  PROVE  FirstLap(start)'
<1>1. /\ Off(start, m_head') = Off(start, m_head) /\ Off(start, m_tail') = Off(start, m_tail)
      /\ m_head' = m_head /\ m_tail' = m_tail /\ m_sequence' = m_sequence /\ m_bits' = m_bits
      /\ resources' = resources /\ handle' = handle /\ queue' = queue /\ calls' = calls
  BY DEF lockVars, ticketVars
<1>2. \A u \in Threads : /\ at'[u] \in Asking <=> at[u] \in Asking
                         /\ at'[u] \in Owning <=> at[u] \in Owning
  BY DEF Orderly
<1>3. Counted(start)'
  <2>1. Askers' = Askers
    BY <1>2 DEF Askers
  <2>2. Lapped(start) => Lapped(start)'
    BY OrderlyKeeps
  <2> QED
    BY <1>1, <2>1, <2>2 DEF FirstLap, Counted
<1>4. Queued(start)'
  BY <1>1, <1>2 DEF FirstLap, Queued
<1>5. CellsOk(start)'
  <2> SUFFICES ASSUME NEW p \in Positions, Off(start, p) < CellCount
               PROVE  CellOk(start, p)'
    BY DEF CellsOk
  <2>1. CellOk(start, p)
    BY DEF FirstLap, CellsOk
  <2>2. \A u \in Threads : Owns(u, p)' => Owns(u, p) /\ resources'[u] = resources[u]
    BY <1>1, <1>2 DEF Owns
  <2>3. Off(start, p) < Off(start, m_head') => Done(start, p)'
    BY <1>1, <2>1, OrderlyKeeps DEF CellOk
  <2>4. Off(start, p) \in Nat /\ Off(start, m_tail) \in Nat /\ Off(start, m_tail) <= Off(start, m_tail')
    BY <1>1, OffFacts, LapFacts
  <2> QED
    BY <1>1, <2>1, <2>2, <2>3, <2>4, OrderlyKeeps, CellStays
<1> QED
  BY <1>3, <1>4, <1>5, LapStep

\* Steps that change one cell, of a position that was given out.
LEMMA CellStep ==
  ASSUME TypeOK, TypeOK', NEW start \in Positions, FirstLap(start), calls <= CellCount + 1,
         NEW t \in Threads, Orderly(start, t), KeepsTicket(t),
         UNCHANGED <<m_head, m_tail, calls>>,
         at'[t] \in Asking <=> at[t] \in Asking, Queued(start)',
         NEW q \in Positions, Off(start, q) <= CellCount, Off(start, q) < Off(start, m_tail),
         \A c \in Cells : c # CellOf(q) => m_sequence'[c] = m_sequence[c] /\ m_bits'[c] = m_bits[c],
         Off(start, q) < CellCount => CellOk(start, q)',
         Waiting(start, t)', Knows(start, t)'
  PROVE  FirstLap(start)'
<1>1. m_head' = m_head /\ m_tail' = m_tail /\ calls' = calls
  OBVIOUS
<1>2. Counted(start)'
  <2>1. Askers' = Askers
    BY DEF Askers, Orderly
  <2>2. Lapped(start) => Lapped(start)'
    BY OrderlyKeeps
  <2> QED
    BY <1>1, <2>1, <2>2 DEF FirstLap, Counted
<1>3. CellsOk(start)'
  BY <1>1, CellChanges
<1> QED
  BY <1>2, <1>3, LapStep

\* A thread in a step that leaves the shared words and the tickets alone.
LEMMA QuietIsOrderly ==
  ASSUME TypeOK, NEW start \in Positions, NEW t \in Threads, UNCHANGED <<lockVars, ticketVars>>,
         at' = [at EXCEPT ![t] = at'[t]],
         \A u \in Threads \ {t} : pos'[u] = pos[u] /\ spinPos'[u] = spinPos[u],
         at'[t] \in Owning => at[t] \in Owning, at'[t] \notin Filling
  PROVE  Orderly(start, t)
<1>1. /\ m_head' = m_head /\ m_tail' = m_tail /\ resources' = resources /\ handle' = handle
      /\ \A u \in Threads \ {t} : at'[u] = at[u]
  BY DEF lockVars, ticketVars, TypeOK
<1>2. Off(start, m_head) \in Nat /\ Off(start, m_tail) \in Nat
  BY OffFacts DEF TypeOK
<1>3. Off(start, m_head) <= Off(start, m_head') /\ Off(start, m_tail) <= Off(start, m_tail')
  BY <1>1, <1>2
<1> QED
  BY <1>1, <1>3 DEF Orderly

LEMMA CallLockLap ==
  ASSUME TypeOK, TypeOK', NEW start \in Positions, FirstLap(start), calls <= CellCount + 1,
         NEW t \in Threads, CallLock(t)
  PROVE  FirstLap(start)'
<1>1. /\ m_head' = m_head /\ m_tail' = m_tail /\ m_sequence' = m_sequence /\ m_bits' = m_bits
      /\ pos' = pos /\ handle' = handle /\ spinPos' = spinPos /\ queue' = queue /\ calls' = calls + 1
      /\ at[t] = "idle" /\ at'[t] = "load tail" /\ resources'[t] \in Requests
      /\ \A u \in Threads \ {t} : at'[u] = at[u] /\ resources'[u] = resources[u]
  BY DEF CallLock, Goes, lockVars, TypeOK
<1>2. Off(start, m_head) \in Nat /\ Off(start, m_tail) \in Nat
  BY LapFacts
<1>3. Orderly(start, t)
  <2>1. Off(start, m_head) <= Off(start, m_head') /\ Off(start, m_tail) <= Off(start, m_tail')
    <3>1. m_head' = m_head /\ m_tail' = m_tail
      BY <1>1
    <3> QED
      BY <1>2, <3>1
  <2> QED
    BY <1>1, <2>1 DEF Orderly, Owning, Filling
<1>4. Counted(start)'
  <2>1. Askers' = Askers \cup {t} /\ t \notin Askers
    BY <1>1 DEF Askers, Asking
  <2>2. IsFiniteSet(Askers')/\ Cardinality(Askers') = Cardinality(Askers) + 1 /\ Cardinality(Askers) \in Nat
    BY <2>1, FS_AddElement, FS_CardinalityType DEF FirstLap, Counted
  <2>3. Off(start, m_tail) + Cardinality(Askers') = calls + 1
    <3>1. Off(start, m_tail) + Cardinality(Askers) = calls
      BY DEF FirstLap, Counted
    <3> QED
      BY <1>2, <2>2, <3>1
  <2>4. Lapped(start) => Lapped(start)'
    BY <1>3, OrderlyKeeps
  <2> QED
    BY <1>1, <2>2, <2>3, <2>4 DEF FirstLap, Counted
<1>5. Queued(start)'
  <2>1. \A u \in Threads : at'[u] \in Owning <=> at[u] \in Owning
    BY <1>1 DEF Owning
  <2>2. \A u \in Threads : at'[u] \in Asking \cup Owning => resources'[u] \in Requests
    BY <1>1 DEF FirstLap, Queued
  <2> QED
    BY <1>1, <2>1, <2>2 DEF FirstLap, Queued
<1>6. CellsOk(start)'
  <2> SUFFICES ASSUME NEW p \in Positions, Off(start, p) < CellCount
               PROVE  CellOk(start, p)'
    BY DEF CellsOk
  <2>1. CellOk(start, p)
    BY DEF FirstLap, CellsOk
  <2>2. \A u \in Threads : Owns(u, p)' => Owns(u, p) /\ resources'[u] = resources[u]
    BY <1>1 DEF Owns, Owning
  <2>3. Off(start, p) < Off(start, m_head') => Done(start, p)'
    BY <1>1, <1>3, <2>1, OrderlyKeeps DEF CellOk
  <2>4. Off(start, p) \in Nat
    BY OffFacts
  <2> QED
    BY <1>1, <1>2, <1>3, <2>1, <2>2, <2>3, <2>4, OrderlyKeeps, CellStays DEF Orderly
<1>7. Waiting(start, t)' /\ Knows(start, t)'
  BY <1>1 DEF Waiting, Knows
<1> QED
  BY <1>3, <1>4, <1>5, <1>6, <1>7, LapStep

\* What Lock reads on its way to a position.
LEMMA AskLap ==
  ASSUME TypeOK, TypeOK', NEW start \in Positions, FirstLap(start), calls <= CellCount + 1,
         NEW t \in Threads, LoadTail(t) \/ LoadSequence(t) \/ TakeFails(t)
  PROVE  FirstLap(start)'
<1>1. /\ UNCHANGED <<lockVars, ticketVars>> /\ at[t] \in Asking /\ at'[t] \in Asking
      /\ at' = [at EXCEPT ![t] = at'[t]]
      /\ \A u \in Threads \ {t} : pos'[u] = pos[u] /\ spinPos'[u] = spinPos[u]
  BY DEF LoadTail, LoadSequence, TakeFails, Goes, TypeOK, Asking
<1>2. Waiting(start, t)'
  BY <1>1 DEF Waiting, Asking
<1>3. Orderly(start, t)
  BY <1>1, QuietIsOrderly DEF Asking, Owning, Filling
<1>4. m_tail' = m_tail /\ Off(start, m_tail) \in Nat /\ Off(start, m_tail) <= CellCount
  BY <1>1, LapFacts DEF lockVars
<1>5. Knows(start, t)'
  <2>1. CASE LoadTail(t)
    <3>1. at'[t] = "load sequence" /\ pos'[t] = m_tail
      BY <2>1 DEF LoadTail, Goes, TypeOK
    <3>2. Off(start, pos'[t]) <= Off(start, m_tail')
      <4>1. pos'[t] = m_tail
        BY <3>1
      <4> QED
        BY <1>4, <4>1
    <3> QED
      BY <3>1, <3>2 DEF Knows
  <2>2. CASE LoadSequence(t) /\ at'[t] = "take"
    <3>1. at[t] = "load sequence" /\ pos'[t] = pos[t] /\ m_sequence[CellOf(pos[t])] = pos[t]
      BY <2>2 DEF LoadSequence, Goes, TypeOK
    <3>2. Off(start, pos[t]) <= Off(start, m_tail) /\ pos[t] \in Positions
      BY <3>1 DEF FirstLap, Knows, TypeOK
    <3>3. ASSUME Off(start, pos[t]) = CellCount PROVE Lapped(start)
      <4>1. Off(start, start) = 0 /\ CellCount >= 2 /\ CellCount \in Nat
        BY OffFacts, CellCountFacts
      <4>2. CellOf(pos[t]) = CellOf(start)
        BY <3>2, <3>3, <4>1, SameCell
      <4>3. CellOk(start, start)
        BY <4>1 DEF FirstLap, CellsOk
      <4>4. Off(start, m_sequence[CellOf(start)]) = CellCount
        BY <3>1, <3>3, <4>2
      <4>5. CellCount \notin {0, 1}
        BY <4>1
      <4> QED
        BY <4>1, <4>3, <4>4, <4>5 DEF CellOk
    <3>4. Off(start, pos[t]) = CellCount => Lapped(start)'
      BY <1>3, <3>3, OrderlyKeeps
    <3> QED
      BY <1>4, <2>2, <3>1, <3>2, <3>4 DEF Knows
  <2>3. CASE (LoadSequence(t) \/ TakeFails(t)) /\ at'[t] = "load tail"
    BY <2>3 DEF Knows
  <2> QED
    BY <2>1, <2>2, <2>3 DEF LoadSequence, TakeFails, Goes, TypeOK
<1> QED
  BY <1>1, <1>2, <1>3, <1>5, QuietStep DEF Asking, Owning

\* Nobody who got a position below the head is in a request's way.
LEMMA ClearBelow ==
  ASSUME TypeOK, NEW start \in Positions, FirstLap(start), calls <= CellCount + 1,
         NEW t \in Threads, NEW p \in Positions,
         Off(start, p) <= Off(start, m_head), Off(start, p) <= CellCount
  PROVE  Clear(start, t, p)
<1> SUFFICES ASSUME NEW u \in Threads, at[u] \in Owning, Off(start, handle[u]) < Off(start, p)
             PROVE  FALSE
  BY DEF Clear
<1>1. handle[u] \in Positions
  BY DEF TypeOK
<1>2. Off(start, handle[u]) < CellCount /\ Off(start, handle[u]) < Off(start, m_head)
  BY <1>1, LapFacts, OffFacts, CellCountFacts
<1>3. Done(start, handle[u])
  BY <1>1, <1>2 DEF FirstLap, CellsOk, CellOk
<1> QED
  BY <1>3 DEF Done, Owns

Seeing == {"see sequence", "see bits"}

\* A waiting thread may go on past a position when nobody there is in its way.
LEMMA MovesOn ==
  ASSUME TypeOK, NEW start \in Positions, FirstLap(start), calls <= CellCount + 1,
         NEW t \in Threads, NEW from \in Seeing, Moves(t, from),
         UNCHANGED <<lockVars, ticketVars, pos>>,
         Off(start, spinPos[t]) < Off(start, handle[t]) =>
           \A u \in Threads : Owns(u, spinPos[t]) => resources[u] \cap resources[t] = {}
  PROVE  Waiting(start, t)'
<1>1. /\ at[t] = from /\ spinPos'[t] = Plus(spinPos[t], 1)
      /\ at'[t] = Waits(t, Plus(spinPos[t], 1))
      /\ handle' = handle /\ resources' = resources
      /\ \A u \in Threads : u # t => at'[u] = at[u]
      /\ handle[t] \in Positions /\ spinPos[t] \in Positions
  BY DEF Moves, Goes, TypeOK, ticketVars
<1>2. /\ Off(start, handle[t]) \in Nat /\ Off(start, handle[t]) <= CellCount
      /\ Off(start, spinPos[t]) \in Nat
  <2>1. at[t] \in Owning
    BY <1>1 DEF Owning, Seeing
  <2> QED
    BY <2>1, LapFacts
<1>3. \A u \in Threads : at'[u] \in Owning <=> at[u] \in Owning
  BY <1>1 DEF Waits, Owning, Seeing
<1>4. \A p \in Positions : Clear(start, t, p) => Clear(start, t, p)'
  BY <1>1, <1>3 DEF Clear
<1>5. Waiting(start, t)
  BY DEF FirstLap
<1>6. CASE Clear(start, t, handle[t])
  BY <1>1, <1>3, <1>6 DEF Waiting, Clear, Waits
<1>7. CASE Off(start, spinPos[t]) < Off(start, handle[t]) /\ Clear(start, t, spinPos[t])
  <2> DEFINE next == Plus(spinPos[t], 1)
  <2>0. Off(start, spinPos[t]) < Off(start, handle[t])
    BY <1>7
  <2>1. next \in Positions /\ Off(start, next) = Off(start, spinPos[t]) + 1
    <3>1. 1 \in 0 .. Word /\ Off(start, spinPos[t]) + 1 < Word
      BY <1>2, <2>0, CellCountFacts
    <3> QED
      BY <1>1, <3>1, OffPlus
  <2>2. Clear(start, t, next)
    <3> SUFFICES ASSUME NEW u \in Threads, at[u] \in Owning, Off(start, handle[u]) < Off(start, next)
                 PROVE  resources[u] \cap resources[t] = {}
      BY DEF Clear
    <3>1. handle[u] \in Positions /\ Off(start, handle[u]) \in Nat
      BY OffFacts DEF TypeOK
    <3>2. CASE Off(start, handle[u]) < Off(start, spinPos[t])
      BY <1>7, <3>2 DEF Clear
    <3>3. CASE Off(start, handle[u]) = Off(start, spinPos[t])
      <4>1. handle[u] = spinPos[t]
        BY <1>1, <3>1, <3>3, OffFacts
      <4> QED
        BY <1>7, <4>1 DEF Owns
    <3>4. Off(start, handle[u]) < Off(start, spinPos[t]) + 1
      BY <2>1
    <3>5. Off(start, handle[u]) <= Off(start, spinPos[t])
      BY <1>2, <3>1, <3>4
    <3>6. Off(start, handle[u]) < Off(start, spinPos[t]) \/ Off(start, handle[u]) = Off(start, spinPos[t])
      BY <1>2, <3>1, <3>5
    <3> QED
      BY <3>2, <3>3, <3>6
  <2>3. CASE next = handle[t]
    <3>1. at'[t] = "held" /\ handle'[t] = next
      BY <1>1, <2>3 DEF Waits
    <3>2. Clear(start, t, handle[t])
      BY <2>2, <2>3
    <3> QED
      BY <1>1, <1>3, <3>1, <3>2 DEF Waiting, Clear
  <2>4. CASE next # handle[t]
    <3>1. at'[t] = "see sequence" /\ spinPos'[t] = next
      BY <1>1, <2>4 DEF Waits
    <3> HIDE DEF next
    <3>2. Off(start, next) # Off(start, handle[t])
      BY <1>1, <2>1, <2>4, OffFacts
    <3>3. Off(start, next) < Off(start, handle[t])
      BY <1>2, <2>0, <2>1, <3>2
    <3> QED
      BY <1>1, <1>3, <2>2, <3>1, <3>3 DEF Waiting, Clear
  <2> QED
    BY <2>3, <2>4
<1> QED
  BY <1>1, <1>5, <1>6, <1>7 DEF Waiting, Seeing

\* What Lock reads while it waits.
LEMMA WaitLap ==
  ASSUME TypeOK, TypeOK', NEW start \in Positions, FirstLap(start), calls <= CellCount + 1,
         NEW t \in Threads, LoadHead(t) \/ SeeSequence(t) \/ SeeBits(t)
  PROVE  FirstLap(start)'
<1>1. /\ UNCHANGED <<lockVars, ticketVars>> /\ pos' = pos
      /\ at[t] \in {"load head", "see sequence", "see bits"}
      /\ at'[t] \in {"see sequence", "see bits", "held"}
      /\ at' = [at EXCEPT ![t] = at'[t]]
      /\ \A u \in Threads \ {t} : at'[u] = at[u] /\ pos'[u] = pos[u] /\ spinPos'[u] = spinPos[u]
      /\ handle[t] \in Positions /\ spinPos[t] \in Positions
  BY DEF LoadHead, SeeSequence, SeeBits, Moves, Waits, Goes, TypeOK
<1>2. /\ at[t] \in Owning /\ at'[t] \in Owning /\ at[t] \notin Asking /\ at'[t] \notin Asking
      /\ at'[t] \notin Filling
  BY <1>1 DEF Asking, Owning, Filling
<1>3. Orderly(start, t)
  BY <1>1, <1>2, QuietIsOrderly
<1>4. Knows(start, t)'
  BY <1>1 DEF Knows
<1>5. /\ Off(start, handle[t]) \in Nat /\ Off(start, handle[t]) <= CellCount
      /\ Off(start, m_head) \in Nat /\ Off(start, spinPos[t]) \in Nat
      /\ m_head' = m_head /\ handle' = handle /\ resources' = resources
  <2>1. at[t] \in Owning
    BY <1>2
  <2>2. Off(start, handle[t]) \in Nat /\ Off(start, handle[t]) <= CellCount
        /\ Off(start, m_head) \in Nat /\ Off(start, spinPos[t]) \in Nat
    BY <2>1, LapFacts
  <2> QED
    BY <1>1, <2>2 DEF lockVars, ticketVars
<1>6. \A u \in Threads : at'[u] \in Owning <=> at[u] \in Owning
  BY <1>1, <1>2
<1>7. \A p \in Positions : Clear(start, t, p) => Clear(start, t, p)'
  BY <1>5, <1>6 DEF Clear
<1>8. ASSUME NEW u \in Threads, Owns(u, spinPos[t]), Off(start, spinPos[t]) < Off(start, handle[t])
      PROVE  LET seq == Off(start, m_sequence[CellOf(spinPos[t])])
                 off == Off(start, spinPos[t])
             IN  /\ seq \in {off, off + 1}
                 /\ m_bits[CellOf(spinPos[t])] \in {Resources, resources[u]}
                 /\ off = 0 => Off(start, handle[t]) < CellCount
  <2>1. Off(start, spinPos[t]) < CellCount
    BY <1>5, <1>8, CellCountFacts
  <2>2. CellOk(start, spinPos[t])
    BY <1>1, <2>1 DEF FirstLap, CellsOk
  <2>3. ASSUME Off(start, spinPos[t]) = 0, Off(start, handle[t]) = CellCount
        PROVE  FALSE
    <3>1. spinPos[t] = start
      BY <1>1, <2>3, OffFacts
    <3>2. Off(start, m_tail) = CellCount + 1
      BY <1>2, <2>3, LapFacts, CellCountFacts
    <3>3. Off(start, m_head) >= 1
      BY <3>2 DEF FirstLap, Counted, Lapped
    <3>4. Off(start, spinPos[t]) < Off(start, m_head)
      BY <1>5, <2>3, <3>3
    <3>5. Done(start, spinPos[t])
      BY <2>2, <3>4 DEF CellOk
    <3> QED
      BY <1>8, <3>5 DEF Done
  <2>4. Off(start, spinPos[t]) = 0 => Off(start, handle[t]) < CellCount
    BY <1>5, <2>3, CellCountFacts
  <2> QED
    BY <1>8, <2>2, <2>4 DEF CellOk
<1>9. Waiting(start, t)'
  <2>1. CASE LoadHead(t)
    <3>1. spinPos'[t] = m_head /\ at'[t] = Waits(t, m_head) /\ m_head \in Positions
      BY <2>1 DEF LoadHead, Goes, TypeOK
    <3>2. CASE Off(start, handle[t]) <= Off(start, m_head)
      <4>1. Clear(start, t, handle[t])
        BY <1>1, <1>5, <3>2, ClearBelow
      <4> QED
        BY <1>5, <1>6, <4>1 DEF Waiting, Clear
    <3>3. CASE ~(Off(start, handle[t]) <= Off(start, m_head))
      <4>1. Off(start, m_head) < Off(start, handle[t]) /\ Off(start, m_head) <= CellCount
        BY <1>5, <3>3, CellCountFacts
      <4>2. Off(start, m_head) <= Off(start, m_head)
        BY <1>5
      <4>3. Clear(start, t, m_head)
        BY <3>1, <4>1, <4>2, ClearBelow
      <4>4. m_head # handle[t]
        BY <1>5, <4>1
      <4>5. at'[t] = "see sequence"
        BY <3>1, <4>4 DEF Waits
      <4> QED
        BY <1>5, <1>6, <3>1, <4>1, <4>3, <4>5 DEF Waiting, Clear
    <3> QED
      BY <3>2, <3>3
  <2>2. CASE SeeSequence(t) /\ Passed(t) /\ Moves(t, "see sequence")
    <3>1. ASSUME Off(start, spinPos[t]) < Off(start, handle[t]), NEW u \in Threads, Owns(u, spinPos[t])
          PROVE  FALSE
      <4> DEFINE s == m_sequence[CellOf(spinPos[t])]
      <4>1. s \in Positions /\ Off(start, s) \in Nat
        BY <1>1, CellInRange, OffFacts DEF TypeOK
      <4>2. /\ Off(start, s) \in {Off(start, spinPos[t]), Off(start, spinPos[t]) + 1}
            /\ Off(start, spinPos[t]) = 0 => Off(start, handle[t]) < CellCount
        BY <1>8, <3>1
      <4>3. Less(handle[t], s) > CellCount - 1
        BY <2>2 DEF Passed, Mask
      <4> HIDE DEF s
      <4>4. Off(start, s) <= Off(start, handle[t])
        BY <1>5, <3>1, <4>1, <4>2
      <4>5. Less(handle[t], s) = Off(start, handle[t]) - Off(start, s)
        BY <1>1, <4>1, <4>4, OffLess
      <4> QED
        BY <1>5, <4>1, <4>2, <4>3, <4>5, CellCountFacts
    <3> QED
      BY <1>1, <2>2, <3>1, MovesOn DEF Seeing
  <2>3. CASE SeeBits(t) /\ ~InTheWay(t) /\ Moves(t, "see bits")
    <3>1. ASSUME Off(start, spinPos[t]) < Off(start, handle[t]), NEW u \in Threads, Owns(u, spinPos[t])
          PROVE  resources[u] \cap resources[t] = {}
      <4>1. m_bits[CellOf(spinPos[t])] \in {Resources, resources[u]}
        BY <1>8, <3>1
      <4>2. m_bits[CellOf(spinPos[t])] \cap resources[t] = {}
        BY <2>3 DEF InTheWay
      <4>3. resources[t] \subseteq Resources /\ resources[t] # {}
        BY <1>2, RequestsAssumption DEF FirstLap, Queued
      <4> QED
        BY <4>1, <4>2, <4>3
    <3> QED
      BY <1>1, <2>3, <3>1, MovesOn DEF Seeing
  <2>4. CASE (SeeSequence(t) \/ SeeBits(t)) /\ spinPos' = spinPos /\ at'[t] \in {"see sequence", "see bits"}
            /\ at[t] \in {"see sequence", "see bits"}
    BY <1>1, <1>5, <1>6, <2>4 DEF FirstLap, Waiting, Clear
  <2> QED
    BY <2>1, <2>2, <2>3, <2>4 DEF SeeSequence, SeeBits, Goes, TypeOK
<1> QED
  BY <1>1, <1>2, <1>3, <1>4, <1>9, QuietStep

\* A thread that takes the next position is the last in the queue.
LEMMA TakeLap ==
  ASSUME TypeOK, TypeOK', NEW start \in Positions, FirstLap(start), calls <= CellCount + 1,
         NEW t \in Threads, Take(t)
  PROVE  FirstLap(start)'
<1> DEFINE h == Off(start, m_head)
           n == Off(start, m_tail)
<1>1. /\ m_head' = m_head /\ m_sequence' = m_sequence /\ m_bits' = m_bits
      /\ resources' = resources /\ calls' = calls /\ queue' = Append(queue, t)
      /\ m_tail = pos[t] /\ m_tail' = Plus(m_tail, 1) /\ handle'[t] = m_tail
      /\ at[t] = "take" /\ at'[t] = "write bits"
      /\ \A u \in Threads \ {t} : /\ at'[u] = at[u] /\ pos'[u] = pos[u] /\ handle'[u] = handle[u]
                                  /\ spinPos'[u] = spinPos[u]
      /\ m_tail \in Positions
  BY DEF Take, Goes, TypeOK
<1>2. /\ at[t] \in Asking /\ at[t] \notin Owning /\ at'[t] \notin Asking /\ at'[t] \in Owning
      /\ at'[t] \notin Filling
  BY <1>1 DEF Asking, Owning, Filling
<1>3. h \in Nat /\ n \in Nat /\ h <= n /\ n <= CellCount /\ CellCount \in Nat
  BY <1>2, LapFacts, CellCountFacts
<1>4. Off(start, m_tail') = n + 1
  <2>1. 1 \in 0 .. Word /\ n + 1 < Word
    <3> HIDE DEF n
    <3> QED
      BY <1>3, CellCountFacts
  <2> QED
    BY <1>1, <2>1, OffPlus
<1>5. Orderly(start, t)
  <2>1. h <= Off(start, m_head')
    <3>1. m_head' = m_head
      BY <1>1
    <3> QED
      BY <1>3, <3>1
  <2>2. n <= Off(start, m_tail')
    <3> HIDE DEF n
    <3> QED
      BY <1>3, <1>4
  <2> QED
    BY <1>1, <1>2, <2>1, <2>2 DEF Orderly
<1>6. n = CellCount => Lapped(start)
  BY <1>1 DEF FirstLap, Knows
<1>7. Counted(start)'
  <2>1. Askers' = Askers \ {t} /\ t \in Askers
    BY <1>1, <1>2 DEF Askers
  <2>2. IsFiniteSet(Askers) /\ Off(start, m_tail) + Cardinality(Askers) = calls
    BY DEF FirstLap, Counted
  <2>3. IsFiniteSet(Askers') /\ Cardinality(Askers') = Cardinality(Askers) - 1 /\ Cardinality(Askers) \in Nat
    BY <2>1, <2>2, FS_RemoveElement, FS_CardinalityType
  <2>4. Off(start, m_tail') + Cardinality(Askers') = calls
    <3> HIDE DEF n
    <3>1. n + Cardinality(Askers) = calls
      BY <2>2 DEF n
    <3> QED
      BY <1>3, <1>4, <2>3, <3>1
  <2>5. h <= n + 1 /\ (n + 1 = CellCount + 1 => n = CellCount)
    <3> HIDE DEF n, h
    <3> QED
      BY <1>3
  <2>6. Lapped(start) => Lapped(start)'
    BY <1>5, OrderlyKeeps
  <2>7. Off(start, m_head') <= Off(start, m_tail')
    BY <1>1, <1>4, <2>5
  <2>8. Off(start, m_tail') = CellCount + 1 => Lapped(start)'
    BY <1>4, <1>6, <2>5, <2>6
  <2> QED
    BY <1>1, <2>3, <2>4, <2>7, <2>8 DEF Counted
<1>8. /\ queue \in Seq(Threads) /\ Len(queue) \in Nat /\ DOMAIN queue = 1 .. Len(queue)
      /\ DOMAIN queue' = 1 .. Len(queue) + 1 /\ queue'[Len(queue) + 1] = t
      /\ \A i \in 1 .. Len(queue) : queue'[i] = queue[i] /\ queue[i] \in Threads
  <2>1. queue \in Seq(Threads)
    BY DEF TypeOK
  <2>2. queue' = Append(queue, t)
    BY <1>1
  <2> QED
    BY <2>1, <2>2
<1>9. \A i \in DOMAIN queue : at[queue[i]] \in Owning /\ queue[i] # t /\ handle'[queue[i]] = handle[queue[i]]
                               /\ Off(start, handle[queue[i]]) < n
  BY <1>1, <1>2, <1>8 DEF FirstLap, Queued
<1>10. Queued(start)'
  <2>1. ASSUME NEW u \in Threads
        PROVE  at'[u] \in Owning <=> \E i \in DOMAIN queue' : queue'[i] = u
    <3>1. CASE u = t
      <4>1. Len(queue) + 1 \in 1 .. Len(queue) + 1
        BY <1>8
      <4> QED
        BY <1>2, <1>8, <3>1, <4>1
    <3>2. CASE u # t
      <4>1. at'[u] \in Owning <=> \E i \in DOMAIN queue : queue[i] = u
        BY <1>1, <3>2 DEF FirstLap, Queued
      <4>2. \A i \in DOMAIN queue' : i \in DOMAIN queue \/ i = Len(queue) + 1
        BY <1>8
      <4>3. \A i \in DOMAIN queue : i \in DOMAIN queue'
        BY <1>8
      <4> QED
        BY <1>8, <3>2, <4>1, <4>2, <4>3
    <3> QED
      BY <3>1, <3>2
  <2>2. ASSUME NEW i \in DOMAIN queue', NEW j \in DOMAIN queue', i < j
        PROVE  Off(start, handle'[queue'[i]]) < Off(start, handle'[queue'[j]])
    <3>1. i \in DOMAIN queue /\ queue'[i] = queue[i]
      BY <1>8, <2>2
    <3>2. CASE j \in DOMAIN queue
      <4>1. queue'[j] = queue[j]
        BY <1>8, <3>2
      <4>2. Off(start, handle[queue[i]]) < Off(start, handle[queue[j]])
        BY <2>2, <3>1, <3>2 DEF FirstLap, Queued
      <4> QED
        BY <1>9, <3>1, <3>2, <4>1, <4>2
    <3>3. CASE j = Len(queue) + 1
      <4>1. handle'[queue'[j]] = m_tail
        BY <1>1, <1>8, <3>3
      <4> QED
        BY <1>9, <3>1, <4>1
    <3> QED
      BY <1>8, <3>2, <3>3
  <2>3. ASSUME NEW u \in Threads, at'[u] \in Owning
        PROVE  Off(start, handle'[u]) < Off(start, m_tail')
    <3>1. u # t => Off(start, handle'[u]) < n
      BY <1>1, <2>3 DEF FirstLap, Queued
    <3>2. u = t => Off(start, handle'[u]) = n
      BY <1>1
    <3>3. Off(start, handle'[u]) \in Nat
      BY OffFacts DEF TypeOK
    <3> HIDE DEF n
    <3> QED
      BY <1>3, <1>4, <3>1, <3>2, <3>3
  <2>4. \A u \in Threads : at'[u] \in Asking \cup Owning => resources'[u] \in Requests
    BY <1>1, <1>2 DEF FirstLap, Queued
  <2> QED
    BY <2>1, <2>2, <2>3, <2>4 DEF Queued
<1>11. CellsOk(start)'
  <2> SUFFICES ASSUME NEW p \in Positions, Off(start, p) < CellCount
               PROVE  CellOk(start, p)'
    BY DEF CellsOk
  <2>1. CellOk(start, p)
    BY DEF FirstLap, CellsOk
  <2>2. Off(start, p) \in Nat
    BY OffFacts
  <2>3. CASE p = m_tail
    <3> DEFINE seq == Off(start, m_sequence[CellOf(p)])
               off == Off(start, p)
    <3>1. off = n /\ n >= n
      BY <1>3, <2>3
    <3>2. seq = off /\ m_bits[CellOf(p)] = Resources
      BY <2>1, <3>1 DEF CellOk
    <3>3. ~(off >= n + 1) /\ ~(off < h)
      <4> HIDE DEF n, h, off
      <4> QED
        BY <1>3, <3>1
    <3>4. seq' = seq /\ m_bits'[CellOf(p)] = Resources
      BY <1>1, <3>2
    <3>5. ~(off < Off(start, m_head')) /\ ~(off >= Off(start, m_tail'))
      BY <1>1, <1>4, <3>3
    <3> HIDE DEF off
    <3> QED
      BY <3>2, <3>4, <3>5 DEF CellOk, off
  <2>4. CASE p # m_tail
    <3>1. \A u \in Threads : Owns(u, p)' => Owns(u, p) /\ resources'[u] = resources[u]
      BY <1>1, <2>4 DEF Owns
    <3>2. Off(start, p) < Off(start, m_head') => Done(start, p)'
      BY <1>1, <1>5, <2>1, OrderlyKeeps DEF CellOk
    <3>3. Off(start, m_tail') \in Nat /\ n <= Off(start, m_tail')
      <4> HIDE DEF n
      <4> QED
        BY <1>3, <1>4
    <3> QED
      BY <1>1, <1>3, <1>5, <2>1, <2>2, <3>1, <3>2, <3>3, OrderlyKeeps, CellStays
  <2> QED
    BY <2>3, <2>4
<1>12. Waiting(start, t)' /\ Knows(start, t)'
  BY <1>1 DEF Waiting, Knows
<1> QED
  BY <1>5, <1>7, <1>10, <1>11, <1>12, LapStep

\* The thread that has a position writes its request there and publishes it.
LEMMA WriteLap ==
  ASSUME TypeOK, TypeOK', NEW start \in Positions, FirstLap(start), calls <= CellCount + 1,
         NEW t \in Threads, WriteBits(t) \/ Publish(t)
  PROVE  FirstLap(start)'
<1> SUFFICES ASSUME NEW q \in Positions, q = handle[t] PROVE FirstLap(start)'
  BY DEF TypeOK
<1> DEFINE h == Off(start, m_head)
           n == Off(start, m_tail)
<1>1. /\ m_head' = m_head /\ m_tail' = m_tail /\ UNCHANGED ticketVars
      /\ resources' = resources /\ calls' = calls /\ queue' = queue /\ handle' = handle
      /\ at[t] \in {"write bits", "publish"} /\ at'[t] \in {"publish", "load head"}
      /\ \A u \in Threads \ {t} : at'[u] = at[u] /\ pos'[u] = pos[u] /\ spinPos'[u] = spinPos[u]
  BY DEF WriteBits, Publish, Goes, TypeOK, ticketVars
<1>2. /\ at[t] \in Owning /\ at[t] \notin Asking /\ at'[t] \notin Asking /\ at'[t] \in Owning
      /\ at'[t] \notin Filling
  BY <1>1 DEF Asking, Owning, Filling
<1>3. /\ h \in Nat /\ n \in Nat /\ Off(start, q) \in Nat /\ Off(start, q) < n /\ Off(start, q) <= CellCount
  BY <1>2, LapFacts
<1>4. Orderly(start, t) /\ KeepsTicket(t)
  <2>1. h <= Off(start, m_head') /\ n <= Off(start, m_tail')
    <3>1. m_head' = m_head /\ m_tail' = m_tail
      BY <1>1
    <3> QED
      BY <1>3, <3>1
  <2> QED
    BY <1>1, <1>2, <2>1 DEF Orderly, KeepsTicket
<1>5. \A u \in Threads : /\ at'[u] \in Owning <=> at[u] \in Owning
                         /\ at'[u] \in Asking <=> at[u] \in Asking
  BY <1>1, <1>2
<1>6. Queued(start)'
  BY <1>1, <1>5 DEF FirstLap, Queued
<1>7. CellOf(q) \in Cells
  BY <1>1, CellInRange
<1>8. \A c \in Cells : c # CellOf(q) => m_sequence'[c] = m_sequence[c] /\ m_bits'[c] = m_bits[c]
  BY DEF WriteBits, Publish, TypeOK
<1>9. ASSUME Off(start, q) < CellCount
      PROVE  CellOk(start, q)'
  <2> DEFINE seq == Off(start, m_sequence[CellOf(q)])
             off == Off(start, q)
             new == Off(start, m_sequence'[CellOf(q)])
  <2>1. CellOk(start, q)
    BY <1>1, <1>9 DEF FirstLap, CellsOk
  <2>2. Owns(t, q)
    BY <1>2 DEF Owns
  <2>3. seq \in {off, off + 1} /\ m_bits[CellOf(q)] \in {Resources, resources[t]}
    BY <2>1, <2>2 DEF CellOk
  <2>4. new \in {off, off + 1} /\ (off = 0 /\ seq \in {0, 1} => new \in {0, 1})
    <3>1. CASE WriteBits(t)
      BY <2>3, <3>1 DEF WriteBits
    <3>2. CASE Publish(t)
      <4>1. m_sequence'[CellOf(q)] = Plus(q, 1)
        BY <1>7, <3>2 DEF Publish, TypeOK
      <4>2. 1 \in 0 .. Word /\ off + 1 < Word
        <5> HIDE DEF off
        <5> QED
          BY <1>3, CellCountFacts DEF off
      <4>3. new = off + 1
        BY <1>1, <4>1, <4>2, OffPlus
      <4> HIDE DEF new, off
      <4> QED
        BY <4>3
    <3> QED
      BY <3>1, <3>2
  <2>5. m_bits'[CellOf(q)] \in {Resources, resources[t]}
    BY <1>7, <2>3 DEF WriteBits, Publish, TypeOK
  <2>6. \A u \in Threads : Owns(u, q)' => u = t
    <3> SUFFICES ASSUME NEW u \in Threads, Owns(u, q)' PROVE u = t
      OBVIOUS
    <3>1. Owns(u, q)
      BY <1>1, <1>5 DEF Owns
    <3> QED
      BY <1>3, <2>2, <3>1, OwnerUnique DEF FirstLap, TypeOK
  <2>7. ~(off >= n) /\ ~(off < h)
    <3>1. ~(off < h)
      BY <2>1, <2>2 DEF CellOk, Done
    <3> QED
      BY <1>3, <3>1
  <2>8. off = 0 => new \in {0, 1}
    <3> HIDE DEF new, off, seq
    <3> QED
      BY <2>4
  <2>9. ~(off >= Off(start, m_tail')) /\ ~(off < Off(start, m_head'))
    BY <1>1, <2>7
  <2>10. \A u \in Threads : Owns(u, q)' =>
           new \in {off, off + 1} /\ m_bits'[CellOf(q)] \in {Resources, resources'[u]}
    BY <1>1, <2>4, <2>5, <2>6
  <2>11. new \in {off, off + 1}
    BY <2>4
  <2> HIDE DEF new, off, n, h
  <2> QED
    BY <2>8, <2>9, <2>10, <2>11 DEF CellOk, new, off
<1>10. Waiting(start, t)' /\ Knows(start, t)'
  BY <1>1 DEF Waiting, Knows
<1> QED
  BY <1>1, <1>2, <1>3, <1>4, <1>6, <1>8, <1>9, <1>10, CellStep

\* Removing one thread from the queue leaves the others in their order.
LEMMA ReleaseLap ==
  ASSUME TypeOK, TypeOK', NEW start \in Positions, FirstLap(start), calls <= CellCount + 1,
         NEW t \in Threads, Release(t)
  PROVE  FirstLap(start)'
<1> SUFFICES ASSUME NEW q \in Positions, q = handle[t] PROVE FirstLap(start)'
  BY DEF TypeOK
<1> DEFINE h == Off(start, m_head)
           n == Off(start, m_tail)
<1>1. /\ m_head' = m_head /\ m_tail' = m_tail /\ m_sequence' = m_sequence
      /\ resources' = resources /\ calls' = calls /\ handle' = handle /\ pos' = pos /\ spinPos' = spinPos
      /\ at[t] = "held" /\ at'[t] = "head"
      /\ \A u \in Threads \ {t} : at'[u] = at[u]
      /\ m_bits' = [m_bits EXCEPT ![CellOf(q)] = {}]
  BY DEF Release, Goes, TypeOK
<1>2. /\ at[t] \in Owning /\ at[t] \notin Asking /\ at'[t] \notin Asking /\ at'[t] \notin Owning
      /\ at'[t] \notin Filling
  BY <1>1 DEF Asking, Owning, Filling
<1>3. /\ h \in Nat /\ n \in Nat /\ Off(start, q) \in Nat /\ Off(start, q) < n /\ Off(start, q) <= CellCount
  BY <1>2, LapFacts
<1>4. Orderly(start, t) /\ KeepsTicket(t)
  <2>1. h <= Off(start, m_head') /\ n <= Off(start, m_tail')
    <3>1. m_head' = m_head /\ m_tail' = m_tail
      BY <1>1
    <3> QED
      BY <1>3, <3>1
  <2> QED
    BY <1>1, <1>2, <2>1 DEF Orderly, KeepsTicket
<1>5. PICK i \in DOMAIN queue : queue[i] = t /\ queue' = RemoveAt(queue, i)
  BY DEF Release
<1>6. /\ queue \in Seq(Threads) /\ Len(queue) \in Nat /\ DOMAIN queue = 1 .. Len(queue)
      /\ i \in 1 .. Len(queue)
  <2>1. queue \in Seq(Threads)
    BY DEF TypeOK
  <2> QED
    BY <2>1, <1>5
<1>7. /\ DOMAIN queue' = 1 .. Len(queue) - 1
      /\ \A k \in 1 .. Len(queue) - 1 : queue'[k] = IF k < i THEN queue[k] ELSE queue[k + 1]
  <2>1. /\ RemoveAt(queue, i) \in Seq(Threads)
        /\ Len(RemoveAt(queue, i)) = Len(queue) - 1
        /\ \A k \in 1 .. (Len(queue) - 1) :
             RemoveAt(queue, i)[k] = IF k < i THEN queue[k] ELSE queue[k + 1]
    BY <1>6, RemoveAtIndices
  <2>2. queue' \in Seq(Threads) /\ Len(queue') = Len(queue) - 1
    BY <1>5, <2>1
  <2> QED
    BY <1>5, <2>1, <2>2
<1> DEFINE from(k) == IF k < i THEN k ELSE k + 1
<1>8. \A k \in DOMAIN queue' : /\ from(k) \in DOMAIN queue /\ from(k) # i /\ queue'[k] = queue[from(k)]
                                /\ \A l \in DOMAIN queue' : k < l => from(k) < from(l)
  BY <1>6, <1>7
<1>9. \A k \in DOMAIN queue : k # i => \E l \in DOMAIN queue' : k = from(l)
  <2> SUFFICES ASSUME NEW k \in DOMAIN queue, k # i PROVE \E l \in DOMAIN queue' : k = from(l)
    OBVIOUS
  <2>1. CASE k < i
    <3>1. k \in DOMAIN queue' /\ from(k) = k
      BY <1>6, <1>7, <2>1
    <3> QED
      BY <3>1
  <2>2. CASE i < k
    <3>1. k - 1 \in DOMAIN queue' /\ from(k - 1) = k
      BY <1>6, <1>7, <2>2
    <3> QED
      BY <3>1
  <2> QED
    BY <1>6, <2>1, <2>2
<1>10. \A k \in DOMAIN queue : queue[k] = t => k = i
  <2> SUFFICES ASSUME NEW k \in DOMAIN queue, queue[k] = t, k # i PROVE FALSE
    OBVIOUS
  <2>1. Off(start, q) < Off(start, q)
    <3>1. k < i \/ i < k
      BY <1>6
    <3> QED
      BY <1>5, <3>1 DEF FirstLap, Queued
  <2> QED
    BY <1>3, <2>1
<1> HIDE DEF from
<1>11. Queued(start)'
  <2>1. ASSUME NEW u \in Threads
        PROVE  at'[u] \in Owning <=> \E k \in DOMAIN queue' : queue'[k] = u
    <3>1. CASE u = t
      BY <1>2, <1>8, <1>10, <3>1
    <3>2. CASE u # t
      <4>1. at'[u] \in Owning <=> \E k \in DOMAIN queue : queue[k] = u
        BY <1>1, <3>2 DEF FirstLap, Queued
      <4>2. \A k \in DOMAIN queue : queue[k] = u => k # i
        BY <1>5, <3>2
      <4> QED
        BY <1>8, <1>9, <4>1, <4>2
    <3> QED
      BY <3>1, <3>2
  <2>2. ASSUME NEW k \in DOMAIN queue', NEW l \in DOMAIN queue', k < l
        PROVE  Off(start, handle'[queue'[k]]) < Off(start, handle'[queue'[l]])
    BY <1>1, <1>8, <2>2 DEF FirstLap, Queued
  <2>3. \A u \in Threads : at'[u] \in Owning => Off(start, handle'[u]) < Off(start, m_tail')
    BY <1>1, <1>2 DEF FirstLap, Queued
  <2>4. \A u \in Threads : at'[u] \in Asking \cup Owning => resources'[u] \in Requests
    BY <1>1, <1>2 DEF FirstLap, Queued
  <2> QED
    BY <2>1, <2>2, <2>3, <2>4 DEF Queued
<1>12. \A c \in Cells : c # CellOf(q) => m_sequence'[c] = m_sequence[c] /\ m_bits'[c] = m_bits[c]
  BY <1>1 DEF TypeOK
<1>13. ASSUME Off(start, q) < CellCount
       PROVE  CellOk(start, q)'
  <2> DEFINE seq == Off(start, m_sequence[CellOf(q)])
             off == Off(start, q)
  <2>1. CellOk(start, q)
    BY <1>13 DEF FirstLap, CellsOk
  <2>2. Owns(t, q)
    BY <1>2 DEF Owns
  <2>3. \A u \in Threads : ~Owns(u, q)'
    <3> SUFFICES ASSUME NEW u \in Threads, Owns(u, q)' PROVE FALSE
      OBVIOUS
    <3>1. u # t /\ Owns(u, q)
      BY <1>1, <1>2 DEF Owns
    <3> QED
      BY <1>3, <2>2, <3>1, OwnerUnique DEF FirstLap, TypeOK
  <2>4. seq \in {off, off + 1}
    BY <2>1, <2>2 DEF CellOk
  <2>5. ~(off >= n) /\ ~(off < h) /\ (off = 0 => seq \in {0, 1})
    <3>1. ~(off < h)
      BY <2>1, <2>2 DEF CellOk, Done
    <3> HIDE DEF off, n, seq
    <3> QED
      BY <1>3, <2>4, <3>1 DEF off
  <2>6. ~(off >= Off(start, m_tail')) /\ ~(off < Off(start, m_head')) /\ seq = Off(start, m_sequence'[CellOf(q)])
    BY <1>1, <2>5
  <2> HIDE DEF off, n, h
  <2> QED
    BY <2>3, <2>4, <2>5, <2>6 DEF CellOk, off
<1>14. Waiting(start, t)' /\ Knows(start, t)'
  BY <1>1 DEF Waiting, Knows
<1> QED
  BY <1>1, <1>2, <1>3, <1>4, <1>11, <1>12, <1>13, <1>14, CellStep

\* What Unlock reads on its way to take a cell off.
LEMMA ScanLap ==
  ASSUME TypeOK, TypeOK', NEW start \in Positions, FirstLap(start), calls <= CellCount + 1,
         NEW t \in Threads, FirstCell(t) \/ Empty(t) \/ Used(t) \/ TakeOffFails(t)
  PROVE  FirstLap(start)'
<1>1. /\ UNCHANGED <<lockVars, ticketVars>>
      /\ at[t] \in {"head", "empty?", "used?", "take off"}
      /\ at'[t] \in {"head", "empty?", "used?", "take off", "idle"}
      /\ at' = [at EXCEPT ![t] = at'[t]]
      /\ \A u \in Threads \ {t} : at'[u] = at[u] /\ pos'[u] = pos[u] /\ spinPos'[u] = spinPos[u]
  BY DEF FirstCell, Empty, Used, TakeOffFails, Goes, TypeOK
<1>2. /\ at[t] \notin Owning /\ at'[t] \notin Owning /\ at[t] \notin Asking /\ at'[t] \notin Asking
      /\ at'[t] \notin Filling
  BY <1>1 DEF Asking, Owning, Filling
<1>3. Orderly(start, t)
  BY <1>1, <1>2, QuietIsOrderly
<1>4. Waiting(start, t)'
  BY <1>1 DEF Waiting
<1>5. m_head' = m_head /\ m_tail' = m_tail
  BY <1>1 DEF lockVars
<1>6. /\ Off(start, m_head) \in Nat /\ Off(start, m_tail) \in Nat /\ Off(start, m_head) <= Off(start, m_tail)
      /\ Off(start, m_tail) <= CellCount + 1 /\ CellCount \in Nat /\ CellCount >= 2
  BY LapFacts, CellCountFacts
<1>7. Knows(start, t)'
  <2>1. CASE FirstCell(t)
    <3>1. pos'[t] = m_head /\ at'[t] = "empty?"
      BY <2>1 DEF FirstCell, Goes, TypeOK
    <3>2. Off(start, pos'[t]) <= Off(start, m_head')
      <4>1. pos'[t] = m_head /\ m_head' = m_head
        BY <1>5, <3>1
      <4> QED
        BY <1>6, <4>1
    <3> QED
      BY <3>1, <3>2 DEF Knows
  <2>2. CASE at'[t] \in {"head", "idle"}
    BY <2>2 DEF Knows
  <2>3. ASSUME Empty(t), at'[t] = "used?"
        PROVE  Knows(start, t)'
    <3> SUFFICES ASSUME NEW p \in Positions, p = pos[t] PROVE Knows(start, t)'
      BY DEF TypeOK
    <3>1. /\ at[t] = "empty?" /\ pos'[t] = p /\ m_bits[CellOf(p)] = {}
      BY <2>3 DEF Empty, Goes, Released, TypeOK
    <3>2. Off(start, p) <= Off(start, m_head) /\ Off(start, p) \in Nat
      BY <3>1, OffFacts DEF FirstLap, Knows
    <3>3. ASSUME Off(start, p) < CellCount
          PROVE  Done(start, p)
      <4>1. CellOk(start, p)
        BY <3>3 DEF FirstLap, CellsOk
      <4>2. ~(Off(start, p) >= Off(start, m_tail))
        BY <3>1, <4>1, ResourcesAssumption DEF CellOk
      <4>3. Off(start, p) < Off(start, m_tail)
        BY <1>6, <3>2, <4>2
      <4>4. ASSUME NEW u \in Threads, Owns(u, p) PROVE FALSE
        <5>1. m_bits[CellOf(p)] \in {Resources, resources[u]}
          BY <4>1, <4>4 DEF CellOk
        <5>2. resources[u] # {}
          BY <4>4, RequestsAssumption DEF Owns, FirstLap, Queued
        <5> QED
          BY <3>1, <5>1, <5>2, ResourcesAssumption
      <4> QED
        BY <4>3, <4>4 DEF Done
    <3>4. Off(start, p) < CellCount => Done(start, p)'
      BY <1>3, <3>3, OrderlyKeeps
    <3>5. Off(start, p) <= Off(start, m_head')
      BY <1>5, <3>2
    <3> QED
      BY <2>3, <3>1, <3>4, <3>5 DEF Knows, Done, Owns
  <2>4. ASSUME Used(t), at'[t] = "take off"
        PROVE  Knows(start, t)'
    <3> SUFFICES ASSUME NEW p \in Positions, p = pos[t] PROVE Knows(start, t)'
      BY DEF TypeOK
    <3> DEFINE off == Off(start, p)
               n == Off(start, m_tail)
               h == Off(start, m_head)
    <3>1. /\ at[t] = "used?" /\ pos'[t] = p /\ m_sequence[CellOf(p)] = Plus(p, 1)
      BY <2>4 DEF Used, Goes, TypeOK
    <3>2. off <= h /\ off \in Nat /\ (off < CellCount => Done(start, p))
      BY <3>1, OffFacts DEF FirstLap, Knows
    <3>3. off <= CellCount + 1 /\ 1 \in 0 .. Word
      <4> HIDE DEF off, n, h
      <4> QED
        BY <1>6, <3>2, CellCountFacts DEF n, h
    <3>4. Off(start, Plus(p, 1)) = IF off + 1 < Word THEN off + 1 ELSE off + 1 - Word
      BY <3>3, OffPlus
    <3>5. off < CellCount => off < n
      BY <3>2 DEF Done
    <3>6. ASSUME off = CellCount
          PROVE  off < n
      <4>1. Off(start, start) = 0 /\ Off(start, start) < CellCount
        BY <1>6, OffFacts
      <4>2. CellOf(p) = CellOf(start)
        BY <1>6, <3>3, <3>6, <4>1, SameCell
      <4>3. CellOk(start, start)
        BY <4>1 DEF FirstLap, CellsOk
      <4>4. Off(start, m_sequence[CellOf(start)]) = CellCount + 1
        <5>1. Off(start, Plus(p, 1)) = CellCount + 1
          <6> HIDE DEF off
          <6> QED
            BY <1>6, <3>4, <3>6, CellCountFacts
        <5> QED
          BY <3>1, <4>2, <5>1
      <4>5. CellCount + 1 \notin {0, 1, CellCount}
        BY <1>6
      <4>6. ~(n <= CellCount)
        BY <4>1, <4>3, <4>4, <4>5 DEF CellOk
      <4> HIDE DEF n, off
      <4> QED
        BY <1>6, <3>6, <4>6 DEF n
    <3>7. off # CellCount + 1
      <4> SUFFICES ASSUME off = CellCount + 1 PROVE FALSE
        OBVIOUS
      <4> DEFINE r == Plus(start, 1)
      <4>1. r \in Positions /\ Off(start, r) = 1
        <5>1. Off(start, start) = 0 /\ 0 + 1 < Word /\ 0 + 1 = 1
          BY OffFacts, CellCountFacts
        <5> QED
          BY <3>3, <5>1, OffPlus
      <4> HIDE DEF r
      <4>2. Off(start, r) < CellCount /\ Off(start, p) = Off(start, r) + CellCount
        BY <1>6, <4>1
      <4>3. CellOf(p) = CellOf(r)
        BY <3>3, <4>1, <4>2, SameCell
      <4>4. CellOk(start, r)
        BY <4>1, <4>2 DEF FirstLap, CellsOk
      <4>5. Off(start, m_sequence[CellOf(r)]) \in {1, 1 + 1, 1 + CellCount}
        <5>1. 1 >= 1
          OBVIOUS
        <5> QED
          BY <4>1, <4>4, <5>1 DEF CellOk
      <4>6. Off(start, Plus(p, 1)) \in {1, 2, 1 + CellCount}
        BY <3>1, <4>3, <4>5
      <4> QED
        BY <1>6, <3>4, <4>6, CellCountFacts
    <3>8. off <= CellCount /\ off < n
      <4> HIDE DEF off, n
      <4> QED
        BY <1>6, <3>2, <3>3, <3>5, <3>6, <3>7
    <3>9. off < CellCount => Done(start, p)'
      BY <1>3, <3>2, OrderlyKeeps
    <3>10. off <= Off(start, m_head') /\ off < Off(start, m_tail')
      BY <1>5, <3>2, <3>8
    <3> QED
      BY <2>4, <3>1, <3>8, <3>9, <3>10 DEF Knows, Done, Owns
  <2> QED
    BY <2>1, <2>2, <2>3, <2>4 DEF Empty, Used, TakeOffFails, Goes, TypeOK
<1> QED
  BY <1>1, <1>2, <1>3, <1>4, <1>7, QuietStep

\* A cell is taken off when its request was released.
LEMMA TakeOffLap ==
  ASSUME TypeOK, TypeOK', NEW start \in Positions, FirstLap(start), calls <= CellCount + 1,
         NEW t \in Threads, TakeOff(t)
  PROVE  FirstLap(start)'
<1> SUFFICES ASSUME NEW q \in Positions, q = pos[t] PROVE FirstLap(start)'
  BY DEF TypeOK
<1> DEFINE h == Off(start, m_head)
           n == Off(start, m_tail)
           off == Off(start, q)
<1>1. /\ m_head = q /\ m_head' = Plus(q, 1) /\ m_tail' = m_tail /\ m_sequence' = m_sequence /\ m_bits' = m_bits
      /\ resources' = resources /\ calls' = calls /\ queue' = queue /\ handle' = handle /\ pos' = pos
      /\ spinPos' = spinPos /\ at[t] = "take off" /\ at'[t] = "fill" /\ pos[t] = q
      /\ \A u \in Threads \ {t} : at'[u] = at[u]
  BY DEF TakeOff, Goes, TypeOK, ticketVars
<1>2. /\ at[t] \notin Owning /\ at'[t] \notin Owning /\ at[t] \notin Asking /\ at'[t] \notin Asking
      /\ at'[t] \in Filling
  BY <1>1 DEF Asking, Owning, Filling
<1>3. h = off
  BY <1>1
<1>4. off \in Nat /\ n \in Nat /\ h \in Nat /\ CellCount \in Nat
  BY OffFacts, LapFacts, CellCountFacts
<1>5. off <= CellCount /\ off < n /\ (off < CellCount => Done(start, q))
  BY <1>1 DEF FirstLap, Knows
<1>6. Off(start, m_head') = off + 1
  <2>1. 1 \in 0 .. Word /\ off + 1 < Word
    <3> HIDE DEF off
    <3> QED
      BY <1>4, <1>5, CellCountFacts
  <2> QED
    BY <1>1, <2>1, OffPlus
<1>7. Orderly(start, t)
  <2>1. h <= Off(start, m_head')
    <3> HIDE DEF h, off
    <3> QED
      BY <1>3, <1>4, <1>6
  <2>2. n <= Off(start, m_tail')
    <3>1. m_tail' = m_tail
      BY <1>1
    <3> QED
      BY <1>4, <3>1
  <2> QED
    BY <1>1, <1>2, <2>1, <2>2 DEF Orderly
<1>8. \A u \in Threads : /\ at'[u] \in Owning <=> at[u] \in Owning
                         /\ at'[u] \in Asking <=> at[u] \in Asking
  BY <1>1, <1>2
<1>9. Counted(start)'
  <2>1. Askers' = Askers
    BY <1>8 DEF Askers
  <2>2. Lapped(start) => Lapped(start)'
    BY <1>7, OrderlyKeeps
  <2>3. Off(start, m_head') <= n
    <3> HIDE DEF off, n
    <3> QED
      BY <1>4, <1>5, <1>6
  <2> QED
    BY <1>1, <2>1, <2>2, <2>3 DEF FirstLap, Counted
<1>10. Queued(start)'
  BY <1>1, <1>8 DEF FirstLap, Queued
<1>11. CellsOk(start)'
  <2> SUFFICES ASSUME NEW p \in Positions, Off(start, p) < CellCount
               PROVE  CellOk(start, p)'
    BY DEF CellsOk
  <2>1. CellOk(start, p)
    BY DEF FirstLap, CellsOk
  <2>2. Off(start, p) \in Nat
    BY OffFacts
  <2>3. \A u \in Threads : Owns(u, p)' => Owns(u, p) /\ resources'[u] = resources[u]
    BY <1>1, <1>8 DEF Owns
  <2>4. Off(start, p) < Off(start, m_head') => Done(start, p)'
    <3> SUFFICES ASSUME Off(start, p) < off + 1 PROVE Done(start, p)
      BY <1>6, <1>7, OrderlyKeeps
    <3>1. CASE Off(start, p) < h
      BY <2>1, <3>1 DEF CellOk
    <3>2. CASE Off(start, p) = off
      <4>1. p = q
        BY <3>2, OffFacts
      <4> QED
        BY <1>5, <4>1
    <3>3. Off(start, p) < h \/ Off(start, p) = off
      <4> HIDE DEF h, off
      <4> QED
        BY <1>3, <1>4, <2>2
    <3> QED
      BY <3>1, <3>2, <3>3
  <2>5. n <= Off(start, m_tail')
    BY <1>7 DEF Orderly
  <2> QED
    BY <1>1, <1>4, <1>7, <2>1, <2>2, <2>3, <2>4, <2>5, OrderlyKeeps, CellStays
<1>12. Waiting(start, t)'
  BY <1>1 DEF Waiting
<1>13. Knows(start, t)'
  <2>1. ASSUME NEW u \in Threads \ {t}, at'[u] \in Filling
        PROVE  pos'[u] # q
    <3>1. Off(start, pos[u]) < h /\ at'[u] = at[u] /\ pos'[u] = pos[u]
      BY <1>1, <2>1 DEF FirstLap, Knows, Filling
    <3> HIDE DEF off, h
    <3> QED
      BY <1>3, <1>4, <3>1 DEF off
  <2>2. off < Off(start, m_head')
    <3> HIDE DEF off
    <3> QED
      BY <1>4, <1>6
  <2> QED
    BY <1>1, <1>5, <2>1, <2>2 DEF Knows, Filling
<1> QED
  BY <1>7, <1>9, <1>10, <1>11, <1>12, <1>13, LapStep

\* The thread that took a cell off fills it and makes it ready for the next lap.
LEMMA FillLap ==
  ASSUME TypeOK, TypeOK', NEW start \in Positions, FirstLap(start), calls <= CellCount + 1,
         NEW t \in Threads, Fill(t) \/ Recycle(t)
  PROVE  FirstLap(start)'
<1> SUFFICES ASSUME NEW q \in Positions, q = pos[t] PROVE FirstLap(start)'
  BY DEF TypeOK
<1> DEFINE h == Off(start, m_head)
           n == Off(start, m_tail)
           off == Off(start, q)
<1>1. /\ m_head' = m_head /\ m_tail' = m_tail
      /\ resources' = resources /\ calls' = calls /\ queue' = queue /\ handle' = handle /\ pos' = pos
      /\ spinPos' = spinPos /\ at[t] \in {"fill", "recycle"} /\ at'[t] \in {"recycle", "head"} /\ pos[t] = q
      /\ \A u \in Threads \ {t} : at'[u] = at[u]
  BY DEF Fill, Recycle, Goes, TypeOK, ticketVars
<1>2. /\ at[t] \notin Owning /\ at'[t] \notin Owning /\ at[t] \notin Asking /\ at'[t] \notin Asking
      /\ at[t] \in Filling
  BY <1>1 DEF Asking, Owning, Filling
<1>3. off \in Nat /\ n \in Nat /\ h \in Nat /\ h <= n
  BY OffFacts, LapFacts
<1>4. /\ off <= CellCount /\ off < h
      /\ \A u \in Threads \ {t} : at[u] \in Filling => pos[u] # q
  BY <1>1, <1>2 DEF FirstLap, Knows, Filling
<1>5. off < n
  <2>1. off < h
    BY <1>4
  <2> HIDE DEF off, n, h
  <2> QED
    BY <1>3, <2>1
<1>6. Orderly(start, t) /\ KeepsTicket(t)
  <2>1. h <= Off(start, m_head') /\ n <= Off(start, m_tail')
    <3>1. m_head' = m_head /\ m_tail' = m_tail
      BY <1>1
    <3> QED
      BY <1>3, <3>1
  <2> QED
    BY <1>1, <1>2, <2>1 DEF Orderly, KeepsTicket
<1>7. \A u \in Threads : /\ at'[u] \in Owning <=> at[u] \in Owning
                         /\ at'[u] \in Asking <=> at[u] \in Asking
  BY <1>1, <1>2
<1>8. Queued(start)'
  BY <1>1, <1>7 DEF FirstLap, Queued
<1>9. CellOf(q) \in Cells
  BY CellInRange
<1>10. \A c \in Cells : c # CellOf(q) => m_sequence'[c] = m_sequence[c] /\ m_bits'[c] = m_bits[c]
  BY <1>1 DEF Fill, Recycle, TypeOK
<1>11. ASSUME off < CellCount
       PROVE  CellOk(start, q)'
  <2> DEFINE seq == Off(start, m_sequence[CellOf(q)])
             new == Off(start, m_sequence'[CellOf(q)])
  <2>1. CellOk(start, q)
    BY <1>11 DEF FirstLap, CellsOk
  <2>2. Done(start, q) /\ Done(start, q)'
    BY <1>4, <1>6, <2>1, OrderlyKeeps DEF CellOk
  <2>3. \A u \in Threads : ~Owns(u, q)'
    BY <2>2 DEF Done
  <2>4. ~(off >= Off(start, m_tail'))
    BY <1>1, <1>3, <1>5
  <2>5. CASE Fill(t)
    <3>1. m_sequence' = m_sequence
      BY <2>5 DEF Fill
    <3>2. /\ off >= 1 => seq \in {off, off + 1, off + CellCount}
          /\ off = 0 /\ n <= CellCount => seq \in {0, 1, CellCount}
          /\ off = 0 /\ ~Lapped(start) => seq \in {0, 1}
      BY <2>1 DEF CellOk
    <3>3. Lapped(start) => Lapped(start)'
      BY <1>6, OrderlyKeeps
    <3>4. new = seq /\ Off(start, m_tail') = n
      BY <1>1, <3>1
    <3> HIDE DEF new, off, n, h, seq
    <3> QED
      BY <2>2, <2>3, <2>4, <3>2, <3>3, <3>4, Zenon DEF CellOk, off, new
  <2>6. CASE Recycle(t)
    <3>1. m_sequence'[CellOf(q)] = Plus(q, CellCount)
      <4>1. Mask + 1 = CellCount
        BY CellCountFacts
      <4> QED
        BY <1>1, <1>9, <2>6, <4>1 DEF Recycle, NextLap, TypeOK
    <3>2. CellCount \in 0 .. Word /\ off + CellCount < Word
      <4>1. off < CellCount
        BY <1>11
      <4> HIDE DEF off
      <4> QED
        BY <1>3, <4>1, CellCountFacts
    <3>3. new = off + CellCount
      BY <3>1, <3>2, OffPlus
    <3>4. off = 0 => Lapped(start)'
      <4> SUFFICES ASSUME off = 0 PROVE Lapped(start)'
        OBVIOUS
      <4>1. q = start
        BY OffFacts
      <4>2. h >= 1
        BY <1>3, <1>4
      <4>3. ASSUME NEW u \in Threads, at'[u] \in Filling, pos'[u] = start
            PROVE  FALSE
        <5>1. at'[t] = "head"
          BY <2>6 DEF Recycle, Goes, TypeOK
        <5>2. u # t
          BY <4>3, <5>1 DEF Filling
        <5> QED
          BY <1>1, <1>4, <4>1, <4>3, <5>2
      <4>4. Off(start, m_head') >= 1
        BY <1>1, <4>2
      <4> QED
        BY <4>3, <4>4 DEF Lapped, Filling
    <3>5. off = 0 => new = CellCount
      <4> HIDE DEF new, off
      <4> QED
        BY <3>3, CellCountFacts
    <3> HIDE DEF new, off
    <3> QED
      BY <2>2, <2>3, <2>4, <3>3, <3>4, <3>5 DEF CellOk, off, new
  <2> QED
    BY <2>5, <2>6
<1>12. Waiting(start, t)'
  BY <1>1 DEF Waiting
<1>13. Knows(start, t)'
  <2>1. \A u \in Threads \ {t} : at'[u] \in Filling => pos'[u] # q
    BY <1>1, <1>4
  <2>2. off < Off(start, m_head')
    BY <1>1, <1>4
  <2> QED
    BY <1>1, <1>4, <2>1, <2>2 DEF Knows, Filling
<1> QED
  BY <1>1, <1>2, <1>4, <1>5, <1>6, <1>8, <1>10, <1>11, <1>12, <1>13, CellStep

-----------------------------------------------------------------------------
(* Served in order                                                         *)

LapSafe == TypeOK /\ LapInv

LEMMA InitLapSafe == Init => LapSafe
<1> SUFFICES ASSUME Init PROVE LapSafe
  OBVIOUS
<1>1. PICK start \in Positions : InitAt(start)
  BY StartsAssumption DEF Init
<1>2. FirstLap(start)
  BY <1>1, InitLap
<1> QED
  BY <1>2, InitTypeOK DEF LapSafe, LapInv

LEMMA NextLapSafe == LapSafe /\ [Next]_vars => LapSafe'
<1> SUFFICES ASSUME LapSafe, [Next]_vars PROVE LapSafe'
  OBVIOUS
<1>1. TypeOK /\ TypeOK'
  BY NextTypeOK DEF LapSafe
<1>2. CASE UNCHANGED vars
  <2>1. /\ m_head' = m_head /\ m_tail' = m_tail /\ m_sequence' = m_sequence /\ m_bits' = m_bits
        /\ at' = at /\ resources' = resources /\ pos' = pos /\ handle' = handle /\ spinPos' = spinPos
        /\ queue' = queue /\ calls' = calls
    BY <1>2 DEF vars
  <2>2. ASSUME NEW start \in Positions, FirstLap(start)
        PROVE  FirstLap(start)'
    <3>1. Askers' = Askers /\ (Lapped(start)' <=> Lapped(start))
      BY <2>1 DEF Askers, Lapped
    <3>2. Counted(start)'
      BY <2>1, <2>2, <3>1 DEF FirstLap, Counted
    <3>3. Queued(start)'
      BY <2>1, <2>2 DEF FirstLap, Queued
    <3>4. /\ \A p \in Positions : Done(start, p)' <=> Done(start, p)
          /\ \A p \in Positions, u \in Threads : Owns(u, p)' <=> Owns(u, p)
      BY <2>1 DEF Done, Owns
    <3>5. CellsOk(start)'
      <4> SUFFICES ASSUME NEW p \in Positions, Off(start, p) < CellCount PROVE CellOk(start, p)'
        BY DEF CellsOk
      <4>1. CellOk(start, p)
        BY <2>2 DEF FirstLap, CellsOk
      <4> QED
        BY <2>1, <3>1, <3>4, <4>1, Zenon DEF CellOk
    <3>6. ASSUME NEW t \in Threads PROVE Waiting(start, t)' /\ Knows(start, t)'
      <4>1. Waiting(start, t) /\ Knows(start, t)
        BY <2>2 DEF FirstLap
      <4>2. Waiting(start, t)'
        BY <2>1, <4>1 DEF Waiting, Clear
      <4>3. Knows(start, t)'
        BY <2>1, <4>1 DEF Knows, Done, Owns, Lapped
      <4> QED
        BY <4>2, <4>3
    <3> QED
      BY <3>2, <3>3, <3>5, <3>6 DEF FirstLap
  <2> QED
    BY <1>1, <2>1, <2>2 DEF LapSafe, LapInv
<1>3. ASSUME NEW t \in Threads, CallLock(t) \/ Lock(t) \/ Unlock(t)
      PROVE  LapInv'
  <2> SUFFICES ASSUME calls' <= CellCount + 1
               PROVE  \E start \in Positions : FirstLap(start)'
    BY DEF LapInv
  <2>1. calls <= CellCount + 1
    <3>1. calls \in Int /\ calls' \in {calls, calls + 1}
      <4>1. calls' = calls \/ calls' = calls + 1
        BY <1>3 DEF CallLock, Lock, Unlock, LoadTail, LoadSequence, Take, TakeFails, WriteBits, Publish,
                    LoadHead, SeeSequence, SeeBits, Release, FirstCell, Empty, Used, TakeOff,
                    TakeOffFails, Fill, Recycle, ticketVars
      <4>2. calls \in 0 .. MaxLocks
        BY <1>1 DEF TypeOK
      <4> QED
        BY <4>1, <4>2, MaxLocksAssumption
    <3> QED
      BY <3>1, CellCountFacts
  <2>2. PICK start \in Positions : FirstLap(start)
    BY <2>1 DEF LapSafe, LapInv
  <2>3. FirstLap(start)'
    BY <1>1, <1>3, <2>1, <2>2, CallLockLap, AskLap, TakeLap, WriteLap, WaitLap, ReleaseLap, ScanLap,
       TakeOffLap, FillLap DEF Lock, Unlock
  <2> QED
    BY <2>3
<1>4. CASE Next
  BY <1>1, <1>2, <1>3, <1>4 DEF Next, Finished, LapSafe
<1> QED
  BY <1>2, <1>4

LEMMA LapGrants ==
  ASSUME TypeOK, NEW start \in Positions, FirstLap(start)
  PROVE  FirstComeFirstServed /\ MutualExclusion
<1>1. \A t \in Threads : at[t] = "held" => Clear(start, t, handle[t])
  BY DEF FirstLap, Waiting
<1>2. FirstComeFirstServed
  <2> SUFFICES ASSUME NEW i \in DOMAIN queue, NEW j \in DOMAIN queue, i < j, at[queue[j]] = "held"
               PROVE  resources[queue[i]] \cap resources[queue[j]] = {}
    BY DEF FirstComeFirstServed
  <2>1. queue \in Seq(Threads)
    BY DEF TypeOK
  <2>2. queue[i] \in Threads /\ queue[j] \in Threads
    BY <2>1
  <2>3. at[queue[i]] \in Owning /\ Off(start, handle[queue[i]]) < Off(start, handle[queue[j]])
    BY <2>2 DEF FirstLap, Queued
  <2> QED
    BY <1>1, <2>2, <2>3 DEF Clear
<1>3. MutualExclusion
  <2> SUFFICES ASSUME NEW t \in Threads, NEW u \in Threads, t # u, at[t] = "held", at[u] = "held"
               PROVE  resources[t] \cap resources[u] = {}
    BY DEF MutualExclusion
  <2>1. handle[t] \in Positions /\ handle[u] \in Positions
    BY DEF TypeOK
  <2>2. at[t] \in Owning /\ at[u] \in Owning
    BY DEF Owning
  <2>3. Off(start, handle[t]) \in Nat /\ Off(start, handle[u]) \in Nat
    BY <2>1, OffFacts
  <2>4. handle[t] # handle[u]
    BY <2>2, <2>3, OwnerUnique DEF Owns, FirstLap, TypeOK
  <2>5. Off(start, handle[t]) # Off(start, handle[u])
    BY <2>1, <2>4, OffFacts
  <2>6. CASE Off(start, handle[t]) < Off(start, handle[u])
    BY <1>1, <2>2, <2>6 DEF Clear
  <2>7. CASE Off(start, handle[u]) < Off(start, handle[t])
    BY <1>1, <2>2, <2>7 DEF Clear
  <2>8. \A a, b \in Nat : a # b => a < b \/ b < a
    OBVIOUS
  <2> QED
    BY <2>3, <2>5, <2>6, <2>7, <2>8
<1> QED
  BY <1>2, <1>3

\* Until Lock has been called more than CellCount + 1 times, requests that
\* share a resource are granted in the order of their positions, and no two
\* that share one are granted at the same time (mrlock.h:87, 121), for any
\* number of threads, resources and cells.  One call more breaks both: the run
\* mrlock_exclusion.
THEOREM ServedInOrder == Spec => []InOrder
<1>1. Spec => []LapSafe
  BY InitLapSafe, NextLapSafe, PTL DEF Spec
<1>2. LapSafe => InOrder
  BY LapGrants DEF LapSafe, LapInv, InOrder
<1> QED
  BY <1>1, <1>2, PTL
=============================================================================
