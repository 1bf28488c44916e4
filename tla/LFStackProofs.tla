---------------------------- MODULE LFStackProofs ----------------------------
(***************************************************************************)
(* Proofs about LFStack, for any number of threads, nodes and values.      *)
(***************************************************************************)
EXTENDS LFStack, SequenceTheorems, WellFoundedInduction, FiniteSetTheorems, TLAPS

------------------------------------------------------------------------------
(* Lists, sets and rows                                                    *)

(* A list holds everything once.                                           *)
Once(q) == \A j, k \in DOMAIN q : q[j] = q[k] => j = k

(* Where the elements of two lists are in the two put together.            *)
LEMMA ConcatIndices ==
  ASSUME NEW S, NEW a \in Seq(S), NEW b \in Seq(S)
  PROVE  /\ a \o b \in Seq(S)
         /\ Len(a \o b) = Len(a) + Len(b)
         /\ \A k \in 1 .. Len(a) : (a \o b)[k] = a[k]
         /\ \A k \in (Len(a) + 1) .. (Len(a) + Len(b)) : (a \o b)[k] = b[k - Len(a)]
  OBVIOUS

(* RemoveAt leaves what was below the position and moves down what was above. *)
LEMMA RemoveAtIndices ==
  ASSUME NEW S, NEW q \in Seq(S), NEW i \in 1 .. Len(q)
  PROVE  /\ RemoveAt(q, i) \in Seq(S)
         /\ Len(RemoveAt(q, i)) = Len(q) - 1
         /\ \A k \in 1 .. (Len(q) - 1) :
              RemoveAt(q, i)[k] = IF k < i THEN q[k] ELSE q[k + 1]
  <1> DEFINE l == SubSeq(q, 1, i - 1)
             r == SubSeq(q, i + 1, Len(q))
  <1>0. Len(q) \in Nat
    OBVIOUS
  <1>1. l \in Seq(S) /\ Len(l) = i - 1 /\ \A k \in 1 .. (i - 1) : l[k] = q[k]
    OBVIOUS
  <1>2. r \in Seq(S) /\ Len(r) = Len(q) - i /\ \A k \in 1 .. (Len(q) - i) : r[k] = q[i + k]
    OBVIOUS
  <1>3. RemoveAt(q, i) = l \o r
    BY DEF RemoveAt
  <1> HIDE DEF l, r
  <1>4. /\ l \o r \in Seq(S) /\ Len(l \o r) = Len(l) + Len(r)
        /\ \A k \in 1 .. Len(l) : (l \o r)[k] = l[k]
        /\ \A k \in (Len(l) + 1) .. (Len(l) + Len(r)) : (l \o r)[k] = r[k - Len(l)]
    <2>1. l \in Seq(S) /\ r \in Seq(S)
      BY <1>1, <1>2
    <2> QED
      BY <2>1, ConcatIndices
  <1>5. Len(l \o r) = Len(q) - 1
    BY <1>0, <1>1, <1>2, <1>4
  <1>6. ASSUME NEW k \in 1 .. (Len(q) - 1)
        PROVE  (l \o r)[k] = IF k < i THEN q[k] ELSE q[k + 1]
    <2>1. CASE k \in 1 .. (i - 1)
      BY <2>1, <1>0, <1>1, <1>4
    <2>2. CASE k \in i .. (Len(q) - 1)
      <3>1. (l \o r)[k] = r[k - (i - 1)]
        BY <2>2, <1>0, <1>1, <1>2, <1>4
      <3>2. k - (i - 1) \in 1 .. (Len(q) - i)
        BY <2>2, <1>0
      <3>3. r[k - (i - 1)] = q[i + (k - (i - 1))]
        BY <3>2, <1>2
      <3> QED
        BY <2>2, <3>1, <3>3, <1>0
    <2>3. k \in 1 .. (i - 1) \/ k \in i .. (Len(q) - 1)
      BY <1>0
    <2> QED
      BY <2>1, <2>2, <2>3
  <1> QED
    BY <1>3, <1>4, <1>5, <1>6

(* The list without a position holds what it held but the element there,   *)
(* if it held everything once.                                             *)
LEMMA RemoveAtRange ==
  ASSUME NEW S, NEW q \in Seq(S), NEW i \in 1 .. Len(q),
         Once(q)
  PROVE  /\ RemoveAt(q, i) \in Seq(S)
         /\ Range(RemoveAt(q, i)) = Range(q) \ {q[i]}
         /\ Once(RemoveAt(q, i))
  <1> DEFINE r == RemoveAt(q, i)
             n == Len(q)
             from(k) == IF k < i THEN k ELSE k + 1
  <1>0. n \in Nat /\ DOMAIN q = 1 .. n /\ i \in 1 .. n
    OBVIOUS
  <1>1. /\ r \in Seq(S) /\ Len(r) = n - 1
        /\ \A k \in 1 .. (n - 1) : r[k] = q[from(k)]
    BY RemoveAtIndices
  <1>2. DOMAIN r = 1 .. (n - 1)
    BY <1>1
  <1> HIDE DEF r, n
  <1>3. \A k \in 1 .. (n - 1) : from(k) \in 1 .. n /\ from(k) # i
    BY <1>0
  <1>4. \A j, k \in 1 .. (n - 1) : from(j) = from(k) => j = k
    BY <1>0
  <1>5. Once(r)
    BY <1>0, <1>1, <1>2, <1>3, <1>4 DEF Once
  <1>6. \A k \in DOMAIN r : r[k] \in Range(q) \ {q[i]}
    <2> SUFFICES ASSUME NEW k \in 1 .. (n - 1) PROVE r[k] \in Range(q) \ {q[i]}
      BY <1>2
    <2>1. PICK j \in 1 .. n : j = from(k)
      BY <1>3
    <2>2. r[k] = q[j] /\ j # i
      BY <1>1, <1>3, <2>1
    <2> QED
      BY <1>0, <2>2 DEF Range, Once
  <1>7. ASSUME NEW k \in 1 .. n, k # i PROVE q[k] \in Range(r)
    <2>1. PICK j \in 1 .. (n - 1) : from(j) = k
      <3>1. CASE k < i
        BY <1>0, <3>1
      <3>2. CASE k > i
        <4>1. k - 1 \in 1 .. (n - 1) /\ from(k - 1) = k
          BY <1>0, <3>2
        <4> QED
          BY <4>1
      <3> QED
        BY <1>0, <1>7, <3>1, <3>2
    <2> QED
      BY <1>1, <1>2, <2>1 DEF Range
  <1>8. Range(r) = Range(q) \ {q[i]}
    BY <1>0, <1>6, <1>7 DEF Range
  <1> QED
    BY <1>1, <1>5, <1>8 DEF r

(* A new head of a list that did not hold it.                              *)
LEMMA PrependRange ==
  ASSUME NEW S, NEW q \in Seq(S), NEW e \in S, e \notin Range(q),
         Once(q)
  PROVE  /\ <<e>> \o q \in Seq(S)
         /\ <<e>> \o q # <<>>
         /\ Range(<<e>> \o q) = Range(q) \cup {e}
         /\ Once(<<e>> \o q)
  <1> DEFINE r == <<e>> \o q
             n == Len(q)
  <1>0. n \in Nat /\ DOMAIN q = 1 .. n
    OBVIOUS
  <1>1. /\ r \in Seq(S) /\ Len(r) = n + 1 /\ r[1] = e
        /\ \A k \in 2 .. (n + 1) : r[k] = q[k - 1]
    <2>1. <<e>> \in Seq(S) /\ Len(<<e>>) = 1 /\ <<e>>[1] = e
      OBVIOUS
    <2> QED
      BY <1>0, <2>1, ConcatIndices
  <1>2. DOMAIN r = 1 .. (n + 1)
    BY <1>0, <1>1
  <1>3. r # <<>>
    BY <1>0, <1>1
  <1> HIDE DEF r, n
  <1>4. \A k \in 1 .. n : q[k] # e
    BY <1>0 DEF Range
  <1>5. \A k \in 2 .. (n + 1) : k - 1 \in 1 .. n
    BY <1>0
  <1>6. ASSUME NEW j \in 1 .. (n + 1), NEW k \in 1 .. (n + 1), r[j] = r[k]
        PROVE  j = k
    <2>1. CASE j = 1 \/ k = 1
      BY <1>0, <1>1, <1>4, <1>5, <1>6, <2>1 DEF Once
    <2>2. CASE j # 1 /\ k # 1
      <3>1. j \in 2 .. (n + 1) /\ k \in 2 .. (n + 1)
        BY <1>0, <2>2
      <3>2. q[j - 1] = q[k - 1] /\ j - 1 \in 1 .. n /\ k - 1 \in 1 .. n
        BY <1>1, <1>5, <1>6, <3>1
      <3>3. j - 1 = k - 1
        BY <1>0, <3>2 DEF Once
      <3> QED
        BY <1>0, <3>3
    <2> QED
      BY <2>1, <2>2
  <1>7. Range(r) = Range(q) \cup {e}
    <2>1. \A k \in 1 .. n : q[k] \in Range(r)
      <3> SUFFICES ASSUME NEW k \in 1 .. n PROVE q[k] \in Range(r)
        OBVIOUS
      <3>1. k + 1 \in 2 .. (n + 1) /\ (k + 1) - 1 = k
        BY <1>0
      <3>2. r[k + 1] = q[k] /\ k + 1 \in DOMAIN r
        BY <1>0, <1>1, <1>2, <3>1
      <3> QED
        BY <3>2 DEF Range
    <2>2. e \in Range(r)
      BY <1>0, <1>1, <1>2 DEF Range
    <2>3. \A k \in 1 .. (n + 1) : r[k] \in Range(q) \cup {e}
      <3> SUFFICES ASSUME NEW k \in 1 .. (n + 1) PROVE r[k] \in Range(q) \cup {e}
        OBVIOUS
      <3>1. CASE k = 1
        BY <1>1, <3>1
      <3>2. CASE k # 1
        <4>1. k \in 2 .. (n + 1)
          BY <1>0, <3>2
        <4>2. PICK j \in 1 .. n : j = k - 1
          BY <1>5, <4>1
        <4>3. r[k] = q[j]
          BY <1>1, <4>1, <4>2
        <4> QED
          BY <1>0, <4>2, <4>3 DEF Range
      <3> QED
        BY <3>1, <3>2
    <2> QED
      BY <1>0, <1>2, <2>1, <2>2, <2>3 DEF Range
  <1>8. Once(r)
    BY <1>2, <1>6 DEF Once
  <1> QED
    BY <1>1, <1>3, <1>7, <1>8 DEF r

(* A list without its head.                                                *)
LEMMA TailRange ==
  ASSUME NEW S, NEW q \in Seq(S), q # <<>>, Once(q)
  PROVE  /\ Head(q) \in S /\ Head(q) \in Range(q)
         /\ Tail(q) \in Seq(S) /\ Len(Tail(q)) = Len(q) - 1
         /\ Range(Tail(q)) = Range(q) \ {Head(q)}
         /\ Once(Tail(q))
  <1>1. 1 \in 1 .. Len(q) /\ Len(q) \in Nat /\ DOMAIN q = 1 .. Len(q) /\ Head(q) = q[1]
    OBVIOUS
  <1>2. /\ Tail(q) \in Seq(S) /\ Len(Tail(q)) = Len(q) - 1 /\ DOMAIN Tail(q) = 1 .. (Len(q) - 1)
        /\ \A k \in 1 .. (Len(q) - 1) : Tail(q)[k] = q[k + 1]
    OBVIOUS
  <1>3. /\ RemoveAt(q, 1) \in Seq(S) /\ Len(RemoveAt(q, 1)) = Len(q) - 1
        /\ DOMAIN RemoveAt(q, 1) = 1 .. (Len(q) - 1)
        /\ \A k \in 1 .. (Len(q) - 1) : RemoveAt(q, 1)[k] = q[k + 1]
    <2>1. \A k \in 1 .. (Len(q) - 1) : ~(k < 1)
      BY <1>1
    <2>2. /\ RemoveAt(q, 1) \in Seq(S) /\ Len(RemoveAt(q, 1)) = Len(q) - 1
          /\ \A k \in 1 .. (Len(q) - 1) : RemoveAt(q, 1)[k] = IF k < 1 THEN q[k] ELSE q[k + 1]
      BY <1>1, RemoveAtIndices
    <2>3. DOMAIN RemoveAt(q, 1) = 1 .. Len(RemoveAt(q, 1))
      BY <2>2
    <2> QED
      BY <2>1, <2>2, <2>3
  <1>4. /\ Range(RemoveAt(q, 1)) = Range(q) \ {q[1]}
        /\ Once(RemoveAt(q, 1))
    BY <1>1, RemoveAtRange
  <1>5. Tail(q) = RemoveAt(q, 1)
    BY <1>2, <1>3
  <1>6. Head(q) \in Range(q) /\ Head(q) \in S
    BY <1>1 DEF Range
  <1> QED
    BY <1>1, <1>2, <1>4, <1>5, <1>6

(* A list with a new head, and one without its head, element by element.   *)
LEMMA ConsIs ==
  ASSUME NEW S, NEW f \in Seq(S), NEW g \in Seq(S), NEW x \in S,
         Len(f) = Len(g) + 1, f[1] = x, \A i \in 1 .. Len(g) : f[i + 1] = g[i]
  PROVE  f = <<x>> \o g
  <1> DEFINE h == <<x>> \o g
             n == Len(g)
  <1>1. n \in Nat /\ <<x>> \in Seq(S) /\ Len(<<x>>) = 1
    OBVIOUS
  <1>2. /\ h \in Seq(S) /\ Len(h) = 1 + n
        /\ \A k \in 1 .. 1 : h[k] = <<x>>[k]
        /\ \A k \in (1 + 1) .. (1 + n) : h[k] = g[k - 1]
    BY <1>1, ConcatIndices
  <1> HIDE DEF h
  <1>3. ASSUME NEW k \in 1 .. n + 1 PROVE f[k] = h[k]
    <2>1. CASE k = 1
      BY <2>1, <1>2
    <2>2. CASE k # 1
      <3>1. k - 1 \in 1 .. n /\ k = (k - 1) + 1 /\ k \in (1 + 1) .. (1 + n)
        BY <1>1, <2>2
      <3> QED
        BY <3>1, <1>2
    <2> QED
      BY <2>1, <2>2
  <1>4. Len(f) = Len(h) /\ \A k \in 1 .. Len(f) : f[k] = h[k]
    BY <1>1, <1>2, <1>3
  <1> QED
    BY <1>2, <1>4, SeqEqual DEF h

LEMMA TailFunction ==
  ASSUME NEW n \in Nat, n >= 1, NEW f, NEW g,
         f = [i \in 1 .. n |-> f[i]], g = [i \in 1 .. n - 1 |-> f[i + 1]]
  PROVE  f # <<>> /\ Head(f) = f[1] /\ Tail(f) = g
  <1> DEFINE S == {f[i] : i \in 1 .. n}
  <1>1. f \in Seq(S) /\ Len(f) = n
    <2>1. f \in [1 .. n -> S]
      OBVIOUS
    <2> HIDE DEF S
    <2> QED
      BY <2>1
  <1> HIDE DEF S
  <1>2. f # <<>> /\ Head(f) = f[1]
    BY <1>1
  <1>3. Tail(f) \in Seq(S) /\ Len(Tail(f)) = n - 1 /\ \A i \in 1 .. n - 1 : Tail(f)[i] = f[i + 1]
    BY <1>1, <1>2, HeadTailProperties
  <1>4. Tail(f) = [i \in 1 .. n - 1 |-> Tail(f)[i]]
    BY <1>3
  <1> QED
    BY <1>2, <1>3, <1>4

(* The naturals are well-founded.                                          *)
LEMMA NatLess == IsWellFoundedOn({ss \in Nat \X Nat : ss[1] < ss[2]}, Nat)
  <1>1. OpToRel(<, Nat) = {ss \in Nat \X Nat : ss[1] < ss[2]}
    BY DEF OpToRel
  <1> QED
    BY <1>1, NatLessThanWellFounded

(* A set of naturals that is not empty has a least element ...            *)
LEMMA LeastNat ==
  ASSUME NEW T, T \subseteq Nat, T # {}
  PROVE  \E n \in T : \A m \in T : n <= m
  <1> DEFINE R == {ss \in Nat \X Nat : ss[1] < ss[2]}
  <1>1. PICK n \in T : \A m \in T : ~ (<<m, n>> \in R)
    BY NatLess, WFMin
  <1>2. \A m \in Nat, k \in Nat : m < k => <<m, k>> \in R
    OBVIOUS
  <1> HIDE DEF R
  <1>3. ASSUME NEW m \in T PROVE n <= m
    <2>1. m \in Nat /\ n \in Nat
      OBVIOUS
    <2>2. ~ (<<m, n>> \in R)
      BY <1>1
    <2>3. ~ (m < n)
      BY <2>1, <2>2, <1>2
    <2> QED
      BY <2>1, <2>3
  <1> QED
    BY <1>3

(* ... so what 0 is in, and n + 1 with n, is all of them.                  *)
LEMMA SetInduction ==
  ASSUME NEW S, 0 \in S, \A n \in Nat : n \in S => n + 1 \in S
  PROVE  Nat \subseteq S
  <1> SUFFICES ASSUME Nat \ S # {} PROVE FALSE
    OBVIOUS
  <1>1. PICK n \in Nat \ S : \A m \in Nat \ S : n <= m
    BY LeastNat
  <1>2. n - 1 \in Nat /\ n = (n - 1) + 1 /\ ~(n <= n - 1)
    BY <1>1
  <1>3. n - 1 \in S
    BY <1>1, <1>2
  <1> QED
    BY <1>1, <1>2, <1>3

(* Rows that start in order do not overlap.                                *)
LEMMA TimesMonotone ==
  ASSUME NEW n \in Nat, NEW i \in Nat, NEW j \in Nat, i < j
  PROVE  n * i + n <= n * j
  <1>1. PICK d \in Nat : j = i + 1 + d
    BY i + 1 <= j, j - (i + 1) \in Nat
  <1>2. n * j = n * i + n + n * d
    BY <1>1, n * (i + 1 + d) = n * i + n * 1 + n * d
  <1>3. n * d >= 0
    OBVIOUS
  <1>4. n * i \in Nat /\ n * j \in Nat /\ n * d \in Nat
    OBVIOUS
  <1> QED
    BY <1>2, <1>3, <1>4

(* The slots of m rows are the first m * n numbers.                        *)
LEMMA RowRange ==
  ASSUME NEW m \in Nat, NEW n \in Nat, NEW t \in 0 .. (m - 1), NEW s \in 0 .. (n - 1)
  PROVE  s + n * t \in 0 .. (m * n - 1)
  <1>1. t \in Nat /\ s \in Nat /\ s < n /\ t < m
    OBVIOUS
  <1>2. n * t + n <= n * m
    BY <1>1, TimesMonotone
  <1>3. n * t \in Nat /\ n * m \in Nat /\ n * m = m * n
    BY <1>1
  <1> QED
    BY <1>1, <1>2, <1>3

(* A number is one slot of one row only.                                   *)
LEMMA RowInjective ==
  ASSUME NEW n \in Nat, NEW t \in Nat, NEW u \in Nat, NEW s \in 0 .. (n - 1), NEW r \in 0 .. (n - 1),
         s + n * t = r + n * u
  PROVE  t = u /\ s = r
  <1>1. s \in Nat /\ s < n /\ r \in Nat /\ r < n /\ n * t \in Nat /\ n * u \in Nat
    OBVIOUS
  <1>2. ~(t < u)
    <2> SUFFICES ASSUME t < u PROVE FALSE
      OBVIOUS
    <2>1. n * t + n <= n * u
      BY TimesMonotone
    <2> QED
      BY <1>1, <2>1
  <1>3. ~(u < t)
    <2> SUFFICES ASSUME u < t PROVE FALSE
      OBVIOUS
    <2>1. n * u + n <= n * t
      BY TimesMonotone
    <2> QED
      BY <1>1, <2>1
  <1>4. t = u
    BY <1>2, <1>3
  <1> QED
    BY <1>1, <1>4

-----------------------------------------------------------------------------
(* The table of watches and the scan of a list                             *)

(* get_slot stays inside the table, and gives every thread slots of its    *)
(* own (hazard_pointer.h:211-216).                                         *)
LEMMA GetSlotRange ==
  ASSUME NEW t \in Threads, NEW s \in SlotID
  PROVE  GetSlot(t, s) \in 0 .. (NumSlots - 1)
  <1>1. END \in Nat /\ NumThreads \in Nat /\ t \in 0 .. (NumThreads - 1) /\ s \in 0 .. (END - 1)
    BY NumThreadsAssumption, ENDAssumption DEF Threads, SlotID
  <1> QED
    BY <1>1, RowRange DEF GetSlot, NumSlots

(* No two pairs of a thread and a slot share a position of the table.      *)
LEMMA GetSlotInjective ==
  ASSUME NEW t \in Threads, NEW s \in SlotID, NEW u \in Threads, NEW r \in SlotID,
         GetSlot(t, s) = GetSlot(u, r)
  PROVE  t = u /\ s = r
  <1>1. END \in Nat /\ t \in Nat /\ u \in Nat /\ s \in 0 .. (END - 1) /\ r \in 0 .. (END - 1)
    BY NumThreadsAssumption, ENDAssumption DEF Threads, SlotID
  <1>2. s + END * t = r + END * u
    BY DEF GetSlot
  <1> QED
    BY <1>1, <1>2, RowInjective

(* The table has a first slot, where every scan begins.                    *)
LEMMA NumSlotsPositive == NumSlots \in Nat /\ 0 \in 0 .. (NumSlots - 1)
  <1>1. 0 \in Threads /\ 0 \in SlotID
    BY NumThreadsAssumption, ENDAssumption DEF Threads, SlotID
  <1>2. NumSlots \in Nat
    BY NumThreadsAssumption, ENDAssumption DEF NumSlots
  <1> QED
    BY <1>1, <1>2, GetSlotRange DEF GetSlot

(* The scan of a list that is not empty goes to a position of that list.   *)
LEMMA PositionInRange ==
  ASSUME NEW S, NEW q \in Seq(S), NEW k \in Nat \ {0}, q # <<>>
  PROVE  Position(k, q) \in 1 .. Len(q)
  BY DEF Position

-----------------------------------------------------------------------------
(* The inductive invariant                                                 *)

Scanning(t) == hpc[t] \in {"contains", "on_is_watched"}
Holds(t) == <<t, SHORTUSE>> \in granted
Under(t) == WatchedBy(t, SHORTUSE)
Waiting(t) == Range(element_list[t])

(* A push that has not taken effect yet has its node for itself.           *)
Owns(t) == node[t] # Null /\ result[t] = NoResult

Types ==
  /\ life \in [Elems -> {"free", "private", "live", "retired"}]
  /\ watches \in [0 .. (NumSlots - 1) -> Pointers]
  /\ element_list \in [Threads -> Seq(Elems)]
  /\ hpc \in [Threads -> HPStates]
  /\ slot = [t \in Threads |-> SHORTUSE]
  /\ elem \in [Threads -> Pointers]
  /\ pos \in [Threads -> Nat]
  /\ idx \in [Threads -> 0 .. (NumSlots - 1)]
  /\ leaving = [t \in Threads |-> FALSE]
  /\ _stack \in Pointers
  /\ next \in [Elems -> Pointers]
  /\ pc \in [Threads -> {"idle", "load", "watch", "push", "next", "cas", "value",
                      "unwatch", "return"}]
  /\ node \in [Threads -> Pointers]
  /\ cur \in [Threads -> Pointers]
  /\ nxt \in [Threads -> Pointers]
  /\ DOMAIN result = Threads

(* Where a thread is in the library, in its operation, and in its result.  *)
Control ==
  \A t \in Threads :
    /\ hpc[t] \notin {"send", "gone"}
    /\ pc[t] = "watch" <=> hpc[t] \in {"store", "validate", "on_watch", "clear"}
    /\ Scanning(t) => pc[t] = "unwatch"
    /\ pc[t] \notin {"unwatch", "return"} => result[t] = NoResult
    /\ pc[t] \in {"idle", "next", "cas", "value"} => node[t] = Null
    /\ pc[t] = "push" => node[t] # Null

(* Where a thread is in watch determines what it holds; pop holds cur.     *)
WatchProtocol ==
  \A t \in Threads :
    /\ hpc[t] \in {"store", "validate", "on_watch"} => elem[t] \in Elems
    /\ hpc[t] \in {"validate", "on_watch"} => Under(t) = elem[t]
    /\ hpc[t] = "on_watch" => Holds(t)
    /\ pc[t] \in {"idle", "load", "return"} \/ hpc[t] \in {"store", "validate", "clear"}
         => ~Holds(t)
    /\ pc[t] \in {"next", "cas", "value"} => Holds(t) /\ Under(t) = cur[t]

HeldIsNotFree ==
  \A t \in Threads : Holds(t) => Under(t) \in Elems /\ life[Under(t)] \in {"live", "retired"}

(* A scan that has passed a slot cannot have missed a grant of what it     *)
(* checks.                                                                 *)
ScanMissesNoGrant ==
  \A u \in Threads : Scanning(u) =>
    \A t \in Threads :
      Holds(t) /\ Under(t) = element_list[u][pos[u]] =>
        hpc[u] = "contains" /\ idx[u] <= GetSlot(t, SHORTUSE)

(* A node that push has not published is known to nobody else.             *)
Private ==
  \A t \in Threads : Owns(t) =>
    /\ life[node[t]] = "private"
    /\ \A u \in Threads : Owns(u) /\ node[u] = node[t] => u = t

(* A popped node belongs to one pop until that passes it to safe_delete.   *)
Unlinked ==
  \A t \in Threads : pc[t] = "value" =>
    /\ life[cur[t]] = "retired"
    /\ \A u \in Threads : pc[u] = "value" /\ cur[u] = cur[t] => u = t
    /\ \A u \in Threads : cur[t] \notin Waiting(u)

(* What waits to be freed is retired, and waits once.                      *)
WaitsOnce ==
  \A t \in Threads :
    /\ \A e \in Waiting(t) : life[e] = "retired"
    /\ \A i, j \in DOMAIN element_list[t] : element_list[t][i] = element_list[t][j] => i = j
    /\ \A u \in Threads : u # t => Waiting(t) \cap Waiting(u) = {}
    /\ Scanning(t) => pos[t] \in 1 .. Len(element_list[t])

(* From a live node one comes to a live node, and by one way only.         *)
Shape ==
  /\ _stack \in Elems => life[_stack] = "live"
  /\ \A e \in Elems : life[e] = "live" /\ next[e] \in Elems =>
       /\ life[next[e]] = "live"
       /\ next[e] # _stack
       /\ \A f \in Elems : life[f] = "live" /\ next[f] = next[e] => f = e

(* No ABA: what pop read below a node is still below it.                   *)
NextStands == \A t \in Threads : pc[t] = "cas" => nxt[t] = next[cur[t]]

IInv ==
  /\ Types
  /\ Control
  /\ WatchProtocol
  /\ HeldIsNotFree
  /\ ScanMissesNoGrant
  /\ Private
  /\ Unlinked
  /\ WaitsOnce
  /\ Shape
  /\ NextStands

------------------------------------------------------------------------------

LEMMA ShortUse == SHORTUSE \in SlotID
  BY ENDAssumption DEF SlotID, SHORTUSE

(* A thread that writes its slot leaves the slots of the others alone.     *)
LEMMA SlotWrite ==
  ASSUME Types, NEW t \in Threads, NEW p \in Pointers,
         watches' = [watches EXCEPT ![GetSlot(t, SHORTUSE)] = p]
  PROVE  /\ watches' \in [0 .. (NumSlots - 1) -> Pointers]
         /\ Under(t)' = p
         /\ \A u \in Threads : u # t => Under(u)' = Under(u)
  <1>1. \A u \in Threads : GetSlot(u, SHORTUSE) \in 0 .. (NumSlots - 1)
    BY GetSlotRange, ShortUse
  <1>2. \A u \in Threads : u # t => GetSlot(u, SHORTUSE) # GetSlot(t, SHORTUSE)
    BY GetSlotInjective, ShortUse
  <1> QED
    BY <1>1, <1>2 DEF Types, Under, WatchedBy

LEMMA SlotsStay ==
  ASSUME watches' = watches
  PROVE  \A u \in Threads : Under(u)' = Under(u)
  BY DEF Under, WatchedBy

LEMMA ListsStay ==
  ASSUME element_list' = element_list
  PROVE  \A u \in Threads : Waiting(u)' = Waiting(u)
  BY DEF Waiting

LEMMA InitIInv == Init => IInv
  <1> SUFFICES ASSUME Init PROVE IInv
    OBVIOUS
  <1> USE NullAssumption DEF Init, HPInit
  <1>1. Types
    BY NumSlotsPositive DEF Types, Pointers, HPStates, SHORTUSE
  <1>2. Control /\ WatchProtocol /\ HeldIsNotFree
    BY DEF Control, WatchProtocol, HeldIsNotFree, Scanning, Holds
  <1>3. ScanMissesNoGrant /\ Private /\ Unlinked /\ NextStands
    BY DEF ScanMissesNoGrant, Private, Unlinked, NextStands, Scanning, Owns
  <1>4. WaitsOnce
    BY DEF WaitsOnce, Waiting, Range, Scanning
  <1>5. Shape
    BY DEF Shape
  <1> QED
    BY <1>1, <1>2, <1>3, <1>4, <1>5 DEF IInv

(* What a scan checks is retired.                                          *)
LEMMA ScannedIsRetired ==
  ASSUME Types, WaitsOnce, NEW u \in Threads, Scanning(u)
  PROVE  /\ pos[u] \in DOMAIN element_list[u]
         /\ element_list[u][pos[u]] \in Elems
         /\ element_list[u][pos[u]] \in Waiting(u)
         /\ life[element_list[u][pos[u]]] = "retired"
  <1>1. element_list[u] \in Seq(Elems) /\ pos[u] \in 1 .. Len(element_list[u])
    BY DEF Types, WaitsOnce
  <1>2. pos[u] \in DOMAIN element_list[u] /\ element_list[u][pos[u]] \in Elems
    BY <1>1
  <1> QED
    BY <1>2 DEF WaitsOnce, Waiting, Range

LEMMA WaitingAreElements ==
  ASSUME Types
  PROVE  \A u \in Threads : Waiting(u) \subseteq Elems
  <1> SUFFICES ASSUME NEW u \in Threads, NEW i \in DOMAIN element_list[u]
               PROVE  element_list[u][i] \in Elems
    BY DEF Waiting, Range
  <1>1. element_list[u] \in Seq(Elems)
    BY DEF Types
  <1> QED
    BY <1>1

(* What pop holds has not been freed.                                      *)
LEMMA PopHoldsCur ==
  ASSUME WatchProtocol, HeldIsNotFree, NEW t \in Threads, pc[t] \in {"next", "cas", "value"}
  PROVE  Holds(t) /\ Under(t) = cur[t] /\ cur[t] \in Elems /\ life[cur[t]] \in {"live", "retired"}
  BY DEF WatchProtocol, HeldIsNotFree

LEMMA ResultsDiffer == Pushed # NoResult /\ Empty # NoResult /\ \A v : Popped(v) # NoResult
  <1>1. Pushed.state = "pushed" /\ NoResult.state = "none" /\ Empty.state = "empty"
    BY DEF Pushed, NoResult, Empty
  <1>2. \A v : Popped(v).state = "popped"
    BY DEF Popped
  <1> QED
    BY <1>1, <1>2

------------------------------------------------------------------------------
(* Each action keeps the invariant. *)

(* push takes a free node ...                                              *)
LEMMA CallPushKeeps ==
  ASSUME IInv, NEW t \in Threads, \E v \in Values : CallPush(t, v)
  PROVE  IInv'
  <1> USE NullAssumption DEF IInv
  <1>0. PICK e \in Elems :
          /\ life[e] = "free"
          /\ SetLife(e, "private")
          /\ node' = [node EXCEPT ![t] = e]
          /\ next' = [next EXCEPT ![e] = Null]
          /\ At(t, "idle")
          /\ Goto(t, "load")
          /\ UNCHANGED <<_stack, cur, nxt, result>>
    BY DEF CallPush
  <1>1. /\ pc[t] = "idle"
        /\ life[e] = "free"
        /\ life' = [life EXCEPT ![e] = "private"]
        /\ node' = [node EXCEPT ![t] = e]
        /\ next' = [next EXCEPT ![e] = Null]
        /\ pc' = [pc EXCEPT ![t] = "load"]
        /\ UNCHANGED <<watches, element_list, hpc, slot, elem, pos, idx, leaving, granted,
                       _stack, cur, nxt, result>>
    BY <1>0 DEF At, Goto, SetLife
  <1>2. \A u \in Threads : Under(u)' = Under(u)
    BY <1>1, SlotsStay
  <1>3. \A u \in Threads : Waiting(u)' = Waiting(u)
    BY <1>1, ListsStay
  <1>4. Types'
    BY <1>1 DEF Types, Pointers, HPStates
  <1>5. Control'
    BY <1>1 DEF Types, Control, Scanning
  <1>6. WatchProtocol'
    BY <1>1, <1>2 DEF Types, WatchProtocol, Holds
  <1>7. HeldIsNotFree'
    BY <1>1, <1>2 DEF Types, HeldIsNotFree, Holds
  <1>8. ScanMissesNoGrant'
    BY <1>1, <1>2 DEF ScanMissesNoGrant, Scanning, Holds
  <1>9. Private'
    BY <1>1 DEF Types, Private, Owns
  <1>10. Unlinked'
    BY <1>1, <1>3 DEF Types, Unlinked
  <1>11. WaitsOnce'
    BY <1>1, <1>3 DEF Types, WaitsOnce, Scanning
  <1>12. Shape'
    BY <1>1 DEF Types, Shape
  <1>13. NextStands'
    BY <1>1, PopHoldsCur DEF Types, NextStands
  <1> QED
    BY <1>4, <1>5, <1>6, <1>7, <1>8, <1>9, <1>10, <1>11, <1>12, <1>13

(* ... pop begins ...                                                      *)
LEMMA CallPopKeeps ==
  ASSUME IInv, NEW t \in Threads, CallPop(t)
  PROVE  IInv'
  <1> USE NullAssumption DEF IInv
  <1>1. /\ pc[t] = "idle"
        /\ pc' = [pc EXCEPT ![t] = "load"]
        /\ UNCHANGED <<life, watches, element_list, hpc, slot, elem, pos, idx, leaving,
                       granted, _stack, next, node, cur, nxt, result>>
    BY CallPop(t) DEF CallPop, At, Goto, hpVars, stackVars
  <1>2. \A u \in Threads : Under(u)' = Under(u)
    BY <1>1, SlotsStay
  <1>3. \A u \in Threads : Waiting(u)' = Waiting(u)
    BY <1>1, ListsStay
  <1>4. HeldIsNotFree' /\ ScanMissesNoGrant' /\ Private' /\ WaitsOnce' /\ Shape'
    BY <1>1, <1>2, <1>3 DEF HeldIsNotFree, Holds, ScanMissesNoGrant, Scanning, Private,
       Owns, WaitsOnce, Shape
  <1>5. Types'
    BY <1>1 DEF Types, Pointers, HPStates
  <1>6. Control'
    BY <1>1 DEF Types, Control, Scanning
  <1>7. WatchProtocol'
    BY <1>1, <1>2 DEF Types, WatchProtocol, Holds
  <1>8. Unlinked'
    BY <1>1, <1>3 DEF Types, Unlinked
  <1>9. NextStands'
    BY <1>1 DEF Types, NextStands
  <1> QED
    BY <1>4, <1>5, <1>6, <1>7, <1>8, <1>9

(* ... the first load of the top ...                                       *)
LEMMA LoadKeeps ==
  ASSUME IInv, NEW t \in Threads, Load(t)
  PROVE  IInv'
  <1> USE NullAssumption DEF IInv
  <1>1. /\ pc[t] = "load"
        /\ hpc[t] = "out"
        /\ _stack # Null
        /\ pc' = [pc EXCEPT ![t] = "watch"]
        /\ hpc' = [hpc EXCEPT ![t] = "store"]
        /\ slot' = [slot EXCEPT ![t] = SHORTUSE]
        /\ elem' = [elem EXCEPT ![t] = _stack]
        /\ UNCHANGED <<life, watches, element_list, pos, idx, leaving, granted, _stack,
                       next, node, cur, nxt, result>>
    BY Load(t) DEF Load, At, Goto, WatchCall, stackVars
  <1>2. \A u \in Threads : Under(u)' = Under(u)
    BY <1>1, SlotsStay
  <1>3. \A u \in Threads : Waiting(u)' = Waiting(u)
    BY <1>1, ListsStay
  <1>4. HeldIsNotFree' /\ Private' /\ Shape'
    BY <1>1, <1>2 DEF HeldIsNotFree, Holds, Private, Owns, Shape
  <1>5. Types'
    BY <1>1 DEF Types, Pointers, HPStates
  <1>6. Control'
    BY <1>1 DEF Types, Control, Scanning
  <1>7. WatchProtocol'
    BY <1>1, <1>2 DEF Types, WatchProtocol, Holds, Pointers
  <1>8. ScanMissesNoGrant'
    BY <1>1, <1>2 DEF Types, ScanMissesNoGrant, Scanning, Holds
  <1>9. Unlinked'
    BY <1>1, <1>3 DEF Types, Unlinked
  <1>10. WaitsOnce'
    BY <1>1, <1>3 DEF Types, WaitsOnce, Scanning
  <1>11. NextStands'
    BY <1>1 DEF Types, NextStands
  <1> QED
    BY <1>4, <1>5, <1>6, <1>7, <1>8, <1>9, <1>10, <1>11

(* ... of an empty stack ...                                               *)
LEMMA LoadNullKeeps ==
  ASSUME IInv, NEW t \in Threads, LoadNull(t)
  PROVE  IInv'
  <1> USE NullAssumption DEF IInv
  <1>1. CASE node[t] = Null
    <2>1. /\ pc[t] = "load"
          /\ node[t] = Null
          /\ pc' = [pc EXCEPT ![t] = "unwatch"]
          /\ result' = [result EXCEPT ![t] = Empty]
          /\ UNCHANGED <<life, watches, element_list, hpc, slot, elem, pos, idx, leaving,
                         granted, _stack, next, node, cur, nxt>>
      BY LoadNull(t), <1>1 DEF LoadNull, At, Goto, hpVars, stackVars
    <2>2. \A u \in Threads : Under(u)' = Under(u)
      BY <2>1, SlotsStay
    <2>3. \A u \in Threads : Waiting(u)' = Waiting(u)
      BY <2>1, ListsStay
    <2>4. HeldIsNotFree' /\ ScanMissesNoGrant' /\ WaitsOnce' /\ Shape'
      BY <2>1, <2>2, <2>3 DEF HeldIsNotFree, Holds, ScanMissesNoGrant, Scanning,
         WaitsOnce, Shape
    <2>5. Types'
      BY <2>1 DEF Types, Pointers, HPStates
    <2>6. Control'
      BY <2>1 DEF Types, Control, Scanning
    <2>7. WatchProtocol'
      BY <2>1, <2>2 DEF Types, WatchProtocol, Holds
    <2>8. Private'
      BY <2>1 DEF Types, Private, Owns
    <2>9. Unlinked'
      BY <2>1, <2>3 DEF Types, Unlinked
    <2>10. NextStands'
      BY <2>1 DEF Types, NextStands
    <2> QED
      BY <2>4, <2>5, <2>6, <2>7, <2>8, <2>9, <2>10
  <1>2. CASE node[t] # Null
    <2>1. /\ pc[t] = "load"
          /\ node[t] # Null
          /\ pc' = [pc EXCEPT ![t] = "push"]
          /\ UNCHANGED <<life, watches, element_list, hpc, slot, elem, pos, idx, leaving,
                         granted, _stack, next, node, cur, nxt, result>>
      BY LoadNull(t), <1>2 DEF LoadNull, At, Goto, hpVars, stackVars
    <2>2. \A u \in Threads : Under(u)' = Under(u)
      BY <2>1, SlotsStay
    <2>3. \A u \in Threads : Waiting(u)' = Waiting(u)
      BY <2>1, ListsStay
    <2>4. HeldIsNotFree' /\ ScanMissesNoGrant' /\ Private' /\ WaitsOnce' /\ Shape'
      BY <2>1, <2>2, <2>3 DEF HeldIsNotFree, Holds, ScanMissesNoGrant, Scanning,
         Private, Owns, WaitsOnce, Shape
    <2>5. Types'
      BY <2>1 DEF Types, Pointers, HPStates
    <2>6. Control'
      BY <2>1 DEF Types, Control, Scanning
    <2>7. WatchProtocol'
      BY <2>1, <2>2 DEF Types, WatchProtocol, Holds
    <2>8. Unlinked'
      BY <2>1, <2>3 DEF Types, Unlinked
    <2>9. NextStands'
      BY <2>1 DEF Types, NextStands
    <2> QED
      BY <2>4, <2>5, <2>6, <2>7, <2>8, <2>9
  <1> QED
    BY <1>1, <1>2

(* ... the store of the watch ...                                          *)
LEMMA StoreKeeps ==
  ASSUME IInv, NEW t \in Threads, Store(t)
  PROVE  IInv'
  <1> USE NullAssumption DEF IInv
  <1>1. /\ pc[t] = "watch"
        /\ hpc[t] = "store"
        /\ hpc' = [hpc EXCEPT ![t] = "validate"]
        /\ watches' = [watches EXCEPT ![GetSlot(t, SHORTUSE)] = elem[t]]
        /\ UNCHANGED <<life, element_list, slot, elem, pos, idx, leaving, granted, _stack,
                       next, pc, node, cur, nxt, result>>
    BY Store(t) DEF Store, At, WatchStore, stackVars, opVars, Types
  <1>2. /\ watches' \in [0 .. (NumSlots - 1) -> Pointers]
         /\ Under(t)' = elem[t]
         /\ \A u \in Threads : u # t => Under(u)' = Under(u)
    <2>1. PICK p \in Pointers : p = elem[t]
      BY DEF Types, Pointers
    <2>2. watches' = [watches EXCEPT ![GetSlot(t, SHORTUSE)] = p]
      BY <1>1, <2>1
    <2> QED
      BY <2>1, <2>2, SlotWrite
  <1>3. \A u \in Threads : Waiting(u)' = Waiting(u)
    BY <1>1, ListsStay
  <1>4. Private' /\ Unlinked' /\ Shape' /\ NextStands'
    BY <1>1, <1>3 DEF Private, Owns, Unlinked, Shape, NextStands
  <1>5. Types'
    BY <1>1, <1>2 DEF Types, Pointers, HPStates
  <1>6. Control'
    BY <1>1 DEF Types, Control, Scanning
  <1>7. WatchProtocol'
    BY <1>1, <1>2 DEF Types, WatchProtocol, Holds
  <1>8. HeldIsNotFree'
    <2> SUFFICES ASSUME NEW v \in Threads, Holds(v)'
                 PROVE  Under(v)' \in Elems /\ life'[Under(v)'] \in {"live", "retired"}
      BY DEF HeldIsNotFree
    <2>1. v # t /\ Holds(v)
      BY <1>1 DEF Types, Holds, WatchProtocol
    <2>2. Under(v)' = Under(v)
      BY <1>2, <2>1
    <2> QED
      BY <1>1, <2>1, <2>2 DEF HeldIsNotFree
  <1>9. ScanMissesNoGrant'
    BY <1>1, <1>2 DEF Types, ScanMissesNoGrant, Scanning, Holds, WatchProtocol
  <1>10. WaitsOnce'
    BY <1>1, <1>3 DEF Types, WaitsOnce, Scanning
  <1> QED
    BY <1>4, <1>5, <1>6, <1>7, <1>8, <1>9, <1>10

(* ... its re-read: a grant begins, of a node that is live ...             *)
LEMMA ValidateKeeps ==
  ASSUME IInv, NEW t \in Threads, Validate(t)
  PROVE  IInv'
  <1> USE NullAssumption DEF IInv
  <1>1. CASE _stack = elem[t]
    <2>1. /\ pc[t] = "watch"
          /\ hpc[t] = "validate"
          /\ _stack = elem[t]
          /\ hpc' = [hpc EXCEPT ![t] = "on_watch"]
          /\ granted' = granted \cup {<<t, SHORTUSE>>}
          /\ UNCHANGED <<life, watches, element_list, slot, elem, pos, idx, leaving,
                         _stack, next, pc, node, cur, nxt, result>>
      BY Validate(t), <1>1 DEF Validate, At, WatchValidate, StillThere, stackVars,
         opVars, Types
    <2>2. \A u \in Threads : Under(u)' = Under(u)
      BY <2>1, SlotsStay
    <2>3. \A u \in Threads : Waiting(u)' = Waiting(u)
      BY <2>1, ListsStay
    <2>4. Private' /\ Unlinked' /\ Shape' /\ NextStands'
      BY <2>1, <2>3 DEF Private, Owns, Unlinked, Shape, NextStands
    <2>5. Types'
      BY <2>1 DEF Types, Pointers, HPStates
    <2>6. Control'
      BY <2>1 DEF Types, Control, Scanning
    <2>7. WatchProtocol'
      BY <2>1, <2>2 DEF Types, WatchProtocol, Holds
    <2>8. HeldIsNotFree'
      BY <2>1, <2>2 DEF Types, HeldIsNotFree, Holds, WatchProtocol, Shape
    <2>9. ScanMissesNoGrant'
      BY <2>1, <2>2, ScannedIsRetired DEF Types, ScanMissesNoGrant, Scanning, Holds,
         WatchProtocol, Shape
    <2>10. WaitsOnce'
      BY <2>1, <2>3 DEF Types, WaitsOnce, Scanning
    <2> QED
      BY <2>4, <2>5, <2>6, <2>7, <2>8, <2>9, <2>10
  <1>2. CASE _stack # elem[t]
    <2>1. /\ pc[t] = "watch"
          /\ hpc[t] = "validate"
          /\ hpc' = [hpc EXCEPT ![t] = "clear"]
          /\ UNCHANGED <<life, watches, element_list, slot, elem, pos, idx, leaving,
                         granted, _stack, next, pc, node, cur, nxt, result>>
      BY Validate(t), <1>2 DEF Validate, At, WatchValidate, StillThere, stackVars,
         opVars, Types
    <2>2. \A u \in Threads : Under(u)' = Under(u)
      BY <2>1, SlotsStay
    <2>3. \A u \in Threads : Waiting(u)' = Waiting(u)
      BY <2>1, ListsStay
    <2>4. HeldIsNotFree' /\ Private' /\ Unlinked' /\ Shape' /\ NextStands'
      BY <2>1, <2>2, <2>3 DEF HeldIsNotFree, Holds, Private, Owns, Unlinked, Shape,
         NextStands
    <2>5. Types'
      BY <2>1 DEF Types, Pointers, HPStates
    <2>6. Control'
      BY <2>1 DEF Types, Control, Scanning
    <2>7. WatchProtocol'
      BY <2>1, <2>2 DEF Types, WatchProtocol, Holds
    <2>8. ScanMissesNoGrant'
      BY <2>1, <2>2 DEF Types, ScanMissesNoGrant, Scanning, Holds
    <2>9. WaitsOnce'
      BY <2>1, <2>3 DEF Types, WaitsOnce, Scanning
    <2> QED
      BY <2>4, <2>5, <2>6, <2>7, <2>8, <2>9
  <1> QED
    BY <1>1, <1>2

(* ... the end of load ...                                                 *)
LEMMA WatchedKeeps ==
  ASSUME IInv, NEW t \in Threads, Watched(t)
  PROVE  IInv'
  <1> USE NullAssumption DEF IInv
  <1>1. CASE node[t] = Null
    <2>1. /\ pc[t] = "watch"
          /\ hpc[t] = "on_watch"
          /\ node[t] = Null
          /\ hpc' = [hpc EXCEPT ![t] = "out"]
          /\ elem' = [elem EXCEPT ![t] = Null]
          /\ cur' = [cur EXCEPT ![t] = elem[t]]
          /\ pc' = [pc EXCEPT ![t] = "next"]
          /\ UNCHANGED <<life, watches, element_list, slot, pos, idx, leaving, granted,
                         _stack, next, node, nxt, result>>
      BY Watched(t), <1>1 DEF Watched, At, Goto, OnWatch, stackVars
    <2>2. \A u \in Threads : Under(u)' = Under(u)
      BY <2>1, SlotsStay
    <2>3. \A u \in Threads : Waiting(u)' = Waiting(u)
      BY <2>1, ListsStay
    <2>4. HeldIsNotFree' /\ Private' /\ Shape'
      BY <2>1, <2>2 DEF HeldIsNotFree, Holds, Private, Owns, Shape
    <2>5. Types'
      BY <2>1 DEF Types, Pointers, HPStates
    <2>6. Control'
      BY <2>1 DEF Types, Control, Scanning
    <2>7. WatchProtocol'
      BY <2>1, <2>2 DEF Types, WatchProtocol, Holds
    <2>8. ScanMissesNoGrant'
      BY <2>1, <2>2 DEF Types, ScanMissesNoGrant, Scanning, Holds
    <2>9. Unlinked'
      BY <2>1, <2>3 DEF Types, Unlinked
    <2>10. WaitsOnce'
      BY <2>1, <2>3 DEF Types, WaitsOnce, Scanning
    <2>11. NextStands'
      BY <2>1 DEF Types, NextStands
    <2> QED
      BY <2>4, <2>5, <2>6, <2>7, <2>8, <2>9, <2>10, <2>11
  <1>2. CASE node[t] # Null
    <2>1. /\ pc[t] = "watch"
          /\ hpc[t] = "on_watch"
          /\ node[t] # Null
          /\ hpc' = [hpc EXCEPT ![t] = "out"]
          /\ elem' = [elem EXCEPT ![t] = Null]
          /\ cur' = [cur EXCEPT ![t] = elem[t]]
          /\ pc' = [pc EXCEPT ![t] = "push"]
          /\ UNCHANGED <<life, watches, element_list, slot, pos, idx, leaving, granted,
                         _stack, next, node, nxt, result>>
      BY Watched(t), <1>2 DEF Watched, At, Goto, OnWatch, stackVars
    <2>2. \A u \in Threads : Under(u)' = Under(u)
      BY <2>1, SlotsStay
    <2>3. \A u \in Threads : Waiting(u)' = Waiting(u)
      BY <2>1, ListsStay
    <2>4. HeldIsNotFree' /\ Private' /\ Shape'
      BY <2>1, <2>2 DEF HeldIsNotFree, Holds, Private, Owns, Shape
    <2>5. Types'
      BY <2>1 DEF Types, Pointers, HPStates
    <2>6. Control'
      BY <2>1 DEF Types, Control, Scanning
    <2>7. WatchProtocol'
      BY <2>1, <2>2 DEF Types, WatchProtocol, Holds
    <2>8. ScanMissesNoGrant'
      BY <2>1, <2>2 DEF Types, ScanMissesNoGrant, Scanning, Holds
    <2>9. Unlinked'
      BY <2>1, <2>3 DEF Types, Unlinked
    <2>10. WaitsOnce'
      BY <2>1, <2>3 DEF Types, WaitsOnce, Scanning
    <2>11. NextStands'
      BY <2>1 DEF Types, NextStands
    <2> QED
      BY <2>4, <2>5, <2>6, <2>7, <2>8, <2>9, <2>10, <2>11
  <1> QED
    BY <1>1, <1>2

(* ... or of a load that failed ...                                        *)
LEMMA NotWatchedKeeps ==
  ASSUME IInv, NEW t \in Threads, NotWatched(t)
  PROVE  IInv'
  <1> USE NullAssumption DEF IInv
  <1>1. /\ pc[t] = "watch"
        /\ hpc[t] = "clear"
        /\ hpc' = [hpc EXCEPT ![t] = "out"]
        /\ elem' = [elem EXCEPT ![t] = Null]
        /\ watches' = [watches EXCEPT ![GetSlot(t, SHORTUSE)] = Null]
        /\ pc' = [pc EXCEPT ![t] = "unwatch"]
        /\ UNCHANGED <<life, element_list, slot, pos, idx, leaving, granted, _stack, next,
                       node, cur, nxt, result>>
    BY NotWatched(t) DEF NotWatched, At, Goto, WatchClear, stackVars, Types
  <1>2. /\ watches' \in [0 .. (NumSlots - 1) -> Pointers]
         /\ Under(t)' = Null
         /\ \A u \in Threads : u # t => Under(u)' = Under(u)
    <2>1. PICK p \in Pointers : p = Null
      BY DEF Types, Pointers
    <2>2. watches' = [watches EXCEPT ![GetSlot(t, SHORTUSE)] = p]
      BY <1>1, <2>1
    <2> QED
      BY <2>1, <2>2, SlotWrite
  <1>3. \A u \in Threads : Waiting(u)' = Waiting(u)
    BY <1>1, ListsStay
  <1>4. Private' /\ Shape'
    BY <1>1 DEF Private, Owns, Shape
  <1>5. Types'
    BY <1>1, <1>2 DEF Types, Pointers, HPStates
  <1>6. Control'
    BY <1>1 DEF Types, Control, Scanning
  <1>7. WatchProtocol'
    BY <1>1, <1>2 DEF Types, WatchProtocol, Holds
  <1>8. HeldIsNotFree'
    <2>1. ~Holds(t) /\ ~Holds(t)'
      BY <1>1 DEF WatchProtocol, Holds
    <2>2. \A u \in Threads : u # t => (Holds(u)' <=> Holds(u)) /\ Under(u)' = Under(u)
      BY <1>1, <1>2 DEF Holds
    <2> QED
      BY <2>1, <2>2, <1>1 DEF HeldIsNotFree
  <1>9. ScanMissesNoGrant'
    BY <1>1, <1>2 DEF Types, ScanMissesNoGrant, Scanning, Holds, WatchProtocol
  <1>10. Unlinked'
    BY <1>1, <1>3 DEF Types, Unlinked
  <1>11. WaitsOnce'
    BY <1>1, <1>3 DEF Types, WaitsOnce, Scanning
  <1>12. NextStands'
    BY <1>1 DEF Types, NextStands
  <1> QED
    BY <1>4, <1>5, <1>6, <1>7, <1>8, <1>9, <1>10, <1>11, <1>12

(* ... push makes its node the top ...                                     *)
LEMMA PushKeeps ==
  ASSUME IInv, NEW t \in Threads, Push(t)
  PROVE  IInv'
  <1> USE NullAssumption DEF IInv
  <1>0. pc[t] = "push" /\ node[t] \in Elems /\ Owns(t) /\ life[node[t]] = "private"
    BY DEF Push, At, Types, Pointers, Control, Owns, Private
  <1>1. CASE _stack = cur[t]
    <2>1. /\ pc[t] = "push"
          /\ node[t] \in Elems
          /\ life[node[t]] = "private"
          /\ Owns(t)
          /\ _stack = cur[t]
          /\ _stack' = node[t]
          /\ life' = [life EXCEPT ![node[t]] = "live"]
          /\ result' = [result EXCEPT ![t] = Pushed]
          /\ pc' = [pc EXCEPT ![t] = "unwatch"]
          /\ next' = [next EXCEPT ![node[t]] = cur[t]]
          /\ UNCHANGED <<watches, element_list, hpc, slot, elem, pos, idx, leaving,
                         granted, node, cur, nxt>>
      BY Push(t), <1>0, <1>1 DEF Push, At, Goto, SetLife, TopIsCur, Retry, hpVars
    <2>2. \A u \in Threads : Under(u)' = Under(u)
      BY <2>1, SlotsStay
    <2>3. \A u \in Threads : Waiting(u)' = Waiting(u)
      BY <2>1, ListsStay
    <2>4. Types'
      BY <2>1 DEF Types, Pointers, HPStates
    <2>5. Control'
      BY <2>1 DEF Types, Control, Scanning
    <2>6. WatchProtocol'
      BY <2>1, <2>2 DEF Types, WatchProtocol, Holds
    <2>7. HeldIsNotFree'
      BY <2>1, <2>2 DEF Types, HeldIsNotFree, Holds
    <2>8. ScanMissesNoGrant'
      BY <2>1, <2>2 DEF ScanMissesNoGrant, Scanning, Holds
    <2>9. Private'
      BY <2>1, ResultsDiffer DEF Types, Private, Owns
    <2>10. Unlinked'
      BY <2>1, <2>3 DEF Types, Unlinked
    <2>11. WaitsOnce'
      BY <2>1, <2>3 DEF Types, WaitsOnce, Scanning
    <2>12. Shape'
      BY <2>1 DEF Types, Shape
    <2>13. NextStands'
      BY <2>1, PopHoldsCur DEF Types, NextStands
    <2> QED
      BY <2>4, <2>5, <2>6, <2>7, <2>8, <2>9, <2>10, <2>11, <2>12, <2>13
  <1>2. CASE _stack # cur[t]
    <2>1. /\ pc[t] = "push"
          /\ node[t] \in Elems
          /\ life[node[t]] = "private"
          /\ Owns(t)
          /\ pc' = [pc EXCEPT ![t] = "unwatch"]
          /\ next' = [next EXCEPT ![node[t]] = cur[t]]
          /\ UNCHANGED <<life, watches, element_list, hpc, slot, elem, pos, idx, leaving,
                         granted, _stack, node, cur, nxt, result>>
      BY Push(t), <1>0, <1>2 DEF Push, At, Goto, SetLife, TopIsCur, Retry, hpVars
    <2>2. \A u \in Threads : Under(u)' = Under(u)
      BY <2>1, SlotsStay
    <2>3. \A u \in Threads : Waiting(u)' = Waiting(u)
      BY <2>1, ListsStay
    <2>4. HeldIsNotFree' /\ ScanMissesNoGrant' /\ WaitsOnce'
      BY <2>1, <2>2, <2>3 DEF HeldIsNotFree, Holds, ScanMissesNoGrant, Scanning,
         WaitsOnce
    <2>5. Types'
      BY <2>1 DEF Types, Pointers, HPStates
    <2>6. Control'
      BY <2>1 DEF Types, Control, Scanning
    <2>7. WatchProtocol'
      BY <2>1, <2>2 DEF Types, WatchProtocol, Holds
    <2>8. Private'
      BY <2>1, ResultsDiffer DEF Private, Owns
    <2>9. Unlinked'
      BY <2>1, <2>3 DEF Types, Unlinked
    <2>10. Shape'
      BY <2>1 DEF Types, Shape
    <2>11. NextStands'
      BY <2>1, PopHoldsCur DEF Types, NextStands
    <2> QED
      BY <2>4, <2>5, <2>6, <2>7, <2>8, <2>9, <2>10, <2>11
  <1> QED
    BY <1>1, <1>2

(* ... pop reads what is below ...                                         *)
LEMMA ReadNextKeeps ==
  ASSUME IInv, NEW t \in Threads, ReadNext(t)
  PROVE  IInv'
  <1> USE NullAssumption DEF IInv
  <1>1. /\ pc[t] = "next"
        /\ cur[t] \in Elems
        /\ nxt' = [nxt EXCEPT ![t] = next[cur[t]]]
        /\ pc' = [pc EXCEPT ![t] = "cas"]
        /\ UNCHANGED <<life, watches, element_list, hpc, slot, elem, pos, idx, leaving,
                       granted, _stack, next, node, cur, result>>
    BY ReadNext(t), PopHoldsCur DEF ReadNext, At, Goto, hpVars, stackVars
  <1>2. \A u \in Threads : Under(u)' = Under(u)
    BY <1>1, SlotsStay
  <1>3. \A u \in Threads : Waiting(u)' = Waiting(u)
    BY <1>1, ListsStay
  <1>4. HeldIsNotFree' /\ ScanMissesNoGrant' /\ Private' /\ WaitsOnce' /\ Shape'
    BY <1>1, <1>2, <1>3 DEF HeldIsNotFree, Holds, ScanMissesNoGrant, Scanning, Private,
       Owns, WaitsOnce, Shape
  <1>5. Types'
    BY <1>1 DEF Types, Pointers, HPStates
  <1>6. Control'
    BY <1>1 DEF Types, Control, Scanning
  <1>7. WatchProtocol'
    BY <1>1, <1>2 DEF Types, WatchProtocol, Holds
  <1>8. Unlinked'
    BY <1>1, <1>3 DEF Types, Unlinked
  <1>9. NextStands'
    BY <1>1 DEF Types, NextStands
  <1> QED
    BY <1>4, <1>5, <1>6, <1>7, <1>8, <1>9

(* ... and takes the top off ...                                           *)
LEMMA UnlinkKeeps ==
  ASSUME IInv, NEW t \in Threads, Unlink(t)
  PROVE  IInv'
  <1> USE NullAssumption DEF IInv
  <1>1. CASE _stack = cur[t]
    <2>1. /\ pc[t] = "cas"
          /\ _stack = cur[t]
          /\ cur[t] \in Elems
          /\ life[cur[t]] = "live"
          /\ nxt[t] = next[cur[t]]
          /\ _stack' = nxt[t]
          /\ life' = [life EXCEPT ![cur[t]] = "retired"]
          /\ pc' = [pc EXCEPT ![t] = "value"]
          /\ UNCHANGED <<watches, element_list, hpc, slot, elem, pos, idx, leaving,
                         granted, next, node, cur, nxt, result>>
      BY Unlink(t), PopHoldsCur, <1>1 DEF Unlink, At, Goto, SetLife, TopIsCur, hpVars,
         Shape, NextStands
    <2>2. \A u \in Threads : Under(u)' = Under(u)
      BY <2>1, SlotsStay
    <2>3. \A u \in Threads : Waiting(u)' = Waiting(u)
      BY <2>1, ListsStay
    <2>4. Types'
      BY <2>1 DEF Types, Pointers, HPStates
    <2>5. Control'
      BY <2>1 DEF Types, Control, Scanning
    <2>6. WatchProtocol'
      BY <2>1, <2>2 DEF Types, WatchProtocol, Holds
    <2>7. HeldIsNotFree'
      BY <2>1, <2>2 DEF Types, HeldIsNotFree, Holds
    <2>8. ScanMissesNoGrant'
      BY <2>1, <2>2 DEF ScanMissesNoGrant, Scanning, Holds
    <2>9. Private'
      BY <2>1 DEF Types, Private, Owns
    <2>10. Unlinked'
      BY <2>1, <2>3 DEF Types, Unlinked, WaitsOnce
    <2>11. WaitsOnce'
      BY <2>1, <2>3 DEF Types, WaitsOnce, Scanning
    <2>12. Shape'
      BY <2>1 DEF Types, Shape
    <2>13. NextStands'
      BY <2>1 DEF Types, NextStands
    <2> QED
      BY <2>4, <2>5, <2>6, <2>7, <2>8, <2>9, <2>10, <2>11, <2>12, <2>13
  <1>2. CASE _stack # cur[t]
    <2>1. /\ pc[t] = "cas"
          /\ pc' = [pc EXCEPT ![t] = "unwatch"]
          /\ UNCHANGED <<life, watches, element_list, hpc, slot, elem, pos, idx, leaving,
                         granted, _stack, next, node, cur, nxt, result>>
      BY Unlink(t), PopHoldsCur, <1>2 DEF Unlink, At, Goto, SetLife, TopIsCur, hpVars
    <2>2. \A u \in Threads : Under(u)' = Under(u)
      BY <2>1, SlotsStay
    <2>3. \A u \in Threads : Waiting(u)' = Waiting(u)
      BY <2>1, ListsStay
    <2>4. HeldIsNotFree' /\ ScanMissesNoGrant' /\ Private' /\ WaitsOnce' /\ Shape'
      BY <2>1, <2>2, <2>3 DEF HeldIsNotFree, Holds, ScanMissesNoGrant, Scanning,
         Private, Owns, WaitsOnce, Shape
    <2>5. Types'
      BY <2>1 DEF Types, Pointers, HPStates
    <2>6. Control'
      BY <2>1 DEF Types, Control, Scanning
    <2>7. WatchProtocol'
      BY <2>1, <2>2 DEF Types, WatchProtocol, Holds
    <2>8. Unlinked'
      BY <2>1, <2>3 DEF Types, Unlinked
    <2>9. NextStands'
      BY <2>1 DEF Types, NextStands
    <2> QED
      BY <2>4, <2>5, <2>6, <2>7, <2>8, <2>9
  <1> QED
    BY <1>1, <1>2

(* ... passes it to safe_delete ...                                        *)
LEMMA ValueKeeps ==
  ASSUME IInv, NEW t \in Threads, Value(t)
  PROVE  IInv'
  <1> USE NullAssumption DEF IInv
  <1>e. PICK es : es = AddToUnsafe(cur[t], element_list[t])
    OBVIOUS
  <1>k. PICK k : k = Position(2, es)
    OBVIOUS
  <1>1. /\ pc[t] = "value"
        /\ hpc[t] = "out"
        /\ node[t] = Null
        /\ \E v : result' = [result EXCEPT ![t] = Popped(v)]
        /\ element_list' = [element_list EXCEPT ![t] = es]
        /\ pos' = [pos EXCEPT ![t] = k]
        /\ idx' = [idx EXCEPT ![t] = 0]
        /\ hpc' = [hpc EXCEPT ![t] = "contains"]
        /\ pc' = [pc EXCEPT ![t] = "unwatch"]
        /\ UNCHANGED <<life, watches, slot, elem, leaving, granted, _stack, next, node,
                       cur, nxt>>
    BY Value(t), <1>e, <1>k DEF Value, At, Goto, SafeDelete, GoTo, stackVars, Control
  <1>2. \A u \in Threads : Under(u)' = Under(u)
    BY <1>1, SlotsStay
  <1>4. /\ es \in Seq(Elems)
        /\ Range(es) = Waiting(t) \cup {cur[t]}
        /\ \A i, j \in DOMAIN es : es[i] = es[j] => i = j
        /\ k \in 1 .. Len(es)
        /\ cur[t] \in Elems /\ cur[t] \notin Waiting(t) /\ life[cur[t]] = "retired"
    <2>1. cur[t] \in Elems /\ cur[t] \notin Waiting(t) /\ life[cur[t]] = "retired"
      BY <1>1, PopHoldsCur DEF Unlinked
    <2>2. element_list[t] \in Seq(Elems) /\ es = <<cur[t]>> \o element_list[t]
      BY <1>e DEF Types, AddToUnsafe
    <2>3. \A i, j \in DOMAIN element_list[t] : element_list[t][i] = element_list[t][j] => i = j
      BY DEF WaitsOnce
    <2>4. /\ es \in Seq(Elems) /\ es # <<>>
          /\ Range(es) = Waiting(t) \cup {cur[t]}
          /\ \A i, j \in DOMAIN es : es[i] = es[j] => i = j
      BY <2>1, <2>2, <2>3, PrependRange DEF Waiting, Once
    <2> QED
      BY <2>1, <2>4, <1>k, PositionInRange
  <1>3. /\ Waiting(t)' = Waiting(t) \cup {cur[t]}
        /\ \A u \in Threads : u # t => Waiting(u)' = Waiting(u)
    BY <1>1, <1>4 DEF Waiting, Types
  <1>6. HeldIsNotFree' /\ Shape'
    BY <1>1, <1>2 DEF HeldIsNotFree, Holds, Shape
  <1>7. Types'
    <2>1. element_list' \in [Threads -> Seq(Elems)]
      BY <1>1, <1>4 DEF Types
    <2>2. k \in Nat
      BY <1>4
    <2> QED
      BY <1>1, <2>1, <2>2, NumSlotsPositive DEF Types, HPStates
  <1>8. Control'
    BY <1>1 DEF Types, Control, Scanning
  <1>9. WatchProtocol'
    BY <1>1, <1>2 DEF Types, WatchProtocol, Holds
  <1>10. ScanMissesNoGrant'
    BY <1>1, <1>2, GetSlotRange, ShortUse DEF Types, ScanMissesNoGrant, Scanning, Holds
  <1>11. Private'
    BY <1>1, ResultsDiffer DEF Types, Private, Owns
  <1>12. Unlinked'
    <2> SUFFICES ASSUME NEW u \in Threads, pc'[u] = "value"
                PROVE  /\ life'[cur'[u]] = "retired"
                       /\ \A w \in Threads : pc'[w] = "value" /\ cur'[w] = cur'[u] => w = u
                       /\ \A w \in Threads : cur'[u] \notin Waiting(w)'
      BY DEF Unlinked
    <2>1. u # t /\ pc[u] = "value" /\ cur[u] # cur[t]
      BY <1>1 DEF Types, Unlinked
    <2>2. \A w \in Threads : pc'[w] = "value" => pc[w] = "value"
      BY <1>1 DEF Types
    <2> QED
      BY <1>1, <1>3, <2>1, <2>2 DEF Unlinked
  <1>13. WaitsOnce'
    <2>5. \A w \in Threads : Waiting(w)' \subseteq Waiting(w) \cup {cur[t]}
      BY <1>3
    <2>6. \A w \in Threads : \A f \in Waiting(w) \cup {cur[t]} : life'[f] = "retired"
      BY <1>1, <1>4 DEF WaitsOnce
    <2>1. \A w \in Threads : \A f \in Waiting(w)' : life'[f] = "retired"
      BY <2>5, <2>6
    <2>2. \A w \in Threads : \A i, j \in DOMAIN element_list'[w] :
            element_list'[w][i] = element_list'[w][j] => i = j
      BY <1>4, <1>1 DEF Types, WaitsOnce
    <2>3. \A w, u \in Threads : u # w => Waiting(w)' \cap Waiting(u)' = {}
      BY <1>4, <1>3, <1>1 DEF WaitsOnce, Unlinked
    <2>4. \A w \in Threads : Scanning(w)' => pos'[w] \in 1 .. Len(element_list'[w])
      BY <1>4, <1>1 DEF Types, WaitsOnce, Scanning
    <2> QED
      BY <2>1, <2>2, <2>3, <2>4 DEF WaitsOnce
  <1>14. NextStands'
    BY <1>1 DEF Types, NextStands
  <1> QED
    BY <1>6, <1>7, <1>8, <1>9, <1>10, <1>11, <1>12, <1>13, <1>14

(* ... a scan goes past what must stay ...                                 *)
LEMMA KeptKeeps ==
  ASSUME IInv, NEW t \in Threads, Scanning(t),
         UNCHANGED <<watches, slot, elem, leaving, granted, stackVars, opVars>>,
         Keep(t)
  PROVE  IInv'
  <1> USE NullAssumption DEF IInv
  <1>0. Scanning(t) /\ leaving[t] = FALSE /\
        UNCHANGED <<watches, slot, elem, leaving, granted, stackVars, opVars>>
    BY DEF Types
  <1>k. PICK k : k = Position(pos[t] + 1, element_list[t])
    OBVIOUS
  <1>q. k \in 1 .. Len(element_list[t])
    <2>1. element_list[t] \in Seq(Elems) /\ element_list[t] # <<>> /\ pos[t] + 1 \in Nat \ {0}
      BY ScannedIsRetired DEF Types
    <2> QED
      BY <2>1, <1>k, PositionInRange
  <1>1. CASE pos[t] = 1
    <2>1. /\ Scanning(t)
          /\ hpc' = [hpc EXCEPT ![t] = "out"]
          /\ pos' = [pos EXCEPT ![t] = 0]
          /\ idx' = [idx EXCEPT ![t] = 0]
          /\ UNCHANGED <<life, watches, element_list, slot, elem, leaving, granted,
                         _stack, next, pc, node, cur, nxt, result>>
      BY Keep(t), <1>k, <1>q, <1>0, <1>1 DEF Keep, Leave, AfterScan, GoTo, stackVars, opVars
    <2>2. \A u \in Threads : Under(u)' = Under(u)
      BY <2>1, SlotsStay
    <2>3. \A u \in Threads : Waiting(u)' = Waiting(u)
      BY <2>1, ListsStay
    <2>4. HeldIsNotFree' /\ Private' /\ Unlinked' /\ Shape' /\ NextStands'
      BY <2>1, <2>2, <2>3 DEF HeldIsNotFree, Holds, Private, Owns, Unlinked, Shape,
         NextStands
    <2>5. Types'
      BY <2>1, NumSlotsPositive DEF Types, Pointers, HPStates
    <2>6. Control'
      BY <2>1 DEF Types, Control, Scanning
    <2>7. WatchProtocol'
      BY <2>1, <2>2 DEF Types, WatchProtocol, Holds
    <2>8. ScanMissesNoGrant'
      BY <2>1, <2>2 DEF Types, ScanMissesNoGrant, Scanning, Holds
    <2>9. WaitsOnce'
      BY <2>1, <2>3 DEF Types, WaitsOnce, Scanning
    <2> QED
      BY <2>4, <2>5, <2>6, <2>7, <2>8, <2>9
  <1>2. CASE pos[t] # 1
    <2>1. /\ Scanning(t)
          /\ k \in 1 .. Len(element_list[t])
          /\ hpc' = [hpc EXCEPT ![t] = "contains"]
          /\ pos' = [pos EXCEPT ![t] = k]
          /\ idx' = [idx EXCEPT ![t] = 0]
          /\ UNCHANGED <<life, watches, element_list, slot, elem, leaving, granted,
                         _stack, next, pc, node, cur, nxt, result>>
      BY Keep(t), <1>k, <1>q, <1>0, <1>2 DEF Keep, Leave, AfterScan, GoTo, stackVars, opVars
    <2>2. \A u \in Threads : Under(u)' = Under(u)
      BY <2>1, SlotsStay
    <2>3. \A u \in Threads : Waiting(u)' = Waiting(u)
      BY <2>1, ListsStay
    <2>4. HeldIsNotFree' /\ Private' /\ Unlinked' /\ Shape' /\ NextStands'
      BY <2>1, <2>2, <2>3 DEF HeldIsNotFree, Holds, Private, Owns, Unlinked, Shape,
         NextStands
    <2>5. Types'
      BY <2>1, NumSlotsPositive DEF Types, Pointers, HPStates
    <2>6. Control'
      BY <2>1 DEF Types, Control, Scanning
    <2>7. WatchProtocol'
      BY <2>1, <2>2 DEF Types, WatchProtocol, Holds
    <2>8. ScanMissesNoGrant'
      BY <2>1, <2>2, GetSlotRange, ShortUse DEF Types, ScanMissesNoGrant, Scanning,
         Holds
    <2>9. WaitsOnce'
      BY <2>1, <2>3 DEF Types, WaitsOnce, Scanning
    <2> QED
      BY <2>4, <2>5, <2>6, <2>7, <2>8, <2>9
  <1> QED
    BY <1>1, <1>2

(* ... it reads a slot ...                                                 *)
LEMMA ScanKeeps ==
  ASSUME IInv, NEW t \in Threads, Scan(t)
  PROVE  IInv'
  <1> USE NullAssumption DEF IInv
  <1>1. CASE watches[idx[t]] = element_list[t][pos[t]]
    <2>1. /\ Scanning(t) /\ Keep(t)
          /\ UNCHANGED <<watches, slot, elem, leaving, granted, stackVars, opVars>>
      BY Scan(t), <1>1 DEF Scan, ScanSlot, LastSlot, stackVars, opVars, Scanning
    <2> QED
      BY <2>1, KeptKeeps
  <1>2. CASE watches[idx[t]] # element_list[t][pos[t]] /\ idx[t] + 1 # NumSlots
    <2>1. /\ hpc[t] = "contains"
          /\ watches[idx[t]] # element_list[t][pos[t]]
          /\ idx[t] + 1 # NumSlots
          /\ idx' = [idx EXCEPT ![t] = idx[t] + 1]
          /\ UNCHANGED <<life, watches, element_list, hpc, slot, elem, pos, leaving,
                         granted, _stack, next, pc, node, cur, nxt, result>>
      BY Scan(t), <1>2 DEF Scan, ScanSlot, LastSlot, stackVars, opVars
    <2>2. \A u \in Threads : Under(u)' = Under(u)
      BY <2>1, SlotsStay
    <2>3. \A u \in Threads : Waiting(u)' = Waiting(u)
      BY <2>1, ListsStay
    <2>4. Control' /\ WatchProtocol' /\ HeldIsNotFree' /\ Private' /\ Unlinked' /\ WaitsOnce'
            /\ Shape' /\ NextStands'
      BY <2>1, <2>2, <2>3 DEF Control, Scanning, WatchProtocol, Holds, HeldIsNotFree,
         Private, Owns, Unlinked, WaitsOnce, Shape, NextStands
    <2>5. Types'
      <3>1. idx[t] + 1 \in 0 .. (NumSlots - 1)
        BY <2>1, NumSlotsPositive DEF Types
      <3> QED
        BY <2>1, <3>1 DEF Types, HPStates
    <2>6. ScanMissesNoGrant'
      <3> SUFFICES ASSUME NEW u \in Threads, Scanning(u)', NEW v \in Threads, Holds(v)',
                          Under(v)' = element_list'[u][pos'[u]]
                   PROVE  hpc'[u] = "contains" /\ idx'[u] <= GetSlot(v, SHORTUSE)
        BY DEF ScanMissesNoGrant
      <3>1. Holds(v) /\ Scanning(u) /\ Under(v) = element_list[u][pos[u]]
        BY <2>1, <2>2 DEF Holds, Scanning
      <3>2. hpc[u] = "contains" /\ idx[u] <= GetSlot(v, SHORTUSE)
        BY <3>1 DEF ScanMissesNoGrant
      <3>3. CASE u = t
        <4>1. GetSlot(v, SHORTUSE) \in 0 .. (NumSlots - 1) /\ idx[t] \in 0 .. (NumSlots - 1)
          BY GetSlotRange, ShortUse DEF Types
        <4>2. GetSlot(v, SHORTUSE) # idx[t]
          BY <2>1, <3>1, <3>3 DEF Under, WatchedBy
        <4>3. idx[t] + 1 <= GetSlot(v, SHORTUSE)
          BY <3>2, <3>3, <4>1, <4>2
        <4>4. idx'[t] = idx[t] + 1 /\ hpc'[t] = "contains"
          BY <2>1 DEF Types
        <4> QED
          BY <3>3, <4>3, <4>4
      <3>4. CASE u # t
        BY <2>1, <3>2, <3>4 DEF Types
      <3> QED
        BY <3>3, <3>4
    <2> QED
      BY <2>4, <2>5, <2>6
  <1>3. CASE watches[idx[t]] # element_list[t][pos[t]] /\ idx[t] + 1 = NumSlots
    <2>1. /\ hpc[t] = "contains"
          /\ watches[idx[t]] # element_list[t][pos[t]]
          /\ idx[t] + 1 = NumSlots
          /\ hpc' = [hpc EXCEPT ![t] = "on_is_watched"]
          /\ UNCHANGED <<life, watches, element_list, slot, elem, pos, idx, leaving,
                         granted, _stack, next, pc, node, cur, nxt, result>>
      BY Scan(t), <1>3 DEF Scan, ScanSlot, LastSlot, stackVars, opVars
    <2>2. \A u \in Threads : Under(u)' = Under(u)
      BY <2>1, SlotsStay
    <2>3. \A u \in Threads : Waiting(u)' = Waiting(u)
      BY <2>1, ListsStay
    <2>4. HeldIsNotFree' /\ Private' /\ Unlinked' /\ Shape' /\ NextStands'
      BY <2>1, <2>2, <2>3 DEF HeldIsNotFree, Holds, Private, Owns, Unlinked, Shape,
         NextStands
    <2>5. Types'
      BY <2>1 DEF Types, Pointers, HPStates
    <2>6. Control'
      BY <2>1 DEF Types, Control, Scanning
    <2>7. WatchProtocol'
      BY <2>1, <2>2 DEF Types, WatchProtocol, Holds
    <2>8. ScanMissesNoGrant'
      <3> SUFFICES ASSUME NEW u \in Threads, Scanning(u)', NEW v \in Threads, Holds(v)',
                          Under(v)' = element_list'[u][pos'[u]]
                   PROVE  hpc'[u] = "contains" /\ idx'[u] <= GetSlot(v, SHORTUSE)
        BY DEF ScanMissesNoGrant
      <3>1. Holds(v) /\ Scanning(u) /\ Under(v) = element_list[u][pos[u]]
        BY <2>1, <2>2 DEF Holds, Scanning, Types
      <3>2. hpc[u] = "contains" /\ idx[u] <= GetSlot(v, SHORTUSE)
        BY <3>1 DEF ScanMissesNoGrant
      <3>3. CASE u = t
        <4>1. GetSlot(v, SHORTUSE) \in 0 .. (NumSlots - 1) /\ idx[t] \in 0 .. (NumSlots - 1)
          BY GetSlotRange, ShortUse DEF Types
        <4>2. GetSlot(v, SHORTUSE) = idx[t]
          BY <2>1, <3>2, <3>3, <4>1, NumSlotsPositive
        <4>3. Under(v) = watches[idx[t]]
          BY <4>2 DEF Under, WatchedBy
        <4> QED
          BY <2>1, <3>1, <3>3, <4>3
      <3>4. CASE u # t
        BY <2>1, <3>2, <3>4 DEF Types
      <3> QED
        BY <3>3, <3>4
    <2>9. WaitsOnce'
      BY <2>1, <2>3 DEF Types, WaitsOnce, Scanning
    <2> QED
      BY <2>4, <2>5, <2>6, <2>7, <2>8, <2>9
  <1> QED
    BY <1>1, <1>2, <1>3

(* ... and frees what it found in none ...                                 *)
LEMMA NotHeldKeeps ==
  ASSUME IInv, NEW t \in Threads, NotHeld(t)
  PROVE  IInv'
  <1> USE NullAssumption DEF IInv
  <1>e. PICK e : e = element_list[t][pos[t]]
    OBVIOUS
  <1>p. PICK es : es = RemoveAt(element_list[t], pos[t])
    OBVIOUS
  <1>k. PICK k : k = Position(pos[t], es)
    OBVIOUS
  <1>0. hpc[t] = "on_is_watched" /\ Scanning(t) /\ leaving[t] = FALSE
    BY DEF NotHeld, OnIsWatched, Scanning, Types
  <1>4. /\ e \in Elems /\ life[e] = "retired" /\ e \in Waiting(t)
        /\ e = element_list[t][pos[t]]
        /\ es \in Seq(Elems)
        /\ Range(es) = Waiting(t) \ {e}
        /\ \A i, j \in DOMAIN es : es[i] = es[j] => i = j
    <2>1. e \in Elems /\ life[e] = "retired" /\ e \in Waiting(t)
      BY <1>0, <1>e, ScannedIsRetired
    <2>2. /\ element_list[t] \in Seq(Elems) /\ pos[t] \in 1 .. Len(element_list[t])
          /\ \A i, j \in DOMAIN element_list[t] : element_list[t][i] = element_list[t][j] => i = j
      BY <1>0 DEF Types, WaitsOnce
    <2>3. /\ es \in Seq(Elems)
          /\ Range(es) = Waiting(t) \ {e}
          /\ \A i, j \in DOMAIN es : es[i] = es[j] => i = j
      BY <2>2, <1>e, <1>p, RemoveAtRange DEF Waiting, Once
    <2> QED
      BY <1>e, <2>1, <2>3
  <1>5. pos[t] # 1 => k \in 1 .. Len(es)
    <2> SUFFICES ASSUME pos[t] # 1 PROVE k \in 1 .. Len(es)
      OBVIOUS
    <2>1. element_list[t] \in Seq(Elems) /\ pos[t] \in 1 .. Len(element_list[t])
      BY <1>0 DEF Types, WaitsOnce
    <2>2. Len(es) = Len(element_list[t]) - 1 /\ es # <<>> /\ pos[t] \in Nat \ {0}
      BY <2>1, <1>p, <1>4, RemoveAtIndices
    <2> QED
      BY <2>2, <1>k, <1>4, PositionInRange
  <1>1. CASE pos[t] = 1
    <2>1. /\ hpc[t] = "on_is_watched"
          /\ life' = [life EXCEPT ![e] = "free"]
          /\ element_list' = [element_list EXCEPT ![t] = es]
          /\ hpc' = [hpc EXCEPT ![t] = "out"]
          /\ pos' = [pos EXCEPT ![t] = 0]
          /\ idx' = [idx EXCEPT ![t] = 0]
          /\ UNCHANGED <<watches, slot, elem, leaving, granted, _stack, next, pc, node,
                         cur, nxt, result>>
      BY NotHeld(t), <1>e, <1>p, <1>k, <1>1 DEF NotHeld, OnIsWatched, Delete, Leave,
         AfterScan, GoTo, stackVars, opVars, Types
    <2>2. \A u \in Threads : Under(u)' = Under(u)
      BY <2>1, SlotsStay
    <2>3. /\ Waiting(t)' = Waiting(t) \ {e}
         /\ \A u \in Threads : u # t => Waiting(u)' = Waiting(u)
      BY <2>1, <1>4 DEF Waiting, Types
    <2>6. Types'
      BY <2>1, NumSlotsPositive, <1>4 DEF Types, Pointers, HPStates
    <2>7. Control'
      BY <2>1 DEF Types, Control, Scanning
    <2>8. WatchProtocol'
      BY <2>1, <2>2 DEF Types, WatchProtocol, Holds
    <2>9. HeldIsNotFree'
      BY <2>1, <2>2, <1>4 DEF Types, HeldIsNotFree, Holds, ScanMissesNoGrant, Scanning
    <2>10. ScanMissesNoGrant'
      BY <2>1, <2>2 DEF Types, ScanMissesNoGrant, Scanning, Holds
    <2>11. Private'
      BY <2>1, <1>4 DEF Types, Private, Owns
    <2>12. Unlinked'
      <3>1. \A u \in Threads : pc[u] = "value" => cur[u] \in Elems /\ cur[u] # e
        BY <1>4, PopHoldsCur DEF Unlinked
      <3>2. \A u \in Threads : Waiting(u)' \subseteq Waiting(u)
        BY <2>3
      <3>3. \A f \in Elems : f # e => life'[f] = life[f]
        BY <2>1 DEF Types
      <3>4. pc' = pc /\ cur' = cur
        BY <2>1
      <3> QED
        BY <3>1, <3>2, <3>3, <3>4 DEF Unlinked
    <2>13. WaitsOnce'
      <3>5. \A w \in Threads : Waiting(w)' \subseteq Waiting(w) \ {e}
        BY <2>3, <1>4 DEF WaitsOnce
      <3>6. \A w \in Threads : \A f \in Waiting(w) \ {e} : life'[f] = "retired"
        BY <2>1, WaitingAreElements DEF Types, WaitsOnce
      <3>1. \A w \in Threads : \A f \in Waiting(w)' : life'[f] = "retired"
        BY <3>5, <3>6
      <3>2. \A w \in Threads : \A i, j \in DOMAIN element_list'[w] :
              element_list'[w][i] = element_list'[w][j] => i = j
        BY <1>4, <2>1 DEF Types, WaitsOnce
      <3>3. \A w, u \in Threads : u # w => Waiting(w)' \cap Waiting(u)' = {}
        BY <1>4, <2>3 DEF WaitsOnce, Unlinked
      <3>4. \A w \in Threads : Scanning(w)' => pos'[w] \in 1 .. Len(element_list'[w])
        BY <2>1 DEF Types, WaitsOnce, Scanning
      <3> QED
        BY <3>1, <3>2, <3>3, <3>4 DEF WaitsOnce
    <2>14. Shape'
      BY <2>1, <1>4 DEF Types, Shape
    <2>15. NextStands'
      BY <2>1 DEF NextStands
    <2> QED
      BY <2>6, <2>7, <2>8, <2>9, <2>10, <2>11, <2>12, <2>13, <2>14, <2>15
  <1>2. CASE pos[t] # 1
    <2>1. /\ hpc[t] = "on_is_watched"
          /\ pos[t] # 1
          /\ life' = [life EXCEPT ![e] = "free"]
          /\ element_list' = [element_list EXCEPT ![t] = es]
          /\ hpc' = [hpc EXCEPT ![t] = "contains"]
          /\ pos' = [pos EXCEPT ![t] = k]
          /\ idx' = [idx EXCEPT ![t] = 0]
          /\ UNCHANGED <<watches, slot, elem, leaving, granted, _stack, next, pc, node,
                         cur, nxt, result>>
      BY NotHeld(t), <1>e, <1>p, <1>k, <1>2 DEF NotHeld, OnIsWatched, Delete, Leave,
         AfterScan, GoTo, stackVars, opVars, Types
    <2>2. \A u \in Threads : Under(u)' = Under(u)
      BY <2>1, SlotsStay
    <2>3. /\ Waiting(t)' = Waiting(t) \ {e}
         /\ \A u \in Threads : u # t => Waiting(u)' = Waiting(u)
      BY <2>1, <1>4 DEF Waiting, Types
    <2>6. Types'
      <3>1. element_list' \in [Threads -> Seq(Elems)]
        BY <2>1, <1>4 DEF Types
      <3>2. k \in Nat
        BY <2>1, <1>4, <1>5
      <3> QED
        BY <2>1, <3>1, <3>2, NumSlotsPositive DEF Types, HPStates
    <2>7. Control'
      BY <2>1 DEF Types, Control, Scanning
    <2>8. WatchProtocol'
      BY <2>1, <2>2 DEF Types, WatchProtocol, Holds
    <2>9. HeldIsNotFree'
      BY <2>1, <2>2, <1>4 DEF Types, HeldIsNotFree, Holds, ScanMissesNoGrant, Scanning
    <2>10. ScanMissesNoGrant'
      BY <2>1, <2>2, GetSlotRange, ShortUse DEF Types, ScanMissesNoGrant, Scanning,
         Holds
    <2>11. Private'
      BY <2>1, <1>4 DEF Types, Private, Owns
    <2>12. Unlinked'
      <3>1. \A u \in Threads : pc[u] = "value" => cur[u] \in Elems /\ cur[u] # e
        BY <1>4, PopHoldsCur DEF Unlinked
      <3>2. \A u \in Threads : Waiting(u)' \subseteq Waiting(u)
        BY <2>3
      <3>3. \A f \in Elems : f # e => life'[f] = life[f]
        BY <2>1 DEF Types
      <3>4. pc' = pc /\ cur' = cur
        BY <2>1
      <3> QED
        BY <3>1, <3>2, <3>3, <3>4 DEF Unlinked
    <2>13. WaitsOnce'
      <3>5. \A w \in Threads : Waiting(w)' \subseteq Waiting(w) \ {e}
        BY <2>3, <1>4 DEF WaitsOnce
      <3>6. \A w \in Threads : \A f \in Waiting(w) \ {e} : life'[f] = "retired"
        BY <2>1, WaitingAreElements DEF Types, WaitsOnce
      <3>1. \A w \in Threads : \A f \in Waiting(w)' : life'[f] = "retired"
        BY <3>5, <3>6
      <3>2. \A w \in Threads : \A i, j \in DOMAIN element_list'[w] :
              element_list'[w][i] = element_list'[w][j] => i = j
        BY <1>4, <2>1 DEF Types, WaitsOnce
      <3>3. \A w, u \in Threads : u # w => Waiting(w)' \cap Waiting(u)' = {}
        BY <1>4, <2>3 DEF WaitsOnce, Unlinked
      <3>4. \A w \in Threads : Scanning(w)' => pos'[w] \in 1 .. Len(element_list'[w])
        BY <1>5, <2>1 DEF Types, WaitsOnce, Scanning
      <3> QED
        BY <3>1, <3>2, <3>3, <3>4 DEF WaitsOnce
    <2>14. Shape'
      BY <2>1, <1>4 DEF Types, Shape
    <2>15. NextStands'
      BY <2>1 DEF NextStands
    <2> QED
      BY <2>6, <2>7, <2>8, <2>9, <2>10, <2>11, <2>12, <2>13, <2>14, <2>15
  <1> QED
    BY <1>1, <1>2

(* ... ~Accessor ...                                                       *)
LEMMA LeaveScopeKeeps ==
  ASSUME IInv, NEW t \in Threads, LeaveScope(t)
  PROVE  IInv'
  <1> USE NullAssumption DEF IInv
  <1>1. CASE result[t] = NoResult
    <2>1. /\ pc[t] = "unwatch"
          /\ hpc[t] = "out"
          /\ result[t] = NoResult
          /\ watches' = [watches EXCEPT ![GetSlot(t, SHORTUSE)] = Null]
          /\ granted' = granted \ {<<t, SHORTUSE>>}
          /\ cur' = [cur EXCEPT ![t] = Null]
          /\ nxt' = [nxt EXCEPT ![t] = Null]
          /\ pc' = [pc EXCEPT ![t] = "load"]
          /\ UNCHANGED <<life, element_list, hpc, slot, elem, pos, idx, leaving, _stack,
                         next, node, result>>
      BY LeaveScope(t), <1>1 DEF LeaveScope, At, Goto, Unwatch, stackVars
    <2>2. /\ watches' \in [0 .. (NumSlots - 1) -> Pointers]
           /\ Under(t)' = Null
           /\ \A u \in Threads : u # t => Under(u)' = Under(u)
      <3>1. PICK p \in Pointers : p = Null
        BY DEF Types, Pointers
      <3>2. watches' = [watches EXCEPT ![GetSlot(t, SHORTUSE)] = p]
        BY <2>1, <3>1
      <3> QED
        BY <3>1, <3>2, SlotWrite
    <2>3. \A u \in Threads : Waiting(u)' = Waiting(u)
      BY <2>1, ListsStay
    <2>4. Private' /\ WaitsOnce' /\ Shape'
      BY <2>1, <2>3 DEF Private, Owns, WaitsOnce, Scanning, Shape
    <2>5. Types'
      BY <2>1, <2>2 DEF Types, Pointers, HPStates
    <2>6. Control'
      BY <2>1 DEF Types, Control, Scanning
    <2>7. WatchProtocol'
      BY <2>1, <2>2 DEF Types, WatchProtocol, Holds
    <2>8. HeldIsNotFree'
      BY <2>1, <2>2 DEF Types, HeldIsNotFree, Holds
    <2>9. ScanMissesNoGrant'
      BY <2>1, <2>2 DEF Types, ScanMissesNoGrant, Scanning, Holds
    <2>10. Unlinked'
      BY <2>1, <2>3 DEF Types, Unlinked
    <2>11. NextStands'
      BY <2>1 DEF Types, NextStands
    <2> QED
      BY <2>4, <2>5, <2>6, <2>7, <2>8, <2>9, <2>10, <2>11
  <1>2. CASE result[t] # NoResult
    <2>1. /\ pc[t] = "unwatch"
          /\ hpc[t] = "out"
          /\ result[t] # NoResult
          /\ watches' = [watches EXCEPT ![GetSlot(t, SHORTUSE)] = Null]
          /\ granted' = granted \ {<<t, SHORTUSE>>}
          /\ cur' = [cur EXCEPT ![t] = Null]
          /\ nxt' = [nxt EXCEPT ![t] = Null]
          /\ pc' = [pc EXCEPT ![t] = "return"]
          /\ UNCHANGED <<life, element_list, hpc, slot, elem, pos, idx, leaving, _stack,
                         next, node, result>>
      BY LeaveScope(t), <1>2 DEF LeaveScope, At, Goto, Unwatch, stackVars
    <2>2. /\ watches' \in [0 .. (NumSlots - 1) -> Pointers]
           /\ Under(t)' = Null
           /\ \A u \in Threads : u # t => Under(u)' = Under(u)
      <3>1. PICK p \in Pointers : p = Null
        BY DEF Types, Pointers
      <3>2. watches' = [watches EXCEPT ![GetSlot(t, SHORTUSE)] = p]
        BY <2>1, <3>1
      <3> QED
        BY <3>1, <3>2, SlotWrite
    <2>3. \A u \in Threads : Waiting(u)' = Waiting(u)
      BY <2>1, ListsStay
    <2>4. Private' /\ WaitsOnce' /\ Shape'
      BY <2>1, <2>3 DEF Private, Owns, WaitsOnce, Scanning, Shape
    <2>5. Types'
      BY <2>1, <2>2 DEF Types, Pointers, HPStates
    <2>6. Control'
      BY <2>1 DEF Types, Control, Scanning
    <2>7. WatchProtocol'
      BY <2>1, <2>2 DEF Types, WatchProtocol, Holds
    <2>8. HeldIsNotFree'
      BY <2>1, <2>2 DEF Types, HeldIsNotFree, Holds
    <2>9. ScanMissesNoGrant'
      BY <2>1, <2>2 DEF Types, ScanMissesNoGrant, Scanning, Holds
    <2>10. Unlinked'
      BY <2>1, <2>3 DEF Types, Unlinked
    <2>11. NextStands'
      BY <2>1 DEF Types, NextStands
    <2> QED
      BY <2>4, <2>5, <2>6, <2>7, <2>8, <2>9, <2>10, <2>11
  <1> QED
    BY <1>1, <1>2

(* ... and the end of an operation.                                        *)
LEMMA ReturnKeeps ==
  ASSUME IInv, NEW t \in Threads, Return(t)
  PROVE  IInv'
  <1> USE NullAssumption DEF IInv
  <1>1. /\ pc[t] = "return"
        /\ pc' = [pc EXCEPT ![t] = "idle"]
        /\ node' = [node EXCEPT ![t] = Null]
        /\ result' = [result EXCEPT ![t] = NoResult]
        /\ UNCHANGED <<life, watches, element_list, hpc, slot, elem, pos, idx, leaving,
                       granted, _stack, next, cur, nxt>>
    BY Return(t) DEF Return, At, Goto, hpVars, stackVars
  <1>2. \A u \in Threads : Under(u)' = Under(u)
    BY <1>1, SlotsStay
  <1>3. \A u \in Threads : Waiting(u)' = Waiting(u)
    BY <1>1, ListsStay
  <1>4. HeldIsNotFree' /\ ScanMissesNoGrant' /\ WaitsOnce' /\ Shape'
    BY <1>1, <1>2, <1>3 DEF HeldIsNotFree, Holds, ScanMissesNoGrant, Scanning,
       WaitsOnce, Shape
  <1>5. Types'
    BY <1>1 DEF Types, Pointers, HPStates
  <1>6. Control'
    BY <1>1 DEF Types, Control, Scanning
  <1>7. WatchProtocol'
    BY <1>1, <1>2 DEF Types, WatchProtocol, Holds
  <1>8. Private'
    BY <1>1 DEF Types, Private, Owns
  <1>9. Unlinked'
    BY <1>1, <1>3 DEF Types, Unlinked
  <1>10. NextStands'
    BY <1>1 DEF Types, NextStands
  <1> QED
    BY <1>4, <1>5, <1>6, <1>7, <1>8, <1>9, <1>10

LEMMA NextKeeps == IInv /\ [Next]_vars => IInv'
  <1> SUFFICES ASSUME IInv, [Next]_vars PROVE IInv'
    OBVIOUS
  <1>1. CASE UNCHANGED vars
    <2> USE <1>1 DEF vars, hpVars, stackVars, opVars
    <2>1. Types' /\ Control' /\ WatchProtocol' /\ HeldIsNotFree' /\ ScanMissesNoGrant'
      BY DEF IInv, Types, Control, Scanning, WatchProtocol, Holds, Under, WatchedBy,
         HeldIsNotFree, ScanMissesNoGrant
    <2>2. Private' /\ Unlinked' /\ WaitsOnce'
            /\ Shape' /\ NextStands'
      BY DEF IInv, Private, Owns, Unlinked, Waiting, WaitsOnce, Scanning, Shape, NextStands
    <2> QED
      BY <2>1, <2>2 DEF IInv
  <1>2. CASE Next
    BY <1>2, CallPushKeeps, CallPopKeeps, LoadKeeps, LoadNullKeeps, StoreKeeps, ValidateKeeps,
       WatchedKeeps, NotWatchedKeeps, PushKeeps, ReadNextKeeps, UnlinkKeeps, ValueKeeps,
       ScanKeeps, NotHeldKeeps, LeaveScopeKeeps, ReturnKeeps DEF Next, Step
  <1> QED
    BY <1>1, <1>2

(* The invariant holds in every reachable state.                           *)
LEMMA Invariance == Spec => []IInv
  BY InitIInv, NextKeeps, PTL DEF Spec

(* No thread reads a field of a node whose memory was given back, for any  *)
(* number of threads and nodes: pop reads next and value of stack.h:189    *)
(* and 195 under a watch that the scan of every other thread respects.     *)
THEOREM NothingFreedIsRead == Spec => []NoUseAfterFree
  <1>1. IInv => NoUseAfterFree
    BY DEF IInv, WatchProtocol, HeldIsNotFree, NoUseAfterFree
  <1> QED
    BY <1>1, Invariance, PTL

------------------------------------------------------------------------------
(* The nodes of the stack, top first, are a list from the top. *)

(* The lists of n nodes at most from each pointer, given those of n - 1;   *)
(* Below is such a function, and the definition by recursion is one of it. *)
Read(n, f) ==
  [p \in Pointers |-> IF n = 0 \/ p = Null THEN <<>> ELSE <<p>> \o f[n - 1][next[p]]]

Reads(f, m) == f = [n \in 0 .. m |-> Read(n, f)]

(* There is such a function, by induction on m.                            *)
LEMMA SomethingReads == \A m \in Nat : \E f : Reads(f, m)
  <1> DEFINE S == {m \in Nat : \E f : Reads(f, m)}
  <1>1. 0 \in S
    <2> DEFINE f == [n \in 0 .. 0 |-> [p \in Pointers |-> <<>>]]
    <2>1. \A n \in 0 .. 0 : Read(n, f) = [p \in Pointers |-> <<>>]
      BY DEF Read
    <2>2. Reads(f, 0)
      BY <2>1 DEF Reads
    <2> QED
      BY <2>2
  <1>2. ASSUME NEW m \in Nat, m \in S PROVE m + 1 \in S
    <2>1. PICK f : Reads(f, m)
      BY <1>2
    <2> DEFINE g == [n \in 0 .. m + 1 |-> Read(n, f)]
    <2>2. ASSUME NEW n \in 0 .. m PROVE g[n] = f[n]
      BY <2>1 DEF Reads
    <2>3. ASSUME NEW n \in 0 .. m + 1 PROVE Read(n, g) = Read(n, f)
      <3>1. CASE n = 0
        BY <3>1 DEF Read
      <3>2. CASE n # 0
        <4>1. n - 1 \in 0 .. m
          BY <3>2
        <4>2. g[n - 1] = f[n - 1]
          BY <4>1, <2>2
        <4> HIDE DEF g
        <4> QED
          BY <4>2 DEF Read
      <3> QED
        BY <3>1, <3>2
    <2>4. g = [n \in 0 .. m + 1 |-> Read(n, g)]
      BY <2>3
    <2>5. Reads(g, m + 1)
      BY <2>4 DEF Reads
    <2> QED
      BY <2>5
  <1>3. Nat \subseteq S
    BY <1>1, <1>2, SetInduction
  <1> QED
    BY <1>3

LEMMA BelowReads ==
  ASSUME Cardinality(Elems) \in Nat
  PROVE  Reads(Below, Cardinality(Elems))
  <1>1. PICK f : Reads(f, Cardinality(Elems))
    BY SomethingReads
  <1>2. f = [n \in 0 .. Cardinality(Elems) |->
               [p \in Pointers |-> IF n = 0 \/ p = Null THEN <<>> ELSE <<p>> \o f[n - 1][next[p]]]]
    BY <1>1 DEF Reads, Read
  <1>3. Below = [n \in 0 .. Cardinality(Elems) |->
               [p \in Pointers |-> IF n = 0 \/ p = Null THEN <<>> ELSE <<p>> \o Below[n - 1][next[p]]]]
    BY <1>2, Zenon DEF Below
  <1> QED
    BY <1>3 DEF Reads, Read

(* The list q is the stack: it begins at the top, each node is followed by *)
(* its next, the last one by null, and it holds every live node once.      *)
Entry(q, i) == IF i <= Len(q) THEN q[i] ELSE Null

IsChain(q) ==
  /\ q \in Seq(Elems)
  /\ Once(q)
  /\ Range(q) = {e \in Elems : life[e] = "live"}
  /\ _stack = Entry(q, 1)
  /\ \A i \in 1 .. Len(q) : next[q[i]] = Entry(q, i + 1)

(* Reading from the top gives the list, by induction from its end.         *)
LEMMA ChainIsRead ==
  ASSUME NEW q, IsChain(q), NEW N \in Nat, Len(q) <= N, NEW f, Reads(f, N)
  PROVE  f[N][_stack] = q
  <1> DEFINE From(j) == Len(q) + 1 - j
             S == {j \in Nat : j <= Len(q) =>
                     \A n \in j .. N : f[n][Entry(q, From(j))] = SubSeq(q, From(j), Len(q))}
  <1>0. q \in Seq(Elems) /\ Len(q) \in Nat /\ Null \in Pointers
    BY DEF IsChain, Pointers
  <1>1. 0 \in S
    <2>1. Entry(q, From(0)) = Null /\ SubSeq(q, From(0), Len(q)) = <<>>
      BY <1>0 DEF Entry
    <2>2. \A n \in 0 .. N : f[n][Null] = <<>>
      BY <1>0 DEF Reads, Read
    <2> QED
      BY <2>1, <2>2
  <1>2. ASSUME NEW j \in Nat, j \in S PROVE j + 1 \in S
    <2> SUFFICES ASSUME j + 1 <= Len(q), NEW n \in (j + 1) .. N
                 PROVE  f[n][Entry(q, From(j + 1))] = SubSeq(q, From(j + 1), Len(q))
      OBVIOUS
    <2> DEFINE i == From(j + 1)
    <2>1. i \in 1 .. Len(q) /\ i + 1 = From(j) /\ Entry(q, i) = q[i]
      BY <1>0 DEF Entry
    <2>2. q[i] \in Elems /\ q[i] \in Pointers /\ q[i] # Null
      BY <1>0, <2>1, NullAssumption DEF Pointers
    <2>3. next[q[i]] = Entry(q, i + 1)
      BY <2>1 DEF IsChain
    <2>4. n - 1 \in j .. N /\ n \in 0 .. N /\ n # 0 /\ j <= Len(q)
      BY <1>0
    <2>5. f[n - 1][Entry(q, From(j))] = SubSeq(q, From(j), Len(q))
      BY <1>2, <2>4
    <2> HIDE DEF From
    <2>6. ASSUME NEW p \in Pointers, p # Null PROVE f[n][p] = <<p>> \o f[n - 1][next[p]]
      <3>1. f[n] = Read(n, f)
        BY <2>4 DEF Reads
      <3> QED
        BY <3>1, <2>4, <2>6 DEF Read
    <2>7. SubSeq(q, i, Len(q)) = <<q[i]>> \o SubSeq(q, i + 1, Len(q))
      <3>1. i \in 1 .. Len(q) /\ Len(q) \in i .. Len(q)
        BY <1>0, <2>1
      <3> HIDE DEF i
      <3> QED
        BY <1>0, <3>1, SubSeqRecursiveFirst
    <2> QED
      BY <2>1, <2>2, <2>3, <2>5, <2>6, <2>7
  <1>3. Len(q) \in S
    BY <1>0, <1>1, <1>2, SetInduction
  <1>4. From(Len(q)) = 1 /\ N \in Len(q) .. N /\ SubSeq(q, 1, Len(q)) = q
    BY <1>0
  <1>5. f[N][Entry(q, 1)] = q
    BY <1>0, <1>3, <1>4
  <1> QED
    BY <1>5 DEF IsChain

(* A chain is no longer than there are nodes.                              *)
LEMMA ChainIsShort ==
  ASSUME NEW q \in Seq(Elems), Once(q)
  PROVE  Len(q) <= Cardinality(Elems) /\ Cardinality(Elems) \in Nat
  <1>1. Len(q) \in Nat /\ q \in [1 .. Len(q) -> Elems] /\ DOMAIN q = 1 .. Len(q)
    OBVIOUS
  <1>2. q \in Injection(1 .. Len(q), Elems)
    BY <1>1 DEF Injection, IsInjective, Once
  <1>3. Cardinality(1 .. Len(q)) <= Cardinality(Elems)
    BY <1>2, FS_Injection, FiniteAssumption
  <1>4. Cardinality(1 .. Len(q)) = Len(q)
    BY <1>1, FS_Interval
  <1>5. Cardinality(Elems) \in Nat
    BY FiniteAssumption, FS_CardinalityType
  <1> QED
    BY <1>3, <1>4, <1>5

NodesAreChain == \A q : IsChain(q) => Nodes = q

LEMMA ChainIsNodes == NodesAreChain
  <1> SUFFICES ASSUME NEW q, IsChain(q) PROVE Nodes = q
    BY DEF NodesAreChain
  <1>1. q \in Seq(Elems) /\ Once(q)
    BY DEF IsChain
  <1>2. Len(q) <= Cardinality(Elems) /\ Cardinality(Elems) \in Nat
    BY <1>1, ChainIsShort
  <1>3. Reads(Below, Cardinality(Elems))
    BY <1>2, BelowReads
  <1> QED
    BY <1>2, <1>3, ChainIsRead DEF Nodes

LEMMA ChainIsNodesNext == NodesAreChain'
  BY ChainIsNodes, PTL

------------------------------------------------------------------------------
(* What the invariant of the refinement adds. *)

Contents == [i \in DOMAIN Nodes |-> val[Nodes[i]]]
Operations == [t \in Threads |-> Operation(t)]

(* The contents, read from a chain.                                        *)
ValuesOf(q) == [i \in 1 .. Len(q) |-> val[q[i]]]

Outcomes ==
  /\ DOMAIN val = Elems
  /\ \A t \in Threads :
       /\ result[t] # NoResult => result[t].state \in {"pushed", "popped", "empty"}
       /\ pc[t] = "return" => result[t] # NoResult
       /\ Owns(t) => val[node[t]] \in Values

KInv == IInv /\ Outcomes /\ \E q : IsChain(q)

(* The abstract step a step of the stack is.                               *)
Steps == Abstract!Next \/ UNCHANGED <<Contents, Operations>>

LEMMA ContentsOfChain ==
  ASSUME NEW q, IsChain(q)
  PROVE  Nodes = q /\ Contents = ValuesOf(q)
  <1>1. q \in Seq(Elems) /\ Nodes = q
    BY ChainIsNodes DEF NodesAreChain, IsChain
  <1> QED
    BY <1>1 DEF Contents, ValuesOf

LEMMA ContentsOfChainNext ==
  ASSUME NEW q, IsChain(q)'
  PROVE  Nodes' = q /\ Contents' = ValuesOf(q)'
  <1>1. q \in Seq(Elems) /\ Nodes' = q
    BY ChainIsNodesNext DEF NodesAreChain, IsChain
  <1> QED
    BY <1>1 DEF Contents, ValuesOf

LEMMA ChainIsLive ==
  ASSUME NEW q, IsChain(q), NEW i \in 1 .. Len(q)
  PROVE  q[i] \in Elems /\ life[q[i]] = "live"
  <1>1. q[i] \in Range(q)
    BY DEF IsChain, Range
  <1> QED
    BY <1>1 DEF IsChain

(* The stack stays as it is when its nodes do.                             *)
LEMMA StackStays ==
  ASSUME NEW q, IsChain(q), _stack' = _stack,
         \A e \in Elems : life'[e] = "live" <=> life[e] = "live",
         \A e \in Elems : life[e] = "live" => next'[e] = next[e] /\ val'[e] = val[e]
  PROVE  IsChain(q)' /\ Contents' = Contents
  <1>1. Range(q) = {e \in Elems : life'[e] = "live"}
    BY DEF IsChain
  <1>2. \A i \in 1 .. Len(q) : next'[q[i]] = next[q[i]] /\ val'[q[i]] = val[q[i]]
    BY ChainIsLive
  <1>3. IsChain(q)'
    BY <1>1, <1>2 DEF IsChain, Entry
  <1>4. ValuesOf(q)' = ValuesOf(q)
    BY <1>2 DEF ValuesOf
  <1> QED
    BY <1>3, <1>4, ContentsOfChain, ContentsOfChainNext

(* A thread's operation, as AbstractStack sees it, by where the thread is. *)
OperationIs(t) ==
  /\ pc[t] = "idle" => Operation(t) = Abstract!Idle
  /\ pc[t] = "value" => Operation(t) = Abstract!Popped(val[cur[t]])
  /\ result[t] # NoResult => Operation(t) = result[t]
  /\ pc[t] \notin {"idle", "value"} /\ result[t] = NoResult /\ node[t] # Null =>
       Operation(t) = Abstract!Pushing(val[node[t]])
  /\ pc[t] \notin {"idle", "value"} /\ result[t] = NoResult /\ node[t] = Null =>
       Operation(t) = Abstract!Popping

LEMMA OperationOf ==
  ASSUME NEW t \in Threads, Control
  PROVE  OperationIs(t)
  BY DEF OperationIs, Operation, Control, Popped, Abstract!Idle, Abstract!Popped, Abstract!Pushing,
     Abstract!Popping

OperationsAre == \A t \in Threads : OperationIs(t)

LEMMA OperationsImplied == Control => OperationsAre
  BY OperationOf DEF OperationsAre

LEMMA OperationsNext == Control' => OperationsAre'
  BY OperationsImplied, PTL

(* Values are written to nodes nobody has.                                 *)
ValuesStay ==
  \/ val' = val
  \/ \E e \in Elems : life[e] = "free" /\ \A f \in Elems : f # e => val'[f] = val[f]

LEMMA SameOperation ==
  ASSUME IInv, NEW u \in Threads, ValuesStay,
         pc'[u] = pc[u], node'[u] = node[u], cur'[u] = cur[u], result'[u] = result[u]
  PROVE  Operation(u)' = Operation(u)
  <1>1. Owns(u) => node[u] \in Elems /\ val'[node[u]] = val[node[u]]
    BY DEF IInv, ValuesStay, Private, Types, Pointers, Owns
  <1>2. pc[u] = "value" => cur[u] \in Elems /\ val'[cur[u]] = val[cur[u]]
    BY PopHoldsCur DEF IInv, ValuesStay, Unlinked
  <1> QED
    BY <1>1, <1>2 DEF Operation, Owns

(* A step of one thread is one of its operation only.                      *)
OthersStay(t) ==
  \A u \in Threads \ {t} :
    pc'[u] = pc[u] /\ node'[u] = node[u] /\ cur'[u] = cur[u] /\ result'[u] = result[u]

LEMMA OneOperation ==
  ASSUME IInv, NEW t \in Threads, ValuesStay, OthersStay(t)
  PROVE  Operations' = [Operations EXCEPT ![t] = Operation(t)']
  <1>1. \A u \in Threads : u # t => Operation(u)' = Operation(u)
    BY SameOperation DEF OthersStay
  <1>2. \A u \in Threads : Operations'[u] = [Operations EXCEPT ![t] = Operation(t)'][u]
    BY <1>1 DEF Operations
  <1> QED
    BY <1>2 DEF Operations

(* A step that leaves the nodes of the stack alone.                        *)
LEMMA MovingStep ==
  ASSUME KInv, IInv', NEW t \in Threads, ValuesStay, OthersStay(t), _stack' = _stack,
         \A e \in Elems : life'[e] = "live" <=> life[e] = "live",
         \A e \in Elems : life[e] = "live" => next'[e] = next[e] /\ val'[e] = val[e],
         Outcomes'
  PROVE  /\ KInv'
         /\ Contents' = Contents
         /\ Operations' = [Operations EXCEPT ![t] = Operation(t)']
  <1>1. PICK q : IsChain(q)
    BY DEF KInv
  <1>2. IsChain(q)' /\ Contents' = Contents
    BY <1>1, StackStays
  <1>3. Operations' = [Operations EXCEPT ![t] = Operation(t)']
    BY OneOperation DEF KInv
  <1> QED
    BY <1>2, <1>3 DEF KInv

(* A step that only moves a call on.                                       *)
LEMMA QuietStep ==
  ASSUME KInv, IInv', NEW t \in Threads, ValuesStay, OthersStay(t), _stack' = _stack,
         \A e \in Elems : life'[e] = "live" <=> life[e] = "live",
         \A e \in Elems : life[e] = "live" => next'[e] = next[e] /\ val'[e] = val[e],
         Operation(t)' = Operation(t), Outcomes'
  PROVE  KInv' /\ Steps
  <1>1. /\ KInv' /\ Contents' = Contents
        /\ Operations' = [Operations EXCEPT ![t] = Operation(t)']
    BY MovingStep
  <1>2. Operations' = Operations
    BY <1>1 DEF Operations
  <1> QED
    BY <1>1, <1>2 DEF Steps

(* Steps that are nothing to AbstractStack.                                *)
QuietHere(t) ==
  \/ Load(t) \/ Store(t) \/ Validate(t) \/ Watched(t) \/ NotWatched(t)
  \/ ReadNext(t) \/ Scan(t) \/ NotHeld(t) \/ LeaveScope(t)

LEMMA QuietMemory ==
  ASSUME IInv, NEW t \in Threads, QuietHere(t)
  PROVE  /\ UNCHANGED <<_stack, next, val, node, result>>
         /\ \A e \in Elems : life'[e] = "live" <=> life[e] = "live"
  <1>1. CASE NotHeld(t)
    <2>1. hpc[t] = "on_is_watched" /\ Scanning(t)
      BY <1>1 DEF NotHeld, OnIsWatched, Scanning
    <2>2. PICK e : e = element_list[t][pos[t]]
      OBVIOUS
    <2>3. e \in Elems /\ life[e] = "retired"
      BY <2>1, <2>2, ScannedIsRetired DEF IInv
    <2>4. life' = [life EXCEPT ![e] = "free"]
      BY <1>1, <2>2 DEF NotHeld, OnIsWatched, Delete
    <2>5. life \in [Elems -> {"free", "private", "live", "retired"}]
      BY DEF IInv, Types
    <2>6. UNCHANGED <<_stack, next, val, node, result>>
      BY <1>1 DEF NotHeld, stackVars, opVars
    <2> QED
      BY <2>3, <2>4, <2>5, <2>6
  <1>2. CASE Scan(t)
    BY <1>2 DEF Scan, ScanSlot, Keep, stackVars, opVars
  <1>3. CASE Load(t) \/ Store(t) \/ Validate(t) \/ Watched(t) \/ NotWatched(t)
    BY <1>3 DEF Load, Store, Validate, Watched, NotWatched, WatchCall, WatchStore, WatchValidate,
       OnWatch, WatchClear, stackVars, opVars
  <1>4. CASE ReadNext(t) \/ LeaveScope(t)
    BY <1>4 DEF ReadNext, LeaveScope, Unwatch, stackVars, hpVars
  <1> QED
    BY <1>1, <1>2, <1>3, <1>4 DEF QuietHere

LEMMA QuietControl ==
  ASSUME KInv, NEW t \in Threads, QuietHere(t)
  PROVE  /\ \A u \in Threads \ {t} : pc'[u] = pc[u] /\ cur'[u] = cur[u]
         /\ pc[t] \notin {"idle", "value"} /\ pc'[t] \notin {"idle", "value"}
         /\ pc'[t] = "return" => result[t] # NoResult
  <1> USE DEF KInv, IInv
  <1>0. /\ pc \in [Threads -> {"idle", "load", "watch", "push", "next", "cas", "value",
                               "unwatch", "return"}]
        /\ cur \in [Threads -> Pointers]
    BY DEF Types
  <1>1. CASE Load(t) \/ Watched(t) \/ NotWatched(t) \/ ReadNext(t)
    BY <1>0, <1>1 DEF Load, Watched, NotWatched, ReadNext, At, Goto
  <1>2. CASE LeaveScope(t)
    BY <1>0, <1>2 DEF LeaveScope, At, Goto
  <1>3. CASE Store(t) \/ Validate(t)
    BY <1>0, <1>3 DEF Store, Validate, At, opVars, Outcomes
  <1>4. CASE Scan(t) \/ NotHeld(t)
    <2>1. Scanning(t) /\ UNCHANGED <<pc, cur>>
      BY <1>4 DEF Scan, NotHeld, ScanSlot, OnIsWatched, Scanning, opVars
    <2> QED
      BY <2>1 DEF Control
  <1> QED
    BY <1>1, <1>2, <1>3, <1>4 DEF QuietHere

LEMMA QuietHereSteps ==
  ASSUME KInv, IInv', NEW t \in Threads, QuietHere(t)
  PROVE  KInv' /\ Steps
  <1>1. /\ UNCHANGED <<_stack, next, val, node, result>>
        /\ \A e \in Elems : life'[e] = "live" <=> life[e] = "live"
    BY QuietMemory DEF KInv
  <1>2. /\ \A u \in Threads \ {t} : pc'[u] = pc[u] /\ cur'[u] = cur[u]
        /\ pc[t] \notin {"idle", "value"} /\ pc'[t] \notin {"idle", "value"}
        /\ pc'[t] = "return" => result[t] # NoResult
    BY QuietControl
  <1>3. ValuesStay /\ OthersStay(t)
    BY <1>1, <1>2 DEF ValuesStay, OthersStay
  <1>4. Operation(t)' = Operation(t)
    BY <1>1, <1>2 DEF Operation
  <1>5. Outcomes'
    <2>1. \A u \in Threads : pc'[u] = "return" => result[u] # NoResult
      BY <1>2 DEF KInv, Outcomes
    <2> QED
      BY <1>1, <2>1 DEF KInv, Outcomes, Owns
  <1> QED
    BY <1>1, <1>3, <1>4, <1>5, QuietStep

(* The value is read after the pop took effect, and is the one it returns. *)
LEMMA ValueSteps ==
  ASSUME KInv, IInv', NEW t \in Threads, Value(t)
  PROVE  KInv' /\ Steps
  <1> USE DEF KInv, IInv
  <1>1. /\ pc[t] = "value" /\ pc' = [pc EXCEPT ![t] = "unwatch"]
        /\ result' = [result EXCEPT ![t] = Popped(val[cur[t]])]
        /\ UNCHANGED <<_stack, next, val, node, cur, life>>
    BY DEF Value, SafeDelete, At, Goto, stackVars
  <1>2. result'[t] = Popped(val[cur[t]]) /\ pc'[t] = "unwatch" /\ result'[t] # NoResult
    BY <1>1, ResultsDiffer DEF Types
  <1>3. ValuesStay /\ OthersStay(t)
    BY <1>1 DEF ValuesStay, OthersStay, Types
  <1>4. Operation(t)' = Popped(val[cur[t]])
    BY <1>2, OperationsNext DEF OperationsAre, OperationIs
  <1>5. Operation(t) = Popped(val[cur[t]])
    BY <1>1, OperationOf DEF OperationIs, Popped, Abstract!Popped
  <1>6. Outcomes'
    <2>1. result'[t].state = "popped"
      BY <1>2 DEF Popped
    <2>2. \A u \in Threads \ {t} : result'[u] = result[u] /\ pc'[u] = pc[u] /\ node'[u] = node[u]
      BY <1>3 DEF OthersStay
    <2> QED
      BY <1>1, <1>2, <2>1, <2>2 DEF Outcomes, Owns
  <1> QED
    BY <1>1, <1>3, <1>4, <1>5, <1>6, QuietStep

(* The calls, the pop that finds nothing, and the return.                  *)
LEMMA CallPushSteps ==
  ASSUME KInv, IInv', NEW t \in Threads, NEW v \in Values, CallPush(t, v)
  PROVE  KInv' /\ Steps
  <1> USE DEF KInv, IInv
  <1>1. PICK e \in Elems :
          /\ life[e] = "free" /\ life' = [life EXCEPT ![e] = "private"]
          /\ node' = [node EXCEPT ![t] = e]
          /\ val' = [val EXCEPT ![e] = v] /\ next' = [next EXCEPT ![e] = Null]
          /\ pc[t] = "idle" /\ pc' = [pc EXCEPT ![t] = "load"]
          /\ UNCHANGED <<_stack, cur, nxt, result>>
    BY DEF CallPush, SetLife, At, Goto
  <1>2. ValuesStay /\ OthersStay(t)
    BY <1>1 DEF ValuesStay, OthersStay, Types, Outcomes
  <1>3. \A f \in Elems : life'[f] = "live" <=> life[f] = "live"
    BY <1>1 DEF Types
  <1>4. \A f \in Elems : life[f] = "live" => next'[f] = next[f] /\ val'[f] = val[f]
    BY <1>1 DEF Types
  <1>5. pc'[t] = "load" /\ node'[t] = e /\ result'[t] = NoResult /\ val'[e] = v /\ e # Null
    BY <1>1, NullAssumption DEF Types, Control, Outcomes
  <1>6. Operation(t)' = Abstract!Pushing(v)
    BY <1>5, OperationsNext DEF OperationsAre, OperationIs
  <1>7. Operation(t) = Abstract!Idle
    BY <1>1, OperationOf DEF OperationIs
  <1>8. Outcomes'
    <2>1. DOMAIN val' = Elems
      BY <1>1 DEF Outcomes
    <2>2. \A u \in Threads \ {t} : Owns(u)' => val'[node'[u]] \in Values
      <3> SUFFICES ASSUME NEW u \in Threads \ {t}, Owns(u)' PROVE val'[node'[u]] \in Values
        OBVIOUS
      <3>1. node'[u] = node[u] /\ Owns(u)
        BY <1>1 DEF Owns, Types
      <3>2. node[u] # e
        BY <1>1, <3>1 DEF Private
      <3> QED
        BY <1>1, <3>1, <3>2 DEF Outcomes
    <2>3. \A u \in Threads : pc'[u] = "return" => pc[u] = "return"
      BY <1>1, <1>5 DEF Types
    <2> QED
      BY <1>1, <1>5, <2>1, <2>2, <2>3 DEF Outcomes
  <1>9. /\ KInv' /\ Contents' = Contents
        /\ Operations' = [Operations EXCEPT ![t] = Operation(t)']
    BY <1>1, <1>2, <1>3, <1>4, <1>8, MovingStep
  <1>10. Abstract!Call(t)
    BY <1>6, <1>7, <1>9 DEF Abstract!Call, Contents, Operations
  <1> QED
    BY <1>9, <1>10 DEF Steps, Abstract!Next

LEMMA CallPopSteps ==
  ASSUME KInv, IInv', NEW t \in Threads, CallPop(t)
  PROVE  KInv' /\ Steps
  <1> USE DEF KInv, IInv
  <1>1. /\ pc[t] = "idle" /\ pc' = [pc EXCEPT ![t] = "load"]
        /\ UNCHANGED <<_stack, next, val, node, cur, result, life>>
    BY DEF CallPop, At, Goto, stackVars, hpVars
  <1>2. ValuesStay /\ OthersStay(t)
    BY <1>1 DEF ValuesStay, OthersStay, Types
  <1>5. pc'[t] = "load" /\ node'[t] = Null /\ result'[t] = NoResult
    BY <1>1 DEF Types, Control
  <1>6. Operation(t)' = Abstract!Popping
    BY <1>5, OperationsNext DEF OperationsAre, OperationIs
  <1>7. Operation(t) = Abstract!Idle
    BY <1>1, OperationOf DEF OperationIs
  <1>8. Outcomes'
    <2>1. \A u \in Threads : pc'[u] = "return" => pc[u] = "return"
      BY <1>1, <1>5 DEF Types
    <2> QED
      BY <1>1, <2>1 DEF Outcomes, Owns
  <1>9. /\ KInv' /\ Contents' = Contents
        /\ Operations' = [Operations EXCEPT ![t] = Operation(t)']
    BY <1>1, <1>2, <1>8, MovingStep
  <1>10. Abstract!Call(t)
    BY <1>6, <1>7, <1>9 DEF Abstract!Call, Contents, Operations
  <1> QED
    BY <1>9, <1>10 DEF Steps, Abstract!Next

LEMMA ReturnSteps ==
  ASSUME KInv, IInv', NEW t \in Threads, Return(t)
  PROVE  KInv' /\ Steps
  <1> USE DEF KInv, IInv
  <1>1. /\ pc[t] = "return" /\ pc' = [pc EXCEPT ![t] = "idle"]
        /\ node' = [node EXCEPT ![t] = Null] /\ result' = [result EXCEPT ![t] = NoResult]
        /\ UNCHANGED <<_stack, next, val, cur, life>>
    BY DEF Return, At, Goto, stackVars, hpVars
  <1>2. ValuesStay /\ OthersStay(t)
    BY <1>1 DEF ValuesStay, OthersStay, Types
  <1>5. pc'[t] = "idle" /\ node'[t] = Null /\ result'[t] = NoResult
    BY <1>1 DEF Types
  <1>6. Operation(t)' = Abstract!Idle
    BY <1>5, OperationsNext DEF OperationsAre, OperationIs
  <1>7. Operation(t) = result[t] /\ result[t].state \in {"pushed", "popped", "empty"}
    BY <1>1, OperationOf DEF OperationIs, Outcomes
  <1>8. Outcomes'
    <2>1. \A u \in Threads : pc'[u] = "return" => u # t /\ pc[u] = "return"
      BY <1>1, <1>5 DEF Types
    <2>2. \A u \in Threads \ {t} : result'[u] = result[u] /\ node'[u] = node[u]
      BY <1>2 DEF OthersStay
    <2> QED
      BY <1>1, <1>5, <2>1, <2>2 DEF Outcomes, Owns
  <1>9. /\ KInv' /\ Contents' = Contents
        /\ Operations' = [Operations EXCEPT ![t] = Operation(t)']
    BY <1>1, <1>2, <1>8, MovingStep
  <1>10. Abstract!Return(t)
    BY <1>6, <1>7, <1>9 DEF Abstract!Return, Contents, Operations
  <1> QED
    BY <1>9, <1>10 DEF Steps, Abstract!Next

LEMMA LoadNullSteps ==
  ASSUME KInv, IInv', NEW t \in Threads, LoadNull(t)
  PROVE  KInv' /\ Steps
  <1> USE DEF KInv, IInv
  <1>1. /\ pc[t] = "load" /\ _stack = Null /\ result[t] = NoResult
        /\ UNCHANGED <<_stack, next, val, node, cur, life>>
    BY DEF LoadNull, At, stackVars, hpVars, Control
  <1>2. ValuesStay
    BY <1>1 DEF ValuesStay
  <1>3. CASE node[t] = Null
    <2>1. pc' = [pc EXCEPT ![t] = "unwatch"] /\ result' = [result EXCEPT ![t] = Empty]
      BY <1>3 DEF LoadNull, Goto
    <2>2. pc'[t] = "unwatch" /\ result'[t] = Empty /\ Empty # NoResult /\ OthersStay(t)
      BY <1>1, <2>1, ResultsDiffer DEF Types, OthersStay
    <2>3. Operation(t)' = Abstract!Empty
      BY <2>2, OperationsNext DEF OperationsAre, OperationIs, Empty, Abstract!Empty
    <2>4. Operation(t) = Abstract!Popping
      BY <1>1, <1>3, OperationOf DEF OperationIs
    <2>5. Outcomes'
      <3>1. \A u \in Threads : pc'[u] = "return" => u # t /\ pc[u] = "return"
        BY <2>1, <2>2 DEF Types
      <3>2. \A u \in Threads \ {t} : result'[u] = result[u]
        BY <2>2 DEF OthersStay
      <3>3. Empty.state = "empty"
        BY DEF Empty
      <3> QED
        BY <1>1, <2>2, <3>1, <3>2, <3>3 DEF Outcomes, Owns
    <2>6. /\ KInv' /\ Contents' = Contents
          /\ Operations' = [Operations EXCEPT ![t] = Operation(t)']
      BY <1>1, <1>2, <2>2, <2>5, MovingStep
    <2>7. Contents = <<>>
      <3>1. PICK q : IsChain(q)
        OBVIOUS
      <3>2. q \in Seq(Elems) /\ Entry(q, 1) = Null
        BY <1>1, <3>1 DEF IsChain
      <3>3. Len(q) = 0
        <4> SUFFICES ASSUME 1 <= Len(q) PROVE FALSE
          BY <3>2
        <4>1. Entry(q, 1) = q[1] /\ q[1] \in Elems
          BY <3>2 DEF Entry
        <4> QED
          BY <3>2, <4>1, NullAssumption
      <3> QED
        BY <3>1, <3>3, ContentsOfChain DEF ValuesOf
    <2>8. Abstract!Pop(t)
      BY <2>3, <2>4, <2>6, <2>7 DEF Abstract!Pop, Contents, Operations
    <2> QED
      BY <2>6, <2>8 DEF Steps, Abstract!Next
  <1>4. CASE node[t] # Null
    <2>1. pc' = [pc EXCEPT ![t] = "push"] /\ result' = result
      BY <1>4 DEF LoadNull, Goto
    <2>2. pc'[t] = "push" /\ OthersStay(t)
      BY <1>1, <2>1 DEF Types, OthersStay
    <2>3. Operation(t)' = Operation(t)
      BY <1>1, <2>1, <2>2 DEF Operation
    <2>4. Outcomes'
      <3>1. \A u \in Threads : pc'[u] = "return" => u # t /\ pc[u] = "return"
        BY <2>1, <2>2 DEF Types
      <3> QED
        BY <1>1, <2>1, <3>1 DEF Outcomes, Owns
    <2> QED
      BY <1>1, <1>2, <2>2, <2>3, <2>4, QuietStep
  <1> QED
    BY <1>3, <1>4

(* The push takes effect, or goes round.                                   *)
LEMMA PushedChain ==
  ASSUME NEW q, IsChain(q), NEW e \in Elems, life[e] # "live",
         _stack' = e, life' = [life EXCEPT ![e] = "live"], next' = [next EXCEPT ![e] = _stack],
         DOMAIN life = Elems, DOMAIN next = Elems, val' = val
  PROVE  IsChain(<<e>> \o q)' /\ Contents' = <<val[e]>> \o Contents
  <1> DEFINE r == <<e>> \o q
  <1>0. q \in Seq(Elems) /\ Once(q) /\ e \notin Range(q) /\ Len(q) \in Nat
    BY DEF IsChain
  <1>1. r \in Seq(Elems) /\ Range(r) = Range(q) \cup {e} /\ Once(r)
    BY <1>0, PrependRange
  <1>2. Len(r) = Len(q) + 1 /\ r[1] = e /\ \A i \in 1 .. Len(q) : r[i + 1] = q[i]
    BY <1>0
  <1> HIDE DEF r
  <1>3. Range(r) = {f \in Elems : life'[f] = "live"}
    BY <1>1 DEF IsChain
  <1>4. Entry(r, 1) = e
    BY <1>0, <1>2 DEF Entry
  <1>5. ASSUME NEW i \in 1 .. Len(r) PROVE next'[r[i]] = Entry(r, i + 1)
    <2>1. CASE i = 1
      <3>1. next'[r[1]] = Entry(q, 1)
        BY <1>2 DEF IsChain
      <3>2. Entry(r, 2) = Entry(q, 1)
        BY <1>0, <1>2 DEF Entry
      <3> QED
        BY <2>1, <3>1, <3>2
    <2>2. CASE i # 1
      <3>1. PICK k \in 1 .. Len(q) : i = k + 1
        BY <2>2, <1>0, <1>2
      <3>2. r[i] = q[k] /\ q[k] # e /\ q[k] \in Elems
        BY <3>1, <1>0, <1>2, ChainIsLive
      <3>3. next'[r[i]] = Entry(q, k + 1)
        BY <3>2 DEF IsChain
      <3>4. Entry(r, i + 1) = Entry(q, k + 1)
        BY <3>1, <1>0, <1>2 DEF Entry
      <3> QED
        BY <3>3, <3>4
    <2> QED
      BY <2>1, <2>2
  <1>6. IsChain(r)'
    BY <1>1, <1>3, <1>4, <1>5 DEF IsChain, Entry
  <1>7. ValuesOf(r)' = <<val[e]>> \o ValuesOf(q)
    <2>1. ValuesOf(r)' = [i \in 1 .. Len(q) + 1 |-> val[r[i]]]
      BY <1>2 DEF ValuesOf
    <2>2. ValuesOf(q) = [i \in 1 .. Len(q) |-> val[q[i]]]
      BY DEF ValuesOf
    <2>3. PICK f : f = [i \in 1 .. Len(q) + 1 |-> val[r[i]]]
      OBVIOUS
    <2>4. PICK g : g = [i \in 1 .. Len(q) |-> val[q[i]]]
      OBVIOUS
    <2>5. f[1] = val[e] /\ \A i \in 1 .. Len(q) : f[i + 1] = g[i]
      BY <1>0, <1>2, <2>3, <2>4
    <2>6. PICK S : S = {val[d] : d \in Elems}
      OBVIOUS
    <2>7. (\A i \in 1 .. Len(q) + 1 : r[i] \in Elems) /\ \A i \in 1 .. Len(q) : q[i] \in Elems
      BY <1>0, <1>1, <1>2
    <2>8. f \in [1 .. Len(q) + 1 -> S] /\ g \in [1 .. Len(q) -> S] /\ val[e] \in S
      BY <2>3, <2>4, <2>6, <2>7
    <2>9. f \in Seq(S) /\ g \in Seq(S) /\ Len(f) = Len(q) + 1 /\ Len(g) = Len(q)
      BY <1>0, <2>8
    <2>10. f = <<val[e]>> \o g
      BY <2>5, <2>8, <2>9, ConsIs
    <2> QED
      BY <2>1, <2>2, <2>3, <2>4, <2>10
  <1> QED
    BY <1>6, <1>7, ContentsOfChain, ContentsOfChainNext DEF r

LEMMA PushSteps ==
  ASSUME KInv, IInv', NEW t \in Threads, Push(t)
  PROVE  KInv' /\ Steps
  <1> USE DEF KInv, IInv
  <1>1. /\ pc[t] = "push" /\ node[t] \in Elems /\ life[node[t]] = "private" /\ Owns(t)
        /\ node[t] # Null /\ result[t] = NoResult
        /\ next' = [next EXCEPT ![node[t]] = cur[t]]
        /\ UNCHANGED <<val, node, cur>>
    <2>1. pc[t] = "push" /\ node[t] # Null /\ result[t] = NoResult
      BY DEF Push, At, Control
    <2>2. Owns(t) /\ node[t] \in Elems
      BY <2>1 DEF Owns, Types, Pointers
    <2> QED
      BY <2>1, <2>2 DEF Push, Private
  <1>2. ValuesStay
    BY <1>1 DEF ValuesStay
  <1>3. Operation(t) = Abstract!Pushing(val[node[t]])
    BY <1>1, OperationOf DEF OperationIs
  <1>4. pc' = [pc EXCEPT ![t] = "unwatch"]
    BY DEF Push, Goto, Retry
  <1>5. pc'[t] = "unwatch"
    BY <1>4 DEF Types
  <1>6. \A u \in Threads : pc'[u] = "return" => u # t /\ pc[u] = "return"
    BY <1>4 DEF Types
  <1>7. CASE ~TopIsCur(t)
    <2>1. UNCHANGED <<_stack, result, life>>
      BY <1>7 DEF Push, hpVars
    <2>2. OthersStay(t)
      BY <1>1, <1>4, <2>1 DEF OthersStay, Types
    <2>3. Operation(t)' = Operation(t)
      BY <1>1, <1>5, <2>1 DEF Operation
    <2>4. Outcomes'
      BY <1>1, <1>6, <2>1 DEF Outcomes, Owns
    <2>5. \A e \in Elems : life[e] = "live" => next'[e] = next[e]
      BY <1>1 DEF Types
    <2> QED
      BY <1>1, <1>2, <2>1, <2>2, <2>3, <2>4, <2>5, QuietStep
  <1>8. CASE TopIsCur(t)
    <2>1. /\ _stack = cur[t] /\ _stack' = node[t] /\ life' = [life EXCEPT ![node[t]] = "live"]
          /\ result' = [result EXCEPT ![t] = Pushed]
      BY <1>8 DEF Push, SetLife, TopIsCur
    <2>2. OthersStay(t) /\ result'[t] = Pushed /\ Pushed # NoResult /\ Pushed.state = "pushed"
      BY <1>1, <1>4, <2>1, ResultsDiffer DEF OthersStay, Types, Pushed
    <2>3. Operation(t)' = Abstract!Pushed
      BY <2>2, OperationsNext DEF OperationsAre, OperationIs, Pushed, Abstract!Pushed
    <2>4. Outcomes'
      <3>1. \A u \in Threads \ {t} : result'[u] = result[u]
        BY <2>2 DEF OthersStay
      <3> QED
        BY <1>1, <1>6, <2>2, <3>1 DEF Outcomes, Owns
    <2>5. PICK q : IsChain(q)
      OBVIOUS
    <2>6. IsChain(<<node[t]>> \o q)' /\ Contents' = <<val[node[t]]>> \o Contents
      <3>1. DOMAIN life = Elems /\ DOMAIN next = Elems
        BY DEF Types
      <3> QED
        BY <1>1, <2>1, <2>5, <3>1, PushedChain
    <2>7. Operations' = [Operations EXCEPT ![t] = Operation(t)']
      BY <1>2, <2>2, OneOperation
    <2>8. val[node[t]] \in Values
      BY <1>1 DEF Outcomes
    <2>9. Abstract!Push(t)
      BY <1>3, <2>3, <2>6, <2>7, <2>8 DEF Abstract!Push, Contents, Operations
    <2>10. KInv'
      BY <2>4, <2>6
    <2> QED
      BY <2>9, <2>10 DEF Steps, Abstract!Next
  <1> QED
    BY <1>7, <1>8

(* The pop takes effect, or goes round.                                    *)
LEMMA UnlinkedChain ==
  ASSUME NEW q, IsChain(q), _stack \in Elems, _stack' = next[_stack],
         life' = [life EXCEPT ![_stack] = "retired"], next' = next, val' = val,
         DOMAIN life = Elems
  PROVE  IsChain(Tail(q))' /\ Contents # <<>> /\ Head(Contents) = val[_stack] /\ Contents' = Tail(Contents)
  <1> DEFINE r == Tail(q)
  <1>0. q \in Seq(Elems) /\ Once(q) /\ Len(q) \in Nat
    BY DEF IsChain
  <1>1. q # <<>> /\ Len(q) >= 1 /\ q[1] = _stack /\ Head(q) = _stack
    BY <1>0, NullAssumption DEF IsChain, Entry
  <1>2. r \in Seq(Elems) /\ Len(r) = Len(q) - 1 /\ Range(r) = Range(q) \ {_stack} /\ Once(r)
    BY <1>0, <1>1, TailRange
  <1>3. \A i \in 1 .. Len(r) : r[i] = q[i + 1]
    BY <1>0, <1>1, HeadTailProperties
  <1> HIDE DEF r
  <1>4. Range(r) = {f \in Elems : life'[f] = "live"}
    BY <1>2 DEF IsChain
  <1>5. \A i \in 1 .. Len(r) + 1 : Entry(r, i) = Entry(q, i + 1)
    BY <1>0, <1>2, <1>3 DEF Entry
  <1>6. _stack' = Entry(r, 1)
    <2>1. 1 \in 1 .. Len(q) /\ 1 \in 1 .. Len(r) + 1
      BY <1>0, <1>1, <1>2
    <2>2. next[q[1]] = Entry(q, 2)
      BY <2>1 DEF IsChain
    <2> QED
      BY <1>1, <1>5, <2>1, <2>2
  <1>7. ASSUME NEW i \in 1 .. Len(r) PROVE next'[r[i]] = Entry(r, i + 1)
    <2>1. i + 1 \in 1 .. Len(q) /\ i + 1 \in 1 .. Len(r) + 1
      BY <1>0, <1>2
    <2> QED
      BY <1>3, <1>5, <2>1 DEF IsChain
  <1>8. IsChain(r)'
    BY <1>2, <1>4, <1>6, <1>7 DEF IsChain, Entry
  <1>9. ValuesOf(q) # <<>> /\ Head(ValuesOf(q)) = val[_stack] /\ ValuesOf(r)' = Tail(ValuesOf(q))
    <2>1. ValuesOf(q) = [i \in 1 .. Len(q) |-> val[q[i]]]
      BY DEF ValuesOf
    <2>2. ValuesOf(r)' = [i \in 1 .. Len(q) - 1 |-> val[q[i + 1]]]
      BY <1>2, <1>3 DEF ValuesOf
    <2> QED
      BY <1>0, <1>1, <2>1, <2>2, TailFunction
  <1> QED
    BY <1>8, <1>9, ContentsOfChain, ContentsOfChainNext DEF r

LEMMA UnlinkSteps ==
  ASSUME KInv, IInv', NEW t \in Threads, Unlink(t)
  PROVE  KInv' /\ Steps
  <1> USE DEF KInv, IInv
  <1>1. /\ pc[t] = "cas" /\ cur[t] \in Elems /\ node[t] = Null /\ result[t] = NoResult
        /\ nxt[t] = next[cur[t]]
        /\ UNCHANGED <<next, val, node, cur, result>>
    BY PopHoldsCur DEF Unlink, At, Control, NextStands
  <1>2. ValuesStay
    BY <1>1 DEF ValuesStay
  <1>3. Operation(t) = Abstract!Popping
    BY <1>1, OperationOf DEF OperationIs
  <1>4. CASE ~TopIsCur(t)
    <2>1. pc' = [pc EXCEPT ![t] = "unwatch"] /\ UNCHANGED <<_stack, life>>
      BY <1>4 DEF Unlink, Goto, hpVars
    <2>2. OthersStay(t) /\ pc'[t] = "unwatch"
      BY <1>1, <2>1 DEF OthersStay, Types
    <2>3. Operation(t)' = Operation(t)
      BY <1>1, <2>2 DEF Operation
    <2>4. \A u \in Threads : pc'[u] = "return" => pc[u] = "return"
      BY <2>1 DEF Types
    <2>5. Outcomes'
      BY <1>1, <2>4 DEF Outcomes, Owns
    <2> QED
      BY <1>1, <1>2, <2>1, <2>2, <2>3, <2>5, QuietStep
  <1>5. CASE TopIsCur(t)
    <2>1. /\ _stack = cur[t] /\ _stack' = nxt[t] /\ life' = [life EXCEPT ![cur[t]] = "retired"]
          /\ pc' = [pc EXCEPT ![t] = "value"]
      BY <1>5 DEF Unlink, SetLife, Goto, TopIsCur
    <2>2. OthersStay(t) /\ pc'[t] = "value"
      BY <1>1, <2>1 DEF OthersStay, Types
    <2>3. Operation(t)' = Abstract!Popped(val[cur[t]])
      BY <1>1, <2>2, OperationsNext DEF OperationsAre, OperationIs
    <2>4. \A u \in Threads : pc'[u] = "return" => pc[u] = "return"
      BY <2>1 DEF Types
    <2>5. Outcomes'
      BY <1>1, <2>4 DEF Outcomes, Owns
    <2>6. PICK q : IsChain(q)
      OBVIOUS
    <2>7. /\ IsChain(Tail(q))' /\ Contents # <<>> /\ Head(Contents) = val[cur[t]]
          /\ Contents' = Tail(Contents)
      <3>1. DOMAIN life = Elems
        BY DEF Types
      <3> QED
        BY <1>1, <2>1, <2>6, <3>1, UnlinkedChain
    <2>8. Operations' = [Operations EXCEPT ![t] = Operation(t)']
      BY <1>2, <2>2, OneOperation
    <2>9. Abstract!Pop(t)
      BY <1>3, <2>3, <2>7, <2>8 DEF Abstract!Pop, Contents, Operations
    <2>10. KInv'
      BY <2>5, <2>7
    <2> QED
      BY <2>9, <2>10 DEF Steps, Abstract!Next
  <1> QED
    BY <1>4, <1>5

LEMMA InitKInv == Init => KInv /\ Abstract!Init
  <1> SUFFICES ASSUME Init PROVE KInv /\ Abstract!Init
    OBVIOUS
  <1>1. IInv
    BY InitIInv
  <1>2. Outcomes
    BY DEF Init, Outcomes, Owns
  <1>3. IsChain(<<>>)
    BY DEF Init, HPInit, IsChain, Once, Range, Entry
  <1>4. Contents = <<>>
    BY <1>3, ContentsOfChain DEF ValuesOf
  <1>5. Operations = [t \in Threads |-> Abstract!Idle]
    <2>1. \A t \in Threads : Operation(t) = Abstract!Idle
      BY DEF Init, Operation, Abstract!Idle
    <2> QED
      BY <2>1 DEF Operations
  <1> QED
    BY <1>1, <1>2, <1>3, <1>4, <1>5 DEF KInv, Abstract!Init, Contents, Operations

LEMMA StepsKeep == KInv /\ [Next]_vars => KInv' /\ Steps
  <1> SUFFICES ASSUME KInv, [Next]_vars PROVE KInv' /\ Steps
    OBVIOUS
  <1>1. IInv'
    BY NextKeeps DEF KInv
  <1>2. CASE UNCHANGED vars
    <2>1. UNCHANGED <<_stack, next, val, life, pc, node, cur, nxt, result>>
      BY <1>2 DEF vars, hpVars, stackVars, opVars
    <2>2. PICK q : IsChain(q)
      BY DEF KInv
    <2>3. IsChain(q)' /\ Contents' = Contents
      BY <2>1, <2>2, StackStays
    <2>4. Outcomes'
      BY <2>1 DEF KInv, Outcomes, Owns
    <2>5. \A t \in Threads : Operation(t)' = Operation(t)
      BY <2>1 DEF Operation
    <2>6. Operations' = Operations
      BY <2>5 DEF Operations
    <2> QED
      BY <1>1, <2>3, <2>4, <2>6 DEF KInv, Steps
  <1>3. CASE Next
    <2>1. PICK t \in Threads :
            \/ \E v \in Values : CallPush(t, v)
            \/ CallPop(t) \/ LoadNull(t) \/ Push(t) \/ Unlink(t) \/ Value(t) \/ Return(t)
            \/ QuietHere(t)
      BY <1>3 DEF Next, Step, QuietHere
    <2> QED
      BY <1>1, <2>1, CallPushSteps, CallPopSteps, LoadNullSteps, PushSteps, UnlinkSteps, ValueSteps,
         ReturnSteps, QuietHereSteps
  <1> QED
    BY <1>2, <1>3

(* The list is what was pushed and not popped: a node is live exactly      *)
(* while it can be reached from the top, though a pop's compare_exchange   *)
(* may meet a top that was popped, freed and pushed again.                 *)
THEOREM TheListIsWhole == Spec => []LiveIsReachable
  <1>1. KInv => LiveIsReachable
    <2> SUFFICES ASSUME KInv PROVE LiveIsReachable
      OBVIOUS
    <2>1. PICK q : IsChain(q)
      BY DEF KInv
    <2>2. Nodes = q /\ {e \in Elems : life[e] = "live"} = {q[i] : i \in DOMAIN q}
      BY <2>1, ContentsOfChain DEF IsChain, Range
    <2> QED
      BY <2>2 DEF LiveIsReachable
  <1> QED
    BY <1>1, InitKInv, StepsKeep, PTL DEF Spec

(* push and pop are linearizable, for every number of threads, slots,      *)
(* nodes and values: each takes effect at its compare_exchange, or at the  *)
(* load of a null top (stack.h:137-144 and 170-177).                       *)
THEOREM StackIsLinearizable == Spec => RefinesStack
  <1>1. Steps => [Abstract!Next]_<<Contents, Operations>>
    BY DEF Steps
  <1> QED
    BY <1>1, InitKInv, StepsKeep, PTL DEF Spec, RefinesStack, Abstract!Spec, Contents, Operations
==============================================================================
