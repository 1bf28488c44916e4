------------------------ MODULE DescriptorPoolProofs ------------------------
(***************************************************************************)
(* Proofs about DescriptorPool, for any number of threads and elements and *)
(* any limits of the pools.                                                *)
(***************************************************************************)
EXTENDS DescriptorPool, SequenceTheorems, FiniteSetTheorems, TLAPS

------------------------------------------------------------------------------
(* What the surgery of a pool leaves of it                                 *)

(* A list holds everything once.                                           *)
Once(q) == \A j, k \in DOMAIN q : q[j] = q[k] => j = k

(* Where the elements of two lists are in the two put together.            *)
LEMMA ConcatIndices ==
  ASSUME NEW S, NEW a \in Seq(S), NEW b \in Seq(S)
  PROVE  /\ a \o b \in Seq(S)
         /\ Len(a \o b) = Len(a) + Len(b)
         /\ \A k \in 1 .. Len(a) : (a \o b)[k] = a[k]
         /\ \A k \in (Len(a) + 1) .. (Len(a) + Len(b)) : (a \o b)[k] = b[k - Len(a)]
  OBVIOUS

(* RemoveAt leaves what was below the position and moves down what was above. *)
LEMMA RemoveAtIndices ==
  ASSUME NEW S, NEW q \in Seq(S), NEW i \in 1 .. Len(q)
  PROVE  /\ RemoveAt(q, i) \in Seq(S)
         /\ Len(RemoveAt(q, i)) = Len(q) - 1
         /\ \A k \in 1 .. (Len(q) - 1) :
              RemoveAt(q, i)[k] = IF k < i THEN q[k] ELSE q[k + 1]
  <1> DEFINE l == SubSeq(q, 1, i - 1)
             r == SubSeq(q, i + 1, Len(q))
  <1>0. Len(q) \in Nat
    OBVIOUS
  <1>1. l \in Seq(S) /\ Len(l) = i - 1 /\ \A k \in 1 .. (i - 1) : l[k] = q[k]
    OBVIOUS
  <1>2. r \in Seq(S) /\ Len(r) = Len(q) - i /\ \A k \in 1 .. (Len(q) - i) : r[k] = q[i + k]
    OBVIOUS
  <1>3. RemoveAt(q, i) = l \o r
    BY DEF RemoveAt
  <1> HIDE DEF l, r
  <1>4. /\ l \o r \in Seq(S) /\ Len(l \o r) = Len(l) + Len(r)
        /\ \A k \in 1 .. Len(l) : (l \o r)[k] = l[k]
        /\ \A k \in (Len(l) + 1) .. (Len(l) + Len(r)) : (l \o r)[k] = r[k - Len(l)]
    <2>1. l \in Seq(S) /\ r \in Seq(S)
      BY <1>1, <1>2
    <2> QED
      BY <2>1, ConcatIndices
  <1>5. Len(l \o r) = Len(q) - 1
    BY <1>0, <1>1, <1>2, <1>4
  <1>6. ASSUME NEW k \in 1 .. (Len(q) - 1)
        PROVE  (l \o r)[k] = IF k < i THEN q[k] ELSE q[k + 1]
    <2>1. CASE k \in 1 .. (i - 1)
      BY <2>1, <1>0, <1>1, <1>4
    <2>2. CASE k \in i .. (Len(q) - 1)
      <3>1. (l \o r)[k] = r[k - (i - 1)]
        BY <2>2, <1>0, <1>1, <1>2, <1>4
      <3>2. k - (i - 1) \in 1 .. (Len(q) - i)
        BY <2>2, <1>0
      <3>3. r[k - (i - 1)] = q[i + (k - (i - 1))]
        BY <3>2, <1>2
      <3> QED
        BY <2>2, <3>1, <3>3, <1>0
    <2>3. k \in 1 .. (i - 1) \/ k \in i .. (Len(q) - 1)
      BY <1>0
    <2> QED
      BY <2>1, <2>2, <2>3
  <1> QED
    BY <1>3, <1>4, <1>5, <1>6

(* The list without a position holds what it held but the element there,   *)
(* if it held everything once.                                             *)
LEMMA RemoveAtRange ==
  ASSUME NEW S, NEW q \in Seq(S), NEW i \in 1 .. Len(q),
         Once(q)
  PROVE  /\ RemoveAt(q, i) \in Seq(S)
         /\ Range(RemoveAt(q, i)) = Range(q) \ {q[i]}
         /\ Once(RemoveAt(q, i))
  <1> DEFINE r == RemoveAt(q, i)
             n == Len(q)
             from(k) == IF k < i THEN k ELSE k + 1
  <1>0. n \in Nat /\ DOMAIN q = 1 .. n /\ i \in 1 .. n
    OBVIOUS
  <1>1. /\ r \in Seq(S) /\ Len(r) = n - 1
        /\ \A k \in 1 .. (n - 1) : r[k] = q[from(k)]
    BY RemoveAtIndices
  <1>2. DOMAIN r = 1 .. (n - 1)
    BY <1>1
  <1> HIDE DEF r, n
  <1>3. \A k \in 1 .. (n - 1) : from(k) \in 1 .. n /\ from(k) # i
    BY <1>0
  <1>4. \A j, k \in 1 .. (n - 1) : from(j) = from(k) => j = k
    BY <1>0
  <1>5. Once(r)
    BY <1>0, <1>1, <1>2, <1>3, <1>4 DEF Once
  <1>6. \A k \in DOMAIN r : r[k] \in Range(q) \ {q[i]}
    <2> SUFFICES ASSUME NEW k \in 1 .. (n - 1) PROVE r[k] \in Range(q) \ {q[i]}
      BY <1>2
    <2>1. PICK j \in 1 .. n : j = from(k)
      BY <1>3
    <2>2. r[k] = q[j] /\ j # i
      BY <1>1, <1>3, <2>1
    <2> QED
      BY <1>0, <2>2 DEF Range, Once
  <1>7. ASSUME NEW k \in 1 .. n, k # i PROVE q[k] \in Range(r)
    <2>1. PICK j \in 1 .. (n - 1) : from(j) = k
      <3>1. CASE k < i
        BY <1>0, <3>1
      <3>2. CASE k > i
        <4>1. k - 1 \in 1 .. (n - 1) /\ from(k - 1) = k
          BY <1>0, <3>2
        <4> QED
          BY <4>1
      <3> QED
        BY <1>0, <1>7, <3>1, <3>2
    <2> QED
      BY <1>1, <1>2, <2>1 DEF Range
  <1>8. Range(r) = Range(q) \ {q[i]}
    BY <1>0, <1>6, <1>7 DEF Range
  <1> QED
    BY <1>1, <1>5, <1>8 DEF r

(* A new head of a list that did not hold it.                              *)
LEMMA PrependRange ==
  ASSUME NEW S, NEW q \in Seq(S), NEW e \in S, e \notin Range(q),
         Once(q)
  PROVE  /\ <<e>> \o q \in Seq(S)
         /\ <<e>> \o q # <<>>
         /\ Range(<<e>> \o q) = Range(q) \cup {e}
         /\ Once(<<e>> \o q)
  <1> DEFINE r == <<e>> \o q
             n == Len(q)
  <1>0. n \in Nat /\ DOMAIN q = 1 .. n
    OBVIOUS
  <1>1. /\ r \in Seq(S) /\ Len(r) = n + 1 /\ r[1] = e
        /\ \A k \in 2 .. (n + 1) : r[k] = q[k - 1]
    <2>1. <<e>> \in Seq(S) /\ Len(<<e>>) = 1 /\ <<e>>[1] = e
      OBVIOUS
    <2> QED
      BY <1>0, <2>1, ConcatIndices
  <1>2. DOMAIN r = 1 .. (n + 1)
    BY <1>0, <1>1
  <1>3. r # <<>>
    BY <1>0, <1>1
  <1> HIDE DEF r, n
  <1>4. \A k \in 1 .. n : q[k] # e
    BY <1>0 DEF Range
  <1>5. \A k \in 2 .. (n + 1) : k - 1 \in 1 .. n
    BY <1>0
  <1>6. ASSUME NEW j \in 1 .. (n + 1), NEW k \in 1 .. (n + 1), r[j] = r[k]
        PROVE  j = k
    <2>1. CASE j = 1 \/ k = 1
      BY <1>0, <1>1, <1>4, <1>5, <1>6, <2>1 DEF Once
    <2>2. CASE j # 1 /\ k # 1
      <3>1. j \in 2 .. (n + 1) /\ k \in 2 .. (n + 1)
        BY <1>0, <2>2
      <3>2. q[j - 1] = q[k - 1] /\ j - 1 \in 1 .. n /\ k - 1 \in 1 .. n
        BY <1>1, <1>5, <1>6, <3>1
      <3>3. j - 1 = k - 1
        BY <1>0, <3>2 DEF Once
      <3> QED
        BY <1>0, <3>3
    <2> QED
      BY <2>1, <2>2
  <1>7. Range(r) = Range(q) \cup {e}
    <2>1. \A k \in 1 .. n : q[k] \in Range(r)
      <3> SUFFICES ASSUME NEW k \in 1 .. n PROVE q[k] \in Range(r)
        OBVIOUS
      <3>1. k + 1 \in 2 .. (n + 1) /\ (k + 1) - 1 = k
        BY <1>0
      <3>2. r[k + 1] = q[k] /\ k + 1 \in DOMAIN r
        BY <1>0, <1>1, <1>2, <3>1
      <3> QED
        BY <3>2 DEF Range
    <2>2. e \in Range(r)
      BY <1>0, <1>1, <1>2 DEF Range
    <2>3. \A k \in 1 .. (n + 1) : r[k] \in Range(q) \cup {e}
      <3> SUFFICES ASSUME NEW k \in 1 .. (n + 1) PROVE r[k] \in Range(q) \cup {e}
        OBVIOUS
      <3>1. CASE k = 1
        BY <1>1, <3>1
      <3>2. CASE k # 1
        <4>1. k \in 2 .. (n + 1)
          BY <1>0, <3>2
        <4>2. PICK j \in 1 .. n : j = k - 1
          BY <1>5, <4>1
        <4>3. r[k] = q[j]
          BY <1>1, <4>1, <4>2
        <4> QED
          BY <1>0, <4>2, <4>3 DEF Range
      <3> QED
        BY <3>1, <3>2
    <2> QED
      BY <1>0, <1>2, <2>1, <2>2, <2>3 DEF Range
  <1>8. Once(r)
    BY <1>2, <1>6 DEF Once
  <1> QED
    BY <1>1, <1>3, <1>7, <1>8 DEF r

(* Two lists that share nothing, put together.                             *)
LEMMA ConcatRange ==
  ASSUME NEW S, NEW a \in Seq(S), NEW b \in Seq(S),
         Once(a), Once(b), Range(a) \cap Range(b) = {}
  PROVE  /\ a \o b \in Seq(S)
         /\ Len(a \o b) = Len(a) + Len(b)
         /\ Range(a \o b) = Range(a) \cup Range(b)
         /\ Once(a \o b)
  <1> DEFINE r == a \o b
             m == Len(a)
             n == Len(b)
  <1>0. m \in Nat /\ n \in Nat /\ DOMAIN a = 1 .. m /\ DOMAIN b = 1 .. n
    OBVIOUS
  <1>1. /\ r \in Seq(S) /\ Len(r) = m + n
        /\ \A k \in 1 .. m : r[k] = a[k]
        /\ \A k \in (m + 1) .. (m + n) : r[k] = b[k - m]
    BY ConcatIndices
  <1>2. DOMAIN r = 1 .. (m + n)
    BY <1>0, <1>1
  <1> HIDE DEF r, m, n
  <1>3. \A k \in 1 .. (m + n) : k \in 1 .. m \/ k \in (m + 1) .. (m + n)
    BY <1>0
  <1>4. \A k \in (m + 1) .. (m + n) : k - m \in 1 .. n
    BY <1>0
  <1>5. \A k \in 1 .. n : k + m \in (m + 1) .. (m + n) /\ (k + m) - m = k
    BY <1>0
  <1>a. \A k \in 1 .. m : k \in 1 .. (m + n)
    BY <1>0
  <1>b. \A k \in (m + 1) .. (m + n) : k \in 1 .. (m + n)
    BY <1>0
  <1>c. \A k \in 1 .. m : a[k] \in Range(a)
    BY <1>0 DEF Range
  <1>d. \A k \in 1 .. n : b[k] \in Range(b)
    BY <1>0 DEF Range
  <1>6. \A k \in 1 .. m : k \in 1 .. (m + n) /\ r[k] \in Range(a)
    BY <1>1, <1>a, <1>c
  <1>7. \A k \in (m + 1) .. (m + n) : k \in 1 .. (m + n) /\ r[k] \in Range(b)
    BY <1>1, <1>4, <1>b, <1>d
  <1>8. Range(r) = Range(a) \cup Range(b)
    <2>1. Range(r) \subseteq Range(a) \cup Range(b)
      BY <1>2, <1>3, <1>6, <1>7 DEF Range
    <2>2. Range(a) \subseteq Range(r)
      BY <1>0, <1>1, <1>2, <1>6 DEF Range
    <2>3. ASSUME NEW k \in 1 .. n PROVE b[k] \in Range(r)
      <3>1. PICK j \in (m + 1) .. (m + n) : j - m = k
        BY <1>5
      <3>2. r[j] = b[k] /\ j \in DOMAIN r
        BY <1>1, <1>2, <1>7, <3>1
      <3> QED
        BY <3>2 DEF Range
    <2> QED
      BY <1>0, <2>1, <2>2, <2>3 DEF Range
  <1>9. ASSUME NEW j \in 1 .. (m + n), NEW k \in 1 .. (m + n), r[j] = r[k] PROVE j = k
    <2>1. CASE j \in 1 .. m /\ k \in 1 .. m
      BY <1>0, <1>1, <1>9, <2>1 DEF Once
    <2>2. CASE j \in (m + 1) .. (m + n) /\ k \in (m + 1) .. (m + n)
      <3>1. b[j - m] = b[k - m] /\ j - m \in DOMAIN b /\ k - m \in DOMAIN b
        BY <1>0, <1>1, <1>4, <1>9, <2>2
      <3>2. j - m = k - m
        BY <3>1 DEF Once
      <3> QED
        BY <1>0, <3>2
    <2>3. ~(j \in 1 .. m /\ k \in (m + 1) .. (m + n)) /\ ~(k \in 1 .. m /\ j \in (m + 1) .. (m + n))
      BY <1>6, <1>7, <1>9
    <2> QED
      BY <1>3, <2>1, <2>2, <2>3
  <1>10. Once(r)
    BY <1>2, <1>9 DEF Once
  <1> QED
    BY <1>1, <1>8, <1>10 DEF r, m, n

(* A list cut in two: the parts share nothing and hold what the list held. *)
LEMMA CutRange ==
  ASSUME NEW S, NEW q \in Seq(S), NEW n \in 0 .. Len(q), Once(q)
  PROVE  LET a == SubSeq(q, 1, n)
             b == SubSeq(q, n + 1, Len(q))
         IN  /\ a \in Seq(S) /\ Len(a) = n /\ Once(a)
             /\ b \in Seq(S) /\ Len(b) = Len(q) - n /\ Once(b)
             /\ Range(a) \cap Range(b) = {}
             /\ Range(a) \cup Range(b) = Range(q)
  <1> DEFINE a == SubSeq(q, 1, n)
             b == SubSeq(q, n + 1, Len(q))
             l == Len(q)
  <1>0. l \in Nat /\ n \in Nat /\ n <= l /\ DOMAIN q = 1 .. l
    OBVIOUS
  <1>1. a \in Seq(S) /\ Len(a) = n /\ \A k \in 1 .. n : a[k] = q[k]
    OBVIOUS
  <1>2. b \in Seq(S) /\ Len(b) = l - n /\ \A k \in 1 .. (l - n) : b[k] = q[n + k]
    OBVIOUS
  <1>3. DOMAIN a = 1 .. n /\ DOMAIN b = 1 .. (l - n)
    <2>1. DOMAIN a = 1 .. Len(a)
      BY <1>1
    <2>2. DOMAIN b = 1 .. Len(b)
      BY <1>2
    <2> QED
      BY <1>1, <1>2, <2>1, <2>2
  <1> HIDE DEF a, b, l
  <1>4. \A k \in 1 .. n : k \in 1 .. l
    BY <1>0
  <1>5. \A k \in 1 .. (l - n) : n + k \in 1 .. l /\ n + k \notin 1 .. n
    BY <1>0
  <1>6. Once(a)
    BY <1>0, <1>1, <1>3, <1>4 DEF Once
  <1>7. Once(b)
    <2> SUFFICES ASSUME NEW j \in 1 .. (l - n), NEW k \in 1 .. (l - n), b[j] = b[k] PROVE j = k
      BY <1>3 DEF Once
    <2>1. n + j = n + k
      BY <1>0, <1>2, <1>5 DEF Once
    <2> QED
      BY <1>0, <2>1
  <1>8. Range(a) \cap Range(b) = {}
    <2>1. \A j \in 1 .. n, k \in 1 .. (l - n) : q[j] # q[n + k]
      BY <1>0, <1>4, <1>5 DEF Once
    <2> QED
      BY <1>1, <1>2, <1>3, <2>1 DEF Range
  <1>9. Range(a) \subseteq Range(q) /\ Range(b) \subseteq Range(q)
    BY <1>0, <1>1, <1>2, <1>3, <1>4, <1>5 DEF Range
  <1>10. ASSUME NEW k \in 1 .. l PROVE q[k] \in Range(a) \cup Range(b)
    <2>1. CASE k <= n
      BY <1>0, <1>1, <1>3, <2>1 DEF Range
    <2>2. CASE n < k
      <3>1. PICK j \in 1 .. (l - n) : n + j = k
        <4>1. k - n \in 1 .. (l - n) /\ n + (k - n) = k
          BY <1>0, <2>2
        <4> QED
          BY <4>1
      <3> QED
        BY <1>2, <1>3, <3>1 DEF Range
    <2> QED
      BY <1>0, <2>1, <2>2
  <1>11. Range(a) \cup Range(b) = Range(q)
    BY <1>0, <1>9, <1>10 DEF Range
  <1> QED
    BY <1>1, <1>2, <1>6, <1>7, <1>8, <1>11 DEF a, b, l

(* A list without its head.                                                *)
LEMMA TailRange ==
  ASSUME NEW S, NEW q \in Seq(S), q # <<>>, Once(q)
  PROVE  /\ Head(q) \in S /\ Head(q) \in Range(q)
         /\ Tail(q) \in Seq(S) /\ Len(Tail(q)) = Len(q) - 1
         /\ Range(Tail(q)) = Range(q) \ {Head(q)}
         /\ Once(Tail(q))
  <1>1. 1 \in 1 .. Len(q) /\ Len(q) \in Nat /\ DOMAIN q = 1 .. Len(q) /\ Head(q) = q[1]
    OBVIOUS
  <1>2. /\ Tail(q) \in Seq(S) /\ Len(Tail(q)) = Len(q) - 1 /\ DOMAIN Tail(q) = 1 .. (Len(q) - 1)
        /\ \A k \in 1 .. (Len(q) - 1) : Tail(q)[k] = q[k + 1]
    OBVIOUS
  <1>3. /\ RemoveAt(q, 1) \in Seq(S) /\ Len(RemoveAt(q, 1)) = Len(q) - 1
        /\ DOMAIN RemoveAt(q, 1) = 1 .. (Len(q) - 1)
        /\ \A k \in 1 .. (Len(q) - 1) : RemoveAt(q, 1)[k] = q[k + 1]
    <2>1. \A k \in 1 .. (Len(q) - 1) : ~(k < 1)
      BY <1>1
    <2>2. /\ RemoveAt(q, 1) \in Seq(S) /\ Len(RemoveAt(q, 1)) = Len(q) - 1
          /\ \A k \in 1 .. (Len(q) - 1) : RemoveAt(q, 1)[k] = IF k < 1 THEN q[k] ELSE q[k + 1]
      BY <1>1, RemoveAtIndices
    <2>3. DOMAIN RemoveAt(q, 1) = 1 .. Len(RemoveAt(q, 1))
      BY <2>2
    <2> QED
      BY <2>1, <2>2, <2>3
  <1>4. /\ Range(RemoveAt(q, 1)) = Range(q) \ {q[1]}
        /\ Once(RemoveAt(q, 1))
    BY <1>1, RemoveAtRange
  <1>5. Tail(q) = RemoveAt(q, 1)
    BY <1>2, <1>3
  <1>6. Head(q) \in Range(q) /\ Head(q) \in S
    BY <1>1 DEF Range
  <1> QED
    BY <1>1, <1>2, <1>4, <1>5, <1>6

-----------------------------------------------------------------------------
(* The inductive invariant. *)

Places == (ListNames \cup {"owner"}) \X Threads

(* What is at a place: the elements of a list, or what a thread owns.      *)
Contents == [p \in Places |-> IF p[1] = "owner" THEN owned[p[2]] ELSE Range(ListOf(p[1], p[2]))]

(* No list holds an element twice, no two places hold the same one, and    *)
(* what was allocated is somewhere.                                        *)
ListsOnce == \A list \in ListNames, t \in Threads : Once(ListOf(list, t))
Apart == \A p, q \in Places : p # q => Contents[p] \cap Contents[q] = {}
Somewhere == allocated = UNION {Contents[p] : p \in Places}

(* The count of an element is the number of threads that have raised it.   *)
Counting == {"validate", "using", "uncount"}
Watchers(e) == {t \in Threads : pc[t] \in Counting /\ watching[t] = e}
CountsWatchers == \A e \in Elems : ref_count[e] = Cardinality(Watchers(e))

(* What a thread holds, step by step.                                      *)
Watching == {"count", "validate", "using", "uncount"}
Adding == {"add", "add_exchange", "add_store"}
Protocol ==
  \A t \in Threads :
    /\ pc[t] \in Watching <=> watching[t] # Null
    /\ pc[t] \in {"peek", "exchange"} => pos[t] \in Threads
    /\ pc[t] = "clear" => pos[t] >= 1
    /\ leaving[t] => pc[t] \in Adding \cup {"clear", "send_unsafe", "gone"}
    /\ pc[t] \in {"send_unsafe", "gone"} => leaving[t]

(* What a list is overwritten with replaces nothing.                       *)
Handover ==
  \A t \in Threads :
    /\ pc[t] \notin Adding => chain[t] = <<>>
    /\ pc[t] = "add_store" => managed_safe[t] = <<>>
    /\ managed_unsafe[t] # <<>> => leaving[t] /\ pc[t] \in Adding \cup {"gone"}

(* What is at the address has an owner.                                    *)
CellOwned == cell # Null => cell \in placed /\ \E t \in Threads : cell \in owned[t]

IInv ==
  /\ TypeOK
  /\ ListsOnce
  /\ Apart
  /\ Somewhere
  /\ CountsWatchers
  /\ Protocol
  /\ Handover
  /\ CellOwned
  /\ CountsMatch

-----------------------------------------------------------------------------
(* Facts about the parts of the invariant. *)

Types ==
  /\ ref_count \in [Elems -> Nat]
  /\ safe_pool_ \in [Threads -> Seq(Elems)]
  /\ unsafe_pool_ \in [Threads -> Seq(Elems)]
  /\ managed_safe \in [Threads -> Seq(Elems)]
  /\ managed_unsafe \in [Threads -> Seq(Elems)]
  /\ chain \in [Threads -> Seq(Elems)]
  /\ safe_pool_count_ \in [Threads -> Nat]
  /\ unsafe_pool_count_ \in [Threads -> Nat]
  /\ pos \in [Threads -> Nat]
  /\ allocated \subseteq Elems /\ placed \subseteq Elems
  /\ leaving \in [Threads -> BOOLEAN]
  /\ cell \in Elems \cup {Null}
  /\ owned \in [Threads -> SUBSET Elems]
  /\ watching \in [Threads -> Elems \cup {Null}]
  /\ pc \in [Threads -> {"out", "count", "validate", "using", "uncount", "clear",
                         "peek", "exchange", "allocate", "pop", "add", "add_exchange",
                         "add_store", "send_unsafe", "gone"}]

LEMMA TypesAreTypeOK == TypeOK <=> Types
  BY DEF TypeOK, Types, Lists

(* The lists of each thread, each of them once.                            *)
EachOnce ==
  \A t \in Threads :
    /\ Once(safe_pool_[t])
    /\ Once(unsafe_pool_[t])
    /\ Once(managed_safe[t])
    /\ Once(managed_unsafe[t])
    /\ Once(chain[t])

LEMMA EachListOnce == ListsOnce <=> EachOnce
  BY DEF ListsOnce, EachOnce, ListNames, ListOf

At(place, t) == <<place, t>>

ContentsSpelled ==
  \A t \in Threads :
    /\ Contents[At("owner", t)] = owned[t]
    /\ Contents[At("safe", t)] = Range(safe_pool_[t])
    /\ Contents[At("unsafe", t)] = Range(unsafe_pool_[t])
    /\ Contents[At("managed", t)] = Range(managed_safe[t])
    /\ Contents[At("managed_unsafe", t)] = Range(managed_unsafe[t])
    /\ Contents[At("chain", t)] = Range(chain[t])

LEMMA ContentsAt == ContentsSpelled
  <1> SUFFICES ASSUME NEW t \in Threads
               PROVE  /\ Contents[At("owner", t)] = owned[t]
                      /\ \A n \in ListNames : Contents[At(n, t)] = Range(ListOf(n, t))
    BY DEF ContentsSpelled, ListNames, ListOf
  <1>1. At("owner", t) \in Places /\ \A n \in ListNames : At(n, t) \in Places /\ n # "owner"
    BY DEF At, Places, ListNames
  <1> QED
    BY <1>1 DEF Contents, At

LEMMA ContentsAtNext == ContentsSpelled'
  <1>1. ContentsSpelled
    BY ContentsAt
  <1> QED
    BY <1>1, PTL

LEMMA EveryPlace ==
  ASSUME NEW p \in Places
  PROVE  \E t \in Threads :
           p \in {At("owner", t), At("safe", t), At("unsafe", t), At("managed", t),
                  At("managed_unsafe", t), At("chain", t)}
  BY DEF Places, ListNames, At

LEMMA PlacesOf ==
  ASSUME NEW t \in Threads
  PROVE  {At("owner", t), At("safe", t), At("unsafe", t), At("managed", t),
          At("managed_unsafe", t), At("chain", t)} \subseteq Places
  BY DEF Places, ListNames, At

(* A place keeps its contents when its list, or what its thread owns, does. *)
LEMMA ContentsStay ==
  ASSUME NEW u \in Threads
  PROVE  /\ owned'[u] = owned[u] => Contents'[At("owner", u)] = Contents[At("owner", u)]
         /\ safe_pool_'[u] = safe_pool_[u] => Contents'[At("safe", u)] = Contents[At("safe", u)]
         /\ unsafe_pool_'[u] = unsafe_pool_[u] => Contents'[At("unsafe", u)] = Contents[At("unsafe", u)]
         /\ managed_safe'[u] = managed_safe[u] => Contents'[At("managed", u)] = Contents[At("managed", u)]
         /\ managed_unsafe'[u] = managed_unsafe[u]
              => Contents'[At("managed_unsafe", u)] = Contents[At("managed_unsafe", u)]
         /\ chain'[u] = chain[u] => Contents'[At("chain", u)] = Contents[At("chain", u)]
  BY ContentsAt, ContentsAtNext DEF ContentsSpelled

(* No list and no owner outside the places P has changed, these hold       *)
(* together what they held and what is new.                                *)
LEMMA Rearranged ==
  ASSUME Apart, Somewhere,
         NEW P \in SUBSET Places, NEW new, new \cap allocated = {},
         allocated' = allocated \cup new,
         \A p \in Places \ P : Contents'[p] = Contents[p],
         UNION {Contents'[p] : p \in P} = new \cup UNION {Contents[p] : p \in P},
         \A p, q \in P : p # q => Contents'[p] \cap Contents'[q] = {}
  PROVE  Apart' /\ Somewhere'
  <1>1. \A p \in P, q \in Places \ P : Contents'[p] \cap Contents'[q] = {}
    <2> SUFFICES ASSUME NEW p \in P, NEW q \in Places \ P, NEW e \in Contents'[p] \cap Contents[q]
                 PROVE  FALSE
      OBVIOUS
    <2>1. e \in allocated
      BY DEF Somewhere
    <2>2. PICK r \in P : e \in Contents[r]
      BY <2>1
    <2> QED
      BY <2>2 DEF Apart
  <1>2. Apart'
    <2> SUFFICES ASSUME NEW p \in Places, NEW q \in Places, p # q
                 PROVE  Contents'[p] \cap Contents'[q] = {}
      BY DEF Apart
    <2>1. CASE p \in P \/ q \in P
      BY <1>1, <2>1
    <2>2. CASE p \notin P /\ q \notin P
      BY <2>2 DEF Apart
    <2> QED
      BY <2>1, <2>2
  <1>3. UNION {Contents'[p] : p \in Places} = allocated \cup new
    <2>1. \A e : (\E p \in P : e \in Contents'[p]) <=> (e \in new \/ \E p \in P : e \in Contents[p])
      OBVIOUS
    <2>2. \A e : (\E p \in Places : e \in Contents'[p]) <=> (e \in new \/ \E p \in Places : e \in Contents[p])
      BY <2>1
    <2>3. \A e : e \in allocated <=> \E p \in Places : e \in Contents[p]
      BY DEF Somewhere
    <2> QED
      BY <2>2, <2>3
  <1>4. Somewhere'
    BY <1>3 DEF Somewhere
  <1> QED
    BY <1>2, <1>4

(* A step that changes no list.                                            *)
LEMMA ListsStay ==
  ASSUME ListsOnce, Apart, Somewhere, CountsMatch,
         UNCHANGED <<localVars, managed_safe, managed_unsafe, allocated, owned, chain>>
  PROVE  ListsOnce' /\ Apart' /\ Somewhere' /\ CountsMatch'
  <1> USE DEF localVars
  <1>1. Contents' = Contents
    BY DEF Contents, ListOf
  <1>2. ListsOnce'
    BY DEF ListsOnce, ListOf
  <1> QED
    BY <1>1, <1>2 DEF Apart, Somewhere, CountsMatch

(* A step that raises no count.                                            *)
LEMMA WatchersStay ==
  ASSUME CountsWatchers, ref_count' = ref_count,
         \A u \in Threads : /\ pc'[u] \in Counting <=> pc[u] \in Counting
                            /\ pc[u] \in Counting => watching'[u] = watching[u]
  PROVE  CountsWatchers'
  <1>1. \A e \in Elems : Watchers(e)' = Watchers(e)
    BY DEF Watchers
  <1> QED
    BY <1>1 DEF CountsWatchers

LEMMA WatchersAreFew ==
  ASSUME NEW e
  PROVE  IsFiniteSet(Watchers(e))
  <1>1. IsFiniteSet(Threads)
    BY NumThreadsAssumption, FS_Interval DEF Threads
  <1>2. Watchers(e) \in SUBSET Threads
    BY DEF Watchers
  <1> QED
    BY <1>1, <1>2, FS_Subset

(* Nobody watches what is not counted.                                     *)
LEMMA UnwatchedIsFree ==
  ASSUME CountsWatchers, NEW e \in Elems, ~Watched(e), TypeOK
  PROVE  Watchers(e) = {}
  <1>1. IsFiniteSet(Watchers(e)) /\ ref_count[e] = Cardinality(Watchers(e)) /\ ref_count[e] = 0
    BY WatchersAreFew DEF CountsWatchers, Watched, TypeOK
  <1> QED
    BY <1>1, FS_EmptySet

LEMMA NothingInNoList == Once(<<>>) /\ Range(<<>>) = {}
  <1>1. DOMAIN <<>> = {}
    OBVIOUS
  <1> QED
    BY <1>1 DEF Once, Range
-----------------------------------------------------------------------------
(* The steps keep the invariant: watch and unwatch, and the client, ...    *)

LEMMA CallWatchKeeps ==
  ASSUME IInv, NEW t \in Threads, CallWatch(t)
  PROVE  IInv'
  <1> USE DEF IInv
  <1>1. /\ pc[t] = "out" /\ cell # Null
        /\ watching' = [watching EXCEPT ![t] = cell]
        /\ pc' = [pc EXCEPT ![t] = "count"]
        /\ UNCHANGED <<ref_count, localVars, managed_safe, managed_unsafe, allocated, cell,
                       owned, placed, pos, leaving, chain>>
    BY DEF CallWatch, Goto
  <1>2. Types
    BY TypesAreTypeOK
  <1>3. Types'
    BY <1>1, <1>2 DEF Types, localVars
  <1>4. TypeOK'
    BY <1>3, TypesAreTypeOK, PTL
  <1>5. ListsOnce' /\ Apart' /\ Somewhere' /\ CountsMatch'
    BY <1>1, ListsStay
  <1>6. CountsWatchers'
    BY <1>1, <1>2, WatchersStay DEF Types, Counting
  <1>7. Protocol'
    BY <1>1, <1>2 DEF Types, Protocol, Watching, Adding
  <1>8. Handover'
    BY <1>1, <1>2 DEF Types, Handover, Adding
  <1>9. CellOwned'
    BY <1>1 DEF CellOwned
  <1> QED
    BY <1>4, <1>5, <1>6, <1>7, <1>8, <1>9

LEMMA WatchCountKeeps ==
  ASSUME IInv, NEW t \in Threads, WatchCount(t)
  PROVE  IInv'
  <1> USE DEF IInv
  <1>1. /\ pc[t] = "count"
        /\ ref_count' = [ref_count EXCEPT ![watching[t]] = @ + 1]
        /\ pc' = [pc EXCEPT ![t] = "validate"]
        /\ UNCHANGED <<localVars, managed_safe, managed_unsafe, allocated, cell, owned, placed,
                       watching, pos, leaving, chain>>
    BY DEF WatchCount, Count, Goto, clientVars
  <1>2. Types
    BY TypesAreTypeOK
  <1>e. PICK e \in Elems : e = watching[t]
    BY <1>1, <1>2 DEF Types, Protocol, Watching
  <1>3. Types'
    <2>1. ref_count[e] + 1 \in Nat
      BY <1>2 DEF Types
    <2> QED
      BY <1>1, <1>2, <1>e, <2>1 DEF Types, localVars
  <1>4. TypeOK'
    BY <1>3, TypesAreTypeOK, PTL
  <1>5. ListsOnce' /\ Apart' /\ Somewhere' /\ CountsMatch'
    BY <1>1, ListsStay
  <1>6. CountsWatchers'
    <2> SUFFICES ASSUME NEW f \in Elems PROVE ref_count'[f] = Cardinality(Watchers(f)')
      BY DEF CountsWatchers
    <2>1. ref_count[f] = Cardinality(Watchers(f)) /\ IsFiniteSet(Watchers(f))
      BY WatchersAreFew DEF CountsWatchers
    <2>2. CASE f = e
      <3>1. Watchers(f)' = Watchers(f) \cup {t} /\ t \notin Watchers(f)
        BY <1>1, <1>2, <1>e, <2>2 DEF Types, Watchers, Counting
      <3>2. Cardinality(Watchers(f) \cup {t}) = Cardinality(Watchers(f)) + 1
        BY <2>1, <3>1, FS_AddElement
      <3>3. ref_count'[f] = ref_count[f] + 1
        BY <1>1, <1>2, <1>e, <2>2 DEF Types
      <3> QED
        BY <2>1, <3>1, <3>2, <3>3
    <2>3. CASE f # e
      <3>1. Watchers(f)' = Watchers(f)
        BY <1>1, <1>2, <1>e, <2>3 DEF Types, Watchers, Counting
      <3>2. ref_count'[f] = ref_count[f]
        BY <1>1, <1>2, <1>e, <2>3 DEF Types
      <3> QED
        BY <2>1, <3>1, <3>2
    <2> QED
      BY <2>2, <2>3
  <1>7. Protocol'
    BY <1>1, <1>2 DEF Types, Protocol, Watching, Adding
  <1>8. Handover'
    BY <1>1, <1>2 DEF Types, Handover, Adding
  <1>9. CellOwned'
    BY <1>1 DEF CellOwned
  <1> QED
    BY <1>4, <1>5, <1>6, <1>7, <1>8, <1>9

LEMMA WatchValidateKeeps ==
  ASSUME IInv, NEW t \in Threads, WatchValidate(t)
  PROVE  IInv'
  <1> USE DEF IInv
  <1>1. PICK l \in {"using", "uncount"} :
          /\ pc[t] = "validate"
          /\ pc' = [pc EXCEPT ![t] = l]
          /\ UNCHANGED <<ref_count, localVars, managed_safe, managed_unsafe, allocated, cell, owned,
                         placed, watching, pos, leaving, chain>>
    BY DEF WatchValidate, Goto, clientVars
  <1>2. Types
    BY TypesAreTypeOK
  <1>3. Types'
    BY <1>1, <1>2 DEF Types, localVars
  <1>4. TypeOK'
    BY <1>3, TypesAreTypeOK, PTL
  <1>5. ListsOnce' /\ Apart' /\ Somewhere' /\ CountsMatch'
    BY <1>1, ListsStay
  <1>6. CountsWatchers'
    BY <1>1, <1>2, WatchersStay DEF Types, Counting
  <1>7. Protocol'
    <2>1. pc'[t] = l /\ \A u \in Threads : u # t => pc'[u] = pc[u]
      BY <1>1, <1>2 DEF Types
    <2>2. watching[t] # Null /\ ~leaving[t]
      BY <1>1 DEF Protocol, Watching, Adding
    <2> QED
      BY <1>1, <2>1, <2>2 DEF Protocol, Watching, Adding
  <1>8. Handover'
    BY <1>1, <1>2 DEF Types, Handover, Adding
  <1>9. CellOwned'
    BY <1>1 DEF CellOwned
  <1> QED
    BY <1>4, <1>5, <1>6, <1>7, <1>8, <1>9

LEMMA UnwatchKeeps ==
  ASSUME IInv, NEW t \in Threads, Unwatch(t)
  PROVE  IInv'
  <1> USE DEF IInv
  <1>1. /\ pc[t] \in {"using", "uncount"}
        /\ ref_count' = [ref_count EXCEPT ![watching[t]] = @ - 1]
        /\ watching' = [watching EXCEPT ![t] = Null]
        /\ pc' = [pc EXCEPT ![t] = "out"]
        /\ UNCHANGED <<localVars, managed_safe, managed_unsafe, allocated, cell, owned, placed,
                       pos, leaving, chain>>
    BY DEF Unwatch, Uncount, Goto
  <1>2. Types
    BY TypesAreTypeOK
  <1>e. PICK e \in Elems : e = watching[t]
    BY <1>1, <1>2 DEF Types, Protocol, Watching
  <1>w. /\ t \in Watchers(e) /\ IsFiniteSet(Watchers(e) \ {t})
        /\ Cardinality(Watchers(e) \ {t}) = Cardinality(Watchers(e)) - 1
        /\ Cardinality(Watchers(e) \ {t}) \in Nat
        /\ ref_count[e] = Cardinality(Watchers(e))
    <2>1. t \in Watchers(e) /\ IsFiniteSet(Watchers(e))
      BY <1>1, <1>e, WatchersAreFew DEF Watchers, Counting
    <2>2. /\ IsFiniteSet(Watchers(e) \ {t})
          /\ Cardinality(Watchers(e) \ {t}) = Cardinality(Watchers(e)) - 1
      BY <2>1, FS_RemoveElement
    <2>3. Cardinality(Watchers(e) \ {t}) \in Nat
      BY <2>2, FS_CardinalityType
    <2> QED
      BY <2>1, <2>2, <2>3 DEF CountsWatchers
  <1>r. ref_count'[e] = Cardinality(Watchers(e) \ {t}) /\ \A f \in Elems : f # e => ref_count'[f] = ref_count[f]
    BY <1>1, <1>2, <1>e, <1>w DEF Types
  <1>3. Types'
    <2>1. ref_count[e] - 1 \in Nat
      BY <1>w
    <2> QED
      BY <1>1, <1>2, <1>e, <2>1 DEF Types, localVars
  <1>4. TypeOK'
    BY <1>3, TypesAreTypeOK, PTL
  <1>5. ListsOnce' /\ Apart' /\ Somewhere' /\ CountsMatch'
    BY <1>1, ListsStay
  <1>6. CountsWatchers'
    <2> SUFFICES ASSUME NEW f \in Elems PROVE ref_count'[f] = Cardinality(Watchers(f)')
      BY DEF CountsWatchers
    <2>1. CASE f = e
      <3>1. Watchers(f)' = Watchers(f) \ {t}
        BY <1>1, <1>2, <1>e, <2>1 DEF Types, Watchers, Counting
      <3> QED
        BY <1>r, <2>1, <3>1
    <2>2. CASE f # e
      <3>1. Watchers(f)' = Watchers(f)
        BY <1>1, <1>2, <1>e, <2>2, NullAssumption DEF Types, Watchers, Counting
      <3> QED
        BY <1>r, <2>2, <3>1 DEF CountsWatchers
    <2> QED
      BY <2>1, <2>2
  <1>7. Protocol'
    BY <1>1, <1>2 DEF Types, Protocol, Watching, Adding
  <1>8. Handover'
    BY <1>1, <1>2 DEF Types, Handover, Adding
  <1>9. CellOwned'
    BY <1>1 DEF CellOwned
  <1> QED
    BY <1>4, <1>5, <1>6, <1>7, <1>8, <1>9

LEMMA PlaceKeeps ==
  ASSUME IInv, NEW t \in Threads, Place(t)
  PROVE  IInv'
  <1> USE DEF IInv
  <1>1. PICK e \in owned[t] \ placed :
          /\ cell' = e /\ placed' = placed \cup {e}
          /\ UNCHANGED <<ref_count, localVars, managed_safe, managed_unsafe, allocated, owned,
                         watching, pc, pos, leaving, chain>>
    BY DEF Place
  <1>2. Types
    BY TypesAreTypeOK
  <1>3. Types'
    BY <1>1, <1>2 DEF Types, localVars
  <1>4. TypeOK'
    BY <1>3, TypesAreTypeOK, PTL
  <1>5. ListsOnce' /\ Apart' /\ Somewhere' /\ CountsMatch'
    BY <1>1, ListsStay
  <1>6. CountsWatchers'
    BY <1>1, WatchersStay
  <1>7. Protocol'
    BY <1>1 DEF Protocol
  <1>8. Handover'
    BY <1>1 DEF Handover
  <1>9. CellOwned'
    BY <1>1 DEF CellOwned
  <1> QED
    BY <1>4, <1>5, <1>6, <1>7, <1>8, <1>9

LEMMA TakeOffKeeps ==
  ASSUME IInv, NEW t \in Threads, TakeOff(t)
  PROVE  IInv'
  <1> USE DEF IInv
  <1>1. /\ cell' = Null
        /\ UNCHANGED <<ref_count, localVars, managed_safe, managed_unsafe, allocated, owned, placed,
                       watching, pc, pos, leaving, chain>>
    BY DEF TakeOff
  <1>2. Types
    BY TypesAreTypeOK
  <1>3. Types'
    BY <1>1, <1>2 DEF Types, localVars
  <1>4. TypeOK'
    BY <1>3, TypesAreTypeOK, PTL
  <1>5. ListsOnce' /\ Apart' /\ Somewhere' /\ CountsMatch'
    BY <1>1, ListsStay
  <1>6. CountsWatchers'
    BY <1>1, WatchersStay
  <1>7. Protocol'
    BY <1>1 DEF Protocol
  <1>8. Handover'
    BY <1>1 DEF Handover
  <1>9. CellOwned'
    BY <1>1 DEF CellOwned
  <1> QED
    BY <1>4, <1>5, <1>6, <1>7, <1>8, <1>9

LEMMA BeginKeeps ==
  ASSUME IInv, NEW t \in Threads, NEW last \in BOOLEAN, Begin(t, last)
  PROVE  IInv'
  <1> USE DEF IInv
  <1>1. /\ pc[t] = "out"
        /\ pc' = [pc EXCEPT ![t] = "clear"]
        /\ leaving' = [leaving EXCEPT ![t] = last]
        /\ pos' = [pos EXCEPT ![t] = 2]
        /\ UNCHANGED <<ref_count, localVars, managed_safe, managed_unsafe, allocated, cell, owned,
                       placed, watching, chain>>
    BY DEF Begin, Goto, clientVars
  <1>2. Types
    BY TypesAreTypeOK
  <1>3. Types'
    BY <1>1, <1>2 DEF Types, localVars
  <1>4. TypeOK'
    BY <1>3, TypesAreTypeOK, PTL
  <1>5. ListsOnce' /\ Apart' /\ Somewhere' /\ CountsMatch'
    BY <1>1, ListsStay
  <1>6. CountsWatchers'
    BY <1>1, <1>2, WatchersStay DEF Types, Counting
  <1>7. Protocol'
    BY <1>1, <1>2 DEF Types, Protocol, Watching, Adding
  <1>8. Handover'
    BY <1>1, <1>2 DEF Types, Handover, Protocol, Adding
  <1>9. CellOwned'
    BY <1>1 DEF CellOwned
  <1> QED
    BY <1>4, <1>5, <1>6, <1>7, <1>8, <1>9
-----------------------------------------------------------------------------
(* ... get_from_pool and get_safe_elements, ...                            *)

(* Where the look through the unsafe pool goes.                            *)
LEMMA ClearControl ==
  ASSUME IInv, NEW t \in Threads, ClearUnsafe(t)
  PROVE  \E l \in {"clear", "send_unsafe", "peek", "pop"}, n \in Nat :
           /\ pc[t] = "clear"
           /\ pc' = [pc EXCEPT ![t] = l] /\ pos' = [pos EXCEPT ![t] = n]
           /\ l = "clear" => n >= 1
           /\ l = "send_unsafe" => leaving[t]
           /\ l \in {"peek", "pop"} => n = 0 /\ ~leaving[t]
  <1>1. Types /\ pc[t] = "clear" /\ pos[t] >= 1 /\ pos[t] \in Nat
    BY TypesAreTypeOK DEF IInv, Types, Protocol, ClearUnsafe
  <1>2. PICK k : k = Position(t)
    OBVIOUS
  <1>3. k \in Nat /\ k >= 1
    BY <1>1, <1>2 DEF Position
  <1>4. CASE unsafe_pool_[t] = <<>> \/ k = 1
    <2>1. /\ pc' = [pc EXCEPT ![t] = IF leaving[t] THEN "send_unsafe"
                                     ELSE IF safe_pool_[t]' = <<>> THEN "peek" ELSE "pop"]
          /\ pos' = [pos EXCEPT ![t] = 0]
      BY <1>2, <1>4 DEF ClearUnsafe, Cleared, Goto
    <2> QED
      BY <1>1, <2>1
  <1>5. CASE ~(unsafe_pool_[t] = <<>> \/ k = 1)
    <2>1. pc' = pc /\ (pos' = [pos EXCEPT ![t] = k + 1] \/ pos' = [pos EXCEPT ![t] = k])
      BY <1>2, <1>5 DEF ClearUnsafe
    <2>2. pc' = [pc EXCEPT ![t] = "clear"]
      BY <1>1, <2>1 DEF Types
    <2>3. k + 1 \in Nat /\ k + 1 >= 1
      BY <1>3
    <2> QED
      BY <1>1, <1>3, <2>1, <2>2, <2>3
  <1> QED
    BY <1>4, <1>5

LEMMA ClearUnsafeKeeps ==
  ASSUME IInv, NEW t \in Threads, ClearUnsafe(t)
  PROVE  IInv'
  <1> USE DEF IInv
  <1>1. PICK l \in {"clear", "send_unsafe", "peek", "pop"}, n \in Nat :
           /\ pc[t] = "clear"
           /\ pc' = [pc EXCEPT ![t] = l] /\ pos' = [pos EXCEPT ![t] = n]
           /\ l = "clear" => n >= 1
           /\ l = "send_unsafe" => leaving[t]
           /\ l \in {"peek", "pop"} => n = 0 /\ ~leaving[t]
    BY ClearControl
  <1>2. UNCHANGED <<ref_count, managed_safe, managed_unsafe, allocated, cell, owned, watching,
                    leaving, chain>>
    BY DEF ClearUnsafe
  <1>3. Types
    BY TypesAreTypeOK
  <1>4. CountsWatchers'
    BY <1>1, <1>2, <1>3, WatchersStay DEF Types, Counting
  <1>5. Protocol'
    <2>1. 0 \in Threads
      BY NumThreadsAssumption DEF Threads
    <2>2. /\ pc'[t] = l /\ pos'[t] = n /\ leaving'[t] = leaving[t] /\ watching'[t] = watching[t]
          /\ \A u \in Threads : u # t => pc'[u] = pc[u] /\ pos'[u] = pos[u]
      BY <1>1, <1>2, <1>3 DEF Types
    <2>3. watching[t] = Null
      BY <1>1 DEF Protocol, Watching
    <2> QED
      BY <1>1, <1>2, <2>1, <2>2, <2>3 DEF Protocol, Watching, Adding
  <1>6. Handover'
    BY <1>1, <1>2, <1>3 DEF Types, Handover, Adding
  <1>7. PICK k, q, e : k = Position(t) /\ q = unsafe_pool_[t] /\ e = q[k]
    OBVIOUS
  <1>8. CASE q = <<>> \/ Watched(e)
    <2>1. UNCHANGED <<localVars, placed>>
      BY <1>7, <1>8 DEF ClearUnsafe
    <2>2. Types'
      BY <1>1, <1>2, <1>3, <2>1 DEF Types, localVars
    <2>3. TypeOK'
      BY <2>2, TypesAreTypeOK, PTL
    <2>4. ListsOnce' /\ Apart' /\ Somewhere' /\ CountsMatch'
      BY <1>2, <2>1, ListsStay
    <2>5. CellOwned'
      BY <1>2, <2>1 DEF CellOwned
    <2> QED
      BY <1>4, <1>5, <1>6, <2>3, <2>4, <2>5
  <1>9. CASE ~(q = <<>> \/ Watched(e))
    <2>1. /\ safe_pool_' = [safe_pool_ EXCEPT ![t] = <<e>> \o @]
          /\ safe_pool_count_' = [safe_pool_count_ EXCEPT ![t] = @ + 1]
          /\ unsafe_pool_' = [unsafe_pool_ EXCEPT ![t] = RemoveAt(q, k)]
          /\ unsafe_pool_count_' = [unsafe_pool_count_ EXCEPT ![t] = @ - 1]
          /\ placed' = placed \ {e}
      BY <1>7, <1>9 DEF ClearUnsafe, AddToSafe, Push, Without
    <2>2. q \in Seq(Elems) /\ k \in 1 .. Len(q) /\ e \in Elems /\ e \in Range(q) /\ Len(q) \in Nat
      <3>1. q \in Seq(Elems) /\ pos[t] \in Nat /\ pos[t] >= 1
        BY <1>1, <1>3, <1>7 DEF Types, Protocol
      <3>2. k \in 1 .. Len(q) /\ Len(q) \in Nat
        BY <1>7, <1>9, <3>1 DEF Position
      <3>3. e \in Elems /\ DOMAIN q = 1 .. Len(q)
        BY <1>7, <3>1, <3>2
      <3> QED
        BY <1>7, <3>1, <3>2, <3>3 DEF Range
    <2>3. /\ Contents[At("safe", t)] = Range(safe_pool_[t])
          /\ Contents[At("unsafe", t)] = Range(q)
          /\ \A u \in Threads : Contents[At("owner", u)] = owned[u]
      BY <1>7, ContentsAt DEF ContentsSpelled
    <2>4. /\ At("safe", t) \in Places /\ At("unsafe", t) \in Places /\ At("safe", t) # At("unsafe", t)
          /\ \A u \in Threads : At("owner", u) \in Places /\ At("owner", u) # At("unsafe", t)
      BY PlacesOf DEF At
    <2>5. e \notin Range(safe_pool_[t]) /\ \A u \in Threads : e \notin owned[u]
      BY <2>2, <2>3, <2>4 DEF Apart
    <2>6. EachOnce
      BY EachListOnce
    <2>7. /\ RemoveAt(q, k) \in Seq(Elems) /\ Len(RemoveAt(q, k)) = Len(q) - 1
          /\ Range(RemoveAt(q, k)) = Range(q) \ {e} /\ Once(RemoveAt(q, k))
      BY <1>7, <2>2, <2>6, RemoveAtRange, RemoveAtIndices DEF EachOnce
    <2>8. /\ <<e>> \o safe_pool_[t] \in Seq(Elems) /\ Len(<<e>> \o safe_pool_[t]) = Len(safe_pool_[t]) + 1
          /\ Range(<<e>> \o safe_pool_[t]) = Range(safe_pool_[t]) \cup {e}
          /\ Once(<<e>> \o safe_pool_[t])
      <3>1. safe_pool_[t] \in Seq(Elems) /\ Once(safe_pool_[t])
        BY <1>3, <2>6 DEF Types, EachOnce
      <3>2. Len(<<e>> \o safe_pool_[t]) = Len(safe_pool_[t]) + 1
        BY <2>2, <3>1
      <3> QED
        BY <2>2, <2>5, <3>1, <3>2, PrependRange
    <2>9. /\ safe_pool_' \in [Threads -> Seq(Elems)] /\ unsafe_pool_' \in [Threads -> Seq(Elems)]
          /\ safe_pool_'[t] = <<e>> \o safe_pool_[t] /\ unsafe_pool_'[t] = RemoveAt(q, k)
          /\ \A u \in Threads : u # t => safe_pool_'[u] = safe_pool_[u] /\ unsafe_pool_'[u] = unsafe_pool_[u]
      BY <1>3, <2>1, <2>7, <2>8 DEF Types
    <2>10. CountsMatch' /\ safe_pool_count_' \in [Threads -> Nat] /\ unsafe_pool_count_' \in [Threads -> Nat]
      <3>1. safe_pool_count_[t] = Len(safe_pool_[t]) /\ unsafe_pool_count_[t] = Len(q)
        BY <1>7 DEF CountsMatch
      <3>2. safe_pool_count_[t] + 1 \in Nat /\ unsafe_pool_count_[t] - 1 \in Nat
        BY <1>3, <2>2, <3>1 DEF Types
      <3>3. /\ safe_pool_count_' \in [Threads -> Nat] /\ unsafe_pool_count_' \in [Threads -> Nat]
            /\ safe_pool_count_'[t] = safe_pool_count_[t] + 1
            /\ unsafe_pool_count_'[t] = unsafe_pool_count_[t] - 1
            /\ \A u \in Threads : u # t => /\ safe_pool_count_'[u] = safe_pool_count_[u]
                                           /\ unsafe_pool_count_'[u] = unsafe_pool_count_[u]
        BY <1>3, <2>1, <3>2 DEF Types
      <3> QED
        BY <2>7, <2>8, <2>9, <3>1, <3>3 DEF CountsMatch
    <2>11. Types'
      BY <1>1, <1>2, <1>3, <2>1, <2>9, <2>10 DEF Types
    <2>12. TypeOK'
      BY <2>11, TypesAreTypeOK, PTL
    <2>13. ListsOnce'
      <3>1. EachOnce'
        BY <1>2, <2>6, <2>7, <2>8, <2>9 DEF EachOnce
      <3> QED
        BY <3>1, EachListOnce, PTL
    <2>14. Apart' /\ Somewhere'
      <3> DEFINE P == {At("safe", t), At("unsafe", t)}
      <3>1. ASSUME NEW p \in Places \ P PROVE Contents'[p] = Contents[p]
        <4>1. PICK u \in Threads :
                p \in {At("owner", u), At("safe", u), At("unsafe", u), At("managed", u),
                       At("managed_unsafe", u), At("chain", u)}
          BY EveryPlace
        <4>2. /\ owned'[u] = owned[u] /\ managed_safe'[u] = managed_safe[u]
              /\ managed_unsafe'[u] = managed_unsafe[u] /\ chain'[u] = chain[u]
              /\ u # t => safe_pool_'[u] = safe_pool_[u] /\ unsafe_pool_'[u] = unsafe_pool_[u]
          BY <1>2, <2>9
        <4> QED
          BY <4>1, <4>2, ContentsStay
      <3>2. /\ Contents'[At("safe", t)] = Contents[At("safe", t)] \cup {e}
            /\ Contents'[At("unsafe", t)] = Contents[At("unsafe", t)] \ {e}
        BY <2>3, <2>7, <2>8, <2>9, ContentsAtNext DEF ContentsSpelled
      <3>3. Contents[At("safe", t)] \cap Contents[At("unsafe", t)] = {} /\ e \in Contents[At("unsafe", t)]
        BY <2>2, <2>3, <2>4 DEF Apart
      <3>4. UNION {Contents'[p] : p \in P} = {} \cup UNION {Contents[p] : p \in P}
        BY <3>2, <3>3
      <3>5. \A p, q_ \in P : p # q_ => Contents'[p] \cap Contents'[q_] = {}
        BY <3>2, <3>3
      <3>6. P \in SUBSET Places /\ allocated' = allocated \cup {} /\ {} \cap allocated = {}
        BY <1>2, <2>4
      <3> HIDE DEF P
      <3> QED
        BY <3>1, <3>4, <3>5, <3>6, Rearranged
    <2>15. CellOwned'
      BY <1>2, <2>1, <2>5 DEF CellOwned
    <2> QED
      BY <1>4, <1>5, <1>6, <2>10, <2>12, <2>13, <2>14, <2>15
  <1> QED
    BY <1>8, <1>9

LEMMA PeekKeeps ==
  ASSUME IInv, NEW t \in Threads, Peek(t)
  PROVE  IInv'
  <1> USE DEF IInv
  <1>1. PICK l \in {"peek", "exchange", "allocate"}, n \in Nat :
          /\ pc[t] = "peek"
          /\ pc' = [pc EXCEPT ![t] = l] /\ pos' = [pos EXCEPT ![t] = n]
          /\ l # "allocate" => n \in Threads
    <2>1. Types /\ pc[t] = "peek" /\ pos[t] \in Threads
      BY TypesAreTypeOK DEF Peek, Protocol
    <2>2. CASE managed_safe[pos[t]] = <<>>
      <3>1. /\ pos' = [pos EXCEPT ![t] = pos[t] + 1]
            /\ pc' = [pc EXCEPT ![t] = IF pos[t] + 1 = NumThreads THEN "allocate" ELSE "peek"]
        BY <2>1, <2>2 DEF Peek, NextPool, Goto, Types
      <3>2. pos[t] + 1 \in Nat /\ (pos[t] + 1 # NumThreads => pos[t] + 1 \in Threads)
        BY <2>1, NumThreadsAssumption DEF Threads
      <3> QED
        BY <2>1, <3>1, <3>2
    <2>3. CASE managed_safe[pos[t]] # <<>>
      <3>1. pos' = [pos EXCEPT ![t] = pos[t]] /\ pc' = [pc EXCEPT ![t] = "exchange"]
        BY <2>1, <2>3 DEF Peek, Goto, Types
      <3> QED
        BY <2>1, <3>1 DEF Types
    <2> QED
      BY <2>2, <2>3
  <1>2. UNCHANGED <<ref_count, localVars, managed_safe, managed_unsafe, allocated, cell, owned,
                    placed, watching, leaving, chain>>
    BY DEF Peek, clientVars
  <1>3. Types
    BY TypesAreTypeOK
  <1>4. Types'
    BY <1>1, <1>2, <1>3 DEF Types, localVars
  <1>5. TypeOK'
    BY <1>4, TypesAreTypeOK, PTL
  <1>6. ListsOnce' /\ Apart' /\ Somewhere' /\ CountsMatch'
    BY <1>2, ListsStay
  <1>7. CountsWatchers'
    BY <1>1, <1>2, <1>3, WatchersStay DEF Types, Counting
  <1>8. Protocol'
    <2>1. /\ pc'[t] = l /\ pos'[t] = n
          /\ \A u \in Threads : u # t => pc'[u] = pc[u] /\ pos'[u] = pos[u]
      BY <1>1, <1>3 DEF Types
    <2>2. watching[t] = Null /\ ~leaving[t]
      BY <1>1 DEF Protocol, Watching, Adding
    <2> QED
      BY <1>1, <1>2, <2>1, <2>2 DEF Protocol, Watching, Adding
  <1>9. Handover'
    BY <1>1, <1>2, <1>3 DEF Types, Handover, Adding
  <1>10. CellOwned'
    BY <1>2 DEF CellOwned
  <1> QED
    BY <1>5, <1>6, <1>7, <1>8, <1>9, <1>10
LEMMA ExchangeKeeps ==
  ASSUME IInv, NEW t \in Threads, Exchange(t)
  PROVE  IInv'
  <1> USE DEF IInv
  <1>1. Types /\ EachOnce
    BY TypesAreTypeOK, EachListOnce
  <1>2. PICK r \in Threads : r = pos[t]
    BY DEF Exchange, Protocol
  <1>3. PICK got \in Seq(Elems) : got = managed_safe[r]
    BY <1>1, <1>2 DEF Types
  <1>4. PICK l \in {"peek", "allocate"}, n \in Nat :
          /\ pc[t] = "exchange"
          /\ pc' = [pc EXCEPT ![t] = l] /\ pos' = [pos EXCEPT ![t] = n]
          /\ l = "peek" => n \in Threads
    <2>1. pc[t] = "exchange"
      BY DEF Exchange
    <2>2. CASE got # <<>> /\ safe_pool_count_[t]' >= MIN_NODES
      <3>1. pos' = [pos EXCEPT ![t] = pos[t]] /\ pc' = [pc EXCEPT ![t] = "allocate"]
        BY <1>1, <1>2, <1>3, <2>2 DEF Exchange, Goto, Types
      <3> QED
        BY <1>1, <2>1, <3>1 DEF Types
    <2>3. CASE ~(got # <<>> /\ safe_pool_count_[t]' >= MIN_NODES)
      <3>1. /\ pos' = [pos EXCEPT ![t] = r + 1]
            /\ pc' = [pc EXCEPT ![t] = IF r + 1 = NumThreads THEN "allocate" ELSE "peek"]
        BY <1>1, <1>2, <1>3, <2>3 DEF Exchange, NextPool, Goto, Types
      <3>2. r + 1 \in Nat /\ (r + 1 # NumThreads => r + 1 \in Threads)
        BY NumThreadsAssumption DEF Threads
      <3> QED
        BY <2>1, <3>1, <3>2
    <2> QED
      BY <2>2, <2>3
  <1>5. /\ managed_safe' = [managed_safe EXCEPT ![r] = <<>>]
        /\ safe_pool_' = [safe_pool_ EXCEPT ![t] = got \o @]
        /\ safe_pool_count_' = [safe_pool_count_ EXCEPT ![t] = @ + Len(got)]
        /\ UNCHANGED <<ref_count, unsafe_pool_, unsafe_pool_count_, managed_unsafe, allocated,
                       cell, owned, placed, watching, leaving, chain>>
    BY <1>2, <1>3 DEF Exchange, clientVars
  <1>6. /\ Contents[At("safe", t)] = Range(safe_pool_[t])
        /\ Contents[At("managed", r)] = Range(got)
    BY <1>3, ContentsAt DEF ContentsSpelled
  <1>7. /\ At("safe", t) \in Places /\ At("managed", r) \in Places
        /\ At("safe", t) # At("managed", r)
    BY PlacesOf DEF At
  <1>8. Range(got) \cap Range(safe_pool_[t]) = {}
    BY <1>6, <1>7 DEF Apart
  <1>9. /\ got \o safe_pool_[t] \in Seq(Elems)
        /\ Len(got \o safe_pool_[t]) = Len(got) + Len(safe_pool_[t])
        /\ Range(got \o safe_pool_[t]) = Range(got) \cup Range(safe_pool_[t])
        /\ Once(got \o safe_pool_[t])
    <2>1. safe_pool_[t] \in Seq(Elems) /\ Once(safe_pool_[t]) /\ Once(got)
      BY <1>1, <1>3 DEF Types, EachOnce
    <2> QED
      BY <1>8, <2>1, ConcatRange
  <1>10. /\ safe_pool_' \in [Threads -> Seq(Elems)] /\ managed_safe' \in [Threads -> Seq(Elems)]
         /\ safe_pool_'[t] = got \o safe_pool_[t] /\ managed_safe'[r] = <<>>
         /\ \A u \in Threads : u # t => safe_pool_'[u] = safe_pool_[u]
         /\ \A u \in Threads : u # r => managed_safe'[u] = managed_safe[u]
    <2>1. <<>> \in Seq(Elems)
      OBVIOUS
    <2> QED
      BY <1>1, <1>5, <1>9, <2>1 DEF Types
  <1>11. CountsMatch' /\ safe_pool_count_' \in [Threads -> Nat]
    <2>1. safe_pool_count_[t] = Len(safe_pool_[t]) /\ safe_pool_count_[t] \in Nat /\ Len(got) \in Nat
      BY <1>1 DEF Types, CountsMatch
    <2>2. /\ safe_pool_count_' \in [Threads -> Nat]
          /\ safe_pool_count_'[t] = Len(got) + Len(safe_pool_[t])
          /\ \A u \in Threads : u # t => safe_pool_count_'[u] = safe_pool_count_[u]
      <3>1. safe_pool_count_ \in [Threads -> Nat] /\ safe_pool_count_[t] + Len(got) \in Nat
        BY <1>1, <2>1 DEF Types
      <3> QED
        BY <1>5, <2>1, <3>1
    <2> QED
      BY <1>5, <1>9, <1>10, <2>2 DEF CountsMatch
  <1>12. Types'
    BY <1>1, <1>4, <1>5, <1>10, <1>11 DEF Types
  <1>13. TypeOK'
    BY <1>12, TypesAreTypeOK, PTL
  <1>14. ListsOnce'
    <2>1. EachOnce'
      BY <1>1, <1>5, <1>9, <1>10, NothingInNoList DEF EachOnce
    <2> QED
      BY <2>1, EachListOnce, PTL
  <1>15. Apart' /\ Somewhere'
    <2> DEFINE P == {At("safe", t), At("managed", r)}
    <2>1. ASSUME NEW p \in Places \ P PROVE Contents'[p] = Contents[p]
      <3>1. PICK u \in Threads :
              p \in {At("owner", u), At("safe", u), At("unsafe", u), At("managed", u),
                     At("managed_unsafe", u), At("chain", u)}
        BY EveryPlace
      <3>2. /\ owned'[u] = owned[u] /\ unsafe_pool_'[u] = unsafe_pool_[u]
            /\ managed_unsafe'[u] = managed_unsafe[u] /\ chain'[u] = chain[u]
            /\ u # t => safe_pool_'[u] = safe_pool_[u]
            /\ u # r => managed_safe'[u] = managed_safe[u]
        BY <1>5, <1>10
      <3> QED
        BY <3>1, <3>2, ContentsStay
    <2>2. /\ Contents'[At("safe", t)] = Contents[At("managed", r)] \cup Contents[At("safe", t)]
          /\ Contents'[At("managed", r)] = {}
      BY <1>6, <1>9, <1>10, ContentsAtNext, NothingInNoList DEF ContentsSpelled
    <2>3. UNION {Contents'[p] : p \in P} = {} \cup UNION {Contents[p] : p \in P}
      BY <2>2
    <2>4. \A p, q \in P : p # q => Contents'[p] \cap Contents'[q] = {}
      BY <2>2
    <2>5. P \in SUBSET Places /\ allocated' = allocated \cup {} /\ {} \cap allocated = {}
      BY <1>5, <1>7
    <2> HIDE DEF P
    <2> QED
      BY <2>1, <2>3, <2>4, <2>5, Rearranged
  <1>16. CountsWatchers'
    BY <1>1, <1>4, <1>5, WatchersStay DEF Types, Counting
  <1>17. Protocol'
    <2>1. /\ pc'[t] = l /\ pos'[t] = n
          /\ \A u \in Threads : u # t => pc'[u] = pc[u] /\ pos'[u] = pos[u]
      BY <1>1, <1>4 DEF Types
    <2>2. watching[t] = Null /\ ~leaving[t]
      BY <1>4 DEF Protocol, Watching, Adding
    <2> QED
      BY <1>4, <1>5, <2>1, <2>2 DEF Protocol, Watching, Adding
  <1>18. Handover'
    <2>1. pc'[t] = l /\ \A u \in Threads : u # t => pc'[u] = pc[u]
      BY <1>1, <1>4 DEF Types
    <2>2. chain[t] = <<>> /\ managed_unsafe[t] = <<>>
      BY <1>4 DEF Handover, Adding
    <2> QED
      BY <1>4, <1>5, <1>10, <2>1, <2>2 DEF Handover, Adding
  <1>19. CellOwned'
    BY <1>5 DEF CellOwned
  <1> QED
    BY <1>11, <1>13, <1>14, <1>15, <1>16, <1>17, <1>18, <1>19

(* What is allocated was nowhere before.                                   *)
LEMMA FreshIsNowhere ==
  ASSUME Somewhere, NEW e \in Fresh, NEW p \in Places
  PROVE  e \notin Contents[p]
  BY DEF Somewhere, Fresh

LEMMA AllocateKeeps ==
  ASSUME IInv, NEW t \in Threads, Allocate(t)
  PROVE  IInv'
  <1> USE DEF IInv
  <1>1. Types /\ EachOnce /\ pc[t] = "allocate"
    BY TypesAreTypeOK, EachListOnce DEF Allocate
  <1>2. UNCHANGED <<ref_count, unsafe_pool_, unsafe_pool_count_, managed_safe, managed_unsafe,
                    cell, owned, placed, watching, pos, leaving, chain>>
    BY DEF Allocate, clientVars
  <1>3. CellOwned'
    BY <1>2 DEF CellOwned
  <1>4. CASE safe_pool_count_[t] < MIN_NODES
    <2>1. PICK e \in Fresh : AddToSafe(t, e) /\ allocated' = allocated \cup {e} /\ UNCHANGED pc
      BY <1>4 DEF Allocate
    <2>2. /\ safe_pool_' = [safe_pool_ EXCEPT ![t] = <<e>> \o @]
          /\ safe_pool_count_' = [safe_pool_count_ EXCEPT ![t] = @ + 1]
      BY <2>1 DEF AddToSafe, Push
    <2>3. /\ At("safe", t) \in Places /\ Contents[At("safe", t)] = Range(safe_pool_[t])
          /\ e \notin Range(safe_pool_[t]) /\ e \in Elems /\ e \notin allocated
      BY PlacesOf, ContentsAt, FreshIsNowhere DEF ContentsSpelled, Fresh
    <2>4. /\ <<e>> \o safe_pool_[t] \in Seq(Elems)
          /\ Len(<<e>> \o safe_pool_[t]) = Len(safe_pool_[t]) + 1
          /\ Range(<<e>> \o safe_pool_[t]) = Range(safe_pool_[t]) \cup {e}
          /\ Once(<<e>> \o safe_pool_[t])
      <3>1. safe_pool_[t] \in Seq(Elems) /\ Once(safe_pool_[t])
        BY <1>1 DEF Types, EachOnce
      <3>2. Len(<<e>> \o safe_pool_[t]) = Len(safe_pool_[t]) + 1
        BY <2>3, <3>1
      <3> QED
        BY <2>3, <3>1, <3>2, PrependRange
    <2>5. /\ safe_pool_' \in [Threads -> Seq(Elems)] /\ safe_pool_'[t] = <<e>> \o safe_pool_[t]
          /\ \A u \in Threads : u # t => safe_pool_'[u] = safe_pool_[u]
      BY <1>1, <2>2, <2>4 DEF Types
    <2>6. CountsMatch' /\ safe_pool_count_' \in [Threads -> Nat]
      <3>1. /\ safe_pool_count_' \in [Threads -> Nat]
            /\ safe_pool_count_'[t] = safe_pool_count_[t] + 1
            /\ \A u \in Threads : u # t => safe_pool_count_'[u] = safe_pool_count_[u]
        BY <1>1, <2>2 DEF Types
      <3> QED
        BY <1>2, <2>4, <2>5, <3>1 DEF CountsMatch
    <2>7. Types'
      BY <1>1, <1>2, <2>1, <2>3, <2>5, <2>6 DEF Types
    <2>8. TypeOK'
      BY <2>7, TypesAreTypeOK, PTL
    <2>9. ListsOnce'
      <3>1. EachOnce'
        BY <1>1, <1>2, <2>4, <2>5 DEF EachOnce
      <3> QED
        BY <3>1, EachListOnce, PTL
    <2>10. Apart' /\ Somewhere'
      <3> DEFINE P == {At("safe", t)}
      <3>1. ASSUME NEW p \in Places \ P PROVE Contents'[p] = Contents[p]
        <4>1. PICK u \in Threads :
                p \in {At("owner", u), At("safe", u), At("unsafe", u), At("managed", u),
                       At("managed_unsafe", u), At("chain", u)}
          BY EveryPlace
        <4>2. /\ owned'[u] = owned[u] /\ unsafe_pool_'[u] = unsafe_pool_[u]
              /\ managed_unsafe'[u] = managed_unsafe[u] /\ chain'[u] = chain[u]
              /\ managed_safe'[u] = managed_safe[u]
              /\ u # t => safe_pool_'[u] = safe_pool_[u]
          BY <1>2, <2>5
        <4> QED
          BY <4>1, <4>2, ContentsStay
      <3>2. Contents'[At("safe", t)] = {e} \cup Contents[At("safe", t)]
        BY <2>3, <2>4, <2>5, ContentsAtNext DEF ContentsSpelled
      <3>3. UNION {Contents'[p] : p \in P} = {e} \cup UNION {Contents[p] : p \in P}
        BY <3>2
      <3>4. \A p, q \in P : p # q => Contents'[p] \cap Contents'[q] = {}
        OBVIOUS
      <3>5. P \in SUBSET Places /\ allocated' = allocated \cup {e} /\ {e} \cap allocated = {}
        BY <2>1, <2>3
      <3> HIDE DEF P
      <3> QED
        BY <3>1, <3>3, <3>4, <3>5, Rearranged
    <2>11. CountsWatchers'
      BY <1>2, <2>1, WatchersStay
    <2>12. Protocol' /\ Handover'
      BY <1>2, <2>1 DEF Protocol, Handover
    <2> QED
      BY <1>3, <2>6, <2>8, <2>9, <2>10, <2>11, <2>12
  <1>5. CASE ~(safe_pool_count_[t] < MIN_NODES)
    <2>1. pc' = [pc EXCEPT ![t] = "pop"] /\ UNCHANGED <<safe_pool_, safe_pool_count_, allocated>>
      BY <1>5 DEF Allocate, Goto
    <2>2. Types'
      BY <1>1, <1>2, <2>1 DEF Types
    <2>3. TypeOK'
      BY <2>2, TypesAreTypeOK, PTL
    <2>4. ListsOnce' /\ Apart' /\ Somewhere' /\ CountsMatch'
      BY <1>2, <2>1, ListsStay DEF localVars
    <2>5. CountsWatchers'
      BY <1>1, <1>2, <2>1, WatchersStay DEF Types, Counting
    <2>6. Protocol'
      BY <1>1, <1>2, <2>1 DEF Types, Protocol, Watching, Adding
    <2>7. Handover'
      BY <1>1, <1>2, <2>1 DEF Types, Handover, Adding
    <2> QED
      BY <1>3, <2>3, <2>4, <2>5, <2>6, <2>7
  <1> QED
    BY <1>4, <1>5

(* The head of the pool, or a new element, goes to its owner.              *)
LEMMA PopKeeps ==
  ASSUME IInv, NEW t \in Threads, Pop(t)
  PROVE  IInv'
  <1> USE DEF IInv
  <1>1. Types /\ EachOnce /\ pc[t] = "pop"
    BY TypesAreTypeOK, EachListOnce DEF Pop
  <1>2. /\ pc' = [pc EXCEPT ![t] = "out"]
        /\ UNCHANGED <<ref_count, unsafe_pool_, unsafe_pool_count_, managed_safe, managed_unsafe,
                       cell, placed, watching, pos, leaving, chain>>
    BY DEF Pop, Goto
  <1>3. CountsWatchers'
    BY <1>1, <1>2, WatchersStay DEF Types, Counting
  <1>4. Protocol'
    BY <1>1, <1>2 DEF Types, Protocol, Watching, Adding
  <1>5. Handover'
    BY <1>1, <1>2 DEF Types, Handover, Adding
  <1>6. /\ At("safe", t) \in Places /\ At("owner", t) \in Places /\ At("safe", t) # At("owner", t)
        /\ Contents[At("safe", t)] = Range(safe_pool_[t]) /\ Contents[At("owner", t)] = owned[t]
    BY PlacesOf, ContentsAt DEF ContentsSpelled, At
  <1>7. CASE safe_pool_[t] # <<>>
    <2>1. PICK e : e = Head(safe_pool_[t])
      OBVIOUS
    <2>2. /\ owned' = [owned EXCEPT ![t] = @ \cup {e}]
          /\ safe_pool_' = [safe_pool_ EXCEPT ![t] = Tail(@)]
          /\ safe_pool_count_' = [safe_pool_count_ EXCEPT ![t] = @ - 1]
          /\ UNCHANGED allocated
      BY <1>7, <2>1 DEF Pop
    <2>3. /\ e \in Elems /\ e \in Range(safe_pool_[t])
          /\ Tail(safe_pool_[t]) \in Seq(Elems)
          /\ Len(Tail(safe_pool_[t])) = Len(safe_pool_[t]) - 1
          /\ Range(Tail(safe_pool_[t])) = Range(safe_pool_[t]) \ {e}
          /\ Once(Tail(safe_pool_[t]))
      <3>1. safe_pool_[t] \in Seq(Elems) /\ Once(safe_pool_[t])
        BY <1>1 DEF Types, EachOnce
      <3> QED
        BY <1>7, <2>1, <3>1, TailRange
    <2>4. /\ safe_pool_' \in [Threads -> Seq(Elems)] /\ safe_pool_'[t] = Tail(safe_pool_[t])
          /\ \A u \in Threads : u # t => safe_pool_'[u] = safe_pool_[u]
      BY <1>1, <2>2, <2>3 DEF Types
    <2>5. /\ owned' \in [Threads -> SUBSET Elems] /\ owned'[t] = owned[t] \cup {e}
          /\ \A u \in Threads : u # t => owned'[u] = owned[u]
      BY <1>1, <2>2, <2>3 DEF Types
    <2>6. CountsMatch' /\ safe_pool_count_' \in [Threads -> Nat]
      <3>1. safe_pool_count_[t] = Len(safe_pool_[t]) /\ Len(Tail(safe_pool_[t])) \in Nat
        BY <2>3 DEF CountsMatch
      <3>2. /\ safe_pool_count_' \in [Threads -> Nat]
            /\ safe_pool_count_'[t] = safe_pool_count_[t] - 1
            /\ \A u \in Threads : u # t => safe_pool_count_'[u] = safe_pool_count_[u]
        BY <1>1, <2>2, <2>3, <3>1 DEF Types
      <3> QED
        BY <1>2, <2>3, <2>4, <3>1, <3>2 DEF CountsMatch
    <2>7. Types'
      BY <1>1, <1>2, <2>2, <2>4, <2>5, <2>6 DEF Types
    <2>8. TypeOK'
      BY <2>7, TypesAreTypeOK, PTL
    <2>9. ListsOnce'
      <3>1. EachOnce'
        BY <1>1, <1>2, <2>3, <2>4 DEF EachOnce
      <3> QED
        BY <3>1, EachListOnce, PTL
    <2>10. Apart' /\ Somewhere'
      <3> DEFINE P == {At("safe", t), At("owner", t)}
      <3>1. ASSUME NEW p \in Places \ P PROVE Contents'[p] = Contents[p]
        <4>1. PICK u \in Threads :
                p \in {At("owner", u), At("safe", u), At("unsafe", u), At("managed", u),
                       At("managed_unsafe", u), At("chain", u)}
          BY EveryPlace
        <4>2. /\ unsafe_pool_'[u] = unsafe_pool_[u] /\ managed_unsafe'[u] = managed_unsafe[u]
              /\ chain'[u] = chain[u] /\ managed_safe'[u] = managed_safe[u]
              /\ u # t => owned'[u] = owned[u] /\ safe_pool_'[u] = safe_pool_[u]
          BY <1>2, <2>4, <2>5
        <4> QED
          BY <4>1, <4>2, ContentsStay
      <3>2. /\ Contents'[At("safe", t)] = Contents[At("safe", t)] \ {e}
            /\ Contents'[At("owner", t)] = Contents[At("owner", t)] \cup {e}
        BY <1>6, <2>3, <2>4, <2>5, ContentsAtNext DEF ContentsSpelled
      <3>3. e \in Contents[At("safe", t)] /\ Contents[At("safe", t)] \cap Contents[At("owner", t)] = {}
        BY <1>6, <2>3 DEF Apart
      <3>4. UNION {Contents'[p] : p \in P} = {} \cup UNION {Contents[p] : p \in P}
        BY <3>2, <3>3
      <3>5. \A p, q \in P : p # q => Contents'[p] \cap Contents'[q] = {}
        BY <3>2, <3>3
      <3>6. P \in SUBSET Places /\ allocated' = allocated \cup {} /\ {} \cap allocated = {}
        BY <1>6, <2>2
      <3> HIDE DEF P
      <3> QED
        BY <3>1, <3>4, <3>5, <3>6, Rearranged
    <2>11. CellOwned'
      BY <1>2, <2>5 DEF CellOwned
    <2> QED
      BY <1>3, <1>4, <1>5, <2>6, <2>8, <2>9, <2>10, <2>11
  <1>8. CASE ~(safe_pool_[t] # <<>>)
    <2>1. PICK e \in Fresh : /\ owned' = [owned EXCEPT ![t] = @ \cup {e}]
                             /\ allocated' = allocated \cup {e}
                             /\ UNCHANGED <<safe_pool_, safe_pool_count_>>
      BY <1>8 DEF Pop
    <2>2. e \in Elems /\ e \notin allocated
      BY DEF Fresh
    <2>3. /\ owned' \in [Threads -> SUBSET Elems] /\ owned'[t] = owned[t] \cup {e}
          /\ \A u \in Threads : u # t => owned'[u] = owned[u]
      BY <1>1, <2>1, <2>2 DEF Types
    <2>4. Types'
      BY <1>1, <1>2, <2>1, <2>2, <2>3 DEF Types
    <2>5. TypeOK'
      BY <2>4, TypesAreTypeOK, PTL
    <2>6. ListsOnce' /\ CountsMatch'
      <3>1. EachOnce'
        BY <1>1, <1>2, <2>1 DEF EachOnce
      <3>2. ListsOnce'
        BY <3>1, EachListOnce, PTL
      <3> QED
        BY <1>2, <2>1, <3>2 DEF CountsMatch
    <2>7. Apart' /\ Somewhere'
      <3> DEFINE P == {At("owner", t)}
      <3>1. ASSUME NEW p \in Places \ P PROVE Contents'[p] = Contents[p]
        <4>1. PICK u \in Threads :
                p \in {At("owner", u), At("safe", u), At("unsafe", u), At("managed", u),
                       At("managed_unsafe", u), At("chain", u)}
          BY EveryPlace
        <4>2. /\ unsafe_pool_'[u] = unsafe_pool_[u] /\ managed_unsafe'[u] = managed_unsafe[u]
              /\ chain'[u] = chain[u] /\ managed_safe'[u] = managed_safe[u]
              /\ safe_pool_'[u] = safe_pool_[u]
              /\ u # t => owned'[u] = owned[u]
          BY <1>2, <2>1, <2>3
        <4> QED
          BY <4>1, <4>2, ContentsStay
      <3>2. Contents'[At("owner", t)] = {e} \cup Contents[At("owner", t)]
        BY <1>6, <2>3, ContentsAtNext DEF ContentsSpelled
      <3>3. UNION {Contents'[p] : p \in P} = {e} \cup UNION {Contents[p] : p \in P}
        BY <3>2
      <3>4. \A p, q \in P : p # q => Contents'[p] \cap Contents'[q] = {}
        OBVIOUS
      <3>5. P \in SUBSET Places /\ allocated' = allocated \cup {e} /\ {e} \cap allocated = {}
        BY <1>6, <2>1, <2>2
      <3> HIDE DEF P
      <3> QED
        BY <3>1, <3>3, <3>4, <3>5, Rearranged
    <2>8. CellOwned'
      BY <1>2, <2>3 DEF CellOwned
    <2> QED
      BY <1>3, <1>4, <1>5, <2>5, <2>6, <2>7, <2>8
  <1> QED
    BY <1>7, <1>8
-----------------------------------------------------------------------------
(* ... free_descriptor and offload, ...                                    *)

LEMMA FreeDescriptorKeeps ==
  ASSUME IInv, NEW t \in Threads, FreeDescriptor(t)
  PROVE  IInv'
  <1> USE DEF IInv
  <1>1. Types /\ EachOnce /\ pc[t] = "out" /\ chain[t] = <<>>
    BY TypesAreTypeOK, EachListOnce DEF FreeDescriptor, Handover, Adding
  <1> DEFINE Listed(e, s) == IF s THEN Push(e, safe_pool_[t]) ELSE safe_pool_[t]
             Counted(s) == IF s THEN safe_pool_count_[t] + 1 ELSE safe_pool_count_[t]
  <1>s. PICK e \in owned[t] \ {cell}, safe \in BOOLEAN :
          LET list == Listed(e, safe)
              count == Counted(safe)
              extra == Extra(count)
          IN
          /\ safe_pool_' = [safe_pool_ EXCEPT ![t] = SubSeq(list, extra + 1, Len(list))]
          /\ safe_pool_count_' = [safe_pool_count_ EXCEPT ![t] = count - extra]
          /\ IF safe THEN UNCHANGED <<unsafe_pool_, unsafe_pool_count_>>
             ELSE /\ unsafe_pool_' = [unsafe_pool_ EXCEPT ![t] = Push(e, @)]
                  /\ unsafe_pool_count_' = [unsafe_pool_count_ EXCEPT ![t] = @ + 1]
          /\ owned' = [owned EXCEPT ![t] = @ \ {e}]
          /\ placed' = IF safe THEN placed \ {e} ELSE placed
          /\ chain' = [chain EXCEPT ![t] = SubSeq(list, 1, extra)]
          /\ pc' = [pc EXCEPT ![t] = IF extra = 0 THEN "out" ELSE "add"]
    BY ZenonT(60) DEF FreeDescriptor, Goto
  <1>l. PICK list, count, extra : list = Listed(e, safe) /\ count = Counted(safe) /\ extra = Extra(count)
    OBVIOUS
  <1>2. /\ list = IF safe THEN <<e>> \o safe_pool_[t] ELSE safe_pool_[t]
        /\ count = IF safe THEN safe_pool_count_[t] + 1 ELSE safe_pool_count_[t]
        /\ extra = Extra(count)
        /\ safe_pool_' = [safe_pool_ EXCEPT ![t] = SubSeq(list, extra + 1, Len(list))]
        /\ safe_pool_count_' = [safe_pool_count_ EXCEPT ![t] = count - extra]
        /\ safe => UNCHANGED <<unsafe_pool_, unsafe_pool_count_>>
        /\ ~safe => /\ unsafe_pool_' = [unsafe_pool_ EXCEPT ![t] = <<e>> \o @]
                    /\ unsafe_pool_count_' = [unsafe_pool_count_ EXCEPT ![t] = @ + 1]
        /\ owned' = [owned EXCEPT ![t] = @ \ {e}]
        /\ placed' = IF safe THEN placed \ {e} ELSE placed
        /\ chain' = [chain EXCEPT ![t] = SubSeq(list, 1, extra)]
        /\ pc' = [pc EXCEPT ![t] = IF extra = 0 THEN "out" ELSE "add"]
    BY <1>s, <1>l DEF Push
  <1> HIDE DEF Listed, Counted
  <1>3. UNCHANGED <<ref_count, managed_safe, managed_unsafe, allocated, cell, watching, pos, leaving>>
    BY DEF FreeDescriptor
  <1>4. /\ Contents[At("safe", t)] = Range(safe_pool_[t])
        /\ Contents[At("unsafe", t)] = Range(unsafe_pool_[t])
        /\ Contents[At("chain", t)] = {}
        /\ \A u \in Threads : Contents[At("owner", u)] = owned[u]
    BY <1>1, ContentsAt, NothingInNoList DEF ContentsSpelled
  <1>5. /\ {At("owner", t), At("safe", t), At("unsafe", t), At("chain", t)} \subseteq Places
        /\ At("owner", t) # At("safe", t) /\ At("owner", t) # At("unsafe", t)
        /\ At("safe", t) # At("unsafe", t) /\ At("chain", t) # At("safe", t)
        /\ \A u \in Threads : At("owner", u) \in Places /\ (u # t => At("owner", u) # At("owner", t))
    BY PlacesOf DEF At
  <1>6. /\ Range(safe_pool_[t]) \cap owned[t] = {} /\ Range(unsafe_pool_[t]) \cap owned[t] = {}
        /\ Range(safe_pool_[t]) \cap Range(unsafe_pool_[t]) = {}
        /\ e \in Elems /\ e \in owned[t]
        /\ \A u \in Threads : u # t => e \notin owned[u]
    <2>1. e \in Elems /\ e \in owned[t]
      BY <1>1 DEF Types
    <2> QED
      BY <1>4, <1>5, <2>1 DEF Apart
  <1>7. /\ safe_pool_[t] \in Seq(Elems) /\ Once(safe_pool_[t])
        /\ unsafe_pool_[t] \in Seq(Elems) /\ Once(unsafe_pool_[t])
        /\ safe_pool_count_[t] = Len(safe_pool_[t]) /\ unsafe_pool_count_[t] = Len(unsafe_pool_[t])
    BY <1>1 DEF Types, EachOnce, CountsMatch
  <1>8. /\ list \in Seq(Elems) /\ Once(list) /\ Len(list) = count
        /\ Range(list) = IF safe THEN Range(safe_pool_[t]) \cup {e} ELSE Range(safe_pool_[t])
    <2>1. CASE safe
      <3>1. list = <<e>> \o safe_pool_[t]
        BY <1>2, <2>1
      <3>2. Len(<<e>> \o safe_pool_[t]) = Len(safe_pool_[t]) + 1
        BY <1>6, <1>7
      <3>3. e \notin Range(safe_pool_[t])
        BY <1>6
      <3> QED
        BY <1>2, <1>6, <1>7, <2>1, <3>1, <3>2, <3>3, PrependRange
    <2>2. CASE ~safe
      BY <1>2, <1>7, <2>2
    <2> QED
      BY <2>1, <2>2
  <1>9. extra \in 0 .. Len(list)
    <2>1. count \in Nat /\ Len(list) = count
      BY <1>8
    <2>2. MIN_NODES \in Nat /\ MAX_NODES \in Nat /\ MIN_NODES < MAX_NODES
      BY NodesAssumption
    <2>3. extra = IF count > MAX_NODES THEN count - MIN_NODES ELSE 0
      BY <1>2 DEF Extra
    <2> QED
      BY <2>1, <2>2, <2>3
  <1>10. PICK a, b : a = SubSeq(list, 1, extra) /\ b = SubSeq(list, extra + 1, Len(list))
    OBVIOUS
  <1>11. /\ a \in Seq(Elems) /\ Len(a) = extra /\ Once(a)
         /\ b \in Seq(Elems) /\ Len(b) = Len(list) - extra /\ Once(b)
         /\ Range(a) \cap Range(b) = {}
         /\ Range(a) \cup Range(b) = Range(list)
    <2>1. LET x == SubSeq(list, 1, extra)
              y == SubSeq(list, extra + 1, Len(list))
          IN  /\ x \in Seq(Elems) /\ Len(x) = extra /\ Once(x)
              /\ y \in Seq(Elems) /\ Len(y) = Len(list) - extra /\ Once(y)
              /\ Range(x) \cap Range(y) = {}
              /\ Range(x) \cup Range(y) = Range(list)
      BY <1>8, <1>9, CutRange, Zenon
    <2> QED
      BY <1>10, <2>1, Zenon
  <1>12. PICK c : c = IF safe THEN unsafe_pool_[t] ELSE <<e>> \o unsafe_pool_[t]
    OBVIOUS
  <1>13. /\ c \in Seq(Elems) /\ Once(c)
         /\ Len(c) = IF safe THEN Len(unsafe_pool_[t]) ELSE Len(unsafe_pool_[t]) + 1
         /\ Range(c) = IF safe THEN Range(unsafe_pool_[t]) ELSE Range(unsafe_pool_[t]) \cup {e}
    <2>1. CASE safe
      BY <1>7, <1>12, <2>1
    <2>2. CASE ~safe
      <3>1. Len(<<e>> \o unsafe_pool_[t]) = Len(unsafe_pool_[t]) + 1
        BY <1>6, <1>7
      <3>2. e \notin Range(unsafe_pool_[t])
        BY <1>6
      <3> QED
        BY <1>6, <1>7, <1>12, <2>2, <3>1, <3>2, PrependRange
    <2> QED
      BY <2>1, <2>2
  <1>14. /\ safe_pool_' \in [Threads -> Seq(Elems)] /\ safe_pool_'[t] = b
         /\ chain' \in [Threads -> Seq(Elems)] /\ chain'[t] = a
         /\ \A u \in Threads : u # t => safe_pool_'[u] = safe_pool_[u] /\ chain'[u] = chain[u]
    BY <1>1, <1>2, <1>10, <1>11 DEF Types
  <1>15. /\ unsafe_pool_' \in [Threads -> Seq(Elems)] /\ unsafe_pool_'[t] = c
         /\ \A u \in Threads : u # t => unsafe_pool_'[u] = unsafe_pool_[u]
    <2>1. CASE safe
      BY <1>1, <1>2, <1>12, <2>1 DEF Types
    <2>2. CASE ~safe
      <3>1. c = <<e>> \o unsafe_pool_[t] /\ unsafe_pool_' = [unsafe_pool_ EXCEPT ![t] = <<e>> \o @]
        BY <1>2, <1>12, <2>2
      <3>2. unsafe_pool_' = [unsafe_pool_ EXCEPT ![t] = c]
        BY <3>1
      <3>3. unsafe_pool_ \in [Threads -> Seq(Elems)] /\ c \in Seq(Elems)
        BY <1>1, <1>13 DEF Types
      <3> QED
        BY <3>2, <3>3
    <2> QED
      BY <2>1, <2>2
  <1>16. /\ owned' \in [Threads -> SUBSET Elems] /\ owned'[t] = owned[t] \ {e}
         /\ \A u \in Threads : u # t => owned'[u] = owned[u]
    BY <1>1, <1>2 DEF Types
  <1>17. CountsMatch' /\ safe_pool_count_' \in [Threads -> Nat] /\ unsafe_pool_count_' \in [Threads -> Nat]
    <2>1. Len(b) \in Nat /\ count - extra = Len(b) /\ Len(c) \in Nat
      BY <1>8, <1>11, <1>13
    <2>2. /\ safe_pool_count_' \in [Threads -> Nat] /\ safe_pool_count_'[t] = Len(b)
          /\ \A u \in Threads : u # t => safe_pool_count_'[u] = safe_pool_count_[u]
      BY <1>1, <1>2, <2>1 DEF Types
    <2>3. /\ unsafe_pool_count_' \in [Threads -> Nat] /\ unsafe_pool_count_'[t] = Len(c)
          /\ \A u \in Threads : u # t => unsafe_pool_count_'[u] = unsafe_pool_count_[u]
      <3>1. CASE safe
        BY <1>1, <1>2, <1>7, <1>13, <2>1, <3>1 DEF Types
      <3>2. CASE ~safe
        <4>1. Len(c) = unsafe_pool_count_[t] + 1
          BY <1>7, <1>13, <3>2
        <4>2. unsafe_pool_count_' = [unsafe_pool_count_ EXCEPT ![t] = @ + 1]
          BY <1>2, <3>2
        <4>3. unsafe_pool_count_ \in [Threads -> Nat]
          BY <1>1 DEF Types
        <4> QED
          BY <2>1, <4>1, <4>2, <4>3
      <3> QED
        BY <3>1, <3>2
    <2> QED
      BY <1>14, <1>15, <2>2, <2>3 DEF CountsMatch
  <1>18. Types'
    BY <1>1, <1>2, <1>3, <1>14, <1>15, <1>16, <1>17 DEF Types
  <1>19. TypeOK'
    BY <1>18, TypesAreTypeOK, PTL
  <1>20. ListsOnce'
    <2>1. EachOnce'
      BY <1>1, <1>3, <1>11, <1>13, <1>14, <1>15 DEF EachOnce
    <2> QED
      BY <2>1, EachListOnce, PTL
  <1>21. Apart' /\ Somewhere'
    <2> DEFINE P == {At("owner", t), At("safe", t), At("unsafe", t), At("chain", t)}
    <2>1. ASSUME NEW p \in Places \ P PROVE Contents'[p] = Contents[p]
      <3>1. PICK u \in Threads :
              p \in {At("owner", u), At("safe", u), At("unsafe", u), At("managed", u),
                     At("managed_unsafe", u), At("chain", u)}
        BY EveryPlace
      <3>2. /\ managed_unsafe'[u] = managed_unsafe[u] /\ managed_safe'[u] = managed_safe[u]
            /\ u # t => /\ owned'[u] = owned[u] /\ safe_pool_'[u] = safe_pool_[u]
                        /\ unsafe_pool_'[u] = unsafe_pool_[u] /\ chain'[u] = chain[u]
        BY <1>3, <1>14, <1>15, <1>16
      <3> QED
        BY <3>1, <3>2, ContentsStay
    <2>2. /\ Contents'[At("owner", t)] = owned[t] \ {e} /\ Contents'[At("safe", t)] = Range(b)
          /\ Contents'[At("unsafe", t)] = Range(c) /\ Contents'[At("chain", t)] = Range(a)
      BY <1>14, <1>15, <1>16, ContentsAtNext DEF ContentsSpelled
    <2>3. UNION {Contents[p] : p \in P} = owned[t] \cup Range(safe_pool_[t]) \cup Range(unsafe_pool_[t])
      BY <1>4
    <2>4. UNION {Contents'[p] : p \in P} = (owned[t] \ {e}) \cup Range(b) \cup Range(c) \cup Range(a)
      BY <2>2
    <2>5. UNION {Contents'[p] : p \in P} = {} \cup UNION {Contents[p] : p \in P}
      BY <1>6, <1>8, <1>11, <1>13, <2>3, <2>4
    <2>6. /\ (owned[t] \ {e}) \cap Range(list) = {} /\ (owned[t] \ {e}) \cap Range(c) = {}
          /\ Range(list) \cap Range(c) = {}
      BY <1>6, <1>8, <1>13
    <2>7. \A p, q \in P : p # q => Contents'[p] \cap Contents'[q] = {}
      BY <1>11, <2>2, <2>6
    <2>8. P \in SUBSET Places /\ allocated' = allocated \cup {} /\ {} \cap allocated = {}
      BY <1>3, <1>5
    <2> HIDE DEF P
    <2> QED
      BY <2>1, <2>5, <2>7, <2>8, Rearranged
  <1>22. CountsWatchers'
    BY <1>1, <1>2, <1>3, WatchersStay DEF Types, Counting
  <1>23. Protocol'
    <2>1. /\ pc'[t] \in {"out", "add"}
          /\ \A u \in Threads : u # t => pc'[u] = pc[u]
      BY <1>1, <1>2 DEF Types
    <2>2. watching[t] = Null /\ ~leaving[t]
      BY <1>1 DEF Protocol, Watching, Adding
    <2> QED
      BY <1>3, <2>1, <2>2 DEF Protocol, Watching, Adding
  <1>24. Handover'
    <2>1. extra = 0 => a = <<>>
      BY <1>11
    <2>2. /\ pc'[t] = IF extra = 0 THEN "out" ELSE "add"
          /\ \A u \in Threads : u # t => pc'[u] = pc[u]
      BY <1>1, <1>2 DEF Types
    <2>3. managed_unsafe[t] = <<>>
      BY <1>1 DEF Handover, Adding
    <2> QED
      BY <1>3, <1>14, <2>1, <2>2, <2>3 DEF Handover, Adding
  <1>25. CellOwned'
    <2> SUFFICES ASSUME cell # Null PROVE cell \in placed' /\ \E u \in Threads : cell \in owned'[u]
      BY <1>3 DEF CellOwned
    <2>1. cell # e /\ cell \in placed /\ \E u \in Threads : cell \in owned[u]
      BY DEF CellOwned
    <2> QED
      BY <1>2, <1>16, <2>1
  <1> QED
    BY <1>17, <1>19, <1>20, <1>21, <1>22, <1>23, <1>24, <1>25
LEMMA AddLoadKeeps ==
  ASSUME IInv, NEW t \in Threads, AddLoad(t)
  PROVE  IInv'
  <1> USE DEF IInv
  <1>1. PICK l \in {"add_store", "add_exchange"} :
          /\ pc[t] = "add" /\ pc' = [pc EXCEPT ![t] = l]
          /\ l = "add_store" => managed_safe[t] = <<>>
    BY DEF AddLoad, Goto
  <1>2. UNCHANGED <<ref_count, localVars, managed_safe, managed_unsafe, allocated, cell, owned,
                    placed, watching, pos, leaving, chain>>
    BY DEF AddLoad, clientVars
  <1>3. Types
    BY TypesAreTypeOK
  <1>4. Types'
    BY <1>1, <1>2, <1>3 DEF Types, localVars
  <1>5. TypeOK'
    BY <1>4, TypesAreTypeOK, PTL
  <1>6. ListsOnce' /\ Apart' /\ Somewhere' /\ CountsMatch'
    BY <1>2, ListsStay
  <1>7. CountsWatchers'
    BY <1>1, <1>2, <1>3, WatchersStay DEF Types, Counting
  <1>8. Protocol'
    <2>1. pc'[t] = l /\ \A u \in Threads : u # t => pc'[u] = pc[u]
      BY <1>1, <1>3 DEF Types
    <2>2. watching[t] = Null
      BY <1>1 DEF Protocol, Watching
    <2> QED
      BY <1>1, <1>2, <2>1, <2>2 DEF Protocol, Watching, Adding
  <1>9. Handover'
    BY <1>1, <1>2, <1>3 DEF Types, Handover, Adding
  <1>10. CellOwned'
    BY <1>2 DEF CellOwned
  <1> QED
    BY <1>5, <1>6, <1>7, <1>8, <1>9, <1>10

(* What the manager held for the thread is put behind its chain.           *)
LEMMA AddExchangeKeeps ==
  ASSUME IInv, NEW t \in Threads, AddExchange(t)
  PROVE  IInv'
  <1> USE DEF IInv
  <1>1. Types /\ EachOnce
    BY TypesAreTypeOK, EachListOnce
  <1>2. /\ pc[t] = "add_exchange" /\ pc' = [pc EXCEPT ![t] = "add_store"]
        /\ managed_safe' = [managed_safe EXCEPT ![t] = <<>>]
        /\ chain' = [chain EXCEPT ![t] = @ \o managed_safe[t]]
        /\ UNCHANGED <<ref_count, localVars, managed_unsafe, allocated, cell, owned, placed,
                       watching, pos, leaving>>
    BY DEF AddExchange, Goto, clientVars
  <1>3. /\ Contents[At("chain", t)] = Range(chain[t])
        /\ Contents[At("managed", t)] = Range(managed_safe[t])
        /\ At("chain", t) \in Places /\ At("managed", t) \in Places
        /\ At("chain", t) # At("managed", t)
    BY ContentsAt, PlacesOf DEF ContentsSpelled, At
  <1>4. /\ chain[t] \o managed_safe[t] \in Seq(Elems)
        /\ Range(chain[t] \o managed_safe[t]) = Range(chain[t]) \cup Range(managed_safe[t])
        /\ Once(chain[t] \o managed_safe[t])
    <2>1. Range(chain[t]) \cap Range(managed_safe[t]) = {}
      BY <1>3 DEF Apart
    <2>2. /\ chain[t] \in Seq(Elems) /\ managed_safe[t] \in Seq(Elems)
          /\ Once(chain[t]) /\ Once(managed_safe[t])
      BY <1>1 DEF Types, EachOnce
    <2> QED
      BY <2>1, <2>2, ConcatRange
  <1>5. /\ managed_safe' \in [Threads -> Seq(Elems)] /\ chain' \in [Threads -> Seq(Elems)]
        /\ managed_safe'[t] = <<>> /\ chain'[t] = chain[t] \o managed_safe[t]
        /\ \A u \in Threads : u # t => managed_safe'[u] = managed_safe[u] /\ chain'[u] = chain[u]
    <2>1. <<>> \in Seq(Elems)
      OBVIOUS
    <2> QED
      BY <1>1, <1>2, <1>4, <2>1 DEF Types
  <1>6. Types'
    BY <1>1, <1>2, <1>5 DEF Types, localVars
  <1>7. TypeOK'
    BY <1>6, TypesAreTypeOK, PTL
  <1>8. ListsOnce'
    <2>1. EachOnce'
      BY <1>1, <1>2, <1>4, <1>5, NothingInNoList DEF EachOnce, localVars
    <2> QED
      BY <2>1, EachListOnce, PTL
  <1>9. Apart' /\ Somewhere'
    <2> DEFINE P == {At("chain", t), At("managed", t)}
    <2>1. ASSUME NEW p \in Places \ P PROVE Contents'[p] = Contents[p]
      <3>1. PICK u \in Threads :
              p \in {At("owner", u), At("safe", u), At("unsafe", u), At("managed", u),
                     At("managed_unsafe", u), At("chain", u)}
        BY EveryPlace
      <3>2. /\ owned'[u] = owned[u] /\ safe_pool_'[u] = safe_pool_[u]
            /\ unsafe_pool_'[u] = unsafe_pool_[u] /\ managed_unsafe'[u] = managed_unsafe[u]
            /\ u # t => managed_safe'[u] = managed_safe[u] /\ chain'[u] = chain[u]
        BY <1>2, <1>5 DEF localVars
      <3> QED
        BY <3>1, <3>2, ContentsStay
    <2>2. /\ Contents'[At("chain", t)] = Contents[At("chain", t)] \cup Contents[At("managed", t)]
          /\ Contents'[At("managed", t)] = {}
      BY <1>3, <1>4, <1>5, ContentsAtNext, NothingInNoList DEF ContentsSpelled
    <2>3. UNION {Contents'[p] : p \in P} = {} \cup UNION {Contents[p] : p \in P}
      BY <2>2
    <2>4. \A p, q \in P : p # q => Contents'[p] \cap Contents'[q] = {}
      BY <2>2
    <2>5. P \in SUBSET Places /\ allocated' = allocated \cup {} /\ {} \cap allocated = {}
      BY <1>2, <1>3
    <2> HIDE DEF P
    <2> QED
      BY <2>1, <2>3, <2>4, <2>5, Rearranged
  <1>10. CountsWatchers'
    BY <1>1, <1>2, WatchersStay DEF Types, Counting
  <1>11. Protocol'
    <2>1. pc'[t] = "add_store" /\ \A u \in Threads : u # t => pc'[u] = pc[u]
      BY <1>1, <1>2 DEF Types
    <2>2. watching[t] = Null
      BY <1>2 DEF Protocol, Watching
    <2> QED
      BY <1>2, <2>1, <2>2 DEF Protocol, Watching, Adding
  <1>12. Handover'
    BY <1>1, <1>2, <1>5 DEF Types, Handover, Adding
  <1>13. CellOwned' /\ CountsMatch'
    BY <1>2 DEF CellOwned, CountsMatch, localVars
  <1> QED
    BY <1>7, <1>8, <1>9, <1>10, <1>11, <1>12, <1>13

(* The chain replaces nothing: the manager's pool of a thread is filled by *)
(* that thread alone, and it has just been emptied.                        *)
LEMMA AddStoreKeeps ==
  ASSUME IInv, NEW t \in Threads, AddStore(t)
  PROVE  IInv'
  <1> USE DEF IInv
  <1>1. Types /\ EachOnce /\ managed_safe[t] = <<>>
    BY TypesAreTypeOK, EachListOnce DEF AddStore, Handover
  <1>2. /\ pc[t] = "add_store"
        /\ pc' = [pc EXCEPT ![t] = IF leaving[t] THEN "gone" ELSE "out"]
        /\ managed_safe' = [managed_safe EXCEPT ![t] = chain[t]]
        /\ chain' = [chain EXCEPT ![t] = <<>>]
        /\ UNCHANGED <<ref_count, localVars, managed_unsafe, allocated, cell, owned, placed,
                       watching, pos, leaving>>
    BY DEF AddStore, Goto, clientVars
  <1>3. /\ Contents[At("chain", t)] = Range(chain[t])
        /\ Contents[At("managed", t)] = {}
        /\ At("chain", t) \in Places /\ At("managed", t) \in Places
        /\ At("chain", t) # At("managed", t)
    BY <1>1, ContentsAt, PlacesOf, NothingInNoList DEF ContentsSpelled, At
  <1>4. /\ managed_safe' \in [Threads -> Seq(Elems)] /\ chain' \in [Threads -> Seq(Elems)]
        /\ managed_safe'[t] = chain[t] /\ chain'[t] = <<>>
        /\ \A u \in Threads : u # t => managed_safe'[u] = managed_safe[u] /\ chain'[u] = chain[u]
    <2>1. <<>> \in Seq(Elems)
      OBVIOUS
    <2> QED
      BY <1>1, <1>2, <2>1 DEF Types
  <1>5. Types'
    BY <1>1, <1>2, <1>4 DEF Types, localVars
  <1>6. TypeOK'
    BY <1>5, TypesAreTypeOK, PTL
  <1>7. ListsOnce'
    <2>1. EachOnce'
      BY <1>1, <1>2, <1>4, NothingInNoList DEF EachOnce, localVars
    <2> QED
      BY <2>1, EachListOnce, PTL
  <1>8. Apart' /\ Somewhere'
    <2> DEFINE P == {At("chain", t), At("managed", t)}
    <2>1. ASSUME NEW p \in Places \ P PROVE Contents'[p] = Contents[p]
      <3>1. PICK u \in Threads :
              p \in {At("owner", u), At("safe", u), At("unsafe", u), At("managed", u),
                     At("managed_unsafe", u), At("chain", u)}
        BY EveryPlace
      <3>2. /\ owned'[u] = owned[u] /\ safe_pool_'[u] = safe_pool_[u]
            /\ unsafe_pool_'[u] = unsafe_pool_[u] /\ managed_unsafe'[u] = managed_unsafe[u]
            /\ u # t => managed_safe'[u] = managed_safe[u] /\ chain'[u] = chain[u]
        BY <1>2, <1>4 DEF localVars
      <3> QED
        BY <3>1, <3>2, ContentsStay
    <2>2. /\ Contents'[At("chain", t)] = {}
          /\ Contents'[At("managed", t)] = Contents[At("chain", t)]
      BY <1>3, <1>4, ContentsAtNext, NothingInNoList DEF ContentsSpelled
    <2>3. UNION {Contents'[p] : p \in P} = {} \cup UNION {Contents[p] : p \in P}
      BY <1>3, <2>2
    <2>4. \A p, q \in P : p # q => Contents'[p] \cap Contents'[q] = {}
      BY <2>2
    <2>5. P \in SUBSET Places /\ allocated' = allocated \cup {} /\ {} \cap allocated = {}
      BY <1>2, <1>3
    <2> HIDE DEF P
    <2> QED
      BY <2>1, <2>3, <2>4, <2>5, Rearranged
  <1>9. CountsWatchers'
    BY <1>1, <1>2, WatchersStay DEF Types, Counting
  <1>10. Protocol'
    <2>1. /\ pc'[t] = IF leaving[t] THEN "gone" ELSE "out"
          /\ \A u \in Threads : u # t => pc'[u] = pc[u]
      BY <1>1, <1>2 DEF Types
    <2>2. watching[t] = Null
      BY <1>2 DEF Protocol, Watching
    <2> QED
      BY <1>2, <2>1, <2>2 DEF Protocol, Watching, Adding
  <1>11. Handover'
    <2>1. /\ pc'[t] = IF leaving[t] THEN "gone" ELSE "out"
          /\ \A u \in Threads : u # t => pc'[u] = pc[u]
      BY <1>1, <1>2 DEF Types
    <2> QED
      BY <1>2, <1>4, <2>1 DEF Handover, Adding
  <1>12. CellOwned' /\ CountsMatch'
    BY <1>2 DEF CellOwned, CountsMatch, localVars
  <1> QED
    BY <1>6, <1>7, <1>8, <1>9, <1>10, <1>11, <1>12

(* ... and the end of the pool.                                            *)
LEMMA SendUnsafeKeeps ==
  ASSUME IInv, NEW t \in Threads, SendUnsafe(t)
  PROVE  IInv'
  <1> USE DEF IInv
  <1>1. /\ Types /\ EachOnce /\ pc[t] = "send_unsafe" /\ leaving[t]
        /\ managed_unsafe[t] = <<>> /\ chain[t] = <<>>
    BY TypesAreTypeOK, EachListOnce DEF SendUnsafe, Handover, Protocol, Adding
  <1>2. /\ pc' = [pc EXCEPT ![t] = IF safe_pool_[t] = <<>> THEN "gone" ELSE "add"]
        /\ managed_unsafe' = [managed_unsafe EXCEPT ![t] = unsafe_pool_[t]]
        /\ unsafe_pool_' = [unsafe_pool_ EXCEPT ![t] = <<>>]
        /\ unsafe_pool_count_' = [unsafe_pool_count_ EXCEPT ![t] = 0]
        /\ chain' = [chain EXCEPT ![t] = safe_pool_[t]]
        /\ safe_pool_' = [safe_pool_ EXCEPT ![t] = <<>>]
        /\ safe_pool_count_' = [safe_pool_count_ EXCEPT ![t] = 0]
        /\ UNCHANGED <<ref_count, managed_safe, allocated, cell, owned, placed, watching, pos, leaving>>
    BY DEF SendUnsafe, Goto, clientVars
  <1>3. /\ Contents[At("safe", t)] = Range(safe_pool_[t])
        /\ Contents[At("unsafe", t)] = Range(unsafe_pool_[t])
        /\ Contents[At("chain", t)] = {} /\ Contents[At("managed_unsafe", t)] = {}
        /\ {At("safe", t), At("unsafe", t), At("chain", t), At("managed_unsafe", t)} \subseteq Places
        /\ At("safe", t) # At("unsafe", t)
    BY <1>1, ContentsAt, PlacesOf, NothingInNoList DEF ContentsSpelled, At
  <1>4. <<>> \in Seq(Elems) /\ Len(<<>>) = 0
    OBVIOUS
  <1>5. /\ safe_pool_' \in [Threads -> Seq(Elems)] /\ unsafe_pool_' \in [Threads -> Seq(Elems)]
        /\ safe_pool_'[t] = <<>> /\ unsafe_pool_'[t] = <<>>
        /\ \A u \in Threads : u # t => safe_pool_'[u] = safe_pool_[u] /\ unsafe_pool_'[u] = unsafe_pool_[u]
    BY <1>1, <1>2, <1>4 DEF Types
  <1>6. /\ chain' \in [Threads -> Seq(Elems)] /\ managed_unsafe' \in [Threads -> Seq(Elems)]
        /\ chain'[t] = safe_pool_[t] /\ managed_unsafe'[t] = unsafe_pool_[t]
        /\ \A u \in Threads : u # t => chain'[u] = chain[u] /\ managed_unsafe'[u] = managed_unsafe[u]
    BY <1>1, <1>2 DEF Types
  <1>7. CountsMatch' /\ safe_pool_count_' \in [Threads -> Nat] /\ unsafe_pool_count_' \in [Threads -> Nat]
    <2>1. /\ safe_pool_count_' \in [Threads -> Nat] /\ unsafe_pool_count_' \in [Threads -> Nat]
          /\ safe_pool_count_'[t] = 0 /\ unsafe_pool_count_'[t] = 0
          /\ \A u \in Threads : u # t => /\ safe_pool_count_'[u] = safe_pool_count_[u]
                                         /\ unsafe_pool_count_'[u] = unsafe_pool_count_[u]
      BY <1>1, <1>2 DEF Types
    <2> QED
      BY <1>4, <1>5, <2>1 DEF CountsMatch
  <1>8. Types'
    BY <1>1, <1>2, <1>5, <1>6, <1>7 DEF Types
  <1>9. TypeOK'
    BY <1>8, TypesAreTypeOK, PTL
  <1>10. ListsOnce'
    <2>1. EachOnce'
      BY <1>1, <1>2, <1>5, <1>6, NothingInNoList DEF EachOnce
    <2> QED
      BY <2>1, EachListOnce, PTL
  <1>11. Apart' /\ Somewhere'
    <2> DEFINE P == {At("safe", t), At("unsafe", t), At("chain", t), At("managed_unsafe", t)}
    <2>1. ASSUME NEW p \in Places \ P PROVE Contents'[p] = Contents[p]
      <3>1. PICK u \in Threads :
              p \in {At("owner", u), At("safe", u), At("unsafe", u), At("managed", u),
                     At("managed_unsafe", u), At("chain", u)}
        BY EveryPlace
      <3>2. /\ owned'[u] = owned[u] /\ managed_safe'[u] = managed_safe[u]
            /\ u # t => /\ safe_pool_'[u] = safe_pool_[u] /\ unsafe_pool_'[u] = unsafe_pool_[u]
                        /\ chain'[u] = chain[u] /\ managed_unsafe'[u] = managed_unsafe[u]
        BY <1>2, <1>5, <1>6
      <3> QED
        BY <3>1, <3>2, ContentsStay
    <2>2. /\ Contents'[At("safe", t)] = {} /\ Contents'[At("unsafe", t)] = {}
          /\ Contents'[At("chain", t)] = Contents[At("safe", t)]
          /\ Contents'[At("managed_unsafe", t)] = Contents[At("unsafe", t)]
      BY <1>3, <1>5, <1>6, ContentsAtNext, NothingInNoList DEF ContentsSpelled
    <2>3. UNION {Contents[p] : p \in P} = Contents[At("safe", t)] \cup Contents[At("unsafe", t)]
      BY <1>3
    <2>4. UNION {Contents'[p] : p \in P} = Contents[At("safe", t)] \cup Contents[At("unsafe", t)]
      BY <2>2
    <2>5. Contents[At("safe", t)] \cap Contents[At("unsafe", t)] = {}
      BY <1>3 DEF Apart
    <2>6. \A p, q \in P : p # q => Contents'[p] \cap Contents'[q] = {}
      BY <2>2, <2>5
    <2>7. P \in SUBSET Places /\ allocated' = allocated \cup {} /\ {} \cap allocated = {}
      BY <1>2, <1>3
    <2>8. UNION {Contents'[p] : p \in P} = {} \cup UNION {Contents[p] : p \in P}
      BY <2>3, <2>4
    <2> HIDE DEF P
    <2> QED
      BY <2>1, <2>6, <2>7, <2>8, Rearranged
  <1>12. CountsWatchers'
    BY <1>1, <1>2, WatchersStay DEF Types, Counting
  <1>13. /\ pc'[t] = IF safe_pool_[t] = <<>> THEN "gone" ELSE "add"
         /\ \A u \in Threads : u # t => pc'[u] = pc[u]
    BY <1>1, <1>2 DEF Types
  <1>14. Protocol'
    <2>1. watching[t] = Null
      BY <1>1 DEF Protocol, Watching
    <2> QED
      BY <1>1, <1>2, <1>13, <2>1 DEF Protocol, Watching, Adding
  <1>15. Handover'
    BY <1>1, <1>2, <1>6, <1>13 DEF Handover, Adding
  <1>16. CellOwned'
    BY <1>2 DEF CellOwned
  <1> QED
    BY <1>7, <1>9, <1>10, <1>11, <1>12, <1>14, <1>15, <1>16
-----------------------------------------------------------------------------
(* The invariant *)

LEMMA InitEstablishes == Init => IInv
  <1> SUFFICES ASSUME Init PROVE IInv
    OBVIOUS
  <1> USE DEF Init
  <1>0. MIN_NODES \in Nat /\ 0 \in Nat
    BY NodesAssumption
  <1>1. /\ safe_pool_ \in [Threads -> Seq(Elems)]
        /\ \A t \in Threads : Len(safe_pool_[t]) = MIN_NODES /\ DOMAIN safe_pool_[t] = 1 .. MIN_NODES
    <2>1. ASSUME NEW q \in [1 .. MIN_NODES -> Elems]
          PROVE  q \in Seq(Elems) /\ Len(q) = MIN_NODES /\ DOMAIN q = 1 .. MIN_NODES
      BY <1>0, <2>1
    <2> QED
      BY <2>1
  <1>2. <<>> \in Seq(Elems) /\ Len(<<>>) = 0
    OBVIOUS
  <1>3. allocated \subseteq Elems
    BY <1>1
  <1>4. Types
    BY <1>0, <1>1, <1>2, <1>3 DEF Types
  <1>5. TypeOK
    BY <1>4, TypesAreTypeOK
  <1>6. ListsOnce
    <2>1. EachOnce
      BY <1>1, NothingInNoList DEF EachOnce, Once
    <2> QED
      BY <2>1, EachListOnce
  <1>7. \A t \in Threads :
          /\ Contents[At("owner", t)] = {} /\ Contents[At("unsafe", t)] = {}
          /\ Contents[At("managed", t)] = {} /\ Contents[At("managed_unsafe", t)] = {}
          /\ Contents[At("chain", t)] = {}
          /\ Contents[At("safe", t)] = {safe_pool_[t][i] : i \in 1 .. MIN_NODES}
    <2>1. \A t \in Threads : Range(safe_pool_[t]) = {safe_pool_[t][i] : i \in 1 .. MIN_NODES}
      BY <1>1 DEF Range
    <2> QED
      BY <2>1, ContentsAt, NothingInNoList DEF ContentsSpelled
  <1>a. ASSUME NEW p \in Places, NEW e \in Contents[p]
        PROVE  \E t \in Threads : p = At("safe", t) /\ e \in {safe_pool_[t][i] : i \in 1 .. MIN_NODES}
    <2>1. PICK t \in Threads :
            p \in {At("owner", t), At("safe", t), At("unsafe", t), At("managed", t),
                   At("managed_unsafe", t), At("chain", t)}
      BY EveryPlace
    <2> HIDE DEF Init
    <2> QED
      BY <1>7, <2>1
  <1>8. Apart
    <2> SUFFICES ASSUME NEW p \in Places, NEW q \in Places, NEW e \in Contents[p], e \in Contents[q]
                 PROVE  p = q
      BY DEF Apart
    <2>1. PICK t \in Threads : p = At("safe", t) /\ e \in {safe_pool_[t][i] : i \in 1 .. MIN_NODES}
      BY <1>a
    <2>2. PICK u \in Threads : q = At("safe", u) /\ e \in {safe_pool_[u][i] : i \in 1 .. MIN_NODES}
      BY <1>a
    <2>3. t = u
      BY <2>1, <2>2
    <2> QED
      BY <2>1, <2>2, <2>3
  <1>9. Somewhere
    <2>1. ASSUME NEW p \in Places, NEW e \in Contents[p] PROVE e \in allocated
      <3>1. PICK t \in Threads : p = At("safe", t) /\ e \in {safe_pool_[t][i] : i \in 1 .. MIN_NODES}
        BY <1>a
      <3> QED
        BY <3>1
    <2>2. ASSUME NEW e \in allocated PROVE \E p \in Places : e \in Contents[p]
      <3>1. PICK t \in Threads, i \in 1 .. MIN_NODES : e = safe_pool_[t][i]
        OBVIOUS
      <3>2. At("safe", t) \in Places /\ e \in Contents[At("safe", t)]
        BY <1>7, <3>1, PlacesOf
      <3> QED
        BY <3>2
    <2> HIDE DEF Init
    <2>3. \A e : e \in allocated <=> e \in UNION {Contents[p] : p \in Places}
      BY <2>1, <2>2
    <2> QED
      BY <2>3 DEF Somewhere
  <1>10. CountsWatchers
    <2>1. \A e \in Elems : Watchers(e) = {}
      BY DEF Watchers, Counting
    <2> QED
      BY <2>1, FS_EmptySet DEF CountsWatchers
  <1>11. Protocol /\ Handover /\ CellOwned
    BY DEF Protocol, Handover, CellOwned, Watching, Adding
  <1>12. CountsMatch
    BY <1>1, <1>2 DEF CountsMatch
  <1> QED
    BY <1>5, <1>6, <1>8, <1>9, <1>10, <1>11, <1>12 DEF IInv

LEMMA NextKeeps == IInv /\ [Next]_vars => IInv'
  <1> SUFFICES ASSUME IInv, [Next]_vars PROVE IInv'
    OBVIOUS
  <1>1. CASE UNCHANGED vars
    <2> USE <1>1 DEF vars, localVars, clientVars, IInv
    <2>1. ListsOnce' /\ Apart' /\ Somewhere' /\ CountsMatch'
      BY ListsStay
    <2>2. CountsWatchers'
      BY WatchersStay
    <2>3. Types
      BY TypesAreTypeOK
    <2>4. Types'
      BY <2>3 DEF Types
    <2>5. TypeOK'
      BY <2>4, TypesAreTypeOK, PTL
    <2> QED
      BY <2>1, <2>2, <2>5 DEF Protocol, Handover, CellOwned
  <1>2. ASSUME NEW t \in Threads,
               CallWatch(t) \/ WatchCount(t) \/ WatchValidate(t) \/ Unwatch(t) \/ Place(t) \/ TakeOff(t)
        PROVE  IInv'
    BY <1>2, CallWatchKeeps, WatchCountKeeps, WatchValidateKeeps, UnwatchKeeps, PlaceKeeps,
       TakeOffKeeps
  <1>3. ASSUME NEW t \in Threads, GetDescriptor(t) \/ Detach(t)
        PROVE  IInv'
    BY <1>3, BeginKeeps DEF GetDescriptor, Detach
  <1>4. ASSUME NEW t \in Threads,
               ClearUnsafe(t) \/ Peek(t) \/ Exchange(t) \/ Allocate(t) \/ Pop(t)
        PROVE  IInv'
    BY <1>4, ClearUnsafeKeeps, PeekKeeps, ExchangeKeeps, AllocateKeeps, PopKeeps
  <1>5. ASSUME NEW t \in Threads,
               \/ FreeDescriptor(t) \/ AddLoad(t) \/ AddExchange(t) \/ AddStore(t) \/ SendUnsafe(t)
        PROVE  IInv'
    BY <1>5, FreeDescriptorKeeps, AddLoadKeeps, AddExchangeKeeps, AddStoreKeeps, SendUnsafeKeeps
  <1> QED
    BY <1>1, <1>2, <1>3, <1>4, <1>5 DEF Next

THEOREM Invariance == Spec => []IInv
  BY InitEstablishes, NextKeeps, PTL DEF Spec

(* Every variable of the pools keeps its type; in particular no count goes *)
(* below zero, and no scan of the manager's pools leaves them.             *)
THEOREM TypeCorrect == Spec => []TypeOK
  <1>1. IInv => TypeOK
    BY DEF IInv
  <1> QED
    BY <1>1, Invariance, PTL

(* The counts kept beside the lists are the lengths verify_pool_count      *)
(* (descriptor_pool.cc) counts, after every clearing, offload and hand-over.*)
THEOREM CountsAreLengths == Spec => []CountsMatch
  <1>1. IInv => CountsMatch
    BY DEF IInv
  <1> QED
    BY <1>1, Invariance, PTL

LEMMA WhereaboutsAre ==
  ASSUME NEW e, NEW w \in Whereabouts(e)
  PROVE  \/ \E t \in Threads : w = <<"owner", t, 0>> /\ e \in Contents[At("owner", t)]
         \/ \E list \in ListNames, t \in Threads : \E i \in DOMAIN ListOf(list, t) :
              /\ w = <<list, t, i>> /\ ListOf(list, t)[i] = e
              /\ e \in Contents[At(list, t)]
  <1>1. CASE w \in {<<"owner", t, 0>> : t \in {u \in Threads : e \in owned[u]}}
    BY <1>1, ContentsAt DEF ContentsSpelled
  <1>2. CASE ~(w \in {<<"owner", t, 0>> : t \in {u \in Threads : e \in owned[u]}})
    <2>1. PICK list \in ListNames, t \in Threads : \E i \in DOMAIN ListOf(list, t) :
            w = <<list, t, i>> /\ ListOf(list, t)[i] = e
      BY <1>2 DEF Whereabouts
    <2>2. At(list, t) \in Places /\ list # "owner"
      BY DEF At, Places, ListNames
    <2>3. Contents[At(list, t)] = Range(ListOf(list, t))
      BY <2>2 DEF Contents, At
    <2>4. e \in Contents[At(list, t)]
      BY <2>1, <2>3 DEF Range
    <2> QED
      BY <2>1, <2>4
  <1> QED
    BY <1>1, <1>2

LEMMA WhereaboutsHave ==
  ASSUME NEW e, NEW t \in Threads
  PROVE  /\ e \in owned[t] => <<"owner", t, 0>> \in Whereabouts(e)
         /\ \A list \in ListNames : \A i \in DOMAIN ListOf(list, t) :
              ListOf(list, t)[i] = e => <<list, t, i>> \in Whereabouts(e)
  <1>1. ASSUME e \in owned[t] PROVE <<"owner", t, 0>> \in Whereabouts(e)
    <2>1. t \in {u \in Threads : e \in owned[u]}
      BY <1>1
    <2>2. <<"owner", t, 0>> \in {<<"owner", v, 0>> : v \in {u \in Threads : e \in owned[u]}}
      BY <2>1
    <2> QED
      BY <2>2 DEF Whereabouts
  <1>2. ASSUME NEW list \in ListNames, NEW i \in DOMAIN ListOf(list, t), ListOf(list, t)[i] = e
        PROVE  <<list, t, i>> \in Whereabouts(e)
    <2> DEFINE W(l, u) == {<<l, u, j>> : j \in {k \in DOMAIN ListOf(l, u) : ListOf(l, u)[k] = e}}
    <2>1. <<list, t, i>> \in W(list, t)
      BY <1>2
    <2>2. UNION {W(l, u) : l \in ListNames, u \in Threads} \subseteq Whereabouts(e)
      BY DEF Whereabouts
    <2> HIDE DEF W
    <2>3. <<list, t, i>> \in UNION {W(l, u) : l \in ListNames, u \in Threads}
      BY <2>1
    <2> QED
      BY <2>2, <2>3
  <1> QED
    BY <1>1, <1>2

LEMMA OnePlace == IInv => InOnePlace
  <1> SUFFICES ASSUME IInv, NEW e \in Elems
               PROVE  Cardinality(Whereabouts(e)) = (IF e \in allocated THEN 1 ELSE 0)
    BY DEF InOnePlace
  <1>0. \A n \in ListNames \cup {"owner"}, t \in Threads : At(n, t) \in Places
    BY DEF At, Places
  <1>1. CASE e \in allocated
    <2>1. \E w : w \in Whereabouts(e)
      <3>1. PICK p \in Places : e \in Contents[p]
        BY <1>1 DEF IInv, Somewhere
      <3>2. PICK n \in ListNames \cup {"owner"}, t \in Threads : p = At(n, t)
        BY DEF Places, At
      <3>3. CASE n = "owner"
        <4>1. e \in owned[t]
          BY <3>1, <3>2, <3>3, ContentsAt DEF ContentsSpelled
        <4> QED
          BY <4>1, WhereaboutsHave
      <3>4. CASE n # "owner"
        <4>1. e \in Range(ListOf(n, t)) /\ n \in ListNames
          BY <3>1, <3>2, <3>4 DEF Contents, At
        <4>2. PICK i \in DOMAIN ListOf(n, t) : ListOf(n, t)[i] = e
          BY <4>1 DEF Range
        <4>3. <<n, t, i>> \in Whereabouts(e)
          BY <4>1, <4>2, WhereaboutsHave
        <4> QED
          BY <4>3
      <3> QED
        BY <3>3, <3>4
    <2>2. ASSUME NEW v \in Whereabouts(e), NEW w \in Whereabouts(e) PROVE v = w
      <3>1. \A n, m \in ListNames \cup {"owner"}, t, u \in Threads :
              e \in Contents[At(n, t)] /\ e \in Contents[At(m, u)] => n = m /\ t = u
        BY <1>0 DEF IInv, Apart, At
      <3>2. "owner" \notin ListNames
        BY DEF ListNames
      <3>3. CASE \E t \in Threads : v = <<"owner", t, 0>> /\ e \in Contents[At("owner", t)]
        BY <3>1, <3>2, <3>3, WhereaboutsAre
      <3>4. CASE \E n \in ListNames, t \in Threads : \E i \in DOMAIN ListOf(n, t) :
                   v = <<n, t, i>> /\ ListOf(n, t)[i] = e /\ e \in Contents[At(n, t)]
        <4>1. PICK n \in ListNames, t \in Threads : \E i \in DOMAIN ListOf(n, t) :
                v = <<n, t, i>> /\ ListOf(n, t)[i] = e /\ e \in Contents[At(n, t)]
          BY <3>4
        <4>2. \E i \in DOMAIN ListOf(n, t) : w = <<n, t, i>> /\ ListOf(n, t)[i] = e
          BY <3>1, <3>2, <4>1, WhereaboutsAre
        <4>3. Once(ListOf(n, t))
          BY DEF IInv, ListsOnce
        <4> QED
          BY <4>1, <4>2, <4>3 DEF Once
      <3> QED
        BY <3>3, <3>4, WhereaboutsAre
    <2>3. PICK w : Whereabouts(e) = {w}
      BY <2>1, <2>2
    <2> QED
      BY <1>1, <2>3, FS_Singleton
  <1>2. CASE e \notin allocated
    <2>1. \A p \in Places : e \notin Contents[p]
      BY <1>2 DEF IInv, Somewhere
    <2>2. Whereabouts(e) = {}
      BY <1>0, <2>1, WhereaboutsAre
    <2> QED
      BY <1>2, <2>2, FS_EmptySet
  <1> QED
    BY <1>1, <1>2

(* An element that was allocated is with one owner or at one position of   *)
(* one list: what offload cuts off, get_safe_elements takes from the       *)
(* manager and add_safe_elements hands to it is neither lost nor doubled   *)
(* (descriptor_pool.cc, pool_manager.cc), whoever takes from the manager   *)
(* between the steps of the others.                                        *)
THEOREM NoneLostOrDoubled == Spec => []InOnePlace
  BY OnePlace, Invariance, PTL
-----------------------------------------------------------------------------
(* The pools implement Reclamation. *)

Life == [e \in Elems |-> IF e = cell THEN "live" ELSE IF e \in placed THEN "retired" ELSE "free"]
Held == {<<t, watching[t]>> : t \in {u \in Threads : pc[u] = "using"}}
Stutter == Life' = Life /\ Held' = Held

LEMMA HeldPairs ==
  ASSUME NEW h, NEW e
  PROVE  <<h, e>> \in Held <=> h \in Threads /\ pc[h] = "using" /\ watching[h] = e
  BY DEF Held

(* A step that leaves the address and what was there alone, and grants and *)
(* releases nothing.                                                       *)
LEMMA NothingHappens ==
  ASSUME UNCHANGED <<cell, placed>>,
         \A u \in Threads : /\ pc'[u] = "using" <=> pc[u] = "using"
                            /\ pc[u] = "using" => watching'[u] = watching[u]
  PROVE  Stutter
  <1>1. Life' = Life
    BY DEF Life
  <1>2. {u \in Threads : pc'[u] = "using"} = {u \in Threads : pc[u] = "using"}
    OBVIOUS
  <1>3. Held' = Held
    BY <1>2 DEF Held
  <1> QED
    BY <1>1, <1>3 DEF Stutter

LEMMA HeldStays ==
  ASSUME UNCHANGED <<pc, watching>>
  PROVE  Held' = Held
  BY DEF Held

(* A watch that found the descriptor still there is a grant of a live one. *)
LEMMA ValidateRefines ==
  ASSUME IInv, NEW t \in Threads, WatchValidate(t)
  PROVE  Stutter \/ \E e \in Elems : Abstract!Grant(t, e)
  <1> USE DEF IInv
  <1>1. Types /\ pc[t] = "validate" /\ UNCHANGED <<cell, placed, watching>>
    BY TypesAreTypeOK DEF WatchValidate, clientVars
  <1>2. PICK e \in Elems : e = watching[t]
    BY <1>1 DEF Types, Protocol, Watching
  <1>3. CASE pc' = [pc EXCEPT ![t] = "uncount"]
    <2>1. \A u \in Threads : pc'[u] = "using" <=> pc[u] = "using"
      BY <1>1, <1>3 DEF Types
    <2> QED
      BY <1>1, <2>1, NothingHappens
  <1>4. CASE pc' = [pc EXCEPT ![t] = "using"] /\ e = cell
    <2>1. Life[e] = "live" /\ Life' = Life
      BY <1>1, <1>4 DEF Life
    <2>2. \A f \in Elems : <<t, f>> \notin Held
      BY <1>1, HeldPairs
    <2>3. Held' = Held \cup {<<t, e>>}
      <3>1. {u \in Threads : pc'[u] = "using"} = {u \in Threads : pc[u] = "using"} \cup {t}
        BY <1>1, <1>4 DEF Types
      <3>2. Held' = {<<v, watching[v]>> : v \in {u \in Threads : pc[u] = "using"} \cup {t}}
        BY <1>1, <3>1 DEF Held
      <3> QED
        BY <1>2, <3>2 DEF Held
    <2>4. Abstract!Grant(t, e)
      BY <2>1, <2>2, <2>3 DEF Abstract!Grant, Life, Held
    <2> QED
      BY <2>4
  <1>5. pc' = [pc EXCEPT ![t] = "uncount"] \/ (pc' = [pc EXCEPT ![t] = "using"] /\ e = cell)
    BY <1>2 DEF WatchValidate, Goto, StillThere
  <1> QED
    BY <1>3, <1>4, <1>5

LEMMA UnwatchRefines ==
  ASSUME IInv, NEW t \in Threads, Unwatch(t)
  PROVE  Stutter \/ \E e \in Elems : Abstract!Release(t, e)
  <1> USE DEF IInv
  <1>1. /\ Types /\ pc[t] \in {"using", "uncount"} /\ UNCHANGED <<cell, placed>>
        /\ pc' = [pc EXCEPT ![t] = "out"] /\ watching' = [watching EXCEPT ![t] = Null]
    BY TypesAreTypeOK DEF Unwatch, Goto
  <1>2. /\ pc'[t] = "out"
        /\ \A u \in Threads : u # t => pc'[u] = pc[u] /\ watching'[u] = watching[u]
    BY <1>1 DEF Types
  <1>3. CASE pc[t] = "uncount"
    BY <1>1, <1>2, <1>3, NothingHappens
  <1>4. CASE pc[t] = "using"
    <2>1. PICK e \in Elems : e = watching[t]
      BY <1>1, <1>4 DEF Types, Protocol, Watching
    <2>2. Life' = Life
      BY <1>1 DEF Life
    <2>3. <<t, e>> \in Held
      BY <1>4, <2>1, HeldPairs
    <2>4. Held' = Held \ {<<t, e>>}
      <3>1. {u \in Threads : pc'[u] = "using"} = {u \in Threads : pc[u] = "using"} \ {t}
        BY <1>2
      <3>2. Held' = {<<v, watching[v]>> : v \in {u \in Threads : pc[u] = "using"} \ {t}}
        <4>1. Held' = {<<v, watching'[v]>> : v \in {u \in Threads : pc[u] = "using"} \ {t}}
          BY <3>1 DEF Held
        <4> QED
          BY <1>2, <4>1
      <3> QED
        BY <2>1, <3>2 DEF Held
    <2>5. Abstract!Release(t, e)
      BY <2>2, <2>3, <2>4 DEF Abstract!Release, Life, Held
    <2> QED
      BY <2>5
  <1> QED
    BY <1>1, <1>3, <1>4

(* What is put at the address is a descriptor that was free, what is taken *)
(* off it the one that is there.                                           *)
LEMMA CellRefines ==
  ASSUME IInv, NEW t \in Threads, Place(t) \/ TakeOff(t)
  PROVE  \E old, new \in Elems \cup {Null} : Abstract!Replace(old, new)
  <1> USE DEF IInv
  <1>1. Types /\ Held' = Held
    BY TypesAreTypeOK, HeldStays DEF Place, TakeOff
  <1>2. CASE Place(t)
    <2>1. PICK e \in Elems : e \notin placed /\ cell = Null /\ cell' = e /\ placed' = placed \cup {e}
      BY <1>1, <1>2 DEF Place, Types
    <2>2. Life[e] = "free"
      BY <2>1, NullAssumption DEF Life
    <2>3. Life' = [x \in Elems |-> CASE x = Null -> "retired"
                                     [] x = e /\ x # Null -> "live"
                                     [] OTHER -> Life[x]]
      BY <2>1, NullAssumption DEF Life
    <2>4. Abstract!Replace(Null, e)
      BY <1>1, <2>2, <2>3, NullAssumption DEF Abstract!Replace, Life, Held
    <2> QED
      BY <2>4
  <1>3. CASE TakeOff(t)
    <2>1. PICK e \in Elems : e = cell /\ e \in placed /\ cell' = Null /\ placed' = placed
      BY <1>1, <1>3 DEF TakeOff, Types, CellOwned
    <2>2. Life[e] = "live"
      BY <2>1 DEF Life
    <2>3. Life' = [x \in Elems |-> CASE x = e -> "retired"
                                     [] x = Null /\ x # e -> "live"
                                     [] OTHER -> Life[x]]
      BY <2>1, NullAssumption DEF Life
    <2>4. Abstract!Replace(e, Null)
      BY <1>1, <2>2, <2>3, NullAssumption DEF Abstract!Replace, Life, Held
    <2> QED
      BY <2>4
  <1> QED
    BY <1>2, <1>3

(* A descriptor that nobody counts and that is not at the address is free  *)
(* again.                                                                  *)
LEMMA ForgetRefines ==
  ASSUME IInv, NEW e \in Elems, e # cell, e \in placed => ~Watched(e),
         placed' = placed \ {e}, cell' = cell, Held' = Held
  PROVE  Stutter \/ Abstract!Free(e)
  <1> USE DEF IInv
  <1>1. CASE e \notin placed
    <2>1. placed' = placed
      BY <1>1
    <2> QED
      BY <2>1 DEF Stutter, Life
  <1>2. CASE e \in placed
    <2>1. Watchers(e) = {}
      BY <1>2, UnwatchedIsFree
    <2>2. \A h \in Threads : <<h, e>> \notin Held
      BY <2>1, HeldPairs DEF Watchers, Counting
    <2>3. Abstract!HeldBy(e) = {}
      BY <2>2 DEF Abstract!HeldBy, Held
    <2>4. Life[e] = "retired" /\ Life' = [Life EXCEPT ![e] = "free"]
      BY <1>2 DEF Life
    <2>5. Abstract!Free(e)
      BY <2>3, <2>4 DEF Abstract!Free, Life, Held
    <2> QED
      BY <2>5
  <1> QED
    BY <1>1, <1>2

LEMMA ClearUnsafeRefines ==
  ASSUME IInv, NEW t \in Threads, ClearUnsafe(t)
  PROVE  Stutter \/ \E e \in Elems : Abstract!Free(e)
  <1> USE DEF IInv
  <1>1. Types /\ EachOnce /\ UNCHANGED <<cell, watching>> /\ pc[t] = "clear"
    BY TypesAreTypeOK, EachListOnce DEF ClearUnsafe
  <1>2. \A u \in Threads : pc'[u] = "using" <=> pc[u] = "using"
    <2>1. PICK l \in {"clear", "send_unsafe", "peek", "pop"} : pc' = [pc EXCEPT ![t] = l]
      BY ClearControl
    <2> QED
      BY <1>1, <2>1 DEF Types
  <1>3. PICK k, q, e : k = Position(t) /\ q = unsafe_pool_[t] /\ e = q[k]
    OBVIOUS
  <1>4. CASE q = <<>> \/ Watched(e)
    <2>1. placed' = placed
      BY <1>3, <1>4 DEF ClearUnsafe
    <2> QED
      BY <1>1, <1>2, <2>1, NothingHappens
  <1>5. CASE ~(q = <<>> \/ Watched(e))
    <2>1. placed' = placed \ {e}
      BY <1>3, <1>5 DEF ClearUnsafe
    <2>2. e \in Elems /\ e \in Range(q)
      <3>1. q \in Seq(Elems) /\ pos[t] \in Nat /\ pos[t] >= 1
        BY <1>1, <1>3 DEF Types, Protocol
      <3>2. k \in 1 .. Len(q) /\ DOMAIN q = 1 .. Len(q)
        BY <1>3, <1>5, <3>1 DEF Position
      <3> QED
        BY <1>3, <3>1, <3>2 DEF Range
    <2>3. \A u \in Threads : e \notin owned[u]
      <3>1. /\ At("unsafe", t) \in Places /\ Contents[At("unsafe", t)] = Range(q)
            /\ \A u \in Threads : /\ At("owner", u) \in Places /\ At("owner", u) # At("unsafe", t)
                                  /\ Contents[At("owner", u)] = owned[u]
        BY <1>3, PlacesOf, ContentsAt DEF ContentsSpelled, At
      <3> QED
        BY <2>2, <3>1 DEF Apart
    <2>4. e # cell
      BY <2>2, <2>3, NullAssumption DEF CellOwned
    <2>5. Held' = Held
      <3>1. {u \in Threads : pc'[u] = "using"} = {u \in Threads : pc[u] = "using"}
        BY <1>2
      <3> QED
        BY <1>1, <3>1 DEF Held
    <2> QED
      BY <1>1, <1>5, <2>1, <2>2, <2>4, <2>5, ForgetRefines
  <1> QED
    BY <1>4, <1>5

LEMMA FreeDescriptorRefines ==
  ASSUME IInv, NEW t \in Threads, FreeDescriptor(t)
  PROVE  Stutter \/ \E e \in Elems : Abstract!Free(e)
  <1> USE DEF IInv
  <1>1. Types /\ UNCHANGED <<cell, watching>> /\ pc[t] = "out"
    BY TypesAreTypeOK DEF FreeDescriptor
  <1>2. PICK e \in owned[t] \ {cell}, dont_check \in BOOLEAN, l \in {"out", "add"} :
          /\ dont_check => e \notin placed
          /\ placed' = IF dont_check \/ ~Watched(e) THEN placed \ {e} ELSE placed
          /\ pc' = [pc EXCEPT ![t] = l]
    BY DEF FreeDescriptor, Goto
  <1>3. \A u \in Threads : pc'[u] = "using" <=> pc[u] = "using"
    BY <1>1, <1>2 DEF Types
  <1>4. e \in Elems /\ e # cell
    BY <1>1, <1>2 DEF Types
  <1>5. Held' = Held
    <2>1. {u \in Threads : pc'[u] = "using"} = {u \in Threads : pc[u] = "using"}
      BY <1>3
    <2> QED
      BY <1>1, <2>1 DEF Held
  <1>6. CASE dont_check \/ ~Watched(e)
    BY <1>1, <1>2, <1>4, <1>5, <1>6, ForgetRefines
  <1>7. CASE ~(dont_check \/ ~Watched(e))
    BY <1>1, <1>2, <1>3, <1>7, NothingHappens
  <1> QED
    BY <1>6, <1>7

(* The other steps are none of Reclamation.                                *)
LEMMA OthersRefine ==
  ASSUME IInv, NEW t \in Threads,
         \/ CallWatch(t) \/ WatchCount(t) \/ GetDescriptor(t) \/ Detach(t)
         \/ Peek(t) \/ Exchange(t) \/ Allocate(t) \/ Pop(t)
         \/ AddLoad(t) \/ AddExchange(t) \/ AddStore(t) \/ SendUnsafe(t)
  PROVE  Stutter
  <1> USE DEF IInv
  <1>1. Types
    BY TypesAreTypeOK
  <1>2. UNCHANGED <<cell, placed>>
    BY DEF CallWatch, WatchCount, GetDescriptor, Detach, Begin, Peek, Exchange, Allocate, Pop,
       AddLoad, AddExchange, AddStore, SendUnsafe, clientVars
  <1>3. CASE CallWatch(t)
    <2>1. /\ pc[t] = "out" /\ pc' = [pc EXCEPT ![t] = "count"]
          /\ watching' = [watching EXCEPT ![t] = cell]
      BY <1>3 DEF CallWatch, Goto
    <2>2. \A u \in Threads : /\ pc'[u] = "using" <=> pc[u] = "using"
                             /\ pc[u] = "using" => watching'[u] = watching[u]
      BY <1>1, <2>1 DEF Types
    <2> QED
      BY <1>2, <2>2, NothingHappens
  <1>4. CASE ~CallWatch(t)
    <2>1. watching' = watching
      BY <1>4 DEF WatchCount, GetDescriptor, Detach, Begin, Peek, Exchange, Allocate, Pop,
         AddLoad, AddExchange, AddStore, SendUnsafe, clientVars
    <2>2. pc[t] # "using" /\ (pc' = pc \/ \E l \in {"validate", "clear", "peek", "exchange", "allocate",
                                "pop", "out", "add_exchange", "add_store", "add", "gone"} :
                                  pc' = [pc EXCEPT ![t] = l])
      <3>1. CASE WatchCount(t) \/ GetDescriptor(t) \/ Detach(t)
        BY <3>1 DEF WatchCount, GetDescriptor, Detach, Begin, Goto
      <3>2. CASE Peek(t) \/ Exchange(t) \/ Allocate(t) \/ Pop(t)
        BY <3>2 DEF Peek, Exchange, Allocate, Pop, NextPool, Goto
      <3>3. CASE AddLoad(t) \/ AddExchange(t) \/ AddStore(t) \/ SendUnsafe(t)
        BY <3>3 DEF AddLoad, AddExchange, AddStore, SendUnsafe, Goto
      <3> QED
        BY <1>4, <3>1, <3>2, <3>3
    <2>3. \A u \in Threads : pc'[u] = "using" <=> pc[u] = "using"
      BY <1>1, <2>2 DEF Types
    <2> QED
      BY <1>2, <2>1, <2>3, NothingHappens
  <1> QED
    BY <1>3, <1>4

LEMMA NextRefines == IInv /\ [Next]_vars => [Abstract!Next]_<<Life, Held>>
  <1> SUFFICES ASSUME IInv, [Next]_vars PROVE Abstract!Next \/ Stutter
    BY DEF Stutter
  <1>1. CASE UNCHANGED vars
    BY <1>1, NothingHappens DEF vars, clientVars
  <1>2. ASSUME NEW t \in Threads, WatchValidate(t) \/ Unwatch(t)
        PROVE  Abstract!Next \/ Stutter
    BY <1>2, ValidateRefines, UnwatchRefines DEF Abstract!Next
  <1>3. ASSUME NEW t \in Threads, Place(t) \/ TakeOff(t)
        PROVE  Abstract!Next
    BY <1>3, CellRefines DEF Abstract!Next
  <1>4. ASSUME NEW t \in Threads, ClearUnsafe(t) \/ FreeDescriptor(t)
        PROVE  Abstract!Next \/ Stutter
    BY <1>4, ClearUnsafeRefines, FreeDescriptorRefines DEF Abstract!Next
  <1>5. ASSUME NEW t \in Threads,
               \/ CallWatch(t) \/ WatchCount(t) \/ GetDescriptor(t) \/ Detach(t)
               \/ Peek(t) \/ Exchange(t) \/ Allocate(t) \/ Pop(t)
               \/ AddLoad(t) \/ AddExchange(t) \/ AddStore(t) \/ SendUnsafe(t)
        PROVE  Stutter
    BY <1>5, OthersRefine
  <1> QED
    BY <1>1, <1>2, <1>3, <1>4, <1>5 DEF Next

(* The counts keep the promise the hazard pointers keep: a descriptor is   *)
(* watched only while it is at the address, and given out again only when  *)
(* nobody watches it (descriptor_util.h:100-160), though reading the       *)
(* address, raising the count and looking again are three steps.           *)
THEOREM PoolsReclaimSafely == Spec => RefinesReclamation
  <1>1. Init => Abstract!Init
    <2> SUFFICES ASSUME Init PROVE Abstract!Init
      OBVIOUS
    <2>1. Life = [e \in Elems |-> "free"]
      BY NullAssumption DEF Init, Life
    <2>2. Held = {}
      BY DEF Init, Held
    <2> QED
      BY <2>1, <2>2 DEF Abstract!Init, Life, Held
  <1>2. IInv /\ [Next]_vars =>
          [Abstract!Next]_<<[e \in Elems |-> IF e = cell THEN "live" ELSE IF e \in placed THEN "retired" ELSE "free"],
                            {<<t, watching[t]>> : t \in {u \in Threads : pc[u] = "using"}}>>
    BY NextRefines DEF Life, Held
  <1> QED
    BY <1>1, <1>2, Invariance, PTL DEF Spec, RefinesReclamation, Abstract!Spec
=============================================================================
