----------------------------- MODULE MCASProofs -----------------------------
(***************************************************************************)
(* Proofs about MCAS, for any number of threads, addresses, values,        *)
(* operations and rounds; the last one for at most two threads.            *)
(***************************************************************************)
EXTENDS MCAS, WellFoundedInduction, FiniteSetTheorems, TLAPS

------------------------------------------------------------------------------
(* Induction                                                               *)

(* The naturals are well-founded.                                          *)
LEMMA NatLess == IsWellFoundedOn({ss \in Nat \X Nat : ss[1] < ss[2]}, Nat)
  <1>1. OpToRel(<, Nat) = {ss \in Nat \X Nat : ss[1] < ss[2]}
    BY DEF OpToRel
  <1> QED
    BY <1>1, NatLessThanWellFounded

(* A set of naturals that is not empty has a least element ...            *)
LEMMA LeastNat ==
  ASSUME NEW T, T \subseteq Nat, T # {}
  PROVE  \E n \in T : \A m \in T : n <= m
  <1> DEFINE R == {ss \in Nat \X Nat : ss[1] < ss[2]}
  <1>1. PICK n \in T : \A m \in T : ~ (<<m, n>> \in R)
    BY NatLess, WFMin
  <1>2. \A m \in Nat, k \in Nat : m < k => <<m, k>> \in R
    OBVIOUS
  <1> HIDE DEF R
  <1>3. ASSUME NEW m \in T PROVE n <= m
    <2>1. m \in Nat /\ n \in Nat
      OBVIOUS
    <2>2. ~ (<<m, n>> \in R)
      BY <1>1
    <2>3. ~ (m < n)
      BY <2>1, <2>2, <1>2
    <2> QED
      BY <2>1, <2>3
  <1> QED
    BY <1>3

(* ... so what 0 is in, and n + 1 with n, is all of them.                  *)
LEMMA SetInduction ==
  ASSUME NEW S, 0 \in S, \A n \in Nat : n \in S => n + 1 \in S
  PROVE  Nat \subseteq S
  <1> SUFFICES ASSUME Nat \ S # {} PROVE FALSE
    OBVIOUS
  <1>1. PICK n \in Nat \ S : \A m \in Nat \ S : n <= m
    BY LeastNat
  <1>2. n - 1 \in Nat /\ n = (n - 1) + 1 /\ ~(n <= n - 1)
    BY <1>1
  <1>3. n - 1 \in S
    BY <1>1, <1>2
  <1> QED
    BY <1>1, <1>2, <1>3

Words == Values \cup Helpers

Labels ==
  {"load", "reload", "row", "state", "mismatch", "place", "associate", "undo", "over", "fail",
   "pass", "withdraw", "announced", "watch", "on_watch", "restore", "own_row", "remove",
   "helping", "uninstall", "cleanup", "value", "done"}

Frames == [op : Ops \cup {Null}, row : Int, at : Labels, wf : BOOLEAN,
           val : Words \cup {Null}, left : Int, res : BOOLEAN]

Types ==
  /\ mem \in [Addrs -> Words]
  /\ cas_rows_ \in [Ops -> Seq(Triples)]
  /\ state_ \in [Ops -> {"IN_PROGRESS", "PASS", "FAIL"}]
  /\ helper_ \in [Ops -> [1 .. MaxRows -> Helpers \cup {Null, FAIL_CONST}]]
  /\ op_table_ \in [Threads -> Ops \cup {Null}]
  /\ op \in [Threads -> Ops \cup {Null}]
  /\ stack \in [Threads -> Seq(Frames)]
  /\ retired \in [Threads -> SUBSET Ops]
  /\ unchecked \in [Threads -> SUBSET Ops]
  /\ scan \in [Threads -> Ops \cup {Null}]
  /\ deleted \in SUBSET Ops

HistoryType == held \in [Threads -> [Addrs -> SUBSET Values]]

(* A Helper, wherever it is met, belongs to a row of that address.         *)
WordAt(w, a) ==
  w \in Helpers => w.row \in Rows(w.op) /\ Row(w.op, w.row).address = a

Meeting == {"watch", "on_watch", "restore", "value", "own_row", "remove", "helping", "uninstall"}
Reading == {"load", "reload", "watch", "on_watch", "restore", "value", "done"}

FrameShape(f) ==
  /\ f.op = Null => f.row \in Addrs /\ f.at \in Reading
  /\ f.op # Null => f.row \in Rows(f.op) /\ f.at # "value"
  /\ f.at \in Meeting => f.val \in Helpers
  /\ f.at \in Meeting \cup {"row", "state", "mismatch", "place"} =>
       f.val \in Words /\ WordAt(f.val, Address(f))
  /\ f.at \in {"mismatch", "place"} => f.val \in Values

(* Each activation but the topmost waits for the one above it.             *)
Link(g, f, k) ==
  \/ g.at = "helping" /\ f.op = g.val.op
  \/ g.at = "announced" /\ k = 1 /\ f.op = g.op /\ f.wf

RowsSorted ==
  \A o \in Ops :
    /\ RowCount(o) <= MaxRows
    /\ \A i, j \in Rows(o) : i < j => Row(o, j).address < Row(o, i).address

HelperRows ==
  \A o \in Ops : \A i \in 1 .. MaxRows :
    /\ helper_[o][i] # Null => i \in Rows(o)
    /\ helper_[o][i] \in Helpers => helper_[o][i].op = o /\ helper_[o][i].row = i

MemRows == \A a \in Addrs : WordAt(mem[a], a)

FreshRows == \A o \in Ops : RowCount(o) = 0 => InProgress(o)

Announced == \A t \in Threads : op_table_[t] # Null => RowCount(op_table_[t]) > 0

Caller(t) ==
  /\ stack[t] = <<>> => op[t] = Null
  /\ op[t] # Null => RowCount(op[t]) > 0
  /\ \A k \in 1 .. Len(stack[t]) :
       /\ stack[t][k].op = Null => op[t] = Null
       /\ op[t] = Null => stack[t][k].op = Null /\ Len(stack[t]) = 1
       /\ stack[t][k].at \in {"cleanup", "done"} => Len(stack[t]) = 1 /\ stack[t][k].op = op[t]

Shapes ==
  \A t \in Threads :
    /\ \A k \in 1 .. Len(stack[t]) : \A f \in {stack[t][k]} : FrameShape(f)
    /\ \A k \in 1 .. (Len(stack[t]) - 1) :
         \A g \in {stack[t][k]} : \A f \in {stack[t][k + 1]} : Link(g, f, k)
    /\ Caller(t)

Control == Types /\ RowsSorted /\ HelperRows /\ MemRows /\ FreshRows /\ Announced /\ Shapes

Settled(o, i) == helper_[o][i] \notin {Null, FAIL_CONST}
Prefix(o, i) == \A j \in 1 .. (i - 1) : Settled(o, j)
Held(h) == helper_[h.op][h.row]

FrameOk(t, f) ==
  /\ f.op # Null => Prefix(f.op, f.row)
  /\ f.at \in Meeting \cup {"row", "state"} /\ f.val \in Helpers => Prefix(f.val.op, f.val.row)
  /\ f.at \in {"state", "place"} => helper_[f.op][f.row] # Helper(f.op, f.row, t)
  /\ f.at = "mismatch" => f.val # Row(f.op, f.row).expected
  /\ f.at = "place" => f.val = Row(f.op, f.row).expected
  /\ f.at = "associate" =>
       /\ helper_[f.op][f.row] = Null => mem[Address(f)] = Helper(f.op, f.row, t)
       /\ helper_[f.op][f.row] \notin {Null, FAIL_CONST, Helper(f.op, f.row, t)} => ~InProgress(f.op)
  /\ f.at = "undo" =>
       /\ helper_[f.op][f.row] \notin {Null, Helper(f.op, f.row, t)}
       /\ helper_[f.op][f.row] # FAIL_CONST => ~InProgress(f.op)
  /\ f.at \in {"over", "withdraw"} => ~InProgress(f.op)
  /\ f.at = "fail" => helper_[f.op][f.row] = FAIL_CONST
  /\ f.at = "pass" => \A i \in Rows(f.op) : Settled(f.op, i)
  /\ f.at = "on_watch" /\ Held(f.val) = Null => mem[Address(f)] = f.val
  /\ f.at = "restore" => Held(f.val) \notin {Null, f.val}
  /\ f.at \in {"value", "own_row", "remove", "helping", "uninstall"} => Held(f.val) = f.val
  /\ f.at = "uninstall" => ~InProgress(f.val.op) /\ f.res = (state_[f.val.op] = "PASS")
  /\ f.at = "cleanup" =>
       /\ ~InProgress(f.op) /\ f.res = (state_[f.op] = "PASS")
       /\ \A j \in 1 .. (f.row - 1) : mem[Row(f.op, j).address] # helper_[f.op][j]
  /\ f.at = "done" /\ f.op # Null => 
       ~InProgress(f.op) /\ \A j \in Rows(f.op) : mem[Row(f.op, j).address] # helper_[f.op][j]

HelperPrefix == \A o \in Ops : \A i \in Rows(o) : helper_[o][i] # Null => Prefix(o, i)
MemPrefix == \A a \in Addrs : \A h \in {mem[a]} : h \in Helpers => Prefix(h.op, h.row)
PlacedByTop ==
  \A a \in Addrs : \A h \in {mem[a]} : h \in Helpers /\ Held(h) = Null =>
    /\ At(h.by, "associate")
    /\ Top(h.by).op = h.op /\ Top(h.by).row = h.row
Outcomes ==
  \A o \in Ops :
    /\ state_[o] = "PASS" => \A i \in Rows(o) : Settled(o, i)
    /\ state_[o] = "FAIL" => \E i \in Rows(o) : helper_[o][i] = FAIL_CONST
FramesOk == \A t \in Threads : \A k \in 1 .. Len(stack[t]) : \A f \in {stack[t][k]} : FrameOk(t, f)

Emptied(o) == ~InProgress(o) /\ \A i \in Rows(o) : mem[Row(o, i).address] # helper_[o][i]
Retirement ==
  /\ \A o \in deleted : Emptied(o)
  /\ \A t \in Threads :
       /\ \A o \in retired[t] : Emptied(o)
       /\ unchecked[t] \subseteq retired[t]
       /\ scan[t] # Null => scan[t] \in retired[t]

Descending ==
  \A t \in Threads : \A i, j \in 1 .. Len(stack[t]) :
    i < j /\ stack[t][i].at = "helping" =>
      \/ Address(stack[t][j]) < Address(stack[t][i])
      \/ /\ Address(stack[t][j]) = Address(stack[t][i]) /\ j = Len(stack[t])
         /\ stack[t][j].at \in {"load", "row", "pass"}
         /\ Settled(stack[t][j].op, stack[t][j].row)

IInv == Control /\ HelperPrefix /\ MemPrefix /\ PlacedByTop /\ Outcomes /\ AssociatedStays
        /\ FramesOk /\ Retirement /\ Descending /\ HistoryType
-----------------------------------------------------------------------------
(* Frames and stacks                                                       *)

Fields(g, o, i, l, b, v, r) ==
  g.op = o /\ g.row = i /\ g.at = l /\ g.wf = b /\ g.val = v /\ g.res = r

LEMMA FreshFrame ==
  ASSUME NEW o \in Ops \cup {Null}, NEW i \in Int, NEW b \in BOOLEAN
  PROVE  Frame(o, i, b) \in Frames /\ Fields(Frame(o, i, b), o, i, "load", b, Null, FALSE)
  <1>1. LIMIT \in Int
    BY LIMITAssumption
  <1>2. /\ "load" \in Labels /\ Null \in Words \cup {Null} /\ FALSE \in BOOLEAN
        /\ o \in Ops \cup {Null} /\ i \in Int /\ b \in BOOLEAN
    BY DEF Labels
  <1>3. Frame(o, i, b) \in Frames
    BY <1>1, <1>2, Zenon DEF Frame, Frames
  <1>4. Fields(Frame(o, i, b), o, i, "load", b, Null, FALSE)
    BY DEF Frame, Fields
  <1> QED
    BY <1>3, <1>4

LEMMA FreshReadFrame ==
  ASSUME NEW a \in Addrs
  PROVE  ReadFrame(a) \in Frames /\ Fields(ReadFrame(a), Null, a, "load", FALSE, Null, FALSE)
  <1>1. a \in Int /\ -1 \in Int /\ FALSE \in BOOLEAN /\ Null \in Ops \cup {Null}
    BY AddrsAssumption
  <1>2. /\ Frame(Null, a, FALSE) \in Frames
        /\ Fields(Frame(Null, a, FALSE), Null, a, "load", FALSE, Null, FALSE)
    BY <1>1, FreshFrame
  <1> QED
    BY <1>1, <1>2 DEF ReadFrame, Frames, Fields

LEMMA FrameAt ==
  ASSUME NEW f \in Frames, NEW l \in Labels
  PROVE  /\ [f EXCEPT !.at = l] \in Frames
         /\ Fields([f EXCEPT !.at = l], f.op, f.row, l, f.wf, f.val, f.res)
  BY DEF Frames, Fields

LEMMA FrameValAt ==
  ASSUME NEW f \in Frames, NEW l \in Labels, NEW v \in Words \cup {Null}
  PROVE  /\ [f EXCEPT !.val = v, !.at = l] \in Frames
         /\ Fields([f EXCEPT !.val = v, !.at = l], f.op, f.row, l, f.wf, v, f.res)
  BY DEF Frames, Fields

LEMMA FrameAtVal ==
  ASSUME NEW f \in Frames, NEW l \in Labels, NEW v \in Words \cup {Null}
  PROVE  /\ [f EXCEPT !.at = l, !.val = v] \in Frames
         /\ Fields([f EXCEPT !.at = l, !.val = v], f.op, f.row, l, f.wf, v, f.res)
  BY DEF Frames, Fields

LEMMA FrameLeftAt ==
  ASSUME NEW f \in Frames, NEW l \in Labels, NEW c \in Int
  PROVE  /\ [f EXCEPT !.left = c, !.at = l] \in Frames
         /\ Fields([f EXCEPT !.left = c, !.at = l], f.op, f.row, l, f.wf, f.val, f.res)
  BY DEF Frames, Fields

LEMMA FrameAtRes ==
  ASSUME NEW f \in Frames, NEW l \in Labels, NEW b \in BOOLEAN
  PROVE  /\ [f EXCEPT !.at = l, !.res = b] \in Frames
         /\ Fields([f EXCEPT !.at = l, !.res = b], f.op, f.row, l, f.wf, f.val, b)
  BY DEF Frames, Fields

LEMMA FrameAtRow ==
  ASSUME NEW f \in Frames, NEW l \in Labels, NEW i \in Int
  PROVE  /\ [f EXCEPT !.at = l, !.row = i] \in Frames
         /\ Fields([f EXCEPT !.at = l, !.row = i], f.op, i, l, f.wf, f.val, f.res)
  BY DEF Frames, Fields

LEMMA FrameAtRowRes ==
  ASSUME NEW f \in Frames, NEW l \in Labels, NEW i \in Int, NEW b \in BOOLEAN
  PROVE  /\ [f EXCEPT !.at = l, !.row = i, !.res = b] \in Frames
         /\ Fields([f EXCEPT !.at = l, !.row = i, !.res = b], f.op, i, l, f.wf, f.val, b)
  BY DEF Frames, Fields

LEMMA StartIs ==
  ASSUME NEW S, NEW s \in Seq(S), NEW b \in 1 .. Len(s)
  PROVE  LET q == SubSeq(s, 1, b - 1) IN
         q \in Seq(S) /\ Len(q) = b - 1 /\ \A k \in 1 .. (b - 1) : q[k] = s[k]
  OBVIOUS

LEMMA CutIs ==
  ASSUME NEW S, NEW s \in Seq(S), NEW b \in 1 .. Len(s), NEW g \in S
  PROVE  LET r == Append(SubSeq(s, 1, b - 1), g) IN
         /\ r \in Seq(S) /\ Len(r) = b /\ r[b] = g
         /\ \A k \in 1 .. (b - 1) : r[k] = s[k]
  <1> DEFINE q == SubSeq(s, 1, b - 1)
  <1>1. q \in Seq(S) /\ Len(q) = b - 1 /\ \A k \in 1 .. (b - 1) : q[k] = s[k]
    BY StartIs
  <1> HIDE DEF q
  <1> QED
    BY <1>1

LEMMA PushIs ==
  ASSUME NEW S, NEW s \in Seq(S), s # <<>>, NEW g \in S, NEW f \in S
  PROVE  LET r == Append(Append(SubSeq(s, 1, Len(s) - 1), g), f) IN
         /\ r \in Seq(S) /\ Len(r) = Len(s) + 1 /\ r[Len(s)] = g /\ r[Len(s) + 1] = f
         /\ \A k \in 1 .. (Len(s) - 1) : r[k] = s[k]
  <1> DEFINE p == SubSeq(s, 1, Len(s) - 1)
             q == Append(p, g)
  <1>0. Len(s) \in Nat /\ Len(s) \in 1 .. Len(s)
    OBVIOUS
  <1>1. p \in Seq(S) /\ Len(p) = Len(s) - 1 /\ \A k \in 1 .. (Len(s) - 1) : p[k] = s[k]
    BY <1>0, StartIs
  <1> HIDE DEF p
  <1>2. /\ q \in Seq(S) /\ Len(q) = Len(s) /\ q[Len(s)] = g
        /\ \A k \in 1 .. (Len(s) - 1) : q[k] = p[k]
    BY <1>0, <1>1
  <1> HIDE DEF q
  <1>3. LET r == Append(q, f) IN
        /\ r \in Seq(S) /\ Len(r) = Len(s) + 1 /\ r[Len(s) + 1] = f
        /\ \A k \in 1 .. Len(s) : r[k] = q[k]
    BY <1>0, <1>2
  <1> QED
    BY <1>0, <1>1, <1>2, <1>3 DEF p, q

-----------------------------------------------------------------------------
(* What the operators that move a thread do to its stack                   *)

Stands(t, f) == stack[t] # <<>> /\ f = stack[t][Len(stack[t])] /\ f = Top(t)

Sound(f) ==
  /\ f.at \in Labels /\ f.row \in Int /\ f.wf \in BOOLEAN /\ f.res \in BOOLEAN
  /\ f.left \in Int /\ f.op \in Ops \cup {Null} /\ f.val \in Words \cup {Null}
  /\ Address(f) \in Addrs
  /\ f.op # Null => /\ f.op \in Ops /\ f.row \in Rows(f.op) /\ f.row \in 1 .. MaxRows
                    /\ Row(f.op, f.row) \in Triples
                    /\ Address(f) = Row(f.op, f.row).address
  /\ f.op = Null => Address(f) = f.row

\* The stack of t is cut down to b activations, and the last one becomes g.
Cut(t, b, g) ==
  /\ b \in 1 .. Len(stack[t]) /\ g \in Frames
  /\ stack' \in [Threads -> Seq(Frames)]
  /\ Len(stack'[t]) = b /\ stack'[t][b] = g
  /\ \A k \in 1 .. (b - 1) : stack'[t][k] = stack[t][k]
  /\ \A u \in Threads : u # t => stack'[u] = stack[u]

\* The topmost activation becomes g and calls f.
Grow(t, g, f) ==
  /\ g \in Frames /\ f \in Frames
  /\ stack' \in [Threads -> Seq(Frames)]
  /\ stack[t] # <<>> /\ Len(stack'[t]) = Len(stack[t]) + 1
  /\ stack'[t][Len(stack[t])] = g /\ stack'[t][Len(stack[t]) + 1] = f
  /\ \A k \in 1 .. (Len(stack[t]) - 1) : stack'[t][k] = stack[t][k]
  /\ \A u \in Threads : u # t => stack'[u] = stack[u]

LEMMA RowTyped ==
  ASSUME Types, RowsSorted, NEW o \in Ops, NEW i \in Rows(o)
  PROVE  /\ RowCount(o) \in Nat /\ i \in Nat /\ i \in 1 .. MaxRows
         /\ Row(o, i) \in Triples /\ Row(o, i).address \in Addrs
         /\ Row(o, i).expected \in Values /\ Row(o, i).new \in Values
  <1>1. cas_rows_[o] \in Seq(Triples)
    BY DEF Types
  <1>2. RowCount(o) \in Nat /\ i \in 1 .. RowCount(o)
    BY <1>1 DEF RowCount, Rows
  <1>3. Row(o, i) \in Triples
    BY <1>1, <1>2 DEF Row, RowCount
  <1>4. MaxRows \in Nat
    BY AddrsAssumption, FS_CardinalityType DEF MaxRows
  <1> QED
    BY <1>2, <1>3, <1>4 DEF RowsSorted, Triples

LEMMA FrameFacts ==
  ASSUME Control, NEW t \in Threads, NEW k \in 1 .. Len(stack[t]), NEW f, f = stack[t][k]
  PROVE  f \in Frames /\ FrameShape(f) /\ Sound(f)
  <1>1. stack[t] \in Seq(Frames)
    BY DEF Control, Types
  <1>2. f \in Frames
    BY <1>1
  <1>3. FrameShape(f)
    BY DEF Control, Shapes
  <1>4. /\ f.at \in Labels /\ f.row \in Int /\ f.wf \in BOOLEAN /\ f.res \in BOOLEAN
        /\ f.left \in Int /\ f.op \in Ops \cup {Null} /\ f.val \in Words \cup {Null}
    BY <1>2 DEF Frames
  <1>5. CASE f.op = Null
    <2>1. Address(f) = f.row /\ f.row \in Addrs
      BY <1>3, <1>5 DEF FrameShape, Address
    <2> QED
      BY <1>2, <1>3, <1>4, <1>5, <2>1 DEF Sound
  <1>6. CASE f.op # Null
    <2>1. f.op \in Ops /\ f.row \in Rows(f.op)
      BY <1>3, <1>4, <1>6 DEF FrameShape
    <2>2. /\ f.row \in 1 .. MaxRows /\ Row(f.op, f.row) \in Triples
          /\ Row(f.op, f.row).address \in Addrs
      BY <2>1, RowTyped DEF Control
    <2>3. Address(f) = Row(f.op, f.row).address
      BY <1>6 DEF Address
    <2> QED
      BY <1>2, <1>3, <1>4, <1>6, <2>1, <2>2, <2>3 DEF Sound
  <1> QED
    BY <1>5, <1>6

LEMMA StackLength ==
  ASSUME Types, NEW t \in Threads, stack[t] # <<>>
  PROVE  /\ stack[t] \in Seq(Frames) /\ Len(stack[t]) \in Nat /\ Len(stack[t]) >= 1
         /\ Len(stack[t]) \in 1 .. Len(stack[t]) /\ 1 \in 1 .. Len(stack[t])
  <1>1. stack[t] \in Seq(Frames)
    BY DEF Types
  <1> QED
    BY <1>1

LEMMA TopFacts ==
  ASSUME Control, NEW t \in Threads, stack[t] # <<>>
  PROVE  \E f \in Frames : Stands(t, f) /\ FrameShape(f) /\ Sound(f)
  <1>1. Len(stack[t]) \in 1 .. Len(stack[t])
    BY StackLength DEF Control
  <1>2. Top(t) = stack[t][Len(stack[t])]
    BY DEF Top
  <1> QED
    BY <1>1, <1>2, FrameFacts DEF Stands

LEMMA BecomeCuts ==
  ASSUME Types, NEW t \in Threads, stack[t] # <<>>, NEW g \in Frames, Become(t, g)
  PROVE  Cut(t, Len(stack[t]), g)
  <1> DEFINE r == Append(SubSeq(stack[t], 1, Len(stack[t]) - 1), g)
  <1>1. stack[t] \in Seq(Frames) /\ Len(stack[t]) \in 1 .. Len(stack[t])
    BY StackLength
  <1>2. /\ r \in Seq(Frames) /\ Len(r) = Len(stack[t]) /\ r[Len(stack[t])] = g
        /\ \A k \in 1 .. (Len(stack[t]) - 1) : r[k] = stack[t][k]
    BY <1>1, CutIs
  <1>3. stack' = [stack EXCEPT ![t] = r]
    BY DEF Become, Below
  <1> HIDE DEF r
  <1>4. stack'[t] = r /\ stack' \in [Threads -> Seq(Frames)] /\ \A u \in Threads : u # t => stack'[u] = stack[u]
    BY <1>2, <1>3 DEF Types
  <1> QED
    BY <1>1, <1>2, <1>4 DEF Cut

LEMMA GotoCuts ==
  ASSUME Types, NEW t \in Threads, NEW f \in Frames, Stands(t, f), NEW l \in Labels, Goto(t, l)
  PROVE  \E g \in Frames : /\ Cut(t, Len(stack[t]), g)
                           /\ Fields(g, f.op, f.row, l, f.wf, f.val, f.res)
  <1>1. Become(t, [f EXCEPT !.at = l])
    BY DEF Goto, Stands
  <1> QED
    BY <1>1, FrameAt, BecomeCuts DEF Stands

LEMMA PushGrows ==
  ASSUME Types, NEW t \in Threads, NEW f \in Frames, Stands(t, f), NEW l \in Labels,
         NEW h \in Frames, Push(t, l, h)
  PROVE  \E g \in Frames : Grow(t, g, h) /\ Fields(g, f.op, f.row, l, f.wf, f.val, f.res)
  <1> DEFINE g == [f EXCEPT !.at = l]
             r == Append(Append(SubSeq(stack[t], 1, Len(stack[t]) - 1), g), h)
  <1>1. g \in Frames /\ Fields(g, f.op, f.row, l, f.wf, f.val, f.res)
    BY FrameAt
  <1>2. stack' = [stack EXCEPT ![t] = r]
    BY DEF Push, Below, Stands
  <1> HIDE DEF g
  <1>3. stack[t] \in Seq(Frames) /\ stack[t] # <<>>
    BY DEF Types, Stands
  <1>4. /\ r \in Seq(Frames) /\ Len(r) = Len(stack[t]) + 1 /\ r[Len(stack[t])] = g
        /\ r[Len(stack[t]) + 1] = h
        /\ \A k \in 1 .. (Len(stack[t]) - 1) : r[k] = stack[t][k]
    BY <1>1, <1>3, PushIs
  <1> HIDE DEF r
  <1>5. stack'[t] = r /\ stack' \in [Threads -> Seq(Frames)] /\ \A u \in Threads : u # t => stack'[u] = stack[u]
    BY <1>2, <1>4 DEF Types
  <1> QED
    BY <1>1, <1>3, <1>4, <1>5 DEF Grow

LEMMA NextRowCuts ==
  ASSUME Control, NEW t \in Threads, NEW f \in Frames, Stands(t, f), f.op # Null, Sound(f), NextRow(t)
  PROVE  \E g \in Frames :
           /\ Cut(t, Len(stack[t]), g)
           /\ \/ /\ f.row < RowCount(f.op)
                 /\ Fields(g, f.op, f.row + 1, "load", f.wf, Null, FALSE)
              \/ /\ f.row = RowCount(f.op)
                 /\ Fields(g, f.op, f.row, "pass", f.wf, f.val, f.res)
  <1>0. /\ Types /\ f.op \in Ops /\ f.row \in Rows(f.op) /\ f.wf \in BOOLEAN /\ stack[t] # <<>>
        /\ Top(t) = f
    BY DEF Control, Sound, Stands
  <1>1. RowCount(f.op) \in Nat /\ f.row \in 1 .. RowCount(f.op)
    BY <1>0, RowTyped DEF Control, Rows
  <1>2. CASE f.row < RowCount(f.op)
    <2>1. Become(t, Frame(f.op, f.row + 1, f.wf))
      BY <1>0, <1>2 DEF NextRow
    <2>2. f.op \in Ops \cup {Null} /\ f.row + 1 \in Int
      BY <1>0, <1>1
    <2> QED
      BY <1>0, <1>2, <2>1, <2>2, FreshFrame, BecomeCuts
  <1>3. CASE ~(f.row < RowCount(f.op))
    <2>1. Goto(t, "pass") /\ "pass" \in Labels
      BY <1>0, <1>3 DEF NextRow, Labels
    <2>2. f.row = RowCount(f.op)
      BY <1>1, <1>3
    <2> QED
      BY <1>0, <2>1, <2>2, GotoCuts
  <1> QED
    BY <1>2, <1>3

LEMMA ReturnedCuts ==
  ASSUME Control, NEW t \in Threads, NEW f \in Frames, Stands(t, f), NEW b \in BOOLEAN, Returned(t, b)
  PROVE  LET n == Len(stack[t]) IN
         \/ /\ n > 1
            /\ \E c, g \in Frames :
                 /\ c = stack[t][n - 1] /\ Cut(t, n - 1, g)
                 /\ Fields(g, c.op, c.row, IF c.at = "helping" THEN "uninstall" ELSE "withdraw",
                           c.wf, c.val, b)
         \/ /\ n = 1 /\ f.op = op[t]
            /\ \E g \in Frames :
                 Cut(t, 1, g) /\ Fields(g, f.op, 1, "cleanup", f.wf, f.val, b)
         \/ /\ n = 1 /\ f.op # op[t]
            /\ \E g \in Frames :
                 Cut(t, 1, g) /\ Fields(g, op[t], 1, "load", FALSE, Null, FALSE)
  <1> DEFINE n == Len(stack[t])
  <1>0. /\ Types /\ stack[t] \in Seq(Frames) /\ stack[t] # <<>> /\ n \in Nat /\ n >= 1
        /\ n \in 1 .. n /\ Top(t) = f
    BY StackLength DEF Control, Stands
  <1>1. Below(t) \in Seq(Frames) /\ Len(Below(t)) = n - 1
         /\ \A k \in 1 .. (n - 1) : Below(t)[k] = stack[t][k]
    BY <1>0, StartIs DEF Below
  <1>2. CASE n > 1
    <2> DEFINE c == stack[t][n - 1]
               l == IF c.at = "helping" THEN "uninstall" ELSE "withdraw"
               g == [c EXCEPT !.at = l, !.res = b]
               r == Append(SubSeq(stack[t], 1, (n - 1) - 1), g)
    <2>1. n - 1 \in 1 .. Len(stack[t])
      BY <1>0, <1>2
    <2>2. c \in Frames
      BY <1>0, <2>1
    <2>3. l \in Labels
      BY DEF Labels
    <2>4. g \in Frames /\ Fields(g, c.op, c.row, l, c.wf, c.val, b)
      BY <2>2, <2>3, FrameAtRes
    <2>5. Below(t) # <<>> /\ Below(t)[n - 1] = c /\ (n - 1) - 1 = n - 2
      BY <1>0, <1>1, <1>2
    <2>6. stack' = [stack EXCEPT ![t] = r]
      BY <2>5 DEF Returned
    <2> HIDE DEF g
    <2>7. /\ r \in Seq(Frames) /\ Len(r) = n - 1 /\ r[n - 1] = g
          /\ \A k \in 1 .. ((n - 1) - 1) : r[k] = stack[t][k]
      BY <1>0, <2>1, <2>4, CutIs
    <2> HIDE DEF r
    <2>8. stack'[t] = r /\ stack' \in [Threads -> Seq(Frames)] /\ \A u \in Threads : u # t => stack'[u] = stack[u]
      BY <1>0, <2>6, <2>7 DEF Types
    <2>9. Cut(t, n - 1, g)
      BY <2>1, <2>4, <2>7, <2>8 DEF Cut
    <2> QED
      BY <1>2, <2>2, <2>4, <2>9
  <1>3. CASE n = 1 /\ f.op = op[t]
    <2>1. Below(t) = <<>>
      BY <1>1, <1>3
    <2>2. Become(t, [f EXCEPT !.at = "cleanup", !.row = 1, !.res = b])
      BY <1>0, <1>3, <2>1 DEF Returned
    <2>3. "cleanup" \in Labels /\ 1 \in Int
      BY DEF Labels
    <2> DEFINE g == [f EXCEPT !.at = "cleanup", !.row = 1, !.res = b]
    <2>4. g \in Frames /\ Fields(g, f.op, 1, "cleanup", f.wf, f.val, b)
      BY <2>3, FrameAtRowRes
    <2>5. Become(t, g)
      BY <2>2
    <2> HIDE DEF g
    <2>6. Cut(t, 1, g)
      BY <1>0, <1>3, <2>4, <2>5, BecomeCuts
    <2> QED
      BY <1>3, <2>4, <2>6
  <1>4. CASE n = 1 /\ f.op # op[t]
    <2>1. Below(t) = <<>>
      BY <1>1, <1>4
    <2>2. Become(t, Frame(op[t], 1, FALSE))
      BY <1>0, <1>4, <2>1 DEF Returned
    <2>3. op[t] \in Ops \cup {Null} /\ FALSE \in BOOLEAN /\ 1 \in Int
      BY <1>0 DEF Types
    <2> DEFINE g == Frame(op[t], 1, FALSE)
    <2>4. g \in Frames /\ Fields(g, op[t], 1, "load", FALSE, Null, FALSE)
      BY <2>3, FreshFrame
    <2> HIDE DEF g
    <2>6. Cut(t, 1, g)
      BY <1>0, <1>4, <2>2, <2>4, BecomeCuts DEF g
    <2> QED
      BY <1>4, <2>4, <2>6
  <1>5. n > 1 \/ n = 1
    <2>1. n \in Nat /\ n >= 1
      BY <1>0
    <2> HIDE DEF n
    <2> QED
      BY <2>1
  <1> QED
    BY <1>2, <1>3, <1>4, <1>5, Zenon

LEMMA DepthIs ==
  ASSUME Types, NEW t \in Threads
  PROVE  /\ Depth(t) \in Nat
         /\ Depth(t) = 0 <=> \A k \in 1 .. Len(stack[t]) : stack[t][k].at # "helping"
  <1> DEFINE W == {k \in 1 .. Len(stack[t]) : stack[t][k].at = "helping"}
  <1>1. Len(stack[t]) \in Nat
    BY DEF Types
  <1>2. IsFiniteSet(1 .. Len(stack[t]))
    BY <1>1, FS_Interval
  <1>3. IsFiniteSet(W)
    BY <1>2, FS_Subset
  <1>4. Cardinality(W) \in Nat /\ (Cardinality(W) = 0 <=> W = {})
    BY <1>3, FS_CardinalityType, FS_EmptySet
  <1> QED
    BY <1>4 DEF Depth

LEMMA RecursiveReturnCuts ==
  ASSUME Control, NEW t \in Threads, Depth(t) # 0, RecursiveReturn(t)
  PROVE  \E b \in 1 .. Len(stack[t]) : \E c, g \in Frames :
           /\ c = stack[t][b] /\ c.at = "helping" /\ Cut(t, b, g)
           /\ \A k \in 1 .. (b - 1) : stack[t][k].at # "helping"
           /\ Fields(g, c.op, c.row, "reload", c.wf, c.val, c.res)
  <1> DEFINE W == {i \in 1 .. Len(stack[t]) : stack[t][i].at = "helping"}
             b == CHOOSE i \in W : \A j \in W : i <= j
             c == stack[t][b]
             g == [c EXCEPT !.at = "reload"]
             r == Append(SubSeq(stack[t], 1, b - 1), g)
  <1>0. Types /\ stack[t] \in Seq(Frames) /\ Len(stack[t]) \in Nat
    BY DEF Control, Types
  <1>1. W # {} /\ W \subseteq Nat
    BY <1>0, DepthIs
  <1>2. b \in W /\ \A j \in W : b <= j
    BY <1>1, LeastNat
  <1>3. stack' = [stack EXCEPT ![t] = r]
    BY DEF RecursiveReturn
  <1> HIDE DEF b
  <1>4. b \in 1 .. Len(stack[t]) /\ c.at = "helping" /\ c \in Frames
    BY <1>0, <1>2
  <1>5. \A k \in 1 .. (b - 1) : stack[t][k].at # "helping"
    BY <1>0, <1>2, <1>4
  <1>6. "reload" \in Labels
    BY DEF Labels
  <1>7. g \in Frames /\ Fields(g, c.op, c.row, "reload", c.wf, c.val, c.res)
    BY <1>4, <1>6, FrameAt
  <1> HIDE DEF g
  <1>8. /\ r \in Seq(Frames) /\ Len(r) = b /\ r[b] = g
        /\ \A k \in 1 .. (b - 1) : r[k] = stack[t][k]
    BY <1>0, <1>4, <1>7, CutIs
  <1> HIDE DEF r
  <1>9. stack'[t] = r /\ stack' \in [Threads -> Seq(Frames)] /\ \A u \in Threads : u # t => stack'[u] = stack[u]
    BY <1>0, <1>3, <1>8 DEF Types
  <1>10. Cut(t, b, g)
    BY <1>4, <1>7, <1>8, <1>9 DEF Cut
  <1> QED
    BY <1>4, <1>5, <1>7, <1>10

-----------------------------------------------------------------------------
(* What each access of shared memory does                                  *)

Quiet == mem' = mem /\ helper_' = helper_ /\ state_' = state_

Here(t, f) == f \in Frames /\ Stands(t, f) /\ FrameShape(f) /\ Sound(f)

Becomes(t, g, o, i, l, b, v, r) == Cut(t, Len(stack[t]), g) /\ Fields(g, o, i, l, b, v, r)

\* The topmost activation goes on elsewhere.
Turns(t, f, l) == \E g \in Frames : Becomes(t, g, f.op, f.row, l, f.wf, f.val, f.res)

\* The row is settled: on to the next one, or to the end.
Passes(t, f) ==
  \E g \in Frames :
    \/ f.row < RowCount(f.op) /\ Becomes(t, g, f.op, f.row + 1, "load", f.wf, Null, FALSE)
    \/ f.row = RowCount(f.op) /\ Becomes(t, g, f.op, f.row, "pass", f.wf, f.val, f.res)

LEMMA HereIs ==
  ASSUME Control, NEW t \in Threads, stack[t] # <<>>
  PROVE  \E f : Here(t, f)
  BY TopFacts DEF Here

LEMMA GotoTurns ==
  ASSUME Control, NEW t \in Threads, NEW f, Here(t, f), NEW l \in Labels, Goto(t, l)
  PROVE  Turns(t, f, l)
  BY GotoCuts DEF Control, Here, Turns, Becomes

LEMMA NextRowPasses ==
  ASSUME Control, NEW t \in Threads, NEW f, Here(t, f), f.op # Null, NextRow(t)
  PROVE  Passes(t, f)
  BY NextRowCuts DEF Here, Passes, Becomes

LEMMA WordIs ==
  ASSUME NEW w \in Words
  PROVE  /\ IsDescriptor(w) <=> w \in Helpers
         /\ w \in Helpers <=> w \notin Values
         /\ w # Null /\ w # FAIL_CONST
  BY WordsAssumption DEF Words, IsDescriptor

LEMMA HelperWord ==
  ASSUME Types, RowsSorted, NEW h \in Helpers, h.row \in Rows(h.op)
  PROVE  /\ h.op \in Ops /\ h.by \in Threads /\ h.row \in 1 .. MaxRows
         /\ h = Helper(h.op, h.row, h.by)
         /\ Row(h.op, h.row) \in Triples
         /\ helper_[h.op][h.row] \in Helpers \cup {Null, FAIL_CONST}
  <1>1. h.op \in Ops /\ h.by \in Threads /\ h.row \in 1 .. MaxRows
    BY DEF Helpers
  <1>2. h = Helper(h.op, h.row, h.by)
    BY DEF Helpers, Helper
  <1> QED
    BY <1>1, <1>2, RowTyped DEF Types

LEMMA OwnHelper ==
  ASSUME Types, RowsSorted, NEW o \in Ops, NEW i \in Rows(o), NEW t \in Threads, NEW h, h = Helper(o, i, t)
  PROVE  /\ h \in Helpers /\ h \in Words /\ h.op = o /\ h.row = i /\ h.by = t
         /\ h # Null /\ h # FAIL_CONST /\ h \notin Values
  <1>1. i \in 1 .. MaxRows
    BY RowTyped
  <1>2. h \in Helpers /\ h.op = o /\ h.row = i /\ h.by = t
    BY <1>1 DEF Helpers, Helper
  <1> QED
    BY <1>2, WordIs DEF Words

\* helper_ of a row goes from null to w.
Associates(o, i, w) ==
  /\ helper_[o][i] = Null
  /\ helper_' = [helper_ EXCEPT ![o][i] = w]
  /\ mem' = mem /\ state_' = state_

Decides(o, s) ==
  /\ InProgress(o)
  /\ state_' = [state_ EXCEPT ![o] = s]
  /\ mem' = mem /\ helper_' = helper_

Swaps(a, v) == mem' = [mem EXCEPT ![a] = v] /\ helper_' = helper_ /\ state_' = state_

LEMMA SetHelperIs ==
  ASSUME Types, RowsSorted, NEW o \in Ops, NEW i \in Rows(o), NEW w, SetHelper(o, i, w),
         mem' = mem, state_' = state_
  PROVE  \/ Associates(o, i, w) /\ Associated(o, i, w) = w
         \/ helper_[o][i] # Null /\ Quiet /\ Associated(o, i, w) = helper_[o][i]
  <1>1. helper_' = [helper_ EXCEPT ![o][i] = Associated(o, i, w)]
    BY DEF SetHelper
  <1>2. CASE helper_[o][i] = Null
    BY <1>1, <1>2 DEF Associates, Associated
  <1>3. CASE helper_[o][i] # Null
    <2>1. Associated(o, i, w) = helper_[o][i]
      BY <1>3 DEF Associated
    <2>2. i \in 1 .. MaxRows
      BY RowTyped
    <2>3. helper_ \in [Ops -> [1 .. MaxRows -> Helpers \cup {Null, FAIL_CONST}]]
      BY DEF Types
    <2>4. helper_' = helper_
      BY <1>1, <2>1, <2>2, <2>3
    <2> QED
      BY <1>3, <2>1, <2>4 DEF Quiet
  <1> QED
    BY <1>2, <1>3

LEMMA CasIs ==
  ASSUME Types, NEW a \in Addrs, NEW old, NEW new, Cas(a, old, new), helper_' = helper_, state_' = state_
  PROVE  (mem[a] = old /\ Swaps(a, new)) \/ (mem[a] # old /\ Quiet)
  <1>1. mem[a] = old => mem' = [mem EXCEPT ![a] = new]
    BY DEF Cas
  <1>2. mem[a] # old => mem' = mem
    BY DEF Cas
  <1> QED
    BY <1>1, <1>2 DEF Swaps, Quiet

LEMMA DecideIs ==
  ASSUME Types, NEW o \in Ops, NEW s, Decide(o, s), mem' = mem, helper_' = helper_
  PROVE  Decides(o, s) \/ (~InProgress(o) /\ Quiet)
  <1> DEFINE w == IF state_[o] = "IN_PROGRESS" THEN s ELSE state_[o]
  <1>1. state_' = [state_ EXCEPT ![o] = w]
    BY DEF Decide
  <1>2. CASE InProgress(o)
    BY <1>1, <1>2 DEF Decides, InProgress
  <1>3. CASE ~InProgress(o)
    <2>1. w = state_[o]
      BY <1>3 DEF InProgress
    <2>2. DOMAIN state_ = Ops /\ state_ = [p \in Ops |-> state_[p]]
      BY DEF Types
    <2>3. state_' = state_
      BY <1>1, <2>1, <2>2
    <2> QED
      BY <1>3, <2>3 DEF Quiet
  <1> QED
    BY <1>2, <1>3

LEMMA LoadStep ==
  ASSUME Control, NEW t \in Threads, Load(t)
  PROVE  \E f, g : 
           /\ Here(t, f) /\ f.at \in {"load", "reload"} /\ g \in Frames
           /\ \/ f.op # Null /\ Becomes(t, g, f.op, f.row, "row", f.wf, mem[Address(f)], f.res)
              \/ /\ f.op = Null /\ mem[Address(f)] \in Helpers
                 /\ Becomes(t, g, f.op, f.row, "watch", f.wf, mem[Address(f)], f.res)
              \/ /\ f.op = Null /\ mem[Address(f)] \in Values
                 /\ Becomes(t, g, f.op, f.row, "done", f.wf, mem[Address(f)], f.res)
           /\ Quiet
  <1>0. stack[t] # <<>> /\ Types
    BY DEF Load, At, Control
  <1>1. PICK f : Here(t, f)
    BY <1>0, HereIs
  <1>2. f = Top(t) /\ f \in Frames /\ f.at \in {"load", "reload"} /\ Address(f) \in Addrs
    BY <1>1 DEF Here, Stands, Sound, Load, At
  <1> DEFINE w == mem[Address(f)]
             l == IF f.op # Null THEN "row" ELSE IF IsDescriptor(w) THEN "watch" ELSE "done"
             g == [f EXCEPT !.val = w, !.at = l]
  <1>3. w \in Words /\ w \in Words \cup {Null}
    BY <1>0, <1>2 DEF Types
  <1>4. l \in Labels
    BY DEF Labels
  <1>5. g \in Frames /\ Fields(g, f.op, f.row, l, f.wf, w, f.res)
    BY <1>2, <1>3, <1>4, FrameValAt
  <1>6. Become(t, g) /\ Quiet
    BY <1>2 DEF Load, Quiet
  <1>7. Cut(t, Len(stack[t]), g)
    <2> HIDE DEF g
    <2> QED
      BY <1>0, <1>5, <1>6, BecomeCuts
  <1>8. IsDescriptor(w) <=> w \in Helpers
    BY <1>3, WordIs
  <1>9. ~IsDescriptor(w) => w \in Values
    BY <1>3, WordIs
  <1> HIDE DEF g, w
  <1> QED
    BY <1>1, <1>2, <1>5, <1>6, <1>7, <1>8, <1>9 DEF Becomes, w

LEMMA SeeHelperStep ==
  ASSUME Control, NEW t \in Threads, SeeHelper(t)
  PROVE  \E f :
           /\ Here(t, f) /\ f.at = "row" /\ f.op # Null
           /\ \/ helper_[f.op][f.row] = Null /\ Turns(t, f, "state")
              \/ helper_[f.op][f.row] = FAIL_CONST /\ Turns(t, f, "fail")
              \/ Settled(f.op, f.row) /\ Passes(t, f)
           /\ Quiet
  <1>0. stack[t] # <<>> /\ Types /\ RowsSorted /\ Top(t).at = "row"
    BY DEF SeeHelper, At, Control
  <1>1. PICK f : Here(t, f)
    BY <1>0, HereIs
  <1>2. /\ f = Top(t) /\ f \in Frames /\ f.at = "row" /\ FrameShape(f) /\ Sound(f)
        /\ Stands(t, f) /\ Address(f) \in Addrs
    BY <1>0, <1>1 DEF Here, Stands, Sound
  <1>3. f.op # Null /\ f.op \in Ops /\ f.row \in Rows(f.op)
    BY <1>2 DEF FrameShape, Reading, Sound
  <1> DEFINE h == helper_[f.op][f.row]
  <1>4. /\ Quiet
        /\ IF h = Null THEN Goto(t, "state")
           ELSE IF h = FAIL_CONST THEN Goto(t, "fail") ELSE NextRow(t)
    BY <1>2 DEF SeeHelper, Quiet
  <1>5. "state" \in Labels /\ "fail" \in Labels
    BY DEF Labels
  <1> HIDE DEF h
  <1>6. h = Null => Turns(t, f, "state")
    BY <1>1, <1>4, <1>5, GotoTurns
  <1>7. h # Null /\ h = FAIL_CONST => Turns(t, f, "fail")
    BY <1>1, <1>4, <1>5, GotoTurns
  <1>8. h # Null /\ h # FAIL_CONST => Passes(t, f)
    BY <1>1, <1>3, <1>4, NextRowPasses
  <1> QED
    BY <1>1, <1>2, <1>3, <1>4, <1>6, <1>7, <1>8 DEF h, Settled

LEMMA SeeStateStep ==
  ASSUME Control, NEW t \in Threads, SeeState(t)
  PROVE  \E f :
           /\ Here(t, f) /\ f.at = "state" /\ f.op # Null
           /\ \/ ~InProgress(f.op) /\ Returned(t, state_[f.op] = "PASS") /\ op_table_' = op_table_
              \/ /\ Depth(t) = 0 /\ ~f.wf
                 /\ op_table_' = [op_table_ EXCEPT ![t] = f.op]
                 /\ \E g, c \in Frames :
                      /\ Grow(t, g, c)
                      /\ Fields(g, f.op, f.row, "announced", f.wf, f.val, f.res)
                      /\ Fields(c, f.op, 1, "load", TRUE, Null, FALSE)
              \/ Depth(t) # 0 /\ RecursiveReturn(t) /\ op_table_' = op_table_
              \/ /\ op_table_' = op_table_
                 /\ \/ f.val \in Helpers /\ Turns(t, f, "watch")
                    \/ f.val = Row(f.op, f.row).expected /\ Turns(t, f, "place")
                    \/ /\ f.val \in Values /\ f.val # Row(f.op, f.row).expected
                       /\ Turns(t, f, "mismatch")
           /\ Quiet
  <1>0. stack[t] # <<>> /\ Types /\ RowsSorted /\ Top(t).at = "state"
    BY DEF SeeState, At, Control
  <1>1. PICK f : Here(t, f)
    BY <1>0, HereIs
  <1>2. /\ f = Top(t) /\ f \in Frames /\ f.at = "state" /\ FrameShape(f) /\ Sound(f)
        /\ Stands(t, f) /\ Address(f) \in Addrs
    BY <1>0, <1>1 DEF Here, Stands, Sound
  <1>3. f.op # Null /\ f.op \in Ops /\ f.row \in Rows(f.op)
    BY <1>2 DEF FrameShape, Reading, Sound
  <1> DEFINE delayed == ~f.wf /\ f.left = 0
             count == IF f.wf \/ f.left < 0 THEN f.left ELSE f.left - 1
             l == IF IsDescriptor(f.val) THEN "watch"
                  ELSE IF f.val = Row(f.op, f.row).expected THEN "place" ELSE "mismatch"
             g == [f EXCEPT !.left = count, !.at = l]
  <1>4. /\ Quiet
        /\ \/ ~InProgress(f.op) /\ Returned(t, state_[f.op] = "PASS") /\ op_table_' = op_table_
           \/ /\ Depth(t) = 0 /\ ~f.wf /\ op_table_' = [op_table_ EXCEPT ![t] = f.op]
              /\ Push(t, "announced", Frame(f.op, 1, TRUE))
           \/ Depth(t) # 0 /\ RecursiveReturn(t) /\ op_table_' = op_table_
           \/ Become(t, g) /\ op_table_' = op_table_
    BY <1>2 DEF SeeState, Quiet
  <1>5. ASSUME Push(t, "announced", Frame(f.op, 1, TRUE))
        PROVE  \E d, c \in Frames :
                 /\ Grow(t, d, c)
                 /\ Fields(d, f.op, f.row, "announced", f.wf, f.val, f.res)
                 /\ Fields(c, f.op, 1, "load", TRUE, Null, FALSE)
    <2> DEFINE c == Frame(f.op, 1, TRUE)
    <2>1. f.op \in Ops \cup {Null} /\ 1 \in Int /\ TRUE \in BOOLEAN /\ "announced" \in Labels
      BY <1>3 DEF Labels
    <2>2. c \in Frames /\ Fields(c, f.op, 1, "load", TRUE, Null, FALSE)
      BY <2>1, FreshFrame
    <2>3. Push(t, "announced", c)
      BY <1>5
    <2> HIDE DEF c
    <2> QED
      BY <1>0, <1>2, <2>1, <2>2, <2>3, PushGrows
  <1>6. f.val \in Words /\ f.left \in Int /\ f.wf \in BOOLEAN
    BY <1>2 DEF FrameShape, Sound
  <1>7. ASSUME Become(t, g)
        PROVE  \/ f.val \in Helpers /\ Turns(t, f, "watch")
               \/ f.val = Row(f.op, f.row).expected /\ Turns(t, f, "place")
               \/ /\ f.val \in Values /\ f.val # Row(f.op, f.row).expected
                  /\ Turns(t, f, "mismatch")
    <2>1. count \in Int /\ l \in Labels
      BY <1>6 DEF Labels
    <2> HIDE DEF count, l
    <2>2. g \in Frames /\ Fields(g, f.op, f.row, l, f.wf, f.val, f.res)
      BY <1>2, <2>1, FrameLeftAt
    <2> HIDE DEF g
    <2>3. Cut(t, Len(stack[t]), g)
      BY <1>0, <1>7, <2>2, BecomeCuts
    <2>4. Turns(t, f, l)
      BY <2>2, <2>3 DEF Turns, Becomes
    <2>5. IsDescriptor(f.val) <=> f.val \in Helpers
      BY <1>6, WordIs
    <2>6. ~IsDescriptor(f.val) => f.val \in Values
      BY <1>6, WordIs
    <2> QED
      BY <2>4, <2>5, <2>6 DEF l
  <1> HIDE DEF g
  <1> QED
    BY <1>1, <1>2, <1>3, <1>4, <1>5, <1>7

LEMMA MismatchStep ==
  ASSUME Control, NEW t \in Threads, Mismatch(t)
  PROVE  \E f :
           /\ Here(t, f) /\ f.at = "mismatch" /\ f.op # Null
           /\ \/ Associates(f.op, f.row, FAIL_CONST) /\ Turns(t, f, "fail")
              \/ Quiet /\ helper_[f.op][f.row] = FAIL_CONST /\ Turns(t, f, "fail")
              \/ Quiet /\ Settled(f.op, f.row) /\ Turns(t, f, "row")
  <1>0. stack[t] # <<>> /\ Types /\ RowsSorted /\ Top(t).at = "mismatch"
    BY DEF Mismatch, At, Control
  <1>1. PICK f : Here(t, f)
    BY <1>0, HereIs
  <1>2. /\ f = Top(t) /\ f \in Frames /\ f.at = "mismatch" /\ FrameShape(f) /\ Sound(f)
        /\ Stands(t, f) /\ Address(f) \in Addrs
    BY <1>0, <1>1 DEF Here, Stands, Sound
  <1>3. f.op # Null /\ f.op \in Ops /\ f.row \in Rows(f.op)
    BY <1>2 DEF FrameShape, Reading, Sound
  <1> DEFINE h == Associated(f.op, f.row, FAIL_CONST)
  <1>4. /\ SetHelper(f.op, f.row, FAIL_CONST) /\ mem' = mem /\ state_' = state_
        /\ Goto(t, IF h = FAIL_CONST THEN "fail" ELSE "row")
    BY <1>2 DEF Mismatch
  <1>5. \/ Associates(f.op, f.row, FAIL_CONST) /\ h = FAIL_CONST
        \/ helper_[f.op][f.row] # Null /\ Quiet /\ h = helper_[f.op][f.row]
    BY <1>0, <1>3, <1>4, SetHelperIs
  <1>6. "fail" \in Labels /\ "row" \in Labels
    BY DEF Labels
  <1> HIDE DEF h
  <1>7. h = FAIL_CONST => Turns(t, f, "fail")
    BY <1>1, <1>4, <1>6, GotoTurns
  <1>8. h # FAIL_CONST => Turns(t, f, "row")
    BY <1>1, <1>4, <1>6, GotoTurns
  <1> QED
    BY <1>1, <1>2, <1>3, <1>5, <1>7, <1>8 DEF Settled

LEMMA PlaceStep ==
  ASSUME Control, NEW t \in Threads, Place(t)
  PROVE  \E f :
           /\ Here(t, f) /\ f.at = "place" /\ f.op # Null
           /\ \E g \in Frames :
                \/ /\ mem[Address(f)] = f.val
                   /\ Swaps(Address(f), Helper(f.op, f.row, t))
                   /\ Becomes(t, g, f.op, f.row, "associate", f.wf, f.val, f.res)
                \/ /\ mem[Address(f)] # f.val /\ Quiet
                   /\ Becomes(t, g, f.op, f.row, "row", f.wf, mem[Address(f)], f.res)
  <1>0. stack[t] # <<>> /\ Types /\ RowsSorted /\ Top(t).at = "place"
    BY DEF Place, At, Control
  <1>1. PICK f : Here(t, f)
    BY <1>0, HereIs
  <1>2. /\ f = Top(t) /\ f \in Frames /\ f.at = "place" /\ FrameShape(f) /\ Sound(f)
        /\ Stands(t, f) /\ Address(f) \in Addrs
    BY <1>0, <1>1 DEF Here, Stands, Sound
  <1>3. f.op # Null /\ f.op \in Ops /\ f.row \in Rows(f.op)
    BY <1>2 DEF FrameShape, Reading, Sound
  <1> DEFINE w == mem[Address(f)]
             l == IF w = f.val THEN "associate" ELSE "row"
             g == [f EXCEPT !.val = w, !.at = l]
  <1>4. /\ Cas(Address(f), f.val, Helper(f.op, f.row, t))
        /\ Become(t, g) /\ helper_' = helper_ /\ state_' = state_
    BY <1>2 DEF Place
  <1>5. (w = f.val /\ Swaps(Address(f), Helper(f.op, f.row, t))) \/ (w # f.val /\ Quiet)
    BY <1>0, <1>2, <1>4, CasIs
  <1>6. w \in Words \cup {Null} /\ l \in Labels
    BY <1>0, <1>2 DEF Types, Labels
  <1> HIDE DEF l, w
  <1>7. g \in Frames /\ Fields(g, f.op, f.row, l, f.wf, w, f.res)
    BY <1>2, <1>6, FrameValAt
  <1> HIDE DEF g
  <1>8. Cut(t, Len(stack[t]), g)
    BY <1>0, <1>4, <1>7, BecomeCuts
  <1> QED
    BY <1>1, <1>2, <1>3, <1>5, <1>7, <1>8 DEF Becomes, l, w

LEMMA AssociateStep ==
  ASSUME Control, NEW t \in Threads, AssociateOwn(t)
  PROVE  \E f :
           /\ Here(t, f) /\ f.at = "associate" /\ f.op # Null
           /\ \/ Associates(f.op, f.row, Helper(f.op, f.row, t)) /\ Passes(t, f)
              \/ Quiet /\ helper_[f.op][f.row] = Helper(f.op, f.row, t) /\ Passes(t, f)
              \/ /\ Quiet /\ helper_[f.op][f.row] \notin {Null, Helper(f.op, f.row, t)}
                 /\ Turns(t, f, "undo")
  <1>0. stack[t] # <<>> /\ Types /\ RowsSorted /\ Top(t).at = "associate"
    BY DEF AssociateOwn, At, Control
  <1>1. PICK f : Here(t, f)
    BY <1>0, HereIs
  <1>2. /\ f = Top(t) /\ f \in Frames /\ f.at = "associate" /\ FrameShape(f) /\ Sound(f)
        /\ Stands(t, f) /\ Address(f) \in Addrs
    BY <1>0, <1>1 DEF Here, Stands, Sound
  <1>3. f.op # Null /\ f.op \in Ops /\ f.row \in Rows(f.op)
    BY <1>2 DEF FrameShape, Reading, Sound
  <1> DEFINE w == Helper(f.op, f.row, t)
             h == Associated(f.op, f.row, w)
  <1>4. /\ SetHelper(f.op, f.row, w) /\ mem' = mem /\ state_' = state_
        /\ IF h = w THEN NextRow(t) ELSE Goto(t, "undo")
    BY <1>2 DEF AssociateOwn
  <1> HIDE DEF w
  <1>5. \/ Associates(f.op, f.row, w) /\ h = w
        \/ helper_[f.op][f.row] # Null /\ Quiet /\ h = helper_[f.op][f.row]
    BY <1>0, <1>3, <1>4, SetHelperIs
  <1>6. "undo" \in Labels
    BY DEF Labels
  <1> HIDE DEF h
  <1>7. h = w => Passes(t, f)
    BY <1>1, <1>3, <1>4, NextRowPasses
  <1>8. h # w => Turns(t, f, "undo")
    BY <1>1, <1>4, <1>6, GotoTurns
  <1> QED
    BY <1>1, <1>2, <1>3, <1>5, <1>7, <1>8 DEF w

LEMMA UndoStep ==
  ASSUME Control, NEW t \in Threads, Undo(t)
  PROVE  \E f :
           /\ Here(t, f) /\ f.at = "undo" /\ f.op # Null
           /\ \/ /\ mem[Address(f)] = Helper(f.op, f.row, t)
                 /\ Swaps(Address(f), Row(f.op, f.row).expected)
              \/ Quiet
           /\ \/ helper_[f.op][f.row] = FAIL_CONST /\ Turns(t, f, "fail")
              \/ helper_[f.op][f.row] # FAIL_CONST /\ Turns(t, f, "over")
  <1>0. stack[t] # <<>> /\ Types /\ RowsSorted /\ Top(t).at = "undo"
    BY DEF Undo, At, Control
  <1>1. PICK f : Here(t, f)
    BY <1>0, HereIs
  <1>2. /\ f = Top(t) /\ f \in Frames /\ f.at = "undo" /\ FrameShape(f) /\ Sound(f)
        /\ Stands(t, f) /\ Address(f) \in Addrs
    BY <1>0, <1>1 DEF Here, Stands, Sound
  <1>3. f.op # Null /\ f.op \in Ops /\ f.row \in Rows(f.op)
    BY <1>2 DEF FrameShape, Reading, Sound
  <1> DEFINE w == Helper(f.op, f.row, t)
             e == Row(f.op, f.row).expected
             h == helper_[f.op][f.row]
  <1>4. /\ Cas(Address(f), w, e) /\ helper_' = helper_ /\ state_' = state_
        /\ Goto(t, IF h = FAIL_CONST THEN "fail" ELSE "over")
    BY <1>2 DEF Undo
  <1> HIDE DEF w, e, h
  <1>5. (mem[Address(f)] = w /\ Swaps(Address(f), e)) \/ Quiet
    BY <1>0, <1>2, <1>4, CasIs
  <1>6. "fail" \in Labels /\ "over" \in Labels
    BY DEF Labels
  <1>7. h = FAIL_CONST => Turns(t, f, "fail")
    BY <1>1, <1>4, <1>6, GotoTurns
  <1>8. h # FAIL_CONST => Turns(t, f, "over")
    BY <1>1, <1>4, <1>6, GotoTurns
  <1> QED
    BY <1>1, <1>2, <1>3, <1>5, <1>7, <1>8 DEF w, e, h

LEMMA OverStep ==
  ASSUME Control, NEW t \in Threads, Over(t)
  PROVE  \E f :
           /\ Here(t, f) /\ f.at = "over" /\ f.op # Null
           /\ Returned(t, state_[f.op] = "PASS") /\ Quiet
  <1>0. stack[t] # <<>> /\ Types /\ RowsSorted /\ Top(t).at = "over"
    BY DEF Over, At, Control
  <1>1. PICK f : Here(t, f)
    BY <1>0, HereIs
  <1>2. /\ f = Top(t) /\ f \in Frames /\ f.at = "over" /\ FrameShape(f) /\ Sound(f)
        /\ Stands(t, f) /\ Address(f) \in Addrs
    BY <1>0, <1>1 DEF Here, Stands, Sound
  <1>3. f.op # Null /\ f.op \in Ops /\ f.row \in Rows(f.op)
    BY <1>2 DEF FrameShape, Reading, Sound
  <1> QED
    BY <1>1, <1>2, <1>3 DEF Over, Quiet

LEMMA SetFailStep ==
  ASSUME Control, NEW t \in Threads, SetFail(t)
  PROVE  \E f :
           /\ Here(t, f) /\ f.at = "fail" /\ f.op # Null
           /\ Decides(f.op, "FAIL") \/ (~InProgress(f.op) /\ Quiet)
           /\ Returned(t, FALSE)
  <1>0. stack[t] # <<>> /\ Types /\ RowsSorted /\ Top(t).at = "fail"
    BY DEF SetFail, At, Control
  <1>1. PICK f : Here(t, f)
    BY <1>0, HereIs
  <1>2. /\ f = Top(t) /\ f \in Frames /\ f.at = "fail" /\ FrameShape(f) /\ Sound(f)
        /\ Stands(t, f) /\ Address(f) \in Addrs
    BY <1>0, <1>1 DEF Here, Stands, Sound
  <1>3. f.op # Null /\ f.op \in Ops /\ f.row \in Rows(f.op)
    BY <1>2 DEF FrameShape, Reading, Sound
  <1>4. Decide(f.op, "FAIL") /\ Returned(t, FALSE) /\ mem' = mem /\ helper_' = helper_
    BY <1>2 DEF SetFail
  <1>5. Decides(f.op, "FAIL") \/ (~InProgress(f.op) /\ Quiet)
    BY <1>0, <1>3, <1>4, DecideIs
  <1> QED
    BY <1>1, <1>2, <1>3, <1>4, <1>5

LEMMA SetPassStep ==
  ASSUME Control, NEW t \in Threads, SetPass(t)
  PROVE  \E f :
           /\ Here(t, f) /\ f.at = "pass" /\ f.op # Null
           /\ Decides(f.op, "PASS") \/ (~InProgress(f.op) /\ Quiet)
           /\ Returned(t, state_[f.op] \in {"IN_PROGRESS", "PASS"})
  <1>0. stack[t] # <<>> /\ Types /\ RowsSorted /\ Top(t).at = "pass"
    BY DEF SetPass, At, Control
  <1>1. PICK f : Here(t, f)
    BY <1>0, HereIs
  <1>2. /\ f = Top(t) /\ f \in Frames /\ f.at = "pass" /\ FrameShape(f) /\ Sound(f)
        /\ Stands(t, f) /\ Address(f) \in Addrs
    BY <1>0, <1>1 DEF Here, Stands, Sound
  <1>3. f.op # Null /\ f.op \in Ops /\ f.row \in Rows(f.op)
    BY <1>2 DEF FrameShape, Reading, Sound
  <1>4. /\ Decide(f.op, "PASS") /\ mem' = mem /\ helper_' = helper_
        /\ Returned(t, state_[f.op] \in {"IN_PROGRESS", "PASS"})
    BY <1>2 DEF SetPass
  <1>5. Decides(f.op, "PASS") \/ (~InProgress(f.op) /\ Quiet)
    BY <1>0, <1>3, <1>4, DecideIs
  <1> QED
    BY <1>1, <1>2, <1>3, <1>4, <1>5

LEMMA WithdrawStep ==
  ASSUME Control, NEW t \in Threads, Withdraw(t)
  PROVE  \E f :
           /\ Here(t, f) /\ f.at = "withdraw" /\ f.op # Null
           /\ Turns(t, f, "over") /\ Quiet
           /\ op_table_' = [op_table_ EXCEPT ![t] = Null]
  <1>0. stack[t] # <<>> /\ Types /\ RowsSorted /\ Top(t).at = "withdraw"
    BY DEF Withdraw, At, Control
  <1>1. PICK f : Here(t, f)
    BY <1>0, HereIs
  <1>2. /\ f = Top(t) /\ f \in Frames /\ f.at = "withdraw" /\ FrameShape(f) /\ Sound(f)
        /\ Stands(t, f) /\ Address(f) \in Addrs
    BY <1>0, <1>1 DEF Here, Stands, Sound
  <1>3. f.op # Null /\ f.op \in Ops /\ f.row \in Rows(f.op)
    BY <1>2 DEF FrameShape, Reading, Sound
  <1>4. Goto(t, "over") /\ "over" \in Labels
    BY DEF Withdraw, Labels
  <1>5. Turns(t, f, "over")
    BY <1>1, <1>4, GotoTurns
  <1> QED
    BY <1>1, <1>2, <1>3, <1>5 DEF Withdraw, Quiet

LEMMA WatchStep ==
  ASSUME Control, NEW t \in Threads, Watch(t)
  PROVE  \E f :
           /\ Here(t, f) /\ f.at = "watch"
           /\ \/ mem[Address(f)] = f.val /\ Turns(t, f, "on_watch")
              \/ Turns(t, f, "reload")
           /\ Quiet
  <1>0. stack[t] # <<>> /\ Types /\ RowsSorted /\ Top(t).at = "watch"
    BY DEF Watch, At, Control
  <1>1. PICK f : Here(t, f)
    BY <1>0, HereIs
  <1>2. /\ f = Top(t) /\ f \in Frames /\ f.at = "watch" /\ FrameShape(f) /\ Sound(f)
        /\ Stands(t, f) /\ Address(f) \in Addrs
    BY <1>0, <1>1 DEF Here, Stands, Sound
  <1>4. Goto(t, IF mem[Address(f)] = f.val THEN "on_watch" ELSE "reload") /\ Quiet
    BY <1>2 DEF Watch, Quiet
  <1>5. "on_watch" \in Labels /\ "reload" \in Labels
    BY DEF Labels
  <1>6. mem[Address(f)] = f.val => Turns(t, f, "on_watch")
    BY <1>1, <1>4, <1>5, GotoTurns
  <1>7. mem[Address(f)] # f.val => Turns(t, f, "reload")
    BY <1>1, <1>4, <1>5, GotoTurns
  <1> QED
    BY <1>1, <1>2, <1>4, <1>6, <1>7

LEMMA OnWatchStep ==
  ASSUME Control, NEW t \in Threads, OnWatch(t)
  PROVE  \E f :
           /\ Here(t, f) /\ f.at = "on_watch"
           /\ \/ Associates(f.val.op, f.val.row, f.val)
              \/ Quiet /\ helper_[f.val.op][f.val.row] # Null
           /\ \/ helper_'[f.val.op][f.val.row] # f.val /\ Turns(t, f, "restore")
              \/ /\ helper_'[f.val.op][f.val.row] = f.val
                 /\ Turns(t, f, IF f.op = Null THEN "value" ELSE "own_row")
  <1>0. stack[t] # <<>> /\ Types /\ RowsSorted /\ Top(t).at = "on_watch"
    BY DEF OnWatch, At, Control
  <1>1. PICK f : Here(t, f)
    BY <1>0, HereIs
  <1>2. /\ f = Top(t) /\ f \in Frames /\ f.at = "on_watch" /\ FrameShape(f) /\ Sound(f)
        /\ Stands(t, f) /\ Address(f) \in Addrs
    BY <1>0, <1>1 DEF Here, Stands, Sound
  <1>3. f.val \in Helpers /\ f.val.row \in Rows(f.val.op) /\ Row(f.val.op, f.val.row).address = Address(f)
    BY <1>2 DEF FrameShape, WordAt, Meeting
  <1>h. f.val.op \in Ops
    BY <1>3 DEF Helpers
  <1> DEFINE h == f.val
             found == Associated(h.op, h.row, h)
             l == IF f.op = Null THEN "value" ELSE "own_row"
  <1>4. /\ SetHelper(h.op, h.row, h) /\ mem' = mem /\ state_' = state_
        /\ Goto(t, IF found # h THEN "restore" ELSE l)
    BY <1>2 DEF OnWatch
  <1>5. \/ Associates(h.op, h.row, h) /\ found = h
        \/ helper_[h.op][h.row] # Null /\ Quiet /\ found = helper_[h.op][h.row]
    BY <1>0, <1>3, <1>h, <1>4, SetHelperIs
  <1>6. helper_'[h.op][h.row] = found
    <2>1. h.row \in 1 .. MaxRows
      BY <1>0, <1>3, <1>h, RowTyped
    <2>2. helper_ \in [Ops -> [1 .. MaxRows -> Helpers \cup {Null, FAIL_CONST}]]
      BY <1>0 DEF Types
    <2>3. CASE Associates(h.op, h.row, h) /\ found = h
      <3>1. helper_' = [helper_ EXCEPT ![h.op][h.row] = h]
        BY <2>3 DEF Associates
      <3> QED
        BY <1>h, <2>1, <2>2, <2>3, <3>1
    <2>4. CASE Quiet /\ found = helper_[h.op][h.row]
      BY <2>4 DEF Quiet
    <2> QED
      BY <1>5, <2>3, <2>4
  <1>7. "restore" \in Labels /\ l \in Labels
    BY DEF Labels
  <1> HIDE DEF found, l
  <1>8. found # h => Turns(t, f, "restore")
    BY <1>1, <1>4, <1>7, GotoTurns
  <1>9. found = h => Turns(t, f, l)
    BY <1>1, <1>4, <1>7, GotoTurns
  <1> QED
    BY <1>1, <1>2, <1>5, <1>6, <1>8, <1>9 DEF l

LEMMA RestoreStep ==
  ASSUME Control, NEW t \in Threads, Restore(t)
  PROVE  \E f :
           /\ Here(t, f) /\ f.at = "restore"
           /\ \/ /\ mem[Address(f)] = f.val
                 /\ Swaps(Address(f), Row(f.val.op, f.val.row).expected)
              \/ Quiet
           /\ Turns(t, f, "reload")
  <1>0. stack[t] # <<>> /\ Types /\ RowsSorted /\ Top(t).at = "restore"
    BY DEF Restore, At, Control
  <1>1. PICK f : Here(t, f)
    BY <1>0, HereIs
  <1>2. /\ f = Top(t) /\ f \in Frames /\ f.at = "restore" /\ FrameShape(f) /\ Sound(f)
        /\ Stands(t, f) /\ Address(f) \in Addrs
    BY <1>0, <1>1 DEF Here, Stands, Sound
  <1>4. Goto(t, "reload") /\ "reload" \in Labels
    BY DEF Restore, Labels
  <1>5. Turns(t, f, "reload")
    BY <1>1, <1>4, GotoTurns
  <1>6. Cas(Address(f), f.val, Row(f.val.op, f.val.row).expected) /\ helper_' = helper_ /\ state_' = state_
    BY <1>2 DEF Restore
  <1>7. \/ mem[Address(f)] = f.val /\ Swaps(Address(f), Row(f.val.op, f.val.row).expected)
        \/ Quiet
    BY <1>0, <1>2, <1>6, CasIs
  <1> QED
    BY <1>1, <1>2, <1>5, <1>7

LEMMA OwnRowStep ==
  ASSUME Control, NEW t \in Threads, OwnRow(t)
  PROVE  \E f :
           /\ Here(t, f) /\ f.at = "own_row" /\ f.op # Null
           /\ \/ helper_[f.op][f.row] # Null /\ Turns(t, f, "row")
              \/ Depth(t) # 0 /\ RecursiveReturn(t)
              \/ helper_[f.op][f.row] = Null /\ Turns(t, f, "remove")
           /\ Quiet
  <1>0. stack[t] # <<>> /\ Types /\ RowsSorted /\ Top(t).at = "own_row"
    BY DEF OwnRow, At, Control
  <1>1. PICK f : Here(t, f)
    BY <1>0, HereIs
  <1>2. /\ f = Top(t) /\ f \in Frames /\ f.at = "own_row" /\ FrameShape(f) /\ Sound(f)
        /\ Stands(t, f) /\ Address(f) \in Addrs
    BY <1>0, <1>1 DEF Here, Stands, Sound
  <1>3. f.op # Null /\ f.op \in Ops /\ f.row \in Rows(f.op)
    BY <1>2 DEF FrameShape, Reading, Sound
  <1>4. /\ Quiet
        /\ IF helper_[f.op][f.row] # Null THEN Goto(t, "row")
           ELSE IF Depth(t) > Cardinality(Threads) + 1 THEN RecursiveReturn(t)
           ELSE Goto(t, "remove")
    BY <1>2 DEF OwnRow, Quiet
  <1>5. "row" \in Labels /\ "remove" \in Labels
    BY DEF Labels
  <1>6. Goto(t, "row") => Turns(t, f, "row")
    BY <1>1, <1>5, GotoTurns
  <1>7. Goto(t, "remove") => Turns(t, f, "remove")
    BY <1>1, <1>5, GotoTurns
  <1>8. Depth(t) > Cardinality(Threads) + 1 => Depth(t) # 0
    <2>1. Cardinality(Threads) \in Nat
      BY ThreadsAssumption, FS_CardinalityType
    <2> QED
      BY <2>1
  <1> QED
    BY <1>1, <1>2, <1>3, <1>4, <1>6, <1>7, <1>8

LEMMA RemoveStep ==
  ASSUME Control, NEW t \in Threads, RemoveDescriptor(t)
  PROVE  \E f :
           /\ Here(t, f) /\ f.at = "remove" /\ f.op # Null
           /\ \/ Turns(t, f, "reload")
              \/ \E g, c \in Frames :
                   /\ Grow(t, g, c)
                   /\ Fields(g, f.op, f.row, "helping", f.wf, f.val, f.res)
                   /\ Fields(c, f.val.op, f.val.row, "load", FALSE, Null, FALSE)
           /\ Quiet
  <1>0. stack[t] # <<>> /\ Types /\ RowsSorted /\ Top(t).at = "remove"
    BY DEF RemoveDescriptor, At, Control
  <1>1. PICK f : Here(t, f)
    BY <1>0, HereIs
  <1>2. /\ f = Top(t) /\ f \in Frames /\ f.at = "remove" /\ FrameShape(f) /\ Sound(f)
        /\ Stands(t, f) /\ Address(f) \in Addrs
    BY <1>0, <1>1 DEF Here, Stands, Sound
  <1>3. f.op # Null /\ f.op \in Ops /\ f.row \in Rows(f.op)
    BY <1>2 DEF FrameShape, Reading, Sound
  <1>v. f.val \in Helpers /\ f.val.row \in Rows(f.val.op)
    BY <1>2 DEF FrameShape, WordAt, Meeting
  <1>h. f.val.op \in Ops
    BY <1>v DEF Helpers
  <1> DEFINE c == Frame(f.val.op, f.val.row, FALSE)
  <1>4. /\ Quiet
        /\ Push(t, "helping", c) \/ Goto(t, "reload")
    BY <1>2 DEF RemoveDescriptor, Quiet
  <1>5. "helping" \in Labels /\ "reload" \in Labels
    BY DEF Labels
  <1>6. f.val.op \in Ops \cup {Null} /\ f.val.row \in Int /\ FALSE \in BOOLEAN
    BY <1>0, <1>v, <1>h, RowTyped
  <1>7. c \in Frames /\ Fields(c, f.val.op, f.val.row, "load", FALSE, Null, FALSE)
    BY <1>6, FreshFrame
  <1> HIDE DEF c
  <1>8. Push(t, "helping", c) => \E g \in Frames : /\ Grow(t, g, c)
                             /\ Fields(g, f.op, f.row, "helping", f.wf, f.val, f.res)
    BY <1>0, <1>2, <1>5, <1>7, PushGrows
  <1>9. Goto(t, "reload") => Turns(t, f, "reload")
    BY <1>1, <1>5, GotoTurns
  <1> QED
    BY <1>1, <1>2, <1>3, <1>4, <1>7, <1>8, <1>9

LEMMA UninstallStep ==
  ASSUME Control, NEW t \in Threads, Uninstall(t)
  PROVE  \E f :
           /\ Here(t, f) /\ f.at = "uninstall"
           /\ \/ /\ mem[Address(f)] = f.val
                 /\ Swaps(Address(f), Installed(f.val.op, f.val.row, f.res))
              \/ Quiet
           /\ Turns(t, f, "reload")
  <1>0. stack[t] # <<>> /\ Types /\ RowsSorted /\ Top(t).at = "uninstall"
    BY DEF Uninstall, At, Control
  <1>1. PICK f : Here(t, f)
    BY <1>0, HereIs
  <1>2. /\ f = Top(t) /\ f \in Frames /\ f.at = "uninstall" /\ FrameShape(f) /\ Sound(f)
        /\ Stands(t, f) /\ Address(f) \in Addrs
    BY <1>0, <1>1 DEF Here, Stands, Sound
  <1>4. Goto(t, "reload") /\ "reload" \in Labels
    BY DEF Uninstall, Labels
  <1>5. Turns(t, f, "reload")
    BY <1>1, <1>4, GotoTurns
  <1>6. /\ Cas(Address(f), f.val, Installed(f.val.op, f.val.row, f.res))
        /\ helper_' = helper_ /\ state_' = state_
    BY <1>2 DEF Uninstall, Installed
  <1>7. \/ mem[Address(f)] = f.val /\ Swaps(Address(f), Installed(f.val.op, f.val.row, f.res))
        \/ Quiet
    BY <1>0, <1>2, <1>6, CasIs
  <1> QED
    BY <1>1, <1>2, <1>5, <1>7

LEMMA CleanupStep ==
  ASSUME Control, NEW t \in Threads, Cleanup(t)
  PROVE  \E f :
           /\ Here(t, f) /\ f.at = "cleanup" /\ f.op # Null
           /\ \/ helper_[f.op][f.row] = FAIL_CONST /\ Turns(t, f, "done") /\ Quiet
              \/ /\ helper_[f.op][f.row] # FAIL_CONST
                 /\ \/ /\ mem[Address(f)] = helper_[f.op][f.row]
                       /\ Swaps(Address(f), Installed(f.op, f.row, f.res))
                    \/ mem[Address(f)] # helper_[f.op][f.row] /\ Quiet
                 /\ \E g \in Frames :
                      \/ /\ f.row = RowCount(f.op)
                         /\ Becomes(t, g, f.op, f.row, "done", f.wf, f.val, f.res)
                      \/ /\ f.row < RowCount(f.op)
                         /\ Becomes(t, g, f.op, f.row + 1, "cleanup", f.wf, f.val, f.res)
  <1>0. stack[t] # <<>> /\ Types /\ RowsSorted /\ Top(t).at = "cleanup"
    BY DEF Cleanup, At, Control
  <1>1. PICK f : Here(t, f)
    BY <1>0, HereIs
  <1>2. /\ f = Top(t) /\ f \in Frames /\ f.at = "cleanup" /\ FrameShape(f) /\ Sound(f)
        /\ Stands(t, f) /\ Address(f) \in Addrs
    BY <1>0, <1>1 DEF Here, Stands, Sound
  <1>3. f.op # Null /\ f.op \in Ops /\ f.row \in Rows(f.op)
    BY <1>2 DEF FrameShape, Reading, Sound
  <1> DEFINE h == helper_[f.op][f.row]
             last == f.row = RowCount(f.op)
             e == Installed(f.op, f.row, f.res)
             l == IF last THEN "done" ELSE "cleanup"
             i == IF last THEN f.row ELSE f.row + 1
             g == [f EXCEPT !.at = l, !.row = i]
  <1>n. f.row \in Nat /\ RowCount(f.op) \in Nat /\ f.row <= RowCount(f.op)
    BY <1>0, <1>3, RowTyped DEF Rows
  <1>4. /\ IF h = FAIL_CONST
           THEN Goto(t, "done") /\ mem' = mem
           ELSE Cas(Address(f), h, e) /\ Become(t, g)
        /\ helper_' = helper_ /\ state_' = state_
    BY <1>2 DEF Cleanup
  <1>5. l \in Labels /\ i \in Int /\ "done" \in Labels
    BY <1>n DEF Labels
  <1> HIDE DEF l, i, h, e
  <1>6. g \in Frames /\ Fields(g, f.op, i, l, f.wf, f.val, f.res)
    BY <1>2, <1>5, FrameAtRow
  <1> HIDE DEF g
  <1>7. CASE h = FAIL_CONST
    <2>1. Turns(t, f, "done") /\ Quiet
      BY <1>1, <1>4, <1>5, <1>7, GotoTurns DEF Quiet
    <2> QED
      BY <1>1, <1>2, <1>3, <1>7, <2>1 DEF h
  <1>8. CASE h # FAIL_CONST
    <2>1. Cut(t, Len(stack[t]), g)
      BY <1>0, <1>4, <1>6, <1>8, BecomeCuts
    <2>2. (mem[Address(f)] = h /\ Swaps(Address(f), e)) \/ (mem[Address(f)] # h /\ Quiet)
      BY <1>0, <1>2, <1>4, <1>8, CasIs
    <2>3. \/ f.row = RowCount(f.op) /\ Becomes(t, g, f.op, f.row, "done", f.wf, f.val, f.res)
          \/ f.row < RowCount(f.op) /\ Becomes(t, g, f.op, f.row + 1, "cleanup", f.wf, f.val, f.res)
      BY <1>n, <1>6, <2>1 DEF Becomes, i, l
    <2> QED
      BY <1>1, <1>2, <1>3, <1>6, <1>8, <2>2, <2>3 DEF h, e
  <1> QED
    BY <1>7, <1>8

LEMMA ReadValueStep ==
  ASSUME Control, NEW t \in Threads, ReadValue(t)
  PROVE  \E f :
           /\ Here(t, f) /\ f.at = "value"
           /\ f.op = Null /\ f.val \in Helpers
           /\ \E g \in Frames :
                Becomes(t, g, f.op, f.row, "done", f.wf,
                        IF state_[f.val.op] = "PASS" THEN Row(f.val.op, f.val.row).new
                        ELSE Row(f.val.op, f.val.row).expected, f.res)
           /\ Quiet
  <1>0. stack[t] # <<>> /\ Types /\ RowsSorted /\ Top(t).at = "value"
    BY DEF ReadValue, At, Control
  <1>1. PICK f : Here(t, f)
    BY <1>0, HereIs
  <1>2. /\ f = Top(t) /\ f \in Frames /\ f.at = "value" /\ FrameShape(f) /\ Sound(f)
        /\ Stands(t, f) /\ Address(f) \in Addrs
    BY <1>0, <1>1 DEF Here, Stands, Sound
  <1>3. f.val \in Helpers /\ f.val.row \in Rows(f.val.op) /\ Row(f.val.op, f.val.row).address = Address(f)
    BY <1>2 DEF FrameShape, WordAt, Meeting
  <1>h. f.val.op \in Ops
    BY <1>3 DEF Helpers
  <1>n. f.op = Null
    BY <1>2 DEF FrameShape
  <1> DEFINE v == IF state_[f.val.op] = "PASS" THEN Row(f.val.op, f.val.row).new
                  ELSE Row(f.val.op, f.val.row).expected
             g == [f EXCEPT !.at = "done", !.val = v]
  <1>4. Become(t, g) /\ Quiet
    BY <1>2 DEF ReadValue, Quiet
  <1>5. v \in Words \cup {Null} /\ "done" \in Labels
    BY <1>0, <1>3, <1>h, RowTyped DEF Words, Labels
  <1> HIDE DEF v
  <1>6. g \in Frames /\ Fields(g, f.op, f.row, "done", f.wf, v, f.res)
    BY <1>2, <1>5, FrameAtVal
  <1> HIDE DEF g
  <1>7. Cut(t, Len(stack[t]), g)
    BY <1>0, <1>4, <1>6, BecomeCuts
  <1> QED
    BY <1>1, <1>2, <1>3, <1>n, <1>4, <1>6, <1>7 DEF Becomes, v


-----------------------------------------------------------------------------
(* What a step of thread t may do to memory, rows and outcomes: associate  *)
(* a row, decide an outcome, place a Helper, or give the value a Helper    *)
(* stands for back.                                                        *)

Effect(t) ==
  \/ Quiet
  \/ \E o \in Ops : \E i \in Rows(o) :
       /\ Associates(o, i, FAIL_CONST) /\ Prefix(o, i)
       /\ \E f : Here(t, f) /\ f.at = "mismatch" /\ f.op = o /\ f.row = i
  \/ \E o \in Ops : \E i \in Rows(o) : \E w \in Helpers :
       /\ Associates(o, i, w) /\ Prefix(o, i)
       /\ w.op = o /\ w.row = i /\ mem[Row(o, i).address] = w
  \/ \E o \in Ops : Decides(o, "FAIL") /\ \E i \in Rows(o) : helper_[o][i] = FAIL_CONST
  \/ \E o \in Ops : Decides(o, "PASS") /\ RowCount(o) > 0 /\ \A i \in Rows(o) : Settled(o, i)
  \/ \E o \in Ops : \E i \in Rows(o) :
       /\ Prefix(o, i) /\ helper_[o][i] # Helper(o, i, t)
       /\ mem[Row(o, i).address] = Row(o, i).expected
       /\ Swaps(Row(o, i).address, Helper(o, i, t))
  \/ \E a \in Addrs : \E h \in Helpers :
       /\ mem[a] = h /\ Held(h) # Null /\ (Held(h) = h => ~InProgress(h.op))
       /\ Swaps(a, LogicalOf(h))

\* What every other thread may rely on.
Keeps(t) ==
  /\ \A o \in Ops : \A i \in 1 .. MaxRows : helper_[o][i] # Null => helper_'[o][i] = helper_[o][i]
  /\ \A o \in Ops : \A i \in Rows(o) :
       helper_[o][i] = Null /\ helper_'[o][i] # Null =>
         /\ InProgress(o) /\ Prefix(o, i)
         /\ \/ helper_'[o][i] = FAIL_CONST
            \/ /\ helper_'[o][i] \in Helpers
               /\ helper_'[o][i].op = o /\ helper_'[o][i].row = i
               /\ mem[Row(o, i).address] = helper_'[o][i]
  /\ \A o \in Ops : ~InProgress(o) => state_'[o] = state_[o]
  /\ \A o \in Ops : state_'[o] # state_[o] =>
       \/ state_'[o] = "PASS" /\ RowCount(o) > 0 /\ \A i \in Rows(o) : Settled(o, i)
       \/ state_'[o] = "FAIL" /\ \E i \in Rows(o) : helper_[o][i] = FAIL_CONST
  /\ \A a \in Addrs : \A h \in Helpers :
       mem[a] = h /\ (Held(h) = Null \/ (Held(h) = h /\ InProgress(h.op))) => mem'[a] = h
  /\ \A a \in Addrs : \A h \in Helpers :
       mem'[a] = h /\ mem[a] # h =>
         /\ Held(h) # h /\ h.row \in Rows(h.op) /\ Row(h.op, h.row).address = a
         /\ Prefix(h.op, h.row) /\ h.by = t

LEMMA Unsettled ==
  ASSUME IInv, NEW o \in Ops, NEW i \in Rows(o), helper_[o][i] = Null, Prefix(o, i)
  PROVE  InProgress(o)
  <1> SUFFICES ASSUME ~InProgress(o) PROVE FALSE
    OBVIOUS
  <1>0. Types /\ RowsSorted /\ HelperPrefix /\ Outcomes
    BY DEF IInv, Control
  <1>1. RowCount(o) \in Nat /\ i \in Nat /\ i \in 1 .. RowCount(o)
    BY <1>0, RowTyped DEF Rows
  <1>2. state_[o] \in {"PASS", "FAIL"}
    BY <1>0 DEF Types, InProgress
  <1>3. CASE state_[o] = "PASS"
    BY <1>0, <1>3 DEF Outcomes, Settled
  <1>4. CASE state_[o] = "FAIL"
    <2>1. PICK k \in Rows(o) : helper_[o][k] = FAIL_CONST
      BY <1>0, <1>4 DEF Outcomes
    <2>2. k \in Nat /\ Null # FAIL_CONST
      BY <1>0, <2>1, RowTyped, WordsAssumption
    <2>3. Prefix(o, k)
      BY <1>0, <2>1, <2>2 DEF HelperPrefix
    <2>4. k < i \/ k = i \/ i < k
      BY <1>1, <2>2
    <2>5. ~(k < i)
      <3>1. k < i => k \in 1 .. (i - 1)
        BY <1>1, <2>1, <2>2 DEF Rows
      <3> QED
        BY <2>1, <3>1 DEF Prefix, Settled
    <2>6. ~(i < k)
      <3>1. i < k => i \in 1 .. (k - 1)
        BY <1>1, <2>2
      <3> QED
        BY <2>3, <3>1 DEF Prefix, Settled
    <2> QED
      BY <2>1, <2>2, <2>4, <2>5, <2>6
  <1> QED
    BY <1>2, <1>3, <1>4

LEMMA AssociatesKeeps ==
  ASSUME IInv, NEW t \in Threads, NEW o \in Ops, NEW i \in Rows(o), NEW w,
         Associates(o, i, w), Prefix(o, i),
         \/ w = FAIL_CONST
         \/ w \in Helpers /\ w.op = o /\ w.row = i /\ mem[Row(o, i).address] = w
  PROVE  Keeps(t)
  <1>0. Types /\ RowsSorted
    BY DEF IInv, Control
  <1>1. InProgress(o) /\ i \in 1 .. MaxRows
    BY <1>0, Unsettled, RowTyped DEF Associates
  <1>2. /\ helper_[o][i] = Null /\ mem' = mem /\ state_' = state_
        /\ helper_' = [helper_ EXCEPT ![o][i] = w]
    BY DEF Associates
  <1>3. /\ helper_'[o][i] = w
        /\ \A p \in Ops : \A j \in 1 .. MaxRows : p # o \/ j # i => helper_'[p][j] = helper_[p][j]
    <2>1. helper_ \in [Ops -> [1 .. MaxRows -> Helpers \cup {Null, FAIL_CONST}]]
      BY <1>0 DEF Types
    <2> QED
      BY <1>1, <1>2, <2>1
  <1>4. \A p \in Ops : \A j \in 1 .. MaxRows : helper_[p][j] # Null => helper_'[p][j] = helper_[p][j]
    BY <1>2, <1>3
  <1>5. \A p \in Ops : \A j \in Rows(p) : helper_[p][j] = Null /\ helper_'[p][j] # Null => p = o /\ j = i
    <2>1. \A p \in Ops : \A j \in Rows(p) : j \in 1 .. MaxRows
      BY <1>0, RowTyped
    <2> QED
      BY <1>3, <2>1
  <1> QED
    BY <1>1, <1>2, <1>3, <1>4, <1>5 DEF Keeps

LEMMA DecidesKeeps ==
  ASSUME IInv, NEW t \in Threads, NEW o \in Ops, NEW s, Decides(o, s),
         \/ s = "PASS" /\ RowCount(o) > 0 /\ \A i \in Rows(o) : Settled(o, i)
         \/ s = "FAIL" /\ \E i \in Rows(o) : helper_[o][i] = FAIL_CONST
  PROVE  Keeps(t)
  <1>1. InProgress(o) /\ mem' = mem /\ helper_' = helper_ /\ state_' = [state_ EXCEPT ![o] = s]
    BY DEF Decides
  <1>2. state_'[o] = s /\ \A p \in Ops : p # o => state_'[p] = state_[p]
    BY <1>1 DEF IInv, Control, Types
  <1> QED
    BY <1>1, <1>2 DEF Keeps, InProgress

LEMMA PlaceKeeps ==
  ASSUME IInv, NEW t \in Threads, NEW o \in Ops, NEW i \in Rows(o), Prefix(o, i),
         helper_[o][i] # Helper(o, i, t), mem[Row(o, i).address] = Row(o, i).expected,
         Swaps(Row(o, i).address, Helper(o, i, t))
  PROVE  Keeps(t)
  <1>0. Types /\ RowsSorted
    BY DEF IInv, Control
  <1> DEFINE a == Row(o, i).address
             w == Helper(o, i, t)
  <1>1. a \in Addrs /\ mem[a] \in Values
    BY <1>0, RowTyped
  <1>2. w \in Helpers /\ w.op = o /\ w.row = i /\ w.by = t
    BY <1>0, OwnHelper
  <1>3. mem' = [mem EXCEPT ![a] = w] /\ helper_' = helper_ /\ state_' = state_ /\ helper_[o][i] # w
    BY DEF Swaps
  <1> HIDE DEF w
  <1>4. mem'[a] = w /\ \A b \in Addrs : b # a => mem'[b] = mem[b]
    BY <1>0, <1>1, <1>3 DEF Types
  <1>5. \A b \in Addrs : \A h \in Helpers : mem[b] = h => b # a
    BY <1>1, WordsAssumption
  <1>6. \A b \in Addrs : \A h \in Helpers : mem'[b] = h /\ mem[b] # h => b = a /\ h = w
    BY <1>4
  <1>7. Held(w) # w
    BY <1>2, <1>3 DEF Held
  <1> HIDE DEF a
  <1> QED
    BY <1>2, <1>3, <1>4, <1>5, <1>6, <1>7 DEF Keeps, a

LEMMA LogicalValue ==
  ASSUME Control, NEW a \in Addrs
  PROVE  LogicalOf(mem[a]) \in Values
  <1>1. mem[a] \in Words /\ WordAt(mem[a], a) /\ Types /\ RowsSorted
    BY DEF Control, Types, MemRows
  <1>2. CASE mem[a] \in Values
    BY <1>1, <1>2, WordIs DEF LogicalOf
  <1>3. CASE mem[a] \in Helpers
    <2>1. mem[a].op \in Ops /\ mem[a].row \in Rows(mem[a].op)
      BY <1>1, <1>3 DEF WordAt, Helpers
    <2>2. Row(mem[a].op, mem[a].row).new \in Values /\ Row(mem[a].op, mem[a].row).expected \in Values
      BY <1>1, <2>1, RowTyped
    <2>3. IsDescriptor(mem[a])
      BY <1>1, <1>3, WordIs
    <2> QED
      BY <2>2, <2>3 DEF LogicalOf
  <1> QED
    BY <1>1, <1>2, <1>3 DEF Words

LEMMA GiveBackKeeps ==
  ASSUME IInv, NEW t \in Threads, NEW a \in Addrs, NEW h \in Helpers, mem[a] = h, Held(h) # Null,
         Held(h) = h => ~InProgress(h.op), Swaps(a, LogicalOf(h))
  PROVE  Keeps(t)
  <1>0. Control /\ Types
    BY DEF IInv, Control
  <1> DEFINE v == LogicalOf(h)
  <1>1. v \in Values
    BY <1>0, LogicalValue
  <1>2. mem' = [mem EXCEPT ![a] = v] /\ helper_' = helper_ /\ state_' = state_
    BY DEF Swaps
  <1> HIDE DEF v
  <1>3. mem'[a] = v /\ \A b \in Addrs : b # a => mem'[b] = mem[b]
    BY <1>0, <1>2 DEF Types
  <1>4. \A b \in Addrs : \A g \in Helpers :
          mem[b] = g /\ (Held(g) = Null \/ (Held(g) = g /\ InProgress(g.op))) => b # a
    OBVIOUS
  <1>5. \A b \in Addrs : \A g \in Helpers : ~(mem'[b] = g /\ mem[b] # g)
    BY <1>1, <1>3, WordsAssumption
  <1> QED
    BY <1>2, <1>3, <1>4, <1>5 DEF Keeps

LEMMA EffectKeeps ==
  ASSUME IInv, NEW t \in Threads, Effect(t)
  PROVE  Keeps(t)
  <1>1. CASE Quiet
    BY <1>1 DEF Quiet, Keeps
  <1>2. ASSUME NEW o \in Ops, NEW i \in Rows(o), Associates(o, i, FAIL_CONST), Prefix(o, i)
        PROVE  Keeps(t)
    BY <1>2, AssociatesKeeps
  <1>3. ASSUME NEW o \in Ops, NEW i \in Rows(o), NEW w \in Helpers, Associates(o, i, w), Prefix(o, i),
               w.op = o, w.row = i, mem[Row(o, i).address] = w
        PROVE  Keeps(t)
    BY <1>3, AssociatesKeeps
  <1>4. ASSUME NEW o \in Ops, Decides(o, "FAIL"), \E i \in Rows(o) : helper_[o][i] = FAIL_CONST
        PROVE  Keeps(t)
    BY <1>4, DecidesKeeps
  <1>5. ASSUME NEW o \in Ops, Decides(o, "PASS"), RowCount(o) > 0, \A i \in Rows(o) : Settled(o, i)
        PROVE  Keeps(t)
    BY <1>5, DecidesKeeps
  <1>6. ASSUME NEW o \in Ops, NEW i \in Rows(o), Prefix(o, i), helper_[o][i] # Helper(o, i, t),
               mem[Row(o, i).address] = Row(o, i).expected,
               Swaps(Row(o, i).address, Helper(o, i, t))
        PROVE  Keeps(t)
    BY <1>6, PlaceKeeps
  <1>7. ASSUME NEW a \in Addrs, NEW h \in Helpers, mem[a] = h, Held(h) # Null,
               Held(h) = h => ~InProgress(h.op), Swaps(a, LogicalOf(h))
        PROVE  Keeps(t)
    BY <1>7, GiveBackKeeps
  <1> QED
    BY <1>1, <1>2, <1>3, <1>4, <1>5, <1>6, <1>7, Zenon DEF Effect

SharedTypes ==
  /\ mem \in [Addrs -> Words]
  /\ helper_ \in [Ops -> [1 .. MaxRows -> Helpers \cup {Null, FAIL_CONST}]]
  /\ state_ \in [Ops -> {"IN_PROGRESS", "PASS", "FAIL"}]

LEMMA EffectTypes ==
  ASSUME IInv, NEW t \in Threads, Effect(t)
  PROVE  SharedTypes'
  <1>0. /\ Control /\ Types /\ RowsSorted
        /\ mem \in [Addrs -> Words]
        /\ helper_ \in [Ops -> [1 .. MaxRows -> Helpers \cup {Null, FAIL_CONST}]]
        /\ state_ \in [Ops -> {"IN_PROGRESS", "PASS", "FAIL"}]
    BY DEF IInv, Control, Types
  <1>a. ASSUME NEW o \in Ops, NEW i \in Rows(o), NEW w \in Helpers \cup {FAIL_CONST}, Associates(o, i, w)
        PROVE  SharedTypes'
    <2>1. i \in 1 .. MaxRows
      BY <1>0, RowTyped
    <2>2. helper_' = [helper_ EXCEPT ![o][i] = w] /\ mem' = mem /\ state_' = state_
      BY <1>a DEF Associates
    <2>3. helper_' \in [Ops -> [1 .. MaxRows -> Helpers \cup {Null, FAIL_CONST}]]
      BY <1>0, <2>1, <2>2
    <2> QED
      BY <1>0, <2>2, <2>3 DEF SharedTypes
  <1>d. ASSUME NEW o \in Ops, NEW s \in {"PASS", "FAIL"}, Decides(o, s)
        PROVE  SharedTypes'
    <2>1. state_' = [state_ EXCEPT ![o] = s] /\ mem' = mem /\ helper_' = helper_
      BY <1>d DEF Decides
    <2> QED
      BY <1>0, <2>1 DEF SharedTypes
  <1>s. ASSUME NEW a \in Addrs, NEW v \in Words, Swaps(a, v)
        PROVE  SharedTypes'
    <2>1. mem' = [mem EXCEPT ![a] = v] /\ helper_' = helper_ /\ state_' = state_
      BY <1>s DEF Swaps
    <2> QED
      BY <1>0, <2>1 DEF SharedTypes
  <1>1. CASE Quiet
    BY <1>0, <1>1 DEF Quiet, SharedTypes
  <1>2. ASSUME NEW o \in Ops, NEW i \in Rows(o), Associates(o, i, FAIL_CONST), Prefix(o, i)
        PROVE  SharedTypes'
    BY <1>2, <1>a
  <1>3. ASSUME NEW o \in Ops, NEW i \in Rows(o), NEW w \in Helpers, Associates(o, i, w), Prefix(o, i),
               w.op = o, w.row = i, mem[Row(o, i).address] = w
        PROVE  SharedTypes'
    BY <1>3, <1>a
  <1>4. ASSUME NEW o \in Ops, Decides(o, "FAIL"), \E i \in Rows(o) : helper_[o][i] = FAIL_CONST
        PROVE  SharedTypes'
    BY <1>4, <1>d
  <1>5. ASSUME NEW o \in Ops, Decides(o, "PASS"), RowCount(o) > 0, \A i \in Rows(o) : Settled(o, i)
        PROVE  SharedTypes'
    BY <1>5, <1>d
  <1>6. ASSUME NEW o \in Ops, NEW i \in Rows(o), Prefix(o, i), helper_[o][i] # Helper(o, i, t),
               mem[Row(o, i).address] = Row(o, i).expected,
               Swaps(Row(o, i).address, Helper(o, i, t))
        PROVE  SharedTypes'
    <2>1. Row(o, i).address \in Addrs /\ Helper(o, i, t) \in Words
      BY <1>0, RowTyped, OwnHelper
    <2> QED
      BY <1>6, <1>s, <2>1
  <1>7. ASSUME NEW a \in Addrs, NEW h \in Helpers, mem[a] = h, Held(h) # Null,
               Held(h) = h => ~InProgress(h.op), Swaps(a, LogicalOf(h))
        PROVE  SharedTypes'
    <2>1. LogicalOf(h) \in Words
      BY <1>0, <1>7, LogicalValue DEF Words
    <2> QED
      BY <1>7, <1>s, <2>1
  <1> QED
    BY <1>1, <1>2, <1>3, <1>4, <1>5, <1>6, <1>7, Zenon DEF Effect

LEMMA RowsKept ==
  ASSUME cas_rows_' = cas_rows_
  PROVE  /\ \A o : Rows(o)' = Rows(o) /\ RowCount(o)' = RowCount(o)
         /\ \A o, i : Row(o, i)' = Row(o, i)
         /\ \A f : Address(f)' = Address(f)
         /\ \A w, a : WordAt(w, a)' = WordAt(w, a)
         /\ \A f : FrameShape(f)' = FrameShape(f)
  BY DEF Rows, RowCount, Row, Address, WordAt, FrameShape

LEMMA SettledKept ==
  ASSUME Types, RowsSorted, NEW t \in Threads, Keeps(t), cas_rows_' = cas_rows_, NEW o \in Ops, NEW i \in Rows(o)
  PROVE  /\ helper_[o][i] # Null => helper_'[o][i] = helper_[o][i]
         /\ Settled(o, i) => Settled(o, i)'
         /\ Prefix(o, i) => Prefix(o, i)'
         /\ ~InProgress(o) => ~InProgress(o)' /\ state_'[o] = state_[o]
  <1>0. i \in 1 .. MaxRows /\ i \in Nat /\ RowCount(o) \in Nat
    BY RowTyped
  <1>1. \A j \in 1 .. MaxRows : helper_[o][j] # Null => helper_'[o][j] = helper_[o][j]
    BY DEF Keeps
  <1>2. \A j \in 1 .. (i - 1) : j \in 1 .. MaxRows
    <2>1. MaxRows \in Nat
      BY AddrsAssumption, FS_CardinalityType DEF MaxRows
    <2> QED
      BY <1>0, <2>1
  <1>3. \A j \in 1 .. MaxRows : Settled(o, j) => Settled(o, j)'
    BY <1>1 DEF Settled
  <1>4. Prefix(o, i) => Prefix(o, i)'
    BY <1>2, <1>3 DEF Prefix
  <1>5. ~InProgress(o) => ~InProgress(o)' /\ state_'[o] = state_[o]
    BY DEF Keeps, InProgress
  <1> QED
    BY <1>0, <1>1, <1>3, <1>4, <1>5

\* A Helper that was taken from its row is not put back.
LEMMA ClearedKept ==
  ASSUME IInv, NEW t \in Threads, Effect(t), Keeps(t), cas_rows_' = cas_rows_,
         NEW o \in Ops, NEW i \in Rows(o), ~InProgress(o), mem[Row(o, i).address] # helper_[o][i]
  PROVE  mem'[Row(o, i).address] # helper_'[o][i]
  <1> DEFINE a == Row(o, i).address
             h == helper_[o][i]
  <1>0. Types /\ RowsSorted /\ HelperRows /\ a \in Addrs /\ i \in 1 .. MaxRows
    BY RowTyped DEF IInv, Control
  <1>1. helper_'[o][i] = h
    BY <1>0, SettledKept DEF Keeps
  <1>2. mem'[a] \in Words
    BY <1>0, EffectTypes DEF SharedTypes
  <1>3. h \in Helpers \cup {Null, FAIL_CONST}
    <2>1. helper_ \in [Ops -> [1 .. MaxRows -> Helpers \cup {Null, FAIL_CONST}]] /\ i \in 1 .. MaxRows
      BY <1>0 DEF Types
    <2> QED
      BY <2>1
  <1>4. CASE h \in Helpers
    <2>1. Held(h) = h
      BY <1>0, <1>4 DEF HelperRows, Held
    <2> QED
      BY <1>0, <1>1, <1>4, <2>1 DEF Keeps
  <1>5. CASE h \in {Null, FAIL_CONST}
    BY <1>1, <1>2, <1>5, WordIs
  <1> QED
    BY <1>3, <1>4, <1>5

LEMMA TopLocation ==
  ASSUME Control, NEW u \in Threads, NEW k \in 1 .. Len(stack[u]), NEW f, f = stack[u][k],
         f.at \notin {"helping", "announced"}
  PROVE  Stands(u, f) /\ k = Len(stack[u])
  <1>0. stack[u] \in Seq(Frames) /\ Len(stack[u]) \in Nat
    BY DEF Control, Types
  <1>1. k = Len(stack[u])
    <2> SUFFICES ASSUME k # Len(stack[u]) PROVE FALSE
      OBVIOUS
    <2>1. k \in 1 .. (Len(stack[u]) - 1)
      BY <1>0
    <2>2. Link(f, stack[u][k + 1], k)
      BY <2>1 DEF Control, Shapes
    <2> QED
      BY <2>2 DEF Link
  <1>2. stack[u] # <<>>
    BY <1>0
  <1> QED
    BY <1>1, <1>2 DEF Stands, Top

\* Nothing a step does to memory disturbs an activation, its own included.
LEMMA FrameKept ==
  ASSUME IInv, NEW t \in Threads, Effect(t), cas_rows_' = cas_rows_,
         NEW u \in Threads, NEW k \in 1 .. Len(stack[u]), NEW f, f = stack[u][k]
  PROVE  FrameOk(u, f)'
  <1>0. /\ Control /\ Types /\ RowsSorted /\ HelperRows /\ Keeps(t)
        /\ f \in Frames /\ FrameShape(f) /\ Sound(f) /\ FrameOk(u, f)
    BY EffectKeeps, FrameFacts DEF IInv, Control, FramesOk
  <1>r. /\ \A o : Rows(o)' = Rows(o) /\ RowCount(o)' = RowCount(o)
        /\ \A o, i : Row(o, i)' = Row(o, i)
        /\ Address(f)' = Address(f)
    BY RowsKept
  <1> DEFINE o == f.op
             i == f.row
             h == f.val
             own == Helper(o, i, u)
  <1>o. ASSUME o # Null
        PROVE  /\ o \in Ops /\ i \in Rows(o) /\ Address(f) = Row(o, i).address /\ Address(f) \in Addrs
               /\ helper_[o][i] # Null => helper_'[o][i] = helper_[o][i]
               /\ Prefix(o, i) => Prefix(o, i)'
               /\ ~InProgress(o) => ~InProgress(o)' /\ state_'[o] = state_[o]
               /\ own \in Helpers /\ own.op = o /\ own.row = i /\ own.by = u
               /\ own # Null /\ own # FAIL_CONST
    BY <1>0, <1>o, SettledKept, OwnHelper DEF Sound
  <1>h. ASSUME f.at \in Meeting \cup {"row", "state"}, h \in Helpers
        PROVE  /\ h.op \in Ops /\ h.row \in Rows(h.op) /\ Row(h.op, h.row).address = Address(f)
               /\ helper_[h.op][h.row] # Null => helper_'[h.op][h.row] = helper_[h.op][h.row]
               /\ Prefix(h.op, h.row) => Prefix(h.op, h.row)'
               /\ ~InProgress(h.op) => ~InProgress(h.op)' /\ state_'[h.op] = state_[h.op]
    <2>1. h.op \in Ops /\ h.row \in Rows(h.op) /\ Row(h.op, h.row).address = Address(f)
      BY <1>0, <1>h DEF FrameShape, WordAt, Helpers
    <2> QED
      BY <1>0, <2>1, SettledKept
  <1>m. f.at \in Meeting => h \in Helpers
    BY <1>0 DEF FrameShape
  <1>n. f.at \notin Reading => o # Null
    BY <1>0 DEF FrameShape
  <1>1. (o # Null => Prefix(o, i))'
    BY <1>0, <1>o DEF FrameOk
  <1>2. (f.at \in Meeting \cup {"row", "state"} /\ h \in Helpers => Prefix(h.op, h.row))'
    BY <1>0, <1>h DEF FrameOk
  <1>3. (f.at \in {"state", "place"} => helper_[o][i] # own)'
    <2> SUFFICES ASSUME f.at \in {"state", "place"} PROVE helper_'[o][i] # own
      BY DEF Helper
    <2>1. o # Null /\ helper_[o][i] # own
      BY <1>0, <1>n DEF FrameOk, Reading
    <2>2. CASE helper_[o][i] # Null
      BY <1>o, <2>1, <2>2
    <2>3. CASE helper_[o][i] = Null
      <3> SUFFICES ASSUME helper_'[o][i] = own PROVE FALSE
        OBVIOUS
      <3>1. mem[Address(f)] = own
        BY <1>0, <1>o, <2>1, <2>3 DEF Keeps
      <3>2. Held(own) = Null
        BY <1>o, <2>1, <2>3 DEF Held
      <3>3. At(u, "associate")
        <4> HIDE DEF own
        <4> QED
          BY <1>o, <2>1, <3>1, <3>2 DEF IInv, PlacedByTop
      <3>4. Top(u) = f
        BY <1>0, TopLocation DEF Stands
      <3> QED
        BY <3>3, <3>4 DEF At
    <2> QED
      BY <2>2, <2>3
  <1>4. (f.at = "mismatch" => h # Row(o, i).expected)' /\ (f.at = "place" => h = Row(o, i).expected)'
    BY <1>0, <1>r DEF FrameOk
  <1>5. (f.at = "associate" =>
          /\ helper_[o][i] = Null => mem[Address(f)] = own
          /\ helper_[o][i] \notin {Null, FAIL_CONST, own} => ~InProgress(o))'
    <2> SUFFICES ASSUME f.at = "associate"
                 PROVE  /\ helper_'[o][i] = Null => mem'[Address(f)] = own
                        /\ helper_'[o][i] \notin {Null, FAIL_CONST, own} => ~InProgress(o)'
      BY <1>r DEF Helper
    <2>1. /\ o # Null
          /\ helper_[o][i] = Null => mem[Address(f)] = own
          /\ helper_[o][i] \notin {Null, FAIL_CONST, own} => ~InProgress(o)
      BY <1>0, <1>n DEF FrameOk, Reading
    <2>2. CASE helper_[o][i] # Null
      BY <1>o, <2>1, <2>2
    <2>3. CASE helper_[o][i] = Null
      <3>1. Held(own) = Null /\ mem[Address(f)] = own
        BY <1>o, <2>1, <2>3 DEF Held
      <3>2. mem'[Address(f)] = own
        BY <1>0, <1>o, <2>1, <3>1 DEF Keeps
      <3>3. helper_'[o][i] \in {Null, FAIL_CONST, own}
        BY <1>0, <1>o, <2>1, <2>3, <3>1 DEF Keeps
      <3> QED
        BY <3>2, <3>3
    <2> QED
      BY <2>2, <2>3
  <1>6. (f.at = "undo" =>
          /\ helper_[o][i] \notin {Null, own}
          /\ helper_[o][i] # FAIL_CONST => ~InProgress(o))'
    <2> SUFFICES ASSUME f.at = "undo"
                 PROVE  /\ helper_'[o][i] \notin {Null, own}
                        /\ helper_'[o][i] # FAIL_CONST => ~InProgress(o)'
      BY DEF Helper
    <2> QED
      BY <1>0, <1>n, <1>o DEF FrameOk, Reading
  <1>7. (f.at \in {"over", "withdraw"} => ~InProgress(o))'
    BY <1>0, <1>n, <1>o DEF FrameOk, Reading
  <1>8. (f.at = "fail" => helper_[o][i] = FAIL_CONST)'
    <2>1. Null # FAIL_CONST
      BY WordsAssumption
    <2> QED
      BY <1>0, <1>n, <1>o, <2>1 DEF FrameOk, Reading
  <1>9. (f.at = "pass" => \A j \in Rows(o) : Settled(o, j))'
    <2> SUFFICES ASSUME f.at = "pass", NEW j \in Rows(o) PROVE Settled(o, j)'
      BY <1>r
    <2>1. o \in Ops /\ Settled(o, j)
      BY <1>0, <1>n, <1>o DEF FrameOk, Reading
    <2> QED
      BY <1>0, <2>1, SettledKept
  <1>10. (f.at = "on_watch" /\ Held(h) = Null => mem[Address(f)] = h)'
    <2> SUFFICES ASSUME f.at = "on_watch", helper_'[h.op][h.row] = Null PROVE mem'[Address(f)] = h
      BY <1>r DEF Held
    <2>1. h \in Helpers /\ f.at \in Meeting
      BY <1>m DEF Meeting
    <2>2. Held(h) = Null
      BY <1>h, <2>1 DEF Held
    <2>3. mem[Address(f)] = h
      BY <1>0, <2>2 DEF FrameOk
    <2>4. Address(f) \in Addrs
      BY <1>0 DEF Sound
    <2> QED
      BY <1>0, <2>1, <2>2, <2>3, <2>4 DEF Keeps
  <1>11. (f.at = "restore" => Held(h) \notin {Null, h})'
    <2> SUFFICES ASSUME f.at = "restore" PROVE helper_'[h.op][h.row] \notin {Null, h}
      BY DEF Held
    <2> QED
      BY <1>0, <1>h, <1>m DEF FrameOk, Held, Meeting
  <1>12. (f.at \in {"value", "own_row", "remove", "helping", "uninstall"} => Held(h) = h)'
    <2> SUFFICES ASSUME f.at \in {"value", "own_row", "remove", "helping", "uninstall"}
                 PROVE  helper_'[h.op][h.row] = h
      BY DEF Held
    <2>1. h \in Helpers /\ f.at \in Meeting /\ helper_[h.op][h.row] = h /\ h # Null
      BY <1>0, <1>m, WordIs DEF FrameOk, Held, Meeting, Words
    <2> QED
      BY <1>h, <2>1
  <1>13. (f.at = "uninstall" => ~InProgress(h.op) /\ f.res = (state_[h.op] = "PASS"))'
    <2> SUFFICES ASSUME f.at = "uninstall"
                 PROVE  ~InProgress(h.op)' /\ f.res = (state_'[h.op] = "PASS")
      OBVIOUS
    <2>1. h \in Helpers /\ f.at \in Meeting /\ ~InProgress(h.op) /\ f.res = (state_[h.op] = "PASS")
      BY <1>0, <1>m DEF FrameOk, Meeting
    <2> QED
      BY <1>h, <2>1
  <1>14. (f.at = "cleanup" =>
           /\ ~InProgress(o) /\ f.res = (state_[o] = "PASS")
           /\ \A j \in 1 .. (i - 1) : mem[Row(o, j).address] # helper_[o][j])'
    <2> SUFFICES ASSUME f.at = "cleanup"
                 PROVE  /\ ~InProgress(o)' /\ f.res = (state_'[o] = "PASS")
                        /\ \A j \in 1 .. (i - 1) : mem'[Row(o, j).address] # helper_'[o][j]
      BY <1>r
    <2>1. /\ o # Null /\ ~InProgress(o) /\ f.res = (state_[o] = "PASS")
          /\ \A j \in 1 .. (i - 1) : mem[Row(o, j).address] # helper_[o][j]
      BY <1>0, <1>n DEF FrameOk, Reading
    <2>2. i \in Nat /\ RowCount(o) \in Nat /\ i <= RowCount(o)
      BY <1>0, <1>o, <2>1, RowTyped DEF Rows
    <2>3. ASSUME NEW j \in 1 .. (i - 1) PROVE mem'[Row(o, j).address] # helper_'[o][j]
      <3>1. j \in Rows(o)
        BY <2>2 DEF Rows
      <3> QED
        BY <1>0, <1>o, <2>1, <3>1, ClearedKept
    <2> QED
      BY <1>o, <2>1, <2>3
  <1>15. (f.at = "done" /\ o # Null =>
            ~InProgress(o) /\ \A j \in Rows(o) : mem[Row(o, j).address] # helper_[o][j])'
    <2> SUFFICES ASSUME f.at = "done", o # Null
                 PROVE  ~InProgress(o)' /\ \A j \in Rows(o) : mem'[Row(o, j).address] # helper_'[o][j]
      BY <1>r
    <2>1. ~InProgress(o) /\ \A j \in Rows(o) : mem[Row(o, j).address] # helper_[o][j]
      BY <1>0 DEF FrameOk
    <2>3. ASSUME NEW j \in Rows(o) PROVE mem'[Row(o, j).address] # helper_'[o][j]
      BY <1>0, <1>o, <2>1, ClearedKept
    <2> QED
      BY <1>o, <2>1, <2>3
  <1> HIDE DEF o, i, h, own
  <1> QED
    BY <1>1, <1>2, <1>3, <1>4, <1>5, <1>6, <1>7, <1>8, <1>9, <1>10, <1>11, <1>12, <1>13, <1>14, <1>15
    DEF FrameOk, o, i, h, own

LEMMA SharedKept ==
  ASSUME IInv, NEW t \in Threads, Effect(t), cas_rows_' = cas_rows_
  PROVE  /\ HelperRows' /\ MemRows' /\ FreshRows'
         /\ HelperPrefix' /\ MemPrefix' /\ Outcomes' /\ AssociatedStays'
         /\ \A o \in Ops : Emptied(o) => Emptied(o)'
  <1>0. /\ Control /\ Types /\ RowsSorted /\ HelperRows /\ MemRows /\ FreshRows /\ Keeps(t)
        /\ HelperPrefix /\ MemPrefix /\ Outcomes /\ AssociatedStays /\ SharedTypes'
    BY EffectKeeps, EffectTypes DEF IInv, Control
  <1>r. /\ \A o : Rows(o)' = Rows(o) /\ RowCount(o)' = RowCount(o)
        /\ \A o, i : Row(o, i)' = Row(o, i)
        /\ \A w, a : WordAt(w, a)' = WordAt(w, a)
    BY RowsKept
  <1>n. Null # FAIL_CONST /\ Null \notin Helpers /\ FAIL_CONST \notin Helpers
    BY WordsAssumption
  <1>w. ASSUME NEW h \in Helpers PROVE h.op \in Ops /\ h.row \in 1 .. MaxRows
    BY DEF Helpers
  <1>1. HelperRows'
    <2> SUFFICES ASSUME NEW o \in Ops, NEW i \in 1 .. MaxRows
                 PROVE  /\ helper_'[o][i] # Null => i \in Rows(o)
                        /\ helper_'[o][i] \in Helpers => helper_'[o][i].op = o /\ helper_'[o][i].row = i
      BY <1>r DEF HelperRows
    <2>1. CASE helper_[o][i] # Null
      BY <1>0, <2>1 DEF HelperRows, Keeps
    <2>2. CASE helper_[o][i] = Null /\ i \in Rows(o)
      BY <1>0, <1>n, <2>2 DEF Keeps
    <2>3. CASE helper_[o][i] = Null /\ i \notin Rows(o)
      <3>1. helper_'[o][i] = Null
        <4>1. CASE Quiet
          BY <2>3, <4>1 DEF Quiet
        <4>2. ASSUME NEW p \in Ops, NEW j \in Rows(p), NEW w, Associates(p, j, w)
              PROVE  helper_'[o][i] = Null
          <5>1. j \in 1 .. MaxRows /\ helper_' = [helper_ EXCEPT ![p][j] = w]
            BY <1>0, <4>2, RowTyped DEF Associates
          <5>2. p # o \/ j # i
            BY <2>3, <4>2
          <5>3. helper_ \in [Ops -> [1 .. MaxRows -> Helpers \cup {Null, FAIL_CONST}]]
            BY <1>0 DEF Types
          <5> QED
            BY <2>3, <5>1, <5>2, <5>3
        <4>3. CASE helper_' = helper_
          BY <2>3, <4>3
        <4> QED
          BY <4>1, <4>2, <4>3 DEF Effect, Decides, Swaps
      <3> QED
        BY <1>n, <3>1
    <2> QED
      BY <2>1, <2>2, <2>3
  <1>2. MemRows'
    <2> SUFFICES ASSUME NEW a \in Addrs PROVE WordAt(mem'[a], a)
      BY <1>r DEF MemRows
    <2>1. CASE mem'[a] = mem[a]
      BY <1>0, <2>1 DEF MemRows
    <2>2. CASE mem'[a] # mem[a]
      BY <1>0, <2>2 DEF Keeps, WordAt
    <2> QED
      BY <2>1, <2>2
  <1>3. FreshRows'
    <2> SUFFICES ASSUME NEW o \in Ops, RowCount(o) = 0 PROVE state_'[o] = "IN_PROGRESS"
      BY <1>r DEF FreshRows, InProgress
    <2>1. Rows(o) = {}
      BY DEF Rows
    <2> QED
      BY <1>0, <2>1 DEF FreshRows, InProgress, Keeps
  <1>4. HelperPrefix'
    <2> SUFFICES ASSUME NEW o \in Ops, NEW i \in Rows(o), helper_'[o][i] # Null PROVE Prefix(o, i)'
      BY <1>r DEF HelperPrefix
    <2>1. Prefix(o, i)
      BY <1>0 DEF HelperPrefix, Keeps
    <2> QED
      BY <1>0, <2>1, SettledKept
  <1>5. MemPrefix'
    <2> SUFFICES ASSUME NEW a \in Addrs, NEW h \in Helpers, h = mem'[a] PROVE Prefix(h.op, h.row)'
      BY DEF MemPrefix
    <2>1. h.op \in Ops /\ h.row \in Rows(h.op)
      BY <1>2, <1>r, <1>w DEF MemRows, WordAt
    <2>2. Prefix(h.op, h.row)
      BY <1>0 DEF MemPrefix, Keeps
    <2> QED
      BY <1>0, <2>1, <2>2, SettledKept
  <1>6. Outcomes'
    <2> SUFFICES ASSUME NEW o \in Ops
                 PROVE  /\ state_'[o] = "PASS" => \A i \in Rows(o) : Settled(o, i)'
                        /\ state_'[o] = "FAIL" => \E i \in Rows(o) : helper_'[o][i] = FAIL_CONST
      BY <1>r DEF Outcomes
    <2>1. \A i \in Rows(o) : Settled(o, i) => Settled(o, i)'
      BY <1>0, SettledKept
    <2>2. \A i \in Rows(o) : helper_[o][i] = FAIL_CONST => helper_'[o][i] = FAIL_CONST
      BY <1>0, <1>n, SettledKept
    <2>3. /\ state_'[o] = "PASS" => \A i \in Rows(o) : Settled(o, i)
          /\ state_'[o] = "FAIL" => \E i \in Rows(o) : helper_[o][i] = FAIL_CONST
      BY <1>0 DEF Outcomes, Keeps
    <2> QED
      BY <2>1, <2>2, <2>3
  <1>7. AssociatedStays'
    <2> SUFFICES ASSUME NEW o \in Ops, NEW i \in Rows(o), state_'[o] = "IN_PROGRESS",
                        helper_'[o][i] \notin {Null, FAIL_CONST}
                 PROVE  mem'[Row(o, i).address] = helper_'[o][i]
      BY <1>r DEF AssociatedStays, InProgress
    <2> DEFINE a == Row(o, i).address
               h == helper_'[o][i]
    <2>1. a \in Addrs /\ i \in 1 .. MaxRows
      BY <1>0, RowTyped
    <2>2. h \in Helpers /\ h.op = o /\ h.row = i
      <3>1. h \in Helpers \cup {Null, FAIL_CONST}
        BY <1>0, <2>1 DEF SharedTypes
      <3> QED
        BY <1>1, <2>1, <3>1 DEF HelperRows
    <2>3. InProgress(o)
      BY <1>0 DEF InProgress, Keeps
    <2>4. CASE helper_[o][i] # Null
      <3>1. helper_[o][i] = h
        BY <1>0, <2>4, SettledKept
      <3>2. mem[a] = h
        BY <1>0, <2>3, <3>1 DEF AssociatedStays
      <3>3. Held(h) = h /\ InProgress(h.op)
        BY <2>2, <2>3, <3>1 DEF Held
      <3> HIDE DEF a, h
      <3> QED
        BY <1>0, <2>1, <2>2, <3>2, <3>3 DEF Keeps, a, h
    <2>5. CASE helper_[o][i] = Null
      <3>1. mem[a] = h
        BY <1>0, <2>5 DEF Keeps
      <3>2. Held(h) = Null
        BY <2>2, <2>5 DEF Held
      <3> HIDE DEF a, h
      <3> QED
        BY <1>0, <2>1, <2>2, <3>1, <3>2 DEF Keeps, a, h
    <2> QED
      BY <2>4, <2>5
  <1>8. ASSUME NEW o \in Ops, Emptied(o) PROVE Emptied(o)'
    <2>1. ~InProgress(o) /\ \A i \in Rows(o) : mem[Row(o, i).address] # helper_[o][i]
      BY <1>8 DEF Emptied
    <2>2. ~InProgress(o)'
      BY <1>0, <2>1 DEF Keeps, InProgress
    <2>3. ASSUME NEW i \in Rows(o) PROVE mem'[Row(o, i).address] # helper_'[o][i]
      BY <1>0, <2>1, ClearedKept
    <2> QED
      BY <1>r, <2>2, <2>3 DEF Emptied
  <1> QED
    BY <1>1, <1>2, <1>3, <1>4, <1>5, <1>6, <1>7, <1>8

-----------------------------------------------------------------------------
(* What a step of t does to its own stack                                  *)

Fits(t, g) == FrameShape(g) /\ FrameOk(t, g)' /\ (g.op = Null <=> op[t] = Null)

\* An activation that may still be at the address of the one that waits for it.
Loose(f) == f.at \in {"load", "row", "pass"} /\ Settled(f.op, f.row)

\* A Helper that is new at its address is the one g has just placed.
Places(t, g) ==
  /\ \A f : Here(t, f) /\ f.at = "associate" => helper_'[f.op][f.row] # Null
  /\ \A a \in Addrs : \A h \in Helpers :
       mem'[a] = h /\ mem[a] # h => g.at = "associate" /\ g.op = h.op /\ g.row = h.row

Cuts(t, b, c, g) ==
  /\ Cut(t, b, g) /\ c = stack[t][b] /\ Fits(t, g) /\ Places(t, g)
  /\ g.at \notin {"helping", "announced"}
  /\ g.at \in {"cleanup", "done"} => b = 1 /\ g.op = op[t]
  /\ b = 1 \/ (/\ g.op = c.op /\ g.wf = c.wf
               /\ \/ Address(g) < Address(c)
                  \/ Address(g) = Address(c) /\ (b = Len(stack[t]) /\ Loose(c) => Loose(g)'))

Grows(t, f, g, c) ==
  /\ Here(t, f) /\ Grow(t, g, c) /\ Fits(t, g) /\ Fits(t, c) /\ Quiet
  /\ f.op # Null /\ f.at \notin {"load", "row", "pass", "associate"}
  /\ g.op = f.op /\ g.row = f.row /\ g.wf = f.wf /\ g.at \notin {"cleanup", "done"}
  /\ c.at = "load" /\ Link(g, c, Len(stack[t]))
  /\ g.at = "helping" => Address(c) = Address(g) /\ Settled(c.op, c.row)
  /\ g.at # "helping" => Len(stack[t]) = 1

Moves(t) ==
  /\ \/ \E b : \E c, g : Cuts(t, b, c, g)
     \/ \E f, g, c : Grows(t, f, g, c)
  /\ op' = op
  /\ op_table_' \in [Threads -> Ops \cup {Null}]
  /\ \A u \in Threads : op_table_'[u] # Null => RowCount(op_table_'[u]) > 0

LEMMA CutFrames ==
  ASSUME Types, NEW t \in Threads, NEW b, NEW g, Cut(t, b, g), NEW u \in Threads
  PROVE  /\ stack'[u] \in Seq(Frames)
         /\ u # t => stack'[u] = stack[u]
         /\ u = t => Len(stack'[u]) = b /\ stack'[u] # <<>> /\ b \in 1 .. Len(stack[u]) /\ b \in Nat
         /\ \A k \in 1 .. Len(stack'[u]) :
              \/ u = t /\ k = b /\ stack'[u][k] = g
              \/ k \in 1 .. Len(stack[u]) /\ stack'[u][k] = stack[u][k] /\ (u = t => k \in 1 .. (b - 1))
  <1>1. stack'[u] \in Seq(Frames) /\ stack[u] \in Seq(Frames) /\ stack[t] \in Seq(Frames)
    BY DEF Cut, Types
  <1>2. CASE u # t
    BY <1>1, <1>2 DEF Cut
  <1>3. CASE u = t
    <2>1. /\ b \in 1 .. Len(stack[t]) /\ Len(stack'[t]) = b /\ stack'[t][b] = g
          /\ \A k \in 1 .. (b - 1) : stack'[t][k] = stack[t][k]
      BY DEF Cut
    <2>2. Len(stack[t]) \in Nat /\ b \in Nat /\ b >= 1 /\ stack'[t] # <<>>
      BY <1>1, <1>3, <2>1
    <2>3. \A k \in 1 .. b : k = b \/ (k \in 1 .. (b - 1) /\ k \in 1 .. Len(stack[t]))
      BY <2>1, <2>2
    <2> QED
      BY <1>1, <1>3, <2>1, <2>2, <2>3
  <1> QED
    BY <1>2, <1>3

LEMMA GrowFrames ==
  ASSUME Types, NEW t \in Threads, NEW g, NEW c, Grow(t, g, c), NEW u \in Threads, NEW n, n = Len(stack[t])
  PROVE  /\ stack'[u] \in Seq(Frames) /\ n \in Nat /\ n >= 1
         /\ u # t => stack'[u] = stack[u]
         /\ u = t => Len(stack'[u]) = n + 1 /\ stack'[u] # <<>>
         /\ u = t => stack'[u][n] = g /\ stack'[u][n + 1] = c
         /\ \A k \in 1 .. Len(stack'[u]) :
              \/ u = t /\ k = n /\ stack'[u][k] = g
              \/ u = t /\ k = n + 1 /\ stack'[u][k] = c
              \/ k \in 1 .. Len(stack[u]) /\ stack'[u][k] = stack[u][k] /\ (u = t => k \in 1 .. (n - 1))
  <1>1. stack'[u] \in Seq(Frames) /\ stack[u] \in Seq(Frames) /\ stack[t] \in Seq(Frames)
    BY DEF Grow, Types
  <1>2. n \in Nat /\ n >= 1
    BY <1>1 DEF Grow
  <1>3. CASE u # t
    BY <1>1, <1>2, <1>3 DEF Grow
  <1>4. CASE u = t
    <2>1. /\ Len(stack'[t]) = n + 1 /\ stack'[t][n] = g /\ stack'[t][n + 1] = c
          /\ \A k \in 1 .. (n - 1) : stack'[t][k] = stack[t][k]
      BY DEF Grow
    <2>2. \A k \in 1 .. (n + 1) : k = n \/ k = n + 1 \/ (k \in 1 .. (n - 1) /\ k \in 1 .. n)
      BY <1>2
    <2>3. stack'[t] # <<>>
      BY <1>1, <1>2, <1>4, <2>1
    <2> QED
      BY <1>1, <1>2, <1>4, <2>1, <2>2, <2>3
  <1> QED
    BY <1>3, <1>4

LEMMA CutOwn ==
  ASSUME Types, NEW t \in Threads, NEW b, NEW g, Cut(t, b, g)
  PROVE  /\ Len(stack'[t]) = b /\ stack'[t] # <<>> /\ b \in 1 .. Len(stack[t]) /\ b \in Nat
         /\ \A k \in 1 .. Len(stack'[t]) :
              \/ k = b /\ stack'[t][k] = g
              \/ k \in 1 .. Len(stack[t]) /\ stack'[t][k] = stack[t][k] /\ k \in 1 .. (b - 1)
  BY CutFrames

LEMMA GrowOwn ==
  ASSUME Types, NEW t \in Threads, NEW g, NEW c, Grow(t, g, c), NEW n, n = Len(stack[t])
  PROVE  /\ n \in Nat /\ n >= 1 /\ Len(stack'[t]) = n + 1 /\ stack'[t] # <<>>
         /\ \A k \in 1 .. Len(stack'[t]) :
              \/ k = n /\ stack'[t][k] = g
              \/ k = n + 1 /\ stack'[t][k] = c
              \/ k \in 1 .. Len(stack[t]) /\ stack'[t][k] = stack[t][k] /\ k \in 1 .. (n - 1)
  BY GrowFrames

\* Every activation of the next state is as it should be.
LEMMA FramesKept ==
  ASSUME IInv, NEW t \in Threads, Effect(t), Moves(t), cas_rows_' = cas_rows_,
         NEW u \in Threads, NEW k \in 1 .. Len(stack'[u]), NEW f, f = stack'[u][k]
  PROVE  FrameShape(f)' /\ FrameOk(u, f)'
  <1>0. Control /\ Types /\ op' = op
    BY DEF IInv, Control, Moves
  <1>1. FrameShape(f)' <=> FrameShape(f)
    BY RowsKept
  <1>2. ASSUME k \in 1 .. Len(stack[u]), f = stack[u][k]
        PROVE  FrameShape(f)' /\ FrameOk(u, f)'
    BY <1>0, <1>1, <1>2, FrameKept, FrameFacts
  <1>3. ASSUME NEW b, NEW c, NEW g, Cuts(t, b, c, g)
        PROVE  FrameShape(f)' /\ FrameOk(u, f)'
    <2>1. Cut(t, b, g) /\ Fits(t, g)
      BY <1>3 DEF Cuts
    <2>2. (u = t /\ f = g) \/ (k \in 1 .. Len(stack[u]) /\ f = stack[u][k])
      BY <1>0, <2>1, CutFrames
    <2> QED
      BY <1>1, <1>2, <2>1, <2>2 DEF Fits
  <1>4. ASSUME NEW e, NEW g, NEW c, Grows(t, e, g, c)
        PROVE  FrameShape(f)' /\ FrameOk(u, f)'
    <2>1. Grow(t, g, c) /\ Fits(t, g) /\ Fits(t, c)
      BY <1>4 DEF Grows
    <2>2. (u = t /\ f = g) \/ (u = t /\ f = c) \/ (k \in 1 .. Len(stack[u]) /\ f = stack[u][k])
      <3>1. u # t => stack'[u] = stack[u]
        BY <2>1 DEF Grow
      <3>2. ASSUME u = t PROVE f = g \/ f = c \/ (k \in 1 .. Len(stack[u]) /\ f = stack[u][k])
        <4> DEFINE n == Len(stack[t])
        <4>1. \A j \in 1 .. Len(stack'[t]) :
                \/ j = n /\ stack'[t][j] = g
                \/ j = n + 1 /\ stack'[t][j] = c
                \/ j \in 1 .. Len(stack[t]) /\ stack'[t][j] = stack[t][j] /\ j \in 1 .. (n - 1)
          BY <1>0, <2>1, GrowOwn
        <4> QED
          BY <3>2, <4>1
      <3> QED
        BY <3>1, <3>2
    <2> QED
      BY <1>1, <1>2, <2>1, <2>2 DEF Fits
  <1> QED
    BY <1>3, <1>4 DEF Moves

LEMMA LinksKept ==
  ASSUME IInv, NEW t \in Threads, Moves(t),
         NEW u \in Threads, NEW k \in 1 .. (Len(stack'[u]) - 1), NEW g, g = stack'[u][k],
         NEW f, f = stack'[u][k + 1]
  PROVE  Link(g, f, k)
  <1>0. Control /\ Types /\ stack[u] \in Seq(Frames) /\ Len(stack[u]) \in Nat
    BY DEF IInv, Control, Types
  <1>1. ASSUME k \in 1 .. (Len(stack[u]) - 1)
        PROVE  Link(stack[u][k], stack[u][k + 1], k)
    BY <1>0, <1>1 DEF Control, Shapes
  <1>2. ASSUME NEW b, NEW c, NEW d, Cuts(t, b, c, d)
        PROVE  Link(g, f, k)
    <2>1. Cut(t, b, d) /\ c = stack[t][b]
      BY <1>2 DEF Cuts
    <2>2. CASE u # t
      BY <1>0, <1>1, <2>1, <2>2, CutFrames
    <2>3. CASE u = t
      <3>1. /\ Len(stack'[u]) = b /\ b \in 1 .. Len(stack[u]) /\ b \in Nat
            /\ \A j \in 1 .. (b - 1) : stack'[u][j] = stack[u][j]
            /\ stack'[u][b] = d
        BY <1>0, <2>1, <2>3, CutFrames DEF Cut
      <3>2. k \in Nat /\ k >= 1 /\ k <= b - 1 /\ k \in 1 .. (b - 1) /\ k \in 1 .. (Len(stack[u]) - 1)
        BY <1>0, <3>1
      <3>3. Link(stack[u][k], stack[u][k + 1], k) /\ g = stack[u][k]
        BY <1>1, <3>1, <3>2
      <3>4. CASE k + 1 = b
        <4>1. c = stack[u][k + 1] /\ f = d /\ b # 1
          BY <2>1, <2>3, <3>1, <3>2, <3>4
        <4>2. d.op = c.op /\ d.wf = c.wf
          BY <1>2, <4>1 DEF Cuts
        <4> QED
          BY <3>3, <4>1, <4>2 DEF Link
      <3>5. CASE k + 1 # b
        <4>1. k + 1 \in 1 .. (b - 1)
          BY <3>1, <3>2, <3>5
        <4> QED
          BY <3>1, <3>3, <4>1
      <3> QED
        BY <3>4, <3>5
    <2> QED
      BY <2>2, <2>3
  <1>3. ASSUME NEW e, NEW d, NEW c, Grows(t, e, d, c)
        PROVE  Link(g, f, k)
    <2> DEFINE n == Len(stack[t])
    <2>1. Grow(t, d, c) /\ Here(t, e) /\ d.op = e.op /\ d.wf = e.wf /\ Link(d, c, n)
      BY <1>3 DEF Grows
    <2>2. CASE u # t
      BY <1>0, <1>1, <2>1, <2>2, GrowFrames
    <2>3. CASE u = t
      <3>1. /\ Len(stack'[u]) = n + 1 /\ n \in Nat /\ n >= 1
            /\ stack'[u][n] = d /\ stack'[u][n + 1] = c
            /\ \A j \in 1 .. (n - 1) : stack'[u][j] = stack[u][j]
        BY <1>0, <2>1, <2>3, GrowFrames DEF Grow
      <3>2. k \in Nat /\ k >= 1 /\ k <= n
        BY <3>1
      <3>3. e = stack[u][n]
        BY <2>1, <2>3 DEF Here, Stands
      <3> HIDE DEF n
      <3>4. CASE k = n
        BY <2>1, <3>1, <3>4
      <3>5. CASE k + 1 = n
        <4>1. k \in 1 .. (n - 1) /\ k \in 1 .. (Len(stack[u]) - 1) /\ f = d
          BY <2>3, <3>1, <3>2, <3>5 DEF n
        <4>2. Link(stack[u][k], stack[u][k + 1], k) /\ g = stack[u][k] /\ stack[u][k + 1] = e
          BY <1>1, <3>1, <3>3, <3>5, <4>1
        <4> QED
          BY <2>1, <4>1, <4>2 DEF Link
      <3>6. CASE k + 1 < n
        <4>1. k \in 1 .. (n - 1) /\ k + 1 \in 1 .. (n - 1) /\ k \in 1 .. (Len(stack[u]) - 1)
          BY <2>3, <3>1, <3>2, <3>6 DEF n
        <4> QED
          BY <1>1, <3>1, <4>1
      <3> QED
        BY <3>1, <3>2, <3>4, <3>5, <3>6
    <2> QED
      BY <2>2, <2>3
  <1> QED
    BY <1>2, <1>3 DEF Moves

\* The topmost activation after a step.
LEMMA TopAfter ==
  ASSUME Types, NEW t \in Threads, NEW b, NEW g, Cut(t, b, g)
  PROVE  stack'[t] # <<>> /\ Top(t)' = g
  BY CutFrames DEF Cut, Top

LEMMA TopOfOthers ==
  ASSUME NEW u \in Threads, stack'[u] = stack[u]
  PROVE  Top(u)' = Top(u) /\ \A l : At(u, l)' <=> At(u, l)
  BY DEF Top, At

LEMMA CallerKept ==
  ASSUME IInv, NEW t \in Threads, Moves(t), cas_rows_' = cas_rows_, NEW u \in Threads
  PROVE  Caller(u)'
  <1>0. Control /\ Types /\ op' = op /\ Caller(u) /\ stack[u] \in Seq(Frames) /\ Len(stack[u]) \in Nat
    BY DEF IInv, Control, Types, Moves, Shapes
  <1>r. \A o : RowCount(o)' = RowCount(o)
    BY RowsKept
  <1>1. (op[u] # Null => RowCount(op[u]) > 0)'
    BY <1>0, <1>r DEF Caller
  <1>2. CASE stack'[u] = stack[u]
    BY <1>0, <1>1, <1>2 DEF Caller
  <1>3. ASSUME NEW b, NEW c, NEW g, Cuts(t, b, c, g), u = t
        PROVE  Caller(u)'
    <2>1. /\ Cut(t, b, g) /\ (g.op = Null <=> op[t] = Null)
          /\ g.at \in {"cleanup", "done"} => b = 1 /\ g.op = op[t]
      BY <1>3 DEF Cuts, Fits
    <2>2. /\ Len(stack'[u]) = b /\ stack'[u] # <<>> /\ b \in 1 .. Len(stack[u]) /\ b \in Nat
          /\ \A k \in 1 .. Len(stack'[u]) :
               \/ k = b /\ stack'[u][k] = g
               \/ k \in 1 .. Len(stack[u]) /\ stack'[u][k] = stack[u][k]
      BY <1>0, <1>3, <2>1, CutOwn
    <2>3. op[u] = Null => Len(stack'[u]) = 1
      <3>1. op[u] = Null => Len(stack[u]) = 1
        BY <1>0, <2>2 DEF Caller
      <3> QED
        BY <2>2, <3>1
    <2>4. ASSUME NEW k \in 1 .. Len(stack'[u]), NEW f, f = stack'[u][k]
          PROVE  /\ f.op = Null => op[u] = Null
                 /\ op[u] = Null => f.op = Null
                 /\ f.at \in {"cleanup", "done"} => Len(stack'[u]) = 1 /\ f.op = op[u]
      <3>1. CASE f = g
        BY <1>3, <2>1, <2>2, <3>1
      <3>2. CASE k \in 1 .. Len(stack[u]) /\ f = stack[u][k]
        <4>1. /\ f.op = Null => op[u] = Null
              /\ op[u] = Null => f.op = Null
              /\ f.at \in {"cleanup", "done"} => Len(stack[u]) = 1 /\ f.op = op[u]
          BY <1>0, <3>2 DEF Caller
        <4>2. Len(stack[u]) = 1 => Len(stack'[u]) = 1
          BY <2>2
        <4> QED
          BY <4>1, <4>2
      <3> QED
        BY <2>2, <2>4, <3>1, <3>2
    <2> QED
      BY <1>0, <1>1, <2>2, <2>3, <2>4 DEF Caller
  <1>4. ASSUME NEW e, NEW g, NEW c, Grows(t, e, g, c), u = t
        PROVE  Caller(u)'
    <2> DEFINE n == Len(stack[t])
    <2>1. /\ Grow(t, g, c) /\ Here(t, e) /\ e.op # Null /\ g.op = e.op /\ (c.op = Null <=> op[t] = Null)
          /\ (g.op = Null <=> op[t] = Null)
          /\ g.at \notin {"cleanup", "done"} /\ c.at = "load"
      BY <1>4 DEF Grows, Fits
    <2>2. /\ n \in Nat /\ n >= 1 /\ Len(stack'[u]) = n + 1 /\ stack'[u] # <<>>
          /\ \A k \in 1 .. Len(stack'[u]) :
               \/ k = n /\ stack'[u][k] = g
               \/ k = n + 1 /\ stack'[u][k] = c
               \/ k \in 1 .. Len(stack[u]) /\ stack'[u][k] = stack[u][k] /\ k \in 1 .. (n - 1)
      BY <1>0, <1>4, <2>1, GrowOwn
    <2>3. op[u] # Null
      BY <1>4, <2>1
    <2>4. ASSUME NEW k \in 1 .. Len(stack'[u]), NEW f, f = stack'[u][k]
          PROVE  f.op # Null /\ f.at \notin {"cleanup", "done"}
      <3>1. CASE f = g \/ f = c
        BY <1>4, <2>1, <2>3, <3>1
      <3>2. CASE k \in 1 .. Len(stack[u]) /\ f = stack[u][k] /\ k \in 1 .. (n - 1)
        <4>1. n # 1
          <5> HIDE DEF n
          <5> QED
            BY <2>2, <3>2
        <4> QED
          BY <1>0, <1>4, <2>3, <3>2, <4>1 DEF Caller
      <3> QED
        BY <2>2, <2>4, <3>1, <3>2
    <2> QED
      BY <1>0, <1>1, <2>2, <2>3, <2>4 DEF Caller
  <1>5. CASE u # t
    <2>1. ASSUME NEW b, NEW c, NEW g, Cuts(t, b, c, g) PROVE stack'[u] = stack[u]
      BY <1>5, <2>1 DEF Cuts, Cut
    <2>2. ASSUME NEW e, NEW g, NEW c, Grows(t, e, g, c) PROVE stack'[u] = stack[u]
      BY <1>5, <2>2 DEF Grows, Grow
    <2> QED
      BY <1>2, <2>1, <2>2 DEF Moves
  <1> QED
    BY <1>3, <1>4, <1>5 DEF Moves

\* Of two activations the upper one is at a lower address, or just at its start.
Lower(g, f, last) ==
  g.at = "helping" =>
    \/ Address(f) < Address(g)
    \/ Address(f) = Address(g) /\ last /\ Loose(f)

LEMMA LowerIs ==
  Descending <=>
    \A t \in Threads : \A i, j \in 1 .. Len(stack[t]) :
      i < j => Lower(stack[t][i], stack[t][j], j = Len(stack[t]))
  BY DEF Descending, Lower, Loose

LEMMA DescendingKept ==
  ASSUME IInv, NEW t \in Threads, Effect(t), Moves(t), cas_rows_' = cas_rows_
  PROVE  Descending'
  <1>0. Control /\ Types /\ RowsSorted /\ Descending /\ Keeps(t)
    BY EffectKeeps DEF IInv, Control
  <1>r. \A f : Address(f)' = Address(f)
    BY RowsKept
  <1>a. ASSUME NEW u \in Threads, NEW i \in 1 .. Len(stack[u]), NEW j \in 1 .. Len(stack[u]), i < j
        PROVE  Lower(stack[u][i], stack[u][j], j = Len(stack[u]))
    BY <1>0, <1>a, LowerIs
  <1>l. ASSUME NEW u \in Threads, NEW j \in 1 .. Len(stack[u]), NEW f, f = stack[u][j], Loose(f), j # 1
        PROVE  Loose(f)'
    <2>1. Sound(f) /\ Caller(u) /\ Len(stack[u]) # 1
      BY <1>0, <1>l, FrameFacts DEF Control, Shapes, Types
    <2>2. f.op # Null
      BY <1>l, <2>1 DEF Caller
    <2>3. f.op \in Ops /\ f.row \in Rows(f.op)
      BY <2>1, <2>2 DEF Sound
    <2> QED
      BY <1>0, <1>l, <2>3, SettledKept DEF Loose
  <1> SUFFICES ASSUME NEW u \in Threads, NEW i \in 1 .. Len(stack'[u]), NEW j \in 1 .. Len(stack'[u]), i < j,
                      NEW x, x = stack'[u][i], NEW y, y = stack'[u][j], x.at = "helping"
               PROVE  \/ (Address(y) < Address(x))'
                      \/ /\ (Address(y) = Address(x))' /\ j = Len(stack'[u])
                         /\ y.at \in {"load", "row", "pass"}
                         /\ Settled(y.op, y.row)'
    BY DEF Descending
  <1> SUFFICES ASSUME NEW last \in BOOLEAN, last = (j = Len(stack'[u]))
               PROVE  Lower(x, y, last)'
    BY DEF Lower, Loose
  <1>n. stack[u] \in Seq(Frames) /\ Len(stack[u]) \in Nat
    BY <1>0 DEF Types
  <1>1. CASE stack'[u] = stack[u]
    <2>1. Lower(x, y, j = Len(stack[u])) /\ j # 1
      BY <1>1, <1>a
    <2>2. Loose(y) => Loose(y)'
      BY <1>1, <1>l, <2>1
    <2> QED
      BY <1>1, <1>r, <2>1, <2>2 DEF Lower
  <1>2. ASSUME NEW b, NEW c, NEW g, Cuts(t, b, c, g), u = t
        PROVE  Lower(x, y, last)'
    <2>1. /\ Cut(t, b, g) /\ c = stack[t][b]
          /\ b = 1 \/ Address(g) < Address(c)
             \/ (Address(g) = Address(c) /\ (b = Len(stack[t]) /\ Loose(c) => Loose(g)'))
      BY <1>2 DEF Cuts
    <2>2. /\ Len(stack'[u]) = b /\ b \in 1 .. Len(stack[u]) /\ b \in Nat /\ stack'[u][b] = g
          /\ \A k \in 1 .. (b - 1) : stack'[u][k] = stack[u][k]
      BY <1>0, <1>2, <2>1, CutFrames DEF Cut
    <2>3. i \in 1 .. (b - 1) /\ i \in 1 .. Len(stack[u]) /\ x = stack[u][i] /\ b # 1 /\ i < b
      BY <1>n, <2>2
    <2>4. CASE j # b
      <3>1. j \in 1 .. (b - 1) /\ j \in 1 .. Len(stack[u]) /\ j # Len(stack[u]) /\ y = stack[u][j]
        BY <1>n, <2>2, <2>4
      <3>2. Lower(x, y, FALSE)
        BY <1>a, <2>3, <3>1 DEF Lower
      <3> QED
        BY <1>r, <3>2 DEF Lower
    <2>5. CASE j = b
      <3>1. y = g /\ Lower(x, c, b = Len(stack[t]))
        BY <1>2, <1>a, <2>1, <2>2, <2>3, <2>5
      <3>2. Address(x) \in Int /\ Address(c) \in Int /\ Address(g) \in Int
        <4>1. Sound(x) /\ Sound(c)
          BY <1>0, <1>2, <2>1, <2>2, <2>3, FrameFacts
        <4>2. FrameShape(g) /\ g \in Frames
          BY <1>2 DEF Cuts, Fits, Cut
        <4>3. Address(g) \in Addrs
          <5>1. CASE g.op = Null
            BY <4>2, <5>1 DEF FrameShape, Address
          <5>2. CASE g.op # Null
            <6>1. g.op \in Ops /\ g.row \in Rows(g.op)
              BY <4>2, <5>2 DEF FrameShape, Frames
            <6> QED
              BY <1>0, <5>2, <6>1, RowTyped DEF Address
          <5> QED
            BY <5>1, <5>2
        <4> QED
          BY <4>1, <4>3, AddrsAssumption DEF Sound
      <3> SUFFICES ASSUME x.at = "helping"
                   PROVE  Address(g) < Address(x) \/ (Address(g) = Address(x) /\ last /\ Loose(g)')
        BY <1>r, <3>1 DEF Lower
      <3>3. last
        BY <2>2, <2>5
      <3>4. Address(c) < Address(x) \/ (Address(c) = Address(x) /\ b = Len(stack[t]) /\ Loose(c))
        BY <3>1 DEF Lower
      <3>5. Address(g) < Address(c) \/ (Address(g) = Address(c) /\ (b = Len(stack[t]) /\ Loose(c) => Loose(g)'))
        BY <2>1, <2>3
      <3>6. Address(c) < Address(x) => Address(g) < Address(x)
        BY <3>2, <3>5
      <3>7. Address(g) < Address(c) /\ Address(c) = Address(x) => Address(g) < Address(x)
        BY <3>2
      <3> QED
        BY <3>3, <3>4, <3>5, <3>6, <3>7
    <2> QED
      BY <2>4, <2>5
  <1>3. ASSUME NEW e, NEW g, NEW c, Grows(t, e, g, c), u = t
        PROVE  Lower(x, y, last)'
    <2> DEFINE n == Len(stack[t])
    <2>1. /\ Grow(t, g, c) /\ Here(t, e) /\ e.at \notin {"load", "row", "pass"}
          /\ e.op # Null /\ g.op = e.op /\ g.row = e.row /\ c.at = "load" /\ Quiet
          /\ g.at = "helping" => Address(c) = Address(g) /\ Settled(c.op, c.row)
          /\ g.at # "helping" => Len(stack[t]) = 1
      BY <1>3 DEF Grows
    <2>2. /\ n \in Nat /\ n >= 1 /\ Len(stack'[u]) = n + 1
          /\ stack'[u][n] = g /\ stack'[u][n + 1] = c
          /\ \A k \in 1 .. (n - 1) : stack'[u][k] = stack[u][k]
      BY <1>0, <1>3, <2>1, GrowFrames DEF Grow
    <2>3. Address(g) = Address(e) /\ e = stack[u][n] /\ n \in 1 .. Len(stack[u])
      BY <1>3, <2>1, <2>2 DEF Address, Here, Stands
    <2>4. Loose(c)' <=> Loose(c)
      BY <2>1 DEF Quiet, Loose, Settled
    <2> HIDE DEF n
    <2>5. i \in Nat /\ j \in Nat /\ i >= 1 /\ i < j /\ j <= n + 1 /\ i <= n
      BY <2>2
    <2>6. CASE i = n
      <3>1. x = g /\ y = c /\ j = n + 1
        BY <2>2, <2>5, <2>6
      <3> QED
        BY <1>r, <2>1, <2>2, <2>4, <3>1 DEF Lower, Loose
    <2>7. CASE i < n
      <3>1. i \in 1 .. (n - 1) /\ i \in 1 .. Len(stack[u]) /\ x = stack[u][i]
        BY <1>3, <2>2, <2>5, <2>7 DEF n
      <3>2. Lower(x, e, FALSE) /\ n # 1
        <4>1. Lower(x, e, n = Len(stack[u])) /\ n # 1
          BY <1>a, <2>3, <2>5, <2>7, <3>1
        <4> QED
          BY <2>1, <4>1 DEF Lower, Loose
      <3>3. CASE j < n
        <4>1. j \in 1 .. (n - 1) /\ j \in 1 .. Len(stack[u]) /\ j # Len(stack[u]) /\ y = stack[u][j]
          BY <1>3, <2>2, <2>5, <3>3 DEF n
        <4>2. Lower(x, y, FALSE)
          BY <1>a, <3>1, <4>1 DEF Lower
        <4> QED
          BY <1>r, <4>2 DEF Lower
      <3>4. CASE j = n
        <4>1. y = g
          BY <2>2, <3>4
        <4> QED
          BY <1>r, <2>3, <3>2, <4>1 DEF Lower
      <3>5. CASE j = n + 1
        <4>1. y = c /\ Address(c) = Address(e)
          BY <1>3, <2>1, <2>2, <2>3, <3>2, <3>5 DEF n
        <4> QED
          BY <1>r, <3>2, <4>1 DEF Lower
      <3> QED
        BY <2>2, <2>5, <3>3, <3>4, <3>5
    <2> QED
      BY <2>2, <2>5, <2>6, <2>7
  <1>4. CASE u # t
    <2>1. ASSUME NEW b, NEW c, NEW g, Cuts(t, b, c, g) PROVE stack'[u] = stack[u]
      BY <1>4, <2>1 DEF Cuts, Cut
    <2>2. ASSUME NEW e, NEW g, NEW c, Grows(t, e, g, c) PROVE stack'[u] = stack[u]
      BY <1>4, <2>2 DEF Grows, Grow
    <2> QED
      BY <1>1, <2>1, <2>2 DEF Moves
  <1> QED
    BY <1>2, <1>3, <1>4 DEF Moves

LEMMA PlacedKept ==
  ASSUME IInv, NEW t \in Threads, Effect(t), Moves(t), cas_rows_' = cas_rows_
  PROVE  PlacedByTop'
  <1>0. Control /\ Types /\ PlacedByTop /\ Keeps(t) /\ SharedTypes' /\ MemRows' /\ RowsSorted
    BY EffectKeeps, EffectTypes, SharedKept DEF IInv, Control
  <1>r. /\ \A o : Rows(o)' = Rows(o)
        /\ \A w, a : WordAt(w, a)' = WordAt(w, a)
    BY RowsKept
  <1> SUFFICES ASSUME NEW a \in Addrs, NEW h \in Helpers, mem'[a] = h, helper_'[h.op][h.row] = Null
               PROVE  /\ At(h.by, "associate")'
                      /\ Top(h.by)'.op = h.op /\ Top(h.by)'.row = h.row
    BY DEF PlacedByTop, Held, Top, At
  <1>1. /\ h.op \in Ops /\ h.row \in 1 .. MaxRows /\ h.by \in Threads
        /\ h.row \in Rows(h.op)
    BY <1>0, <1>r DEF Helpers, MemRows, WordAt
  <1>2. Held(h) = Null
    BY <1>0, <1>1 DEF Keeps, Held
  <1>3. ASSUME NEW b, NEW c, NEW g, Cuts(t, b, c, g)
        PROVE  /\ At(h.by, "associate")'
               /\ Top(h.by)'.op = h.op /\ Top(h.by)'.row = h.row
    <2>1. Cut(t, b, g) /\ Places(t, g) /\ stack'[t] # <<>> /\ Top(t)' = g
      BY <1>0, <1>3, TopAfter DEF Cuts
    <2>2. CASE mem[a] # h
      <3>1. h.by = t /\ g.at = "associate" /\ g.op = h.op /\ g.row = h.row
        BY <1>0, <2>1, <2>2 DEF Keeps, Places
      <3>2. (At(t, "associate") <=> stack[t] # <<>> /\ Top(t).at = "associate")'
        BY DEF At
      <3> QED
        BY <2>1, <3>1, <3>2
    <2>3. CASE mem[a] = h
      <3>1. At(h.by, "associate") /\ Top(h.by).op = h.op /\ Top(h.by).row = h.row
        BY <1>0, <1>2, <2>3 DEF PlacedByTop
      <3>2. CASE h.by = t
        <4>1. PICK f : Here(t, f)
          BY <1>0, <3>1, <3>2, HereIs DEF At
        <4>2. f = Top(t) /\ f.at = "associate" /\ f.op = h.op /\ f.row = h.row
          BY <3>1, <3>2, <4>1 DEF At, Here, Stands
        <4>3. helper_'[f.op][f.row] # Null
          BY <2>1, <4>1, <4>2 DEF Places
        <4> QED
          BY <4>2, <4>3
      <3>3. CASE h.by # t
        <4>1. stack'[h.by] = stack[h.by]
          BY <1>1, <2>1, <3>3 DEF Cut
        <4> QED
          BY <3>1, <4>1 DEF At, Top
      <3> QED
        BY <3>2, <3>3
    <2> QED
      BY <2>2, <2>3
  <1>4. ASSUME NEW e, NEW g, NEW c, Grows(t, e, g, c)
        PROVE  /\ At(h.by, "associate")'
               /\ Top(h.by)'.op = h.op /\ Top(h.by)'.row = h.row
    <2>1. Grow(t, g, c) /\ Here(t, e) /\ e.at # "associate" /\ Quiet
      BY <1>4 DEF Grows
    <2>2. At(h.by, "associate") /\ Top(h.by).op = h.op /\ Top(h.by).row = h.row
      BY <1>0, <1>2, <2>1 DEF PlacedByTop, Quiet
    <2>3. h.by # t
      BY <2>1, <2>2 DEF Here, Stands, At
    <2>4. stack'[h.by] = stack[h.by]
      BY <1>1, <2>1, <2>3 DEF Grow
    <2> QED
      BY <2>2, <2>4 DEF At, Top
  <1> QED
    BY <1>3, <1>4 DEF Moves

LEMMA LogicalValues == Control => \A a \in Addrs : LogicalOf(mem[a]) \in Values
  BY LogicalValue

LEMMA StacksTyped ==
  ASSUME IInv, NEW t \in Threads, Moves(t)
  PROVE  stack' \in [Threads -> Seq(Frames)]
  BY DEF Moves, Cuts, Cut, Grows, Grow

\* Stacks and memory of the next state.
LEMMA ControlKept ==
  ASSUME IInv, NEW t \in Threads, Effect(t), Moves(t), cas_rows_' = cas_rows_, UNCHANGED reclamation
  PROVE  Control' /\ FramesOk'
  <1>0. Control /\ Types /\ RowsSorted /\ op' = op
    BY DEF IInv, Control, Moves
  <1>r. /\ \A o : Rows(o)' = Rows(o) /\ RowCount(o)' = RowCount(o)
        /\ \A o, i : Row(o, i)' = Row(o, i)
    BY RowsKept
  <1>1. Types'
    BY <1>0, EffectTypes, StacksTyped DEF Types, SharedTypes, Moves, reclamation
  <1>2. RowsSorted'
    BY <1>0, <1>r DEF RowsSorted
  <1>3. HelperRows' /\ MemRows' /\ FreshRows'
    BY SharedKept
  <1>4. Announced'
    BY <1>r DEF Announced, Moves, RowCount
  <1>5. Shapes'
    <2>1. ASSUME NEW u \in Threads
          PROVE  /\ \A k \in 1 .. Len(stack'[u]) : \A f \in {stack'[u][k]} : FrameShape(f)'
                 /\ \A k \in 1 .. (Len(stack'[u]) - 1) :
                      \A g \in {stack'[u][k]} : \A f \in {stack'[u][k + 1]} : Link(g, f, k)
                 /\ Caller(u)'
      BY FramesKept, LinksKept, CallerKept
    <2>2. \A g, f, k : Link(g, f, k)' <=> Link(g, f, k)
      BY DEF Link
    <2> QED
      BY <2>1, <2>2 DEF Shapes
  <1>6. FramesOk'
    BY FramesKept DEF FramesOk
  <1> QED
    BY <1>1, <1>2, <1>3, <1>4, <1>5, <1>6 DEF Control

LEMMA AccessKept ==
  ASSUME IInv, NEW t \in Threads, Effect(t), Moves(t), cas_rows_' = cas_rows_, UNCHANGED reclamation,
         held' = [u \in Threads |->
                    IF stack[u] = <<>> THEN held[u]
                    ELSE [a \in Addrs |-> held[u][a] \cup {Logical'[a]}]]
  PROVE  IInv'
  <1>0. Retirement /\ Types /\ HistoryType
    BY DEF IInv, Control
  <1>1. Control' /\ FramesOk'
    BY ControlKept
  <1>2. HelperPrefix' /\ MemPrefix' /\ Outcomes' /\ AssociatedStays'
    BY SharedKept
  <1>3. Retirement'
    <2>1. \A o \in Ops : Emptied(o) => Emptied(o)'
      BY SharedKept
    <2>2. /\ deleted' = deleted /\ deleted \subseteq Ops
          /\ \A u \in Threads : retired'[u] = retired[u] /\ unchecked'[u] = unchecked[u] /\ scan'[u] = scan[u]
                             /\ retired[u] \subseteq Ops
      BY <1>0 DEF reclamation, Types
    <2>3. (Retirement <=>
             /\ \A o \in deleted : Emptied(o)
             /\ \A u \in Threads :
                  /\ \A o \in retired[u] : Emptied(o)
                  /\ unchecked[u] \subseteq retired[u]
                  /\ scan[u] # Null => scan[u] \in retired[u])'
      BY DEF Retirement
    <2> HIDE DEF Emptied
    <2> QED
      BY <1>0, <2>1, <2>2, <2>3 DEF Retirement
  <1>4. HistoryType'
    <2>1. (Control => \A a \in Addrs : LogicalOf(mem[a]) \in Values)'
      BY LogicalValues, PTL
    <2>2. \A a \in Addrs : Logical'[a] \in Values
      BY <1>1, <2>1 DEF Logical
    <2>3. ASSUME NEW u \in Threads
          PROVE  (IF stack[u] = <<>> THEN held[u]
                  ELSE [a \in Addrs |-> held[u][a] \cup {Logical'[a]}]) \in [Addrs -> SUBSET Values]
      <3>1. held[u] \in [Addrs -> SUBSET Values]
        BY <1>0 DEF HistoryType
      <3> HIDE DEF Logical
      <3>2. [a \in Addrs |-> held[u][a] \cup {Logical'[a]}] \in [Addrs -> SUBSET Values]
        BY <2>2, <3>1
      <3> QED
        BY <3>1, <3>2
    <2> HIDE DEF Logical
    <2> QED
      BY <2>3 DEF HistoryType
  <1>5. Descending' /\ PlacedByTop'
    BY DescendingKept, PlacedKept
  <1> QED
    BY <1>1, <1>2, <1>3, <1>4, <1>5 DEF IInv

-----------------------------------------------------------------------------
(* The ways an activation goes on                                          *)

Frozen == op' = op /\ cas_rows_' = cas_rows_
Good(t) == Effect(t) /\ Moves(t)

LEMMA TableKept ==
  ASSUME IInv, cas_rows_' = cas_rows_,
         \/ op_table_' = op_table_
         \/ \E t \in Threads : op_table_' = [op_table_ EXCEPT ![t] = Null]
         \/ \E t \in Threads : \E o \in Ops :
              RowCount(o) > 0 /\ op_table_' = [op_table_ EXCEPT ![t] = o]
  PROVE  /\ op_table_' \in [Threads -> Ops \cup {Null}]
         /\ \A u \in Threads : op_table_'[u] # Null => RowCount(op_table_'[u]) > 0
  <1>1. /\ op_table_ \in [Threads -> Ops \cup {Null}]
        /\ \A u \in Threads : op_table_[u] # Null => RowCount(op_table_[u]) > 0
    BY DEF IInv, Control, Types, Announced
  <1> QED
    BY <1>1

LEMMA HereFacts ==
  ASSUME IInv, NEW t \in Threads, NEW f, Here(t, f)
  PROVE  /\ Control /\ Types /\ RowsSorted /\ stack[t] # <<>> /\ f = stack[t][Len(stack[t])]
         /\ Len(stack[t]) \in 1 .. Len(stack[t]) /\ Len(stack[t]) \in Nat /\ f \in Frames
         /\ FrameShape(f) /\ FrameOk(t, f) /\ Address(f) \in Addrs
         /\ f.op = Null <=> op[t] = Null
         /\ f.op = Null => Len(stack[t]) = 1
         /\ f.at \in {"cleanup", "done"} => Len(stack[t]) = 1 /\ f.op = op[t]
         /\ f.at \notin Reading => f.op # Null
         /\ f.op # Null => /\ f.op \in Ops /\ f.row \in Rows(f.op) /\ RowCount(f.op) \in Nat
                           /\ f.row \in Nat /\ f.row >= 1 /\ f.row <= RowCount(f.op)
                           /\ Address(f) = Row(f.op, f.row).address
                           /\ Row(f.op, f.row).expected \in Values
  <1>1. Control /\ Types /\ RowsSorted /\ FramesOk /\ Caller(t) /\ stack[t] # <<>>
    BY DEF IInv, Control, Shapes, Here, Stands
  <1>2. Len(stack[t]) \in 1 .. Len(stack[t]) /\ Len(stack[t]) \in Nat
    BY <1>1, StackLength
  <1>3. f = stack[t][Len(stack[t])] /\ f \in Frames /\ FrameShape(f) /\ Sound(f)
    BY DEF Here, Stands
  <1>4. FrameOk(t, f)
    BY <1>1, <1>2, <1>3 DEF FramesOk
  <1>5. /\ f.op = Null <=> op[t] = Null
        /\ f.op = Null => Len(stack[t]) = 1
        /\ f.at \in {"cleanup", "done"} => Len(stack[t]) = 1 /\ f.op = op[t]
    BY <1>1, <1>2, <1>3 DEF Caller
  <1>6. ASSUME f.op # Null
        PROVE  /\ f.op \in Ops /\ f.row \in Rows(f.op) /\ RowCount(f.op) \in Nat
               /\ f.row \in Nat /\ f.row >= 1 /\ f.row <= RowCount(f.op)
               /\ Address(f) = Row(f.op, f.row).address
               /\ Row(f.op, f.row).expected \in Values
    <2>1. f.op \in Ops /\ f.row \in Rows(f.op) /\ Address(f) = Row(f.op, f.row).address
      BY <1>3, <1>6 DEF Sound
    <2> QED
      BY <1>1, <2>1, RowTyped DEF Rows
  <1> QED
    BY <1>1, <1>2, <1>3, <1>4, <1>5, <1>6 DEF Sound, FrameShape

LEMMA QuietFrame ==
  ASSUME Quiet, cas_rows_' = cas_rows_, NEW t, NEW g
  PROVE  FrameOk(t, g)' <=> FrameOk(t, g)
  BY DEF Quiet, FrameOk, Prefix, Settled, Held, Rows, RowCount, Row, Address, InProgress, Helper

\* A Helper that is new at its address.
LEMMA PlacesNone ==
  ASSUME IInv, NEW t \in Threads, NEW f, Here(t, f),
         f.at = "associate" => helper_'[f.op][f.row] # Null,
         mem' = mem \/ \E a \in Addrs : \E v \in Values : mem' = [mem EXCEPT ![a] = v],
         NEW g
  PROVE  Places(t, g)
  <1>1. \A e : Here(t, e) => e = f
    BY DEF Here, Stands
  <1>2. \A a \in Addrs : \A h \in Helpers : ~(mem'[a] = h /\ mem[a] # h)
    <2>1. CASE mem' = mem
      BY <2>1
    <2>2. ASSUME NEW b \in Addrs, NEW v \in Values, mem' = [mem EXCEPT ![b] = v]
          PROVE  \A a \in Addrs : \A h \in Helpers : ~(mem'[a] = h /\ mem[a] # h)
      <3>1. mem'[b] = v /\ \A a \in Addrs : a # b => mem'[a] = mem[a]
        BY <2>2 DEF IInv, Control, Types
      <3> QED
        BY <3>1, WordsAssumption
    <2> QED
      BY <2>1, <2>2
  <1> QED
    BY <1>1, <1>2 DEF Places

\* The topmost activation stays at its row.
LEMMA StaysMoves ==
  ASSUME IInv, NEW t \in Threads, NEW f, Here(t, f), Frozen, op_table_' = op_table_, NEW g \in Frames,
         Cut(t, Len(stack[t]), g), g.op = f.op, g.row = f.row, g.wf = f.wf,
         FrameShape(g), FrameOk(t, g)', Places(t, g), Loose(f) => Loose(g)',
         g.at \notin {"helping", "announced", "cleanup"}, g.at = "done" => f.op = Null \/ f.at = "cleanup"
  PROVE  Moves(t)
  <1>1. /\ Control /\ f = stack[t][Len(stack[t])] /\ (op[t] = Null <=> f.op = Null)
        /\ f.op = Null => Len(stack[t]) = 1
        /\ f.at \in {"cleanup", "done"} => Len(stack[t]) = 1 /\ f.op = op[t]
    BY HereFacts
  <1>2. Fits(t, g)
    BY <1>1 DEF Fits
  <1>3. Address(g) = Address(f)
    BY DEF Address
  <1>4. g.at \in {"cleanup", "done"} => Len(stack[t]) = 1 /\ g.op = op[t]
    BY <1>1
  <1>5. Cuts(t, Len(stack[t]), f, g)
    BY <1>1, <1>2, <1>3, <1>4, Zenon DEF Cuts
  <1> QED
    BY <1>5, TableKept DEF Moves, Frozen

\* ... and memory stays as it is.
LEMMA StaysGood ==
  ASSUME IInv, NEW t \in Threads, NEW f, Here(t, f), Frozen, op_table_' = op_table_, NEW g \in Frames,
         Quiet, NEW l, NEW v, NEW r,
         Becomes(t, g, f.op, f.row, l, f.wf, v, r), FrameShape(g), FrameOk(t, g),
         f.at # "associate" \/ helper_[f.op][f.row] # Null, Loose(f) => Loose(g),
         l \notin {"helping", "announced", "cleanup"}, l = "done" => f.op = Null \/ f.at = "cleanup"
  PROVE  Good(t)
  <1>1. Effect(t)
    BY DEF Effect
  <1>2. FrameOk(t, g)' /\ (Loose(g)' <=> Loose(g))
    BY QuietFrame DEF Frozen, Quiet, Loose, Settled
  <1>3. Places(t, g)
    BY PlacesNone DEF Quiet
  <1> QED
    BY <1>1, <1>2, <1>3, StaysMoves DEF Good, Becomes, Fields

LEMMA PassesMoves ==
  ASSUME IInv, NEW t \in Threads, NEW f, Here(t, f), Frozen, op_table_' = op_table_, f.op # Null,
         Passes(t, f), Effect(t), mem' = mem, Settled(f.op, f.row)'
  PROVE  Moves(t)
  <1>0. /\ Control /\ Types /\ RowsSorted /\ f = stack[t][Len(stack[t])] /\ (op[t] = Null <=> f.op = Null)
        /\ Len(stack[t]) \in 1 .. Len(stack[t]) /\ f.op \in Ops /\ f.row \in Rows(f.op)
        /\ f.row \in Nat /\ f.row >= 1 /\ RowCount(f.op) \in Nat /\ f.row <= RowCount(f.op)
        /\ Address(f) = Row(f.op, f.row).address /\ FrameOk(t, f)
    BY HereFacts
  <1>1. FrameOk(t, f)'
    BY <1>0, FrameKept DEF Frozen
  <1>2. Prefix(f.op, f.row)'
    BY <1>0, <1>1 DEF FrameOk
  <1>3. \A g : Places(t, g)
    <2>1. helper_'[f.op][f.row] # Null
      BY DEF Settled
    <2> QED
      BY <2>1, PlacesNone
  <1>4. ASSUME NEW g \in Frames, f.row < RowCount(f.op),
               Becomes(t, g, f.op, f.row + 1, "load", f.wf, Null, FALSE)
        PROVE  Moves(t)
    <2>1. /\ Cut(t, Len(stack[t]), g) /\ g.op = f.op /\ g.row = f.row + 1 /\ g.at = "load"
          /\ g.wf = f.wf
      BY <1>4 DEF Becomes, Fields
    <2>2. f.row + 1 \in Rows(f.op) /\ f.row < f.row + 1
      BY <1>0, <1>4 DEF Rows
    <2>3. Address(g) < Address(f)
      BY <1>0, <2>1, <2>2 DEF RowsSorted, Address
    <2>4. FrameShape(g)
      BY <1>0, <2>1, <2>2 DEF FrameShape, Meeting
    <2>5. Prefix(f.op, f.row + 1)'
      <3>1. \A j \in 1 .. ((f.row + 1) - 1) : j = f.row \/ j \in 1 .. (f.row - 1)
        BY <1>0
      <3> QED
        BY <1>2, <3>1 DEF Prefix
    <2>6. FrameOk(t, g)'
      BY <1>0, <2>1, <2>5 DEF FrameOk, Meeting
    <2>7. Cuts(t, Len(stack[t]), f, g)
      BY <1>0, <1>3, <2>1, <2>3, <2>4, <2>6 DEF Cuts, Fits
    <2> QED
      BY <2>7, TableKept DEF Moves, Frozen
  <1>5. ASSUME NEW g \in Frames, f.row = RowCount(f.op),
               Becomes(t, g, f.op, f.row, "pass", f.wf, f.val, f.res)
        PROVE  Moves(t)
    <2>1. /\ Cut(t, Len(stack[t]), g) /\ g.op = f.op /\ g.row = f.row /\ g.at = "pass"
          /\ g.wf = f.wf
      BY <1>5 DEF Becomes, Fields
    <2>2. FrameShape(g)
      BY <1>0, <2>1 DEF FrameShape, Meeting
    <2>3. \A j \in Rows(f.op) : Settled(f.op, j)'
      <3>1. \A j \in Rows(f.op) : j = f.row \/ j \in 1 .. (f.row - 1)
        BY <1>0, <1>5 DEF Rows
      <3> QED
        BY <1>2, <3>1 DEF Prefix
    <2>4. Rows(g.op)' = Rows(f.op)
      BY <2>1, RowsKept DEF Frozen
    <2>5. FrameOk(t, g)'
      BY <1>0, <1>2, <2>1, <2>3, <2>4 DEF FrameOk, Meeting
    <2>6. Loose(g)'
      BY <2>1 DEF Loose
    <2> QED
      BY <1>3, <2>1, <2>2, <2>5, <2>6, StaysMoves
  <1> QED
    BY <1>4, <1>5 DEF Passes

LEMMA ReturnedMoves ==
  ASSUME IInv, NEW t \in Threads, NEW f, Here(t, f), Frozen, op_table_' = op_table_, f.op # Null,
         f.at # "associate", NEW r \in BOOLEAN, Returned(t, r), Effect(t), mem' = mem,
         ~InProgress(f.op)', r = (state_'[f.op] = "PASS")
  PROVE  Moves(t)
  <1> DEFINE n == Len(stack[t])
  <1>0. /\ Control /\ Types /\ RowsSorted /\ f = stack[t][n] /\ op[t] # Null
        /\ n \in 1 .. n /\ n \in Nat /\ f.op \in Ops /\ f.row \in Rows(f.op)
        /\ f.row \in Nat /\ f.row >= 1 /\ RowCount(f.op) \in Nat /\ f.row <= RowCount(f.op)
        /\ Caller(t)
    BY HereFacts DEF Control, Shapes
  <1>1. \A g : Places(t, g)
    BY PlacesNone
  <1>2. \A b, c, g : Cuts(t, b, c, g) => Moves(t)
    BY TableKept DEF Moves, Frozen
  <1>3. Stands(t, f)
    BY DEF Here
  <1>4. ASSUME NEW c \in Frames, NEW g \in Frames, n > 1, c = stack[t][n - 1], Cut(t, n - 1, g),
               Fields(g, c.op, c.row, IF c.at = "helping" THEN "uninstall" ELSE "withdraw",
                      c.wf, c.val, r)
        PROVE  Moves(t)
    <2>1. n - 1 \in 1 .. n /\ n - 1 \in 1 .. (n - 1) /\ (n - 1) + 1 = n /\ n - 1 # n
      <3> HIDE DEF n
      <3> QED
        BY <1>0, <1>4
    <2>2. FrameShape(c) /\ Sound(c) /\ FrameOk(t, c)'
      BY <1>0, <1>4, <2>1, FrameFacts, FrameKept DEF Frozen
    <2>3. Link(c, f, n - 1)
      <3>1. Link(stack[t][n - 1], stack[t][(n - 1) + 1], n - 1)
        BY <1>0, <2>1 DEF Control, Shapes
      <3> QED
        BY <1>0, <1>4, <2>1, <3>1
    <2>4. c.op # Null
      BY <1>0, <1>4, <2>1 DEF Caller
    <2>5. g.op = c.op /\ g.row = c.row /\ g.wf = c.wf /\ g.val = c.val /\ g.res = r
      BY <1>4 DEF Fields
    <2>6. Address(g) = Address(c)
      BY <2>5 DEF Address
    <2>7. CASE c.at = "helping"
      <3>1. g.at = "uninstall" /\ c.val.op = f.op
        BY <1>4, <2>3, <2>7 DEF Fields, Link
      <3>2. FrameShape(g)
        BY <2>2, <2>4, <2>5, <2>6, <2>7, <3>1 DEF FrameShape, Meeting
      <3>3. FrameOk(t, g)'
        BY <2>2, <2>4, <2>5, <2>7, <3>1 DEF FrameOk, Meeting
      <3>4. Cuts(t, n - 1, c, g)
        BY <1>0, <1>1, <1>4, <2>1, <2>4, <2>5, <2>6, <3>1, <3>2, <3>3 DEF Cuts, Fits
      <3> QED
        BY <1>2, <3>4
    <2>8. CASE c.at # "helping"
      <3>1. g.at = "withdraw" /\ c.op = f.op /\ c.at = "announced"
        BY <1>4, <2>3, <2>8 DEF Fields, Link
      <3>2. FrameShape(g)
        BY <2>2, <2>4, <2>5, <3>1 DEF FrameShape, Meeting
      <3>3. FrameOk(t, g)'
        BY <2>2, <2>4, <2>5, <3>1 DEF FrameOk, Meeting
      <3>4. Cuts(t, n - 1, c, g)
        BY <1>0, <1>1, <1>4, <2>1, <2>4, <2>5, <2>6, <3>1, <3>2, <3>3 DEF Cuts, Fits
      <3> QED
        BY <1>2, <3>4
    <2> QED
      BY <2>7, <2>8
  <1>5. ASSUME NEW g \in Frames, n = 1, f.op = op[t], Cut(t, 1, g),
               Fields(g, f.op, 1, "cleanup", f.wf, f.val, r)
        PROVE  Moves(t)
    <2>1. g.op = f.op /\ g.row = 1 /\ g.at = "cleanup" /\ g.res = r
      BY <1>5 DEF Fields
    <2>2. 1 \in Rows(f.op)
      BY <1>0 DEF Rows
    <2>3. FrameShape(g)
      BY <2>1, <2>2 DEF FrameShape, Meeting
    <2>4. Prefix(f.op, 1)'
      BY DEF Prefix
    <2>5. FrameOk(t, g)'
      BY <2>1, <2>4 DEF FrameOk, Meeting
    <2>6. Cuts(t, 1, f, g)
      BY <1>0, <1>1, <1>5, <2>1, <2>3, <2>5 DEF Cuts, Fits
    <2> QED
      BY <1>2, <2>6
  <1>6. ASSUME NEW g \in Frames, n = 1, f.op # op[t], Cut(t, 1, g),
               Fields(g, op[t], 1, "load", FALSE, Null, FALSE)
        PROVE  Moves(t)
    <2>1. g.op = op[t] /\ g.row = 1 /\ g.at = "load"
      BY <1>6 DEF Fields
    <2>2. 1 \in Rows(op[t])
      <3>1. op[t] \in Ops /\ RowCount(op[t]) > 0
        BY <1>0 DEF Caller, Types
      <3>2. RowCount(op[t]) \in Nat
        BY <1>0, <3>1 DEF Types, RowCount
      <3> QED
        BY <3>1, <3>2 DEF Rows
    <2>3. FrameShape(g)
      BY <1>0, <2>1, <2>2 DEF FrameShape, Meeting
    <2>4. Prefix(op[t], 1)'
      BY DEF Prefix
    <2>5. FrameOk(t, g)'
      <3>1. Prefix(g.op, g.row)'
        BY <2>1 DEF Prefix
      <3> QED
        BY <2>1, <3>1 DEF FrameOk, Meeting
    <2>6. Cuts(t, 1, f, g)
      BY <1>0, <1>1, <1>6, <2>1, <2>3, <2>5 DEF Cuts, Fits
    <2> QED
      BY <1>2, <2>6
  <1>7. \/ /\ n > 1
           /\ \E c, g \in Frames :
                /\ c = stack[t][n - 1] /\ Cut(t, n - 1, g)
                /\ Fields(g, c.op, c.row, IF c.at = "helping" THEN "uninstall" ELSE "withdraw",
                          c.wf, c.val, r)
        \/ /\ n = 1 /\ f.op = op[t]
           /\ \E g \in Frames : Cut(t, 1, g) /\ Fields(g, f.op, 1, "cleanup", f.wf, f.val, r)
        \/ /\ n = 1 /\ f.op # op[t]
           /\ \E g \in Frames : Cut(t, 1, g) /\ Fields(g, op[t], 1, "load", FALSE, Null, FALSE)
    <2>1. f \in Frames
      BY DEF Here
    <2> QED
      BY <1>0, <1>3, <2>1, ReturnedCuts
  <1> HIDE DEF n
  <1> QED
    BY <1>4, <1>5, <1>6, <1>7

LEMMA RecursiveMoves ==
  ASSUME IInv, NEW t \in Threads, NEW f, Here(t, f), Frozen, op_table_' = op_table_,
         f.at # "associate", Depth(t) # 0, RecursiveReturn(t), Quiet
  PROVE  Good(t)
  <1>0. Control /\ Types /\ RowsSorted /\ Caller(t)
    BY DEF IInv, Control, Shapes
  <1>e. Effect(t)
    BY DEF Effect
  <1>1. PICK b \in 1 .. Len(stack[t]) : \E c, g \in Frames :
           /\ c = stack[t][b] /\ c.at = "helping" /\ Cut(t, b, g)
           /\ Fields(g, c.op, c.row, "reload", c.wf, c.val, c.res)
    BY <1>0, RecursiveReturnCuts
  <1>2. PICK c \in Frames, g \in Frames :
           /\ c = stack[t][b] /\ c.at = "helping" /\ Cut(t, b, g)
           /\ Fields(g, c.op, c.row, "reload", c.wf, c.val, c.res)
    BY <1>1
  <1>3. FrameShape(c) /\ FrameOk(t, c)' /\ c.op # Null /\ op[t] # Null
    <2>1. FrameShape(c) /\ FrameOk(t, c)'
      BY <1>0, <1>2, <1>e, FrameFacts, FrameKept DEF Frozen
    <2>2. c.op # Null
      BY <1>2, <2>1 DEF FrameShape, Reading
    <2> QED
      BY <1>0, <1>2, <2>1, <2>2 DEF Caller
  <1>4. g.op = c.op /\ g.row = c.row /\ g.at = "reload" /\ g.wf = c.wf
    BY <1>2 DEF Fields
  <1>5. FrameShape(g) /\ Address(g) = Address(c)
    BY <1>3, <1>4 DEF FrameShape, Meeting, Address
  <1>6. FrameOk(t, g)'
    BY <1>3, <1>4 DEF FrameOk, Meeting
  <1>7. Places(t, g)
    BY PlacesNone DEF Quiet
  <1>8. Cuts(t, b, c, g)
    BY <1>2, <1>3, <1>4, <1>5, <1>6, <1>7 DEF Cuts, Fits, Loose
  <1> QED
    BY <1>e, <1>8, TableKept DEF Moves, Frozen, Good

-----------------------------------------------------------------------------
(* Every access of shared memory is good                                   *)

\* Turns without a change of memory.
LEMMA TurnsGood ==
  ASSUME IInv, NEW t \in Threads, NEW f, Here(t, f), Frozen, op_table_' = op_table_, NEW l,
         Turns(t, f, l), Quiet, f.at # "associate" \/ helper_[f.op][f.row] # Null,
         l \notin {"helping", "announced", "cleanup"}, l = "done" => f.op = Null \/ f.at = "cleanup",
         \A g \in Frames : Fields(g, f.op, f.row, l, f.wf, f.val, f.res) /\ Address(g) = Address(f) =>
           FrameShape(g) /\ FrameOk(t, g) /\ (Loose(f) => Loose(g))
  PROVE  Good(t)
  <1>1. PICK g \in Frames : Becomes(t, g, f.op, f.row, l, f.wf, f.val, f.res)
    BY DEF Turns
  <1>2. Fields(g, f.op, f.row, l, f.wf, f.val, f.res) /\ Address(g) = Address(f)
    BY <1>1 DEF Becomes, Fields, Address
  <1> QED
    BY <1>1, <1>2, StaysGood

LEMMA TurnsMoves ==
  ASSUME IInv, NEW t \in Threads, NEW f, Here(t, f), Frozen, op_table_' = op_table_, NEW l,
         Turns(t, f, l), \A g : Places(t, g), ~Loose(f),
         l \notin {"helping", "announced", "cleanup"}, l = "done" => f.op = Null \/ f.at = "cleanup",
         \A g \in Frames : Fields(g, f.op, f.row, l, f.wf, f.val, f.res) /\ Address(g) = Address(f) =>
           FrameShape(g) /\ FrameOk(t, g)'
  PROVE  Moves(t)
  <1>1. PICK g \in Frames : Becomes(t, g, f.op, f.row, l, f.wf, f.val, f.res)
    BY DEF Turns
  <1>2. Fields(g, f.op, f.row, l, f.wf, f.val, f.res) /\ Address(g) = Address(f)
    BY <1>1 DEF Becomes, Fields, Address
  <1> QED
    BY <1>1, <1>2, StaysMoves DEF Becomes, Fields

LEMMA LoadGood ==
  ASSUME IInv, NEW t \in Threads, Load(t), Frozen
  PROVE  Good(t)
  <1>0. Control /\ op_table_' = op_table_ /\ MemRows /\ MemPrefix
    BY DEF Load, IInv, Control
  <1>1. PICK f, g :
           /\ Here(t, f) /\ f.at \in {"load", "reload"} /\ g \in Frames
           /\ \/ f.op # Null /\ Becomes(t, g, f.op, f.row, "row", f.wf, mem[Address(f)], f.res)
              \/ /\ f.op = Null /\ mem[Address(f)] \in Helpers
                 /\ Becomes(t, g, f.op, f.row, "watch", f.wf, mem[Address(f)], f.res)
              \/ /\ f.op = Null /\ mem[Address(f)] \in Values
                 /\ Becomes(t, g, f.op, f.row, "done", f.wf, mem[Address(f)], f.res)
           /\ Quiet
    BY <1>0, LoadStep
  <1>2. FrameShape(f) /\ FrameOk(t, f) /\ Address(f) \in Addrs /\ Types
    BY <1>1, HereFacts
  <1> DEFINE w == mem[Address(f)]
  <1>3. /\ w \in Words /\ WordAt(w, Address(f))
        /\ w \in Helpers => Prefix(w.op, w.row)
    BY <1>0, <1>2 DEF Types, MemRows, MemPrefix
  <1> HIDE DEF w
  <1>4. ASSUME NEW l, Fields(g, f.op, f.row, l, f.wf, w, f.res), l \in {"row", "watch", "done"},
               l = "row" <=> f.op # Null, l = "watch" => w \in Helpers
        PROVE  FrameShape(g) /\ FrameOk(t, g) /\ (Loose(f) /\ l = "row" => Loose(g))
    <2>1. /\ g.op = f.op /\ g.row = f.row /\ g.at = l /\ g.val = w /\ Address(g) = Address(f)
      BY <1>4 DEF Fields, Address
    <2>2. FrameShape(g)
      BY <1>2, <1>3, <1>4, <2>1 DEF FrameShape, Meeting, Reading
    <2>3. FrameOk(t, g)
      BY <1>2, <1>3, <1>4, <2>1 DEF FrameOk, Meeting
    <2> QED
      BY <2>1, <2>2, <2>3 DEF Loose
  <1>5. CASE f.op # Null /\ Becomes(t, g, f.op, f.row, "row", f.wf, w, f.res)
    <2>1. Becomes(t, g, f.op, f.row, "row", f.wf, w, f.res) /\ f.op # Null
      BY <1>5
    <2>2. FrameShape(g) /\ FrameOk(t, g) /\ (Loose(f) => Loose(g))
      BY <1>4, <2>1 DEF Becomes
    <2>3. f.at # "associate"
      BY <1>1
    <2> QED
      BY <1>0, <1>1, <2>1, <2>2, <2>3, StaysGood
  <1>6. ASSUME f.op = Null, NEW l \in {"watch", "done"}, l = "watch" => w \in Helpers,
               Becomes(t, g, f.op, f.row, l, f.wf, w, f.res)
        PROVE  Good(t)
    <2>1. FrameShape(g) /\ FrameOk(t, g)
      BY <1>4, <1>6 DEF Becomes
    <2>2. Cut(t, Len(stack[t]), g) /\ g.op = f.op /\ g.row = f.row /\ g.wf = f.wf /\ g.at = l
      BY <1>6 DEF Becomes, Fields
    <2>3. Fits(t, g)
      BY <1>1, <1>6, <2>1, <2>2, HereFacts, QuietFrame DEF Fits, Frozen
    <2>4. Places(t, g)
      BY <1>1, PlacesNone DEF Quiet
    <2>5. Cuts(t, 1, f, g)
      <3>1. Len(stack[t]) = 1 /\ f = stack[t][1] /\ op[t] = Null
        BY <1>1, <1>6, HereFacts
      <3> QED
        BY <1>6, <2>2, <2>3, <2>4, <3>1 DEF Cuts
    <2>6. Effect(t)
      BY <1>1 DEF Effect
    <2> QED
      BY <1>0, <2>5, <2>6, TableKept DEF Moves, Frozen, Good
  <1> QED
    BY <1>1, <1>5, <1>6 DEF w

LEMMA SeeHelperGood ==
  ASSUME IInv, NEW t \in Threads, SeeHelper(t), Frozen
  PROVE  Good(t)
  <1>0. Control /\ op_table_' = op_table_
    BY DEF SeeHelper, IInv, Control
  <1>1. PICK f :
           /\ Here(t, f) /\ f.at = "row" /\ f.op # Null
           /\ \/ helper_[f.op][f.row] = Null /\ Turns(t, f, "state")
              \/ helper_[f.op][f.row] = FAIL_CONST /\ Turns(t, f, "fail")
              \/ Settled(f.op, f.row) /\ Passes(t, f)
           /\ Quiet
    BY <1>0, SeeHelperStep
  <1>2. /\ FrameShape(f) /\ FrameOk(t, f) /\ f.op \in Ops /\ f.row \in Rows(f.op)
        /\ Types /\ RowsSorted
    BY <1>1, HereFacts
  <1>3. CASE helper_[f.op][f.row] = Null /\ Turns(t, f, "state")
    <2>1. Helper(f.op, f.row, t) # Null
      BY <1>2, OwnHelper
    <2>2. ASSUME NEW g \in Frames, Fields(g, f.op, f.row, "state", f.wf, f.val, f.res),
                 Address(g) = Address(f)
          PROVE  FrameShape(g) /\ FrameOk(t, g) /\ ~Loose(f)
      <3>1. g.op = f.op /\ g.row = f.row /\ g.at = "state" /\ g.val = f.val
        BY <2>2 DEF Fields
      <3>2. FrameShape(g)
        BY <1>1, <1>2, <2>2, <3>1 DEF FrameShape, Meeting
      <3>3. FrameOk(t, g)
        BY <1>1, <1>2, <1>3, <2>1, <3>1 DEF FrameOk, Meeting
      <3> QED
        BY <1>3, <3>2, <3>3 DEF Loose, Settled
    <2> QED
      BY <1>0, <1>1, <1>3, <2>2, TurnsGood
  <1>4. CASE helper_[f.op][f.row] = FAIL_CONST /\ Turns(t, f, "fail")
    <2>2. ASSUME NEW g \in Frames, Fields(g, f.op, f.row, "fail", f.wf, f.val, f.res),
                 Address(g) = Address(f)
          PROVE  FrameShape(g) /\ FrameOk(t, g) /\ ~Loose(f)
      <3>1. g.op = f.op /\ g.row = f.row /\ g.at = "fail" /\ g.val = f.val
        BY <2>2 DEF Fields
      <3>2. FrameShape(g)
        BY <1>1, <1>2, <2>2, <3>1 DEF FrameShape, Meeting
      <3>3. FrameOk(t, g)
        BY <1>1, <1>2, <1>4, <3>1 DEF FrameOk, Meeting
      <3> QED
        BY <1>4, <3>2, <3>3 DEF Loose, Settled
    <2> QED
      BY <1>0, <1>1, <1>4, <2>2, TurnsGood
  <1>5. CASE Settled(f.op, f.row) /\ Passes(t, f)
    <2>1. Effect(t) /\ Settled(f.op, f.row)' /\ mem' = mem
      BY <1>1, <1>5 DEF Effect, Settled, Quiet
    <2> QED
      BY <1>0, <1>1, <1>5, <2>1, PassesMoves DEF Good
  <1> QED
    BY <1>1, <1>3, <1>4, <1>5

LEMMA SeeStateGood ==
  ASSUME IInv, NEW t \in Threads, SeeState(t), Frozen
  PROVE  Good(t)
  <1>0. Control
    BY DEF IInv
  <1>1. PICK f :
           /\ Here(t, f) /\ f.at = "state" /\ f.op # Null
           /\ \/ ~InProgress(f.op) /\ Returned(t, state_[f.op] = "PASS") /\ op_table_' = op_table_
              \/ /\ Depth(t) = 0 /\ ~f.wf
                 /\ op_table_' = [op_table_ EXCEPT ![t] = f.op]
                 /\ \E g, c \in Frames :
                      /\ Grow(t, g, c)
                      /\ Fields(g, f.op, f.row, "announced", f.wf, f.val, f.res)
                      /\ Fields(c, f.op, 1, "load", TRUE, Null, FALSE)
              \/ Depth(t) # 0 /\ RecursiveReturn(t) /\ op_table_' = op_table_
              \/ /\ op_table_' = op_table_
                 /\ \/ f.val \in Helpers /\ Turns(t, f, "watch")
                    \/ f.val = Row(f.op, f.row).expected /\ Turns(t, f, "place")
                    \/ /\ f.val \in Values /\ f.val # Row(f.op, f.row).expected
                       /\ Turns(t, f, "mismatch")
           /\ Quiet
    BY <1>0, SeeStateStep
  <1>2. /\ FrameShape(f) /\ FrameOk(t, f) /\ f.op \in Ops /\ f.row \in Rows(f.op)
        /\ Types /\ RowsSorted /\ op[t] # Null /\ ~Loose(f)
        /\ RowCount(f.op) \in Nat /\ f.row \in Nat /\ f.row >= 1 /\ f.row <= RowCount(f.op)
        /\ Row(f.op, f.row).expected \in Values
        /\ f = stack[t][Len(stack[t])] /\ Len(stack[t]) \in 1 .. Len(stack[t])
        /\ Len(stack[t]) \in Nat
    BY <1>1, HereFacts DEF Loose
  <1>e. Effect(t)
    BY <1>1 DEF Effect
  <1>3. CASE ~InProgress(f.op) /\ Returned(t, state_[f.op] = "PASS") /\ op_table_' = op_table_
    <2>1. ~InProgress(f.op)' /\ (state_[f.op] = "PASS") = (state_'[f.op] = "PASS") /\ mem' = mem
      BY <1>1, <1>3 DEF Quiet, InProgress
    <2>2. (state_[f.op] = "PASS") \in BOOLEAN
      OBVIOUS
    <2> QED
      BY <1>1, <1>3, <1>e, <2>1, <2>2, ReturnedMoves DEF Good
  <1>4. CASE /\ Depth(t) = 0 /\ ~f.wf
             /\ op_table_' = [op_table_ EXCEPT ![t] = f.op]
             /\ \E g, c \in Frames :
                  /\ Grow(t, g, c)
                  /\ Fields(g, f.op, f.row, "announced", f.wf, f.val, f.res)
                  /\ Fields(c, f.op, 1, "load", TRUE, Null, FALSE)
    <2>1. PICK g \in Frames, c \in Frames :
            /\ Grow(t, g, c)
            /\ Fields(g, f.op, f.row, "announced", f.wf, f.val, f.res)
            /\ Fields(c, f.op, 1, "load", TRUE, Null, FALSE)
      BY <1>4
    <2>2. /\ g.op = f.op /\ g.row = f.row /\ g.at = "announced" /\ g.wf = f.wf
          /\ c.op = f.op /\ c.row = 1 /\ c.at = "load" /\ c.wf
      BY <2>1 DEF Fields
    <2>3. 1 \in Rows(f.op) /\ RowCount(f.op) > 0
      BY <1>2 DEF Rows
    <2>4. FrameShape(g) /\ FrameShape(c)
      BY <1>1, <1>2, <2>2, <2>3 DEF FrameShape, Meeting
    <2>5. FrameOk(t, g)
      BY <1>1, <1>2, <2>2 DEF FrameOk, Meeting
    <2>6. FrameOk(t, c)
      <3>1. Prefix(c.op, c.row)
        BY <2>2 DEF Prefix
      <3> QED
        BY <2>2, <3>1 DEF FrameOk, Meeting
    <2>7. FrameOk(t, g)' /\ FrameOk(t, c)'
      BY <1>1, <2>5, <2>6, QuietFrame DEF Frozen
    <2>8. Len(stack[t]) = 1
      <3> SUFFICES ASSUME Len(stack[t]) # 1 PROVE FALSE
        OBVIOUS
      <3> DEFINE n == Len(stack[t])
      <3>1. n - 1 \in 1 .. n /\ n - 1 \in 1 .. (n - 1) /\ (n - 1) + 1 = n
        <4>1. n \in Nat /\ n \in 1 .. n /\ n # 1
          BY <1>2
        <4> HIDE DEF n
        <4> QED
          BY <4>1
      <3>2. stack[t][n - 1].at # "helping"
        BY <1>2, <1>4, <3>1, DepthIs
      <3>3. Link(stack[t][n - 1], stack[t][(n - 1) + 1], n - 1)
        BY <1>0, <3>1 DEF Control, Shapes
      <3>4. f.wf
        BY <1>2, <3>1, <3>2, <3>3 DEF Link
      <3> QED
        BY <1>4, <3>4
    <2>9. Link(g, c, Len(stack[t]))
      BY <2>2, <2>8 DEF Link
    <2>10. Grows(t, f, g, c)
      BY <1>1, <1>2, <2>1, <2>2, <2>4, <2>7, <2>8, <2>9 DEF Grows, Fits
    <2>11. /\ op_table_' \in [Threads -> Ops \cup {Null}]
           /\ \A u \in Threads : op_table_'[u] # Null => RowCount(op_table_'[u]) > 0
      BY <1>2, <1>4, <2>3, TableKept DEF Frozen
    <2> QED
      BY <1>e, <2>10, <2>11 DEF Moves, Good, Frozen
  <1>5. CASE Depth(t) # 0 /\ RecursiveReturn(t) /\ op_table_' = op_table_
    BY <1>1, <1>5, RecursiveMoves
  <1>6. CASE op_table_' = op_table_ /\ f.val \in Helpers /\ Turns(t, f, "watch")
    <2>2. ASSUME NEW g \in Frames, Fields(g, f.op, f.row, "watch", f.wf, f.val, f.res),
                 Address(g) = Address(f)
          PROVE  FrameShape(g) /\ FrameOk(t, g)
      <3>1. g.op = f.op /\ g.row = f.row /\ g.at = "watch" /\ g.val = f.val
        BY <2>2 DEF Fields
      <3>2. FrameShape(g)
        BY <1>1, <1>2, <1>6, <2>2, <3>1 DEF FrameShape, Meeting
      <3>3. FrameOk(t, g)
        BY <1>1, <1>2, <3>1 DEF FrameOk, Meeting
      <3> QED
        BY <3>2, <3>3
    <2> QED
      BY <1>1, <1>2, <1>6, <2>2, TurnsGood
  <1>7. CASE op_table_' = op_table_ /\ f.val = Row(f.op, f.row).expected /\ Turns(t, f, "place")
    <2>2. ASSUME NEW g \in Frames, Fields(g, f.op, f.row, "place", f.wf, f.val, f.res),
                 Address(g) = Address(f)
          PROVE  FrameShape(g) /\ FrameOk(t, g)
      <3>1. g.op = f.op /\ g.row = f.row /\ g.at = "place" /\ g.val = f.val
        BY <2>2 DEF Fields
      <3>2. FrameShape(g)
        BY <1>1, <1>2, <1>7, <2>2, <3>1 DEF FrameShape, Meeting
      <3>3. FrameOk(t, g)
        BY <1>1, <1>2, <1>7, <3>1 DEF FrameOk, Meeting
      <3> QED
        BY <3>2, <3>3
    <2> QED
      BY <1>1, <1>2, <1>7, <2>2, TurnsGood
  <1>8. CASE /\ op_table_' = op_table_ /\ f.val \in Values /\ f.val # Row(f.op, f.row).expected
             /\ Turns(t, f, "mismatch")
    <2>2. ASSUME NEW g \in Frames, Fields(g, f.op, f.row, "mismatch", f.wf, f.val, f.res),
                 Address(g) = Address(f)
          PROVE  FrameShape(g) /\ FrameOk(t, g)
      <3>1. g.op = f.op /\ g.row = f.row /\ g.at = "mismatch" /\ g.val = f.val
        BY <2>2 DEF Fields
      <3>2. FrameShape(g)
        BY <1>1, <1>2, <1>8, <2>2, <3>1 DEF FrameShape, Meeting
      <3>3. FrameOk(t, g)
        BY <1>1, <1>2, <1>8, <3>1 DEF FrameOk, Meeting
      <3> QED
        BY <3>2, <3>3
    <2> QED
      BY <1>1, <1>2, <1>8, <2>2, TurnsGood
  <1> QED
    BY <1>1, <1>3, <1>4, <1>5, <1>6, <1>7, <1>8

LEMMA MismatchGood ==
  ASSUME IInv, NEW t \in Threads, Mismatch(t), Frozen
  PROVE  Good(t)
  <1>0. Control /\ op_table_' = op_table_
    BY DEF Mismatch, IInv, Control
  <1>1. PICK f :
           /\ Here(t, f) /\ f.at = "mismatch" /\ f.op # Null
           /\ \/ Associates(f.op, f.row, FAIL_CONST) /\ Turns(t, f, "fail")
              \/ Quiet /\ helper_[f.op][f.row] = FAIL_CONST /\ Turns(t, f, "fail")
              \/ Quiet /\ Settled(f.op, f.row) /\ Turns(t, f, "row")
    BY <1>0, MismatchStep
  <1>2. /\ FrameShape(f) /\ FrameOk(t, f) /\ f \in Frames /\ Types /\ RowsSorted /\ Address(f) \in Addrs
        /\ f.op # Null => /\ f.op \in Ops /\ f.row \in Rows(f.op) /\ RowCount(f.op) \in Nat
                          /\ f.row \in Nat /\ f.row >= 1 /\ f.row <= RowCount(f.op)
                          /\ Address(f) = Row(f.op, f.row).address
                          /\ Row(f.op, f.row).expected \in Values
    BY <1>1, HereFacts
  <1>k. Effect(t) => FrameOk(t, f)'
    <2>1. f = stack[t][Len(stack[t])] /\ Len(stack[t]) \in 1 .. Len(stack[t])
      BY <1>1, HereFacts
    <2> QED
      BY <2>1, FrameKept DEF Frozen
  <1>3. CASE Associates(f.op, f.row, FAIL_CONST) /\ Turns(t, f, "fail")
    <2>1. Effect(t)
      <3>1. Prefix(f.op, f.row)
        BY <1>1, <1>2 DEF FrameOk
      <3> QED
        BY <1>1, <1>2, <1>3, <3>1, Zenon DEF Effect
    <2>2. helper_'[f.op][f.row] = FAIL_CONST
      <3>1. f.row \in 1 .. MaxRows
        BY <1>1, <1>2, RowTyped
      <3> QED
        BY <1>1, <1>2, <1>3, <3>1 DEF Associates, Types
    <2>3. ASSUME NEW g \in Frames, Fields(g, f.op, f.row, "fail", f.wf, f.val, f.res),
                Address(g) = Address(f)
         PROVE  FrameShape(g) /\ FrameOk(t, g)'
      <3>1. g.op = f.op /\ g.row = f.row /\ g.at = "fail" /\ g.val = f.val
        BY <2>3 DEF Fields
      <3>2. FrameShape(g)
        BY <1>1, <1>2, <1>k, <2>1, <2>2, <2>3, <3>1 DEF FrameShape, Meeting, Reading
      <3>3. FrameOk(t, g)'
        BY <1>1, <1>2, <1>k, <2>1, <2>2, <3>1 DEF FrameOk, Meeting, Held, Helper
      <3> QED
        BY <3>2, <3>3
    <2>4. \A g : Places(t, g)
      BY <1>1, <1>3, PlacesNone DEF Associates
    <2> QED
      BY <1>0, <1>1, <1>3, <2>1, <2>3, <2>4, TurnsMoves DEF Good, Loose
  <1>4. CASE Quiet /\ helper_[f.op][f.row] = FAIL_CONST /\ Turns(t, f, "fail")
    <2>1. ASSUME NEW g \in Frames, Fields(g, f.op, f.row, "fail", f.wf, f.val, f.res),
                Address(g) = Address(f)
         PROVE  FrameShape(g) /\ FrameOk(t, g)
      <3>1. g.op = f.op /\ g.row = f.row /\ g.at = "fail" /\ g.val = f.val
        BY <2>1 DEF Fields
      <3>2. FrameShape(g)
        BY <1>1, <1>2, <1>4, <2>1, <3>1 DEF FrameShape, Meeting, Reading
      <3>3. FrameOk(t, g)
        BY <1>1, <1>2, <1>4, <3>1 DEF FrameOk, Meeting, Held
      <3> QED
        BY <3>2, <3>3
    <2> QED
      BY <1>0, <1>1, <1>4, <2>1, TurnsGood DEF Loose
  <1>5. CASE Quiet /\ Settled(f.op, f.row) /\ Turns(t, f, "row")
    <2>0. f.val \notin Helpers
      BY <1>1, <1>2, WordsAssumption DEF FrameShape
    <2>1. ASSUME NEW g \in Frames, Fields(g, f.op, f.row, "row", f.wf, f.val, f.res),
                Address(g) = Address(f)
         PROVE  FrameShape(g) /\ FrameOk(t, g)
      <3>1. g.op = f.op /\ g.row = f.row /\ g.at = "row" /\ g.val = f.val
        BY <2>1 DEF Fields
      <3>2. FrameShape(g)
        BY <1>1, <1>2, <2>0, <2>1, <3>1 DEF FrameShape, Meeting, Reading
      <3>3. FrameOk(t, g)
        BY <1>1, <1>2, <2>0, <3>1 DEF FrameOk, Meeting, Held
      <3> QED
        BY <3>2, <3>3
    <2> QED
      BY <1>0, <1>1, <1>5, <2>1, TurnsGood DEF Loose
  <1> QED
    BY <1>1, <1>3, <1>4, <1>5

LEMMA PlaceGood ==
  ASSUME IInv, NEW t \in Threads, Place(t), Frozen
  PROVE  Good(t)
  <1>0. Control /\ op_table_' = op_table_
    BY DEF Place, IInv, Control
  <1>1. PICK f :
           /\ Here(t, f) /\ f.at = "place" /\ f.op # Null
           /\ \E g \in Frames :
                \/ /\ mem[Address(f)] = f.val
                   /\ Swaps(Address(f), Helper(f.op, f.row, t))
                   /\ Becomes(t, g, f.op, f.row, "associate", f.wf, f.val, f.res)
                \/ /\ mem[Address(f)] # f.val /\ Quiet
                   /\ Becomes(t, g, f.op, f.row, "row", f.wf, mem[Address(f)], f.res)
    BY <1>0, PlaceStep
  <1>2. /\ FrameShape(f) /\ FrameOk(t, f) /\ f \in Frames /\ Types /\ RowsSorted /\ Address(f) \in Addrs
        /\ f.op # Null => /\ f.op \in Ops /\ f.row \in Rows(f.op) /\ RowCount(f.op) \in Nat
                          /\ f.row \in Nat /\ f.row >= 1 /\ f.row <= RowCount(f.op)
                          /\ Address(f) = Row(f.op, f.row).address
                          /\ Row(f.op, f.row).expected \in Values
    BY <1>1, HereFacts
  <1>k. Effect(t) => FrameOk(t, f)'
    <2>1. f = stack[t][Len(stack[t])] /\ Len(stack[t]) \in 1 .. Len(stack[t])
      BY <1>1, HereFacts
    <2> QED
      BY <2>1, FrameKept DEF Frozen
  <1> DEFINE a == Address(f)
             w == Helper(f.op, f.row, t)
  <1>3. ASSUME NEW g \in Frames, mem[a] = f.val, Swaps(a, w),
               Becomes(t, g, f.op, f.row, "associate", f.wf, f.val, f.res)
        PROVE  Good(t)
    <2>1. /\ Prefix(f.op, f.row) /\ helper_[f.op][f.row] # w
          /\ f.val = Row(f.op, f.row).expected /\ f.val \in Values
      BY <1>1, <1>2 DEF FrameOk
    <2>2. Effect(t)
      BY <1>1, <1>2, <1>3, <2>1 DEF Effect
    <2>3. Cut(t, Len(stack[t]), g) /\ g.op = f.op /\ g.row = f.row /\ g.at = "associate" /\ g.wf = f.wf
      BY <1>3 DEF Becomes, Fields
    <2>4. FrameShape(g)
      BY <1>1, <1>2, <2>3 DEF FrameShape, Meeting
    <2>5. /\ w \in Helpers /\ w.op = f.op /\ w.row = f.row
      BY <1>1, <1>2, OwnHelper
    <2>6. mem'[a] = w /\ helper_' = helper_ /\ state_' = state_
          /\ \A b \in Addrs : b # a => mem'[b] = mem[b]
      BY <1>2, <1>3 DEF Swaps, Types
    <2>7. helper_[f.op][f.row] \notin {Null, FAIL_CONST} => ~InProgress(f.op)
      <3>1. helper_[f.op][f.row] \notin {Null, FAIL_CONST} => helper_[f.op][f.row] \in Helpers
        BY <1>1, <1>2, RowTyped DEF Types
      <3>2. mem[Row(f.op, f.row).address] \notin Helpers
        BY <1>1, <1>2, <1>3, <2>1, WordsAssumption
      <3> QED
        BY <1>1, <1>2, <3>1, <3>2 DEF AssociatedStays, IInv
    <2>8. FrameOk(t, g)'
      <3>1. Address(g)' = a /\ Helper(g.op, g.row, t)' = w /\ InProgress(f.op)' = InProgress(f.op)
        BY <2>3, <2>6, RowsKept DEF Frozen, Address, Helper, InProgress
      <3>2. Prefix(f.op, f.row)'
        BY <1>1, <1>k, <2>2 DEF FrameOk
      <3>3. g.op = f.op /\ g.row = f.row /\ g.at = "associate"
        BY <2>3
      <3> HIDE DEF w, a
      <3> QED
        BY <2>6, <2>7, <3>1, <3>2, <3>3 DEF FrameOk, Meeting
    <2>9. Places(t, g)
      <3>1. \A e : Here(t, e) => e.at # "associate"
        BY <1>1 DEF Here, Stands
      <3> HIDE DEF w
      <3> QED
        BY <2>3, <2>5, <2>6, <3>1 DEF Places
    <2> QED
      BY <1>0, <1>1, <2>2, <2>3, <2>4, <2>8, <2>9, StaysMoves DEF Good, Loose
  <1>4. ASSUME NEW g \in Frames, mem[a] # f.val, Quiet,
               Becomes(t, g, f.op, f.row, "row", f.wf, mem[a], f.res)
        PROVE  Good(t)
    <2>1. /\ g.op = f.op /\ g.row = f.row /\ g.at = "row" /\ g.val = mem[a] /\ Address(g) = Address(f)
      BY <1>4 DEF Becomes, Fields, Address
    <2>2. mem[a] \in Words /\ WordAt(mem[a], a) /\ (mem[a] \in Helpers => Prefix(mem[a].op, mem[a].row))
      BY <1>2 DEF IInv, Control, Types, MemRows, MemPrefix
    <2>3. FrameShape(g)
      BY <1>1, <1>2, <2>1, <2>2 DEF FrameShape, Meeting
    <2>4. FrameOk(t, g)
      BY <1>1, <1>2, <2>1, <2>2 DEF FrameOk, Meeting
    <2>5. f.at # "associate" /\ ~Loose(f)
      BY <1>1 DEF Loose
    <2> QED
      BY <1>0, <1>1, <1>4, <2>3, <2>4, <2>5, StaysGood
  <1> QED
    BY <1>1, <1>3, <1>4

LEMMA AssociateGood ==
  ASSUME IInv, NEW t \in Threads, AssociateOwn(t), Frozen
  PROVE  Good(t)
  <1>0. Control /\ op_table_' = op_table_
    BY DEF AssociateOwn, IInv, Control
  <1>1. PICK f :
           /\ Here(t, f) /\ f.at = "associate" /\ f.op # Null
           /\ \/ Associates(f.op, f.row, Helper(f.op, f.row, t)) /\ Passes(t, f)
              \/ Quiet /\ helper_[f.op][f.row] = Helper(f.op, f.row, t) /\ Passes(t, f)
              \/ /\ Quiet /\ helper_[f.op][f.row] \notin {Null, Helper(f.op, f.row, t)}
                 /\ Turns(t, f, "undo")
    BY <1>0, AssociateStep
  <1>2. /\ FrameShape(f) /\ FrameOk(t, f) /\ f \in Frames /\ Types /\ RowsSorted /\ Address(f) \in Addrs
        /\ f.op # Null => /\ f.op \in Ops /\ f.row \in Rows(f.op) /\ RowCount(f.op) \in Nat
                          /\ f.row \in Nat /\ f.row >= 1 /\ f.row <= RowCount(f.op)
                          /\ Address(f) = Row(f.op, f.row).address
                          /\ Row(f.op, f.row).expected \in Values
    BY <1>1, HereFacts
  <1> DEFINE w == Helper(f.op, f.row, t)
  <1>w. w \in Helpers /\ w.op = f.op /\ w.row = f.row /\ w # Null /\ w # FAIL_CONST
    BY <1>1, <1>2, OwnHelper
  <1>3. CASE Associates(f.op, f.row, w) /\ Passes(t, f)
    <2>1. Prefix(f.op, f.row) /\ mem[Row(f.op, f.row).address] = w
      BY <1>1, <1>2, <1>3 DEF FrameOk, Associates
    <2> HIDE DEF w
    <2>2. Effect(t)
      BY <1>1, <1>2, <1>3, <1>w, <2>1, Zenon DEF Effect
    <2>3. helper_'[f.op][f.row] = w /\ mem' = mem
      <3>1. f.row \in 1 .. MaxRows
        BY <1>1, <1>2, RowTyped
      <3> QED
        BY <1>1, <1>2, <1>3, <3>1 DEF Associates, Types
    <2>4. Settled(f.op, f.row)'
      BY <1>w, <2>3 DEF Settled
    <2> QED
      BY <1>0, <1>1, <1>3, <2>2, <2>3, <2>4, PassesMoves DEF Good
  <1>4. CASE Quiet /\ helper_[f.op][f.row] = w /\ Passes(t, f)
    <2> HIDE DEF w
    <2>1. Effect(t) /\ Settled(f.op, f.row)' /\ mem' = mem
      BY <1>4, <1>w DEF Effect, Settled, Quiet
    <2> QED
      BY <1>0, <1>1, <1>4, <2>1, PassesMoves DEF Good
  <1>5. CASE Quiet /\ helper_[f.op][f.row] \notin {Null, w} /\ Turns(t, f, "undo")
    <2>1. ASSUME NEW g \in Frames, Fields(g, f.op, f.row, "undo", f.wf, f.val, f.res),
                Address(g) = Address(f)
         PROVE  FrameShape(g) /\ FrameOk(t, g)
      <3>1. g.op = f.op /\ g.row = f.row /\ g.at = "undo" /\ g.val = f.val
        BY <2>1 DEF Fields
      <3>2. FrameShape(g)
        BY <1>1, <1>2, <1>5, <2>1, <3>1 DEF FrameShape, Meeting, Reading
      <3>3. FrameOk(t, g)
        BY <1>1, <1>2, <1>5, <3>1 DEF FrameOk, Meeting, Held
      <3> QED
        BY <3>2, <3>3
    <2> QED
      BY <1>0, <1>1, <1>5, <2>1, TurnsGood DEF Loose
  <1> QED
    BY <1>1, <1>3, <1>4, <1>5

\* A Helper gives way to the value it stands for.
LEMMA GiveBack ==
  ASSUME Control, NEW t \in Threads, NEW a \in Addrs, NEW h \in Helpers, NEW v,
         \/ mem[a] = h /\ Swaps(a, v)
         \/ Quiet,
         v = LogicalOf(h), Held(h) # Null, Held(h) = h => ~InProgress(h.op)
  PROVE  /\ Effect(t) /\ helper_' = helper_ /\ state_' = state_
         /\ mem' = mem \/ \E b \in Addrs : \E u \in Values : mem' = [mem EXCEPT ![b] = u]
  <1>1. CASE Quiet
    BY <1>1 DEF Effect, Quiet
  <1>2. CASE mem[a] = h /\ Swaps(a, v)
    <2>1. v \in Values
      BY <1>2, LogicalValue
    <2>2. Effect(t)
      BY <1>2 DEF Effect
    <2> QED
      BY <1>2, <2>1, <2>2 DEF Swaps
  <1> QED
    BY <1>1, <1>2

LEMMA LogicalIs ==
  ASSUME NEW h \in Helpers
  PROVE  /\ Held(h) = h /\ state_[h.op] = "PASS" => LogicalOf(h) = Row(h.op, h.row).new
         /\ Held(h) # h \/ state_[h.op] # "PASS" => LogicalOf(h) = Row(h.op, h.row).expected
  <1>1. IsDescriptor(h)
    BY WordsAssumption DEF IsDescriptor
  <1> QED
    BY <1>1 DEF LogicalOf, Held

LEMMA UndoGood ==
  ASSUME IInv, NEW t \in Threads, Undo(t), Frozen
  PROVE  Good(t)
  <1>0. Control /\ op_table_' = op_table_
    BY DEF Undo, IInv, Control
  <1>1. PICK f :
           /\ Here(t, f) /\ f.at = "undo" /\ f.op # Null
           /\ \/ /\ mem[Address(f)] = Helper(f.op, f.row, t)
                 /\ Swaps(Address(f), Row(f.op, f.row).expected)
              \/ Quiet
           /\ \/ helper_[f.op][f.row] = FAIL_CONST /\ Turns(t, f, "fail")
              \/ helper_[f.op][f.row] # FAIL_CONST /\ Turns(t, f, "over")
    BY <1>0, UndoStep
  <1>2. /\ FrameShape(f) /\ FrameOk(t, f) /\ f \in Frames /\ Types /\ RowsSorted /\ Address(f) \in Addrs
        /\ f.op # Null => /\ f.op \in Ops /\ f.row \in Rows(f.op) /\ RowCount(f.op) \in Nat
                          /\ f.row \in Nat /\ f.row >= 1 /\ f.row <= RowCount(f.op)
                          /\ Address(f) = Row(f.op, f.row).address
                          /\ Row(f.op, f.row).expected \in Values
    BY <1>1, HereFacts
  <1>k. Effect(t) => FrameOk(t, f)'
    <2>1. f = stack[t][Len(stack[t])] /\ Len(stack[t]) \in 1 .. Len(stack[t])
      BY <1>1, HereFacts
    <2> QED
      BY <2>1, FrameKept DEF Frozen
  <1> DEFINE w == Helper(f.op, f.row, t)
  <1>w. w \in Helpers /\ w.op = f.op /\ w.row = f.row /\ w # Null
    BY <1>1, <1>2, OwnHelper
  <1>h. helper_[f.op][f.row] \notin {Null, w} /\ (helper_[f.op][f.row] # FAIL_CONST => ~InProgress(f.op))
    BY <1>1, <1>2 DEF FrameOk
  <1>3. /\ Effect(t) /\ helper_' = helper_ /\ state_' = state_
        /\ mem' = mem \/ \E b \in Addrs : \E u \in Values : mem' = [mem EXCEPT ![b] = u]
    <2> HIDE DEF w
    <2>1. Held(w) # Null /\ Held(w) # w /\ LogicalOf(w) = Row(f.op, f.row).expected
      BY <1>w, <1>h, LogicalIs DEF Held
    <2>2. \/ mem[Address(f)] = w /\ Swaps(Address(f), Row(f.op, f.row).expected)
          \/ Quiet
      BY <1>1 DEF w
    <2> QED
      BY <1>0, <1>2, <1>w, <2>1, <2>2, GiveBack
  <1>4. \A g : Places(t, g)
    BY <1>1, <1>3, PlacesNone
  <1>5. CASE helper_[f.op][f.row] = FAIL_CONST /\ Turns(t, f, "fail")
    <2>1. ASSUME NEW g \in Frames, Fields(g, f.op, f.row, "fail", f.wf, f.val, f.res),
                Address(g) = Address(f)
         PROVE  FrameShape(g) /\ FrameOk(t, g)'
      <3>1. g.op = f.op /\ g.row = f.row /\ g.at = "fail" /\ g.val = f.val
        BY <2>1 DEF Fields
      <3>2. FrameShape(g)
        BY <1>1, <1>2, <1>3, <1>5, <1>k, <2>1, <3>1 DEF FrameShape, Meeting, Reading
      <3>3. FrameOk(t, g)'
        BY <1>1, <1>2, <1>3, <1>5, <1>k, <3>1 DEF FrameOk, Meeting, Held, Helper
      <3> QED
        BY <3>2, <3>3
    <2> QED
      BY <1>0, <1>1, <1>3, <1>4, <1>5, <2>1, TurnsMoves DEF Good, Loose
  <1>6. CASE helper_[f.op][f.row] # FAIL_CONST /\ Turns(t, f, "over")
    <2>0. ~InProgress(f.op)'
      BY <1>3, <1>6, <1>h DEF InProgress
    <2>1. ASSUME NEW g \in Frames, Fields(g, f.op, f.row, "over", f.wf, f.val, f.res),
                Address(g) = Address(f)
         PROVE  FrameShape(g) /\ FrameOk(t, g)'
      <3>1. g.op = f.op /\ g.row = f.row /\ g.at = "over" /\ g.val = f.val
        BY <2>1 DEF Fields
      <3>2. FrameShape(g)
        BY <1>1, <1>2, <2>0, <1>3, <1>k, <2>1, <3>1 DEF FrameShape, Meeting, Reading
      <3>3. FrameOk(t, g)'
        BY <1>1, <1>2, <2>0, <1>3, <1>k, <3>1 DEF FrameOk, Meeting, Held, Helper
      <3> QED
        BY <3>2, <3>3
    <2> QED
      BY <1>0, <1>1, <1>3, <1>4, <1>6, <2>1, TurnsMoves DEF Good, Loose
  <1> QED
    BY <1>1, <1>5, <1>6

LEMMA OverGood ==
  ASSUME IInv, NEW t \in Threads, Over(t), Frozen
  PROVE  Good(t)
  <1>0. Control /\ op_table_' = op_table_
    BY DEF Over, IInv, Control
  <1>1. PICK f :
           /\ Here(t, f) /\ f.at = "over" /\ f.op # Null
           /\ Returned(t, state_[f.op] = "PASS") /\ Quiet
    BY <1>0, OverStep
  <1>2. /\ FrameShape(f) /\ FrameOk(t, f) /\ f \in Frames /\ Types /\ RowsSorted /\ Address(f) \in Addrs
        /\ f.op # Null => /\ f.op \in Ops /\ f.row \in Rows(f.op) /\ RowCount(f.op) \in Nat
                          /\ f.row \in Nat /\ f.row >= 1 /\ f.row <= RowCount(f.op)
                          /\ Address(f) = Row(f.op, f.row).address
                          /\ Row(f.op, f.row).expected \in Values
    BY <1>1, HereFacts
  <1>3. Effect(t) /\ mem' = mem /\ state_' = state_
    BY <1>1 DEF Effect, Quiet
  <1>4. ~InProgress(f.op)' /\ (state_[f.op] = "PASS") = (state_'[f.op] = "PASS")
    BY <1>1, <1>2, <1>3 DEF FrameOk, InProgress
  <1>5. (state_[f.op] = "PASS") \in BOOLEAN
    OBVIOUS
  <1> QED
    BY <1>0, <1>1, <1>3, <1>4, <1>5, ReturnedMoves DEF Good

LEMMA SetFailGood ==
  ASSUME IInv, NEW t \in Threads, SetFail(t), Frozen
  PROVE  Good(t)
  <1>0. Control /\ op_table_' = op_table_
    BY DEF SetFail, IInv, Control
  <1>1. PICK f :
           /\ Here(t, f) /\ f.at = "fail" /\ f.op # Null
           /\ Decides(f.op, "FAIL") \/ (~InProgress(f.op) /\ Quiet)
           /\ Returned(t, FALSE)
    BY <1>0, SetFailStep
  <1>2. /\ FrameShape(f) /\ FrameOk(t, f) /\ f \in Frames /\ Types /\ RowsSorted /\ Address(f) \in Addrs
        /\ f.op # Null => /\ f.op \in Ops /\ f.row \in Rows(f.op) /\ RowCount(f.op) \in Nat
                          /\ f.row \in Nat /\ f.row >= 1 /\ f.row <= RowCount(f.op)
                          /\ Address(f) = Row(f.op, f.row).address
                          /\ Row(f.op, f.row).expected \in Values
    BY <1>1, HereFacts
  <1>3. helper_[f.op][f.row] = FAIL_CONST
    BY <1>1, <1>2 DEF FrameOk
  <1>4. Effect(t) /\ mem' = mem
    BY <1>1, <1>2, <1>3 DEF Effect, Quiet, Decides
  <1>5. state_'[f.op] = "FAIL"
    <2>1. CASE Decides(f.op, "FAIL")
      BY <1>1, <1>2, <2>1 DEF Decides, Types
    <2>2. CASE ~InProgress(f.op) /\ Quiet
      <3>1. state_[f.op] # "PASS"
        BY <1>1, <1>2, <1>3 DEF IInv, Outcomes, Settled
      <3> QED
        BY <1>1, <1>2, <2>2, <3>1 DEF Quiet, InProgress, Types
    <2> QED
      BY <1>1, <2>1, <2>2
  <1>6. ~InProgress(f.op)' /\ FALSE = (state_'[f.op] = "PASS") /\ FALSE \in BOOLEAN
    BY <1>5 DEF InProgress
  <1> QED
    BY <1>0, <1>1, <1>4, <1>6, ReturnedMoves DEF Good

LEMMA SetPassGood ==
  ASSUME IInv, NEW t \in Threads, SetPass(t), Frozen
  PROVE  Good(t)
  <1>0. Control /\ op_table_' = op_table_
    BY DEF SetPass, IInv, Control
  <1>1. PICK f :
           /\ Here(t, f) /\ f.at = "pass" /\ f.op # Null
           /\ Decides(f.op, "PASS") \/ (~InProgress(f.op) /\ Quiet)
           /\ Returned(t, state_[f.op] \in {"IN_PROGRESS", "PASS"})
    BY <1>0, SetPassStep
  <1>2. /\ FrameShape(f) /\ FrameOk(t, f) /\ f \in Frames /\ Types /\ RowsSorted /\ Address(f) \in Addrs
        /\ f.op # Null => /\ f.op \in Ops /\ f.row \in Rows(f.op) /\ RowCount(f.op) \in Nat
                          /\ f.row \in Nat /\ f.row >= 1 /\ f.row <= RowCount(f.op)
                          /\ Address(f) = Row(f.op, f.row).address
                          /\ Row(f.op, f.row).expected \in Values
    BY <1>1, HereFacts
  <1>3. RowCount(f.op) > 0 /\ \A i \in Rows(f.op) : Settled(f.op, i)
    BY <1>1, <1>2 DEF FrameOk
  <1>4. Effect(t) /\ mem' = mem
    BY <1>1, <1>2, <1>3 DEF Effect, Quiet, Decides
  <1> DEFINE r == state_[f.op] \in {"IN_PROGRESS", "PASS"}
  <1>5. ~InProgress(f.op)' /\ r = (state_'[f.op] = "PASS")
    <2>1. CASE Decides(f.op, "PASS")
      BY <1>1, <1>2, <2>1 DEF Decides, Types, InProgress
    <2>2. CASE ~InProgress(f.op) /\ Quiet
      BY <1>1, <1>2, <2>2 DEF Quiet, InProgress
    <2> QED
      BY <1>1, <2>1, <2>2
  <1>6. r \in BOOLEAN
    OBVIOUS
  <1>7. Returned(t, r)
    BY <1>1
  <1> HIDE DEF r
  <1> QED
    BY <1>0, <1>1, <1>4, <1>5, <1>6, <1>7, ReturnedMoves DEF Good

LEMMA WithdrawGood ==
  ASSUME IInv, NEW t \in Threads, Withdraw(t), Frozen
  PROVE  Good(t)
  <1>0. Control
    BY DEF Withdraw, IInv, Control
  <1>1. PICK f :
           /\ Here(t, f) /\ f.at = "withdraw" /\ f.op # Null
           /\ Turns(t, f, "over") /\ Quiet
           /\ op_table_' = [op_table_ EXCEPT ![t] = Null]
    BY <1>0, WithdrawStep
  <1>2. /\ FrameShape(f) /\ FrameOk(t, f) /\ f \in Frames /\ Types /\ RowsSorted /\ Address(f) \in Addrs
        /\ f.op # Null => /\ f.op \in Ops /\ f.row \in Rows(f.op) /\ RowCount(f.op) \in Nat
                          /\ f.row \in Nat /\ f.row >= 1 /\ f.row <= RowCount(f.op)
                          /\ Address(f) = Row(f.op, f.row).address
                          /\ Row(f.op, f.row).expected \in Values
    BY <1>1, HereFacts
  <1>3. PICK g \in Frames : Becomes(t, g, f.op, f.row, "over", f.wf, f.val, f.res)
    BY <1>1 DEF Turns
  <1>4. /\ Cut(t, Len(stack[t]), g) /\ g.op = f.op /\ g.row = f.row /\ g.at = "over" /\ g.wf = f.wf
        /\ Address(g) = Address(f)
    BY <1>3 DEF Becomes, Fields, Address
  <1>5. FrameShape(g)
    BY <1>1, <1>2, <1>4 DEF FrameShape, Meeting
  <1>6. FrameOk(t, g)'
    <2>1. FrameOk(t, g)
      BY <1>1, <1>2, <1>4 DEF FrameOk, Meeting
    <2> QED
      BY <1>1, <2>1, QuietFrame DEF Frozen
  <1>7. Places(t, g) /\ Effect(t)
    BY <1>1, PlacesNone DEF Quiet, Effect
  <1>8. Cuts(t, Len(stack[t]), f, g)
    <2>1. f = stack[t][Len(stack[t])] /\ (f.op = Null <=> op[t] = Null) /\ ~Loose(f)
      BY <1>1, HereFacts DEF Loose
    <2> QED
      BY <1>4, <1>5, <1>6, <1>7, <2>1 DEF Cuts, Fits
  <1>9. /\ op_table_' \in [Threads -> Ops \cup {Null}]
        /\ \A u \in Threads : op_table_'[u] # Null => RowCount(op_table_'[u]) > 0
    BY <1>1, TableKept DEF Frozen
  <1> QED
    BY <1>7, <1>8, <1>9 DEF Good, Moves, Frozen

LEMMA WatchGood ==
  ASSUME IInv, NEW t \in Threads, Watch(t), Frozen
  PROVE  Good(t)
  <1>0. Control /\ op_table_' = op_table_
    BY DEF Watch, IInv, Control
  <1>1. PICK f :
           /\ Here(t, f) /\ f.at = "watch"
           /\ \/ mem[Address(f)] = f.val /\ Turns(t, f, "on_watch")
              \/ Turns(t, f, "reload")
           /\ Quiet
    BY <1>0, WatchStep
  <1>2. /\ FrameShape(f) /\ FrameOk(t, f) /\ f \in Frames /\ Types /\ RowsSorted /\ Address(f) \in Addrs
        /\ f.op # Null => /\ f.op \in Ops /\ f.row \in Rows(f.op) /\ RowCount(f.op) \in Nat
                          /\ f.row \in Nat /\ f.row >= 1 /\ f.row <= RowCount(f.op)
                          /\ Address(f) = Row(f.op, f.row).address
                          /\ Row(f.op, f.row).expected \in Values
    BY <1>1, HereFacts
  <1>3. CASE mem[Address(f)] = f.val /\ Turns(t, f, "on_watch")
    <2>1. ASSUME NEW g \in Frames, Fields(g, f.op, f.row, "on_watch", f.wf, f.val, f.res),
                Address(g) = Address(f)
         PROVE  FrameShape(g) /\ FrameOk(t, g)
      <3>1. g.op = f.op /\ g.row = f.row /\ g.at = "on_watch" /\ g.val = f.val
        BY <2>1 DEF Fields
      <3>2. FrameShape(g)
        BY <1>1, <1>2, <1>3, <2>1, <3>1 DEF FrameShape, Meeting, Reading
      <3>3. FrameOk(t, g)
        BY <1>1, <1>2, <1>3, <2>1, <3>1 DEF FrameOk, Meeting, Held
      <3> QED
        BY <3>2, <3>3
    <2> QED
      BY <1>0, <1>1, <1>3, <2>1, TurnsGood DEF Loose
  <1>4. CASE Turns(t, f, "reload")
    <2>1. ASSUME NEW g \in Frames, Fields(g, f.op, f.row, "reload", f.wf, f.val, f.res),
                Address(g) = Address(f)
         PROVE  FrameShape(g) /\ FrameOk(t, g)
      <3>1. g.op = f.op /\ g.row = f.row /\ g.at = "reload" /\ g.val = f.val
        BY <2>1 DEF Fields
      <3>2. FrameShape(g)
        BY <1>1, <1>2, <2>1, <3>1 DEF FrameShape, Meeting, Reading
      <3>3. FrameOk(t, g)
        BY <1>1, <1>2, <3>1 DEF FrameOk, Meeting, Held
      <3> QED
        BY <3>2, <3>3
    <2> QED
      BY <1>0, <1>1, <1>4, <2>1, TurnsGood DEF Loose
  <1> QED
    BY <1>1, <1>3, <1>4

LEMMA OnWatchGood ==
  ASSUME IInv, NEW t \in Threads, OnWatch(t), Frozen
  PROVE  Good(t)
  <1>0. Control /\ op_table_' = op_table_
    BY DEF OnWatch, IInv, Control
  <1>1. PICK f :
           /\ Here(t, f) /\ f.at = "on_watch"
           /\ \/ Associates(f.val.op, f.val.row, f.val)
              \/ Quiet /\ helper_[f.val.op][f.val.row] # Null
           /\ \/ helper_'[f.val.op][f.val.row] # f.val /\ Turns(t, f, "restore")
              \/ /\ helper_'[f.val.op][f.val.row] = f.val
                 /\ Turns(t, f, IF f.op = Null THEN "value" ELSE "own_row")
    BY <1>0, OnWatchStep
  <1>2. /\ FrameShape(f) /\ FrameOk(t, f) /\ f \in Frames /\ Types /\ RowsSorted /\ Address(f) \in Addrs
        /\ f.op # Null => /\ f.op \in Ops /\ f.row \in Rows(f.op) /\ RowCount(f.op) \in Nat
                          /\ f.row \in Nat /\ f.row >= 1 /\ f.row <= RowCount(f.op)
                          /\ Address(f) = Row(f.op, f.row).address
                          /\ Row(f.op, f.row).expected \in Values
    BY <1>1, HereFacts
  <1>k. Effect(t) => FrameOk(t, f)'
    <2>1. f = stack[t][Len(stack[t])] /\ Len(stack[t]) \in 1 .. Len(stack[t])
      BY <1>1, HereFacts
    <2> QED
      BY <2>1, FrameKept DEF Frozen
  <1> DEFINE h == f.val
  <1>h. h \in Helpers /\ h.op \in Ops /\ h.row \in Rows(h.op) /\ Row(h.op, h.row).address = Address(f)
    <2>1. h \in Helpers /\ WordAt(h, Address(f))
      BY <1>1, <1>2 DEF FrameShape, Meeting
    <2> QED
      BY <2>1 DEF WordAt, Helpers
  <1>p. Prefix(h.op, h.row) /\ (Held(h) = Null => mem[Row(h.op, h.row).address] = h)
    BY <1>1, <1>2, <1>h DEF FrameOk, Meeting
  <1>3. Effect(t) /\ mem' = mem
    <2>1. CASE Associates(h.op, h.row, h)
      <3>1. mem[Row(h.op, h.row).address] = h /\ mem' = mem
        BY <1>p, <2>1 DEF Associates, Held
      <3> HIDE DEF h
      <3> QED
        BY <1>h, <1>p, <2>1, <3>1, Zenon DEF Effect
    <2>2. CASE Quiet
      BY <2>2 DEF Quiet, Effect
    <2> QED
      BY <1>1, <2>1, <2>2
  <1>4. helper_'[h.op][h.row] # Null
    <2>1. CASE Associates(h.op, h.row, h)
      <3>1. h.row \in 1 .. MaxRows /\ h # Null
        BY <1>2, <1>h, RowTyped, WordsAssumption
      <3> HIDE DEF h
      <3> QED
        BY <1>2, <1>h, <2>1, <3>1 DEF Associates, Types
    <2>2. CASE Quiet /\ helper_[h.op][h.row] # Null
      BY <2>2 DEF Quiet
    <2> QED
      BY <1>1, <2>1, <2>2
  <1>5. \A g : Places(t, g)
    BY <1>1, <1>3, PlacesNone
  <1>6. CASE helper_'[h.op][h.row] # h /\ Turns(t, f, "restore")
    <2>1. ASSUME NEW g \in Frames, Fields(g, f.op, f.row, "restore", f.wf, f.val, f.res),
                Address(g) = Address(f)
         PROVE  FrameShape(g) /\ FrameOk(t, g)'
      <3>1. g.op = f.op /\ g.row = f.row /\ g.at = "restore" /\ g.val = f.val
        BY <2>1 DEF Fields
      <3>2. FrameShape(g)
        BY <1>1, <1>2, <1>3, <1>4, <1>6, <1>k, <2>1, <3>1 DEF FrameShape, Meeting, Reading
      <3>3. FrameOk(t, g)'
        BY <1>1, <1>2, <1>3, <1>4, <1>6, <1>k, <3>1 DEF FrameOk, Meeting, Held, Helper
      <3> QED
        BY <3>2, <3>3
    <2> QED
      BY <1>0, <1>1, <1>3, <1>5, <1>6, <2>1, TurnsMoves DEF Good, Loose
  <1>7. CASE helper_'[h.op][h.row] = h /\ f.op = Null /\ Turns(t, f, "value")
    <2>1. ASSUME NEW g \in Frames, Fields(g, f.op, f.row, "value", f.wf, f.val, f.res),
                Address(g) = Address(f)
         PROVE  FrameShape(g) /\ FrameOk(t, g)'
      <3>1. g.op = f.op /\ g.row = f.row /\ g.at = "value" /\ g.val = f.val
        BY <2>1 DEF Fields
      <3>2. FrameShape(g)
        BY <1>1, <1>2, <1>3, <1>7, <1>k, <2>1, <3>1 DEF FrameShape, Meeting, Reading
      <3>3. FrameOk(t, g)'
        BY <1>1, <1>2, <1>3, <1>7, <1>k, <3>1 DEF FrameOk, Meeting, Held, Helper
      <3> QED
        BY <3>2, <3>3
    <2> QED
      BY <1>0, <1>1, <1>3, <1>5, <1>7, <2>1, TurnsMoves DEF Good, Loose
  <1>8. CASE helper_'[h.op][h.row] = h /\ f.op # Null /\ Turns(t, f, "own_row")
    <2>1. ASSUME NEW g \in Frames, Fields(g, f.op, f.row, "own_row", f.wf, f.val, f.res),
                Address(g) = Address(f)
         PROVE  FrameShape(g) /\ FrameOk(t, g)'
      <3>1. g.op = f.op /\ g.row = f.row /\ g.at = "own_row" /\ g.val = f.val
        BY <2>1 DEF Fields
      <3>2. FrameShape(g)
        BY <1>1, <1>2, <1>3, <1>8, <1>k, <2>1, <3>1 DEF FrameShape, Meeting, Reading
      <3>3. FrameOk(t, g)'
        BY <1>1, <1>2, <1>3, <1>8, <1>k, <3>1 DEF FrameOk, Meeting, Held, Helper
      <3> QED
        BY <3>2, <3>3
    <2> QED
      BY <1>0, <1>1, <1>3, <1>5, <1>8, <2>1, TurnsMoves DEF Good, Loose
  <1> QED
    BY <1>1, <1>6, <1>7, <1>8

LEMMA RestoreGood ==
  ASSUME IInv, NEW t \in Threads, Restore(t), Frozen
  PROVE  Good(t)
  <1>0. Control /\ op_table_' = op_table_
    BY DEF Restore, IInv, Control
  <1>1. PICK f :
           /\ Here(t, f) /\ f.at = "restore"
           /\ \/ /\ mem[Address(f)] = f.val
                 /\ Swaps(Address(f), Row(f.val.op, f.val.row).expected)
              \/ Quiet
           /\ Turns(t, f, "reload")
    BY <1>0, RestoreStep
  <1>2. /\ FrameShape(f) /\ FrameOk(t, f) /\ f \in Frames /\ Types /\ RowsSorted /\ Address(f) \in Addrs
        /\ f.op # Null => /\ f.op \in Ops /\ f.row \in Rows(f.op) /\ RowCount(f.op) \in Nat
                          /\ f.row \in Nat /\ f.row >= 1 /\ f.row <= RowCount(f.op)
                          /\ Address(f) = Row(f.op, f.row).address
                          /\ Row(f.op, f.row).expected \in Values
    BY <1>1, HereFacts
  <1>k. Effect(t) => FrameOk(t, f)'
    <2>1. f = stack[t][Len(stack[t])] /\ Len(stack[t]) \in 1 .. Len(stack[t])
      BY <1>1, HereFacts
    <2> QED
      BY <2>1, FrameKept DEF Frozen
  <1> DEFINE h == f.val
  <1>h. h \in Helpers /\ h.op \in Ops /\ h.row \in Rows(h.op) /\ Row(h.op, h.row).address = Address(f)
    <2>1. h \in Helpers /\ WordAt(h, Address(f))
      BY <1>1, <1>2 DEF FrameShape, Meeting
    <2> QED
      BY <2>1 DEF WordAt, Helpers
  <1>3. /\ Effect(t) /\ helper_' = helper_ /\ state_' = state_
        /\ mem' = mem \/ \E b \in Addrs : \E u \in Values : mem' = [mem EXCEPT ![b] = u]
    <2>1. Held(h) # Null /\ Held(h) # h
      BY <1>1, <1>2 DEF FrameOk
    <2>2. LogicalOf(h) = Row(h.op, h.row).expected
      BY <1>h, <2>1, LogicalIs
    <2>3. (mem[Address(f)] = h /\ Swaps(Address(f), Row(h.op, h.row).expected)) \/ Quiet
      BY <1>1
    <2> HIDE DEF h
    <2> QED
      BY <1>0, <1>2, <1>h, <2>1, <2>2, <2>3, GiveBack
  <1>4. \A g : Places(t, g)
    BY <1>1, <1>3, PlacesNone
  <1>5. ASSUME NEW g \in Frames, Fields(g, f.op, f.row, "reload", f.wf, f.val, f.res),
              Address(g) = Address(f)
       PROVE  FrameShape(g) /\ FrameOk(t, g)'
    <2>1. g.op = f.op /\ g.row = f.row /\ g.at = "reload" /\ g.val = f.val
      BY <1>5 DEF Fields
    <2>2. FrameShape(g)
      BY <1>1, <1>2, <1>3, <1>k, <1>5, <2>1 DEF FrameShape, Meeting, Reading
    <2>3. FrameOk(t, g)'
      BY <1>1, <1>2, <1>3, <1>k, <2>1 DEF FrameOk, Meeting, Held, Helper
    <2> QED
      BY <2>2, <2>3
  <1> QED
    BY <1>0, <1>1, <1>3, <1>4, <1>5, TurnsMoves DEF Good, Loose

LEMMA OwnRowGood ==
  ASSUME IInv, NEW t \in Threads, OwnRow(t), Frozen
  PROVE  Good(t)
  <1>0. Control /\ op_table_' = op_table_
    BY DEF OwnRow, IInv, Control
  <1>1. PICK f :
           /\ Here(t, f) /\ f.at = "own_row" /\ f.op # Null
           /\ \/ helper_[f.op][f.row] # Null /\ Turns(t, f, "row")
              \/ Depth(t) # 0 /\ RecursiveReturn(t)
              \/ helper_[f.op][f.row] = Null /\ Turns(t, f, "remove")
           /\ Quiet
    BY <1>0, OwnRowStep
  <1>2. /\ FrameShape(f) /\ FrameOk(t, f) /\ f \in Frames /\ Types /\ RowsSorted /\ Address(f) \in Addrs
        /\ f.op # Null => /\ f.op \in Ops /\ f.row \in Rows(f.op) /\ RowCount(f.op) \in Nat
                          /\ f.row \in Nat /\ f.row >= 1 /\ f.row <= RowCount(f.op)
                          /\ Address(f) = Row(f.op, f.row).address
                          /\ Row(f.op, f.row).expected \in Values
    BY <1>1, HereFacts
  <1>3. CASE helper_[f.op][f.row] # Null /\ Turns(t, f, "row")
    <2>1. ASSUME NEW g \in Frames, Fields(g, f.op, f.row, "row", f.wf, f.val, f.res),
                Address(g) = Address(f)
         PROVE  FrameShape(g) /\ FrameOk(t, g)
      <3>1. g.op = f.op /\ g.row = f.row /\ g.at = "row" /\ g.val = f.val
        BY <2>1 DEF Fields
      <3>2. FrameShape(g)
        BY <1>1, <1>2, <2>1, <3>1 DEF FrameShape, Meeting, Reading
      <3>3. FrameOk(t, g)
        BY <1>1, <1>2, <3>1 DEF FrameOk, Meeting, Held
      <3> QED
        BY <3>2, <3>3
    <2> QED
      BY <1>0, <1>1, <1>3, <2>1, TurnsGood DEF Loose
  <1>4. CASE Depth(t) # 0 /\ RecursiveReturn(t)
    BY <1>0, <1>1, <1>4, RecursiveMoves
  <1>5. CASE helper_[f.op][f.row] = Null /\ Turns(t, f, "remove")
    <2>1. ASSUME NEW g \in Frames, Fields(g, f.op, f.row, "remove", f.wf, f.val, f.res),
                Address(g) = Address(f)
         PROVE  FrameShape(g) /\ FrameOk(t, g)
      <3>1. g.op = f.op /\ g.row = f.row /\ g.at = "remove" /\ g.val = f.val
        BY <2>1 DEF Fields
      <3>2. FrameShape(g)
        BY <1>1, <1>2, <2>1, <3>1 DEF FrameShape, Meeting, Reading
      <3>3. FrameOk(t, g)
        BY <1>1, <1>2, <3>1 DEF FrameOk, Meeting, Held
      <3> QED
        BY <3>2, <3>3
    <2> QED
      BY <1>0, <1>1, <1>5, <2>1, TurnsGood DEF Loose
  <1> QED
    BY <1>1, <1>3, <1>4, <1>5

LEMMA RemoveGood ==
  ASSUME IInv, NEW t \in Threads, RemoveDescriptor(t), Frozen
  PROVE  Good(t)
  <1>0. Control /\ op_table_' = op_table_
    BY DEF RemoveDescriptor, IInv, Control
  <1>1. PICK f :
           /\ Here(t, f) /\ f.at = "remove" /\ f.op # Null
           /\ \/ Turns(t, f, "reload")
              \/ \E g, c \in Frames :
                   /\ Grow(t, g, c)
                   /\ Fields(g, f.op, f.row, "helping", f.wf, f.val, f.res)
                   /\ Fields(c, f.val.op, f.val.row, "load", FALSE, Null, FALSE)
           /\ Quiet
    BY <1>0, RemoveStep
  <1>2. /\ FrameShape(f) /\ FrameOk(t, f) /\ f \in Frames /\ Types /\ RowsSorted /\ Address(f) \in Addrs
        /\ f.op # Null => /\ f.op \in Ops /\ f.row \in Rows(f.op) /\ RowCount(f.op) \in Nat
                          /\ f.row \in Nat /\ f.row >= 1 /\ f.row <= RowCount(f.op)
                          /\ Address(f) = Row(f.op, f.row).address
                          /\ Row(f.op, f.row).expected \in Values
    BY <1>1, HereFacts
  <1> DEFINE h == f.val
  <1>h. h \in Helpers /\ h.op \in Ops /\ h.row \in Rows(h.op) /\ Row(h.op, h.row).address = Address(f)
    <2>1. h \in Helpers /\ WordAt(h, Address(f))
      BY <1>1, <1>2 DEF FrameShape, Meeting
    <2> QED
      BY <2>1 DEF WordAt, Helpers
  <1>3. CASE Turns(t, f, "reload")
    <2>1. ASSUME NEW g \in Frames, Fields(g, f.op, f.row, "reload", f.wf, f.val, f.res),
                Address(g) = Address(f)
         PROVE  FrameShape(g) /\ FrameOk(t, g)
      <3>1. g.op = f.op /\ g.row = f.row /\ g.at = "reload" /\ g.val = f.val
        BY <2>1 DEF Fields
      <3>2. FrameShape(g)
        BY <1>1, <1>2, <2>1, <3>1 DEF FrameShape, Meeting, Reading
      <3>3. FrameOk(t, g)
        BY <1>1, <1>2, <3>1 DEF FrameOk, Meeting, Held
      <3> QED
        BY <3>2, <3>3
    <2> QED
      BY <1>0, <1>1, <1>3, <2>1, TurnsGood DEF Loose
  <1>4. ASSUME NEW g \in Frames, NEW c \in Frames, Grow(t, g, c),
               Fields(g, f.op, f.row, "helping", f.wf, f.val, f.res),
               Fields(c, f.val.op, f.val.row, "load", FALSE, Null, FALSE)
        PROVE  Good(t)
    <2>1. /\ g.op = f.op /\ g.row = f.row /\ g.at = "helping" /\ g.wf = f.wf /\ g.val = h
          /\ c.op = h.op /\ c.row = h.row /\ c.at = "load" /\ Address(g) = Address(f)
      BY <1>4 DEF Fields, Address
    <2>2. Held(h) = h /\ Prefix(h.op, h.row) /\ Prefix(f.op, f.row)
      BY <1>1, <1>2, <1>h DEF FrameOk, Meeting
    <2>3. h # Null /\ h # FAIL_CONST /\ h.op # Null
      BY <1>h, WordsAssumption
    <2>4. FrameShape(g)
      BY <1>1, <1>2, <2>1 DEF FrameShape, Meeting
    <2>5. FrameShape(c)
      BY <1>h, <2>1, <2>3 DEF FrameShape, Meeting
    <2>6. FrameOk(t, g)
      BY <1>1, <1>2, <2>1, <2>2 DEF FrameOk, Meeting
    <2>7. FrameOk(t, c)
      BY <2>1, <2>2 DEF FrameOk, Meeting
    <2>8. FrameOk(t, g)' /\ FrameOk(t, c)'
      BY <1>1, <2>6, <2>7, QuietFrame DEF Frozen
    <2>9. Address(c) = Address(g) /\ Settled(c.op, c.row)
      <3>1. Address(c) = Row(h.op, h.row).address
        BY <2>1, <2>3 DEF Address
      <3>2. helper_[c.op][c.row] = h
        BY <2>1, <2>2 DEF Held
      <3> QED
        BY <1>h, <2>1, <2>3, <3>1, <3>2 DEF Settled
    <2>10. Link(g, c, Len(stack[t]))
      BY <2>1 DEF Link
    <2>11. op[t] # Null
      BY <1>1, HereFacts
    <2>12. Fits(t, g) /\ Fits(t, c)
      BY <1>1, <2>1, <2>3, <2>4, <2>5, <2>8, <2>11 DEF Fits
    <2>13. Grows(t, f, g, c)
      BY <1>1, <1>4, <2>1, <2>9, <2>10, <2>12 DEF Grows
    <2>14. Effect(t)
      BY <1>1 DEF Effect
    <2> QED
      BY <1>0, <2>13, <2>14, TableKept DEF Moves, Good, Frozen
  <1> QED
    BY <1>1, <1>3, <1>4

LEMMA UninstallGood ==
  ASSUME IInv, NEW t \in Threads, Uninstall(t), Frozen
  PROVE  Good(t)
  <1>0. Control /\ op_table_' = op_table_
    BY DEF Uninstall, IInv, Control
  <1>1. PICK f :
           /\ Here(t, f) /\ f.at = "uninstall"
           /\ \/ /\ mem[Address(f)] = f.val
                 /\ Swaps(Address(f), Installed(f.val.op, f.val.row, f.res))
              \/ Quiet
           /\ Turns(t, f, "reload")
    BY <1>0, UninstallStep
  <1>2. /\ FrameShape(f) /\ FrameOk(t, f) /\ f \in Frames /\ Types /\ RowsSorted /\ Address(f) \in Addrs
        /\ f.op # Null => /\ f.op \in Ops /\ f.row \in Rows(f.op) /\ RowCount(f.op) \in Nat
                          /\ f.row \in Nat /\ f.row >= 1 /\ f.row <= RowCount(f.op)
                          /\ Address(f) = Row(f.op, f.row).address
                          /\ Row(f.op, f.row).expected \in Values
    BY <1>1, HereFacts
  <1>k. Effect(t) => FrameOk(t, f)'
    <2>1. f = stack[t][Len(stack[t])] /\ Len(stack[t]) \in 1 .. Len(stack[t])
      BY <1>1, HereFacts
    <2> QED
      BY <2>1, FrameKept DEF Frozen
  <1> DEFINE h == f.val
  <1>h. h \in Helpers /\ h.op \in Ops /\ h.row \in Rows(h.op) /\ Row(h.op, h.row).address = Address(f)
    <2>1. h \in Helpers /\ WordAt(h, Address(f))
      BY <1>1, <1>2 DEF FrameShape, Meeting
    <2> QED
      BY <2>1 DEF WordAt, Helpers
  <1>3. /\ Effect(t) /\ helper_' = helper_ /\ state_' = state_
        /\ mem' = mem \/ \E b \in Addrs : \E u \in Values : mem' = [mem EXCEPT ![b] = u]
    <2>1. Held(h) = h /\ ~InProgress(h.op) /\ f.res = (state_[h.op] = "PASS")
      BY <1>1, <1>2 DEF FrameOk
    <2>2. LogicalOf(h) = Installed(h.op, h.row, f.res) /\ h # Null
      BY <1>h, <2>1, LogicalIs, WordsAssumption DEF Installed
    <2>3. (mem[Address(f)] = h /\ Swaps(Address(f), Installed(h.op, h.row, f.res))) \/ Quiet
      BY <1>1
    <2> HIDE DEF h
    <2> QED
      BY <1>0, <1>2, <1>h, <2>1, <2>2, <2>3, GiveBack
  <1>4. \A g : Places(t, g)
    BY <1>1, <1>3, PlacesNone
  <1>5. ASSUME NEW g \in Frames, Fields(g, f.op, f.row, "reload", f.wf, f.val, f.res),
              Address(g) = Address(f)
       PROVE  FrameShape(g) /\ FrameOk(t, g)'
    <2>1. g.op = f.op /\ g.row = f.row /\ g.at = "reload" /\ g.val = f.val
      BY <1>5 DEF Fields
    <2>2. FrameShape(g)
      BY <1>1, <1>2, <1>3, <1>k, <1>5, <2>1 DEF FrameShape, Meeting, Reading
    <2>3. FrameOk(t, g)'
      BY <1>1, <1>2, <1>3, <1>k, <2>1 DEF FrameOk, Meeting, Held, Helper
    <2> QED
      BY <2>2, <2>3
  <1> QED
    BY <1>0, <1>1, <1>3, <1>4, <1>5, TurnsMoves DEF Good, Loose

\* A row of an operation that is over, behind rows that are settled.
LEMMA RowAssociated ==
  ASSUME IInv, NEW o \in Ops, NEW r \in Rows(o), ~InProgress(o), Prefix(o, r)
  PROVE  helper_[o][r] # Null
  <1>0. Types /\ RowsSorted /\ r \in Nat /\ Null # FAIL_CONST /\ r >= 1 /\ RowCount(o) \in Nat
        /\ r <= RowCount(o)
    <2>1. Types /\ RowsSorted
      BY DEF IInv, Control
    <2> QED
      BY <2>1, RowTyped, WordsAssumption DEF Rows
  <1>1. state_[o] = "PASS" => Settled(o, r)
    BY DEF IInv, Outcomes
  <1>2. state_[o] = "FAIL" => \E i \in Rows(o) : helper_[o][i] = FAIL_CONST
    BY DEF IInv, Outcomes
  <1>3. ASSUME NEW i \in Rows(o), helper_[o][i] = FAIL_CONST
        PROVE  helper_[o][r] # Null
    <2>1. i \in Nat /\ i >= 1 /\ i <= RowCount(o)
      BY <1>0, RowTyped DEF Rows
    <2>2. CASE i = r
      BY <1>0, <1>3, <2>2
    <2>3. CASE i < r
      <3>1. i \in 1 .. (r - 1)
        BY <1>0, <2>1, <2>3
      <3> QED
        BY <1>3, <3>1 DEF Prefix, Settled
    <2>4. CASE r < i
      <3>1. r \in 1 .. (i - 1)
        BY <1>0, <2>1, <2>4
      <3>2. Prefix(o, i)
        BY <1>0, <1>3 DEF IInv, HelperPrefix
      <3> QED
        BY <3>1, <3>2 DEF Prefix, Settled
    <2> QED
      BY <1>0, <2>1, <2>2, <2>3, <2>4
  <1>4. state_[o] \in {"IN_PROGRESS", "PASS", "FAIL"}
    BY <1>0 DEF Types
  <1> QED
    BY <1>1, <1>2, <1>3, <1>4 DEF InProgress, Settled

LEMMA CleanupGood ==
  ASSUME IInv, NEW t \in Threads, Cleanup(t), Frozen
  PROVE  Good(t)
  <1>0. Control /\ op_table_' = op_table_
    BY DEF Cleanup, IInv, Control
  <1>1. PICK f :
           /\ Here(t, f) /\ f.at = "cleanup" /\ f.op # Null
           /\ \/ helper_[f.op][f.row] = FAIL_CONST /\ Turns(t, f, "done") /\ Quiet
              \/ /\ helper_[f.op][f.row] # FAIL_CONST
                 /\ \/ /\ mem[Address(f)] = helper_[f.op][f.row]
                       /\ Swaps(Address(f), Installed(f.op, f.row, f.res))
                    \/ mem[Address(f)] # helper_[f.op][f.row] /\ Quiet
                 /\ \E g \in Frames :
                      \/ /\ f.row = RowCount(f.op)
                         /\ Becomes(t, g, f.op, f.row, "done", f.wf, f.val, f.res)
                      \/ /\ f.row < RowCount(f.op)
                         /\ Becomes(t, g, f.op, f.row + 1, "cleanup", f.wf, f.val, f.res)
    BY <1>0, CleanupStep
  <1>2. /\ FrameShape(f) /\ FrameOk(t, f) /\ f \in Frames /\ Types /\ RowsSorted /\ Address(f) \in Addrs
        /\ f.op # Null => /\ f.op \in Ops /\ f.row \in Rows(f.op) /\ RowCount(f.op) \in Nat
                          /\ f.row \in Nat /\ f.row >= 1 /\ f.row <= RowCount(f.op)
                          /\ Address(f) = Row(f.op, f.row).address
                          /\ Row(f.op, f.row).expected \in Values
    BY <1>1, HereFacts
  <1>k. Effect(t) => FrameOk(t, f)'
    <2>1. f = stack[t][Len(stack[t])] /\ Len(stack[t]) \in 1 .. Len(stack[t])
      BY <1>1, HereFacts
    <2> QED
      BY <2>1, FrameKept DEF Frozen
  <1> DEFINE o == f.op
             h == helper_[o][f.row]
             Gone(j) == mem[Row(o, j).address] # helper_[o][j]
  <1>f. /\ ~InProgress(o) /\ f.res = (state_[o] = "PASS") /\ Prefix(o, f.row)
        /\ \A j \in 1 .. (f.row - 1) : Gone(j)
    BY <1>1, <1>2 DEF FrameOk
  <1>r. /\ \A p : Rows(p)' = Rows(p) /\ RowCount(p)' = RowCount(p)
        /\ \A p, i : Row(p, i)' = Row(p, i)
    BY RowsKept DEF Frozen
  <1>l. Len(stack[t]) = 1 /\ f.op = op[t] /\ f = stack[t][1]
    BY <1>1, HereFacts
  <1>3. CASE h = FAIL_CONST /\ Turns(t, f, "done") /\ Quiet
    <2>1. \A j \in Rows(o) : Gone(j)
      <3> SUFFICES ASSUME NEW j \in Rows(o) PROVE Gone(j)
        OBVIOUS
      <3>1. j \in Nat /\ j >= 1 /\ Row(o, j).address \in Addrs /\ j \in 1 .. MaxRows
        BY <1>1, <1>2, RowTyped DEF Rows
      <3>2. mem[Row(o, j).address] \notin {Null, FAIL_CONST}
        BY <1>2, <3>1, WordIs DEF Types
      <3>3. CASE j < f.row
        <4>1. j \in 1 .. (f.row - 1)
          BY <1>1, <1>2, <3>1, <3>3
        <4> QED
          BY <1>f, <4>1
      <3>4. CASE j = f.row
        BY <1>3, <3>2, <3>4
      <3>5. CASE j > f.row
        <4>1. f.row \in 1 .. (j - 1)
          BY <1>1, <1>2, <3>1, <3>5
        <4>2. ~Prefix(o, j)
          BY <1>3, <4>1 DEF Prefix, Settled
        <4>3. helper_[o][j] = Null
          BY <1>1, <1>2, <4>2 DEF IInv, HelperPrefix
        <4> QED
          BY <3>2, <4>3
      <3> QED
        BY <1>1, <1>2, <3>1, <3>3, <3>4, <3>5
    <2>2. ASSUME NEW g \in Frames, Fields(g, f.op, f.row, "done", f.wf, f.val, f.res),
                Address(g) = Address(f)
         PROVE  FrameShape(g) /\ FrameOk(t, g)
      <3>1. g.op = f.op /\ g.row = f.row /\ g.at = "done" /\ g.val = f.val
        BY <2>2 DEF Fields
      <3>2. FrameShape(g)
        BY <1>1, <1>2, <1>f, <2>1, <2>2, <3>1 DEF FrameShape, Meeting, Reading
      <3>3. FrameOk(t, g)
        BY <1>1, <1>2, <1>f, <2>1, <3>1 DEF FrameOk, Meeting, Held
      <3> QED
        BY <3>2, <3>3
    <2> QED
      BY <1>0, <1>1, <1>3, <2>2, TurnsGood DEF Loose
  <1>4. ASSUME h # FAIL_CONST,
               (mem[Address(f)] = h /\ Swaps(Address(f), Installed(o, f.row, f.res)))
                 \/ (mem[Address(f)] # h /\ Quiet),
               NEW g \in Frames,
               \/ f.row = RowCount(o) /\ Becomes(t, g, o, f.row, "done", f.wf, f.val, f.res)
               \/ f.row < RowCount(o) /\ Becomes(t, g, o, f.row + 1, "cleanup", f.wf, f.val, f.res)
        PROVE  Good(t)
    <2>0. Address(f) = Row(o, f.row).address /\ f.row \in 1 .. MaxRows /\ o \in Ops
      BY <1>1, <1>2, RowTyped
    <2>1. /\ Effect(t) /\ helper_' = helper_ /\ state_' = state_
          /\ mem' = mem \/ \E b \in Addrs : \E u \in Values : mem' = [mem EXCEPT ![b] = u]
          /\ mem'[Address(f)] # h
      <3>1. CASE mem[Address(f)] # h /\ Quiet
        BY <3>1 DEF Quiet, Effect
      <3>2. CASE mem[Address(f)] = h /\ Swaps(Address(f), Installed(o, f.row, f.res))
        <4>1. h \in Words
          BY <1>2, <3>2 DEF Types
        <4>2. h \in Helpers \cup {Null, FAIL_CONST}
          BY <1>2, <2>0 DEF Types
        <4>3. h \in Helpers /\ h # Null
          BY <4>1, <4>2, WordIs
        <4>4. h.op = o /\ h.row = f.row
          BY <2>0, <4>3 DEF IInv, Control, HelperRows
        <4>5. Held(h) = h
          BY <4>4 DEF Held
        <4>6. LogicalOf(h) = Installed(o, f.row, f.res)
          <5>1. f.res = (state_[o] = "PASS")
            BY <1>f
          <5> HIDE DEF o, h
          <5>2. /\ state_[h.op] = "PASS" => LogicalOf(h) = Row(h.op, h.row).new
                /\ state_[h.op] # "PASS" => LogicalOf(h) = Row(h.op, h.row).expected
            BY <4>3, <4>5, LogicalIs
          <5> QED
            BY <4>4, <5>1, <5>2 DEF Installed
        <4>7. LogicalOf(h) \in Values
          BY <1>0, <1>2, <3>2, LogicalValue
        <4> HIDE DEF o, h
        <4>8. /\ Effect(t) /\ helper_' = helper_ /\ state_' = state_
              /\ mem' = mem \/ \E b \in Addrs : \E u \in Values : mem' = [mem EXCEPT ![b] = u]
          BY <1>0, <1>2, <1>f, <3>2, <4>3, <4>4, <4>5, <4>6, GiveBack
        <4>9. mem'[Address(f)] = LogicalOf(h)
          BY <1>2, <3>2, <4>6 DEF Swaps, Types
        <4> QED
          BY <4>3, <4>7, <4>8, <4>9, WordsAssumption
      <3> QED
        BY <1>4, <3>1, <3>2
    <2>2. FrameOk(t, f)'
      BY <1>k, <2>1
    <2>3. \A j \in 1 .. f.row : mem'[Row(o, j).address] # helper_'[o][j]
      <3>1. \A j \in 1 .. (f.row - 1) : mem'[Row(o, j).address] # helper_'[o][j]
        BY <1>1, <1>r, <2>2 DEF FrameOk
      <3>2. \A j \in 1 .. f.row : j = f.row \/ j \in 1 .. (f.row - 1)
        BY <1>1, <1>2
      <3> QED
        BY <2>0, <2>1, <3>1, <3>2
    <2>4. ~InProgress(o)' /\ f.res = (state_'[o] = "PASS") /\ Prefix(o, f.row)'
      BY <1>1, <2>2 DEF FrameOk
    <2>5. \A e : Places(t, e)
      BY <1>1, <2>1, PlacesNone
    <2>6. /\ Cut(t, 1, g) /\ g.op = o /\ g.wf = f.wf /\ g.res = f.res
          /\ \/ f.row = RowCount(o) /\ g.row = f.row /\ g.at = "done"
             \/ f.row < RowCount(o) /\ g.row = f.row + 1 /\ g.at = "cleanup"
      BY <1>4, <1>l DEF Becomes, Fields
    <2>7. FrameShape(g) /\ FrameOk(t, g)'
      <3>1. CASE f.row = RowCount(o) /\ g.row = f.row /\ g.at = "done"
        <4>1. FrameShape(g)
          BY <1>1, <1>2, <2>6, <3>1 DEF FrameShape, Meeting
        <4>2. (\A j \in Rows(o) : Gone(j))'
          BY <1>r, <2>3, <3>1 DEF Rows
        <4>3. FrameOk(t, g)'
          BY <2>4, <2>6, <3>1, <4>2 DEF FrameOk, Meeting
        <4> QED
          BY <4>1, <4>3
      <3>2. CASE f.row < RowCount(o) /\ g.row = f.row + 1 /\ g.at = "cleanup"
        <4>1. g.row \in Rows(o) /\ f.op # Null
          BY <1>1, <1>2, <3>2 DEF Rows
        <4>2. FrameShape(g)
          BY <2>6, <3>2, <4>1 DEF FrameShape, Meeting
        <4>3. PICK k : k = g.row /\ k - 1 = f.row
          BY <1>1, <1>2, <3>2
        <4>4. (\A j \in 1 .. (k - 1) : Gone(j))'
          BY <1>r, <2>3, <4>3
        <4>5. Prefix(o, k)'
          <5>1. Settled(o, f.row)'
            <6>1. h # Null
              BY <1>1, <1>2, <1>f, RowAssociated
            <6> QED
              BY <1>4, <2>1, <6>1 DEF Settled
          <5>2. \A j \in 1 .. (k - 1) : j = f.row \/ j \in 1 .. (f.row - 1)
            BY <1>1, <1>2, <4>3
          <5> QED
            BY <2>4, <5>1, <5>2 DEF Prefix
        <4>6. FrameOk(t, g)'
          BY <2>4, <2>6, <3>2, <4>3, <4>4, <4>5 DEF FrameOk, Meeting
        <4> QED
          BY <4>2, <4>6
      <3> QED
        BY <2>6, <3>1, <3>2
    <2>8. Cuts(t, 1, f, g)
      BY <1>1, <1>l, <2>5, <2>6, <2>7 DEF Cuts, Fits
    <2> QED
      BY <1>0, <2>1, <2>8, TableKept DEF Moves, Good, Frozen
  <1> QED
    BY <1>1, <1>3, <1>4

LEMMA ReadValueGood ==
  ASSUME IInv, NEW t \in Threads, ReadValue(t), Frozen
  PROVE  Good(t)
  <1>0. Control /\ op_table_' = op_table_
    BY DEF ReadValue, IInv, Control
  <1>1. PICK f :
           /\ Here(t, f) /\ f.at = "value"
           /\ f.op = Null /\ f.val \in Helpers
           /\ \E g \in Frames :
                Becomes(t, g, f.op, f.row, "done", f.wf,
                        IF state_[f.val.op] = "PASS" THEN Row(f.val.op, f.val.row).new
                        ELSE Row(f.val.op, f.val.row).expected, f.res)
           /\ Quiet
    BY <1>0, ReadValueStep
  <1>2. /\ FrameShape(f) /\ FrameOk(t, f) /\ f \in Frames /\ Types /\ RowsSorted /\ Address(f) \in Addrs
        /\ f.op # Null => /\ f.op \in Ops /\ f.row \in Rows(f.op) /\ RowCount(f.op) \in Nat
                          /\ f.row \in Nat /\ f.row >= 1 /\ f.row <= RowCount(f.op)
                          /\ Address(f) = Row(f.op, f.row).address
                          /\ Row(f.op, f.row).expected \in Values
    BY <1>1, HereFacts
  <1> DEFINE v == IF state_[f.val.op] = "PASS" THEN Row(f.val.op, f.val.row).new
                  ELSE Row(f.val.op, f.val.row).expected
  <1>3. PICK g \in Frames : Becomes(t, g, f.op, f.row, "done", f.wf, v, f.res)
    BY <1>1
  <1>4. g.op = Null /\ g.row = f.row /\ g.at = "done"
    BY <1>1, <1>3 DEF Becomes, Fields
  <1>5. FrameShape(g)
    BY <1>1, <1>2, <1>4 DEF FrameShape, Meeting, Reading
  <1>6. FrameOk(t, g)
    BY <1>4 DEF FrameOk, Meeting
  <1>7. f.at # "associate" /\ ~Loose(f)
    BY <1>1 DEF Loose
  <1> HIDE DEF v
  <1> QED
    BY <1>0, <1>1, <1>3, <1>5, <1>6, <1>7, StaysGood

-----------------------------------------------------------------------------
(* A step of an activation keeps the invariant                             *)

LEMMA AccessGood ==
  ASSUME IInv, NEW t \in Threads, Access(t), cas_rows_' = cas_rows_
  PROVE  Good(t) /\ Frozen /\ UNCHANGED reclamation
  <1>1. op' = op /\ UNCHANGED reclamation
    BY DEF Access, Load, SeeHelper, SeeState, Mismatch, Place, AssociateOwn, Undo, Over, SetFail,
         SetPass, Withdraw, Watch, OnWatch, Restore, OwnRow, RemoveDescriptor, Uninstall, Cleanup, ReadValue
  <1>2. Frozen
    BY <1>1 DEF Frozen
  <1>3. Good(t)
    BY <1>2, LoadGood, SeeHelperGood, SeeStateGood, MismatchGood, PlaceGood, AssociateGood, UndoGood,
       OverGood, SetFailGood, SetPassGood, WithdrawGood, WatchGood, OnWatchGood, RestoreGood, OwnRowGood,
       RemoveGood, UninstallGood, CleanupGood, ReadValueGood, Zenon DEF Access
  <1> QED
    BY <1>1, <1>2, <1>3

LEMMA StepKept ==
  ASSUME IInv, NEW t \in Threads, Step(t)
  PROVE  IInv'
  <1>1. /\ cas_rows_' = cas_rows_ /\ Access(t)
        /\ held' = [u \in Threads |->
                      IF stack[u] = <<>> THEN held[u]
                      ELSE [a \in Addrs |-> held[u][a] \cup {Logical'[a]}]]
    BY DEF Step
  <1> QED
    BY <1>1, AccessGood, AccessKept DEF Good

-----------------------------------------------------------------------------
(* Calls and their ends                                                    *)

\* Rows are only given to an operation that has none.
RowsGrow ==
  /\ cas_rows_' \in [Ops -> Seq(Triples)]
  /\ \A o \in Ops : RowCount(o) > 0 => cas_rows_'[o] = cas_rows_[o]

LEMMA RowsFixed ==
  ASSUME Types, RowsGrow, NEW o \in Ops, NEW i \in Rows(o)
  PROVE  /\ cas_rows_'[o] = cas_rows_[o] /\ RowCount(o) > 0 /\ RowCount(o)' = RowCount(o)
         /\ Rows(o)' = Rows(o) /\ \A j : Row(o, j)' = Row(o, j)
  <1>1. RowCount(o) \in Nat /\ i \in 1 .. RowCount(o)
    BY DEF Types, RowCount, Rows
  <1>2. RowCount(o) > 0
    BY <1>1
  <1>3. cas_rows_'[o] = cas_rows_[o]
    BY <1>2 DEF RowsGrow
  <1> QED
    BY <1>2, <1>3 DEF RowCount, Rows, Row

LEMMA WordFixed ==
  ASSUME Types, RowsGrow, NEW w \in Words, NEW a, WordAt(w, a)
  PROVE  WordAt(w, a)'
  <1>1. CASE w \in Helpers
    <2>1. w.op \in Ops /\ w.row \in Rows(w.op)
      BY <1>1 DEF WordAt, Helpers
    <2> QED
      BY <2>1, RowsFixed DEF WordAt
  <1>2. CASE w \notin Helpers
    BY <1>2 DEF WordAt
  <1> QED
    BY <1>1, <1>2

LEMMA FrameFixed ==
  ASSUME Control, RowsGrow, mem' = mem, helper_' = helper_, state_' = state_,
         NEW u \in Threads, NEW f \in Frames, FrameShape(f), FrameOk(u, f)
  PROVE  FrameShape(f)' /\ FrameOk(u, f)' /\ Address(f)' = Address(f)
  <1>0. Types
    BY DEF Control
  <1>1. /\ f.op # Null => f.op \in Ops /\ f.row \in Rows(f.op)
    BY DEF Frames, FrameShape
  <1>2. f.op # Null => /\ Rows(f.op)' = Rows(f.op) /\ \A j : Row(f.op, j)' = Row(f.op, j)
    BY <1>0, <1>1, RowsFixed
  <1>3. Address(f)' = Address(f)
    BY <1>2 DEF Address
  <1>4. FrameShape(f)'
    <2>1. f.val \in Words /\ WordAt(f.val, Address(f)) => WordAt(f.val, Address(f))'
      <3>1. ASSUME f.val \in Words, NEW a, WordAt(f.val, a) PROVE WordAt(f.val, a)'
        BY <1>0, <3>1, WordFixed
      <3> QED
        BY <1>3, <3>1 DEF WordAt
    <2>2. f.op = Null => f.row \in Addrs /\ f.at \in Reading
      BY DEF FrameShape
    <2>3. f.op # Null => (f.row \in Rows(f.op))' /\ f.at # "value"
      BY <1>2 DEF FrameShape
    <2> QED
      BY <2>1, <2>2, <2>3 DEF FrameShape
  <1>5. \A o : InProgress(o)' <=> InProgress(o)
    BY DEF InProgress
  <1>6. /\ \A o, i : Prefix(o, i)' <=> Prefix(o, i)
        /\ \A o, i : Settled(o, i)' <=> Settled(o, i)
        /\ \A h : Held(h)' = Held(h)
    BY DEF Prefix, Settled, Held
  <1>7. FrameOk(u, f)'
    <2>1. CASE f.op = Null
      <3>1. f.at \in Reading
        BY <2>1 DEF FrameShape
      <3> QED
        BY <1>3, <1>5, <1>6, <2>1, <3>1 DEF FrameOk, Reading
    <2>2. CASE f.op # Null
      BY <1>2, <1>3, <1>5, <1>6, <2>2 DEF FrameOk, Helper
    <2> QED
      BY <2>1, <2>2
  <1> QED
    BY <1>3, <1>4, <1>7

LEMMA RowBound == Types /\ RowsSorted => \A o \in Ops : \A i \in Rows(o) : i \in 1 .. MaxRows
  BY RowTyped

\* A call begins or ends: one activation at most, and memory as it is.
LEMMA CallKept ==
  ASSUME IInv, NEW t \in Threads, RowsGrow, RowsSorted', mem' = mem, state_' = state_, helper_' = helper_,
         op_table_' = op_table_, NEW s \in Seq(Frames), Len(s) <= 1, stack' = [stack EXCEPT ![t] = s],
         op' \in [Threads -> Ops \cup {Null}], \A u \in Threads : u # t => op'[u] = op[u],
         Caller(t)', \A k \in 1 .. Len(s) : \A f \in {s[k]} : FrameShape(f)' /\ FrameOk(t, f)',
         ~At(t, "associate"),
         retired' \in [Threads -> SUBSET Ops], unchecked' \in [Threads -> SUBSET Ops],
         scan' \in [Threads -> Ops \cup {Null}], deleted' \in SUBSET Ops, Retirement', HistoryType'
  PROVE  IInv'
  <1>0. Control /\ Types /\ RowsSorted /\ stack' \in [Threads -> Seq(Frames)]
    BY DEF IInv, Control, Types
  <1>s. stack'[t] = s /\ \A u \in Threads : u # t => stack'[u] = stack[u]
    BY <1>0 DEF Types
  <1>i. \A o : InProgress(o)' <=> InProgress(o)
    BY DEF InProgress
  <1>h. /\ \A o, i : Prefix(o, i)' <=> Prefix(o, i)
        /\ \A o, i : Settled(o, i)' <=> Settled(o, i)
        /\ \A h : Held(h)' = Held(h)
    BY DEF Prefix, Settled, Held
  <1>f. ASSUME NEW u \in Threads, u # t, NEW k \in 1 .. Len(stack[u]), NEW f, f = stack[u][k]
        PROVE  FrameShape(f)' /\ FrameOk(u, f)' /\ Address(f)' = Address(f)
    <2>1. f \in Frames /\ FrameShape(f) /\ FrameOk(u, f)
      BY <1>0, <1>f, FrameFacts DEF IInv, FramesOk
    <2> QED
      BY <1>0, <2>1, FrameFixed
  <1>1. Types'
    BY <1>0 DEF Types, RowsGrow
  <1>r. ASSUME NEW o \in Ops, NEW i \in 1 .. MaxRows, helper_[o][i] # Null
        PROVE  i \in Rows(o) /\ Rows(o)' = Rows(o) /\ \A j : Row(o, j)' = Row(o, j)
    <2>1. i \in Rows(o)
      BY <1>r DEF IInv, Control, HelperRows
    <2> QED
      BY <1>0, <2>1, RowsFixed
  <1>b. \A o \in Ops : \A i \in Rows(o)' : i \in 1 .. MaxRows
    <2>1. (Types /\ RowsSorted => \A o \in Ops : \A i \in Rows(o) : i \in 1 .. MaxRows)'
      BY RowBound, PTL
    <2> QED
      BY <1>1, <2>1
  <1>2. HelperRows'
    BY <1>r DEF IInv, Control, HelperRows
  <1>3. MemRows'
    <2>1. \A a \in Addrs : mem[a] \in Words /\ WordAt(mem[a], a)
      BY <1>0 DEF Types, Control, MemRows
    <2>2. ASSUME NEW a \in Addrs, NEW w \in Words, w = mem[a] PROVE WordAt(w, a)'
      BY <1>0, <2>1, <2>2, WordFixed
    <2> QED
      BY <2>1, <2>2 DEF MemRows, WordAt
  <1>n. \A o \in Ops : RowCount(o) \in Nat
    BY <1>0 DEF Types, RowCount
  <1>g. \A o \in Ops : RowCount(o) > 0 => cas_rows_'[o] = cas_rows_[o] /\ RowCount(o)' = RowCount(o)
                                         /\ Rows(o)' = Rows(o) /\ \A j : Row(o, j)' = Row(o, j)
    BY DEF RowsGrow, RowCount, Rows, Row
  <1>4. FreshRows'
    BY <1>0, <1>g, <1>i, <1>n DEF Control, FreshRows
  <1>5. Announced'
    <2>1. \A u \in Threads : op_table_[u] # Null => op_table_[u] \in Ops /\ RowCount(op_table_[u]) > 0
      BY <1>0 DEF Control, Announced, Types
    <2>2. \A o \in Ops : RowCount(o) > 0 => RowCount(o)' > 0
      BY <1>g
    <2>3. (\A u \in Threads : op_table_[u] # Null => RowCount(op_table_[u]) > 0)'
      BY <2>1, <2>2 DEF RowCount
    <2> QED
      BY <2>3 DEF Announced
  <1>6. Shapes'
    <2>1. ASSUME NEW u \in Threads
          PROVE  /\ \A k \in 1 .. Len(stack'[u]) : \A f \in {stack'[u][k]} : FrameShape(f)'
                 /\ \A k \in 1 .. (Len(stack'[u]) - 1) :
                      \A g \in {stack'[u][k]} : \A f \in {stack'[u][k + 1]} : Link(g, f, k)'
                 /\ Caller(u)'
      <3>1. CASE u = t
        <4>1. \A k \in 1 .. (Len(s) - 1) : FALSE
          BY <1>0
        <4> QED
          BY <1>s, <3>1, <4>1
      <3>2. CASE u # t
        <4>1. \A k \in 1 .. Len(stack[u]) : \A f \in {stack[u][k]} : FrameShape(f)'
          BY <1>f, <3>2
        <4>2. \A k \in 1 .. (Len(stack[u]) - 1) :
                \A g \in {stack[u][k]} : \A f \in {stack[u][k + 1]} : Link(g, f, k)'
          BY <1>0 DEF Control, Shapes, Link
        <4>3. Caller(u)'
          <5>1. Caller(u) /\ op'[u] = op[u] /\ stack'[u] = stack[u]
            BY <1>0, <1>s, <3>2 DEF Control, Shapes
          <5>2. op[u] # Null => op[u] \in Ops /\ RowCount(op[u]) > 0
            BY <1>0, <5>1 DEF Types, Caller
          <5>3. (op[u] # Null => RowCount(op[u]) > 0)'
            <6>1. op[u] # Null => cas_rows_'[op[u]] = cas_rows_[op[u]]
              BY <1>g, <5>2
            <6> QED
              BY <5>1, <5>2, <6>1 DEF RowCount
          <5> QED
            BY <5>1, <5>3 DEF Caller
        <4> QED
          BY <1>s, <3>2, <4>1, <4>2, <4>3
      <3> QED
        BY <3>1, <3>2
    <2> QED
      BY <2>1 DEF Shapes
  <1>7. HelperPrefix'
    <2> SUFFICES ASSUME NEW o \in Ops, NEW i \in Rows(o)', helper_[o][i] # Null PROVE Prefix(o, i)
      BY <1>h DEF HelperPrefix
    <2>1. i \in 1 .. MaxRows
      BY <1>b
    <2> QED
      BY <1>r, <2>1 DEF IInv, HelperPrefix
  <1>8. MemPrefix'
    BY <1>h DEF IInv, MemPrefix
  <1>9. PlacedByTop'
    <2> SUFFICES ASSUME NEW a \in Addrs, NEW h \in Helpers, mem[a] = h, Held(h) = Null
                 PROVE  /\ At(h.by, "associate")'
                        /\ Top(h.by)'.op = h.op /\ Top(h.by)'.row = h.row
      BY <1>h DEF PlacedByTop, Top, At
    <2>1. At(h.by, "associate") /\ Top(h.by).op = h.op /\ Top(h.by).row = h.row
      BY DEF IInv, PlacedByTop
    <2>2. h.by \in Threads /\ h.by # t
      BY <2>1 DEF Helpers
    <2> QED
      BY <1>s, <2>1, <2>2 DEF At, Top
  <1>10. Outcomes'
    <2>1. \A o \in Ops : state_[o] # "IN_PROGRESS" => Rows(o)' = Rows(o)
      BY <1>0, <1>g, <1>n DEF Control, FreshRows, InProgress
    <2> QED
      BY <1>h, <2>1 DEF IInv, Outcomes
  <1>11. AssociatedStays'
    <2> SUFFICES ASSUME NEW o \in Ops, NEW i \in Rows(o)', InProgress(o), helper_[o][i] \notin {Null, FAIL_CONST}
                 PROVE  mem[Row(o, i)'.address] = helper_[o][i]
      BY <1>i DEF AssociatedStays
    <2>1. i \in 1 .. MaxRows
      BY <1>b
    <2> QED
      BY <1>r, <2>1 DEF IInv, AssociatedStays
  <1>12. FramesOk'
    <2> SUFFICES ASSUME NEW u \in Threads, NEW k \in 1 .. Len(stack'[u]), NEW f, f = stack'[u][k]
                 PROVE  FrameOk(u, f)'
      BY DEF FramesOk
    <2>1. CASE u = t
      BY <1>s, <2>1
    <2>2. CASE u # t
      BY <1>f, <1>s, <2>2
    <2> QED
      BY <2>1, <2>2
  <1>13. Descending'
    <2> SUFFICES ASSUME NEW u \in Threads, NEW i \in 1 .. Len(stack'[u]), NEW j \in 1 .. Len(stack'[u]), i < j,
                        NEW x, x = stack'[u][i], NEW y, y = stack'[u][j], x.at = "helping"
                 PROVE  \/ (Address(y) < Address(x))'
                        \/ /\ (Address(y) = Address(x))' /\ j = Len(stack'[u])
                           /\ y.at \in {"load", "row", "pass"}
                           /\ Settled(y.op, y.row)'
      BY DEF Descending
    <2>1. u # t
      <3>1. \A p, q \in 1 .. Len(s) : ~(p < q)
        BY <1>0
      <3> QED
        BY <1>s, <3>1
    <2>2. stack'[u] = stack[u] /\ Address(x)' = Address(x) /\ Address(y)' = Address(y)
      BY <1>f, <1>s, <2>1
    <2>3. \/ Address(y) < Address(x)
          \/ /\ Address(y) = Address(x) /\ j = Len(stack[u])
             /\ y.at \in {"load", "row", "pass"}
             /\ Settled(y.op, y.row)
      BY <2>2 DEF IInv, Descending
    <2> QED
      BY <1>h, <2>2, <2>3
  <1>14. Control'
    BY <1>1, <1>2, <1>3, <1>4, <1>5, <1>6 DEF Control
  <1> QED
    BY <1>7, <1>8, <1>9, <1>10, <1>11, <1>12, <1>13, <1>14 DEF IInv

LEMMA CallReadKept ==
  ASSUME IInv, NEW t \in Threads, CallRead(t)
  PROVE  IInv'
  <1>0. Control /\ Types /\ Retirement /\ HistoryType /\ RowsSorted /\ Caller(t)
    BY DEF IInv, Control, Shapes
  <1>1. PICK a \in ReadAddrs : stack' = [stack EXCEPT ![t] = <<ReadFrame(a)>>]
    BY DEF CallRead
  <1>2. /\ stack[t] = <<>> /\ mem' = mem /\ cas_rows_' = cas_rows_ /\ state_' = state_
        /\ helper_' = helper_ /\ op_table_' = op_table_ /\ op' = op
        /\ UNCHANGED reclamation /\ Begin(t)
    BY DEF CallRead
  <1>3. /\ ReadFrame(a) \in Frames /\ Fields(ReadFrame(a), Null, a, "load", FALSE, Null, FALSE)
        /\ a \in Addrs
    BY AddrsAssumption, FreshReadFrame
  <1> DEFINE s == <<ReadFrame(a)>>
  <1>4. s \in Seq(Frames) /\ Len(s) = 1 /\ s[1] = ReadFrame(a)
    BY <1>3
  <1>5. RowsGrow /\ RowsSorted'
    BY <1>0, <1>2 DEF RowsGrow, Types, RowsSorted, RowCount, Rows, Row
  <1>6. \A k \in 1 .. Len(s) : \A f \in {s[k]} : FrameShape(f)' /\ FrameOk(t, f)'
    <2> SUFFICES ASSUME NEW f, f = ReadFrame(a) PROVE FrameShape(f)' /\ FrameOk(t, f)'
      BY <1>4
    <2>1. f.op = Null /\ f.at = "load" /\ f.row \in Addrs
      BY <1>3 DEF Fields
    <2> QED
      BY <2>1 DEF FrameShape, FrameOk, Meeting, Reading
  <1>7. op[t] = Null
    BY <1>0, <1>2 DEF Caller
  <1>8. Caller(t)'
    <2>1. stack'[t] = s
      BY <1>0, <1>1 DEF Types
    <2>2. ReadFrame(a).op = Null /\ ReadFrame(a).at = "load"
      BY <1>3 DEF Fields
    <2>3. s # <<>> /\ op'[t] = Null
      BY <1>2, <1>4, <1>7
    <2> HIDE DEF s
    <2>4. \A k \in 1 .. Len(s) : s[k].op = Null /\ s[k].at = "load"
      BY <1>4, <2>2
    <2> QED
      BY <1>4, <2>1, <2>3, <2>4 DEF Caller
  <1>9. Retirement'
    BY <1>0, <1>2 DEF Retirement, reclamation, Emptied, InProgress, Rows, RowCount, Row
  <1>10. HistoryType'
    BY <1>0, <1>2, LogicalValues DEF HistoryType, Begin, Logical
  <1>11. ~At(t, "associate")
    BY <1>2 DEF At
  <1>12. /\ retired' \in [Threads -> SUBSET Ops] /\ unchecked' \in [Threads -> SUBSET Ops]
         /\ scan' \in [Threads -> Ops \cup {Null}] /\ deleted' \in SUBSET Ops
         /\ op' \in [Threads -> Ops \cup {Null}]
    BY <1>0, <1>2 DEF Types, reclamation
  <1>13. stack' = [stack EXCEPT ![t] = s] /\ Len(s) <= 1 /\ \A u \in Threads : u # t => op'[u] = op[u]
    BY <1>1, <1>2, <1>4
  <1> HIDE DEF s
  <1> QED
    BY <1>2, <1>4, <1>5, <1>6, <1>8, <1>9, <1>10, <1>11, <1>12, <1>13, CallKept

LEMMA ReturnKept ==
  ASSUME IInv, NEW t \in Threads, Return(t)
  PROVE  IInv'
  <1>0. Control /\ Types /\ Retirement /\ HistoryType /\ RowsSorted
    BY DEF IInv, Control
  <1> DEFINE over == {op[t]} \ {Null}
  <1>1. /\ At(t, "done") /\ stack' = [stack EXCEPT ![t] = <<>>] /\ op' = [op EXCEPT ![t] = Null]
        /\ retired' = [retired EXCEPT ![t] = @ \cup over]
        /\ unchecked' = [unchecked EXCEPT ![t] = IF over = {} THEN {} ELSE retired'[t]]
        /\ held' = [held EXCEPT ![t] = Nothing]
        /\ mem' = mem /\ cas_rows_' = cas_rows_ /\ state_' = state_
        /\ helper_' = helper_ /\ op_table_' = op_table_ /\ scan' = scan /\ deleted' = deleted
    BY DEF Return
  <1>2. PICK f : Here(t, f)
    BY <1>0, <1>1, HereIs DEF At
  <1>3. f.at = "done" /\ (op[t] # Null => f.op = op[t]) /\ FrameOk(t, f)
    BY <1>1, <1>2, HereFacts DEF At, Here, Stands
  <1>4. over \subseteq Ops /\ \A o \in over : Emptied(o)
    <2>1. op[t] \in Ops \cup {Null}
      BY <1>0 DEF Types
    <2> QED
      BY <1>3, <2>1 DEF FrameOk, Emptied
  <1> HIDE DEF over
  <1>5. RowsGrow /\ RowsSorted'
    BY <1>0, <1>1 DEF RowsGrow, Types, RowsSorted, RowCount, Rows, Row
  <1>6. /\ retired'[t] = retired[t] \cup over /\ \A u \in Threads : u # t => retired'[u] = retired[u]
        /\ unchecked'[t] \subseteq retired'[t] /\ \A u \in Threads : u # t => unchecked'[u] = unchecked[u]
        /\ retired' \in [Threads -> SUBSET Ops] /\ unchecked' \in [Threads -> SUBSET Ops]
    BY <1>0, <1>1, <1>4 DEF Types
  <1>7. Retirement'
    <2>1. \A o : Emptied(o)' <=> Emptied(o)
      BY <1>1 DEF Emptied, InProgress, Rows, RowCount, Row
    <2>2. (Retirement <=>
             /\ \A o \in deleted : Emptied(o)
             /\ \A u \in Threads :
                  /\ \A o \in retired[u] : Emptied(o)
                  /\ unchecked[u] \subseteq retired[u]
                  /\ scan[u] # Null => scan[u] \in retired[u])'
      BY DEF Retirement
    <2>3. ASSUME NEW u \in Threads
          PROVE  /\ \A o \in retired'[u] : Emptied(o)
                 /\ unchecked'[u] \subseteq retired'[u]
                 /\ scan[u] # Null => scan[u] \in retired'[u]
      BY <1>0, <1>4, <1>6 DEF Retirement
    <2> HIDE DEF Emptied
    <2> QED
      BY <1>0, <1>1, <2>1, <2>2, <2>3 DEF Retirement
  <1>8. HistoryType'
    BY <1>0, <1>1 DEF HistoryType, Nothing
  <1>9. Caller(t)'
    <2>1. stack'[t] = <<>> /\ op'[t] = Null
      BY <1>0, <1>1 DEF Types
    <2>2. \A k \in 1 .. Len(<<>>) : FALSE
      OBVIOUS
    <2> QED
      BY <2>1, <2>2 DEF Caller
  <1>10. ~At(t, "associate")
    BY <1>1 DEF At
  <1>11. <<>> \in Seq(Frames) /\ Len(<<>>) <= 1 /\ \A k \in 1 .. Len(<<>>) : FALSE
    OBVIOUS
  <1>12. /\ scan' \in [Threads -> Ops \cup {Null}] /\ deleted' \in SUBSET Ops
         /\ op' \in [Threads -> Ops \cup {Null}] /\ \A u \in Threads : u # t => op'[u] = op[u]
    BY <1>0, <1>1 DEF Types
  <1> QED
    BY <1>1, <1>5, <1>6, <1>7, <1>8, <1>9, <1>10, <1>11, <1>12, CallKept

\* What is left of the invariant when only reclamation goes on.
LEMMA ScanKept ==
  ASSUME IInv,
         UNCHANGED <<mem, cas_rows_, helper_, state_, op_table_, op, stack, held>>,
         retired' \in [Threads -> SUBSET Ops], unchecked' \in [Threads -> SUBSET Ops],
         scan' \in [Threads -> Ops \cup {Null}], deleted' \in SUBSET Ops, Retirement'
  PROVE  IInv'
  <1>1. Types' /\ HistoryType'
    BY DEF IInv, Control, Types, HistoryType
  <1>2. /\ \A o : Rows(o)' = Rows(o) /\ RowCount(o)' = RowCount(o) /\ (InProgress(o)' <=> InProgress(o))
        /\ \A o, i : Row(o, i)' = Row(o, i)
        /\ \A f : Address(f)' = Address(f)
        /\ \A w, a : WordAt(w, a)' <=> WordAt(w, a)
        /\ \A f : FrameShape(f)' <=> FrameShape(f)
        /\ \A o, i : (Settled(o, i)' <=> Settled(o, i)) /\ (Prefix(o, i)' <=> Prefix(o, i))
        /\ \A h : Held(h)' = Held(h)
    BY RowsKept DEF InProgress, Settled, Prefix, Held
  <1>3. RowsSorted' /\ HelperRows' /\ MemRows' /\ FreshRows' /\ Announced'
    BY <1>2 DEF IInv, Control, RowsSorted, HelperRows, MemRows, FreshRows, Announced, RowCount
  <1>4. Shapes'
    <2>1. \A u \in Threads : Caller(u)'
      BY DEF IInv, Control, Shapes, Caller, RowCount
    <2>2. \A g, f, k : Link(g, f, k)' <=> Link(g, f, k)
      BY DEF Link
    <2> QED
      BY <1>2, <2>1, <2>2 DEF IInv, Control, Shapes
  <1>5. HelperPrefix' /\ MemPrefix' /\ Outcomes' /\ AssociatedStays'
    BY <1>2 DEF IInv, HelperPrefix, MemPrefix, Outcomes, AssociatedStays
  <1>6. PlacedByTop'
    BY DEF IInv, PlacedByTop, Held, At, Top
  <1>7. FramesOk'
    <2>1. \A u, f : FrameOk(u, f)' <=> FrameOk(u, f)
      BY QuietFrame DEF Quiet
    <2> QED
      BY <2>1 DEF IInv, FramesOk
  <1>8. Descending'
    BY <1>2 DEF IInv, Descending, Settled
  <1>9. Control'
    BY <1>1, <1>3, <1>4 DEF Control
  <1> QED
    BY <1>1, <1>5, <1>6, <1>7, <1>8, <1>9 DEF IInv

LEMMA StartScanKept ==
  ASSUME IInv, NEW t \in Threads, StartScan(t)
  PROVE  IInv'
  <1>0. Retirement /\ Types
    BY DEF IInv, Control
  <1>1. /\ UNCHANGED <<mem, cas_rows_, helper_, state_, op_table_, op, stack, held>>
        /\ retired' = retired /\ deleted' = deleted
        /\ \E o \in unchecked[t] :
             \/ unchecked' = [unchecked EXCEPT ![t] = @ \ {o}] /\ scan' = scan
             \/ scan' = [scan EXCEPT ![t] = o] /\ unchecked' = unchecked
    BY DEF StartScan, Check
  <1>2. PICK o \in unchecked[t] :
             \/ unchecked' = [unchecked EXCEPT ![t] = @ \ {o}] /\ scan' = scan
             \/ scan' = [scan EXCEPT ![t] = o] /\ unchecked' = unchecked
    BY <1>1
  <1>3. o \in Ops /\ o \in retired[t]
    BY <1>0 DEF Types, Retirement
  <1>4. /\ unchecked' \in [Threads -> SUBSET Ops] /\ scan' \in [Threads -> Ops \cup {Null}]
        /\ \A u \in Threads : unchecked'[u] \subseteq unchecked[u]
        /\ \A u \in Threads : scan'[u] = scan[u] \/ (u = t /\ scan'[u] = o)
    BY <1>0, <1>2, <1>3 DEF Types
  <1>5. Retirement'
    <2>1. \A p : Emptied(p)' <=> Emptied(p)
      BY <1>1 DEF Emptied, InProgress, Rows, RowCount, Row
    <2> HIDE DEF Emptied
    <2>2. (Retirement <=>
             /\ \A p \in deleted : Emptied(p)
             /\ \A u \in Threads :
                  /\ \A p \in retired[u] : Emptied(p)
                  /\ unchecked[u] \subseteq retired[u]
                  /\ scan[u] # Null => scan[u] \in retired[u])'
      BY DEF Retirement
    <2>3. ASSUME NEW u \in Threads
          PROVE  /\ \A p \in retired[u] : Emptied(p)
                 /\ unchecked'[u] \subseteq retired[u]
                 /\ scan'[u] # Null => scan'[u] \in retired[u]
      BY <1>0, <1>3, <1>4 DEF Retirement
    <2> QED
      BY <1>0, <1>1, <2>1, <2>2, <2>3 DEF Retirement
  <1> QED
    BY <1>0, <1>1, <1>4, <1>5, ScanKept DEF Types

LEMMA FinishScanKept ==
  ASSUME IInv, NEW t \in Threads, FinishScan(t)
  PROVE  IInv'
  <1>0. Retirement /\ Types
    BY DEF IInv, Control
  <1> DEFINE o == scan[t]
  <1>1. /\ UNCHANGED <<mem, cas_rows_, helper_, state_, op_table_, op, stack, held>>
        /\ o # Null /\ scan' = [scan EXCEPT ![t] = Null]
        /\ unchecked' = [unchecked EXCEPT ![t] = @ \ {o}]
        /\ \/ retired' = retired /\ deleted' = deleted
           \/ /\ retired' = [retired EXCEPT ![t] = @ \ {o}]
              /\ deleted' = deleted \cup {o}
    BY DEF FinishScan, Check
  <1>2. o \in Ops /\ o \in retired[t] /\ Emptied(o)
    BY <1>0, <1>1 DEF Types, Retirement
  <1> HIDE DEF o
  <1>3. /\ unchecked' \in [Threads -> SUBSET Ops] /\ scan' \in [Threads -> Ops \cup {Null}]
        /\ retired' \in [Threads -> SUBSET Ops] /\ deleted' \in SUBSET Ops
        /\ \A u \in Threads : retired'[u] \subseteq retired[u] /\ (u # t => retired'[u] = retired[u])
        /\ retired[t] \ {o} \subseteq retired'[t]
        /\ unchecked'[t] = unchecked[t] \ {o}
        /\ \A u \in Threads : u # t => unchecked'[u] = unchecked[u]
        /\ scan'[t] = Null /\ \A u \in Threads : u # t => scan'[u] = scan[u]
        /\ deleted' \subseteq deleted \cup {o}
    BY <1>0, <1>1, <1>2 DEF Types
  <1>4. Retirement'
    <2>1. \A p : Emptied(p)' <=> Emptied(p)
      BY <1>1 DEF Emptied, InProgress, Rows, RowCount, Row
    <2> HIDE DEF Emptied
    <2>2. (Retirement <=>
             /\ \A p \in deleted : Emptied(p)
             /\ \A u \in Threads :
                  /\ \A p \in retired[u] : Emptied(p)
                  /\ unchecked[u] \subseteq retired[u]
                  /\ scan[u] # Null => scan[u] \in retired[u])'
      BY DEF Retirement
    <2>3. ASSUME NEW u \in Threads
          PROVE  /\ \A p \in retired'[u] : Emptied(p)
                 /\ unchecked'[u] \subseteq retired'[u]
                 /\ scan'[u] # Null => scan'[u] \in retired'[u]
      BY <1>0, <1>3 DEF Retirement
    <2>4. \A p \in deleted' : Emptied(p)
      BY <1>0, <1>2, <1>3 DEF Retirement
    <2> QED
      BY <2>1, <2>2, <2>3, <2>4
  <1> QED
    BY <1>1, <1>3, <1>4, ScanKept

-----------------------------------------------------------------------------
(* The rows of an operation                                                *)

Distinct(S) == \A r, s \in S : r.address = s.address => r = s
Falling(rows, n) == \A i, j \in 1 .. n : i < j => rows[j].address < rows[i].address
Lowest(S) == \E m \in S : \A x \in S : m.address <= x.address

LEMMA AddressesAreInt ==
  \A x \in Triples : x.address \in Int
  BY AddrsAssumption DEF Triples

LEMMA LowestIs ==
  ASSUME NEW S \in SUBSET Triples, IsFiniteSet(S), S # {}
  PROVE  Lowest(S)
  <1> DEFINE Of(n) == \A T \in SUBSET Triples :
                        IsFiniteSet(T) /\ Cardinality(T) = n /\ T # {} => Lowest(T)
             N == {n \in Nat : Of(n)}
  <1>0. \A x \in Triples : x.address \in Int
    BY AddressesAreInt
  <1>1. 0 \in N
    BY FS_EmptySet
  <1>2. ASSUME NEW n \in Nat, n \in N PROVE n + 1 \in N
    <2> SUFFICES ASSUME NEW T \in SUBSET Triples, IsFiniteSet(T), Cardinality(T) = n + 1
                 PROVE  Lowest(T)
      BY <1>2
    <2>1. PICK x \in T : TRUE
      BY FS_EmptySet
    <2>2. IsFiniteSet(T \ {x}) /\ Cardinality(T \ {x}) = n
      <3>1. IsFiniteSet(T \ {x}) /\ Cardinality(T \ {x}) = Cardinality(T) - 1
        BY <2>1, FS_RemoveElement
      <3> QED
        BY <3>1
    <2>3. CASE T \ {x} = {}
      <3>1. \A y \in T : y = x
        BY <2>3
      <3>2. x.address <= x.address
        BY <1>0, <2>1
      <3> QED
        BY <2>1, <3>1, <3>2 DEF Lowest
    <2>4. CASE T \ {x} # {}
      <3>1. Lowest(T \ {x})
        BY <1>2, <2>2, <2>4
      <3>2. PICK m \in T \ {x} : \A y \in T \ {x} : m.address <= y.address
        BY <3>1 DEF Lowest
      <3>3. \A y \in T : y.address \in Int
        BY <1>0
      <3>4. CASE m.address <= x.address
        <4>1. \A y \in T : m.address <= y.address
          BY <3>2, <3>4
        <4> QED
          BY <4>1 DEF Lowest
      <3>5. CASE ~(m.address <= x.address)
        <4>1. \A y \in T : x.address <= y.address
          <5>1. x.address < m.address /\ x.address \in Int /\ m.address \in Int
            BY <2>1, <3>2, <3>3, <3>5
          <5> SUFFICES ASSUME NEW y \in T PROVE x.address <= y.address
            OBVIOUS
          <5>2. CASE y = x
            BY <5>1, <5>2
          <5>3. CASE y # x
            <6>1. m.address <= y.address /\ y.address \in Int
              BY <3>2, <3>3, <5>3
            <6> QED
              BY <5>1, <6>1
          <5> QED
            BY <5>2, <5>3
        <4> QED
          BY <2>1, <4>1 DEF Lowest
      <3> QED
        BY <3>4, <3>5
    <2> QED
      BY <2>3, <2>4
  <1> HIDE DEF N
  <1>3. Nat \subseteq N
    BY <1>1, <1>2, SetInduction
  <1>4. Cardinality(S) \in N
    BY <1>3, FS_CardinalityType
  <1> QED
    BY <1>4 DEF N

LEMMA SortExists ==
  ASSUME NEW S \in SUBSET Triples, IsFiniteSet(S), Distinct(S)
  PROVE  \E rows \in [1 .. Cardinality(S) -> S] : Falling(rows, Cardinality(S))
  <1> DEFINE Of(n) == \A T \in SUBSET Triples :
                        IsFiniteSet(T) /\ Cardinality(T) = n /\ Distinct(T) =>
                          \E rows \in [1 .. n -> T] : Falling(rows, n)
             N == {n \in Nat : Of(n)}
  <1>0. \A x \in Triples : x.address \in Int
    BY AddressesAreInt
  <1>1. 0 \in N
    <2> SUFFICES ASSUME NEW T \in SUBSET Triples, IsFiniteSet(T), Cardinality(T) = 0
                 PROVE  \E rows \in [1 .. 0 -> T] : Falling(rows, 0)
      OBVIOUS
    <2>1. [k \in 1 .. 0 |-> {}] \in [1 .. 0 -> T]
      OBVIOUS
    <2>2. PICK rows \in [1 .. 0 -> T] : TRUE
      BY <2>1
    <2>3. Falling(rows, 0)
      BY DEF Falling
    <2> QED
      BY <2>2, <2>3
  <1>2. ASSUME NEW n \in Nat, n \in N PROVE n + 1 \in N
    <2> SUFFICES ASSUME NEW T \in SUBSET Triples, IsFiniteSet(T), Cardinality(T) = n + 1, Distinct(T)
                 PROVE  \E rows \in [1 .. (n + 1) -> T] : Falling(rows, n + 1)
      BY <1>2
    <2>1. PICK m \in T : \A x \in T : m.address <= x.address
      <3>1. T # {}
        BY FS_EmptySet
      <3> QED
        BY <3>1, LowestIs DEF Lowest
    <2>2. IsFiniteSet(T \ {m}) /\ Cardinality(T \ {m}) = n /\ Distinct(T \ {m})
      <3>1. IsFiniteSet(T \ {m}) /\ Cardinality(T \ {m}) = Cardinality(T) - 1
        BY <2>1, FS_RemoveElement
      <3>2. Cardinality(T \ {m}) = n
        BY <3>1
      <3> QED
        BY <3>1, <3>2 DEF Distinct
    <2>3. PICK rows \in [1 .. n -> T \ {m}] : Falling(rows, n)
      BY <1>2, <2>2
    <2> DEFINE q == [k \in 1 .. (n + 1) |-> IF k = n + 1 THEN m ELSE rows[k]]
    <2>4. q \in [1 .. (n + 1) -> T] /\ q[n + 1] = m /\ \A k \in 1 .. n : q[k] = rows[k]
      <3>1. \A k \in 1 .. (n + 1) : k = n + 1 \/ k \in 1 .. n
        OBVIOUS
      <3>2. \A k \in 1 .. n : k # n + 1 /\ k \in 1 .. (n + 1) /\ rows[k] \in T
        BY <2>3
      <3>3. n + 1 \in 1 .. (n + 1)
        OBVIOUS
      <3> QED
        BY <2>1, <3>1, <3>2, <3>3
    <2> HIDE DEF q
    <2>5. Falling(q, n + 1)
      <3> SUFFICES ASSUME NEW i \in 1 .. (n + 1), NEW j \in 1 .. (n + 1), i < j
                   PROVE  q[j].address < q[i].address
        BY DEF Falling
      <3>1. i \in 1 .. n /\ q[i] = rows[i] /\ rows[i] \in T \ {m}
        BY <2>3, <2>4
      <3>2. CASE j = n + 1
        <4>1. m.address <= rows[i].address /\ m.address # rows[i].address
          BY <2>1, <3>1 DEF Distinct
        <4>2. m.address \in Int /\ rows[i].address \in Int
          BY <1>0, <2>1, <3>1
        <4> QED
          BY <2>4, <3>1, <3>2, <4>1, <4>2
      <3>3. CASE j # n + 1
        <4>1. j \in 1 .. n
          BY <3>3
        <4> QED
          BY <2>3, <2>4, <3>1, <4>1 DEF Falling
      <3> QED
        BY <3>2, <3>3
    <2> QED
      BY <2>4, <2>5
  <1> HIDE DEF N
  <1>3. Nat \subseteq N
    BY <1>1, <1>2, SetInduction
  <1>4. Cardinality(S) \in N
    BY <1>3, FS_CardinalityType
  <1> QED
    BY <1>4 DEF N

\* From row to row the addresses fall, so they fall between any two.
LEMMA AdjacentFalling ==
  ASSUME NEW n \in Nat, NEW S \in SUBSET Triples, NEW rows \in [1 .. n -> S],
         \A i \in 2 .. n : rows[i - 1].address > rows[i].address
  PROVE  Falling(rows, n)
  <1> DEFINE N == {d \in Nat : \A i \in 1 .. n : i + 1 + d <= n => rows[i + 1 + d].address < rows[i].address}
  <1>0. \A i \in 1 .. n : rows[i].address \in Int
    BY AddressesAreInt
  <1>s. ASSUME NEW i \in 1 .. n, NEW j \in 1 .. n, j = i + 1 PROVE rows[j].address < rows[i].address
    <2>1. j \in 2 .. n /\ j - 1 = i
      BY <1>s
    <2>2. rows[j - 1].address > rows[j].address
      BY <2>1
    <2> QED
      BY <1>0, <2>1, <2>2
  <1>1. 0 \in N
    <2> SUFFICES ASSUME NEW i \in 1 .. n, i + 1 + 0 <= n PROVE rows[i + 1 + 0].address < rows[i].address
      OBVIOUS
    <2>1. PICK j \in 1 .. n : j = i + 1 /\ j = i + 1 + 0
      OBVIOUS
    <2> QED
      BY <1>s, <2>1
  <1>2. ASSUME NEW d \in Nat, d \in N PROVE d + 1 \in N
    <2> SUFFICES ASSUME NEW i \in 1 .. n, i + 1 + (d + 1) <= n
                 PROVE  rows[i + 1 + (d + 1)].address < rows[i].address
      OBVIOUS
    <2>1. PICK j \in 1 .. n, k \in 1 .. n : j = i + 1 + (d + 1) /\ k = i + 1 + d /\ j = k + 1
      OBVIOUS
    <2>2. rows[k].address < rows[i].address
      <3>1. i + 1 + d <= n
        OBVIOUS
      <3>2. rows[i + 1 + d].address < rows[i].address
        BY <1>2, <3>1
      <3> QED
        BY <2>1, <3>2
    <2>3. rows[j].address < rows[k].address
      BY <1>s, <2>1
    <2> QED
      BY <1>0, <2>1, <2>2, <2>3
  <1>3. Nat \subseteq N
    <2> HIDE DEF N
    <2> QED
      BY <1>1, <1>2, SetInduction
  <1> SUFFICES ASSUME NEW i \in 1 .. n, NEW j \in 1 .. n, i < j PROVE rows[j].address < rows[i].address
    BY DEF Falling
  <1>4. PICK d \in Nat : j = i + 1 + d
    <2>1. j - i - 1 \in Nat /\ j = i + 1 + (j - i - 1)
      OBVIOUS
    <2> QED
      BY <2>1
  <1>5. d \in N
    BY <1>3
  <1>6. i + 1 + d <= n
    BY <1>4
  <1>7. rows[i + 1 + d].address < rows[i].address
    BY <1>5, <1>6
  <1> QED
    BY <1>4, <1>7

LEMMA SortedIs ==
  ASSUME NEW S \in Requests
  PROVE  /\ Sorted(S) \in Seq(Triples) /\ Len(Sorted(S)) > 0 /\ Len(Sorted(S)) <= MaxRows
         /\ Falling(Sorted(S), Len(Sorted(S)))
         /\ {Sorted(S)[i] : i \in 1 .. Len(Sorted(S))} = S
  <1>0. S # {} /\ S \subseteq Triples /\ Distinct(S)
    BY RequestsAssumption DEF Distinct
  <1>1. IsFiniteSet(S) /\ Cardinality(S) <= MaxRows
    <2> DEFINE f == [r \in S |-> r.address]
    <2>1. f \in Injection(S, Addrs)
      <3>1. f \in [S -> Addrs]
        BY <1>0 DEF Triples
      <3>2. \A r, s \in S : f[r] = f[s] => r = s
        BY <1>0 DEF Distinct
      <3> HIDE DEF f
      <3> QED
        BY <3>1, <3>2 DEF Injection, IsInjective
    <2> HIDE DEF f
    <2> QED
      BY <2>1, AddrsAssumption, FS_Injection DEF MaxRows
  <1> DEFINE n == Cardinality(S)
             rows == Sorted(S)
  <1>2. n \in Nat /\ n > 0
    BY <1>0, <1>1, FS_CardinalityType, FS_EmptySet
  <1>3. \E q \in [1 .. n -> S] : \A i \in 2 .. n : q[i - 1].address > q[i].address
    <2>1. PICK q \in [1 .. n -> S] : Falling(q, n)
      BY <1>0, <1>1, SortExists
    <2> HIDE DEF n
    <2>2. ASSUME NEW i \in 2 .. n PROVE q[i - 1].address > q[i].address
      <3>1. i - 1 \in 1 .. n /\ i \in 1 .. n /\ i - 1 < i
        BY <1>2
      <3>2. q[i].address < q[i - 1].address
        BY <2>1, <3>1 DEF Falling
      <3>3. q[i] \in Triples /\ q[i - 1] \in Triples
        BY <1>0, <3>1
      <3>4. q[i].address \in Int /\ q[i - 1].address \in Int
        BY <3>3, AddressesAreInt
      <3> QED
        BY <3>2, <3>4
    <2> QED
      BY <2>2
  <1>4. rows \in [1 .. n -> S] /\ \A i \in 2 .. n : rows[i - 1].address > rows[i].address
    BY <1>3 DEF Sorted
  <1> HIDE DEF rows, n
  <1>5. Falling(rows, n)
    BY <1>0, <1>2, <1>4, AdjacentFalling
  <1>6. rows \in Seq(Triples) /\ Len(rows) = n
    BY <1>0, <1>2, <1>4
  <1>7. {rows[i] : i \in 1 .. n} = S
    <2>1. rows \in Injection(1 .. n, S)
      <3>1. \A i, j \in 1 .. n : rows[i] = rows[j] => i = j
        <4> SUFFICES ASSUME NEW i \in 1 .. n, NEW j \in 1 .. n, rows[i] = rows[j] PROVE i = j
          OBVIOUS
        <4>1. rows[i].address \in Int /\ rows[i].address = rows[j].address
          BY <1>0, <1>4, AddressesAreInt
        <4>2. ~(i < j) /\ ~(j < i)
          BY <1>5, <4>1 DEF Falling
        <4> QED
          BY <1>2, <4>2
      <3> QED
        BY <1>4, <3>1 DEF Injection, IsInjective
    <2>2. IsFiniteSet(1 .. n) /\ Cardinality(1 .. n) = n
      BY <1>2, FS_Interval
    <2>3. rows \in Surjection(1 .. n, S)
      BY <1>1, <2>1, <2>2, FS_Injection DEF n
    <2> QED
      BY <1>4, <2>3 DEF Surjection
  <1> QED
    BY <1>1, <1>2, <1>5, <1>6, <1>7 DEF n, rows

LEMMA CallExecuteKept ==
  ASSUME IInv, NEW t \in Threads, CallExecute(t)
  PROVE  IInv'
  <1>0. Control /\ Types /\ Retirement /\ HistoryType /\ RowsSorted /\ FreshRows /\ Announced
    BY DEF IInv, Control
  <1>1. /\ stack[t] = <<>> /\ mem' = mem /\ state_' = state_ /\ helper_' = helper_
        /\ op_table_' = op_table_ /\ UNCHANGED reclamation /\ Begin(t)
        /\ \E o \in Ops : \E S \in Requests :
             /\ \A p \in Ops : RowCount(p) = 0 <=> p >= o
             /\ cas_rows_' = [cas_rows_ EXCEPT ![o] = Sorted(S)]
             /\ op' = [op EXCEPT ![t] = o]
             /\ \E p \in ({o} \cup {op_table_[u] : u \in Threads}) \ {Null} :
                  stack' = [stack EXCEPT ![t] = <<Frame(p, 1, p # o)>>]
    BY DEF CallExecute
  <1>2. PICK o \in Ops, S \in Requests :
          /\ \A p \in Ops : RowCount(p) = 0 <=> p >= o
          /\ cas_rows_' = [cas_rows_ EXCEPT ![o] = Sorted(S)]
          /\ op' = [op EXCEPT ![t] = o]
          /\ \E p \in ({o} \cup {op_table_[u] : u \in Threads}) \ {Null} :
               stack' = [stack EXCEPT ![t] = <<Frame(p, 1, p # o)>>]
    BY <1>1, Zenon
  <1>3. PICK p \in ({o} \cup {op_table_[u] : u \in Threads}) \ {Null} :
          stack' = [stack EXCEPT ![t] = <<Frame(p, 1, p # o)>>]
    BY <1>2
  <1>4. RowCount(o) = 0 /\ o # Null
    <2>1. o >= o
      BY DEF Ops
    <2> QED
      BY <1>2, <2>1, WordsAssumption
  <1>5. /\ Sorted(S) \in Seq(Triples) /\ Len(Sorted(S)) > 0 /\ Len(Sorted(S)) <= MaxRows
        /\ Falling(Sorted(S), Len(Sorted(S)))
    BY SortedIs
  <1>6. /\ cas_rows_' \in [Ops -> Seq(Triples)] /\ cas_rows_'[o] = Sorted(S)
        /\ \A q \in Ops : q # o => cas_rows_'[q] = cas_rows_[q]
    BY <1>0, <1>2, <1>5 DEF Types
  <1>7. RowsGrow
    BY <1>4, <1>6 DEF RowsGrow
  <1>8. RowsSorted'
    <2> SUFFICES ASSUME NEW q \in Ops
                 PROVE  /\ RowCount(q)' <= MaxRows
                        /\ \A i, j \in Rows(q)' : i < j => Row(q, j)'.address < Row(q, i)'.address
      BY DEF RowsSorted
    <2>1. CASE q = o
      BY <1>5, <1>6, <2>1 DEF RowCount, Rows, Row, Falling
    <2>2. CASE q # o
      BY <1>0, <1>6, <2>2 DEF RowCount, Rows, Row, RowsSorted
    <2> QED
      BY <2>1, <2>2
  <1>9. p \in Ops /\ p # Null /\ RowCount(p)' > 0
    <2>1. CASE p = o
      BY <1>4, <1>5, <1>6, <2>1 DEF RowCount
    <2>2. CASE p # o
      <3>1. PICK u \in Threads : p = op_table_[u]
        BY <2>2
      <3>2. p \in Ops /\ p # Null /\ RowCount(p) > 0
        BY <1>0, <3>1 DEF Types, Announced
      <3> QED
        BY <1>6, <2>2, <3>2 DEF RowCount
    <2> QED
      BY <2>1, <2>2
  <1> DEFINE F == Frame(p, 1, p # o)
             s == <<F>>
  <1>10. F \in Frames /\ Fields(F, p, 1, "load", p # o, Null, FALSE)
    <2>1. 1 \in Int /\ (p # o) \in BOOLEAN /\ p \in Ops \cup {Null}
      BY <1>9
    <2> QED
      BY <2>1, FreshFrame
  <1>11. s \in Seq(Frames) /\ Len(s) = 1 /\ s[1] = F /\ s # <<>>
    BY <1>10
  <1>12. stack' = [stack EXCEPT ![t] = s]
    BY <1>3
  <1>13. F.op = p /\ F.at = "load" /\ F.row = 1
    BY <1>10 DEF Fields
  <1> HIDE DEF F
  <1>14. \A k \in 1 .. Len(s) : \A f \in {s[k]} : FrameShape(f)' /\ FrameOk(t, f)'
    <2> SUFFICES ASSUME NEW f, f = F PROVE FrameShape(f)' /\ FrameOk(t, f)'
      BY <1>11
    <2>1. 1 \in Rows(p)'
      <3>1. RowCount(p)' \in Nat
        BY <1>6, <1>9 DEF RowCount
      <3> QED
        BY <1>9, <3>1 DEF Rows
    <2>2. Prefix(p, 1)'
      BY DEF Prefix
    <2>3. FrameShape(f)'
      BY <1>9, <1>13, <2>1 DEF FrameShape, Meeting
    <2>4. FrameOk(t, f)'
      BY <1>9, <1>13, <2>2 DEF FrameOk, Meeting
    <2> QED
      BY <2>3, <2>4
  <1>15. Caller(t)'
    <2>1. stack'[t] = s /\ op'[t] = o
      BY <1>0, <1>2, <1>12 DEF Types
    <2>2. \A k \in 1 .. Len(s) : s[k].op = p /\ s[k].at = "load"
      BY <1>11, <1>13
    <2>3. RowCount(o)' > 0
      BY <1>5, <1>6 DEF RowCount
    <2> HIDE DEF s
    <2>4. (op[t] # Null => RowCount(op[t]) > 0)'
      BY <2>1, <2>3 DEF RowCount
    <2> QED
      BY <1>4, <1>9, <1>11, <2>1, <2>2, <2>4 DEF Caller
  <1>16. Retirement'
    <2>1. ASSUME NEW q \in Ops, Emptied(q) PROVE Emptied(q)'
      <3>1. q # o
        BY <1>0, <1>4, <2>1 DEF Emptied, FreshRows
      <3>2. cas_rows_'[q] = cas_rows_[q]
        BY <1>6, <3>1
      <3> QED
        BY <1>1, <2>1, <3>2 DEF Emptied, InProgress, Rows, RowCount, Row
    <2>2. deleted \subseteq Ops /\ \A u \in Threads : retired[u] \subseteq Ops
      BY <1>0 DEF Types
    <2> HIDE DEF Emptied
    <2>3. (Retirement <=>
             /\ \A q \in deleted : Emptied(q)
             /\ \A u \in Threads :
                  /\ \A q \in retired[u] : Emptied(q)
                  /\ unchecked[u] \subseteq retired[u]
                  /\ scan[u] # Null => scan[u] \in retired[u])'
      BY DEF Retirement
    <2>4. /\ \A q \in deleted : Emptied(q)'
          /\ \A u \in Threads :
               /\ \A q \in retired[u] : Emptied(q)'
               /\ unchecked[u] \subseteq retired[u]
               /\ scan[u] # Null => scan[u] \in retired[u]
      BY <1>0, <2>1, <2>2 DEF Retirement
    <2> QED
      BY <1>1, <2>3, <2>4 DEF reclamation
  <1>17. HistoryType'
    BY <1>0, <1>1, LogicalValues DEF HistoryType, Begin, Logical
  <1>18. ~At(t, "associate")
    BY <1>1 DEF At
  <1>19. /\ retired' \in [Threads -> SUBSET Ops] /\ unchecked' \in [Threads -> SUBSET Ops]
         /\ scan' \in [Threads -> Ops \cup {Null}] /\ deleted' \in SUBSET Ops
         /\ op' \in [Threads -> Ops \cup {Null}] /\ \A u \in Threads : u # t => op'[u] = op[u]
    BY <1>0, <1>1, <1>2 DEF Types, reclamation
  <1>20. Len(s) <= 1
    BY <1>11
  <1> HIDE DEF s
  <1> QED
    BY <1>1, <1>7, <1>8, <1>11, <1>12, <1>20, <1>14, <1>15, <1>16, <1>17, <1>18, <1>19, CallKept

-----------------------------------------------------------------------------
(* The invariant                                                           *)

LEMMA InitOk == Init => IInv
  <1> SUFFICES ASSUME Init PROVE IInv
    OBVIOUS
  <1>1. /\ mem \in [Addrs -> Values]
        /\ \A o \in Ops : cas_rows_[o] = <<>> /\ state_[o] = "IN_PROGRESS"
        /\ \A o \in Ops : \A i \in 1 .. MaxRows : helper_[o][i] = Null
        /\ \A t \in Threads : /\ op_table_[t] = Null /\ op[t] = Null /\ stack[t] = <<>>
                              /\ retired[t] = {} /\ unchecked[t] = {} /\ scan[t] = Null
        /\ deleted = {}
    BY DEF Init
  <1>2. Types
    <2>1. mem \in [Addrs -> Words]
      BY <1>1 DEF Words
    <2>2. cas_rows_ \in [Ops -> Seq(Triples)] /\ stack \in [Threads -> Seq(Frames)]
      BY DEF Init
    <2> QED
      BY <2>1, <2>2 DEF Init, Types
  <1>3. HistoryType
    BY DEF Init, HistoryType, Nothing
  <1>4. \A o \in Ops : RowCount(o) = 0 /\ (\A i \in Rows(o) : FALSE) /\ InProgress(o)
    BY <1>1 DEF RowCount, Rows, InProgress
  <1>5. \A t \in Threads : \A k \in 1 .. Len(stack[t]) : FALSE
    BY <1>1
  <1>5a. \A t \in Threads : \A k \in 1 .. (Len(stack[t]) - 1) : FALSE
    BY <1>1
  <1>6. \A a \in Addrs : mem[a] \notin Helpers
    BY <1>1, WordsAssumption
  <1>7. RowsSorted
    <2>1. MaxRows \in Nat
      BY AddrsAssumption, FS_CardinalityType DEF MaxRows
    <2> QED
      BY <1>4, <2>1 DEF RowsSorted
  <1>8. HelperRows
    BY <1>1, WordsAssumption DEF HelperRows
  <1>9. MemRows /\ FreshRows /\ Announced
    BY <1>1, <1>4, <1>6 DEF MemRows, WordAt, FreshRows, Announced
  <1>10. Shapes
    BY <1>1, <1>5, <1>5a DEF Shapes, Caller
  <1>11. Control
    BY <1>2, <1>7, <1>8, <1>9, <1>10 DEF Control
  <1>12. HelperPrefix /\ MemPrefix /\ PlacedByTop
    BY <1>4, <1>6 DEF HelperPrefix, MemPrefix, PlacedByTop
  <1>13. Outcomes /\ AssociatedStays
    BY <1>1, <1>4 DEF Outcomes, AssociatedStays
  <1>14. FramesOk /\ Retirement /\ Descending
    BY <1>1, <1>5 DEF FramesOk, Retirement, Descending
  <1> QED
    BY <1>3, <1>11, <1>12, <1>13, <1>14 DEF IInv

LEMMA NextKept == IInv /\ [Next]_vars => IInv'
  <1> SUFFICES ASSUME IInv, [Next]_vars PROVE IInv'
    OBVIOUS
  <1>1. ASSUME NEW t \in Threads, CallExecute(t) PROVE IInv'
    BY <1>1, CallExecuteKept
  <1>2. ASSUME NEW t \in Threads, CallRead(t) PROVE IInv'
    BY <1>2, CallReadKept
  <1>3. ASSUME NEW t \in Threads, Step(t) PROVE IInv'
    BY <1>3, StepKept
  <1>4. ASSUME NEW t \in Threads, Return(t) PROVE IInv'
    BY <1>4, ReturnKept
  <1>5. ASSUME NEW t \in Threads, StartScan(t) PROVE IInv'
    BY <1>5, StartScanKept
  <1>6. ASSUME NEW t \in Threads, FinishScan(t) PROVE IInv'
    BY <1>6, FinishScanKept
  <1>7. CASE UNCHANGED vars
    <2>1. /\ UNCHANGED <<mem, cas_rows_, helper_, state_, op_table_, op, stack, held>>
          /\ UNCHANGED <<retired, unchecked, scan, deleted>>
      BY <1>7 DEF vars
    <2>2. Retirement'
      BY <2>1 DEF IInv, Retirement, Emptied, InProgress, Rows, RowCount, Row
    <2> QED
      BY <2>1, <2>2, ScanKept DEF IInv, Control, Types
  <1> QED
    BY <1>1, <1>2, <1>3, <1>4, <1>5, <1>6, <1>7 DEF Next

THEOREM InvariantHolds == Spec => []IInv
  BY InitOk, NextKept, PTL DEF Spec

-----------------------------------------------------------------------------
(* What the invariant says of the system                                   *)

\* A Helper that is associated with its row stays at its address until the
\* operation is over (AssociatedStays), whatever the threads and the rows are.
THEOREM AssociatedHelpersStay == Spec => []AssociatedStays
  <1>1. IInv => AssociatedStays
    BY DEF IInv
  <1> QED
    BY <1>1, InvariantHolds, PTL

\* An activation only returns from an operation that is over, and what it
\* returns is the outcome; a row that failed excludes PASS (AnswerIsOutcome).
THEOREM AnswersAreOutcomes == Spec => []AnswerIsOutcome
  <1>1. ASSUME IInv PROVE AnswerIsOutcome
    <2>0. Control /\ HelperPrefix /\ Outcomes
      BY <1>1 DEF IInv
    <2>1. ASSUME NEW t \in Threads, At(t, "over") PROVE ~InProgress(Top(t).op)
      <3>1. PICK f : Here(t, f)
        BY <2>0, <2>1, HereIs DEF At
      <3>2. f.at = "over" /\ f = Top(t) /\ FrameOk(t, f)
        BY <1>1, <2>1, <3>1, HereFacts DEF At, Here, Stands, Top
      <3> QED
        BY <3>2 DEF FrameOk
    <2>2. ASSUME NEW t \in Threads, At(t, "cleanup")
          PROVE  /\ ~InProgress(Top(t).op)
                 /\ Top(t).res = (state_[Top(t).op] = "PASS")
                 /\ helper_[Top(t).op][Top(t).row] # Null
      <3>1. PICK f : Here(t, f)
        BY <2>0, <2>2, HereIs DEF At
      <3>2. f.at = "cleanup" /\ f = Top(t) /\ FrameOk(t, f) /\ FrameShape(f) /\ f.op # Null /\ f.op \in Ops
            /\ f.row \in Rows(f.op)
        BY <1>1, <2>2, <3>1, HereFacts DEF At, Here, Stands, Top, Reading
      <3>3. /\ ~InProgress(f.op) /\ f.res = (state_[f.op] = "PASS") /\ Prefix(f.op, f.row)
        BY <3>2 DEF FrameOk
      <3>4. helper_[f.op][f.row] # Null
        BY <1>1, <3>2, <3>3, RowAssociated
      <3> QED
        BY <3>2, <3>3, <3>4
    <2>3. \A o \in Ops : \A i \in Rows(o) :
            state_[o] = "PASS" => helper_[o][i] \notin {Null, FAIL_CONST}
      BY <2>0 DEF Outcomes, Settled
    <2> QED
      BY <2>1, <2>2, <2>3 DEF AnswerIsOutcome
  <1> QED
    BY <1>1, InvariantHolds, PTL

\* A thread only helps downwards, so no operation waits for itself and the
\* recursion is never deeper than there are addresses (HelpGoesDown).
THEOREM HelpDescends == Spec => []HelpGoesDown
  <1>1. IInv => HelpGoesDown
    BY DEF IInv, Descending, HelpGoesDown
  <1> QED
    BY <1>1, InvariantHolds, PTL

\* An operation that waits to be deleted, or was, has no Helper of its rows
\* left at an address (NothingLeft).
THEOREM NothingIsLeft == Spec => []NothingLeft
  <1>1. IInv => NothingLeft
    BY DEF IInv, Retirement, Emptied, NothingLeft
  <1> QED
    BY <1>1, InvariantHolds, PTL

-----------------------------------------------------------------------------
(* What makes execute and read linearizable                                *)

\* Every operation that is in progress has one thread that called it.
Begun == \A o \in Ops : RowCount(o) > 0 /\ InProgress(o) => \E u \in Threads : op[u] = o
OneOwner == \A t, u \in Threads : op[t] = op[u] /\ op[t] # Null => t = u
Requested == \A o \in Ops : RowCount(o) > 0 => {Row(o, i) : i \in Rows(o)} \in Requests

\* The history of a call knows what its address stands for now, ...
LogicalHeld == \A t \in Threads : stack[t] # <<>> => \A a \in Addrs : Logical[a] \in held[t][a]

\* ... why a row failed, ...
FailHeld ==
  \A u \in Threads : op[u] # Null /\ InProgress(op[u]) =>
    \A i \in Rows(op[u]) : helper_[op[u]][i] = FAIL_CONST =>
      \E v \in held[u][Row(op[u], i).address] : v # Row(op[u], i).expected

\* ... and what an activation has read.
SeenHeld(t, f) ==
  /\ f.op # Null /\ f.at \in {"row", "state", "mismatch"} /\ f.val \in Values /\ InProgress(f.op) =>
       \A u \in Threads : op[u] = f.op => f.val \in held[u][Address(f)]
  /\ f.op = Null /\ f.at \in {"on_watch", "value"} => LogicalOf(f.val) \in held[t][f.row]
  /\ f.op = Null /\ f.at = "done" => f.val \in Values

AllSeen == \A t \in Threads : \A k \in 1 .. Len(stack[t]) : \A f \in {stack[t][k]} : SeenHeld(t, f)

RInv == IInv /\ Begun /\ OneOwner /\ Requested /\ LogicalHeld /\ FailHeld /\ AllSeen

-----------------------------------------------------------------------------
(* When an address stands for another value                                *)

Steady == \A h \in Helpers : h.row \in Rows(h.op) => LogicalOf(h)' = LogicalOf(h)
Passing(o) == Decides(o, "PASS") /\ RowCount(o) > 0 /\ \A i \in Rows(o) : Settled(o, i)
Failing(o) == Decides(o, "FAIL") /\ \E i \in Rows(o) : helper_[o][i] = FAIL_CONST

LEMMA LogicalOfValue ==
  \A v \in Values : LogicalOf(v) = v /\ LogicalOf(v)' = v
  BY DEF LogicalOf, IsDescriptor

\* The value of no address changes, unless an operation passes.
LEMMA LogicalChanges ==
  ASSUME IInv, NEW t \in Threads, Effect(t), cas_rows_' = cas_rows_
  PROVE  \/ /\ Steady /\ Logical' = Logical
            /\ state_' = state_ \/ \E o \in Ops : Failing(o)
         \/ \E o \in Ops : Passing(o)
  <1>0. Control /\ Types /\ RowsSorted
    BY DEF IInv, Control
  <1>r. \A o, i : Row(o, i)' = Row(o, i)
    BY RowsKept
  <1>w. ASSUME NEW a \in Addrs
        PROVE  /\ mem[a] \in Words /\ (mem[a] \in Values \/ mem[a] \in Helpers)
               /\ mem[a] \in Helpers => mem[a].row \in Rows(mem[a].op) /\ mem[a].op \in Ops
    BY <1>0 DEF Types, Control, MemRows, WordAt, Words, Helpers
  <1>m. ASSUME Steady, mem' = mem PROVE Logical' = Logical
    <2>1. \A a \in Addrs : LogicalOf(mem[a])' = LogicalOf(mem[a])
      <3> SUFFICES ASSUME NEW a \in Addrs, NEW w, w = mem[a] PROVE LogicalOf(w)' = LogicalOf(w)
        BY <1>m DEF LogicalOf
      <3>1. CASE w \in Values
        BY <3>1, LogicalOfValue
      <3>2. CASE w \in Helpers
        BY <1>m, <1>w, <3>2 DEF Steady
      <3> QED
        BY <1>w, <3>1, <3>2
    <2> QED
      BY <2>1 DEF Logical
  <1>1. CASE Quiet
    <2>1. Steady /\ mem' = mem /\ state_' = state_
      BY <1>1, <1>r DEF Quiet, Steady, LogicalOf
    <2> QED
      BY <1>m, <2>1
  <1>a. ASSUME NEW o \in Ops, NEW i \in Rows(o), NEW w, Associates(o, i, w), Prefix(o, i)
        PROVE  Steady /\ Logical' = Logical /\ state_' = state_
    <2>1. InProgress(o)
      BY <1>a, Unsettled DEF Associates
    <2>2. i \in 1 .. MaxRows
      BY <1>0, RowTyped
    <2>3. /\ mem' = mem /\ state_' = state_ /\ helper_[o][i] = Null
          /\ \A p \in Ops : \A j \in 1 .. MaxRows : ~(p = o /\ j = i) => helper_'[p][j] = helper_[p][j]
      BY <1>0, <1>a, <2>2 DEF Associates, Types
    <2>4. Steady
      <3> SUFFICES ASSUME NEW h \in Helpers, h.row \in Rows(h.op) PROVE LogicalOf(h)' = LogicalOf(h)
        BY DEF Steady
      <3>1. h.op \in Ops /\ h.row \in 1 .. MaxRows
        BY DEF Helpers
      <3>2. CASE h.op = o /\ h.row = i
        <4>1. state_[h.op] # "PASS"
          BY <2>1, <3>2 DEF InProgress
        <4> QED
          BY <1>r, <2>3, <4>1 DEF LogicalOf
      <3>3. CASE ~(h.op = o /\ h.row = i)
        <4>1. helper_'[h.op][h.row] = helper_[h.op][h.row]
          BY <2>3, <3>1, <3>3
        <4> QED
          BY <1>r, <2>3, <4>1 DEF LogicalOf
      <3> QED
        BY <3>2, <3>3
    <2> QED
      BY <1>m, <2>3, <2>4
  <1>2. ASSUME NEW o \in Ops, Failing(o)
        PROVE  Steady /\ Logical' = Logical
    <2>1. /\ mem' = mem /\ helper_' = helper_ /\ InProgress(o) /\ state_'[o] = "FAIL"
          /\ \A p \in Ops : p # o => state_'[p] = state_[p]
      BY <1>0, <1>2 DEF Failing, Decides, Types
    <2>2. \A p \in Ops : state_'[p] = "PASS" <=> state_[p] = "PASS"
      BY <2>1 DEF InProgress
    <2>3. Steady
      <3> SUFFICES ASSUME NEW h \in Helpers, h.row \in Rows(h.op) PROVE LogicalOf(h)' = LogicalOf(h)
        BY DEF Steady
      <3>1. h.op \in Ops
        BY DEF Helpers
      <3> QED
        BY <1>r, <2>1, <2>2, <3>1 DEF LogicalOf
    <2> QED
      BY <1>m, <2>1, <2>3
  <1>s. ASSUME NEW a \in Addrs, NEW v \in Words, Swaps(a, v), LogicalOf(v) = LogicalOf(mem[a])
        PROVE  Steady /\ Logical' = Logical /\ state_' = state_
    <2>1. helper_' = helper_ /\ state_' = state_
      BY <1>s DEF Swaps
    <2>2. \A w : LogicalOf(w)' = LogicalOf(w)
      BY <1>r, <2>1 DEF LogicalOf
    <2>3. mem'[a] = v /\ \A b \in Addrs : b # a => mem'[b] = mem[b]
      BY <1>0, <1>s DEF Swaps, Types
    <2>4. ASSUME NEW b \in Addrs PROVE LogicalOf(mem[b])' = LogicalOf(mem[b])
      <3> SUFFICES ASSUME NEW w, w = mem'[b] PROVE LogicalOf(w)' = LogicalOf(mem[b])
        BY DEF LogicalOf
      <3> QED
        BY <1>s, <2>2, <2>3
    <2> QED
      BY <2>1, <2>2, <2>4 DEF Logical, Steady
  <1>3. ASSUME NEW o \in Ops, NEW i \in Rows(o), helper_[o][i] # Helper(o, i, t),
               mem[Row(o, i).address] = Row(o, i).expected,
               Swaps(Row(o, i).address, Helper(o, i, t))
        PROVE  Steady /\ Logical' = Logical /\ state_' = state_
    <2> DEFINE h == Helper(o, i, t)
               a == Row(o, i).address
    <2>1. a \in Addrs /\ Row(o, i).expected \in Values
      BY <1>0, RowTyped
    <2>2. h \in Helpers /\ h \in Words /\ h.op = o /\ h.row = i
      BY <1>0, OwnHelper
    <2>3. LogicalOf(h) = Row(o, i).expected
      <3>1. IsDescriptor(h)
        BY <2>2, WordIs
      <3> HIDE DEF h
      <3> QED
        BY <1>3, <2>2, <3>1 DEF LogicalOf, h
    <2>4. LogicalOf(mem[a]) = Row(o, i).expected
      BY <1>3, <2>1, LogicalOfValue
    <2> HIDE DEF h, a
    <2> QED
      BY <1>3, <1>s, <2>1, <2>2, <2>3, <2>4 DEF h, a
  <1>4. ASSUME NEW a \in Addrs, NEW h \in Helpers, mem[a] = h, Swaps(a, LogicalOf(h))
        PROVE  Steady /\ Logical' = Logical /\ state_' = state_
    <2>1. LogicalOf(h) \in Values
      BY <1>0, <1>4, LogicalValue
    <2>2. LogicalOf(LogicalOf(h)) = LogicalOf(h)
      BY <2>1, LogicalOfValue
    <2> QED
      BY <1>4, <1>s, <2>1, <2>2 DEF Words
  <1>5. \/ Steady /\ Logical' = Logical /\ state_' = state_
        \/ \E o \in Ops : Failing(o)
        \/ \E o \in Ops : Passing(o)
    BY <1>1, <1>a, <1>3, <1>4, Zenon DEF Effect, Failing, Passing
  <1> QED
    BY <1>2, <1>5

-----------------------------------------------------------------------------
(* What a step knows of the calls in progress                              *)

Ages == held' = [u \in Threads |->
                   IF stack[u] = <<>> THEN held[u]
                   ELSE [a \in Addrs |-> held[u][a] \cup {Logical'[a]}]]

LEMMA HeldGrows ==
  ASSUME IInv, Ages, NEW u \in Threads, stack[u] # <<>>, NEW a \in Addrs
  PROVE  held[u][a] \subseteq held'[u][a] /\ Logical'[a] \in held'[u][a]
  BY DEF Ages

LEMMA Busy ==
  ASSUME IInv, NEW u \in Threads, op[u] # Null
  PROVE  stack[u] # <<>> /\ RowCount(op[u]) > 0 /\ op[u] \in Ops
  BY DEF IInv, Control, Shapes, Caller, Types

LEMMA SeenKept ==
  ASSUME RInv, NEW t \in Threads, Effect(t), Frozen, Ages,
         NEW u \in Threads, stack[u] # <<>>, NEW f \in Frames, FrameShape(f), Sound(f), SeenHeld(u, f)
  PROVE  SeenHeld(u, f)'
  <1>0. IInv /\ Control /\ Types /\ op' = op /\ cas_rows_' = cas_rows_ /\ Address(f) \in Addrs
    BY DEF RInv, IInv, Control, Frozen, Sound
  <1>r. /\ \A o, i : Row(o, i)' = Row(o, i)
        /\ Address(f)' = Address(f)
    BY <1>0, RowsKept
  <1>k. \A o \in Ops : InProgress(o)' => InProgress(o)
    <2>1. Keeps(t)
      BY <1>0, EffectKeeps
    <2> QED
      BY <2>1 DEF Keeps, InProgress
  <1>1. ASSUME f.op # Null, f.at \in {"row", "state", "mismatch"}, f.val \in Values, InProgress(f.op)',
               NEW v \in Threads, op[v] = f.op
        PROVE  f.val \in held'[v][Address(f)]
    <2>1. f.op \in Ops /\ stack[v] # <<>>
      BY <1>0, <1>1, Busy
    <2>2. f.val \in held[v][Address(f)]
      BY <1>1, <1>k, <2>1 DEF SeenHeld
    <2> QED
      BY <1>0, <2>1, <2>2, HeldGrows
  <1>2. ASSUME f.op = Null, f.at \in {"on_watch", "value"}
        PROVE  LogicalOf(f.val)' \in held'[u][f.row]
    <2> DEFINE h == f.val
    <2>1. /\ h \in Helpers /\ h.row \in Rows(h.op) /\ Row(h.op, h.row).address = f.row /\ f.row \in Addrs
          /\ h.op \in Ops
      BY <1>2 DEF FrameShape, Meeting, WordAt, Address, Helpers
    <2>2. LogicalOf(h) \in held[u][f.row]
      BY <1>2 DEF SeenHeld
    <2> HIDE DEF h
    <2>3. CASE LogicalOf(h)' = LogicalOf(h)
      BY <1>0, <2>1, <2>2, <2>3, HeldGrows DEF h
    <2>4. ASSUME NEW o \in Ops, Passing(o)
          PROVE  LogicalOf(h)' \in held'[u][f.row]
      <3>1. /\ InProgress(o) /\ mem' = mem /\ helper_' = helper_ /\ state_'[o] = "PASS"
            /\ \A p \in Ops : p # o => state_'[p] = state_[p]
        BY <1>0, <2>4 DEF Passing, Decides, Types
      <3>2. CASE h.op # o \/ Held(h) # h
        <4>1. LogicalOf(h)' = LogicalOf(h)
          BY <1>r, <2>1, <3>1, <3>2 DEF LogicalOf, Held
        <4> QED
          BY <2>3, <4>1 DEF h
      <3>3. CASE h.op = o /\ Held(h) = h
        <4>1. h # Null /\ h # FAIL_CONST
          BY <2>1, WordsAssumption
        <4>2. mem[f.row] = h
          BY <1>0, <2>1, <3>1, <3>3, <4>1 DEF IInv, AssociatedStays, Held
        <4>3. Logical'[f.row] = LogicalOf(h)'
          BY <2>1, <3>1, <4>2 DEF Logical, LogicalOf
        <4>4. Logical'[f.row] \in held'[u][f.row]
          BY <1>0, <2>1, HeldGrows
        <4> QED
          BY <4>3, <4>4
      <3> QED
        BY <3>2, <3>3
    <2>5. Steady => LogicalOf(h)' = LogicalOf(h)
      BY <2>1 DEF Steady
    <2> QED
      BY <1>0, <2>3, <2>4, <2>5, LogicalChanges DEF h
  <1>3. f.op = Null /\ f.at = "done" => f.val \in Values
    BY DEF SeenHeld
  <1> QED
    BY <1>0, <1>r, <1>1, <1>2, <1>3 DEF SeenHeld

-----------------------------------------------------------------------------
(* What an activation that went on has seen                                *)

\* The labels at which what an activation has read matters.
Seeing == {"row", "state", "mismatch"}

Told(t) ==
  /\ \A k \in 1 .. Len(stack'[t]) : \A g \in {stack'[t][k]} : SeenHeld(t, g)'
  /\ op[t] = Null =>
       \E f, g : /\ Here(t, f) /\ Cut(t, Len(stack[t]), g)
                 /\ f.op = Null /\ g.op = Null /\ g.row = f.row /\ f.at # "done"
                 /\ g.at = "done" => Quiet /\ g.val \in held[t][f.row]

LEMMA Unconcerned ==
  ASSUME NEW t, NEW g, g.at \notin Seeing,
         g.op # Null \/ g.at \notin {"on_watch", "value", "done"}
  PROVE  SeenHeld(t, g)'
  BY DEF SeenHeld, Seeing

\* The activations that wait have seen what they had.
LEMMA WaitingSeen ==
  ASSUME RInv, NEW t \in Threads, Effect(t), Frozen, Ages,
         NEW u \in Threads, NEW k \in 1 .. Len(stack[u]), NEW f, f = stack[u][k]
  PROVE  SeenHeld(u, f)'
  <1>1. Control /\ stack[u] # <<>> /\ SeenHeld(u, f)
    BY DEF RInv, IInv, AllSeen
  <1>2. f \in Frames /\ FrameShape(f) /\ Sound(f)
    BY <1>1, FrameFacts
  <1> QED
    BY <1>1, <1>2, SeenKept

LEMMA CutTold ==
  ASSUME RInv, NEW t \in Threads, Effect(t), Frozen, Ages, NEW b, NEW g, Cut(t, b, g), SeenHeld(t, g)',
         op[t] = Null =>
           \E f : /\ Here(t, f) /\ b = Len(stack[t])
                  /\ f.op = Null /\ g.op = Null /\ g.row = f.row /\ f.at # "done"
                  /\ g.at = "done" => Quiet /\ g.val \in held[t][f.row]
  PROVE  Told(t)
  <1>1. Types
    BY DEF RInv, IInv, Control
  <1>2. \A k \in 1 .. Len(stack'[t]) :
          \/ k = b /\ stack'[t][k] = g
          \/ k \in 1 .. Len(stack[t]) /\ stack'[t][k] = stack[t][k] /\ k \in 1 .. (b - 1)
    BY <1>1, CutOwn
  <1>3. ASSUME NEW k \in 1 .. Len(stack'[t]), NEW e, e = stack'[t][k] PROVE SeenHeld(t, e)'
    <2>1. CASE e = g
      BY <2>1
    <2>2. CASE k \in 1 .. Len(stack[t]) /\ e = stack[t][k]
      BY <2>2, WaitingSeen
    <2> QED
      BY <1>2, <1>3, <2>1, <2>2
  <1> QED
    BY <1>3 DEF Told

LEMMA GrowTold ==
  ASSUME RInv, NEW t \in Threads, Effect(t), Frozen, Ages, NEW g, NEW c, Grow(t, g, c),
         op[t] # Null, SeenHeld(t, g)', SeenHeld(t, c)'
  PROVE  Told(t)
  <1>1. Types
    BY DEF RInv, IInv, Control
  <1> DEFINE n == Len(stack[t])
  <1>2. \A k \in 1 .. Len(stack'[t]) :
          \/ stack'[t][k] = g
          \/ stack'[t][k] = c
          \/ k \in 1 .. Len(stack[t]) /\ stack'[t][k] = stack[t][k]
    BY <1>1, GrowOwn
  <1>3. ASSUME NEW k \in 1 .. Len(stack'[t]), NEW e, e = stack'[t][k] PROVE SeenHeld(t, e)'
    <2>1. CASE e = g \/ e = c
      BY <2>1
    <2>2. CASE k \in 1 .. Len(stack[t]) /\ e = stack[t][k]
      BY <2>2, WaitingSeen
    <2> QED
      BY <1>2, <1>3, <2>1, <2>2
  <1> QED
    BY <1>3 DEF Told

\* The topmost activation goes on at its row.
LEMMA BecomesTold ==
  ASSUME RInv, NEW t \in Threads, Effect(t), Frozen, Ages, NEW f, Here(t, f), f.at # "done",
         NEW g, NEW l, NEW v, NEW b, NEW r, Becomes(t, g, f.op, f.row, l, b, v, r), SeenHeld(t, g)',
         f.op = Null /\ l = "done" => Quiet /\ v \in held[t][f.row]
  PROVE  Told(t)
  <1>1. IInv
    BY DEF RInv
  <1>2. f.op = Null <=> op[t] = Null
    BY <1>1, HereFacts
  <1>3. Cut(t, Len(stack[t]), g) /\ g.op = f.op /\ g.row = f.row /\ g.at = l /\ g.val = v
    BY DEF Becomes, Fields
  <1> QED
    BY <1>2, <1>3, CutTold

LEMMA TurnsTold ==
  ASSUME RInv, NEW t \in Threads, Effect(t), Frozen, Ages, NEW f, Here(t, f), f.at # "done",
         NEW l, Turns(t, f, l), l \notin Seeing, f.op # Null \/ l \notin {"on_watch", "value", "done"}
  PROVE  Told(t)
  <1>1. PICK g \in Frames : Becomes(t, g, f.op, f.row, l, f.wf, f.val, f.res)
    BY DEF Turns
  <1>2. SeenHeld(t, g)'
    BY <1>1, Unconcerned DEF Becomes, Fields
  <1> QED
    BY <1>1, <1>2, BecomesTold

\* What was read is known at the next label as well.
LEMMA TurnsSeeing ==
  ASSUME RInv, NEW t \in Threads, Effect(t), Frozen, Ages, NEW f, Here(t, f), f.op # Null,
         f.at # "done", f.at \in Seeing \/ f.val \notin Values, NEW l \in Seeing, Turns(t, f, l)
  PROVE  Told(t)
  <1>0. IInv
    BY DEF RInv
  <1>1. PICK g \in Frames : Becomes(t, g, f.op, f.row, l, f.wf, f.val, f.res)
    BY DEF Turns
  <1>2. g.op = f.op /\ g.row = f.row /\ g.val = f.val /\ g.at = l
    BY <1>1 DEF Becomes, Fields
  <1>3. SeenHeld(t, f)'
    <2>1. Len(stack[t]) \in 1 .. Len(stack[t]) /\ f = stack[t][Len(stack[t])]
      BY <1>0, HereFacts
    <2> QED
      BY <2>1, WaitingSeen
  <1>4. Address(g)' = Address(f)'
    BY <1>2 DEF Address
  <1>5. SeenHeld(t, g)'
    BY <1>2, <1>3, <1>4 DEF SeenHeld, Seeing
  <1> QED
    BY <1>1, <1>5, BecomesTold

LEMMA PassesTold ==
  ASSUME RInv, NEW t \in Threads, Effect(t), Frozen, Ages, NEW f, Here(t, f), f.at # "done", f.op # Null,
         Passes(t, f)
  PROVE  Told(t)
  <1>0. IInv /\ op[t] # Null
    BY HereFacts DEF RInv
  <1>1. PICK g \in Frames : Cut(t, Len(stack[t]), g) /\ g.at \in {"load", "pass"}
    BY DEF Passes, Becomes, Fields
  <1>2. SeenHeld(t, g)'
    BY <1>1, Unconcerned DEF Seeing
  <1> QED
    BY <1>0, <1>1, <1>2, CutTold

LEMMA ReturnedTold ==
  ASSUME RInv, NEW t \in Threads, Effect(t), Frozen, Ages, NEW f, Here(t, f), f.op # Null,
         NEW r \in BOOLEAN, Returned(t, r)
  PROVE  Told(t)
  <1>0. IInv /\ op[t] # Null /\ Control
    BY HereFacts DEF RInv
  <1> DEFINE n == Len(stack[t])
  <1>1. PICK b, g : Cut(t, b, g) /\ g.at \in {"uninstall", "withdraw", "cleanup", "load"}
    <2>1. \/ \E c, g \in Frames :
               /\ Cut(t, n - 1, g)
               /\ Fields(g, c.op, c.row, IF c.at = "helping" THEN "uninstall" ELSE "withdraw", c.wf, c.val, r)
          \/ \E g \in Frames : Cut(t, 1, g) /\ Fields(g, f.op, 1, "cleanup", f.wf, f.val, r)
          \/ \E g \in Frames : Cut(t, 1, g) /\ Fields(g, op[t], 1, "load", FALSE, Null, FALSE)
      BY <1>0, ReturnedCuts DEF Here
    <2>2. CASE \E c, g \in Frames :
               /\ Cut(t, n - 1, g)
               /\ Fields(g, c.op, c.row, IF c.at = "helping" THEN "uninstall" ELSE "withdraw", c.wf, c.val, r)
      BY <2>2 DEF Fields
    <2>3. CASE \E g \in Frames : Cut(t, 1, g) /\ Fields(g, f.op, 1, "cleanup", f.wf, f.val, r)
      BY <2>3 DEF Fields
    <2>4. CASE \E g \in Frames : Cut(t, 1, g) /\ Fields(g, op[t], 1, "load", FALSE, Null, FALSE)
      BY <2>4 DEF Fields
    <2> QED
      BY <2>1, <2>2, <2>3, <2>4
  <1>2. SeenHeld(t, g)'
    BY <1>1, Unconcerned DEF Seeing
  <1> QED
    BY <1>0, <1>1, <1>2, CutTold

LEMMA RecursiveTold ==
  ASSUME RInv, NEW t \in Threads, Effect(t), Frozen, Ages, op[t] # Null, Depth(t) # 0, RecursiveReturn(t)
  PROVE  Told(t)
  <1>0. Control
    BY DEF RInv, IInv
  <1>1. PICK b, g : Cut(t, b, g) /\ g.at = "reload"
    BY <1>0, RecursiveReturnCuts DEF Fields
  <1>2. SeenHeld(t, g)'
    BY <1>1, Unconcerned DEF Seeing
  <1> QED
    BY <1>1, <1>2, CutTold

\* What an address holds now is known to every call in progress.
LEMMA Current ==
  ASSUME RInv, NEW a \in Addrs, mem[a] \in Values, NEW u \in Threads, stack[u] # <<>>
  PROVE  mem[a] \in held[u][a]
  <1>1. Logical[a] = mem[a]
    BY LogicalOfValue DEF Logical
  <1> QED
    BY <1>1 DEF RInv, LogicalHeld

LEMMA FreshTold ==
  ASSUME RInv, NEW t \in Threads, Effect(t), Quiet, Frozen, Ages, NEW f, Here(t, f), f.op # Null, f.at # "done",
         NEW g, NEW b, NEW r, Becomes(t, g, f.op, f.row, "row", b, mem[Address(f)], r)
  PROVE  Told(t)
  <1>0. IInv /\ Address(f) \in Addrs /\ f.op \in Ops
    BY HereFacts DEF RInv
  <1>1. g.op = f.op /\ g.row = f.row /\ g.val = mem[Address(f)] /\ g.at = "row"
    BY DEF Becomes, Fields
  <1>2. Address(g)' = Address(f)
    <2>1. Address(f)' = Address(f)
      BY RowsKept DEF Frozen
    <2> QED
      BY <1>1, <2>1 DEF Address
  <1>3. ASSUME NEW u \in Threads, op[u] = f.op, g.val \in Values
        PROVE  g.val \in held'[u][Address(f)]
    <2>1. stack[u] # <<>>
      BY <1>0, <1>3, Busy
    <2>2. g.val \in held[u][Address(f)]
      BY <1>0, <1>1, <1>3, <2>1, Current
    <2> QED
      BY <1>0, <2>1, <2>2, HeldGrows
  <1>4. SeenHeld(t, g)'
    BY <1>1, <1>2, <1>3 DEF SeenHeld, Frozen
  <1> QED
    BY <1>4, BecomesTold

LEMMA LoadTold ==
  ASSUME RInv, NEW t \in Threads, Load(t), Effect(t), Frozen, Ages
  PROVE  Told(t)
  <1>0. Control /\ IInv
    BY DEF RInv, IInv
  <1>1. PICK f, g :
           /\ Here(t, f) /\ f.at \in {"load", "reload"} /\ g \in Frames
           /\ \/ f.op # Null /\ Becomes(t, g, f.op, f.row, "row", f.wf, mem[Address(f)], f.res)
              \/ /\ f.op = Null /\ mem[Address(f)] \in Helpers
                 /\ Becomes(t, g, f.op, f.row, "watch", f.wf, mem[Address(f)], f.res)
              \/ /\ f.op = Null /\ mem[Address(f)] \in Values
                 /\ Becomes(t, g, f.op, f.row, "done", f.wf, mem[Address(f)], f.res)
           /\ Quiet
    BY <1>0, LoadStep
  <1>2. CASE f.op # Null /\ Becomes(t, g, f.op, f.row, "row", f.wf, mem[Address(f)], f.res)
    BY <1>1, <1>2, FreshTold
  <1>3. CASE f.op = Null /\ Becomes(t, g, f.op, f.row, "watch", f.wf, mem[Address(f)], f.res)
    <2>1. SeenHeld(t, g)'
      BY <1>3, Unconcerned DEF Becomes, Fields, Seeing
    <2> QED
      BY <1>1, <1>3, <2>1, BecomesTold
  <1>4. CASE /\ f.op = Null /\ mem[Address(f)] \in Values
             /\ Becomes(t, g, f.op, f.row, "done", f.wf, mem[Address(f)], f.res)
    <2>1. Address(f) = f.row /\ f.row \in Addrs /\ stack[t] # <<>>
      BY <1>0, <1>1, <1>4, HereFacts DEF Address
    <2>2. mem[Address(f)] \in held[t][f.row]
      BY <1>4, <2>1, Current
    <2>3. SeenHeld(t, g)'
      BY <1>4 DEF Becomes, Fields, SeenHeld, Seeing
    <2> QED
      BY <1>1, <1>4, <2>2, <2>3, BecomesTold
  <1> QED
    BY <1>1, <1>2, <1>3, <1>4

LEMMA SeeStateTold ==
  ASSUME RInv, NEW t \in Threads, SeeState(t), Effect(t), Frozen, Ages
  PROVE  Told(t)
  <1>0. Control /\ IInv
    BY DEF RInv, IInv
  <1>1. PICK f :
           /\ Here(t, f) /\ f.at = "state" /\ f.op # Null
           /\ \/ ~InProgress(f.op) /\ Returned(t, state_[f.op] = "PASS") /\ op_table_' = op_table_
              \/ /\ Depth(t) = 0 /\ ~f.wf
                 /\ op_table_' = [op_table_ EXCEPT ![t] = f.op]
                 /\ \E g, c \in Frames :
                      /\ Grow(t, g, c)
                      /\ Fields(g, f.op, f.row, "announced", f.wf, f.val, f.res)
                      /\ Fields(c, f.op, 1, "load", TRUE, Null, FALSE)
              \/ Depth(t) # 0 /\ RecursiveReturn(t) /\ op_table_' = op_table_
              \/ /\ op_table_' = op_table_
                 /\ \/ f.val \in Helpers /\ Turns(t, f, "watch")
                    \/ f.val = Row(f.op, f.row).expected /\ Turns(t, f, "place")
                    \/ /\ f.val \in Values /\ f.val # Row(f.op, f.row).expected
                       /\ Turns(t, f, "mismatch")
           /\ Quiet
    BY <1>0, SeeStateStep
  <1>2. op[t] # Null
    BY <1>0, <1>1, HereFacts
  <1>3. CASE Returned(t, state_[f.op] = "PASS")
    <2>1. (state_[f.op] = "PASS") \in BOOLEAN
      OBVIOUS
    <2> QED
      BY <1>1, <1>3, <2>1, ReturnedTold
  <1>4. ASSUME NEW g, NEW c, Grow(t, g, c), Fields(g, f.op, f.row, "announced", f.wf, f.val, f.res),
               Fields(c, f.op, 1, "load", TRUE, Null, FALSE)
        PROVE  Told(t)
    <2>1. SeenHeld(t, g)' /\ SeenHeld(t, c)'
      BY <1>4, Unconcerned DEF Fields, Seeing
    <2> QED
      BY <1>2, <1>4, <2>1, GrowTold
  <1>5. CASE Depth(t) # 0 /\ RecursiveReturn(t)
    BY <1>2, <1>5, RecursiveTold
  <1>6. ASSUME NEW l \in {"watch", "place"}, Turns(t, f, l)
        PROVE  Told(t)
    <2>1. f.at # "done" /\ l \notin Seeing /\ f.op # Null
      BY <1>1, <1>6 DEF Seeing
    <2> QED
      BY <1>1, <1>6, <2>1, TurnsTold
  <1>7. CASE Turns(t, f, "mismatch")
    <2>1. f.at \in Seeing /\ "mismatch" \in Seeing /\ f.at # "done"
      BY <1>1 DEF Seeing
    <2> QED
      BY <1>1, <1>7, <2>1, TurnsSeeing
  <1> QED
    BY <1>1, <1>3, <1>4, <1>5, <1>6, <1>7

LEMMA PlaceTold ==
  ASSUME RInv, NEW t \in Threads, Place(t), Effect(t), Frozen, Ages
  PROVE  Told(t)
  <1>0. Control /\ IInv
    BY DEF RInv, IInv
  <1>1. PICK f, g :
           /\ Here(t, f) /\ f.at = "place" /\ f.op # Null
           /\ \/ Becomes(t, g, f.op, f.row, "associate", f.wf, f.val, f.res)
              \/ Quiet /\ Becomes(t, g, f.op, f.row, "row", f.wf, mem[Address(f)], f.res)
    BY <1>0, PlaceStep
  <1>2. CASE Becomes(t, g, f.op, f.row, "associate", f.wf, f.val, f.res)
    <2>1. SeenHeld(t, g)'
      BY <1>2, Unconcerned DEF Becomes, Fields, Seeing
    <2> QED
      BY <1>1, <1>2, <2>1, BecomesTold
  <1>3. CASE Quiet /\ Becomes(t, g, f.op, f.row, "row", f.wf, mem[Address(f)], f.res)
    BY <1>1, <1>3, FreshTold
  <1> QED
    BY <1>1, <1>2, <1>3

LEMMA WatchTold ==
  ASSUME RInv, NEW t \in Threads, Watch(t), Effect(t), Frozen, Ages
  PROVE  Told(t)
  <1>0. Control /\ IInv
    BY DEF RInv, IInv
  <1>1. PICK f :
           /\ Here(t, f) /\ f.at = "watch"
           /\ \/ mem[Address(f)] = f.val /\ Turns(t, f, "on_watch")
              \/ Turns(t, f, "reload")
           /\ Quiet
    BY <1>0, WatchStep
  <1>2. CASE Turns(t, f, "reload")
    <2>1. "reload" \notin Seeing
      BY DEF Seeing
    <2> QED
      BY <1>1, <1>2, <2>1, TurnsTold
  <1>3. CASE mem[Address(f)] = f.val /\ Turns(t, f, "on_watch")
    <2>1. PICK g \in Frames : Becomes(t, g, f.op, f.row, "on_watch", f.wf, f.val, f.res)
      BY <1>3 DEF Turns
    <2>2. g.op = f.op /\ g.row = f.row /\ g.val = f.val /\ g.at = "on_watch"
      BY <2>1 DEF Becomes, Fields
    <2>3. ASSUME f.op = Null PROVE LogicalOf(f.val)' \in held'[t][f.row]
      <3>1. Address(f) = f.row /\ f.row \in Addrs /\ stack[t] # <<>>
        BY <1>0, <1>1, <2>3, HereFacts DEF Address
      <3>2. LogicalOf(f.val) = Logical[f.row]
        BY <1>3, <3>1 DEF Logical
      <3>3. Logical[f.row] \in held'[t][f.row]
        BY <1>0, <3>1, HeldGrows DEF RInv, LogicalHeld
      <3>4. LogicalOf(f.val)' = LogicalOf(f.val)
        BY <1>1, RowsKept DEF Quiet, LogicalOf, Frozen
      <3> QED
        BY <3>2, <3>3, <3>4
    <2>4. SeenHeld(t, g)'
      BY <2>2, <2>3 DEF SeenHeld
    <2> QED
      BY <1>1, <2>1, <2>4, BecomesTold
  <1> QED
    BY <1>1, <1>2, <1>3

LEMMA OnWatchTold ==
  ASSUME RInv, NEW t \in Threads, OnWatch(t), Effect(t), Frozen, Ages
  PROVE  Told(t)
  <1>0. Control /\ IInv
    BY DEF RInv, IInv
  <1>1. PICK f :
           /\ Here(t, f) /\ f.at = "on_watch"
           /\ \/ Turns(t, f, "restore")
              \/ Turns(t, f, IF f.op = Null THEN "value" ELSE "own_row")
    BY <1>0, OnWatchStep
  <1>2. ASSUME NEW l \in {"restore", "own_row"}, Turns(t, f, l) PROVE Told(t)
    <2>1. l \notin Seeing /\ l \notin {"on_watch", "value", "done"}
      BY <1>2 DEF Seeing
    <2> QED
      BY <1>1, <1>2, <2>1, TurnsTold
  <1>3. CASE f.op = Null /\ Turns(t, f, "value")
    <2>1. PICK g \in Frames : Becomes(t, g, f.op, f.row, "value", f.wf, f.val, f.res)
      BY <1>3 DEF Turns
    <2>2. g.op = f.op /\ g.row = f.row /\ g.val = f.val /\ g.at = "value"
      BY <2>1 DEF Becomes, Fields
    <2>3. SeenHeld(t, f)'
      <3>1. Len(stack[t]) \in 1 .. Len(stack[t]) /\ f = stack[t][Len(stack[t])]
        BY <1>0, <1>1, HereFacts
      <3> QED
        BY <3>1, WaitingSeen
    <2>4. SeenHeld(t, g)'
      BY <1>1, <1>3, <2>2, <2>3 DEF SeenHeld
    <2> QED
      BY <1>1, <2>1, <2>4, BecomesTold
  <1> QED
    BY <1>1, <1>2, <1>3

LEMMA ReadValueTold ==
  ASSUME RInv, NEW t \in Threads, ReadValue(t), Effect(t), Frozen, Ages
  PROVE  Told(t)
  <1>0. Control /\ IInv /\ HistoryType
    BY DEF RInv, IInv
  <1>1. PICK f :
           /\ Here(t, f) /\ f.at = "value"
           /\ f.op = Null /\ f.val \in Helpers
           /\ \E g \in Frames :
                Becomes(t, g, f.op, f.row, "done", f.wf,
                        IF state_[f.val.op] = "PASS" THEN Row(f.val.op, f.val.row).new
                        ELSE Row(f.val.op, f.val.row).expected, f.res)
           /\ Quiet
    BY <1>0, ReadValueStep
  <1> DEFINE v == IF state_[f.val.op] = "PASS" THEN Row(f.val.op, f.val.row).new
                  ELSE Row(f.val.op, f.val.row).expected
  <1>2. PICK g \in Frames : Becomes(t, g, f.op, f.row, "done", f.wf, v, f.res)
    BY <1>1
  <1>3. FrameOk(t, f) /\ f.row \in Addrs /\ Len(stack[t]) \in 1 .. Len(stack[t]) /\ f = stack[t][Len(stack[t])]
    BY <1>0, <1>1, HereFacts DEF Address
  <1>4. v = LogicalOf(f.val)
    <2>1. Held(f.val) = f.val
      BY <1>1, <1>3 DEF FrameOk
    <2> QED
      BY <1>1, <2>1, LogicalIs
  <1> HIDE DEF v
  <1>5. v \in held[t][f.row]
    <2>1. SeenHeld(t, f)
      BY <1>3 DEF RInv, AllSeen
    <2> QED
      BY <1>1, <1>4, <2>1 DEF SeenHeld
  <1>6. v \in Values
    BY <1>0, <1>3, <1>5 DEF HistoryType
  <1>7. SeenHeld(t, g)'
    BY <1>1, <1>2, <1>6 DEF Becomes, Fields, SeenHeld
  <1> QED
    BY <1>1, <1>2, <1>5, <1>7, BecomesTold

LEMMA AccessTold ==
  ASSUME RInv, NEW t \in Threads, Access(t), Effect(t), Frozen, Ages
  PROVE  Told(t)
  <1>0. Control /\ IInv
    BY DEF RInv, IInv
  <1>s. /\ \A l \in {"state", "fail", "place", "undo", "over", "reload", "restore", "remove", "done"} :
             l \in Seeing => l = "state"
        /\ "state" \in Seeing /\ "row" \in Seeing
    BY DEF Seeing
  <1>1. CASE Load(t)
    BY <1>1, LoadTold
  <1>2. CASE SeeHelper(t)
    <2>1. PICK f :
             /\ Here(t, f) /\ f.at = "row" /\ f.op # Null
             /\ \/ Turns(t, f, "state")
                \/ Turns(t, f, "fail")
                \/ Passes(t, f)
      BY <1>0, <1>2, SeeHelperStep
    <2>2. f.at \in Seeing /\ f.at # "done"
      BY <2>1 DEF Seeing
    <2>3. CASE Turns(t, f, "state")
      BY <1>s, <2>1, <2>2, <2>3, TurnsSeeing
    <2>4. CASE Turns(t, f, "fail")
      BY <1>s, <2>1, <2>2, <2>4, TurnsTold
    <2>5. CASE Passes(t, f)
      BY <2>1, <2>2, <2>5, PassesTold
    <2> QED
      BY <2>1, <2>3, <2>4, <2>5
  <1>3. CASE SeeState(t)
    BY <1>3, SeeStateTold
  <1>4. CASE Mismatch(t)
    <2>1. PICK f :
             /\ Here(t, f) /\ f.at = "mismatch" /\ f.op # Null
             /\ Turns(t, f, "fail") \/ Turns(t, f, "row")
      BY <1>0, <1>4, MismatchStep
    <2>2. f.at \in Seeing /\ f.at # "done"
      BY <2>1 DEF Seeing
    <2>3. CASE Turns(t, f, "row")
      BY <1>s, <2>1, <2>2, <2>3, TurnsSeeing
    <2>4. CASE Turns(t, f, "fail")
      BY <1>s, <2>1, <2>2, <2>4, TurnsTold
    <2> QED
      BY <2>1, <2>3, <2>4
  <1>5. CASE Place(t)
    BY <1>5, PlaceTold
  <1>6. CASE AssociateOwn(t)
    <2>1. PICK f :
             /\ Here(t, f) /\ f.at = "associate" /\ f.op # Null
             /\ Passes(t, f) \/ Turns(t, f, "undo")
      BY <1>0, <1>6, AssociateStep
    <2>2. CASE Passes(t, f)
      BY <2>1, <2>2, PassesTold
    <2>3. CASE Turns(t, f, "undo")
      BY <1>s, <2>1, <2>3, TurnsTold
    <2> QED
      BY <2>1, <2>2, <2>3
  <1>7. CASE Undo(t)
    <2>1. PICK f :
             /\ Here(t, f) /\ f.at = "undo" /\ f.op # Null
             /\ Turns(t, f, "fail") \/ Turns(t, f, "over")
      BY <1>0, <1>7, UndoStep
    <2> QED
      BY <1>s, <2>1, TurnsTold
  <1>8. CASE Over(t)
    <2>1. PICK f : Here(t, f) /\ f.op # Null /\ Returned(t, state_[f.op] = "PASS")
      BY <1>0, <1>8, OverStep
    <2>2. (state_[f.op] = "PASS") \in BOOLEAN
      OBVIOUS
    <2> QED
      BY <2>1, <2>2, ReturnedTold
  <1>9. CASE SetFail(t)
    <2>1. PICK f : Here(t, f) /\ f.op # Null /\ Returned(t, FALSE)
      BY <1>0, <1>9, SetFailStep
    <2>2. FALSE \in BOOLEAN
      OBVIOUS
    <2> QED
      BY <2>1, <2>2, ReturnedTold
  <1>10. CASE SetPass(t)
    <2>1. PICK f : Here(t, f) /\ f.op # Null /\ Returned(t, state_[f.op] \in {"IN_PROGRESS", "PASS"})
      BY <1>0, <1>10, SetPassStep
    <2>2. (state_[f.op] \in {"IN_PROGRESS", "PASS"}) \in BOOLEAN
      OBVIOUS
    <2> QED
      BY <2>1, <2>2, ReturnedTold
  <1>11. CASE Withdraw(t)
    <2>1. PICK f : Here(t, f) /\ f.at = "withdraw" /\ f.op # Null /\ Turns(t, f, "over")
      BY <1>0, <1>11, WithdrawStep
    <2> QED
      BY <1>s, <2>1, TurnsTold
  <1>12. CASE Watch(t)
    BY <1>12, WatchTold
  <1>13. CASE OnWatch(t)
    BY <1>13, OnWatchTold
  <1>14. CASE Restore(t)
    <2>1. PICK f : Here(t, f) /\ f.at = "restore" /\ Turns(t, f, "reload")
      BY <1>0, <1>14, RestoreStep
    <2> QED
      BY <1>s, <2>1, TurnsTold
  <1>15. CASE OwnRow(t)
    <2>1. PICK f :
             /\ Here(t, f) /\ f.at = "own_row" /\ f.op # Null
             /\ \/ Turns(t, f, "row")
                \/ Depth(t) # 0 /\ RecursiveReturn(t)
                \/ Turns(t, f, "remove")
      BY <1>0, <1>15, OwnRowStep
    <2>2. f.val \notin Values /\ op[t] # Null
      <3>1. f.val \in Helpers
        BY <2>1 DEF Here, FrameShape, Meeting
      <3> QED
        BY <1>0, <2>1, <3>1, HereFacts, WordsAssumption
    <2>3. CASE Turns(t, f, "row")
      BY <1>s, <2>1, <2>2, <2>3, TurnsSeeing
    <2>4. CASE Depth(t) # 0 /\ RecursiveReturn(t)
      BY <2>2, <2>4, RecursiveTold
    <2>5. CASE Turns(t, f, "remove")
      BY <1>s, <2>1, <2>5, TurnsTold
    <2> QED
      BY <2>1, <2>3, <2>4, <2>5
  <1>16. CASE RemoveDescriptor(t)
    <2>1. PICK f :
             /\ Here(t, f) /\ f.at = "remove" /\ f.op # Null
             /\ \/ Turns(t, f, "reload")
                \/ \E g, c \in Frames :
                     /\ Grow(t, g, c)
                     /\ Fields(g, f.op, f.row, "helping", f.wf, f.val, f.res)
                     /\ Fields(c, f.val.op, f.val.row, "load", FALSE, Null, FALSE)
      BY <1>0, <1>16, RemoveStep
    <2>2. CASE Turns(t, f, "reload")
      BY <1>s, <2>1, <2>2, TurnsTold
    <2>3. ASSUME NEW g, NEW c, Grow(t, g, c), Fields(g, f.op, f.row, "helping", f.wf, f.val, f.res),
                 Fields(c, f.val.op, f.val.row, "load", FALSE, Null, FALSE)
          PROVE  Told(t)
      <3>1. f.val \in Helpers /\ op[t] # Null
        BY <1>0, <2>1, HereFacts DEF Here, FrameShape, Meeting
      <3>2. g.op # Null /\ g.at = "helping" /\ c.at = "load"
        BY <2>1, <2>3 DEF Fields
      <3>3. SeenHeld(t, g)' /\ SeenHeld(t, c)'
        BY <3>2, Unconcerned DEF Seeing
      <3> QED
        BY <2>3, <3>1, <3>3, GrowTold
    <2> QED
      BY <2>1, <2>2, <2>3
  <1>17. CASE Uninstall(t)
    <2>1. PICK f : Here(t, f) /\ f.at = "uninstall" /\ Turns(t, f, "reload")
      BY <1>0, <1>17, UninstallStep
    <2> QED
      BY <1>s, <2>1, TurnsTold
  <1>18. CASE Cleanup(t)
    <2>1. PICK f :
             /\ Here(t, f) /\ f.at = "cleanup" /\ f.op # Null
             /\ \/ Turns(t, f, "done")
                \/ \E g \in Frames :
                     \/ Becomes(t, g, f.op, f.row, "done", f.wf, f.val, f.res)
                     \/ Becomes(t, g, f.op, f.row + 1, "cleanup", f.wf, f.val, f.res)
      BY <1>0, <1>18, CleanupStep
    <2>2. op[t] # Null
      BY <1>0, <2>1, HereFacts
    <2>3. PICK g : Cut(t, Len(stack[t]), g) /\ g.at \in {"done", "cleanup"} /\ g.op = f.op
      BY <2>1 DEF Turns, Becomes, Fields
    <2>4. SeenHeld(t, g)'
      BY <2>1, <2>3, Unconcerned DEF Seeing
    <2> QED
      BY <2>2, <2>3, <2>4, CutTold
  <1>19. CASE ReadValue(t)
    BY <1>19, ReadValueTold
  <1> QED
    BY <1>1, <1>2, <1>3, <1>4, <1>5, <1>6, <1>7, <1>8, <1>9, <1>10, <1>11, <1>12, <1>13, <1>14, <1>15,
       <1>16, <1>17, <1>18, <1>19, Zenon DEF Access

-----------------------------------------------------------------------------
(* A step of an activation keeps what the calls know                       *)

\* What the stack of t tells of the other stacks.
LEMMA SameBusy ==
  ASSUME IInv, NEW t \in Threads, Moves(t), NEW u \in Threads
  PROVE  /\ stack'[u] = <<>> <=> stack[u] = <<>>
         /\ u # t => stack'[u] = stack[u]
  <1>0. Types
    BY DEF IInv, Control
  <1>1. ASSUME NEW b, NEW c, NEW g, Cuts(t, b, c, g)
        PROVE  /\ stack'[t] # <<>> /\ stack[t] # <<>>
               /\ u # t => stack'[u] = stack[u]
    <2>1. Cut(t, b, g)
      BY <1>1 DEF Cuts
    <2>2. stack'[t] # <<>> /\ (u # t => stack'[u] = stack[u]) /\ b \in 1 .. Len(stack[t])
      BY <1>0, <2>1, CutFrames
    <2>3. stack[t] # <<>>
      BY <2>2
    <2> QED
      BY <2>2, <2>3
  <1>2. ASSUME NEW f, NEW g, NEW c, Grows(t, f, g, c)
        PROVE  /\ stack'[t] # <<>> /\ stack[t] # <<>>
               /\ u # t => stack'[u] = stack[u]
    <2>1. Grow(t, g, c)
      BY <1>2 DEF Grows
    <2> QED
      BY <1>0, <2>1, GrowFrames DEF Grow
  <1> QED
    BY <1>1, <1>2 DEF Moves

\* A row only fails where its activation saw another value.
LEMMA FailsAt ==
  ASSUME IInv, NEW t \in Threads, Effect(t), NEW o \in Ops, NEW i \in 1 .. MaxRows,
         helper_[o][i] # FAIL_CONST, helper_'[o][i] = FAIL_CONST
  PROVE  \E f : Here(t, f) /\ f.at = "mismatch" /\ f.op = o /\ f.row = i
  <1>0. Types /\ RowsSorted
    BY DEF IInv, Control
  <1>1. helper_' # helper_
    OBVIOUS
  <1>2. ASSUME NEW p \in Ops, NEW j \in Rows(p), NEW w, Associates(p, j, w)
        PROVE  p = o /\ j = i /\ w = FAIL_CONST
    <2>1. j \in 1 .. MaxRows
      BY <1>0, RowTyped
    <2> QED
      BY <1>0, <1>2, <2>1 DEF Associates, Types
  <1>3. ASSUME NEW p \in Ops, NEW j \in Rows(p), NEW w \in Helpers, Associates(p, j, w)
        PROVE  FALSE
    BY <1>2, <1>3, WordsAssumption
  <1> QED
    BY <1>1, <1>2, <1>3 DEF Effect, Quiet, Decides, Swaps

LEMMA StepKnows ==
  ASSUME RInv, NEW t \in Threads, Step(t)
  PROVE  /\ RInv' /\ Told(t) /\ Good(t) /\ Frozen /\ Ages
  <1>0. IInv /\ Control /\ Types
    BY DEF RInv, IInv, Control
  <1>1. /\ Good(t) /\ Frozen /\ Ages /\ Access(t) /\ Effect(t) /\ Moves(t) /\ op' = op /\ cas_rows_' = cas_rows_
    BY <1>0, AccessGood DEF Step, Ages, Good, Frozen
  <1>2. IInv'
    BY <1>0, StepKept
  <1>3. Told(t)
    BY <1>1, AccessTold
  <1>k. Keeps(t)
    BY <1>0, <1>1, EffectKeeps
  <1>r. /\ \A o : Rows(o)' = Rows(o) /\ RowCount(o)' = RowCount(o)
        /\ \A o, i : Row(o, i)' = Row(o, i)
    BY <1>1, RowsKept
  <1>i. \A o \in Ops : InProgress(o)' => InProgress(o)
    BY <1>k DEF Keeps, InProgress
  <1>4. Begun' /\ OneOwner'
    BY <1>1, <1>r, <1>i DEF RInv, Begun, OneOwner
  <1>5. Requested'
    BY <1>r DEF RInv, Requested
  <1>6. LogicalHeld'
    <2> SUFFICES ASSUME NEW u \in Threads, stack'[u] # <<>>, NEW a \in Addrs
                 PROVE  Logical'[a] \in held'[u][a]
      BY DEF LogicalHeld
    <2>1. stack[u] # <<>>
      BY <1>0, <1>1, SameBusy
    <2> QED
      BY <1>0, <1>1, <2>1, HeldGrows
  <1>7. FailHeld'
    <2> SUFFICES ASSUME NEW u \in Threads, NEW o \in Ops, o = op[u], op[u] # Null, InProgress(o)',
                        NEW i \in Rows(o), helper_'[o][i] = FAIL_CONST
                 PROVE  \E v \in held'[u][Row(o, i).address] : v # Row(o, i).expected
      <3>1. \A u \in Threads : op[u] # Null => op[u] \in Ops
        BY <1>0 DEF Types
      <3> QED
        BY <1>1, <1>r, <3>1 DEF FailHeld
    <2>1. /\ InProgress(o) /\ stack[u] # <<>> /\ Row(o, i).address \in Addrs
          /\ i \in 1 .. MaxRows /\ RowsSorted
      BY <1>0, <1>i, Busy, RowTyped DEF Control
    <2>2. CASE helper_[o][i] = FAIL_CONST
      <3>1. PICK v \in held[u][Row(o, i).address] : v # Row(o, i).expected
        BY <2>1, <2>2 DEF RInv, FailHeld
      <3> QED
        BY <1>0, <1>1, <2>1, <3>1, HeldGrows
    <2>3. CASE helper_[o][i] # FAIL_CONST
      <3>1. \E f : Here(t, f) /\ f.at = "mismatch" /\ f.op = o /\ f.row = i
        BY <1>0, <1>1, <2>1, <2>3, FailsAt
      <3>2. PICK f : Here(t, f) /\ f.at = "mismatch" /\ f.op = o /\ f.row = i
        BY <3>1
      <3>3. /\ FrameShape(f) /\ FrameOk(t, f) /\ Address(f) = Row(o, i).address
            /\ f = stack[t][Len(stack[t])] /\ Len(stack[t]) \in 1 .. Len(stack[t]) /\ f.op # Null
        BY <1>0, <3>2, HereFacts DEF Reading
      <3>4. f.val \in Values /\ f.val # Row(o, i).expected
        BY <3>2, <3>3 DEF FrameShape, FrameOk
      <3>5. SeenHeld(t, f)
        BY <3>3 DEF RInv, AllSeen
      <3>6. f.val \in held[u][Row(o, i).address]
        BY <2>1, <3>2, <3>3, <3>4, <3>5 DEF SeenHeld
      <3> QED
        BY <1>0, <1>1, <2>1, <3>4, <3>6, HeldGrows
    <2> QED
      BY <2>2, <2>3
  <1>8. AllSeen'
    <2> SUFFICES ASSUME NEW u \in Threads, NEW k \in 1 .. Len(stack'[u]), NEW f, f = stack'[u][k]
                 PROVE  SeenHeld(u, f)'
      BY DEF AllSeen
    <2>1. CASE u = t
      BY <1>3, <2>1 DEF Told
    <2>2. CASE u # t
      <3>1. stack'[u] = stack[u]
        BY <1>0, <1>1, <2>2, SameBusy
      <3> QED
        BY <1>1, <3>1, WaitingSeen
    <2> QED
      BY <2>1, <2>2
  <1> QED
    BY <1>1, <1>2, <1>3, <1>4, <1>5, <1>6, <1>7, <1>8 DEF RInv

-----------------------------------------------------------------------------
(* Calls and their ends                                                    *)

LEMMA GrowLogical ==
  ASSUME IInv, RowsGrow, mem' = mem, helper_' = helper_, state_' = state_
  PROVE  /\ Logical' = Logical
         /\ \A h \in Helpers : h.row \in Rows(h.op) => LogicalOf(h)' = LogicalOf(h)
  <1>0. Control /\ Types
    BY DEF IInv, Control
  <1>1. ASSUME NEW h \in Helpers, h.row \in Rows(h.op) PROVE LogicalOf(h)' = LogicalOf(h)
    <2>1. h.op \in Ops
      BY DEF Helpers
    <2>2. Row(h.op, h.row)' = Row(h.op, h.row)
      BY <1>0, <1>1, <2>1, RowsFixed
    <2> QED
      BY <2>2 DEF LogicalOf
  <1>2. ASSUME NEW a \in Addrs PROVE LogicalOf(mem[a])' = LogicalOf(mem[a])
    <2> SUFFICES ASSUME NEW w, w = mem[a] PROVE LogicalOf(w)' = LogicalOf(w)
      BY DEF LogicalOf
    <2>1. CASE w \in Values
      BY <2>1, LogicalOfValue
    <2>2. CASE w \in Helpers
      BY <1>0, <1>1, <2>2 DEF Control, MemRows, WordAt
    <2> QED
      BY <1>0, <2>1, <2>2 DEF Types, Words
  <1> QED
    BY <1>1, <1>2 DEF Logical

\* A call begins or ends: nobody else's call is touched.
LEMMA CallKnows ==
  ASSUME RInv, IInv', NEW t \in Threads, RowsGrow, mem' = mem, helper_' = helper_, state_' = state_,
         NEW s \in Seq(Frames), stack' = [stack EXCEPT ![t] = s], \A k \in 1 .. Len(s) : s[k].at = "load",
         \A u \in Threads : u # t => op'[u] = op[u] /\ held'[u] = held[u],
         op'[t] = Null \/ RowCount(op'[t]) = 0,
         s # <<>> => \A a \in Addrs : Logical[a] \in held'[t][a],
         Begun', Requested'
  PROVE  RInv'
  <1>0. IInv /\ Control /\ Types /\ HelperRows
    BY DEF RInv, IInv, Control
  <1>s. stack'[t] = s /\ \A u \in Threads : u # t => stack'[u] = stack[u]
    BY <1>0 DEF Types
  <1>n. \A o \in Ops : RowCount(o) \in Nat
    BY <1>0 DEF Types, RowCount
  <1>f. \A o \in Ops : RowCount(o) > 0 =>
          /\ RowCount(o)' = RowCount(o) /\ Rows(o)' = Rows(o) /\ \A i : Row(o, i)' = Row(o, i)
    BY DEF RowsGrow, RowCount, Rows, Row
  <1>m. \A o \in Ops : \A i \in Rows(o)' : i \in 1 .. MaxRows
    <2>1. (Types /\ RowsSorted => \A o \in Ops : \A i \in Rows(o) : i \in 1 .. MaxRows)'
      BY RowBound, PTL
    <2> QED
      BY <2>1 DEF IInv, Control
  <1>b. ASSUME NEW u \in Threads, op[u] # Null
        PROVE  RowCount(op[u]) > 0 /\ op[u] \in Ops
    BY <1>0, <1>b, Busy
  <1>1. OneOwner'
    <2> SUFFICES ASSUME NEW u \in Threads, NEW v \in Threads, op'[u] = op'[v], op'[u] # Null, u # v PROVE FALSE
      BY DEF OneOwner
    <2>1. ASSUME NEW w \in Threads, w # t, op'[w] = op'[t], op'[w] # Null PROVE FALSE
      <3>1. op[w] # Null /\ RowCount(op'[t]) = 0 /\ op[w] = op'[t]
        BY <2>1
      <3>2. RowCount(op[w]) > 0
        BY <1>b, <3>1
      <3> QED
        BY <3>1, <3>2
    <2>2. u # t /\ v # t => op[u] = op[v] /\ op[u] # Null
      OBVIOUS
    <2> QED
      BY <2>1, <2>2 DEF RInv, OneOwner
  <1>2. LogicalHeld'
    <2>1. Logical' = Logical
      BY <1>0, GrowLogical
    <2> QED
      BY <1>s, <2>1 DEF RInv, LogicalHeld
  <1>3. FailHeld'
    <2> SUFFICES ASSUME NEW u \in Threads, NEW o \in Ops, op'[u] = o, op'[u] # Null, InProgress(o)',
                        NEW i \in Rows(o)', helper_[o][i] = FAIL_CONST
                 PROVE  \E v \in held'[u][Row(o, i)'.address] : v # Row(o, i)'.expected
      <3>1. \A u \in Threads : op'[u] # Null => op'[u] \in Ops
        BY DEF IInv, Control, Types
      <3> QED
        BY <3>1 DEF FailHeld
    <2>1. i \in 1 .. MaxRows
      BY <1>m
    <2>2. helper_[o][i] # Null
      BY WordsAssumption
    <2>3. i \in Rows(o)
      BY <1>0, <2>1, <2>2 DEF HelperRows
    <2>4. RowCount(o) > 0
      BY <1>n, <2>3 DEF Rows
    <2>5. u # t
      BY <2>4
    <2>6. op[u] = o /\ op[u] # Null /\ InProgress(o)
      BY <2>5 DEF InProgress
    <2>7. \E v \in held[u][Row(o, i).address] : v # Row(o, i).expected
      BY <2>3, <2>6 DEF RInv, FailHeld
    <2> QED
      BY <1>f, <2>4, <2>5, <2>7
  <1>4. AllSeen'
    <2> SUFFICES ASSUME NEW u \in Threads, NEW k \in 1 .. Len(stack'[u]), NEW f, f = stack'[u][k]
                 PROVE  SeenHeld(u, f)'
      BY DEF AllSeen
    <2>1. CASE u = t
      <3>1. f.at = "load"
        BY <1>s, <2>1
      <3> QED
        BY <3>1, Unconcerned DEF Seeing
    <2>2. CASE u # t
      <3>1. k \in 1 .. Len(stack[u]) /\ f = stack[u][k]
        BY <1>s, <2>2
      <3>2. f \in Frames /\ FrameShape(f) /\ Sound(f) /\ SeenHeld(u, f)
        BY <1>0, <3>1, FrameFacts DEF RInv, AllSeen
      <3>3. ASSUME f.op # Null, f.at \in {"row", "state", "mismatch"}, f.val \in Values, InProgress(f.op)',
                   NEW v \in Threads, op'[v] = f.op
            PROVE  f.val \in held'[v][Address(f)']
        <4>1. f.op \in Ops /\ f.row \in Rows(f.op)
          BY <3>2, <3>3 DEF Sound
        <4>2. RowCount(f.op) > 0
          BY <1>n, <4>1 DEF Rows
        <4>3. v # t
          BY <3>3, <4>2
        <4>4. InProgress(f.op) /\ op[v] = f.op /\ held'[v] = held[v]
          BY <3>3, <4>3 DEF InProgress
        <4>5. Address(f)' = Address(f)
          BY <1>f, <3>3, <4>1, <4>2 DEF Address
        <4> QED
          BY <3>2, <3>3, <4>4, <4>5 DEF SeenHeld
      <3>4. ASSUME f.op = Null, f.at \in {"on_watch", "value"} PROVE LogicalOf(f.val)' \in held'[u][f.row]
        <4>1. f.val \in Helpers /\ f.val.row \in Rows(f.val.op)
          BY <3>2, <3>4 DEF FrameShape, Meeting, WordAt
        <4>2. LogicalOf(f.val)' = LogicalOf(f.val)
          BY <1>0, <4>1, GrowLogical
        <4>3. held'[u] = held[u] /\ LogicalOf(f.val) \in held[u][f.row]
          BY <2>2, <3>2, <3>4 DEF SeenHeld
        <4> QED
          BY <4>2, <4>3
      <3> QED
        BY <3>2, <3>3, <3>4 DEF SeenHeld
    <2> QED
      BY <2>1, <2>2
  <1> QED
    BY <1>1, <1>2, <1>3, <1>4 DEF RInv

\* What execute does when it begins.
LEMMA ExecuteIs ==
  ASSUME IInv, NEW t \in Threads, CallExecute(t)
  PROVE  \E o \in Ops : \E S \in Requests : \E f \in Frames :
           /\ stack[t] = <<>> /\ mem' = mem /\ helper_' = helper_ /\ state_' = state_ /\ Begin(t)
           /\ RowCount(o) = 0 /\ o # Null /\ InProgress(o) /\ RowsGrow
           /\ RowCount(o)' > 0 /\ {Row(o, i)' : i \in Rows(o)'} = S
           /\ \A p \in Ops : p # o => cas_rows_'[p] = cas_rows_[p]
           /\ op' = [op EXCEPT ![t] = o]
           /\ stack' = [stack EXCEPT ![t] = <<f>>] /\ f.at = "load"
  <1>0. Control /\ Types /\ FreshRows /\ Announced
    BY DEF IInv, Control
  <1>1. PICK o \in Ops, S \in Requests :
          /\ \A p \in Ops : RowCount(p) = 0 <=> p >= o
          /\ cas_rows_' = [cas_rows_ EXCEPT ![o] = Sorted(S)]
          /\ op' = [op EXCEPT ![t] = o]
          /\ \E p \in ({o} \cup {op_table_[u] : u \in Threads}) \ {Null} :
               stack' = [stack EXCEPT ![t] = <<Frame(p, 1, p # o)>>]
    BY Zenon DEF CallExecute
  <1>2. PICK p \in ({o} \cup {op_table_[u] : u \in Threads}) \ {Null} :
          stack' = [stack EXCEPT ![t] = <<Frame(p, 1, p # o)>>]
    BY <1>1
  <1>3. RowCount(o) = 0 /\ o # Null
    <2>1. o >= o
      BY DEF Ops
    <2> QED
      BY <1>1, <2>1, WordsAssumption
  <1>4. /\ Sorted(S) \in Seq(Triples) /\ Len(Sorted(S)) > 0
        /\ {Sorted(S)[i] : i \in 1 .. Len(Sorted(S))} = S
    BY SortedIs
  <1>5. /\ cas_rows_' \in [Ops -> Seq(Triples)] /\ cas_rows_'[o] = Sorted(S)
        /\ \A q \in Ops : q # o => cas_rows_'[q] = cas_rows_[q]
    BY <1>0, <1>1, <1>4 DEF Types
  <1>6. RowsGrow
    BY <1>3, <1>5 DEF RowsGrow
  <1>7. RowCount(o)' > 0 /\ {Row(o, i)' : i \in Rows(o)'} = S
    BY <1>4, <1>5 DEF RowCount, Row, Rows
  <1>8. Frame(p, 1, p # o) \in Frames /\ Frame(p, 1, p # o).at = "load"
    <2>1. p \in Ops \cup {Null} /\ 1 \in Int /\ (p # o) \in BOOLEAN
      BY <1>0 DEF Types
    <2> QED
      BY <2>1, FreshFrame DEF Fields
  <1>9. InProgress(o)
    BY <1>0, <1>3 DEF FreshRows
  <1>10. stack[t] = <<>> /\ mem' = mem /\ helper_' = helper_ /\ state_' = state_ /\ Begin(t)
    BY DEF CallExecute
  <1> QED
    BY <1>1, <1>2, <1>3, <1>5, <1>6, <1>7, <1>8, <1>9, <1>10

LEMMA BeginHeld ==
  ASSUME IInv, NEW t \in Threads, Begin(t)
  PROVE  /\ \A a \in Addrs : held'[t][a] = {Logical[a]}
         /\ \A u \in Threads : u # t => held'[u] = held[u]
  BY DEF IInv, HistoryType, Begin

LEMMA ExecuteKnows ==
  ASSUME RInv, NEW t \in Threads, CallExecute(t)
  PROVE  RInv'
  <1>0. IInv /\ Types /\ IInv' /\ Control
    BY CallExecuteKept DEF RInv, IInv, Control
  <1>1. PICK o \in Ops, S \in Requests, f \in Frames :
           /\ stack[t] = <<>> /\ mem' = mem /\ helper_' = helper_ /\ state_' = state_ /\ Begin(t)
           /\ RowCount(o) = 0 /\ o # Null /\ InProgress(o) /\ RowsGrow
           /\ RowCount(o)' > 0 /\ {Row(o, i)' : i \in Rows(o)'} = S
           /\ \A p \in Ops : p # o => cas_rows_'[p] = cas_rows_[p]
           /\ op' = [op EXCEPT ![t] = o]
           /\ stack' = [stack EXCEPT ![t] = <<f>>] /\ f.at = "load"
    BY <1>0, ExecuteIs
  <1>2. op'[t] = o /\ \A u \in Threads : u # t => op'[u] = op[u]
    BY <1>0, <1>1 DEF Types
  <1>3. op[t] = Null
    BY <1>0, <1>1 DEF Control, Shapes, Caller
  <1>4. Begun'
    <2> SUFFICES ASSUME NEW p \in Ops, RowCount(p)' > 0, InProgress(p)' PROVE \E u \in Threads : op'[u] = p
      BY DEF Begun
    <2>1. CASE p = o
      BY <1>2, <2>1
    <2>2. CASE p # o
      <3>1. RowCount(p) > 0 /\ InProgress(p)
        BY <1>1, <2>2 DEF RowCount, InProgress
      <3>2. PICK u \in Threads : op[u] = p
        BY <3>1 DEF RInv, Begun
      <3>3. u # t
        BY <1>3, <3>2, WordsAssumption
      <3> QED
        BY <1>2, <3>2, <3>3
    <2> QED
      BY <2>1, <2>2
  <1>5. Requested'
    <2> SUFFICES ASSUME NEW p \in Ops, RowCount(p)' > 0 PROVE {Row(p, i)' : i \in Rows(p)'} \in Requests
      BY DEF Requested
    <2>1. CASE p = o
      BY <1>1, <2>1
    <2>2. CASE p # o
      <3>1. RowCount(p)' = RowCount(p) /\ Rows(p)' = Rows(p) /\ \A i : Row(p, i)' = Row(p, i)
        BY <1>1, <2>2 DEF RowCount, Rows, Row
      <3> QED
        BY <3>1 DEF RInv, Requested
    <2> QED
      BY <2>1, <2>2
  <1> DEFINE s == <<f>>
  <1>6. s \in Seq(Frames) /\ \A k \in 1 .. Len(s) : s[k].at = "load"
    BY <1>1
  <1>7. \A a \in Addrs : Logical[a] \in held'[t][a]
    BY <1>0, <1>1, BeginHeld
  <1>8. \A u \in Threads : u # t => op'[u] = op[u] /\ held'[u] = held[u]
    BY <1>0, <1>1, <1>2, BeginHeld
  <1>9. RowCount(op'[t]) = 0
    BY <1>1, <1>2
  <1>10. stack' = [stack EXCEPT ![t] = s]
    BY <1>1
  <1> HIDE DEF s
  <1> QED
    BY <1>0, <1>1, <1>4, <1>5, <1>6, <1>7, <1>8, <1>9, <1>10, CallKnows

LEMMA ReadKnows ==
  ASSUME RInv, NEW t \in Threads, CallRead(t)
  PROVE  RInv'
  <1>0. IInv /\ Types /\ IInv' /\ Control
    BY CallReadKept DEF RInv, IInv, Control
  <1>1. PICK a \in ReadAddrs : stack' = [stack EXCEPT ![t] = <<ReadFrame(a)>>]
    BY DEF CallRead
  <1>2. /\ stack[t] = <<>> /\ mem' = mem /\ helper_' = helper_ /\ state_' = state_ /\ Begin(t)
        /\ cas_rows_' = cas_rows_ /\ op' = op
    BY DEF CallRead
  <1>3. ReadFrame(a) \in Frames /\ ReadFrame(a).at = "load"
    BY AddrsAssumption, FreshReadFrame DEF Fields
  <1>4. RowsGrow /\ Begun' /\ Requested'
    <2>1. /\ \A o : Rows(o)' = Rows(o) /\ RowCount(o)' = RowCount(o) /\ (InProgress(o)' <=> InProgress(o))
          /\ \A o, i : Row(o, i)' = Row(o, i)
      BY <1>2, RowsKept DEF InProgress
    <2>2. RowsGrow
      BY <1>0, <1>2 DEF RowsGrow, Types
    <2>3. Begun'
      BY <1>2, <2>1 DEF RInv, Begun
    <2>4. Requested'
      BY <2>1 DEF RInv, Requested
    <2> QED
      BY <2>2, <2>3, <2>4
  <1>5. op[t] = Null
    BY <1>0, <1>2 DEF Control, Shapes, Caller
  <1> DEFINE s == <<ReadFrame(a)>>
  <1>6. s \in Seq(Frames) /\ \A k \in 1 .. Len(s) : s[k].at = "load"
    BY <1>3
  <1>7. \A b \in Addrs : Logical[b] \in held'[t][b]
    BY <1>0, <1>2, BeginHeld
  <1>8. (\A u \in Threads : u # t => op'[u] = op[u] /\ held'[u] = held[u]) /\ op'[t] = Null
    BY <1>0, <1>2, <1>5, BeginHeld
  <1>9. stack' = [stack EXCEPT ![t] = s]
    BY <1>1
  <1> HIDE DEF s
  <1> QED
    BY <1>0, <1>2, <1>4, <1>6, <1>7, <1>8, <1>9, CallKnows

LEMMA ReturnKnows ==
  ASSUME RInv, NEW t \in Threads, Return(t)
  PROVE  RInv'
  <1>0. IInv /\ Types /\ IInv' /\ Control /\ HistoryType
    BY ReturnKept DEF RInv, IInv, Control
  <1>1. /\ At(t, "done") /\ stack' = [stack EXCEPT ![t] = <<>>] /\ op' = [op EXCEPT ![t] = Null]
        /\ held' = [held EXCEPT ![t] = Nothing]
        /\ mem' = mem /\ cas_rows_' = cas_rows_ /\ state_' = state_ /\ helper_' = helper_
    BY DEF Return
  <1>2. op'[t] = Null /\ \A u \in Threads : u # t => op'[u] = op[u] /\ held'[u] = held[u]
    BY <1>0, <1>1 DEF Types, HistoryType
  <1>3. op[t] # Null => ~InProgress(op[t])
    <2>1. PICK f : Here(t, f)
      BY <1>0, <1>1, HereIs DEF At
    <2>2. f.at = "done" /\ FrameOk(t, f) /\ f.op = op[t]
      BY <1>0, <1>1, <2>1, HereFacts DEF At, Here, Stands
    <2> QED
      BY <2>2 DEF FrameOk
  <1>4. RowsGrow /\ Requested'
    <2>1. \A o : Rows(o)' = Rows(o) /\ RowCount(o)' = RowCount(o) /\ \A i : Row(o, i)' = Row(o, i)
      BY <1>1, RowsKept
    <2>2. RowsGrow
      BY <1>0, <1>1 DEF RowsGrow, Types
    <2>3. Requested'
      BY <2>1 DEF RInv, Requested
    <2> QED
      BY <2>2, <2>3
  <1>5. Begun'
    <2> SUFFICES ASSUME NEW p \in Ops, RowCount(p)' > 0, InProgress(p)' PROVE \E u \in Threads : op'[u] = p
      BY DEF Begun
    <2>1. RowCount(p) > 0 /\ InProgress(p)
      BY <1>1 DEF RowCount, InProgress
    <2>2. PICK u \in Threads : op[u] = p
      BY <2>1 DEF RInv, Begun
    <2>3. u # t
      <3>1. p # Null
        BY WordsAssumption
      <3> QED
        BY <1>3, <2>1, <2>2, <3>1
    <2> QED
      BY <1>2, <2>2, <2>3
  <1> DEFINE s == <<>>
  <1>6. s \in Seq(Frames) /\ (\A k \in 1 .. Len(s) : s[k].at = "load") /\ ~(s # <<>>)
    OBVIOUS
  <1>7. stack' = [stack EXCEPT ![t] = s]
    BY <1>1
  <1> HIDE DEF s
  <1> QED
    BY <1>0, <1>1, <1>2, <1>4, <1>5, <1>6, <1>7, CallKnows

LEMMA StillKnows ==
  ASSUME RInv, IInv', UNCHANGED <<mem, cas_rows_, helper_, state_, op, stack, held>>
  PROVE  RInv'
  <1>1. /\ \A o : Rows(o)' = Rows(o) /\ RowCount(o)' = RowCount(o) /\ (InProgress(o)' <=> InProgress(o))
        /\ \A o, i : Row(o, i)' = Row(o, i)
        /\ \A f : Address(f)' = Address(f)
        /\ \A w : LogicalOf(w)' = LogicalOf(w)
    BY RowsKept DEF InProgress, LogicalOf, Row
  <1>2. Begun' /\ OneOwner' /\ Requested'
    BY <1>1 DEF RInv, Begun, OneOwner, Requested
  <1>3. Logical' = Logical
    BY <1>1 DEF Logical, LogicalOf, Row
  <1>4. LogicalHeld' /\ FailHeld'
    BY <1>1, <1>3 DEF RInv, LogicalHeld, FailHeld
  <1>5. \A u, f : SeenHeld(u, f)' <=> SeenHeld(u, f)
    BY <1>1 DEF SeenHeld
  <1>6. AllSeen'
    BY <1>5 DEF RInv, AllSeen
  <1> QED
    BY <1>2, <1>4, <1>6 DEF RInv

LEMMA RInit == Init => RInv
  <1> SUFFICES ASSUME Init PROVE RInv
    OBVIOUS
  <1>1. /\ \A o \in Ops : cas_rows_[o] = <<>>
        /\ \A t \in Threads : op[t] = Null /\ stack[t] = <<>>
    BY DEF Init
  <1>2. \A o \in Ops : RowCount(o) = 0
    BY <1>1 DEF RowCount
  <1>3. \A t \in Threads : \A k \in 1 .. Len(stack[t]) : FALSE
    BY <1>1
  <1> QED
    BY <1>1, <1>2, <1>3, InitOk DEF RInv, Begun, OneOwner, Requested, LogicalHeld, FailHeld, AllSeen

LEMMA ScanKnows ==
  ASSUME RInv, NEW t \in Threads, StartScan(t) \/ FinishScan(t)
  PROVE  RInv' /\ UNCHANGED <<mem, cas_rows_, helper_, state_, op, stack, held>>
  <1>1. UNCHANGED <<mem, cas_rows_, helper_, state_, op, stack, held>>
    BY DEF StartScan, FinishScan
  <1>2. IInv'
    BY StartScanKept, FinishScanKept DEF RInv
  <1> QED
    BY <1>1, <1>2, StillKnows

LEMMA RNextKept == RInv /\ [Next]_vars => RInv'
  <1> SUFFICES ASSUME RInv, [Next]_vars PROVE RInv'
    OBVIOUS
  <1>1. ASSUME NEW t \in Threads, CallExecute(t) PROVE RInv'
    BY <1>1, ExecuteKnows
  <1>2. ASSUME NEW t \in Threads, CallRead(t) PROVE RInv'
    BY <1>2, ReadKnows
  <1>3. ASSUME NEW t \in Threads, Step(t) PROVE RInv'
    BY <1>3, StepKnows
  <1>4. ASSUME NEW t \in Threads, Return(t) PROVE RInv'
    BY <1>4, ReturnKnows
  <1>5. ASSUME NEW t \in Threads, StartScan(t) \/ FinishScan(t) PROVE RInv'
    BY <1>5, ScanKnows
  <1>6. CASE UNCHANGED vars
    <2>1. UNCHANGED <<mem, cas_rows_, helper_, state_, op, stack, held>>
      BY <1>6 DEF vars
    <2>2. IInv'
      BY <1>6, NextKept DEF RInv
    <2> QED
      BY <2>1, <2>2, StillKnows
  <1> QED
    BY <1>1, <1>2, <1>3, <1>4, <1>5, <1>6 DEF Next

LEMMA CallsAreKnown == Spec => []RInv
  BY RInit, RNextKept, PTL DEF Spec

-----------------------------------------------------------------------------
(* execute and read are linearizable                                       *)

Pendings == [t \in Threads |-> Pending(t)]
Results == [t \in Threads |-> Outcome(t)]

\* What a call is, as AbstractMCAS sees it.
LEMMA PendingIs ==
  ASSUME RInv, NEW u \in Threads
  PROVE  /\ Pending(u) = Null <=> stack[u] = <<>>
         /\ op[u] # Null => /\ stack[u] # <<>> /\ op[u] \in Ops
                            /\ Pending(u).kind = "mcas"
                            /\ Pending(u).triples = {Row(op[u], i) : i \in Rows(op[u])}
         /\ op[u] = Null /\ stack[u] # <<>> =>
              /\ Pending(u).kind = "read" /\ Pending(u).address = Top(u).row /\ Top(u).row \in Addrs
  <1>0. IInv /\ Control
    BY DEF RInv, IInv
  <1>1. CASE stack[u] = <<>>
    BY <1>0, <1>1, Busy DEF Pending
  <1>2. CASE op[u] # Null
    <2>1. stack[u] # <<>> /\ op[u] \in Ops /\ RowCount(op[u]) > 0
      BY <1>0, <1>2, Busy
    <2> DEFINE S == {Row(op[u], i) : i \in Rows(op[u])}
    <2>2. S \in Requests
      BY <2>1 DEF RInv, Requested
    <2> HIDE DEF S
    <2>3. Pending(u) = [kind |-> "mcas", triples |-> S]
      BY <1>2, <2>1 DEF Pending, S
    <2>4. Pending(u) # Null
      BY <2>2, <2>3, WordsAssumption
    <2> QED
      BY <1>2, <2>1, <2>3, <2>4 DEF S
  <1>3. CASE op[u] = Null /\ stack[u] # <<>>
    <2>1. PICK f : Here(u, f)
      BY <1>0, <1>3, HereIs
    <2>2. f = Top(u) /\ f.op = Null /\ FrameShape(f)
      BY <1>0, <1>3, <2>1, HereFacts DEF Here, Stands
    <2>3. Top(u).row \in Addrs
      BY <2>2 DEF FrameShape
    <2>4. Pending(u) = [kind |-> "read", address |-> Top(u).row]
      BY <1>3 DEF Pending
    <2>5. Pending(u) # Null
      BY <2>3, <2>4, WordsAssumption
    <2> QED
      BY <1>3, <2>3, <2>4, <2>5
  <1> QED
    BY <1>1, <1>2, <1>3

\* A call that is left alone stays what it is.
LEMMA SameCall ==
  ASSUME NEW u \in Threads, op'[u] = op[u], stack'[u] = stack[u],
         op[u] # Null => /\ Rows(op[u])' = Rows(op[u]) /\ \A i : Row(op[u], i)' = Row(op[u], i)
                         /\ state_'[op[u]] = state_[op[u]]
  PROVE  Pending(u)' = Pending(u) /\ Outcome(u)' = Outcome(u)
  <1>1. Top(u)' = Top(u) /\ \A l : At(u, l)' <=> At(u, l)
    BY DEF Top, At
  <1>2. Pending(u)' = Pending(u)
    BY <1>1 DEF Pending
  <1>3. Outcome(u)' = Outcome(u)
    BY <1>1 DEF Outcome
  <1> QED
    BY <1>2, <1>3

LEMMA HeldStays ==
  ASSUME RInv, Ages, Logical' = Logical
  PROVE  held' = held
  <1>1. held \in [Threads -> [Addrs -> SUBSET Values]]
    BY DEF RInv, IInv, HistoryType
  <1> HIDE DEF Logical
  <1>2. ASSUME NEW u \in Threads
        PROVE  held[u] = IF stack[u] = <<>> THEN held[u]
                         ELSE [a \in Addrs |-> held[u][a] \cup {Logical'[a]}]
    <2>1. CASE stack[u] # <<>>
      <3>1. \A a \in Addrs : Logical'[a] \in held[u][a]
        BY <2>1 DEF RInv, LogicalHeld
      <3>2. \A a \in Addrs : held[u][a] = held[u][a] \cup {Logical'[a]}
        BY <3>1
      <3> QED
        BY <1>1, <2>1, <3>2
    <2> QED
      BY <2>1
  <1> QED
    BY <1>1, <1>2 DEF Ages

\* What a step does to the calls.
LEMMA StepCalls ==
  ASSUME RInv, NEW t \in Threads, Step(t)
  PROVE  /\ \A u \in Threads : Pending(u)' = Pending(u)
         /\ \A u \in Threads :
              (op[u] # Null => state_'[op[u]] = state_[op[u]]) /\ (u # t \/ op[u] # Null)
                => Outcome(u)' = Outcome(u)
         /\ op[t] = Null => /\ stack[t] # <<>> /\ Outcome(t) = Null
                            /\ \/ Outcome(t)' = Null
                               \/ Quiet /\ Outcome(t)' \in held[t][Top(t).row]
  <1>0. IInv /\ Control /\ Types /\ RInv' /\ Told(t) /\ Moves(t) /\ op' = op /\ cas_rows_' = cas_rows_
    BY StepKnows DEF RInv, IInv, Control, Good, Frozen
  <1>r. \A o : Rows(o)' = Rows(o) /\ \A i : Row(o, i)' = Row(o, i)
    BY <1>0, RowsKept
  <1>1. ASSUME NEW u \in Threads, u # t
        PROVE  /\ Pending(u)' = Pending(u)
               /\ (op[u] # Null => state_'[op[u]] = state_[op[u]]) => Outcome(u)' = Outcome(u)
    <2>1. stack'[u] = stack[u] /\ op'[u] = op[u]
      BY <1>0, <1>1, SameBusy
    <2>2. Top(u)' = Top(u) /\ Pending(u)' = Pending(u)
      BY <1>r, <2>1 DEF Pending, Top
    <2>3. (op[u] # Null => state_'[op[u]] = state_[op[u]]) => Outcome(u)' = Outcome(u)
      BY <1>r, <2>1, SameCall
    <2> QED
      BY <2>2, <2>3
  <1>2. CASE op[t] # Null
    <2>1. stack[t] # <<>> /\ stack'[t] # <<>> /\ op'[t] = op[t]
      BY <1>0, <1>2, Busy, SameBusy
    <2>2. Pending(t)' = Pending(t)
      BY <1>2, <1>r, <2>1 DEF Pending
    <2>3. state_'[op[t]] = state_[op[t]] => Outcome(t)' = Outcome(t)
      BY <1>2, <2>1 DEF Outcome
    <2> QED
      BY <1>1, <1>2, <2>2, <2>3
  <1>3. CASE op[t] = Null
    <2>1. PICK f, g : /\ Here(t, f) /\ Cut(t, Len(stack[t]), g)
                      /\ f.op = Null /\ g.op = Null /\ g.row = f.row /\ f.at # "done"
                      /\ g.at = "done" => Quiet /\ g.val \in held[t][f.row]
      BY <1>0, <1>3 DEF Told
    <2>2. /\ stack[t] # <<>> /\ Top(t) = f /\ ~At(t, "done")
      BY <2>1 DEF Here, Stands, At
    <2>3. stack'[t] # <<>> /\ Top(t)' = g /\ op'[t] = Null
      <3>1. Len(stack'[t]) = Len(stack[t]) /\ stack'[t][Len(stack[t])] = g /\ stack'[t] # <<>>
        BY <1>0, <2>1, CutOwn DEF Cut
      <3> QED
        BY <1>0, <1>3, <3>1 DEF Top
    <2>4. Pending(t)' = Pending(t)
      BY <1>3, <2>1, <2>2, <2>3 DEF Pending
    <2>5. Outcome(t) = Null
      BY <1>3, <2>2 DEF Outcome
    <2>6. Outcome(t)' = IF g.at = "done" THEN g.val ELSE Null
      BY <2>3 DEF Outcome, At
    <2> QED
      BY <1>1, <1>3, <2>1, <2>2, <2>4, <2>5, <2>6
  <1> QED
    BY <1>1, <1>2, <1>3

\* An operation that passes changes what its addresses stand for, and no other.
LEMMA PassLogical ==
  ASSUME RInv, NEW o \in Ops, Passing(o), cas_rows_' = cas_rows_
  PROVE  /\ \A i \in Rows(o) : /\ Row(o, i).address \in Addrs
                               /\ Logical[Row(o, i).address] = Row(o, i).expected
                               /\ Logical'[Row(o, i).address] = Row(o, i).new
         /\ \A a \in Addrs : (\A i \in Rows(o) : Row(o, i).address # a) => Logical'[a] = Logical[a]
  <1>0. IInv /\ Control /\ Types /\ RowsSorted /\ AssociatedStays /\ HelperRows /\ MemRows
    BY DEF RInv, IInv, Control
  <1>1. /\ InProgress(o) /\ mem' = mem /\ helper_' = helper_ /\ state_'[o] = "PASS"
        /\ \A p \in Ops : p # o => state_'[p] = state_[p]
        /\ \A i \in Rows(o) : Settled(o, i)
    BY <1>0 DEF Passing, Decides, Types
  <1>r. \A p, i : Row(p, i)' = Row(p, i)
    BY RowsKept
  <1>2. ASSUME NEW i \in Rows(o)
        PROVE  /\ Row(o, i).address \in Addrs
               /\ Logical[Row(o, i).address] = Row(o, i).expected
               /\ Logical'[Row(o, i).address] = Row(o, i).new
    <2>1. Row(o, i).address \in Addrs /\ i \in 1 .. MaxRows
      BY <1>0, RowTyped
    <2> DEFINE h == helper_[o][i]
    <2>2. h # Null /\ h # FAIL_CONST
      BY <1>1 DEF Settled
    <2>3. mem[Row(o, i).address] = h
      BY <1>0, <1>1, <2>2 DEF AssociatedStays
    <2>4. h \in Helpers
      <3>1. helper_[o][i] \in Helpers \cup {Null, FAIL_CONST}
        BY <1>0, <2>1 DEF Types
      <3> QED
        BY <2>2, <3>1
    <2>5. h.op = o /\ h.row = i
      BY <1>0, <2>1, <2>4 DEF HelperRows
    <2> HIDE DEF h
    <2>6. IsDescriptor(h)
      BY <2>4, WordIs DEF Words
    <2>7. helper_[h.op][h.row] = h
      BY <2>5 DEF h
    <2>8. LogicalOf(h) = Row(o, i).expected
      BY <1>1, <2>5, <2>6 DEF LogicalOf, InProgress
    <2>9. Logical'[Row(o, i).address] = Row(o, i).new
      <3> SUFFICES ASSUME NEW v, v = h PROVE Logical'[Row(o, i).address] = Row(o, i).new
        OBVIOUS
      <3>1. LogicalOf(v)' = Row(v.op, v.row).new
        BY <1>1, <1>r, <2>5, <2>6, <2>7 DEF LogicalOf, IsDescriptor
      <3>2. Logical'[Row(o, i).address] = LogicalOf(v)'
        BY <1>1, <2>1, <2>3 DEF Logical, LogicalOf
      <3> QED
        BY <2>5, <3>1, <3>2
    <2> QED
      BY <2>1, <2>3, <2>8, <2>9 DEF Logical
  <1>3. ASSUME NEW a \in Addrs, \A i \in Rows(o) : Row(o, i).address # a
        PROVE  Logical'[a] = Logical[a]
    <2> DEFINE w == mem[a]
    <2>1. w \in Values \/ w \in Helpers
      BY <1>0 DEF Types, Words
    <2>2. LogicalOf(w)' = LogicalOf(w)
      <3> HIDE DEF w
      <3> SUFFICES ASSUME NEW v, v = w PROVE LogicalOf(v)' = LogicalOf(v)
        BY <1>1 DEF w, LogicalOf
      <3>1. CASE v \in Values
        BY <3>1, LogicalOfValue
      <3>2. CASE v \in Helpers
        <4>1. v.op \in Ops /\ v.row \in Rows(v.op) /\ Row(v.op, v.row).address = a
          BY <1>0, <3>2 DEF MemRows, WordAt, Helpers, w
        <4>2. state_'[v.op] = state_[v.op]
          BY <1>1, <1>3, <4>1
        <4> QED
          BY <1>1, <1>r, <4>2 DEF LogicalOf
      <3> QED
        BY <2>1, <3>1, <3>2
    <2>3. Logical'[a] = LogicalOf(w)'
      BY <1>1 DEF Logical, LogicalOf
    <2> QED
      BY <2>2, <2>3 DEF Logical
  <1> QED
    BY <1>2, <1>3

LEMMA OneRowPerAddress ==
  ASSUME Types, RowsSorted, NEW o \in Ops, NEW i \in Rows(o), NEW j \in Rows(o),
         Row(o, i).address = Row(o, j).address
  PROVE  i = j
  <1>1. i \in Nat /\ j \in Nat /\ Row(o, i).address \in Int
    BY RowTyped, AddrsAssumption
  <1>2. ~(i < j) /\ ~(j < i)
    BY <1>1 DEF RowsSorted
  <1> QED
    BY <1>1, <1>2

\* A step that lets an operation pass is the moment execute takes effect.
LEMMA PassSucceeds ==
  ASSUME RInv, NEW t \in Threads, Step(t), NEW o \in Ops, Passing(o)
  PROVE  \E u \in Threads : Abstract!Succeed(u)
  <1>0. IInv /\ Control /\ Types /\ RowsSorted /\ RInv' /\ Ages /\ op' = op /\ cas_rows_' = cas_rows_
    BY StepKnows DEF RInv, IInv, Control, Frozen
  <1>1. /\ InProgress(o) /\ state_'[o] = "PASS" /\ RowCount(o) > 0
        /\ \A p \in Ops : p # o => state_'[p] = state_[p]
    BY <1>0 DEF Passing, Decides, Types
  <1>2. PICK u \in Threads : op[u] = o
    BY <1>1 DEF RInv, Begun
  <1>3. o # Null
    BY WordsAssumption
  <1> DEFINE S == {Row(o, i) : i \in Rows(o)}
  <1>4. /\ Pending(u) # Null /\ Pending(u).kind = "mcas" /\ Pending(u).triples = S
    BY <1>2, <1>3, PendingIs
  <1>5. Outcome(u) = Null /\ Outcome(u)' = "pass"
    <2>1. stack[u] # <<>> /\ stack'[u] # <<>> /\ op'[u] = o
      BY <1>0, <1>2, <1>3, <1>4, PendingIs, SameBusy, StepKnows DEF Good
    <2> QED
      BY <1>1, <1>2, <1>3, <2>1 DEF Outcome, InProgress
  <1>6. ASSUME NEW v \in Threads, v # u PROVE Outcome(v)' = Outcome(v)
    <2>1. op[v] # o
      BY <1>2, <1>3, <1>6 DEF RInv, OneOwner
    <2>2. op[v] # Null => state_'[op[v]] = state_[op[v]]
      BY <1>0, <1>1, <2>1 DEF Types
    <2>3. CASE v = t /\ op[t] = Null
      <3>1. ~Quiet
        BY <1>1 DEF Quiet, InProgress
      <3> QED
        BY <2>3, <3>1, StepCalls
    <2>4. CASE v # t \/ op[v] # Null
      BY <2>2, <2>4, StepCalls
    <2> QED
      BY <2>3, <2>4
  <1>7. Pendings' = Pendings
    BY StepCalls DEF Pendings
  <1>8. Results' = [Results EXCEPT ![u] = "pass"]
    BY <1>5, <1>6 DEF Results
  <1>9. \A r \in S : Logical[r.address] = r.expected
    BY <1>0, PassLogical
  <1>10. Logical' = [a \in Addrs |-> IF \E r \in S : r.address = a
                                     THEN (CHOOSE r \in S : r.address = a).new ELSE Logical[a]]
    <2>1. ASSUME NEW a \in Addrs, NEW r \in S, r.address = a
          PROVE  Logical'[a] = (CHOOSE q \in S : q.address = a).new
      <3>1. PICK i \in Rows(o) : r = Row(o, i)
        OBVIOUS
      <3> DEFINE q == CHOOSE q \in S : q.address = a
      <3>2. q \in S /\ q.address = a
        BY <2>1
      <3> HIDE DEF q
      <3>3. PICK j \in Rows(o) : q = Row(o, j)
        BY <3>2
      <3>4. Logical'[a] = q.new
        BY <1>0, <3>2, <3>3, PassLogical
      <3> QED
        BY <3>4 DEF q
    <2>2. ASSUME NEW a \in Addrs, ~\E r \in S : r.address = a
          PROVE  Logical'[a] = Logical[a]
      BY <1>0, <2>2, PassLogical
    <2>3. Logical' = [a \in Addrs |-> Logical'[a]]
      BY DEF Logical
    <2> HIDE DEF S, Logical
    <2> QED
      BY <2>1, <2>2, <2>3
  <1>11. held' = [v \in Threads |-> IF Pendings[v] = Null THEN held[v]
                                    ELSE [a \in Addrs |-> held[v][a] \cup {Logical'[a]}]]
    <2>1. \A v \in Threads : Pendings[v] = Null <=> stack[v] = <<>>
      BY PendingIs DEF Pendings
    <2> HIDE DEF Logical
    <2> QED
      BY <1>0, <2>1 DEF Ages
  <1>12. Pendings[u] = Pending(u) /\ Results[u] = Outcome(u)
    BY DEF Pendings, Results
  <1> HIDE DEF S, Logical
  <1> QED
    BY <1>4, <1>5, <1>7, <1>8, <1>9, <1>10, <1>11, <1>12
    DEF Abstract!Succeed, Abstract!Undecided, Abstract!NewValue, Pendings, Results

\* A step that lets an operation fail: some address had another value.
LEMMA FailMisses ==
  ASSUME RInv, NEW t \in Threads, Step(t), NEW o \in Ops, Failing(o), Logical' = Logical
  PROVE  \E u \in Threads : Abstract!Miss(u)
  <1>0. IInv /\ Control /\ Types /\ RowsSorted /\ RInv' /\ Ages /\ op' = op /\ cas_rows_' = cas_rows_
    BY StepKnows DEF RInv, IInv, Control, Frozen
  <1>1. /\ InProgress(o) /\ state_'[o] = "FAIL"
        /\ \A p \in Ops : p # o => state_'[p] = state_[p]
    BY <1>0 DEF Failing, Decides, Types
  <1>2. PICK i \in Rows(o) : helper_[o][i] = FAIL_CONST
    BY DEF Failing
  <1>n. RowCount(o) > 0
    <2>1. RowCount(o) \in Nat /\ i \in 1 .. RowCount(o)
      BY <1>0, RowTyped DEF Rows
    <2> QED
      BY <2>1
  <1>3. PICK u \in Threads : op[u] = o
    BY <1>1, <1>n DEF RInv, Begun
  <1>4. o # Null
    BY WordsAssumption
  <1> DEFINE S == {Row(o, j) : j \in Rows(o)}
  <1>5. Pending(u) # Null /\ Pending(u).kind = "mcas" /\ Pending(u).triples = S
    BY <1>3, <1>4, PendingIs
  <1>6. Outcome(u) = Null /\ Outcome(u)' = "fail"
    <2>1. stack[u] # <<>> /\ stack'[u] # <<>> /\ op'[u] = o
      BY <1>0, <1>3, <1>4, <1>5, PendingIs, SameBusy, StepKnows DEF Good
    <2> QED
      BY <1>1, <1>3, <1>4, <2>1 DEF Outcome, InProgress
  <1>7. ASSUME NEW v \in Threads, v # u PROVE Outcome(v)' = Outcome(v)
    <2>1. op[v] # o
      BY <1>3, <1>4, <1>7 DEF RInv, OneOwner
    <2>2. op[v] # Null => state_'[op[v]] = state_[op[v]]
      BY <1>0, <1>1, <2>1 DEF Types
    <2>3. CASE v = t /\ op[t] = Null
      <3>1. ~Quiet
        BY <1>1 DEF Quiet, InProgress
      <3> QED
        BY <2>3, <3>1, StepCalls
    <2>4. CASE v # t \/ op[v] # Null
      BY <2>2, <2>4, StepCalls
    <2> QED
      BY <2>3, <2>4
  <1>8. Pendings' = Pendings
    BY StepCalls DEF Pendings
  <1>9. Results' = [Results EXCEPT ![u] = "fail"]
    BY <1>6, <1>7 DEF Results
  <1>10. \E r \in S : \E v \in held[u][r.address] : v # r.expected
    BY <1>1, <1>2, <1>3, <1>4 DEF RInv, FailHeld
  <1>11. held' = held
    BY <1>0, HeldStays
  <1>12. Pendings[u] = Pending(u) /\ Results[u] = Outcome(u)
    BY DEF Pendings, Results
  <1> HIDE DEF S, Logical
  <1> QED
    BY <1>5, <1>6, <1>8, <1>9, <1>10, <1>11, <1>12
    DEF Abstract!Miss, Abstract!Undecided, Pendings, Results

\* Any other step: a reader has its answer, or nothing is to be seen.
LEMMA StepLooks ==
  ASSUME RInv, NEW t \in Threads, Step(t), Logical' = Logical, state_' = state_
  PROVE  Abstract!Look(t) \/ UNCHANGED Abstract!vars
  <1>0. held' = held
    BY StepKnows, HeldStays
  <1>1. Pendings' = Pendings
    BY StepCalls DEF Pendings
  <1>2. \A u \in Threads : u # t \/ op[u] # Null => Outcome(u)' = Outcome(u)
    BY StepCalls
  <1> HIDE DEF Logical
  <1>3. CASE Outcome(t)' = Outcome(t)
    <2>1. Results' = Results
      BY <1>2, <1>3 DEF Results
    <2> QED
      BY <1>0, <1>1, <2>1 DEF Abstract!vars, Pendings, Results
  <1>4. CASE Outcome(t)' # Outcome(t)
    <2>1. op[t] = Null
      BY <1>2, <1>4
    <2>2. stack[t] # <<>> /\ Outcome(t) = Null /\ Outcome(t)' \in held[t][Top(t).row]
      BY <1>4, <2>1, StepCalls
    <2>3. Pending(t) # Null /\ Pending(t).kind = "read" /\ Pending(t).address = Top(t).row
      BY <2>1, <2>2, PendingIs
    <2>4. Pendings[t] = Pending(t) /\ Results[t] = Outcome(t)
      BY DEF Pendings, Results
    <2>5. Results' = [Results EXCEPT ![t] = Outcome(t)']
      BY <1>2 DEF Results
    <2> QED
      BY <1>0, <1>1, <2>2, <2>3, <2>4, <2>5 DEF Abstract!Look, Abstract!Undecided, Pendings, Results
  <1> QED
    BY <1>3, <1>4

LEMMA StepMaps ==
  ASSUME RInv, NEW t \in Threads, Step(t)
  PROVE  (\E u \in Threads : Abstract!Succeed(u) \/ Abstract!Miss(u) \/ Abstract!Look(u))
         \/ UNCHANGED Abstract!vars
  <1>1. IInv /\ Effect(t) /\ cas_rows_' = cas_rows_
    BY StepKnows DEF RInv, Good, Frozen
  <1>2. \/ Logical' = Logical /\ state_' = state_
        \/ Logical' = Logical /\ \E o \in Ops : Failing(o)
        \/ \E o \in Ops : Passing(o)
    BY <1>1, LogicalChanges
  <1> QED
    BY <1>2, StepLooks, FailMisses, PassSucceeds

LEMMA OthersSame ==
  ASSUME IInv, NEW t \in Threads,
         \A u \in Threads : u # t => op'[u] = op[u] /\ stack'[u] = stack[u],
         state_' = state_,
         \A o \in Ops : RowCount(o) > 0 => Rows(o)' = Rows(o) /\ \A i : Row(o, i)' = Row(o, i)
  PROVE  /\ Pendings' = [Pendings EXCEPT ![t] = Pending(t)']
         /\ Results' = [Results EXCEPT ![t] = Outcome(t)']
  <1>1. ASSUME NEW u \in Threads, u # t PROVE Pending(u)' = Pending(u) /\ Outcome(u)' = Outcome(u)
    <2>1. op[u] # Null => RowCount(op[u]) > 0 /\ op[u] \in Ops
      BY Busy
    <2>2. op'[u] = op[u] /\ stack'[u] = stack[u]
      BY <1>1
    <2>3. op[u] # Null => /\ Rows(op[u])' = Rows(op[u]) /\ \A i : Row(op[u], i)' = Row(op[u], i)
                          /\ state_'[op[u]] = state_[op[u]]
      <3> SUFFICES ASSUME NEW o \in Ops, RowCount(o) > 0
                   PROVE  Rows(o)' = Rows(o) /\ (\A i : Row(o, i)' = Row(o, i)) /\ state_'[o] = state_[o]
        BY <2>1, <2>2 DEF Rows, RowCount, Row
      <3> QED
        OBVIOUS
    <2> QED
      BY <2>2, <2>3, SameCall
  <1>2. Pendings' = [Pendings EXCEPT ![t] = Pending(t)']
    BY <1>1 DEF Pendings
  <1>3. Results' = [Results EXCEPT ![t] = Outcome(t)']
    BY <1>1 DEF Results
  <1> QED
    BY <1>2, <1>3

LEMMA ExecuteCalls ==
  ASSUME RInv, NEW t \in Threads, CallExecute(t)
  PROVE  \E S \in Requests : Abstract!Call(t, Abstract!MCASCall(S))
  <1>0. IInv /\ Types
    BY DEF RInv, IInv, Control
  <1>1. PICK o \in Ops, S \in Requests, f \in Frames :
           /\ stack[t] = <<>> /\ mem' = mem /\ helper_' = helper_ /\ state_' = state_ /\ Begin(t)
           /\ RowCount(o) = 0 /\ o # Null /\ InProgress(o) /\ RowsGrow
           /\ RowCount(o)' > 0 /\ {Row(o, i)' : i \in Rows(o)'} = S
           /\ \A p \in Ops : p # o => cas_rows_'[p] = cas_rows_[p]
           /\ op' = [op EXCEPT ![t] = o]
           /\ stack' = [stack EXCEPT ![t] = <<f>>] /\ f.at = "load"
    BY <1>0, ExecuteIs
  <1>2. /\ op'[t] = o /\ stack'[t] = <<f>> /\ stack'[t] # <<>>
        /\ \A u \in Threads : u # t => op'[u] = op[u] /\ stack'[u] = stack[u]
    BY <1>0, <1>1 DEF Types
  <1>3. \A p \in Ops : RowCount(p) > 0 => Rows(p)' = Rows(p) /\ \A i : Row(p, i)' = Row(p, i)
    BY <1>1 DEF Rows, RowCount, Row
  <1>4. Pending(t)' = [kind |-> "mcas", triples |-> S] /\ Outcome(t)' = Null
    <2>1. Pending(t)' = [kind |-> "mcas", triples |-> {Row(o, i)' : i \in Rows(o)'}]
      <3>1. Pending(t)' = [kind |-> "mcas", triples |-> {Row(op[t], i) : i \in Rows(op[t])}']
        BY <1>1, <1>2 DEF Pending
      <3>2. {Row(op[t], i) : i \in Rows(op[t])}' = {Row(o, i)' : i \in Rows(o)'}
        BY <1>2 DEF Row, Rows, RowCount
      <3> QED
        BY <3>1, <3>2
    <2>2. Outcome(t)' = Null
      BY <1>1, <1>2 DEF Outcome, InProgress
    <2> QED
      BY <1>1, <2>1, <2>2
  <1>5. Pending(t) = Null /\ Outcome(t) = Null
    BY <1>1 DEF Pending, Outcome
  <1>6. Pendings' = [Pendings EXCEPT ![t] = Pending(t)'] /\ Results' = [Results EXCEPT ![t] = Outcome(t)']
    BY <1>0, <1>1, <1>2, <1>3, OthersSame
  <1>7. Results' = Results /\ Pendings[t] = Null
    BY <1>4, <1>5, <1>6 DEF Results, Pendings
  <1>8. Logical' = Logical
    BY <1>0, <1>1, GrowLogical
  <1>9. held' = [held EXCEPT ![t] = [a \in Addrs |-> {Logical[a]}]]
    BY <1>1 DEF Begin
  <1> HIDE DEF Logical
  <1> QED
    BY <1>4, <1>6, <1>7, <1>8, <1>9 DEF Abstract!Call, Abstract!MCASCall, Pendings, Results

LEMMA ReadCalls ==
  ASSUME RInv, NEW t \in Threads, CallRead(t)
  PROVE  \E a \in ReadAddrs : Abstract!Call(t, Abstract!ReadCall(a))
  <1>0. IInv /\ Types /\ Control
    BY DEF RInv, IInv, Control
  <1>1. PICK a \in ReadAddrs : stack' = [stack EXCEPT ![t] = <<ReadFrame(a)>>]
    BY DEF CallRead
  <1>2. /\ stack[t] = <<>> /\ mem' = mem /\ helper_' = helper_ /\ state_' = state_ /\ Begin(t)
        /\ cas_rows_' = cas_rows_ /\ op' = op
    BY DEF CallRead
  <1>3. op[t] = Null
    BY <1>0, <1>2 DEF Control, Shapes, Caller
  <1>4. ReadFrame(a).row = a /\ ReadFrame(a).at = "load"
    BY AddrsAssumption, FreshReadFrame DEF Fields
  <1>5. /\ stack'[t] = <<ReadFrame(a)>> /\ stack'[t] # <<>> /\ Top(t)' = ReadFrame(a)
        /\ \A u \in Threads : u # t => op'[u] = op[u] /\ stack'[u] = stack[u]
    BY <1>0, <1>1, <1>2 DEF Types, Top
  <1>6. \A p \in Ops : RowCount(p) > 0 => Rows(p)' = Rows(p) /\ \A i : Row(p, i)' = Row(p, i)
    BY <1>2, RowsKept
  <1>7. Pending(t)' = [kind |-> "read", address |-> a] /\ Outcome(t)' = Null
    BY <1>2, <1>3, <1>4, <1>5 DEF Pending, Outcome, At
  <1>8. Pending(t) = Null /\ Outcome(t) = Null
    BY <1>2 DEF Pending, Outcome
  <1>9. Pendings' = [Pendings EXCEPT ![t] = Pending(t)'] /\ Results' = [Results EXCEPT ![t] = Outcome(t)']
    BY <1>0, <1>2, <1>5, <1>6, OthersSame
  <1>10. Results' = Results /\ Pendings[t] = Null
    BY <1>7, <1>8, <1>9 DEF Results, Pendings
  <1>11. Logical' = Logical
    <2>1. RowsGrow
      BY <1>0, <1>2 DEF RowsGrow, Types
    <2> QED
      BY <1>0, <1>2, <2>1, GrowLogical
  <1>12. held' = [held EXCEPT ![t] = [b \in Addrs |-> {Logical[b]}]]
    BY <1>2 DEF Begin
  <1> HIDE DEF Logical
  <1> QED
    BY <1>7, <1>9, <1>10, <1>11, <1>12 DEF Abstract!Call, Abstract!ReadCall, Pendings, Results

LEMMA ReturnEnds ==
  ASSUME RInv, NEW t \in Threads, Return(t)
  PROVE  Abstract!Return(t)
  <1>0. IInv /\ Types /\ Control
    BY DEF RInv, IInv, Control
  <1>1. /\ At(t, "done") /\ stack' = [stack EXCEPT ![t] = <<>>] /\ op' = [op EXCEPT ![t] = Null]
        /\ held' = [held EXCEPT ![t] = Nothing]
        /\ mem' = mem /\ cas_rows_' = cas_rows_ /\ state_' = state_ /\ helper_' = helper_
    BY DEF Return
  <1>2. /\ stack'[t] = <<>> /\ stack[t] # <<>>
        /\ \A u \in Threads : u # t => op'[u] = op[u] /\ stack'[u] = stack[u]
    BY <1>0, <1>1 DEF Types, At
  <1>3. PICK f : Here(t, f)
    BY <1>0, <1>2, HereIs
  <1>4. /\ f.at = "done" /\ FrameOk(t, f) /\ f.op = op[t] /\ f = Top(t)
        /\ Len(stack[t]) \in 1 .. Len(stack[t]) /\ f = stack[t][Len(stack[t])]
    BY <1>0, <1>1, <1>3, HereFacts DEF At, Here, Stands
  <1>5. Pending(t) # Null
    BY <1>2, PendingIs
  <1>6. Outcome(t) # Null
    <2>1. CASE op[t] # Null
      <3>1. ~InProgress(op[t]) /\ op[t] \in Ops
        BY <1>0, <1>4, <2>1 DEF FrameOk, Types
      <3>2. state_[op[t]] = "PASS" \/ state_[op[t]] = "FAIL"
        BY <1>0, <3>1 DEF Types, InProgress
      <3>3. "pass" # Null /\ "fail" # Null
        BY WordsAssumption
      <3> QED
        BY <1>2, <2>1, <3>2, <3>3 DEF Outcome
    <2>2. CASE op[t] = Null
      <3>1. SeenHeld(t, f)
        BY <1>4 DEF RInv, AllSeen
      <3>2. f.val \in Values
        BY <1>4, <2>2, <3>1 DEF SeenHeld
      <3> QED
        BY <1>1, <1>2, <1>4, <2>2, <3>2, WordsAssumption DEF Outcome
    <2> QED
      BY <2>1, <2>2
  <1>7. \A p \in Ops : RowCount(p) > 0 => Rows(p)' = Rows(p) /\ \A i : Row(p, i)' = Row(p, i)
    BY <1>1, RowsKept
  <1>8. Pendings' = [Pendings EXCEPT ![t] = Null] /\ Results' = [Results EXCEPT ![t] = Null]
    <2>1. Pending(t)' = Null /\ Outcome(t)' = Null
      BY <1>2 DEF Pending, Outcome
    <2> QED
      BY <1>0, <1>1, <1>2, <1>7, <2>1, OthersSame
  <1>9. Pendings[t] = Pending(t) /\ Results[t] = Outcome(t)
    BY DEF Pendings, Results
  <1>10. Logical' = Logical
    <2>1. RowsGrow
      BY <1>0, <1>1 DEF RowsGrow, Types
    <2> QED
      BY <1>0, <1>1, <2>1, GrowLogical
  <1> HIDE DEF Logical
  <1> QED
    BY <1>1, <1>5, <1>6, <1>8, <1>9, <1>10 DEF Abstract!Return, Abstract!Nothing, Nothing, Pendings, Results

LEMMA NothingCalled ==
  ASSUME RInv, UNCHANGED <<mem, cas_rows_, helper_, state_, op, stack, held>>
  PROVE  UNCHANGED Abstract!vars
  <1>1. \A o, i : Row(o, i)' = Row(o, i) /\ Rows(o)' = Rows(o)
    BY RowsKept
  <1>2. \A u \in Threads : Pending(u)' = Pending(u) /\ Outcome(u)' = Outcome(u)
    BY <1>1, SameCall
  <1>3. Pendings' = Pendings /\ Results' = Results
    BY <1>2 DEF Pendings, Results
  <1>4. Logical' = Logical
    BY <1>1 DEF Logical, LogicalOf
  <1> HIDE DEF Logical
  <1> QED
    BY <1>3, <1>4 DEF Abstract!vars, Pendings, Results

LEMMA InitMaps == Init => Abstract!Init
  <1> SUFFICES ASSUME Init PROVE Abstract!Init
    OBVIOUS
  <1>1. mem \in [Addrs -> Values] /\ held = [t \in Threads |-> Nothing]
        /\ \A t \in Threads : stack[t] = <<>>
    BY DEF Init
  <1>2. \A t \in Threads : Pending(t) = Null /\ Outcome(t) = Null
    BY <1>1 DEF Pending, Outcome
  <1>3. \A a \in Addrs : LogicalOf(mem[a]) \in Values
    BY <1>1, LogicalOfValue
  <1>4. Logical \in [Addrs -> Values]
    BY <1>3 DEF Logical
  <1> HIDE DEF Logical
  <1> QED
    BY <1>1, <1>2, <1>4 DEF Abstract!Init, Abstract!Nothing, Nothing

LEMMA NextMaps == RInv /\ [Next]_vars => [Abstract!Next]_(Abstract!vars)
  <1> SUFFICES ASSUME RInv, [Next]_vars PROVE Abstract!Next \/ UNCHANGED Abstract!vars
    OBVIOUS
  <1>1. ASSUME NEW t \in Threads, CallExecute(t) PROVE Abstract!Next
    BY <1>1, ExecuteCalls DEF Abstract!Next
  <1>2. ASSUME NEW t \in Threads, CallRead(t) PROVE Abstract!Next
    BY <1>2, ReadCalls DEF Abstract!Next
  <1>3. ASSUME NEW t \in Threads, Step(t) PROVE Abstract!Next \/ UNCHANGED Abstract!vars
    BY <1>3, StepMaps DEF Abstract!Next
  <1>4. ASSUME NEW t \in Threads, Return(t) PROVE Abstract!Next
    BY <1>4, ReturnEnds DEF Abstract!Next
  <1>5. ASSUME NEW t \in Threads, StartScan(t) \/ FinishScan(t) PROVE UNCHANGED Abstract!vars
    BY <1>5, ScanKnows, NothingCalled
  <1>6. CASE UNCHANGED vars
    BY <1>6, NothingCalled DEF vars
  <1> QED
    BY <1>1, <1>2, <1>3, <1>4, <1>5, <1>6 DEF Next

\* execute changes all its addresses at one moment of the call, or none because
\* one of them held something else; read returns a value its address stood for
\* during the call.  So MCAS implements AbstractMCAS (RefinesMCAS).
THEOREM ExecuteIsLinearizable == Spec => RefinesMCAS
  BY InitMaps, NextMaps, CallsAreKnown, PTL DEF Spec, RefinesMCAS, Abstract!Spec

-----------------------------------------------------------------------------
(* What is deleted is not used                                             *)

\* An activation at one of these labels uses the operation of val.
Using == {"on_watch", "restore", "value", "helping", "uninstall"}

Spared(f) == f.op \notin deleted /\ (f.at \in Using => f.val.op \notin deleted)
AllSpared == \A t \in Threads : \A k \in 1 .. Len(stack[t]) : \A f \in {stack[t][k]} : Spared(f)

\* At the bottom is the operation of the thread, or one whose watch it holds.
Bottoms == \A t \in Threads : \A f \in {stack[t][1]} : stack[t] # <<>> => f.op = op[t] \/ f.wf

OwnSpared ==
  \A t \in Threads : op[t] # Null =>
    op[t] \notin deleted /\ \A u \in Threads : op[t] \notin retired[u]

\* Only an operation under way is announced.
TableOwn(t) ==
  op_table_[t] # Null =>
    /\ op_table_[t] = op[t] /\ stack[t] # <<>>
    /\ \A f \in {stack[t][1]} : f.at \in {"announced", "withdraw"}
TablesOwn == \A t \in Threads : TableOwn(t)

ScansIdle ==
  \A t \in Threads :
    /\ unchecked[t] # {} => stack[t] = <<>>
    /\ scan[t] # Null => scan[t] \in unchecked[t]

\* A Helper that is not the one of its row is still in the hands of the thread
\* that placed it.
InHand(h) ==
  /\ stack[h.by] # <<>> /\ Top(h.by).at \in {"associate", "undo"}
  /\ Top(h.by).op = h.op /\ Top(h.by).row = h.row
LateHelpers == \A a \in Addrs : \A h \in Helpers : mem[a] = h /\ Held(h) # h => InHand(h)

ScansUnwatched == \A t \in Threads : scan[t] # Null => ~HazardWatched(scan[t])

FInv == RInv /\ AllSpared /\ Bottoms /\ OwnSpared /\ TablesOwn /\ ScansIdle /\ LateHelpers
        /\ ScansUnwatched

LEMMA Three ==
  ASSUME Cardinality(Threads) <= 2, NEW t \in Threads, NEW u \in Threads, NEW w \in Threads,
         t # u, t # w, u # w
  PROVE  FALSE
  <1>1. IsFiniteSet(Threads)
    BY ThreadsAssumption
  <1>2. Cardinality({t}) = 1 /\ IsFiniteSet({t})
    BY FS_Singleton
  <1>3. Cardinality({t} \cup {u}) = 2 /\ IsFiniteSet({t} \cup {u})
    BY <1>2, FS_AddElement
  <1>4. Cardinality(({t} \cup {u}) \cup {w}) = 3
    BY <1>3, FS_AddElement
  <1>5. Cardinality(({t} \cup {u}) \cup {w}) <= Cardinality(Threads)
    BY <1>1, FS_Subset
  <1>6. Cardinality(Threads) \in Nat
    BY <1>1, FS_CardinalityType
  <1> QED
    BY <1>4, <1>5, <1>6

\* What thread t makes of its stack and of its entry in the table.
StackSpared(t) == \A k \in 1 .. Len(stack'[t]) : \A g \in {stack'[t][k]} : Spared(g)
BottomKept(t) ==
  /\ stack[t] # <<>> /\ stack'[t] # <<>>
  /\ \A f \in {stack[t][1]} : \A g \in {stack'[t][1]} :
       \/ g.op = f.op /\ g.wf = f.wf
       \/ g.op = op[t] /\ ~g.wf
TopWatches(t) ==
  \A f \in {Top(t)} : \A g \in {Top(t)'} :
    g.at \in {"on_watch", "restore"} =>
      /\ g.val = f.val /\ f.val \in Helpers
      /\ f.at = "on_watch" \/ (f.at = "watch" /\ mem[Address(f)] = f.val /\ Address(f) \in Addrs)
Careful(t) ==
  /\ StackSpared(t) /\ BottomKept(t) /\ TopWatches(t) /\ TableOwn(t)'
  /\ \A u \in Threads : u # t => op_table_'[u] = op_table_[u]

LEMMA FInvIs ==
  ASSUME FInv
  PROVE  /\ IInv /\ Control /\ Types /\ AllSpared /\ Bottoms /\ OwnSpared /\ TablesOwn /\ ScansIdle
         /\ LateHelpers /\ ScansUnwatched /\ OneOwner /\ Retirement /\ RInv
  BY DEF FInv, RInv, IInv, Control

\* Of a stack: what an activation uses is there.
LEMMA TopSpared ==
  ASSUME FInv, NEW t \in Threads, NEW f, Here(t, f)
  PROVE  Spared(f) /\ f.op \notin deleted
  <1>1. IInv /\ AllSpared
    BY FInvIs
  <1>2. f = stack[t][Len(stack[t])] /\ Len(stack[t]) \in 1 .. Len(stack[t])
    BY <1>1, HereFacts
  <1> QED
    BY <1>1, <1>2 DEF AllSpared, Spared

\* A Helper that is found at an address belongs to an operation that is there.
LEMMA FoundIsThere ==
  ASSUME FInv, NEW a \in Addrs, NEW h \in Helpers, mem[a] = h
  PROVE  /\ h.op \notin deleted
         /\ \A o \in Ops : Emptied(o) /\ o = h.op => Held(h) # h
  <1>0. Control /\ IInv /\ MemRows /\ LateHelpers /\ Retirement
    BY FInvIs DEF Control
  <1>1. h.row \in Rows(h.op) /\ Row(h.op, h.row).address = a
    BY <1>0 DEF MemRows, WordAt
  <1>2. h.op \in Ops /\ h.by \in Threads
    BY DEF Helpers
  <1>3. Emptied(h.op) => Held(h) # h
    BY <1>1 DEF Emptied, Held
  <1>4. ASSUME h.op \in deleted PROVE FALSE
    <2>1. Emptied(h.op)
      BY <1>0, <1>4 DEF Retirement
    <2>2. InHand(h)
      BY <1>0, <1>3, <2>1 DEF LateHelpers
    <2>3. PICK f : Here(h.by, f)
      BY <1>0, <1>2, <2>2, HereIs DEF InHand
    <2>4. f.op = h.op
      BY <2>2, <2>3 DEF InHand, Here, Stands
    <2> QED
      BY <1>2, <1>4, <2>3, <2>4, TopSpared
  <1> QED
    BY <1>3, <1>4

\* The own operation of a thread is there.
LEMMA OwnIsThere ==
  ASSUME FInv, NEW t \in Threads
  PROVE  op[t] \notin deleted
  <1>1. Types /\ OwnSpared
    BY FInvIs
  <1>2. CASE op[t] = Null
    <2>1. Null \notin Ops /\ deleted \subseteq Ops
      BY <1>1, WordsAssumption DEF Types
    <2> QED
      BY <1>2, <2>1
  <1>3. CASE op[t] # Null
    BY <1>1, <1>3 DEF OwnSpared
  <1> QED
    BY <1>2, <1>3

-----------------------------------------------------------------------------
(* The ways an activation goes on, once more                               *)

LEMMA CutCareful ==
  ASSUME FInv, NEW t \in Threads, NEW b, NEW g, Cut(t, b, g), Spared(g), op' = op,
         b = 1 => \/ g.op = stack[t][1].op /\ g.wf = stack[t][1].wf
                  \/ g.op = op[t] /\ ~g.wf,
         g.at \notin {"on_watch", "restore"},
         \/ /\ op_table_' = op_table_
            /\ (b = 1 /\ stack[t][1].at \in {"announced", "withdraw"} => g.at = "withdraw")
         \/ op_table_' = [op_table_ EXCEPT ![t] = Null]
  PROVE  Careful(t)
  <1>0. Types /\ AllSpared /\ TablesOwn
    BY FInvIs
  <1>1. /\ Len(stack'[t]) = b /\ stack'[t] # <<>> /\ b \in 1 .. Len(stack[t]) /\ b \in Nat
        /\ \A k \in 1 .. Len(stack'[t]) :
             \/ k = b /\ stack'[t][k] = g
             \/ k \in 1 .. Len(stack[t]) /\ stack'[t][k] = stack[t][k] /\ k \in 1 .. (b - 1)
    BY <1>0, CutOwn
  <1>2. StackSpared(t)
    <2>1. \A k \in 1 .. Len(stack[t]) : Spared(stack[t][k])
      BY <1>0 DEF AllSpared
    <2> QED
      BY <1>1, <2>1 DEF StackSpared
  <1>3. stack[t] # <<>> /\ 1 \in 1 .. Len(stack'[t])
    <2>1. stack[t] \in Seq(Frames)
      BY <1>0 DEF Types
    <2> QED
      BY <1>1, <2>1
  <1>4. (b = 1 /\ stack'[t][1] = g) \/ (b # 1 /\ stack'[t][1] = stack[t][1])
    <2>1. b = 1 => stack'[t][1] = g
      BY DEF Cut
    <2>2. b # 1 => 1 # b
      OBVIOUS
    <2> QED
      BY <1>1, <1>3, <2>1
  <1>5. BottomKept(t)
    BY <1>1, <1>3, <1>4 DEF BottomKept
  <1>6. TopWatches(t)
    <2>1. Top(t)' = g
      BY <1>0, TopAfter
    <2> QED
      BY <2>1 DEF TopWatches
  <1>7. TableOwn(t)' /\ \A u \in Threads : u # t => op_table_'[u] = op_table_[u]
    <2>1. CASE /\ op_table_' = op_table_
               /\ (b = 1 /\ stack[t][1].at \in {"announced", "withdraw"} => g.at = "withdraw")
      <3>1. TableOwn(t)
        BY <1>0 DEF TablesOwn
      <3> QED
        BY <1>1, <1>4, <2>1, <3>1 DEF TableOwn
    <2>2. CASE op_table_' = [op_table_ EXCEPT ![t] = Null]
      <3>1. op_table_'[t] = Null /\ \A u \in Threads : u # t => op_table_'[u] = op_table_[u]
        BY <1>0, <2>2 DEF Types
      <3> QED
        BY <3>1 DEF TableOwn
    <2> QED
      BY <2>1, <2>2
  <1> QED
    BY <1>2, <1>5, <1>6, <1>7 DEF Careful

\* The topmost activation goes on.
LEMMA BecomesCareful ==
  ASSUME FInv, NEW t \in Threads, NEW f, Here(t, f), f.at \notin {"announced", "withdraw"}, op' = op,
         op_table_' = op_table_, NEW g, NEW i, NEW l, NEW v, NEW r,
         Becomes(t, g, f.op, i, l, f.wf, v, r),
         l \in Using => v.op \notin deleted,
         l \in {"on_watch", "restore"} =>
           /\ v = f.val /\ f.val \in Helpers
           /\ f.at = "on_watch" \/ (f.at = "watch" /\ mem[Address(f)] = f.val /\ Address(f) \in Addrs)
  PROVE  Careful(t)
  <1>0. Types /\ AllSpared /\ TablesOwn /\ IInv
    BY FInvIs
  <1>1. /\ Cut(t, Len(stack[t]), g) /\ g.op = f.op /\ g.at = l /\ g.val = v /\ g.wf = f.wf
    BY DEF Becomes, Fields
  <1>2. f = stack[t][Len(stack[t])] /\ f = Top(t) /\ stack[t] # <<>>
    BY DEF Here, Stands
  <1> DEFINE b == Len(stack[t])
  <1>3. /\ Len(stack'[t]) = b /\ stack'[t] # <<>> /\ b \in 1 .. Len(stack[t]) /\ b \in Nat
        /\ \A k \in 1 .. Len(stack'[t]) :
             \/ k = b /\ stack'[t][k] = g
             \/ k \in 1 .. Len(stack[t]) /\ stack'[t][k] = stack[t][k] /\ k \in 1 .. (b - 1)
    BY <1>0, <1>1, CutOwn
  <1>4. Spared(g)
    BY <1>1, TopSpared DEF Spared
  <1>5. StackSpared(t)
    <2>1. \A k \in 1 .. Len(stack[t]) : Spared(stack[t][k])
      BY <1>0 DEF AllSpared
    <2> QED
      BY <1>3, <1>4, <2>1 DEF StackSpared
  <1>6. (b = 1 /\ stack'[t][1] = g /\ stack[t][1] = f) \/ (b # 1 /\ stack'[t][1] = stack[t][1])
    <2>1. 1 \in 1 .. Len(stack'[t])
      BY <1>3
    <2>2. b = 1 => stack'[t][1] = g
      BY <1>1 DEF Cut
    <2> QED
      BY <1>2, <1>3, <2>1, <2>2
  <1>7. BottomKept(t)
    BY <1>1, <1>2, <1>3, <1>6 DEF BottomKept
  <1>8. TopWatches(t)
    <2>1. Top(t)' = g
      BY <1>0, <1>1, TopAfter
    <2> QED
      BY <1>1, <1>2, <2>1 DEF TopWatches
  <1>9. TableOwn(t)'
    <2>1. TableOwn(t)
      BY <1>0 DEF TablesOwn
    <2> QED
      BY <1>2, <1>3, <1>6, <2>1 DEF TableOwn
  <1> QED
    BY <1>5, <1>7, <1>8, <1>9 DEF Careful

LEMMA TurnsCareful ==
  ASSUME FInv, NEW t \in Threads, NEW f, Here(t, f), f.at \notin {"announced", "withdraw"}, op' = op,
         op_table_' = op_table_, NEW l, Turns(t, f, l),
         l \in Using => f.val.op \notin deleted,
         l \in {"on_watch", "restore"} =>
           /\ f.val \in Helpers
           /\ f.at = "on_watch" \/ (f.at = "watch" /\ mem[Address(f)] = f.val /\ Address(f) \in Addrs)
  PROVE  Careful(t)
  <1>1. PICK g \in Frames : Becomes(t, g, f.op, f.row, l, f.wf, f.val, f.res)
    BY DEF Turns
  <1> QED
    BY <1>1, BecomesCareful

LEMMA PassesCareful ==
  ASSUME FInv, NEW t \in Threads, NEW f, Here(t, f), f.at \notin {"announced", "withdraw"}, op' = op,
         op_table_' = op_table_, Passes(t, f)
  PROVE  Careful(t)
  <1>1. PICK g \in Frames : \/ Becomes(t, g, f.op, f.row + 1, "load", f.wf, Null, FALSE)
                            \/ Becomes(t, g, f.op, f.row, "pass", f.wf, f.val, f.res)
    BY DEF Passes
  <1>2. "load" \notin Using /\ "pass" \notin Using
    BY DEF Using
  <1> QED
    BY <1>1, <1>2, BecomesCareful

LEMMA GrowCareful ==
  ASSUME FInv, NEW t \in Threads, NEW f, Here(t, f), f.at \notin {"announced", "withdraw"}, op' = op,
         NEW g, NEW c, Grow(t, g, c), g.op = f.op, g.wf = f.wf, g.val = f.val,
         g.at \in Using => f.val.op \notin deleted,
         c.op \notin deleted, c.at = "load",
         \/ op_table_' = op_table_
         \/ /\ op_table_' = [op_table_ EXCEPT ![t] = f.op]
            /\ f.op = op[t] /\ Len(stack[t]) = 1 /\ g.at = "announced"
  PROVE  Careful(t)
  <1>0. Types /\ AllSpared /\ TablesOwn /\ IInv
    BY FInvIs
  <1> DEFINE n == Len(stack[t])
  <1>1. /\ n \in Nat /\ n >= 1 /\ Len(stack'[t]) = n + 1 /\ stack'[t] # <<>>
        /\ stack'[t][n] = g /\ stack'[t][n + 1] = c
        /\ \A k \in 1 .. Len(stack'[t]) :
             \/ k = n /\ stack'[t][k] = g
             \/ k = n + 1 /\ stack'[t][k] = c
             \/ k \in 1 .. Len(stack[t]) /\ stack'[t][k] = stack[t][k] /\ k \in 1 .. (n - 1)
    BY <1>0, GrowOwn DEF Grow
  <1>2. f = stack[t][n] /\ f = Top(t) /\ stack[t] # <<>>
    BY DEF Here, Stands
  <1>3. Spared(g) /\ Spared(c)
    BY TopSpared DEF Spared, Using
  <1>4. StackSpared(t)
    <2>1. \A k \in 1 .. Len(stack[t]) : Spared(stack[t][k])
      BY <1>0 DEF AllSpared
    <2> QED
      BY <1>1, <1>3, <2>1 DEF StackSpared
  <1>5. (n = 1 /\ stack'[t][1] = g /\ stack[t][1] = f) \/ (n # 1 /\ stack'[t][1] = stack[t][1])
    <2>1. 1 \in 1 .. Len(stack'[t]) /\ 1 # n + 1
      BY <1>1
    <2> HIDE DEF n
    <2> QED
      BY <1>1, <1>2, <2>1
  <1>6. BottomKept(t)
    BY <1>1, <1>2, <1>5 DEF BottomKept
  <1>7. TopWatches(t)
    <2>1. Top(t)' = c
      BY <1>1 DEF Top
    <2> QED
      BY <2>1 DEF TopWatches
  <1>8. TableOwn(t)' /\ \A u \in Threads : u # t => op_table_'[u] = op_table_[u]
    <2>1. CASE op_table_' = op_table_
      <3>1. TableOwn(t)
        BY <1>0 DEF TablesOwn
      <3> QED
        BY <1>1, <1>2, <1>5, <2>1, <3>1 DEF TableOwn
    <2>2. CASE op_table_' = [op_table_ EXCEPT ![t] = f.op] /\ f.op = op[t] /\ n = 1 /\ g.at = "announced"
      <3>1. op_table_'[t] = op[t] /\ \A u \in Threads : u # t => op_table_'[u] = op_table_[u]
        BY <1>0, <2>2 DEF Types
      <3> QED
        BY <1>1, <1>5, <2>2, <3>1 DEF TableOwn
    <2> QED
      BY <2>1, <2>2
  <1> QED
    BY <1>4, <1>6, <1>7, <1>8 DEF Careful

\* An activation that waits, and the one above it.
LEMMA WaitsFor ==
  ASSUME FInv, NEW t \in Threads, NEW k \in 1 .. Len(stack[t]), k > 1,
         NEW g, g = stack[t][k - 1], NEW f, f = stack[t][k]
  PROVE  Spared(g) /\ Link(g, f, k - 1) /\ k - 1 \in 1 .. Len(stack[t]) /\ g.at \in {"helping", "announced"}
  <1>0. Control /\ AllSpared /\ Types /\ Shapes
    BY FInvIs DEF Control
  <1>1. Len(stack[t]) \in Nat
    BY <1>0 DEF Types
  <1>2. k - 1 \in 1 .. (Len(stack[t]) - 1) /\ k - 1 \in 1 .. Len(stack[t]) /\ (k - 1) + 1 = k
    BY <1>1
  <1>3. Link(g, f, k - 1)
    BY <1>0, <1>2 DEF Shapes
  <1> QED
    BY <1>0, <1>2, <1>3 DEF AllSpared, Link

LEMMA ReturnedCareful ==
  ASSUME FInv, NEW t \in Threads, NEW f, Here(t, f), f.at \notin {"announced", "withdraw"}, op' = op,
         op_table_' = op_table_, NEW r \in BOOLEAN, Returned(t, r)
  PROVE  Careful(t)
  <1>0. Types /\ IInv /\ Control /\ Spared(f)
    BY FInvIs, TopSpared
  <1>1. /\ f = stack[t][Len(stack[t])] /\ Len(stack[t]) \in Nat /\ Len(stack[t]) \in 1 .. Len(stack[t])
    BY <1>0, HereFacts
  <1> DEFINE n == Len(stack[t])
  <1>2. \/ /\ n > 1
           /\ \E c, g \in Frames :
                /\ c = stack[t][n - 1] /\ Cut(t, n - 1, g)
                /\ Fields(g, c.op, c.row, IF c.at = "helping" THEN "uninstall" ELSE "withdraw",
                          c.wf, c.val, r)
        \/ /\ n = 1 /\ f.op = op[t]
           /\ \E g \in Frames : Cut(t, 1, g) /\ Fields(g, f.op, 1, "cleanup", f.wf, f.val, r)
        \/ /\ n = 1 /\ f.op # op[t]
           /\ \E g \in Frames : Cut(t, 1, g) /\ Fields(g, op[t], 1, "load", FALSE, Null, FALSE)
    BY <1>0, ReturnedCuts DEF Here
  <1>3. ASSUME n > 1, NEW c, NEW g, c = stack[t][n - 1], Cut(t, n - 1, g),
               Fields(g, c.op, c.row, IF c.at = "helping" THEN "uninstall" ELSE "withdraw", c.wf, c.val, r)
        PROVE  Careful(t)
    <2>1. Spared(c) /\ c.at \in {"helping", "announced"}
      BY <1>1, <1>3, WaitsFor
    <2>2. Spared(g)
      BY <1>3, <2>1 DEF Fields, Spared, Using
    <2>3. n - 1 = 1 => c = stack[t][1]
      BY <1>3
    <2>4. n - 1 = 1 /\ stack[t][1].at \in {"announced", "withdraw"} => g.at = "withdraw"
      BY <1>3, <2>1, <2>3 DEF Fields
    <2>5. g.at \notin {"on_watch", "restore"}
      BY <1>3 DEF Fields
    <2>6. n - 1 = 1 => g.op = stack[t][1].op /\ g.wf = stack[t][1].wf
      BY <1>3, <2>3 DEF Fields
    <2> HIDE DEF n
    <2> QED
      BY <1>3, <2>2, <2>4, <2>5, <2>6, CutCareful
  <1>4. ASSUME n = 1, NEW g, Cut(t, 1, g), Fields(g, f.op, 1, "cleanup", f.wf, f.val, r)
        PROVE  Careful(t)
    <2>1. Spared(g) /\ g.at \notin {"on_watch", "restore"}
      BY <1>0, <1>4 DEF Fields, Spared, Using
    <2>2. f = stack[t][1] /\ g.op = f.op /\ g.wf = f.wf
      BY <1>1, <1>4 DEF Fields
    <2> QED
      BY <1>4, <2>1, <2>2, CutCareful
  <1>5. ASSUME n = 1, NEW g, Cut(t, 1, g), Fields(g, op[t], 1, "load", FALSE, Null, FALSE)
        PROVE  Careful(t)
    <2>1. Spared(g) /\ g.at \notin {"on_watch", "restore"} /\ g.op = op[t] /\ ~g.wf
      BY <1>5, OwnIsThere DEF Fields, Spared, Using
    <2>2. f = stack[t][1]
      BY <1>1, <1>5
    <2> QED
      BY <1>5, <2>1, <2>2, CutCareful
  <1> QED
    BY <1>2, <1>3, <1>4, <1>5

LEMMA RecursiveCareful ==
  ASSUME FInv, NEW t \in Threads, op' = op, op_table_' = op_table_, Depth(t) # 0, RecursiveReturn(t)
  PROVE  Careful(t)
  <1>0. Control /\ AllSpared
    BY FInvIs
  <1>1. PICK b \in 1 .. Len(stack[t]) : \E c, g \in Frames :
           /\ c = stack[t][b] /\ c.at = "helping" /\ Cut(t, b, g)
           /\ Fields(g, c.op, c.row, "reload", c.wf, c.val, c.res)
    BY <1>0, RecursiveReturnCuts
  <1>2. PICK c, g \in Frames :
           /\ c = stack[t][b] /\ c.at = "helping" /\ Cut(t, b, g)
           /\ Fields(g, c.op, c.row, "reload", c.wf, c.val, c.res)
    BY <1>1
  <1>3. Spared(c)
    BY <1>0, <1>2 DEF AllSpared
  <1>4. Spared(g) /\ g.at = "reload" /\ g.op = c.op /\ g.wf = c.wf
    BY <1>2, <1>3 DEF Fields, Spared, Using
  <1> QED
    BY <1>2, <1>4, CutCareful

\* Who announces is at the bottom of its stack, with its own operation.
LEMMA AnnouncesOwn ==
  ASSUME FInv, NEW t \in Threads, NEW f, Here(t, f), Depth(t) = 0, ~f.wf
  PROVE  f.op = op[t] /\ Len(stack[t]) = 1
  <1>0. Types /\ IInv /\ Bottoms
    BY FInvIs
  <1>1. /\ f = stack[t][Len(stack[t])] /\ Len(stack[t]) \in Nat /\ Len(stack[t]) \in 1 .. Len(stack[t])
    BY <1>0, HereFacts
  <1>2. ASSUME Len(stack[t]) > 1 PROVE FALSE
    <2> DEFINE k == Len(stack[t])
    <2>1. PICK g : g = stack[t][k - 1]
      OBVIOUS
    <2>2. Link(g, f, k - 1) /\ k - 1 \in 1 .. k
      BY <1>1, <1>2, <2>1, WaitsFor
    <2>3. g.at # "helping"
      BY <1>0, <2>1, <2>2, DepthIs
    <2> QED
      BY <2>2, <2>3 DEF Link
  <1>3. Len(stack[t]) = 1
    <2> DEFINE n == Len(stack[t])
    <2>1. n \in Nat /\ n >= 1 /\ ~(n > 1)
      BY <1>1, <1>2
    <2> HIDE DEF n
    <2>2. n = 1
      BY <2>1
    <2> QED
      BY <2>2 DEF n
  <1> QED
    BY <1>0, <1>1, <1>3 DEF Bottoms

LEMMA SeeStateCareful ==
  ASSUME FInv, NEW t \in Threads, SeeState(t), op' = op
  PROVE  Careful(t)
  <1>0. Control
    BY FInvIs
  <1>1. PICK f :
           /\ Here(t, f) /\ f.at = "state" /\ f.op # Null
           /\ \/ ~InProgress(f.op) /\ Returned(t, state_[f.op] = "PASS") /\ op_table_' = op_table_
              \/ /\ Depth(t) = 0 /\ ~f.wf
                 /\ op_table_' = [op_table_ EXCEPT ![t] = f.op]
                 /\ \E g, c \in Frames :
                      /\ Grow(t, g, c)
                      /\ Fields(g, f.op, f.row, "announced", f.wf, f.val, f.res)
                      /\ Fields(c, f.op, 1, "load", TRUE, Null, FALSE)
              \/ Depth(t) # 0 /\ RecursiveReturn(t) /\ op_table_' = op_table_
              \/ /\ op_table_' = op_table_
                 /\ \/ f.val \in Helpers /\ Turns(t, f, "watch")
                    \/ f.val = Row(f.op, f.row).expected /\ Turns(t, f, "place")
                    \/ /\ f.val \in Values /\ f.val # Row(f.op, f.row).expected
                       /\ Turns(t, f, "mismatch")
           /\ Quiet
    BY <1>0, SeeStateStep
  <1>2. CASE Returned(t, state_[f.op] = "PASS") /\ op_table_' = op_table_
    <2>1. (state_[f.op] = "PASS") \in BOOLEAN
      OBVIOUS
    <2> QED
      BY <1>1, <1>2, <2>1, ReturnedCareful
  <1>3. ASSUME Depth(t) = 0, ~f.wf, op_table_' = [op_table_ EXCEPT ![t] = f.op], NEW g, NEW c,
               Grow(t, g, c), Fields(g, f.op, f.row, "announced", f.wf, f.val, f.res),
               Fields(c, f.op, 1, "load", TRUE, Null, FALSE)
        PROVE  Careful(t)
    <2>1. /\ g.op = f.op /\ g.wf = f.wf /\ g.val = f.val /\ g.at = "announced" /\ g.at \notin Using
          /\ c.op = f.op /\ c.at = "load"
      BY <1>3 DEF Fields, Using
    <2>2. c.op \notin deleted
      BY <1>1, <2>1, TopSpared
    <2>3. f.op = op[t] /\ Len(stack[t]) = 1
      BY <1>1, <1>3, AnnouncesOwn
    <2> QED
      BY <1>1, <1>3, <2>1, <2>2, <2>3, GrowCareful
  <1>4. CASE Depth(t) # 0 /\ RecursiveReturn(t) /\ op_table_' = op_table_
    BY <1>4, RecursiveCareful
  <1>5. ASSUME op_table_' = op_table_, NEW l \in {"watch", "place", "mismatch"}, Turns(t, f, l)
        PROVE  Careful(t)
    <2>1. l \notin Using /\ l \notin {"on_watch", "restore"}
      BY <1>5 DEF Using
    <2> QED
      BY <1>1, <1>5, <2>1, TurnsCareful
  <1> QED
    BY <1>1, <1>2, <1>3, <1>4, <1>5

LEMMA WatchCareful ==
  ASSUME FInv, NEW t \in Threads, Watch(t), op' = op, op_table_' = op_table_
  PROVE  Careful(t)
  <1>0. Control
    BY FInvIs
  <1>1. PICK f :
           /\ Here(t, f) /\ f.at = "watch"
           /\ \/ mem[Address(f)] = f.val /\ Turns(t, f, "on_watch")
              \/ Turns(t, f, "reload")
    BY <1>0, WatchStep
  <1>2. f.val \in Helpers /\ Address(f) \in Addrs
    BY <1>1 DEF Here, FrameShape, Meeting, Sound
  <1>3. CASE mem[Address(f)] = f.val /\ Turns(t, f, "on_watch")
    <2>1. f.val.op \notin deleted
      BY <1>2, <1>3, FoundIsThere
    <2> QED
      BY <1>1, <1>2, <1>3, <2>1, TurnsCareful
  <1>4. CASE Turns(t, f, "reload")
    <2>1. "reload" \notin Using
      BY DEF Using
    <2> QED
      BY <1>1, <1>4, <2>1, TurnsCareful
  <1> QED
    BY <1>1, <1>3, <1>4

LEMMA OnWatchCareful ==
  ASSUME FInv, NEW t \in Threads, OnWatch(t), op' = op, op_table_' = op_table_
  PROVE  Careful(t)
  <1>0. Control
    BY FInvIs
  <1>1. PICK f :
           /\ Here(t, f) /\ f.at = "on_watch"
           /\ \/ Turns(t, f, "restore")
              \/ Turns(t, f, IF f.op = Null THEN "value" ELSE "own_row")
    BY <1>0, OnWatchStep
  <1>2. f.val \in Helpers /\ f.val.op \notin deleted
    BY <1>1, TopSpared DEF Here, FrameShape, Meeting, Spared, Using
  <1>3. CASE Turns(t, f, "restore")
    BY <1>1, <1>2, <1>3, TurnsCareful
  <1>4. CASE Turns(t, f, IF f.op = Null THEN "value" ELSE "own_row")
    <2> DEFINE l == IF f.op = Null THEN "value" ELSE "own_row"
    <2>1. l \notin {"on_watch", "restore"} /\ Turns(t, f, l)
      BY <1>4
    <2> HIDE DEF l
    <2> QED
      BY <1>1, <1>2, <2>1, TurnsCareful
  <1> QED
    BY <1>1, <1>3, <1>4

LEMMA RemoveCareful ==
  ASSUME FInv, NEW t \in Threads, RemoveDescriptor(t), op' = op, op_table_' = op_table_
  PROVE  Careful(t)
  <1>0. Control /\ IInv
    BY FInvIs
  <1>1. PICK f :
           /\ Here(t, f) /\ f.at = "remove" /\ f.op # Null
           /\ \/ Turns(t, f, "reload")
              \/ mem[Address(f)] = f.val /\ \E g, c \in Frames :
                   /\ Grow(t, g, c)
                   /\ Fields(g, f.op, f.row, "helping", f.wf, f.val, f.res)
                   /\ Fields(c, f.val.op, f.val.row, "load", FALSE, Null, FALSE)
    <2>1. PICK f :
           /\ Here(t, f) /\ f.at = "remove" /\ f.op # Null
           /\ \/ Turns(t, f, "reload")
              \/ \E g, c \in Frames :
                   /\ Grow(t, g, c)
                   /\ Fields(g, f.op, f.row, "helping", f.wf, f.val, f.res)
                   /\ Fields(c, f.val.op, f.val.row, "load", FALSE, Null, FALSE)
      BY <1>0, RemoveStep
    <2>2. f = Top(t)
      BY <2>1 DEF Here, Stands
    <2>3. CASE mem[Address(f)] = f.val
      BY <2>1, <2>3
    <2>4. CASE mem[Address(f)] # f.val
      <3>1. Goto(t, "reload") /\ "reload" \in Labels
        BY <2>2, <2>4 DEF RemoveDescriptor, Labels
      <3> QED
        BY <1>0, <2>1, <3>1, GotoTurns
    <2> QED
      BY <2>3, <2>4
  <1>2. CASE Turns(t, f, "reload")
    <2>1. "reload" \notin Using
      BY DEF Using
    <2> QED
      BY <1>1, <1>2, <2>1, TurnsCareful
  <1>3. ASSUME mem[Address(f)] = f.val, NEW g, NEW c, Grow(t, g, c),
               Fields(g, f.op, f.row, "helping", f.wf, f.val, f.res),
               Fields(c, f.val.op, f.val.row, "load", FALSE, Null, FALSE)
        PROVE  Careful(t)
    <2>1. f.val \in Helpers /\ Address(f) \in Addrs
      BY <1>1 DEF Here, FrameShape, Meeting, Sound
    <2>2. f.val.op \notin deleted
      BY <1>3, <2>1, FoundIsThere
    <2>3. g.op = f.op /\ g.wf = f.wf /\ g.val = f.val /\ c.op = f.val.op /\ c.at = "load"
      BY <1>3 DEF Fields
    <2> QED
      BY <1>1, <1>3, <2>2, <2>3, GrowCareful
  <1> QED
    BY <1>1, <1>2, <1>3

LEMMA AccessCareful ==
  ASSUME FInv, NEW t \in Threads, Access(t)
  PROVE  Careful(t)
  <1>0. Control /\ IInv
    BY FInvIs
  <1>o. op' = op
    BY DEF Access, Load, SeeHelper, SeeState, Mismatch, Place, AssociateOwn, Undo, Over, SetFail,
         SetPass, Withdraw, Watch, OnWatch, Restore, OwnRow, RemoveDescriptor, Uninstall, Cleanup, ReadValue
  <1>s. \A l \in {"state", "fail", "place", "undo", "over", "reload", "row", "remove", "done", "watch",
                  "associate", "cleanup"} : l \notin Using /\ l \notin {"on_watch", "restore"}
    BY DEF Using
  <1>1. CASE Load(t)
    <2>1. PICK f, g : \E l \in {"row", "watch", "done"} : \E v :
             /\ Here(t, f) /\ f.at \in {"load", "reload"}
             /\ Becomes(t, g, f.op, f.row, l, f.wf, v, f.res)
      BY <1>0, <1>1, LoadStep
    <2>2. op_table_' = op_table_
      BY <1>1 DEF Load
    <2> QED
      BY <1>o, <1>s, <2>1, <2>2, BecomesCareful
  <1>2. CASE SeeHelper(t)
    <2>1. PICK f :
             /\ Here(t, f) /\ f.at = "row"
             /\ Turns(t, f, "state") \/ Turns(t, f, "fail") \/ Passes(t, f)
      BY <1>0, <1>2, SeeHelperStep
    <2>2. op_table_' = op_table_
      BY <1>2 DEF SeeHelper
    <2>3. CASE Passes(t, f)
      BY <1>o, <2>1, <2>2, <2>3, PassesCareful
    <2> QED
      BY <1>o, <1>s, <2>1, <2>2, <2>3, TurnsCareful
  <1>3. CASE SeeState(t)
    BY <1>o, <1>3, SeeStateCareful
  <1>4. CASE Mismatch(t)
    <2>1. PICK f : Here(t, f) /\ f.at = "mismatch" /\ (Turns(t, f, "fail") \/ Turns(t, f, "row"))
      BY <1>0, <1>4, MismatchStep
    <2>2. op_table_' = op_table_
      BY <1>4 DEF Mismatch
    <2> QED
      BY <1>o, <1>s, <2>1, <2>2, TurnsCareful
  <1>5. CASE Place(t)
    <2>1. PICK f, g : \E l \in {"associate", "row"} : \E v :
             Here(t, f) /\ f.at = "place" /\ Becomes(t, g, f.op, f.row, l, f.wf, v, f.res)
      BY <1>0, <1>5, PlaceStep
    <2>2. op_table_' = op_table_
      BY <1>5 DEF Place
    <2> QED
      BY <1>o, <1>s, <2>1, <2>2, BecomesCareful
  <1>6. CASE AssociateOwn(t)
    <2>1. PICK f : Here(t, f) /\ f.at = "associate" /\ (Passes(t, f) \/ Turns(t, f, "undo"))
      BY <1>0, <1>6, AssociateStep
    <2>2. op_table_' = op_table_
      BY <1>6 DEF AssociateOwn
    <2>3. CASE Passes(t, f)
      BY <1>o, <2>1, <2>2, <2>3, PassesCareful
    <2> QED
      BY <1>o, <1>s, <2>1, <2>2, <2>3, TurnsCareful
  <1>7. CASE Undo(t)
    <2>1. PICK f : Here(t, f) /\ f.at = "undo" /\ (Turns(t, f, "fail") \/ Turns(t, f, "over"))
      BY <1>0, <1>7, UndoStep
    <2>2. op_table_' = op_table_
      BY <1>7 DEF Undo
    <2> QED
      BY <1>o, <1>s, <2>1, <2>2, TurnsCareful
  <1>8. CASE Over(t)
    <2>1. PICK f : Here(t, f) /\ f.at = "over" /\ Returned(t, state_[f.op] = "PASS")
      BY <1>0, <1>8, OverStep
    <2>2. op_table_' = op_table_ /\ (state_[f.op] = "PASS") \in BOOLEAN
      BY <1>8 DEF Over
    <2> QED
      BY <1>o, <2>1, <2>2, ReturnedCareful
  <1>9. CASE SetFail(t)
    <2>1. PICK f : Here(t, f) /\ f.at = "fail" /\ Returned(t, FALSE)
      BY <1>0, <1>9, SetFailStep
    <2>2. op_table_' = op_table_ /\ FALSE \in BOOLEAN
      BY <1>9 DEF SetFail
    <2> QED
      BY <1>o, <2>1, <2>2, ReturnedCareful
  <1>10. CASE SetPass(t)
    <2>1. PICK f : Here(t, f) /\ f.at = "pass" /\ Returned(t, state_[f.op] \in {"IN_PROGRESS", "PASS"})
      BY <1>0, <1>10, SetPassStep
    <2>2. op_table_' = op_table_ /\ (state_[f.op] \in {"IN_PROGRESS", "PASS"}) \in BOOLEAN
      BY <1>10 DEF SetPass
    <2> QED
      BY <1>o, <2>1, <2>2, ReturnedCareful
  <1>11. CASE Withdraw(t)
    <2>1. PICK f : /\ Here(t, f) /\ f.at = "withdraw" /\ Turns(t, f, "over")
                   /\ op_table_' = [op_table_ EXCEPT ![t] = Null]
      BY <1>0, <1>11, WithdrawStep
    <2>2. PICK g : Cut(t, Len(stack[t]), g) /\ Fields(g, f.op, f.row, "over", f.wf, f.val, f.res)
      BY <2>1 DEF Turns, Becomes
    <2>3. Spared(g) /\ g.op = f.op /\ g.wf = f.wf /\ g.at \notin {"on_watch", "restore"}
      BY <2>1, <2>2, TopSpared DEF Fields, Spared, Using
    <2>4. f = stack[t][Len(stack[t])]
      BY <2>1 DEF Here, Stands
    <2> QED
      BY <1>o, <2>1, <2>2, <2>3, <2>4, CutCareful
  <1>12. CASE Watch(t)
    <2>1. op_table_' = op_table_
      BY <1>12 DEF Watch
    <2> QED
      BY <1>o, <1>12, <2>1, WatchCareful
  <1>13. CASE OnWatch(t)
    <2>1. op_table_' = op_table_
      BY <1>13 DEF OnWatch
    <2> QED
      BY <1>o, <1>13, <2>1, OnWatchCareful
  <1>14. CASE Restore(t)
    <2>1. PICK f : Here(t, f) /\ f.at = "restore" /\ Turns(t, f, "reload")
      BY <1>0, <1>14, RestoreStep
    <2>2. op_table_' = op_table_
      BY <1>14 DEF Restore
    <2> QED
      BY <1>o, <1>s, <2>1, <2>2, TurnsCareful
  <1>15. CASE OwnRow(t)
    <2>1. PICK f :
             /\ Here(t, f) /\ f.at = "own_row"
             /\ \/ Turns(t, f, "row")
                \/ Depth(t) # 0 /\ RecursiveReturn(t)
                \/ Turns(t, f, "remove")
      BY <1>0, <1>15, OwnRowStep
    <2>2. op_table_' = op_table_
      BY <1>15 DEF OwnRow
    <2>3. CASE Depth(t) # 0 /\ RecursiveReturn(t)
      BY <1>o, <2>2, <2>3, RecursiveCareful
    <2> QED
      BY <1>o, <1>s, <2>1, <2>2, <2>3, TurnsCareful
  <1>16. CASE RemoveDescriptor(t)
    <2>1. op_table_' = op_table_
      BY <1>16 DEF RemoveDescriptor
    <2> QED
      BY <1>o, <1>16, <2>1, RemoveCareful
  <1>17. CASE Uninstall(t)
    <2>1. PICK f : Here(t, f) /\ f.at = "uninstall" /\ Turns(t, f, "reload")
      BY <1>0, <1>17, UninstallStep
    <2>2. op_table_' = op_table_
      BY <1>17 DEF Uninstall
    <2> QED
      BY <1>o, <1>s, <2>1, <2>2, TurnsCareful
  <1>18. CASE Cleanup(t)
    <2>1. PICK f, g : \E l \in {"done", "cleanup"} : \E i :
             Here(t, f) /\ f.at = "cleanup" /\ Becomes(t, g, f.op, i, l, f.wf, f.val, f.res)
      BY <1>0, <1>18, CleanupStep DEF Turns
    <2>2. op_table_' = op_table_
      BY <1>18 DEF Cleanup
    <2> QED
      BY <1>o, <1>s, <2>1, <2>2, BecomesCareful
  <1>19. CASE ReadValue(t)
    <2>1. PICK f, g : \E v :
             Here(t, f) /\ f.at = "value" /\ Becomes(t, g, f.op, f.row, "done", f.wf, v, f.res)
      BY <1>0, <1>19, ReadValueStep
    <2>2. op_table_' = op_table_
      BY <1>19 DEF ReadValue
    <2> QED
      BY <1>o, <1>s, <2>1, <2>2, BecomesCareful
  <1> QED
    BY <1>1, <1>2, <1>3, <1>4, <1>5, <1>6, <1>7, <1>8, <1>9, <1>10, <1>11, <1>12, <1>13, <1>14, <1>15,
       <1>16, <1>17, <1>18, <1>19, Zenon DEF Access

-----------------------------------------------------------------------------
(* A step of an activation keeps what is used                              *)

\* A Helper that is new at its address is in the hands of the thread that moved.
LEMMA NewInHand ==
  ASSUME IInv, NEW t \in Threads, Effect(t), Moves(t), NEW a \in Addrs, NEW h \in Helpers,
         mem'[a] = h, mem[a] # h
  PROVE  InHand(h)'
  <1>0. Types /\ Keeps(t)
    BY EffectKeeps DEF IInv, Control
  <1>1. h.by = t
    BY <1>0 DEF Keeps
  <1>2. ASSUME NEW b, NEW c, NEW g, Cuts(t, b, c, g) PROVE InHand(h)'
    <2>1. Cut(t, b, g) /\ Places(t, g)
      BY <1>2 DEF Cuts
    <2>2. stack'[t] # <<>> /\ Top(t)' = g
      BY <1>0, <2>1, TopAfter
    <2>3. g.at = "associate" /\ g.op = h.op /\ g.row = h.row
      BY <2>1 DEF Places
    <2> QED
      BY <1>1, <2>2, <2>3 DEF InHand
  <1>3. ASSUME NEW f, NEW g, NEW c, Grows(t, f, g, c) PROVE FALSE
    BY <1>3 DEF Grows, Quiet
  <1> QED
    BY <1>2, <1>3 DEF Moves

\* A Helper only leaves the hands of its thread as the one of its row, or from
\* its address.
LEMMA LeavesHand ==
  ASSUME FInv, NEW t \in Threads, Access(t), NEW f, Here(t, f), f.at \in {"associate", "undo"},
         NEW h, h = Helper(f.op, f.row, t), mem'[Address(f)] = h, helper_'[f.op][f.row] # h
  PROVE  stack'[t] # <<>> /\ Top(t)'.at = "undo" /\ Top(t)'.op = f.op /\ Top(t)'.row = f.row
  <1>0. Control /\ Types /\ IInv /\ RowsSorted
    BY FInvIs DEF Control
  <1>1. \A e : Here(t, e) => e = f
    BY DEF Here, Stands
  <1>2. /\ f.op \in Ops /\ f.row \in Rows(f.op) /\ f.row \in 1 .. MaxRows /\ Address(f) \in Addrs
        /\ Row(f.op, f.row).expected \in Values /\ f.op # Null
    BY <1>0, HereFacts, RowTyped DEF Reading
  <1>3. h \in Helpers /\ h \notin Values /\ h # Null
    BY <1>0, <1>2, OwnHelper
  <1>4. AssociateOwn(t) \/ Undo(t)
    <2>1. f = Top(t)
      BY DEF Here, Stands
    <2> QED
      BY <2>1, Zenon DEF Access, At, Load, SeeHelper, SeeState, Mismatch, Place, Over, SetFail, SetPass,
         Withdraw, Watch, OnWatch, Restore, OwnRow, RemoveDescriptor, Uninstall, Cleanup, ReadValue
  <1>5. CASE AssociateOwn(t)
    <2>1. PICK e :
             /\ Here(t, e)
             /\ \/ Associates(e.op, e.row, Helper(e.op, e.row, t))
                \/ Quiet /\ helper_[e.op][e.row] = Helper(e.op, e.row, t)
                \/ Turns(t, e, "undo")
      BY <1>0, <1>5, AssociateStep
    <2>2. e = f
      BY <1>1, <2>1
    <2>3. ~Associates(f.op, f.row, h)
      <3>1. Associates(f.op, f.row, h) => helper_'[f.op][f.row] = h
        <4>1. helper_ \in [Ops -> [1 .. MaxRows -> Helpers \cup {Null, FAIL_CONST}]]
          BY <1>0 DEF Types
        <4> QED
          BY <1>2, <4>1 DEF Associates
      <3> QED
        BY <3>1
    <2>4. ~(Quiet /\ helper_[f.op][f.row] = h)
      BY DEF Quiet
    <2>5. Turns(t, f, "undo")
      BY <2>1, <2>2, <2>3, <2>4
    <2>6. PICK g : Cut(t, Len(stack[t]), g) /\ g.at = "undo" /\ g.op = f.op /\ g.row = f.row
      BY <2>5 DEF Turns, Becomes, Fields
    <2> QED
      BY <1>0, <2>6, TopAfter
  <1>6. CASE Undo(t)
    <2>1. mem'[Address(f)] # h
      <3>1. Cas(Address(f), h, Row(f.op, f.row).expected)
        <4>1. f = Top(t)
          BY DEF Here, Stands
        <4> QED
          BY <1>6, <4>1 DEF Undo
      <3>2. CASE mem[Address(f)] = h
        <4>1. mem'[Address(f)] = Row(f.op, f.row).expected
          BY <1>0, <1>2, <3>1, <3>2 DEF Cas, Types
        <4> QED
          BY <1>2, <1>3, <4>1
      <3>3. CASE mem[Address(f)] # h
        BY <3>1, <3>3 DEF Cas
      <3> QED
        BY <3>2, <3>3
    <2> QED
      BY <2>1
  <1> QED
    BY <1>4, <1>5, <1>6

LEMMA LateKept ==
  ASSUME FInv, NEW t \in Threads, Access(t), Effect(t), Moves(t), cas_rows_' = cas_rows_
  PROVE  LateHelpers'
  <1>0. IInv /\ Control /\ Types /\ LateHelpers /\ Keeps(t) /\ MemRows
    BY FInvIs, EffectKeeps DEF Control
  <1> SUFFICES ASSUME NEW a \in Addrs, NEW h \in Helpers, mem'[a] = h, helper_'[h.op][h.row] # h
               PROVE  InHand(h)'
    BY DEF LateHelpers, Held
  <1>1. CASE mem[a] # h
    BY <1>0, <1>1, NewInHand
  <1>2. CASE mem[a] = h
    <2>1. /\ h.row \in Rows(h.op) /\ Row(h.op, h.row).address = a
          /\ h.op \in Ops /\ h.row \in 1 .. MaxRows /\ h.by \in Threads /\ h = Helper(h.op, h.row, h.by)
      BY <1>0, <1>2 DEF MemRows, WordAt, Helpers, Helper
    <2>2. h # Null
      BY WordsAssumption
    <2>3. Held(h) # h
      BY <1>0, <2>1, <2>2 DEF Keeps, Held
    <2>4. InHand(h)
      BY <1>0, <1>2, <2>3 DEF LateHelpers
    <2>5. CASE h.by # t
      <3>1. stack'[h.by] = stack[h.by]
        BY <1>0, <2>1, <2>5, SameBusy
      <3> QED
        BY <2>4, <3>1 DEF InHand, Top
    <2>6. CASE h.by = t
      <3>1. PICK f : Here(t, f)
        BY <1>0, <2>4, <2>6, HereIs DEF InHand
      <3>2. f.at \in {"associate", "undo"} /\ f.op = h.op /\ f.row = h.row
        BY <2>4, <2>6, <3>1 DEF InHand, Here, Stands
      <3>3. Address(f) = a
        <4>1. f.op # Null
          BY <2>1, <3>2, WordsAssumption
        <4> QED
          BY <2>1, <3>2, <4>1 DEF Address
      <3>4. stack'[t] # <<>> /\ Top(t)'.at = "undo" /\ Top(t)'.op = f.op /\ Top(t)'.row = f.row
        BY <2>1, <2>6, <3>1, <3>2, <3>3, LeavesHand
      <3> QED
        BY <2>6, <3>2, <3>4 DEF InHand
    <2> QED
      BY <2>5, <2>6
  <1> QED
    BY <1>1, <1>2

\* A watch that a step takes is not one of an operation that is scanned.
LEMMA UnwatchedKept ==
  ASSUME Cardinality(Threads) <= 2, FInv, NEW t \in Threads, Careful(t), Moves(t), op' = op,
         UNCHANGED reclamation
  PROVE  ScansUnwatched'
  <1>0. IInv /\ Types /\ Control /\ ScansUnwatched /\ ScansIdle /\ Retirement /\ LateHelpers /\ OwnSpared
    BY FInvIs
  <1> SUFFICES ASSUME NEW w \in Threads, scan[w] # Null, HazardWatched(scan[w])'
               PROVE  FALSE
    BY DEF ScansUnwatched, reclamation, HazardWatched
  <1> DEFINE o == scan[w]
  <1>1. o \in Ops /\ Emptied(o) /\ stack[w] = <<>> /\ o \in retired[w] /\ ~HazardWatched(o)
    BY <1>0 DEF Types, Retirement, ScansIdle, ScansUnwatched
  <1>s. scan'[w] = o
    BY DEF reclamation
  <1>2. PICK u \in Threads :
          /\ stack'[u] # <<>>
          /\ \/ Top(u)'.at \in {"on_watch", "restore"} /\ Top(u)'.val.op = o
             \/ stack'[u][1].wf /\ stack'[u][1].op = o
    BY <1>s DEF HazardWatched, Top
  <1>3. CASE u # t
    <2>1. stack'[u] = stack[u]
      BY <1>0, <1>3, SameBusy
    <2>2. HazardWatched(o)
      BY <1>2, <2>1 DEF HazardWatched, Top
    <2> QED
      BY <1>1, <2>2
  <1>4. CASE u = t /\ stack'[t][1].wf /\ stack'[t][1].op = o
    <2>1. stack[t] # <<>> /\ stack[t][1].op = o /\ stack[t][1].wf
      BY <1>4 DEF Careful, BottomKept
    <2> QED
      BY <1>1, <2>1 DEF HazardWatched
  <1>5. CASE u = t /\ Top(t)'.at \in {"on_watch", "restore"} /\ Top(t)'.val.op = o
    <2> DEFINE f == Top(t)
    <2>1. /\ f.val \in Helpers /\ f.val.op = o /\ stack[t] # <<>>
          /\ \/ f.at = "on_watch"
             \/ f.at = "watch" /\ mem[Address(f)] = f.val /\ Address(f) \in Addrs
      BY <1>5 DEF Careful, TopWatches, BottomKept
    <2>2. f.at # "on_watch"
      BY <1>1, <2>1 DEF HazardWatched
    <2>3. f.at = "watch" /\ mem[Address(f)] = f.val /\ Address(f) \in Addrs
      BY <2>1, <2>2
    <2>4. Held(f.val) # f.val
      BY <1>1, <2>1, <2>3, FoundIsThere
    <2>5. InHand(f.val) /\ f.val.by \in Threads
      BY <1>0, <2>1, <2>3, <2>4 DEF LateHelpers, Helpers
    <2>6. f.val.by # t
      BY <2>3, <2>5 DEF InHand
    <2>7. f.val.by # w /\ t # w
      BY <1>1, <2>1, <2>5 DEF InHand
    <2> QED
      BY <2>5, <2>6, <2>7, Three
  <1> QED
    BY <1>2, <1>3, <1>4, <1>5

LEMMA StepSpares ==
  ASSUME Cardinality(Threads) <= 2, FInv, NEW t \in Threads, Step(t)
  PROVE  FInv'
  <1>0. IInv /\ Types /\ Control /\ AllSpared /\ Bottoms /\ OwnSpared /\ TablesOwn /\ ScansIdle
    BY FInvIs
  <1>1. RInv' /\ Good(t) /\ Frozen /\ Access(t)
    BY StepKnows DEF FInv, Step
  <1>2. Effect(t) /\ Moves(t) /\ op' = op /\ cas_rows_' = cas_rows_
    BY <1>1 DEF Good, Frozen
  <1>3. Careful(t)
    BY <1>1, AccessCareful
  <1>4. UNCHANGED reclamation
    BY <1>0, <1>1, <1>2, AccessGood
  <1>5. LateHelpers'
    BY <1>1, <1>2, LateKept
  <1>6. ScansUnwatched'
    BY <1>2, <1>3, <1>4, UnwatchedKept
  <1>7. \A u \in Threads : (stack'[u] = <<>> <=> stack[u] = <<>>) /\ (u # t => stack'[u] = stack[u])
    BY <1>0, <1>2, SameBusy
  <1>8. deleted' = deleted /\ retired' = retired /\ unchecked' = unchecked /\ scan' = scan
    BY <1>4 DEF reclamation
  <1>9. \A f : Spared(f)' <=> Spared(f)
    BY <1>8 DEF Spared
  <1>10. AllSpared'
    <2> SUFFICES ASSUME NEW u \in Threads, NEW k \in 1 .. Len(stack'[u]) PROVE Spared(stack'[u][k])
      BY <1>9 DEF AllSpared
    <2>1. CASE u = t
      BY <1>3, <2>1 DEF Careful, StackSpared
    <2>2. CASE u # t
      BY <1>0, <1>7, <2>2 DEF AllSpared
    <2> QED
      BY <2>1, <2>2
  <1>11. Bottoms'
    <2> SUFFICES ASSUME NEW u \in Threads, stack'[u] # <<>>
                 PROVE  stack'[u][1].op = op[u] \/ stack'[u][1].wf
      BY <1>2 DEF Bottoms
    <2>1. stack[u] # <<>> /\ (stack[u][1].op = op[u] \/ stack[u][1].wf)
      BY <1>0, <1>7 DEF Bottoms
    <2>2. CASE u = t
      BY <1>3, <2>1, <2>2 DEF Careful, BottomKept
    <2>3. CASE u # t
      BY <1>7, <2>1, <2>3
    <2> QED
      BY <2>2, <2>3
  <1>12. OwnSpared'
    BY <1>0, <1>2, <1>8 DEF OwnSpared
  <1>13. TablesOwn'
    <2> SUFFICES ASSUME NEW u \in Threads PROVE TableOwn(u)'
      BY DEF TablesOwn
    <2>1. CASE u = t
      BY <1>3, <2>1 DEF Careful
    <2>2. CASE u # t
      <3>1. op_table_'[u] = op_table_[u] /\ stack'[u] = stack[u] /\ TableOwn(u)
        BY <1>0, <1>3, <1>7, <2>2 DEF Careful, TablesOwn
      <3> QED
        BY <1>2, <3>1 DEF TableOwn
    <2> QED
      BY <2>1, <2>2
  <1>14. ScansIdle'
    BY <1>0, <1>7, <1>8 DEF ScansIdle
  <1> QED
    BY <1>1, <1>5, <1>6, <1>10, <1>11, <1>12, <1>13, <1>14 DEF FInv

-----------------------------------------------------------------------------
(* Calls, their ends and the scans keep what is used                       *)

LEMMA EmptiedIsOld ==
  ASSUME FInv, NEW o \in Ops, RowCount(o) = 0
  PROVE  o \notin deleted /\ \A u \in Threads : o \notin retired[u]
  <1>1. Retirement /\ FreshRows
    BY FInvIs DEF Control
  <1>2. ~Emptied(o)
    BY <1>1 DEF FreshRows, Emptied
  <1> QED
    BY <1>1, <1>2 DEF Retirement

LEMMA BeginSpares ==
  ASSUME FInv, RInv', NEW t \in Threads, stack[t] = <<>>, unchecked[t] = {}, mem' = mem,
         helper_' = helper_, UNCHANGED reclamation, op_table_' = op_table_,
         NEW f, stack' = [stack EXCEPT ![t] = <<f>>], f.at = "load", f.op \notin deleted,
         f.op = op'[t] \/ f.wf,
         f.wf => \A u \in Threads : f.op \notin retired[u],
         \A u \in Threads : u # t => op'[u] = op[u],
         op'[t] # Null => op'[t] \notin deleted /\ \A u \in Threads : op'[t] \notin retired[u]
  PROVE  FInv'
  <1>0. /\ Types /\ AllSpared /\ Bottoms /\ OwnSpared /\ TablesOwn /\ ScansIdle /\ LateHelpers
        /\ ScansUnwatched /\ Retirement
    BY FInvIs
  <1>1. deleted' = deleted /\ retired' = retired /\ unchecked' = unchecked /\ scan' = scan
    BY DEF reclamation
  <1>2. stack'[t] = <<f>> /\ \A u \in Threads : u # t => stack'[u] = stack[u]
    BY <1>0 DEF Types
  <1>3. /\ Len(stack'[t]) = 1 /\ stack'[t][1] = f /\ stack'[t] # <<>> /\ Top(t)' = f
        /\ \A k \in 1 .. Len(stack'[t]) : stack'[t][k] = f
    BY <1>2 DEF Top
  <1>4. Spared(f)' /\ \A g : Spared(g)' <=> Spared(g)
    BY <1>1 DEF Spared, Using
  <1>5. AllSpared'
    BY <1>0, <1>2, <1>3, <1>4 DEF AllSpared
  <1>6. Bottoms'
    BY <1>0, <1>2, <1>3 DEF Bottoms
  <1>7. OwnSpared'
    BY <1>0, <1>1 DEF OwnSpared
  <1>8. TablesOwn'
    <2> SUFFICES ASSUME NEW u \in Threads PROVE TableOwn(u)'
      BY DEF TablesOwn
    <2>1. TableOwn(u)
      BY <1>0 DEF TablesOwn
    <2>2. CASE u = t
      BY <2>1, <2>2 DEF TableOwn
    <2>3. CASE u # t
      BY <1>2, <2>1, <2>3 DEF TableOwn
    <2> QED
      BY <2>2, <2>3
  <1>9. ScansIdle'
    BY <1>0, <1>1, <1>2 DEF ScansIdle
  <1>10. LateHelpers'
    <2> SUFFICES ASSUME NEW a \in Addrs, NEW h \in Helpers, mem[a] = h, Held(h) # h PROVE InHand(h)'
      BY DEF LateHelpers, Held
    <2>1. InHand(h) /\ h.by \in Threads
      BY <1>0 DEF LateHelpers, Helpers
    <2>2. stack'[h.by] = stack[h.by]
      BY <1>2, <2>1 DEF InHand
    <2> QED
      BY <2>1, <2>2 DEF InHand, Top
  <1>11. ScansUnwatched'
    <2> SUFFICES ASSUME NEW w \in Threads, scan[w] # Null, HazardWatched(scan[w])' PROVE FALSE
      BY <1>1 DEF ScansUnwatched, HazardWatched
    <2> DEFINE o == scan[w]
    <2>1. ~HazardWatched(o) /\ o \in retired[w] /\ scan'[w] = o
      BY <1>0, <1>1 DEF ScansUnwatched, Retirement
    <2>2. PICK u \in Threads :
            /\ stack'[u] # <<>>
            /\ \/ Top(u)'.at \in {"on_watch", "restore"} /\ Top(u)'.val.op = o
               \/ stack'[u][1].wf /\ stack'[u][1].op = o
      BY <2>1 DEF HazardWatched, Top
    <2>3. CASE u = t
      BY <1>3, <2>1, <2>2, <2>3
    <2>4. CASE u # t
      <3>1. stack'[u] = stack[u] /\ Top(u)' = Top(u)
        BY <1>2, <2>4 DEF Top
      <3> QED
        BY <2>1, <2>2, <3>1 DEF HazardWatched
    <2> QED
      BY <2>3, <2>4
  <1> QED
    BY <1>5, <1>6, <1>7, <1>8, <1>9, <1>10, <1>11 DEF FInv

LEMMA ExecuteSpares ==
  ASSUME FInv, NEW t \in Threads, CallExecute(t)
  PROVE  FInv'
  <1>0. IInv /\ Types /\ OwnSpared /\ TablesOwn /\ RInv
    BY FInvIs
  <1>1. RInv'
    BY <1>0, ExecuteKnows
  <1>2. PICK o \in Ops :
          /\ \A p \in Ops : RowCount(p) = 0 <=> p >= o
          /\ op' = [op EXCEPT ![t] = o]
          /\ \E p \in ({o} \cup {op_table_[u] : u \in Threads}) \ {Null} :
               stack' = [stack EXCEPT ![t] = <<Frame(p, 1, p # o)>>]
    BY Zenon DEF CallExecute
  <1>3. PICK p \in ({o} \cup {op_table_[u] : u \in Threads}) \ {Null} :
          stack' = [stack EXCEPT ![t] = <<Frame(p, 1, p # o)>>]
    BY <1>2
  <1>4. RowCount(o) = 0
    <2>1. o >= o
      BY DEF Ops
    <2> QED
      BY <1>2, <2>1
  <1>5. o \notin deleted /\ \A u \in Threads : o \notin retired[u]
    BY <1>4, EmptiedIsOld
  <1>6. op'[t] = o /\ \A u \in Threads : u # t => op'[u] = op[u]
    BY <1>0, <1>2 DEF Types
  <1>7. p \notin deleted /\ \A u \in Threads : p \notin retired[u]
    <2>1. CASE p = o
      BY <1>5, <2>1
    <2>2. ASSUME NEW u \in Threads, p = op_table_[u], p # Null
          PROVE  p \notin deleted /\ \A v \in Threads : p \notin retired[v]
      <3>1. p = op[u] /\ op[u] # Null
        BY <1>0, <2>2 DEF TablesOwn, TableOwn
      <3> QED
        BY <1>0, <3>1 DEF OwnSpared
    <2> QED
      BY <2>1, <2>2
  <1> DEFINE f == Frame(p, 1, p # o)
  <1>8. f.at = "load" /\ f.op = p /\ (f.op = o \/ f.wf)
    <2>1. p \in Ops \cup {Null} /\ 1 \in Int /\ (p # o) \in BOOLEAN
      BY <1>0 DEF Types
    <2>2. Fields(f, p, 1, "load", p # o, Null, FALSE)
      BY <2>1, FreshFrame
    <2> QED
      BY <2>2 DEF Fields
  <1>9. /\ stack[t] = <<>> /\ unchecked[t] = {} /\ mem' = mem /\ helper_' = helper_
        /\ UNCHANGED reclamation /\ op_table_' = op_table_
    BY DEF CallExecute
  <1>10. stack' = [stack EXCEPT ![t] = <<f>>]
    BY <1>3
  <1> HIDE DEF f
  <1> QED
    BY <1>1, <1>5, <1>6, <1>7, <1>8, <1>9, <1>10, BeginSpares

LEMMA ReadSpares ==
  ASSUME FInv, NEW t \in Threads, CallRead(t)
  PROVE  FInv'
  <1>0. IInv /\ Types /\ Control /\ RInv
    BY FInvIs
  <1>1. RInv'
    BY <1>0, ReadKnows
  <1>2. PICK a \in ReadAddrs : stack' = [stack EXCEPT ![t] = <<ReadFrame(a)>>]
    BY DEF CallRead
  <1>3. /\ stack[t] = <<>> /\ unchecked[t] = {} /\ mem' = mem /\ helper_' = helper_ /\ op' = op
        /\ UNCHANGED reclamation /\ op_table_' = op_table_
    BY DEF CallRead
  <1>4. op[t] = Null
    BY <1>0, <1>3 DEF Control, Shapes, Caller
  <1>5. Null \notin deleted
    BY <1>4, OwnIsThere
  <1>6. ReadFrame(a).at = "load" /\ ReadFrame(a).op = Null /\ ~ReadFrame(a).wf
    BY AddrsAssumption, FreshReadFrame DEF Fields
  <1> DEFINE f == ReadFrame(a)
  <1>7. stack' = [stack EXCEPT ![t] = <<f>>] /\ f.at = "load" /\ f.op = Null /\ ~f.wf
    BY <1>2, <1>6
  <1> HIDE DEF f
  <1> QED
    BY <1>1, <1>3, <1>4, <1>5, <1>7, BeginSpares

LEMMA ReturnSpares ==
  ASSUME FInv, NEW t \in Threads, Return(t)
  PROVE  FInv'
  <1>0. /\ IInv /\ Types /\ AllSpared /\ Bottoms /\ OwnSpared /\ TablesOwn /\ ScansIdle /\ LateHelpers
        /\ ScansUnwatched /\ Retirement /\ OneOwner /\ Control /\ RInv
    BY FInvIs
  <1>1. RInv'
    BY <1>0, ReturnKnows
  <1>2. /\ stack' = [stack EXCEPT ![t] = <<>>] /\ op' = [op EXCEPT ![t] = Null]
        /\ retired' = [retired EXCEPT ![t] = @ \cup ({op[t]} \ {Null})]
        /\ mem' = mem /\ helper_' = helper_ /\ op_table_' = op_table_ /\ scan' = scan /\ deleted' = deleted
        /\ \A u \in Threads : u # t => unchecked'[u] = unchecked[u]
    BY <1>0 DEF Return, Types
  <1>3. PICK f : Here(t, f) /\ f.at = "done"
    <2>1. stack[t] # <<>> /\ Top(t).at = "done"
      BY DEF Return, At
    <2>2. PICK f : Here(t, f)
      BY <1>0, <2>1, HereIs
    <2> QED
      BY <2>1, <2>2 DEF Here, Stands
  <1>4. stack[t] # <<>> /\ Top(t) = f /\ stack[t][1] = f
    <2>1. Len(stack[t]) = 1 /\ f = stack[t][Len(stack[t])]
      BY <1>0, <1>3, HereFacts
    <2> QED
      BY <1>3, <2>1 DEF Here, Stands
  <1>5. stack'[t] = <<>> /\ op'[t] = Null /\ \A u \in Threads : u # t =>
          stack'[u] = stack[u] /\ op'[u] = op[u] /\ retired'[u] = retired[u]
    BY <1>0, <1>2 DEF Types
  <1>6. \A u \in Threads : \A o : o \in retired'[u] => o \in retired[u] \/ (u = t /\ o = op[t])
    BY <1>0, <1>2, <1>5 DEF Types
  <1>7. scan[t] = Null
    BY <1>0, <1>4 DEF ScansIdle
  <1>8. AllSpared'
    <2>1. \A g : Spared(g)' <=> Spared(g)
      BY <1>2 DEF Spared
    <2>2. \A k \in 1 .. Len(stack'[t]) : FALSE
      BY <1>5
    <2> QED
      BY <1>0, <1>5, <2>1, <2>2 DEF AllSpared
  <1>9. Bottoms'
    BY <1>0, <1>5 DEF Bottoms
  <1>10. OwnSpared'
    <2> SUFFICES ASSUME NEW u \in Threads, op'[u] # Null
                 PROVE  op'[u] \notin deleted /\ \A w \in Threads : op'[u] \notin retired'[w]
      BY <1>2 DEF OwnSpared
    <2>1. u # t /\ op'[u] = op[u]
      BY <1>5
    <2>2. op[u] # op[t]
      BY <1>0, <2>1 DEF OneOwner
    <2> QED
      BY <1>0, <1>6, <2>1, <2>2 DEF OwnSpared
  <1>11. TablesOwn'
    <2> SUFFICES ASSUME NEW u \in Threads PROVE TableOwn(u)'
      BY DEF TablesOwn
    <2>1. TableOwn(u)
      BY <1>0 DEF TablesOwn
    <2>2. CASE u = t
      BY <1>2, <1>3, <1>4, <2>1, <2>2 DEF TableOwn
    <2>3. CASE u # t
      BY <1>2, <1>5, <2>1, <2>3 DEF TableOwn
    <2> QED
      BY <2>2, <2>3
  <1>12. ScansIdle'
    BY <1>0, <1>2, <1>5, <1>7 DEF ScansIdle
  <1>13. LateHelpers'
    <2> SUFFICES ASSUME NEW a \in Addrs, NEW h \in Helpers, mem[a] = h, Held(h) # h PROVE InHand(h)'
      BY <1>2 DEF LateHelpers, Held
    <2>1. InHand(h) /\ h.by \in Threads
      BY <1>0 DEF LateHelpers, Helpers
    <2>2. h.by # t
      BY <1>3, <1>4, <2>1 DEF InHand
    <2>3. stack'[h.by] = stack[h.by]
      BY <1>5, <2>1, <2>2
    <2> QED
      BY <2>1, <2>3 DEF InHand, Top
  <1>14. ScansUnwatched'
    <2> SUFFICES ASSUME NEW w \in Threads, scan[w] # Null, HazardWatched(scan[w])' PROVE FALSE
      BY <1>2 DEF ScansUnwatched, HazardWatched
    <2> DEFINE o == scan[w]
    <2>1. ~HazardWatched(o) /\ scan'[w] = o
      BY <1>0, <1>2 DEF ScansUnwatched
    <2>2. PICK u \in Threads :
            /\ stack'[u] # <<>>
            /\ \/ Top(u)'.at \in {"on_watch", "restore"} /\ Top(u)'.val.op = o
               \/ stack'[u][1].wf /\ stack'[u][1].op = o
      BY <2>1 DEF HazardWatched, Top
    <2>3. stack'[u] = stack[u] /\ Top(u)' = Top(u)
      BY <1>5, <2>2 DEF Top
    <2> QED
      BY <2>1, <2>2, <2>3 DEF HazardWatched
  <1> QED
    BY <1>1, <1>8, <1>9, <1>10, <1>11, <1>12, <1>13, <1>14 DEF FInv

\* What the stacks, the rows and memory tell stays, while only scans go on.
LEMMA ScanSpares ==
  ASSUME FInv, RInv', UNCHANGED <<mem, cas_rows_, helper_, state_, op_table_, op, stack, held>>,
         AllSpared', OwnSpared', ScansIdle', ScansUnwatched'
  PROVE  FInv'
  <1>0. Bottoms /\ TablesOwn /\ LateHelpers
    BY FInvIs
  <1>1. Bottoms'
    BY <1>0 DEF Bottoms
  <1>2. TablesOwn'
    BY <1>0 DEF TablesOwn, TableOwn
  <1>3. LateHelpers'
    BY <1>0 DEF LateHelpers, InHand, Held, Top
  <1> QED
    BY <1>1, <1>2, <1>3 DEF FInv

LEMMA StartSpares ==
  ASSUME FInv, NEW t \in Threads, StartScan(t)
  PROVE  FInv'
  <1>0. /\ Types /\ AllSpared /\ OwnSpared /\ ScansIdle /\ ScansUnwatched /\ RInv
    BY FInvIs
  <1>1. RInv' /\ UNCHANGED <<mem, cas_rows_, helper_, state_, op_table_, op, stack, held, retired, deleted>>
    BY <1>0, ScanKnows DEF StartScan
  <1>2. PICK o \in unchecked[t] :
          IF HazardWatched(o) THEN Check(t, o) /\ scan' = scan
          ELSE scan' = [scan EXCEPT ![t] = o] /\ unchecked' = unchecked
    BY DEF StartScan
  <1>3. AllSpared' /\ OwnSpared'
    BY <1>0, <1>1 DEF AllSpared, Spared, OwnSpared
  <1>4. \A p : HazardWatched(p)' <=> HazardWatched(p)
    BY <1>1 DEF HazardWatched, Top
  <1>5. scan[t] = Null
    BY DEF StartScan
  <1>6. CASE HazardWatched(o)
    <2>1. /\ scan' = scan /\ unchecked'[t] = unchecked[t] \ {o}
          /\ \A u \in Threads : u # t => unchecked'[u] = unchecked[u]
      BY <1>0, <1>2, <1>6 DEF Check, Types
    <2>2. ScansIdle'
      BY <1>0, <1>1, <1>5, <2>1 DEF ScansIdle
    <2>3. ScansUnwatched'
      BY <1>0, <1>1, <2>1 DEF ScansUnwatched, HazardWatched, Top
    <2> QED
      BY <1>1, <1>3, <2>2, <2>3, ScanSpares
  <1>7. CASE ~HazardWatched(o)
    <2>1. /\ scan'[t] = o /\ unchecked' = unchecked
          /\ \A u \in Threads : u # t => scan'[u] = scan[u]
      BY <1>0, <1>2, <1>7 DEF Types
    <2>2. ScansIdle'
      BY <1>0, <1>1, <2>1 DEF ScansIdle
    <2>3. ScansUnwatched'
      <3>1. \A u \in Threads : scan'[u] # Null => ~HazardWatched(scan'[u])
        BY <1>0, <1>7, <2>1 DEF ScansUnwatched
      <3> QED
        BY <1>1, <3>1 DEF ScansUnwatched, HazardWatched, Top
    <2> QED
      BY <1>1, <1>3, <2>2, <2>3, ScanSpares
  <1> QED
    BY <1>6, <1>7

\* What no watch, no count and no stack holds on to is used by nobody.
LEMMA NobodyUses ==
  ASSUME FInv, NEW o \in Ops, Emptied(o), ~HazardWatched(o), ~OnIsWatched(o),
         \A u \in Threads : op[u] # o,
         NEW t \in Threads, NEW k \in 1 .. Len(stack[t]), NEW f, f = stack[t][k]
  PROVE  f.op # o /\ (f.at \in Using => f.val.op # o)
  <1>0. Types /\ Control /\ IInv /\ Bottoms /\ FramesOk /\ Shapes
    BY FInvIs DEF IInv, Control
  <1>n. o # Null /\ Len(stack[t]) \in Nat
    BY <1>0, WordsAssumption DEF Types
  \* Under a reference count.
  <1>1. ASSUME NEW i \in 1 .. Len(stack[t]), NEW g, g = stack[t][i], g.at \in Using,
               g.at \notin {"on_watch", "restore"}
        PROVE  g.val.op # o
    <2>1. FrameShape(g) /\ FrameOk(t, g)
      BY <1>0, <1>1 DEF Shapes, FramesOk
    <2>2. g.val \in Helpers /\ g.val.row \in Rows(g.val.op)
      BY <1>1, <2>1 DEF FrameShape, Meeting, Using, WordAt
    <2>3. helper_[g.val.op][g.val.row] = g.val
      BY <1>1, <2>1 DEF FrameOk, Using, Held
    <2>4. Counted(g.val)
      BY <1>1 DEF Counted, Using
    <2>5. g.val # FAIL_CONST
      BY <2>2, WordsAssumption
    <2> QED
      BY <2>2, <2>3, <2>4, <2>5 DEF OnIsWatched, Rows
  \* Under a watch: only the topmost activation is there.
  <1>2. ASSUME f.at \in {"on_watch", "restore"}
        PROVE  f.val.op # o
    <2>1. k = Len(stack[t])
      <3> SUFFICES ASSUME k # Len(stack[t]) PROVE FALSE
        OBVIOUS
      <3>1. k + 1 \in 1 .. Len(stack[t]) /\ k + 1 > 1 /\ (k + 1) - 1 = k
        BY <1>n
      <3>2. f.at \in {"helping", "announced"}
        BY <3>1, WaitsFor
      <3> QED
        BY <1>2, <3>2
    <2>2. f = Top(t) /\ stack[t] # <<>>
      BY <1>n, <2>1 DEF Top
    <2> QED
      BY <1>2, <2>2 DEF HazardWatched
  \* Its own operation at the bottom, or one it has a watch on.
  <1>3. stack[t] # <<>> => stack[t][1].op # o
    <2> SUFFICES ASSUME stack[t] # <<>>, stack[t][1].op = o PROVE FALSE
      OBVIOUS
    <2>1. op[t] = o \/ stack[t][1].wf
      BY <1>0 DEF Bottoms
    <2> QED
      BY <2>1 DEF HazardWatched
  <1>4. f.op # o
    <2>1. CASE k = 1
      <3>1. stack[t] # <<>>
        BY <1>n, <2>1
      <3> QED
        BY <1>3, <2>1, <3>1
    <2>2. CASE k > 1
      <3>1. PICK g : g = stack[t][k - 1]
        OBVIOUS
      <3>2. Link(g, f, k - 1) /\ k - 1 \in 1 .. Len(stack[t])
        BY <2>2, <3>1, WaitsFor
      <3>3. CASE g.at = "helping" /\ f.op = g.val.op
        <4>1. g.at \in Using
          BY <3>3 DEF Using
        <4> QED
          BY <1>1, <3>1, <3>2, <3>3, <4>1
      <3>4. CASE k - 1 = 1 /\ f.op = g.op
        <4>1. stack[t] # <<>>
          BY <1>n, <2>2
        <4> QED
          BY <1>3, <3>1, <3>4, <4>1
      <3> QED
        BY <3>2, <3>3, <3>4 DEF Link
    <2>3. k \in Nat /\ k >= 1
      BY <1>n
    <2> QED
      BY <2>1, <2>2, <2>3
  <1> QED
    BY <1>1, <1>2, <1>4 DEF Using

LEMMA FinishSpares ==
  ASSUME FInv, NEW t \in Threads, FinishScan(t)
  PROVE  FInv'
  <1>0. /\ Types /\ AllSpared /\ OwnSpared /\ ScansIdle /\ ScansUnwatched /\ Retirement /\ RInv
    BY FInvIs
  <1>1. RInv' /\ UNCHANGED <<mem, cas_rows_, helper_, state_, op_table_, op, stack, held>>
    BY <1>0, ScanKnows DEF FinishScan
  <1>2. /\ scan[t] # Null /\ scan'[t] = Null /\ unchecked'[t] = unchecked[t] \ {scan[t]}
        /\ \A u \in Threads : u # t => unchecked'[u] = unchecked[u] /\ scan'[u] = scan[u]
    BY <1>0 DEF FinishScan, Check, Types
  <1> DEFINE o == scan[t]
  <1>3. o \in Ops /\ o \in retired[t] /\ Emptied(o) /\ ~HazardWatched(o)
    BY <1>0, <1>2 DEF Types, Retirement, ScansUnwatched
  <1>4. \/ retired' = retired /\ deleted' = deleted
        \/ ~OnIsWatched(o) /\ deleted' = deleted \cup {o} /\ retired' = [retired EXCEPT ![t] = @ \ {o}]
    BY DEF FinishScan
  <1>5. \A u \in Threads : retired'[u] \subseteq retired[u]
    BY <1>0, <1>4 DEF Types
  <1>6. \A u \in Threads : op[u] # o
    <2>1. o # Null
      BY <1>2
    <2> QED
      BY <1>0, <1>3, <2>1 DEF OwnSpared
  <1>7. AllSpared'
    <2> SUFFICES ASSUME NEW u \in Threads, NEW k \in 1 .. Len(stack[u]), NEW f, f = stack[u][k]
                 PROVE  f.op \notin deleted' /\ (f.at \in Using => f.val.op \notin deleted')
      BY <1>1 DEF AllSpared, Spared
    <2>1. f.op \notin deleted /\ (f.at \in Using => f.val.op \notin deleted)
      BY <1>0 DEF AllSpared, Spared
    <2>2. CASE deleted' = deleted
      BY <2>1, <2>2
    <2>3. CASE ~OnIsWatched(o) /\ deleted' = deleted \cup {o}
      <3>1. f.op # o /\ (f.at \in Using => f.val.op # o)
        BY <1>3, <1>6, <2>3, NobodyUses
      <3> QED
        BY <2>1, <2>3, <3>1
    <2> QED
      BY <1>4, <2>2, <2>3
  <1>8. OwnSpared'
    BY <1>0, <1>1, <1>4, <1>5, <1>6 DEF OwnSpared
  <1>9. ScansIdle'
    BY <1>0, <1>1, <1>2 DEF ScansIdle
  <1>10. ScansUnwatched'
    <2>1. \A u \in Threads : scan'[u] # Null => ~HazardWatched(scan'[u])
      BY <1>0, <1>2 DEF ScansUnwatched
    <2> QED
      BY <1>1, <2>1 DEF ScansUnwatched, HazardWatched, Top
  <1> QED
    BY <1>1, <1>7, <1>8, <1>9, <1>10, ScanSpares

LEMMA FInit == Init => FInv
  <1> SUFFICES ASSUME Init PROVE FInv
    OBVIOUS
  <1>1. /\ \A t \in Threads : /\ op[t] = Null /\ stack[t] = <<>> /\ scan[t] = Null
                              /\ unchecked[t] = {} /\ op_table_[t] = Null
        /\ deleted = {} /\ mem \in [Addrs -> Values]
    BY DEF Init
  <1>2. RInv
    BY RInit
  <1>3. AllSpared /\ Bottoms
    <2>1. \A t \in Threads : \A k \in 1 .. Len(stack[t]) : FALSE
      BY <1>1
    <2> QED
      BY <1>1, <2>1 DEF AllSpared, Bottoms
  <1>4. OwnSpared /\ ScansIdle /\ ScansUnwatched
    BY <1>1 DEF OwnSpared, ScansIdle, ScansUnwatched
  <1>5. TablesOwn
    BY <1>1 DEF TablesOwn, TableOwn
  <1>6. LateHelpers
    BY <1>1, WordsAssumption DEF LateHelpers
  <1> QED
    BY <1>2, <1>3, <1>4, <1>5, <1>6 DEF FInv

LEMMA FNextKept ==
  ASSUME Cardinality(Threads) <= 2, FInv, [Next]_vars
  PROVE  FInv'
  <1>0. RInv
    BY FInvIs
  <1>1. ASSUME NEW t \in Threads, CallExecute(t) PROVE FInv'
    BY <1>1, ExecuteSpares
  <1>2. ASSUME NEW t \in Threads, CallRead(t) PROVE FInv'
    BY <1>2, ReadSpares
  <1>3. ASSUME NEW t \in Threads, Step(t) PROVE FInv'
    BY <1>3, StepSpares
  <1>4. ASSUME NEW t \in Threads, Return(t) PROVE FInv'
    BY <1>4, ReturnSpares
  <1>5. ASSUME NEW t \in Threads, StartScan(t) PROVE FInv'
    BY <1>5, StartSpares
  <1>6. ASSUME NEW t \in Threads, FinishScan(t) PROVE FInv'
    BY <1>6, FinishSpares
  <1>7. CASE UNCHANGED vars
    <2>1. /\ UNCHANGED <<mem, cas_rows_, helper_, state_, op_table_, op, stack, held>>
          /\ retired' = retired /\ unchecked' = unchecked /\ scan' = scan /\ deleted' = deleted
      BY <1>7 DEF vars
    <2>2. RInv'
      BY <1>0, <1>7, RNextKept
    <2>3. AllSpared /\ OwnSpared /\ ScansIdle /\ ScansUnwatched
      BY FInvIs
    <2>4. AllSpared' /\ OwnSpared' /\ ScansIdle' /\ ScansUnwatched'
      BY <2>1, <2>3 DEF AllSpared, Spared, OwnSpared, ScansIdle, ScansUnwatched, HazardWatched, Top
    <2> QED
      BY <2>1, <2>2, <2>4, ScanSpares
  <1> QED
    BY <1>1, <1>2, <1>3, <1>4, <1>5, <1>6, <1>7 DEF Next

(* No activation, of mcas_complete or of read, uses an operation whose     *)
(* memory safe_delete gave back: neither its own, nor the one of the       *)
(* Helper it met.  For two threads: a third one, see NoUseAfterFree, can   *)
(* break it.                                                               *)
THEOREM NothingDeletedIsUsed ==
  ASSUME Cardinality(Threads) <= 2
  PROVE  Spec => []NoUseAfterFree
  <1>1. Init => FInv
    BY FInit
  <1>2. FInv /\ [Next]_vars => FInv'
    BY FNextKept
  <1>3. FInv => NoUseAfterFree
    <2> SUFFICES ASSUME FInv PROVE NoUseAfterFree
      OBVIOUS
    <2>1. AllSpared
      BY FInvIs
    <2> QED
      BY <2>1 DEF AllSpared, Spared, NoUseAfterFree, Using
  <1> QED
    BY <1>1, <1>2, <1>3, PTL DEF Spec
=============================================================================
