------------------------------- MODULE MRLock -------------------------------
(***************************************************************************)
(* The multi-resource lock of algorithms/mrlock: Lock takes a position of  *)
(* a bounded queue, writes the wanted resources in its cell and waits for  *)
(* every earlier cell that wants one of them; Unlock empties the cell and  *)
(* takes released cells off the head of the queue.                         *)
(*                                                                         *)
(* One action per access of a shared word.  Positions are 32-bit words of  *)
(* the code; here they count modulo Word.  A set of resources stands for   *)
(* the bit mask, Resources for ~0.                                         *)
(***************************************************************************)
EXTENDS Integers, Sequences, SequencesExt

CONSTANTS
  Threads,      \* the threads that lock and unlock
  Resources,    \* what the lock guards
  Requests,     \* the sets of resources the threads ask for
  CellCount,    \* the cells of m_buffer, a power of two
  Word,         \* positions count modulo Word
  Starts,       \* where the first position may be
  MaxLocks      \* bound: the calls of Lock

ASSUME CellCountAssumption == CellCount \in Nat /\ CellCount >= 2
ASSUME WordAssumption == Word \in Nat /\ Word >= 2 * CellCount /\ Word % CellCount = 0
ASSUME ResourcesAssumption == Resources # {}
ASSUME RequestsAssumption == Requests \subseteq ((SUBSET Resources) \ {{}})
ASSUME MaxLocksAssumption == MaxLocks \in Nat

VARIABLES
  m_head,       \* the oldest position not yet taken off
  m_tail,       \* the next position to give out
  m_sequence,   \* per cell: which position it waits for, or holds
  m_bits,       \* per cell: the resources its request wants
  at,           \* per thread: the access it makes next
  resources,    \* per thread: its request
  pos,          \* per thread: its position, or in Unlock the head it read
  handle,       \* per thread: what Lock returned
  spinPos,      \* per thread: the position it waits for in Lock
  queue,        \* history: the threads that got a position and did not begin
                \* to unlock, in the order they got it
  calls         \* the calls of Lock so far

vars == <<m_head, m_tail, m_sequence, m_bits, at, resources, pos, handle,
          spinPos, queue, calls>>

Positions == 0 .. Word - 1
ASSUME StartsAssumption == Starts \subseteq Positions
Cells == 0 .. CellCount - 1
Mask == CellCount - 1

\* Sum and difference of two words.
Plus(p, n) == (p + n) % Word
Less(p, q) == (p - q) % Word

CellOf(p) == p % CellCount

-----------------------------------------------------------------------------
(***************************************************************************)
(* The constructor leaves start = 0.  Any other start is the state after   *)
(* start calls of Lock that were all unlocked, each cell ready for the     *)
(* first position from start on that falls on it.                          *)
(***************************************************************************)
\* A cell without a request holds all ones, so that nobody passes the one who
\* takes it next before that one wrote its bits.  (The Forgotten operators are
\* faults the properties must detect.)
InitialBitsForgotten == {}
InitialBits == Resources

\* What a cell holds again when it is taken off the queue.
FreeBitsForgotten == {}
FreeBits == Resources

InitAt(start) ==
  /\ m_head = start
  /\ m_tail = start
  /\ m_sequence = [c \in Cells |-> Plus(start, (c - start) % CellCount)]
  /\ m_bits = [c \in Cells |-> InitialBits]
  /\ at = [t \in Threads |-> "idle"]
  /\ resources = [t \in Threads |-> {}]
  /\ pos = [t \in Threads |-> 0]
  /\ handle = [t \in Threads |-> 0]
  /\ spinPos = [t \in Threads |-> 0]
  /\ queue = <<>>
  /\ calls = 0

Init == \E start \in Starts : InitAt(start)

\* Thread t goes from one access to the next.
Goes(t, from, to) == at[t] = from /\ at' = [at EXCEPT ![t] = to]

lockVars == <<m_head, m_tail, m_sequence, m_bits>>
ticketVars == <<resources, handle, queue, calls>>

-----------------------------------------------------------------------------
(* Lock                                                                    *)

CallLock(t) ==
  /\ calls < MaxLocks
  /\ Goes(t, "idle", "load tail")
  /\ \E r \in Requests : resources' = [resources EXCEPT ![t] = r]
  /\ calls' = calls + 1
  /\ UNCHANGED <<lockVars, pos, handle, spinPos, queue>>

LoadTail(t) ==
  /\ Goes(t, "load tail", "load sequence")
  /\ pos' = [pos EXCEPT ![t] = m_tail]
  /\ UNCHANGED <<lockVars, ticketVars, spinPos>>

\* The cell is ready for this position, or the queue is full.
LoadSequence(t) ==
  /\ Goes(t, "load sequence",
          IF m_sequence[CellOf(pos[t])] = pos[t] THEN "take" ELSE "load tail")
  /\ UNCHANGED <<lockVars, ticketVars, pos, spinPos>>

Take(t) ==
  /\ m_tail = pos[t]
  /\ Goes(t, "take", "write bits")
  /\ m_tail' = Plus(pos[t], 1)
  /\ handle' = [handle EXCEPT ![t] = pos[t]]
  /\ queue' = Append(queue, t)
  /\ UNCHANGED <<m_head, m_sequence, m_bits, resources, pos, spinPos, calls>>

\* compare_exchange_weak: another thread was faster (or it failed for nothing,
\* which only repeats the round).
TakeFails(t) ==
  /\ m_tail # pos[t]
  /\ Goes(t, "take", "load tail")
  /\ UNCHANGED <<lockVars, ticketVars, pos, spinPos>>

WriteBits(t) ==
  /\ Goes(t, "write bits", "publish")
  /\ m_bits' = [m_bits EXCEPT ![CellOf(handle[t])] = resources[t]]
  /\ UNCHANGED <<m_head, m_tail, m_sequence, ticketVars, pos, spinPos>>

Publish(t) ==
  /\ Goes(t, "publish", "load head")
  /\ m_sequence' = [m_sequence EXCEPT ![CellOf(handle[t])] = Plus(handle[t], 1)]
  /\ UNCHANGED <<m_head, m_tail, m_bits, ticketVars, pos, spinPos>>

\* The wait is over when it reaches the thread's own position.
Waits(t, p) == IF p = handle[t] THEN "held" ELSE "see sequence"

LoadHead(t) ==
  /\ Goes(t, "load head", Waits(t, m_head))
  /\ spinPos' = [spinPos EXCEPT ![t] = m_head]
  /\ UNCHANGED <<lockVars, ticketVars, pos>>

\* spinPos++
Moves(t, from) ==
  /\ Goes(t, from, Waits(t, Plus(spinPos[t], 1)))
  /\ spinPos' = [spinPos EXCEPT ![t] = Plus(@, 1)]

\* The cell was taken off and is ready for a later position.
Passed(t) == Less(handle[t], m_sequence[CellOf(spinPos[t])]) > Mask

SeeSequence(t) ==
  /\ \/ Passed(t) /\ Moves(t, "see sequence")
     \/ ~Passed(t) /\ Goes(t, "see sequence", "see bits") /\ UNCHANGED spinPos
  /\ UNCHANGED <<lockVars, ticketVars, pos>>

\* The request in the cell that thread t waits for is in its way.
InTheWay(t) == m_bits[CellOf(spinPos[t])] \cap resources[t] # {}

SeeBits(t) ==
  /\ \/ ~InTheWay(t) /\ Moves(t, "see bits")
     \/ InTheWay(t) /\ Goes(t, "see bits", "see sequence") /\ UNCHANGED spinPos
  /\ UNCHANGED <<lockVars, ticketVars, pos>>

-----------------------------------------------------------------------------
(* Unlock                                                                  *)

Release(t) ==
  /\ Goes(t, "held", "head")
  /\ m_bits' = [m_bits EXCEPT ![CellOf(handle[t])] = {}]
  /\ \E i \in DOMAIN queue : queue[i] = t /\ queue' = RemoveAt(queue, i)
  /\ UNCHANGED <<m_head, m_tail, m_sequence, resources, handle, calls, pos, spinPos>>

FirstCell(t) ==
  /\ Goes(t, "head", "empty?")
  /\ pos' = [pos EXCEPT ![t] = m_head]
  /\ UNCHANGED <<lockVars, ticketVars, spinPos>>

\* while (!m_bits): a request in the first cell ends the call.
Released(p) == m_bits[CellOf(p)] = {}

Empty(t) ==
  /\ Goes(t, "empty?", IF Released(pos[t]) THEN "used?" ELSE "idle")
  /\ UNCHANGED <<lockVars, ticketVars, pos, spinPos>>

Used(t) ==
  /\ Goes(t, "used?",
          IF m_sequence[CellOf(pos[t])] = Plus(pos[t], 1) THEN "take off" ELSE "head")
  /\ UNCHANGED <<lockVars, ticketVars, pos, spinPos>>

TakeOff(t) ==
  /\ m_head = pos[t]
  /\ Goes(t, "take off", "fill")
  /\ m_head' = Plus(pos[t], 1)
  /\ UNCHANGED <<m_tail, m_sequence, m_bits, ticketVars, pos, spinPos>>

TakeOffFails(t) ==
  /\ m_head # pos[t]
  /\ Goes(t, "take off", "head")
  /\ UNCHANGED <<lockVars, ticketVars, pos, spinPos>>

Fill(t) ==
  /\ Goes(t, "fill", "recycle")
  /\ m_bits' = [m_bits EXCEPT ![CellOf(pos[t])] = FreeBits]
  /\ UNCHANGED <<m_head, m_tail, m_sequence, ticketVars, pos, spinPos>>

\* The cell is ready for the position one lap later (faults: a position it
\* does not hold; a sum that is not reduced to a word).
NextLapShort(p) == Plus(p, Mask)
NextLapWide(p) == p + Mask + 1
NextLap(p) == Plus(p, Mask + 1)

Recycle(t) ==
  /\ Goes(t, "recycle", "head")
  /\ m_sequence' = [m_sequence EXCEPT ![CellOf(pos[t])] = NextLap(pos[t])]
  /\ UNCHANGED <<m_head, m_tail, m_bits, ticketVars, pos, spinPos>>

-----------------------------------------------------------------------------
Locking == {"load tail", "load sequence", "take", "write bits", "publish", "load head",
            "see sequence", "see bits"}
Unlocking == {"head", "empty?", "used?", "take off", "fill", "recycle"}

Lock(t) ==
  \/ LoadTail(t) \/ LoadSequence(t) \/ Take(t) \/ TakeFails(t)
  \/ WriteBits(t) \/ Publish(t) \/ LoadHead(t) \/ SeeSequence(t) \/ SeeBits(t)

Unlock(t) ==
  \/ Release(t) \/ FirstCell(t) \/ Empty(t) \/ Used(t) \/ TakeOff(t)
  \/ TakeOffFails(t) \/ Fill(t) \/ Recycle(t)

\* Every call that the bound allows has been made and has returned.
Finished == calls = MaxLocks /\ (\A t \in Threads : at[t] = "idle") /\ UNCHANGED vars

Next == (\E t \in Threads : CallLock(t) \/ Lock(t) \/ Unlock(t)) \/ Finished

\* A thread inside a call, or that holds the lock, keeps running; none has to
\* ask for it.
Fairness == \A t \in Threads : WF_vars(Lock(t) \/ Unlock(t))

Spec == Init /\ [][Next]_vars /\ Fairness
-----------------------------------------------------------------------------
TypeOK ==
  /\ m_head \in Positions
  /\ m_tail \in Positions
  /\ m_sequence \in [Cells -> Positions]
  /\ m_bits \in [Cells -> SUBSET Resources]
  /\ at \in [Threads -> {"idle", "held"} \cup Locking \cup Unlocking]
  /\ resources \in [Threads -> Requests \cup {{}}]
  /\ pos \in [Threads -> Positions]
  /\ handle \in [Threads -> Positions]
  /\ spinPos \in [Threads -> Positions]
  /\ queue \in Seq(Threads)
  /\ calls \in 0 .. MaxLocks

(***************************************************************************)
(* Lock is granted in the order of the positions to requests that share a  *)
(* resource: no thread holds the lock while an earlier one that wants one  *)
(* of its resources waits for it or holds it.                              *)
(***************************************************************************)
FirstComeFirstServed ==
  \A i, j \in DOMAIN queue :
    i < j /\ at[queue[j]] = "held" => resources[queue[i]] \cap resources[queue[j]] = {}

(***************************************************************************)
(* Two threads between Lock and Unlock share no resource, which is what    *)
(* the resources of ResourceAllocatorBase::UseResource rely on.            *)
(***************************************************************************)
MutualExclusion ==
  \A t, u \in Threads :
    t # u /\ at[t] = "held" /\ at[u] = "held" => resources[t] \cap resources[u] = {}

(***************************************************************************)
(* One call more than CellCount + 1 from an idle lock on breaks both: a    *)
(* cell that was filled again can be taken off while its request holds     *)
(* (mrlock.h:121-132).  Until then both hold.                              *)
(***************************************************************************)
InOrder == calls <= CellCount + 1 => FirstComeFirstServed /\ MutualExclusion

(***************************************************************************)
(* No call of Lock waits for ever: it is granted, through a full queue and *)
(* behind every request it conflicts with, if the threads inside a call or *)
(* holding the lock run on.                                                *)
(***************************************************************************)
Granted == \A t \in Threads : []<>(at[t] \notin Locking)

(***************************************************************************)
(* The queue is empty, and the cell that is ready for the next position    *)
(* has no bits.  The Unlock of a request that was taken off while it held  *)
(* leaves this: it empties a cell (mrlock.h:117) that is no longer its own.*)
(***************************************************************************)
NextCellEmptied ==
  m_head = m_tail /\ m_sequence[CellOf(m_head)] = m_head /\ Released(m_head)

(***************************************************************************)
(* The loop of Unlock over released cells (mrlock.h:121-137) ends, in all  *)
(* of the first CellCount + 1 calls.  Later it is no request in the queue  *)
(* that keeps a thread in it, only an empty queue with an emptied cell:    *)
(* there it stays until somebody locks.                                    *)
(***************************************************************************)
UnlockReturns ==
  \A t \in Threads :
    []<>(at[t] \in Unlocking => NextCellEmptied /\ calls > CellCount + 1)
=============================================================================
