# A TLA+ verification of Tervel

Tervel is a C++11 library of lock-free and wait-free containers (stacks, a ring
buffer, a hash map, a vector, a multi-word compare-and-swap) over its own memory
reclamation and helping schemes. This directory models the library's core at the
grain of one access of shared memory, checks the models with TLC on small
instances and proves the central safety properties of both reclamation schemes, of the
lock-free stack, of MCAS, of the ring buffer and of the hash map with TLAPS for every size, and those of the wait-free
stack for two threads.

Paths below are relative to the repository; `PROJECT.json` maps each definition
to the lines it models.

## 1. The system

### Components

| component | source | state it keeps | operations | modelled in |
|---|---|---|---|---|
| hazard pointers | `tervel/util/memory/hp/*` | one shared table of watches (`watches_`, `END` slots per thread); per thread, a list of retired elements; at the manager, the lists of threads that left | `watch`, `unwatch`, `clear_watch`, `is_watched`/`contains`, `Element::safe_delete`, `try_to_free_elements`, `send_to_manager`, `~ListManager` | `HazardPointer`, `HazardPointerClient`, `Reclamation` |
| lock-free stack | `tervel/containers/lf/stack/stack.h` | the top pointer, the nodes | `push`, `pop`, `Accessor::load` | `LFStack`, `AbstractStack` |
| progress assurance | `tervel/util/progress_assurance.*` | a table with one announced operation record per thread; per thread, the position to look at next and a delay | `check_for_announcement`, `make_announcement`, `Limit::isDelayed` | `ProgressAssurance` |
| wait-free stack | `tervel/containers/wf/stack/*` | the top (a node, or a marked Helper), nodes, operation records, Helpers | `push`, `pop`, `PushOp`/`PopOp` (`help_complete`, `associate`, `fail`, `result`, `on_is_watched`), `Helper` (`on_watch`, `finish`) | `WFStack` |
| MRLock | `tervel/algorithms/mrlock/src/mrlock.h` | a bounded queue of cells (sequence, bits), head, tail | `Lock`, `Unlock` | `MRLock` |
| Tervel, ThreadContext | `tervel/util/tervel.h`, `thread_context.*`, `info.*` | thread ids, the thread-local objects | attach, detach, shut down | detaching and shutting down, in `HazardPointerClient` |
| recursive helping | `tervel/util/recursive_action.*`, `descriptor.h` | per thread, a depth and a flag to unwind | `RecursiveAction`, `recursive_return` | `MCAS` (the call stacks) |
| RC descriptors | `tervel/util/memory/rc/descriptor_util.h`, `descriptor_read_first_op.*`, `pool_element.h` | a reference count per descriptor | `watch`, `unwatch`, `remove_descriptor`, `descriptor_read_first` | `DescriptorPool` (the counts), `MCAS` (their use); not the announced read |
| descriptor pools | `tervel/util/memory/rc/descriptor_pool.*`, `pool_manager.*` | per thread a safe and an unsafe pool with counts; at the manager, lists per thread | `get_descriptor`, `free_descriptor`, `reserve`, `offload`, `try_clear_unsafe_pool`, `send_to_manager` | `DescriptorPool`, `Reclamation` |
| MCAS | `tervel/algorithms/wf/mcas/*` | operation rows sorted by address, Helpers at the addresses | `add_cas_triple`, `execute`, `mcas_complete`, `mcas_remove`, `cleanup`, the read of an address | `MCAS`, `AbstractMCAS` |
| MCAS buffer | `tervel/containers/lf/mcas-buffer/mcas_buffer.h` | an array, head and tail changed by MCAS | `enqueue`, `dequeue`, `isEmpty`, `isFull` | no |
| ring buffer | `tervel/containers/wf/ring-buffer/*` | an array of encoded words, head and tail counters, records and Helpers | `enqueue`, `dequeue`, `isFull`, `isEmpty`, the two records | `RingBuffer`; not the records |
| hash map | `tervel/containers/wf/hash-map/wf_hash_map.h` | a trie of arrays, nodes with an access count | `at`, `insert`, `remove`, `ValueAccessor`, `expand_map`, `ForceExpandOp` | `HashMap`, `AbstractMap` |
| hash map without remove | `.../wf_hash_map_no_delete.h` | as above, no deletion | | no |
| vector | `tervel/containers/wf/vector/*` | a size, a growing array of arrays, RC descriptors in it | `push_back`, `pop_back`, `at`, `cas`, `insertAt`, `eraseAt` | no |
| utilities | `tervel/util/util.h`, `padded_atomic.h`, `system.h` | none | bit marks, `round_to_next_power_of_two` | no: no state |
| metrics | `tervel/util/tervel_metrics.*` | event counters | | no: read by no algorithm |
| MRLock strategies and driver | `mrlock/src/strategy/*`, `main.cc`, `mrsimplelock.h`, `bitset.h` | | | no: adapters and a timing driver |
| research projects | `tervel/containers/lf/dictionary`, `.../priorityqueue-*` | | | no: other authors' code, papers and measurements; the library does not use them |
| tests, benchmarks | `tervel/tests` | | | no: drivers, read for how the containers are called |

### How they interact

Threads share memory and nothing else; there are no messages and no locks
(outside MRLock). A container reads a shared address, passes what it found to
`HazardPointer::watch`, and uses it only if the address still holds it after the
watch was stored. What it unlinks it passes to `safe_delete`, which puts it in the
thread's list and scans the whole table for every element of that list. The
element's own `on_watch` and `on_is_watched` are the call-backs by which a
container takes part: the wait-free stack's Helper finishes the operation it
stands for inside `on_watch` and then refuses the watch; its operation record
counts a watch of its Helper as one of its own in `on_is_watched` (the *strong
watch*). A wait-free operation that was delayed too often puts a record in the
table of `ProgressAssurance`; other threads look at that table at the start of
their own operations and run the record's `help_complete`. RC descriptors are a
second reclamation scheme, used by MCAS and the vector, which counts references
inside the descriptor.

### What is hard here

* A watch takes effect in three steps (load, store, load again) while other
  threads unlink, scan and free: the scan reads one slot at a time.
* Addresses are allocated again: a compare-and-swap can succeed on a node that
  was popped, freed and pushed once more.
* Several threads execute one announced operation, and must agree on its outcome
  and apply it once, while its owner may already return and delete it.
* A thread may stop anywhere. Wait freedom says that the others still finish.
* Bounded queues reuse cells: a test of a cell made in one lap may be acted on in
  the next.

`PROJECT.json` lists each hazard at its line, with the properties that cover it.

### What makes each component correct

* hazard pointers: no element is freed under a successful watch; an element
  retired waits in exactly one place until it is freed; a failed watch leaves no
  trace; every call ends without waiting for anybody.
* lock-free stack: linearizable to a sequence, in the presence of memory reuse; no
  freed node is read; lock free.
* progress assurance: a record outlives everybody who helps with it; a withdrawn
  record was executed.
* wait-free stack: as the lock-free stack, and every operation of a running thread
  ends; the outcome of an announced operation is decided once.
* MRLock: requests that share a resource exclude one another and are served in
  order; every request is granted.
* ring buffer: a bounded queue, first in first out; a ticket that is given up can
  strand no value; a refusal is true at a moment between call and return.
* MCAS: all rows change at one moment, or none; everybody who completes an operation
  learns the same outcome; no Helper stays behind; helping does not go in circles.
* RC descriptors and pools: no descriptor is given out again while its count is above
  zero; none is lost or in two pools.
* hash map: a map with linearizable calls; a node is at one place, on the path of its
  key; a value is removed only if nobody accesses it.
* MCAS buffer: a bounded queue. Vector: a sequence.

## 2. The modules

```
DescriptorPoolProofs ---> DescriptorPool
                                |
Reclamation  <------------------+             AbstractStack     (promised)
     ^                                             ^
HazardPointer  <----------------------------  LFStack <--- LFStackProofs
     ^    ^---- ProgressAssurance <--- WFStack <--- WFStackProofs
HazardPointerClient <--- HazardPointerProofs
AbstractMCAS <--- MCAS <--- MCASProofs        AbstractMap <--- HashMap <--- HashMapProofs
RingBuffer <--- RingBufferProofs              MRLock <--- MRLockProofs
```

Every module has one action per access of shared memory (an abstract one per
promise), an `MC` module of the same name, and the configurations in section 3.

**HazardPointer** holds the library's actions and variables, without a client.
`hpc[t]` is where thread `t` is in a library call. `WatchCall`, `WatchStore`,
`WatchValidate`, `OnWatch` and `WatchClear` are the accesses of
`HazardPointer::watch` in order; `Unwatch` clears a slot; `SafeDelete` puts an
element first in the thread's list and starts the scan; `ScanSlot` is one
iteration of `contains`; `OnIsWatched` is the element's last word, after which it
is kept or deleted. The list is checked in the order of the code: from the second
position on, the first position last. `Detach`, `SendToManager` and
`DestroyElement` end a thread and the library. `life` is the state of the memory at
each address, a history variable for all the library does not itself look at, and
`granted` the watches that returned true.

**HazardPointerClient** adds the most general client the containers allow:
shared addresses (`cell`), a watch of whatever is read there, and an exchange
(`Replace`) whose old content the thread must pass to `safe_delete` once. The
callbacks may answer anything (`CallOnWatch`, `CallOnIsWatched`). A thread
detaches only without a grant, as `ThreadContext` is destroyed outside any
operation. Each step of `Destroy` deletes one element of one list.

**Reclamation** is the promise: free, live, retired, free again; a grant only
of something live; no free of what is held. `RefinesReclamation` maps a
successful watch to a grant.

**LFStack** is `push` and `pop` over the whole of `HazardPointer`, with nodes at
addresses that return to `free` and are allocated again. **AbstractStack** is a
sequence with call, effect and return; the refinement mapping reads the list from
the top and takes the successful compare-and-swap (or the load of a null top) as
the moment of effect.

**ProgressAssurance** is the announcement table and its check; **WFStack** composes
it with the hazard pointers and the stack. A thread with `op[t] # Null` runs that
record's `help_complete`, its own or another's; `fin[t]` is the Helper whose
`finish` it runs, its own or one found at the top. `Store`, `Validate` and
`NotWatched` serve the watches of nodes, Helpers, records named by Helpers, and
announced records; which it is follows from the slot and the kind of the element.
Values are left out: which node an operation pushed or popped says as much.
Nodes an announced pop leaves behind are never freed by the code (they leak); the
model allocates them again only when nothing refers to them, as fresh memory. The
contents of freed records are forgotten, which `RecordsOutliveHelp` justifies.

**MRLock** has an action for each access of `m_head`, `m_tail`, `m_sequence` and
`m_bits`. Positions count modulo `Word`, for the 32 bits of the code. `Init` allows the
starting positions in `Starts`: 0 is the constructor's, any other is where so
many locks and unlocks made one after another lead, so that an instance can cross the
wrap. `queue` is a history variable, the order of the positions given out.
`TakeFails` and `TakeOffFails` are the failed compare-and-swaps; a spurious
failure of the weak form only repeats the same round and is left out, as is the
relaxed order of `m_head` and `m_tail`: each access is one step, in program
order, in one order for all threads.

**RingBuffer** is `enqueue` and `dequeue` of a thread that is not delayed, with
`isFull`, `isEmpty`, `readValue`, `getInfo`, `backoff`, `atomic_delay_mark`. A word is a kind, a
sequence id and a delay mark; the id of a value is in the object (`seqid_`), where
`Put` writes it before its `compare_exchange`, as the code does. `LoadOrders` says
which of the two counters a build loads first, for the language leaves the order
of the arguments of line 59 open. `seen` notes who saw a moment at which the buffer
may count as empty: one with no more values than *other* dequeues are under way. An
object is enqueued once (`Values` and `Enqueued`): the buffer writes its id into it and
does not protect it otherwise.

**MCAS** holds for each thread the stack of its activations of `mcas_complete`; a frame
is at a row, has a count of rounds (`Limit`) and the result of the activation above
it. `Push` is a call, `Returned` a return, `RecursiveReturn` what `set_recursive_return` does:
the activations end, and the lowest reads its address again. A Helper is the triple
of operation, row and creator. `Watch`, `OnWatch`, `Restore` are the reference counted
watch and `on_watch`, which associates the Helper or takes it off; `RemoveDescriptor` is the second
watch of `remove_descriptor`. `StartScan`, `FinishScan` are `safe_delete` of an operation:
first the hazard pointers (`HazardWatched`), then `on_is_watched`, which looks at the
counts of the associated Helpers. The operation found at the start of `execute`, in
the table of announcements, is any of those announced. **AbstractMCAS** changes all rows
at one step; `LogicalOf` is the value a word stands for, so the step is the change
of an operation's `state_`.

**DescriptorPool** has the reference counts, `try_clear_unsafe_pool`, the take from the
manager (`Peek`, `Exchange`), `reserve`, `offload` and the hand-over to the manager in its
three accesses (`AddLoad`, `AddExchange`, `AddStore`), with a client that places a descriptor
at an address, watches what is there and removes it. It implements **Reclamation** as the
hazard pointers do: *free* is what a pool may give out.

**HashMap** names a location by the path of positions that leads to it, which an array
never leaves; `GetPosition` is `get_position` with its shifts on a word of `KEY_BITS`. An insert
is decided by its `compare_exchange` on the location, a remove by the one that makes
the access count `-NumThreads` (`Kill`), `at` by the increment that finds it not negative.
`seen` is what the key of a call was during the call, for calls that find nothing. The
hazard pointers are taken as `Reclamation` promises (`Free`), with the watches that are
granted in `Watches`. `ExpandMap` makes the array, with the old node in it, and puts it in
place by one `compare_exchange`. **AbstractMap** counts readers of a key; a key with readers is
not removed.

All modules assume sequential consistency. Everything but MRLock uses the default
order of `std::atomic`; MRLock, and plain fields such as `seqid_`, promise less: each
access is one step, in program order, in one order for all threads.

Operators that differ from their neighbour by one plausible mistake
(`LastSlotEarly`, `StillThereUnchecked`, `RetryStale`, `DeadCountShort`, `CleanupShort`, ...)
are used by no specification: each stands before the definition it spoils, and
`PROJECT.json` pairs it with the property that must notice.

## 3. The runs

| run | instance | what it shows |
|---|---|---|
| `hazard_pointer` | 2 threads, 2 slots, 2 elements, 1 address | no watched element is freed, a retired element waits in one place, no failed watch leaves a trace, the library implements `Reclamation`, every call returns |
| `lf_stack` | 2 threads, 3 nodes, 2 values | no freed node is read, the list is what was pushed and not popped (no ABA), `push` and `pop` are linearizable, lock freedom |
| `wf_stack` | 2 threads, announced after one ordinary round, a check every second operation, 3 calls | records outlive help, an operation withdrawn was executed, its outcome is decided once, no Helper stays in the list after its thread goes on, an operation of a running thread returns wherever the other stopped |
| `wf_stack_lost` | 2 threads, every operation announced, 3 calls | violated: see finding 1 |
| `wf_stack_watch` | 3 threads, 1 node, every operation announced | violated: see finding 2 |
| `mrlock` | 3 threads, 2 cells, 1 resource, 4 calls, positions 6, 7, 0, 1 mod 8 | up to the third call, conflicting requests are served in order and every `Unlock` returns; every `Lock` is granted; with the fourth call, `Unlock` stays only in an empty queue whose next cell was emptied too late |
| `mrlock_exclusion` | 2 threads, 2 cells, 1 resource, 4 calls, positions mod 8 | violated: see finding 3 |
| `ring_buffer` | 3 threads, 3 values, 2 cells, 4 tickets of each counter, head loaded first | no value is stranded, the ids of a position never fall back, first in first out, a refused dequeue saw an empty buffer |
| `ring_buffer_empty` | 2 threads, 3 values, 2 cells, 5 tickets, tail loaded first | violated: see finding 4 |
| `mcas` | 2 threads, 2 addresses, 2 values, 3 operations, reads of one address, announced after one round | operations and reads are linearizable, help goes to smaller addresses only, an associated row keeps its Helper, whoever completes an operation answers with its outcome, nothing is left at the addresses, no operation is deleted in use |
| `descriptor_pool` | 2 threads, 4 descriptors, pools of 1 to 2 | counts and lists agree, a descriptor is in one place, none is given out under a watch |
| `hash_map` | 2 threads, 4-bit keys 0 and 1, levels of 1 and 2 bits, 3 nodes, a forced expansion after one round | calls are linearizable, a key that is read is not removed, a node is on its key's path, at one place and not freed in use, a dead node stays dead, `size_` adds up |

Each component has one type invariant where the run has room for it
(`hazard_pointer`, `mrlock`, `ring_buffer`, `descriptor_pool`, `hash_map`).

### Bounds, and why they are enough

* *Hazard pointers.* Two elements replaced one after the other make a thread's list
  of two, so that the middle-first order of the scan, both kinds of removal and the
  hand-over of a list that is not empty occur. Two slots of two threads suffice for
  an element watched twice and a watch that begins behind the scan. No bound on
  the number of steps: addresses are reused for ever. The proofs of section 5 have
  no bounds.
* *Lock-free stack.* Three nodes: one thread reads `next`, the other pops two nodes,
  frees, reallocates and pushes the first address. No bound on the operations.
* *Wait-free stack.* `MaxCalls = 3` operations. The pools of nodes, records and
  Helpers are as large as three calls can need, so the bound on memory is never
  felt: TLC checks for deadlock, and `Finished` is the only stop. `LIMIT = 1` and
  `HELP_DELAY = 1` mix ordinary rounds and announced ones; the violated runs use
  `LIMIT = 0` and `HELP_DELAY = 0`, which announce every operation and check the table
  every time. Unbounded calls are out of TLC's reach here.
* *MRLock.* Two cells (the code's least size) and four calls fill the queue, use both
  cells twice and wrap the positions. The fourth call is where finding 3 begins, so two
  properties speak of the first `CellCount + 1` calls: `InOrder`, which `MRLockProofs` proves for any
  number of cells, and `UnlockReturns`, which also says what alone can keep an `Unlock` later. Neither
  says that the lock is correct. `Granted` has no such limit. All the run's properties were also checked
  once with 3 threads and 5 calls, with 2 threads and 7 calls, and with 2 threads, 4 cells and
  7 calls mod 16. One start is enough, as nothing but the wrap tells positions
  apart. `Word` is four laps: when finding 3 lets the head pass a thread that waits, two
  laps can no longer tell a cell before it from one behind it, as the 32 bits of the code can.
* *Ring buffer.* Two cells and four tickets give each position two laps; a third
  thread is needed for a delayed dequeue that marks a cell while the other two pass it.
  `MaxTicket` only stops the counters (`CHECK_DEADLOCK FALSE`); the proofs have no bound.
* *MCAS.* `MaxOps = 3`: an operation, one that conflicts with it and one that reuses the
  addresses afterwards; `ReadsBefore = 2` lets reads begin before the second operation.
  Operations on two addresses or one bring nested helping. Two threads: with
  three `NoUseAfterFree` is false (end of section 4); it is proved for two, and everything else
  for any number.
* *Descriptor pools.* Four descriptors with pools of one to two make the cut of a
  pool, the refill from the manager and the allocation of new elements happen. A
  state in which all are in use has no further `get_descriptor`: hence no check for
  deadlock.
* *Hash map.* Keys 0 and 1 agree in the first two levels and part in the third, so that
  a collision expands twice. Three nodes: one in the map, one being inserted, one
  retired and reused. `LIMIT = 1` announces a forced expansion after the first failure
  (with 0 the code's `remove` would not get past `isDelayed`). No bound on the number of
  calls, so deadlock is checked.

Symmetry is used for sets of model values that no property tells apart; never with a
liveness property.

### Fairness

* `HazardPointerClient`: weak fairness of the steps inside a library call of each
  thread. The library never blocks, so a scheduler that runs each thread provides
  it. Nothing is assumed of the client.
* `LFStack`: weak fairness of *some* thread's steps, which is what lock freedom
  assumes.
* `WFStack`: the specification has no fairness; `NobodyWaits` states it per thread:
  if *this* thread keeps running then its operation returns, whether or not any
  other thread ever moves.
* `MRLock`: weak fairness of each thread inside a call and while it holds the lock:
  a lock can promise nothing if holders do not release. No thread has to call `Lock`.
* The other modules state safety only. `HelpGoesDown` of `MCAS` is the finite part of its
  progress argument: the recursion is bounded.

## 4. Findings

1. **`wf_stack_lost`** (`wf/stack/stack_op.h:65`). `StackOp::associate` is meant to return
   true to every thread that finishes the Helper the record is associated with. It
   tests `temp == nullptr` after a `compare_exchange` that failed because another
   thread associated that same Helper; `temp` is then the Helper, never null. The
   second thread takes the other branch of `Helper::finish` and puts `old_value_` back
   at the top. If it is faster than the first, an announced push whose caller is
   told `true` is not on the stack, or an announced pop leaves its node there.
2. **`wf_stack_watch`** (`wf/stack/stack_imp.h:83`, and 124). A record is retired when
   its owner's `help_complete` returns, but a thread that lost the race to associate
   may have its own Helper of that record at the top at that moment. A third thread
   finds that Helper, watches the record under the top's address, and the record is
   deleted while watched: the strong watch looks for the associated Helper only.
3. **`mrlock_exclusion`** (`mrlock.h:121`). `Unlock` reads the bits of the first cell,
   then its sequence, then moves the head. Between the first two reads the cell can
   be refilled, recycled and taken by a request of the next lap, which is then
   dequeued while it is held; the next conflicting `Lock` starts behind it. The
   trace has two threads and four calls with two cells; with more cells one lap is
   longer but nothing else changes. The same step has a second consequence, for liveness.
   When the request that was dequeued too early is unlocked, line 117 empties a cell that is
   free by then. An `Unlock` of the fourth call that moves the head there sees zero
   bits (line 121) and a sequence that is not `pos + 1` (127), and stays in the loop, with the queue
   empty, until somebody takes the next position. With the constants of
   `mrlock_exclusion`, TLC refutes `(at[t] = "head") ~> (at[t] = "idle")` this way;
   `UnlockReturns` describes the case (`NextCellEmptied`), and the run `mrlock` shows that there is no
   other. A third one costs time only: a thread whose request is dequeued before it loads the head
   (line 96) starts behind its own position and goes round all the positions of the word.
4. **`ring_buffer_empty`** (`wf/ring-buffer/ring_buffer_imp.h:59`). `isEmpty` passes `tail_.load()`
   and `head_.load()` as two arguments of one call. A build that evaluates the first
   one first may see, between the two, another thread's enqueue and dequeue, and find
   the difference zero: `dequeue` returns false, documented as "in the event the ring
   buffer is empty" (`ring_buffer.h:195`), though a value was there at every moment. With
   `head_` first, `RefusedWhenEmpty` holds for `dequeue` (run `ring_buffer`, theorem `RefusalMeansEmpty`); `isFull`, line 45,
   then has the mirror image.

No run shows the next one, whose trace needs three threads and a larger instance than the
rest. `on_watch` of a Helper of MCAS (`wf/mcas/mcas_helper.h:76`) takes a successful
watch of the Helper's operation for a guarantee that the operation is not freed while
it looks at the row (`mcas_helper.h:80-82`). A slow helper can place its Helper after the
operation was completed and retired, and holds a reference count meanwhile. A reader
that meets the late Helper sets its watch behind the scan of the watch table; the slow
helper takes the late Helper off and drops its count; `on_is_watched`, which only
counts references to *associated* Helpers (`mcas.h:124-136`), finds none, and the operation is
deleted under the watch. It takes one thread to delete, one to be late, one to read. TLC
finds it in a minute or two as a violation of `NoUseAfterFree` with `Threads` of three,
`MaxOps` and `ReadsBefore` 3, requests for both addresses (expecting `v0`) and for address 1
(expecting `v1`), and nobody delayed (`LIMIT` of -1).

## 5. What is proved

`HazardPointerProofs` proves of `HazardPointerClient`, for
every number of threads, slots, elements and addresses, every safety invariant the
run `hazard_pointer` checks:

* `TypeCorrect`: `Spec => []TypeOK`; in particular no scan leaves the table.
* `SafeReclamation`: `Spec => []WatchedIsNeverFreed`.
* `NothingStale`: `Spec => []NoStaleWatch`.
* `NothingLost`: `Spec => []RetiredOnce`.

Assumptions: at least one thread and one slot (`NumThreadsAssumption`,
`ENDAssumption`), and that null is not an element (`NullAssumption`).

*The argument.* `WatchedIsNeverFreed` is not inductive: a step that deletes an
element after the last slot was read must know that no slot read earlier has been
given a grant since. `IInv` adds what is needed:

* `ScanMissesNoGrant`, the heart: if a grant of the element under scan is in force, the
  scan has not passed its slot. It is kept because a new grant requires the
  element to be at an address after the store (`WatchValidate`), so to be live
  (`LiveAtOneCell`), whereas an element under scan is retired (`WaitingIsRetired`);
* `LiveAtOneCell`: the addresses hold live elements, each at one address, so that an
  exchange unlinks it from everywhere;
* `WaitsOnce`: a retired element is at one place of one list, so that deleting it
  takes it out of all of them;
* `WatchProtocol`: which steps of `watch` have stored the slot, and which have the grant;
* `GoneIsEmpty`: a thread that detached holds nothing, so `~ListManager` may delete
  everything;
* `ScanInRange`: the scan is at a position of its list.

There is a lemma for each action, one step per conjunct, and lemmas that
`get_slot` is injective and into the table, and of what `RemoveAt` leaves of a list.

`NoStaleWatch` is inductive given `IInv`: the steps of `watch` and `unwatch` write one
slot, their own (`WatchStepsLeaveNothing`), and the others none. `RetiredOnce` says
"waits somewhere if and only if retired" and "in one place"; `IInv` has all of it
but that a retired element is not lost, `RetiredWaits`, which has a lemma for each
step that changes a list (a list with a new head, without the deleted position,
moved to the manager, without its head).

It also proves `LibraryReclaimsSafely`, `Spec => RefinesReclamation`: from
`IInv`, every step is a grant of something live (`Validate`, by `LiveAtOneCell`), a release
(`CallUnwatch`, or `on_watch` that refuses), an exchange (`Replace`), a free of what nobody
holds (`CallOnIsWatched` and `Destroy`, by `ScanMissesNoGrant` and `GoneIsEmpty`), or takes
`Reclamation` nowhere. `OtherSlotsStay` is why the other threads' grants keep their
elements when a slot is written.

`LFStackProofs` proves of `LFStack` all that the run `lf_stack` checks but lock freedom, for
every number of threads, slots, nodes and values: `NothingFreedIsRead`
(`Spec => []NoUseAfterFree`), `TheListIsWhole` (`Spec => []LiveIsReachable`) and
`StackIsLinearizable` (`Spec => RefinesStack`). The last two assume that the addresses are
finitely many (`FiniteAssumption`).

*The argument.* A pop reads a node while it holds it (`WatchProtocol`), and what is held
is not free (`HeldIsNotFree`); a scan cannot have missed a grant of what it frees
(`ScanMissesNoGrant`), for a grant is given only of the top node. Here the container
has to supply what the client of the library was assumed to do. The top is live, and
nodes below live nodes are live and below one node only (`Shape`), so an unlinking takes
the last way to a node, and the new top is not a node somebody freed. That needs
what pop read below the top to be there still when its `compare_exchange` succeeds,
although the node may have been popped, freed and pushed again by then if it were not
held (`NextStands`, the absence of ABA); that a node nobody has seen belongs to one push
(`Private`); and that one pop passes a node on to `safe_delete` (`Unlinked`, `WaitsOnce`).

The contents of the stack are a recursive function of the top (`Below`). The proof does not argue
about it at each step: it keeps a list `q` that *is* the stack (`IsChain`: from the top, each
node before its `next`, every live node once), so that a push is `<<e>> \o q` (`PushedChain`), a
pop is `Tail(q)` (`UnlinkedChain`), and any other step leaves `q` (`StackStays`): it writes only to
nodes that are private, retired or free. That `Below` read from the top is `q` is shown once (`ChainIsNodes`):
by induction on the number of nodes there is a function that satisfies the recursion
(`SomethingReads`), and by induction from the end of `q` it reads `q` (`ChainIsRead`); a
list without repetition is no longer than there are addresses (`ChainIsShort`). The
induction is the least element of a set of naturals (`SetInduction`),
for the library's own theorem takes an operator. `OneOperation` says that a step of a thread is one of
its operation only: the values others refer to are in nodes nobody allocates.

`HashMapProofs` proves of `HashMap`, for every number of threads, keys, values and nodes and
any widths of the arrays that keep `get_position` inside the key, the six properties the run `hash_map` checks. Four of them come
first: `TypeCorrect`,
`NodesAreOnTheirPaths` (`Spec => []OnItsPath`), `AccessorsProtectNodes`
(`Spec => []NoUseAfterFree`) and `TheDeadStayDead` (`Spec => []DeadStaysDead`). The assumptions are
that the threads are finitely many, that null, `"array"`, `"refused"` and `"done"` are not nodes or
values, that null is not a location or a call (nor a call of `AbstractMap`, `PendingAssumption`), that the memory of `size_` holds an integer
(`SizesAssumption`), that the keys are finitely many, as the values of a word are
(`KeysAssumption`), and that the positions of a key tell it from every other key
(`PathsAssumption`), and that the levels do not end where the key ends (`WidthsAssumption`; see
section 6). `PathsAssumption` says of `get_position` that its pieces cover the key; it
is what stops `expand_map` at the last level, and TLC evaluates it for the keys of the run.

*The argument.* `Counts` is the account of `access_count_`: it is the number of `at()` calls
that raised it and will lower it again, of accessors that name the node and of accessors that
let go of it, less the number of threads if the node is dead. A dead node has no accessors
(`DeadIsUnread`: a node is killed at count zero), so only the passing `at()` calls are left, and
whoever looks is not one of them: the count is negative (`DeadIsNegative`). Conversely a
negative count is that of a dead node, so that nobody but a `remove` takes a node off the map
for good. `Retiring` says that a node about to be retired is off the map and one
thread's, which needs `Paths` (a node is at one location, so an unlinking takes it off the map)
and `Private` (the node of an insert that has not happened is nobody else's). From there
`UsesAreAllocated` follows: what is retired is dead, so no accessor names it, and the library
waits for the watches. An array is never removed, so what a thread walked to, or was told to
expand by an announcement, stays reachable (`Routes`, `ReachedStays`).

There is a lemma per action, over one of three frames: `QuietKeeps` for steps that leave the map
alone, `TreeStepKeeps` for those that change a location (with `PutKeeps` and `ExpandMapKeeps`
for the two ways), `TallyKeeps` for those that change a count (with `TotalMoves` for the
cardinalities). They meet in `MoveKeeps`. `DeallocateKeeps` is the frame of the
steps that free a node, and `CallInsertKeeps` stands alone.

Its second half proves `MapIsLinearizable`, `Spec => RefinesMap`, under the same assumptions.

*The argument.* A key is held by its live node, the one that is linked and not dead, and the
map has at most one: there are only arrays above whatever is on the path of a key
(`ArraysAbove`), so that a location that was reached and is not an array is the only place where
the node of the key can be (`Alone`, `HolderIs`, `NobodyHolds`). Therefore what one thread
finds at its location tells what the map has for its key at that moment. An insert takes effect at
its `compare_exchange` of the location (`InsertKeeps`), a remove at that of the count
(`KillMaps`), an `at` when it raises the count of a node that is alive (`CountAccessMaps`, with
`DeadIsNegative`). A call that is refused needs a moment at which its key was absent, or read; this
may be an earlier one than the step that decides it: a reader that finds a dead node validated
the location before, and the node was live then, and was killed since, or dead already.
`History` and `Found` keep that moment: whoever has a node under its watch that is dead now has
seen its key absent. Unlinking, retiring, freeing and expanding take the abstract map nowhere: a
node in use that is not dead is on the map (`NoneIsLost`, `UsedIsLive`), a dead one is
held by nobody, and an expansion puts the node where its key leads (`ExpandMapMoves`).

`JKeeps` is the frame of the invariant; over it are `MovingKeeps`, `RefusedKeeps`, `TidyKeeps`,
`RearrangeKeeps` and `InsertKeeps`, for a call that moves on, is refused, tidies up, rearranges
locations or inserts. There is a lemma per action.

The module also proves `SizeIsRight`, `Spec => []SizeAddsUp`, under one more assumption,
`InitialSizes \subseteq {0}`: the constructor leaves `size_` unset, and what its memory held
stays in every answer of `size()`.

*The argument.* `Account` says of the abstract map what `SizeAddsUp` says of the nodes. It is
kept apart from the tree: from the step of `AbstractMap` that a step of the code was shown to be,
`MapMoves` reads when a key comes (`Puts`) or goes (`Takes`), and `HeldMoves` what that
does to the number of keys. So a step keeps the account if the caller
that takes effect is from then on one who has yet to count, and if only those who count change
`size_` (`AccountKeeps`). A lemma per group of actions shows it of each. The insert that
replaces a dead node has one step more between its effect and its count: it retires that node first,
which is why `Growing` holds an insert in both places.

`DescriptorPoolProofs` proves of `DescriptorPool` everything the run `descriptor_pool` checks,
for every number of threads and descriptors and any limits `MIN_NODES < MAX_NODES`:
`TypeCorrect`, `CountsAreLengths` (`Spec => []CountsMatch`), `NoneLostOrDoubled`
(`Spec => []InOnePlace`) and `PoolsReclaimSafely` (`Spec => RefinesReclamation`). The
assumptions are the module's own: at least one thread, the limits in that order (the pool
keeps `MIN_NODES` when it gives the rest away), and that null is no descriptor.

*The argument.* A place is a list of a thread (safe, unsafe, the two at the manager, the
chain on its way there) or what its owner has taken. `ListsOnce`, `Apart` and `Somewhere`
say that no place has a descriptor twice, no two have the same one, and what was allocated is
at one. A step moves descriptors among a few places, and `Rearranged` says what must be shown of
them alone; what a cut, a removal or a concatenation leaves in a list is said first. Three
accesses could lose descriptors: `AddStore` and `SendUnsafe` overwrite what the manager holds for the
thread. `Handover` says it is nothing: only its owner fills a thread's list at the manager, others
only empty it, so that the empty list seen by `AddLoad`, or left by `AddExchange`, stays empty.
`CountsWatchers` says that `ref_count` is the number of threads between raise and lower, so that
no decrement underflows and a count of zero means nobody is using the descriptor
(`ForgetRefines`); that a watch which raises the count later finds the descriptor gone from the address
is `Place` and `CellOwned`: what is at the address belongs to a thread and is in no pool.

`MCASProofs` proves of `MCAS`, for every number of threads, addresses, values, operations and
rounds, and for any sets of rows the calls ask for, everything the run `mcas` checks, one
invariant under the hypothesis of at most two threads: `AssociatedHelpersStay` (`Spec => []AssociatedStays`), `AnswersAreOutcomes`
(`Spec => []AnswerIsOutcome`), `HelpDescends` (`Spec => []HelpGoesDown`), `NothingIsLeft`
(`Spec => []NothingLeft`), `ExecuteIsLinearizable` (`Spec => RefinesMCAS`), and
`NothingDeletedIsUsed` (`Spec => []NoUseAfterFree`, if `Cardinality(Threads) <= 2`). The assumptions
are those of the module: addresses are integers, finitely many, as are the threads; a call has
one row per address (`RequestsAssumption`, which `add_cas_triple` sees to); a value is not a
Helper, and null and `FAIL_CONST` are neither (`WordsAssumption`, the marks on the pointers).

*The argument.* `Control` says where everything is: a Helper belongs to a row of the address it
is met at (`MemRows`, `FrameShape`), rows descend (`RowsSorted`; that `Sorted` has a value and
what it is takes an induction, `SortExists`, `SortedIs`), and an activation that waits helps with the
operation of the Helper it met (`Link`). The rest of `IInv` is what the operation's helpers rely on:

* `HelperPrefix`, `MemPrefix` and `Prefix` in `FrameOk`: whoever is at a row, or has met a Helper
  of it, knows that the rows before it are settled. So the end of the rows is reached with all
  settled (`"pass"`), and a row that failed excludes it: `Outcomes`;
* `AssociatedStays`, by what each label of `FrameOk` knows before its compare-and-swap: `"undo"`
  and `"restore"` take off a Helper that is *not* associated, `"uninstall"` and `"cleanup"` one
  whose operation is decided, and with its outcome (`f.res`);
* `PlacedByTop`: a Helper at an address whose row is open was placed there by a thread that is still
  about to associate it, so `"associate"` and `on_watch` associate what is there;
* `Descending`: an activation stands at an address below that of the Helper it was called
  for, or at that address with the row settled, in which case it returns or goes on downwards.

An access is one of seven *effects* on memory (`Effect`) together with a *move* of one stack
(`Moves`: cut down to some activation, or one more). `SharedKept` shows for each effect that what
memory alone says is kept, and that no other frame loses what it knows (`FramesKept`); a lemma per
action shows what the frame that moved knows now. A call that begins or ends has `CallKept`.

For the refinement, `RInv` adds what the calls know of each other: an operation in progress has
one thread that called it (`Begun`, `OneOwner`); every call in progress has in `held` what its
addresses stand for now (`LogicalHeld`); a row that failed had another value *during the call*
(`FailHeld`), though the thread that read that value may be a helper that read it long ago, since what
an activation has read belongs to the history of whoever called the operation
(`SeenHeld`: it was read after the operation was there to be helped). `LogicalChanges` is
the heart: no access changes what an address stands for, but the one that decides that an operation
passes, and that one changes all its rows (`PassLogical`, by `AssociatedStays`) for its one caller
(`PassSucceeds`). Placing, associating, taking off and putting back Helpers are invisible. An
operation that is decided to fail has a row that tells why (`FailMisses`), and a reader's value was
there (`StepLooks`).

For `NoUseAfterFree`, `FInv` adds that every frame's own operation is there, and that of the Helper in
its hands while it stands at a label that uses it (`AllSpared`). The end of a scan has to leave
both alone (`NobodyUses`). A thread's own operation has not been retired (`OwnSpared`). A foreign
one at the bottom of a stack was found announced and is watched (`Bottoms`), and only an operation
under way is announced (`TablesOwn`). `"helping"`, `"value"` and `"uninstall"` hold a Helper that is the one
of its row and is counted. `"on_watch"` and `"restore"` are reached only on top of a
stack, under a watch, and what a scan is about to delete is watched by nobody (`ScansUnwatched`), since
a thread that takes a watch looks at the address once more and finds its Helper gone. The last
is where the threads are counted: a Helper that is at its address and not the one of its row is in the
hands of the thread that placed it (`LateHelpers`), so a watch that is taken behind the scan needs that
thread, the one that watches and the one that scans, and they are three (`Three`, `UnwatchedKept`).
No other lemma needs the hypothesis but to cite that one. `AccessCareful` says what an access
must see to of the frame it moves (`Careful`), one case per label; TLC checked `FInv` on the
instance of the run before it was proved.

`RingBufferProofs` proves of `RingBuffer` every safety property the run `ring_buffer` checks, for
every number of threads, values, cells and tickets: `TypeCorrect`, `NoValueStranded`
(`Spec => []NothingStranded`), `NeverFallsBack` (`Spec => PositionsMoveOn`),
`FirstInFirstOut` (`Spec => FIFO`) and `RefusalMeansEmpty` (`Spec => RefusedWhenEmpty`). The first four
hold for either order of the loads in `isEmpty`; `RefusalMeansEmpty` assumes that
`LoadOrders` has only `"head"`, without which it is false (finding 4), and that there are
finitely many threads (`ThreadsAssumption`).

*The argument.* Call a ticket dead at its position when no value can be put there with
it any more: the position's id is past it, or its word is marked. What is needed of
`NothingStranded` is that a dequeue gives up a ticket only when it is dead, and that dead
tickets stay dead. The second is a frame over all writes to a position: `OthersKeep`,
`StaysAtPosition` for writes that raise the id or set the mark, `LeavesPosition` for a taken
value, `WriteStep` for the rest; the arithmetic of laps is in `PosInRange`, `LapAbove` and
`LapMonotone`. The first is `NewlyDead`, for each place where a loop ends (`Read`, `Backoff`,
`Skip`). That `Put` stores the id in the object before its `compare_exchange` is harmless
because the object is in no cell then. `NextSeqId` and `Reopen`'s new lap are above
the old id, which gives `NeverFallsBack` with the same lemmas.

For the order, `FInv` relates tickets to calls: a ticket of an enqueue is above that of every value
whose enqueue had returned when the call began (`EnqueuesAbove`), that of a dequeue above those of
the values that were gone when it began (`DequeuesAbove`), and a dequeue that has found a value holds
the ticket of that value until it takes it (`Found`). So an older value has the smaller ticket and is
taken with it. `Advances` and `QuietStep` are the frame: tickets are given out upwards and remembered
sets only grow. For `RefusalMeansEmpty`: `head_` was loaded first and only
grows, so a `tail_` loaded later that is not above it means `tail_ <= head_` at that moment. Then
every value present has a ticket below `head_`, by `NothingStranded` it is in the hands of a dequeue,
and of different dequeues for different values (`TakersEnough`): counted as done, these leave
nothing.

`MRLockProofs` proves of `MRLock`, for every number of threads, resources, requests, cells and
positions, `TypeCorrect` and `ServedInOrder`:

    InOrder == calls <= CellCount + 1 => FirstComeFirstServed /\ MutualExclusion
    THEOREM ServedInOrder == Spec => []InOrder

`calls` counts the calls of `Lock` since all was idle. The bound is exact: with two cells
and `CellCount + 2` calls the run `mrlock_exclusion` breaks both (finding 3; TLC finds the
same with four cells and six calls), so neither holds of `Spec` alone, and the theorem says
how far the lock can be relied on: no more than `CellCount + 1` requests from one idle
moment on. The assumptions are those of the module: at least two cells, a word that is a
multiple of them and holds two laps (powers of two in the code), and requests that are not
empty.

*The argument.* Positions are counted from where the queue was when it was idle (`Off`);
with so few calls each cell holds the request of one position, but the first may get a
second (`SameCell`). The danger is in `Unlock`, which takes a cell off after reading its
bits and its sequence at different times (`Knows`). A cell of the first lap whose bits were
seen empty has been released, and a released position stays released (`Done`), so that
taking its cell off is right whatever happened since. The request that gets the first cell
again found it recycled, so its first position had been taken off (`Lapped`); nobody waits
behind that request, it is the last, and all that matters is that the head does not pass the
tail (`ScanLap`). `Waiting` says of a thread in `Lock` that nobody before the position it
has come to is in its way, since a position is passed only if its cell was recycled, or has
bits that do not meet the request; all ones, while the request is not written yet, meet
every request. `CellStep`, `QuietStep` and `OrderlyKeeps` are the frames, and there is a
lemma per group of actions. TLC checked the invariant (`LapInv`) on five instances before it
was proved.

`WFStackProofs` proves of `WFStack`, for at most two threads and any number of nodes, records,
Helpers, slots and calls, any period of the checks and any limit, the safety properties the run
`wf_stack` checks: `NothingDeletedIsRead` (`RecordsOutliveHelp`), `WithdrawnIsDone`
(`DoneWhenWithdrawn`), `TheHelperIsOut` (`HelperLeaves`) and `TheOutcomeStays` (`DecidedOnce`). Two
threads is a hypothesis of every theorem, because it is where the code stops being right: with a
third one a record may be deleted while it is watched (finding 2), and whoever reads it then may
find anything. The other assumptions are the module's: at least one thread, the slots the stack
uses are slots of the table, null and the word of a failed pop are no Helpers, and no address is
both a node, a record and a Helper. Of nodes nothing is claimed (finding 1).

*The argument.* `Keeps(t, s, e)` is a watch of a record or a Helper that was granted. As for the
lock-free stack, what is kept is not free (`HeldIsNotFree`) and a scan has missed no grant of what
it checks (`ScanMissesNoGrant`); `StrongWatch` says the second of the scan for the Helper of a
record. A thread runs `help_complete` of a record that is its own, which nobody deletes before
`safe_delete`, or that it watches (`Owners`). The life of a Helper has three parts (`HelperLife`):
until it is placed no other thread has it, nobody keeps it and no record names it but one that is
about to be deleted itself (`Gone`); then it may be at the top, where it was placed by a thread that is
still in `finish` (`TopIsPlaced`); then it waits to be deleted, or it belongs to its record and is
deleted just before it. The step on which all of it turns is the re-read of `watch` (`GrantIsSafe`): a
grant is good if nobody is checking the element at that moment. A record in the table of
announcements is not waiting to be deleted. A Helper at the top was placed by a thread in `finish`; the
other thread is the one that watches, so nobody scans at all (`NobodyScans`), and this is where two
threads are needed. The same holds of the record that Helper names, watched in `on_watch`.
`FinishOpen` and `Settled` carry the outcome: whoever finishes a Helper finds the record decided
or the Helper's thread still there, and a thread that goes on to withdraw its operation has
seen it decided.

There is a lemma per action, over these frames: `QuietKeeps` for a step that frees nothing and
watches nothing new, with `MovingKeeps` for those that only move on, `CalledKeeps` for a call of
`watch`, `SlotCleared` for the end of a watch, `DeletedKeeps` for a Helper nobody saw, `GivenKeeps`
for `safe_delete`, `KeepKeeps`, `FreedKeeps` and `HelperFreed` for the ends of a scan, and
`GrantKeeps`. TLC checked the invariant on four instances of two threads before it was proved.

Every invariant and every refinement the runs check is stated by a theorem. One has a hypothesis,
the two threads of `NothingDeletedIsUsed`, and as three violate the invariant (end of section 4)
it cannot be dropped.
*Out of the prover's reach*: the liveness properties (`CallsReturn`, `LockFree`, `NobodyWaits`,
`Granted`, `UnlockReturns`).

## 6. What is not modelled, and why

Components:

* *MCAS buffer*: two retry loops of one `MCAS` call each over an array; a module over
  `AbstractMCAS` would do.
* *Ring buffer records*: an announced `enqueue` or `dequeue` (`EnqueueOp`, `DequeueOp`, `Helper`).
  Read while modelling the rest, two places look wrong and no run shows them:
  `readValue` (`ring_buffer_imp.h:86`) watches a Helper with an expected value from which
  it has cleared the mark, so the re-read never agrees; and `enqueue_op_imp.h:85` marks
  the cell before the record is watched.
* *`DescriptorReadFirstOp`*, the announced read of an address that keeps changing, and the
  delayed reads that lead to it.
* *Vector* and *hash map without remove*: not taken up. Of the vector: the Helper that
  loses at the first position is freed twice (`shift_op.h:214`, 222), `insertAt` counts
  the size the wrong way (`vector_imp.h:297`).
* Utilities, metrics, adapters, drivers, and the research projects under
  `containers/lf`, which share nothing with the library.

Parts of modelled components:

* Memory orders weaker than sequential consistency (above).
* Build options that switch off watching or freeing (`TERVEL_MEM_HP_NO_WATCH`,
  `TERVEL_MEM_HP_NO_FREE`) and the metrics.
* Attaching threads while others run: every thread has its id from the start. The
  ids come from a counter that only grows.
* `HazardPointer::unwatch` with two arguments: nothing calls it.
* `pop`'s read of the value after an announced pop: `result` reads a node nobody
  watches. Once finding 1 has put a popped node back, that node can be freed
  before the read; the instances that show it take five calls. Recorded as a
  hazard.
* The word-by-word copies of `Bitset` in `MRLock<Bitset>`; an empty request.
* MCAS: the memory of a Helper (a descriptor of the pools) is not reused; that it is
  not under a watch is `DescriptorPool`'s promise. `NoUseAfterFree` is stated of two threads
  only, for three break it (section 4). Liveness is not checked.
* Descriptors: `unwatch` calls `on_unwatch` after its decrement (`descriptor_util.h:163`), when
  the descriptor may be another one already (`descriptor_pool.h:185-188` says it may
  not); no class overrides it. `~PoolElement` asserts false (`pool_element.h:70`) though
  `~PoolManager` deletes elements (`pool_manager.cc:51`, 65): `assert`s are not modelled.
* Hash map: `size_` is not initialised by the constructor; the model starts it at zero
  (`InitialSizes`). It can be below zero for a moment, as a remove may count before the
  insert it undoes. Keys of one word only. With `(KEY_BITS - PRIMARY_POW)` divisible by
  `SECONDARY_POW`, `get_position` at `max_depth` reads past the key's words (line 734), and the level
  before it shifts by the width of the word (line 753), which is undefined:
  `WidthsAssumption` excludes these widths from the model and the theorems. `ForceExpandOp`s leak, its
  `help_complete` leaves SHORTUSE watched, and `remove` never announces (a TODO at line
  624). `round_to_next_power_of_two` (`util.h:179`) returns an exponent, which the
  constructor takes for the size.
* `recursive_action.h:72-74` says the depth before the increment is returned; the code
  returns the one after it, and the model follows the code.

## 7. Plan

What is left, most valuable first; each with an MC module, mutants and its part of
this file.

1. The announced operations of the ring buffer, as a module over `RingBuffer` and
   `ProgressAssurance`, 2 threads, 2 cells: does an announced enqueue return done?
2. `MCASBuffer` over `AbstractMCAS`, against a bounded queue; the announced read of
   descriptors.
3. `Vector`: `push_back`, `pop_back`, `cas`; the shifts if they can be kept small.
4. A smaller model of progress assurance alone, without bound on the calls, for the
   wait-freedom of the scheme itself.
5. Proofs: a statement about `MCAS` with a late Helper that holds for three threads, that is, which
   operations a watch taken too late can miss.
