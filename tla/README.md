# Verification of kl

TLA+ specifications, model-checking runs and machine-checked proofs for kl
(`skl/`, the kernel-mode C++ library, and what the repository builds on it).
File and line references are to the repository's own tree.

## 1. The system

kl is a set of Windows components.  Its README says that `skl` is the library,
`KMDF` the example of its use, and that the rest may be ignored; `Fs`, `sl`,
`SrvTest` and `InstallDriver` nevertheless contain logic of their own.

| component | state | operations | interacts with | what makes it correct |
|---|---|---|---|---|
| `WorkQueue` (work_queue.hpp) | list of tasks, KMUTEX, auto-reset event, exit flag | `enque`, `emptyEnque`, `clear`, `goExit`, `deque` | clients call it, the worker thread dequeues | no lost wakeup, FIFO, each task run or destroyed once, exclusive access |
| `simple_worker`, `interface_worker` (work_queue.hpp) | a shared `WorkQueue`, an `skl::thread` | `create`, `push`, `stop`, `clear`, `detach`, destructor | own thread shares the queue by reference count | `stop` ends the thread, `detach` outlives it, what `detach` promises of queued work |
| `just_a_call` (work_queue.hpp) | reference to a captured callable | copy, move, assign, call | lives in queue items and in the worker's hand | captured object freed exactly once |
| `thread` (thread.hpp) | referenced thread object | construct, `detach`, `then`, swap, destructor | kernel | no thread left that nobody can join |
| `kfifo`, `Fifo` (kfifo.hpp) | ring buffer, `in` and `out` indices | put, get, reset, alloc, free | one reader and one writer, no lock | bytes in order, none overwritten, indices wrap |
| `shared_ptr`, `ref_holder`, `ref_item` | pointer and atomic count | copy, move, assign, drop | every container and the worker | freed by the last owner, never used afterwards |
| `list`, `queue`, `stack` (list.hpp) | doubly linked items | push, pop, append, swap, remove, iterate | `WorkQueue` | sequence semantics, iterators after removal |
| `map`, `set`, `unit64table` | kernel AVL table of reference-counted items | find, insert, remove, clear, iterate | RtlGenericTableAvl (external) | table and counts agree also when memory runs out |
| `vector`, `string` | buffer, size, capacity | push, insert, erase, append, find, replace | - | agree with sequence definitions at the edges |
| lookaside pools and the runtime | lists of free blocks, the global pools | allocate, free, `RunTimeInit`, `RunTimeUnInit` | used by every count and tree node | a block fits its object; the runtime exists while anything uses it, freed once |
| `Fs` minifilter, `KMDF` driver | filter registration, a device | entry, unload, failure paths | runtime, kernel | everything registered is undone |
| `sl::ServiceOperater`, `InstallDriver` | SCM and service handles | create, start, stop, remove | service control manager (external) | handles closed, result tells the truth |
| `sl::Registry`, `Variant` | an open key and a flag; storage and a type index | value, setValue, remove, clear, allKeys; copy, assign, Get | registry (external) | acts on the key that was named, reads whole values; one object, destroyed as what it is |
| `SrvTest` service | service status, working thread's message queue | ServiceMain, control handler, post | SCM, window messages | status reported matches the work, no message lost |

The behaviours that are hard here: the unlocked window between the worker's
test of the queue and its wait, a stop that does not signal, lock-free indices
that wrap, reference counts shared by threads, tasks that call the worker they
run on, failures half-way through construction, nodes of a shared pool that are
read after they were given back, lengths that wrap in a USHORT, and requests to
the registry and the service manager between which other processes act.
`PROJECT.json` lists each one at its line, with the properties that cover it.

## 2. Plan

In order; each later module reuses what the earlier ones establish.

1. `WorkQueue` with the abstract `TaskQueue` it implements, and `WorkQueueProofs`
   (section 3).
2. `Kfifo` with the abstract `ByteFifo`, and `KfifoProofs` (section 4).
3. `SharedPtr` and `SharedPtrProofs`: slots, counts, copies and drops in steps
   (section 5).
4. `WorkerLifecycle` and `WorkerProofs`: creation with every failure, the
   destructor that only stops, the references that keep queue and worker alive.
   It takes the queue's calls as single steps, which 1 justifies, and the counts
   as sets of holders, which 3 justifies (section 6).
5. `LinkedList`, `Vector`, `AvlTable`, `String`, `Variant`, `Functor` and
   `LookAside`, put together by `Containers` (section 7).
6. `ServiceManager`, `Registry` and `Drivers`, put together by `Programs`, with
   `ProgramsProofs` (section 8), and `ServiceApp` with `ServiceAppProofs`
   (section 9).

All of them are written and model-checked, and have proofs: those of 5 are in
`ContainersProofs` and, for `String` and the lists of types, in `StringProofs`.

## 3. WorkQueue

`WorkQueue.tla` models `skl/work_queue.hpp`'s class `WorkQueue`, the loop that
`init` gives to the worker thread, and the public calls of a worker.

| variable | code |
|---|---|
| `q`, `lock`, `signalled`, `exit` | `_q`, owner of `_lock`, state of `_e`, `_exit` |
| `joined` | `_t` has been waited for and cleared by `detach` |
| `pc[t]` | where thread `t` is; a client rests at `idle`, a task on the worker at `run` |
| `empty`, `ok`, `ept`, `o` | the locals of `enque`, `emptyEnque`, `clear`, and the lambda's `o` |
| `pushed`, `executed`, `destroyed`, `mark`, `window` | history, read by no guard |

One action is one step that another thread can see: taking the mutex, the
access to the list under it, releasing it, setting the event after that, the
wait, the test of `_exit`.  `Continue(t)` gathers the rest of a call under way,
`Calling(t)` the beginnings of calls, which clients make at any time and tasks
make while they run.  `push_back` may fail for lack of memory.  The wait ends
because the event is set (and is then reset) or because 10 ms are over.
`detach` is called by the thread `Owner`.

`TaskQueue.tla` is what the worker promises without any of this: tasks are
accepted, taken oldest first, dropped together, and none is taken after
`detach` has returned.  `ImplementsTaskQueue` is the refinement.

### Runs

| run | constants | shows |
|---|---|---|
| `work_queue` | two clients, three pushes | the safety properties and the refinement |
| `work_queue_live` | one client, two pushes | every queued task is run or cleared until a stop; a stop ends the thread; every call returns |
| `work_queue_detach` | one client, one push | a violation: `detach` returns with a task still queued |

Two clients and the worker are enough for the races in the code: two lockers
against each other, and each against the worker's unlocked window.  Three
pushes allow a task in the worker's hand, one in a local queue about to be
freed and one waiting, at once.  `MaxPushes` bounds `pushed`; nothing else is
bounded.

### Fairness

`FairSpec` is `Spec` with `Scheduling`: weak fairness of every step that needs
only the processor, because the kernel schedules ready threads, and strong
fairness of taking the mutex, because a KMUTEX hands ownership to its waiters in
turn.  Strong fairness of `TaskReturns` says that tasks end; it is strong
because a task may be at rest between two calls of its own.  Nothing obliges a
client to make a call, and nothing obliges a wait to time out: `TasksGetDone`
therefore rests on the event alone.  `StopEndsThread` does need the 10 ms and
names them: `WF_vars(WaitTimeout) => ...`.

### What the runs say of the code

* The event protocol is sound although the event is set after the unlock and
  only on the change from empty to non-empty: `NoLostWakeup`, `TasksGetDone`.
* A stop is heard only through the timeout, because `goExit` does not set the
  event: without the premise on `WaitTimeout` `StopEndsThread` fails.
* `detach` does not do all the work in the queue, as its comment says
  (work_queue.hpp:274, 357): if `_exit` is set while the worker is between its
  test of the queue and its test of `_exit`, a task pushed in that window stays
  in the queue (`DetachDrains` is violated).  What holds instead is
  `BusyStopDrains`: outside that window everything queued is run or cleared.
* A task that keeps queueing tasks keeps `detach` waiting, because `_exit` is
  not tested while the queue is not empty; `StopEndsThread` therefore speaks of
  finitely many pushes.

### Proofs

`WorkQueueProofs.tla` proves for any set of clients and any `MaxPushes`:

* `TypeCorrect`: `Spec => []TypeOK`;
* `Inductive`: `Spec => []IInv`;
* `Exclusive`, `Wakeups`, `InOrder`, `StopDrains`, `NothingLost`: the safety
  properties `MutualExclusion`, `NoLostWakeup`, `RunsInOrder`, `BusyStopDrains`
  and `Accounting`;
* `Refinement`: `Spec => ImplementsTaskQueue`.

The assumptions are `ThreadsAssumption` and `MaxPushesAssumption` (the threads
are distinct and `NoThread` is none of them).  `IInv` adds to the safety
properties what makes them inductive: what a thread inside a critical section
has read is still true (`LocalsAgree`), the queue is the interval of numbers
from `Taken + 1` to `pushed` (`QueueIsTail`), the worker's hand and everything
it has run lie below it (`HandBehindQueue`), and a worker on its way out has
passed everything queued when `_exit` was set unless it was in the window
(`StopIsOrdered`).  The proof has a lemma for each part and a step for each
action; actions of a kind (the three lockers, the two swaps, the pushes) share
their lemmas.  In the refinement the abstract fates of the tasks are read off
the queue, the hand and the history; every action is mapped to one abstract step
or to a stutter by a lemma of its own, which rests on `IInv`.

Only model-checked: the liveness properties (liveness under fairness is out of
the prover's reach).

### Abstractions

`_exit` is a volatile bool and read and written in one step; its use as a flag
needs no more.  The old status that `stop` returns is left out.  Releasing the
task held before happens inside `pop_front`, under the mutex; a destructor that
calls the worker there would re-enter the recursive KMUTEX and is not modelled.
Tasks are assumed not to raise exceptions, which kernel code cannot catch.

## 4. Kfifo

`Kfifo.tla` models `skl/kfifo.hpp`: the allocation, `__kfifo_put`,
`__kfifo_get`, `__kfifo_reset` and `kfifo_free`.  `Fifo::push` and `pop` are put
and get of `sizeof(T)` bytes, so `Fifo` is the choice of one element of `Wants`.

| variable | code |
|---|---|
| `fifo`, `asked`, `size` | whether there is a FIFO, the size that was asked for, `fifo->size` |
| `in`, `out`, `buf` | the indices and the bytes |
| `wpc`, `wwant`, `wlen` | place, argument and local `len` of the put under way |
| `rpc`, `rwant`, `rlen`, `dest` | the same of the get, and the caller's buffer |
| `sent`, `got`, `last` | history: bytes put and got since the reset, the last get's result |

A put is `PutCall`, `PutMin`, `PutFirst`, `PutRest`, `PutAdvance`: the call, the
read of the other side's index, the two copies, the store of the own index; get
likewise.  These are the points where the other side can look.  A byte is
represented by its place in the stream, so a byte that is lost, doubled, torn or
read too early has the wrong number.  The copies go through `unsigned char`
pointers, which may alias the struct, so the compiler keeps them before the
store of the index, and x86 keeps the order of stores; no weaker memory is
modelled, the code having no barrier for one.

Constants: `IndexBits` is the width of the indices (32 in the code), and all
index arithmetic is modulo `2^IndexBits`.  `Asks` and `Wants` are the sizes that
may be asked for and the lengths that may be put and got.  `min` is a macro that
evaluates its arguments twice, and one of them reads the other side's index:
`ReadsTwice` says whether the build really reads twice (Debug) or merges the
reads (Release); with it there are the steps `PutMinAgain` and `GetMinAgain`.
`MaxBytes` bounds the bytes put between two resets.

`Alloc` may fail.  `Free` and `Reset` need both sides at rest, because the code
has nothing that would make them safe otherwise.  Deadlock is not checked: a
failed allocation, `Free` and `MaxBytes` end a behaviour.

`ByteFifo.tla` is the promise: a bounded sequence of bytes, appended to at one
end and taken at the other, with the bytes that the last get handed over.
`ImplementsByteFifo` is the refinement.

### Runs

| run | constants | shows |
|---|---|---|
| `kfifo` | ring of 4, indices of 4 bits, lengths 1 to 3, 20 bytes, one read | no byte lost, doubled or overwritten while the indices wrap at 16; the refinement |
| `kfifo_elements` | sizes 3, 4, 6 and 8 asked for, elements of 2 bytes, 24 bytes, two reads | sizes are rounded to the right power of two; elements are never torn; the ring is never overrun, although `min` reads twice |

A ring of 4 with lengths up to 3 has every split of a copy at the end of the
buffer; 4-bit indices and 20 bytes wrap the indices once with every
phase of the ring; a difference of indices is at most the ring's size, so wider
indices add no case.

### What the runs say of the code

* In a build that merges the two evaluations the FIFO is a FIFO without a lock.
* In a build that does not, the length can be larger than what was asked for,
  against the comment at kfifo.hpp:82: the other side may move its index between
  the comparison and the use.  The ring stays intact (`NoOverrun`, which is also
  proved), but `AtMostLen`, and with it the caller's buffer, holds only in a
  build that reads once, which is what `BytesSafe` assumes.  If only whole
  elements of one size are put and got and the ring is a multiple of it, then
  the length is a multiple of it too.
* `WholeElements` needs the element's size to divide the ring's, which is a
  power of two.  `Fifo<T>` does not demand it: with `sizeof(T) = 3` `push` would
  report success for part of an element.
* A size above 2^31 shifts by the width of the type, which is undefined;
  `roundup_pow_of_two` allows the results 0 and 1 there and no run asks for it.

### Proofs

`KfifoProofs.tla` proves for every width, every set of lengths and any
`MaxBytes`, under the hypothesis `AsksFit` that nothing above
`2^(IndexBits - 1)` is asked for, the sizes for which `roundup_pow_of_two`
is defined:

* `RoundsRight`: `Spec => []RoundsUp`;
* `RingSafe`: `Spec => []NoOverrun`, whatever the build does with the macro;
* `BytesSafe`: `Spec => [](TypeOK /\ AtMostLen /\ Intact)` if it reads once;
* `Elements`: `Spec => []WholeElements`, whatever the build does, under the
  hypothesis `ElementFits`: one element's size is put and got, and it divides
  every ring.  `kfifo_elements` has elements of 2 bytes in rings of 4 and 8;
* `Implements`: `Spec => ImplementsByteFifo` if it reads once.

The sizes of both runs meet `AsksFit`.  Powers and `highest_bit` are recursive
functions (`power[k]` is 1 shifted by k), so that they exist is a lemma
(`Recursion`, by the least number for which a recursion computes nothing), and
so are that a power of two divides every higher one (`PowersDivide`), that n lies
just below its highest bit (`BitsHold`), and from both that every ring divides
the range of the indices (`SizesDivide`, `SizesFit`).  The inductive invariant says
that the number of bytes in the ring, `sent - got`, is the difference of the
indices modulo the width and at most `size`, that the bytes from `out` to `in`
are those of the stream, and that what a call has decided on stays allowed: the
other side can only add to the space a writer has seen and to the bytes a reader
has seen.  For `Elements` the indices, the free space and what every call
has decided on are multiples of the element.

Nothing of section 4 is only model-checked.

## 5. SharedPtr

`SharedPtr.tla` models `shared_ptr` with its counter (shared_ptr.hpp:290-420)
and `ref_holder` over `ref_item` (refholder.hpp).

| variable | code |
|---|---|
| `ptr[s]` | what slot `s` points to; slots are the locals of each thread, globals, the temporary in an assignment, and the member `next` of each object |
| `cnt[o]` | the counter of `o` |
| `status[o]` | not allocated, counter allocated, alive, in its destructor, freed |
| `pc[t]`, `dst[t]`, `src[t]` | the assignment thread `t` is in |
| `dying[t]` | the objects whose destructors `t` runs, innermost last |

`make_shared` allocates the counter and then the object, and either may fail.
A copy reads the pointer and then increments (`CopyAssign`, `Count`); the
temporary is swapped in and drops the old object (`SwapTemp`, `DropTemp`).  A
move within one type exchanges the two pointers; a move from a derived type
drops, then takes (`ChildMoveAssign`, `Take`); `ref_holder` releases, reads and
retains (`HolderAssign`, `HolderRead`, `HolderRetain`).  `LetGo` is the atomic
decrement with the test of its result: who reaches zero runs the destructor,
which destroys the member, which may be the last pointer to another object
(`DropMember`, `FreeObject`).

The pointers themselves are not atomic, so a slot is used by one operation at a
time (`Usable`): a global is under its users' lock, and the member of an object is
reached through a local pointer that keeps the object.  The counts have no such
rule; that is what the properties are about.  For `ChildMoveAssign` and
`HolderAssign` the source is a variable, never the member of an object: such a
source could be freed by the drop that precedes the read, and no caller in the
repository has one.

### Runs

| run | constants | shows |
|---|---|---|
| `shared_ptr` | two threads with a local each, one global, two objects | counts are exact, nothing dangles, nothing leaks, lives are lived once; and, with fairness, what has begun to die is freed |

Two threads and a global contain the race that matters, a copy of the global
against the drop of its last pointer; two objects are a chain with one link and
a cycle.  `Objects` bounds the allocations: freed objects do not come back.
`FairSpec` asks for weak fairness of `Continue(t)`: the kernel schedules a ready
thread, and none of the steps waits for anything.  Nothing obliges a thread to
begin an operation.

### Proofs

`SharedPtrProofs.tla` proves, for any finite sets of threads, names, globals and
objects and from no other assumption than that `Null` is no object: `Inductive`
(`Spec => []IInv`), `CountsExact`, `NeverDangling`, `NothingLeaks`,
`DeletedByOne` and `LivesOnce` (`Spec => Lifecycle`).  `CountExact` alone is not
inductive.  `IInv` adds what a thread has in hand at each label (`HandInv`: a
pointer read and not yet counted is still in its source), that no two threads
work on one slot and that a member under work belongs to an object the thread
keeps alive (`PrivateInv`), that an unfinished object is known to its maker only
(`NewInv`), that an object exists exactly while its count is positive, and
`Nested`.  The cardinality steps use two lemmas on adding to and removing from
the set of owners.

Only model-checked: `DeadAreFreed`.  Not modelled: `unique_ptr`, arrays,
`use_count` (a snapshot that nothing acts on).  Cycles of pointers stay
allocated, as with any reference count: `UnheldIsFreed` counts a member as a
pointer.

## 6. WorkerLifecycle

`WorkerLifecycle.tla` puts a worker together: `create` and `init`
(work_queue.hpp:206-257), the constructor and destructor of `skl::thread`, the
pointers to the worker that clients hold and tasks capture, and who frees what.
It is the same for `simple_worker` and `interface_worker`.

| variable | code |
|---|---|
| `cpc` | where `create` is |
| `worker`, `wp`, `holds` | the worker, the clients that have a pointer to it, the tasks that have captured one |
| `qrefs`, `fnrefs`, `krefs` | who refers to the queue (`wq`, the lambda, its heap copy, `_queue`), to the heap copy (`ptr`, the holder), to the thread object |
| `wpc`, `q`, `o`, `exit` | the worker's thread: its place, the queue, the lambda's local `o`, `_exit` |
| `pushed`, `joining` | tasks accepted; the owner is in `detach` |
| `dpc`, `dby` | the step of `~simple_worker`, and the thread that runs it |
| `crashed` | an access through a null pointer |

Every allocation and kernel call of `create` may fail: `MakeWorker`,
`MakeQueue`, `MakeFn`, `MakeHolder`, `Spawn`, `Reference`.  `EndCtor` is the end
of the constructor with the destruction of its locals, `Assign` the success of
`init`, `CreateFails` the other end.  `LetGo(t)` is part of every action that may
destroy a pointer to the worker, and the thread that destroys the last one goes on
to run the destructor before anything else: a client, or the worker's own thread
in the middle of `deque` (`DequePop`), in `clear`, or when its lambda returns
(`Leave`).  `Release` is the holder's, at the end of the thread.

`detach` is the `Owner`'s alone, as in the repository's callers.  A task that
detaches its own worker waits for itself, and two threads in `detach` drop one
reference twice; both are hazards of the code that the model leaves out.

### Runs

| run | constants | shows |
|---|---|---|
| `worker_life` | three clients, four tasks | queue and lambda outlive their users, a task that holds the worker finds it alive, nothing is left at the end, a thread runs away only by capture, a destroyed worker's thread ends |
| `worker_create` | one client, one task | a violation: `create` dies of its own destructor instead of answering that it failed |

Three clients are a creator, one it shares with, and one that the second shares
with after the first has gone; four tasks are one in `o`, one that it replaces,
and two in the queue that may or may not hold the worker.  Deadlock is not
checked: a worker that is gone, and a system that has crashed, stop.

`FairSpec` asks for weak fairness of what only needs the processor (`Create`,
`Destroying`, `Working`, where a wait ends at the latest after its 10 ms, and
`Join`), and strong fairness of `TaskReturns`: a task may call the worker, but
it does return.

### What the runs say of the code

* The destructor does not wait ("no detach"), and need not: the lambda's copy
  of the pointer keeps the queue until the thread has left it.
* `o` lives outside the loop, so the task that ran last is kept until the next
  one comes.  If it has captured the worker, the worker is kept by its own
  thread: with no other pointer left nobody can stop it, and the thread
  runs until the system ends.  `RunawayOnlyByCapture` says that this is the only
  way to a thread that nobody has stopped and nobody can reach.
* After any failure in `init` the destructor calls `stop` through `_queue`, which
  is null (`CreateAnswers` is violated).
* If only `ObReferenceObjectByHandle` fails, the thread runs on, `init` reports
  failure, and the same crash hides that the thread could not be stopped.

### Proofs

`WorkerProofs.tla` proves for any set of clients and any `MaxPushes`, from
`ClientsAssumption` and `MaxPushesAssumption`: `Inductive`, `QueueOutlives`
(`[]QueueInUse`), `TaskKeeps` (`[]TaskKeepsWorker`), `NothingStays`
(`[]NothingLeft`) and `Runaway` (`[]RunawayOnlyByCapture`).  `IInv` says which
references exist at each step of `create` (`OwnPart`, `RefsPart`, `ThreadPart`),
that the worker is alive exactly while somebody has a pointer to it and the heap
copy of the lambda exactly while it keeps the queue (`CountPart`), and what the
destructor has done by each of its steps (`DyingPart`, `DonePart`).  Two lemmas
carry the argument: `LetGoStep`, that a thread which lets go of the worker
leaves it alive if others hold it, and `CallerHolds`, that whoever can call the
worker finds it and its queue there.

Only model-checked: `DestroyedEnds`.  Not modelled: `thread::then`, the
constructor with a parameter, `sleep`.

## 7. Containers

Seven components of one thread or of interlocked single steps.  Each has a
module with its own `Init`, `Next` and properties; `Containers.tla` instantiates
them side by side, and `unit` chooses in the initial state which of them a
behaviour exercises.  They share no state, so their runs are put together and
nothing else; the components that do interact are composed in `WorkQueue`
(section 3), `WorkerLifecycle` (6) and `Drivers` (8).

| module | code | state and actions |
|---|---|---|
| `LinkedList` | `list`, `stack`, their handles and iterators (list.hpp, refholder.hpp) | every link of every head and item is a variable's field; push, pop, remove, clear, swap, append and the iterator write them in the code's order; counts of items, `seq` the sequence that should be there |
| `Vector` | `vector` (vector.hpp) | a block, `_size`, raw bytes and constructed objects apart; every allocation may fail; `crashed` after a call that overruns its block |
| `AvlTable` | `map`, `set`, `Uint64GenericTable` | external tree of nodes from one pool; a node that was given back keeps its bytes; `clear` deletes first and reads then, in two steps |
| `String` | `string`, `hashstring` (string.hpp) | blocks, lengths and maximum lengths in a USHORT; searches, `repalce` and hashes as functions |
| `Variant` | `Variant` (sl/Variant.hpp) | storage, type index, objects of each type; copies may throw; the compile-time functions as recursive functions |
| `Functor` | `just_a_call` (work_queue.hpp) | who shares which holder, its count |
| `LookAside` | `LookAsidePool`, `LookAsideSizePool` (lookaside.hpp) | of each block its size, the list it is free in, the object in it |

### Runs

| run | constants | shows |
|---|---|---|
| `containers` | two lists and a stack of three items; two vectors of up to four elements; a map, a set and a plain table on two nodes; two strings with lengths of 4 bits, four calls; three variants of three types; three functors; three blocks, by type and by two sizes | the eight properties below |
| `map_insert` | one map, two keys, two nodes | a violation: what insert's comment promises when an allocation fails |

* `ListRight`: every list's links are its sequence, forwards and backwards, and
  an item's count is the number of its owners.  Three items are a first, a
  middle and a last; two lists are what swap and append need.
* `IterationsComplete`: an iteration whose element is not removed under it visits
  everything that stays, in lists and in maps.
* `VectorRight`: contents equal the sequence, objects are made and destroyed in
  pairs, no block is lost, until one of the two calls below that overrun a block
  (`Overruns`): nothing is claimed from there on.  Ranges are inserted at every
  position up to one behind the end.  `STEP` (1024 in the code) is 2 and `Def_Reserve` 1, so
  that four elements pass through both ways to grow; `MaxCap` stands for the
  size at which memory runs out.
* `TableCounts`: counts of the items of maps and sets are exact, unless another
  table was given a node between its deletion by `clear` and the read.
* `TextsKept`: a string holds what it was given, inside its block, unless memory
  or the USHORT ran out.  With 4 bits (16 in the code) the limit is at 7
  letters, and texts of 7 and 8 are among those passed.
* `RepalceRight`, `SearchRight`: `repalce`, `find`, `rfind`, `compare`, the
  prefix tests and the hashes, and `Variant`'s search for a type, agree with a
  reference definition or with each other, over all texts that the calls can
  make, all `Words` and all lists of up to `MaxTypes` types, three here.  `BKDRHash` is computed
  modulo 2^23 (2^64 in the code), which TLC's integers can hold.
* `ObjectsRight`: a variant's object is destroyed once and as what it is, a
  functor's function goes with the last functor, an object lies in memory of its
  size.

`MaxCalls` bounds the calls on strings and `MaxMoves` the moves of a functor;
the other components are finite without a bound.  Links, nodes, items and strings
are symmetric.  Deadlock is not checked: a table that has faulted stops, and so
do vectors after an overrun.

### What the runs say of the code

Each property names what it has to except, and the exceptions are the code's:

* An insert into `map` or `set` that gets a node and no item compares through
  the null pointer it has just stored (`InsertReports` is violated); if only the
  copy of the key is invalid, it reads a deleted item (map.hpp:170, `InsertStops`).
* `clear` of a map reads the node after it was deleted.  The pool hands nodes
  of all tables out again, so another thread's insert can be in between.
* An iterator whose element was removed continues from a free node, a reused one,
  or a null link.
* `append` puts the other list's items in front of this list's.
* A text whose length does not fit into a USHORT is stored with a wrapped length,
  or in a block smaller than the copy; after a failed `operator=` a string has
  no block but the old `MaximumLength`, and ignores later assignments.
* `rfind` misses a match at position 0, and `repalce` one that ends the text.  A
  `repalce` of the empty text does not end and is not a step of the model.
* The insertion of a range does not check its position, which that of one element
  does (vector.hpp:232): behind the end, `_size - pos` wraps and the copy leaves the
  blocks (vector.hpp:383, 389).  `append` of a vector to itself does not end, because
  its loop runs to the `_size` that it increments (vector.hpp:425-427).  The
  repository's callers do neither.
* Move assignment of vectors, strings and functors is a swap: what the target had
  lives on in the source.  Assigning an iterator of one vector to an iterator of
  another exchanges the vectors, and empties one when memory runs out, which the
  model takes for the content it should have then.
* A variant whose copy throws during an assignment, or that is assigned to itself,
  names an object that is gone, and its destructor destroys it again.
* `just_a_call`'s move constructor takes the source's reference and retains the
  holder as well: one reference too many each time, and the function is never freed.

What calls answer is not part of the models unless a state depends on it.  Read
with care: `push_back` and `insert` of `vector` return false when they succeed in
place (vector.hpp:122-125, 141), `set::find` answers false even when it has found
the key (set.hpp:125), `Variant`'s comparisons compare types only.

### Proofs

`ContainersProofs.tla` proves, for any finite sets of vectors, tables, keys,
handles, variants and functors, any lists, stacks and items, any elements and
capacities of vectors, and any memory, lists of types and lists of sizes:

* `TableItemsCounted`: `Spec => []TableCounts`.
* `ListsAreRight`: `Spec => []ListRight`.
* `IterationsAreComplete`: `Spec => []IterationsComplete`, of which
  `MapIterationsComplete` is the part about maps and sets.
* `VectorsAreRight`: `Spec => []VectorRight`.
* `ObjectsEndOnce`: `Spec => []ObjectsRight`.

The components share no state, so each has an inductive invariant of its own,
which every step of the others leaves as it is.

* **Lists** (`ListNow`).  The property speaks of what a walk along the links meets,
  the least set that they do not leave; the invariant speaks of sequences, and
  `WalkMeets` and `InIs` say that it is the same.  Its parts: an item is at one
  place of one sequence at most, and every link, both ways, leads to the
  neighbour in it (`Chained`); a count is the sum of the sequence, the handles and
  the iterator (`RefsRight`); an item that is referred to and in no sequence has
  null links, which is what `remove` tests (`NullsRight`); nobody but the stack
  refers to what is in a stack, so that pop and clear may delete it
  (`StacksRight`); and an iterator that has not strayed has met what it must up to
  its position in the sequence (`WalkHolds`).  Each operation has a lemma on the
  links (`InsertChain`, `RemoveChain`, `SwapChain`, ...) and one on the sequences;
  the latter says that no operation changes the order of two items in a list
  (`Keeps`), which is why a position says what an iteration has met, whatever is
  pushed, swapped or appended around it.
* **Vectors** (`VectorsNow`).  `VectorRight` and `CopiesExact` are not inductive as
  they stand: that a step takes as many objects as it destroys needs that what is
  destroyed was in the vector's prefix, and a block is counted once only if a
  vector that is gone, or was never made, has none.  `Fits` says of a vector and
  its sequence that the memory is the sequence and raw behind it, within `MaxCap`;
  `VectorsNow` says it of all of them, and that `live` counts the places of a value
  in the sequences and `blocks` the vectors with a block.  `Becoming` and
  `BothBecoming` then say that one or two vectors may become anything that fits,
  if `live` and `blocks` change by what is gained; each operation has a lemma that
  what it makes fits (`PlaceFits`, `EraseFits`, `CopyFits`, ...), and `PutInOccurs`
  counts what a gap in the middle of a sequence adds.  A call that overruns its
  block leaves `VectorsNow` as it is (`OverrunRight`) and ends the behaviour, so the
  theorem says nothing of what comes after it.
* **Tables** (`AvlTable!IInv`).  `TableCounts` alone is not inductive: that the
  count of an item falls to what is left needs that every reference is to an item
  at all, and that no two keys share a node.  `NodesRight` says the latter, of all
  tables and the pool; `ReferencesRight` says that nodes in use, nodes that a
  `clear` has deleted and not read yet, handles and the iterator refer to items, as
  long as no such node was handed out again; `WalkRight` says where the iterator
  stands, and implies `WalkComplete`.  The proof writes `Refs` as `RefCount`, a
  sum of `Count`s over the tables' keys, the deleted nodes and the handles;
  `CountUpdate` says what happens to a `Count` when a function changes at one
  place, and each operation changes one place, or two.
* **Variants** (`Variant!IInv`): the object in the storage is of the type that the
  index names, until an assignment tears them apart.
* **Functors** (`Functor!IInv`): `FunctorRight` is inductive with types, for a
  holder that a functor refers to has a count above zero (`FunctorInUse`), and
  only `New` brings a free holder into use.
* **Pools** (`LookAside!IInv`): an object has the very size of its list, where the
  property only says that it is not larger than its block; the block goes to
  that list when the object is deleted.

The assumptions are that the sets that are counted are finite, that keys are
numbers and no items, that raw memory is no element and that the capacities of a
vector are positive (`VectorAssumption`), that the null pointer, `"void"` and `"none"` are nothing
else, and that the lists of a pool are sequences of types and of sizes.

`StringProofs.tla` proves, for any strings, texts, words, widths of USHORT and of
hashes, and any types, sizes and lengths of lists of types:

* `TextsStay`: `Spec => []TextsKept`.
* `RepalceIsRight`: `Spec => []RepalceRight`.
* `SearchIsRight`: `Spec => []SearchRight`.

What the code computes in a loop or by a recursive template (`repalce`, the
hashes, powers of two, `IntegerMax`, `Contains`, `GetLeftSize`) is a recursive
function of the models, and a theorem about it needs that such a function exists
at all and an induction over its argument.  Both are done with sets, because the
library's theorems on recursion and induction take operators, which the
provers cannot instantiate: `LeastOf` takes the least number of a set from the
well-foundedness of `<`, `UpTo` concludes from it that a set with 0, and with the
next number of each, holds them all up to a bound, and `Recursion` builds the
function that a step, given as a function too, computes from an earlier place.
`Stepwise` is `Recursion` from each number to the next.

* **Texts** (`String!IInv`).  `TextsKept` speaks of objects whose text has
  fitted.  To be inductive it needs the types of the storage, of the ghost `val`
  and of what is read from a block: letters that are not zero, unless a copy has
  left its block (`over`), after which nothing is claimed.  Each way to make,
  assign, exchange, clear or replace has a lemma that says what it leaves of the
  invariant.
* **`repalce`**.  `RepalceRight` compares the loop of the code, which goes forward
  and remembers where it has copied to, with `Rest`, which goes letter by letter
  through what is left.  The induction is over the position of the loop: what is
  in the new block, with what the reference makes of the rest, is what the
  reference makes of the whole, as long as no match ends the text; and the
  block's length follows from the number of turns that have replaced.
* **Searches, comparisons, hashes** (`SearchRight`).  `find` and `rfind` are least
  and greatest places of a match; `compare` is decided by the first difference,
  which exists by `LeastOf`, and is an order because two first differences
  can be compared.  A hash is the same for texts that compare equal; a text of at
  most `HashBits \div 8` letters does not wrap it, and from such a hash every
  letter can be read back, for 131 is more than a letter and less than a byte.
* **Lists of types**: `Index` is the place of a type counted from the end, and
  `IndexType` reads it back, by induction over the length of the list;
  `data_size` is the greatest of the sizes.

It assumes of strings that texts and words are sequences of letters of ASCII
without zero, which is where `tolower` and a C string's end are modelled, that null
is no text, and that a USHORT has two bits at least.

## 8. Drivers, services and the registry

`Programs.tla` puts together three more modules in the same way.

| module | code | state and actions |
|---|---|---|
| `ServiceManager` | `sl::ServiceOperater`, `InstallDriver` | external service manager: services, marks, states, handles; a call is a chain of requests (`Flow`) between which other clients act |
| `Registry` | `sl::Registry` | external tree of keys and values; an object's handle and flag; `value`, `setValue`, `remove`, `clear`, `allKeys` and the destructor, one request a step |
| `Drivers` | `Fs`, `KMDF`, `RunTimeInit`, `RunTimeUnInit` | from the loading of the image to its end: filter callbacks, KMDF's five threads and workers, who owns what, the runtime |

### Run

| run | constants | shows |
|---|---|---|
| `programs` | a driver and a service, one operator and two installers with one call each; two objects on the registry, paths of three names, three calls; two rounds and two tasks | the properties below |

* `RemovedGoes`: every call closes its handles, but for `start`, which leaves one
  open on every path after StartService (ServiceOperater.cpp:165), so that a
  service removed later stays as long as that process lives.
* `InstallerRight`: what the installer reports as installed or started has run since, and
  what it reports as removed does not run, unless others have started it since the stop.
  Two installers and an operator are one to act between two requests of another
  and one to hold a handle at the same time.  Installers are given the names of
  drivers.
* `DeletesOnlyMeant`: `remove` deletes what its key names, but for keys with
  stray slashes, which `normalizedKey` cuts there: "a//b" removes "a".  The end of
  an object that was cleared spares the values it has set since.
* `ReadsWhole`: `value` asks for the size and then for the value; a value
  that nobody changes in between is read.  `ListedIsFound`: what `allKeys` lists
  of the location itself, `value` finds.
* `DriverRight`: no thread and no callback outlives what it uses, main sees the
  counts its comments state (Driver.cpp:853, 903), and an image leaves behind only
  what the code never frees: the runtime of a loaded `Fs`, because `Unload` does
  not call `RunTimeUnInit`, and the instance after a failed registration.  The count
  that a thread reads into `uc` while main may still change it (Driver.cpp:817) is
  not covered; it only becomes the exit status of the thread.

Three calls and one request each are enough for a call of one client between any
two requests of another; paths of three names are a location, a key and a key
below it.  `Rounds` and `MaxTasks` stand for 5 and 100 in the code; a worker's
queue is the subject of section 3.  Deadlock is not checked: the bounds and
the end of an image stop a behaviour.  There is no liveness here: nothing obliges
a client or the system to make a request.

### Proofs

`ProgramsProofs.tla` proves every property of this run,
for any sets of services, drivers, clients, objects, locations, keys and values
and any bounds, from the assumptions of `Programs.tla`: clients and services are
told apart, the locations and keys are made of names, `""`, `"."` and
`"Default"`, and the objects on the registry are finitely many, so that a handle
always finds a number that no other has (`Fresh`).

* `DriversEndRight` (`DriverRight`).  `Drivers!IInv` says that the runtime lasts
  as long as DriverEntry does (`ImageLasts`), that a filter which calls back has
  its instance (`CallsBack`), and, unless a thread is an orphan, that main waits
  for one thread before it creates the next (`ThreadsInTurn`) and who owns each
  thread object at each stage (`OwnersRight`), from which the counts follow.
* `RemovedServicesGo` (`RemovedGoes`) and `InstallerReports` (`InstallerRight`).
  `ServiceManager!IInv` says which request a call can be at (`OnTheWay`), how
  many handles it holds there (`HandlesRight`), that a marked service which has
  stopped is held by somebody (`MarkedHeld`), and what a client that has come
  to a request knows of the service's state (`StatesSeen`).
* `OnlyMeantIsDeleted` (`DeletesOnlyMeant`), `ValuesAreWhole` (`ReadsWhole`) and
  `ListedKeysAreFound` (the action property `ListedIsFound`).  `Registry!IInv`
  says what a call knows at each request (`CallsRight`: the keys that `remove`
  walks through lie below the one it was asked for), that an object which was
  cleared has nothing of its own left but what it set since (`OwnGone`), that a
  value read in part is still there unless somebody changed it (`Unmoved`), and
  that no value is stored under the name "Default" (`DefaultFree`).  The lemmas
  before it say what `normalizedKey` keeps of a key and where a key leads.

`stop` and `control` of `ServiceOperater` answer false whatever comes, and `start`
true after most failures; the model follows the answers where the installer acts
on them.  `clear` lists the default value as "." and deletes no value of that name.

## 9. ServiceApp

`ServiceApp.tla` models `SrvTest` with the shared thread id of `dl`: consoles that
start a worker service and send each message by starting a poster service with
it; posters that read the id, post and stop; the worker that publishes its id,
gets its message queue, and serves it.  The service manager, the thread ids
(which are used again) and the message queues are external.

`ServiceMain` returns at once when its control handler cannot be registered
(AbstractServiceApp.cpp:31-34: `PosterUnregistered`, `WorkerUnregistered`).  It reports
nothing then: for the manager the service is starting for good, it can be neither
stopped nor started, and the process stays in its dispatcher with `dl` loaded.  A
poster's message is lost, and it is the last that is sent.  A report with a
registered handle is assumed to reach the manager.

| run | constants | shows |
|---|---|---|
| `service_app` | two consoles, two messages each, two thread ids, one stop | a worker takes messages in order and once; as long as nobody stops a service only messages sent before the worker listened, or whose poster could not register, are lost; every message whose service was started is settled, and its poster's service is free again unless it could not register |

Two ids are a stopped worker and its successor, which may publish in either
order; `MaxStops` bounds the stop controls, and one is enough for that.
`Fairness` is weak fairness of the posters, of the worker's thread and of the end
of a stopped process: they are scheduled and wait for nothing but a message.
Nobody is obliged to start or stop a service.

`ServiceAppProofs.tla` proves for any finite set of consoles and any ids,
messages and stops: `Inductive` (`[]IInv`), `InTurn` (`[]InOrder`) and `Reaches`
(`[]ReachesListener`).  `InOrder` needs to know where a message can be:
`PostersInTurn` says that messages are numbered as they are sent and only the
last one's poster is at work or could not register, `MessagesPlaced` that queues are in order, share
no message and hold nothing that comes before what was taken.  `ReachesListener`
needs `OneWorker` (the manager starts a worker only when the last has been told
to stop), `IdShared`, and `NothingMissed`: while nobody stops a service, the
worker that a poster has seen listening still does, and `Unheard` messages stay what
they are (`UnheardKept`).  Only model-checked:
`SentSettles`.

The worker publishes its id before it has a message queue (AppService.cpp:177),
and `ServiceCtrlHandler` reports the service stopped without telling the thread:
these are two ways in which messages are lost, and the return of `ServiceMain` above
is the third.

## 10. Not modelled

| part | reason |
|---|---|
| `type_traits.hpp` and the rest of the language support | compile-time definitions taken over from a standard library, and stateless helpers; nothing happens at run time |
| `unique_ptr`, arrays in `shared_ptr` | the move of `unique_ptr` does not compile and nothing instantiates it; `make_shared` of an array deletes it without `[]` and nobody calls it |
| `mutex_fast`, `spin_lock` | one kernel call each, used by nobody; `mutex` and `auto_locker` are modelled where they are used |
| `emplace*`, `copy_wraper`, `stack::swap`, `vector::append` by move, counters in paged memory and of 64 bits | templates that do not compile when they are instantiated |
| `vector` with an element of its own as argument, the move from a vector of another pool, assigned iterators of `map` and `set` | the models keep values and not references into a block; no caller does this |
| `thread`'s constructor with an argument, `sleep`, `SleepFor` | wrappers of what is modelled, or of one kernel call |
| KMDF's device and queue | dead code: the call of WdfDriverCreate is commented out |
| KMDF's tour of the containers | single-threaded uses of what section 7 checks |
| `Registry`'s `status`, groups, fallbacks, `sync` and 32 bit view | no state beyond the object's location, or reads of the same tree by other names |
| `ServiceOperater::queryDescription(name)`, `setDescription` | not defined; a single request that changes a text |
| configuration and utilities | reading an INI file and wrappers of single calls |
| `dl` apart from the shared id, `test`, `winTest` | experiments with language features and exports, which the repository's README asks the reader to ignore |

Assumed of the outside throughout: mutexes, events and interlocked operations do
what the system's documentation says; the RTL's AVL tables and list macros work;
`FltUnregisterFilter` waits for callbacks; kernel code raises no exceptions.
