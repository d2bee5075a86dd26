------------------------------- MODULE WorkQueue -------------------------------
(***************************************************************************)
(* skl/work_queue.hpp: the class WorkQueue, the loop of the worker thread  *)
(* that simple_worker::init and interface_worker::init start, and the      *)
(* public calls of a worker (push_a_async_call / push, stop, clear,        *)
(* detach).  Every step that another thread can observe is an action of    *)
(* its own: taking and releasing the KMUTEX, each access of the list under *)
(* it, setting the event after the unlock, the wait, the test of _exit.    *)
(*                                                                         *)
(* A task is represented by the position at which the queue accepted it    *)
(* (1, 2, ...): the n-th successful push_back creates task n.  What the    *)
(* task computes is left out, except that while it runs it may itself call *)
(* the worker's push, clear and stop.                                      *)
(*                                                                         *)
(* Operators whose names end in _Bug are not part of the specification:    *)
(* each is a plausible mistake in the definition that follows it, and a    *)
(* property of this module fails when it takes that definition's place.    *)
(***************************************************************************)
EXTENDS Integers, Sequences, FiniteSets

CONSTANTS
  Clients,    \* threads that call the public functions of the worker
  Owner,      \* the client that calls detach()
  Worker,     \* the system thread that runs the lambda of init()
  NoThread,   \* lock = NoThread: nobody owns the mutex
  MaxPushes   \* bound: successful pushes in one behaviour

ASSUME ThreadsAssumption ==
  /\ Owner \in Clients
  /\ Worker \notin Clients
  /\ NoThread \notin Clients \cup {Worker}

ASSUME MaxPushesAssumption == MaxPushes \in Nat

Threads == Clients \cup {Worker}
NoTask  == 0
Task    == Nat \ {0}

VARIABLES
  \* The members of WorkQueue and the handle in skl::thread.
  q,          \* _q, the list of tasks
  lock,       \* _lock, the owner of the KMUTEX
  signalled,  \* _e, the state of the auto-reset event
  exit,       \* _exit
  joined,     \* detach() has waited for the thread and has cleared _thread
  \* The locals of the functions that are running.
  pc,         \* where each thread is
  empty,      \* the local `empty' of enque
  ok,         \* the local `ok' of enque and emptyEnque
  ept,        \* the local queue `ept' of emptyEnque and clear
  o,          \* the local `o' of the worker's lambda: the task it holds
  \* History: what the properties speak about; no guard reads it.
  pushed,     \* number of tasks accepted so far
  executed,   \* tasks the worker has begun to run
  destroyed,  \* tasks whose call object has been destroyed
  mark,       \* value of `pushed' when _exit was first set
  window      \* the worker was past its empty test when _exit was first set

shared  == <<q, lock, signalled, exit, joined>>
locals  == <<empty, ok, ept, o>>
history == <<pushed, executed, destroyed, mark, window>>
vars    == <<q, lock, signalled, exit, joined, pc, empty, ok, ept, o,
             pushed, executed, destroyed, mark, window>>

SeqSet(s) == {s[i] : i \in 1..Len(s)}

\* A client makes its calls from "idle", the worker thread while it runs a
\* task: the code of a task may call the worker it runs on.
Home(t) == IF t = Worker THEN "run" ELSE "idle"

At(t, l)   == pc[t] = l
Goto(t, l) == pc' = [pc EXCEPT ![t] = l]

InPush == {"enque.lock", "enque.empty", "enque.push",
           "emptyEnque.lock", "emptyEnque.swap", "emptyEnque.push"}
Pushing == {t \in Threads : pc[t] \in InPush}

ClientLabels ==
  InPush \cup
  {"enque.unlock", "enque.notify",
   "emptyEnque.unlock", "emptyEnque.notify",
   "clear.lock", "clear.swap", "clear.unlock", "clear.notify", "free"}
WorkerLabels ==
  {"deque.lock", "deque.test", "deque.unlock", "deque.wait", "deque.exit",
   "call", "run", "return", "terminated"}

Labels == ClientLabels \cup WorkerLabels \cup {"idle", "join"}

LabelsOf(t) ==
  ClientLabels \cup
    (IF t = Worker THEN WorkerLabels
     ELSE IF t = Owner THEN {"idle", "join"} ELSE {"idle"})

\* The labels at which a thread is between lock() and unlock().
Critical ==
  {"enque.empty", "enque.push", "enque.unlock",
   "emptyEnque.swap", "emptyEnque.push", "emptyEnque.unlock",
   "clear.swap", "clear.unlock", "deque.test", "deque.unlock"}

Init ==
  /\ q = <<>>
  /\ lock = NoThread
  /\ signalled = TRUE
  /\ exit = FALSE
  /\ joined = FALSE
  /\ pc = [t \in Threads |-> IF t = Worker THEN "deque.lock" ELSE "idle"]
  /\ empty = [t \in Threads |-> FALSE]
  /\ ok = [t \in Threads |-> FALSE]
  /\ ept = [t \in Threads |-> <<>>]
  /\ o = NoTask
  /\ pushed = 0
  /\ executed = {}
  /\ destroyed = {}
  /\ mark = 0
  /\ window = FALSE

--------------------------------------------------------------------------------
(* Building blocks.                                                        *)

\* A step of t that moves from one label to the next.
Step(t, from, to) == At(t, from) /\ Goto(t, to)

Acquire(t) == lock = NoThread /\ lock' = t
Release(t) == lock' = NoThread
Notify     == signalled' = TRUE

\* push_back appends a new task; it returns false when the allocation of the
\* list item fails.
PushBack(t) ==
  \/ /\ q' = Append(q, pushed + 1)
     /\ pushed' = pushed + 1
     /\ ok' = [ok EXCEPT ![t] = TRUE]
  \/ /\ ok' = [ok EXCEPT ![t] = FALSE]
     /\ UNCHANGED <<q, pushed>>

\* `_q.swap(ept)' with a local queue that is empty.
SwapOut(t) ==
  /\ ept' = [ept EXCEPT ![t] = q]
  /\ q' = <<>>

--------------------------------------------------------------------------------
(* WorkQueue::enque, called by push_a_async_call and push.                 *)

EnqueCall(t) ==
  /\ pushed + Cardinality(Pushing) < MaxPushes
  /\ Step(t, Home(t), "enque.lock")
  /\ UNCHANGED <<shared, locals, history>>

EnqueLock(t) ==
  /\ Step(t, "enque.lock", "enque.empty")
  /\ Acquire(t)
  /\ UNCHANGED <<q, signalled, exit, joined, locals, history>>

\* The test for a first task is off by one.
EnqueEmpty_Bug(t) ==
  /\ Step(t, "enque.empty", "enque.push")
  /\ empty' = [empty EXCEPT ![t] = (Len(q) = 1)]
  /\ UNCHANGED <<shared, ok, ept, o, history>>

EnqueEmpty(t) ==
  /\ Step(t, "enque.empty", "enque.push")
  /\ empty' = [empty EXCEPT ![t] = (q = <<>>)]
  /\ UNCHANGED <<shared, ok, ept, o, history>>

EnquePush(t) ==
  /\ Step(t, "enque.push", "enque.unlock")
  /\ PushBack(t)
  /\ UNCHANGED <<lock, signalled, exit, joined, empty, ept, o,
                 executed, destroyed, mark, window>>

\* The event is set only for a push that found the queue empty.
EnqueUnlock(t) ==
  /\ At(t, "enque.unlock")
  /\ Release(t)
  /\ Goto(t, IF empty[t] /\ ok[t] THEN "enque.notify" ELSE Home(t))
  /\ empty' = [empty EXCEPT ![t] = FALSE]
  /\ ok' = [ok EXCEPT ![t] = FALSE]
  /\ UNCHANGED <<q, signalled, exit, joined, ept, o, history>>

\* The event is not set, as in goExit.
EnqueNotify_Bug(t) ==
  /\ Step(t, "enque.notify", Home(t))
  /\ UNCHANGED <<shared, locals, history>>

EnqueNotify(t) ==
  /\ Step(t, "enque.notify", Home(t))
  /\ Notify
  /\ UNCHANGED <<q, lock, exit, joined, locals, history>>

(* WorkQueue::emptyEnque: replace whatever waits by one task.              *)

EmptyEnqueCall(t) ==
  /\ pushed + Cardinality(Pushing) < MaxPushes
  /\ Step(t, Home(t), "emptyEnque.lock")
  /\ UNCHANGED <<shared, locals, history>>

EmptyEnqueLock(t) ==
  /\ Step(t, "emptyEnque.lock", "emptyEnque.swap")
  /\ Acquire(t)
  /\ UNCHANGED <<q, signalled, exit, joined, locals, history>>

EmptyEnqueSwap(t) ==
  /\ Step(t, "emptyEnque.swap", "emptyEnque.push")
  /\ SwapOut(t)
  /\ UNCHANGED <<lock, signalled, exit, joined, empty, ok, o, history>>

EmptyEnquePush(t) ==
  /\ Step(t, "emptyEnque.push", "emptyEnque.unlock")
  /\ PushBack(t)
  /\ UNCHANGED <<lock, signalled, exit, joined, empty, ept, o,
                 executed, destroyed, mark, window>>

EmptyEnqueUnlock(t) ==
  /\ At(t, "emptyEnque.unlock")
  /\ Release(t)
  /\ Goto(t, IF ok[t] THEN "emptyEnque.notify" ELSE "free")
  /\ ok' = [ok EXCEPT ![t] = FALSE]
  /\ UNCHANGED <<q, signalled, exit, joined, empty, ept, o, history>>

EmptyEnqueNotify(t) ==
  /\ Step(t, "emptyEnque.notify", "free")
  /\ Notify
  /\ UNCHANGED <<q, lock, exit, joined, locals, history>>

(* WorkQueue::clear.                                                       *)

ClearCall(t) ==
  /\ Step(t, Home(t), "clear.lock")
  /\ UNCHANGED <<shared, locals, history>>

ClearLock(t) ==
  /\ Step(t, "clear.lock", "clear.swap")
  /\ Acquire(t)
  /\ UNCHANGED <<q, signalled, exit, joined, locals, history>>

ClearSwap(t) ==
  /\ Step(t, "clear.swap", "clear.unlock")
  /\ SwapOut(t)
  /\ UNCHANGED <<lock, signalled, exit, joined, empty, ok, o, history>>

ClearUnlock(t) ==
  /\ Step(t, "clear.unlock", "clear.notify")
  /\ Release(t)
  /\ UNCHANGED <<q, signalled, exit, joined, locals, history>>

ClearNotify(t) ==
  /\ Step(t, "clear.notify", "free")
  /\ Notify
  /\ UNCHANGED <<q, lock, exit, joined, locals, history>>

\* The destructor of the local `ept' at the end of emptyEnque and clear.
FreeEpt(t) ==
  /\ Step(t, "free", Home(t))
  /\ destroyed' = destroyed \cup SeqSet(ept[t])
  /\ ept' = [ept EXCEPT ![t] = <<>>]
  /\ UNCHANGED <<shared, empty, ok, o, pushed, executed, mark, window>>

--------------------------------------------------------------------------------
(* stop() and detach().                                                    *)

\* goExit sets _exit; it does not touch the event.
GoExit ==
  /\ exit' = TRUE
  /\ mark' = IF exit THEN mark ELSE pushed
  /\ window' = IF exit THEN window
               ELSE pc[Worker] \in {"deque.wait", "deque.exit"}

Stop(t) ==
  /\ At(t, Home(t))
  /\ GoExit
  /\ UNCHANGED <<q, lock, signalled, joined, pc, locals,
                 pushed, executed, destroyed>>

\* detach() is stop() and then a wait for the thread, unless an earlier
\* detach() has already cleared the handle.
Detach ==
  /\ At(Owner, "idle")
  /\ GoExit
  /\ Goto(Owner, IF joined THEN "idle" ELSE "join")
  /\ UNCHANGED <<q, lock, signalled, joined, locals,
                 pushed, executed, destroyed>>

\* detach() does not wait for the thread.
Join_Bug ==
  /\ Step(Owner, "join", "idle")
  /\ joined' = TRUE
  /\ UNCHANGED <<q, lock, signalled, exit, locals, history>>

Join ==
  /\ At(Worker, "terminated")
  /\ Step(Owner, "join", "idle")
  /\ joined' = TRUE
  /\ UNCHANGED <<q, lock, signalled, exit, locals, history>>

--------------------------------------------------------------------------------
(* The worker thread: the lambda's loop around WorkQueue::deque.           *)

DequeLock ==
  /\ Step(Worker, "deque.lock", "deque.test")
  /\ Acquire(Worker)
  /\ UNCHANGED <<q, signalled, exit, joined, locals, history>>

\* The mutex is kept while the worker waits.
DequeEmpty_Bug ==
  /\ q = <<>>
  /\ Step(Worker, "deque.test", "deque.wait")
  /\ UNCHANGED <<shared, locals, history>>

\* `while (_q.empty()) { _lock.unlock(); ...': off to the wait.
DequeEmpty ==
  /\ q = <<>>
  /\ Step(Worker, "deque.test", "deque.wait")
  /\ Release(Worker)
  /\ UNCHANGED <<q, signalled, exit, joined, locals, history>>

\* The head is copied and stays in the list.
DequePop_Bug ==
  /\ q /= <<>>
  /\ Step(Worker, "deque.test", "deque.unlock")
  /\ o' = Head(q)
  /\ destroyed' = destroyed \cup ({o} \ {NoTask})
  /\ UNCHANGED <<q, lock, signalled, exit, joined, empty, ok, ept,
                 pushed, executed, mark, window>>

\* The task `o' held before is overwritten and never released.
DequePop_LeakBug ==
  /\ q /= <<>>
  /\ Step(Worker, "deque.test", "deque.unlock")
  /\ o' = Head(q)
  /\ q' = Tail(q)
  /\ UNCHANGED <<lock, signalled, exit, joined, empty, ok, ept,
                 pushed, executed, destroyed, mark, window>>

\* pop_front moves the head into `o' by a swap, so that deleting the list item
\* destroys the task `o' held before.
DequePop ==
  /\ q /= <<>>
  /\ Step(Worker, "deque.test", "deque.unlock")
  /\ o' = Head(q)
  /\ q' = Tail(q)
  /\ destroyed' = destroyed \cup ({o} \ {NoTask})
  /\ UNCHANGED <<lock, signalled, exit, joined, empty, ok, ept,
                 pushed, executed, mark, window>>

DequeUnlock ==
  /\ Step(Worker, "deque.unlock", "call")
  /\ Release(Worker)
  /\ UNCHANGED <<q, signalled, exit, joined, locals, history>>

\* wait_for ends because the event is signalled, which resets it ...
WaitSignalled ==
  /\ signalled
  /\ Step(Worker, "deque.wait", "deque.exit")
  /\ signalled' = FALSE
  /\ UNCHANGED <<q, lock, exit, joined, locals, history>>

\* wait() in place of wait_for().
WaitTimeout_Bug == FALSE /\ UNCHANGED vars

\* ... or because 10 ms have passed.
WaitTimeout ==
  /\ ~signalled
  /\ Step(Worker, "deque.wait", "deque.exit")
  /\ UNCHANGED <<shared, locals, history>>

\* `if (_exit) return E_EXIT': the queue is not looked at again.
ExitTest ==
  /\ At(Worker, "deque.exit")
  /\ Goto(Worker, IF exit THEN "return" ELSE "deque.lock")
  /\ UNCHANGED <<shared, locals, history>>

CallTask ==
  /\ Step(Worker, "call", "run")
  /\ executed' = executed \cup {o}
  /\ UNCHANGED <<shared, locals, pushed, destroyed, mark, window>>

\* _exit is also tested between two tasks.
TaskReturns_Bug ==
  /\ Step(Worker, "run", IF exit THEN "return" ELSE "deque.lock")
  /\ UNCHANGED <<shared, locals, history>>

TaskReturns ==
  /\ Step(Worker, "run", "deque.lock")
  /\ UNCHANGED <<shared, locals, history>>

\* The lambda returns, `o' goes out of scope and the thread terminates.
Terminate ==
  /\ Step(Worker, "return", "terminated")
  /\ destroyed' = destroyed \cup ({o} \ {NoTask})
  /\ o' = NoTask
  /\ UNCHANGED <<shared, empty, ok, ept, pushed, executed, mark, window>>

--------------------------------------------------------------------------------
Locking(t) == EnqueLock(t) \/ EmptyEnqueLock(t) \/ ClearLock(t)

\* The rest of a call that is under way.
Continue(t) ==
  \/ EnqueEmpty(t) \/ EnquePush(t) \/ EnqueUnlock(t) \/ EnqueNotify(t)
  \/ EmptyEnqueSwap(t) \/ EmptyEnquePush(t) \/ EmptyEnqueUnlock(t)
  \/ EmptyEnqueNotify(t)
  \/ ClearSwap(t) \/ ClearUnlock(t) \/ ClearNotify(t)
  \/ FreeEpt(t)

Calling(t) == EnqueCall(t) \/ EmptyEnqueCall(t) \/ ClearCall(t) \/ Stop(t)

\* The worker's own steps that need neither the mutex nor the clock.
Working ==
  \/ DequeEmpty \/ DequePop \/ DequeUnlock \/ WaitSignalled \/ ExitTest
  \/ CallTask \/ Terminate

Next ==
  \/ \E t \in Threads : Locking(t) \/ Continue(t) \/ Calling(t)
  \/ Working \/ DequeLock \/ WaitTimeout \/ TaskReturns
  \/ Detach \/ Join

Spec == Init /\ [][Next]_vars

(***************************************************************************)
(* Fairness.  The kernel schedules every ready thread, so a step that      *)
(* stays enabled is taken.  A KMUTEX hands ownership to its waiters in     *)
(* turn, so a thread that waits for it is not passed over for ever: strong *)
(* fairness.  Tasks are assumed to return: strong fairness of TaskReturns  *)
(* rules out only a task that calls the worker for ever.                   *)
(***************************************************************************)
Scheduling ==
  /\ \A t \in Threads : SF_vars(Locking(t)) /\ WF_vars(Continue(t))
  /\ SF_vars(DequeLock) /\ WF_vars(Working) /\ SF_vars(TaskReturns)
  /\ WF_vars(Join)

\* This does not oblige the wait to time out: see StopEndsThread.
FairSpec == Spec /\ Scheduling

--------------------------------------------------------------------------------
(* Safety.                                                                 *)

PcTypeOK ==
  /\ pc \in [Threads -> Labels]
  /\ \A t \in Threads : pc[t] \in LabelsOf(t)

TypeOK ==
  /\ q \in Seq(Task)
  /\ lock \in Threads \cup {NoThread}
  /\ signalled \in BOOLEAN
  /\ exit \in BOOLEAN
  /\ joined \in BOOLEAN
  /\ PcTypeOK
  /\ empty \in [Threads -> BOOLEAN]
  /\ ok \in [Threads -> BOOLEAN]
  /\ ept \in [Threads -> Seq(Task)]
  /\ o \in Nat
  /\ pushed \in Nat
  /\ executed \subseteq Nat
  /\ destroyed \subseteq Task
  /\ mark \in Nat
  /\ window \in BOOLEAN

\* The list is touched by the owner of the mutex only (work_queue.hpp:28-39,
\* 46-48, 60-62, 73-74), so no two threads are ever between lock and unlock.
MutualExclusion ==
  \A t \in Threads : pc[t] \in Critical => lock = t

\* enque sets the event after it has released the mutex, and only if it found
\* the queue empty (work_queue.hpp:50-51); the worker waits after it has
\* released the mutex.  Still no wakeup is lost: when the worker is about to
\* wait, or waits, while a task is queued, the event is set or a thread is
\* on its way to setting it.
WillNotify(t) ==
  \/ pc[t] \in {"enque.notify", "emptyEnque.notify", "clear.notify"}
  \/ pc[t] = "enque.unlock" /\ empty[t] /\ ok[t]
  \/ pc[t] = "emptyEnque.unlock" /\ ok[t]

NoLostWakeup ==
  At(Worker, "deque.wait") /\ q /= <<>> =>
    signalled \/ \E t \in Threads : WillNotify(t)

\* The worker runs tasks in the order in which the pushes were accepted, and
\* none twice: the task it is about to call is later than all it has called.
RunsInOrder ==
  At(Worker, "call") => o > 0 /\ \A n \in executed : n < o

\* Each accepted task is in exactly one place: in the queue, in the local
\* queue of one clear() or emptyEnque(), in the worker's hand, or destroyed.
\* So none leaks, none is destroyed twice, and the one that is being run is
\* alive (Driver.cpp:903: after clear and detach the use count is one again).
Held == {o} \ {NoTask}
InEpt == UNION {SeqSet(ept[t]) : t \in Threads}

Accounting ==
  /\ 1..pushed = SeqSet(q) \cup InEpt \cup Held \cup destroyed
  /\ SeqSet(q) \cap (InEpt \cup Held \cup destroyed) = {}
  /\ InEpt \cap (Held \cup destroyed) = {}
  /\ Held \cap destroyed = {}
  /\ \A t, u \in Threads : t /= u => SeqSet(ept[t]) \cap SeqSet(ept[u]) = {}
  /\ At(Worker, "run") => Held /= {}

\* What stop() does guarantee: if the worker is not between its test of the
\* queue and its test of _exit when _exit is first set, then every task that
\* was waiting has been run or cleared by the time the thread leaves its loop.
BusyStopDrains ==
  pc[Worker] \in {"return", "terminated"} /\ ~window =>
    \A n \in SeqSet(q) : n > mark

\* The number of tasks that have left the queue.  As tasks are numbered in
\* the order of acceptance, the queue holds those from Taken + 1 to pushed.
Taken == pushed - Len(q)

QueueIsTail ==
  Len(q) <= pushed /\ \A i \in 1..Len(q) : q[i] = Taken + i

\* What a thread inside a critical section knows of the queue is still true.
LocalsAgree ==
  \A t \in Threads :
    /\ pc[t] = "enque.push" => empty[t] = (q = <<>>)
    /\ pc[t] = "emptyEnque.push" => q = <<>>

\* The worker's hand and what it has run lie behind the queue.
HandBehindQueue ==
  /\ o <= Taken
  /\ \A n \in executed : n <= Taken
  /\ pc[Worker] \in {"deque.unlock", "call"} =>
       o > 0 /\ \A n \in executed : n < o

\* The local queue of emptyEnque and clear holds tasks only between the swap
\* and its destructor, and the worker's hand holds a task from the pop until
\* the call has returned: while it runs, by itself or in a call it makes on its
\* own worker, that task is one the worker has begun.
EptInUse == {"emptyEnque.push", "emptyEnque.unlock", "emptyEnque.notify",
             "clear.unlock", "clear.notify", "free"}

EptIsLocal == \A t \in Threads : pc[t] \notin EptInUse => ept[t] = <<>>

HandIsBegun ==
  /\ pc[Worker] \in ClientLabels \cup {"call", "deque.unlock", "run"} => o > 0
  /\ pc[Worker] \notin {"deque.unlock", "call"} => o \in executed \cup {NoTask}

\* A worker that has seen the queue empty since _exit was set has let nothing
\* pass that was queued at that time.
StopIsOrdered ==
  /\ mark <= pushed
  /\ ~exit => mark = 0
  /\ pc[Worker] \in {"return", "terminated"} => exit
  /\ pc[Worker] \in {"deque.wait", "deque.exit", "return", "terminated"}
       => window \/ mark <= Taken
  /\ joined => pc[Worker] = "terminated"

\* The inductive invariant behind the safety properties: see WorkQueueProofs.
IInv ==
  /\ TypeOK
  /\ MutualExclusion
  /\ LocalsAgree
  /\ NoLostWakeup
  /\ QueueIsTail
  /\ HandBehindQueue
  /\ StopIsOrdered
  /\ EptIsLocal
  /\ HandIsBegun
  /\ Accounting

\* work_queue.hpp:274 and 357 on detach(): "stop and wait the thread to exit,
\* all work in queue will be done".  The tasks that were in the queue when
\* _exit was set are no longer in it when detach() has returned.
DetachDrains ==
  joined => \A n \in SeqSet(q) : n > mark

--------------------------------------------------------------------------------
(* Liveness.                                                               *)

Settled(n) == n \in executed \/ n \in InEpt \/ n \in destroyed

\* A queued task is run or cleared, unless the worker is told to exit.  Under
\* FairSpec: the event alone gets it done, the timeout of the wait is not
\* needed.
TasksGetDone ==
  \A n \in 1..MaxPushes : (n \in SeqSet(q)) ~> (Settled(n) \/ exit)

\* Once _exit is set, and since pushes are finitely many (MaxPushes), the
\* thread ends.  It may be waiting with nobody left to set the event, because
\* goExit does not: the timeout of wait_for is what makes it look.
StopEndsThread == WF_vars(WaitTimeout) => (exit ~> At(Worker, "terminated"))

\* Every call of a client returns, except a detach() while the thread is kept
\* alive by its tasks: nobody waits for the mutex for ever.
CallsReturn ==
  \A t \in Clients :
    (pc[t] \in ClientLabels) ~> (pc[t] \in {"idle", "join"})

--------------------------------------------------------------------------------
(* Refinement: the worker implements TaskQueue.                            *)

Fate(n) ==
  IF n \in SeqSet(q) THEN "waiting"
  ELSE IF n \in executed \/ n = o THEN "taken"
  ELSE "dropped"

Abstract == INSTANCE TaskQueue
              WITH fate <- [n \in 1..pushed |-> Fate(n)], closed <- joined

\* Every step is a step of TaskQueue or changes nothing it can see.
ImplementsTaskQueue == Abstract!Spec
================================================================================
