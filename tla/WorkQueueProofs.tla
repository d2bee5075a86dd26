---------------------------- MODULE WorkQueueProofs ----------------------------
(***************************************************************************)
(* Proofs about WorkQueue, for every set of clients and every bound.       *)
(***************************************************************************)
EXTENDS WorkQueue, TLAPS


\* What the list operations give when every entry is a task.
LEMMA TaskSeq ==
  /\ <<>> \in Seq(Task)
  /\ \A s \in Seq(Task), n \in Nat : Append(s, n + 1) \in Seq(Task)
  /\ \A s \in Seq(Task) : s /= <<>> => Head(s) \in Task /\ Tail(s) \in Seq(Task)
  /\ \A s \in Seq(Task) : SeqSet(s) \subseteq Task
  /\ NoTask \in Nat /\ NoTask \notin Task /\ Task \subseteq Nat
<1>1. <<>> \in Seq(Task)
  OBVIOUS
<1>2. ASSUME NEW s \in Seq(Task), NEW n \in Nat
      PROVE  Append(s, n + 1) \in Seq(Task)
  <2>1. n + 1 \in Task
    BY DEF Task
  <2>2. QED
    BY <2>1
<1>3. ASSUME NEW s \in Seq(Task), s /= <<>>
      PROVE  Head(s) \in Task /\ Tail(s) \in Seq(Task)
  BY <1>3
<1>4. ASSUME NEW s \in Seq(Task)
      PROVE  SeqSet(s) \subseteq Task
  BY DEF SeqSet
<1>5. NoTask \in Nat /\ NoTask \notin Task /\ Task \subseteq Nat
  BY DEF NoTask, Task
<1>6. QED
  BY <1>1, <1>2, <1>3, <1>4, <1>5


\* A thread that moves to a label of its own keeps the control state typed.
LEMMA PcStep ==
  ASSUME PcTypeOK, NEW t \in Threads, NEW l \in LabelsOf(t), Goto(t, l)
  PROVE  PcTypeOK'
BY DEF PcTypeOK, Labels, LabelsOf, Goto

\* The labels a client's call passes, and the one it returns to, are labels of
\* the thread that makes the call.
LEMMA CallLabels ==
  ASSUME NEW t \in Threads
  PROVE  Home(t) \in LabelsOf(t) /\ ClientLabels \subseteq LabelsOf(t)
BY DEF Home, LabelsOf, WorkerLabels

LEMMA WorkerThread ==
  Worker \in Threads /\ WorkerLabels \subseteq LabelsOf(Worker)
BY DEF Threads, LabelsOf

LEMMA OwnerThread ==
  Owner \in Threads /\ {"idle", "join"} \subseteq LabelsOf(Owner)
BY ThreadsAssumption DEF Threads, LabelsOf


\* Every step is one of the named actions or changes nothing.
LEMMA StepCases ==
  ASSUME [Next]_vars
  PROVE  \/ \E t \in Threads :
              \/ EnqueLock(t) \/ EmptyEnqueLock(t) \/ ClearLock(t)
              \/ EnqueEmpty(t) \/ EnquePush(t) \/ EnqueUnlock(t)
              \/ EnqueNotify(t) \/ EmptyEnqueSwap(t) \/ EmptyEnquePush(t)
              \/ EmptyEnqueUnlock(t) \/ EmptyEnqueNotify(t) \/ ClearSwap(t)
              \/ ClearUnlock(t) \/ ClearNotify(t) \/ FreeEpt(t)
              \/ EnqueCall(t) \/ EmptyEnqueCall(t) \/ ClearCall(t) \/ Stop(t)
         \/ DequeLock \/ DequeEmpty \/ DequePop \/ DequeUnlock
         \/ WaitSignalled \/ WaitTimeout \/ ExitTest \/ CallTask
         \/ TaskReturns \/ Terminate
         \/ Detach \/ Join
         \/ UNCHANGED vars
BY DEF Next, Locking, Continue, Calling, Working

\* Every thread stays within its own labels.
LEMMA PcTypeStep == PcTypeOK /\ [Next]_vars => PcTypeOK'
<1> SUFFICES ASSUME PcTypeOK, [Next]_vars PROVE PcTypeOK'
  OBVIOUS
<1> USE DEF Step
<1>1. ASSUME NEW t \in Threads, EnqueLock(t) PROVE PcTypeOK'
  BY <1>1, PcStep, CallLabels DEF EnqueLock, ClientLabels, InPush
<1>2. ASSUME NEW t \in Threads, EmptyEnqueLock(t) PROVE PcTypeOK'
  BY <1>2, PcStep, CallLabels DEF EmptyEnqueLock, ClientLabels, InPush
<1>3. ASSUME NEW t \in Threads, ClearLock(t) PROVE PcTypeOK'
  BY <1>3, PcStep, CallLabels DEF ClearLock, ClientLabels, InPush
<1>4. ASSUME NEW t \in Threads, EnqueEmpty(t) PROVE PcTypeOK'
  BY <1>4, PcStep, CallLabels DEF EnqueEmpty, ClientLabels, InPush
<1>5. ASSUME NEW t \in Threads, EnquePush(t) PROVE PcTypeOK'
  BY <1>5, PcStep, CallLabels DEF EnquePush, ClientLabels, InPush
<1>6. ASSUME NEW t \in Threads, EnqueUnlock(t) PROVE PcTypeOK'
  BY <1>6, PcStep, CallLabels DEF EnqueUnlock, ClientLabels, InPush
<1>7. ASSUME NEW t \in Threads, EnqueNotify(t) PROVE PcTypeOK'
  BY <1>7, PcStep, CallLabels DEF EnqueNotify, ClientLabels, InPush
<1>8. ASSUME NEW t \in Threads, EmptyEnqueSwap(t) PROVE PcTypeOK'
  BY <1>8, PcStep, CallLabels DEF EmptyEnqueSwap, ClientLabels, InPush
<1>9. ASSUME NEW t \in Threads, EmptyEnquePush(t) PROVE PcTypeOK'
  BY <1>9, PcStep, CallLabels DEF EmptyEnquePush, ClientLabels, InPush
<1>10. ASSUME NEW t \in Threads, EmptyEnqueUnlock(t) PROVE PcTypeOK'
  BY <1>10, PcStep, CallLabels DEF EmptyEnqueUnlock, ClientLabels, InPush
<1>11. ASSUME NEW t \in Threads, EmptyEnqueNotify(t) PROVE PcTypeOK'
  BY <1>11, PcStep, CallLabels DEF EmptyEnqueNotify, ClientLabels, InPush
<1>12. ASSUME NEW t \in Threads, ClearSwap(t) PROVE PcTypeOK'
  BY <1>12, PcStep, CallLabels DEF ClearSwap, ClientLabels, InPush
<1>13. ASSUME NEW t \in Threads, ClearUnlock(t) PROVE PcTypeOK'
  BY <1>13, PcStep, CallLabels DEF ClearUnlock, ClientLabels, InPush
<1>14. ASSUME NEW t \in Threads, ClearNotify(t) PROVE PcTypeOK'
  BY <1>14, PcStep, CallLabels DEF ClearNotify, ClientLabels, InPush
<1>15. ASSUME NEW t \in Threads, FreeEpt(t) PROVE PcTypeOK'
  BY <1>15, PcStep, CallLabels DEF FreeEpt, ClientLabels, InPush
<1>16. ASSUME NEW t \in Threads, EnqueCall(t) PROVE PcTypeOK'
  BY <1>16, PcStep, CallLabels DEF EnqueCall, ClientLabels, InPush
<1>17. ASSUME NEW t \in Threads, EmptyEnqueCall(t) PROVE PcTypeOK'
  BY <1>17, PcStep, CallLabels DEF EmptyEnqueCall, ClientLabels, InPush
<1>18. ASSUME NEW t \in Threads, ClearCall(t) PROVE PcTypeOK'
  BY <1>18, PcStep, CallLabels DEF ClearCall, ClientLabels, InPush
<1>19. ASSUME NEW t \in Threads, Stop(t) PROVE PcTypeOK'
  BY <1>19 DEF Stop, PcTypeOK
<1>20. CASE DequeLock
  BY <1>20, PcStep, WorkerThread DEF DequeLock, WorkerLabels
<1>21. CASE DequeEmpty
  BY <1>21, PcStep, WorkerThread DEF DequeEmpty, WorkerLabels
<1>22. CASE DequePop
  BY <1>22, PcStep, WorkerThread DEF DequePop, WorkerLabels
<1>23. CASE DequeUnlock
  BY <1>23, PcStep, WorkerThread DEF DequeUnlock, WorkerLabels
<1>24. CASE WaitSignalled
  BY <1>24, PcStep, WorkerThread DEF WaitSignalled, WorkerLabels
<1>25. CASE WaitTimeout
  BY <1>25, PcStep, WorkerThread DEF WaitTimeout, WorkerLabels
<1>26. CASE ExitTest
  BY <1>26, PcStep, WorkerThread DEF ExitTest, WorkerLabels
<1>27. CASE CallTask
  BY <1>27, PcStep, WorkerThread DEF CallTask, WorkerLabels
<1>28. CASE TaskReturns
  BY <1>28, PcStep, WorkerThread DEF TaskReturns, WorkerLabels
<1>29. CASE Terminate
  BY <1>29, PcStep, WorkerThread DEF Terminate, WorkerLabels
<1>30. CASE Detach
  BY <1>30, PcStep, OwnerThread DEF Detach
<1>31. CASE Join
  BY <1>31, PcStep, OwnerThread DEF Join
<1>32. CASE UNCHANGED vars
  BY <1>32 DEF vars, PcTypeOK
<1>33. QED
  BY <1>1, <1>2, <1>3, <1>4, <1>5, <1>6, <1>7, <1>8, <1>9, <1>10, <1>11,
     <1>12, <1>13, <1>14, <1>15, <1>16, <1>17, <1>18, <1>19, <1>20, <1>21,
     <1>22, <1>23, <1>24, <1>25, <1>26, <1>27, <1>28, <1>29, <1>30, <1>31,
     <1>32, StepCases

\* push_back, goExit and the release of the task in the worker's hand keep the
\* types of what they change.
LEMMA PushBackType ==
  ASSUME TypeOK, NEW t \in Threads, PushBack(t)
  PROVE  q' \in Seq(Task) /\ pushed' \in Nat /\ ok' \in [Threads -> BOOLEAN]
<1>1. CASE q' = q /\ pushed' = pushed
  BY <1>1 DEF TypeOK, PushBack
<1>2. CASE q' = Append(q, pushed + 1) /\ pushed' = pushed + 1
  <2>1. q \in Seq(Task) /\ pushed \in Nat
    BY DEF TypeOK
  <2>2. q' \in Seq(Task) /\ pushed' \in Nat
    BY <2>1, <1>2, TaskSeq
  <2>3. QED
    BY <2>2 DEF TypeOK, PushBack
<1>3. QED
  BY <1>1, <1>2 DEF PushBack

LEMMA GoExitType ==
  ASSUME TypeOK, GoExit
  PROVE  exit' \in BOOLEAN /\ mark' \in Nat /\ window' \in BOOLEAN
<1>1. exit' \in BOOLEAN /\ mark' \in Nat
  BY DEF TypeOK, GoExit
<1>2. CASE exit
  BY <1>1, <1>2 DEF TypeOK, GoExit
<1>3. CASE ~exit
  <2>1. window' = (pc[Worker] \in {"deque.wait", "deque.exit"})
    BY <1>3 DEF GoExit
  <2>2. QED
    BY <1>1, <2>1
<1>4. QED
  BY <1>2, <1>3

LEMMA ReleaseHandType ==
  ASSUME TypeOK
  PROVE  destroyed \cup ({o} \ {NoTask}) \subseteq Task
BY DEF TypeOK, NoTask, Task

LEMMA TypeStep == TypeOK /\ [Next]_vars => TypeOK'
<1> SUFFICES ASSUME TypeOK, [Next]_vars PROVE TypeOK'
  OBVIOUS
<1> USE TaskSeq, WorkerThread, OwnerThread
    DEF TypeOK, Step, shared, locals, history
<1>0. PcTypeOK'
  BY PcTypeStep
<1>1. ASSUME NEW t \in Threads, EnqueLock(t) PROVE TypeOK'
  BY <1>1, <1>0 DEF EnqueLock, Acquire
<1>2. ASSUME NEW t \in Threads, EmptyEnqueLock(t) PROVE TypeOK'
  BY <1>2, <1>0 DEF EmptyEnqueLock, Acquire
<1>3. ASSUME NEW t \in Threads, ClearLock(t) PROVE TypeOK'
  BY <1>3, <1>0 DEF ClearLock, Acquire
<1>4. ASSUME NEW t \in Threads, EnqueEmpty(t) PROVE TypeOK'
  BY <1>4, <1>0 DEF EnqueEmpty
<1>5. ASSUME NEW t \in Threads, EnquePush(t) PROVE TypeOK'
  BY <1>5, <1>0, PushBackType DEF EnquePush
<1>6. ASSUME NEW t \in Threads, EnqueUnlock(t) PROVE TypeOK'
  BY <1>6, <1>0 DEF EnqueUnlock, Release
<1>7. ASSUME NEW t \in Threads, EnqueNotify(t) PROVE TypeOK'
  BY <1>7, <1>0 DEF EnqueNotify, Notify
<1>8. ASSUME NEW t \in Threads, EmptyEnqueSwap(t) PROVE TypeOK'
  BY <1>8, <1>0 DEF EmptyEnqueSwap, SwapOut
<1>9. ASSUME NEW t \in Threads, EmptyEnquePush(t) PROVE TypeOK'
  BY <1>9, <1>0, PushBackType DEF EmptyEnquePush
<1>10. ASSUME NEW t \in Threads, EmptyEnqueUnlock(t) PROVE TypeOK'
  BY <1>10, <1>0 DEF EmptyEnqueUnlock, Release
<1>11. ASSUME NEW t \in Threads, EmptyEnqueNotify(t) PROVE TypeOK'
  BY <1>11, <1>0 DEF EmptyEnqueNotify, Notify
<1>12. ASSUME NEW t \in Threads, ClearSwap(t) PROVE TypeOK'
  BY <1>12, <1>0 DEF ClearSwap, SwapOut
<1>13. ASSUME NEW t \in Threads, ClearUnlock(t) PROVE TypeOK'
  BY <1>13, <1>0 DEF ClearUnlock, Release
<1>14. ASSUME NEW t \in Threads, ClearNotify(t) PROVE TypeOK'
  BY <1>14, <1>0 DEF ClearNotify, Notify
<1>15. ASSUME NEW t \in Threads, FreeEpt(t) PROVE TypeOK'
  BY <1>15, <1>0 DEF FreeEpt
<1>16. ASSUME NEW t \in Threads, EnqueCall(t) PROVE TypeOK'
  BY <1>16, <1>0 DEF EnqueCall
<1>17. ASSUME NEW t \in Threads, EmptyEnqueCall(t) PROVE TypeOK'
  BY <1>17, <1>0 DEF EmptyEnqueCall
<1>18. ASSUME NEW t \in Threads, ClearCall(t) PROVE TypeOK'
  BY <1>18, <1>0 DEF ClearCall
<1>19. ASSUME NEW t \in Threads, Stop(t) PROVE TypeOK'
  BY <1>19, <1>0, GoExitType DEF Stop
<1>20. CASE DequeLock
  BY <1>20, <1>0 DEF DequeLock, Acquire
<1>21. CASE DequeEmpty
  BY <1>21, <1>0 DEF DequeEmpty, Release
<1>22. CASE DequePop
  BY <1>22, <1>0, ReleaseHandType DEF DequePop
<1>23. CASE DequeUnlock
  BY <1>23, <1>0 DEF DequeUnlock, Release
<1>24. CASE WaitSignalled
  BY <1>24, <1>0 DEF WaitSignalled
<1>25. CASE WaitTimeout
  BY <1>25, <1>0 DEF WaitTimeout
<1>26. CASE ExitTest
  BY <1>26, <1>0 DEF ExitTest
<1>27. CASE CallTask
  BY <1>27, <1>0 DEF CallTask
<1>28. CASE TaskReturns
  BY <1>28, <1>0 DEF TaskReturns
<1>29. CASE Terminate
  BY <1>29, <1>0, ReleaseHandType DEF Terminate
<1>30. CASE Detach
  BY <1>30, <1>0, GoExitType DEF Detach
<1>31. CASE Join
  BY <1>31, <1>0 DEF Join
<1>32. CASE UNCHANGED vars
  BY <1>32, <1>0 DEF vars
<1>33. QED
  BY <1>1, <1>2, <1>3, <1>4, <1>5, <1>6, <1>7, <1>8, <1>9, <1>10, <1>11,
     <1>12, <1>13, <1>14, <1>15, <1>16, <1>17, <1>18, <1>19, <1>20, <1>21,
     <1>22, <1>23, <1>24, <1>25, <1>26, <1>27, <1>28, <1>29, <1>30, <1>31,
     <1>32, StepCases

LEMMA TypeInit == Init => TypeOK
BY TaskSeq DEF Init, TypeOK, PcTypeOK, Labels, LabelsOf, ClientLabels,
               WorkerLabels, Threads, NoTask

\* Every variable keeps its type, and every thread the labels it can be at: a
\* client never runs the worker's loop, and the worker never waits for itself.
THEOREM TypeCorrect == Spec => []TypeOK
BY TypeInit, TypeStep, PTL DEF Spec

--------------------------------------------------------------------------------
(* Mutual exclusion.  A step that leaves the mutex alone does not bring    *)
(* its thread into a critical section; the others go through Acquire and   *)
(* Release.                                                                *)

LEMMA MutexKept ==
  ASSUME PcTypeOK, MutualExclusion, NEW t \in Threads, NEW l,
         Goto(t, l), lock' = lock, l \in Critical => pc[t] \in Critical
  PROVE  MutualExclusion'
BY DEF PcTypeOK, MutualExclusion, Goto

LEMMA MutexAcquired ==
  ASSUME PcTypeOK, MutualExclusion, NEW t \in Threads, NEW l,
         Goto(t, l), Acquire(t)
  PROVE  MutualExclusion'
BY ThreadsAssumption DEF PcTypeOK, MutualExclusion, Goto, Acquire, Threads

LEMMA MutexReleased ==
  ASSUME PcTypeOK, MutualExclusion, NEW t \in Threads, NEW l,
         Goto(t, l), Release(t), pc[t] \in Critical, l \notin Critical
  PROVE  MutualExclusion'
BY DEF PcTypeOK, MutualExclusion, Goto, Release

LEMMA OneInside ==
  ASSUME MutualExclusion, NEW t \in Threads, NEW u \in Threads,
         pc[t] \in Critical, pc[u] \in Critical
  PROVE  t = u
BY DEF MutualExclusion

LEMMA MutexStep ==
  TypeOK /\ MutualExclusion /\ [Next]_vars => MutualExclusion'
<1> SUFFICES ASSUME TypeOK, MutualExclusion, [Next]_vars PROVE MutualExclusion'
  OBVIOUS
<1>0. PcTypeOK
  BY DEF TypeOK
<1> USE <1>0, ThreadsAssumption, WorkerThread, OwnerThread
    DEF Step, At, shared, Home
<1>1. ASSUME NEW t \in Threads, EnqueLock(t) PROVE MutualExclusion'
  BY <1>1, MutexAcquired DEF EnqueLock
<1>2. ASSUME NEW t \in Threads, EmptyEnqueLock(t) PROVE MutualExclusion'
  BY <1>2, MutexAcquired DEF EmptyEnqueLock
<1>3. ASSUME NEW t \in Threads, ClearLock(t) PROVE MutualExclusion'
  BY <1>3, MutexAcquired DEF ClearLock
<1>4. ASSUME NEW t \in Threads, EnqueEmpty(t) PROVE MutualExclusion'
  BY <1>4, MutexKept DEF EnqueEmpty, Critical
<1>5. ASSUME NEW t \in Threads, EnquePush(t) PROVE MutualExclusion'
  BY <1>5, MutexKept DEF EnquePush, Critical
<1>6. ASSUME NEW t \in Threads, EnqueUnlock(t) PROVE MutualExclusion'
  BY <1>6, MutexReleased DEF EnqueUnlock, Critical
<1>7. ASSUME NEW t \in Threads, EnqueNotify(t) PROVE MutualExclusion'
  BY <1>7, MutexKept DEF EnqueNotify, Critical
<1>8. ASSUME NEW t \in Threads, EmptyEnqueSwap(t) PROVE MutualExclusion'
  BY <1>8, MutexKept DEF EmptyEnqueSwap, Critical
<1>9. ASSUME NEW t \in Threads, EmptyEnquePush(t) PROVE MutualExclusion'
  BY <1>9, MutexKept DEF EmptyEnquePush, Critical
<1>10. ASSUME NEW t \in Threads, EmptyEnqueUnlock(t) PROVE MutualExclusion'
  BY <1>10, MutexReleased DEF EmptyEnqueUnlock, Critical
<1>11. ASSUME NEW t \in Threads, EmptyEnqueNotify(t) PROVE MutualExclusion'
  BY <1>11, MutexKept DEF EmptyEnqueNotify, Critical
<1>12. ASSUME NEW t \in Threads, ClearSwap(t) PROVE MutualExclusion'
  BY <1>12, MutexKept DEF ClearSwap, Critical
<1>13. ASSUME NEW t \in Threads, ClearUnlock(t) PROVE MutualExclusion'
  BY <1>13, MutexReleased DEF ClearUnlock, Critical
<1>14. ASSUME NEW t \in Threads, ClearNotify(t) PROVE MutualExclusion'
  BY <1>14, MutexKept DEF ClearNotify, Critical
<1>15. ASSUME NEW t \in Threads, FreeEpt(t) PROVE MutualExclusion'
  BY <1>15, MutexKept DEF FreeEpt, Critical
<1>16. ASSUME NEW t \in Threads, EnqueCall(t) PROVE MutualExclusion'
  BY <1>16, MutexKept DEF EnqueCall, Critical
<1>17. ASSUME NEW t \in Threads, EmptyEnqueCall(t) PROVE MutualExclusion'
  BY <1>17, MutexKept DEF EmptyEnqueCall, Critical
<1>18. ASSUME NEW t \in Threads, ClearCall(t) PROVE MutualExclusion'
  BY <1>18, MutexKept DEF ClearCall, Critical
<1>19. ASSUME NEW t \in Threads, Stop(t) PROVE MutualExclusion'
  BY <1>19 DEF Stop, MutualExclusion
<1>20. CASE DequeLock
  BY <1>20, MutexAcquired DEF DequeLock
<1>21. CASE DequeEmpty
  BY <1>21, MutexReleased DEF DequeEmpty, Critical
<1>22. CASE DequePop
  BY <1>22, MutexKept DEF DequePop, Critical
<1>23. CASE DequeUnlock
  BY <1>23, MutexReleased DEF DequeUnlock, Critical
<1>24. CASE WaitSignalled
  BY <1>24, MutexKept DEF WaitSignalled, Critical
<1>25. CASE WaitTimeout
  BY <1>25, MutexKept DEF WaitTimeout, Critical
<1>26. CASE ExitTest
  BY <1>26, MutexKept DEF ExitTest, Critical
<1>27. CASE CallTask
  BY <1>27, MutexKept DEF CallTask, Critical
<1>28. CASE TaskReturns
  BY <1>28, MutexKept DEF TaskReturns, Critical
<1>29. CASE Terminate
  BY <1>29, MutexKept DEF Terminate, Critical
<1>30. CASE Detach
  BY <1>30, MutexKept DEF Detach, Critical
<1>31. CASE Join
  BY <1>31, MutexKept DEF Join, Critical
<1>32. CASE UNCHANGED vars
  BY <1>32 DEF vars, MutualExclusion
<1>33. QED
  BY <1>1, <1>2, <1>3, <1>4, <1>5, <1>6, <1>7, <1>8, <1>9, <1>10, <1>11,
     <1>12, <1>13, <1>14, <1>15, <1>16, <1>17, <1>18, <1>19, <1>20, <1>21,
     <1>22, <1>23, <1>24, <1>25, <1>26, <1>27, <1>28, <1>29, <1>30, <1>31,
     <1>32, StepCases

--------------------------------------------------------------------------------
(* What the threads know of the queue.                                     *)

LEMMA LocalsKept ==
  ASSUME PcTypeOK, LocalsAgree, NEW t \in Threads, NEW l, Goto(t, l),
         l \notin {"enque.push", "emptyEnque.push"},
         q' = q, \A u \in Threads : u /= t => empty'[u] = empty[u]
  PROVE  LocalsAgree'
BY DEF PcTypeOK, LocalsAgree, Goto

\* The owner of the mutex may change the queue: nobody else relies on it.
LEMMA LocalsInside ==
  ASSUME PcTypeOK, MutualExclusion, LocalsAgree, NEW t \in Threads, NEW l,
         Goto(t, l), l \notin {"enque.push", "emptyEnque.push"},
         pc[t] \in Critical
  PROVE  LocalsAgree'
<1>1. ASSUME NEW u \in Threads, pc'[u] \in {"enque.push", "emptyEnque.push"}
      PROVE  FALSE
  <2>1. u /= t /\ pc[u] = pc'[u]
    BY <1>1 DEF PcTypeOK, Goto
  <2>2. pc[u] \in Critical
    BY <1>1, <2>1 DEF Critical
  <2>3. QED
    BY <2>1, <2>2, OneInside
<1>2. QED
  BY <1>1 DEF LocalsAgree

LEMMA LocalsStep ==
  TypeOK /\ MutualExclusion /\ LocalsAgree /\ [Next]_vars => LocalsAgree'
<1> SUFFICES ASSUME TypeOK, MutualExclusion, LocalsAgree, [Next]_vars
             PROVE  LocalsAgree'
  OBVIOUS
<1>0. PcTypeOK
  BY DEF TypeOK
<1> USE <1>0, WorkerThread, OwnerThread DEF Step, At, shared, locals, Home
<1>1. ASSUME NEW t \in Threads, EnqueLock(t) PROVE LocalsAgree'
  BY <1>1, LocalsKept DEF EnqueLock
<1>2. ASSUME NEW t \in Threads, EmptyEnqueLock(t) PROVE LocalsAgree'
  BY <1>2, LocalsKept DEF EmptyEnqueLock
<1>3. ASSUME NEW t \in Threads, ClearLock(t) PROVE LocalsAgree'
  BY <1>3, LocalsKept DEF ClearLock
<1>4. ASSUME NEW t \in Threads, EnqueEmpty(t) PROVE LocalsAgree'
  BY <1>4 DEF EnqueEmpty, LocalsAgree, Goto, PcTypeOK, TypeOK
<1>5. ASSUME NEW t \in Threads, EnquePush(t) PROVE LocalsAgree'
  BY <1>5, LocalsInside DEF EnquePush, Critical
<1>6. ASSUME NEW t \in Threads, EnqueUnlock(t) PROVE LocalsAgree'
  BY <1>6, LocalsKept DEF EnqueUnlock, TypeOK
<1>7. ASSUME NEW t \in Threads, EnqueNotify(t) PROVE LocalsAgree'
  BY <1>7, LocalsKept DEF EnqueNotify
<1>8. ASSUME NEW t \in Threads, EmptyEnqueSwap(t) PROVE LocalsAgree'
  BY <1>8, OneInside
     DEF EmptyEnqueSwap, SwapOut, Critical, LocalsAgree, Goto, PcTypeOK
<1>9. ASSUME NEW t \in Threads, EmptyEnquePush(t) PROVE LocalsAgree'
  BY <1>9, LocalsInside DEF EmptyEnquePush, Critical
<1>10. ASSUME NEW t \in Threads, EmptyEnqueUnlock(t) PROVE LocalsAgree'
  BY <1>10, LocalsKept DEF EmptyEnqueUnlock
<1>11. ASSUME NEW t \in Threads, EmptyEnqueNotify(t) PROVE LocalsAgree'
  BY <1>11, LocalsKept DEF EmptyEnqueNotify
<1>12. ASSUME NEW t \in Threads, ClearSwap(t) PROVE LocalsAgree'
  BY <1>12, LocalsInside DEF ClearSwap, Critical
<1>13. ASSUME NEW t \in Threads, ClearUnlock(t) PROVE LocalsAgree'
  BY <1>13, LocalsKept DEF ClearUnlock
<1>14. ASSUME NEW t \in Threads, ClearNotify(t) PROVE LocalsAgree'
  BY <1>14, LocalsKept DEF ClearNotify
<1>15. ASSUME NEW t \in Threads, FreeEpt(t) PROVE LocalsAgree'
  BY <1>15, LocalsKept DEF FreeEpt
<1>16. ASSUME NEW t \in Threads, EnqueCall(t) PROVE LocalsAgree'
  BY <1>16, LocalsKept DEF EnqueCall
<1>17. ASSUME NEW t \in Threads, EmptyEnqueCall(t) PROVE LocalsAgree'
  BY <1>17, LocalsKept DEF EmptyEnqueCall
<1>18. ASSUME NEW t \in Threads, ClearCall(t) PROVE LocalsAgree'
  BY <1>18, LocalsKept DEF ClearCall
<1>19. ASSUME NEW t \in Threads, Stop(t) PROVE LocalsAgree'
  BY <1>19 DEF Stop, LocalsAgree
<1>20. CASE DequeLock
  BY <1>20, LocalsKept DEF DequeLock
<1>21. CASE DequeEmpty
  BY <1>21, LocalsKept DEF DequeEmpty
<1>22. CASE DequePop
  BY <1>22, LocalsInside DEF DequePop, Critical
<1>23. CASE DequeUnlock
  BY <1>23, LocalsKept DEF DequeUnlock
<1>24. CASE WaitSignalled
  BY <1>24, LocalsKept DEF WaitSignalled
<1>25. CASE WaitTimeout
  BY <1>25, LocalsKept DEF WaitTimeout
<1>26. CASE ExitTest
  BY <1>26, LocalsKept DEF ExitTest
<1>27. CASE CallTask
  BY <1>27, LocalsKept DEF CallTask
<1>28. CASE TaskReturns
  BY <1>28, LocalsKept DEF TaskReturns
<1>29. CASE Terminate
  BY <1>29, LocalsKept DEF Terminate
<1>30. CASE Detach
  BY <1>30, LocalsKept DEF Detach
<1>31. CASE Join
  BY <1>31, LocalsKept DEF Join
<1>32. CASE UNCHANGED vars
  BY <1>32 DEF vars, LocalsAgree
<1>33. QED
  BY <1>1, <1>2, <1>3, <1>4, <1>5, <1>6, <1>7, <1>8, <1>9, <1>10, <1>11,
     <1>12, <1>13, <1>14, <1>15, <1>16, <1>17, <1>18, <1>19, <1>20, <1>21,
     <1>22, <1>23, <1>24, <1>25, <1>26, <1>27, <1>28, <1>29, <1>30, <1>31,
     <1>32, StepCases

--------------------------------------------------------------------------------
(* Wakeups.                                                                *)

LEMMA WakeupKept ==
  ASSUME PcTypeOK, NoLostWakeup, NEW t \in Threads, NEW l, Goto(t, l),
         ~WillNotify(t), t = Worker => l /= "deque.wait",
         q' = q, signalled' = signalled,
         \A u \in Threads \ {t} : empty'[u] = empty[u] /\ ok'[u] = ok[u]
  PROVE  NoLostWakeup'
<1> SUFFICES ASSUME At(Worker, "deque.wait")', (q /= <<>>)', ~signalled'
             PROVE  \E u \in Threads : WillNotify(u)'
  BY DEF NoLostWakeup
<1>1. t /= Worker /\ pc[Worker] = "deque.wait"
  BY WorkerThread DEF PcTypeOK, Goto, At
<1>2. PICK u \in Threads : WillNotify(u)
  BY <1>1 DEF NoLostWakeup, At
<1>3. u /= t /\ pc'[u] = pc[u]
  BY <1>2 DEF PcTypeOK, Goto
<1>4. WillNotify(u)'
  BY <1>2, <1>3 DEF WillNotify
<1>5. QED
  BY <1>4

\* A push either finds tasks in the queue, and then the wakeup for those is
\* still due, or is the one that has to set the event.
LEMMA WakeupPush ==
  ASSUME TypeOK, LocalsAgree, NoLostWakeup, NEW t \in Threads, EnquePush(t)
  PROVE  NoLostWakeup'
<1> SUFFICES ASSUME At(Worker, "deque.wait")', (q /= <<>>)', ~signalled'
             PROVE  \E u \in Threads : WillNotify(u)'
  BY DEF NoLostWakeup
<1>1. /\ pc[t] = "enque.push" /\ pc'[t] = "enque.unlock"
      /\ \A u \in Threads \ {t} : pc'[u] = pc[u] /\ ok'[u] = ok[u]
      /\ empty' = empty /\ signalled' = signalled
  BY DEF TypeOK, PcTypeOK, EnquePush, PushBack, Step, At, Goto
<1>2. pc[Worker] = "deque.wait"
  BY <1>1, WorkerThread DEF At
<1>3. CASE q /= <<>>
  <2>1. PICK u \in Threads : WillNotify(u)
    BY <1>1, <1>2, <1>3 DEF NoLostWakeup, At
  <2>2. u /= t
    BY <1>1, <2>1 DEF WillNotify
  <2>3. WillNotify(u)'
    BY <1>1, <2>1, <2>2 DEF WillNotify
  <2>4. QED
    BY <2>3
<1>4. CASE q = <<>>
  <2>1. empty[t]
    BY <1>1, <1>4 DEF LocalsAgree
  <2>2. ok'[t]
    BY <1>4 DEF EnquePush, PushBack, TypeOK
  <2>3. WillNotify(t)'
    BY <1>1, <2>1, <2>2 DEF WillNotify
  <2>4. QED
    BY <2>3
<1>5. QED
  BY <1>3, <1>4

\* emptyEnque pushes onto an empty queue and always sets the event afterwards.
LEMMA WakeupReplace ==
  ASSUME TypeOK, LocalsAgree, NEW t \in Threads, EmptyEnquePush(t)
  PROVE  NoLostWakeup'
<1>1. q = <<>> /\ pc'[t] = "emptyEnque.unlock"
  BY DEF EmptyEnquePush, LocalsAgree, Step, At, Goto, TypeOK, PcTypeOK
<1>2. CASE q' = q
  BY <1>1, <1>2 DEF NoLostWakeup
<1>3. CASE ok' = [ok EXCEPT ![t] = TRUE]
  <2>1. WillNotify(t)'
    BY <1>1, <1>3 DEF WillNotify, TypeOK
  <2>2. QED
    BY <2>1 DEF NoLostWakeup
<1>4. QED
  BY <1>2, <1>3 DEF EmptyEnquePush, PushBack

LEMMA WakeupStep ==
  TypeOK /\ LocalsAgree /\ NoLostWakeup /\ [Next]_vars => NoLostWakeup'
<1> SUFFICES ASSUME TypeOK, LocalsAgree, NoLostWakeup, [Next]_vars
             PROVE  NoLostWakeup'
  OBVIOUS
<1>0. PcTypeOK
  BY DEF TypeOK
<1> USE <1>0, WorkerThread, OwnerThread, ThreadsAssumption
    DEF Step, At, shared, locals, Home
<1>1. ASSUME NEW t \in Threads, EnqueLock(t) PROVE NoLostWakeup'
  BY <1>1, WakeupKept DEF EnqueLock, WillNotify
<1>2. ASSUME NEW t \in Threads, EmptyEnqueLock(t) PROVE NoLostWakeup'
  BY <1>2, WakeupKept DEF EmptyEnqueLock, WillNotify
<1>3. ASSUME NEW t \in Threads, ClearLock(t) PROVE NoLostWakeup'
  BY <1>3, WakeupKept DEF ClearLock, WillNotify
<1>4. ASSUME NEW t \in Threads, EnqueEmpty(t) PROVE NoLostWakeup'
  BY <1>4, WakeupKept DEF EnqueEmpty, WillNotify
<1>5. ASSUME NEW t \in Threads, EnquePush(t) PROVE NoLostWakeup'
  BY <1>5, WakeupPush DEF EnquePush
<1>6. ASSUME NEW t \in Threads, EnqueUnlock(t) PROVE NoLostWakeup'
  BY <1>6, WakeupKept
     DEF EnqueUnlock, WillNotify, NoLostWakeup, TypeOK, PcTypeOK, Goto
<1>7. ASSUME NEW t \in Threads, EnqueNotify(t) PROVE NoLostWakeup'
  BY <1>7 DEF EnqueNotify, Notify, NoLostWakeup
<1>8. ASSUME NEW t \in Threads, EmptyEnqueSwap(t) PROVE NoLostWakeup'
  BY <1>8 DEF EmptyEnqueSwap, SwapOut, NoLostWakeup
<1>9. ASSUME NEW t \in Threads, EmptyEnquePush(t) PROVE NoLostWakeup'
  BY <1>9, WakeupReplace DEF EmptyEnquePush
<1>10. ASSUME NEW t \in Threads, EmptyEnqueUnlock(t) PROVE NoLostWakeup'
  BY <1>10, WakeupKept
     DEF EmptyEnqueUnlock, WillNotify, NoLostWakeup, TypeOK, PcTypeOK, Goto
<1>11. ASSUME NEW t \in Threads, EmptyEnqueNotify(t) PROVE NoLostWakeup'
  BY <1>11 DEF EmptyEnqueNotify, Notify, NoLostWakeup
<1>12. ASSUME NEW t \in Threads, ClearSwap(t) PROVE NoLostWakeup'
  BY <1>12 DEF ClearSwap, SwapOut, NoLostWakeup
<1>13. ASSUME NEW t \in Threads, ClearUnlock(t) PROVE NoLostWakeup'
  BY <1>13, WakeupKept
     DEF ClearUnlock, WillNotify, NoLostWakeup, TypeOK, PcTypeOK, Goto
<1>14. ASSUME NEW t \in Threads, ClearNotify(t) PROVE NoLostWakeup'
  BY <1>14 DEF ClearNotify, Notify, NoLostWakeup
<1>15. ASSUME NEW t \in Threads, FreeEpt(t) PROVE NoLostWakeup'
  BY <1>15, WakeupKept DEF FreeEpt, WillNotify
<1>16. ASSUME NEW t \in Threads, EnqueCall(t) PROVE NoLostWakeup'
  BY <1>16, WakeupKept DEF EnqueCall, WillNotify
<1>17. ASSUME NEW t \in Threads, EmptyEnqueCall(t) PROVE NoLostWakeup'
  BY <1>17, WakeupKept DEF EmptyEnqueCall, WillNotify
<1>18. ASSUME NEW t \in Threads, ClearCall(t) PROVE NoLostWakeup'
  BY <1>18, WakeupKept DEF ClearCall, WillNotify
<1>19. ASSUME NEW t \in Threads, Stop(t) PROVE NoLostWakeup'
  BY <1>19 DEF Stop, NoLostWakeup, WillNotify
<1>20. CASE DequeLock
  BY <1>20 DEF DequeLock, NoLostWakeup, Goto, PcTypeOK
<1>21. CASE DequeEmpty
  BY <1>21 DEF DequeEmpty, NoLostWakeup, Goto, PcTypeOK
<1>22. CASE DequePop
  BY <1>22 DEF DequePop, NoLostWakeup, Goto, PcTypeOK
<1>23. CASE DequeUnlock
  BY <1>23 DEF DequeUnlock, NoLostWakeup, Goto, PcTypeOK
<1>24. CASE WaitSignalled
  BY <1>24 DEF WaitSignalled, NoLostWakeup, Goto, PcTypeOK
<1>25. CASE WaitTimeout
  BY <1>25 DEF WaitTimeout, NoLostWakeup, Goto, PcTypeOK
<1>26. CASE ExitTest
  BY <1>26 DEF ExitTest, NoLostWakeup, Goto, PcTypeOK
<1>27. CASE CallTask
  BY <1>27 DEF CallTask, NoLostWakeup, Goto, PcTypeOK
<1>28. CASE TaskReturns
  BY <1>28 DEF TaskReturns, NoLostWakeup, Goto, PcTypeOK
<1>29. CASE Terminate
  BY <1>29 DEF Terminate, NoLostWakeup, Goto, PcTypeOK
<1>30. CASE Detach
  BY <1>30, WakeupKept DEF Detach, WillNotify
<1>31. CASE Join
  BY <1>31, WakeupKept DEF Join, WillNotify
<1>32. CASE UNCHANGED vars
  BY <1>32 DEF vars, NoLostWakeup, WillNotify
<1>33. QED
  BY <1>1, <1>2, <1>3, <1>4, <1>5, <1>6, <1>7, <1>8, <1>9, <1>10, <1>11,
     <1>12, <1>13, <1>14, <1>15, <1>16, <1>17, <1>18, <1>19, <1>20, <1>21,
     <1>22, <1>23, <1>24, <1>25, <1>26, <1>27, <1>28, <1>29, <1>30, <1>31,
     <1>32, StepCases

--------------------------------------------------------------------------------
(* The numbering of the queue.                                             *)

LEMMA PushTail ==
  ASSUME TypeOK, QueueIsTail, NEW t \in Threads, PushBack(t)
  PROVE  QueueIsTail' /\ Taken' = Taken /\ pushed' >= pushed
<1>0. q \in Seq(Task) /\ pushed \in Nat
  BY DEF TypeOK
<1>1. CASE q' = q /\ pushed' = pushed
  BY <1>0, <1>1 DEF QueueIsTail, Taken
<1>2. CASE q' = Append(q, pushed + 1) /\ pushed' = pushed + 1
  <2>1. pushed + 1 \in Task
    BY <1>0 DEF Task
  <2>2. /\ Len(q') = Len(q) + 1
        /\ \A i \in 1..Len(q) : q'[i] = q[i]
        /\ q'[Len(q) + 1] = pushed + 1
    BY <1>0, <1>2, <2>1
  <2>3. Taken' = Taken
    BY <1>0, <1>2, <2>2 DEF Taken
  <2>4. ASSUME NEW i \in 1..Len(q') PROVE q'[i] = Taken + i
    BY <1>0, <2>2, <2>4 DEF QueueIsTail, Taken
  <2>5. QED
    BY <1>0, <1>2, <2>2, <2>3, <2>4 DEF QueueIsTail
<1>3. QED
  BY <1>1, <1>2 DEF PushBack

LEMMA SwapTail ==
  ASSUME TypeOK, QueueIsTail, NEW t \in Threads, SwapOut(t), pushed' = pushed
  PROVE  QueueIsTail' /\ Taken' = pushed /\ Taken <= pushed
BY DEF TypeOK, QueueIsTail, Taken, SwapOut

LEMMA PopTail ==
  ASSUME TypeOK, QueueIsTail, DequePop
  PROVE  /\ QueueIsTail' /\ Taken' = Taken + 1
         /\ o' = Taken + 1 /\ pushed' = pushed
<1>0. /\ q \in Seq(Task) /\ pushed \in Nat /\ q /= <<>>
      /\ q' = Tail(q) /\ o' = Head(q) /\ pushed' = pushed
  BY DEF TypeOK, DequePop
<1>1. /\ Len(q) > 0 /\ Len(q') = Len(q) - 1 /\ Head(q) = q[1]
      /\ \A i \in 1..Len(q') : q'[i] = q[i + 1]
  BY <1>0
<1>2. Taken' = Taken + 1
  BY <1>0, <1>1 DEF Taken
<1>3. o' = Taken + 1
  BY <1>0, <1>1 DEF QueueIsTail
<1>4. ASSUME NEW i \in 1..Len(q') PROVE q'[i] = Taken' + i
  BY <1>0, <1>1, <1>2 DEF QueueIsTail, Taken
<1>5. QED
  BY <1>0, <1>1, <1>2, <1>3, <1>4 DEF QueueIsTail

LEMMA TailKept ==
  ASSUME QueueIsTail, q' = q, pushed' = pushed
  PROVE  QueueIsTail' /\ Taken' = Taken
BY DEF QueueIsTail, Taken

\* The queue stays the tail of the accepted tasks, and nothing returns to it.
LEMMA TailStep ==
  TypeOK /\ QueueIsTail /\ [Next]_vars
    => QueueIsTail' /\ Taken' >= Taken /\ pushed' >= pushed
<1> SUFFICES ASSUME TypeOK, QueueIsTail, [Next]_vars
             PROVE  QueueIsTail' /\ Taken' >= Taken /\ pushed' >= pushed
  OBVIOUS
<1>0. Taken \in Nat /\ pushed \in Nat
  BY DEF TypeOK, QueueIsTail, Taken
<1> USE <1>0 DEF shared, history
<1>1. ASSUME NEW t \in Threads, EnqueLock(t)
      PROVE  QueueIsTail' /\ Taken' >= Taken /\ pushed' >= pushed
  BY <1>1, TailKept DEF EnqueLock
<1>2. ASSUME NEW t \in Threads, EmptyEnqueLock(t)
      PROVE  QueueIsTail' /\ Taken' >= Taken /\ pushed' >= pushed
  BY <1>2, TailKept DEF EmptyEnqueLock
<1>3. ASSUME NEW t \in Threads, ClearLock(t)
      PROVE  QueueIsTail' /\ Taken' >= Taken /\ pushed' >= pushed
  BY <1>3, TailKept DEF ClearLock
<1>4. ASSUME NEW t \in Threads, EnqueEmpty(t)
      PROVE  QueueIsTail' /\ Taken' >= Taken /\ pushed' >= pushed
  BY <1>4, TailKept DEF EnqueEmpty
<1>5. ASSUME NEW t \in Threads, EnquePush(t)
      PROVE  QueueIsTail' /\ Taken' >= Taken /\ pushed' >= pushed
  BY <1>5, PushTail DEF EnquePush
<1>6. ASSUME NEW t \in Threads, EnqueUnlock(t)
      PROVE  QueueIsTail' /\ Taken' >= Taken /\ pushed' >= pushed
  BY <1>6, TailKept DEF EnqueUnlock
<1>7. ASSUME NEW t \in Threads, EnqueNotify(t)
      PROVE  QueueIsTail' /\ Taken' >= Taken /\ pushed' >= pushed
  BY <1>7, TailKept DEF EnqueNotify
<1>8. ASSUME NEW t \in Threads, EmptyEnqueSwap(t)
      PROVE  QueueIsTail' /\ Taken' >= Taken /\ pushed' >= pushed
  BY <1>8, SwapTail DEF EmptyEnqueSwap
<1>9. ASSUME NEW t \in Threads, EmptyEnquePush(t)
      PROVE  QueueIsTail' /\ Taken' >= Taken /\ pushed' >= pushed
  BY <1>9, PushTail DEF EmptyEnquePush
<1>10. ASSUME NEW t \in Threads, EmptyEnqueUnlock(t)
      PROVE  QueueIsTail' /\ Taken' >= Taken /\ pushed' >= pushed
  BY <1>10, TailKept DEF EmptyEnqueUnlock
<1>11. ASSUME NEW t \in Threads, EmptyEnqueNotify(t)
      PROVE  QueueIsTail' /\ Taken' >= Taken /\ pushed' >= pushed
  BY <1>11, TailKept DEF EmptyEnqueNotify
<1>12. ASSUME NEW t \in Threads, ClearSwap(t)
      PROVE  QueueIsTail' /\ Taken' >= Taken /\ pushed' >= pushed
  BY <1>12, SwapTail DEF ClearSwap
<1>13. ASSUME NEW t \in Threads, ClearUnlock(t)
      PROVE  QueueIsTail' /\ Taken' >= Taken /\ pushed' >= pushed
  BY <1>13, TailKept DEF ClearUnlock
<1>14. ASSUME NEW t \in Threads, ClearNotify(t)
      PROVE  QueueIsTail' /\ Taken' >= Taken /\ pushed' >= pushed
  BY <1>14, TailKept DEF ClearNotify
<1>15. ASSUME NEW t \in Threads, FreeEpt(t)
      PROVE  QueueIsTail' /\ Taken' >= Taken /\ pushed' >= pushed
  BY <1>15, TailKept DEF FreeEpt
<1>16. ASSUME NEW t \in Threads, EnqueCall(t)
      PROVE  QueueIsTail' /\ Taken' >= Taken /\ pushed' >= pushed
  BY <1>16, TailKept DEF EnqueCall
<1>17. ASSUME NEW t \in Threads, EmptyEnqueCall(t)
      PROVE  QueueIsTail' /\ Taken' >= Taken /\ pushed' >= pushed
  BY <1>17, TailKept DEF EmptyEnqueCall
<1>18. ASSUME NEW t \in Threads, ClearCall(t)
      PROVE  QueueIsTail' /\ Taken' >= Taken /\ pushed' >= pushed
  BY <1>18, TailKept DEF ClearCall
<1>19. ASSUME NEW t \in Threads, Stop(t)
      PROVE  QueueIsTail' /\ Taken' >= Taken /\ pushed' >= pushed
  BY <1>19, TailKept DEF Stop
<1>20. CASE DequeLock
  BY <1>20, TailKept DEF DequeLock
<1>21. CASE DequeEmpty
  BY <1>21, TailKept DEF DequeEmpty
<1>22. CASE DequePop
  BY <1>22, PopTail DEF DequePop
<1>23. CASE DequeUnlock
  BY <1>23, TailKept DEF DequeUnlock
<1>24. CASE WaitSignalled
  BY <1>24, TailKept DEF WaitSignalled
<1>25. CASE WaitTimeout
  BY <1>25, TailKept DEF WaitTimeout
<1>26. CASE ExitTest
  BY <1>26, TailKept DEF ExitTest
<1>27. CASE CallTask
  BY <1>27, TailKept DEF CallTask
<1>28. CASE TaskReturns
  BY <1>28, TailKept DEF TaskReturns
<1>29. CASE Terminate
  BY <1>29, TailKept DEF Terminate
<1>30. CASE Detach
  BY <1>30, TailKept DEF Detach
<1>31. CASE Join
  BY <1>31, TailKept DEF Join
<1>32. CASE UNCHANGED vars
  BY <1>32, TailKept DEF vars
<1>33. QED
  BY <1>1, <1>2, <1>3, <1>4, <1>5, <1>6, <1>7, <1>8, <1>9, <1>10, <1>11,
     <1>12, <1>13, <1>14, <1>15, <1>16, <1>17, <1>18, <1>19, <1>20, <1>21,
     <1>22, <1>23, <1>24, <1>25, <1>26, <1>27, <1>28, <1>29, <1>30, <1>31,
     <1>32, StepCases

--------------------------------------------------------------------------------
(* The worker's hand.                                                      *)

LEMMA HandKept ==
  ASSUME TypeOK, QueueIsTail, HandBehindQueue, Taken' \in Nat, Taken' >= Taken,
         o' = o, executed' = executed,
         pc'[Worker] \in {"deque.unlock", "call"}
           => pc[Worker] \in {"deque.unlock", "call"}
  PROVE  HandBehindQueue'
<1>1. Taken \in Nat
  BY DEF TypeOK, QueueIsTail, Taken
<1>2. QED
  BY <1>1 DEF HandBehindQueue, TypeOK

LEMMA HandStep ==
  TypeOK /\ QueueIsTail /\ HandBehindQueue /\ [Next]_vars => HandBehindQueue'
<1> SUFFICES ASSUME TypeOK, QueueIsTail, HandBehindQueue, [Next]_vars
             PROVE  HandBehindQueue'
  OBVIOUS
<1>0. PcTypeOK /\ Taken \in Nat /\ TypeOK' /\ Taken' \in Nat /\ Taken' >= Taken
  <2>1. TypeOK'
    BY TypeStep
  <2>2. QED
    BY <2>1, TailStep DEF TypeOK, QueueIsTail, Taken
<1> USE <1>0, WorkerThread, OwnerThread, ThreadsAssumption
    DEF Step, At, shared, locals, history, Home
<1>1. ASSUME NEW t \in Threads, EnqueLock(t) PROVE HandBehindQueue'
  BY <1>1, HandKept DEF EnqueLock, Goto, PcTypeOK
<1>2. ASSUME NEW t \in Threads, EmptyEnqueLock(t) PROVE HandBehindQueue'
  BY <1>2, HandKept DEF EmptyEnqueLock, Goto, PcTypeOK
<1>3. ASSUME NEW t \in Threads, ClearLock(t) PROVE HandBehindQueue'
  BY <1>3, HandKept DEF ClearLock, Goto, PcTypeOK
<1>4. ASSUME NEW t \in Threads, EnqueEmpty(t) PROVE HandBehindQueue'
  BY <1>4, HandKept DEF EnqueEmpty, Goto, PcTypeOK
<1>5. ASSUME NEW t \in Threads, EnquePush(t) PROVE HandBehindQueue'
  BY <1>5, HandKept DEF EnquePush, PushBack, Goto, PcTypeOK
<1>6. ASSUME NEW t \in Threads, EnqueUnlock(t) PROVE HandBehindQueue'
  BY <1>6, HandKept DEF EnqueUnlock, Goto, PcTypeOK
<1>7. ASSUME NEW t \in Threads, EnqueNotify(t) PROVE HandBehindQueue'
  BY <1>7, HandKept DEF EnqueNotify, Goto, PcTypeOK
<1>8. ASSUME NEW t \in Threads, EmptyEnqueSwap(t) PROVE HandBehindQueue'
  BY <1>8, HandKept DEF EmptyEnqueSwap, Goto, PcTypeOK
<1>9. ASSUME NEW t \in Threads, EmptyEnquePush(t) PROVE HandBehindQueue'
  BY <1>9, HandKept DEF EmptyEnquePush, PushBack, Goto, PcTypeOK
<1>10. ASSUME NEW t \in Threads, EmptyEnqueUnlock(t) PROVE HandBehindQueue'
  BY <1>10, HandKept DEF EmptyEnqueUnlock, Goto, PcTypeOK
<1>11. ASSUME NEW t \in Threads, EmptyEnqueNotify(t) PROVE HandBehindQueue'
  BY <1>11, HandKept DEF EmptyEnqueNotify, Goto, PcTypeOK
<1>12. ASSUME NEW t \in Threads, ClearSwap(t) PROVE HandBehindQueue'
  BY <1>12, HandKept DEF ClearSwap, Goto, PcTypeOK
<1>13. ASSUME NEW t \in Threads, ClearUnlock(t) PROVE HandBehindQueue'
  BY <1>13, HandKept DEF ClearUnlock, Goto, PcTypeOK
<1>14. ASSUME NEW t \in Threads, ClearNotify(t) PROVE HandBehindQueue'
  BY <1>14, HandKept DEF ClearNotify, Goto, PcTypeOK
<1>15. ASSUME NEW t \in Threads, FreeEpt(t) PROVE HandBehindQueue'
  BY <1>15, HandKept DEF FreeEpt, Goto, PcTypeOK
<1>16. ASSUME NEW t \in Threads, EnqueCall(t) PROVE HandBehindQueue'
  BY <1>16, HandKept DEF EnqueCall, Goto, PcTypeOK
<1>17. ASSUME NEW t \in Threads, EmptyEnqueCall(t) PROVE HandBehindQueue'
  BY <1>17, HandKept DEF EmptyEnqueCall, Goto, PcTypeOK
<1>18. ASSUME NEW t \in Threads, ClearCall(t) PROVE HandBehindQueue'
  BY <1>18, HandKept DEF ClearCall, Goto, PcTypeOK
<1>19. ASSUME NEW t \in Threads, Stop(t) PROVE HandBehindQueue'
  BY <1>19, HandKept DEF Stop
<1>20. CASE DequeLock
  BY <1>20, HandKept DEF DequeLock, Goto, PcTypeOK
<1>21. CASE DequeEmpty
  BY <1>21, HandKept DEF DequeEmpty, Goto, PcTypeOK
<1>22. CASE DequePop
  BY <1>22, PopTail DEF DequePop, HandBehindQueue, TypeOK
<1>23. CASE DequeUnlock
  BY <1>23, HandKept DEF DequeUnlock, Goto, PcTypeOK
<1>24. CASE WaitSignalled
  BY <1>24, HandKept DEF WaitSignalled, Goto, PcTypeOK
<1>25. CASE WaitTimeout
  BY <1>25, HandKept DEF WaitTimeout, Goto, PcTypeOK
<1>26. CASE ExitTest
  BY <1>26, HandKept DEF ExitTest, Goto, PcTypeOK
<1>27. CASE CallTask
  BY <1>27 DEF CallTask, HandBehindQueue, Goto, PcTypeOK, Taken
<1>28. CASE TaskReturns
  BY <1>28, HandKept DEF TaskReturns, Goto, PcTypeOK
<1>29. CASE Terminate
  BY <1>29 DEF Terminate, HandBehindQueue, Goto, PcTypeOK, NoTask, Taken
<1>30. CASE Detach
  BY <1>30, HandKept DEF Detach, Goto, PcTypeOK
<1>31. CASE Join
  BY <1>31, HandKept DEF Join, Goto, PcTypeOK
<1>32. CASE UNCHANGED vars
  BY <1>32 DEF vars, HandBehindQueue, Taken
<1>33. QED
  BY <1>1, <1>2, <1>3, <1>4, <1>5, <1>6, <1>7, <1>8, <1>9, <1>10, <1>11,
     <1>12, <1>13, <1>14, <1>15, <1>16, <1>17, <1>18, <1>19, <1>20, <1>21,
     <1>22, <1>23, <1>24, <1>25, <1>26, <1>27, <1>28, <1>29, <1>30, <1>31,
     <1>32, StepCases

--------------------------------------------------------------------------------
(* stop() and the end of the worker.                                       *)

LEMMA StopKept ==
  ASSUME TypeOK, QueueIsTail, StopIsOrdered, Taken' \in Nat, Taken' >= Taken,
         pushed' \in Nat, pushed' >= pushed,
         UNCHANGED <<exit, mark, window, joined>>,
         \/ pc'[Worker] = pc[Worker]
         \/ /\ pc'[Worker] \notin {"deque.wait", "deque.exit",
                                   "return", "terminated"}
            /\ pc[Worker] /= "terminated"
  PROVE  StopIsOrdered'
<1>1. Taken \in Nat
  BY DEF TypeOK, QueueIsTail, Taken
<1>2. QED
  BY <1>1 DEF StopIsOrdered, TypeOK

LEMMA StopSet ==
  ASSUME TypeOK, QueueIsTail, StopIsOrdered, GoExit,
         UNCHANGED <<q, pushed, joined>>, pc'[Worker] = pc[Worker]
  PROVE  StopIsOrdered'
<1>1. Taken \in Nat /\ Taken' = Taken /\ pushed \in Nat
  BY DEF TypeOK, QueueIsTail, Taken
<1>2. CASE exit
  BY <1>1, <1>2 DEF StopIsOrdered, GoExit
<1>3. CASE ~exit
  <2>1. pc[Worker] \in {"deque.wait", "deque.exit"} => window'
    BY <1>3 DEF GoExit
  <2>0. mark' = pushed /\ exit'
    BY <1>3 DEF GoExit
  <2>2. pc[Worker] \notin {"return", "terminated"}
    BY <1>3 DEF StopIsOrdered
  <2>3. QED
    BY <1>1, <2>0, <2>1, <2>2 DEF StopIsOrdered
<1>4. QED
  BY <1>2, <1>3

LEMMA StopStep ==
  TypeOK /\ QueueIsTail /\ StopIsOrdered /\ [Next]_vars => StopIsOrdered'
<1> SUFFICES ASSUME TypeOK, QueueIsTail, StopIsOrdered, [Next]_vars
             PROVE  StopIsOrdered'
  OBVIOUS
<1>0. /\ PcTypeOK /\ Taken \in Nat /\ Taken' \in Nat /\ Taken' >= Taken
      /\ pushed \in Nat /\ pushed' \in Nat /\ pushed' >= pushed /\ mark \in Nat
  <2>1. TypeOK'
    BY TypeStep
  <2>2. QED
    BY <2>1, TailStep DEF TypeOK, QueueIsTail, Taken
<1> USE <1>0, WorkerThread, OwnerThread, ThreadsAssumption
    DEF Step, At, shared, locals, history, Home
<1>1. ASSUME NEW t \in Threads, EnqueLock(t) PROVE StopIsOrdered'
  BY <1>1, StopKept DEF EnqueLock, Goto, PcTypeOK
<1>2. ASSUME NEW t \in Threads, EmptyEnqueLock(t) PROVE StopIsOrdered'
  BY <1>2, StopKept DEF EmptyEnqueLock, Goto, PcTypeOK
<1>3. ASSUME NEW t \in Threads, ClearLock(t) PROVE StopIsOrdered'
  BY <1>3, StopKept DEF ClearLock, Goto, PcTypeOK
<1>4. ASSUME NEW t \in Threads, EnqueEmpty(t) PROVE StopIsOrdered'
  BY <1>4, StopKept DEF EnqueEmpty, Goto, PcTypeOK
<1>5. ASSUME NEW t \in Threads, EnquePush(t) PROVE StopIsOrdered'
  BY <1>5, StopKept DEF EnquePush, Goto, PcTypeOK
<1>6. ASSUME NEW t \in Threads, EnqueUnlock(t) PROVE StopIsOrdered'
  BY <1>6, StopKept DEF EnqueUnlock, Goto, PcTypeOK
<1>7. ASSUME NEW t \in Threads, EnqueNotify(t) PROVE StopIsOrdered'
  BY <1>7, StopKept DEF EnqueNotify, Goto, PcTypeOK
<1>8. ASSUME NEW t \in Threads, EmptyEnqueSwap(t) PROVE StopIsOrdered'
  BY <1>8, StopKept DEF EmptyEnqueSwap, Goto, PcTypeOK
<1>9. ASSUME NEW t \in Threads, EmptyEnquePush(t) PROVE StopIsOrdered'
  BY <1>9, StopKept DEF EmptyEnquePush, Goto, PcTypeOK
<1>10. ASSUME NEW t \in Threads, EmptyEnqueUnlock(t) PROVE StopIsOrdered'
  BY <1>10, StopKept DEF EmptyEnqueUnlock, Goto, PcTypeOK
<1>11. ASSUME NEW t \in Threads, EmptyEnqueNotify(t) PROVE StopIsOrdered'
  BY <1>11, StopKept DEF EmptyEnqueNotify, Goto, PcTypeOK
<1>12. ASSUME NEW t \in Threads, ClearSwap(t) PROVE StopIsOrdered'
  BY <1>12, StopKept DEF ClearSwap, Goto, PcTypeOK
<1>13. ASSUME NEW t \in Threads, ClearUnlock(t) PROVE StopIsOrdered'
  BY <1>13, StopKept DEF ClearUnlock, Goto, PcTypeOK
<1>14. ASSUME NEW t \in Threads, ClearNotify(t) PROVE StopIsOrdered'
  BY <1>14, StopKept DEF ClearNotify, Goto, PcTypeOK
<1>15. ASSUME NEW t \in Threads, FreeEpt(t) PROVE StopIsOrdered'
  BY <1>15, StopKept DEF FreeEpt, Goto, PcTypeOK
<1>16. ASSUME NEW t \in Threads, EnqueCall(t) PROVE StopIsOrdered'
  BY <1>16, StopKept DEF EnqueCall, Goto, PcTypeOK
<1>17. ASSUME NEW t \in Threads, EmptyEnqueCall(t) PROVE StopIsOrdered'
  BY <1>17, StopKept DEF EmptyEnqueCall, Goto, PcTypeOK
<1>18. ASSUME NEW t \in Threads, ClearCall(t) PROVE StopIsOrdered'
  BY <1>18, StopKept DEF ClearCall, Goto, PcTypeOK
<1>19. ASSUME NEW t \in Threads, Stop(t) PROVE StopIsOrdered'
  BY <1>19, StopSet DEF Stop
<1>20. CASE DequeLock
  BY <1>20, StopKept DEF DequeLock, Goto, PcTypeOK, StopIsOrdered
<1>21. CASE DequeEmpty
  BY <1>21 DEF DequeEmpty, StopIsOrdered, Goto, PcTypeOK, Taken
<1>22. CASE DequePop
  BY <1>22, StopKept DEF DequePop, Goto, PcTypeOK, StopIsOrdered
<1>23. CASE DequeUnlock
  BY <1>23, StopKept DEF DequeUnlock, Goto, PcTypeOK, StopIsOrdered
<1>24. CASE WaitSignalled
  BY <1>24 DEF WaitSignalled, StopIsOrdered, Goto, PcTypeOK
<1>25. CASE WaitTimeout
  BY <1>25 DEF WaitTimeout, StopIsOrdered, Goto, PcTypeOK
<1>26. CASE ExitTest
  BY <1>26 DEF ExitTest, StopIsOrdered, Goto, PcTypeOK
<1>27. CASE CallTask
  BY <1>27, StopKept DEF CallTask, Goto, PcTypeOK, StopIsOrdered
<1>28. CASE TaskReturns
  BY <1>28, StopKept DEF TaskReturns, Goto, PcTypeOK, StopIsOrdered
<1>29. CASE Terminate
  BY <1>29 DEF Terminate, StopIsOrdered, Goto, PcTypeOK
<1>30. CASE Detach
  BY <1>30, StopSet DEF Detach, Goto, PcTypeOK
<1>31. CASE Join
  BY <1>31 DEF Join, StopIsOrdered, Goto, PcTypeOK
<1>32. CASE UNCHANGED vars
  BY <1>32 DEF vars, StopIsOrdered, Taken
<1>33. QED
  BY <1>1, <1>2, <1>3, <1>4, <1>5, <1>6, <1>7, <1>8, <1>9, <1>10, <1>11,
     <1>12, <1>13, <1>14, <1>15, <1>16, <1>17, <1>18, <1>19, <1>20, <1>21,
     <1>22, <1>23, <1>24, <1>25, <1>26, <1>27, <1>28, <1>29, <1>30, <1>31,
     <1>32, StepCases

--------------------------------------------------------------------------------
(* Where the tasks are.                                                    *)

\* The tasks that can change hands do so in eight kinds of step.
LEMMA TaskMoves ==
  ASSUME [Next]_vars
  PROVE  \/ \E t \in Threads : EnquePush(t) \/ EmptyEnquePush(t)
         \/ \E t \in Threads : EmptyEnqueSwap(t) \/ ClearSwap(t)
         \/ \E t \in Threads : FreeEpt(t)
         \/ DequePop \/ CallTask \/ Terminate
         \/ Join
         \/ UNCHANGED <<q, pushed, ept, o, executed, destroyed, joined>>
<1> USE DEF shared, locals, history
<1>1. ASSUME NEW t \in Threads,
             \/ EnqueLock(t) \/ EmptyEnqueLock(t) \/ ClearLock(t)
             \/ EnqueEmpty(t) \/ EnqueUnlock(t) \/ EnqueNotify(t)
             \/ EmptyEnqueUnlock(t) \/ EmptyEnqueNotify(t)
             \/ ClearUnlock(t) \/ ClearNotify(t)
             \/ EnqueCall(t) \/ EmptyEnqueCall(t) \/ ClearCall(t) \/ Stop(t)
      PROVE  UNCHANGED <<q, pushed, ept, o, executed, destroyed, joined>>
  BY <1>1 DEF EnqueLock, EmptyEnqueLock, ClearLock, EnqueEmpty, EnqueUnlock,
              EnqueNotify, EmptyEnqueUnlock, EmptyEnqueNotify, ClearUnlock,
              ClearNotify, EnqueCall, EmptyEnqueCall, ClearCall, Stop
<1>2. ASSUME \/ DequeLock \/ DequeEmpty \/ DequeUnlock \/ WaitSignalled
             \/ WaitTimeout \/ ExitTest \/ TaskReturns \/ Detach
             \/ UNCHANGED vars
      PROVE  UNCHANGED <<q, pushed, ept, o, executed, destroyed, joined>>
  BY <1>2 DEF DequeLock, DequeEmpty, DequeUnlock, WaitSignalled, WaitTimeout,
              ExitTest, TaskReturns, Detach, vars
<1>3. QED
  BY <1>1, <1>2, StepCases

\* A list that counts upwards holds what lies behind its start.
LEMMA CountingSeq ==
  ASSUME NEW s \in Seq(Task), NEW p \in Nat, Len(s) <= p,
         \A i \in 1..Len(s) : s[i] = (p - Len(s)) + i
  PROVE  SeqSet(s) = {n \in 1..p : n > p - Len(s)}
<1>1. Len(s) \in Nat /\ p - Len(s) \in Nat
  OBVIOUS
<1>2. ASSUME NEW n \in SeqSet(s) PROVE n \in 1..p /\ n > p - Len(s)
  BY <1>1, <1>2 DEF SeqSet
<1>3. ASSUME NEW n \in 1..p, n > p - Len(s) PROVE n \in SeqSet(s)
  <2>1. n - (p - Len(s)) \in 1..Len(s)
    BY <1>1, <1>3
  <2>2. s[n - (p - Len(s))] = (p - Len(s)) + (n - (p - Len(s)))
    BY <2>1
  <2>3. s[n - (p - Len(s))] = n
    BY <1>1, <2>2
  <2>4. QED
    BY <2>1, <2>3 DEF SeqSet
<1>4. QED
  BY <1>2, <1>3

\* The queue holds the tasks behind those that have left it.
LEMMA QueueRange ==
  /\ TypeOK /\ QueueIsTail => SeqSet(q) = {n \in 1..pushed : n > Taken}
  /\ TypeOK' /\ QueueIsTail' => SeqSet(q') = {n \in 1..pushed' : n > Taken'}
<1>1. ASSUME TypeOK, QueueIsTail PROVE SeqSet(q) = {n \in 1..pushed : n > Taken}
  BY <1>1, CountingSeq DEF TypeOK, QueueIsTail, Taken
<1>2. ASSUME TypeOK', QueueIsTail'
      PROVE  SeqSet(q') = {n \in 1..pushed' : n > Taken'}
  BY <1>2, CountingSeq DEF TypeOK, QueueIsTail, Taken
<1>3. QED
  BY <1>1, <1>2

LEMMA NoEntries == SeqSet(<<>>) = {}
BY DEF SeqSet

LEMMA EptKept ==
  ASSUME PcTypeOK, EptIsLocal, NEW t \in Threads, NEW l, Goto(t, l),
         ept' = ept, pc[t] \in EptInUse => l \in EptInUse
  PROVE  EptIsLocal'
BY DEF PcTypeOK, EptIsLocal, Goto

\* The local queue of a call is empty where the call does not use it.
LEMMA EptStep == TypeOK /\ EptIsLocal /\ [Next]_vars => EptIsLocal'
<1> SUFFICES ASSUME TypeOK, EptIsLocal, [Next]_vars PROVE EptIsLocal'
  OBVIOUS
<1>0. PcTypeOK
  BY DEF TypeOK
<1> USE <1>0, WorkerThread, OwnerThread DEF Step, At, locals, EptInUse
<1>1. ASSUME NEW t \in Threads,
             EnqueLock(t) \/ EnqueEmpty(t) \/ EnquePush(t) \/ EnqueUnlock(t)
               \/ EnqueNotify(t) \/ EnqueCall(t)
      PROVE  EptIsLocal'
  BY <1>1, EptKept DEF EnqueLock, EnqueEmpty, EnquePush, EnqueUnlock,
                       EnqueNotify, EnqueCall, Home
<1>2. ASSUME NEW t \in Threads,
             EmptyEnqueLock(t) \/ EmptyEnquePush(t) \/ EmptyEnqueUnlock(t)
               \/ EmptyEnqueNotify(t) \/ EmptyEnqueCall(t)
      PROVE  EptIsLocal'
  BY <1>2, EptKept DEF EmptyEnqueLock, EmptyEnquePush, EmptyEnqueUnlock,
                       EmptyEnqueNotify, EmptyEnqueCall, Home
<1>3. ASSUME NEW t \in Threads,
             ClearLock(t) \/ ClearUnlock(t) \/ ClearNotify(t) \/ ClearCall(t)
      PROVE  EptIsLocal'
  BY <1>3, EptKept DEF ClearLock, ClearUnlock, ClearNotify, ClearCall, Home
<1>4. ASSUME NEW t \in Threads, EmptyEnqueSwap(t) \/ ClearSwap(t)
      PROVE  EptIsLocal'
  BY <1>4 DEF EmptyEnqueSwap, ClearSwap, SwapOut, Goto, PcTypeOK, EptIsLocal,
              TypeOK
<1>5. ASSUME NEW t \in Threads, FreeEpt(t) PROVE EptIsLocal'
  BY <1>5 DEF FreeEpt, Goto, PcTypeOK, EptIsLocal, TypeOK
<1>6. ASSUME NEW t \in Threads, Stop(t) PROVE EptIsLocal'
  BY <1>6 DEF Stop, EptIsLocal
<1>7. CASE DequeLock \/ DequeEmpty \/ DequePop \/ DequeUnlock \/ WaitSignalled
             \/ WaitTimeout
  BY <1>7, EptKept DEF DequeLock, DequeEmpty, DequePop, DequeUnlock,
                       WaitSignalled, WaitTimeout
<1>8. CASE ExitTest \/ CallTask \/ TaskReturns \/ Terminate
  BY <1>8, EptKept DEF ExitTest, CallTask, TaskReturns, Terminate
<1>9. CASE Detach \/ Join
  BY <1>9, EptKept DEF Detach, Join
<1>10. CASE UNCHANGED vars
  BY <1>10 DEF vars, EptIsLocal
<1>11. QED
  BY <1>1, <1>2, <1>3, <1>4, <1>5, <1>6, <1>7, <1>8, <1>9, <1>10, StepCases

LEMMA BegunKept ==
  ASSUME HandIsBegun, o' = o, executed' = executed,
         \/ pc'[Worker] = pc[Worker]
         \/ /\ pc'[Worker] \in ClientLabels \cup {"run"}
            /\ pc[Worker] \in ClientLabels \cup {"run"}
         \/ /\ pc'[Worker] \notin ClientLabels \cup {"run", "deque.unlock", "call"}
            /\ pc[Worker] \notin {"deque.unlock", "call"}
  PROVE  HandIsBegun'
BY DEF HandIsBegun, ClientLabels, InPush

\* The calls of a thread lead from its home through the labels of the calls.
LEMMA CallSteps ==
  ASSUME PcTypeOK, NEW t \in Threads,
         \/ EnqueLock(t) \/ EmptyEnqueLock(t) \/ ClearLock(t)
         \/ EnqueEmpty(t) \/ EnquePush(t) \/ EnqueUnlock(t)
         \/ EnqueNotify(t) \/ EmptyEnqueSwap(t) \/ EmptyEnquePush(t)
         \/ EmptyEnqueUnlock(t) \/ EmptyEnqueNotify(t) \/ ClearSwap(t)
         \/ ClearUnlock(t) \/ ClearNotify(t) \/ FreeEpt(t)
         \/ EnqueCall(t) \/ EmptyEnqueCall(t) \/ ClearCall(t) \/ Stop(t)
  PROVE  /\ o' = o /\ executed' = executed
         /\ \/ pc'[Worker] = pc[Worker]
            \/ /\ pc'[Worker] \in ClientLabels \cup {"run"}
               /\ pc[Worker] \in ClientLabels \cup {"run"}
<1> USE WorkerThread
    DEF Step, At, Goto, locals, history, Home, PcTypeOK, ClientLabels, InPush
<1>1. CASE EnqueLock(t) \/ EnqueEmpty(t) \/ EnquePush(t) \/ EnqueUnlock(t)
             \/ EnqueNotify(t) \/ EnqueCall(t)
  BY <1>1 DEF EnqueLock, EnqueEmpty, EnquePush, EnqueUnlock, EnqueNotify,
              EnqueCall, PushBack
<1>2. CASE EmptyEnqueLock(t) \/ EmptyEnqueSwap(t) \/ EmptyEnquePush(t)
             \/ EmptyEnqueUnlock(t) \/ EmptyEnqueNotify(t) \/ EmptyEnqueCall(t)
  BY <1>2 DEF EmptyEnqueLock, EmptyEnqueSwap, EmptyEnquePush, EmptyEnqueUnlock,
              EmptyEnqueNotify, EmptyEnqueCall, PushBack
<1>3. CASE ClearLock(t) \/ ClearSwap(t) \/ ClearUnlock(t) \/ ClearNotify(t)
             \/ ClearCall(t) \/ FreeEpt(t) \/ Stop(t)
  BY <1>3 DEF ClearLock, ClearSwap, ClearUnlock, ClearNotify, ClearCall,
              FreeEpt, Stop
<1>4. QED
  BY <1>1, <1>2, <1>3

\* The worker's hand keeps a task it has begun until the next one is popped.
LEMMA BegunStep ==
  TypeOK /\ QueueIsTail /\ HandIsBegun /\ [Next]_vars => HandIsBegun'
<1> SUFFICES ASSUME TypeOK, QueueIsTail, HandIsBegun, [Next]_vars
             PROVE  HandIsBegun'
  OBVIOUS
<1>0. PcTypeOK
  BY DEF TypeOK
<1> USE <1>0, WorkerThread, OwnerThread, ThreadsAssumption
    DEF Step, At, Goto, PcTypeOK, locals, history, ClientLabels, InPush
<1>1. ASSUME NEW t \in Threads,
         \/ EnqueLock(t) \/ EmptyEnqueLock(t) \/ ClearLock(t)
         \/ EnqueEmpty(t) \/ EnquePush(t) \/ EnqueUnlock(t)
         \/ EnqueNotify(t) \/ EmptyEnqueSwap(t) \/ EmptyEnquePush(t)
         \/ EmptyEnqueUnlock(t) \/ EmptyEnqueNotify(t) \/ ClearSwap(t)
         \/ ClearUnlock(t) \/ ClearNotify(t) \/ FreeEpt(t)
         \/ EnqueCall(t) \/ EmptyEnqueCall(t) \/ ClearCall(t) \/ Stop(t)
      PROVE  HandIsBegun'
  BY ONLY <1>0, <1>1, CallSteps, BegunKept, HandIsBegun
<1>2. CASE DequeLock
  BY <1>2, BegunKept DEF DequeLock
<1>3. CASE DequeEmpty
  BY <1>3, BegunKept DEF DequeEmpty
<1>4. CASE DequePop
  <2>1. o' = Taken + 1 /\ Taken \in Nat
    BY <1>4, PopTail DEF QueueIsTail, Taken, TypeOK
  <2>2. pc'[Worker] = "deque.unlock"
    BY <1>4 DEF DequePop
  <2>3. QED
    BY <2>1, <2>2 DEF HandIsBegun
<1>5. CASE DequeUnlock
  BY <1>5 DEF DequeUnlock, HandIsBegun
<1>6. CASE WaitSignalled
  BY <1>6, BegunKept DEF WaitSignalled
<1>7. CASE WaitTimeout
  BY <1>7, BegunKept DEF WaitTimeout
<1>8. CASE ExitTest
  BY <1>8, BegunKept DEF ExitTest
<1>9. CASE CallTask
  BY <1>9 DEF CallTask, HandIsBegun
<1>10. CASE TaskReturns
  BY <1>10, BegunKept DEF TaskReturns
<1>11. CASE Terminate
  BY <1>11 DEF Terminate, HandIsBegun
<1>12. CASE Detach \/ Join
  BY <1>12, BegunKept DEF Detach, Join
<1>13. CASE UNCHANGED vars
  BY <1>13, BegunKept DEF vars
<1>14. QED
  BY <1>1, <1>2, <1>3, <1>4, <1>5, <1>6, <1>7, <1>8, <1>9, <1>10, <1>11,
     <1>12, <1>13, StepCases

\* What the kinds of step do to the four places a task can be in.
LEMMA PlacesKept ==
  ASSUME Accounting, HandIsBegun', UNCHANGED <<q, pushed, ept, o, destroyed>>
  PROVE  Accounting'
<1>1. SeqSet(q)' = SeqSet(q) /\ InEpt' = InEpt /\ Held' = Held
  BY DEF SeqSet, InEpt, Held
<1>2. At(Worker, "run")' => Held' /= {}
  BY DEF HandIsBegun, Held, At, NoTask
<1>3. \A t \in Threads : SeqSet(ept[t])' = SeqSet(ept[t])
  BY DEF SeqSet
<1>4. QED
  BY <1>1, <1>2, <1>3 DEF Accounting

LEMMA PlacesPush ==
  ASSUME TypeOK, TypeOK', QueueIsTail, QueueIsTail', Accounting, HandIsBegun',
         NEW t \in Threads, PushBack(t), UNCHANGED <<ept, o, destroyed>>
  PROVE  Accounting'
<1>1. CASE q' = q /\ pushed' = pushed
  BY <1>1, PlacesKept
<1>2. CASE q' = Append(q, pushed + 1) /\ pushed' = pushed + 1
  <2>1. InEpt' = InEpt /\ Held' = Held /\ destroyed' = destroyed
    BY DEF SeqSet, InEpt, Held
  <2>2. \A u \in Threads : SeqSet(ept[u])' = SeqSet(ept[u])
    BY DEF SeqSet
  <2>3. /\ Taken' = Taken /\ Taken \in Nat /\ pushed \in Nat /\ pushed' \in Nat
        /\ Taken <= pushed
    BY PushTail DEF QueueIsTail, Taken, TypeOK
  <2>4. /\ SeqSet(q) = {n \in 1..pushed : n > Taken}
        /\ SeqSet(q') = {n \in 1..pushed' : n > Taken'}
    BY QueueRange
  <2>5. 1..pushed' = 1..pushed \cup {pushed'} /\ pushed' \notin 1..pushed
    BY <1>2, <2>3
  <2>6. SeqSet(q') = SeqSet(q) \cup {pushed'}
    BY <1>2, <2>3, <2>4, <2>5
  <2>7. At(Worker, "run")' => Held' /= {}
    BY DEF HandIsBegun, Held, At, NoTask
  <2>8. SeqSet(q)' = SeqSet(q')
    BY DEF SeqSet
  <2>9. InEpt \subseteq 1..pushed /\ Held \subseteq 1..pushed
        /\ destroyed \subseteq 1..pushed
    BY DEF Accounting
  <2>10. /\ 1..pushed' = SeqSet(q') \cup InEpt' \cup Held' \cup destroyed'
         /\ SeqSet(q') \cap (InEpt' \cup Held' \cup destroyed') = {}
    BY <2>1, <2>5, <2>6, <2>9 DEF Accounting
  <2>11. /\ InEpt' \cap (Held' \cup destroyed') = {}
         /\ Held' \cap destroyed' = {}
         /\ \A u, v \in Threads :
              u /= v => SeqSet(ept[u])' \cap SeqSet(ept[v])' = {}
    BY <2>1, <2>2 DEF Accounting
  <2>12. QED
    BY <2>7, <2>8, <2>10, <2>11 DEF Accounting
<1>3. QED
  BY <1>1, <1>2 DEF PushBack

LEMMA PlacesSwap ==
  ASSUME TypeOK, Accounting, HandIsBegun', NEW t \in Threads, ept[t] = <<>>,
         SwapOut(t), UNCHANGED <<o, pushed, destroyed>>
  PROVE  Accounting'
<1>1. Held' = Held
  BY DEF Held
<1>2. /\ SeqSet(q)' = {} /\ SeqSet(ept[t])' = SeqSet(q)
      /\ \A u \in Threads \ {t} : SeqSet(ept[u])' = SeqSet(ept[u])
      /\ SeqSet(ept[t]) = {}
  BY DEF SeqSet, SwapOut, TypeOK
<1>3. InEpt' = InEpt \cup SeqSet(q)
  <2>1. InEpt' = UNION {SeqSet(ept[u])' : u \in Threads}
    BY DEF InEpt
  <2>2. QED
    BY <1>2, <2>1 DEF InEpt
<1>4. At(Worker, "run")' => Held' /= {}
  BY DEF HandIsBegun, Held, At, NoTask
<1>5. ASSUME NEW u \in Threads, NEW v \in Threads, u /= v
      PROVE  SeqSet(ept[u])' \cap SeqSet(ept[v])' = {}
  <2>1. /\ SeqSet(ept[u]) \subseteq InEpt /\ SeqSet(ept[v]) \subseteq InEpt
        /\ SeqSet(q) \cap InEpt = {}
        /\ SeqSet(ept[u]) \cap SeqSet(ept[v]) = {}
    BY <1>5 DEF InEpt, Accounting
  <2>2. CASE u = t
    BY <1>2, <1>5, <2>1, <2>2
  <2>3. CASE v = t
    BY <1>2, <1>5, <2>1, <2>3
  <2>4. CASE u /= t /\ v /= t
    BY <1>2, <2>1, <2>4
  <2>5. QED
    BY <2>2, <2>3, <2>4
<1>6. QED
  BY <1>1, <1>2, <1>3, <1>4, <1>5 DEF Accounting

LEMMA PlacesFree ==
  ASSUME TypeOK, Accounting, HandIsBegun', NEW t \in Threads, FreeEpt(t)
  PROVE  Accounting'
<1>1. /\ SeqSet(q)' = SeqSet(q) /\ Held' = Held /\ pushed' = pushed
      /\ destroyed' = destroyed \cup SeqSet(ept[t])
  BY DEF SeqSet, Held, FreeEpt, shared
<1>2. /\ SeqSet(ept[t])' = {}
      /\ \A u \in Threads \ {t} : SeqSet(ept[u])' = SeqSet(ept[u])
  BY DEF SeqSet, FreeEpt, TypeOK
<1>3. \A u \in Threads \ {t} : SeqSet(ept[u]) \cap SeqSet(ept[t]) = {}
  BY DEF Accounting
<1>4. InEpt' = InEpt \ SeqSet(ept[t])
  <2>1. InEpt' = UNION {SeqSet(ept[u])' : u \in Threads}
    BY DEF InEpt
  <2>2. QED
    BY <1>2, <1>3, <2>1 DEF InEpt
<1>5. SeqSet(ept[t]) \subseteq InEpt
  BY DEF InEpt
<1>6. At(Worker, "run")' => Held' /= {}
  BY DEF HandIsBegun, Held, At, NoTask
<1>7. ASSUME NEW u \in Threads, NEW v \in Threads, u /= v
      PROVE  SeqSet(ept[u])' \cap SeqSet(ept[v])' = {}
  <2>1. SeqSet(ept[u]) \cap SeqSet(ept[v]) = {}
    BY <1>7 DEF Accounting
  <2>2. QED
    BY <1>2, <1>7, <2>1
<1>8. QED
  BY <1>1, <1>2, <1>4, <1>5, <1>6, <1>7 DEF Accounting

LEMMA PlacesPop ==
  ASSUME TypeOK, TypeOK', QueueIsTail, HandBehindQueue, Accounting,
         HandIsBegun', DequePop
  PROVE  Accounting'
<1>1. /\ InEpt' = InEpt /\ pushed' = pushed /\ pushed \in Nat
      /\ destroyed' = destroyed \cup Held
      /\ \A u \in Threads : SeqSet(ept[u])' = SeqSet(ept[u])
  BY DEF SeqSet, Held, InEpt, DequePop, TypeOK
<1>2. QueueIsTail' /\ Taken' = Taken + 1 /\ o' = Taken + 1 /\ Taken \in Nat
  BY PopTail DEF QueueIsTail, Taken, TypeOK
<1>3. Held' = {o'}
  BY <1>2 DEF Held, NoTask
<1>4. /\ SeqSet(q) = {n \in 1..pushed : n > Taken}
      /\ SeqSet(q)' = {n \in 1..pushed : n > Taken'}
  <2>1. SeqSet(q') = {n \in 1..pushed' : n > Taken'}
    BY <1>2, QueueRange
  <2>2. SeqSet(q)' = SeqSet(q')
    BY DEF SeqSet
  <2>3. QED
    BY <1>1, <2>1, <2>2, QueueRange
<1>5. Taken' <= pushed'
  BY <1>1, <1>2 DEF QueueIsTail, Taken, TypeOK
<1>6. SeqSet(q) = SeqSet(q)' \cup {o'} /\ o' \notin SeqSet(q)'
  BY <1>1, <1>2, <1>4, <1>5
<1>7. QED
  BY <1>1, <1>3, <1>6 DEF Accounting

LEMMA PlacesEnd ==
  ASSUME Accounting, HandIsBegun', Terminate
  PROVE  Accounting'
<1>1. /\ InEpt' = InEpt /\ pushed' = pushed /\ SeqSet(q)' = SeqSet(q)
      /\ destroyed' = destroyed \cup Held /\ Held' = {}
      /\ \A u \in Threads : SeqSet(ept[u])' = SeqSet(ept[u])
  BY DEF SeqSet, Held, InEpt, Terminate, shared
<1>2. At(Worker, "run")' => Held' /= {}
  BY DEF HandIsBegun, Held, At, NoTask
<1>3. QED
  BY <1>1, <1>2 DEF Accounting

\* No step loses a task, destroys one twice or keeps one in two places.
LEMMA PlacesStep ==
  /\ TypeOK /\ QueueIsTail /\ HandBehindQueue /\ EptIsLocal /\ HandIsBegun
  /\ Accounting /\ [Next]_vars
  => Accounting'
<1> SUFFICES ASSUME TypeOK, QueueIsTail, HandBehindQueue, EptIsLocal,
                    HandIsBegun, Accounting, [Next]_vars
             PROVE  Accounting'
  OBVIOUS
<1>0. TypeOK' /\ QueueIsTail' /\ HandIsBegun'
  BY TypeStep, TailStep, BegunStep
<1>1. ASSUME NEW t \in Threads, EnquePush(t) \/ EmptyEnquePush(t)
      PROVE  Accounting'
  BY <1>0, <1>1, PlacesPush DEF EnquePush, EmptyEnquePush
<1>2. ASSUME NEW t \in Threads, EmptyEnqueSwap(t) \/ ClearSwap(t)
      PROVE  Accounting'
  <2>1. ept[t] = <<>>
    BY <1>2 DEF EptIsLocal, EptInUse, EmptyEnqueSwap, ClearSwap, Step, At
  <2>2. QED
    BY <1>0, <1>2, <2>1, PlacesSwap DEF EmptyEnqueSwap, ClearSwap, history
<1>3. ASSUME NEW t \in Threads, FreeEpt(t) PROVE Accounting'
  BY <1>0, <1>3, PlacesFree
<1>4. CASE DequePop
  BY <1>0, <1>4, PlacesPop
<1>5. CASE CallTask
  BY <1>0, <1>5, PlacesKept DEF CallTask, shared, locals
<1>6. CASE Terminate
  BY <1>0, <1>6, PlacesEnd
<1>7. CASE Join
  BY <1>0, <1>7, PlacesKept DEF Join, locals, history
<1>8. CASE UNCHANGED <<q, pushed, ept, o, executed, destroyed, joined>>
  BY <1>0, <1>8, PlacesKept
<1>9. QED
  BY <1>1, <1>2, <1>3, <1>4, <1>5, <1>6, <1>7, <1>8, TaskMoves

--------------------------------------------------------------------------------
(* The worker implements TaskQueue.                                        *)

Fates == [n \in 1..pushed |-> Fate(n)]

\* What has become of a task can be read off its number, what has been begun
\* and what is in the worker's hand.
FateOf(n, taken, begun, hand) ==
  IF n > taken THEN "waiting"
  ELSE IF n \in begun \/ n = hand THEN "taken"
  ELSE "dropped"

LEMMA FateByNumber ==
  /\ TypeOK /\ QueueIsTail =>
       Fates = [n \in 1..pushed |-> FateOf(n, Taken, executed, o)]
  /\ TypeOK' /\ QueueIsTail' =>
       Fates' = [n \in 1..pushed' |-> FateOf(n, Taken', executed', o')]
<1>1. ASSUME TypeOK, QueueIsTail
      PROVE  Fates = [n \in 1..pushed |-> FateOf(n, Taken, executed, o)]
  <2>1. ASSUME NEW n \in 1..pushed
        PROVE  Fate(n) = FateOf(n, Taken, executed, o)
    BY <1>1, <2>1, QueueRange DEF Fate, FateOf
  <2>2. QED
    BY <2>1 DEF Fates
<1>2. ASSUME TypeOK', QueueIsTail'
      PROVE  Fates' = [n \in 1..pushed' |-> FateOf(n, Taken', executed', o')]
  <2>1. SeqSet(q)' = SeqSet(q')
    BY DEF SeqSet
  <2>2. ASSUME NEW n \in 1..pushed'
        PROVE  Fate(n)' = FateOf(n, Taken', executed', o')
    BY <1>2, <2>1, <2>2, QueueRange DEF Fate, FateOf
  <2>3. QED
    BY <2>2 DEF Fates
<1>3. QED
  BY <1>1, <1>2

\* A sequence is extended by one entry, entry by entry.
LEMMA AppendOne ==
  ASSUME NEW k \in Nat, NEW s, NEW r, NEW e,
         s = [n \in 1..k |-> s[n]], r = [n \in 1..(k + 1) |-> r[n]],
         \A n \in 1..k : r[n] = s[n], r[k + 1] = e
  PROVE  r = Append(s, e)
OBVIOUS

\* An accepted push is Accept, a refused one changes nothing.
LEMMA PushAccepts ==
  ASSUME IInv, IInv', NEW t \in Threads, PushBack(t),
         UNCHANGED <<executed, o, joined>>
  PROVE  Abstract!Accept \/ UNCHANGED <<Fates, joined>>
<1>1. CASE q' = q /\ pushed' = pushed
  BY <1>1 DEF Fates, Fate
<1>2. CASE q' = Append(q, pushed + 1) /\ pushed' = pushed + 1
  <2>1. /\ TypeOK /\ QueueIsTail /\ TypeOK' /\ QueueIsTail'
        /\ Taken' = Taken /\ Taken \in Nat /\ pushed \in Nat /\ Taken <= pushed
    BY PushTail DEF IInv, QueueIsTail, Taken, TypeOK
  <2>2. /\ Fates = [n \in 1..pushed |-> FateOf(n, Taken, executed, o)]
        /\ Fates' = [n \in 1..(pushed + 1) |-> FateOf(n, Taken, executed, o)]
    BY <1>2, <2>1, FateByNumber
  <2>3. /\ Fates'[pushed + 1] = "waiting"
        /\ \A n \in 1..pushed : Fates'[n] = Fates[n]
    BY <2>1, <2>2 DEF FateOf
  <2>4. /\ Fates = [n \in 1..pushed |-> Fates[n]]
        /\ Fates' = [n \in 1..(pushed + 1) |-> Fates'[n]]
    BY <2>2
  <2>5. Fates' = Append(Fates, "waiting")
    BY <2>1, <2>3, <2>4, AppendOne
  <2>6. QED
    BY <2>5 DEF Abstract!Accept, Fates
<1>3. QED
  BY <1>1, <1>2 DEF PushBack

\* Emptying the queue drops all that waits, and nothing else.
LEMMA SwapDrops ==
  ASSUME IInv, IInv', NEW t \in Threads, SwapOut(t),
         UNCHANGED <<pushed, executed, o, joined>>
  PROVE  Abstract!Drop
<1>1. /\ TypeOK /\ QueueIsTail /\ TypeOK' /\ QueueIsTail' /\ HandBehindQueue
      /\ Taken' = pushed /\ Taken \in Nat /\ pushed \in Nat /\ Taken <= pushed
  BY SwapTail DEF IInv, QueueIsTail, Taken, TypeOK
<1>2. /\ Fates = [n \in 1..pushed |-> FateOf(n, Taken, executed, o)]
      /\ Fates' = [n \in 1..pushed |-> FateOf(n, pushed, executed, o)]
  BY <1>1, FateByNumber
<1>3. ASSUME NEW n \in 1..pushed
      PROVE  Fates'[n] = IF Fates[n] = "waiting" THEN "dropped" ELSE Fates[n]
  BY <1>1, <1>2, <1>3 DEF FateOf, HandBehindQueue, TypeOK
<1>4. Fates' = [n \in DOMAIN Fates |->
                  IF n \in {m \in DOMAIN Fates : Fates[m] = "waiting"}
                  THEN "dropped" ELSE Fates[n]]
  BY <1>2, <1>3
<1>5. QED
  BY <1>4 DEF Abstract!Drop, Abstract!Waiting, Fates

\* The worker takes the oldest of the waiting tasks, and the one it held is
\* one it has begun.
LEMMA PopTakes ==
  ASSUME IInv, IInv', DequePop
  PROVE  Abstract!Take
<1>1. /\ TypeOK /\ QueueIsTail /\ TypeOK' /\ QueueIsTail' /\ HandBehindQueue
      /\ Taken' = Taken + 1 /\ o' = Taken + 1 /\ pushed' = pushed
      /\ Taken \in Nat /\ pushed \in Nat /\ Taken + 1 <= pushed
      /\ executed' = executed /\ o \in executed \cup {NoTask}
      /\ ~joined /\ joined' = joined
  <2>1. TypeOK /\ QueueIsTail /\ TypeOK' /\ QueueIsTail' /\ HandBehindQueue
    BY DEF IInv
  <2>2. Taken' = Taken + 1 /\ o' = Taken + 1 /\ pushed' = pushed
    BY <2>1, PopTail
  <2>3. Taken \in Nat /\ pushed \in Nat /\ Taken + 1 <= pushed
    BY <2>1, <2>2 DEF QueueIsTail, Taken, TypeOK
  <2>4. /\ pc[Worker] = "deque.test"
        /\ executed' = executed /\ joined' = joined
    BY DEF DequePop, Step, At
  <2>5. o \in executed \cup {NoTask} /\ ~joined
    BY <2>1, <2>4 DEF IInv, HandIsBegun, StopIsOrdered, TypeOK
  <2>6. QED
    BY <2>1, <2>2, <2>3, <2>4, <2>5
<1>2. /\ Fates = [n \in 1..pushed |-> FateOf(n, Taken, executed, o)]
      /\ Fates' = [n \in 1..pushed |->
                     FateOf(n, Taken + 1, executed, Taken + 1)]
  BY <1>1, FateByNumber
<1>3. ASSUME NEW n \in 1..pushed
      PROVE  /\ Fates[n] = "waiting" <=> n > Taken
             /\ Fates'[n] = IF n = Taken + 1 THEN "taken" ELSE Fates[n]
  BY <1>1, <1>2, <1>3 DEF FateOf, HandBehindQueue, TypeOK, NoTask
<1>4. /\ DOMAIN Fates = 1..pushed
      /\ Fates' = [Fates EXCEPT ![Taken + 1] = "taken"]
  BY <1>1, <1>2, <1>3
<1>5. /\ Taken + 1 \in {n \in DOMAIN Fates : Fates[n] = "waiting"}
      /\ \A m \in {n \in DOMAIN Fates : Fates[n] = "waiting"} : Taken + 1 <= m
  BY <1>1, <1>3, <1>4
<1>6. QED
  BY <1>1, <1>4, <1>5 DEF Abstract!Take, Abstract!Waiting, Fates

\* Each step of the worker and its clients is a step of the abstract queue or
\* changes nothing it can see.
LEMMA RefinesStep ==
  IInv /\ IInv' /\ [Next]_vars => [Abstract!Next]_(Abstract!vars)
<1> SUFFICES ASSUME IInv, IInv', [Next]_vars
             PROVE  Abstract!Next \/ UNCHANGED <<Fates, joined>>
  BY DEF Abstract!vars, Fates
<1>1. ASSUME NEW t \in Threads, EnquePush(t) \/ EmptyEnquePush(t)
      PROVE  Abstract!Next \/ UNCHANGED <<Fates, joined>>
  <2>1. PushBack(t) /\ UNCHANGED <<executed, o, joined>>
    BY <1>1 DEF EnquePush, EmptyEnquePush
  <2>2. QED
    BY <2>1, PushAccepts DEF Abstract!Next
<1>2. ASSUME NEW t \in Threads, EmptyEnqueSwap(t) \/ ClearSwap(t)
      PROVE  Abstract!Next \/ UNCHANGED <<Fates, joined>>
  <2>1. SwapOut(t) /\ UNCHANGED <<pushed, executed, o, joined>>
    BY <1>2 DEF EmptyEnqueSwap, ClearSwap, history
  <2>2. QED
    BY <2>1, SwapDrops DEF Abstract!Next
<1>3. ASSUME NEW t \in Threads, FreeEpt(t)
      PROVE  Abstract!Next \/ UNCHANGED <<Fates, joined>>
  BY <1>3 DEF FreeEpt, shared, Fates, Fate
<1>4. CASE DequePop
  BY <1>4, PopTakes DEF Abstract!Next
<1>5. CASE CallTask
  BY <1>5 DEF CallTask, shared, locals, Fates, Fate
<1>6. CASE Terminate
  <2>1. /\ o \in executed \cup {NoTask} /\ o' = NoTask
        /\ UNCHANGED <<q, pushed, executed, joined>>
    BY <1>6 DEF Terminate, Step, At, shared, IInv, HandIsBegun
  <2>2. ASSUME NEW n \in 1..pushed PROVE Fate(n)' = Fate(n)
    <3>1. SeqSet(q)' = SeqSet(q)
      BY <2>1 DEF SeqSet
    <3>2. n /= NoTask
      BY <2>2 DEF NoTask
    <3>3. QED
      BY <2>1, <3>1, <3>2 DEF Fate
  <2>3. QED
    BY <2>1, <2>2 DEF Fates
<1>7. CASE Join
  <2>1. joined' = TRUE /\ UNCHANGED Fates
    BY <1>7 DEF Join, locals, history, Fates, Fate
  <2>2. QED
    BY <2>1 DEF Abstract!Next, Abstract!Close, Fates
<1>8. CASE UNCHANGED <<q, pushed, ept, o, executed, destroyed, joined>>
  BY <1>8 DEF Fates, Fate
<1>9. QED
  BY <1>1, <1>2, <1>3, <1>4, <1>5, <1>6, <1>7, <1>8, TaskMoves

--------------------------------------------------------------------------------
(* The theorems.                                                           *)

LEMMA IInvInit == Init => IInv
<1> SUFFICES ASSUME Init PROVE IInv
  OBVIOUS
<1>1. TypeOK
  BY TypeInit
<1>2. /\ pc[Worker] = "deque.lock"
      /\ \A t \in Threads : t /= Worker => pc[t] = "idle"
  BY WorkerThread DEF Init
<1>3. MutualExclusion /\ LocalsAgree /\ NoLostWakeup
  BY <1>2 DEF Init, MutualExclusion, LocalsAgree, NoLostWakeup, Critical, At
<1>4. QueueIsTail /\ Taken = 0
  <2>1. Len(q) = 0 /\ pushed = 0
    BY DEF Init
  <2>2. 1..Len(q) = {} /\ Taken = 0
    BY <2>1 DEF Taken
  <2>3. QED
    BY <2>1, <2>2 DEF QueueIsTail
<1>5. HandBehindQueue /\ StopIsOrdered
  BY <1>2, <1>4 DEF Init, HandBehindQueue, StopIsOrdered, NoTask
<1>6. EptIsLocal /\ HandIsBegun
  BY <1>2, WorkerThread
     DEF Init, EptIsLocal, HandIsBegun, NoTask, ClientLabels, InPush
<1>7. Accounting
  <2>1. SeqSet(q) = {} /\ InEpt = {} /\ Held = {} /\ destroyed = {} /\ pushed = 0
    BY NoEntries DEF Init, InEpt, Held
  <2>2. 1..pushed = {} /\ \A t \in Threads : SeqSet(ept[t]) = {}
    BY <2>1, NoEntries DEF Init
  <2>3. QED
    BY <1>2, <2>1, <2>2 DEF Accounting, At
<1>8. QED
  BY <1>1, <1>3, <1>4, <1>5, <1>6, <1>7 DEF IInv

\* The inductive invariant holds: mutual exclusion, what the threads know of
\* the queue, the pending wakeups, the numbering of the tasks, the worker's hand
\* and the account of where each task is support one another.
THEOREM Inductive == Spec => []IInv
<1>1. Init => IInv
  BY IInvInit
<1>2. IInv /\ [Next]_vars => IInv'
  BY TypeStep, MutexStep, LocalsStep, WakeupStep, TailStep, HandStep, StopStep,
     EptStep, BegunStep, PlacesStep
     DEF IInv
<1>3. QED
  BY <1>1, <1>2, PTL DEF Spec

\* The list of tasks is only touched under the mutex (work_queue.hpp:28-74).
THEOREM Exclusive == Spec => []MutualExclusion
<1>1. IInv => MutualExclusion
  BY DEF IInv
<1>2. QED
  BY <1>1, Inductive, PTL

\* Setting the event after the unlock, and for the first task only, loses no
\* wakeup, whatever the number of clients (work_queue.hpp:29-37 and 50-51).
THEOREM Wakeups == Spec => []NoLostWakeup
<1>1. IInv => NoLostWakeup
  BY DEF IInv
<1>2. QED
  BY <1>1, Inductive, PTL

\* Tasks are run once at most and in the order in which they were accepted.
THEOREM InOrder == Spec => []RunsInOrder
<1>1. IInv => RunsInOrder
  BY DEF IInv, HandBehindQueue, RunsInOrder, At
<1>2. QED
  BY <1>1, Inductive, PTL

\* A stop() that does not fall between the worker's test of the queue and its
\* test of _exit loses no task that was queued before it.
THEOREM StopDrains == Spec => []BusyStopDrains
<1>1. IInv => BusyStopDrains
  <2> SUFFICES ASSUME IInv, pc[Worker] \in {"return", "terminated"}, ~window,
                      NEW n \in SeqSet(q)
               PROVE  n > mark
    BY DEF BusyStopDrains
  <2>1. mark <= Taken /\ mark \in Nat /\ q \in Seq(Task) /\ pushed \in Nat
    BY DEF IInv, StopIsOrdered, TypeOK
  <2>2. PICK i \in 1..Len(q) : n = q[i]
    BY DEF SeqSet
  <2>3. n = Taken + i /\ Taken \in Nat
    BY <2>1, <2>2 DEF IInv, QueueIsTail, Taken
  <2>4. QED
    BY <2>1, <2>2, <2>3
<1>2. QED
  BY <1>1, Inductive, PTL

\* No task is lost or destroyed twice: each accepted task is in exactly one of
\* the queue, the local queue of one call, the worker's hand and the destroyed,
\* and the one being run is alive (work_queue.hpp:28-75, list.hpp's pop_front).
THEOREM NothingLost == Spec => []Accounting
<1>1. IInv => Accounting
  BY DEF IInv
<1>2. QED
  BY <1>1, Inductive, PTL

\* With all its locks, events and program counters the worker does what the
\* abstract TaskQueue promises: tasks are taken once, oldest first, dropped
\* only all together, and none is taken after detach() has returned.
THEOREM Refinement == Spec => ImplementsTaskQueue
<1>1. Init => Abstract!Init
  <2> SUFFICES ASSUME Init PROVE Fates = <<>> /\ joined = FALSE
    BY DEF Abstract!Init, Fates
  <2>1. pushed = 0 /\ joined = FALSE
    BY DEF Init
  <2>2. 1..pushed = {}
    BY <2>1
  <2>3. Fates = <<>>
    BY <2>2 DEF Fates
  <2>4. QED
    BY <2>1, <2>3
<1>2. IInv /\ IInv' /\ [Next]_vars => [Abstract!Next]_(Abstract!vars)
  BY RefinesStep
<1>3. QED
  BY <1>1, <1>2, Inductive, PTL DEF Spec, ImplementsTaskQueue, Abstract!Spec
================================================================================
