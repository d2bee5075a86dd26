----------------------------- MODULE WorkerLifecycle -----------------------------
(***************************************************************************)
(* The life of a simple_worker or interface_worker (skl/work_queue.hpp)    *)
(* with its skl::thread (skl/thread.hpp): create() with every failure, the *)
(* pointers that clients and tasks have to the worker, its destructor,     *)
(* which stops the thread and does not wait, and who frees the queue.      *)
(*                                                                         *)
(* What the queue does is in WorkQueue, what the counts do in SharedPtr:   *)
(* here calls of the queue are single steps, and a count is the set of     *)
(* those who hold a reference.                                             *)
(*                                                                         *)
(* Operators whose names end in _Bug are not part of the specification:    *)
(* each is a plausible mistake in the definition that follows it.          *)
(***************************************************************************)
EXTENDS Integers, Sequences, SequencesExt

CONSTANTS
  Clients,    \* threads that have pointers to the worker
  Owner,      \* the client that creates the worker, and alone detaches it
  Worker,     \* the worker's own thread
  Nobody,     \* no thread
  MaxPushes   \* bound: tasks that are pushed in one behaviour

ASSUME ClientsAssumption ==
  Owner \in Clients /\ Worker \notin Clients /\ Nobody \notin Clients \cup {Worker}

ASSUME MaxPushesAssumption == MaxPushes \in Nat

VARIABLES
  cpc,        \* where create() is
  worker,     \* "none", "live", "dying", "freed"
  wp,         \* the clients that have a pointer to the worker
  qrefs,      \* pointers to the queue: "wq", "lambda", "fn", "worker"
  fnrefs,     \* references to the heap copy of the lambda: "ptr", "holder"
  krefs,      \* references to the thread object: "handle", "t", "worker"
  wpc,        \* where the worker's thread is
  q,          \* the queued tasks, numbered in the order of acceptance
  o,          \* the lambda's o, the task it has in hand; 0 for none
  holds,      \* the tasks that have captured a pointer to the worker
  pushed,     \* tasks accepted
  exit,       \* _exit
  joining,    \* the owner waits in detach()
  dpc, dby,   \* where the destructor of the worker is, and which thread runs it
  crashed     \* the system has stopped at an access through a null pointer

vars == <<cpc, worker, wp, qrefs, fnrefs, krefs, wpc, q, o, holds, pushed, exit,
          joining, dpc, dby, crashed>>

making == <<cpc, fnrefs, krefs>>
tasks  == <<q, o, holds, pushed>>
ending == <<worker, dpc, dby>>

Init ==
  /\ cpc = "start" /\ worker = "none" /\ wp = {}
  /\ qrefs = {} /\ fnrefs = {} /\ krefs = {}
  /\ wpc = "none" /\ q = <<>> /\ o = 0 /\ holds = {} /\ pushed = 0
  /\ exit = FALSE /\ joining = FALSE
  /\ dpc = "none" /\ dby = Nobody
  /\ crashed = FALSE

--------------------------------------------------------------------------------
(* References.                                                             *)

\* The tasks that exist: queued, or in the thread's hand.
Alive == ToSet(q) \cup ({o} \ {0})

\* A thread that is running the destructor does nothing else meanwhile.
Free(t) == dby /= t /\ ~ crashed

\* The task in hand is not asked for its pointer.
LetGo_Bug(t) ==
  IF worker = "live" /\ wp' = {} /\ holds' \cap ToSet(q') = {}
  THEN worker' = "dying" /\ dpc' = "stop" /\ dby' = t
  ELSE UNCHANGED ending

\* Thread t has let go of pointers to the worker; if no other is left, it goes
\* on to destroy the worker.
LetGo(t) ==
  IF worker = "live" /\ wp' = {} /\ holds' \cap Alive' = {}
  THEN worker' = "dying" /\ dpc' = "stop" /\ dby' = t
  ELSE UNCHANGED ending

\* The queue goes with the last pointer to it, and its tasks with the queue.
\* None of them can hold the worker then, for the worker holds the queue.
DropQueue(refs) ==
  /\ qrefs' = qrefs \ refs
  /\ q' = IF qrefs' = {} THEN <<>> ELSE q

--------------------------------------------------------------------------------
(* create() and init().                                                    *)

Creating(l) == cpc = l /\ Free(Owner)

MakeWorker ==
  /\ Creating("start")
  /\ \/ cpc' = "queue" /\ worker' = "live" /\ wp' = {Owner}
     \/ cpc' = "null" /\ UNCHANGED <<worker, wp>>
  /\ UNCHANGED <<qrefs, fnrefs, krefs, wpc, tasks, exit, joining, dpc, dby, crashed>>

MakeQueue ==
  /\ Creating("queue")
  /\ \/ cpc' = "fn" /\ qrefs' = {"wq"}
     \/ cpc' = "failed" /\ UNCHANGED qrefs
  /\ UNCHANGED <<ending, wp, fnrefs, krefs, wpc, tasks, exit, joining, crashed>>

\* The heap copy of the lambda refers to the queue and does not count it.
MakeFn_Bug ==
  /\ Creating("fn")
  /\ \/ cpc' = "holder" /\ qrefs' = qrefs \cup {"lambda"} /\ fnrefs' = {"ptr"}
     \/ cpc' = "ctor" /\ qrefs' = qrefs \cup {"lambda"} /\ UNCHANGED fnrefs
  /\ UNCHANGED <<ending, wp, krefs, wpc, tasks, exit, joining, crashed>>

\* The lambda captures a copy of wq, and so does its copy on the heap.
MakeFn ==
  /\ Creating("fn")
  /\ \/ cpc' = "holder" /\ qrefs' = qrefs \cup {"lambda", "fn"} /\ fnrefs' = {"ptr"}
     \/ cpc' = "ctor" /\ qrefs' = qrefs \cup {"lambda"} /\ UNCHANGED fnrefs
  /\ UNCHANGED <<ending, wp, krefs, wpc, tasks, exit, joining, crashed>>

MakeHolder ==
  /\ Creating("holder")
  /\ \/ cpc' = "spawn" /\ fnrefs' = fnrefs \cup {"holder"}
     \/ cpc' = "ctor" /\ UNCHANGED fnrefs
  /\ UNCHANGED <<ending, wp, qrefs, krefs, wpc, tasks, exit, joining, crashed>>

\* PsCreateSystemThread: the thread runs at once; on failure the holder goes.
Spawn ==
  /\ Creating("spawn")
  /\ \/ cpc' = "reference" /\ krefs' = {"handle"} /\ wpc' = "deque" /\ UNCHANGED fnrefs
     \/ cpc' = "ctor" /\ fnrefs' = fnrefs \ {"holder"} /\ UNCHANGED <<krefs, wpc>>
  /\ UNCHANGED <<ending, wp, qrefs, tasks, exit, joining, crashed>>

\* ObReferenceObjectByHandle: on failure the object says there is no thread.
Reference ==
  /\ Creating("reference")
  /\ cpc' = "ctor"
  /\ krefs' \in {{"handle", "t"}, {"handle"}}
  /\ UNCHANGED <<ending, wp, qrefs, fnrefs, wpc, tasks, exit, joining, crashed>>

\* The end of the constructor and of the expression: ZwClose, then the local
\* pointer to the heap copy and the lambda itself are destroyed.
EndCtor ==
  /\ Creating("ctor")
  /\ cpc' = IF "t" \in krefs THEN "assign" ELSE "failed"
  /\ krefs' = krefs \ {"handle"}
  /\ fnrefs' = fnrefs \ {"ptr"}
  /\ DropQueue({"lambda"} \cup (IF fnrefs' = {} THEN {"fn"} ELSE {}))
  /\ UNCHANGED <<ending, wp, wpc, o, holds, pushed, exit, joining, crashed>>

\* `_t.swap(t); _queue = wq'.
Assign ==
  /\ Creating("assign")
  /\ cpc' = "done"
  /\ krefs' = {"worker"}
  /\ qrefs' = (qrefs \ {"wq"}) \cup {"worker"}
  /\ UNCHANGED <<ending, wp, fnrefs, wpc, tasks, exit, joining, crashed>>

\* init() returned false: create() returns an empty pointer and destroys the
\* worker it has made.
CreateFails ==
  /\ Creating("failed")
  /\ cpc' = "null"
  /\ wp' = {}
  /\ DropQueue({"wq"})
  /\ UNCHANGED <<o, holds, pushed>>
  /\ LetGo(Owner)
  /\ UNCHANGED <<fnrefs, krefs, wpc, exit, joining, crashed>>

--------------------------------------------------------------------------------
(* Calls.  A client makes them through its pointer, a task on the worker's *)
(* thread through the one it has captured.                                 *)

Running(n) == wpc = "run" /\ o = n

CanCall(t) ==
  /\ cpc = "done" /\ Free(t)
  /\ \/ t \in wp /\ ~ (t = Owner /\ joining)
     \/ t = Worker /\ o \in holds /\ Running(o)

\* push: the task may have captured the caller's pointer.
Push(t) ==
  /\ CanCall(t)
  /\ pushed < MaxPushes
  /\ pushed' = pushed + 1
  /\ q' = Append(q, pushed')
  /\ holds' \in {holds, holds \cup {pushed'}}
  /\ UNCHANGED <<making, ending, wp, qrefs, wpc, o, exit, joining, crashed>>

Stop(t) ==
  /\ CanCall(t)
  /\ exit' = TRUE
  /\ UNCHANGED <<making, ending, wp, qrefs, wpc, tasks, joining, crashed>>

Clear(t) ==
  /\ CanCall(t)
  /\ q' = <<>>
  /\ UNCHANGED <<wp, o, holds, pushed>>
  /\ LetGo(t)
  /\ UNCHANGED <<making, qrefs, wpc, exit, joining, crashed>>

\* A copy of the pointer for another client.
Share(t, c) ==
  /\ CanCall(t)
  /\ c \notin wp
  /\ wp' = wp \cup {c}
  /\ UNCHANGED <<making, ending, qrefs, wpc, tasks, exit, joining, crashed>>

\* A client's pointer is destroyed.
Drop(t) ==
  /\ t \in wp
  /\ CanCall(t)
  /\ wp' = wp \ {t}
  /\ UNCHANGED tasks
  /\ LetGo(t)
  /\ UNCHANGED <<making, qrefs, wpc, exit, joining, crashed>>

\* detach(): stop, and wait for the thread if its object is still referenced.
Detach ==
  /\ Owner \in wp
  /\ CanCall(Owner)
  /\ exit' = TRUE
  /\ joining' = ("worker" \in krefs)
  /\ UNCHANGED <<making, ending, wp, qrefs, wpc, tasks, crashed>>

Join ==
  /\ joining
  /\ wpc = "terminated"
  /\ joining' = FALSE
  /\ krefs' = krefs \ {"worker"}
  /\ UNCHANGED <<cpc, fnrefs, ending, wp, qrefs, wpc, tasks, exit, crashed>>

--------------------------------------------------------------------------------
(* ~simple_worker, on whichever thread let go of the last pointer.         *)

\* The destructor does not stop the thread.
DestroyStop_Bug ==
  /\ dpc = "stop" /\ ~ crashed
  /\ IF "worker" \in qrefs
     THEN dpc' = "thread" /\ UNCHANGED crashed
     ELSE crashed' = TRUE /\ UNCHANGED dpc
  /\ UNCHANGED <<making, worker, dby, wp, qrefs, wpc, tasks, exit, joining>>

\* stop() goes through _queue, which is null if init() did not get so far.
DestroyStop ==
  /\ dpc = "stop" /\ ~ crashed
  /\ IF "worker" \in qrefs
     THEN dpc' = "thread" /\ exit' = TRUE /\ UNCHANGED crashed
     ELSE crashed' = TRUE /\ UNCHANGED <<dpc, exit>>
  /\ UNCHANGED <<making, worker, dby, wp, qrefs, wpc, tasks, joining>>

\* ~thread drops the thread object without waiting.
DestroyThread ==
  /\ dpc = "thread" /\ ~ crashed
  /\ dpc' = "queue"
  /\ krefs' = krefs \ {"worker"}
  /\ UNCHANGED <<cpc, fnrefs, worker, dby, wp, qrefs, wpc, tasks, exit, joining, crashed>>

\* The worker's pointer to the queue, and then its own memory.
DestroyQueue ==
  /\ dpc = "queue" /\ ~ crashed
  /\ DropQueue({"worker"})
  /\ worker' = "freed" /\ dpc' = "none" /\ dby' = Nobody
  /\ UNCHANGED <<making, wp, wpc, o, holds, pushed, exit, joining, crashed>>

Destroying == DestroyStop \/ DestroyThread \/ DestroyQueue

--------------------------------------------------------------------------------
(* The worker's thread.                                                    *)

At(l) == wpc = l /\ Free(Worker)

\* The task is moved to o and the one that was there before is destroyed.
DequePop ==
  /\ At("deque")
  /\ q /= <<>>
  /\ o' = Head(q) /\ q' = Tail(q)
  /\ UNCHANGED <<wp, holds, pushed>>
  /\ LetGo(Worker)
  /\ wpc' = "run"
  /\ UNCHANGED <<making, qrefs, exit, joining, crashed>>

DequeEmpty ==
  /\ At("deque")
  /\ q = <<>>
  /\ wpc' = "wait"
  /\ UNCHANGED <<making, ending, wp, qrefs, tasks, exit, joining, crashed>>

\* After the event or the timeout only _exit is looked at.
Wake ==
  /\ At("wait")
  /\ wpc' = IF exit THEN "leave" ELSE "deque"
  /\ UNCHANGED <<making, ending, wp, qrefs, tasks, exit, joining, crashed>>

\* The task in hand stays in o.
TaskReturns ==
  /\ At("run")
  /\ wpc' = "deque"
  /\ UNCHANGED <<making, ending, wp, qrefs, tasks, exit, joining, crashed>>

\* The lambda returns, and o is destroyed.
Leave ==
  /\ At("leave")
  /\ o' = 0
  /\ UNCHANGED <<wp, q, holds, pushed>>
  /\ LetGo(Worker)
  /\ wpc' = "release"
  /\ UNCHANGED <<making, qrefs, exit, joining, crashed>>

\* The thread ends and its holder stays behind.
Release_Bug ==
  /\ At("release")
  /\ wpc' = "terminated"
  /\ UNCHANGED <<making, ending, wp, qrefs, tasks, exit, joining, crashed>>

\* holder->release() destroys the lambda's copy, maybe the last pointer to the
\* queue; then the thread terminates.
Release ==
  /\ At("release")
  /\ fnrefs' = fnrefs \ {"holder"}
  /\ DropQueue(IF fnrefs' = {} THEN {"fn"} ELSE {})
  /\ wpc' = "terminated"
  /\ UNCHANGED <<cpc, krefs, ending, wp, o, holds, pushed, exit, joining, crashed>>

Working == DequePop \/ DequeEmpty \/ Wake \/ Leave \/ Release

--------------------------------------------------------------------------------
Create ==
  \/ MakeWorker \/ MakeQueue \/ MakeFn \/ MakeHolder \/ Spawn \/ Reference
  \/ EndCtor \/ Assign \/ CreateFails

Calling ==
  \/ \E t \in Clients \cup {Worker} :
       \/ Push(t) \/ Stop(t) \/ Clear(t)
       \/ \E c \in Clients : Share(t, c)
  \/ \E t \in Clients : Drop(t)
  \/ Detach

Next == Create \/ Calling \/ Join \/ Destroying \/ Working \/ TaskReturns

Spec == Init /\ [][Next]_vars

\* Ready threads run, a wait ends at the latest after its 10 ms, and no task
\* calls the worker for ever instead of returning.
FairSpec ==
  Spec /\ WF_vars(Create) /\ WF_vars(Destroying) /\ WF_vars(Working) /\ WF_vars(Join)
       /\ SF_vars(TaskReturns)

--------------------------------------------------------------------------------
(* Properties.                                                             *)

MakerTypes ==
  /\ cpc \in {"start", "queue", "fn", "holder", "spawn", "reference", "ctor",
              "assign", "failed", "null", "done"}
  /\ worker \in {"none", "live", "dying", "freed"}
  /\ wp \subseteq Clients
  /\ qrefs \subseteq {"wq", "lambda", "fn", "worker"}
  /\ fnrefs \subseteq {"ptr", "holder"}
  /\ krefs \subseteq {"handle", "t", "worker"}
  /\ dpc \in {"none", "stop", "thread", "queue"}
  /\ dby \in Clients \cup {Worker, Nobody}

TaskTypes ==
  /\ wpc \in {"none", "deque", "wait", "run", "leave", "release", "terminated"}
  /\ q \in Seq(1..MaxPushes)
  /\ o \in 0..MaxPushes
  /\ holds \subseteq 1..MaxPushes
  /\ pushed \in 0..MaxPushes
  /\ exit \in BOOLEAN /\ joining \in BOOLEAN /\ crashed \in BOOLEAN

TypeOK == MakerTypes /\ TaskTypes

\* The queue and the lambda exist for as long as the thread uses them, however
\* early the worker is destroyed ("no detach", work_queue.hpp:249), and the
\* queue for as long as anybody can call the worker.
QueueInUse ==
  /\ wpc \in {"deque", "wait", "run", "leave"} => fnrefs /= {} /\ qrefs /= {}
  /\ \A t \in Clients \cup {Worker} : CanCall(t) => "worker" \in qrefs

\* A task that has captured the worker finds it alive when it runs, although
\* nobody else may have a pointer any more.
TaskKeepsWorker ==
  wpc = "run" /\ o \in holds => worker = "live"

\* When worker and thread have ended nothing is left behind: no task, no
\* queue, no lambda, no reference to the thread object.
NothingLeft ==
  worker = "freed" /\ wpc = "terminated" =>
    Alive = {} /\ qrefs = {} /\ fnrefs = {} /\ krefs = {}

\* Without detach() and without stop(), the last pointer's destructor stops the
\* thread; only a task that has captured the worker can keep it from doing so
\* (one that has run counts, because the lambda's o keeps it).
RunawayOnlyByCapture ==
  cpc = "done" /\ wp = {} /\ worker /= "dying" /\ wpc /= "terminated" =>
    exit \/ holds \cap Alive /= {}

\* A worker that is destroyed does not wait for its thread, but the thread ends
\* and takes the queue with it.
DestroyedEnds == (worker = "freed") ~> (wpc = "terminated" /\ qrefs = {})

\* create() says that it has failed by an empty pointer (work_queue.hpp:255),
\* which Driver.cpp:885 tests.
CreateAnswers == ~ crashed

--------------------------------------------------------------------------------
(* The inductive invariant: see WorkerProofs.                              *)

Making == {"queue", "fn", "holder", "spawn", "reference", "ctor", "assign", "failed"}

\* Until create() has answered, the worker belongs to its creator alone.
OwnPart ==
  /\ cpc = "start" => worker = "none" /\ wp = {}
  /\ cpc \in Making => worker = "live" /\ wp = {Owner}
  /\ cpc \in Making \cup {"start"} => wpc \in {"none", "deque", "wait"} /\ ~ exit
  /\ cpc = "null" => worker \in {"none", "dying"} /\ wp = {}
  /\ cpc /= "done" => q = <<>> /\ o = 0 /\ holds = {} /\ pushed = 0 /\ ~ joining

\* The references that create() has and leaves, step by step.
RefsPart ==
  /\ cpc = "start" => qrefs = {} /\ fnrefs = {}
  /\ cpc \in {"queue", "fn"} => qrefs \subseteq {"wq"} /\ fnrefs = {}
  /\ cpc \in {"fn", "holder", "spawn", "reference", "ctor", "assign"} => "wq" \in qrefs
  /\ cpc \in {"assign", "failed", "done"} => "lambda" \notin qrefs /\ "ptr" \notin fnrefs
  /\ cpc \in {"holder", "spawn", "reference"} => "ptr" \in fnrefs
  /\ cpc \in {"spawn", "reference"} => "holder" \in fnrefs
  /\ cpc = "done" => "wq" \notin qrefs
  /\ "worker" \in qrefs => cpc = "done"

ThreadPart ==
  /\ cpc \in {"start", "queue", "fn", "holder", "spawn"} => krefs = {} /\ wpc = "none"
  /\ cpc \in {"assign", "failed", "done"} => "handle" \notin krefs
  /\ cpc = "done" => "t" \notin krefs
  /\ cpc \in {"reference", "assign", "done"} \/ krefs /= {} => wpc /= "none"

\* Who has a reference, has it counted.
CountPart ==
  /\ worker = "live" <=> wp /= {} \/ holds \cap Alive /= {}
  /\ joining => Owner \in wp
  /\ "fn" \in qrefs <=> fnrefs /= {}
  /\ wpc \in {"deque", "wait", "run", "leave", "release"} <=>
       "holder" \in fnrefs /\ wpc /= "none"
  /\ qrefs = {} => q = <<>>
  /\ wpc \in {"release", "terminated"} => o = 0

\* The destructor goes step by step, and what it has done stays done.
DyingPart ==
  /\ worker = "dying" <=> dpc /= "none"
  /\ dby = Nobody <=> dpc = "none"
  /\ worker \in {"none", "live"} => ~ crashed
  /\ dpc \in {"thread", "queue"} \/ worker = "freed" => exit /\ cpc = "done"

DonePart ==
  /\ cpc = "done" => worker \in {"live", "dying", "freed"}
  /\ cpc = "done" /\ worker \in {"live", "dying"} => "worker" \in qrefs
  /\ dpc = "queue" \/ worker = "freed" => krefs = {}
  /\ worker = "freed" => "worker" \notin qrefs

IInv ==
  /\ TypeOK
  /\ OwnPart /\ RefsPart /\ ThreadPart /\ CountPart /\ DyingPart /\ DonePart
================================================================================
