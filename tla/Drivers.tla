--------------------------------- MODULE Drivers --------------------------------
(***************************************************************************)
(* The drivers that use skl: the mini filter Fs (Fs/Fs.cpp) and the        *)
(* example KMDF (KMDF/Driver.cpp), from the loading of the image to its    *)
(* end, over the runtime that both share (skl/kernel.cpp).  KMDF does all  *)
(* its work in DriverEntry, with five threads one after the other, and     *)
(* always fails in the end, so that its image goes at once.                *)
(*                                                                         *)
(* Reference counts are in the runtime's memory, and every thread ends by  *)
(* giving up one.  A thread object whose thread runs although its handle   *)
(* could not be referenced does not wait for it; such a thread is an       *)
(* orphan.  A worker whose creation fails half way crashes the system.     *)
(* The filter manager is external: it calls back only while it filters,    *)
(* and FltUnregisterFilter waits for the callbacks.                        *)
(***************************************************************************)
EXTENDS Naturals, FiniteSets

CONSTANTS
  Rounds,    \* rounds with the mutex, of each side: 5 in the code
  MaxTasks   \* tasks given to a worker: 100 in the code; callbacks at a time

VARIABLES
  kind,      \* which driver it is: "Fs" or "KMDF"
  image,     \* "out", "entry" (in DriverEntry), "loaded", "unloading", "crashed"
  runtime,   \* gInstanceGlobleRuntime: "null", "live" or "freed"
  at,        \* where DriverEntry is: a stage and a point of it
  thread,    \* of each thread: "none", "ready", "running" or "over"
  owners,    \* who holds the object of each stage, tasks apart
  queued,    \* the tasks in each worker's queue
  hand,      \* workers that hold on to a task
  stopped,   \* workers that are told to end
  lock,      \* who has the mutex of the context
  rounds,    \* how many rounds each side has gone
  instance,  \* gFsInstance is there
  filtering, \* the filter manager calls back
  inflight,  \* callbacks that have not returned
  orphans,   \* ghost: threads nobody can wait for
  wild,      \* ghost: memory was used after its end
  left       \* ghost: what the image has left allocated

fs == <<instance, filtering, inflight>>
workers == <<queued, hand, stopped>>
mutex == <<lock, rounds>>
load == <<kind, image, left>>
vars == <<load, runtime, at, thread, owners, workers, mutex, fs, orphans, wild>>

Threads == {"a", "b", "c", "w", "i"}
Workers == {"w", "i"}
Stage(t, point) == <<t, point>>
After == [a |-> Stage("b", "create"), b |-> Stage("c", "create"), c |-> Stage("w", "create"),
          w |-> Stage("i", "create"), i |-> Stage("entry", "return")]

Count(t) == Cardinality(owners[t]) + (IF t \in Workers THEN queued[t] ELSE 0)
                                   + (IF t \in hand THEN 1 ELSE 0)
Alive == {t \in Threads : thread[t] \in {"ready", "running"}}

\* The image has been loaded, its globals are null, and DriverEntry is called.
Init ==
  /\ kind \in {"Fs", "KMDF"} /\ image = "entry" /\ at = Stage("entry", "init")
  /\ runtime = "null" /\ thread = [t \in Threads |-> "none"]
  /\ owners = [t \in Threads |-> {}] /\ queued = [t \in Workers |-> 0] /\ hand = {} /\ stopped = {}
  /\ lock = "none" /\ rounds = [s \in {"a", "main"} |-> 0]
  /\ instance = FALSE /\ filtering = FALSE /\ inflight = 0
  /\ orphans = {} /\ wild = FALSE /\ left = {}

-----------------------------------------------------------------------------
(* Image and runtime                                                       *)

Goes(t, point) == at' = Stage(t, point)
Leaves(what) == image' = "out" /\ left' = what

\* Each DriverEntry goes on, or fails in its own way, after RunTimeInit.
DriverEntry ==
  IF runtime' = "live" THEN Goes("a", "create") /\ UNCHANGED <<image, left>>
  ELSE Goes("none", "none") /\ Leaves({})
FsDriverEntry ==
  /\ IF runtime' = "live" THEN Goes("fs", "create") ELSE Goes("entry", "uninit")
  /\ UNCHANGED <<image, left>>
RunTimeInit ==
  /\ at = Stage("entry", "init")
  /\ runtime' \in {"live", "null"}
  /\ IF kind = "Fs" THEN FsDriverEntry ELSE DriverEntry
  /\ UNCHANGED <<kind, thread, owners, workers, mutex, fs, orphans, wild>>

RunTimeUnInit_Bug ==
  /\ at = Stage("entry", "uninit") /\ Goes("none", "none")
  /\ Leaves({"runtime"} \cup (IF instance THEN {"instance"} ELSE {}))
  /\ UNCHANGED <<kind, runtime, thread, owners, workers, mutex, fs, orphans, wild>>
\* DriverEntry has failed: the runtime, if any, is deleted and the image goes.
RunTimeUnInit ==
  /\ at = Stage("entry", "uninit") /\ Goes("none", "none")
  /\ runtime' = IF runtime = "live" THEN "freed" ELSE runtime
  /\ Leaves(IF instance THEN {"instance"} ELSE {})
  /\ UNCHANGED <<kind, thread, owners, workers, mutex, fs, orphans, wild>>

-----------------------------------------------------------------------------
(* Fs                                                                      *)

\* Fs::DriverEntry: whatever fails after new leaves the instance behind.
FsEntry ==
  /\ at = Stage("fs", "create")
  /\ \/ Goes("entry", "uninit") /\ instance' \in BOOLEAN /\ UNCHANGED <<filtering, image>>
     \/ Goes("none", "none") /\ instance' = TRUE /\ filtering' = TRUE /\ image' = "loaded"
     \/ Goes("fs", "unregister") /\ instance' = TRUE /\ filtering' = TRUE /\ UNCHANGED image
  /\ UNCHANGED <<kind, left, runtime, thread, owners, workers, mutex, inflight, orphans, wild>>

\* FltStartFiltering may have called back before it fails.
FsUnregister ==
  /\ at = Stage("fs", "unregister") /\ inflight = 0
  /\ filtering' = FALSE /\ Goes("entry", "uninit")
  /\ UNCHANGED <<load, runtime, thread, owners, workers, mutex, instance, inflight, orphans, wild>>

CallBack ==
  /\ filtering /\ image # "unloading" /\ inflight < MaxTasks /\ inflight' = inflight + 1
  /\ UNCHANGED <<load, runtime, at, thread, owners, workers, mutex, instance, filtering, orphans, wild>>
CallBackEnds ==
  /\ inflight > 0 /\ inflight' = inflight - 1
  /\ wild' = (wild \/ image = "out" \/ ~instance)
  /\ UNCHANGED <<load, runtime, at, thread, owners, workers, mutex, instance, filtering, orphans>>

\* Fs::Unload deletes the instance, but nobody deletes the runtime.
UnloadBegins ==
  /\ image = "loaded" /\ image' = "unloading"
  /\ UNCHANGED <<kind, left, runtime, at, thread, owners, workers, mutex, fs, orphans, wild>>
Unload ==
  /\ image = "unloading" /\ inflight = 0
  /\ instance' = FALSE /\ filtering' = FALSE
  /\ Leaves({"runtime"})
  /\ UNCHANGED <<kind, runtime, at, thread, owners, workers, mutex, inflight, orphans, wild>>

-----------------------------------------------------------------------------
(* KMDF: DriverEntryImp                                                    *)

\* Its first query fails, or the driver has come to the end of its work.
Return ==
  /\ at \in {Stage("a", "create"), Stage("entry", "return")}
  /\ Goes("entry", "uninit")
  /\ owners' = [t \in Threads |-> owners[t] \ {"main", "copy"}]
  /\ UNCHANGED <<load, runtime, thread, workers, mutex, fs, orphans, wild>>

\* The first stages make an object and a thread that shares it: a by a
\* captured copy, b by a reference to main's pointer.
Create(t) ==
  /\ at = Stage(t, "create") /\ Goes(t, "goOn")
  /\ \E made \in {"none", "thread", "orphan"} :
       /\ thread' = [thread EXCEPT ![t] = IF made = "none" THEN @ ELSE "ready"]
       /\ orphans' = IF made = "orphan" THEN orphans \cup {t} ELSE orphans
       /\ owners' = [owners EXCEPT ![t] =
            CASE t = "a" -> {"main", "temp"} \cup (IF made = "none" THEN {} ELSE {"thread"})
              [] t = "b" -> {"main", "copy"}
              [] OTHER -> {"main"}]
  /\ UNCHANGED <<load, runtime, workers, mutex, fs, wild>>

\* simple_worker::create and interface_worker::create: there may be no memory
\* for the worker; without a queue or a thread the worker is destroyed, and
\* its destructor stops the queue through a null pointer.  An orphan's worker
\* counts as one without a thread.
MakeWorker(t) ==
  /\ at = Stage(t, "create") /\ owners' = [owners EXCEPT ![t] = {"main"}]
  /\ \/ at' = After[t] /\ UNCHANGED <<image, thread>>
     \/ Goes("none", "none") /\ image' = "crashed" /\ UNCHANGED thread
     \/ Goes(t, "push") /\ thread' = [thread EXCEPT ![t] = "ready"] /\ UNCHANGED image
  /\ UNCHANGED <<kind, left, runtime, workers, mutex, fs, orphans, wild>>

\* The end of the statement destroys the lambda that was copied.
GoOn(t) ==
  /\ at = Stage(t, "goOn")
  /\ owners' = [owners EXCEPT ![t] = @ \ {"temp"}]
  /\ Goes(t, IF t = "a" THEN "lock" ELSE "join")
  /\ UNCHANGED <<load, runtime, thread, workers, mutex, fs, orphans, wild>>

\* One round with the context's mutex, of main or of thread a.
Lock(side) == lock = "none" /\ rounds[side] < Rounds /\ lock' = side /\ UNCHANGED rounds
Unlock(side) == lock = side /\ lock' = "none" /\ rounds' = [rounds EXCEPT ![side] = @ + 1]
auto_locker(side) == Lock(side) \/ Unlock(side)
MainRound ==
  /\ at = Stage("a", "lock")
  /\ \/ auto_locker("main") /\ UNCHANGED at
     \/ rounds["main"] = Rounds /\ Goes("a", "join") /\ UNCHANGED mutex
  /\ UNCHANGED <<load, runtime, thread, owners, workers, fs, orphans, wild>>

\* A task is pushed, or there is no memory for it.
Push(t) ==
  /\ at = Stage(t, "push") /\ queued[t] < MaxTasks
  /\ queued' = [queued EXCEPT ![t] = @ + 1]
  /\ UNCHANGED <<load, runtime, at, thread, owners, hand, stopped, mutex, fs, orphans, wild>>
\* clear(), of w only, and the stop that detach() begins with.
ClearStop(t) ==
  /\ at = Stage(t, "push") /\ Goes(t, "join")
  /\ queued' = IF t = "w" THEN [queued EXCEPT ![t] = 0] ELSE queued
  /\ stopped' = stopped \cup {t}
  /\ UNCHANGED <<load, runtime, thread, owners, hand, mutex, fs, orphans, wild>>

Join_Bug(t) ==
  /\ at = Stage(t, "join") /\ at' = After[t]
  /\ UNCHANGED <<load, runtime, thread, owners, workers, mutex, fs, orphans, wild>>
\* detach() and then() wait for a thread that they have.  At the end of its
\* block b's pointers go.
Join(t) ==
  /\ at = Stage(t, "join") /\ (t \in orphans \/ thread[t] \in {"none", "over"})
  /\ at' = After[t]
  /\ owners' = IF t = "c" THEN [owners EXCEPT !["b"] = @ \ {"main", "copy"}] ELSE owners
  /\ UNCHANGED <<load, runtime, thread, workers, mutex, fs, orphans, wild>>

-----------------------------------------------------------------------------
(* KMDF: the threads                                                       *)

Touch(bad) == wild' = (wild \/ bad \/ runtime # "live")

\* b copies main's pointer.
ThreadProc(t) ==
  /\ thread[t] = "ready" /\ thread' = [thread EXCEPT ![t] = "running"]
  /\ owners' = IF t = "b" THEN [owners EXCEPT ![t] = @ \cup {"thread"}] ELSE owners
  /\ Touch(t = "b" /\ "main" \notin owners[t])
  /\ UNCHANGED <<load, runtime, at, workers, mutex, fs, orphans>>

ThreadRound ==
  /\ thread["a"] = "running" /\ auto_locker("a")
  /\ Touch(FALSE)
  /\ UNCHANGED <<load, runtime, at, thread, owners, workers, fs, orphans>>

\* A worker takes a task, and lets go of the one before.
RunTask(t) ==
  /\ thread[t] = "running" /\ queued[t] > 0
  /\ queued' = [queued EXCEPT ![t] = @ - 1] /\ hand' = hand \cup {t}
  /\ Touch(FALSE)
  /\ UNCHANGED <<load, runtime, at, thread, owners, stopped, mutex, fs, orphans>>

\* With the thread goes its copy of the function, and what that held.  A
\* worker that learns of the stop from its wait leaves tasks in its queue.
ThreadEnds(t) ==
  /\ thread[t] = "running" /\ thread' = [thread EXCEPT ![t] = "over"]
  /\ t = "a" => rounds["a"] = Rounds /\ lock # "a"
  /\ t \in Workers => t \in stopped
  /\ owners' = [owners EXCEPT ![t] = @ \ {"thread"}] /\ hand' = hand \ {t}
  /\ Touch(FALSE)
  /\ UNCHANGED <<load, runtime, at, queued, stopped, mutex, fs, orphans>>

Next ==
  \/ RunTimeInit \/ RunTimeUnInit
  \/ FsEntry \/ FsUnregister \/ CallBack \/ CallBackEnds \/ UnloadBegins \/ Unload
  \/ Return \/ MainRound \/ ThreadRound
  \/ \E t \in Threads \ Workers : Create(t) \/ GoOn(t)
  \/ \E t \in Threads : Join(t) \/ ThreadProc(t) \/ ThreadEnds(t)
  \/ \E t \in Workers : MakeWorker(t) \/ Push(t) \/ ClearStop(t) \/ RunTask(t)

Spec == Init /\ [][Next]_vars

-----------------------------------------------------------------------------
(* Properties                                                              *)

\* Unless a thread is an orphan, no thread and no callback uses the runtime,
\* the instance, main's pointers or the image after its end, and main sees the
\* counts that its comments expect: 1 after a (Driver.cpp:853) and after the
\* worker (Driver.cpp:903), 2 after b (DriverEntryImp, detach, then; Unload).
NothingOutlives ==
  orphans = {} =>
    /\ ~wild
    /\ image = "out" \/ runtime = "freed" => Alive = {} /\ inflight = 0
    /\ at = Stage("b", "create") => Count("a") = 1
    /\ at = Stage("c", "create") => Count("b") = 2
    /\ at = Stage("i", "create") => Count("w") = 1

\* An image that was refused leaves at most the instance of a filter that
\* could not be registered; one that has been loaded leaves its runtime
\* (DriverEntry; Unload, where RunTimeUnInit is not called).
LeftBehind ==
  image = "out" =>
    /\ left \subseteq IF runtime = "live" THEN {"runtime"} ELSE {"instance"}
    /\ kind = "KMDF" => left = {}

\* The parts of the inductive invariant of ProgramsProofs.

Points == {"create", "goOn", "lock", "push", "join", "init", "return", "uninit", "unregister", "none"}

TypeOK ==
  /\ kind \in {"Fs", "KMDF"} /\ image \in {"out", "entry", "loaded", "unloading", "crashed"}
  /\ runtime \in {"null", "live", "freed"}
  /\ at \in (Threads \cup {"entry", "fs", "none"}) \X Points
  /\ thread \in [Threads -> {"none", "ready", "running", "over"}]
  /\ owners \in [Threads -> SUBSET {"main", "temp", "copy", "thread"}]
  /\ queued \in [Workers -> Nat] /\ hand \subseteq Workers /\ stopped \subseteq Workers
  /\ lock \in {"none", "a", "main"} /\ rounds \in [{"a", "main"} -> Nat]
  /\ instance \in BOOLEAN /\ filtering \in BOOLEAN /\ inflight \in Nat /\ wild \in BOOLEAN
  /\ orphans \subseteq Threads

\* The image and the runtime last until DriverEntry has failed, or for ever.
ImageLasts ==
  /\ at[1] # "none" => image = "entry"
  /\ at[1] \in Threads \cup {"fs"} \/ at[2] = "return" \/ image \in {"loaded", "unloading"} =>
       runtime = "live"
  /\ at[1] # "none" => runtime # "freed"
  /\ at[1] = "entry" /\ at[2] = "init" => ~instance
  /\ kind = "KMDF" => ~instance /\ at[1] # "fs" /\ image \notin {"loaded", "unloading"}
  /\ LeftBehind

\* The filter manager calls back into a driver that is there.
CallsBack ==
  /\ inflight > 0 => filtering
  /\ filtering =>
       /\ instance /\ runtime = "live"
       /\ at = Stage("fs", "unregister") \/ image \in {"loaded", "unloading"}

\* Main waits for a thread before it goes on to the next.
ThreadsInTurn == \A t \in Alive : at[1] = t /\ at[2] # "create"

\* Who holds the objects of the stage that DriverEntry is at, or has left.
OwnersRight ==
  /\ \A t \in Threads : "thread" \in owners[t] => t \in Alive
  /\ at = Stage("a", "goOn") => owners["a"] \ {"thread"} = {"main", "temp"}
  /\ at \in {Stage("a", "lock"), Stage("a", "join")} => owners["a"] \ {"thread"} = {"main"}
  /\ at = Stage("b", "create") => owners["a"] = {"main"}
  /\ at[1] = "b" /\ at[2] # "create" => owners["b"] \ {"thread"} = {"main", "copy"}
  /\ at[1] = "c" => owners["b"] = {"main", "copy"}
  /\ at = Stage("i", "create") \/ (at[1] = "w" /\ at[2] # "create") => owners["w"] = {"main"}
  /\ queued["w"] > 0 => at = Stage("w", "push")
  /\ \A t \in hand : thread[t] = "running"

IInv ==
  /\ TypeOK /\ ImageLasts /\ CallsBack
  /\ orphans = {} => ~wild /\ ThreadsInTurn /\ OwnersRight
================================================================================
