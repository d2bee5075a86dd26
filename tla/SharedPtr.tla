-------------------------------- MODULE SharedPtr --------------------------------
(***************************************************************************)
(* skl/shared_ptr.hpp, refholder.hpp and the ownership of just_a_call in   *)
(* work_queue.hpp: pointers that count the references to an object.  The   *)
(* counts are atomic and shared by threads; the pointers are not, so each  *)
(* is used by one thread at a time.                                        *)
(*                                                                         *)
(* A slot is a place that holds a pointer: a local variable of a thread, a *)
(* global, the temporary inside an assignment, or the member `next' of an  *)
(* object.  An object stands for the pointee together with its counter     *)
(* (shared_ptr) or for the ref_item with its own count (ref_holder).       *)
(*                                                                         *)
(* Operators whose names end in _Bug are not part of the specification:    *)
(* each is a plausible mistake in the definition that follows it.          *)
(***************************************************************************)
EXTENDS Integers, Sequences, FiniteSets

CONSTANTS
  Threads,    \* threads that share objects
  Names,      \* names of the local pointer variables of each thread
  Globals,    \* pointer variables that threads share under a lock of their own
  Objects,    \* bound: objects that can be allocated in one behaviour
  Null        \* the null pointer

ASSUME FiniteAssumption ==
  /\ IsFiniteSet(Threads) /\ IsFiniteSet(Names)
  /\ IsFiniteSet(Globals) /\ IsFiniteSet(Objects)

ASSUME NullAssumption == Null \notin Objects

Locals(t) == {<<"local", t, n>> : n \in Names}
Shared    == {<<"global", g>> : g \in Globals}
Temp(t)   == <<"temp", t>>
Member(o) == <<"next", o>>

Variables == Shared \cup UNION {Locals(t) : t \in Threads}
Slots     == Variables \cup {Temp(t) : t \in Threads} \cup {Member(o) : o \in Objects}
NoSlot    == <<"none">>

VARIABLES
  ptr,     \* ptr[s]: the object that slot s points to
  cnt,     \* cnt[o]: the counter of o
  status,  \* "none", "counter" (allocated without its object), "live", "dying", "freed"
  pc,      \* pc[t]: where thread t is in an operation
  dst,     \* dst[t]: the pointer being assigned to
  src,     \* src[t]: the pointer being read
  dying    \* dying[t]: the objects whose destructors t is running, innermost last

vars == <<ptr, cnt, status, pc, dst, src, dying>>

Labels == {"idle", "new", "inc", "swap", "drop", "take", "read", "retain"}

Init ==
  /\ ptr = [s \in Slots |-> Null]
  /\ cnt = [o \in Objects |-> 0]
  /\ status = [o \in Objects |-> "none"]
  /\ pc = [t \in Threads |-> "idle"]
  /\ dst = [t \in Threads |-> NoSlot]
  /\ src = [t \in Threads |-> NoSlot]
  /\ dying = [t \in Threads |-> <<>>]

--------------------------------------------------------------------------------
(* Building blocks.                                                        *)

\* A destructor runs to its end before the operation that called it goes on.
Ready(t, l) == pc[t] = l /\ dying[t] = <<>>

\* Thread t reaches the member of an object through a local pointer to it.
Reachable(t) ==
  Locals(t) \cup Shared \cup
  {Member(ptr[s]) : s \in {l \in Locals(t) : ptr[l] /= Null}}

\* Whoever shares a pointer variable locks it: no two operations on one slot.
InUse(t) == UNION {{dst[u], src[u]} : u \in Threads \ {t}}

Usable(t) == Reachable(t) \ InUse(t)

Begin(t, l, d, s) ==
  /\ pc' = [pc EXCEPT ![t] = l]
  /\ dst' = [dst EXCEPT ![t] = d]
  /\ src' = [src EXCEPT ![t] = s]

Finish(t) ==
  /\ pc' = [pc EXCEPT ![t] = "idle"]
  /\ dst' = [dst EXCEPT ![t] = NoSlot]
  /\ src' = [src EXCEPT ![t] = NoSlot]

Exchange(a, b) == ptr' = [ptr EXCEPT ![a] = ptr[b], ![b] = ptr[a]]

\* An object is deleted when its count was one too high.
LetGo_Bug(t, s) ==
  LET o == ptr[s] IN
  /\ ptr' = [ptr EXCEPT ![s] = Null]
  /\ IF o = Null THEN UNCHANGED <<cnt, status, dying>>
     ELSE /\ cnt' = [cnt EXCEPT ![o] = @ - 1]
          /\ IF cnt[o] <= 2
             THEN /\ status' = [status EXCEPT ![o] = "dying"]
                  /\ dying' = [dying EXCEPT ![t] = Append(@, o)]
             ELSE UNCHANGED <<status, dying>>

\* dec() and release(): the interlocked decrement and the test of its result.
\* The thread that takes the count to zero goes on to delete the object.  The
\* slot is destroyed or about to be assigned: what it held counts no more.
LetGo(t, s) ==
  LET o == ptr[s] IN
  /\ ptr' = [ptr EXCEPT ![s] = Null]
  /\ IF o = Null THEN UNCHANGED <<cnt, status, dying>>
     ELSE /\ cnt' = [cnt EXCEPT ![o] = @ - 1]
          /\ IF cnt[o] = 1
             THEN /\ status' = [status EXCEPT ![o] = "dying"]
                  /\ dying' = [dying EXCEPT ![t] = Append(@, o)]
             ELSE UNCHANGED <<status, dying>>

--------------------------------------------------------------------------------
(* make_shared: the counter first, then the object.                        *)

\* `d = make_shared<T>()', with or without a pool: without memory for the counter
\* the result is null.
MakeCounter(t, d) ==
  /\ \/ \E o \in Objects :
          /\ status[o] = "none"
          /\ status' = [status EXCEPT ![o] = "counter"]
          /\ cnt' = [cnt EXCEPT ![o] = 1]
          /\ ptr' = [ptr EXCEPT ![Temp(t)] = o]
          /\ Begin(t, "new", d, NoSlot)
     \/ /\ Begin(t, "swap", d, NoSlot)
        /\ UNCHANGED <<ptr, cnt, status>>
  /\ UNCHANGED dying

\* The counter is kept when there is no memory for the object.
MakeObject_Bug(t) ==
  /\ Ready(t, "new")
  /\ pc' = [pc EXCEPT ![t] = "swap"]
  /\ \/ /\ status' = [status EXCEPT ![ptr[Temp(t)]] = "live"]
        /\ UNCHANGED <<ptr, cnt>>
     \/ /\ ptr' = [ptr EXCEPT ![Temp(t)] = Null]
        /\ UNCHANGED <<status, cnt>>
  /\ UNCHANGED <<dst, src, dying>>

\* `if (ref) delete ref' undoes the first allocation when the second fails.
MakeObject(t) ==
  LET o == ptr[Temp(t)] IN
  /\ Ready(t, "new")
  /\ pc' = [pc EXCEPT ![t] = "swap"]
  /\ \/ /\ status' = [status EXCEPT ![o] = "live"]
        /\ UNCHANGED <<ptr, cnt>>
     \/ /\ status' = [status EXCEPT ![o] = "freed"]
        /\ cnt' = [cnt EXCEPT ![o] = 0]
        /\ ptr' = [ptr EXCEPT ![Temp(t)] = Null]
  /\ UNCHANGED <<dst, src, dying>>

(* `d = s': a temporary copy is swapped in.  Its constructor reads the    *)
(* pointer and then counts; after the swap the temporary drops the old     *)
(* object.                                                                 *)

\* The old object is dropped before the source is read, as a ref_holder does.
CopyAssign_Bug(t, d, s) ==
  /\ d /= s
  /\ Begin(t, "read", d, s)
  /\ LetGo(t, d)

CopyAssign(t, d, s) ==
  /\ Begin(t, IF ptr[s] = Null THEN "swap" ELSE "inc", d, s)
  /\ ptr' = [ptr EXCEPT ![Temp(t)] = ptr[s]]
  /\ UNCHANGED <<cnt, status, dying>>

Count(t) ==
  /\ Ready(t, "inc")
  /\ cnt' = [cnt EXCEPT ![ptr[Temp(t)]] = @ + 1]
  /\ pc' = [pc EXCEPT ![t] = "swap"]
  /\ UNCHANGED <<ptr, status, dst, src, dying>>

SwapTemp(t) ==
  /\ Ready(t, "swap")
  /\ Exchange(dst[t], Temp(t))
  /\ pc' = [pc EXCEPT ![t] = "drop"]
  /\ dst' = [dst EXCEPT ![t] = NoSlot]
  /\ src' = [src EXCEPT ![t] = NoSlot]
  /\ UNCHANGED <<cnt, status, dying>>

DropTemp(t) ==
  /\ Ready(t, "drop")
  /\ LetGo(t, Temp(t))
  /\ Finish(t)

--------------------------------------------------------------------------------
(* Moves.                                                                  *)

\* `d = move(s)' for one type: the pointers are exchanged, so the source keeps
\* the old object.  For an empty d this is also the move constructor.
MoveAssign(t, d, s) ==
  /\ d /= s
  /\ Exchange(d, s)
  /\ UNCHANGED <<cnt, status, pc, dst, src, dying>>

\* `d = move(s)' from a pointer to a derived type, and between ref_holders:
\* the old object is dropped first, then the source is emptied into d.  The
\* source is a variable: in the repository it never lives in an object.
ChildMoveAssign(t, d, s) ==
  /\ s \in Variables
  /\ d /= s
  /\ Begin(t, "take", d, s)
  /\ LetGo(t, d)

Take(t) ==
  /\ Ready(t, "take")
  /\ ptr' = [ptr EXCEPT ![dst[t]] = ptr[src[t]], ![src[t]] = Null]
  /\ Finish(t)
  /\ UNCHANGED <<cnt, status, dying>>

\* `d = s' between ref_holders: release, read, retain.
HolderAssign(t, d, s) ==
  /\ s \in Variables
  /\ d /= s
  /\ Begin(t, "read", d, s)
  /\ LetGo(t, d)

HolderRead(t) ==
  /\ Ready(t, "read")
  /\ ptr' = [ptr EXCEPT ![dst[t]] = ptr[src[t]]]
  /\ IF ptr[src[t]] = Null
     THEN Finish(t)
     ELSE pc' = [pc EXCEPT ![t] = "retain"] /\ UNCHANGED <<dst, src>>
  /\ UNCHANGED <<cnt, status, dying>>

HolderRetain(t) ==
  /\ Ready(t, "retain")
  /\ cnt' = [cnt EXCEPT ![ptr[dst[t]]] = @ + 1]
  /\ Finish(t)
  /\ UNCHANGED <<ptr, status, dying>>

--------------------------------------------------------------------------------
(* Destruction.                                                            *)

\* The destructor of a variable.
Destroy(t, d) ==
  /\ d \in Variables
  /\ ptr[d] /= Null
  /\ LetGo(t, d)
  /\ UNCHANGED <<pc, dst, src>>

Innermost(t) == dying[t][Len(dying[t])]

\* The member's destructor is not run.
DropMember_Bug(t) ==
  /\ dying[t] /= <<>>
  /\ ptr[Member(Innermost(t))] /= Null
  /\ ptr' = [ptr EXCEPT ![Member(Innermost(t))] = Null]
  /\ UNCHANGED <<cnt, status, dying, pc, dst, src>>

\* Deleting an object destroys its member, which may be the last pointer to
\* another object: that one is deleted first.
DropMember(t) ==
  /\ dying[t] /= <<>>
  /\ ptr[Member(Innermost(t))] /= Null
  /\ LetGo(t, Member(Innermost(t)))
  /\ UNCHANGED <<pc, dst, src>>

\* The memory of the object and then of its counter is given back.
FreeObject_Bug(t) ==
  /\ dying[t] /= <<>>
  /\ ptr[Member(Innermost(t))] = Null
  /\ status' = [status EXCEPT ![Innermost(t)] = "freed"]
  /\ dying' = [dying EXCEPT ![t] = <<>>]
  /\ UNCHANGED <<ptr, cnt, pc, dst, src>>

FreeObject(t) ==
  /\ dying[t] /= <<>>
  /\ ptr[Member(Innermost(t))] = Null
  /\ status' = [status EXCEPT ![Innermost(t)] = "freed"]
  /\ dying' = [dying EXCEPT ![t] = SubSeq(@, 1, Len(@) - 1)]
  /\ UNCHANGED <<ptr, cnt, pc, dst, src>>

--------------------------------------------------------------------------------
\* Every operation begins with the thread at rest, on pointers it may use.
Assigning(t) ==
  /\ Ready(t, "idle")
  /\ \E d, s \in Usable(t) :
       \/ MakeCounter(t, d) \/ Destroy(t, d)
       \/ CopyAssign(t, d, s) \/ MoveAssign(t, d, s) \/ ChildMoveAssign(t, d, s)
       \/ HolderAssign(t, d, s)

Continue(t) ==
  \/ MakeObject(t) \/ Count(t) \/ SwapTemp(t) \/ DropTemp(t)
  \/ Take(t) \/ HolderRead(t) \/ HolderRetain(t)
  \/ DropMember(t) \/ FreeObject(t)

Next == \E t \in Threads : Assigning(t) \/ Continue(t)

Spec == Init /\ [][Next]_vars

\* A ready thread is scheduled: what it has begun it finishes.
FairSpec == Spec /\ \A t \in Threads : WF_vars(Continue(t))

--------------------------------------------------------------------------------
(* Safety.                                                                 *)

TypeOK ==
  /\ ptr \in [Slots -> Objects \cup {Null}]
  /\ cnt \in [Objects -> Nat]
  /\ status \in [Objects -> {"none", "counter", "live", "dying", "freed"}]
  /\ pc \in [Threads -> Labels]
  /\ dst \in [Threads -> Slots \cup {NoSlot}]
  /\ src \in [Threads -> Slots \cup {NoSlot}]
  /\ dying \in [Threads -> Seq(Objects)]

\* The slots whose pointer has been read and not yet been counted.
Borrowed ==
  {Temp(t) : t \in {u \in Threads : pc[u] = "inc"}} \cup
  {dst[t] : t \in {u \in Threads : pc[u] = "retain"}}

Owners(o) == {s \in Slots \ Borrowed : ptr[s] = o}

\* The counter of an object is the number of pointers to it, at every step of
\* every operation of every thread (shared_ptr.hpp:294-356).
CountExact == \A o \in Objects : cnt[o] = Cardinality(Owners(o))

Exists(o) == status[o] \in {"counter", "live"}

\* No pointer, counted or not, ever points to an object that is being deleted
\* or has been; nor does an operation under way work on the member of one.
\* In particular the read and the increment of a copy cannot straddle the
\* last owner's decrement (shared_ptr.hpp:303-304 against 295-297).
NoDangling ==
  /\ \A s \in Slots : ptr[s] /= Null => Exists(ptr[s])
  /\ \A t \in Threads, o \in Objects :
       Member(o) \in {dst[t], src[t]} => status[o] = "live"

\* What no pointer points to any more has been freed or is being freed: the
\* advice of work_queue.hpp:259-260 against leaks ("recommend to use
\* shared_ptr") rests on it.
UnheldIsFreed ==
  \A o \in Objects : Exists(o) => \E s \in Slots : ptr[s] = o

\* The deletions under way are nested: each object is deleted by one thread,
\* once, and its owner is the last member to be destroyed before it.
Nested ==
  /\ \A t, u \in Threads : \A i \in 1..Len(dying[t]), j \in 1..Len(dying[u]) :
       dying[t][i] = dying[u][j] => t = u /\ i = j
  /\ \A t \in Threads : \A i \in 1..Len(dying[t]) : status[dying[t][i]] = "dying"
  /\ \A o \in Objects : status[o] = "dying" =>
       \E t \in Threads : \E i \in 1..Len(dying[t]) : dying[t][i] = o

\* An object is made once, deleted once and never comes back; and it is not
\* deleted while another pointer to it remains.
Lifecycle ==
  [][\A o \in Objects : status'[o] /= status[o] =>
       \/ status[o] = "none" /\ status'[o] = "counter"
       \/ status[o] = "counter" /\ status'[o] \in {"live", "freed"}
       \/ status[o] = "live" /\ status'[o] = "dying" /\ Owners(o)' = {}
       \/ status[o] = "dying" /\ status'[o] = "freed"]_vars

\* What each label says of the pointers the thread has in hand.
HandInv(t) ==
  /\ pc[t] \in {"idle", "take", "read", "retain"} => ptr[Temp(t)] = Null
  /\ pc[t] \in {"idle", "drop"} => dst[t] = NoSlot /\ src[t] = NoSlot
  /\ pc[t] \in {"new", "inc", "swap", "take", "read", "retain"} => dst[t] \in Slots
  /\ pc[t] \in {"take", "read", "retain"} => src[t] \in Variables /\ src[t] /= dst[t]
  /\ pc[t] \in {"take", "read"} => ptr[dst[t]] = Null
  /\ pc[t] = "inc" =>
       src[t] \in Slots /\ ptr[Temp(t)] /= Null /\ ptr[Temp(t)] = ptr[src[t]]
  /\ pc[t] = "retain" => ptr[dst[t]] /= Null /\ ptr[dst[t]] = ptr[src[t]]
  /\ pc[t] = "new" => ptr[Temp(t)] /= Null /\ status[ptr[Temp(t)]] = "counter"

\* A thread works on its own locals, on globals and on members of objects that
\* one of its locals holds; no two threads work on one slot.
Members == {Member(o) : o \in Objects}

PrivateInv ==
  /\ \A t \in Threads :
       {dst[t], src[t]} \subseteq Locals(t) \cup Shared \cup Members \cup {NoSlot}
  /\ \A t, u \in Threads :
       t /= u => {dst[t], src[t]} \cap {dst[u], src[u]} \subseteq {NoSlot}
  /\ \A t \in Threads, o \in Objects :
       Member(o) \in {dst[t], src[t]} => \E l \in Locals(t) : ptr[l] = o

\* An object that is not made yet is known to its maker's temporary alone.
NewInv ==
  \A s \in Slots : ptr[s] /= Null /\ status[ptr[s]] = "counter" =>
    /\ \E t \in Threads : s = Temp(t) /\ pc[t] = "new"
    /\ \A r \in Slots : ptr[r] = ptr[s] => r = s

\* The inductive invariant: see SharedPtrProofs.
IInv ==
  /\ TypeOK
  /\ \A t \in Threads : HandInv(t)
  /\ PrivateInv
  /\ NewInv
  /\ CountExact
  /\ \A o \in Objects : cnt[o] > 0 <=> Exists(o)
  /\ Nested

\* Once the last pointer is gone the memory is given back, however long the
\* chain of objects that go with it.
DeadAreFreed ==
  \A o \in Objects : (status[o] = "dying") ~> (status[o] = "freed")
================================================================================
