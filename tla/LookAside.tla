------------------------------- MODULE LookAside --------------------------------
(***************************************************************************)
(* The look-aside pools (skl/lookaside.hpp): lists of free blocks, one for *)
(* each size or type that the program names, and among them the pool of    *)
(* the runtime, which all nodes of tables and all counters come from.      *)
(* Which list an object belongs to is chosen by the compiler from its      *)
(* type, when it is made and again when it is deleted; a type without a    *)
(* list does not compile.  The lists of the system are external.           *)
(***************************************************************************)
EXTENDS Integers, Sequences, FiniteSets

CONSTANTS
  Blocks,     \* memory
  Types,      \* types of objects
  SizeOf,     \* the size of each
  PoolTypes,  \* the list of types of a LookAsidePool
  PoolSizes,  \* the list of sizes of a LookAsideSizePool
  NULL

VARIABLES
  sort,   \* what chooses a list: "type" or "size"; "gone" after the destructor
  block   \* of each block: its size, the list where it is free, or the type of the
          \* object in it; System when the pool does not have it

vars == <<sort, block>>

System == [size |-> 0, list |-> 0, obj |-> NULL]
Init == sort \in {"type", "size"} /\ block = [b \in Blocks |-> System]

-----------------------------------------------------------------------------
(* The choice of a list: the first that fits                               *)

First(S) == {i \in S : \A j \in S : i <= j}
MatchTypeFinder(t) == First({i \in DOMAIN PoolTypes : PoolTypes[i] = t})
MatchSizeTypeFinder_Bug(t) == First({i \in DOMAIN PoolSizes : PoolSizes[i] <= SizeOf[t]})
MatchSizeTypeFinder(t) == First({i \in DOMAIN PoolSizes : PoolSizes[i] = SizeOf[t]})
ListOf(t) == IF sort = "type" THEN MatchTypeFinder(t) ELSE MatchSizeTypeFinder(t)
Size(i) == IF sort = "type" THEN SizeOf[PoolTypes[i]] ELSE PoolSizes[i]

-----------------------------------------------------------------------------
(* LookasideAllocator: a block that is free in list i, or a new one        *)

allocate(b, i, t) ==
  \/ block[b] = System /\ block' = [block EXCEPT ![b] = [size |-> Size(i), list |-> 0, obj |-> t]]
  \/ block[b].list = i /\ block' = [block EXCEPT ![b].list = 0, ![b].obj = t]
free(b, i) == block' = [block EXCEPT ![b].list = i, ![b].obj = NULL]

\* The balance manager of the system takes blocks that have long been free.
Trim(b) == block[b].list # 0 /\ block' = [block EXCEPT ![b] = System] /\ UNCHANGED sort

-----------------------------------------------------------------------------
(* The pool by types, and the one by sizes.  Malloc and Free are New and   *)
(* Delete of an object that the caller makes and ends.  A call that gets   *)
(* no memory changes nothing: it is no step.                               *)

New(b, t) ==
  /\ sort = "type" /\ UNCHANGED sort
  /\ \E i \in ListOf(t) : allocate(b, i, t)
Delete(b) ==
  /\ sort = "type" /\ UNCHANGED sort
  /\ block[b].obj # NULL /\ \E i \in ListOf(block[b].obj) : free(b, i)

SizeNew(b, t) ==
  /\ sort = "size" /\ UNCHANGED sort
  /\ \E i \in ListOf(t) : allocate(b, i, t)
SizeDelete(b) ==
  /\ sort = "size" /\ UNCHANGED sort
  /\ block[b].obj # NULL /\ \E i \in ListOf(block[b].obj) : free(b, i)

\* The destructor gives up the free blocks; objects stay, and nobody can free them.
End ==
  /\ sort # "gone" /\ sort' = "gone"
  /\ block' = [b \in Blocks |-> IF block[b].list # 0 THEN System ELSE block[b]]

Next ==
  \/ \E b \in Blocks :
       Delete(b) \/ SizeDelete(b) \/ Trim(b) \/ \E t \in Types : New(b, t) \/ SizeNew(b, t)
  \/ End

Spec == Init /\ [][Next]_vars

-----------------------------------------------------------------------------
(* Properties                                                              *)

\* Although a block serves many types in turn, in a pool that chooses by size,
\* every object lies in a block that is large enough for it, and what is free in
\* a list has the size of the list, so that the next object fits (Malloc, New,
\* Free, Delete, MatchSizeTypeFinder).
PoolRight ==
  \A b \in Blocks :
    /\ block[b].obj # NULL => block[b].size >= SizeOf[block[b].obj]
    /\ block[b].list # 0 => block[b].size = Size(block[b].list)

\* The inductive invariant of ContainersProofs: an object has the very size of its
\* list, so that its block fits there when it is free; after the end none is.
IInv ==
  /\ sort \in {"type", "size", "gone"}
  /\ block \in [Blocks -> [size : Nat, list : Nat, obj : Types \cup {NULL}]]
  /\ \A b \in Blocks :
       /\ block[b].obj # NULL => block[b].size = SizeOf[block[b].obj]
       /\ block[b].list # 0 => block[b].size = Size(block[b].list) /\ sort # "gone"
================================================================================
