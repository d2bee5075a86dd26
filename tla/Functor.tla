-------------------------------- MODULE Functor ---------------------------------
(***************************************************************************)
(* skl::just_a_call (skl/work_queue.hpp): a task of a worker, as an object *)
(* that shares a counted holder of the function with its copies.  Clients  *)
(* and the worker copy, assign and destroy their functors; each of these   *)
(* calls touches the count by at most one interlocked operation per holder *)
(* (skl/refholder.hpp), and is one step here.                              *)
(*                                                                         *)
(* A holder is the memory that new hands out for it; its count is zero     *)
(* when it is free.                                                        *)
(***************************************************************************)
EXTENDS Integers, FiniteSets

CONSTANTS
  Functors,  \* variables of type just_a_call
  Memory,    \* the memory of holders
  MaxMoves,  \* bound: moves of a holder by the constructor
  NULL

VARIABLES
  param,  \* _param and _routing of a functor, which are null together; "none": no object
  pn,     \* the count of a holder
  moves,  \* ghost: how often a constructor has moved a functor of the holder
  dead    \* ghost: a free holder was called, retained or released

vars == <<param, pn, moves, dead>>

Init ==
  /\ param = [f \in Functors |-> "none"]
  /\ pn = [h \in Memory |-> 0] /\ moves = [h \in Memory |-> 0] /\ dead = FALSE

There(f) == param[f] # "none"
Retain(c, h) == IF h = NULL THEN c ELSE [c EXCEPT ![h] = @ + 1]
Release(c, h) == IF h = NULL THEN c ELSE [c EXCEPT ![h] = @ - 1]
Uses(hs) == ~dead /\ dead' = \E h \in hs \ {NULL} : pn[h] = 0

\* A functor of nothing; of a function, which there may be no memory for.
New(f, h) ==
  /\ ~There(f) /\ Uses({})
  /\ \/ h = NULL
     \/ h # NULL /\ pn[h] = 0
  /\ param' = [param EXCEPT ![f] = h]
  /\ pn' = Retain(pn, h)
  /\ moves' = IF h = NULL THEN moves ELSE [moves EXCEPT ![h] = 0]

Copy(f, g) ==
  /\ ~There(f) /\ There(g) /\ Uses({param[g]})
  /\ param' = [param EXCEPT ![f] = param[g]]
  /\ pn' = Retain(pn, param[g])
  /\ UNCHANGED moves

\* The source is emptied and the holder retained nevertheless.
Move(f, g) ==
  /\ ~There(f) /\ There(g) /\ Uses({param[g]})
  /\ param[g] # NULL => moves[param[g]] < MaxMoves
  /\ param' = [param EXCEPT ![f] = param[g], ![g] = NULL]
  /\ pn' = Retain(pn, param[g])
  /\ moves' = Retain(moves, param[g])

Swapped(f, g) == [param EXCEPT ![f] = param[g], ![g] = param[f]]

Assign_Bug(f, g) ==
  /\ There(f) /\ There(g) /\ Uses({param[f], param[g]})
  /\ param' = [param EXCEPT ![f] = param[g]]
  /\ pn' = Release(pn, param[f])
  /\ UNCHANGED moves
\* A temporary copy is swapped in, and destroyed with what f had.
Assign(f, g) ==
  /\ There(f) /\ There(g) /\ Uses({param[f], param[g]})
  /\ param' = [param EXCEPT ![f] = param[g]]
  /\ pn' = Release(Retain(pn, param[g]), param[f])
  /\ UNCHANGED moves

\* What f had lives on in g.
AssignMove(f, g) ==
  /\ There(f) /\ There(g) /\ Uses({})
  /\ param' = Swapped(f, g)
  /\ UNCHANGED <<pn, moves>>

Destroy(f) ==
  /\ There(f) /\ Uses({param[f]})
  /\ param' = [param EXCEPT ![f] = "none"]
  /\ pn' = Release(pn, param[f])
  /\ UNCHANGED moves

\* operator(): without a routing it does nothing.
Invoke(f) ==
  /\ There(f) /\ Uses({param[f]})
  /\ UNCHANGED <<param, pn, moves>>

Next ==
  \/ \E f \in Functors : Destroy(f) \/ Invoke(f) \/ \E h \in Memory \cup {NULL} : New(f, h)
  \/ \E f, g \in Functors : Copy(f, g) \/ Move(f, g) \/ Assign(f, g) \/ AssignMove(f, g)

Spec == Init /\ [][Next]_vars

-----------------------------------------------------------------------------
(* Properties                                                              *)

\* A function that is called or let go of is there, and the count of its holder
\* is the number of its functors, so that it goes with the last of them; except
\* that every move by the constructor leaves a reference that nobody gives up,
\* and the function is never freed (just_a_call's constructors and operators).
FunctorRight ==
  /\ ~dead
  /\ \A h \in Memory :
       pn[h] = Cardinality({f \in Functors : param[f] = h}) + (IF pn[h] = 0 THEN 0 ELSE moves[h])

\* The inductive invariant of ContainersProofs.
IInv ==
  /\ param \in [Functors -> Memory \cup {NULL, "none"}]
  /\ pn \in [Memory -> Nat] /\ moves \in [Memory -> Nat]
  /\ FunctorRight
================================================================================
