-------------------------------- MODULE Variant --------------------------------
(***************************************************************************)
(* Variant (sl/Variant.hpp): storage for one object, whose type the        *)
(* program knows by an index alone.  The values of the registry are        *)
(* variants.                                                               *)
(*                                                                         *)
(* Of an object the model keeps its type and whether it is there: a moved  *)
(* object stays behind empty and is destroyed like any other, so that here *)
(* a move is a copy; but a copy may throw.                                 *)
(***************************************************************************)
EXTENDS Integers, Sequences, FiniteSets

CONSTANTS
  Variants,
  Types,   \* the alternatives
  SizeOf,  \* the size of an object of each type
  MaxTypes, \* bound: alternatives in a list of types
  NULL

VARIABLES
  index,   \* m_typeIndex of a variant: a type, or "void", or NULL when there is no variant
  data,    \* m_data: the type of the object there, or NULL
  objects, \* how many objects of a type were made and not destroyed
  wild,    \* an object that is not there was read or destroyed, or as one of another type
  torn     \* ghost: a variant was assigned to itself, or the copy threw over an object

vars == <<index, data, objects, wild, torn>>

There == {v \in Variants : index[v] # NULL}
Typed == {v \in Variants : index[v] \in Types}

Init ==
  /\ index = [v \in Variants |-> NULL] /\ data = [v \in Variants |-> NULL]
  /\ objects = [t \in Types |-> 0]
  /\ wild = FALSE /\ torn = FALSE

-----------------------------------------------------------------------------
(* What the compiler computes from the list of the alternatives            *)

IntegerMax(args) ==
  LET max[n \in 0..Len(args) - 1] ==
        IF n = 0 THEN args[1] ELSE IF max[n - 1] >= args[n + 1] THEN max[n - 1] ELSE args[n + 1]
  IN  max[Len(args) - 1]
data_size(list) == IntegerMax([k \in DOMAIN list |-> SizeOf[list[k]]])

\* Is t the head of the last n types, or among the rest?
Contains(t, list) ==
  LET contains[n \in 0..Len(list)] == n > 0 /\ (t = list[Len(list) - n + 1] \/ contains[n - 1])
  IN  contains[Len(list)]

\* How many types follow the first t; -1 when there is none.
GetLeftSize(t, list) ==
  LET left[n \in 0..Len(list)] ==
        IF n = 0 THEN -1 ELSE IF list[Len(list) - n + 1] = t THEN n - 1 ELSE left[n - 1]
  IN  left[Len(list)]
Index_Bug(t, list) == Len(list) - GetLeftSize(t, list)
\* Where the first t is, counted from 0; the length when there is none.
Index(t, list) == Len(list) - GetLeftSize(t, list) - 1

\* The head of what is left when as many types are taken away.
IndexType(n, list) == Head(SubSeq(list, n + 1, Len(list)))

-----------------------------------------------------------------------------
(* VariantHelper, which does nothing for an index that is not a type       *)

\* An object of type t is destroyed, and one of type u made.
Exchange(t, u) ==
  objects' = [x \in Types |-> objects[x] + (IF x = u THEN 1 ELSE 0) - (IF x = t THEN 1 ELSE 0)]

\* It is a mistake to take what stands in v for an object of type t.
Mistaken(v, t) == t \in Types /\ data[v] # t

\* After a mistake anything may happen: the program is not followed.
Goes(mistake) == ~wild /\ wild' = mistake

-----------------------------------------------------------------------------
(* Constructors and destructor                                             *)

\* A variant without a value, or with one of type t.
New(v, t) ==
  /\ index[v] = NULL
  /\ Goes(FALSE)
  /\ index' = [index EXCEPT ![v] = t]
  /\ data' = [data EXCEPT ![v] = IF t \in Types THEN t ELSE NULL]
  /\ Exchange("void", t)
  /\ UNCHANGED torn

\* Copied or moved from w; when the copy throws there is no variant.
NewFrom(v, w) ==
  /\ index[v] = NULL /\ w \in There
  /\ Goes(Mistaken(w, index[w]))
  /\ index' = [index EXCEPT ![v] = index[w]]
  /\ data' = [data EXCEPT ![v] = data[w]]
  /\ Exchange("void", index[w])
  /\ UNCHANGED torn

Delete(v) ==
  /\ v \in There
  /\ Goes(Mistaken(v, index[v]))
  /\ index' = [index EXCEPT ![v] = NULL]
  /\ data' = [data EXCEPT ![v] = NULL]
  /\ Exchange(index[v], "void")
  /\ UNCHANGED torn

-----------------------------------------------------------------------------
(* Assignments: the old object is destroyed before the source is read      *)

Reads(v, w) == Mistaken(w, index[w]) \/ (v = w /\ v \in Typed)

Assign_Bug(v, w) ==
  /\ {v, w} \subseteq There
  /\ Goes(Mistaken(v, index[w]) \/ Reads(v, w))
  /\ index' = [index EXCEPT ![v] = index[w]]
  /\ data' = [data EXCEPT ![v] = data[w]]
  /\ Exchange(index[w], index[w])
  /\ torn' = (torn \/ v = w)
Assign(v, w) ==
  /\ {v, w} \subseteq There
  /\ Goes(Mistaken(v, index[v]) \/ Reads(v, w))
  /\ index' = [index EXCEPT ![v] = index[w]]
  /\ data' = [data EXCEPT ![v] = data[w]]
  /\ Exchange(index[v], index[w])
  /\ torn' = (torn \/ v = w)

\* The copy throws: the old object is gone, and its index stays.
AssignThrows(v, w) ==
  /\ v \in There /\ w \in Typed \ {v}
  /\ Goes(Mistaken(v, index[v]) \/ Reads(v, w))
  /\ data' = [data EXCEPT ![v] = NULL]
  /\ Exchange(index[v], "void")
  /\ torn' = (torn \/ v \in Typed)
  /\ UNCHANGED index

-----------------------------------------------------------------------------
(* Reading                                                                 *)

\* For another type Get() throws, To() answers its default and Visit() calls
\* nobody; for this one each reads the object.
Get(v, t) ==
  /\ index[v] = t
  /\ Goes(Mistaken(v, t))
  /\ UNCHANGED <<index, data, objects, torn>>

Next ==
  \/ \E v \in Variants, t \in Types \cup {"void"} : New(v, t)
  \/ \E v \in Variants : Delete(v)
  \/ \E v, w \in Variants : NewFrom(v, w) \/ Assign(v, w) \/ AssignThrows(v, w)
  \/ \E v \in Variants, t \in Types : Get(v, t)

Spec == Init /\ [][Next]_vars

-----------------------------------------------------------------------------
(* Properties                                                              *)

\* Every object is destroyed once and as what it is, and nothing is read that
\* is not there, but for a variant that was assigned to itself or whose copy
\* threw over an object: its index then names an object that is gone, which
\* the destructor destroys again (Variant::operator=, ~Variant, Get).
LivesRight ==
  ~torn =>
    /\ ~wild
    /\ \A t \in Types : objects[t] = Cardinality({v \in Variants : index[v] = t})

\* The inductive invariant of ContainersProofs: until a variant is torn, the
\* object in it is of the type that its index names.
IInv ==
  ~torn =>
    /\ index \in [Variants -> Types \cup {"void", NULL}] /\ objects \in [Types -> Int]
    /\ data = [v \in Variants |-> IF index[v] \in Types THEN index[v] ELSE NULL]
    /\ LivesRight

\* Whatever the alternatives are, the storage holds an object of each of them,
\* and a type is found at its index, which is the length for a stranger, unlike
\* -1 as a caller of GetIndexOf() may think (data_t, Contains, Index, IndexType).
HelpersRight ==
  \A list \in UNION {[1..n -> Types] : n \in 1..MaxTypes}, t \in Types :
    LET i == Index(t, list) IN
    /\ Contains(t, list) <=> i < Len(list)
    /\ Contains(t, list) => IndexType(i, list) = t /\ SizeOf[t] <= data_size(list)
    /\ \A k \in 0..Len(list) - 1 : k < i => IndexType(k, list) # t
    /\ \E u \in Types : Contains(u, list) /\ SizeOf[u] = data_size(list)
================================================================================
