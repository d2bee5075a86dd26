-------------------------------- MODULE AvlTable --------------------------------
(***************************************************************************)
(* skl::map, skl::set and skl::Uint64GenericTable (skl/map.hpp, set.hpp,   *)
(* unit64table.hpp), whose nodes all come from one pool of the runtime     *)
(* (globle_runtime.h): on 64 bit they have the same size.                  *)
(*                                                                         *)
(* The RTL's AVL table is external: a function from keys to nodes.  A node *)
(* carries a pointer to a counted item, or, in a plain table, the number   *)
(* itself; freed nodes keep their bytes until they are handed out again.   *)
(* Each table is used by a thread of its own; its calls are steps, except  *)
(* clear(), which touches a node after it has given it back.               *)
(***************************************************************************)
EXTENDS Naturals, FiniteSets

CONSTANTS
  Maps, Sets, Plain,  \* tables of each kind; the plain ones hold numbers
  Keys,           \* numbers, in the order of Compare
  Memory, Items,   \* the memory of the pool, and what new hands out
  Handles,        \* ref_holders of the callers
  NULL

VARIABLES
  node,     \* the node of each key of each table, or NULL
  cell,     \* what stands in a node: an item, or a number
  pool,     \* nodes that are free
  key,      \* the key in an item
  count,    \* references to an item; 0 when it is deleted
  held,     \* what each handle refers to
  erasing,  \* the node that a clear() has just deleted and will read
  it,       \* an iterator: its table, the node in its handle, its item
  fault,    \* "none", or how the program stopped
  must, seen,  \* ghosts: keys an iteration must visit, and has visited
  gone,        \* ghost: the node an iterator stood on has been removed
  reused       \* ghost: a deleted node was handed out before clear() read it

vars == <<node, cell, pool, key, count, held, erasing, it, fault, must, seen, gone, reused>>
memory == <<node, cell, pool, key, erasing, reused>>
walk == <<it, must, seen, gone>>

Tables == Maps \cup Sets
All == Tables \cup Plain
Off == [of |-> NULL, at |-> NULL, value |-> NULL]
In(t) == {k \in Keys : node[t][k] # NULL}
First(S) == CHOOSE k \in S : \A j \in S : k <= j

Init ==
  /\ node = [t \in All |-> [k \in Keys |-> NULL]]
  /\ cell = [n \in Memory |-> NULL] /\ pool = Memory
  /\ key = [i \in Items |-> NULL] /\ count = [i \in Items |-> 0]
  /\ held = [h \in Handles |-> NULL]
  /\ erasing = [t \in All |-> NULL] /\ fault = "none"
  /\ it = Off /\ must = {} /\ seen = {} /\ gone = FALSE /\ reused = FALSE

-----------------------------------------------------------------------------
(* Memory                                                                  *)

Retain(c, i) == IF i \in Items THEN [c EXCEPT ![i] = @ + 1] ELSE c
Release(c, i) == IF i \in Items THEN [c EXCEPT ![i] = @ - 1] ELSE c

\* A node of t for k, with the value v, from the pool; and back to the pool.
Allocate(t, k, n, v) ==
  /\ n \in pool /\ pool' = pool \ {n}
  /\ node' = [node EXCEPT ![t][k] = n]
  /\ cell' = [cell EXCEPT ![n] = v]
  /\ reused' = (reused \/ \E o \in All : erasing[o] = n)
  /\ UNCHANGED <<erasing, walk, fault>>
Free(t, k) ==
  /\ node' = [node EXCEPT ![t][k] = NULL]
  /\ pool' = pool \cup {node[t][k]}
  /\ must' = IF it.of = t THEN must \ {k} ELSE must
  /\ gone' = (gone \/ it.at = node[t][k])
  /\ UNCHANGED <<cell, key, it, seen, fault, reused>>

\* The result of a call goes to a handle, which drops what it had.
Answer(h, i, c) ==
  /\ held' = [held EXCEPT ![h] = i]
  /\ count' = Release(Retain(c, i), held[h])

Ready(t) == fault = "none" /\ erasing[t] = NULL

-----------------------------------------------------------------------------
(* map                                                                     *)

\* find(); insert() of a key that is there, whose new value is ignored, or
\* without memory for a node; remove() of a key that is not there.
Find(t, h, k) ==
  /\ Ready(t)
  /\ Answer(h, IF node[t][k] = NULL THEN NULL ELSE cell[node[t][k]], count)
  /\ UNCHANGED <<memory, walk, fault>>

Insert_Bug(t, h, k) ==
  /\ Ready(t) /\ node[t][k] = NULL
  /\ \E n \in Memory, i \in Items :
       /\ count[i] = 0
       /\ Allocate(t, k, n, i)
       /\ key' = [key EXCEPT ![i] = k]
       /\ held' = [held EXCEPT ![h] = i]
       /\ count' = Release([count EXCEPT ![i] = 1], held[h])
Insert(t, h, k) ==
  /\ Ready(t) /\ node[t][k] = NULL
  /\ \E n \in Memory, i \in Items :
       /\ count[i] = 0
       /\ Allocate(t, k, n, i)
       /\ key' = [key EXCEPT ![i] = k]
       /\ Answer(h, i, [count EXCEPT ![i] = 1])

\* The node is there, but no item, or one whose key could not be copied: to
\* find the node again, the deletion compares through a null pointer in the
\* one case, through a deleted item in the other.
InsertStops(t, k) ==
  /\ Ready(t) /\ node[t][k] = NULL /\ pool # {}
  /\ fault' \in {"null", "deleted"}
  /\ UNCHANGED <<memory, walk, count, held>>

Remove(t, h, k) ==
  /\ Ready(t) /\ node[t][k] # NULL
  /\ LET i == cell[node[t][k]] IN Answer(h, i, Release(count, i))
  /\ Free(t, k)
  /\ UNCHANGED erasing

\* clear() deletes the first element, and then reads the item in its node.
ClearDelete(t) ==
  /\ Ready(t) /\ In(t) # {}
  /\ LET k == First(In(t)) IN
     /\ erasing' = [erasing EXCEPT ![t] = node[t][k]]
     /\ Free(t, k)
  /\ UNCHANGED <<count, held>>

ClearRelease(t) ==
  LET i == cell[erasing[t]] IN
  /\ fault = "none" /\ erasing[t] # NULL
  /\ erasing' = [erasing EXCEPT ![t] = NULL]
  /\ IF i \in Items /\ count[i] > 0
     THEN count' = Release(count, i) /\ UNCHANGED fault
     ELSE fault' = "wild" /\ UNCHANGED count
  /\ UNCHANGED <<node, cell, pool, key, reused, held, walk>>

Drop(h) ==
  /\ fault = "none" /\ held[h] # NULL
  /\ Answer(h, NULL, count)
  /\ UNCHANGED <<memory, walk, fault>>

-----------------------------------------------------------------------------
(* Iterator of map, whose handle is a pointer to a node                    *)

\* The iterator goes to the first key of S, or, if there is none, to the end.
MoveTo(t, S) ==
  LET n == IF S = {} THEN NULL ELSE node[t][First(S)]
      i == IF n = NULL THEN NULL ELSE cell[n]
  IN
  /\ it' = [of |-> t, at |-> n, value |-> i]
  /\ count' = Release(Retain(count, i), it.value)
  /\ UNCHANGED <<memory, held, fault>>

Begin_Bug(t) ==
  /\ Ready(t) /\ it = Off
  /\ MoveTo(t, {k \in In(t) : \E j \in In(t) : j < k})
  /\ must' = In(t) /\ seen' = {} /\ UNCHANGED gone
Begin(t) ==
  /\ Ready(t) /\ it = Off
  /\ MoveTo(t, In(t))
  /\ must' = In(t) /\ seen' = IF In(t) = {} THEN {} ELSE {First(In(t))}
  /\ UNCHANGED gone

\* If the element it stands on has been removed, the handle points to a free
\* node, or to one of another table.
Advance(t) ==
  /\ Ready(t) /\ it.of = t /\ it.at # NULL
  /\ LET here == {k \in Keys : node[t][k] = it.at}
         rest == {k \in In(t) : \A j \in here : k > j}
     IN IF here = {}
        THEN fault' = "stale" /\ UNCHANGED <<memory, walk, count, held>>
        ELSE /\ MoveTo(t, rest)
             /\ seen' = seen \cup (IF rest = {} THEN {} ELSE {First(rest)})
             /\ UNCHANGED <<must, gone>>

End ==
  /\ fault = "none" /\ it # Off
  /\ it' = Off /\ must' = {} /\ seen' = {} /\ gone' = FALSE
  /\ count' = Release(count, it.value)
  /\ UNCHANGED <<memory, held, fault>>

-----------------------------------------------------------------------------
(* set, a second copy of map's code whose items are keys without a value;  *)
(* find() answers false, found or not, where map's answers true            *)

SetFind(t, h, k) == Find(t, h, k)
SetInsert(t, h, k) == Insert(t, h, k)
SetInsertStops(t, k) == InsertStops(t, k)
SetRemove(t, h, k) == Remove(t, h, k)
SetClearDelete(t) == ClearDelete(t)
SetClearRelease(t) == ClearRelease(t)
SetBegin(t) == Begin(t)
SetAdvance(t) == Advance(t)

-----------------------------------------------------------------------------
(* Uint64GenericTable                                                      *)

PlainInsert(t, k) ==
  /\ Ready(t) /\ node[t][k] = NULL
  /\ \E n \in Memory : Allocate(t, k, n, k)
  /\ UNCHANGED <<key, count, held>>

\* remove(), and one round of clear(), which removes all.
PlainRemove(t, k) ==
  /\ Ready(t) /\ node[t][k] # NULL
  /\ Free(t, k)
  /\ UNCHANGED <<erasing, count, held>>

Next ==
  \/ \E t \in Maps :
       \/ \E h \in Handles, k \in Keys : Find(t, h, k) \/ Insert(t, h, k) \/ Remove(t, h, k)
       \/ \E k \in Keys : InsertStops(t, k)
       \/ ClearDelete(t) \/ ClearRelease(t) \/ Begin(t) \/ Advance(t)
  \/ \E t \in Sets :
       \/ \E h \in Handles, k \in Keys :
            SetFind(t, h, k) \/ SetInsert(t, h, k) \/ SetRemove(t, h, k)
       \/ \E k \in Keys : SetInsertStops(t, k)
       \/ SetClearDelete(t) \/ SetClearRelease(t) \/ SetBegin(t) \/ SetAdvance(t)
  \/ \E h \in Handles : Drop(h)
  \/ End
  \/ \E t \in Plain, k \in Keys : PlainInsert(t, k) \/ PlainRemove(t, k)

Spec == Init /\ [][Next]_vars

-----------------------------------------------------------------------------
(* Properties                                                              *)

Reading == {t \in All : erasing[t] # NULL}
Owned == {p \in Tables \X Keys : node[p[1]][p[2]] # NULL}
Refs(i) ==
  Cardinality({h \in Handles : held[h] = i})
  + Cardinality({p \in Owned : cell[node[p[1]][p[2]]] = i})
  + Cardinality({t \in Reading : cell[erasing[t]] = i})
  + (IF it.value = i THEN 1 ELSE 0)

\* As long as no other table has been given a node between its deletion by a
\* clear() and the read that follows, an item lives exactly as long as a
\* table, a handle or an iterator refers to it, is found under its own key,
\* and no release goes wild (map, set: clear, find, remove, insert).
TableCounts ==
  ~reused =>
    /\ \A i \in Items : count[i] = Refs(i)
    /\ \A p \in Owned : LET n == node[p[1]][p[2]] IN n \notin pool /\ key[cell[n]] = p[2]
    /\ fault # "wild"

\* An iteration that comes to its end has visited every key that was there
\* when it began and has not been removed since, whatever was inserted or
\* removed on the way, but for an element it stood on (map::iterator).
WalkComplete == it # Off /\ it.at = NULL /\ ~gone => must \subseteq seen

\* The parts of the inductive invariant of ContainersProofs.

\* A node is free, or belongs to one key of one table.
NodesRight ==
  /\ node \in [All -> [Keys -> Memory \cup {NULL}]] /\ pool \subseteq Memory
  /\ \A t \in All, k \in Keys : node[t][k] # NULL =>
       /\ node[t][k] \notin pool
       /\ \A u \in All, j \in Keys : node[u][j] = node[t][k] => u = t /\ j = k

\* Until a node is reused before clear() has read it, whatever refers to an
\* item refers to one.
ReferencesRight ==
  ~reused =>
    /\ cell \in [Memory -> Items \cup Keys \cup {NULL}] /\ key \in [Items -> Keys \cup {NULL}]
    /\ held \in [Handles -> Items \cup {NULL}] /\ it.value \in Items \cup {NULL}
    /\ count \in [Items -> Nat] /\ erasing \in [All -> Memory \cup {NULL}]
    /\ \A p \in Owned : cell[node[p[1]][p[2]]] \in Items
    /\ \A t \in Reading : t \in Tables /\ cell[erasing[t]] \in Items

\* An iterator stands on a key of its table, and has visited all that it must
\* up to there.
WalkRight ==
  it # Off /\ ~gone =>
    /\ it.of \in Tables /\ must \subseteq In(it.of)
    /\ IF it.at = NULL THEN must \subseteq seen
       ELSE \E k \in In(it.of) :
              node[it.of][k] = it.at /\ \A j \in must : j <= k => j \in seen

IInv == NodesRight /\ ReferencesRight /\ TableCounts /\ WalkRight

\* insert's comment: without memory for the item it removes the node and
\* reports the error (map.hpp:169).
InsertReports == fault # "null"
================================================================================
