---------------------------- MODULE ContainersProofs ----------------------------
(***************************************************************************)
(* Proofs about the containers, for any number of objects, keys and blocks *)
(* of memory.  The components share no state: a step of one of them leaves *)
(* the others as they are, and every component has an inductive invariant  *)
(* of its own.                                                             *)
(***************************************************************************)
EXTENDS Containers, FiniteSetTheorems, WellFoundedInduction, TLAPS

\* How often f is i on D.
Count(D, f, i) == Cardinality({e \in D : f[e] = i})
One(a, i) == IF a = i THEN 1 ELSE 0
\* f has become g, which differs at d alone.
ChangedAt(D, f, g, d) == d \in D /\ \A e \in D \ {d} : g[e] = f[e]
Agree(D, f, g) == \A d \in D : g[d] = f[d]

LEMMA OneIs == \A a, i : One(a, i) \in Nat /\ (a = i => One(a, i) = 1)
BY DEF One

\* When f changes at one place, what it was there counts once less, and what
\* it becomes counts once more.
LEMMA CountUpdate ==
  ASSUME NEW D, IsFiniteSet(D), NEW f, NEW g, NEW d, ChangedAt(D, f, g, d), NEW i
  PROVE  /\ Count(D, f, i) \in Nat
         /\ Count(D, g, i) =
              Count(D, f, i) - One(f[d], i) + One(g[d], i)
<1> DEFINE A == {e \in D : f[e] = i}
           B == {e \in D : g[e] = i}
           C == {e \in D \ {d} : f[e] = i}
<1>0. d \in D /\ \A e \in D \ {d} : g[e] = f[e]
  BY DEF ChangedAt
<1>1. IsFiniteSet(A) /\ IsFiniteSet(B) /\ IsFiniteSet(C)
  BY FS_Subset
<1>2. d \notin C
  OBVIOUS
<1>3. A = IF f[d] = i THEN C \cup {d} ELSE C
  BY <1>0
<1>4. B = IF g[d] = i THEN C \cup {d} ELSE C
  BY <1>0
<1>5. Cardinality(C \cup {d}) = Cardinality(C) + 1
  BY <1>1, <1>2, FS_AddElement
<1>6. Cardinality(C) \in Nat /\ Cardinality(A) \in Nat
  BY <1>1, FS_CardinalityType
<1> HIDE DEF A, B, C
<1>7. /\ Cardinality(A) \in Nat
      /\ Cardinality(B) =
           Cardinality(A) - One(f[d], i) + One(g[d], i)
  BY <1>3, <1>4, <1>5, <1>6 DEF One
<1>8. QED
  BY <1>7 DEF A, B, Count

\* Functions that agree on D count the same, and what f is somewhere counts.
LEMMA CountFacts ==
  ASSUME NEW D, IsFiniteSet(D), NEW f, NEW i
  PROVE  /\ Count(D, f, i) \in Nat
         /\ \A d \in D : f[d] = i => Count(D, f, i) > 0
         /\ (\A d \in D : f[d] # i) => Count(D, f, i) = 0
<1>1. IsFiniteSet({e \in D : f[e] = i})
  BY FS_Subset
<1>2. Count(D, f, i) \in Nat /\ (Count(D, f, i) = 0 <=> {e \in D : f[e] = i} = {})
  BY <1>1, FS_CardinalityType, FS_EmptySet DEF Count
<1>3. QED
  BY <1>2

LEMMA CountSame ==
  ASSUME NEW D, NEW f, NEW g, \A d \in D : g[d] = f[d], NEW i
  PROVE  Count(D, g, i) = Count(D, f, i)
<1>1. {e \in D : g[e] = i} = {e \in D : f[e] = i}
  OBVIOUS
<1>2. QED
  BY <1>1 DEF Count

LEMMA LeastOf ==
  ASSUME NEW N \in SUBSET Nat, N # {}
  PROVE  \E x \in N : \A y \in N : x <= y
<1>1. PICK x \in N : \A y \in N : <<y, x>> \notin OpToRel(<, Nat)
  BY NatLessThanWellFounded, WFMin
<1>2. ASSUME NEW y \in N PROVE ~(y < x)
  BY <1>1, <1>2 DEF OpToRel
<1>3. QED
  BY <1>2

-----------------------------------------------------------------------------
(* Tables: who has which node                                              *)

LEMMA TablesAre ==
  /\ T!Tables \subseteq T!All /\ T!Tables = Maps \cup Sets /\ Plain \subseteq T!All
  /\ T!Tables \cap Plain = {} /\ NULL \notin T!Tables \cup Items \cup Keys \cup Memory
  /\ Items \cap Keys = {} /\ Keys \subseteq Nat
  /\ IsFiniteSet(T!All) /\ IsFiniteSet(T!Tables \X Keys) /\ IsFiniteSet(Handles)
<1>1. IsFiniteSet(T!Tables)
  BY TablesAssumption, FS_Subset DEF T!Tables
<1>2. QED
  BY <1>1, TablesAssumption, NullAssumption, FS_Product DEF T!Tables, T!All

LEMMA FirstIs ==
  ASSUME NEW N \in SUBSET Keys, N # {}
  PROVE  T!First(N) \in N /\ \A j \in N : T!First(N) <= j
BY TablesAre, LeastOf DEF T!First

\* What a step of the tables may be; set has map's operations.
TableStep ==
  \/ \E t \in T!Tables :
       \/ \E h \in Handles, k \in Keys : T!Find(t, h, k) \/ T!Insert(t, h, k) \/ T!Remove(t, h, k)
       \/ \E k \in Keys : T!InsertStops(t, k)
       \/ T!ClearDelete(t) \/ T!ClearRelease(t) \/ T!Begin(t) \/ T!Advance(t)
  \/ \E h \in Handles : T!Drop(h)
  \/ T!End
  \/ \E t \in Plain, k \in Keys : T!PlainInsert(t, k) \/ T!PlainRemove(t, k)
  \/ UNCHANGED tables

LEMMA TableSteps ==
  ASSUME [Next]_<<unit, lists, vectors, tables, others>>
  PROVE  TableStep
<1>1. T!Next => TableStep
  BY TablesAre DEF T!Next, TableStep, T!SetFind, T!SetInsert, T!SetInsertStops, T!SetRemove,
    T!SetClearDelete, T!SetClearRelease, T!SetBegin, T!SetAdvance
<1>2. QED
  BY <1>1 DEF Next, TableStep, others

\* A step takes one node from the pool, gives one back, or leaves them.
LEMMA NodeCases ==
  ASSUME TableStep
  PROVE  \/ \E t \in T!All, k \in Keys, n \in Memory : \E v :
              node[t][k] = NULL /\ T!Allocate(t, k, n, v)
         \/ \E t \in T!All, k \in Keys : node[t][k] # NULL /\ T!Free(t, k)
         \/ UNCHANGED <<node, pool>> /\ (UNCHANGED T!walk \/ T!End
              \/ \E t \in T!Tables : T!Begin(t) \/ T!Advance(t))
<1> USE TablesAre
<1>1. ASSUME NEW t \in T!Tables, NEW h \in Handles, NEW k \in Keys, T!Insert(t, h, k)
      PROVE  \E n \in Memory : \E v : node[t][k] = NULL /\ T!Allocate(t, k, n, v)
  BY <1>1 DEF T!Insert
<1>2. ASSUME NEW t \in T!Tables, NEW h \in Handles, NEW k \in Keys, T!Remove(t, h, k)
      PROVE  node[t][k] # NULL /\ T!Free(t, k)
  BY <1>2 DEF T!Remove
<1>3. ASSUME NEW t \in T!Tables, T!ClearDelete(t)
      PROVE  \E k \in Keys : node[t][k] # NULL /\ T!Free(t, k)
  BY <1>3, FirstIs DEF T!ClearDelete, T!In
<1>4. ASSUME NEW t \in Plain, NEW k \in Keys, T!PlainInsert(t, k) \/ T!PlainRemove(t, k)
      PROVE  \/ \E n \in Memory : \E v : node[t][k] = NULL /\ T!Allocate(t, k, n, v)
             \/ node[t][k] # NULL /\ T!Free(t, k)
  BY <1>4 DEF T!PlainInsert, T!PlainRemove
<1>5. ASSUME NEW t \in T!Tables, NEW h \in Handles, NEW k \in Keys,
             T!Find(t, h, k) \/ T!InsertStops(t, k) \/ T!ClearRelease(t) \/ T!Drop(h)
      PROVE  UNCHANGED <<node, pool>> /\ UNCHANGED T!walk
  BY <1>5 DEF T!Find, T!InsertStops, T!ClearRelease, T!Drop, T!memory, T!walk
<1>6. ASSUME NEW h \in Handles, T!Drop(h)
      PROVE  UNCHANGED <<node, pool>> /\ UNCHANGED T!walk
  BY <1>6 DEF T!Drop, T!memory, T!walk
<1>7. ASSUME NEW t \in T!Tables, T!Begin(t) \/ T!Advance(t)
      PROVE  UNCHANGED <<node, pool>>
  BY <1>7 DEF T!Begin, T!Advance, T!MoveTo, T!memory
<1>8. ASSUME NEW t \in T!Tables, T!ClearRelease(t)
      PROVE  UNCHANGED <<node, pool>> /\ UNCHANGED T!walk
  BY <1>8 DEF T!ClearRelease, T!walk
<1>9. ASSUME NEW t \in T!Tables, NEW k \in Keys, T!InsertStops(t, k)
      PROVE  UNCHANGED <<node, pool>> /\ UNCHANGED T!walk
  BY <1>9 DEF T!InsertStops, T!memory, T!walk
<1>10. T!End => UNCHANGED <<node, pool>>
  BY DEF T!End, T!memory
<1>11. UNCHANGED tables => UNCHANGED <<node, pool>> /\ UNCHANGED T!walk
  BY DEF tables, T!walk
<1>12. QED
  BY <1>1, <1>2, <1>3, <1>4, <1>5, <1>6, <1>7, <1>8, <1>9, <1>10, <1>11 DEF TableStep

LEMMA NodesStep == T!NodesRight /\ TableStep => T!NodesRight'
<1> SUFFICES ASSUME T!NodesRight, TableStep PROVE T!NodesRight'
  OBVIOUS
<1> USE DEF T!NodesRight
<1>1. ASSUME NEW t \in T!All, NEW k \in Keys, NEW n \in Memory, NEW v,
             node[t][k] = NULL, T!Allocate(t, k, n, v)
      PROVE  T!NodesRight'
  <2>1. /\ n \in pool /\ pool' = pool \ {n} /\ n # NULL
        /\ node' = [node EXCEPT ![t][k] = n]
    BY <1>1, TablesAre DEF T!Allocate
  <2>2. node' \in [T!All -> [Keys -> Memory \cup {NULL}]]
    BY <2>1
  <2>3. \A u \in T!All, j \in Keys :
          node'[u][j] = IF u = t /\ j = k THEN n ELSE node[u][j]
    BY <2>1
  <2>4. QED
    BY <2>1, <2>2, <2>3
<1>2. ASSUME NEW t \in T!All, NEW k \in Keys, node[t][k] # NULL, T!Free(t, k)
      PROVE  T!NodesRight'
  <2>1. /\ pool' = pool \cup {node[t][k]}
        /\ node' = [node EXCEPT ![t][k] = NULL]
    BY <1>2 DEF T!Free
  <2>2. node' \in [T!All -> [Keys -> Memory \cup {NULL}]] /\ pool' \subseteq Memory
    BY <1>2, <2>1
  <2>3. \A u \in T!All, j \in Keys :
          node'[u][j] = IF u = t /\ j = k THEN NULL ELSE node[u][j]
    BY <2>1
  <2>4. QED
    BY <1>2, <2>1, <2>2, <2>3
<1>3. CASE UNCHANGED <<node, pool>>
  BY <1>3
<1>4. QED
  BY <1>1, <1>2, <1>3, NodeCases

-----------------------------------------------------------------------------
(* Tables: iterators                                                       *)

LEMMA WalkStep == T!NodesRight /\ T!WalkRight /\ TableStep => T!WalkRight'
<1> SUFFICES ASSUME T!NodesRight, T!WalkRight, TableStep, it' # T!Off, ~gone'
             PROVE  T!WalkRight'
  BY DEF T!WalkRight
<1> USE TablesAre
<1> DEFINE Right(a, nd, m, s) ==
      /\ a.of \in T!Tables /\ \A j \in m : j \in Keys /\ nd[a.of][j] # NULL
      /\ IF a.at = NULL THEN m \subseteq s
         ELSE \E k \in Keys : /\ nd[a.of][k] # NULL /\ nd[a.of][k] = a.at
                              /\ \A j \in m : j <= k => j \in s
<1>1. T!WalkRight' <=> Right(it', node', must', seen')
  BY DEF T!WalkRight, T!In
<1>2. it # T!Off /\ ~gone => Right(it, node, must, seen)
  BY DEF T!WalkRight, T!In
<1>3. ASSUME NEW t \in T!All, NEW k \in Keys, NEW n \in Memory, NEW v,
             node[t][k] = NULL, T!Allocate(t, k, n, v)
      PROVE  Right(it', node', must', seen')
  <2>1. UNCHANGED T!walk /\ node' = [node EXCEPT ![t][k] = n]
    BY <1>3 DEF T!Allocate
  <2>2. \A u \in T!All, j \in Keys : node[u][j] # NULL => node'[u][j] = node[u][j]
    BY <1>3, <2>1 DEF T!NodesRight
  <2>3. Right(it, node, must, seen)
    BY <1>2, <2>1 DEF T!walk
  <2>4. QED
    BY <2>1, <2>2, <2>3 DEF T!walk
<1>4. ASSUME NEW t \in T!All, NEW k \in Keys, node[t][k] # NULL, T!Free(t, k)
      PROVE  Right(it', node', must', seen')
  <2>1. /\ it' = it /\ seen' = seen /\ ~gone /\ it.at # node[t][k]
        /\ must' = IF it.of = t THEN must \ {k} ELSE must
        /\ node' = [node EXCEPT ![t][k] = NULL]
    BY <1>4 DEF T!Free
  <2>2. \A u \in T!All, j \in Keys : ~(u = t /\ j = k) => node'[u][j] = node[u][j]
    BY <1>4, <2>1 DEF T!NodesRight
  <2>3. Right(it, node, must, seen)
    BY <1>2, <2>1
  <2>4. CASE it.at = NULL
    BY <2>1, <2>2, <2>3, <2>4
  <2>5. CASE it.at # NULL
    <3>1. PICK l \in Keys : /\ node[it.of][l] # NULL /\ node[it.of][l] = it.at
                            /\ \A j \in must : j <= l => j \in seen
      BY <2>3, <2>5
    <3>2. ~(it.of = t /\ l = k)
      BY <2>1, <3>1
    <3>3. node'[it.of][l] = node[it.of][l]
      BY <2>2, <2>3, <3>2
    <3>4. \A j \in must' : j \in must /\ ~(it.of = t /\ j = k)
      BY <2>1
    <3>5. QED
      BY <2>1, <2>2, <2>3, <2>5, <3>1, <3>3, <3>4
  <2>6. QED
    BY <2>4, <2>5
<1>5. ASSUME NEW t \in T!Tables, T!Begin(t) PROVE Right(it', node', must', seen')
  <2>1. /\ UNCHANGED node /\ must' = T!In(t)
        /\ seen' = IF T!In(t) = {} THEN {} ELSE {T!First(T!In(t))}
        /\ it'.of = t
        /\ it'.at = IF T!In(t) = {} THEN NULL ELSE node[t][T!First(T!In(t))]
    BY <1>5 DEF T!Begin, T!MoveTo, T!memory
  <2>2. CASE T!In(t) = {}
    BY <2>1, <2>2
  <2>3. CASE T!In(t) # {}
    <3>1. PICK k \in T!In(t) : k = T!First(T!In(t)) /\ \A j \in T!In(t) : k <= j
      BY <2>3, FirstIs DEF T!In
    <3>2. \A j \in T!In(t) : j <= k => j = k
      <4>1. T!In(t) \subseteq Nat
        BY DEF T!In
      <4>2. QED
        BY <3>1, <4>1
    <3>3. QED
      BY <2>1, <2>3, <3>1, <3>2 DEF T!In
  <2>4. QED
    BY <2>2, <2>3
<1>6. ASSUME NEW t \in T!Tables, T!Advance(t) PROVE Right(it', node', must', seen')
  <2> DEFINE here == {k \in Keys : node[t][k] = it.at}
             rest == {k \in T!In(t) : \A j \in here : k > j}
  <2>1. UNCHANGED <<node, must>> /\ it.of = t /\ it.at # NULL /\ it # T!Off /\ gone' = gone
    BY <1>6 DEF T!Advance, T!MoveTo, T!memory, T!walk, T!Off
  <2>2. PICK l \in Keys : /\ node[t][l] # NULL /\ node[t][l] = it.at
                          /\ \A j \in must : j <= l => j \in seen
    BY <1>2, <2>1
  <2>3. here = {l}
    <3>1. \A k \in Keys : node[t][k] = it.at => k = l
      BY <2>2 DEF T!NodesRight
    <3>2. QED
      BY <2>2, <3>1
  <2>4. /\ seen' = seen \cup (IF rest = {} THEN {} ELSE {T!First(rest)})
        /\ it'.of = t /\ it'.at = IF rest = {} THEN NULL ELSE node[t][T!First(rest)]
    BY <1>6, <2>3 DEF T!Advance, T!MoveTo
  <2>5. rest = {k \in T!In(t) : k > l} /\ must \subseteq T!In(t)
    BY <1>2, <2>1, <2>3 DEF T!In
  <2> HIDE DEF here, rest
  <2>6. \A j \in must : j \in Keys /\ node[t][j] # NULL /\ (j <= l \/ j \in rest)
    <3>1. \A j \in must : j \in T!In(t) /\ j \in Nat
      BY <2>5 DEF T!In
    <3>2. l \in Nat
      OBVIOUS
    <3>3. QED
      BY <2>5, <3>1, <3>2 DEF T!In
  <2>7. CASE rest = {}
    BY <2>1, <2>2, <2>4, <2>6, <2>7
  <2>8. CASE rest # {}
    <3>1. PICK k \in rest : k = T!First(rest) /\ \A j \in rest : k <= j
      BY <2>5, <2>8, FirstIs DEF T!In
    <3>2. k \in Keys /\ node[t][k] # NULL
      BY <2>5, <3>1 DEF T!In
    <3>3. \A j \in must : j <= k => j \in seen'
      <4>1. SUFFICES ASSUME NEW j \in must, j <= k PROVE j \in seen \cup {k}
        BY <2>4, <2>8, <3>1
      <4>2. CASE j <= l
        BY <2>2, <4>2
      <4>3. CASE j \in rest
        <5>1. k <= j /\ k \in Nat /\ j \in Nat
          BY <2>6, <3>1, <3>2, <4>3
        <5>2. QED
          BY <4>1, <5>1
      <4>4. QED
        BY <2>6, <4>2, <4>3
    <3>4. QED
      BY <2>1, <2>4, <2>6, <2>8, <3>1, <3>2, <3>3
  <2>9. QED
    BY <2>7, <2>8
<1>7. ~T!End
  BY DEF T!End
<1>8. ASSUME UNCHANGED <<node, pool>>, UNCHANGED T!walk PROVE Right(it', node', must', seen')
  BY <1>2, <1>8 DEF T!walk
<1>9. QED
  BY <1>1, <1>3, <1>4, <1>5, <1>6, <1>7, <1>8, NodeCases

-----------------------------------------------------------------------------
(* Tables: who refers to which item                                        *)

\* The item of every key, and of every node that a clear() has deleted.
Stored(nd, ce) ==
  [p \in T!Tables \X Keys |-> IF nd[p[1]][p[2]] = NULL THEN NULL ELSE ce[nd[p[1]][p[2]]]]
Deleted(er, ce) == [t \in T!All |-> IF er[t] = NULL THEN NULL ELSE ce[er[t]]]

RefCount(i, he, st, de, v) ==
  Count(Handles, he, i) + Count(T!Tables \X Keys, st, i) + Count(T!All, de, i)
  + One(v, i)

LEMMA CardinalityIs == \A s : T!Cardinality(s) = Cardinality(s)
BY DEF T!Cardinality, Cardinality

LEMMA RefsAre ==
  \A i \in Items :
    /\ T!Refs(i) = RefCount(i, held, Stored(node, cell), Deleted(erasing, cell), it.value)
    /\ T!Refs(i)' = RefCount(i, held', Stored(node', cell'), Deleted(erasing', cell'), it'.value)
<1> SUFFICES ASSUME NEW i \in Items
             PROVE  /\ T!Refs(i) =
                         RefCount(i, held, Stored(node, cell), Deleted(erasing, cell), it.value)
                    /\ T!Refs(i)' =
                         RefCount(i, held', Stored(node', cell'), Deleted(erasing', cell'), it'.value)
  OBVIOUS
<1>1. i # NULL
  BY TablesAre
<1>2. ASSUME NEW nd, NEW ce
      PROVE  {p \in {q \in T!Tables \X Keys : nd[q[1]][q[2]] # NULL} : ce[nd[p[1]][p[2]]] = i}
               = {p \in T!Tables \X Keys : Stored(nd, ce)[p] = i}
  BY <1>1 DEF Stored
<1>3. ASSUME NEW er, NEW ce
      PROVE  {t \in {u \in T!All : er[u] # NULL} : ce[er[t]] = i}
               = {t \in T!All : Deleted(er, ce)[t] = i}
  BY <1>1 DEF Deleted
<1>4. /\ {p \in T!Owned : cell[node[p[1]][p[2]]] = i}
           = {p \in T!Tables \X Keys : Stored(node, cell)[p] = i}
      /\ {p \in T!Owned : cell[node[p[1]][p[2]]] = i}'
           = {p \in T!Tables \X Keys : Stored(node', cell')[p] = i}
  BY <1>2 DEF T!Owned
<1>5. /\ {t \in T!Reading : cell[erasing[t]] = i}
           = {t \in T!All : Deleted(erasing, cell)[t] = i}
      /\ {t \in T!Reading : cell[erasing[t]] = i}'
           = {t \in T!All : Deleted(erasing', cell')[t] = i}
  BY <1>3 DEF T!Reading
<1>6. T!Refs(i) = RefCount(i, held, Stored(node, cell), Deleted(erasing, cell), it.value)
  BY <1>4, <1>5, CardinalityIs DEF T!Refs, RefCount, Count, One
<1>7. T!Refs(i)' = RefCount(i, held', Stored(node', cell'), Deleted(erasing', cell'), it'.value)
  BY <1>4, <1>5, CardinalityIs DEF T!Refs, RefCount, Count, One
<1>8. QED
  BY <1>6, <1>7

LEMMA RefCountIs ==
  ASSUME NEW i, NEW he, NEW st, NEW de, NEW v
  PROVE  /\ RefCount(i, he, st, de, v) \in Nat
         /\ \A h \in Handles : he[h] = i => RefCount(i, he, st, de, v) > 0
         /\ \A p \in T!Tables \X Keys : st[p] = i => RefCount(i, he, st, de, v) > 0
         /\ \A t \in T!All : de[t] = i => RefCount(i, he, st, de, v) > 0
         /\ v = i => RefCount(i, he, st, de, v) > 0
<1>1. /\ Count(Handles, he, i) \in Nat /\ Count(T!Tables \X Keys, st, i) \in Nat
      /\ Count(T!All, de, i) \in Nat
  BY TablesAre, CountFacts
<1>2. /\ \A h \in Handles : he[h] = i => Count(Handles, he, i) > 0
      /\ \A p \in T!Tables \X Keys : st[p] = i => Count(T!Tables \X Keys, st, i) > 0
      /\ \A t \in T!All : de[t] = i => Count(T!All, de, i) > 0
  BY TablesAre, CountFacts
<1> DEFINE a == Count(Handles, he, i)
           b == Count(T!Tables \X Keys, st, i)
           c == Count(T!All, de, i)
           d == One(v, i)
<1>3. a \in Nat /\ b \in Nat /\ c \in Nat /\ d \in Nat /\ (v = i => d = 1)
  BY <1>1, OneIs
<1>4. RefCount(i, he, st, de, v) = a + b + c + d
  BY DEF RefCount
<1>5. /\ \A h \in Handles : he[h] = i => a > 0
      /\ \A p \in T!Tables \X Keys : st[p] = i => b > 0
      /\ \A t \in T!All : de[t] = i => c > 0
  BY <1>2
<1> HIDE DEF a, b, c, d
<1>6. /\ RefCount(i, he, st, de, v) \in Nat
      /\ a > 0 \/ b > 0 \/ c > 0 \/ d > 0 => RefCount(i, he, st, de, v) > 0
  BY <1>3, <1>4
<1>7. QED
  BY <1>3, <1>5, <1>6

\* What refers to an item when nodes have been handed out, and before.
TablesHold(nd, ce, ky, er) ==
  /\ ce \in [Memory -> Items \cup Keys \cup {NULL}] /\ ky \in [Items -> Keys \cup {NULL}]
  /\ er \in [T!All -> Memory \cup {NULL}]
  /\ \A t \in T!Tables, k \in Keys :
       nd[t][k] # NULL => ce[nd[t][k]] \in Items /\ ky[ce[nd[t][k]]] = k
  /\ \A t \in T!All : er[t] # NULL => t \in T!Tables /\ ce[er[t]] \in Items
HoldersRight(he, v) == he \in [Handles -> Items \cup {NULL}] /\ v \in Items \cup {NULL}
Counted(c, he, st, de, v) ==
  c \in [Items -> Int] /\ \A i \in Items : c[i] = RefCount(i, he, st, de, v)

TableRight ==
  /\ TablesHold(node, cell, key, erasing) /\ HoldersRight(held, it.value)
  /\ Counted(count, held, Stored(node, cell), Deleted(erasing, cell), it.value)
  /\ fault # "wild"

LEMMA TableIsRight ==
  ASSUME T!IInv, ~reused
  PROVE  TableRight
<1> USE DEF T!IInv, T!ReferencesRight, T!TableCounts
<1>1. \A i \in Items : count[i] = T!Refs(i)
  OBVIOUS
<1>2. \A t \in T!Tables, k \in Keys : node[t][k] # NULL => <<t, k>> \in T!Owned
  BY DEF T!Owned
<1>3. \A t \in T!Tables, k \in Keys :
        node[t][k] # NULL => cell[node[t][k]] \in Items /\ key[cell[node[t][k]]] = k
  BY <1>2
<1>4. TablesHold(node, cell, key, erasing)
  BY <1>3 DEF TablesHold, T!Reading
<1>5. Counted(count, held, Stored(node, cell), Deleted(erasing, cell), it.value)
  BY <1>1, RefsAre DEF Counted
<1>6. QED
  BY <1>4, <1>5 DEF TableRight, HoldersRight

LEMMA TableStaysRight ==
  ASSUME T!NodesRight', ~reused' => TableRight'
  PROVE  T!ReferencesRight' /\ T!TableCounts'
<1> SUFFICES ASSUME ~reused' PROVE T!ReferencesRight' /\ T!TableCounts'
  BY DEF T!ReferencesRight, T!TableCounts
<1>0. TableRight'
  OBVIOUS
<1>1. \A p \in T!Owned' :
        /\ p[1] \in T!Tables /\ p[2] \in Keys /\ node'[p[1]][p[2]] # NULL
        /\ p[1] \in T!All
  BY TablesAre DEF T!Owned
<1>2. \A p \in T!Owned' :
        /\ cell'[node'[p[1]][p[2]]] \in Items /\ key'[cell'[node'[p[1]][p[2]]]] = p[2]
        /\ node'[p[1]][p[2]] \notin pool'
  BY <1>0, <1>1 DEF TableRight, TablesHold, T!NodesRight
<1>3. \A i \in Items : count'[i] = T!Refs(i)' /\ count'[i] \in Nat
  BY <1>0, RefsAre, RefCountIs DEF TableRight, Counted
<1>4. count' \in [Items -> Nat]
  BY <1>0, <1>3 DEF TableRight, Counted
<1>5. T!ReferencesRight'
  BY <1>0, <1>2, <1>4 DEF T!ReferencesRight, TableRight, TablesHold, HoldersRight, T!Reading
<1>6. T!TableCounts'
  BY <1>0, <1>2, <1>3 DEF T!TableCounts, TableRight
<1>7. QED
  BY <1>5, <1>6

LEMMA RetainIs ==
  ASSUME NEW c \in [Items -> Int], NEW i \in Items \cup {NULL}, NEW j \in Items \cup {NULL}
  PROVE  /\ T!Retain(c, i) \in [Items -> Int] /\ T!Release(c, j) \in [Items -> Int]
         /\ T!Release(T!Retain(c, i), j) \in [Items -> Int]
         /\ \A x \in Items :
              /\ T!Retain(c, i)[x] = c[x] + One(i, x)
              /\ T!Release(c, j)[x] = c[x] - One(j, x)
              /\ T!Release(T!Retain(c, i), j)[x] =
                   c[x] + One(i, x) - One(j, x)
BY TablesAre DEF T!Retain, T!Release, One

\* When a call answers, counts and handles change together.
LEMMA AnswerIs ==
  ASSUME NEW h \in Handles, NEW i \in Items \cup {NULL}, NEW c,
         held \in [Handles -> Items \cup {NULL}], T!Answer(h, i, c),
         NEW st, NEW de, NEW v, Counted(c, held, st, de, v)
  PROVE  /\ held' \in [Handles -> Items \cup {NULL}]
         /\ Counted(count', held', st, de, v)
<1>0. c \in [Items -> Int] /\ \A x \in Items : c[x] = RefCount(x, held, st, de, v)
  BY DEF Counted
<1>1. /\ held' = [held EXCEPT ![h] = i] /\ held' \in [Handles -> Items \cup {NULL}]
      /\ count' = T!Release(T!Retain(c, i), held[h]) /\ held[h] \in Items \cup {NULL}
  BY DEF T!Answer
<1>2. \A x \in Items :
        count'[x] = c[x] + One(i, x) - One(held[h], x)
  BY <1>0, <1>1, RetainIs
<1>3. count' \in [Items -> Int]
  BY <1>0, <1>1, RetainIs
<1>4. \A x \in Items :
        /\ Count(Handles, held', x) =
             Count(Handles, held, x) - One(held[h], x) + One(i, x)
        /\ Count(Handles, held, x) \in Nat
  <2>1. ChangedAt(Handles, held, held', h)
    BY <1>1 DEF ChangedAt
  <2>2. held'[h] = i
    BY <1>1
  <2>3. QED
    BY <2>1, <2>2, CountUpdate, TablesAre
<1>5. \A x \in Items : Count(T!Tables \X Keys, st, x) \in Nat /\ Count(T!All, de, x) \in Nat
  BY CountFacts, TablesAre
<1>6. ASSUME NEW x \in Items PROVE count'[x] = RefCount(x, held', st, de, v)
  <2> DEFINE a == Count(Handles, held, x)
             b == Count(T!Tables \X Keys, st, x)
             d == Count(T!All, de, x)
             e == One(v, x)
             m == One(held[h], x)
             n == One(i, x)
  <2>1. c[x] = a + b + d + e
    BY <1>0 DEF RefCount
  <2>2. count'[x] = c[x] + n - m /\ Count(Handles, held', x) = a - m + n
    BY <1>2, <1>4
  <2>3. a \in Nat /\ b \in Nat /\ d \in Nat /\ e \in Nat /\ m \in Nat /\ n \in Nat
    BY <1>4, <1>5, OneIs
  <2>4. RefCount(x, held', st, de, v) = a - m + n + b + d + e
    BY <2>2 DEF RefCount
  <2> HIDE DEF a, b, d, e, m, n
  <2>5. QED
    BY <2>1, <2>2, <2>3, <2>4
<1>7. QED
  BY <1>1, <1>3, <1>6 DEF Counted

\* One key or one deleted node more or less.
LEMMA StoredUpdate ==
  ASSUME NEW p, NEW st, NEW su, ChangedAt(T!Tables \X Keys, st, su, p),
         NEW he, NEW de, NEW v, NEW x
  PROVE  RefCount(x, he, su, de, v) =
           RefCount(x, he, st, de, v) - One(st[p], x) + One(su[p], x)
<1> DEFINE a == Count(Handles, he, x)
           b == Count(T!Tables \X Keys, st, x)
           c == Count(T!Tables \X Keys, su, x)
           d == Count(T!All, de, x)
           e == One(v, x)
           m == One(st[p], x)
           n == One(su[p], x)
<1>1. c = b - m + n /\ b \in Nat
  <2>1. IsFiniteSet(T!Tables \X Keys)
    BY TablesAre
  <2>2. QED
    BY <2>1, CountUpdate
<1>2. a \in Nat /\ d \in Nat
  BY CountFacts, TablesAre
<1>3. e \in Nat /\ m \in Nat /\ n \in Nat
  BY OneIs
<1>4. RefCount(x, he, su, de, v) = a + c + d + e /\ RefCount(x, he, st, de, v) = a + b + d + e
  BY DEF RefCount
<1> HIDE DEF a, b, c, d, e, m, n
<1>5. RefCount(x, he, su, de, v) = RefCount(x, he, st, de, v) - m + n
  BY <1>1, <1>2, <1>3, <1>4
<1>6. QED
  BY <1>5 DEF m, n

LEMMA DeletedUpdate ==
  ASSUME NEW t, NEW de, NEW du, ChangedAt(T!All, de, du, t),
         NEW he, NEW st, NEW v, NEW x
  PROVE  RefCount(x, he, st, du, v) =
           RefCount(x, he, st, de, v) - One(de[t], x) + One(du[t], x)
<1> DEFINE a == Count(Handles, he, x)
           b == Count(T!All, de, x)
           c == Count(T!All, du, x)
           d == Count(T!Tables \X Keys, st, x)
           e == One(v, x)
           m == One(de[t], x)
           n == One(du[t], x)
<1>1. c = b - m + n /\ b \in Nat
  <2>1. IsFiniteSet(T!All)
    BY TablesAre
  <2>2. QED
    BY <2>1, CountUpdate
<1>2. a \in Nat /\ d \in Nat
  BY CountFacts, TablesAre
<1>3. e \in Nat /\ m \in Nat /\ n \in Nat
  BY OneIs
<1>4. RefCount(x, he, st, du, v) = a + d + c + e /\ RefCount(x, he, st, de, v) = a + d + b + e
  BY DEF RefCount
<1> HIDE DEF a, b, c, d, e, m, n
<1>5. RefCount(x, he, st, du, v) = RefCount(x, he, st, de, v) - m + n
  BY <1>1, <1>2, <1>3, <1>4
<1>6. QED
  BY <1>5 DEF m, n

LEMMA ValueUpdate ==
  ASSUME NEW he, NEW st, NEW de, NEW v, NEW w, NEW x
  PROVE  RefCount(x, he, st, de, w) =
           RefCount(x, he, st, de, v) - One(v, x) + One(w, x)
<1> DEFINE a == Count(Handles, he, x)
           b == Count(T!Tables \X Keys, st, x)
           c == Count(T!All, de, x)
           m == One(v, x)
           n == One(w, x)
<1>1. a \in Nat /\ b \in Nat /\ c \in Nat
  BY CountFacts, TablesAre
<1>2. m \in Nat /\ n \in Nat
  BY OneIs
<1>3. RefCount(x, he, st, de, v) = a + b + c + m /\ RefCount(x, he, st, de, w) = a + b + c + n
  BY DEF RefCount
<1> HIDE DEF a, b, c, m, n
<1>4. RefCount(x, he, st, de, w) = RefCount(x, he, st, de, v) - m + n
  BY <1>1, <1>2, <1>3
<1>5. QED
  BY <1>4 DEF m, n

\* Items that are the same in all places count the same.
LEMMA SameUpdate ==
  ASSUME NEW st, NEW su, Agree(T!Tables \X Keys, st, su),
         NEW de, NEW du, Agree(T!All, de, du), NEW he, NEW v, NEW x
  PROVE  RefCount(x, he, su, du, v) = RefCount(x, he, st, de, v)
<1>1. /\ Count(T!Tables \X Keys, su, x) = Count(T!Tables \X Keys, st, x)
      /\ Count(T!All, du, x) = Count(T!All, de, x)
  BY CountSame DEF Agree
<1>2. QED
  BY <1>1 DEF RefCount

LEMMA ReusedStays == TableStep /\ reused => reused'
<1> SUFFICES ASSUME TableStep, reused PROVE reused'
  OBVIOUS
<1>1. ASSUME NEW t \in T!Tables, NEW h \in Handles, NEW k \in Keys,
             T!Find(t, h, k) \/ T!Insert(t, h, k) \/ T!Remove(t, h, k)
      PROVE  reused'
  BY <1>1 DEF T!Find, T!Insert, T!Remove, T!Allocate, T!Free, T!memory
<1>2. ASSUME NEW t \in T!Tables, NEW k \in Keys, T!InsertStops(t, k) PROVE reused'
  BY <1>2 DEF T!InsertStops, T!memory
<1>3. ASSUME NEW t \in T!Tables, T!ClearDelete(t) \/ T!ClearRelease(t) PROVE reused'
  BY <1>3 DEF T!ClearDelete, T!ClearRelease, T!Free
<1>4. ASSUME NEW t \in T!Tables, T!Begin(t) \/ T!Advance(t) PROVE reused'
  BY <1>4 DEF T!Begin, T!Advance, T!MoveTo, T!memory
<1>5. ASSUME NEW h \in Handles, T!Drop(h) \/ T!End PROVE reused'
  BY <1>5 DEF T!Drop, T!End, T!memory
<1>6. T!End => reused'
  BY DEF T!End, T!memory
<1>7. ASSUME NEW t \in Plain, NEW k \in Keys, T!PlainInsert(t, k) \/ T!PlainRemove(t, k)
      PROVE  reused'
  BY <1>7 DEF T!PlainInsert, T!PlainRemove, T!Allocate, T!Free
<1>8. UNCHANGED tables => reused'
  BY DEF tables
<1>9. QED
  BY <1>1, <1>2, <1>3, <1>4, <1>5, <1>6, <1>7, <1>8 DEF TableStep

\* Calls that leave the tables as they are.
LEMMA FindRight ==
  ASSUME TableRight, NEW h \in Handles, NEW i \in Items \cup {NULL},
         T!Answer(h, i, count), UNCHANGED T!memory, UNCHANGED T!walk, fault' # "wild"
  PROVE  TableRight'
<1>1. /\ UNCHANGED <<node, cell, key, erasing>> /\ it' = it
  BY DEF T!memory, T!walk
<1>2. /\ held' \in [Handles -> Items \cup {NULL}]
      /\ Counted(count', held', Stored(node, cell), Deleted(erasing, cell), it.value)
  BY AnswerIs DEF TableRight, HoldersRight
<1>3. QED
  BY <1>1, <1>2 DEF TableRight, HoldersRight

LEMMA MoveRight ==
  ASSUME TableRight, NEW i \in Items \cup {NULL}, it'.value = i, UNCHANGED T!memory,
         count' = T!Release(T!Retain(count, i), it.value), UNCHANGED held, fault' # "wild"
  PROVE  TableRight'
<1>1. UNCHANGED <<node, cell, key, erasing>>
  BY DEF T!memory
<1> DEFINE st == Stored(node, cell)
           de == Deleted(erasing, cell)
<1>2. /\ count \in [Items -> Int] /\ it.value \in Items \cup {NULL}
      /\ \A x \in Items : count[x] = RefCount(x, held, st, de, it.value)
  BY DEF TableRight, Counted, HoldersRight
<1>3. /\ count' \in [Items -> Int]
      /\ \A x \in Items :
           count'[x] = count[x] + One(i, x) - One(it.value, x)
  BY <1>2, RetainIs
<1>4. \A x \in Items :
        RefCount(x, held, st, de, i) =
          RefCount(x, held, st, de, it.value)
            - One(it.value, x) + One(i, x)
  BY ValueUpdate
<1>5. \A x \in Items : count'[x] = RefCount(x, held, st, de, i)
  <2> SUFFICES ASSUME NEW x \in Items PROVE count'[x] = RefCount(x, held, st, de, i)
    OBVIOUS
  <2>1. count[x] \in Int /\ One(i, x) \in Int /\ One(it.value, x) \in Int
    BY <1>2, OneIs
  <2>2. QED
    BY <1>2, <1>3, <1>4, <2>1
<1>6. Counted(count', held, st, de, i)
  BY <1>3, <1>5 DEF Counted
<1>7. QED
  BY <1>1, <1>6 DEF TableRight, HoldersRight

LEMMA BeginRight ==
  ASSUME TableRight, NEW t \in T!Tables, NEW s \in SUBSET T!In(t), T!MoveTo(t, s),
         fault # "wild"
  PROVE  TableRight'
<1> DEFINE n == IF s = {} THEN NULL ELSE node[t][T!First(s)]
           i == IF n = NULL THEN NULL ELSE cell[n]
<1>1. /\ it'.value = i /\ count' = T!Release(T!Retain(count, i), it.value)
      /\ UNCHANGED T!memory /\ UNCHANGED <<held, fault>>
  BY DEF T!MoveTo
<1>2. s # {} => T!First(s) \in Keys
  BY FirstIs DEF T!In
<1>3. i \in Items \cup {NULL}
  BY <1>2 DEF TableRight, TablesHold
<1> HIDE DEF i
<1>4. QED
  BY <1>1, <1>3, MoveRight

LEMMA EndRight ==
  ASSUME TableRight, T!End
  PROVE  TableRight'
<1>1. /\ it'.value = NULL /\ count' = T!Release(count, it.value)
      /\ UNCHANGED T!memory /\ UNCHANGED <<held, fault>>
  BY DEF T!End, T!Off
<1>2. T!Retain(count, NULL) = count
  BY TablesAre DEF T!Retain
<1>3. QED
  BY <1>1, <1>2, MoveRight DEF TableRight

\* insert() of a new key: a new node, and a new item for it and the handle.
LEMMA InsertRight ==
  ASSUME T!NodesRight, TableRight, ~reused',
         NEW t \in T!Tables, NEW h \in Handles, NEW k \in Keys, T!Insert(t, h, k)
  PROVE  TableRight'
<1> USE TablesAre
<1>1. PICK n \in Memory, i \in Items :
        /\ count[i] = 0 /\ T!Allocate(t, k, n, i)
        /\ key' = [key EXCEPT ![i] = k] /\ T!Answer(h, i, [count EXCEPT ![i] = 1])
  BY DEF T!Insert
<1>2. /\ node[t][k] = NULL /\ n \in pool /\ n # NULL
      /\ node' = [node EXCEPT ![t][k] = n] /\ cell' = [cell EXCEPT ![n] = i]
      /\ UNCHANGED <<erasing, it, fault>> /\ \A o \in T!All : erasing[o] # n
  BY <1>1 DEF T!Insert, T!Allocate, T!walk
<1> DEFINE st == Stored(node, cell)
           su == Stored(node', cell')
           de == Deleted(erasing, cell)
           du == Deleted(erasing', cell')
           c == [count EXCEPT ![i] = 1]
<1>3. /\ \A x \in Items : count[x] = RefCount(x, held, st, de, it.value)
      /\ count \in [Items -> Int] /\ held \in [Handles -> Items \cup {NULL}]
  BY DEF TableRight, Counted, HoldersRight
<1>4. \A u \in T!Tables, j \in Keys :
        /\ node'[u][j] = IF u = t /\ j = k THEN n ELSE node[u][j]
        /\ node[u][j] # NULL => node[u][j] \in Memory /\ node[u][j] # n
  BY <1>2 DEF T!NodesRight
<1>5. \A u \in T!Tables, j \in Keys : node[u][j] # NULL =>
        cell[node[u][j]] \in Items \ {i} /\ cell'[node[u][j]] = cell[node[u][j]]
  <2>1. SUFFICES ASSUME NEW u \in T!Tables, NEW j \in Keys, node[u][j] # NULL
                 PROVE  cell[node[u][j]] # i
    BY <1>2, <1>4 DEF TableRight, TablesHold
  <2>2. st[<<u, j>>] = cell[node[u][j]] /\ <<u, j>> \in T!Tables \X Keys
    BY <2>1 DEF Stored
  <2>3. RefCount(i, held, st, de, it.value) = 0
    BY <1>1, <1>3
  <2> HIDE DEF st, de
  <2>4. st[<<u, j>>] # i
    BY <2>2, <2>3, RefCountIs
  <2>5. QED
    BY <2>2, <2>4
<1>6. ChangedAt(T!Tables \X Keys, st, su, <<t, k>>) /\ st[<<t, k>>] = NULL /\ su[<<t, k>>] = i
  <2>1. <<t, k>> \in T!Tables \X Keys
    OBVIOUS
  <2>2. cell'[n] = i
    BY <1>2 DEF TableRight, TablesHold
  <2>3. ASSUME NEW p \in T!Tables \X Keys, p # <<t, k>> PROVE su[p] = st[p]
    <3>1. p[1] \in T!Tables /\ p[2] \in Keys /\ ~(p[1] = t /\ p[2] = k)
      BY <2>3
    <3>2. node'[p[1]][p[2]] = node[p[1]][p[2]]
      BY <1>4, <3>1
    <3>3. QED
      BY <1>5, <3>1, <3>2 DEF Stored
  <2>4. st[<<t, k>>] = NULL /\ su[<<t, k>>] = i
    BY <1>2, <1>4, <2>1, <2>2 DEF Stored
  <2>5. QED
    BY <2>1, <2>3, <2>4 DEF ChangedAt
<1>7. \A u \in T!All : erasing[u] # NULL => cell'[erasing[u]] = cell[erasing[u]]
  BY <1>2 DEF TableRight, TablesHold
<1>8. Agree(T!All, de, du)
  BY <1>2, <1>7 DEF Deleted, Agree
<1>9. ASSUME NEW x \in Items PROVE c[x] = RefCount(x, held, su, du, it.value)
  <2>1. /\ RefCount(x, held, su, du, it.value) = RefCount(x, held, su, de, it.value)
        /\ RefCount(x, held, su, de, it.value) =
             RefCount(x, held, st, de, it.value) - One(NULL, x) + One(i, x)
    <3> HIDE DEF st, su, de, du
    <3>1. Agree(T!Tables \X Keys, su, su)
      BY DEF Agree
    <3>2. RefCount(x, held, su, du, it.value) = RefCount(x, held, su, de, it.value)
      BY ONLY <1>8, <3>1, SameUpdate
    <3>3. QED
      BY <1>6, <3>2, StoredUpdate
  <2> HIDE DEF st, su, de, du
  <2>2. One(NULL, x) = 0 /\ One(i, x) = (IF x = i THEN 1 ELSE 0)
    BY DEF One
  <2>3. c[x] = count[x] + (IF x = i THEN 1 ELSE 0) /\ count[x] \in Int
    BY <1>1, <1>3
  <2>4. QED
    BY <1>3, <2>1, <2>2, <2>3
<1>10. held' \in [Handles -> Items \cup {NULL}] /\ Counted(count', held', su, du, it.value)
  <2>1. c \in [Items -> Int] /\ T!Answer(h, i, c)
    BY <1>1, <1>3
  <2> HIDE DEF st, su, de, du, c
  <2>2. Counted(c, held, su, du, it.value)
    BY <1>9, <2>1 DEF Counted
  <2>3. QED
    BY <1>3, <2>1, <2>2, AnswerIs
<1>11. TablesHold(node', cell', key', erasing')
  <2>1. /\ cell' \in [Memory -> Items \cup Keys \cup {NULL}] /\ cell'[n] = i
        /\ key' \in [Items -> Keys \cup {NULL}] /\ key'[i] = k
        /\ \A x \in Items \ {i} : key'[x] = key[x]
    BY <1>1, <1>2 DEF TableRight, TablesHold
  <2>2. \A u \in T!Tables, j \in Keys :
          node[u][j] # NULL => cell[node[u][j]] \in Items /\ key[cell[node[u][j]]] = j
    BY DEF TableRight, TablesHold
  <2>3. ASSUME NEW u \in T!Tables, NEW j \in Keys, node'[u][j] # NULL
        PROVE  cell'[node'[u][j]] \in Items /\ key'[cell'[node'[u][j]]] = j
    <3>1. CASE u = t /\ j = k
      BY <1>4, <2>1, <3>1
    <3>2. CASE ~(u = t /\ j = k)
      <4>1. node'[u][j] = node[u][j]
        BY <1>4, <3>2
      <4>2. QED
        BY <1>5, <2>1, <2>2, <2>3, <4>1
    <3>3. QED
      BY <3>1, <3>2
  <2>4. \A u \in T!All : erasing'[u] # NULL => u \in T!Tables /\ cell'[erasing'[u]] \in Items
    BY <1>2, <1>7 DEF TableRight, TablesHold
  <2>5. erasing' \in [T!All -> Memory \cup {NULL}]
    BY <1>2 DEF TableRight, TablesHold
  <2>6. QED
    BY <2>1, <2>3, <2>4, <2>5 DEF TablesHold
<1>12. QED
  BY <1>2, <1>10, <1>11 DEF TableRight, HoldersRight

\* A key is taken out of a table: its item is no longer stored there.
LEMMA FreeIs ==
  ASSUME T!NodesRight, TableRight,
         NEW t \in T!Tables, NEW k \in Keys, node[t][k] # NULL, T!Free(t, k)
  PROVE  /\ cell[node[t][k]] \in Items /\ node[t][k] \in Memory
         /\ ChangedAt(T!Tables \X Keys, Stored(node, cell), Stored(node', cell'), <<t, k>>)
         /\ Stored(node, cell)[<<t, k>>] = cell[node[t][k]]
         /\ Stored(node', cell')[<<t, k>>] = NULL
         /\ \A u \in T!Tables, j \in Keys : node'[u][j] # NULL => node'[u][j] = node[u][j]
<1> USE TablesAre
<1>1. node' = [node EXCEPT ![t][k] = NULL] /\ cell' = cell
  BY DEF T!Free
<1>2. \A u \in T!Tables, j \in Keys :
        node'[u][j] = IF u = t /\ j = k THEN NULL ELSE node[u][j]
  BY <1>1 DEF T!NodesRight
<1>3. cell[node[t][k]] \in Items /\ node[t][k] \in Memory
  BY DEF T!NodesRight, TableRight, TablesHold
<1>4. <<t, k>> \in T!Tables \X Keys
  OBVIOUS
<1>5. /\ Stored(node, cell)[<<t, k>>] = cell[node[t][k]]
      /\ Stored(node', cell')[<<t, k>>] = NULL
  BY <1>2, <1>4 DEF Stored
<1>6. ASSUME NEW p \in T!Tables \X Keys, p # <<t, k>>
      PROVE  Stored(node', cell')[p] = Stored(node, cell)[p]
  <2>1. p[1] \in T!Tables /\ p[2] \in Keys /\ ~(p[1] = t /\ p[2] = k)
    BY <1>6
  <2>2. node'[p[1]][p[2]] = node[p[1]][p[2]]
    BY <1>2, <2>1
  <2>3. QED
    BY <1>1, <2>2 DEF Stored
<1>7. QED
  BY <1>2, <1>3, <1>4, <1>5, <1>6 DEF ChangedAt

LEMMA RemoveRight ==
  ASSUME T!NodesRight, TableRight,
         NEW t \in T!Tables, NEW h \in Handles, NEW k \in Keys, T!Remove(t, h, k)
  PROVE  TableRight'
<1> USE TablesAre
<1> DEFINE i == cell[node[t][k]]
           st == Stored(node, cell)
           su == Stored(node', cell')
           de == Deleted(erasing, cell)
           c == T!Release(count, i)
<1>1. /\ node[t][k] # NULL /\ T!Free(t, k) /\ erasing' = erasing /\ T!Answer(h, i, c)
      /\ cell' = cell /\ key' = key /\ it' = it /\ fault' = fault
  BY DEF T!Remove, T!Free
<1>2. /\ i \in Items /\ ChangedAt(T!Tables \X Keys, st, su, <<t, k>>)
      /\ st[<<t, k>>] = i /\ su[<<t, k>>] = NULL
      /\ \A u \in T!Tables, j \in Keys : node'[u][j] # NULL => node'[u][j] = node[u][j]
  BY <1>1, FreeIs
<1>3. /\ \A x \in Items : count[x] = RefCount(x, held, st, de, it.value)
      /\ count \in [Items -> Int] /\ held \in [Handles -> Items \cup {NULL}]
  BY DEF TableRight, Counted, HoldersRight
<1>4. TablesHold(node', cell', key', erasing')
  BY <1>1, <1>2 DEF TableRight, TablesHold
<1> HIDE DEF i, st, su, de, c
<1>5. c \in [Items -> Int] /\ \A x \in Items : c[x] = count[x] - One(i, x)
  BY <1>2, <1>3, RetainIs DEF c
<1>6. ASSUME NEW x \in Items PROVE c[x] = RefCount(x, held, su, de, it.value)
  <2>0. ChangedAt(T!Tables \X Keys, st, su, <<t, k>>) /\ st[<<t, k>>] = i /\ su[<<t, k>>] = NULL
    BY <1>2
  <2>1. RefCount(x, held, su, de, it.value) =
          RefCount(x, held, st, de, it.value) - One(i, x) + One(NULL, x)
    BY ONLY <2>0, StoredUpdate
  <2>2. One(NULL, x) = 0 /\ One(i, x) \in Int /\ count[x] \in Int
    BY <1>3, OneIs DEF One
  <2>3. QED
    BY <1>3, <1>5, <2>1, <2>2
<1>7. held' \in [Handles -> Items \cup {NULL}] /\ Counted(count', held', su, de, it.value)
  <2>1. Counted(c, held, su, de, it.value)
    BY <1>5, <1>6 DEF Counted
  <2>2. QED
    BY <1>1, <1>2, <1>3, <2>1, AnswerIs
<1>8. QED
  BY <1>1, <1>4, <1>7 DEF TableRight, HoldersRight, su, de

LEMMA ClearDeleteRight ==
  ASSUME T!NodesRight, TableRight, NEW t \in T!Tables, T!ClearDelete(t)
  PROVE  TableRight'
<1> USE TablesAre
<1> DEFINE k == T!First(T!In(t))
           n == node[t][k]
           st == Stored(node, cell)
           su == Stored(node', cell')
           de == Deleted(erasing, cell)
           du == Deleted(erasing', cell')
<1>1. /\ k \in Keys /\ n # NULL /\ T!Free(t, k)
      /\ erasing[t] = NULL /\ erasing' = [erasing EXCEPT ![t] = n]
      /\ cell' = cell /\ key' = key /\ it' = it /\ fault' = fault /\ count' = count /\ held' = held
  BY FirstIs DEF T!ClearDelete, T!Free, T!In, T!Ready
<1> HIDE DEF k
<1>2. /\ cell[n] \in Items /\ n \in Memory /\ ChangedAt(T!Tables \X Keys, st, su, <<t, k>>)
      /\ st[<<t, k>>] = cell[n] /\ su[<<t, k>>] = NULL
      /\ \A u \in T!Tables, j \in Keys : node'[u][j] # NULL => node'[u][j] = node[u][j]
  <2>1. k \in Keys /\ node[t][k] # NULL /\ T!Free(t, k)
    BY <1>1
  <2>2. QED
    BY <2>1, FreeIs, ZenonT(60)
<1>3. /\ \A x \in Items : count[x] = RefCount(x, held, st, de, it.value)
      /\ count \in [Items -> Int] /\ held \in [Handles -> Items \cup {NULL}]
  BY DEF TableRight, Counted, HoldersRight
<1>4. /\ erasing' \in [T!All -> Memory \cup {NULL}] /\ erasing'[t] = n
      /\ \A u \in T!All \ {t} : erasing'[u] = erasing[u]
  BY <1>1, <1>2 DEF TableRight, TablesHold
<1>5. TablesHold(node', cell', key', erasing')
  BY <1>1, <1>2, <1>4 DEF TableRight, TablesHold
<1>6. ChangedAt(T!All, de, du, t) /\ de[t] = NULL /\ du[t] = cell[n]
  BY <1>1, <1>4 DEF ChangedAt, Deleted
<1> HIDE DEF n, st, su, de, du
<1>7. ASSUME NEW x \in Items PROVE count'[x] = RefCount(x, held', su, du, it'.value)
  <2>1. RefCount(x, held, su, du, it.value) =
          RefCount(x, held, su, de, it.value) - One(NULL, x) + One(cell[n], x)
    BY <1>6, DeletedUpdate
  <2>2. RefCount(x, held, su, de, it.value) =
          RefCount(x, held, st, de, it.value) - One(cell[n], x) + One(NULL, x)
    <3>1. /\ ChangedAt(T!Tables \X Keys, st, su, <<t, k>>)
          /\ st[<<t, k>>] = cell[n] /\ su[<<t, k>>] = NULL
      BY <1>2
    <3>2. QED
      BY ONLY <3>1, StoredUpdate
  <2>3. One(NULL, x) \in Int /\ One(cell[n], x) \in Int /\ count[x] \in Int
    BY <1>3, OneIs
  <2>4. QED
    BY <1>1, <1>3, <2>1, <2>2, <2>3
<1>8. QED
  BY <1>1, <1>3, <1>5, <1>7 DEF TableRight, HoldersRight, Counted, su, du

LEMMA ClearReleaseRight ==
  ASSUME TableRight, NEW t \in T!Tables, T!ClearRelease(t)
  PROVE  TableRight'
<1> USE TablesAre
<1> DEFINE i == cell[erasing[t]]
           st == Stored(node, cell)
           de == Deleted(erasing, cell)
           du == Deleted(erasing', cell')
<1>1. /\ erasing[t] # NULL /\ erasing' = [erasing EXCEPT ![t] = NULL]
      /\ UNCHANGED <<node, cell, key, held, it>>
  BY DEF T!ClearRelease, T!walk
<1>2. i \in Items /\ erasing \in [T!All -> Memory \cup {NULL}]
  BY <1>1 DEF TableRight, TablesHold
<1>3. /\ \A x \in Items : count[x] = RefCount(x, held, st, de, it.value)
      /\ count \in [Items -> Int]
  BY DEF TableRight, Counted
<1>4. ChangedAt(T!All, de, du, t) /\ de[t] = i /\ du[t] = NULL
  BY <1>1, <1>2 DEF ChangedAt, Deleted
<1>5. count[i] > 0
  <2> HIDE DEF i, st, de, du
  <2>1. QED
    BY <1>2, <1>3, <1>4, RefCountIs
<1>6. count' = T!Release(count, i) /\ fault' = fault
  BY <1>2, <1>5 DEF T!ClearRelease
<1>7. TablesHold(node', cell', key', erasing')
  BY <1>1, <1>2 DEF TableRight, TablesHold
<1> HIDE DEF i, st, de, du
<1>8. count' \in [Items -> Int] /\ \A x \in Items : count'[x] = count[x] - One(i, x)
  BY <1>2, <1>3, <1>6, RetainIs
<1>9. ASSUME NEW x \in Items PROVE count'[x] = RefCount(x, held', st, du, it'.value)
  <2>1. RefCount(x, held, st, du, it.value) =
          RefCount(x, held, st, de, it.value) - One(i, x) + One(NULL, x)
    BY <1>4, DeletedUpdate
  <2>2. One(NULL, x) = 0 /\ One(i, x) \in Int /\ count[x] \in Int
    BY <1>3, OneIs DEF One
  <2>3. QED
    BY <1>1, <1>3, <1>8, <2>1, <2>2
<1>10. QED
  BY <1>1, <1>6, <1>7, <1>8, <1>9 DEF TableRight, HoldersRight, Counted, st, du

\* The tables of numbers take and give back nodes, and refer to no item.
LEMMA PlainRight ==
  ASSUME T!NodesRight, TableRight, ~reused', NEW t \in Plain, NEW k \in Keys,
         T!PlainInsert(t, k) \/ T!PlainRemove(t, k)
  PROVE  TableRight'
<1> USE TablesAre
<1>1. /\ UNCHANGED <<key, count, held, it, erasing, fault>>
      /\ \A u \in T!Tables, j \in Keys : node'[u][j] = node[u][j]
      /\ \/ cell' = cell
         \/ \E n \in Memory : /\ cell' = [cell EXCEPT ![n] = k] /\ n \in pool
                              /\ \A o \in T!All : erasing[o] # n
  <2>1. CASE T!PlainInsert(t, k)
    <3>1. PICK n \in Memory : T!Allocate(t, k, n, k)
      BY <2>1 DEF T!PlainInsert
    <3>2. /\ node' = [node EXCEPT ![t][k] = n] /\ cell' = [cell EXCEPT ![n] = k] /\ n \in pool
          /\ UNCHANGED <<erasing, it, fault>> /\ \A o \in T!All : erasing[o] # n
      BY <3>1 DEF T!Allocate, T!walk
    <3>3. \A u \in T!Tables, j \in Keys : node'[u][j] = node[u][j]
      BY <3>2 DEF T!NodesRight
    <3>4. QED
      BY <2>1, <3>2, <3>3 DEF T!PlainInsert
  <2>2. CASE T!PlainRemove(t, k)
    <3>1. /\ node' = [node EXCEPT ![t][k] = NULL] /\ cell' = cell
          /\ UNCHANGED <<key, count, held, it, erasing, fault>>
      BY <2>2 DEF T!PlainRemove, T!Free
    <3>2. \A u \in T!Tables, j \in Keys : node'[u][j] = node[u][j]
      BY <3>1 DEF T!NodesRight
    <3>3. QED
      BY <3>1, <3>2
  <2>3. QED
    BY <2>1, <2>2
<1>2. \A u \in T!Tables, j \in Keys : node[u][j] # NULL => cell'[node[u][j]] = cell[node[u][j]]
  BY <1>1 DEF T!NodesRight, TableRight, TablesHold
<1>3. \A u \in T!All : erasing[u] # NULL => cell'[erasing[u]] = cell[erasing[u]]
  BY <1>1 DEF TableRight, TablesHold
<1>4. cell' \in [Memory -> Items \cup Keys \cup {NULL}]
  BY <1>1 DEF TableRight, TablesHold
<1>5. TablesHold(node', cell', key', erasing')
  BY <1>1, <1>2, <1>3, <1>4 DEF TableRight, TablesHold
<1>6. Agree(T!Tables \X Keys, Stored(node, cell), Stored(node', cell'))
  <2> SUFFICES ASSUME NEW q \in T!Tables \X Keys
               PROVE  Stored(node', cell')[q] = Stored(node, cell)[q]
    BY DEF Agree
  <2>1. q[1] \in T!Tables /\ q[2] \in Keys
    OBVIOUS
  <2>2. QED
    BY <1>1, <1>2, <2>1 DEF Stored
<1>7. Agree(T!All, Deleted(erasing, cell), Deleted(erasing', cell'))
  BY <1>1, <1>3 DEF Deleted, Agree
<1>8. \A x \in Items :
        RefCount(x, held, Stored(node', cell'), Deleted(erasing', cell'), it.value) =
          RefCount(x, held, Stored(node, cell), Deleted(erasing, cell), it.value)
  BY <1>6, <1>7, SameUpdate
<1>9. QED
  BY <1>1, <1>5, <1>8 DEF TableRight, HoldersRight, Counted

LEMMA ReferencesStep ==
  ASSUME T!IInv, T!NodesRight', TableStep
  PROVE  T!ReferencesRight' /\ T!TableCounts'
<1> SUFFICES ASSUME ~reused' PROVE TableRight'
  BY TableStaysRight
<1>1. TableRight /\ T!NodesRight
  BY ReusedStays, TableIsRight DEF T!IInv
<1> USE <1>1
<1>2. ASSUME NEW t \in T!Tables, NEW h \in Handles, NEW k \in Keys, T!Find(t, h, k)
      PROVE  TableRight'
  <2> DEFINE i == IF node[t][k] = NULL THEN NULL ELSE cell[node[t][k]]
  <2>1. i \in Items \cup {NULL}
    BY DEF TableRight, TablesHold
  <2>2. /\ T!Answer(h, i, count) /\ UNCHANGED T!memory /\ UNCHANGED T!walk
        /\ fault' # "wild"
    BY <1>2 DEF T!Find, T!Ready, TableRight
  <2>3. QED
    BY <2>1, <2>2, FindRight
<1>3. ASSUME NEW t \in T!Tables, NEW k \in Keys, T!InsertStops(t, k) PROVE TableRight'
  <2>1. /\ UNCHANGED T!memory /\ UNCHANGED T!walk /\ UNCHANGED <<count, held>>
        /\ fault' # "wild"
    BY <1>3 DEF T!InsertStops
  <2>2. QED
    BY <2>1 DEF TableRight, T!memory, T!walk, HoldersRight, Counted
<1>4. ASSUME NEW t \in T!Tables, T!Begin(t) PROVE TableRight'
  BY <1>4, BeginRight DEF T!Begin, T!Ready
<1>5. ASSUME NEW t \in T!Tables, T!Advance(t) PROVE TableRight'
  <2> DEFINE here == {k \in Keys : node[t][k] = it.at}
             rest == {k \in T!In(t) : \A j \in here : k > j}
  <2>1. CASE here = {}
    <3>1. /\ UNCHANGED T!memory /\ UNCHANGED T!walk /\ UNCHANGED <<count, held>>
          /\ fault' # "wild"
      BY <1>5, <2>1 DEF T!Advance
    <3>2. QED
      BY <3>1 DEF TableRight, T!memory, T!walk, HoldersRight, Counted
  <2>2. CASE here # {}
    <3>1. T!MoveTo(t, rest) /\ rest \in SUBSET T!In(t)
      BY <1>5, <2>2 DEF T!Advance
    <3>2. QED
      BY <3>1, BeginRight DEF TableRight
  <2>3. QED
    BY <2>1, <2>2
<1>6. ASSUME NEW h \in Handles, T!Drop(h) PROVE TableRight'
  BY <1>6, FindRight DEF T!Drop, TableRight
<1>7. ASSUME UNCHANGED tables PROVE TableRight'
  BY <1>7 DEF tables, TableRight, HoldersRight, Counted
<1>8. QED
  BY <1>2, <1>3, <1>4, <1>5, <1>6, <1>7, InsertRight, RemoveRight, ClearDeleteRight,
    ClearReleaseRight, EndRight, PlainRight DEF TableStep

LEMMA TableInit == T!Init => T!IInv
<1> SUFFICES ASSUME T!Init PROVE T!IInv
  OBVIOUS
<1>1. T!Owned = {} /\ T!Reading = {}
  BY TablesAre DEF T!Init, T!Owned, T!Reading
<1>2. \A i \in Items : T!Refs(i) = 0
  <2> SUFFICES ASSUME NEW i \in Items PROVE T!Refs(i) = 0
    OBVIOUS
  <2>1. {h \in Handles : held[h] = i} = {} /\ it.value # i
    BY TablesAre DEF T!Init, T!Off
  <2>2. QED
    BY <1>1, <2>1, FS_EmptySet, CardinalityIs DEF T!Refs
<1>3. T!NodesRight
  BY TablesAre DEF T!Init, T!NodesRight
<1>4. T!ReferencesRight
  BY <1>1, TablesAre DEF T!Init, T!ReferencesRight, T!Off
<1>5. T!TableCounts
  BY <1>1, <1>2 DEF T!Init, T!TableCounts
<1>6. T!WalkRight
  BY DEF T!Init, T!WalkRight
<1>7. QED
  BY <1>3, <1>4, <1>5, <1>6 DEF T!IInv

LEMMA TablesInv == Spec => []T!IInv
<1>1. Init => T!IInv
  BY TableInit DEF Init
<1>2. T!IInv /\ [Next]_<<unit, lists, vectors, tables, others>> => T!IInv'
  BY TableSteps, NodesStep, WalkStep, ReferencesStep DEF T!IInv
<1>3. QED
  BY <1>1, <1>2, PTL DEF Spec

\* Whatever maps, sets and tables of numbers do with the nodes of the one pool,
\* items of maps and sets live exactly as long as something refers to them,
\* unless clear() read a node that another table had been given (map, set).
THEOREM TableItemsCounted == Spec => []TableCounts
<1>1. T!IInv => TableCounts
  BY DEF T!IInv, TableCounts
<1>2. QED
  BY <1>1, TablesInv, PTL

\* An iteration of a map or a set that comes to its end has visited every key
\* that was there when it began and has not been removed since, in whatever
\* order keys were inserted and removed, but for the one it stood on
\* (map::iterator, set::iterator).
THEOREM MapIterationsComplete == Spec => [](unit = "table" => T!WalkComplete)
<1>1. T!IInv => (unit = "table" => T!WalkComplete)
  BY DEF T!IInv, T!WalkRight, T!WalkComplete
<1>2. QED
  BY <1>1, TablesInv, PTL


-----------------------------------------------------------------------------
(* Functors: the count of a holder is the number of its functors           *)

HolderOrNone == Memory \cup {NULL, "none"}
FunctorHolds(pa, c, mo) ==
  /\ pa \in [Functors -> HolderOrNone] /\ c \in [Memory -> Int] /\ mo \in [Memory -> Nat]
  /\ \A h \in Memory : c[h] = Count(Functors, pa, h) + (IF c[h] = 0 THEN 0 ELSE mo[h])
\* f has come to refer to x.
Refers(pa, pb, f, x) ==
  pa \in [Functors -> HolderOrNone] /\ f \in Functors /\ pb = [pa EXCEPT ![f] = x]
\* Functors and counts have changed alike, and no free holder is in use again.
FunctorChange(pa, pb, c, d) ==
  \A h \in Memory :
    /\ d[h] - c[h] = Count(Functors, pb, h) - Count(Functors, pa, h)
    /\ c[h] = 0 => d[h] = 0

LEMMA FunctorsAre ==
  IsFiniteSet(Functors) /\ NULL \notin Memory /\ "none" \notin Memory \cup {NULL}
BY FunctorsAssumption, NullAssumption

LEMMA FunctorHoldsIs ==
  /\ F!IInv => FunctorHolds(param, pn, moves) /\ ~dead
  /\ FunctorHolds(param', pn', moves') /\ ~dead' => F!IInv'
<1>1. \A s : F!Cardinality(s) = Cardinality(s)
  BY DEF F!Cardinality, Cardinality
<1>2. F!IInv => FunctorHolds(param, pn, moves) /\ ~dead
  BY <1>1 DEF F!IInv, F!FunctorRight, FunctorHolds, HolderOrNone, Count
<1>3. ASSUME FunctorHolds(param', pn', moves'), ~dead' PROVE F!IInv'
  <2>1. \A h \in Memory : Count(Functors, param', h) \in Nat
    BY FunctorsAre, CountFacts
  <2>2. \A h \in Memory :
          /\ pn'[h] = Count(Functors, param', h) + (IF pn'[h] = 0 THEN 0 ELSE moves'[h])
          /\ pn'[h] \in Int /\ moves'[h] \in Nat
    BY <1>3 DEF FunctorHolds
  <2>3. pn' \in [Memory -> Nat]
    <3>1. \A h \in Memory : pn'[h] \in Nat
      BY <2>1, <2>2
    <3>2. QED
      BY <1>3, <3>1 DEF FunctorHolds
  <2>4. F!FunctorRight'
    BY <1>1, <1>3, <2>2 DEF F!FunctorRight, Count
  <2>5. QED
    BY <1>3, <2>3, <2>4 DEF F!IInv, FunctorHolds, HolderOrNone
<1>4. QED
  BY <1>2, <1>3

LEMMA FunctorCounts ==
  ASSUME NEW pa, NEW pb, NEW f, NEW x, Refers(pa, pb, f, x), NEW h
  PROVE  Count(Functors, pb, h) = Count(Functors, pa, h) - One(pa[f], h) + One(x, h)
<1>1. ChangedAt(Functors, pa, pb, f) /\ pb[f] = x
  BY DEF ChangedAt, Refers
<1>2. IsFiniteSet(Functors)
  BY FunctorsAre
<1>3. QED
  BY <1>1, <1>2, CountUpdate

LEMMA FunctorReferences ==
  ASSUME NEW c \in [Memory -> Int], NEW x \in Memory \cup {NULL}, NEW y \in Memory \cup {NULL}
  PROVE  /\ F!Retain(c, x) \in [Memory -> Int] /\ F!Release(c, y) \in [Memory -> Int]
         /\ F!Release(F!Retain(c, x), y) \in [Memory -> Int]
         /\ \A h \in Memory :
              /\ F!Retain(c, x)[h] = c[h] + One(x, h) /\ F!Release(c, y)[h] = c[h] - One(y, h)
              /\ F!Release(F!Retain(c, x), y)[h] = c[h] + One(x, h) - One(y, h)
BY FunctorsAre DEF F!Retain, F!Release, One

LEMMA FunctorStaysRight ==
  ASSUME NEW pa, NEW c, NEW mo, FunctorHolds(pa, c, mo),
         NEW pb \in [Functors -> HolderOrNone], NEW d \in [Memory -> Int], FunctorChange(pa, pb, c, d)
  PROVE  FunctorHolds(pb, d, mo)
<1>1. ASSUME NEW h \in Memory
      PROVE  d[h] = Count(Functors, pb, h) + (IF d[h] = 0 THEN 0 ELSE mo[h])
  <2>1. Count(Functors, pa, h) \in Nat /\ Count(Functors, pb, h) \in Nat
    BY FunctorsAre, CountFacts
  <2>2. /\ c[h] = Count(Functors, pa, h) + (IF c[h] = 0 THEN 0 ELSE mo[h])
        /\ c[h] \in Int /\ mo[h] \in Nat /\ d[h] \in Int
    BY DEF FunctorHolds
  <2>3. d[h] - c[h] = Count(Functors, pb, h) - Count(Functors, pa, h) /\ (c[h] = 0 => d[h] = 0)
    BY DEF FunctorChange
  <2>4. QED
    BY <2>1, <2>2, <2>3
<1>2. QED
  BY <1>1 DEF FunctorHolds

\* A holder that a functor has is not free.
LEMMA FunctorInUse ==
  ASSUME FunctorHolds(param, pn, moves), NEW f \in Functors, param[f] \in Memory
  PROVE  pn[param[f]] > 0
<1> DEFINE h == param[f]
<1>1. Count(Functors, param, h) \in Nat /\ Count(Functors, param, h) > 0
  BY FunctorsAre, CountFacts
<1>2. /\ pn[h] = Count(Functors, param, h) + (IF pn[h] = 0 THEN 0 ELSE moves[h])
      /\ pn[h] \in Int /\ moves[h] \in Nat
  BY DEF FunctorHolds
<1> HIDE DEF h
<1>3. pn[h] > 0
  BY <1>1, <1>2
<1>4. QED
  BY <1>3 DEF h

LEMMA FunctorNext == F!IInv /\ F!Next => F!IInv'
<1> SUFFICES ASSUME FunctorHolds(param, pn, moves), ~dead, F!Next
             PROVE  FunctorHolds(param', pn', moves') /\ ~dead'
  BY FunctorHoldsIs
<1>1. /\ param \in [Functors -> HolderOrNone] /\ pn \in [Memory -> Int] /\ moves \in [Memory -> Nat]
      /\ \A h \in Memory : /\ pn[h] \in Int /\ moves[h] \in Nat
                           /\ pn[h] = Count(Functors, param, h) + (IF pn[h] = 0 THEN 0 ELSE moves[h])
  BY DEF FunctorHolds
<1>2. \A f \in Functors : F!There(f) => param[f] \in Memory \cup {NULL}
  BY <1>1 DEF F!There, HolderOrNone
<1>3. \A f \in Functors : param[f] \in Memory => pn[param[f]] > 0
  BY FunctorInUse
<1>4. \A h \in Memory : Count(Functors, param, h) \in Nat /\ (pn[h] = 0 => Count(Functors, param, h) = 0)
  BY <1>1, FunctorsAre, CountFacts
<1>5. ASSUME NEW f \in Functors, NEW h \in Memory \cup {NULL}, F!New(f, h)
      PROVE  FunctorHolds(param', pn', moves') /\ ~dead'
  <2>1. /\ param[f] = "none" /\ param' = [param EXCEPT ![f] = h] /\ pn' = F!Retain(pn, h)
        /\ moves' = (IF h = NULL THEN moves ELSE [moves EXCEPT ![h] = 0]) /\ ~dead'
        /\ h # NULL => pn[h] = 0
    BY <1>5 DEF F!New, F!There, F!Uses
  <2>2. ASSUME NEW x \in Memory
        PROVE  Count(Functors, param', x) = Count(Functors, param, x) + One(h, x)
    <3>0. Refers(param, param', f, h)
      BY <1>1, <2>1 DEF Refers
    <3>1. Count(Functors, param', x) = Count(Functors, param, x) - One(param[f], x) + One(h, x)
      BY ONLY <3>0, FunctorCounts
    <3>2. One(param[f], x) = 0 /\ One(h, x) \in Nat
      BY <2>1, FunctorsAre, OneIs DEF One
    <3>3. QED
      BY <1>4, <3>1, <3>2
  <2>3. pn' \in [Memory -> Int] /\ \A x \in Memory : pn'[x] = pn[x] + One(h, x)
    BY <1>1, <2>1, FunctorReferences
  <2>4. moves' \in [Memory -> Nat] /\ \A x \in Memory : moves'[x] = IF x = h THEN 0 ELSE moves[x]
    BY <1>1, <2>1, FunctorsAre
  <2>5. ASSUME NEW x \in Memory
        PROVE  pn'[x] = Count(Functors, param', x) + (IF pn'[x] = 0 THEN 0 ELSE moves'[x])
    <3>1. One(h, x) = IF x = h THEN 1 ELSE 0
      BY DEF One
    <3>2. x = h => pn[x] = 0
      BY <2>1, FunctorsAre
    <3>3. QED
      BY <1>1, <1>4, <2>2, <2>3, <2>4, <3>1, <3>2
  <2>6. QED
    BY <1>1, <2>1, <2>3, <2>4, <2>5 DEF FunctorHolds, HolderOrNone
<1>6. ASSUME NEW f \in Functors, NEW g \in Functors, F!Copy(f, g)
      PROVE  FunctorHolds(param', pn', moves') /\ ~dead'
  <2> DEFINE h == param[g]
  <2>1. /\ param[f] = "none" /\ h \in Memory \cup {NULL} /\ param' = [param EXCEPT ![f] = h]
        /\ pn' = F!Retain(pn, h) /\ moves' = moves /\ (h \in Memory => pn[h] > 0) /\ ~dead'
    BY <1>1, <1>2, <1>3, <1>6 DEF F!Copy, F!There, F!Uses
  <2> HIDE DEF h
  <2>2. param' \in [Functors -> HolderOrNone]
    BY <1>1, <2>1 DEF HolderOrNone
  <2>3. pn' \in [Memory -> Int] /\ \A x \in Memory : pn'[x] = pn[x] + One(h, x)
    BY <1>1, <2>1, FunctorReferences
  <2>4. ASSUME NEW x \in Memory
        PROVE  /\ pn'[x] - pn[x] = Count(Functors, param', x) - Count(Functors, param, x)
               /\ pn[x] = 0 => pn'[x] = 0
    <3>0. Refers(param, param', f, h)
      BY <1>1, <2>1 DEF Refers
    <3>1. Count(Functors, param', x) = Count(Functors, param, x) - One(param[f], x) + One(h, x)
      BY ONLY <3>0, FunctorCounts
    <3>2. One(param[f], x) = 0 /\ One(h, x) = IF x = h THEN 1 ELSE 0
      BY <2>1, FunctorsAre DEF One
    <3>3. QED
      BY <1>1, <1>4, <2>1, <2>3, <3>1, <3>2
  <2>5. FunctorChange(param, param', pn, pn')
    BY <2>4 DEF FunctorChange
  <2>6. QED
    BY <2>1, <2>2, <2>3, <2>5, FunctorStaysRight
<1>7. ASSUME NEW f \in Functors, NEW g \in Functors, F!Move(f, g)
      PROVE  FunctorHolds(param', pn', moves') /\ ~dead'
  <2> DEFINE h == param[g]
             mid == [param EXCEPT ![f] = h]
  <2>1. /\ param[f] = "none" /\ h \in Memory \cup {NULL} /\ f # g
        /\ param' = [mid EXCEPT ![g] = NULL]
        /\ pn' = F!Retain(pn, h) /\ moves' = F!Retain(moves, h)
        /\ (h \in Memory => pn[h] > 0) /\ ~dead'
    BY <1>1, <1>2, <1>3, <1>7 DEF F!Move, F!There, F!Uses
  <2>2. mid \in [Functors -> HolderOrNone] /\ mid[g] = h
    BY <1>1, <2>1 DEF HolderOrNone
  <2>3. pn' \in [Memory -> Int] /\ \A x \in Memory : pn'[x] = pn[x] + One(h, x)
    BY <1>1, <2>1, FunctorsAre DEF F!Retain, One
  <2>4. moves' \in [Memory -> Nat] /\ \A x \in Memory : moves'[x] = moves[x] + One(h, x)
    BY <1>1, <2>1, FunctorsAre DEF F!Retain, One
  <2>5. ASSUME NEW x \in Memory
        PROVE  pn'[x] = Count(Functors, param', x) + (IF pn'[x] = 0 THEN 0 ELSE moves'[x])
    <3>0. Refers(param, mid, f, h) /\ Refers(mid, param', g, NULL)
      BY <1>1, <2>1, <2>2 DEF Refers
    <3> HIDE DEF mid, h
    <3>1. Count(Functors, mid, x) = Count(Functors, param, x) - One(param[f], x) + One(h, x)
      BY ONLY <3>0, FunctorCounts
    <3>2. Count(Functors, param', x) = Count(Functors, mid, x) - One(h, x) + One(NULL, x)
      <4>1. Count(Functors, param', x) = Count(Functors, mid, x) - One(mid[g], x) + One(NULL, x)
        BY ONLY <3>0, FunctorCounts
      <4>2. QED
        BY <2>2, <4>1
    <3>3. One(param[f], x) = 0 /\ One(NULL, x) = 0 /\ One(h, x) = IF x = h THEN 1 ELSE 0
      BY <2>1, FunctorsAre DEF One
    <3>4. QED
      BY <1>1, <1>4, <2>1, <2>3, <2>4, <3>1, <3>2, <3>3
  <2>6. param' \in [Functors -> HolderOrNone]
    BY <2>1, <2>2 DEF HolderOrNone
  <2>7. QED
    BY <2>1, <2>3, <2>4, <2>5, <2>6 DEF FunctorHolds
<1>8. ASSUME NEW f \in Functors, NEW g \in Functors, F!Assign(f, g)
      PROVE  FunctorHolds(param', pn', moves') /\ ~dead'
  <2> DEFINE h == param[g]
             o == param[f]
  <2>1. /\ o \in Memory \cup {NULL} /\ h \in Memory \cup {NULL} /\ param' = [param EXCEPT ![f] = h]
        /\ pn' = F!Release(F!Retain(pn, h), o) /\ moves' = moves
        /\ (h \in Memory => pn[h] > 0) /\ (o \in Memory => pn[o] > 0) /\ ~dead'
    BY <1>1, <1>2, <1>3, <1>8 DEF F!Assign, F!There, F!Uses
  <2>2. pn' \in [Memory -> Int] /\ \A x \in Memory : pn'[x] = pn[x] + One(h, x) - One(o, x)
    BY <1>1, <2>1, FunctorReferences
  <2>3. param' \in [Functors -> HolderOrNone]
    BY <1>1, <2>1 DEF HolderOrNone
  <2>4. ASSUME NEW x \in Memory
        PROVE  /\ pn'[x] - pn[x] = Count(Functors, param', x) - Count(Functors, param, x)
               /\ pn[x] = 0 => pn'[x] = 0
    <3>0. Refers(param, param', f, h)
      BY <1>1, <2>1 DEF Refers
    <3>1. Count(Functors, param', x) = Count(Functors, param, x) - One(o, x) + One(h, x)
      BY ONLY <3>0, FunctorCounts
    <3> HIDE DEF o, h
    <3>2. One(o, x) = (IF x = o THEN 1 ELSE 0) /\ One(h, x) = IF x = h THEN 1 ELSE 0
      BY DEF One
    <3>3. QED
      BY <1>1, <1>4, <2>1, <2>2, <3>1, <3>2
  <2>5. FunctorChange(param, param', pn, pn')
    BY <2>4 DEF FunctorChange
  <2>6. QED
    BY <2>1, <2>2, <2>3, <2>5, FunctorStaysRight
<1>9. ASSUME NEW f \in Functors, NEW g \in Functors, F!AssignMove(f, g)
      PROVE  FunctorHolds(param', pn', moves') /\ ~dead'
  <2> DEFINE h == param[g]
             o == param[f]
             mid == [param EXCEPT ![f] = h]
  <2>1. /\ param' = [mid EXCEPT ![g] = o] /\ pn' = pn /\ moves' = moves /\ ~dead'
        /\ o \in HolderOrNone /\ h \in HolderOrNone
    BY <1>1, <1>9 DEF F!AssignMove, F!Swapped, F!Uses
  <2>2. mid \in [Functors -> HolderOrNone] /\ mid[g] = h /\ param' \in [Functors -> HolderOrNone]
    BY <1>1, <2>1
  <2>3. ASSUME NEW x \in Memory
        PROVE  Count(Functors, param', x) = Count(Functors, param, x)
    <3>0. Refers(param, mid, f, h) /\ Refers(mid, param', g, o)
      BY <1>1, <2>1, <2>2 DEF Refers
    <3>1. Count(Functors, mid, x) = Count(Functors, param, x) - One(o, x) + One(h, x)
      BY ONLY <3>0, FunctorCounts
    <3> HIDE DEF mid, h, o
    <3>2. Count(Functors, param', x) = Count(Functors, mid, x) - One(h, x) + One(o, x)
      <4>1. Count(Functors, param', x) = Count(Functors, mid, x) - One(mid[g], x) + One(o, x)
        BY ONLY <3>0, FunctorCounts
      <4>2. QED
        BY <2>2, <4>1
    <3>3. One(o, x) \in Nat /\ One(h, x) \in Nat
      BY OneIs
    <3>4. QED
      BY <1>4, <3>1, <3>2, <3>3
  <2> HIDE DEF mid
  <2>4. FunctorChange(param, param', pn, pn')
    <3>1. ASSUME NEW x \in Memory
          PROVE  /\ pn'[x] - pn[x] = Count(Functors, param', x) - Count(Functors, param, x)
                 /\ pn[x] = 0 => pn'[x] = 0
      <4>1. pn'[x] = pn[x] /\ pn[x] \in Int /\ Count(Functors, param, x) \in Nat
        BY <1>1, <1>4, <2>1
      <4>2. QED
        BY <2>3, <4>1
    <3>2. QED
      BY <3>1 DEF FunctorChange
  <2>5. pn' \in [Memory -> Int] /\ param' \in [Functors -> HolderOrNone]
    BY <1>1, <2>1, <2>2
  <2>6. FunctorHolds(param', pn', moves)
    BY <2>4, <2>5, FunctorStaysRight
  <2>7. QED
    BY <2>1, <2>6
<1>10. ASSUME NEW f \in Functors, F!Destroy(f)
       PROVE  FunctorHolds(param', pn', moves') /\ ~dead'
  <2> DEFINE o == param[f]
  <2>1. /\ o \in Memory \cup {NULL} /\ param' = [param EXCEPT ![f] = "none"]
        /\ pn' = F!Release(pn, o) /\ moves' = moves /\ (o \in Memory => pn[o] > 0) /\ ~dead'
    BY <1>1, <1>2, <1>3, <1>10 DEF F!Destroy, F!There, F!Uses
  <2>2. pn' \in [Memory -> Int] /\ \A x \in Memory : pn'[x] = pn[x] - One(o, x)
    <3> HIDE DEF o
    <3>1. pn \in [Memory -> Int] /\ o \in Memory \cup {NULL}
      BY <1>1, <2>1
    <3>2. F!Release(pn, o) \in [Memory -> Int] /\ \A x \in Memory : F!Release(pn, o)[x] = pn[x] - One(o, x)
      BY ONLY <3>1, FunctorReferences
    <3>3. QED
      BY <2>1, <3>2
  <2>3. param' \in [Functors -> HolderOrNone]
    BY <1>1, <2>1 DEF HolderOrNone
  <2>4. ASSUME NEW x \in Memory
        PROVE  /\ pn'[x] - pn[x] = Count(Functors, param', x) - Count(Functors, param, x)
               /\ pn[x] = 0 => pn'[x] = 0
    <3>0. Refers(param, param', f, "none")
      BY <1>1, <2>1 DEF Refers
    <3>1. Count(Functors, param', x) = Count(Functors, param, x) - One(o, x) + One("none", x)
      BY ONLY <3>0, FunctorCounts
    <3> HIDE DEF o
    <3>2. One(o, x) = (IF x = o THEN 1 ELSE 0) /\ One("none", x) = 0
      BY FunctorsAre DEF One
    <3>3. QED
      BY <1>1, <1>4, <2>1, <2>2, <3>1, <3>2
  <2>5. FunctorChange(param, param', pn, pn')
    BY <2>4 DEF FunctorChange
  <2>6. QED
    BY <2>1, <2>2, <2>3, <2>5, FunctorStaysRight
<1>11. ASSUME NEW f \in Functors, F!Invoke(f)
       PROVE  FunctorHolds(param', pn', moves') /\ ~dead'
  BY <1>2, <1>3, <1>11 DEF F!Invoke, F!Uses
<1>12. QED
  BY <1>5, <1>6, <1>7, <1>8, <1>9, <1>10, <1>11 DEF F!Next

LEMMA FunctorInit == F!Init => F!IInv
<1> SUFFICES ASSUME F!Init PROVE F!IInv
  OBVIOUS
<1>1. \A h \in Memory : {f \in Functors : param[f] = h} = {}
  BY FunctorsAre DEF F!Init
<1>2. F!Cardinality({}) = 0
  BY FS_EmptySet DEF F!Cardinality, Cardinality
<1>3. QED
  BY <1>1, <1>2 DEF F!Init, F!IInv, F!FunctorRight

-----------------------------------------------------------------------------
(* Variants: an object of every type for every variant that says so        *)

Kinds == Types \cup {"void", NULL}
VariantHolds(ix, da, ob) ==
  /\ ix \in [Variants -> Kinds] /\ ob \in [Types -> Int]
  /\ da = [v \in Variants |-> IF ix[v] \in Types THEN ix[v] ELSE NULL]
  /\ \A t \in Types : ob[t] = Count(Variants, ix, t)

LEMMA VariantsAre ==
  IsFiniteSet(Variants) /\ "void" \notin Types /\ NULL \notin Types
BY VariantsAssumption, NullAssumption

LEMMA VariantHoldsIs ==
  /\ W!IInv /\ ~torn => VariantHolds(index, data, objects) /\ ~wild
  /\ (~torn' => VariantHolds(index', data', objects') /\ ~wild') => W!IInv'
<1>1. \A s : W!Cardinality(s) = Cardinality(s)
  BY DEF W!Cardinality, Cardinality
<1>2. QED
  BY <1>1 DEF W!IInv, W!LivesRight, VariantHolds, Kinds, Count

\* v has an object of another type, or has become or ceased to be a variant.
LEMMA VariantChanges ==
  ASSUME VariantHolds(index, data, objects), NEW v \in Variants,
         NEW u \in Kinds, NEW t \in Kinds, NEW x \in Kinds,
         x = u \/ {x, u} \cap Types = {}, t = index[v] \/ {t, index[v]} \cap Types = {},
         index' = [index EXCEPT ![v] = u], W!Exchange(t, x),
         data' = [data EXCEPT ![v] = IF u \in Types THEN u ELSE NULL]
  PROVE  VariantHolds(index', data', objects')
<1>1. ChangedAt(Variants, index, index', v) /\ index'[v] = u /\ index' \in [Variants -> Kinds]
  BY DEF VariantHolds, ChangedAt
<1>2. /\ objects' = [y \in Types |-> objects[y] + (IF y = x THEN 1 ELSE 0) - (IF y = t THEN 1 ELSE 0)]
      /\ objects \in [Types -> Int]
  BY DEF W!Exchange, VariantHolds
<1>3. objects' \in [Types -> Int]
  BY <1>2
<1>4. ASSUME NEW y \in Types PROVE objects'[y] = Count(Variants, index', y)
  <2>1. /\ Count(Variants, index', y) = Count(Variants, index, y) - One(index[v], y) + One(u, y)
        /\ Count(Variants, index, y) \in Nat
    <3>1. IsFiniteSet(Variants)
      BY VariantsAre
    <3>2. QED
      BY ONLY <1>1, <3>1, CountUpdate
  <2>2. /\ objects'[y] = objects[y] + (IF y = x THEN 1 ELSE 0) - (IF y = t THEN 1 ELSE 0)
        /\ objects[y] = Count(Variants, index, y)
    BY <1>2 DEF VariantHolds
  <2>3. One(u, y) = (IF y = x THEN 1 ELSE 0) /\ One(index[v], y) = (IF y = t THEN 1 ELSE 0)
    BY DEF One
  <2>4. QED
    BY <2>1, <2>2, <2>3
<1>5. data' = [w \in Variants |-> IF index'[w] \in Types THEN index'[w] ELSE NULL]
  BY DEF VariantHolds
<1>6. QED
  BY <1>1, <1>3, <1>4, <1>5 DEF VariantHolds

LEMMA VariantNext == W!IInv /\ W!Next => W!IInv'
<1> SUFFICES ASSUME W!IInv, W!Next, ~torn'
             PROVE  VariantHolds(index', data', objects') /\ ~wild'
  BY VariantHoldsIs
<1>1. ~torn
  BY DEF W!Next, W!New, W!Delete, W!NewFrom, W!Assign, W!AssignThrows, W!Get
<1>2. VariantHolds(index, data, objects) /\ ~wild
  BY <1>1, VariantHoldsIs
<1>3. /\ index \in [Variants -> Kinds]
      /\ \A v \in Variants :
           data[v] = (IF index[v] \in Types THEN index[v] ELSE NULL) /\ ~W!Mistaken(v, index[v])
  BY <1>2 DEF VariantHolds, W!Mistaken
<1>4. ASSUME NEW v \in Variants, NEW t \in Types \cup {"void"}, W!New(v, t)
      PROVE  VariantHolds(index', data', objects') /\ ~wild'
  <2>1. /\ index[v] = NULL /\ index' = [index EXCEPT ![v] = t] /\ W!Exchange("void", t) /\ ~wild'
        /\ data' = [data EXCEPT ![v] = IF t \in Types THEN t ELSE NULL]
    BY <1>4 DEF W!New, W!Goes
  <2>2. t \in Kinds /\ "void" \in Kinds /\ {"void", index[v]} \cap Types = {}
    BY <2>1, VariantsAre DEF Kinds
  <2>3. QED
    BY <1>2, <2>1, <2>2, VariantChanges
<1>5. ASSUME NEW v \in Variants, NEW w \in Variants, W!NewFrom(v, w)
      PROVE  VariantHolds(index', data', objects') /\ ~wild'
  <2> DEFINE u == index[w]
  <2>1. /\ index[v] = NULL /\ index' = [index EXCEPT ![v] = u] /\ W!Exchange("void", u) /\ ~wild'
        /\ data' = [data EXCEPT ![v] = IF u \in Types THEN u ELSE NULL]
    BY <1>3, <1>5 DEF W!NewFrom, W!Goes
  <2>2. u \in Kinds /\ "void" \in Kinds /\ {"void", index[v]} \cap Types = {}
    BY <1>3, <2>1, VariantsAre DEF Kinds
  <2> HIDE DEF u
  <2>3. QED
    BY <1>2, <2>1, <2>2, VariantChanges
<1>6. ASSUME NEW v \in Variants, W!Delete(v)
      PROVE  VariantHolds(index', data', objects') /\ ~wild'
  <2> DEFINE t == index[v]
  <2>1. /\ index' = [index EXCEPT ![v] = NULL] /\ W!Exchange(t, "void") /\ ~wild'
        /\ data' = [data EXCEPT ![v] = IF NULL \in Types THEN NULL ELSE NULL]
    BY <1>3, <1>6 DEF W!Delete, W!Goes
  <2>2. t \in Kinds /\ "void" \in Kinds /\ NULL \in Kinds /\ {"void", NULL} \cap Types = {}
    BY <1>3, VariantsAre DEF Kinds
  <2>3. t = index[v]
    OBVIOUS
  <2> HIDE DEF t
  <2>4. QED
    BY <1>2, <2>1, <2>2, <2>3, VariantChanges
<1>7. ASSUME NEW v \in Variants, NEW w \in Variants, W!Assign(v, w)
      PROVE  VariantHolds(index', data', objects') /\ ~wild'
  <2> DEFINE t == index[v]
             u == index[w]
  <2>1. v # w
    BY <1>7 DEF W!Assign
  <2>2. /\ index' = [index EXCEPT ![v] = u] /\ W!Exchange(t, u) /\ ~wild'
        /\ data' = [data EXCEPT ![v] = IF u \in Types THEN u ELSE NULL]
    BY <1>3, <1>7, <2>1 DEF W!Assign, W!Goes, W!Reads
  <2>3. t \in Kinds /\ u \in Kinds
    BY <1>3
  <2>4. t = index[v]
    OBVIOUS
  <2> HIDE DEF t, u
  <2>5. QED
    BY <1>2, <2>2, <2>3, <2>4, VariantChanges
<1>8. ASSUME NEW v \in Variants, NEW w \in Variants, W!AssignThrows(v, w)
      PROVE  VariantHolds(index', data', objects') /\ ~wild'
  <2> DEFINE t == index[v]
  <2>1. t \notin Types /\ w # v
    BY <1>8 DEF W!AssignThrows, W!Typed
  <2>2. /\ index' = [index EXCEPT ![v] = t] /\ W!Exchange(t, "void") /\ ~wild'
        /\ data' = [data EXCEPT ![v] = IF t \in Types THEN t ELSE NULL]
    BY <1>3, <1>8, <2>1 DEF W!AssignThrows, W!Goes, W!Reads
  <2>3. t \in Kinds /\ "void" \in Kinds /\ {"void", t} \cap Types = {}
    BY <1>3, <2>1, VariantsAre DEF Kinds
  <2>4. t = index[v]
    OBVIOUS
  <2> HIDE DEF t
  <2>5. QED
    BY <1>2, <2>2, <2>3, <2>4, VariantChanges
<1>9. ASSUME NEW v \in Variants, NEW t \in Types, W!Get(v, t)
      PROVE  VariantHolds(index', data', objects') /\ ~wild'
  BY <1>2, <1>3, <1>9 DEF W!Get, W!Goes
<1>10. QED
  BY <1>4, <1>5, <1>6, <1>7, <1>8, <1>9 DEF W!Next

LEMMA VariantInit == W!Init => W!IInv
<1> SUFFICES ASSUME W!Init PROVE W!IInv
  OBVIOUS
<1>1. \A t \in Types : {v \in Variants : index[v] = t} = {}
  BY VariantsAre DEF W!Init
<1>2. W!Cardinality({}) = 0
  BY FS_EmptySet DEF W!Cardinality, Cardinality
<1>3. data = [v \in Variants |-> IF index[v] \in Types THEN index[v] ELSE NULL]
  BY VariantsAre DEF W!Init
<1>4. QED
  BY <1>1, <1>2, <1>3 DEF W!Init, W!IInv, W!LivesRight

-----------------------------------------------------------------------------
(* Pools: a block has the size of what is in it                            *)

LEMMA ListsFit ==
  ASSUME NEW t \in Types, NEW i \in P!ListOf(t), sort \in {"type", "size"}
  PROVE  i \in Nat \ {0} /\ P!Size(i) = SizeOf[t] /\ SizeOf[t] \in Nat
<1>1. PoolTypes \in Seq(Types) /\ PoolSizes \in Seq(Nat) /\ SizeOf \in [Types -> Nat]
  BY PoolsAssumption, VariantsAssumption
<1>2. CASE sort = "type"
  BY <1>1, <1>2 DEF P!ListOf, P!MatchTypeFinder, P!First, P!Size
<1>3. CASE sort = "size"
  BY <1>1, <1>3 DEF P!ListOf, P!MatchSizeTypeFinder, P!First, P!Size
<1>4. QED
  BY <1>2, <1>3

LEMMA PoolNext == P!IInv /\ P!Next => P!IInv'
<1> SUFFICES ASSUME P!IInv, P!Next PROVE P!IInv'
  OBVIOUS
<1> USE DEF P!IInv
<1>0. NULL \notin Types
  BY NullAssumption
<1>1. ASSUME NEW b \in Blocks, NEW t \in Types, P!New(b, t) \/ P!SizeNew(b, t) PROVE P!IInv'
  <2>1. PICK i \in P!ListOf(t) :
          /\ P!allocate(b, i, t) /\ sort' = sort /\ sort \in {"type", "size"}
    BY <1>1 DEF P!New, P!SizeNew
  <2>2. i \in Nat \ {0} /\ P!Size(i) = SizeOf[t] /\ SizeOf[t] \in Nat
    BY <2>1, ListsFit
  <2>3. CASE block' = [block EXCEPT ![b] = [size |-> P!Size(i), list |-> 0, obj |-> t]]
    BY <1>0, <2>1, <2>2, <2>3 DEF P!Size
  <2>4. CASE block[b].list = i /\ block' = [block EXCEPT ![b].list = 0, ![b].obj = t]
    <3>1. block[b].size = SizeOf[t]
      BY <2>2, <2>4
    <3>2. /\ block'[b].size = SizeOf[t] /\ block'[b].list = 0 /\ block'[b].obj = t
          /\ block' \in [Blocks -> [size : Nat, list : Nat, obj : Types \cup {NULL}]]
          /\ \A c \in Blocks \ {b} : block'[c] = block[c]
      BY <2>4, <3>1
    <3>3. QED
      BY <1>0, <2>1, <3>2 DEF P!Size
  <2>5. QED
    BY <2>1, <2>3, <2>4 DEF P!allocate
<1>2. ASSUME NEW b \in Blocks, P!Delete(b) \/ P!SizeDelete(b) PROVE P!IInv'
  <2> DEFINE t == block[b].obj
  <2>1. t # NULL /\ t \in Types /\ sort' = sort /\ sort \in {"type", "size"}
    BY <1>2 DEF P!Delete, P!SizeDelete
  <2>2. PICK i \in P!ListOf(t) : P!free(b, i)
    BY <1>2 DEF P!Delete, P!SizeDelete
  <2>3. i \in Nat \ {0} /\ P!Size(i) = SizeOf[t] /\ block[b].size = SizeOf[t]
    BY <2>1, ListsFit
  <2>4. /\ block'[b].size = P!Size(i) /\ block'[b].list = i /\ block'[b].obj = NULL
        /\ block' \in [Blocks -> [size : Nat, list : Nat, obj : Types \cup {NULL}]]
        /\ \A c \in Blocks \ {b} : block'[c] = block[c]
    BY <2>2, <2>3 DEF P!free
  <2>5. QED
    BY <2>1, <2>4 DEF P!Size
<1>3. ASSUME NEW b \in Blocks, P!Trim(b) PROVE P!IInv'
  BY <1>3 DEF P!Trim, P!System, P!Size
<1>4. ASSUME P!End PROVE P!IInv'
  BY <1>4 DEF P!End, P!System, P!Size
<1>5. QED
  BY <1>1, <1>2, <1>3, <1>4 DEF P!Next

LEMMA PoolInit == P!Init => P!IInv
BY DEF P!Init, P!IInv, P!System

LEMMA PoolIsRight == P!IInv => P!PoolRight
<1> SUFFICES ASSUME P!IInv, NEW b \in Blocks, block[b].obj # NULL
             PROVE  block[b].size >= SizeOf[block[b].obj]
  BY DEF P!IInv, P!PoolRight
<1>1. block[b].size \in Nat /\ block[b].size = SizeOf[block[b].obj]
  BY DEF P!IInv
<1>2. QED
  BY <1>1

-----------------------------------------------------------------------------
(* Objects                                                                 *)

ObjectsInv == W!IInv /\ F!IInv /\ P!IInv

LEMMA ObjectsStep ==
  ASSUME ObjectsInv, [Next]_<<unit, lists, vectors, tables, others>>
  PROVE  ObjectsInv'
<1>1. W!IInv' \/ UNCHANGED variants
  BY VariantNext DEF Next, ObjectsInv, others
<1>2. F!IInv' \/ UNCHANGED functors
  BY FunctorNext DEF Next, ObjectsInv, others
<1>3. P!IInv' \/ UNCHANGED pools
  BY PoolNext DEF Next, ObjectsInv, others
<1>4. UNCHANGED variants => W!IInv'
  BY DEF ObjectsInv, variants, W!IInv, W!LivesRight
<1>5. UNCHANGED functors => F!IInv'
  BY DEF ObjectsInv, functors, F!IInv, F!FunctorRight
<1>6. UNCHANGED pools => P!IInv'
  BY DEF ObjectsInv, pools, P!IInv, P!Size
<1>7. QED
  BY <1>1, <1>2, <1>3, <1>4, <1>5, <1>6 DEF ObjectsInv

\* Every object of a variant is destroyed once and as what it is unless an
\* assignment was torn, a function goes with its last functor unless it was
\* moved by the constructor, and an object lies in memory of its size, for any
\* number of variants, functors and blocks and any lists of types and sizes
\* (Variant, just_a_call, LookAsidePool, LookAsideSizePool).
THEOREM ObjectsEndOnce == Spec => []ObjectsRight
<1>1. Init => ObjectsInv
  BY VariantInit, FunctorInit, PoolInit DEF Init, ObjectsInv
<1>2. ObjectsInv => ObjectsRight
  BY PoolIsRight DEF ObjectsInv, ObjectsRight, W!IInv, W!LivesRight, F!IInv
<1>3. QED
  BY <1>1, <1>2, ObjectsStep, PTL DEF Spec

-----------------------------------------------------------------------------
(* Lists: sequences of items                                               *)

\* The node at k: the head, an item, or what stands for the end.
At(s, x, k) == IF k = 0 THEN x ELSE IF k <= Len(s) THEN s[k] ELSE L!EndOf(x)
\* The links of x are those of s; those of a stack go one way.
Linked(fl, bl, s, x) ==
  \A k \in 0..Len(s) :
    /\ fl[At(s, x, k)] = At(s, x, k + 1)
    /\ x \in Lists => bl[At(s, x, k + 1)] = At(s, x, k)
Ordered(od) ==
  /\ od \in [L!Heads -> Seq(Links)]
  /\ \A x, y \in L!Heads : \A j \in 1..Len(od[x]), k \in 1..Len(od[y]) :
       od[x][j] = od[y][k] => x = y /\ j = k
LinkType == [L!Addresses -> L!Addresses \cup {NULL}]
Chained(fl, bl, od) ==
  /\ Ordered(od) /\ fl \in LinkType /\ bl \in LinkType
  /\ \A x \in L!Heads : Linked(fl, bl, od[x], x)
Elements(s) == {s[k] : k \in 1..Len(s)}
Listed(od) == {i \in Links : \E x \in L!Heads : i \in Elements(od[x])}
ListedIs(od, set) == Listed(od) = set
\* What is in both is in the same order.
Keeps(s, t) ==
  \A j, k \in 1..Len(s), m, n \in 1..Len(t) : s[j] = t[m] /\ s[k] = t[n] /\ m <= n => j <= k

LEMMA HeadsAre ==
  /\ L!Heads = Lists \cup Stacks /\ L!Addresses = L!Heads \cup Links
  /\ Lists \cap Stacks = {} /\ L!Heads \cap Links = {} /\ NULL \notin L!Addresses
  /\ IsFiniteSet(Holders)
  /\ \A x \in L!Heads : L!EndOf(x) = IF x \in Lists THEN x ELSE NULL
BY HeadsAssumption, NullAssumption DEF L!Heads, L!Addresses, L!EndOf

\* The nodes of the lists are different.
LEMMA NodesApart ==
  ASSUME NEW od, Ordered(od), NEW x \in L!Heads, NEW j \in 0..Len(od[x])
  PROVE  /\ od[x] \in Seq(Links) /\ Len(od[x]) \in Nat
         /\ At(od[x], x, j) \in L!Addresses
         /\ j = 0 => At(od[x], x, j) = x
         /\ j > 0 => At(od[x], x, j) = od[x][j] /\ od[x][j] \in Links
         /\ \A y \in L!Heads : \A k \in 0..Len(od[y]) :
              At(od[x], x, j) = At(od[y], y, k) => x = y /\ j = k
<1>1. \A y \in L!Heads : od[y] \in Seq(Links) /\ Len(od[y]) \in Nat
  BY DEF Ordered
<1>2. \A y \in L!Heads : \A k \in 0..Len(od[y]) :
        At(od[y], y, k) = IF k = 0 THEN y ELSE od[y][k]
  BY <1>1 DEF At
<1>3. \A y \in L!Heads : \A k \in 0..Len(od[y]) : k # 0 => od[y][k] \in Links
  BY <1>1
<1>4. ASSUME NEW y \in L!Heads, NEW k \in 0..Len(od[y]), At(od[x], x, j) = At(od[y], y, k)
      PROVE  x = y /\ j = k
  <2>1. CASE j = 0 \/ k = 0
    BY <1>2, <1>3, <1>4, <2>1, HeadsAre
  <2>2. CASE j # 0 /\ k # 0
    <3>1. j \in 1..Len(od[x]) /\ k \in 1..Len(od[y])
      BY <1>1, <2>2
    <3>2. QED
      BY <1>2, <1>4, <2>2, <3>1 DEF Ordered
  <2>3. QED
    BY <2>1, <2>2
<1>5. QED
  BY <1>1, <1>2, <1>3, <1>4, HeadsAre

LEMMA LastIs ==
  ASSUME NEW od, Ordered(od), NEW x \in L!Heads
  PROVE  At(od[x], x, Len(od[x]) + 1) = IF x \in Lists THEN x ELSE NULL
<1>1. Len(od[x]) \in Nat
  BY NodesApart, 0 \in 0..0 DEF Ordered
<1>2. QED
  BY <1>1, HeadsAre DEF At

\* What a walk along the links meets is the sequence.
LEMMA WalkMeets ==
  ASSUME NEW fl, NEW bl, NEW od, Chained(fl, bl, od), NEW x \in L!Heads
  PROVE  {i \in Links : \A Q \in SUBSET Links :
             (\A n \in Q \cup {x} : fl[n] \in Links => fl[n] \in Q) => i \in Q} = Elements(od[x])
<1> DEFINE s == od[x]
           n == Len(s)
           closed(Q) == \A a \in Q \cup {x} : fl[a] \in Links => fl[a] \in Q
<1>1. s \in Seq(Links) /\ n \in Nat /\ Ordered(od) /\ Linked(fl, bl, s, x)
  BY DEF Chained, Ordered
<1>2. \A k \in 0..n : fl[At(s, x, k)] = At(s, x, k + 1)
  BY <1>1 DEF Linked
<1>3. \A k \in 1..n : s[k] = At(s, x, k) /\ s[k] \in Links
  BY <1>1 DEF At
<1>4. At(s, x, 0) = x /\ At(s, x, n + 1) \notin Links
  BY <1>1, LastIs, HeadsAre DEF At
<1>5. closed(Elements(s))
  <2> SUFFICES ASSUME NEW a \in Elements(s) \cup {x}, fl[a] \in Links
               PROVE  fl[a] \in Elements(s)
    OBVIOUS
  <2>1. PICK k \in 0..n : a = At(s, x, k)
    BY <1>1, <1>3, <1>4 DEF Elements
  <2>2. k # n
    BY <1>2, <1>4, <2>1
  <2>3. k + 1 \in 1..n /\ fl[a] = s[k + 1]
    BY <1>1, <1>2, <1>3, <2>1, <2>2
  <2>4. QED
    BY <2>3 DEF Elements
<1>6. ASSUME NEW Q \in SUBSET Links, closed(Q) PROVE Elements(s) \subseteq Q
  <2> DEFINE B == {k \in 1..n : s[k] \notin Q}
  <2>1. SUFFICES ASSUME B # {} PROVE FALSE
    BY DEF Elements
  <2>2. B \in SUBSET Nat
    BY <1>1
  <2> HIDE DEF B
  <2>3. PICK k \in B : \A j \in B : k <= j
    BY <2>1, <2>2, LeastOf
  <2>4. k \in 1..n /\ s[k] \notin Q
    BY <2>3 DEF B
  <2>5. k - 1 \in 0..n /\ fl[At(s, x, k - 1)] = s[k] /\ s[k] \in Links
    BY <1>1, <1>2, <1>3, <2>4
  <2>6. k # 1 => k - 1 \in 1..n /\ s[k - 1] \in Q /\ At(s, x, k - 1) = s[k - 1]
    BY <1>1, <1>3, <2>3, <2>4 DEF B
  <2>7. At(s, x, k - 1) \in Q \cup {x}
    BY <1>4, <2>4, <2>6
  <2>8. QED
    BY <1>6, <2>4, <2>5, <2>7
<1>7. Elements(s) \in SUBSET Links
  BY <1>3 DEF Elements
<1>8. QED
  BY <1>5, <1>6, <1>7

LEMMA InIs ==
  /\ Chained(flink, blink, order) =>
       \A x \in L!Heads : L!In(x) = Elements(order[x])
  /\ Chained(flink', blink', order') =>
       \A x \in L!Heads : L!In(x)' = Elements(order'[x])
<1>1. ASSUME Chained(flink, blink, order), NEW x \in L!Heads
      PROVE  L!In(x) = Elements(order[x])
  BY <1>1, WalkMeets DEF L!In
<1>2. ASSUME Chained(flink', blink', order'), NEW x \in L!Heads
      PROVE  L!In(x)' = Elements(order'[x])
  BY <1>2, WalkMeets DEF L!In
<1>3. QED
  BY <1>1, <1>2

\* The nodes that are followed by one are different, too.
LEMMA NextsApart ==
  ASSUME NEW od, Ordered(od), NEW x \in Lists, NEW j \in 0..Len(od[x])
  PROVE  /\ At(od[x], x, j + 1) \in L!Addresses
         /\ At(od[x], x, j + 1) \in Links => At(od[x], x, j + 1) \in Elements(od[x])
         /\ \A y \in Lists : \A k \in 0..Len(od[y]) :
              At(od[x], x, j + 1) = At(od[y], y, k + 1) => x = y /\ j = k
<1>1. \A y \in Lists : y \in L!Heads /\ Len(od[y]) \in Nat
  BY HeadsAre, NodesApart DEF Ordered
<1> DEFINE next(y, k) == IF k = Len(od[y]) THEN 0 ELSE k + 1
<1>2. ASSUME NEW y \in Lists, NEW k \in 0..Len(od[y])
      PROVE  next(y, k) \in 0..Len(od[y]) /\ At(od[y], y, k + 1) = At(od[y], y, next(y, k))
  BY <1>1, HeadsAre DEF At
<1>3. ASSUME NEW y \in Lists, NEW k \in 0..Len(od[y]),
             At(od[x], x, j + 1) = At(od[y], y, k + 1)
      PROVE  x = y /\ j = k
  <2>1. x = y /\ next(x, j) = next(y, k)
    <3> HIDE DEF next
    <3>1. At(od[x], x, next(x, j)) = At(od[y], y, next(y, k))
      BY <1>2, <1>3
    <3>2. QED
      BY <1>1, <1>2, <3>1, NodesApart, ZenonT(60)
  <2>2. QED
    BY <1>1, <2>1
<1>4. At(od[x], x, j + 1) \in L!Addresses
  BY <1>1, <1>2, NodesApart
<1>5. At(od[x], x, j + 1) \in Links => At(od[x], x, j + 1) \in Elements(od[x])
  BY <1>1, HeadsAre DEF At, Elements
<1>6. QED
  BY <1>3, <1>4, <1>5

InsertedAt(s, t, i, p) ==
  /\ t \in Seq(Links) /\ Len(t) = Len(s) + 1
  /\ \A k \in 1..Len(t) : t[k] = IF k <= p THEN s[k] ELSE IF k = p + 1 THEN i ELSE s[k - 1]

LEMMA InsertKeepsOrder ==
  ASSUME NEW od, Ordered(od), NEW x \in L!Heads, NEW i \in Links, i \notin Listed(od),
         NEW p \in 0..Len(od[x]), NEW t, InsertedAt(od[x], t, i, p),
         NEW oe, oe = [od EXCEPT ![x] = t]
  PROVE  /\ Ordered(oe) /\ ListedIs(oe, Listed(od) \cup {i})
         /\ \A y \in L!Heads : Keeps(od[y], oe[y])
<1> DEFINE s == od[x]
           n == Len(s)
<1>1. /\ s \in Seq(Links) /\ n \in Nat /\ t \in Seq(Links) /\ Len(t) = n + 1
      /\ \A k \in 1..n + 1 : t[k] = IF k <= p THEN s[k] ELSE IF k = p + 1 THEN i ELSE s[k - 1]
  BY DEF Ordered, InsertedAt
<1>2. /\ oe \in [L!Heads -> Seq(Links)] /\ oe[x] = t
      /\ \A y \in L!Heads : y # x => oe[y] = od[y]
  BY <1>1 DEF Ordered
<1>3. \A y \in L!Heads : \A k \in 1..Len(od[y]) : od[y][k] # i /\ od[y][k] \in Links
  BY DEF Listed, Elements, Ordered
<1>4. \A y, z \in L!Heads : \A j \in 1..Len(od[y]), k \in 1..Len(od[z]) :
        od[y][j] = od[z][k] => y = z /\ j = k
  BY DEF Ordered
<1> DEFINE from(y, k) == IF y # x \/ k <= p THEN k ELSE k - 1
<1>5. ASSUME NEW y \in L!Heads, NEW k \in 1..Len(oe[y])
      PROVE  \/ y = x /\ k = p + 1 /\ oe[y][k] = i
             \/ /\ from(y, k) \in 1..Len(od[y]) /\ oe[y][k] = od[y][from(y, k)]
                /\ y = x => k # p + 1
  <2>1. CASE y # x
    BY <1>2, <2>1
  <2>2. CASE y = x
    BY <1>1, <1>2, <2>2
  <2>3. QED
    BY <2>1, <2>2
<1> HIDE DEF from
<1>6. ASSUME NEW y \in L!Heads, NEW z \in L!Heads, NEW j \in 1..Len(oe[y]), NEW k \in 1..Len(oe[z]),
             oe[y][j] = oe[z][k]
      PROVE  y = z /\ j = k
  <2>0. j \in Nat /\ k \in Nat
    BY <1>1, <1>2
  <2>1. CASE oe[y][j] = i
    BY <1>3, <1>5, <1>6, <2>1
  <2>2. CASE oe[y][j] # i
    <3>1. /\ from(y, j) \in 1..Len(od[y]) /\ from(z, k) \in 1..Len(od[z])
          /\ od[y][from(y, j)] = od[z][from(z, k)]
          /\ (y = x => j # p + 1) /\ (z = x => k # p + 1)
      BY <1>5, <1>6, <2>2
    <3>2. y = z /\ from(y, j) = from(z, k)
      BY <1>4, <3>1
    <3>3. QED
      BY <2>0, <3>1, <3>2 DEF from
  <2>3. QED
    BY <2>1, <2>2
<1>7. Ordered(oe)
  BY <1>2, <1>6 DEF Ordered
<1>8. Listed(oe) = Listed(od) \cup {i}
  <2>1. Listed(oe) \subseteq Listed(od) \cup {i}
    BY <1>5 DEF Listed, Elements
  <2>2. i \in Listed(oe)
    <3>1. p + 1 \in 1..Len(t) /\ oe[x][p + 1] = i
      BY <1>1, <1>2
    <3>2. QED
      BY <1>1, <1>2, <3>1 DEF Listed, Elements
  <2>3. ASSUME NEW y \in L!Heads, NEW k \in 1..Len(od[y]) PROVE od[y][k] \in Elements(oe[y])
    <3>1. CASE y # x
      BY <1>2, <3>1 DEF Elements
    <3>2. CASE y = x /\ k <= p
      BY <1>1, <1>2, <3>2 DEF Elements
    <3>3. CASE y = x /\ k > p
      <4>1. k + 1 \in 1..Len(t) /\ t[k + 1] = s[k]
        BY <1>1, <3>3
      <4>2. QED
        BY <1>2, <3>3, <4>1 DEF Elements
    <3>4. QED
      BY <1>1, <3>1, <3>2, <3>3
  <2>4. Listed(od) \subseteq Listed(oe)
    BY <2>3 DEF Listed, Elements
  <2>5. QED
    BY <2>1, <2>2, <2>4
<1>9. ASSUME NEW y \in L!Heads PROVE Keeps(od[y], oe[y])
  <2> SUFFICES ASSUME NEW j \in 1..Len(od[y]), NEW k \in 1..Len(od[y]),
                      NEW l \in 1..Len(oe[y]), NEW m \in 1..Len(oe[y]),
                      od[y][j] = oe[y][l], od[y][k] = oe[y][m], l <= m
               PROVE  j <= k
    BY DEF Keeps
  <2>1. /\ from(y, l) \in 1..Len(od[y]) /\ oe[y][l] = od[y][from(y, l)]
        /\ from(y, m) \in 1..Len(od[y]) /\ oe[y][m] = od[y][from(y, m)]
        /\ (y = x => l # p + 1) /\ (y = x => m # p + 1)
    <3>1. oe[y][l] # i /\ oe[y][m] # i
      BY <1>3
    <3>2. /\ from(y, l) \in 1..Len(od[y]) /\ oe[y][l] = od[y][from(y, l)]
          /\ (y = x => l # p + 1)
      BY <1>5, <3>1
    <3>3. /\ from(y, m) \in 1..Len(od[y]) /\ oe[y][m] = od[y][from(y, m)]
          /\ (y = x => m # p + 1)
      BY <1>5, <3>1
    <3>4. QED
      BY <3>2, <3>3
  <2>2. j = from(y, l) /\ k = from(y, m)
    BY <1>4, <2>1, SMTT(30)
  <2>3. QED
    BY <2>1, <2>2, <1>1, <1>2 DEF from
<1>10. QED
  BY <1>7, <1>8, <1>9 DEF ListedIs

LEMMA InsertChain ==
  ASSUME NEW fl, NEW bl, NEW od, Chained(fl, bl, od),
         NEW x \in L!Heads, NEW i \in Links, i \notin Listed(od),
         NEW p \in 0..Len(od[x]), NEW t, InsertedAt(od[x], t, i, p),
         NEW oe, oe = [od EXCEPT ![x] = t],
         NEW fm, fm = [fl EXCEPT ![At(od[x], x, p)] = i, ![i] = At(od[x], x, p + 1)],
         NEW bm, x \in Lists => bm = [bl EXCEPT ![At(od[x], x, p + 1)] = i, ![i] = At(od[x], x, p)],
         x \in Stacks => bm = bl
  PROVE  Chained(fm, bm, oe)
<1> DEFINE s == od[x]
           n == Len(s)
           a == At(s, x, p)
           b == At(s, x, p + 1)
<1>1. /\ s \in Seq(Links) /\ n \in Nat /\ t \in Seq(Links) /\ Len(t) = n + 1
      /\ \A k \in 1..n + 1 : t[k] = IF k <= p THEN s[k] ELSE IF k = p + 1 THEN i ELSE s[k - 1]
  BY DEF Chained, Ordered, InsertedAt
<1>2. /\ Ordered(od) /\ Ordered(oe) /\ oe[x] = t
      /\ \A y \in L!Heads : y # x => oe[y] = od[y]
  <2>1. Ordered(od) /\ Ordered(oe)
    BY InsertKeepsOrder DEF Chained
  <2>2. QED
    BY <2>1, <1>1 DEF Ordered
<1>3. \A y \in L!Heads : \A k \in 0..Len(od[y]) :
        /\ At(od[y], y, k) \in L!Addresses \ {i}
        /\ At(od[y], y, k) = a => y = x /\ k = p
  <2>1. \A y \in L!Heads : \A k \in 1..Len(od[y]) : od[y][k] # i
    BY DEF Listed, Elements
  <2>2. i \notin L!Heads
    BY HeadsAre
  <2> HIDE DEF a
  <2>3. ASSUME NEW y \in L!Heads, NEW k \in 0..Len(od[y])
        PROVE  At(od[y], y, k) \in L!Addresses \ {i}
    BY <1>2, <2>1, <2>2, NodesApart
  <2>4. QED
    BY <1>2, <2>3, NodesApart DEF a
<1>4. \A y \in Lists : \A k \in 0..Len(od[y]) :
        /\ At(od[y], y, k + 1) \in L!Addresses \ {i}
        /\ x \in Lists /\ At(od[y], y, k + 1) = b => y = x /\ k = p
  <2>1. ASSUME NEW y \in Lists PROVE i \notin Elements(od[y])
    BY HeadsAre DEF Listed
  <2>2. ASSUME NEW y \in Lists, NEW k \in 0..Len(od[y])
        PROVE  At(od[y], y, k + 1) \in L!Addresses \ {i}
    BY <1>2, <2>1, NextsApart
  <2>3. QED
    BY <1>2, <2>2, NextsApart
<1>5. b \in L!Addresses \cup {NULL} /\ (x \in Lists => b \in L!Addresses \ {i})
  <2>1. CASE p = n
    BY <1>1, <1>2, <1>4, <2>1, LastIs
  <2>2. CASE p # n
    <3>1. p + 1 \in 0..n
      BY <1>1, <2>2
    <3>2. QED
      BY <1>3, <3>1
  <2>3. QED
    BY <2>1, <2>2
<1>6. a \in L!Addresses \ {i} /\ i \in L!Addresses
  BY <1>3, HeadsAre
<1> HIDE DEF a, b
<1>7. /\ fm \in LinkType /\ fm[a] = i /\ fm[i] = b
      /\ \A c \in L!Addresses : c # a /\ c # i => fm[c] = fl[c]
  BY <1>5, <1>6 DEF Chained, LinkType, a, b
<1>8. /\ bm \in LinkType
      /\ x \in Lists => /\ bm[b] = i /\ bm[i] = a
                        /\ \A c \in L!Addresses : c # b /\ c # i => bm[c] = bl[c]
  <2>1. CASE x \in Lists
    BY <1>5, <1>6, <2>1 DEF Chained, LinkType, a, b
  <2>2. CASE x \notin Lists
    BY <2>2, HeadsAre DEF Chained
  <2>3. QED
    BY <2>1, <2>2
<1>9. \A y \in L!Heads : \A k \in 0..Len(od[y]) :
        /\ fl[At(od[y], y, k)] = At(od[y], y, k + 1)
        /\ y \in Lists => bl[At(od[y], y, k + 1)] = At(od[y], y, k)
  BY DEF Chained, Linked
<1>10. ASSUME NEW y \in L!Heads, y # x PROVE Linked(fm, bm, oe[y], y)
  <2>1. x \notin Lists => bm = bl
    BY HeadsAre
  <2>2. ASSUME NEW k \in 0..Len(od[y])
        PROVE  /\ fm[At(od[y], y, k)] = At(od[y], y, k + 1)
               /\ y \in Lists => bm[At(od[y], y, k + 1)] = At(od[y], y, k)
    <3>1. At(od[y], y, k) \in L!Addresses \ {i} /\ At(od[y], y, k) # a
      BY <1>3, <1>10
    <3>2. y \in Lists => At(od[y], y, k + 1) \in L!Addresses \ {i}
                         /\ (x \in Lists => At(od[y], y, k + 1) # b)
      BY <1>4, <1>10
    <3>3. /\ fl[At(od[y], y, k)] = At(od[y], y, k + 1)
          /\ y \in Lists => bl[At(od[y], y, k + 1)] = At(od[y], y, k)
      BY <1>9
    <3>4. QED
      BY <1>7, <1>8, <2>1, <3>1, <3>2, <3>3
  <2>3. QED
    BY <1>2, <1>10, <2>2 DEF Linked
<1>11. \A k \in 0..n + 2 :
         At(t, x, k) = IF k <= p THEN At(s, x, k) ELSE IF k = p + 1 THEN i ELSE At(s, x, k - 1)
  BY <1>1 DEF At
<1>12. Linked(fm, bm, oe[x], x)
  <2> SUFFICES ASSUME NEW k \in 0..n + 1
               PROVE  /\ fm[At(t, x, k)] = At(t, x, k + 1)
                      /\ x \in Lists => bm[At(t, x, k + 1)] = At(t, x, k)
    BY <1>1, <1>2 DEF Linked
  <2>0. p \in 0..n /\ n \in Nat /\ k + 1 \in 0..n + 2 /\ k \in 0..n + 2
    BY <1>1
  <2>1. CASE k < p
    <3>1. At(t, x, k) = At(s, x, k) /\ At(t, x, k + 1) = At(s, x, k + 1) /\ k \in 0..n /\ k # p
      BY <1>11, <2>0, <2>1
    <3>2. At(s, x, k) \in L!Addresses \ {i} /\ At(s, x, k) # a
      BY <1>3, <3>1
    <3>3. x \in Lists => At(s, x, k + 1) \in L!Addresses \ {i} /\ At(s, x, k + 1) # b
      BY <1>4, <3>1
    <3>4. /\ fl[At(s, x, k)] = At(s, x, k + 1)
          /\ x \in Lists => bl[At(s, x, k + 1)] = At(s, x, k)
      BY <1>9, <3>1
    <3>5. QED
      BY <1>7, <1>8, <3>1, <3>2, <3>3, <3>4
  <2>2. CASE k = p
    <3>1. At(t, x, k) = a /\ At(t, x, k + 1) = i
      BY <1>11, <2>0, <2>2 DEF a
    <3>2. QED
      BY <1>7, <1>8, <3>1
  <2>3. CASE k = p + 1
    <3>1. At(t, x, k) = i /\ At(t, x, k + 1) = b
      <4>1. k + 1 - 1 = p + 1 /\ ~(k + 1 <= p) /\ k + 1 # p + 1 /\ ~(k <= p)
        BY <2>0, <2>3
      <4>2. QED
        BY <1>11, <2>0, <2>3, <4>1 DEF b
    <3>2. QED
      BY <1>7, <1>8, <3>1
  <2>4. CASE k > p + 1
    <3>1. /\ k - 1 \in 0..n /\ k - 1 # p /\ (k - 1) + 1 = k /\ (k + 1) - 1 = k
          /\ ~(k <= p) /\ k # p + 1 /\ ~(k + 1 <= p) /\ k + 1 # p + 1
      BY <2>0, <2>4, SMTT(30)
    <3>2. At(t, x, k) = At(s, x, k - 1) /\ At(t, x, k + 1) = At(s, x, (k - 1) + 1)
      BY <1>11, <2>0, <3>1
    <3>3. QED
      <4> DEFINE m == k - 1
      <4> HIDE DEF m
      <4>1. m \in 0..n /\ m # p /\ At(t, x, k) = At(s, x, m) /\ At(t, x, k + 1) = At(s, x, m + 1)
        BY <3>1, <3>2 DEF m
      <4>2. At(s, x, m) \in L!Addresses \ {i} /\ At(s, x, m) # a
        BY <1>3, <4>1
      <4>3. x \in Lists => At(s, x, m + 1) \in L!Addresses \ {i} /\ At(s, x, m + 1) # b
        BY <1>4, <4>1
      <4>4. /\ fl[At(s, x, m)] = At(s, x, m + 1)
            /\ x \in Lists => bl[At(s, x, m + 1)] = At(s, x, m)
        BY <1>9, <4>1
      <4>5. QED
        BY <1>7, <1>8, <4>1, <4>2, <4>3, <4>4
  <2>5. QED
    BY <2>0, <2>1, <2>2, <2>3, <2>4
<1>13. QED
  BY <1>2, <1>7, <1>8, <1>10, <1>12 DEF Chained

RemovedAt(s, t, p) ==
  /\ t \in Seq(Links) /\ Len(t) = Len(s) - 1
  /\ \A k \in 1..Len(t) : t[k] = IF k < p THEN s[k] ELSE s[k + 1]
\* At a the link goes on to b instead of i.
Skips(f, g, a, i, b) ==
  /\ f \in LinkType /\ g \in LinkType /\ g[a] = b
  /\ \A c \in L!Addresses \ {a, i} : g[c] = f[c]

LEMMA RemoveKeepsOrder ==
  ASSUME NEW od, Ordered(od), NEW x \in L!Heads, NEW p \in 1..Len(od[x]),
         NEW t, RemovedAt(od[x], t, p), NEW oe, oe = [od EXCEPT ![x] = t]
  PROVE  /\ Ordered(oe) /\ ListedIs(oe, Listed(od) \ {od[x][p]})
         /\ \A y \in L!Heads : Keeps(od[y], oe[y])
<1> DEFINE s == od[x]
           n == Len(s)
<1>1. /\ s \in Seq(Links) /\ n \in Nat /\ t \in Seq(Links) /\ Len(t) = n - 1
      /\ \A k \in 1..n - 1 : t[k] = IF k < p THEN s[k] ELSE s[k + 1]
  BY DEF Ordered, RemovedAt
<1>2. /\ oe \in [L!Heads -> Seq(Links)] /\ oe[x] = t
      /\ \A y \in L!Heads : Len(oe[y]) \in Nat /\ (y # x => oe[y] = od[y])
  BY <1>1 DEF Ordered
<1>4. \A y, z \in L!Heads : \A j \in 1..Len(od[y]), k \in 1..Len(od[z]) :
        od[y][j] = od[z][k] => y = z /\ j = k
  BY DEF Ordered
<1> DEFINE from(y, k) == IF y # x \/ k < p THEN k ELSE k + 1
<1>5. ASSUME NEW y \in L!Heads, NEW k \in 1..Len(oe[y])
      PROVE  /\ from(y, k) \in 1..Len(od[y]) /\ oe[y][k] = od[y][from(y, k)]
             /\ k \in Nat /\ (y = x => from(y, k) # p)
  <2>1. CASE y # x
    BY <1>2, <2>1
  <2>2. CASE y = x
    BY <1>1, <1>2, <2>2
  <2>3. QED
    BY <2>1, <2>2
<1> HIDE DEF from
<1>6. ASSUME NEW y \in L!Heads, NEW z \in L!Heads, NEW j \in 1..Len(oe[y]), NEW k \in 1..Len(oe[z]),
             oe[y][j] = oe[z][k]
      PROVE  y = z /\ j = k
  <2>1. /\ from(y, j) \in 1..Len(od[y]) /\ from(z, k) \in 1..Len(od[z])
        /\ od[y][from(y, j)] = od[z][from(z, k)] /\ j \in Nat /\ k \in Nat
    BY <1>5, <1>6
  <2>2. y = z /\ from(y, j) = from(z, k)
    BY <1>4, <2>1
  <2>3. QED
    BY <2>1, <2>2 DEF from
<1>7. Ordered(oe)
  BY <1>2, <1>6 DEF Ordered
<1>8. Listed(oe) = Listed(od) \ {od[x][p]}
  <2>1. ASSUME NEW y \in L!Heads, NEW k \in 1..Len(oe[y])
        PROVE  oe[y][k] \in Elements(od[y]) /\ oe[y][k] # od[x][p]
    <3>1. from(y, k) \in 1..Len(od[y]) /\ oe[y][k] = od[y][from(y, k)] /\ (y = x => from(y, k) # p)
      BY <1>5
    <3>2. QED
      BY <1>4, <3>1 DEF Elements
  <2>2. ASSUME NEW y \in L!Heads, NEW k \in 1..Len(od[y]), od[y][k] # od[x][p]
        PROVE  od[y][k] \in Elements(oe[y])
    <3>1. CASE y # x
      BY <1>2, <3>1 DEF Elements
    <3>2. CASE y = x /\ k < p
      <4>1. k \in 1..n - 1
        BY <1>1, <3>2
      <4>2. QED
        BY <1>1, <1>2, <3>2, <4>1 DEF Elements
    <3>3. CASE y = x /\ k > p
      <4>1. k - 1 \in 1..n - 1 /\ t[k - 1] = s[k]
        BY <1>1, <3>3
      <4>2. QED
        BY <1>1, <1>2, <3>3, <4>1 DEF Elements
    <3>4. QED
      BY <1>1, <2>2, <3>1, <3>2, <3>3
  <2>3. Listed(oe) \subseteq Listed(od) \ {od[x][p]}
    BY <2>1 DEF Listed, Elements
  <2>4. Listed(od) \ {od[x][p]} \subseteq Listed(oe)
    BY <2>2 DEF Listed, Elements
  <2>5. QED
    BY <2>3, <2>4
<1>9. ASSUME NEW y \in L!Heads PROVE Keeps(od[y], oe[y])
  <2> SUFFICES ASSUME NEW j \in 1..Len(od[y]), NEW k \in 1..Len(od[y]),
                      NEW l \in 1..Len(oe[y]), NEW m \in 1..Len(oe[y]),
                      od[y][j] = oe[y][l], od[y][k] = oe[y][m], l <= m
               PROVE  j <= k
    BY DEF Keeps
  <2>1. /\ from(y, l) \in 1..Len(od[y]) /\ oe[y][l] = od[y][from(y, l)] /\ l \in Nat
        /\ from(y, m) \in 1..Len(od[y]) /\ oe[y][m] = od[y][from(y, m)] /\ m \in Nat
    BY <1>5
  <2>2. j = from(y, l) /\ k = from(y, m)
    BY <1>4, <2>1, SMTT(30)
  <2>3. QED
    BY <2>1, <2>2, <1>1 DEF from
<1>10. QED
  BY <1>7, <1>8, <1>9 DEF ListedIs

LEMMA RemoveChain ==
  ASSUME NEW fl, NEW bl, NEW od, Chained(fl, bl, od),
         NEW x \in L!Heads, NEW p \in 1..Len(od[x]),
         NEW t, RemovedAt(od[x], t, p), NEW oe, oe = [od EXCEPT ![x] = t],
         NEW fm, Skips(fl, fm, At(od[x], x, p - 1), od[x][p], At(od[x], x, p + 1)),
         NEW bm, x \in Lists => Skips(bl, bm, At(od[x], x, p + 1), od[x][p], At(od[x], x, p - 1)),
         x \in Stacks => bm = bl
  PROVE  Chained(fm, bm, oe)
<1> DEFINE s == od[x]
           n == Len(s)
           i == s[p]
           a == At(s, x, p - 1)
           b == At(s, x, p + 1)
<1>1. /\ s \in Seq(Links) /\ n \in Nat /\ t \in Seq(Links) /\ Len(t) = n - 1
      /\ \A k \in 1..n - 1 : t[k] = IF k < p THEN s[k] ELSE s[k + 1]
  BY DEF Chained, Ordered, RemovedAt
<1>2. /\ Ordered(od) /\ Ordered(oe) /\ oe[x] = t
      /\ \A y \in L!Heads : y # x => oe[y] = od[y]
  <2>1. Ordered(od) /\ Ordered(oe)
    BY RemoveKeepsOrder DEF Chained
  <2>2. QED
    BY <2>1, <1>1 DEF Ordered
<1>0. i = At(s, x, p) /\ p \in 0..n /\ p - 1 \in 0..n /\ i = At(s, x, (p - 1) + 1)
  BY <1>1 DEF At
<1>3. \A y \in L!Heads : \A k \in 0..Len(od[y]) :
        /\ At(od[y], y, k) \in L!Addresses
        /\ At(od[y], y, k) = a => y = x /\ k = p - 1
        /\ At(od[y], y, k) = i => y = x /\ k = p
  <2> DEFINE q == p - 1
  <2>1. q \in 0..Len(od[x]) /\ a = At(od[x], x, q)
    BY <1>0
  <2> HIDE DEF a, i, q
  <2>2. \A y \in L!Heads : \A k \in 0..Len(od[y]) : At(od[y], y, k) \in L!Addresses
    BY <1>2, NodesApart
  <2>3. \A y \in L!Heads : \A k \in 0..Len(od[y]) :
          At(od[y], y, k) = At(od[x], x, q) => y = x /\ k = q
    BY <1>2, <2>1, NodesApart
  <2>4. \A y \in L!Heads : \A k \in 0..Len(od[y]) :
          At(od[y], y, k) = At(od[x], x, p) => y = x /\ k = p
    BY <1>0, <1>2, NodesApart
  <2>5. QED
    BY <1>0, <2>1, <2>2, <2>3, <2>4 DEF q
<1>4. \A y \in Lists : \A k \in 0..Len(od[y]) :
        /\ At(od[y], y, k + 1) \in L!Addresses
        /\ x \in Lists /\ At(od[y], y, k + 1) = b => y = x /\ k = p
        /\ x \in Lists /\ At(od[y], y, k + 1) = i => y = x /\ k = p - 1
        /\ x \notin Lists => At(od[y], y, k + 1) # i
  <2> DEFINE q == p - 1
  <2>1. q \in 0..Len(od[x]) /\ i = At(od[x], x, q + 1) /\ b = At(od[x], x, p + 1)
    BY <1>0
  <2> HIDE DEF b, i, q
  <2>2. \A y \in Lists : \A k \in 0..Len(od[y]) : At(od[y], y, k + 1) \in L!Addresses
    BY <1>2, NextsApart
  <2>3. ASSUME x \in Lists, NEW y \in Lists, NEW k \in 0..Len(od[y])
        PROVE  At(od[y], y, k + 1) = At(od[x], x, q + 1) => y = x /\ k = q
    BY <1>2, <2>1, <2>3, NextsApart
  <2>4. ASSUME x \in Lists, NEW y \in Lists, NEW k \in 0..Len(od[y])
        PROVE  At(od[y], y, k + 1) = At(od[x], x, p + 1) => y = x /\ k = p
    BY <1>0, <1>2, <2>4, NextsApart
  <2>5. ASSUME x \notin Lists, NEW y \in Lists, NEW k \in 0..Len(od[y])
        PROVE  At(od[y], y, k + 1) # i
    <3>1. At(od[y], y, k + 1) \in Links => At(od[y], y, k + 1) \in Elements(od[y])
      BY <1>2, NextsApart
    <3>2. i \in Links /\ i \notin Elements(od[y])
      BY <1>1, <1>2, <2>5, HeadsAre DEF Ordered, Elements, i
    <3>3. QED
      BY <3>1, <3>2
  <2>6. QED
    BY <2>1, <2>2, <2>3, <2>4, <2>5 DEF q
<1>7. fm \in LinkType /\ fm[a] = b /\ \A c \in L!Addresses : c # a /\ c # i => fm[c] = fl[c]
  BY DEF Skips
<1>8. /\ bm \in LinkType
      /\ x \in Lists => bm[b] = a /\ \A c \in L!Addresses : c # b /\ c # i => bm[c] = bl[c]
  BY HeadsAre DEF Skips, Chained
<1> HIDE DEF a, b, i
<1>9. \A y \in L!Heads : \A k \in 0..Len(od[y]) :
        /\ fl[At(od[y], y, k)] = At(od[y], y, k + 1)
        /\ y \in Lists => bl[At(od[y], y, k + 1)] = At(od[y], y, k)
  BY DEF Chained, Linked
<1>10. ASSUME NEW y \in L!Heads, y # x PROVE Linked(fm, bm, oe[y], y)
  <2>1. x \notin Lists => bm = bl
    BY HeadsAre
  <2>2. ASSUME NEW k \in 0..Len(od[y])
        PROVE  /\ fm[At(od[y], y, k)] = At(od[y], y, k + 1)
               /\ y \in Lists => bm[At(od[y], y, k + 1)] = At(od[y], y, k)
    <3>1. At(od[y], y, k) \in L!Addresses /\ At(od[y], y, k) # a /\ At(od[y], y, k) # i
      BY <1>3, <1>10
    <3>2. y \in Lists => /\ At(od[y], y, k + 1) \in L!Addresses /\ At(od[y], y, k + 1) # i
                         /\ (x \in Lists => At(od[y], y, k + 1) # b)
      BY <1>4, <1>10
    <3>3. QED
      BY <1>7, <1>8, <1>9, <2>1, <3>1, <3>2
  <2>3. QED
    BY <1>2, <1>10, <2>2 DEF Linked
<1>11. \A k \in 0..n : At(t, x, k) = IF k < p THEN At(s, x, k) ELSE At(s, x, k + 1)
  BY <1>1 DEF At
<1>12. Linked(fm, bm, oe[x], x)
  <2> SUFFICES ASSUME NEW k \in 0..n - 1
               PROVE  /\ fm[At(t, x, k)] = At(t, x, k + 1)
                      /\ x \in Lists => bm[At(t, x, k + 1)] = At(t, x, k)
    BY <1>1, <1>2 DEF Linked
  <2>0. p \in 1..n /\ n \in Nat /\ k + 1 \in 0..n /\ k \in 0..n
    BY <1>1
  <2>1. ASSUME NEW m \in 0..n, m # p, m # p - 1, At(t, x, k) = At(s, x, m), At(t, x, k + 1) = At(s, x, m + 1)
        PROVE  /\ fm[At(t, x, k)] = At(t, x, k + 1)
               /\ x \in Lists => bm[At(t, x, k + 1)] = At(t, x, k)
    <3>1. At(s, x, m) \in L!Addresses /\ At(s, x, m) # a /\ At(s, x, m) # i
      BY <1>3, <2>1
    <3>2. x \in Lists => /\ At(s, x, m + 1) \in L!Addresses /\ At(s, x, m + 1) # i
                         /\ At(s, x, m + 1) # b
      BY <1>4, <2>1
    <3>3. QED
      BY <1>7, <1>8, <1>9, <2>1, <3>1, <3>2
  <2>2. CASE k + 1 < p
    <3>1. At(t, x, k) = At(s, x, k) /\ At(t, x, k + 1) = At(s, x, k + 1) /\ k # p /\ k # p - 1
      BY <1>11, <2>0, <2>2
    <3>2. QED
      BY <2>0, <2>1, <3>1
  <2>3. CASE k + 1 = p
    <3>1. k = p - 1 /\ k < p /\ ~(k + 1 < p) /\ (k + 1) + 1 = p + 1
      BY <2>0, <2>3
    <3>2. At(t, x, k) = a /\ At(t, x, k + 1) = b
      BY <1>11, <2>0, <3>1 DEF a, b
    <3>3. QED
      BY <1>7, <1>8, <3>2
  <2>4. CASE k + 1 > p
    <3> DEFINE m == k + 1
    <3>1. m \in 0..n /\ m # p /\ m # p - 1 /\ ~(k < p) /\ ~(k + 1 < p)
      BY <2>0, <2>4
    <3>2. At(t, x, k) = At(s, x, m) /\ At(t, x, k + 1) = At(s, x, m + 1)
      BY <1>11, <2>0, <3>1
    <3> HIDE DEF m
    <3>3. QED
      BY <2>1, <3>1, <3>2
  <2>5. QED
    BY <2>0, <2>2, <2>3, <2>4
<1>13. QED
  BY <1>2, <1>7, <1>8, <1>10, <1>12 DEF Chained

\* A head is left alone: its links are its own, and the other lists' as before.
Empties(f, g, x, Q) ==
  /\ f \in LinkType /\ g \in LinkType /\ g[x] = L!EndOf(x)
  /\ \A c \in L!Addresses : c # x /\ c \notin Q => g[c] = f[c]

LEMMA ClearChain ==
  ASSUME NEW fl, NEW bl, NEW od, Chained(fl, bl, od),
         NEW x \in L!Heads, NEW oe, oe = [od EXCEPT ![x] = <<>>],
         NEW fm, Empties(fl, fm, x, Elements(od[x])),
         NEW bm, x \in Lists => Empties(bl, bm, x, Elements(od[x])),
         x \in Stacks => bm = bl
  PROVE  /\ Chained(fm, bm, oe) /\ ListedIs(oe, Listed(od) \ Elements(od[x]))
         /\ \A y \in L!Heads : Keeps(od[y], oe[y])
<1> DEFINE Q == Elements(od[x])
<1>1. /\ Ordered(od) /\ od \in [L!Heads -> Seq(Links)]
      /\ oe \in [L!Heads -> Seq(Links)] /\ oe[x] = <<>>
      /\ \A y \in L!Heads : y # x => oe[y] = od[y]
  BY DEF Chained, Ordered
<1>2. Len(oe[x]) = 0 /\ 1..Len(oe[x]) = {}
  BY <1>1
<1>3. \A y, z \in L!Heads : \A j \in 1..Len(od[y]), k \in 1..Len(od[z]) :
        od[y][j] = od[z][k] => y = z /\ j = k
  BY <1>1 DEF Ordered
<1>4. Ordered(oe)
  <2>1. ASSUME NEW y \in L!Heads, NEW z \in L!Heads, NEW j \in 1..Len(oe[y]), NEW k \in 1..Len(oe[z]),
               oe[y][j] = oe[z][k]
        PROVE  y = z /\ j = k
    BY <1>1, <1>2, <1>3, <2>1
  <2>2. QED
    BY <1>1, <2>1 DEF Ordered
<1>5. Listed(oe) = Listed(od) \ Q
  <2>1. Elements(oe[x]) = {}
    BY <1>2 DEF Elements
  <2>2. \A y \in L!Heads : y # x => Elements(oe[y]) = Elements(od[y]) /\ Elements(od[y]) \cap Q = {}
    BY <1>1, <1>3 DEF Elements
  <2> HIDE DEF Q
  <2>3. QED
    BY <2>1, <2>2 DEF Listed, Q
<1>6. ASSUME NEW y \in L!Heads PROVE Keeps(od[y], oe[y])
  BY <1>1, <1>2, <1>3 DEF Keeps
<1>7. \A y \in L!Heads : \A k \in 0..Len(od[y]) :
        /\ fl[At(od[y], y, k)] = At(od[y], y, k + 1)
        /\ y \in Lists => bl[At(od[y], y, k + 1)] = At(od[y], y, k)
  BY DEF Chained, Linked
<1>8. ASSUME NEW y \in L!Heads, y # x PROVE Linked(fm, bm, oe[y], y)
  <2>1. ASSUME NEW k \in 0..Len(od[y])
        PROVE  At(od[y], y, k) \in L!Addresses /\ At(od[y], y, k) # x /\ At(od[y], y, k) \notin Q
    <3>1. At(od[y], y, k) \in L!Addresses
      BY <1>1, NodesApart
    <3>2. 0 \in 0..Len(od[x]) /\ At(od[x], x, 0) = x
      BY <1>1 DEF At
    <3>3. At(od[y], y, k) # x
      BY <1>1, <1>8, <3>2, NodesApart
    <3>4. At(od[y], y, k) \notin Q
      <4>1. CASE k = 0
        BY <1>1, <4>1, HeadsAre DEF At, Elements
      <4>2. CASE k # 0
        BY <1>1, <1>3, <1>8, <4>2 DEF At, Elements
      <4>3. QED
        BY <4>1, <4>2
    <3>5. QED
      BY <3>1, <3>3, <3>4
  <2>2. ASSUME y \in Lists, NEW k \in 0..Len(od[y])
        PROVE  At(od[y], y, k + 1) \in L!Addresses /\ At(od[y], y, k + 1) # x /\ At(od[y], y, k + 1) \notin Q
    <3>1. CASE k = Len(od[y])
      <4>1. At(od[y], y, k + 1) = y
        BY <1>1, <2>2, <3>1, LastIs
      <4>2. y \notin Q /\ y \in L!Addresses
        BY <1>1, <2>2, HeadsAre DEF Elements
      <4>3. QED
        BY <1>8, <4>1, <4>2
    <3>2. CASE k # Len(od[y])
      <4>1. k + 1 \in 0..Len(od[y])
        BY <1>1, <3>2
      <4>2. QED
        BY <2>1, <4>1
    <3>3. QED
      BY <3>1, <3>2
  <2>3. ASSUME NEW k \in 0..Len(od[y])
        PROVE  /\ fm[At(od[y], y, k)] = At(od[y], y, k + 1)
               /\ y \in Lists => bm[At(od[y], y, k + 1)] = At(od[y], y, k)
    <3>1. x \in Lists \/ bm = bl
      BY HeadsAre
    <3> HIDE DEF Q
    <3>2. fm[At(od[y], y, k)] = At(od[y], y, k + 1)
      BY <1>7, <2>1 DEF Empties, Q
    <3>3. y \in Lists => bm[At(od[y], y, k + 1)] = At(od[y], y, k)
      BY <1>7, <2>2, <3>1 DEF Empties, Q
    <3>4. QED
      BY <3>2, <3>3
  <2>4. QED
    BY <1>1, <1>8, <2>3 DEF Linked
<1>9. Linked(fm, bm, oe[x], x)
  <2>1. /\ At(oe[x], x, 0) = x /\ At(oe[x], x, 1) = L!EndOf(x)
        /\ 0..Len(oe[x]) = {0} /\ 0 + 1 = 1
    BY <1>1, <1>2 DEF At
  <2>2. x \in Lists => L!EndOf(x) = x
    BY HeadsAre
  <2> QED
    BY <2>1, <2>2 DEF Linked, Empties
<1>10. fm \in LinkType /\ bm \in LinkType
  BY HeadsAre DEF Chained, Empties
<1>11. QED
  BY <1>4, <1>5, <1>6, <1>8, <1>9, <1>10 DEF Chained, ListedIs

\* The nodes of r hang from l.
Hung(fl, bl, fm, bm, od, l, r) ==
  /\ fm[l] = IF Len(od[r]) = 0 THEN l ELSE fl[r]
  /\ bm[l] = IF Len(od[r]) = 0 THEN l ELSE bl[r]
  /\ Len(od[r]) # 0 => fm[At(od[r], r, Len(od[r]))] = l /\ bm[At(od[r], r, 1)] = l
  /\ \A k \in 1..Len(od[r]) :
       /\ k # Len(od[r]) => fm[At(od[r], r, k)] = fl[At(od[r], r, k)]
       /\ k # 1 => bm[At(od[r], r, k)] = bl[At(od[r], r, k)]

LEMMA SwapHalf ==
  ASSUME NEW fl, NEW bl, NEW od, Chained(fl, bl, od), NEW fm, NEW bm,
         NEW l \in Lists, NEW r \in Lists, l # r, Hung(fl, bl, fm, bm, od, l, r)
  PROVE  Linked(fm, bm, od[r], l)
<1> DEFINE s == od[r]
           n == Len(s)
<1>1. n \in Nat /\ l \in L!Heads /\ r \in L!Heads
  BY HeadsAre DEF Chained, Ordered
<1>2. \A k \in 0..n :
        fl[At(s, r, k)] = At(s, r, k + 1) /\ bl[At(s, r, k + 1)] = At(s, r, k)
  BY <1>1 DEF Chained, Linked
<1>3. \A k \in 0..n + 1 : At(s, l, k) = IF k = 0 \/ k = n + 1 THEN l ELSE At(s, r, k)
  BY <1>1, HeadsAre DEF At
<1>4. At(s, r, 0) = r /\ At(s, r, n + 1) = r
  BY <1>1, HeadsAre DEF At
<1> HIDE DEF s, n
<1> SUFFICES ASSUME NEW k \in 0..n
             PROVE  fm[At(s, l, k)] = At(s, l, k + 1) /\ bm[At(s, l, k + 1)] = At(s, l, k)
  BY DEF Linked, s, n
<1>5. /\ fm[l] = IF n = 0 THEN l ELSE fl[r]
      /\ bm[l] = IF n = 0 THEN l ELSE bl[r]
      /\ n # 0 => fm[At(s, r, n)] = l /\ bm[At(s, r, 1)] = l
      /\ \A j \in 1..n :
           /\ j # n => fm[At(s, r, j)] = fl[At(s, r, j)]
           /\ j # 1 => bm[At(s, r, j)] = bl[At(s, r, j)]
  BY DEF Hung, s, n
<1>6. fm[At(s, l, k)] = At(s, l, k + 1)
  <2>0. At(s, l, 0) = l /\ At(s, l, n + 1) = l /\ 0 + 1 = 1
    BY <1>1, <1>3
  <2>1. CASE k = 0 /\ n = 0
    BY <1>5, <2>0, <2>1
  <2>2. CASE k = 0 /\ n # 0
    <3>1. fl[r] = At(s, r, 1) /\ 1 \in 0..n + 1 /\ 1 # n + 1 /\ 1 # 0
      BY <1>1, <1>2, <1>4, <2>2
    <3>2. At(s, l, 1) = At(s, r, 1)
      BY <1>3, <3>1
    <3>3. QED
      BY <1>5, <2>0, <2>2, <3>1, <3>2
  <2>3. CASE k # 0 /\ k # n
    <3>1. /\ k \in 1..n /\ k + 1 \in 0..n + 1 /\ k \in 0..n + 1 /\ k # n + 1 /\ k + 1 # n + 1 /\ k + 1 # 0
      BY <1>1, <2>3
    <3>2. At(s, l, k) = At(s, r, k) /\ At(s, l, k + 1) = At(s, r, k + 1)
      BY <1>3, <2>3, <3>1
    <3>3. QED
      BY <1>2, <1>5, <2>3, <3>1, <3>2
  <2>4. CASE k # 0 /\ k = n
    <3>1. k \in 0..n + 1 /\ k # n + 1
      BY <1>1
    <3>2. At(s, l, k) = At(s, r, k)
      BY <1>3, <2>4, <3>1
    <3>3. QED
      BY <1>5, <2>0, <2>4, <3>2
  <2>5. QED
    BY <2>1, <2>2, <2>3, <2>4
<1>7. bm[At(s, l, k + 1)] = At(s, l, k)
  <2>0. At(s, l, 0) = l /\ At(s, l, n + 1) = l /\ 0 + 1 = 1
    BY <1>1, <1>3
  <2>1. CASE k = n /\ n = 0
    BY <1>5, <2>0, <2>1
  <2>2. CASE k = n /\ n # 0
    <3>1. n \in 0..n /\ n \in 0..n + 1 /\ n # n + 1
      BY <1>1
    <3>2. At(s, l, n) = At(s, r, n) /\ bl[r] = At(s, r, n)
      BY <1>2, <1>3, <1>4, <2>2, <3>1
    <3>3. QED
      BY <1>5, <2>0, <2>2, <3>2
  <2>3. CASE k # n /\ k # 0
    <3>1. k + 1 \in 1..n /\ k + 1 # 1 /\ k + 1 \in 0..n + 1 /\ k \in 0..n + 1 /\ k # n + 1 /\ k + 1 # n + 1 /\ k + 1 # 0
      BY <1>1, <2>3
    <3>2. At(s, l, k) = At(s, r, k) /\ At(s, l, k + 1) = At(s, r, k + 1)
      BY <1>3, <2>3, <3>1
    <3>3. QED
      BY <1>2, <1>5, <2>3, <3>1, <3>2
  <2>4. CASE k # n /\ k = 0
    <3>1. n # 0 /\ 1 \in 0..n + 1 /\ 1 # n + 1 /\ 1 # 0
      BY <1>1, <2>4
    <3>2. At(s, l, 1) = At(s, r, 1)
      BY <1>3, <3>1
    <3>3. QED
      BY <1>5, <2>0, <2>4, <3>1, <3>2
  <2>5. QED
    BY <2>1, <2>2, <2>3, <2>4
<1>8. QED
  BY <1>6, <1>7

\* What the head's links say.
LEMMA HeadLinks ==
  ASSUME NEW fl, NEW bl, NEW od, Chained(fl, bl, od), NEW x \in L!Heads
  PROVE  /\ od[x] \in Seq(Links) /\ Len(od[x]) \in Nat
         /\ fl[x] = At(od[x], x, 1) /\ fl[x] = (IF Len(od[x]) = 0 THEN L!EndOf(x) ELSE od[x][1])
         /\ fl[x] = L!EndOf(x) <=> Len(od[x]) = 0
         /\ x \in Lists => bl[x] = At(od[x], x, Len(od[x]))
         /\ \A k \in 1..Len(od[x]) : /\ fl[od[x][k]] = At(od[x], x, k + 1)
                                     /\ x \in Lists => bl[od[x][k]] = At(od[x], x, k - 1)
<1>1. od[x] \in Seq(Links) /\ Len(od[x]) \in Nat /\ Linked(fl, bl, od[x], x)
  BY DEF Chained, Ordered
<1>2. fl[At(od[x], x, 0)] = At(od[x], x, 0 + 1) /\ At(od[x], x, 0) = x
  BY <1>1 DEF Linked, At
<1>3. /\ At(od[x], x, 1) = IF Len(od[x]) = 0 THEN L!EndOf(x) ELSE od[x][1]
      /\ Len(od[x]) # 0 => od[x][1] \in Links
  BY <1>1 DEF At
<1>4. L!EndOf(x) \notin Links
  BY HeadsAre
<1>5. x \in Lists => bl[x] = At(od[x], x, Len(od[x]))
  <2>1. At(od[x], x, Len(od[x]) + 1) = L!EndOf(x)
    BY <1>1 DEF At
  <2>2. QED
    BY <1>1, <2>1, HeadsAre DEF Linked
<1>6. ASSUME NEW k \in 1..Len(od[x])
      PROVE  /\ fl[od[x][k]] = At(od[x], x, k + 1)
             /\ x \in Lists => bl[od[x][k]] = At(od[x], x, k - 1)
  <2> DEFINE m == k - 1
  <2>1. k \in 0..Len(od[x]) /\ m \in 0..Len(od[x]) /\ k = m + 1 /\ At(od[x], x, k) = od[x][k]
    BY <1>1 DEF At
  <2> HIDE DEF m
  <2>2. fl[At(od[x], x, k)] = At(od[x], x, k + 1) /\ (x \in Lists => bl[At(od[x], x, m + 1)] = At(od[x], x, m))
    BY <1>1, <2>1 DEF Linked
  <2>3. QED
    BY <2>1, <2>2 DEF m
<1>7. QED
  BY <1>1, <1>2, <1>3, <1>4, <1>5, <1>6

\* x and y exchanged.
Other(l, r, y) == IF y = l THEN r ELSE IF y = r THEN l ELSE y

LEMMA SwapKeepsOrder ==
  ASSUME NEW od, Ordered(od), NEW l \in Lists, NEW r \in Lists, l # r,
         NEW oe, oe = [od EXCEPT ![l] = od[r], ![r] = od[l]]
  PROVE  /\ Ordered(oe) /\ ListedIs(oe, Listed(od))
         /\ \A y \in L!Heads : Keeps(od[y], oe[y])
<1>1. /\ l \in L!Heads /\ r \in L!Heads /\ od \in [L!Heads -> Seq(Links)]
      /\ oe \in [L!Heads -> Seq(Links)]
      /\ \A y \in L!Heads : Other(l, r, y) \in L!Heads /\ oe[y] = od[Other(l, r, y)]
  BY HeadsAre DEF Ordered, Other
<1>2. \A y \in L!Heads : Other(l, r, Other(l, r, y)) = y
  BY DEF Other
<1>3. \A y, z \in L!Heads : \A j \in 1..Len(od[y]), k \in 1..Len(od[z]) :
        od[y][j] = od[z][k] => y = z /\ j = k
  BY DEF Ordered
<1>4. ASSUME NEW y \in L!Heads, NEW z \in L!Heads, NEW j \in 1..Len(oe[y]), NEW k \in 1..Len(oe[z]),
             oe[y][j] = oe[z][k]
      PROVE  y = z /\ j = k
  <2>1. Other(l, r, y) = Other(l, r, z) /\ j = k
    BY <1>1, <1>3, <1>4
  <2>2. QED
    BY <1>2, <2>1
<1>5. Ordered(oe)
  BY <1>1, <1>4 DEF Ordered
<1>6. Listed(oe) = Listed(od)
  <2>1. \A y \in L!Heads : Elements(oe[y]) = Elements(od[Other(l, r, y)])
    BY <1>1
  <2>2. QED
    BY <1>1, <1>2, <2>1 DEF Listed
<1>7. ASSUME NEW y \in L!Heads PROVE Keeps(od[y], oe[y])
  <2>1. CASE Other(l, r, y) = y
    <3>1. oe[y] = od[y]
      BY <1>1, <2>1
    <3>2. \A k \in 1..Len(od[y]) : k \in Int
      BY <1>1
    <3>3. QED
      BY <1>3, <3>1, <3>2 DEF Keeps
  <2>2. CASE Other(l, r, y) # y
    BY <1>1, <1>3, <2>2 DEF Keeps
  <2>3. QED
    BY <2>1, <2>2
<1>8. QED
  BY <1>5, <1>6, <1>7 DEF ListedIs

LEMMA SwapChain ==
  ASSUME NEW fl, NEW bl, NEW od, Chained(fl, bl, od), NEW l \in Lists, NEW r \in Lists, l # r,
         NEW oe, oe = [od EXCEPT ![l] = od[r], ![r] = od[l]],
         NEW fm, fm = L!Rehang(L!Rehang(fl, l, fl[r] = r, fl[r], bl[r]), r, fl[l] = l, fl[l], bl[l]),
         NEW bm, bm = L!Rehang(L!Rehang(bl, l, fl[r] = r, bl[r], fl[r]), r, fl[l] = l, bl[l], fl[l])
  PROVE  Chained(fm, bm, oe)
<1> DEFINE nl == Len(od[l])
           nr == Len(od[r])
<1>1. /\ Ordered(od) /\ Ordered(oe) /\ l \in L!Heads /\ r \in L!Heads
      /\ oe[l] = od[r] /\ oe[r] = od[l]
      /\ \A y \in L!Heads : y # l /\ y # r => oe[y] = od[y]
  <2>1. Ordered(od) /\ Ordered(oe)
    BY SwapKeepsOrder DEF Chained
  <2>2. QED
    BY <2>1, HeadsAre DEF Ordered
<1>2. /\ nl \in Nat /\ nr \in Nat /\ L!EndOf(l) = l /\ L!EndOf(r) = r
      /\ (fl[l] = l <=> nl = 0) /\ (fl[r] = r <=> nr = 0)
      /\ fl[l] = At(od[l], l, 1) /\ fl[r] = At(od[r], r, 1)
      /\ bl[l] = At(od[l], l, nl) /\ bl[r] = At(od[r], r, nr)
  BY <1>1, HeadLinks, HeadsAre
\* Which of a list's nodes the four writes are at.
<1>3. ASSUME NEW x \in Lists
      PROVE  /\ bl[x] \in L!Addresses /\ fl[x] \in L!Addresses
             /\ \A y \in L!Heads : \A k \in 0..Len(od[y]) :
                  /\ At(od[y], y, k) \in L!Addresses
                  /\ At(od[y], y, k) = x => y = x /\ k = 0
                  /\ At(od[y], y, k) = bl[x] => y = x /\ k = Len(od[x])
             /\ \A y \in Lists : \A k \in 0..Len(od[y]) :
                  /\ At(od[y], y, k + 1) \in L!Addresses
                  /\ At(od[y], y, k + 1) = fl[x] => y = x /\ k = 0
                  /\ At(od[y], y, k + 1) = x => y = x /\ k = Len(od[x])
  <2> DEFINE n == Len(od[x])
  <2>1. x \in L!Heads /\ n \in Nat /\ L!EndOf(x) = x /\ fl[x] = At(od[x], x, 1) /\ bl[x] = At(od[x], x, n)
    BY HeadLinks, HeadsAre
  <2>2. 0 \in 0..n /\ n \in 0..n /\ At(od[x], x, 0) = x /\ At(od[x], x, n + 1) = x /\ 0 + 1 = 1
    BY <2>1 DEF At
  <2>3. fl[x] = At(od[x], x, 0 + 1)
    BY <2>1, <2>2
  <2>4. \A y \in L!Heads : \A k \in 0..Len(od[y]) :
          /\ At(od[y], y, k) = At(od[x], x, 0) => y = x /\ k = 0
          /\ At(od[y], y, k) = At(od[x], x, n) => y = x /\ k = n
          /\ At(od[y], y, k) \in L!Addresses
    <3> HIDE DEF n
    <3>1. SUFFICES ASSUME NEW y \in L!Heads, NEW k \in 0..Len(od[y])
                   PROVE  /\ At(od[y], y, k) = At(od[x], x, 0) => y = x /\ k = 0
                          /\ At(od[y], y, k) = At(od[x], x, n) => y = x /\ k = n
                          /\ At(od[y], y, k) \in L!Addresses
      OBVIOUS
    <3>2. \A j \in 0..Len(od[x]) : At(od[y], y, k) = At(od[x], x, j) => y = x /\ k = j
      BY <1>1, <2>1, NodesApart
    <3>3. At(od[y], y, k) \in L!Addresses
      BY <1>1, NodesApart
    <3>4. QED
      BY <2>2, <3>2, <3>3 DEF n
  <2>5. \A y \in Lists : \A k \in 0..Len(od[y]) :
          /\ At(od[y], y, k + 1) = At(od[x], x, 0 + 1) => y = x /\ k = 0
          /\ At(od[y], y, k + 1) = At(od[x], x, n + 1) => y = x /\ k = n
          /\ At(od[y], y, k + 1) \in L!Addresses
    <3> HIDE DEF n
    <3>1. SUFFICES ASSUME NEW y \in Lists, NEW k \in 0..Len(od[y])
                   PROVE  /\ At(od[y], y, k + 1) = At(od[x], x, 0 + 1) => y = x /\ k = 0
                          /\ At(od[y], y, k + 1) = At(od[x], x, n + 1) => y = x /\ k = n
                          /\ At(od[y], y, k + 1) \in L!Addresses
      OBVIOUS
    <3>2. \A j \in 0..Len(od[x]) : At(od[y], y, k + 1) = At(od[x], x, j + 1) => y = x /\ k = j
      BY <1>1, <2>1, NextsApart
    <3>3. At(od[y], y, k + 1) \in L!Addresses
      BY <1>1, NextsApart
    <3>4. QED
      BY <2>2, <3>2, <3>3 DEF n
  <2>6. bl[x] \in L!Addresses /\ fl[x] \in L!Addresses
    BY <2>1, <2>2, <2>3, <2>4, <2>5
  <2>7. QED
    BY <2>1, <2>2, <2>3, <2>4, <2>5, <2>6
<1>4. /\ \A k \in 1..nr : At(od[r], r, k) \in Links
      /\ \A k \in 1..nl : At(od[l], l, k) \in Links
  BY <1>1 DEF At, Ordered
<1> DEFINE ll == bl[l]
           rl == bl[r]
           lf == fl[l]
           rf == fl[r]
<1>5. /\ fl \in LinkType /\ bl \in LinkType /\ l \in L!Addresses /\ r \in L!Addresses
      /\ ll \in L!Addresses /\ rl \in L!Addresses /\ lf \in L!Addresses /\ rf \in L!Addresses
  BY <1>1, <1>3, HeadsAre DEF Chained
<1>6. /\ 0 \in 0..nl /\ nl \in 0..nl /\ At(od[l], l, 0) = l
      /\ 0 \in 0..nr /\ nr \in 0..nr /\ At(od[r], r, 0) = r
      /\ nl # 0 => nl - 1 \in 0..nl /\ (nl - 1) + 1 = nl
  BY <1>2 DEF At
<1>7. /\ ll # r /\ rl # l /\ ll # rl /\ (ll = l <=> nl = 0) /\ (rl = r <=> nr = 0)
      /\ lf # r /\ rf # l /\ lf # rf /\ (lf = l <=> nl = 0) /\ (rf = r <=> nr = 0)
  <2>1. ll # r /\ rl # l /\ ll # rl /\ (ll = l <=> nl = 0) /\ (rl = r <=> nr = 0)
    BY <1>1, <1>2, <1>3, <1>6
  <2>2. lf # r /\ rf # l /\ lf # rf
    <3>1. lf = At(od[l], l, 0 + 1) /\ rf = At(od[r], r, 0 + 1)
      BY <1>2
    <3>2. QED
      BY <1>1, <1>3, <1>6, <3>1
  <2>3. QED
    BY <1>2, <2>1, <2>2
<1>8. /\ fm \in LinkType
      /\ fm[l] = (IF nr = 0 THEN l ELSE rf) /\ fm[r] = (IF nl = 0 THEN r ELSE lf)
      /\ nr # 0 => fm[rl] = l
      /\ nl # 0 => fm[ll] = r
      /\ \A c \in L!Addresses \ {l, r, ll, rl} : fm[c] = fl[c]
  <2> HIDE DEF ll, rl, lf, rf, nl, nr
  <2> DEFINE g == IF nr = 0 THEN [fl EXCEPT ![l] = l] ELSE [fl EXCEPT ![l] = rf, ![rl] = l]
  <2>2. fm = IF nl = 0 THEN [g EXCEPT ![r] = r] ELSE [g EXCEPT ![r] = lf, ![ll] = r]
    BY <1>2 DEF L!Rehang, ll, rl, lf, rf
  <2>3. CASE nr = 0
    BY <1>5, <1>7, <2>2, <2>3 DEF LinkType
  <2>4. CASE nr # 0
    BY <1>5, <1>7, <2>2, <2>4 DEF LinkType
  <2>5. QED
    BY <2>3, <2>4
<1>9. /\ bm \in LinkType
      /\ bm[l] = (IF nr = 0 THEN l ELSE rl) /\ bm[r] = (IF nl = 0 THEN r ELSE ll)
      /\ nr # 0 => bm[rf] = l
      /\ nl # 0 => bm[lf] = r
      /\ \A c \in L!Addresses \ {l, r, lf, rf} : bm[c] = bl[c]
  <2> HIDE DEF ll, rl, lf, rf, nl, nr
  <2> DEFINE g == IF nr = 0 THEN [bl EXCEPT ![l] = l] ELSE [bl EXCEPT ![l] = rl, ![rf] = l]
  <2>2. bm = IF nl = 0 THEN [g EXCEPT ![r] = r] ELSE [g EXCEPT ![r] = ll, ![lf] = r]
    BY <1>2 DEF L!Rehang, ll, rl, lf, rf
  <2>3. CASE nr = 0
    BY <1>5, <1>7, <2>2, <2>3 DEF LinkType
  <2>4. CASE nr # 0
    BY <1>5, <1>7, <2>2, <2>4 DEF LinkType
  <2>5. QED
    BY <2>3, <2>4
<1>10. ASSUME NEW x \in {l, r}, NEW k \in 1..Len(od[x])
       PROVE  /\ k # Len(od[x]) => fm[At(od[x], x, k)] = fl[At(od[x], x, k)]
              /\ k # 1 => bm[At(od[x], x, k)] = bl[At(od[x], x, k)]
  <2>0. x \in Lists /\ x \in L!Heads /\ Len(od[x]) \in Nat
    BY <1>1, <1>2
  <2>1. k \in 0..Len(od[x]) /\ k - 1 \in 0..Len(od[x]) /\ (k - 1) + 1 = k /\ k # 0
    BY <2>0
  <2>2. At(od[x], x, k) \in L!Addresses /\ At(od[x], x, k) # l /\ At(od[x], x, k) # r
    BY <1>3, <2>0, <2>1
  <2>3. k # Len(od[x]) => At(od[x], x, k) # ll /\ At(od[x], x, k) # rl
    BY <1>3, <2>0, <2>1
  <2>4. k # 1 => At(od[x], x, k) # lf /\ At(od[x], x, k) # rf
    <3> DEFINE m == k - 1
    <3>1. m \in 0..Len(od[x]) /\ m + 1 = k /\ (k # 1 => m # 0)
      BY <2>1
    <3> HIDE DEF m
    <3>2. k # 1 => At(od[x], x, m + 1) # lf /\ At(od[x], x, m + 1) # rf
      BY <1>3, <2>0, <3>1
    <3>3. QED
      BY <3>1, <3>2
  <2> HIDE DEF ll, rl, lf, rf
  <2>5. QED
    BY <1>8, <1>9, <2>2, <2>3, <2>4
<1>11. Linked(fm, bm, oe[l], l) /\ Linked(fm, bm, oe[r], r)
  <2>1. Hung(fl, bl, fm, bm, od, l, r)
    BY <1>2, <1>8, <1>9, <1>10, SMTT(30) DEF Hung
  <2>2. Hung(fl, bl, fm, bm, od, r, l)
    BY <1>2, <1>8, <1>9, <1>10 DEF Hung
  <2>3. Linked(fm, bm, od[r], l)
    BY <2>1, SwapHalf
  <2>4. Linked(fm, bm, od[l], r)
    BY <2>2, SwapHalf
  <2>5. QED
    BY <1>1, <2>3, <2>4, SMTT(30)
<1>12. ASSUME NEW y \in L!Heads, y # l, y # r PROVE Linked(fm, bm, oe[y], y)
  <2>1. SUFFICES ASSUME NEW k \in 0..Len(od[y])
                 PROVE  /\ fm[At(od[y], y, k)] = At(od[y], y, k + 1)
                        /\ y \in Lists => bm[At(od[y], y, k + 1)] = At(od[y], y, k)
    BY <1>1, <1>12, ZenonT(60) DEF Linked
  <2>2. At(od[y], y, k) \in L!Addresses \ {l, r, ll, rl}
    BY <1>3, <1>12
  <2>3. y \in Lists => At(od[y], y, k + 1) \in L!Addresses \ {l, r, lf, rf}
    BY <1>3, <1>12
  <2>4. /\ fl[At(od[y], y, k)] = At(od[y], y, k + 1)
        /\ y \in Lists => bl[At(od[y], y, k + 1)] = At(od[y], y, k)
    BY DEF Chained, Linked
  <2> HIDE DEF ll, rl, lf, rf
  <2>5. QED
    BY <1>8, <1>9, <2>2, <2>3, <2>4
<1>13. QED
  BY <1>1, <1>8, <1>9, <1>11, <1>12 DEF Chained

Joined(s, u, t) ==
  /\ t \in Seq(Links) /\ Len(t) = Len(s) + Len(u)
  /\ \A k \in 1..Len(t) : t[k] = IF k <= Len(s) THEN s[k] ELSE u[k - Len(s)]

LEMMA JoinIs ==
  ASSUME NEW s \in Seq(Links), NEW u \in Seq(Links) PROVE Joined(s, u, s \o u)
<1>1. /\ s \o u \in Seq(Links) /\ Len(s \o u) = Len(s) + Len(u)
      /\ Len(s) \in Nat /\ Len(u) \in Nat
  OBVIOUS
<1>2. \A k \in 1..Len(s) + Len(u) : (s \o u)[k] = IF k <= Len(s) THEN s[k] ELSE u[k - Len(s)]
  OBVIOUS
<1>3. QED
  BY <1>1, <1>2 DEF Joined

LEMMA AppendKeepsOrder ==
  ASSUME NEW od, Ordered(od), NEW l \in Lists, NEW r \in Lists, l # r,
         NEW t, Joined(od[r], od[l], t), NEW oe, oe = [od EXCEPT ![l] = t, ![r] = <<>>]
  PROVE  /\ Ordered(oe) /\ ListedIs(oe, Listed(od))
         /\ \A y \in L!Heads : Keeps(od[y], oe[y])
<1> DEFINE nl == Len(od[l])
           nr == Len(od[r])
<1>1. /\ l \in L!Heads /\ r \in L!Heads /\ od \in [L!Heads -> Seq(Links)]
      /\ od[l] \in Seq(Links) /\ od[r] \in Seq(Links) /\ nl \in Nat /\ nr \in Nat
  BY HeadsAre DEF Ordered
<1>2. /\ t \in Seq(Links) /\ Len(t) = nr + nl
      /\ \A k \in 1..nr + nl : t[k] = IF k <= nr THEN od[r][k] ELSE od[l][k - nr]
  BY DEF Joined
<1>3. /\ oe \in [L!Heads -> Seq(Links)] /\ oe[l] = t /\ oe[r] = <<>>
      /\ \A y \in L!Heads : y # l /\ y # r => oe[y] = od[y]
  <2> DEFINE Q == Seq(Links)
  <2>1. <<>> \in Q /\ t \in Q /\ od \in [L!Heads -> Q] /\ l \in L!Heads /\ r \in L!Heads
    BY <1>1, <1>2
  <2> HIDE DEF Q
  <2>2. /\ oe \in [L!Heads -> Q] /\ oe[l] = t /\ oe[r] = <<>>
        /\ \A y \in L!Heads : y # l /\ y # r => oe[y] = od[y]
    BY <2>1
  <2>3. QED
    BY <2>2 DEF Q
<1>4. \A y, z \in L!Heads : \A j \in 1..Len(od[y]), k \in 1..Len(od[z]) :
        od[y][j] = od[z][k] => y = z /\ j = k
  BY DEF Ordered
<1> DEFINE list(y, k) == IF y = l /\ k <= nr THEN r ELSE y
           from(y, k) == IF y = l /\ k > nr THEN k - nr ELSE k
<1>5. ASSUME NEW y \in L!Heads, NEW k \in 1..Len(oe[y])
      PROVE  /\ y # r /\ k \in Nat /\ list(y, k) \in L!Heads
             /\ from(y, k) \in 1..Len(od[list(y, k)]) /\ oe[y][k] = od[list(y, k)][from(y, k)]
  <2>1. CASE y = r
    BY <1>3, <2>1
  <2>2. CASE y # l /\ y # r
    BY <1>1, <1>3, <2>2
  <2>3. CASE y = l /\ k <= nr
    BY <1>1, <1>2, <1>3, <2>3
  <2>4. CASE y = l /\ k > nr
    <3>1. /\ k \in 1..nr + nl /\ oe[y][k] = od[l][k - nr] /\ k - nr \in 1..nl /\ l # r
          /\ list(y, k) = l /\ from(y, k) = k - nr
      BY <1>1, <1>2, <1>3, <2>4
    <3>2. QED
      BY <1>1, <2>4, <3>1
  <2>5. QED
    BY <1>1, <1>3, <2>1, <2>2, <2>3, <2>4
<1> HIDE DEF list, from
<1>6. ASSUME NEW y \in L!Heads, NEW z \in L!Heads, NEW j \in 1..Len(oe[y]), NEW k \in 1..Len(oe[z]),
             oe[y][j] = oe[z][k]
      PROVE  y = z /\ j = k
  <2>1. /\ list(y, j) \in L!Heads /\ from(y, j) \in 1..Len(od[list(y, j)]) /\ y # r /\ j \in Nat
        /\ list(z, k) \in L!Heads /\ from(z, k) \in 1..Len(od[list(z, k)]) /\ z # r /\ k \in Nat
        /\ od[list(y, j)][from(y, j)] = od[list(z, k)][from(z, k)]
    BY <1>5, <1>6
  <2>2. list(y, j) = list(z, k) /\ from(y, j) = from(z, k)
    BY <1>4, <2>1
  <2>3. QED
    BY <1>1, <2>1, <2>2 DEF list, from
<1>7. Ordered(oe)
  BY <1>3, <1>6 DEF Ordered
<1>8. Listed(oe) = Listed(od)
  <2>1. ASSUME NEW y \in L!Heads, NEW k \in 1..Len(oe[y]) PROVE oe[y][k] \in Listed(od)
    <3>1. list(y, k) \in L!Heads /\ from(y, k) \in 1..Len(od[list(y, k)]) /\ oe[y][k] = od[list(y, k)][from(y, k)]
      BY <1>5
    <3>2. oe[y] \in Seq(Links)
      BY <1>3
    <3>3. oe[y][k] \in Links
      BY <3>2
    <3>4. QED
      BY <3>1, <3>3 DEF Listed, Elements
  <2>2. ASSUME NEW y \in L!Heads, NEW k \in 1..Len(od[y]) PROVE od[y][k] \in Listed(oe)
    <3>0. od[y][k] \in Links
      BY <1>1
    <3>1. CASE y # l /\ y # r
      BY <1>3, <3>0, <3>1 DEF Listed, Elements
    <3>2. CASE y = r
      <4>1. k \in 1..Len(oe[l]) /\ oe[l][k] = od[y][k]
        BY <1>1, <1>2, <1>3, <3>2
      <4>2. QED
        BY <1>1, <3>0, <4>1 DEF Listed, Elements
    <3>3. CASE y = l
      <4>1. k + nr \in 1..Len(oe[l]) /\ oe[l][k + nr] = od[y][k]
        <5>1. k + nr \in 1..nr + nl /\ ~(k + nr <= nr) /\ (k + nr) - nr = k
          BY <1>1, <3>3
        <5>2. QED
          BY <1>2, <1>3, <3>3, <5>1
      <4>2. QED
        BY <1>1, <3>0, <4>1 DEF Listed, Elements
    <3>4. QED
      BY <3>1, <3>2, <3>3
  <2>3. Listed(oe) \subseteq Listed(od)
    BY <2>1, ZenonT(60) DEF Listed, Elements
  <2>4. Listed(od) \subseteq Listed(oe)
    BY <2>2, ZenonT(60) DEF Listed, Elements
  <2>5. QED
    BY <2>3, <2>4
<1>9. ASSUME NEW y \in L!Heads PROVE Keeps(od[y], oe[y])
  <2> SUFFICES ASSUME NEW j \in 1..Len(od[y]), NEW k \in 1..Len(od[y]),
                      NEW m \in 1..Len(oe[y]), NEW n \in 1..Len(oe[y]),
                      od[y][j] = oe[y][m], od[y][k] = oe[y][n], m <= n
               PROVE  j <= k
    BY DEF Keeps
  <2>1. /\ list(y, m) \in L!Heads /\ from(y, m) \in 1..Len(od[list(y, m)])
        /\ oe[y][m] = od[list(y, m)][from(y, m)] /\ m \in Nat
        /\ list(y, n) \in L!Heads /\ from(y, n) \in 1..Len(od[list(y, n)])
        /\ oe[y][n] = od[list(y, n)][from(y, n)] /\ n \in Nat
    BY <1>5
  <2>2. j = from(y, m) /\ k = from(y, n) /\ y = list(y, m) /\ y = list(y, n)
    BY <1>4, <2>1, SMTT(30)
  <2>3. QED
    BY <1>1, <2>1, <2>2 DEF from, list
<1>10. QED
  BY <1>7, <1>8, <1>9 DEF ListedIs

LEMMA AppendChain ==
  ASSUME NEW fl, NEW bl, NEW od, Chained(fl, bl, od), NEW l \in Lists, NEW r \in Lists, l # r, fl[r] # r,
         NEW t, Joined(od[r], od[l], t), NEW oe, oe = [od EXCEPT ![l] = t, ![r] = <<>>],
         NEW fm, fm = [fl EXCEPT ![bl[r]] = fl[l], ![l] = fl[r], ![r] = r],
         NEW bm, bm = [bl EXCEPT ![fl[l]] = bl[r], ![fl[r]] = l, ![r] = r]
  PROVE  Chained(fm, bm, oe)
<1> DEFINE nl == Len(od[l])
           nr == Len(od[r])
           lf == fl[l]
           rf == fl[r]
           rl == bl[r]
<1>1. /\ Ordered(od) /\ Ordered(oe) /\ l \in L!Heads /\ r \in L!Heads
      /\ oe[l] = t /\ oe[r] = <<>>
      /\ \A y \in L!Heads : y # l /\ y # r => oe[y] = od[y]
  <2>1. Ordered(od) /\ Ordered(oe)
    BY AppendKeepsOrder DEF Chained
  <2>2. QED
    BY <2>1, HeadsAre DEF Ordered
<1>2. /\ nl \in Nat /\ nr \in Nat /\ nr # 0 /\ L!EndOf(l) = l /\ L!EndOf(r) = r
      /\ lf = At(od[l], l, 1) /\ rf = At(od[r], r, 1) /\ rl = At(od[r], r, nr)
      /\ od[l] \in Seq(Links) /\ od[r] \in Seq(Links)
  BY <1>1, HeadLinks, HeadsAre
<1>3. /\ t \in Seq(Links) /\ Len(t) = nr + nl
      /\ \A k \in 1..nr + nl : t[k] = IF k <= nr THEN od[r][k] ELSE od[l][k - nr]
  BY DEF Joined
<1>4. \A y \in L!Heads : \A k \in 0..Len(od[y]) :
        /\ At(od[y], y, k) \in L!Addresses
        /\ At(od[y], y, k) = l => y = l /\ k = 0
        /\ At(od[y], y, k) = r => y = r /\ k = 0
        /\ At(od[y], y, k) = rl => y = r /\ k = nr
  <2>1. SUFFICES ASSUME NEW y \in L!Heads, NEW k \in 0..Len(od[y])
                 PROVE  /\ At(od[y], y, k) \in L!Addresses
                        /\ At(od[y], y, k) = l => y = l /\ k = 0
                        /\ At(od[y], y, k) = r => y = r /\ k = 0
                        /\ At(od[y], y, k) = rl => y = r /\ k = nr
    OBVIOUS
  <2>2. \A x \in L!Heads : \A j \in 0..Len(od[x]) :
          At(od[y], y, k) = At(od[x], x, j) => y = x /\ k = j
    BY <1>1, NodesApart
  <2>3. At(od[y], y, k) \in L!Addresses
    BY <1>1, NodesApart
  <2>4. /\ 0 \in 0..Len(od[l]) /\ At(od[l], l, 0) = l
        /\ 0 \in 0..Len(od[r]) /\ At(od[r], r, 0) = r /\ nr \in 0..Len(od[r])
    BY <1>2 DEF At
  <2>5. QED
    BY <1>1, <1>2, <2>2, <2>3, <2>4
<1>5. \A y \in Lists : \A k \in 0..Len(od[y]) :
        /\ At(od[y], y, k + 1) \in L!Addresses
        /\ At(od[y], y, k + 1) = lf => y = l /\ k = 0
        /\ At(od[y], y, k + 1) = rf => y = r /\ k = 0
        /\ At(od[y], y, k + 1) = r => y = r /\ k = nr
  <2>1. SUFFICES ASSUME NEW y \in Lists, NEW k \in 0..Len(od[y])
                 PROVE  /\ At(od[y], y, k + 1) \in L!Addresses
                        /\ At(od[y], y, k + 1) = lf => y = l /\ k = 0
                        /\ At(od[y], y, k + 1) = rf => y = r /\ k = 0
                        /\ At(od[y], y, k + 1) = r => y = r /\ k = nr
    OBVIOUS
  <2>2. \A x \in Lists : \A j \in 0..Len(od[x]) :
          At(od[y], y, k + 1) = At(od[x], x, j + 1) => y = x /\ k = j
    BY <1>1, NextsApart
  <2>3. At(od[y], y, k + 1) \in L!Addresses
    BY <1>1, NextsApart
  <2>4. /\ 0 \in 0..Len(od[l]) /\ 0 \in 0..Len(od[r]) /\ nr \in 0..Len(od[r])
        /\ At(od[r], r, nr + 1) = r /\ lf = At(od[l], l, 0 + 1) /\ rf = At(od[r], r, 0 + 1)
    BY <1>2 DEF At
  <2>5. QED
    BY <2>2, <2>3, <2>4
<1>6. /\ 0 \in 0..nl /\ nr \in 0..nr /\ 0 \in 0..nr /\ nr - 1 \in 0..nr /\ (nr - 1) + 1 = nr
      /\ At(od[l], l, 0) = l /\ At(od[r], r, 0) = r /\ 0 + 1 = 1
  BY <1>2 DEF At
<1>7. /\ fl \in LinkType /\ bl \in LinkType /\ l \in L!Addresses /\ r \in L!Addresses
      /\ rl \in L!Addresses /\ lf \in L!Addresses /\ rf \in L!Addresses
  BY <1>1, <1>2, <1>4, <1>5, <1>6, HeadsAre, SMTT(30) DEF Chained
<1>8. rl # l /\ rl # r /\ rf # lf /\ rf # r /\ lf # r
  <2>1. rl # l /\ rl # r
    BY <1>1, <1>2, <1>4, <1>6
  <2>2. rf # lf /\ rf # r
    BY <1>1, <1>2, <1>5, <1>6
  <2>3. lf # r
    BY <1>1, <1>2, <1>5, <1>6
  <2>4. QED
    BY <2>1, <2>2, <2>3
<1>9. /\ fm \in LinkType /\ fm[l] = rf /\ fm[r] = r /\ fm[rl] = lf
      /\ \A c \in L!Addresses \ {l, r, rl} : fm[c] = fl[c]
  <2> HIDE DEF rl, lf, rf
  <2>1. fm = [fl EXCEPT ![rl] = lf, ![l] = rf, ![r] = r]
    BY DEF rl, lf, rf
  <2>2. QED
    BY <1>7, <1>8, <2>1 DEF LinkType
<1>10. /\ bm \in LinkType /\ bm[lf] = rl /\ bm[r] = r /\ bm[rf] = l
       /\ \A c \in L!Addresses \ {lf, r, rf} : bm[c] = bl[c]
  <2> HIDE DEF rl, lf, rf
  <2>1. bm = [bl EXCEPT ![lf] = rl, ![rf] = l, ![r] = r]
    BY DEF rl, lf, rf
  <2>2. QED
    BY <1>7, <1>8, <2>1 DEF LinkType
<1>11. \A y \in L!Heads : \A k \in 0..Len(od[y]) :
        /\ fl[At(od[y], y, k)] = At(od[y], y, k + 1)
        /\ y \in Lists => bl[At(od[y], y, k + 1)] = At(od[y], y, k)
  BY DEF Chained, Linked
<1>0. nl = Len(od[l]) /\ nr = Len(od[r])
  OBVIOUS
<1> HIDE DEF rl, lf, rf, nl, nr
<1>12. ASSUME NEW y \in L!Heads, y # l, y # r PROVE Linked(fm, bm, oe[y], y)
  <2>1. SUFFICES ASSUME NEW k \in 0..Len(od[y])
                 PROVE  /\ fm[At(od[y], y, k)] = At(od[y], y, k + 1)
                        /\ y \in Lists => bm[At(od[y], y, k + 1)] = At(od[y], y, k)
    BY <1>1, <1>12 DEF Linked
  <2>2. At(od[y], y, k) \in L!Addresses \ {l, r, rl}
    BY <1>4, <1>12
  <2>3. y \in Lists => At(od[y], y, k + 1) \in L!Addresses \ {lf, r, rf}
    BY <1>5, <1>12
  <2>4. QED
    BY <1>9, <1>10, <1>11, <2>2, <2>3
<1>13. Linked(fm, bm, oe[r], r)
  <2>1. Len(oe[r]) = 0 /\ ~(1 <= 0) /\ 1 # 0
    BY <1>1
  <2>2. At(oe[r], r, 0) = r
    BY DEF At
  <2>3. At(oe[r], r, 1) = r
    BY <1>2, <2>1 DEF At
  <2>4. SUFFICES ASSUME NEW k \in 0..0
                 PROVE  fm[At(oe[r], r, k)] = At(oe[r], r, k + 1) /\ bm[At(oe[r], r, k + 1)] = At(oe[r], r, k)
    BY <2>1 DEF Linked
  <2>5. k = 0 /\ k + 1 = 1
    OBVIOUS
  <2>6. QED
    BY <1>9, <1>10, <2>2, <2>3, <2>5
<1>14. \A k \in 0..nr + nl + 1 :
         At(t, l, k) = IF k = 0 THEN l ELSE IF k <= nr THEN At(od[r], r, k) ELSE At(od[l], l, k - nr)
  <2>1. ASSUME NEW k \in 0..nr + nl + 1
        PROVE  At(t, l, k) = IF k = 0 THEN l ELSE IF k <= nr THEN At(od[r], r, k) ELSE At(od[l], l, k - nr)
    <3>1. CASE k <= nr
      <4>1. k # 0 => k \in 1..nr + nl /\ k <= nr + nl
        BY <1>2, <3>1
      <4>2. QED
        BY <1>0, <1>3, <3>1, <4>1 DEF At
    <3>2. CASE k > nr
      <4>1. k # 0 /\ k - nr # 0 /\ (k <= nr + nl <=> k - nr <= nl) /\ ~(k <= nr)
        BY <1>2, <3>2
      <4>2. k <= nr + nl => t[k] = od[l][k - nr]
        BY <1>2, <1>3, <3>2
      <4>3. QED
        BY <1>0, <1>2, <1>3, <4>1, <4>2 DEF At
    <3>3. QED
      BY <1>2, <3>1, <3>2
  <2>2. QED
    BY <2>1
<1>15. Linked(fm, bm, oe[l], l)
  <2>1. SUFFICES ASSUME NEW k \in 0..nr + nl
                 PROVE  fm[At(t, l, k)] = At(t, l, k + 1) /\ bm[At(t, l, k + 1)] = At(t, l, k)
    BY <1>1, <1>3 DEF Linked
  <2>2. k \in 0..nr + nl + 1 /\ k + 1 \in 0..nr + nl + 1 /\ k + 1 # 0 /\ nr > 0 /\ k \in Nat
    BY <1>2
  <2>3. CASE k = 0
    <3>1. At(t, l, k) = l /\ At(t, l, k + 1) = rf
      BY <1>2, <1>14, <2>2, <2>3
    <3>2. QED
      BY <1>9, <1>10, <3>1
  <2>4. CASE k # 0 /\ k < nr
    <3>1. At(t, l, k) = At(od[r], r, k) /\ At(t, l, k + 1) = At(od[r], r, k + 1)
      BY <1>2, <1>14, <2>2, <2>4
    <3>2. k \in 0..Len(od[r]) /\ k # nr
      BY <1>0, <1>2, <2>2, <2>4
    <3>3. At(od[r], r, k) \in L!Addresses \ {l, r, rl}
      BY <1>0, <1>1, <1>4, <2>4, <3>2
    <3>4. At(od[r], r, k + 1) \in L!Addresses \ {lf, r, rf}
      BY <1>0, <1>1, <1>5, <2>4, <3>2
    <3>5. QED
      BY <1>0, <1>1, <1>9, <1>10, <1>11, <3>1, <3>2, <3>3, <3>4
  <2>5. CASE k = nr
    <3>1. k <= nr /\ ~(k + 1 <= nr) /\ (k + 1) - nr = 1 /\ k # 0
      BY <1>2, <2>5
    <3>2. At(t, l, k) = rl /\ At(t, l, k + 1) = lf
      BY <1>2, <1>14, <2>2, <2>5, <3>1
    <3>3. QED
      BY <1>9, <1>10, <3>2
  <2>6. CASE k > nr
    <3> DEFINE m == k - nr
    <3>1. ~(k <= nr) /\ ~(k + 1 <= nr) /\ k # 0 /\ (k + 1) - nr = m + 1 /\ m \in 0..Len(od[l]) /\ m # 0
      <4>1. k \in Nat /\ nr \in Nat /\ nl \in Nat /\ k > nr /\ k <= nr + nl
        BY <1>2, <2>6
      <4>2. ~(k <= nr) /\ ~(k + 1 <= nr) /\ k # 0 /\ (k + 1) - nr = m + 1 /\ m \in 0..nl /\ m # 0
        BY <4>1
      <4>3. QED
        BY <1>0, <4>2
    <3>2. At(t, l, k) = At(od[l], l, m) /\ At(t, l, k + 1) = At(od[l], l, m + 1)
      BY <1>14, <2>2, <3>1
    <3> HIDE DEF m
    <3>3. At(od[l], l, m) \in L!Addresses \ {l, r, rl}
      BY <1>0, <1>1, <1>4, <3>1
    <3>4. At(od[l], l, m + 1) \in L!Addresses \ {lf, r, rf}
      BY <1>0, <1>1, <1>5, <3>1
    <3>5. QED
      BY <1>0, <1>1, <1>9, <1>10, <1>11, <3>1, <3>2, <3>3, <3>4
  <2>7. QED
    BY <1>2, <2>2, <2>3, <2>4, <2>5, <2>6
<1>16. QED
  BY <1>1, <1>9, <1>10, <1>12, <1>13, <1>15 DEF Chained

-----------------------------------------------------------------------------
(* Lists: what holds between two calls                                      *)

ListRefs(od, hd, v, i) == (IF i \in Listed(od) THEN 1 ELSE 0) + Count(Holders, hd, i) + One(v, i)
RefsRight(od, ct, hd, v) ==
  /\ ct \in [Links -> Nat] /\ hd \in [Holders -> Links \cup {NULL}] /\ v \in Links \cup {NULL}
  /\ \A i \in Links : ct[i] = ListRefs(od, hd, v, i)
NullsRight(fl, bl, ct, od) ==
  \A i \in Links : ct[i] > 0 /\ i \notin Listed(od) => fl[i] = NULL /\ bl[i] = NULL
StacksRight(od, hd, v) ==
  \A s \in Stacks : \A i \in Elements(od[s]) : v # i /\ \A h \in Holders : hd[h] # i
\* du is visited up to the position c of the walk along s.
Visited(s, x, c, du, mt) ==
  /\ du \subseteq Elements(s)
  /\ \/ c = L!EndOf(x) /\ du \subseteq mt
     \/ \E p \in 1..Len(s) : s[p] = c /\ \A j \in 1..p : s[j] \in du => s[j] \in mt
WalkHolds(wk, du, mt, sy, od) ==
  /\ wk.on \in BOOLEAN /\ sy \in BOOLEAN
  /\ wk.on \/ wk = L!Idle
  /\ wk.on =>
       /\ wk.head \in L!Heads /\ wk.cur \in L!Addresses \cup {NULL}
       /\ wk.value = IF wk.head \in Lists /\ wk.cur \in Links THEN wk.cur ELSE NULL
  /\ wk.on /\ ~sy => Visited(od[wk.head], wk.head, wk.cur, du, mt)
ListHolds(fl, bl, ct, hd, wk, od, du, mt, sy) ==
  /\ Chained(fl, bl, od) /\ RefsRight(od, ct, hd, wk.value)
  /\ NullsRight(fl, bl, ct, od) /\ StacksRight(od, hd, wk.value)
  /\ WalkHolds(wk, du, mt, sy, od)

\* The nodes of the lists are heads and what is listed.
LEMMA NodeIn ==
  ASSUME NEW od, Ordered(od), NEW x \in L!Heads
  PROVE  \A k \in 0..Len(od[x]) + 1 : At(od[x], x, k) \in L!Heads \cup Listed(od) \cup {NULL}
<1>1. od[x] \in Seq(Links) /\ Len(od[x]) \in Nat
  BY DEF Ordered
<1>2. \A k \in 1..Len(od[x]) : od[x][k] \in Links /\ od[x][k] \in Listed(od)
  BY <1>1 DEF Listed, Elements
<1>3. L!EndOf(x) \in L!Heads \cup {NULL}
  BY HeadsAre
<1>4. QED
  BY <1>1, <1>2, <1>3 DEF At

LEMMA RefsFacts ==
  ASSUME NEW od, NEW ct, NEW hd, NEW v, RefsRight(od, ct, hd, v), NEW i \in Links
  PROVE  /\ ct[i] \in Nat /\ Count(Holders, hd, i) \in Nat /\ One(v, i) \in Nat
         /\ ct[i] = 0 => i \notin Listed(od) /\ v # i /\ \A h \in Holders : hd[h] # i
         /\ i \notin Listed(od) /\ v # i /\ (\A h \in Holders : hd[h] # i) => ct[i] = 0
         /\ i \in Listed(od) \/ v = i \/ (\E h \in Holders : hd[h] = i) => ct[i] > 0
<1>1. /\ ct[i] \in Nat /\ Count(Holders, hd, i) \in Nat /\ One(v, i) \in Nat
      /\ \A h \in Holders : hd[h] = i => Count(Holders, hd, i) > 0
      /\ (\A h \in Holders : hd[h] # i) => Count(Holders, hd, i) = 0
  BY CountFacts, HeadsAre, OneIs DEF RefsRight
<1>2. One(v, i) = IF v = i THEN 1 ELSE 0
  BY DEF One
<1>3. ct[i] = (IF i \in Listed(od) THEN 1 ELSE 0) + Count(Holders, hd, i) + One(v, i)
  BY DEF RefsRight, ListRefs
<1>4. QED
  BY <1>1, <1>2, <1>3

\* A handle is given the reference to i that c has in hand, and drops its own.
LEMMA AssignCounts ==
  ASSUME NEW od, NEW hd \in [Holders -> Links \cup {NULL}], NEW v \in Links \cup {NULL},
         NEW c \in [Links -> Int], NEW i \in Links \cup {NULL}, NEW h \in Holders,
         \A j \in Links : c[j] = ListRefs(od, hd, v, j) + One(i, j),
         NEW he, he = [hd EXCEPT ![h] = i], NEW ct, ct = L!Release(c, hd[h])
  PROVE  RefsRight(od, ct, he, v)
<1>1. he \in [Holders -> Links \cup {NULL}] /\ ChangedAt(Holders, hd, he, h) /\ he[h] = i
  BY DEF ChangedAt
<1>2. ct \in [Links -> Int] /\ \A j \in Links : ct[j] = c[j] - One(hd[h], j)
  BY NullAssumption DEF L!Release, One
<1>3. ASSUME NEW j \in Links
      PROVE  ct[j] = ListRefs(od, he, v, j) /\ ct[j] \in Nat
  <2>1. One(v, j) \in Nat /\ One(hd[h], j) \in Nat /\ One(i, j) \in Nat /\ IsFiniteSet(Holders)
    BY HeadsAre, OneIs
  <2>2. Count(Holders, hd, j) \in Nat /\ Count(Holders, he, j) \in Nat
    BY <2>1, CountFacts
  <2>3. Count(Holders, he, j) = Count(Holders, hd, j) - One(hd[h], j) + One(he[h], j)
    <3>1. IsFiniteSet(Holders) /\ ChangedAt(Holders, hd, he, h)
      BY <1>1, <2>1
    <3>2. QED
      BY ONLY <3>1, CountUpdate
  <2> DEFINE L0 == IF j \in Listed(od) THEN 1 ELSE 0
  <2>4. L0 \in Nat /\ ListRefs(od, hd, v, j) = L0 + Count(Holders, hd, j) + One(v, j)
        /\ ListRefs(od, he, v, j) = L0 + Count(Holders, he, j) + One(v, j)
    BY DEF ListRefs
  <2> HIDE DEF L0
  <2>5. c[j] = L0 + Count(Holders, hd, j) + One(v, j) + One(i, j) /\ ct[j] = c[j] - One(hd[h], j)
    BY <1>2, <2>4
  <2>6. QED
    BY <1>1, <2>1, <2>2, <2>3, <2>4, <2>5
<1>4. QED
  BY <1>1, <1>2, <1>3 DEF RefsRight

\* A walk goes on from its position p, or begins at the head.
LEMMA GoesOn ==
  ASSUME NEW fl, NEW bl, NEW od, Chained(fl, bl, od), NEW x \in L!Heads,
         NEW p \in 0..Len(od[x]), NEW du \in SUBSET Elements(od[x]), NEW mt,
         \A j \in 1..p : od[x][j] \in du => od[x][j] \in mt, NEW c, c = At(od[x], x, p + 1),
         NEW mu, mt \subseteq mu, c \in mu
  PROVE  Visited(od[x], x, c, du, mu)
<1> DEFINE s == od[x]
           n == Len(s)
<1>1. n \in Nat /\ Ordered(od)
  BY DEF Chained, Ordered
<1>2. CASE p = n
  <2>1. c = L!EndOf(x)
    BY <1>1, <1>2 DEF At
  <2>2. du \subseteq mu
    BY <1>2 DEF Elements
  <2>3. QED
    BY <2>1, <2>2 DEF Visited
<1>3. CASE p # n
  <2> DEFINE q == p + 1
  <2>1. q \in 1..n /\ s[q] = c /\ p \in Nat
    BY <1>1, <1>3 DEF At
  <2>2. ASSUME NEW j \in 1..q, s[j] \in du PROVE s[j] \in mu
    <3>1. j = q \/ j \in 1..p
      BY <2>1
    <3>2. QED
      BY <2>1, <2>2, <3>1
  <2>3. QED
    BY <2>1, <2>2 DEF Visited
<1>4. QED
  BY <1>2, <1>3

ListNow == ListHolds(flink, blink, refs, taken, walker, order, due, met, strayed)

\* A step that keeps the order of what stays keeps an iteration, too.
LEMMA Watched ==
  ASSUME ListNow, Chained(flink', blink', order'), \A x \in L!Heads : Keeps(order[x], order'[x]), L!Watch
  PROVE  WalkHolds(walker', due', met', strayed', order') /\ walker' = walker
<1> USE DEF ListNow, ListHolds
<1>1. /\ walker' = walker /\ met' = met
      /\ strayed' = (strayed \/ (walker.on /\ walker.cur \in L!In(walker.head) \ L!In(walker.head)'))
      /\ due' = IF walker.on THEN due \cap L!In(walker.head)' ELSE due
  BY DEF L!Watch
<1>2. CASE walker.on
  <2> DEFINE x == walker.head
             s == order[x]
             t == order'[x]
             c == walker.cur
  <2>1. x \in L!Heads /\ strayed \in BOOLEAN
    BY <1>2 DEF WalkHolds
  <2>2. L!In(walker.head) = Elements(s) /\ L!In(walker.head)' = Elements(t)
    BY <1>1, <2>1, WalkMeets DEF L!In
  <2>3. SUFFICES ASSUME ~strayed' PROVE Visited(t, x, c, due', met')
    BY <1>1, <2>1 DEF WalkHolds
  <2>4. ~strayed /\ (c \in Elements(s) => c \in Elements(t)) /\ due' = due \cap Elements(t) /\ met' = met
    BY <1>1, <1>2, <2>2, <2>3
  <2>5. Visited(s, x, c, due, met)
    BY <1>2, <2>4 DEF WalkHolds
  <2>6. Keeps(s, t)
    BY <2>1
  <2>7. CASE c = L!EndOf(x) /\ due \subseteq met
    BY <2>4, <2>7 DEF Visited
  <2>8. ASSUME NEW p \in 1..Len(s), s[p] = c, \A j \in 1..p : s[j] \in due => s[j] \in met
        PROVE  Visited(t, x, c, due', met')
    <3>1. PICK q \in 1..Len(t) : t[q] = c
      BY <2>4, <2>8 DEF Elements
    <3>2. ASSUME NEW j \in 1..q, t[j] \in due' PROVE t[j] \in met'
      <4>1. PICK k \in 1..Len(s) : s[k] = t[j]
        BY <2>4, <2>5, <3>2 DEF Visited, Elements
      <4>2. j \in 1..Len(t) /\ j <= q /\ k \in Nat /\ p \in Nat
        BY <2>1 DEF Chained, Ordered
      <4>3. k <= p
        BY <2>6, <2>8, <3>1, <4>1, <4>2 DEF Keeps
      <4>4. k \in 1..p /\ s[k] \in due
        BY <2>4, <3>2, <4>1, <4>2, <4>3
      <4>5. QED
        BY <2>4, <2>8, <4>1, <4>4
    <3>3. QED
      BY <2>4, <3>1, <3>2 DEF Visited
  <2>9. QED
    BY <2>5, <2>7, <2>8 DEF Visited
<1>3. CASE ~walker.on
  BY <1>1, <1>3 DEF WalkHolds
<1>4. QED
  BY <1>2, <1>3

LEMMA Pushed ==
  ASSUME ListNow, NEW l \in Lists, NEW h \in Holders, NEW i \in Links, NEW p \in 0..Len(order[l]),
         L!Push(i, h, At(order[l], l, p), At(order[l], l, p + 1)),
         NEW t, InsertedAt(order[l], t, i, p), order' = [order EXCEPT ![l] = t]
  PROVE  ListNow'
<1>1. /\ Chained(flink, blink, order) /\ RefsRight(order, refs, taken, walker.value)
      /\ NullsRight(flink, blink, refs, order) /\ StacksRight(order, taken, walker.value)
      /\ Ordered(order) /\ order \in [L!Heads -> Seq(Links)] /\ l \in L!Heads /\ l \notin Stacks
  BY HeadsAre DEF ListNow, ListHolds, Chained, Ordered
<1> DEFINE a == At(order[l], l, p)
           b == At(order[l], l, p + 1)
           c == [refs EXCEPT ![i] = 2]
<1>2. /\ refs[i] = 0 /\ L!Watch
      /\ flink' = [flink EXCEPT ![a] = i, ![i] = b] /\ blink' = [blink EXCEPT ![b] = i, ![i] = a]
      /\ taken' = [taken EXCEPT ![h] = i] /\ refs' = L!Release(c, taken[h])
  BY DEF L!Push, L!Insert, L!Assign
<1>3. i \notin Listed(order) /\ walker.value # i /\ \A g \in Holders : taken[g] # i
  BY <1>1, <1>2, RefsFacts
<1>4. /\ Ordered(order') /\ Listed(order') = Listed(order) \cup {i}
      /\ \A y \in L!Heads : Keeps(order[y], order'[y])
  <2>1. /\ Ordered(order) /\ l \in L!Heads /\ i \in Links /\ i \notin Listed(order)
        /\ p \in 0..Len(order[l]) /\ InsertedAt(order[l], t, i, p) /\ order' = [order EXCEPT ![l] = t]
    BY <1>1, <1>3
  <2>2. /\ Ordered(order') /\ ListedIs(order', Listed(order) \cup {i})
        /\ \A y \in L!Heads : Keeps(order[y], order'[y])
    BY ONLY <2>1, InsertKeepsOrder
  <2>3. QED
    BY <2>2 DEF ListedIs
<1>5. Chained(flink', blink', order')
  <2>1. /\ flink' = [flink EXCEPT ![At(order[l], l, p)] = i, ![i] = At(order[l], l, p + 1)]
        /\ blink' = [blink EXCEPT ![At(order[l], l, p + 1)] = i, ![i] = At(order[l], l, p)]
    BY <1>2
  <2>2. QED
    BY <1>1, <1>3, <2>1, InsertChain
<1>6. WalkHolds(walker', due', met', strayed', order') /\ walker' = walker
  BY <1>2, <1>4, <1>5, Watched
<1>7. /\ refs \in [Links -> Nat] /\ taken \in [Holders -> Links \cup {NULL}]
      /\ walker.value \in Links \cup {NULL}
  BY <1>1 DEF RefsRight
<1>8. ASSUME NEW j \in Links PROVE c[j] = ListRefs(order', taken, walker.value, j) + One(i, j)
  <2>1. refs[j] = ListRefs(order, taken, walker.value, j)
    BY <1>1 DEF RefsRight
  <2>2. CASE j = i
    <3>1. Count(Holders, taken, i) = 0 /\ One(walker.value, i) = 0 /\ One(i, i) = 1
      BY <1>3, CountFacts, HeadsAre DEF One
    <3>2. i \in Listed(order') /\ c[i] = 2
      BY <1>4, <1>7
    <3>3. QED
      BY <2>2, <3>1, <3>2 DEF ListRefs
  <2>3. CASE j # i
    <3>1. c[j] = refs[j] /\ refs[j] \in Nat /\ One(i, j) = 0 /\ (j \in Listed(order') <=> j \in Listed(order))
      BY <1>4, <1>7, <2>3 DEF One
    <3>2. ListRefs(order', taken, walker.value, j) = refs[j]
      BY <2>1, <3>1 DEF ListRefs
    <3>3. QED
      BY <3>1, <3>2
  <2>4. QED
    BY <2>2, <2>3
<1>9. RefsRight(order', refs', taken', walker.value)
  <2>1. c \in [Links -> Int] /\ i \in Links \cup {NULL}
    BY <1>7
  <2> HIDE DEF c
  <2>2. QED
    BY <1>2, <1>7, <1>8, <2>1, AssignCounts
<1>10. NullsRight(flink', blink', refs', order')
  <2> SUFFICES ASSUME NEW j \in Links, refs'[j] > 0, j \notin Listed(order')
               PROVE  flink'[j] = NULL /\ blink'[j] = NULL
    BY DEF NullsRight
  <2>1. j # i /\ j \notin Listed(order)
    BY <1>4
  <2>2. refs[j] > 0
    <3>1. refs'[j] = c[j] \/ refs'[j] = c[j] - 1
      BY <1>2, <1>7 DEF L!Release
    <3>2. c[j] = refs[j] /\ refs[j] \in Nat
      BY <1>7, <2>1
    <3> HIDE DEF c
    <3>3. QED
      BY <3>1, <3>2
  <2>3. a # j /\ b # j
    <3>1. p \in 0..Len(order[l]) + 1 /\ p + 1 \in 0..Len(order[l]) + 1
      BY <1>1
    <3>2. a \in L!Heads \cup Listed(order) \cup {NULL} /\ b \in L!Heads \cup Listed(order) \cup {NULL}
      BY <1>1, <3>1, NodeIn
    <3>3. QED
      BY <2>1, <3>2, HeadsAre
  <2>4. j \in L!Addresses /\ flink \in LinkType /\ blink \in LinkType
    BY <1>1, HeadsAre DEF Chained
  <2> HIDE DEF a, b
  <2>5. flink'[j] = flink[j] /\ blink'[j] = blink[j]
    BY <1>2, <2>1, <2>3, <2>4 DEF LinkType
  <2>6. QED
    BY <1>1, <2>1, <2>2, <2>5 DEF NullsRight
<1>11. StacksRight(order', taken', walker.value)
  <2> SUFFICES ASSUME NEW s \in Stacks, NEW j \in Elements(order'[s])
               PROVE  walker.value # j /\ \A g \in Holders : taken'[g] # j
    BY DEF StacksRight
  <2>1. s \in L!Heads /\ order'[s] = order[s]
    BY <1>1, HeadsAre
  <2>2. j # i
    <3>1. j \in Listed(order)
      BY <1>1, <2>1 DEF Listed, Elements
    <3>2. QED
      BY <1>3, <3>1
  <2>3. \A g \in Holders : taken'[g] = i \/ taken'[g] = taken[g]
    BY <1>2, <1>7
  <2>4. QED
    BY <1>1, <2>1, <2>2, <2>3 DEF StacksRight
<1>12. QED
  BY <1>5, <1>6, <1>9, <1>10, <1>11 DEF ListNow, ListHolds

LEMMA PushHolds ==
  ASSUME ListNow, NEW l \in Lists, NEW h \in Holders, L!PushBack(l, h) \/ L!PushFront(l, h)
  PROVE  ListNow'
<1>1. /\ order[l] \in Seq(Links) /\ Len(order[l]) \in Nat /\ L!EndOf(l) = l
      /\ blink[l] = At(order[l], l, Len(order[l])) /\ flink[l] = At(order[l], l, 1)
  <2>1. l \in L!Heads /\ Chained(flink, blink, order)
    BY HeadsAre DEF ListNow, ListHolds
  <2>2. QED
    BY <2>1, HeadLinks, HeadsAre
<1>2. CASE L!PushBack(l, h)
  <2> DEFINE n == Len(order[l])
  <2>1. PICK i \in Links : L!Push(i, h, blink[l], l) /\ order' = [order EXCEPT ![l] = Append(@, i)]
    BY <1>2 DEF L!PushBack
  <2>2. n \in 0..Len(order[l]) /\ At(order[l], l, n + 1) = l
    BY <1>1 DEF At
  <2>3. InsertedAt(order[l], Append(order[l], i), i, n)
    BY <1>1 DEF InsertedAt
  <2>4. /\ L!Push(i, h, At(order[l], l, n), At(order[l], l, n + 1))
        /\ order' = [order EXCEPT ![l] = Append(order[l], i)]
    BY <1>1, <2>1, <2>2
  <2> HIDE DEF n
  <2>5. QED
    BY <2>2, <2>3, <2>4, Pushed
<1>3. CASE L!PushFront(l, h)
  <2>1. PICK i \in Links : L!Push(i, h, l, flink[l]) /\ order' = [order EXCEPT ![l] = <<i>> \o @]
    BY <1>3 DEF L!PushFront
  <2>2. 0 \in 0..Len(order[l]) /\ At(order[l], l, 0) = l /\ 0 + 1 = 1
    BY <1>1 DEF At
  <2>3. InsertedAt(order[l], <<i>> \o order[l], i, 0)
    BY <1>1 DEF InsertedAt
  <2>4. /\ L!Push(i, h, At(order[l], l, 0), At(order[l], l, 0 + 1))
        /\ order' = [order EXCEPT ![l] = <<i>> \o order[l]]
    BY <1>1, <2>1, <2>2
  <2>5. QED
    BY <2>2, <2>3, <2>4, Pushed
<1>4. QED
  BY <1>2, <1>3

\* What is left when the item at p has been taken out and refs' is known.
LEMMA Unlinked ==
  ASSUME ListNow, NEW l \in Lists, NEW p \in 1..Len(order[l]), NEW i, i = order[l][p],
         L!Unlink(i), L!Watch, NEW t, RemovedAt(order[l], t, p), order' = [order EXCEPT ![l] = t],
         RefsRight(order', refs', taken', walker.value),
         \A g \in Holders : taken'[g] \in {taken[g], i, NULL},
         \A j \in Links : refs'[j] > 0 /\ j # i => refs[j] > 0
  PROVE  ListNow'
<1>1. /\ Chained(flink, blink, order) /\ NullsRight(flink, blink, refs, order)
      /\ StacksRight(order, taken, walker.value)
      /\ Ordered(order) /\ order \in [L!Heads -> Seq(Links)] /\ l \in L!Heads /\ l \notin Stacks
      /\ flink \in LinkType /\ blink \in LinkType
  BY HeadsAre DEF ListNow, ListHolds, Chained, Ordered
<1> DEFINE a == At(order[l], l, p - 1)
           b == At(order[l], l, p + 1)
<1>2. /\ i \in Links /\ flink[i] = b /\ blink[i] = a /\ Len(order[l]) \in Nat
      /\ \A s \in L!Heads : i \in Elements(order[s]) => s = l
  <2>1. flink[i] = b /\ blink[i] = a
    BY <1>1, HeadLinks
  <2>2. i \in Links /\ Len(order[l]) \in Nat /\ \A s \in L!Heads : i \in Elements(order[s]) => s = l
    BY <1>1 DEF Ordered, Elements
  <2>3. QED
    BY <2>1, <2>2
<1>3. /\ a \in L!Heads \cup Listed(order) \cup {NULL} /\ b \in L!Heads \cup Listed(order) \cup {NULL}
      /\ a \in L!Addresses /\ b \in L!Addresses /\ i \in L!Addresses
  <2>1. p - 1 \in 0..Len(order[l]) /\ p \in 0..Len(order[l]) /\ p - 1 \in 0..Len(order[l]) + 1 /\ p + 1 \in 0..Len(order[l]) + 1
    BY <1>2
  <2>2. a \in L!Heads \cup Listed(order) \cup {NULL} /\ b \in L!Heads \cup Listed(order) \cup {NULL}
    BY <1>1, <2>1, NodeIn
  <2>3. a \in L!Addresses
    BY <1>1, <2>1, NodesApart
  <2>4. b \in L!Addresses
    BY <1>1, <2>1, NextsApart
  <2>5. QED
    BY <1>2, <2>2, <2>3, <2>4, HeadsAre
<1> HIDE DEF a, b
<1>4. /\ flink' = [flink EXCEPT ![a] = b, ![i] = NULL]
      /\ blink' = [blink EXCEPT ![b] = a, ![i] = NULL]
  BY <1>2 DEF L!Unlink
<1>5. a # i /\ b # i
  <2> DEFINE q == p - 1
  <2>1. /\ p \in 0..Len(order[l]) /\ q \in 0..Len(order[l]) /\ q # p
        /\ At(order[l], l, p) = i /\ At(order[l], l, q + 1) = i
    BY <1>2 DEF At
  <2> HIDE DEF q
  <2>2. \A k \in 0..Len(order[l]) : At(order[l], l, k) = At(order[l], l, p) => k = p
    BY <1>1, <2>1, NodesApart
  <2>3. \A k \in 0..Len(order[l]) : At(order[l], l, k + 1) = At(order[l], l, q + 1) => k = q
    BY <1>1, <2>1, NextsApart
  <2>4. At(order[l], l, q) # i /\ At(order[l], l, p + 1) # i
    BY <2>1, <2>2, <2>3
  <2>5. QED
    BY <2>4 DEF q, a, b
<1>6. /\ Skips(flink, flink', a, i, b) /\ Skips(blink, blink', b, i, a)
      /\ flink'[i] = NULL /\ blink'[i] = NULL
  BY <1>1, <1>3, <1>4, <1>5 DEF Skips, LinkType
<1>7. /\ Ordered(order') /\ Listed(order') = Listed(order) \ {i}
      /\ \A y \in L!Heads : Keeps(order[y], order'[y])
  <2>1. /\ Ordered(order) /\ l \in L!Heads /\ p \in 1..Len(order[l])
        /\ RemovedAt(order[l], t, p) /\ order' = [order EXCEPT ![l] = t]
    BY <1>1
  <2>2. /\ Ordered(order') /\ ListedIs(order', Listed(order) \ {order[l][p]})
        /\ \A y \in L!Heads : Keeps(order[y], order'[y])
    BY ONLY <2>1, RemoveKeepsOrder
  <2>3. QED
    BY <2>2 DEF ListedIs
<1>8. Chained(flink', blink', order')
  <2>1. /\ Skips(flink, flink', At(order[l], l, p - 1), order[l][p], At(order[l], l, p + 1))
        /\ l \in Lists => Skips(blink, blink', At(order[l], l, p + 1), order[l][p], At(order[l], l, p - 1))
        /\ l \in Stacks => blink' = blink
    BY <1>1, <1>6 DEF a, b
  <2>2. QED
    BY <1>1, <2>1, RemoveChain
<1>9. WalkHolds(walker', due', met', strayed', order') /\ walker' = walker
  BY <1>7, <1>8, Watched
<1>10. NullsRight(flink', blink', refs', order')
  <2> SUFFICES ASSUME NEW j \in Links, refs'[j] > 0, j \notin Listed(order')
               PROVE  flink'[j] = NULL /\ blink'[j] = NULL
    BY DEF NullsRight
  <2>1. CASE j = i
    BY <1>6, <2>1
  <2>2. CASE j # i
    <3>1. j \notin Listed(order) /\ refs[j] > 0
      BY <1>7, <2>2
    <3>2. j # a /\ j # b /\ j \in L!Addresses
      BY <1>3, <3>1, HeadsAre
    <3>3. flink'[j] = flink[j] /\ blink'[j] = blink[j]
      BY <1>6, <2>2, <3>2 DEF Skips
    <3>4. QED
      BY <1>1, <3>1, <3>3 DEF NullsRight
  <2>3. QED
    BY <2>1, <2>2
<1>11. StacksRight(order', taken', walker.value)
  <2> SUFFICES ASSUME NEW s \in Stacks, NEW j \in Elements(order'[s])
               PROVE  walker.value # j /\ \A g \in Holders : taken'[g] # j
    BY DEF StacksRight
  <2>1. s \in L!Heads /\ s # l /\ order'[s] = order[s]
    BY <1>1, HeadsAre
  <2>2. j # i /\ j # NULL
    <3>1. j \in Links
      BY <1>1, <2>1 DEF Elements
    <3>2. QED
      BY <1>2, <2>1, <3>1, NullAssumption
  <2>3. QED
    BY <1>1, <2>1, <2>2 DEF StacksRight
<1>12. QED
  BY <1>8, <1>9, <1>10, <1>11 DEF ListNow, ListHolds

LEMMA PopFrontHolds ==
  ASSUME ListNow, NEW l \in Lists, NEW h \in Holders, L!PopFront(l, h), flink[l] # l
  PROVE  ListNow'
<1> DEFINE i == flink[l]
           s == order[l]
           c == L!Release(L!Retain(refs, i), i)
<1>1. /\ L!Unlink(i) /\ L!Watch /\ order' = [order EXCEPT ![l] = Tail(s)]
      /\ taken' = [taken EXCEPT ![h] = i] /\ refs' = L!Release(c, taken[h])
  BY DEF L!PopFront, L!Assign
<1>2. /\ Chained(flink, blink, order) /\ Ordered(order) /\ l \in L!Heads
      /\ RefsRight(order, refs, taken, walker.value)
      /\ refs \in [Links -> Nat] /\ taken \in [Holders -> Links \cup {NULL}]
      /\ walker.value \in Links \cup {NULL}
  BY HeadsAre DEF ListNow, ListHolds, Chained, RefsRight
<1>3. /\ s \in Seq(Links) /\ Len(s) \in Nat /\ 1 \in 1..Len(s) /\ i = s[1] /\ i \in Links
  <2>1. /\ s \in Seq(Links) /\ Len(s) \in Nat /\ (i = L!EndOf(l) <=> Len(s) = 0)
        /\ i = (IF Len(s) = 0 THEN L!EndOf(l) ELSE s[1])
    BY <1>2, HeadLinks
  <2>2. Len(s) # 0
    BY <2>1, HeadsAre
  <2>3. QED
    BY <2>1, <2>2
<1>4. RemovedAt(s, Tail(s), 1)
  BY <1>3 DEF RemovedAt
<1>5. Ordered(order') /\ Listed(order') = Listed(order) \ {i}
  <2>1. /\ Ordered(order) /\ l \in L!Heads /\ 1 \in 1..Len(order[l])
        /\ RemovedAt(order[l], Tail(s), 1) /\ order' = [order EXCEPT ![l] = Tail(s)]
    BY <1>1, <1>2, <1>3, <1>4
  <2>2. Ordered(order') /\ ListedIs(order', Listed(order) \ {order[l][1]})
    BY ONLY <2>1, RemoveKeepsOrder
  <2>3. QED
    BY <1>3, <2>2 DEF ListedIs
<1>6. i \in Listed(order)
  BY <1>2, <1>3 DEF Listed, Elements
<1> HIDE DEF i
<1>7. c = refs
  <2>1. i # NULL /\ i \in Links /\ refs \in [Links -> Nat]
    BY <1>2, <1>3, NullAssumption
  <2>2. c = [[refs EXCEPT ![i] = @ + 1] EXCEPT ![i] = @ - 1]
    BY <2>1 DEF L!Release, L!Retain
  <2>3. c \in [Links -> Int] /\ \A j \in Links : c[j] = refs[j]
    BY ONLY <2>1, <2>2
  <2> HIDE DEF c
  <2>4. QED
    BY <2>1, <2>3
<1>8. ASSUME NEW j \in Links PROVE refs[j] = ListRefs(order', taken, walker.value, j) + One(i, j)
  <2>1. /\ refs[j] = (IF j \in Listed(order) THEN 1 ELSE 0) + Count(Holders, taken, j) + One(walker.value, j)
        /\ Count(Holders, taken, j) \in Nat /\ One(walker.value, j) \in Nat
    BY <1>2, RefsFacts DEF RefsRight, ListRefs
  <2>2. One(i, j) = IF i = j THEN 1 ELSE 0
    BY DEF One
  <2>3. QED
    BY <1>5, <1>6, <2>1, <2>2 DEF ListRefs
<1>9. RefsRight(order', refs', taken', walker.value)
  <2>1. /\ refs \in [Links -> Int] /\ i \in Links \cup {NULL} /\ refs' = L!Release(refs, taken[h])
        /\ taken \in [Holders -> Links \cup {NULL}] /\ walker.value \in Links \cup {NULL}
        /\ taken' = [taken EXCEPT ![h] = i] /\ h \in Holders
    BY <1>1, <1>2, <1>3, <1>7
  <2>2. QED
    BY ONLY <1>8, <2>1, AssignCounts
<1>10. \A g \in Holders : taken'[g] \in {taken[g], i, NULL}
  BY <1>1, <1>2
<1>11. \A j \in Links : refs'[j] > 0 /\ j # i => refs[j] > 0
  <2>1. \A j \in Links : refs'[j] = refs[j] \/ refs'[j] = refs[j] - 1
    BY <1>1, <1>2, <1>7 DEF L!Release
  <2>2. QED
    BY <1>2, <2>1
<1>12. QED
  <2>1. i = order[l][1]
    BY <1>3
  <2> HIDE DEF c, s
  <2>2. RemovedAt(order[l], Tail(s), 1) /\ 1 \in 1..Len(order[l])
    BY <1>3, <1>4 DEF s
  <2>3. QED
    BY <1>1, <1>9, <1>10, <1>11, <2>1, <2>2, Unlinked

LEMMA WithoutIs ==
  ASSUME NEW s \in Seq(Links), NEW i
  PROVE  /\ i \notin Elements(s) => L!Without(s, i) = s
         /\ \A p \in 1..Len(s) : s[p] = i /\ (\A k \in 1..Len(s) : s[k] = i => k = p) =>
              RemovedAt(s, L!Without(s, i), p)
<1>1. DOMAIN s = 1..Len(s) /\ Len(s) \in Nat
  OBVIOUS
<1>2. i \in Elements(s) <=> i \in L!Range(s)
  BY <1>1 DEF Elements, L!Range
<1>3. i \notin Elements(s) => L!Without(s, i) = s
  BY <1>2 DEF L!Without
<1>4. ASSUME NEW p \in 1..Len(s), s[p] = i, \A k \in 1..Len(s) : s[k] = i => k = p
      PROVE  RemovedAt(s, L!Without(s, i), p)
  <2> DEFINE k == CHOOSE j \in DOMAIN s : s[j] = i
             u == SubSeq(s, 1, p - 1)
             v == SubSeq(s, p + 1, Len(s))
  <2>1. k = p
    BY <1>1, <1>4
  <2>2. L!Without(s, i) = u \o v
    BY <1>2, <1>4, <2>1 DEF L!Without, Elements
  <2>3. /\ u \in Seq(Links) /\ Len(u) = p - 1 /\ \A j \in 1..p - 1 : u[j] = s[j]
    BY <1>1
  <2>5. p \in Nat /\ p >= 1 /\ p <= Len(s)
    BY <1>1
  <2>4. /\ v \in Seq(Links) /\ Len(v) = Len(s) - p /\ \A j \in 1..Len(s) - p : v[j] = s[p + j]
    <3> DEFINE q == p + 1
    <3>1. q \in 1..Len(s) + 1 /\ Len(s) - q + 1 = Len(s) - p /\ \A j \in Int : q + j - 1 = p + j
      BY <1>1, <2>5
    <3> HIDE DEF q
    <3>2. SubSeq(s, q, Len(s)) \in Seq(Links)
      BY <1>1, <3>1
    <3>3. Len(SubSeq(s, q, Len(s))) = Len(s) - q + 1
      BY <1>1, <3>1
    <3>4. \A j \in 1..Len(s) - q + 1 : SubSeq(s, q, Len(s))[j] = s[q + j - 1]
      BY <1>1, <3>1
    <3>5. v = SubSeq(s, q, Len(s))
      BY DEF q
    <3> HIDE DEF v
    <3>6. QED
      BY <3>1, <3>2, <3>3, <3>4, <3>5
  <2> HIDE DEF u, v
  <2>6. /\ u \o v \in Seq(Links) /\ Len(u \o v) = Len(u) + Len(v)
        /\ \A j \in 1..Len(u \o v) : (u \o v)[j] = IF j <= Len(u) THEN u[j] ELSE v[j - Len(u)]
    BY <2>3, <2>4, JoinIs DEF Joined
  <2> DEFINE w == u \o v
  <2>7. /\ w \in Seq(Links) /\ Len(w) = Len(s) - 1
        /\ \A j \in 1..Len(s) - 1 : w[j] = IF j <= p - 1 THEN u[j] ELSE v[j - (p - 1)]
    BY <1>1, <2>3, <2>4, <2>5, <2>6
  <2> HIDE DEF w
  <2>8. ASSUME NEW j \in 1..Len(s) - 1 PROVE w[j] = IF j < p THEN s[j] ELSE s[j + 1]
    <3>1. CASE j < p
      <4>1. j \in 1..p - 1 /\ j <= p - 1
        BY <1>1, <2>5, <3>1
      <4>2. QED
        BY <2>3, <2>7, <3>1, <4>1
    <3>2. CASE ~(j < p)
      <4> DEFINE m == j - (p - 1)
      <4>1. m \in 1..Len(s) - p /\ ~(j <= p - 1) /\ p + m = j + 1
        BY <1>1, <2>5, <3>2
      <4>2. w[j] = v[m]
        BY <2>7, <4>1
      <4> HIDE DEF m
      <4>3. v[m] = s[p + m]
        BY <2>4, <4>1
      <4>4. QED
        BY <3>2, <4>1, <4>2, <4>3
    <3>3. QED
      BY <3>1, <3>2
  <2>9. QED
    BY <2>2, <2>7, <2>8 DEF RemovedAt, w
<1>5. QED
  BY <1>3, <1>4

LEMMA RemoveHolds ==
  ASSUME ListNow, NEW h \in Holders, L!Remove(h)
  PROVE  ListNow'
<1> DEFINE i == taken[h]
<1>1. /\ i # NULL /\ flink[i] # NULL /\ L!Unlink(i) /\ refs' = L!Release(refs, i)
      /\ order' = [x \in L!Heads |-> L!Without(order[x], i)] /\ taken' = taken /\ L!Watch
  BY DEF L!Remove
<1>2. /\ Chained(flink, blink, order) /\ Ordered(order) /\ order \in [L!Heads -> Seq(Links)]
      /\ RefsRight(order, refs, taken, walker.value) /\ NullsRight(flink, blink, refs, order)
      /\ StacksRight(order, taken, walker.value)
      /\ refs \in [Links -> Nat] /\ taken \in [Holders -> Links \cup {NULL}]
      /\ walker.value \in Links \cup {NULL}
  BY DEF ListNow, ListHolds, Chained, Ordered, RefsRight
<1>3. i \in Links /\ refs[i] > 0
  <2>1. i \in Links
    BY <1>1, <1>2
  <2>2. QED
    BY <1>2, <2>1, RefsFacts
<1>4. i \in Listed(order)
  BY <1>1, <1>2, <1>3 DEF NullsRight
<1>5. PICK l \in L!Heads : i \in Elements(order[l])
  BY <1>4 DEF Listed
<1>6. l \in Lists
  BY <1>2, <1>5, HeadsAre DEF StacksRight
<1>7. PICK p \in 1..Len(order[l]) : order[l][p] = i
  BY <1>5 DEF Elements
<1> DEFINE t == L!Without(order[l], i)
<1>8. RemovedAt(order[l], t, p)
  <2>1. order[l] \in Seq(Links) /\ \A k \in 1..Len(order[l]) : order[l][k] = i => k = p
    BY <1>2, <1>7 DEF Ordered
  <2>2. QED
    BY <1>7, <2>1, WithoutIs
<1>9. order' = [order EXCEPT ![l] = t]
  <2>1. ASSUME NEW x \in L!Heads, x # l PROVE L!Without(order[x], i) = order[x]
    <3>1. order[x] \in Seq(Links) /\ i \notin Elements(order[x])
      <4>1. \A k \in 1..Len(order[x]) : order[x][k] # order[l][p]
        BY <1>2, <2>1 DEF Ordered
      <4>2. QED
        BY <1>2, <1>7, <4>1 DEF Elements
    <3>2. QED
      BY <3>1, WithoutIs
  <2>2. [order EXCEPT ![l] = t] = [x \in L!Heads |-> IF x = l THEN t ELSE order[x]]
    BY <1>2
  <2>3. QED
    BY <1>1, <2>1, <2>2
<1> HIDE DEF t, i
<1>10. Ordered(order') /\ Listed(order') = Listed(order) \ {i}
  <2>1. /\ Ordered(order) /\ l \in L!Heads /\ p \in 1..Len(order[l])
        /\ RemovedAt(order[l], t, p) /\ order' = [order EXCEPT ![l] = t]
    BY <1>2, <1>8, <1>9
  <2>2. Ordered(order') /\ ListedIs(order', Listed(order) \ {order[l][p]})
    BY ONLY <2>1, RemoveKeepsOrder
  <2>3. QED
    BY <1>7, <2>2 DEF ListedIs
<1>11. refs' = [refs EXCEPT ![i] = @ - 1]
  BY <1>1 DEF L!Release
<1>12. ASSUME NEW j \in Links PROVE refs'[j] = ListRefs(order', taken, walker.value, j) /\ refs'[j] \in Nat
  <2>0. Count(Holders, taken, j) \in Nat /\ One(walker.value, j) \in Nat
    BY <1>2, RefsFacts
  <2>1. /\ refs[j] = (IF j \in Listed(order) THEN 1 ELSE 0) + Count(Holders, taken, j) + One(walker.value, j)
        /\ Count(Holders, taken, j) \in Nat /\ One(walker.value, j) \in Nat
    BY <1>2, <2>0 DEF RefsRight, ListRefs
  <2>2. refs'[j] = IF j = i THEN refs[j] - 1 ELSE refs[j]
    BY <1>2, <1>11
  <2>3. QED
    BY <1>4, <1>10, <2>1, <2>2 DEF ListRefs
<1>13. RefsRight(order', refs', taken', walker.value)
  <2>1. refs' \in [Links -> Nat]
    BY <1>2, <1>11, <1>12
  <2>2. QED
    BY <1>1, <1>2, <1>12, <2>1 DEF RefsRight
<1>14. \A g \in Holders : taken'[g] \in {taken[g], i, NULL}
  BY <1>1
<1>15. \A j \in Links : refs'[j] > 0 /\ j # i => refs[j] > 0
  BY <1>2, <1>11
<1>16. QED
  BY <1>1, <1>6, <1>7, <1>8, <1>9, <1>13, <1>14, <1>15, Unlinked

\* A handle drops what it has.
LEMMA DropHolds ==
  ASSUME ListNow, NEW h \in Holders, L!PushFails(h)
  PROVE  ListNow'
<1>1. /\ taken' = [taken EXCEPT ![h] = NULL] /\ refs' = L!Release(refs, taken[h])
      /\ UNCHANGED <<flink, blink, walker, order, due, met, strayed>>
  BY DEF L!PushFails, L!Assign, L!ghosts
<1>2. /\ RefsRight(order, refs, taken, walker.value)
      /\ refs \in [Links -> Int] /\ \A j \in Links : refs[j] \in Nat
      /\ taken \in [Holders -> Links \cup {NULL}] /\ walker.value \in Links \cup {NULL}
      /\ NullsRight(flink, blink, refs, order) /\ StacksRight(order, taken, walker.value)
  BY DEF ListNow, ListHolds, RefsRight
<1>3. ASSUME NEW j \in Links PROVE refs[j] = ListRefs(order, taken, walker.value, j) + One(NULL, j)
  <2>1. refs[j] = ListRefs(order, taken, walker.value, j) /\ refs[j] \in Nat
    BY <1>2 DEF RefsRight
  <2>2. One(NULL, j) = 0
    BY NullAssumption DEF One
  <2>3. QED
    BY <2>1, <2>2
<1>4. RefsRight(order, refs', taken', walker.value)
  <2>1. /\ refs \in [Links -> Int] /\ NULL \in Links \cup {NULL} /\ h \in Holders
        /\ taken \in [Holders -> Links \cup {NULL}] /\ walker.value \in Links \cup {NULL}
        /\ taken' = [taken EXCEPT ![h] = NULL] /\ refs' = L!Release(refs, taken[h])
    BY <1>1, <1>2
  <2>2. QED
    BY ONLY <1>3, <2>1, AssignCounts
<1>5. NullsRight(flink, blink, refs', order)
  <2>1. \A j \in Links : refs'[j] = refs[j] \/ refs'[j] = refs[j] - 1
    BY <1>1, <1>2 DEF L!Release
  <2>2. QED
    BY <1>2, <2>1 DEF NullsRight
<1>6. StacksRight(order, taken', walker.value)
  <2>1. \A g \in Holders : taken'[g] = taken[g] \/ taken'[g] = NULL
    BY <1>1, <1>2
  <2>2. \A s \in Stacks : \A j \in Elements(order[s]) : j # NULL
    <3>1. \A s \in Stacks : order[s] \in Seq(Links)
      BY HeadsAre DEF ListNow, ListHolds, Chained, Ordered
    <3>2. QED
      BY <3>1, NullAssumption DEF Elements
  <2>3. QED
    BY <1>2, <2>1, <2>2 DEF StacksRight
<1>7. QED
  BY <1>1, <1>4, <1>5, <1>6 DEF ListNow, ListHolds

LEMMA ClearHolds ==
  ASSUME ListNow, NEW l \in Lists, L!Clear(l)
  PROVE  ListNow'
<1> DEFINE Q == Elements(order[l])
<1>1. /\ Chained(flink, blink, order) /\ Ordered(order) /\ order \in [L!Heads -> Seq(Links)]
      /\ RefsRight(order, refs, taken, walker.value) /\ NullsRight(flink, blink, refs, order)
      /\ StacksRight(order, taken, walker.value) /\ flink \in LinkType /\ blink \in LinkType
      /\ refs \in [Links -> Nat] /\ taken \in [Holders -> Links \cup {NULL}]
      /\ walker.value \in Links \cup {NULL} /\ l \in L!Heads /\ l \notin Stacks /\ L!EndOf(l) = l
  BY HeadsAre DEF ListNow, ListHolds, Chained, Ordered, RefsRight
<1>2. L!In(l) = Q /\ Q \subseteq Links /\ Q \subseteq Listed(order)
  <2>1. L!In(l) = Q
    BY <1>1, InIs
  <2>2. Q \subseteq Links
    BY <1>1 DEF Elements
  <2>3. QED
    BY <1>1, <2>1, <2>2 DEF Listed
<1> HIDE DEF Q
<1>3. /\ flink' = [n \in L!Addresses |-> IF n = l THEN l ELSE IF n \in Q THEN NULL ELSE flink[n]]
      /\ blink' = [n \in L!Addresses |-> IF n = l THEN l ELSE IF n \in Q THEN NULL ELSE blink[n]]
      /\ refs' = [i \in Links |-> IF i \in Q THEN refs[i] - 1 ELSE refs[i]]
      /\ order' = [order EXCEPT ![l] = <<>>] /\ taken' = taken /\ L!Watch
  BY <1>2 DEF L!Clear
<1>4. Empties(flink, flink', l, Q) /\ Empties(blink, blink', l, Q)
  <2>1. l \in L!Addresses
    BY <1>1, HeadsAre
  <2>2. flink' \in LinkType /\ blink' \in LinkType
    BY <1>1, <1>3, <2>1 DEF LinkType
  <2>3. QED
    BY <1>1, <1>3, <2>1, <2>2 DEF Empties
<1>5. /\ Chained(flink', blink', order') /\ Listed(order') = Listed(order) \ Q
      /\ \A y \in L!Heads : Keeps(order[y], order'[y])
  <2>1. /\ Chained(flink, blink, order) /\ l \in L!Heads /\ order' = [order EXCEPT ![l] = <<>>]
        /\ Empties(flink, flink', l, Elements(order[l]))
        /\ (l \in Lists => Empties(blink, blink', l, Elements(order[l])))
        /\ (l \in Stacks => blink' = blink)
    BY <1>1, <1>3, <1>4 DEF Q
  <2>2. /\ Chained(flink', blink', order') /\ ListedIs(order', Listed(order) \ Elements(order[l]))
        /\ \A y \in L!Heads : Keeps(order[y], order'[y])
    BY ONLY <2>1, ClearChain
  <2>3. QED
    BY <2>2 DEF ListedIs, Q
<1>6. WalkHolds(walker', due', met', strayed', order') /\ walker' = walker
  BY <1>3, <1>5, Watched
<1>7. ASSUME NEW j \in Links PROVE refs'[j] = ListRefs(order', taken, walker.value, j) /\ refs'[j] \in Nat
  <2>0. Count(Holders, taken, j) \in Nat /\ One(walker.value, j) \in Nat
    BY <1>1, RefsFacts
  <2>1. refs[j] = (IF j \in Listed(order) THEN 1 ELSE 0) + Count(Holders, taken, j) + One(walker.value, j)
    BY <1>1 DEF RefsRight, ListRefs
  <2>2. refs'[j] = IF j \in Q THEN refs[j] - 1 ELSE refs[j]
    BY <1>3
  <2>3. j \in Q => j \in Listed(order)
    BY <1>2
  <2>4. QED
    BY <1>5, <2>0, <2>1, <2>2, <2>3 DEF ListRefs
<1>8. RefsRight(order', refs', taken', walker.value)
  <2>1. refs' \in [Links -> Nat]
    BY <1>3, <1>7
  <2>2. QED
    BY <1>1, <1>3, <1>7, <2>1 DEF RefsRight
<1>9. NullsRight(flink', blink', refs', order')
  <2> SUFFICES ASSUME NEW j \in Links, refs'[j] > 0, j \notin Listed(order')
               PROVE  flink'[j] = NULL /\ blink'[j] = NULL
    BY DEF NullsRight
  <2>1. j \in L!Addresses /\ j # l
    BY <1>1, HeadsAre
  <2>2. CASE j \in Q
    BY <1>3, <2>1, <2>2
  <2>3. CASE j \notin Q
    <3>1. j \notin Listed(order) /\ refs[j] > 0
      BY <1>3, <1>5, <2>3
    <3>2. QED
      BY <1>1, <1>3, <2>1, <2>3, <3>1 DEF NullsRight
  <2>4. QED
    BY <2>2, <2>3
<1>10. StacksRight(order', taken', walker.value)
  <2>1. \A s \in Stacks : order'[s] = order[s]
    BY <1>1, <1>3, HeadsAre
  <2>2. QED
    BY <1>1, <1>3, <2>1 DEF StacksRight
<1>11. QED
  BY <1>5, <1>6, <1>8, <1>9, <1>10 DEF ListNow, ListHolds

\* Items change lists, and nothing else changes.
LEMMA ItemsMoved ==
  ASSUME ListNow, Chained(flink', blink', order'), Listed(order') = Listed(order),
         \A y \in L!Heads : Keeps(order[y], order'[y]), \A s \in Stacks : order'[s] = order[s],
         UNCHANGED <<refs, taken>>, L!Watch,
         \A j \in Links : j \notin Listed(order) => flink'[j] = flink[j] /\ blink'[j] = blink[j]
  PROVE  ListNow'
<1>1. /\ RefsRight(order, refs, taken, walker.value) /\ NullsRight(flink, blink, refs, order)
      /\ StacksRight(order, taken, walker.value)
  BY DEF ListNow, ListHolds
<1>2. WalkHolds(walker', due', met', strayed', order') /\ walker' = walker
  BY Watched
<1>3. RefsRight(order', refs', taken', walker.value)
  BY <1>1 DEF RefsRight, ListRefs
<1>4. NullsRight(flink', blink', refs', order')
  BY <1>1 DEF NullsRight
<1>5. StacksRight(order', taken', walker.value)
  BY <1>1 DEF StacksRight
<1>6. QED
  BY <1>2, <1>3, <1>4, <1>5 DEF ListNow, ListHolds

LEMMA SwapHolds ==
  ASSUME ListNow, NEW l \in Lists, NEW r \in Lists, L!Swap(l, r)
  PROVE  ListNow'
<1>1. /\ l # r /\ order' = [order EXCEPT ![l] = order[r], ![r] = order[l]] /\ L!Watch
      /\ flink' = L!Rehang(L!Rehang(flink, l, flink[r] = r, flink[r], blink[r]), r, flink[l] = l, flink[l], blink[l])
      /\ blink' = L!Rehang(L!Rehang(blink, l, flink[r] = r, blink[r], flink[r]), r, flink[l] = l, blink[l], flink[l])
      /\ UNCHANGED <<refs, taken>>
  BY DEF L!Swap
<1>2. /\ Chained(flink, blink, order) /\ Ordered(order) /\ l \in L!Heads /\ r \in L!Heads
      /\ flink \in LinkType /\ blink \in LinkType /\ order \in [L!Heads -> Seq(Links)]
      /\ l \notin Stacks /\ r \notin Stacks
  BY HeadsAre DEF ListNow, ListHolds, Chained, Ordered
<1>3. Chained(flink', blink', order')
  BY <1>1, <1>2, SwapChain, ZenonT(60)
<1>4. /\ Listed(order') = Listed(order) /\ \A y \in L!Heads : Keeps(order[y], order'[y])
  <2>1. Ordered(order) /\ l \in Lists /\ r \in Lists /\ l # r /\ order' = [order EXCEPT ![l] = order[r], ![r] = order[l]]
    BY <1>1, <1>2
  <2>2. ListedIs(order', Listed(order)) /\ \A y \in L!Heads : Keeps(order[y], order'[y])
    BY ONLY <2>1, SwapKeepsOrder
  <2>3. QED
    BY <2>2 DEF ListedIs
<1>5. \A s \in Stacks : order'[s] = order[s]
  BY <1>1, <1>2, HeadsAre
<1>6. \A x \in {l, r} : /\ flink[x] \in L!Heads \cup Listed(order) \cup {NULL}
                        /\ blink[x] \in L!Heads \cup Listed(order) \cup {NULL}
  <2>1. ASSUME NEW x \in Lists
        PROVE  /\ flink[x] \in L!Heads \cup Listed(order) \cup {NULL}
               /\ blink[x] \in L!Heads \cup Listed(order) \cup {NULL}
    <3> DEFINE n == Len(order[x])
    <3>1. x \in L!Heads /\ n \in Nat /\ flink[x] = At(order[x], x, 1) /\ blink[x] = At(order[x], x, n)
      BY <1>2, HeadLinks, HeadsAre
    <3>2. 1 \in 0..Len(order[x]) + 1 /\ n \in 0..Len(order[x]) + 1
      BY <3>1
    <3> HIDE DEF n
    <3>3. QED
      BY <1>2, <3>1, <3>2, NodeIn
  <2>2. QED
    BY <2>1
<1>7. ASSUME NEW j \in Links, j \notin Listed(order) PROVE flink'[j] = flink[j] /\ blink'[j] = blink[j]
  <2>1. j \in L!Addresses /\ j # l /\ j # r /\ flink[l] # j /\ flink[r] # j /\ blink[l] # j /\ blink[r] # j
    BY <1>2, <1>6, <1>7, HeadsAre
  <2>2. \A f, g, x, empty, to, from : x # j /\ from # j /\ DOMAIN f = L!Addresses
           /\ g = L!Rehang(f, x, empty, to, from) => g[j] = f[j] /\ DOMAIN g = L!Addresses
    BY <2>1 DEF L!Rehang
  <2>3. PICK f1 : f1 = L!Rehang(flink, l, flink[r] = r, flink[r], blink[r])
    OBVIOUS
  <2>4. PICK b1 : b1 = L!Rehang(blink, l, flink[r] = r, blink[r], flink[r])
    OBVIOUS
  <2>5. f1[j] = flink[j] /\ DOMAIN f1 = L!Addresses /\ b1[j] = blink[j] /\ DOMAIN b1 = L!Addresses
    <3>1. DOMAIN flink = L!Addresses /\ DOMAIN blink = L!Addresses
      BY <1>2 DEF LinkType
    <3>2. QED
      BY <2>1, <2>2, <2>3, <2>4, <3>1
  <2>6. /\ flink' = L!Rehang(f1, r, flink[l] = l, flink[l], blink[l])
        /\ blink' = L!Rehang(b1, r, flink[l] = l, blink[l], flink[l])
    BY <1>1, <2>3, <2>4
  <2>7. QED
    BY <2>1, <2>2, <2>5, <2>6
<1>8. QED
  BY <1>1, <1>3, <1>4, <1>5, <1>7, ItemsMoved

LEMMA AppendHolds ==
  ASSUME ListNow, NEW l \in Lists, NEW r \in Lists, L!AppendTo(l, r)
  PROVE  ListNow'
<1> DEFINE t == order[r] \o order[l]
<1>1. /\ l # r /\ flink[r] # r /\ order' = [order EXCEPT ![l] = t, ![r] = <<>>] /\ L!Watch
      /\ flink' = [flink EXCEPT ![blink[r]] = flink[l], ![l] = flink[r], ![r] = r]
      /\ blink' = [blink EXCEPT ![flink[l]] = blink[r], ![flink[r]] = l, ![r] = r]
      /\ UNCHANGED <<refs, taken>>
  <2>1. order' = [order EXCEPT ![l] = order[r] \o @, ![r] = <<>>]
    BY DEF L!AppendTo
  <2>2. QED
    BY <2>1 DEF L!AppendTo
<1>2. /\ Chained(flink, blink, order) /\ Ordered(order) /\ l \in L!Heads /\ r \in L!Heads
      /\ flink \in LinkType /\ blink \in LinkType /\ order \in [L!Heads -> Seq(Links)]
      /\ l \notin Stacks /\ r \notin Stacks
  BY HeadsAre DEF ListNow, ListHolds, Chained, Ordered
<1>3. Joined(order[r], order[l], t)
  <2>1. order[l] \in Seq(Links) /\ order[r] \in Seq(Links)
    BY <1>2
  <2>2. QED
    BY <2>1, JoinIs
<1> HIDE DEF t
<1>4. Chained(flink', blink', order')
  BY <1>1, <1>2, <1>3, AppendChain
<1>5. /\ Listed(order') = Listed(order) /\ \A y \in L!Heads : Keeps(order[y], order'[y])
  <2>1. /\ Ordered(order) /\ l \in Lists /\ r \in Lists /\ l # r /\ Joined(order[r], order[l], t)
        /\ order' = [order EXCEPT ![l] = t, ![r] = <<>>]
    BY <1>1, <1>2, <1>3
  <2>2. ListedIs(order', Listed(order)) /\ \A y \in L!Heads : Keeps(order[y], order'[y])
    BY ONLY <2>1, AppendKeepsOrder
  <2>3. QED
    BY <2>2 DEF ListedIs
<1>6. \A s \in Stacks : order'[s] = order[s]
  BY <1>1, <1>2, HeadsAre
<1>7. \A x \in Lists : /\ flink[x] \in L!Heads \cup Listed(order) \cup {NULL}
                       /\ blink[x] \in L!Heads \cup Listed(order) \cup {NULL}
  <2>1. ASSUME NEW x \in Lists
        PROVE  /\ flink[x] \in L!Heads \cup Listed(order) \cup {NULL}
               /\ blink[x] \in L!Heads \cup Listed(order) \cup {NULL}
    <3> DEFINE n == Len(order[x])
    <3>1. x \in L!Heads /\ n \in Nat /\ flink[x] = At(order[x], x, 1) /\ blink[x] = At(order[x], x, n)
      BY <1>2, HeadLinks, HeadsAre
    <3>2. 1 \in 0..Len(order[x]) + 1 /\ n \in 0..Len(order[x]) + 1
      BY <3>1
    <3> HIDE DEF n
    <3>3. QED
      BY <1>2, <3>1, <3>2, NodeIn
  <2>2. QED
    BY <2>1
<1>8. ASSUME NEW j \in Links, j \notin Listed(order) PROVE flink'[j] = flink[j] /\ blink'[j] = blink[j]
  <2>1. j \in L!Addresses /\ j # l /\ j # r /\ flink[l] # j /\ flink[r] # j /\ blink[l] # j /\ blink[r] # j
    BY <1>2, <1>7, <1>8, HeadsAre
  <2>2. QED
    BY <1>1, <1>2, <2>1 DEF LinkType
<1>9. QED
  BY <1>1, <1>4, <1>5, <1>6, <1>8, ItemsMoved

\* The iterator lets its item go and refers to i.
LEMMA RetainCounts ==
  ASSUME NEW od, NEW ct, NEW hd, NEW v, RefsRight(od, ct, hd, v), NEW i \in Links \cup {NULL},
         NEW cu, cu = L!Release(L!Retain(ct, i), v)
  PROVE  RefsRight(od, cu, hd, i)
<1>1. /\ ct \in [Links -> Nat] /\ hd \in [Holders -> Links \cup {NULL}] /\ v \in Links \cup {NULL}
      /\ \A j \in Links : ct[j] = ListRefs(od, hd, v, j)
  BY DEF RefsRight
<1>2. cu \in [Links -> Int] /\ \A j \in Links : cu[j] = ct[j] + One(i, j) - One(v, j)
  <2>1. PICK cs : cs = L!Retain(ct, i)
    OBVIOUS
  <2>2. cs \in [Links -> Int] /\ \A j \in Links : cs[j] = ct[j] + One(i, j)
    BY <1>1, <2>1, NullAssumption DEF L!Retain, One
  <2>3. cu = L!Release(cs, v)
    BY <2>1
  <2>4. cu \in [Links -> Int] /\ \A j \in Links : cu[j] = cs[j] - One(v, j)
    <3>1. CASE v = NULL
      <4>1. cu = cs /\ \A j \in Links : One(v, j) = 0
        BY <2>3, <3>1, NullAssumption DEF L!Release, One
      <4>2. QED
        BY <2>2, <4>1
    <3>2. CASE v # NULL
      <4>1. cu = [cs EXCEPT ![v] = @ - 1] /\ v \in Links /\ \A j \in Links : One(v, j) = IF j = v THEN 1 ELSE 0
        BY <1>1, <2>3, <3>2 DEF L!Release, One
      <4>2. \A j \in Links : cs[j] \in Int
        BY <2>2
      <4>3. QED
        BY <2>2, <4>1, <4>2
    <3>3. QED
      BY <3>1, <3>2
  <2>5. \A j \in Links : ct[j] \in Nat /\ One(i, j) \in Nat /\ One(v, j) \in Nat
    BY <1>1, OneIs
  <2>6. QED
    BY <2>2, <2>4, <2>5
<1>3. ASSUME NEW j \in Links PROVE cu[j] = ListRefs(od, hd, i, j) /\ cu[j] \in Nat
  <2>1. Count(Holders, hd, j) \in Nat /\ One(v, j) \in Nat /\ One(i, j) \in Nat
    BY CountFacts, HeadsAre, OneIs
  <2> DEFINE L0 == IF j \in Listed(od) THEN 1 ELSE 0
  <2>2. L0 \in Nat /\ ct[j] = L0 + Count(Holders, hd, j) + One(v, j)
        /\ ListRefs(od, hd, i, j) = L0 + Count(Holders, hd, j) + One(i, j)
    BY <1>1 DEF ListRefs
  <2> HIDE DEF L0
  <2>3. cu[j] = ct[j] + One(i, j) - One(v, j)
    BY <1>2
  <2>4. QED
    BY <2>1, <2>2, <2>3
<1>4. QED
  BY <1>1, <1>2, <1>3 DEF RefsRight

\* The iterator goes where it does not disturb anything but itself.
LEMMA IteratorMoves ==
  ASSUME ListNow, UNCHANGED <<flink, blink, taken, order>>, NEW v \in Links \cup {NULL}, walker'.value = v,
         refs' = L!Release(L!Retain(refs, v), walker.value),
         v \in Links => \E x \in Lists : v \in Elements(order[x]),
         WalkHolds(walker', due', met', strayed', order)
  PROVE  ListNow'
<1>1. /\ Ordered(order) /\ RefsRight(order, refs, taken, walker.value) /\ NullsRight(flink, blink, refs, order)
      /\ StacksRight(order, taken, walker.value)
  BY DEF ListNow, ListHolds, Chained
<1>2. RefsRight(order, refs', taken, v)
  BY <1>1, RetainCounts
<1>3. NullsRight(flink, blink, refs', order)
  <2> SUFFICES ASSUME NEW j \in Links, refs'[j] > 0, j \notin Listed(order)
               PROVE  flink[j] = NULL /\ blink[j] = NULL
    BY DEF NullsRight
  <2>1. v # j
    BY HeadsAre DEF Listed
  <2>2. ~(\A h \in Holders : taken[h] # j)
    <3>1. refs'[j] # 0
      OBVIOUS
    <3>2. QED
      BY <1>2, <2>1, <3>1, RefsFacts
  <2>3. refs[j] > 0
    BY <1>1, <2>2, RefsFacts
  <2>4. QED
    BY <1>1, <2>3 DEF NullsRight
<1>4. StacksRight(order, taken, v)
  <2>1. ASSUME NEW s \in Stacks, NEW j \in Elements(order[s]) PROVE v # j
    <3>1. s \in L!Heads /\ j \in Links
      BY <1>1, HeadsAre DEF Ordered, Elements
    <3>2. ASSUME v = j PROVE FALSE
      <4>1. PICK x \in Lists : v \in Elements(order[x])
        BY <3>1, <3>2
      <4>2. x \in L!Heads /\ x # s
        BY HeadsAre
      <4>3. QED
        BY <1>1, <3>1, <3>2, <4>1, <4>2 DEF Ordered, Elements
    <3>3. QED
      BY <3>2
  <2>2. QED
    BY <1>1, <2>1 DEF StacksRight
<1>5. QED
  BY <1>2, <1>3, <1>4 DEF ListNow, ListHolds

LEMMA BeginHolds ==
  ASSUME ListNow, NEW x \in L!Heads, x \in Lists => L!Begin(x), x \in Stacks => L!StackBegin(x)
  PROVE  ListNow'
<1> DEFINE s == order[x]
           c == flink[x]
           v == IF x \in Lists /\ c \in Links THEN c ELSE NULL
<1>1. /\ Chained(flink, blink, order) /\ s \in Seq(Links) /\ Len(s) \in Nat /\ c = At(s, x, 1)
      /\ c = (IF Len(s) = 0 THEN L!EndOf(x) ELSE s[1]) /\ Ordered(order)
      /\ WalkHolds(walker, due, met, strayed, order) /\ refs \in [Links -> Nat]
      /\ c \in L!Addresses \cup {NULL}
  <2>1. Chained(flink, blink, order) /\ Ordered(order)
    BY DEF ListNow, ListHolds, Chained
  <2>2. flink \in LinkType /\ x \in L!Addresses
    BY <2>1, HeadsAre DEF Chained
  <2>3. QED
    BY <2>1, <2>2, HeadLinks DEF ListNow, ListHolds, RefsRight, LinkType
<1>2. /\ ~walker.on /\ walker' = [on |-> TRUE, head |-> x, cur |-> c, value |-> v]
      /\ due' = L!In(x) /\ met' = {c} /\ strayed' = FALSE
      /\ UNCHANGED <<flink, blink, taken, order>>
      /\ refs' = L!Release(L!Retain(refs, v), walker.value)
  <2>1. CASE x \in Lists
    BY <2>1 DEF L!Begin, L!MoveTo
  <2>2. CASE x \notin Lists
    <3>1. L!StackBegin(x) /\ v = NULL
      BY <2>2, HeadsAre
    <3>2. walker.value = NULL
      BY <1>1, <3>1 DEF WalkHolds, L!Idle, L!StackBegin
    <3>3. QED
      BY <3>1, <3>2 DEF L!StackBegin, L!Release, L!Retain
  <2>3. QED
    BY <2>1, <2>2
<1>3. due' = Elements(s)
  BY <1>1, <1>2, InIs
<1>4. Visited(s, x, c, due', met')
  <2>1. /\ 0 \in 0..Len(order[x]) /\ due' \in SUBSET Elements(order[x]) /\ 0 + 1 = 1
        /\ \A j \in 1..0 : order[x][j] \in due' => order[x][j] \in {}
        /\ {} \subseteq met' /\ c \in met' /\ c = At(order[x], x, 0 + 1)
    BY <1>1, <1>2, <1>3
  <2>2. QED
    BY <1>1, <2>1, GoesOn
<1>5. WalkHolds(walker', due', met', strayed', order)
  <2>1. walker'.on = TRUE /\ walker'.head = x /\ walker'.cur = c /\ walker'.value = v
    BY <1>2
  <2> HIDE DEF c
  <2>2. QED
    BY <1>1, <1>2, <1>4, <2>1 DEF WalkHolds
<1>6. v \in Links => \E y \in Lists : v \in Elements(order[y])
  <2>1. ASSUME v \in Links PROVE x \in Lists /\ v \in Elements(order[x])
    <3>1. x \in Lists /\ c \in Links /\ v = c
      BY <2>1, NullAssumption
    <3>2. Len(s) # 0 /\ c = s[1]
      BY <1>1, <3>1, HeadsAre
    <3>3. QED
      BY <1>1, <3>1, <3>2 DEF Elements
  <2>2. QED
    BY <2>1
<1>7. v \in Links \cup {NULL} /\ walker'.value = v
  BY <1>2
<1> HIDE DEF v, c
<1>8. QED
  BY <1>2, <1>5, <1>6, <1>7, IteratorMoves

LEMMA EndHolds ==
  ASSUME ListNow, L!End
  PROVE  ListNow'
<1>1. /\ walker' = L!Idle /\ walker'.value = NULL /\ walker'.on = FALSE /\ refs' = L!Release(refs, walker.value)
      /\ strayed' = FALSE /\ UNCHANGED <<flink, blink, taken, order>>
  BY DEF L!End, L!Idle
<1>2. refs' = L!Release(L!Retain(refs, NULL), walker.value)
  BY <1>1 DEF L!Retain
<1>3. WalkHolds(walker', due', met', strayed', order)
  BY <1>1 DEF WalkHolds
<1>4. NULL \in Links \cup {NULL} /\ NULL \notin Links
  BY NullAssumption
<1>5. QED
  BY <1>1, <1>2, <1>3, <1>4, IteratorMoves

\* A step of a walk that has not strayed.
LEMMA AdvanceVisits ==
  ASSUME NEW fl, NEW bl, NEW od, Chained(fl, bl, od), NEW x \in L!Heads, NEW c \in Links,
         NEW du, NEW mt, Visited(od[x], x, c, du, mt), NEW mu, mu = mt \cup {fl[c]}
  PROVE  Visited(od[x], x, fl[c], du, mu)
<1>1. L!EndOf(x) \notin Links
  BY HeadsAre
<1>2. PICK p \in 1..Len(od[x]) : od[x][p] = c /\ \A j \in 1..p : od[x][j] \in du => od[x][j] \in mt
  BY <1>1 DEF Visited
<1>3. fl[c] = At(od[x], x, p + 1) /\ p \in 0..Len(od[x])
  <2>1. Len(od[x]) \in Nat /\ \A k \in 1..Len(od[x]) : fl[od[x][k]] = At(od[x], x, k + 1)
    BY HeadLinks
  <2>2. QED
    BY <1>2, <2>1
<1>4. du \in SUBSET Elements(od[x]) /\ mt \subseteq mu /\ fl[c] \in mu
  BY DEF Visited
<1>5. QED
  BY <1>2, <1>3, <1>4, GoesOn

LEMMA AdvanceHolds ==
  ASSUME ListNow, L!Advance
  PROVE  ListNow'
<1> DEFINE x == walker.head
           c == flink[walker.cur]
           v == IF c \in Links THEN c ELSE NULL
<1>1. /\ x \in Lists /\ walker.cur \in Links
      /\ walker' = [on |-> TRUE, head |-> x, cur |-> c, value |-> v]
      /\ refs' = L!Release(L!Retain(refs, v), walker.value)
      /\ UNCHANGED <<flink, blink, taken, order, due, strayed>>
      /\ met' = met \cup {walker'.cur}
  BY DEF L!Advance, L!MoveTo
<1>2. /\ Chained(flink, blink, order) /\ Ordered(order) /\ RefsRight(order, refs, taken, walker.value)
      /\ NullsRight(flink, blink, refs, order) /\ StacksRight(order, taken, walker.value)
      /\ WalkHolds(walker, due, met, strayed, order) /\ flink \in LinkType /\ x \in L!Heads
  BY <1>1, HeadsAre DEF ListNow, ListHolds, Chained
<1>3. walker.on /\ walker.value = walker.cur /\ strayed \in BOOLEAN
  <2>1. walker # L!Idle
    BY <1>1, NullAssumption DEF L!Idle
  <2>2. QED
    BY <1>1, <1>2, <2>1 DEF WalkHolds
<1>4. c \in L!Addresses \cup {NULL}
  BY <1>1, <1>2, HeadsAre DEF LinkType
<1>5. v \in Links => \E y \in Lists : v \in Elements(order[y])
  <2> SUFFICES ASSUME v \in Links PROVE \E y \in Lists : v \in Elements(order[y])
    OBVIOUS
  <2>1. c \in Links /\ v = c
    BY NullAssumption
  <2>2. walker.cur \in Listed(order)
    <3>1. refs[walker.cur] > 0
      BY <1>1, <1>2, <1>3, RefsFacts
    <3>2. c # NULL
      BY <2>1, NullAssumption
    <3>3. QED
      BY <1>1, <1>2, <3>1, <3>2 DEF NullsRight
  <2>3. PICK y \in L!Heads : walker.cur \in Elements(order[y])
    BY <2>2 DEF Listed
  <2>4. y \in Lists
    BY <1>2, <1>3, <2>3, HeadsAre DEF StacksRight
  <2>5. PICK p \in 1..Len(order[y]) : order[y][p] = walker.cur
    BY <2>3 DEF Elements
  <2>6. Len(order[y]) \in Nat /\ c = At(order[y], y, p + 1) /\ p \in 0..Len(order[y])
    <3>1. Len(order[y]) \in Nat /\ \A k \in 1..Len(order[y]) : flink[order[y][k]] = At(order[y], y, k + 1)
      BY <1>2, <2>4, HeadLinks, HeadsAre
    <3>2. QED
      BY <2>5, <3>1
  <2>7. c \in Elements(order[y])
    BY <1>2, <2>1, <2>4, <2>6, NextsApart
  <2>8. QED
    BY <2>1, <2>4, <2>7
<1>6. /\ walker'.on = TRUE /\ walker'.head = x /\ walker'.cur = c /\ walker'.value = v
      /\ met' = met \cup {c}
  BY <1>1
<1>7. WalkHolds(walker', due', met', strayed', order)
  <2>1. ASSUME ~strayed PROVE Visited(order[x], x, c, due, met')
    <3>1. Visited(order[x], x, walker.cur, due, met)
      BY <1>2, <1>3, <2>1 DEF WalkHolds
    <3>2. QED
      BY <1>1, <1>2, <1>6, <3>1, AdvanceVisits
  <2> HIDE DEF c
  <2>2. QED
    BY <1>1, <1>2, <1>3, <1>4, <1>6, <2>1 DEF WalkHolds
<1>8. v \in Links \cup {NULL}
  OBVIOUS
<1> HIDE DEF v, c
<1>9. QED
  BY <1>1, <1>5, <1>6, <1>7, <1>8, IteratorMoves

LEMMA StackAdvanceHolds ==
  ASSUME ListNow, L!StackAdvance
  PROVE  ListNow'
<1> DEFINE x == walker.head
           c == flink[walker.cur]
<1>1. /\ x \in Stacks /\ walker.cur \in Links /\ ~strayed /\ x \in L!Heads /\ x \notin Lists
      /\ walker' = [walker EXCEPT !.cur = c] /\ met' = met \cup {walker'.cur}
      /\ UNCHANGED <<flink, blink, refs, taken, order, due, strayed>>
  BY HeadsAre DEF L!StackAdvance
<1>2. /\ Chained(flink, blink, order) /\ WalkHolds(walker, due, met, strayed, order) /\ flink \in LinkType
  BY DEF ListNow, ListHolds, Chained
<1>3. walker.on /\ walker.value = NULL
  <2>1. walker # L!Idle
    BY <1>1, NullAssumption DEF L!Idle
  <2>2. QED
    BY <1>1, <1>2, <2>1 DEF WalkHolds
<1>4. c \in L!Addresses \cup {NULL}
  BY <1>1, <1>2, HeadsAre DEF LinkType
<1>5. Visited(order[x], x, c, due, met \cup {c})
  <2>1. Visited(order[x], x, walker.cur, due, met)
    BY <1>1, <1>2, <1>3 DEF WalkHolds
  <2>2. QED
    BY <1>1, <1>2, <2>1, AdvanceVisits
<1> HIDE DEF c
<1>6. /\ walker'.on = walker.on /\ walker'.head = x /\ walker'.cur = c /\ walker'.value = walker.value
      /\ met' = met \cup {c}
  BY <1>1
<1>7. WalkHolds(walker', due', met', strayed', order)
  BY <1>1, <1>2, <1>3, <1>4, <1>5, <1>6 DEF WalkHolds
<1>8. QED
  BY <1>1, <1>6, <1>7 DEF ListNow, ListHolds

LEMMA StackPushHolds ==
  ASSUME ListNow, NEW s \in Stacks, L!StackPush(s)
  PROVE  ListNow'
<1>1. PICK i \in Links :
        /\ refs[i] = 0 /\ flink' = [flink EXCEPT ![s] = i, ![i] = flink[s]]
        /\ refs' = [refs EXCEPT ![i] = 1] /\ order' = [order EXCEPT ![s] = <<i>> \o @]
        /\ UNCHANGED <<blink, taken>> /\ L!Watch
  BY DEF L!StackPush
<1> DEFINE t == <<i>> \o order[s]
<1>2. /\ Chained(flink, blink, order) /\ Ordered(order) /\ order \in [L!Heads -> Seq(Links)]
      /\ RefsRight(order, refs, taken, walker.value) /\ NullsRight(flink, blink, refs, order)
      /\ StacksRight(order, taken, walker.value) /\ flink \in LinkType
      /\ s \in L!Heads /\ s \notin Lists /\ order[s] \in Seq(Links)
      /\ refs \in [Links -> Nat] /\ taken \in [Holders -> Links \cup {NULL}]
      /\ walker.value \in Links \cup {NULL}
  BY HeadsAre DEF ListNow, ListHolds, Chained, Ordered, RefsRight
<1>3. i \notin Listed(order) /\ walker.value # i /\ \A g \in Holders : taken[g] # i
  BY <1>1, <1>2, RefsFacts
<1>4. 0 \in 0..Len(order[s]) /\ InsertedAt(order[s], t, i, 0) /\ order' = [order EXCEPT ![s] = t]
  BY <1>1, <1>2 DEF InsertedAt
<1> HIDE DEF t
<1>5. /\ Ordered(order') /\ Listed(order') = Listed(order) \cup {i}
      /\ \A y \in L!Heads : Keeps(order[y], order'[y])
  <2>1. /\ Ordered(order) /\ s \in L!Heads /\ i \in Links /\ i \notin Listed(order)
        /\ 0 \in 0..Len(order[s]) /\ InsertedAt(order[s], t, i, 0) /\ order' = [order EXCEPT ![s] = t]
    BY <1>2, <1>3, <1>4
  <2>2. /\ Ordered(order') /\ ListedIs(order', Listed(order) \cup {i})
        /\ \A y \in L!Heads : Keeps(order[y], order'[y])
    BY ONLY <2>1, InsertKeepsOrder
  <2>3. QED
    BY <2>2 DEF ListedIs
<1>6. Chained(flink', blink', order')
  <2>1. /\ At(order[s], s, 0) = s /\ At(order[s], s, 0 + 1) = flink[s]
    BY <1>2, HeadLinks DEF At
  <2>2. /\ flink' = [flink EXCEPT ![At(order[s], s, 0)] = i, ![i] = At(order[s], s, 0 + 1)]
        /\ s \in Lists => blink' = [blink EXCEPT ![At(order[s], s, 0 + 1)] = i, ![i] = At(order[s], s, 0)]
        /\ s \in Stacks => blink' = blink
    BY <1>1, <1>2, <2>1
  <2>3. QED
    BY <1>2, <1>3, <1>4, <2>2, InsertChain
<1>7. WalkHolds(walker', due', met', strayed', order') /\ walker' = walker
  BY <1>1, <1>5, <1>6, Watched
<1>8. ASSUME NEW j \in Links PROVE refs'[j] = ListRefs(order', taken, walker.value, j)
  <2>1. refs[j] = (IF j \in Listed(order) THEN 1 ELSE 0) + Count(Holders, taken, j) + One(walker.value, j)
    BY <1>2 DEF RefsRight, ListRefs
  <2>2. CASE j = i
    <3>1. Count(Holders, taken, i) = 0 /\ One(walker.value, i) = 0
      BY <1>3, CountFacts, HeadsAre DEF One
    <3>2. i \in Listed(order') /\ refs'[i] = 1
      BY <1>1, <1>2, <1>5
    <3>3. QED
      BY <2>2, <3>1, <3>2 DEF ListRefs
  <2>3. CASE j # i
    BY <1>1, <1>2, <1>5, <2>1, <2>3 DEF ListRefs
  <2>4. QED
    BY <2>2, <2>3
<1>9. RefsRight(order', refs', taken', walker.value)
  BY <1>1, <1>2, <1>8 DEF RefsRight
<1>10. NullsRight(flink', blink', refs', order')
  <2> SUFFICES ASSUME NEW j \in Links, refs'[j] > 0, j \notin Listed(order')
               PROVE  flink'[j] = NULL /\ blink'[j] = NULL
    BY DEF NullsRight
  <2>1. j # i /\ j # s /\ j \in L!Addresses /\ j \notin Listed(order)
    BY <1>2, <1>5, HeadsAre
  <2>2. flink'[j] = flink[j] /\ blink'[j] = blink[j] /\ refs'[j] = refs[j]
    BY <1>1, <1>2, <2>1 DEF LinkType
  <2>3. QED
    BY <1>2, <2>1, <2>2 DEF NullsRight
<1>11. StacksRight(order', taken', walker.value)
  <2> SUFFICES ASSUME NEW r \in Stacks, NEW j \in Elements(order'[r])
               PROVE  walker.value # j /\ \A g \in Holders : taken[g] # j
    BY <1>1 DEF StacksRight
  <2>1. CASE j = i
    BY <1>3, <2>1
  <2>2. CASE j # i /\ r # s
    <3>1. order'[r] = order[r]
      BY <1>2, <1>4, <2>2, HeadsAre
    <3>2. QED
      BY <1>2, <3>1 DEF StacksRight
  <2>3. CASE j # i /\ r = s
    <3>1. j \in Elements(order[s])
      <4>1. order'[s] = t
        BY <1>2, <1>4
      <4>2. PICK k \in 1..Len(t) : t[k] = j
        BY <2>3, <4>1 DEF Elements
      <4>3. k # 1 /\ t[k] = order[s][k - 1] /\ k - 1 \in 1..Len(order[s])
        BY <1>2, <1>4, <2>3, <4>2 DEF InsertedAt
      <4>4. QED
        BY <4>2, <4>3 DEF Elements
    <3>2. QED
      BY <1>2, <3>1 DEF StacksRight
  <2>4. QED
    BY <2>1, <2>2, <2>3
<1>12. QED
  BY <1>6, <1>7, <1>9, <1>10, <1>11 DEF ListNow, ListHolds

\* What a stack deletes: Q is out of the stack, and nobody refers to it.
LEMMA DeletedKeeps ==
  ASSUME ListNow, NEW s \in Stacks, NEW Q \in SUBSET Elements(order[s]), L!Watch,
         Chained(flink', blink', order'), Listed(order') = Listed(order) \ Q,
         \A y \in L!Heads : Keeps(order[y], order'[y]),
         \A r \in Stacks : Elements(order'[r]) \subseteq Elements(order[r]),
         UNCHANGED <<blink, taken>>, refs' = [i \in Links |-> IF i \in Q THEN 0 ELSE refs[i]],
         \A j \in Links : flink'[j] = flink[j]
  PROVE  ListNow'
<1>1. /\ Ordered(order) /\ order[s] \in Seq(Links) /\ s \in L!Heads
      /\ RefsRight(order, refs, taken, walker.value) /\ NullsRight(flink, blink, refs, order)
      /\ StacksRight(order, taken, walker.value)
      /\ refs \in [Links -> Nat] /\ taken \in [Holders -> Links \cup {NULL}]
      /\ walker.value \in Links \cup {NULL}
  BY HeadsAre DEF ListNow, ListHolds, Chained, Ordered, RefsRight
<1>2. WalkHolds(walker', due', met', strayed', order') /\ walker' = walker
  BY Watched
<1>3. ASSUME NEW j \in Links PROVE refs'[j] = ListRefs(order', taken, walker.value, j)
  <2>1. refs[j] = (IF j \in Listed(order) THEN 1 ELSE 0) + Count(Holders, taken, j) + One(walker.value, j)
    BY <1>1 DEF RefsRight, ListRefs
  <2>2. CASE j \in Q
    <3>1. walker.value # j /\ \A g \in Holders : taken[g] # j
      BY <1>1, <2>2 DEF StacksRight
    <3>2. Count(Holders, taken, j) = 0 /\ One(walker.value, j) = 0
      BY <3>1, CountFacts, HeadsAre DEF One
    <3>3. QED
      BY <2>2, <3>2 DEF ListRefs
  <2>3. CASE j \notin Q
    BY <2>1, <2>3 DEF ListRefs
  <2>4. QED
    BY <2>2, <2>3
<1>4. RefsRight(order', refs', taken', walker.value)
  BY <1>1, <1>3 DEF RefsRight
<1>5. NullsRight(flink', blink', refs', order')
  BY <1>1 DEF NullsRight
<1>6. StacksRight(order', taken', walker.value)
  BY <1>1 DEF StacksRight
<1>7. QED
  BY <1>2, <1>4, <1>5, <1>6 DEF ListNow, ListHolds

LEMMA StackPopHolds ==
  ASSUME ListNow, NEW s \in Stacks, L!StackPop(s)
  PROVE  ListNow'
<1> DEFINE i == flink[s]
           t == Tail(order[s])
<1>1. /\ i # NULL /\ flink' = [flink EXCEPT ![s] = flink[i]] /\ refs' = [refs EXCEPT ![i] = 0]
      /\ order' = [order EXCEPT ![s] = t] /\ UNCHANGED <<blink, taken>> /\ L!Watch
  BY DEF L!StackPop
<1>2. /\ Chained(flink, blink, order) /\ Ordered(order) /\ order \in [L!Heads -> Seq(Links)]
      /\ flink \in LinkType /\ s \in L!Heads /\ s \notin Lists /\ order[s] \in Seq(Links)
      /\ refs \in [Links -> Nat] /\ L!EndOf(s) = NULL /\ s \in L!Addresses
  BY HeadsAre DEF ListNow, ListHolds, Chained, Ordered, RefsRight
<1>3. /\ Len(order[s]) \in Nat /\ 1 \in 1..Len(order[s]) /\ i = order[s][1] /\ i \in Links
      /\ flink[i] = At(order[s], s, 1 + 1)
  <2>1. /\ Len(order[s]) \in Nat /\ (i = NULL <=> Len(order[s]) = 0)
        /\ i = (IF Len(order[s]) = 0 THEN NULL ELSE order[s][1])
        /\ \A k \in 1..Len(order[s]) : flink[order[s][k]] = At(order[s], s, k + 1)
    BY <1>2, HeadLinks
  <2>2. Len(order[s]) # 0
    BY <1>1, <2>1
  <2>3. 1 \in 1..Len(order[s]) /\ i = order[s][1] /\ i \in Links
    BY <1>2, <2>1, <2>2
  <2>4. QED
    BY <2>1, <2>3
<1>4. RemovedAt(order[s], t, 1)
  BY <1>2, <1>3 DEF RemovedAt
<1> HIDE DEF t, i
<1>5. /\ Ordered(order') /\ Listed(order') = Listed(order) \ {i}
      /\ \A y \in L!Heads : Keeps(order[y], order'[y])
  <2>1. /\ Ordered(order) /\ s \in L!Heads /\ 1 \in 1..Len(order[s])
        /\ RemovedAt(order[s], t, 1) /\ order' = [order EXCEPT ![s] = t]
    BY <1>1, <1>2, <1>3, <1>4
  <2>2. /\ Ordered(order') /\ ListedIs(order', Listed(order) \ {order[s][1]})
        /\ \A y \in L!Heads : Keeps(order[y], order'[y])
    BY ONLY <2>1, RemoveKeepsOrder
  <2>3. QED
    BY <1>3, <2>2 DEF ListedIs
<1>6. Chained(flink', blink', order')
  <2>1. At(order[s], s, 1 - 1) = s
    BY DEF At
  <2>2. Skips(flink, flink', s, i, flink[i])
    <3>1. i \in L!Addresses /\ flink[i] \in L!Addresses \cup {NULL}
      BY <1>2, <1>3, HeadsAre DEF LinkType
    <3>2. QED
      BY <1>1, <1>2, <3>1 DEF Skips, LinkType
  <2>3. /\ Skips(flink, flink', At(order[s], s, 1 - 1), order[s][1], At(order[s], s, 1 + 1))
        /\ s \in Lists => Skips(blink, blink', At(order[s], s, 1 + 1), order[s][1], At(order[s], s, 1 - 1))
        /\ s \in Stacks => blink' = blink
    BY <1>1, <1>2, <1>3, <2>1, <2>2
  <2>4. QED
    BY <1>1, <1>2, <1>3, <1>4, <2>3, RemoveChain
<1>7. {i} \in SUBSET Elements(order[s])
  BY <1>3 DEF Elements
<1>8. \A r \in Stacks : Elements(order'[r]) \subseteq Elements(order[r])
  <2>1. \A r \in Stacks : r # s => order'[r] = order[r]
    BY <1>1, <1>2, HeadsAre
  <2>2. Elements(t) \subseteq Elements(order[s])
    <3>1. ASSUME NEW k \in 1..Len(t) PROVE t[k] = order[s][k + 1] /\ k + 1 \in 1..Len(order[s])
      <4>1. Len(t) = Len(order[s]) - 1 /\ t[k] = IF k < 1 THEN order[s][k] ELSE order[s][k + 1]
        BY <1>4 DEF RemovedAt
      <4>2. k \in 1..Len(order[s]) - 1
        BY <4>1
      <4>3. ~(k < 1) /\ k + 1 \in 1..Len(order[s])
        BY <1>3, <4>2
      <4>4. QED
        BY <4>1, <4>3
    <3>2. QED
      BY <3>1 DEF Elements
  <2>3. order'[s] = t
    BY <1>1, <1>2
  <2>4. QED
    BY <2>1, <2>2, <2>3
<1>9. refs' = [j \in Links |-> IF j \in {i} THEN 0 ELSE refs[j]]
  BY <1>1, <1>2
<1>10. \A j \in Links : flink'[j] = flink[j]
  BY <1>1, <1>2, HeadsAre DEF LinkType
<1>11. QED
  BY <1>1, <1>5, <1>6, <1>7, <1>8, <1>9, <1>10, DeletedKeeps, ZenonT(60)

LEMMA StackClearHolds ==
  ASSUME ListNow, NEW s \in Stacks, L!StackClear(s)
  PROVE  ListNow'
<1> DEFINE Q == Elements(order[s])
<1>1. /\ Chained(flink, blink, order) /\ Ordered(order) /\ order \in [L!Heads -> Seq(Links)]
      /\ flink \in LinkType /\ s \in L!Heads /\ s \notin Lists
      /\ L!EndOf(s) = NULL /\ s \in L!Addresses
  BY HeadsAre DEF ListNow, ListHolds, Chained, Ordered
<1>2. /\ flink' = [flink EXCEPT ![s] = NULL] /\ order' = [order EXCEPT ![s] = <<>>]
      /\ refs' = [i \in Links |-> IF i \in Q THEN 0 ELSE refs[i]]
      /\ UNCHANGED <<blink, taken>> /\ L!Watch
  BY <1>1, InIs DEF L!StackClear
<1>3. Empties(flink, flink', s, Q)
  BY <1>1, <1>2 DEF Empties, LinkType
<1>4. /\ Chained(flink', blink', order') /\ Listed(order') = Listed(order) \ Q
      /\ \A y \in L!Heads : Keeps(order[y], order'[y])
  <2>1. /\ Chained(flink, blink, order) /\ s \in L!Heads /\ order' = [order EXCEPT ![s] = <<>>]
        /\ Empties(flink, flink', s, Elements(order[s]))
        /\ (s \in Lists => Empties(blink, blink', s, Elements(order[s])))
        /\ (s \in Stacks => blink' = blink)
    BY <1>1, <1>2, <1>3
  <2>2. /\ Chained(flink', blink', order') /\ ListedIs(order', Listed(order) \ Elements(order[s]))
        /\ \A y \in L!Heads : Keeps(order[y], order'[y])
    BY ONLY <2>1, ClearChain
  <2>3. QED
    BY <2>2 DEF ListedIs
<1>5. \A r \in Stacks : Elements(order'[r]) \subseteq Elements(order[r])
  <2>1. \A r \in Stacks : r # s => order'[r] = order[r]
    BY <1>1, <1>2, HeadsAre
  <2>2. order'[s] = <<>> /\ Elements(<<>>) = {}
    BY <1>1, <1>2 DEF Elements
  <2>3. QED
    BY <2>1, <2>2
<1>6. \A j \in Links : flink'[j] = flink[j]
  BY <1>1, <1>2, HeadsAre DEF LinkType
<1>7. Q \in SUBSET Elements(order[s])
  OBVIOUS
<1> HIDE DEF Q
<1>8. QED
  BY <1>2, <1>4, <1>5, <1>6, <1>7, DeletedKeeps, ZenonT(60)

LEMMA ListInit == L!Init => ListNow
<1> SUFFICES ASSUME L!Init PROVE ListNow
  OBVIOUS
<1>1. /\ flink = [n \in L!Addresses |-> IF n \in Lists THEN n ELSE NULL]
      /\ blink = [n \in L!Addresses |-> IF n \in Lists THEN n ELSE NULL]
      /\ refs = [i \in Links |-> 0] /\ taken = [h \in Holders |-> NULL]
      /\ walker = L!Idle /\ strayed = FALSE /\ order = [x \in L!Heads |-> <<>>]
      /\ walker.on = FALSE /\ walker.value = NULL
  BY DEF L!Init, L!Idle
<1>2. \A x \in L!Heads : order[x] = <<>> /\ Len(order[x]) = 0 /\ 1..Len(order[x]) = {}
  BY <1>1
<1>3. Ordered(order)
  <2>1. order \in [L!Heads -> Seq(Links)]
    BY <1>1
  <2>2. QED
    BY <1>2, <2>1 DEF Ordered
<1>4. Listed(order) = {}
  BY <1>2 DEF Listed, Elements
<1>5. flink \in LinkType /\ blink \in LinkType
  BY <1>1, HeadsAre DEF LinkType
<1>6. ASSUME NEW x \in L!Heads PROVE Linked(flink, blink, order[x], x)
  <2>1. /\ At(order[x], x, 0) = x /\ At(order[x], x, 1) = L!EndOf(x) /\ x \in L!Addresses
        /\ Len(order[x]) = 0
    BY <1>2, HeadsAre DEF At
  <2>2. flink[x] = L!EndOf(x) /\ (x \in Lists => blink[x] = x /\ L!EndOf(x) = x)
    BY <1>1, <2>1, HeadsAre
  <2>3. SUFFICES ASSUME NEW k \in 0..0
                 PROVE  /\ flink[At(order[x], x, k)] = At(order[x], x, k + 1)
                        /\ x \in Lists => blink[At(order[x], x, k + 1)] = At(order[x], x, k)
    BY <2>1 DEF Linked
  <2>4. k = 0 /\ k + 1 = 1
    OBVIOUS
  <2>5. QED
    BY <2>1, <2>2, <2>4
<1>7. RefsRight(order, refs, taken, walker.value)
  <2>1. ASSUME NEW j \in Links PROVE refs[j] = ListRefs(order, taken, NULL, j)
    <3>1. Count(Holders, taken, j) = 0 /\ One(NULL, j) = 0 /\ refs[j] = 0
      BY <1>1, CountFacts, HeadsAre, NullAssumption DEF One
    <3>2. QED
      BY <1>4, <3>1 DEF ListRefs
  <2>2. QED
    BY <1>1, <2>1 DEF RefsRight
<1>8. NullsRight(flink, blink, refs, order) /\ StacksRight(order, taken, walker.value)
  BY <1>1, <1>2, HeadsAre DEF NullsRight, StacksRight, Elements
<1>9. WalkHolds(walker, due, met, strayed, order)
  BY <1>1 DEF WalkHolds
<1>10. QED
  BY <1>3, <1>5, <1>6, <1>7, <1>8, <1>9 DEF ListNow, ListHolds, Chained

LEMMA ListStep == ListNow /\ L!Next => ListNow'
<1> SUFFICES ASSUME ListNow, L!Next PROVE ListNow'
  OBVIOUS
<1>1. ASSUME NEW l \in Lists, NEW h \in Holders, L!PushBack(l, h) \/ L!PushFront(l, h) PROVE ListNow'
  BY <1>1, PushHolds
<1>2. ASSUME NEW l \in Lists, NEW h \in Holders, L!PopFront(l, h) PROVE ListNow'
  <2>1. CASE flink[l] = l
    BY <1>2, <2>1, DropHolds DEF L!PopFront
  <2>2. CASE flink[l] # l
    BY <1>2, <2>2, PopFrontHolds
  <2>3. QED
    BY <2>1, <2>2
<1>3. ASSUME NEW h \in Holders, L!PushFails(h) \/ L!Remove(h) \/ L!Drop(h) PROVE ListNow'
  BY <1>3, DropHolds, RemoveHolds DEF L!Drop
<1>4. ASSUME NEW l \in Lists, L!Clear(l) PROVE ListNow'
  BY <1>4, ClearHolds
<1>5. ASSUME NEW l \in Lists, L!Begin(l) PROVE ListNow'
  <2>1. l \in L!Heads /\ l \notin Stacks
    BY HeadsAre
  <2>2. QED
    BY <1>5, <2>1, BeginHolds
<1>6. ASSUME NEW l \in Lists, NEW r \in Lists, L!Swap(l, r) \/ L!AppendTo(l, r) PROVE ListNow'
  BY <1>6, SwapHolds, AppendHolds
<1>7. ASSUME L!Advance \/ L!End \/ L!StackAdvance PROVE ListNow'
  BY <1>7, AdvanceHolds, EndHolds, StackAdvanceHolds
<1>8. ASSUME NEW s \in Stacks, L!StackPush(s) \/ L!StackPop(s) \/ L!StackClear(s) PROVE ListNow'
  BY <1>8, StackPushHolds, StackPopHolds, StackClearHolds
<1>9. ASSUME NEW s \in Stacks, L!StackBegin(s) PROVE ListNow'
  <2>1. s \in L!Heads /\ s \notin Lists
    BY HeadsAre
  <2>2. QED
    BY <1>9, <2>1, BeginHolds
<1>10. QED
  BY <1>1, <1>2, <1>3, <1>4, <1>5, <1>6, <1>7, <1>8, <1>9 DEF L!Next

LEMMA ListsInv == Spec => []ListNow
<1>1. Init => ListNow
  BY ListInit DEF Init
<1>2. ListNow /\ [Next]_<<unit, lists, vectors, tables, others>> => ListNow'
  <2>1. ListNow /\ UNCHANGED lists => ListNow'
    BY DEF ListNow, lists
  <2>2. [Next]_<<unit, lists, vectors, tables, others>> => L!Next \/ UNCHANGED lists
    BY DEF Next
  <2>3. QED
    BY <2>1, <2>2, ListStep
<1>3. QED
  BY <1>1, <1>2, PTL DEF Spec

\* What the invariant says of counts.
LEMMA CountsFollow == ListNow => L!CountsExact
<1> SUFFICES ASSUME ListNow PROVE L!CountsExact
  OBVIOUS
<1>1. /\ Chained(flink, blink, order) /\ Ordered(order) /\ RefsRight(order, refs, taken, walker.value)
      /\ WalkHolds(walker, due, met, strayed, order)
  BY DEF ListNow, ListHolds, Chained
<1>2. L!TypeOK
  BY <1>1 DEF Chained, LinkType, RefsRight, WalkHolds, L!Idle, L!TypeOK
<1>3. ASSUME NEW i \in Links PROVE refs[i] = L!References(i)
  <2> DEFINE X == {x \in L!Heads : i \in L!In(x)}
  <2>1. X = {x \in L!Heads : i \in Elements(order[x])}
    BY <1>1, InIs
  <2>2. Cardinality(X) = IF i \in Listed(order) THEN 1 ELSE 0
    <3>1. CASE i \notin Listed(order)
      <4>1. X = {}
        BY <2>1, <3>1 DEF Listed
      <4>2. QED
        BY <3>1, <4>1, FS_EmptySet
    <3>2. CASE i \in Listed(order)
      <4>1. PICK y \in L!Heads : i \in Elements(order[y])
        BY <3>2 DEF Listed
      <4>2. \A x \in L!Heads : i \in Elements(order[x]) => x = y
        BY <1>1, <4>1 DEF Ordered, Elements
      <4>3. X = {y}
        BY <2>1, <4>1, <4>2
      <4>4. QED
        BY <3>2, <4>3, FS_Singleton
    <3>3. QED
      BY <3>1, <3>2
  <2>3. refs[i] = ListRefs(order, taken, walker.value, i)
    BY <1>1 DEF RefsRight
  <2>4. L!References(i) = Cardinality(X) + Cardinality({h \in Holders : taken[h] = i})
                          + (IF walker.value = i THEN 1 ELSE 0)
    BY DEF L!References, L!Cardinality, Cardinality
  <2> HIDE DEF X
  <2>5. Count(Holders, taken, i) = Cardinality({h \in Holders : taken[h] = i})
    BY DEF Count
  <2>6. One(walker.value, i) = IF walker.value = i THEN 1 ELSE 0
    BY DEF One
  <2>7. QED
    BY <2>2, <2>3, <2>4, <2>5, <2>6 DEF ListRefs
<1>4. QED
  BY <1>2, <1>3 DEF L!CountsExact

\* What it says of links.
LEMMA LinksFollow == ListNow => L!LinksRight
<1> SUFFICES ASSUME ListNow PROVE L!LinksRight
  OBVIOUS
<1>1. /\ Chained(flink, blink, order) /\ Ordered(order) /\ RefsRight(order, refs, taken, walker.value)
      /\ NullsRight(flink, blink, refs, order) /\ order \in [L!Heads -> Seq(Links)]
  BY DEF ListNow, ListHolds, Chained, Ordered
<1> DEFINE place(x, k) == IF k \in 1..Len(order[x]) THEN order[x][k] ELSE x
<1>2. ASSUME NEW x \in Lists, NEW k \in 0..Len(order[x])
      PROVE  flink[place(x, k)] = place(x, k + 1) /\ blink[place(x, k + 1)] = place(x, k)
  <2>1. /\ x \in L!Heads /\ L!EndOf(x) = x /\ Len(order[x]) \in Nat
        /\ Linked(flink, blink, order[x], x)
    BY <1>1, HeadsAre DEF Chained
  <2>2. place(x, k) = At(order[x], x, k) /\ place(x, k + 1) = At(order[x], x, k + 1)
    BY <2>1 DEF At
  <2>3. QED
    BY <2>1, <2>2 DEF Linked
<1>3. ASSUME NEW x \in L!Heads, x \notin Lists
      PROVE  /\ flink[x] = (IF Len(order[x]) = 0 THEN NULL ELSE place(x, 1))
             /\ \A k \in 1..Len(order[x]) : flink[place(x, k)] = (IF k = Len(order[x]) THEN NULL ELSE place(x, k + 1))
  <2>1. /\ L!EndOf(x) = NULL /\ Len(order[x]) \in Nat
        /\ flink[x] = (IF Len(order[x]) = 0 THEN NULL ELSE order[x][1])
        /\ \A k \in 1..Len(order[x]) : flink[order[x][k]] = At(order[x], x, k + 1)
    BY <1>1, <1>3, HeadsAre, HeadLinks
  <2>2. \A k \in 1..Len(order[x]) :
          At(order[x], x, k + 1) = IF k = Len(order[x]) THEN NULL ELSE place(x, k + 1)
    BY <2>1 DEF At
  <2>3. QED
    BY <2>1, <2>2
<1>4. ASSUME NEW h \in Holders, taken[h] # NULL, \A x \in L!Heads : taken[h] \notin L!Range(order[x])
      PROVE  flink[taken[h]] = NULL /\ blink[taken[h]] = NULL
  <2>1. taken[h] \in Links
    BY <1>1, <1>4 DEF RefsRight
  <2>2. refs[taken[h]] > 0
    BY <1>1, <2>1, RefsFacts
  <2>3. taken[h] \notin Listed(order)
    <3>1. \A x \in L!Heads : DOMAIN order[x] = 1..Len(order[x])
      BY <1>1
    <3>2. QED
      BY <1>4, <3>1 DEF Listed, Elements, L!Range
  <2>4. QED
    BY <1>1, <2>1, <2>2, <2>3 DEF NullsRight
<1>5. QED
  BY <1>2, <1>3, <1>4 DEF L!LinksRight

\* Whatever calls are made on lists, stacks, handles and an iterator, an item's
\* count is the number of its references, and the links of every list, both ways,
\* and of every stack are the sequence its calls have made (list, stack).
THEOREM ListsAreRight == Spec => []ListRight
<1>1. ListNow => ListRight
  BY CountsFollow, LinksFollow DEF ListRight
<1>2. QED
  BY <1>1, ListsInv, PTL

\* An iteration of a list or a stack whose position stays in its list meets
\* everything that stays there from its begin to its end, whatever is pushed,
\* removed or appended around it; and one of a map or a set likewise
\* (list::iterator, stack::iterator, map::iterator, set::iterator).
THEOREM IterationsAreComplete == Spec => []IterationsComplete
<1>1. ListNow => L!IterationComplete
  <2> SUFFICES ASSUME ListNow, walker.on, ~strayed
               PROVE  /\ walker.cur \in L!In(walker.head) \cup {L!EndOf(walker.head)}
                      /\ walker.cur = L!EndOf(walker.head) => due \subseteq met
    BY DEF L!IterationComplete
  <2> DEFINE x == walker.head
  <2>1. Chained(flink, blink, order) /\ x \in L!Heads /\ Visited(order[x], x, walker.cur, due, met)
    BY DEF ListNow, ListHolds, WalkHolds
  <2>2. L!In(x) = Elements(order[x]) /\ Elements(order[x]) \subseteq Links
    BY <2>1, InIs DEF Chained, Ordered, Elements
  <2>3. L!EndOf(x) \notin Links
    BY <2>1, HeadsAre
  <2>4. QED
    BY <2>1, <2>2, <2>3 DEF Visited, Elements
<1>2. QED
  BY <1>1, ListsInv, MapIterationsComplete, PTL DEF IterationsComplete

-----------------------------------------------------------------------------
(* Vectors: elements in constructed memory                                 *)

\* Sets that a function pairs off are of one size, and sets apart add up.
LEMMA SameSize ==
  ASSUME NEW A, NEW B, IsFiniteSet(A), NEW f \in [A -> B],
         \A a, b \in A : f[a] = f[b] => a = b, \A b \in B : \E a \in A : f[a] = b
  PROVE  IsFiniteSet(B) /\ Cardinality(B) = Cardinality(A)
<1>1. f \in Bijection(A, B)
  BY DEF Bijection, Injection, IsInjective, Surjection
<1>2. ExistsBijection(A, B)
  BY <1>1 DEF ExistsBijection
<1>3. QED
  BY <1>2, FS_Bijection

LEMMA ApartSize ==
  ASSUME NEW A, NEW B, IsFiniteSet(A), IsFiniteSet(B), A \cap B = {}
  PROVE  /\ IsFiniteSet(A \cup B) /\ Cardinality(A) \in Nat /\ Cardinality(B) \in Nat
         /\ Cardinality(A \cup B) = Cardinality(A) + Cardinality(B)
<1>1. Cardinality(A \cap B) = 0
  BY FS_EmptySet
<1>2. Cardinality(A) \in Nat /\ Cardinality(B) \in Nat
  BY FS_CardinalityType
<1>3. IsFiniteSet(A \cup B)
      /\ Cardinality(A \cup B) = Cardinality(A) + Cardinality(B) - Cardinality(A \cap B)
  BY FS_Union
<1>4. QED
  BY <1>1, <1>2, <1>3

\* How often e is in s.
Occurs(e, s) == Cardinality({k \in 1..Len(s) : s[k] = e})

LEMMA OccursIs ==
  ASSUME NEW Q, NEW s \in Seq(Q), NEW e
  PROVE  V!Occurrences(e, s) = Occurs(e, s) /\ Occurs(e, s) \in Nat /\ IsFiniteSet({k \in 1..Len(s) : s[k] = e})
<1>1. DOMAIN s = 1..Len(s) /\ Len(s) \in Nat
  OBVIOUS
<1>2. IsFiniteSet({k \in 1..Len(s) : s[k] = e})
  <2>1. IsFiniteSet(1..Len(s))
    BY <1>1, FS_Interval
  <2>2. QED
    BY <2>1, FS_Subset
<1>3. V!Occurrences(e, s) = Cardinality({k \in 1..Len(s) : s[k] = e})
  BY <1>1 DEF V!Occurrences, V!Cardinality, Cardinality
<1>4. QED
  BY <1>2, <1>3, FS_CardinalityType DEF Occurs

\* t is s with u put in after the first p.
PutIn(s, u, p, t) ==
  /\ Len(t) = Len(s) + Len(u)
  /\ \A k \in 1..Len(t) : t[k] = IF k <= p THEN s[k] ELSE IF k <= p + Len(u) THEN u[k - p] ELSE s[k - Len(u)]

LEMMA PutInOccurs ==
  ASSUME NEW Q, NEW s \in Seq(Q), NEW u \in Seq(Q), NEW t \in Seq(Q), NEW p \in 0..Len(s),
         PutIn(s, u, p, t), NEW e
  PROVE  Occurs(e, t) = Occurs(e, s) + Occurs(e, u)
<1> DEFINE n == Len(s)
           l == Len(u)
           A == {k \in 1..n : s[k] = e}
           B == {k \in 1..l : u[k] = e}
           C == {k \in 1..n + l : t[k] = e /\ (k <= p \/ k > p + l)}
           D == {k \in 1..n + l : t[k] = e /\ p < k /\ k <= p + l}
           f == [k \in A |-> IF k <= p THEN k ELSE k + l]
           g == [k \in B |-> k + p]
<1>1. n \in Nat /\ l \in Nat /\ Len(t) = n + l /\ p \in 0..n
  BY DEF PutIn
<1>2. \A k \in 1..n + l : t[k] = IF k <= p THEN s[k] ELSE IF k <= p + l THEN u[k - p] ELSE s[k - l]
  BY <1>1 DEF PutIn
<1> HIDE DEF n, l
<1>3. f \in [A -> C]
  <2> SUFFICES ASSUME NEW k \in A PROVE f[k] \in C
    OBVIOUS
  <2>1. CASE k <= p
    BY <1>1, <1>2, <2>1
  <2>2. CASE k > p
    <3>1. k + l \in 1..n + l /\ k + l > p + l /\ ~(k + l <= p) /\ ~(k + l <= p + l) /\ (k + l) - l = k
      BY <1>1, <2>2
    <3>2. t[k + l] = s[k]
      BY <1>2, <3>1
    <3>3. QED
      BY <2>2, <3>1, <3>2
  <2>3. QED
    BY <1>1, <2>1, <2>2
<1>4. \A a, b \in A : f[a] = f[b] => a = b
  BY <1>1
<1>5. \A c \in C : \E a \in A : f[a] = c
  <2> SUFFICES ASSUME NEW c \in C PROVE \E a \in A : f[a] = c
    OBVIOUS
  <2>1. CASE c <= p
    <3>1. c \in A /\ f[c] = c
      BY <1>1, <1>2, <2>1
    <3>2. QED
      BY <3>1
  <2>2. CASE c > p + l
    <3>1. c - l \in 1..n /\ ~(c - l <= p) /\ (c - l) + l = c /\ ~(c <= p) /\ ~(c <= p + l)
      BY <1>1, <2>2
    <3>2. s[c - l] = e
      BY <1>2, <3>1
    <3>3. c - l \in A /\ f[c - l] = c
      BY <3>1, <3>2
    <3>4. QED
      BY <3>3
  <2>3. QED
    BY <2>1, <2>2
<1>6. g \in [B -> D]
  <2> SUFFICES ASSUME NEW k \in B PROVE g[k] \in D
    OBVIOUS
  <2>1. k + p \in 1..n + l /\ p < k + p /\ k + p <= p + l /\ ~(k + p <= p) /\ (k + p) - p = k
    BY <1>1
  <2>2. t[k + p] = u[k]
    BY <1>2, <2>1
  <2>3. QED
    BY <2>1, <2>2
<1>7. \A a, b \in B : g[a] = g[b] => a = b
  BY <1>1
<1>8. \A c \in D : \E a \in B : g[a] = c
  <2> SUFFICES ASSUME NEW c \in D PROVE \E a \in B : g[a] = c
    OBVIOUS
  <2>1. c - p \in 1..l /\ (c - p) + p = c /\ ~(c <= p)
    BY <1>1
  <2>2. u[c - p] = e
    BY <1>2, <2>1
  <2>3. c - p \in B /\ g[c - p] = c
    BY <2>1, <2>2
  <2>4. QED
    BY <2>3
<1>9. IsFiniteSet(A) /\ IsFiniteSet(B)
  BY OccursIs DEF n, l
<1>10. {k \in 1..n + l : t[k] = e} = C \cup D /\ C \cap D = {}
  BY <1>1
<1>11. Occurs(e, s) = Cardinality(A) /\ Occurs(e, u) = Cardinality(B) /\ Occurs(e, t) = Cardinality(C \cup D)
  BY <1>1, <1>10 DEF Occurs, n, l
<1> HIDE DEF A, B, C, D, f, g
<1>12. IsFiniteSet(C) /\ Cardinality(C) = Cardinality(A)
  BY <1>3, <1>4, <1>5, <1>9, SameSize
<1>13. IsFiniteSet(D) /\ Cardinality(D) = Cardinality(B)
  BY <1>6, <1>7, <1>8, <1>9, SameSize
<1>14. Cardinality(C \cup D) = Cardinality(C) + Cardinality(D)
  BY <1>10, <1>12, <1>13, ApartSize
<1>15. QED
  BY <1>11, <1>12, <1>13, <1>14

\* Where the vectors have e.
Places(se, e) ==
  {at \in Vecs \X (1..MaxCap) : at[2] <= Len(se[at[1]]) /\ se[at[1]][at[2]] = e}

LEMMA PlacesChange ==
  ASSUME IsFiniteSet(Vecs), MaxCap \in Nat,
         NEW se \in [Vecs -> Seq(Vals)], NEW x \in Vecs, NEW s \in Seq(Vals),
         Len(se[x]) <= MaxCap, Len(s) <= MaxCap, NEW e
  PROVE  /\ Cardinality(Places(se, e)) \in Nat
         /\ Cardinality(Places([se EXCEPT ![x] = s], e)) =
              Cardinality(Places(se, e)) - Occurs(e, se[x]) + Occurs(e, s)
<1> DEFINE te == [se EXCEPT ![x] = s]
           Rest == {at \in Places(se, e) : at[1] # x}
<1>1. ASSUME NEW te0 \in [Vecs -> Seq(Vals)], Len(te0[x]) <= MaxCap,
             \A y \in Vecs : y # x => te0[y] = se[y]
      PROVE  /\ Occurs(e, te0[x]) \in Nat /\ IsFiniteSet(Rest) /\ Cardinality(Rest) \in Nat
             /\ Cardinality(Places(te0, e)) = Cardinality(Rest) + Occurs(e, te0[x])
  <2> DEFINE A == {k \in 1..Len(te0[x]) : te0[x][k] = e}
             B == {at \in Places(te0, e) : at[1] = x}
             f == [k \in A |-> <<x, k>>]
  <2>1. te0[x] \in Seq(Vals) /\ Len(te0[x]) \in Nat
    OBVIOUS
  <2>2. IsFiniteSet(A) /\ Occurs(e, te0[x]) = Cardinality(A) /\ Occurs(e, te0[x]) \in Nat
    BY <2>1, OccursIs DEF Occurs
  <2>3. f \in [A -> B]
    BY <1>1, <2>1 DEF Places
  <2>4. \A a, b \in A : f[a] = f[b] => a = b
    OBVIOUS
  <2>5. \A b \in B : \E a \in A : f[a] = b
    <3> SUFFICES ASSUME NEW b \in B PROVE \E a \in A : f[a] = b
      OBVIOUS
    <3>1. b = <<x, b[2]>> /\ b[2] \in A
      BY <2>1 DEF Places
    <3>2. QED
      BY <3>1
  <2>6. Places(te0, e) = Rest \cup B /\ Rest \cap B = {}
    BY <1>1 DEF Places
  <2>7. IsFiniteSet(Rest)
    <3>1. IsFiniteSet(Vecs \X (1..MaxCap))
      <4>1. IsFiniteSet(1..MaxCap)
        BY FS_Interval
      <4>2. QED
        BY <4>1, FS_Product
    <3>2. Rest \in SUBSET (Vecs \X (1..MaxCap))
      BY DEF Places
    <3>3. QED
      BY <3>1, <3>2, FS_Subset
  <2> HIDE DEF A, B, f, Rest
  <2>8. IsFiniteSet(B) /\ Cardinality(B) = Cardinality(A)
    BY <2>2, <2>3, <2>4, <2>5, SameSize
  <2>9. QED
    BY <2>2, <2>6, <2>7, <2>8, ApartSize
<1>2. te \in [Vecs -> Seq(Vals)] /\ te[x] = s /\ \A y \in Vecs : y # x => te[y] = se[y]
  OBVIOUS
<1> HIDE DEF te, Rest
<1>3. Cardinality(Places(se, e)) = Cardinality(Rest) + Occurs(e, se[x])
      /\ Occurs(e, se[x]) \in Nat /\ Cardinality(Rest) \in Nat
  BY <1>1
<1>4. Cardinality(Places(te, e)) = Cardinality(Rest) + Occurs(e, s) /\ Occurs(e, s) \in Nat
  BY <1>1, <1>2
<1>5. QED
  BY <1>3, <1>4 DEF te

\* v holds s in constructed memory, and its other memory is raw.
VecType == [on : BOOLEAN, has : BOOLEAN, mem : Seq(Vals \cup {RAW}), size : Nat]
Fits(v, s) ==
  /\ v \in VecType /\ s \in Seq(Vals) /\ v.size = Len(s)
  /\ Len(s) <= Len(v.mem) /\ Len(v.mem) <= MaxCap
  /\ \A k \in 1..Len(v.mem) : v.mem[k] = IF k <= Len(s) THEN s[k] ELSE RAW
  /\ ~v.on => ~v.has /\ Len(s) = 0
Blocked(ve) == Count(Vecs, [y \in Vecs |-> V!Has(ve[y])], 1)
\* Every vector fits its sequence, live counts the elements of the sequences,
\* and blocks the vectors with a block.
VectorsHold(ve, se, li, bl) ==
  /\ ve \in [Vecs -> VecType] /\ se \in [Vecs -> Seq(Vals)] /\ li \in [Vals -> Int]
  /\ \A x \in Vecs : Fits(ve[x], se[x])
  /\ \A e \in Vals : li[e] = Cardinality(Places(se, e))
  /\ bl = Blocked(ve)
VectorsNow == VectorsHold(vec, seq, live, blocks)

LEMMA VectorsAre ==
  /\ IsFiniteSet(Vecs) /\ RAW \notin Vals
  /\ DEF_RESERVE \in Nat /\ DEF_RESERVE > 0 /\ STEP \in Nat /\ STEP > 0 /\ MaxCap \in Nat /\ MaxCap > 0
BY VectorAssumption

LEMMA HasIs == \A v \in VecType : V!Has(v) \in {0, 1} /\ (V!Has(v) = 1 <=> v.has)
BY DEF V!Has, VecType

LEMMA PrefixIs ==
  ASSUME NEW v, NEW s, Fits(v, s)
  PROVE  V!Prefix(v) = s
<1> DEFINE t == SubSeq(v.mem, 1, v.size)
<1>1. v.mem \in Seq(Vals \cup {RAW}) /\ v.size = Len(s) /\ Len(s) \in Nat /\ Len(s) <= Len(v.mem)
      /\ s \in Seq(Vals)
  BY DEF Fits, VecType
<1>2. t \in Seq(Vals \cup {RAW}) /\ Len(t) = Len(s) /\ \A k \in 1..Len(s) : t[k] = v.mem[k]
  BY <1>1
<1>3. \A k \in 1..Len(s) : t[k] = s[k]
  BY <1>1, <1>2 DEF Fits
<1>4. s \in Seq(Vals \cup {RAW})
  BY <1>1
<1> HIDE DEF t
<1>5. t = s
  BY <1>2, <1>3, <1>4
<1>6. QED
  BY <1>5 DEF V!Prefix, t

LEMMA SizeFits ==
  ASSUME NEW v, NEW s, Fits(v, s)
  PROVE  Len(s) \in Nat /\ Len(v.mem) \in Nat /\ Len(s) <= MaxCap
<1>1. v.mem \in Seq(Vals \cup {RAW}) /\ s \in Seq(Vals) /\ Len(s) <= Len(v.mem) /\ Len(v.mem) <= MaxCap
  BY DEF Fits, VecType
<1>2. QED
  BY <1>1, VectorsAre

\* A vector without elements fits the empty sequence.
LEMMA EmptyFits ==
  ASSUME NEW v \in VecType, v.size = 0, Len(v.mem) <= MaxCap, ~v.on => ~v.has,
         \A k \in 1..Len(v.mem) : v.mem[k] = RAW
  PROVE  Fits(v, <<>>)
<1>1. <<>> \in Seq(Vals) /\ Len(<<>>) = 0 /\ Len(v.mem) \in Nat
  BY DEF VecType
<1>2. QED
  BY <1>1 DEF Fits

\* One vector becomes another, and live and blocks change by what it gains.
LEMMA OneVectorBecomes ==
  ASSUME NEW ve, NEW se, NEW li, NEW bl, VectorsHold(ve, se, li, bl),
         NEW x \in Vecs, NEW v, NEW s, Fits(v, s)
  PROVE  VectorsHold([ve EXCEPT ![x] = v], [se EXCEPT ![x] = s],
                     [e \in Vals |-> li[e] + Occurs(e, s) - Occurs(e, se[x])],
                     bl + V!Has(v) - V!Has(ve[x]))
<1> DEFINE wf == [ve EXCEPT ![x] = v]
           te == [se EXCEPT ![x] = s]
           ml == [e \in Vals |-> li[e] + Occurs(e, s) - Occurs(e, se[x])]
           has == [y \in Vecs |-> V!Has(ve[y])]
           hat == [y \in Vecs |-> V!Has(wf[y])]
<1>1. /\ ve \in [Vecs -> VecType] /\ se \in [Vecs -> Seq(Vals)] /\ li \in [Vals -> Int]
      /\ v \in VecType /\ s \in Seq(Vals) /\ bl = Count(Vecs, has, 1)
      /\ Len(se[x]) <= MaxCap /\ Len(s) <= MaxCap
  <2>1. ve \in [Vecs -> VecType] /\ se \in [Vecs -> Seq(Vals)] /\ li \in [Vals -> Int]
        /\ Fits(ve[x], se[x]) /\ bl = Count(Vecs, has, 1)
    BY DEF VectorsHold, Blocked
  <2>2. v \in VecType /\ s \in Seq(Vals)
    BY DEF Fits
  <2>3. Len(s) <= MaxCap
    BY SizeFits
  <2>4. Len(se[x]) <= MaxCap
    BY <2>1, SizeFits
  <2>5. QED
    BY <2>1, <2>2, <2>3, <2>4
<1>2. wf \in [Vecs -> VecType] /\ te \in [Vecs -> Seq(Vals)]
  BY <1>1
<1>3. \A y \in Vecs : Fits(wf[y], te[y])
  BY <1>1 DEF VectorsHold
<1>4. ASSUME NEW e \in Vals
      PROVE  ml[e] \in Int /\ ml[e] = Cardinality(Places(te, e))
  <2>1. Occurs(e, s) \in Nat /\ Occurs(e, se[x]) \in Nat
    BY <1>1, OccursIs
  <2>2. li[e] \in Int /\ li[e] = Cardinality(Places(se, e))
    BY <1>1 DEF VectorsHold
  <2>3. Cardinality(Places(te, e)) = Cardinality(Places(se, e)) - Occurs(e, se[x]) + Occurs(e, s)
    <3>1. /\ se \in [Vecs -> Seq(Vals)] /\ s \in Seq(Vals)
          /\ Len(se[x]) <= MaxCap /\ Len(s) <= MaxCap /\ IsFiniteSet(Vecs) /\ MaxCap \in Nat
      BY <1>1, VectorsAre
    <3>2. Cardinality(Places([se EXCEPT ![x] = s], e)) =
            Cardinality(Places(se, e)) - Occurs(e, se[x]) + Occurs(e, s)
      BY <3>1, PlacesChange, ZenonT(60)
    <3>3. QED
      BY <3>2
  <2>4. QED
    BY <2>1, <2>2, <2>3
<1>5. ml \in [Vals -> Int]
  BY <1>4
<1>6. bl + V!Has(v) - V!Has(ve[x]) = Blocked(wf)
  <2>1. ChangedAt(Vecs, has, hat, x) /\ has[x] = V!Has(ve[x]) /\ hat[x] = V!Has(v)
    BY <1>1 DEF ChangedAt
  <2>2. One(has[x], 1) = V!Has(ve[x]) /\ One(hat[x], 1) = V!Has(v)
        /\ V!Has(ve[x]) \in Nat /\ V!Has(v) \in Nat
    BY <1>1, <2>1, HasIs DEF One
  <2> HIDE DEF has, hat
  <2>3. Count(Vecs, hat, 1) = Count(Vecs, has, 1) - One(has[x], 1) + One(hat[x], 1)
        /\ Count(Vecs, has, 1) \in Nat
    BY <2>1, VectorsAre, CountUpdate
  <2>4. QED
    BY <1>1, <2>2, <2>3 DEF Blocked, hat
<1> HIDE DEF wf, te, ml, has, hat
<1>7. VectorsHold(wf, te, ml, bl + V!Has(v) - V!Has(ve[x]))
  BY <1>2, <1>3, <1>4, <1>5, <1>6 DEF VectorsHold
<1>8. QED
  BY <1>7 DEF wf, te, ml

\* The same for the variables, and for two vectors.
LEMMA Becoming ==
  ASSUME VectorsNow, NEW x \in Vecs, NEW v, NEW s, Fits(v, s),
         vec' = [vec EXCEPT ![x] = v], seq' = [seq EXCEPT ![x] = s],
         live' = [e \in Vals |-> live[e] + Occurs(e, s) - Occurs(e, seq[x])],
         blocks' = blocks + V!Has(v) - V!Has(vec[x])
  PROVE  VectorsNow'
<1>1. VectorsHold(vec', seq', live', blocks')
  BY OneVectorBecomes DEF VectorsNow
<1>2. QED
  BY <1>1 DEF VectorsNow, VectorsHold, Blocked, Places

BothBecome(x, r, v, s, w, t) ==
  /\ vec' = [vec EXCEPT ![x] = v, ![r] = w] /\ seq' = [seq EXCEPT ![x] = s, ![r] = t]
  /\ live' = [e \in Vals |-> live[e] + (Occurs(e, s) - Occurs(e, seq[x]))
                                   + (Occurs(e, t) - Occurs(e, seq[r]))]
  /\ blocks' = blocks + (V!Has(v) - V!Has(vec[x])) + (V!Has(w) - V!Has(vec[r]))

LEMMA BothBecoming ==
  ASSUME VectorsNow, NEW x \in Vecs, NEW r \in Vecs, x # r,
         NEW v, NEW s, Fits(v, s), NEW w, NEW t, Fits(w, t), BothBecome(x, r, v, s, w, t)
  PROVE  VectorsNow'
<1> USE DEF BothBecome
<1> DEFINE ve == [vec EXCEPT ![x] = v]
           se == [seq EXCEPT ![x] = s]
           li == [e \in Vals |-> live[e] + Occurs(e, s) - Occurs(e, seq[x])]
           bl == blocks + V!Has(v) - V!Has(vec[x])
           ml == [e \in Vals |-> li[e] + Occurs(e, t) - Occurs(e, se[r])]
           cl == bl + V!Has(w) - V!Has(ve[r])
<1>1. /\ vec \in [Vecs -> VecType] /\ seq \in [Vecs -> Seq(Vals)] /\ live \in [Vals -> Int]
      /\ Fits(vec[x], seq[x]) /\ Fits(vec[r], seq[r]) /\ blocks \in Nat
  <2>1. blocks = Blocked(vec)
    BY DEF VectorsNow, VectorsHold
  <2>2. Blocked(vec) \in Nat
    BY VectorsAre, CountFacts DEF Blocked
  <2>3. QED
    BY <2>1, <2>2 DEF VectorsNow, VectorsHold
<1>2. /\ vec[x] \in VecType /\ vec[r] \in VecType /\ v \in VecType /\ w \in VecType
      /\ s \in Seq(Vals) /\ t \in Seq(Vals) /\ seq[x] \in Seq(Vals) /\ seq[r] \in Seq(Vals)
  BY <1>1 DEF Fits
<1>3. VectorsHold(ve, se, li, bl)
  BY OneVectorBecomes DEF VectorsNow
<1> HIDE DEF ve, se, li, bl
<1>4. VectorsHold([ve EXCEPT ![r] = w], [se EXCEPT ![r] = t], ml, cl)
  BY <1>3, OneVectorBecomes
<1>5. vec' = [ve EXCEPT ![r] = w] /\ seq' = [se EXCEPT ![r] = t]
      /\ ve[r] = vec[r] /\ se[r] = seq[r]
  BY <1>1 DEF ve, se
<1>6. live' = ml
  <2>1. ASSUME NEW e \in Vals PROVE live'[e] = ml[e]
    <3>1. /\ Occurs(e, s) \in Nat /\ Occurs(e, t) \in Nat
          /\ Occurs(e, seq[x]) \in Nat /\ Occurs(e, seq[r]) \in Nat
      BY <1>2, OccursIs
    <3>2. live[e] \in Int
      BY <1>1
    <3>3. QED
      BY <3>1, <3>2, <1>5 DEF li
  <2>2. QED
    BY <2>1
<1>7. blocks' = cl
  <2>1. V!Has(v) \in Int /\ V!Has(w) \in Int /\ V!Has(vec[x]) \in Int /\ V!Has(vec[r]) \in Int
    BY <1>2, HasIs
  <2>2. QED
    BY <1>1, <1>5, <2>1 DEF bl
<1> HIDE DEF ml, cl
<1>8. VectorsHold(vec', seq', live', blocks')
  BY <1>4, <1>5, <1>6, <1>7
<1>9. QED
  BY <1>8 DEF VectorsNow, VectorsHold, Blocked, Places

-----------------------------------------------------------------------------
(* What the vectors become                                                 *)

LEMMA RawIs ==
  ASSUME NEW n \in Nat
  PROVE  V!Raw(n) \in Seq(Vals \cup {RAW}) /\ Len(V!Raw(n)) = n /\ \A k \in 1..n : V!Raw(n)[k] = RAW
BY DEF V!Raw

\* A block holds the elements first and is raw after them.
LEMMA BlockIs ==
  ASSUME NEW u \in Seq(Vals \cup {RAW}), NEW n \in Nat, Len(u) <= n
  PROVE  /\ V!Block(u, n) \in Seq(Vals \cup {RAW}) /\ Len(V!Block(u, n)) = n
         /\ \A k \in 1..n : V!Block(u, n)[k] = IF k <= Len(u) THEN u[k] ELSE RAW
<1> DEFINE m == n - Len(u)
           w == V!Raw(m)
<1>1. m \in Nat /\ Len(u) \in Nat
  OBVIOUS
<1>2. w \in Seq(Vals \cup {RAW}) /\ Len(w) = m /\ \A k \in 1..m : w[k] = RAW
  BY <1>1, RawIs
<1>3. n = Len(u) + m
  BY <1>1
<1> HIDE DEF w, m
<1>4. u \o w \in Seq(Vals \cup {RAW}) /\ Len(u \o w) = n
  BY <1>1, <1>2, <1>3
<1>5. \A k \in 1..n : (u \o w)[k] = IF k <= Len(u) THEN u[k] ELSE RAW
  BY <1>1, <1>2, <1>3
<1>6. QED
  BY <1>4, <1>5 DEF V!Block, w, m

LEMMA EmptiesFit ==
  /\ Fits(V!Dead, <<>>) /\ Fits(V!Empty, <<>>) /\ Fits([V!Empty EXCEPT !.has = TRUE], <<>>)
  /\ \A n \in Nat : n <= MaxCap => Fits([V!Empty EXCEPT !.has = TRUE, !.mem = V!Raw(n)], <<>>)
  /\ V!Has(V!Dead) = 0 /\ V!Has(V!Empty) = 0 /\ V!Has([V!Empty EXCEPT !.has = TRUE]) = 1
  /\ \A n \in Nat : V!Has([V!Empty EXCEPT !.has = TRUE, !.mem = V!Raw(n)]) = 1
<1> DEFINE owner == [V!Empty EXCEPT !.has = TRUE]
           raw(n) == [V!Empty EXCEPT !.has = TRUE, !.mem = V!Raw(n)]
<1>1. <<>> \in Seq(Vals \cup {RAW}) /\ Len(<<>>) = 0 /\ Len(<<>>) <= MaxCap
      /\ \A k \in 1..Len(<<>>) : <<>>[k] = RAW
  BY VectorsAre
<1>2. V!Dead \in VecType /\ V!Dead.size = 0 /\ V!Dead.mem = <<>> /\ ~V!Dead.has
  BY <1>1 DEF VecType, V!Dead
<1>3. V!Empty \in VecType /\ V!Empty.size = 0 /\ V!Empty.mem = <<>> /\ V!Empty.on /\ ~V!Empty.has
  BY <1>1 DEF VecType, V!Dead, V!Empty
<1>4. owner \in VecType /\ owner.size = 0 /\ owner.mem = <<>> /\ owner.on /\ owner.has
  BY <1>1, <1>3 DEF VecType
<1>5. ASSUME NEW n \in Nat
      PROVE  raw(n) \in VecType /\ raw(n).size = 0 /\ raw(n).mem = V!Raw(n) /\ raw(n).on /\ raw(n).has
  BY <1>3, RawIs DEF VecType
<1> HIDE DEF owner, raw
<1>6. Fits(V!Dead, <<>>)
  BY <1>1, <1>2, EmptyFits
<1>7. Fits(V!Empty, <<>>)
  BY <1>1, <1>3, EmptyFits
<1>8. Fits(owner, <<>>)
  BY <1>1, <1>4, EmptyFits
<1>9. ASSUME NEW n \in Nat, n <= MaxCap
      PROVE  Fits(raw(n), <<>>)
  <2>1. Len(V!Raw(n)) = n /\ \A k \in 1..Len(V!Raw(n)) : V!Raw(n)[k] = RAW
    BY RawIs
  <2>2. QED
    BY <1>5, <1>9, <2>1, EmptyFits
<1>10. V!Has(V!Dead) = 0 /\ V!Has(V!Empty) = 0 /\ V!Has(owner) = 1 /\ \A n \in Nat : V!Has(raw(n)) = 1
  BY <1>2, <1>3, <1>4, <1>5 DEF V!Has
<1>11. /\ Fits(V!Dead, <<>>) /\ Fits(V!Empty, <<>>) /\ Fits(owner, <<>>)
       /\ \A n \in Nat : n <= MaxCap => Fits(raw(n), <<>>)
       /\ V!Has(V!Dead) = 0 /\ V!Has(V!Empty) = 0 /\ V!Has(owner) = 1
       /\ \A n \in Nat : V!Has(raw(n)) = 1
  BY <1>6, <1>7, <1>8, <1>9, <1>10
<1>12. QED
  BY <1>11, Zenon DEF owner, raw

LEMMA CopyFits ==
  ASSUME NEW r, Fits(vec[r], seq[r]), vec[r].on
  PROVE  Fits(V!CopyOf(r), seq[r]) /\ V!Has(V!CopyOf(r)) = 1
<1> DEFINE v == V!CopyOf(r)
           s == seq[r]
           m == V!Block(s, Len(vec[r].mem))
<1>1. V!Prefix(vec[r]) = s
  BY PrefixIs
<1>2. vec[r] \in VecType /\ s \in Seq(Vals) /\ vec[r].size = Len(s) /\ Len(s) <= Len(vec[r].mem)
      /\ Len(vec[r].mem) <= MaxCap /\ Len(vec[r].mem) \in Nat
  BY SizeFits DEF Fits
<1>3. m \in Seq(Vals \cup {RAW}) /\ Len(m) = Len(vec[r].mem)
      /\ \A k \in 1..Len(m) : m[k] = IF k <= Len(s) THEN s[k] ELSE RAW
  <2>1. s \in Seq(Vals \cup {RAW})
    BY <1>2
  <2>2. QED
    BY <1>2, <2>1, BlockIs
<1>4. v = [vec[r] EXCEPT !.mem = m, !.has = TRUE]
  BY <1>1 DEF V!CopyOf, V!Cap
<1> HIDE DEF v, m, s
<1>5. v \in VecType /\ v.size = Len(s) /\ v.mem = m /\ v.on /\ v.has
  BY <1>2, <1>3, <1>4 DEF VecType
<1>6. Fits(v, s) /\ V!Has(v) = 1
  BY <1>2, <1>3, <1>5 DEF Fits, V!Has
<1>7. QED
  BY <1>6 DEF v, s

\* A vector that is cleared, and one that loses the element at p.
Cleared(v) == [v EXCEPT !.mem = V!Raw(V!Cap(v)), !.size = 0]
Erased(v, p) ==
  [v EXCEPT !.mem = V!Block(V!RemoveAt(V!Prefix(v), p + 1), V!Cap(v)), !.size = @ - 1]

LEMMA ClearFits ==
  ASSUME NEW v, NEW s, Fits(v, s), v.on
  PROVE  Fits(Cleared(v), <<>>) /\ V!Has(Cleared(v)) = V!Has(v)
<1> DEFINE w == Cleared(v)
           m == V!Raw(V!Cap(v))
<1>1. v \in VecType /\ V!Cap(v) \in Nat /\ V!Cap(v) <= MaxCap
  BY SizeFits DEF Fits, V!Cap
<1>2. m \in Seq(Vals \cup {RAW}) /\ Len(m) = V!Cap(v) /\ \A k \in 1..Len(m) : m[k] = RAW
  BY <1>1, RawIs
<1>3. w = [v EXCEPT !.mem = m, !.size = 0]
  BY DEF Cleared
<1> HIDE DEF w, m
<1>4. w \in VecType /\ w.size = 0 /\ w.mem = m /\ w.on /\ w.has = v.has
  BY <1>1, <1>2, <1>3 DEF VecType
<1>5. Fits(w, <<>>) /\ V!Has(w) = V!Has(v)
  BY <1>1, <1>2, <1>4, EmptyFits DEF V!Has
<1>6. QED
  BY <1>5 DEF w

LEMMA EraseFits ==
  ASSUME NEW v, NEW s, Fits(v, s), v.on, NEW p \in Nat, p < v.size
  PROVE  /\ Fits(Erased(v, p), V!RemoveAt(s, p + 1)) /\ V!Has(Erased(v, p)) = V!Has(v)
         /\ \A e : Occurs(e, s) = Occurs(e, V!RemoveAt(s, p + 1)) + Occurs(e, <<v.mem[p + 1]>>)
<1> DEFINE w == Erased(v, p)
           t == V!RemoveAt(s, p + 1)
           m == V!Block(t, V!Cap(v))
           u == <<s[p + 1]>>
<1>1. v \in VecType /\ s \in Seq(Vals) /\ v.size = Len(s) /\ Len(s) \in Nat /\ Len(v.mem) \in Nat
      /\ Len(s) <= Len(v.mem) /\ Len(v.mem) <= MaxCap
      /\ v.mem[p + 1] = s[p + 1] /\ s[p + 1] \in Vals
  BY SizeFits DEF Fits
<1>2. V!Prefix(v) = s
  BY PrefixIs
<1>3. p + 1 \in 1..Len(s) /\ p \in 0..Len(s)
  BY <1>1
<1>4. t \in Seq(Vals) /\ Len(t) = Len(s) - 1
      /\ \A k \in 1..Len(s) - 1 : t[k] = IF k <= p THEN s[k] ELSE s[k + 1]
  <2> DEFINE a == SubSeq(s, 1, p)
             b == SubSeq(s, p + 2, Len(s))
  <2>1. t = a \o b
    <3>1. (p + 1) - 1 = p /\ (p + 1) + 1 = p + 2
      OBVIOUS
    <3>2. QED
      BY <3>1, Zenon DEF V!RemoveAt
  <2>2. a \in Seq(Vals) /\ Len(a) = p /\ \A k \in 1..p : a[k] = s[k]
    BY <1>1, <1>3
  <2>3. b \in Seq(Vals) /\ Len(b) = Len(s) - 1 - p /\ \A k \in 1..Len(s) - 1 - p : b[k] = s[p + 1 + k]
    BY <1>1, <1>3
  <2> HIDE DEF t, a, b
  <2>4. a \o b \in Seq(Vals) /\ Len(a \o b) = Len(a) + Len(b)
        /\ \A k \in 1..Len(a) + Len(b) : (a \o b)[k] = IF k <= Len(a) THEN a[k] ELSE b[k - Len(a)]
    BY <2>2, <2>3
  <2>8. Len(a) + Len(b) = Len(s) - 1
    BY <1>1, <1>3, <2>2, <2>3
  <2>9. \A k \in 1..Len(s) - 1 : t[k] = IF k <= p THEN a[k] ELSE b[k - p]
    BY <2>1, <2>2, <2>4, <2>8
  <2>5. ASSUME NEW k \in 1..Len(s) - 1, ~(k <= p) PROVE t[k] = s[k + 1]
    <3>1. k - p \in 1..Len(s) - 1 - p /\ p + 1 + (k - p) = k + 1
      BY <1>1, <1>3, <2>5
    <3>2. t[k] = b[k - p]
      BY <2>5, <2>9
    <3>3. QED
      BY <2>3, <3>1, <3>2
  <2>6. ASSUME NEW k \in 1..Len(s) - 1, k <= p PROVE t[k] = s[k]
    <3>1. k \in 1..p
      BY <1>1, <2>6
    <3>2. QED
      BY <2>2, <2>6, <2>9, <3>1
  <2>7. QED
    BY <2>1, <2>4, <2>5, <2>6, <2>8
<1>5. w = [v EXCEPT !.mem = m, !.size = Len(s) - 1]
  BY <1>1, <1>2 DEF Erased
<1> HIDE DEF w, t, m
<1>6. m \in Seq(Vals \cup {RAW}) /\ Len(m) = Len(v.mem)
      /\ \A k \in 1..Len(m) : m[k] = IF k <= Len(t) THEN t[k] ELSE RAW
  <2>1. t \in Seq(Vals \cup {RAW}) /\ Len(t) <= Len(v.mem) /\ V!Cap(v) = Len(v.mem)
    BY <1>1, <1>3, <1>4 DEF V!Cap
  <2>2. V!Cap(v) \in Nat /\ Len(t) <= V!Cap(v)
    BY <1>1, <2>1
  <2>3. QED
    BY <2>1, <2>2, BlockIs DEF m
<1>7. w \in VecType /\ w.size = Len(s) - 1 /\ w.mem = m /\ w.on /\ w.has = v.has
  <2> DEFINE n == Len(s) - 1
  <2>1. n \in Nat
    BY <1>1, <1>3
  <2> HIDE DEF n
  <2>2. w = [v EXCEPT !.mem = m, !.size = n]
    BY <1>5 DEF n
  <2>3. w \in VecType /\ w.size = n /\ w.mem = m /\ w.on /\ w.has = v.has
    BY <1>1, <1>6, <2>1, <2>2 DEF VecType
  <2>4. QED
    BY <2>3 DEF n
<1>8. Fits(w, t) /\ V!Has(w) = V!Has(v)
  <2>1. Len(t) <= Len(m) /\ Len(m) <= MaxCap /\ w.size = Len(t)
    BY <1>1, <1>3, <1>4, <1>6, <1>7
  <2>2. QED
    BY <1>4, <1>6, <1>7, <2>1 DEF Fits, V!Has
<1>9. ASSUME NEW e PROVE Occurs(e, s) = Occurs(e, t) + Occurs(e, u)
  <2>1. u \in Seq(Vals) /\ Len(u) = 1 /\ u[1] = s[p + 1] /\ p \in 0..Len(t)
    BY <1>1, <1>3, <1>4
  <2> HIDE DEF u
  <2>2. PutIn(t, u, p, s)
    <3>1. ASSUME NEW k \in 1..Len(s), k <= p PROVE s[k] = t[k]
      BY <1>1, <1>3, <1>4, <3>1
    <3>2. ASSUME NEW k \in 1..Len(s), ~(k <= p), k <= p + 1 PROVE s[k] = u[k - p]
      <4>1. k = p + 1 /\ k - p = 1
        BY <1>1, <1>3, <3>2
      <4>2. QED
        BY <2>1, <4>1
    <3>3. ASSUME NEW k \in 1..Len(s), ~(k <= p), ~(k <= p + 1) PROVE s[k] = t[k - 1]
      <4>1. k - 1 \in 1..Len(s) - 1 /\ ~(k - 1 <= p) /\ (k - 1) + 1 = k
        BY <1>1, <1>3, <3>3
      <4>2. QED
        BY <1>4, <4>1
    <3>4. Len(s) = Len(t) + Len(u)
      BY <1>1, <1>4, <2>1
    <3>5. QED
      BY <2>1, <3>1, <3>2, <3>3, <3>4 DEF PutIn
  <2>3. QED
    BY <1>1, <1>4, <2>1, <2>2, PutInOccurs
<1>10. QED
  BY <1>1, <1>8, <1>9 DEF w, t

LEMMA ConcatIs ==
  ASSUME NEW Q, NEW s \in Seq(Q), NEW u \in Seq(Q)
  PROVE  /\ s \o u \in Seq(Q) /\ Len(s \o u) = Len(s) + Len(u)
         /\ \A k \in 1..Len(s) + Len(u) : (s \o u)[k] = IF k <= Len(s) THEN s[k] ELSE u[k - Len(s)]
OBVIOUS

\* What is between the first p of s and the rest, up to n, is u.
Parts(s, u, p, n) == SubSeq(s, 1, p) \o u \o SubSeq(s, p + 1, n)

PartsHold(Q, s, u, p, n, t) ==
  /\ t \in Seq(Q) /\ Len(t) = n + Len(u)
  /\ \A k \in 1..n + Len(u) :
       t[k] = IF k <= p THEN s[k] ELSE IF k <= p + Len(u) THEN u[k - p] ELSE s[k - Len(u)]

LEMMA PartsAre ==
  ASSUME NEW Q, NEW s \in Seq(Q), NEW u \in Seq(Q), NEW n \in 0..Len(s), NEW p \in 0..n
  PROVE  PartsHold(Q, s, u, p, n, Parts(s, u, p, n))
<1> DEFINE a == SubSeq(s, 1, p)
           b == SubSeq(s, p + 1, n)
           c == a \o u
           t == c \o b
<1>1. Len(s) \in Nat /\ Len(u) \in Nat /\ n \in Nat /\ p \in Nat /\ p <= n /\ n <= Len(s)
  OBVIOUS
<1>2. a \in Seq(Q) /\ Len(a) = p /\ \A k \in 1..p : a[k] = s[k]
  BY <1>1
<1>3. b \in Seq(Q) /\ Len(b) = n - p /\ \A k \in 1..n - p : b[k] = s[p + k]
  <2>1. b \in Seq(Q)
    BY <1>1
  <2>2. Len(b) = n - p
    BY <1>1
  <2>3. ASSUME NEW k \in 1..n - p PROVE b[k] = s[p + k]
    BY <1>1
  <2>4. QED
    BY <2>1, <2>2, <2>3
<1> HIDE DEF a, b
<1>4. c \in Seq(Q) /\ Len(c) = p + Len(u)
      /\ \A k \in 1..p + Len(u) : c[k] = IF k <= p THEN a[k] ELSE u[k - p]
  <2>1. c \in Seq(Q) /\ Len(c) = Len(a) + Len(u)
        /\ \A k \in 1..Len(a) + Len(u) : c[k] = IF k <= Len(a) THEN a[k] ELSE u[k - Len(a)]
    BY <1>2, ConcatIs
  <2> HIDE DEF c
  <2>2. QED
    BY <1>2, <2>1
<1> HIDE DEF c
<1>5. t \in Seq(Q) /\ Len(t) = Len(c) + Len(b)
      /\ \A k \in 1..Len(c) + Len(b) : t[k] = IF k <= Len(c) THEN c[k] ELSE b[k - Len(c)]
  BY <1>3, <1>4, ConcatIs
<1>6. Len(c) + Len(b) = n + Len(u)
  BY <1>1, <1>3, <1>4
<1> HIDE DEF t
<1>7. ASSUME NEW k \in 1..n + Len(u), k <= p PROVE t[k] = s[k]
  <2>1. k \in 1..p /\ k <= Len(c) /\ k \in 1..p + Len(u)
    BY <1>1, <1>4, <1>7
  <2>2. QED
    BY <1>2, <1>4, <1>5, <1>6, <1>7, <2>1
<1>8. ASSUME NEW k \in 1..n + Len(u), ~(k <= p), k <= p + Len(u) PROVE t[k] = u[k - p]
  <2>1. k <= Len(c) /\ k \in 1..p + Len(u)
    BY <1>1, <1>4, <1>8
  <2>2. QED
    BY <1>4, <1>5, <1>6, <1>8, <2>1
<1>9. ASSUME NEW k \in 1..n + Len(u), ~(k <= p), ~(k <= p + Len(u)) PROVE t[k] = s[k - Len(u)]
  <2>1. k - Len(c) \in 1..n - p /\ p + (k - Len(c)) = k - Len(u) /\ ~(k <= Len(c))
    BY <1>1, <1>4, <1>9
  <2>2. t[k] = b[k - Len(c)]
    BY <1>5, <1>6, <2>1
  <2>3. QED
    BY <1>3, <2>1, <2>2
<1>10. t \in Seq(Q) /\ Len(t) = n + Len(u)
       /\ \A k \in 1..n + Len(u) :
            t[k] = IF k <= p THEN s[k] ELSE IF k <= p + Len(u) THEN u[k - p] ELSE s[k - Len(u)]
  BY <1>5, <1>6, <1>7, <1>8, <1>9
<1>11. QED
  BY <1>10 DEF t, c, a, b, Parts, PartsHold

\* u is put at p into a vector, in a block of n.
Placed(v, p, u, n) ==
  [v EXCEPT !.has = @ \/ n > V!Cap(v), !.size = @ + Len(u),
            !.mem = [k \in 1..n |-> IF k - p \in DOMAIN u THEN u[k - p]
                                    ELSE V!Gap(v, p, Len(u), n)[k]]]

LEMMA GapIs ==
  ASSUME NEW v, NEW s, Fits(v, s), NEW p \in 0..v.size, NEW l \in Nat, NEW n \in Nat, v.size + l <= n
  PROVE  \A k \in 1..n :
           V!Gap(v, p, l, n)[k] = IF k <= p THEN s[k] ELSE IF k <= p + l THEN RAW
                                  ELSE IF k <= v.size + l THEN s[k - l] ELSE RAW
<1> DEFINE w == V!Raw(l)
           t == Parts(v.mem, w, p, v.size)
<1>1. /\ v.mem \in Seq(Vals \cup {RAW}) /\ v.size = Len(s) /\ v.size \in Nat
      /\ Len(v.mem) \in Nat /\ v.size <= Len(v.mem)
      /\ \A k \in 1..v.size : v.mem[k] = s[k]
  <2>1. v \in VecType /\ v.size = Len(s) /\ Len(s) <= Len(v.mem)
        /\ \A k \in 1..Len(v.mem) : v.mem[k] = IF k <= Len(s) THEN s[k] ELSE RAW
    BY DEF Fits
  <2>2. v.mem \in Seq(Vals \cup {RAW}) /\ v.size \in Nat
    BY <2>1 DEF VecType
  <2>3. Len(s) \in Nat /\ Len(v.mem) \in Nat
    BY SizeFits
  <2>4. \A k \in 1..Len(s) : v.mem[k] = s[k]
    BY <2>1, <2>3
  <2>5. QED
    BY <2>1, <2>2, <2>3, <2>4
<1>2. w \in Seq(Vals \cup {RAW}) /\ Len(w) = l /\ \A k \in 1..l : w[k] = RAW
  BY RawIs
<1> HIDE DEF w
<1>3. t \in Seq(Vals \cup {RAW}) /\ Len(t) = v.size + Len(w)
      /\ \A k \in 1..v.size + Len(w) :
           t[k] = IF k <= p THEN v.mem[k] ELSE IF k <= p + Len(w) THEN w[k - p] ELSE v.mem[k - Len(w)]
  <2>1. v.size \in 0..Len(v.mem)
    BY <1>1
  <2>2. PartsHold(Vals \cup {RAW}, v.mem, w, p, v.size, t)
    BY <1>1, <1>2, <2>1, PartsAre
  <2> HIDE DEF t
  <2>3. QED
    BY <2>2 DEF PartsHold
<1> HIDE DEF t
<1>4. /\ \A k \in 1..v.size + l :
           t[k] = IF k <= p THEN v.mem[k] ELSE IF k <= p + l THEN w[k - p] ELSE v.mem[k - l]
      /\ \A k \in 1..n : V!Block(t, n)[k] = IF k <= v.size + l THEN t[k] ELSE RAW
  <2>1. Len(t) = v.size + l /\ Len(t) <= n
    BY <1>2, <1>3
  <2>2. \A k \in 1..n : V!Block(t, n)[k] = IF k <= Len(t) THEN t[k] ELSE RAW
    BY <1>3, <2>1, BlockIs
  <2>3. QED
    BY <1>2, <1>3, <2>1, <2>2
<1>5. ASSUME NEW k \in 1..n, k <= p PROVE V!Block(t, n)[k] = s[k]
  <2>1. k \in 1..v.size /\ k \in 1..v.size + l /\ k <= v.size + l
    BY <1>1, <1>5
  <2>2. V!Block(t, n)[k] = t[k] /\ t[k] = v.mem[k]
    BY <1>4, <1>5, <2>1
  <2>3. QED
    BY <1>1, <2>1, <2>2
<1>6. ASSUME NEW k \in 1..n, ~(k <= p), k <= p + l PROVE V!Block(t, n)[k] = RAW
  <2>1. k - p \in 1..l /\ k \in 1..v.size + l /\ k <= v.size + l
    BY <1>1, <1>6
  <2>2. V!Block(t, n)[k] = t[k] /\ t[k] = w[k - p]
    BY <1>4, <1>6, <2>1
  <2>3. QED
    BY <1>2, <2>1, <2>2
<1>7. ASSUME NEW k \in 1..n, ~(k <= p), ~(k <= p + l), k <= v.size + l
      PROVE  V!Block(t, n)[k] = s[k - l]
  <2>1. k - l \in 1..v.size /\ k \in 1..v.size + l
    BY <1>1, <1>7
  <2>2. V!Block(t, n)[k] = t[k] /\ t[k] = v.mem[k - l]
    BY <1>4, <1>7, <2>1
  <2>3. QED
    BY <1>1, <2>1, <2>2
<1>8. ASSUME NEW k \in 1..n, ~(k <= v.size + l) PROVE V!Block(t, n)[k] = RAW
  BY <1>4, <1>8
<1>9. V!Gap(v, p, l, n) = V!Block(t, n)
  BY DEF V!Gap, t, w, Parts
<1>10. QED
  BY <1>1, <1>5, <1>6, <1>7, <1>8, <1>9

LEMMA PlaceFits ==
  ASSUME NEW v, NEW s, Fits(v, s), v.on, NEW p \in 0..v.size, NEW u \in Seq(Vals),
         NEW n \in Nat, v.size + Len(u) <= n, n <= MaxCap, V!Cap(v) <= n
  PROVE  /\ Fits(Placed(v, p, u, n), Parts(s, u, p, Len(s)))
         /\ V!Has(Placed(v, p, u, n)) = IF v.has \/ n = V!Cap(v) THEN V!Has(v) ELSE V!Has(v) + 1
         /\ \A e : Occurs(e, Parts(s, u, p, Len(s))) = Occurs(e, s) + Occurs(e, u)
<1> DEFINE w == Placed(v, p, u, n)
           t == Parts(s, u, p, Len(s))
           m == [k \in 1..n |-> IF k - p \in DOMAIN u THEN u[k - p] ELSE V!Gap(v, p, Len(u), n)[k]]
<1>1. /\ v \in VecType /\ s \in Seq(Vals) /\ v.size = Len(s) /\ Len(s) \in Nat /\ Len(u) \in Nat
      /\ DOMAIN u = 1..Len(u) /\ V!Cap(v) \in Nat /\ V!Cap(v) = Len(v.mem)
  BY SizeFits DEF Fits, V!Cap
<1>2. t \in Seq(Vals) /\ Len(t) = Len(s) + Len(u)
      /\ \A k \in 1..Len(s) + Len(u) :
           t[k] = IF k <= p THEN s[k] ELSE IF k <= p + Len(u) THEN u[k - p] ELSE s[k - Len(u)]
  <2>1. Len(s) \in 0..Len(s) /\ p \in 0..Len(s)
    BY <1>1
  <2>2. PartsHold(Vals, s, u, p, Len(s), t)
    BY <1>1, <2>1, PartsAre
  <2> HIDE DEF t
  <2>3. QED
    BY <2>2 DEF PartsHold
<1> HIDE DEF t
<1>3. \A k \in 1..n : m[k] = IF k <= Len(t) THEN t[k] ELSE RAW
  <2> SUFFICES ASSUME NEW k \in 1..n PROVE m[k] = IF k <= Len(t) THEN t[k] ELSE RAW
    OBVIOUS
  <2>1. V!Gap(v, p, Len(u), n)[k] = IF k <= p THEN s[k] ELSE IF k <= p + Len(u) THEN RAW
                                    ELSE IF k <= v.size + Len(u) THEN s[k - Len(u)] ELSE RAW
    BY <1>1, GapIs
  <2>2. k - p \in DOMAIN u <=> ~(k <= p) /\ k <= p + Len(u)
    BY <1>1
  <2>3. m[k] = IF k - p \in DOMAIN u THEN u[k - p] ELSE V!Gap(v, p, Len(u), n)[k]
    OBVIOUS
  <2> HIDE DEF m
  <2>4. QED
    BY <1>1, <1>2, <2>1, <2>2, <2>3
<1>4. m \in Seq(Vals \cup {RAW}) /\ Len(m) = n
  <2>1. \A k \in 1..n : m[k] \in Vals \cup {RAW}
    BY <1>1, <1>2, <1>3
  <2>2. DOMAIN m = 1..n /\ m = [k \in 1..n |-> m[k]]
    OBVIOUS
  <2> HIDE DEF m
  <2>3. m \in [1..n -> Vals \cup {RAW}]
    BY <2>1, <2>2
  <2>4. QED
    BY <2>3
<1>5. w = [v EXCEPT !.has = v.has \/ n > V!Cap(v), !.size = v.size + Len(u), !.mem = m]
  BY <1>1 DEF Placed
<1> HIDE DEF w, m
<1>6. w \in VecType /\ w.size = Len(t) /\ w.mem = m /\ w.on /\ (w.has <=> v.has \/ n > V!Cap(v))
  <2> DEFINE l == v.size + Len(u)
             b == (v.has \/ n > V!Cap(v))
  <2>1. l \in Nat /\ b \in BOOLEAN /\ l = Len(t)
    BY <1>1, <1>2
  <2>2. w = [v EXCEPT !.has = b, !.size = l, !.mem = m]
    BY <1>5
  <2> HIDE DEF l
  <2>3. w \in VecType /\ w.size = l /\ w.mem = m /\ w.on
    <3> HIDE DEF b
    <3>1. QED
      BY <1>1, <1>4, <2>1, <2>2 DEF VecType
  <2>4. w.has = b
    <3> HIDE DEF b
    <3>1. QED
      BY <1>1, <2>2 DEF VecType
  <2>5. QED
    BY <2>1, <2>3, <2>4
<1>7. Fits(w, t)
  BY <1>1, <1>2, <1>3, <1>4, <1>6 DEF Fits
<1>8. V!Has(w) = IF v.has \/ n = V!Cap(v) THEN V!Has(v) ELSE V!Has(v) + 1
  <2>1. n > V!Cap(v) <=> ~(n = V!Cap(v))
    BY <1>1
  <2>2. QED
    BY <1>6, <2>1 DEF V!Has
<1>9. ASSUME NEW e PROVE Occurs(e, t) = Occurs(e, s) + Occurs(e, u)
  <2>1. PutIn(s, u, p, t) /\ p \in 0..Len(s)
    BY <1>1, <1>2 DEF PutIn
  <2>2. QED
    BY <1>1, <1>2, <2>1, PutInOccurs
<1>10. QED
  BY <1>7, <1>8, <1>9 DEF w, t

-----------------------------------------------------------------------------
(* What the steps do                                                       *)

LEMMA VectorFacts ==
  ASSUME VectorsNow
  PROVE  /\ vec \in [Vecs -> VecType] /\ seq \in [Vecs -> Seq(Vals)] /\ live \in [Vals -> Int]
         /\ blocks \in Int
         /\ \A x \in Vecs :
              /\ Fits(vec[x], seq[x]) /\ V!Prefix(vec[x]) = seq[x] /\ V!Has(vec[x]) \in Int
              /\ vec[x] \in VecType /\ seq[x] \in Seq(Vals) /\ vec[x].size = Len(seq[x])
              /\ vec[x].size \in Nat /\ V!Cap(vec[x]) \in Nat /\ vec[x].size <= V!Cap(vec[x])
              /\ V!Cap(vec[x]) <= MaxCap
              /\ ~vec[x].on => V!Has(vec[x]) = 0 /\ seq[x] = <<>>
              /\ \A e : V!Occurrences(e, seq[x]) = Occurs(e, seq[x]) /\ Occurs(e, seq[x]) \in Nat
<1>1. vec \in [Vecs -> VecType] /\ seq \in [Vecs -> Seq(Vals)] /\ live \in [Vals -> Int]
      /\ blocks = Blocked(vec) /\ \A x \in Vecs : Fits(vec[x], seq[x])
  BY DEF VectorsNow, VectorsHold
<1>2. Blocked(vec) \in Nat
  BY VectorsAre, CountFacts DEF Blocked
<1>3. ASSUME NEW x \in Vecs
      PROVE  /\ Fits(vec[x], seq[x]) /\ V!Prefix(vec[x]) = seq[x] /\ V!Has(vec[x]) \in Int
             /\ vec[x] \in VecType /\ seq[x] \in Seq(Vals) /\ vec[x].size = Len(seq[x])
             /\ vec[x].size \in Nat /\ V!Cap(vec[x]) \in Nat /\ vec[x].size <= V!Cap(vec[x])
             /\ V!Cap(vec[x]) <= MaxCap
             /\ ~vec[x].on => V!Has(vec[x]) = 0 /\ seq[x] = <<>>
             /\ \A e : V!Occurrences(e, seq[x]) = Occurs(e, seq[x]) /\ Occurs(e, seq[x]) \in Nat
  <2>1. Fits(vec[x], seq[x])
    BY <1>1
  <2>2. V!Prefix(vec[x]) = seq[x]
    BY <2>1, PrefixIs
  <2>3. vec[x] \in VecType /\ seq[x] \in Seq(Vals) /\ vec[x].size = Len(seq[x])
    BY <2>1 DEF Fits
  <2>4. vec[x].size \in Nat /\ V!Cap(vec[x]) \in Nat /\ vec[x].size <= V!Cap(vec[x])
        /\ V!Cap(vec[x]) <= MaxCap
    BY <2>1, <2>3, SizeFits DEF Fits, V!Cap
  <2>5. V!Has(vec[x]) \in Int
    BY <2>3, HasIs
  <2>6. ASSUME ~vec[x].on PROVE V!Has(vec[x]) = 0 /\ seq[x] = <<>>
    <3>1. ~vec[x].has /\ Len(seq[x]) = 0
      BY <2>1, <2>6 DEF Fits
    <3>2. QED
      BY <2>3, <3>1 DEF V!Has
  <2>7. \A e : V!Occurrences(e, seq[x]) = Occurs(e, seq[x]) /\ Occurs(e, seq[x]) \in Nat
    BY <2>3, OccursIs
  <2>8. QED
    BY <2>1, <2>2, <2>3, <2>4, <2>5, <2>6, <2>7
<1>4. QED
  BY <1>1, <1>2, <1>3

LEMMA NoneOccur == \A e : Occurs(e, <<>>) = 0
<1> SUFFICES ASSUME NEW e PROVE Occurs(e, <<>>) = 0
  OBVIOUS
<1>1. {k \in 1..Len(<<>>) : <<>>[k] = e} = {}
  OBVIOUS
<1>2. QED
  BY <1>1, FS_EmptySet DEF Occurs

\* A vector loses its elements, or was without.
LEMMA Emptying ==
  ASSUME VectorsNow, NEW x \in Vecs, NEW v, Fits(v, <<>>),
         vec' = [vec EXCEPT ![x] = v], seq' = [seq EXCEPT ![x] = <<>>],
         live' = [e \in Vals |-> live[e] - Occurs(e, seq[x])],
         blocks' = blocks + V!Has(v) - V!Has(vec[x])
  PROVE  VectorsNow'
<1>1. live' = [e \in Vals |-> live[e] + Occurs(e, <<>>) - Occurs(e, seq[x])]
  BY NoneOccur, VectorFacts
<1>2. QED
  BY <1>1, Becoming

LEMMA Placing ==
  ASSUME VectorsNow, NEW x \in Vecs, vec[x].on, NEW p \in 0..vec[x].size, NEW u \in Seq(Vals),
         NEW n \in Nat, vec[x].size + Len(u) <= n, V!Cap(vec[x]) <= n, V!Place(x, p, u, n)
  PROVE  VectorsNow'
<1> DEFINE v == Placed(vec[x], p, u, n)
           s == Parts(seq[x], u, p, Len(seq[x]))
<1>1. /\ n <= MaxCap /\ vec' = [vec EXCEPT ![x] = v] /\ seq' = [seq EXCEPT ![x] = s]
      /\ live' = [e \in Vals |-> live[e] + V!Occurrences(e, u)]
      /\ blocks' = IF vec[x].has \/ n = V!Cap(vec[x]) THEN blocks ELSE blocks + 1
  BY DEF V!Place, V!Fits, V!Becomes, V!Construct, Placed, Parts
<1>2. /\ Fits(v, s) /\ V!Has(v) = IF vec[x].has \/ n = V!Cap(vec[x]) THEN V!Has(vec[x]) ELSE V!Has(vec[x]) + 1
      /\ \A e : Occurs(e, s) = Occurs(e, seq[x]) + Occurs(e, u)
  BY <1>1, VectorFacts, PlaceFits
<1> HIDE DEF v, s
<1>3. live' = [e \in Vals |-> live[e] + Occurs(e, s) - Occurs(e, seq[x])]
  <2>1. ASSUME NEW e \in Vals
        PROVE  live[e] + V!Occurrences(e, u) = live[e] + Occurs(e, s) - Occurs(e, seq[x])
    <3>1. V!Occurrences(e, u) = Occurs(e, u) /\ Occurs(e, u) \in Nat
      BY OccursIs
    <3>2. live[e] \in Int /\ Occurs(e, seq[x]) \in Nat /\ Occurs(e, s) = Occurs(e, seq[x]) + Occurs(e, u)
      BY <1>2, VectorFacts
    <3>3. QED
      BY <3>1, <3>2
  <2>2. QED
    BY <1>1, <2>1
<1>4. blocks' = blocks + V!Has(v) - V!Has(vec[x])
  BY <1>1, <1>2, VectorFacts
<1>5. QED
  BY <1>1, <1>2, <1>3, <1>4, Becoming

LEMMA SameVectors ==
  ASSUME VectorsNow, UNCHANGED <<vec, seq, live, blocks>>
  PROVE  VectorsNow'
<1>1. VectorsHold(vec', seq', live', blocks')
  BY DEF VectorsNow
<1>2. QED
  BY <1>1 DEF VectorsNow, VectorsHold, Blocked, Places

\* A call that overruns its block ends the behaviour where it is.
LEMMA OverrunRight ==
  ASSUME VectorsNow, NEW n, V!Overruns(n)
  PROVE  VectorsNow'
BY SameVectors DEF V!Overruns

LEMMA GrowIs == \A c \in Nat : V!Grow(c) \in Nat /\ V!Grow(c) > c
BY VectorsAre DEF V!Grow

LEMMA InsertsRight ==
  ASSUME VectorsNow, NEW x \in Vecs, NEW p \in 0..vec[x].size + 1
  PROVE  /\ \A e \in Vals : V!Insert(x, p, e) => VectorsNow'
         /\ \A es \in Vals \X Vals : V!InsertRange(x, p, es) => VectorsNow'
<1>1. vec[x].size \in Nat /\ V!Cap(vec[x]) \in Nat /\ vec[x].size <= V!Cap(vec[x])
      /\ V!Grow(V!Cap(vec[x])) \in Nat /\ V!Grow(V!Cap(vec[x])) > V!Cap(vec[x])
  BY VectorFacts, GrowIs
<1>2. ASSUME NEW e \in Vals, V!Insert(x, p, e) PROVE VectorsNow'
  <2> DEFINE n == IF vec[x].size < V!Cap(vec[x]) THEN V!Cap(vec[x]) ELSE V!Grow(V!Cap(vec[x]))
             u == <<e>>
  <2>1. vec[x].on /\ p \in 0..vec[x].size /\ V!Place(x, p, u, n)
    BY <1>1, <1>2 DEF V!Insert
  <2>2. n \in Nat /\ vec[x].size + 1 <= n /\ V!Cap(vec[x]) <= n
    BY <1>1
  <2>3. u \in Seq(Vals) /\ Len(u) = 1
    OBVIOUS
  <2> HIDE DEF n, u
  <2>4. QED
    BY <2>1, <2>2, <2>3, Placing
<1>3. ASSUME NEW es \in Vals \X Vals, V!InsertRange(x, p, es) PROVE VectorsNow'
  <2> DEFINE n == V!Bigger(vec[x].size + Len(es), V!Grow(V!Cap(vec[x])))
  <2>1. CASE p > vec[x].size
    BY <1>1, <1>3, <2>1, OverrunRight DEF V!InsertRange
  <2>2. es \in Seq(Vals) /\ Len(es) = 2
    <3>1. PICK a \in Vals, b \in Vals : es = <<a, b>>
      OBVIOUS
    <3>2. <<a, b>> \in Seq(Vals) /\ Len(<<a, b>>) = 2
      OBVIOUS
    <3>3. QED
      BY <3>1, <3>2
  <2>3. n \in Nat /\ vec[x].size + Len(es) <= n /\ V!Cap(vec[x]) <= n
    BY <1>1, <2>2 DEF V!Bigger
  <2>4. CASE p <= vec[x].size
    <3>1. vec[x].on /\ p \in 0..vec[x].size /\ V!Place(x, p, es, n)
      BY <1>1, <1>3, <2>4 DEF V!InsertRange
    <3> HIDE DEF n
    <3>2. QED
      BY <2>2, <2>3, <3>1, Placing
  <2>5. QED
    BY <1>1, <2>1, <2>4
<1>4. QED
  BY <1>2, <1>3

LEMMA ReserveRight ==
  ASSUME VectorsNow, NEW x \in Vecs, NEW n \in Nat, V!Reserve(x, n)
  PROVE  VectorsNow'
<1>1. vec[x].size \in Nat /\ V!Cap(vec[x]) \in Nat /\ vec[x].size <= V!Cap(vec[x])
  BY VectorFacts
<1>2. vec[x].on /\ V!Cap(vec[x]) < n /\ V!Place(x, vec[x].size, <<>>, n)
  BY <1>1, VectorFacts DEF V!Reserve
<1>3. <<>> \in Seq(Vals) /\ vec[x].size \in 0..vec[x].size /\ vec[x].size + Len(<<>>) <= n
      /\ V!Cap(vec[x]) <= n
  BY <1>1, <1>2
<1>4. QED
  BY <1>2, <1>3, Placing

LEMMA AppendRight ==
  ASSUME VectorsNow, NEW x \in Vecs, NEW r \in Vecs, V!AppendAll(x, r)
  PROVE  VectorsNow'
<1> DEFINE u == seq[r]
           n == V!Bigger(V!Cap(vec[x]), vec[x].size + Len(u))
<1>1. vec[x].size \in Nat /\ V!Cap(vec[x]) \in Nat /\ u \in Seq(Vals) /\ Len(u) \in Nat
      /\ V!Prefix(vec[r]) = u
  BY VectorFacts
<1>2. CASE x = r /\ u # <<>>
  BY <1>1, <1>2, OverrunRight DEF V!AppendAll
<1>3. n \in Nat /\ vec[x].size + Len(u) <= n /\ V!Cap(vec[x]) <= n /\ vec[x].size \in 0..vec[x].size
  BY <1>1 DEF V!Bigger
<1>4. CASE x # r \/ u = <<>>
  <2>1. vec[x].on /\ V!Place(x, vec[x].size, u, n)
    BY <1>1, <1>4 DEF V!AppendAll
  <2> HIDE DEF n, u
  <2>2. QED
    BY <1>1, <1>3, <2>1, Placing
<1>5. QED
  BY <1>2, <1>4

LEMMA EraseRight ==
  ASSUME VectorsNow, NEW x \in Vecs, NEW p \in Nat, V!Erase(x, p)
  PROVE  VectorsNow'
<1> DEFINE v == Erased(vec[x], p)
           s == V!RemoveAt(seq[x], p + 1)
           u == <<vec[x].mem[p + 1]>>
<1>1. /\ vec[x].on /\ p < vec[x].size /\ vec' = [vec EXCEPT ![x] = v] /\ seq' = [seq EXCEPT ![x] = s]
      /\ live' = [e \in Vals |-> live[e] - V!Occurrences(e, u)] /\ blocks' = blocks
  BY DEF V!Erase, V!Becomes, V!Destroy, Erased
<1>2. Fits(v, s) /\ V!Has(v) = V!Has(vec[x])
      /\ \A e : Occurs(e, seq[x]) = Occurs(e, s) + Occurs(e, u)
  BY <1>1, VectorFacts, EraseFits
<1>3. u \in Seq(Vals)
  <2>1. p + 1 \in 1..Len(seq[x]) /\ Fits(vec[x], seq[x]) /\ seq[x] \in Seq(Vals)
    BY <1>1, VectorFacts
  <2>2. vec[x].mem[p + 1] = seq[x][p + 1] /\ seq[x][p + 1] \in Vals
    BY <2>1, SizeFits DEF Fits
  <2>3. QED
    BY <2>2
<1>4. s \in Seq(Vals)
  BY <1>2 DEF Fits
<1> HIDE DEF v, s, u
<1>5. live' = [e \in Vals |-> live[e] + Occurs(e, s) - Occurs(e, seq[x])]
  <2>1. ASSUME NEW e \in Vals
        PROVE  live[e] - V!Occurrences(e, u) = live[e] + Occurs(e, s) - Occurs(e, seq[x])
    <3>1. V!Occurrences(e, u) = Occurs(e, u) /\ Occurs(e, u) \in Nat
      BY <1>3, OccursIs
    <3>2. Occurs(e, s) \in Nat
      BY <1>4, OccursIs
    <3>3. live[e] \in Int /\ Occurs(e, seq[x]) = Occurs(e, s) + Occurs(e, u)
      BY <1>2, VectorFacts
    <3>4. QED
      BY <3>1, <3>2, <3>3
  <2>2. QED
    BY <1>1, <2>1
<1>6. blocks' = blocks + V!Has(v) - V!Has(vec[x])
  BY <1>1, <1>2, VectorFacts
<1>7. QED
  BY <1>1, <1>2, <1>5, <1>6, Becoming

LEMMA EmptyingRight ==
  ASSUME VectorsNow, NEW x \in Vecs, V!Clear(x) \/ V!Delete(x)
  PROVE  VectorsNow'
<1>1. Fits(vec[x], seq[x]) /\ V!Prefix(vec[x]) = seq[x] /\ V!Has(vec[x]) \in Int /\ blocks \in Int
      /\ \A e : V!Occurrences(e, seq[x]) = Occurs(e, seq[x])
  BY VectorFacts
<1>2. vec[x].on /\ live' = [e \in Vals |-> live[e] - Occurs(e, seq[x])]
  BY <1>1 DEF V!Clear, V!Delete, V!Destroy
<1>3. CASE V!Clear(x)
  <2> DEFINE v == Cleared(vec[x])
  <2>1. vec' = [vec EXCEPT ![x] = v] /\ seq' = [seq EXCEPT ![x] = <<>>] /\ blocks' = blocks
    BY <1>3 DEF V!Clear, V!Becomes, Cleared
  <2>2. Fits(v, <<>>) /\ V!Has(v) = V!Has(vec[x])
    BY <1>1, <1>2, ClearFits
  <2> HIDE DEF v
  <2>3. blocks' = blocks + V!Has(v) - V!Has(vec[x])
    BY <1>1, <2>1, <2>2
  <2>4. QED
    BY <1>2, <2>1, <2>2, <2>3, Emptying
<1>4. CASE V!Delete(x)
  <2>1. vec' = [vec EXCEPT ![x] = V!Dead] /\ seq' = [seq EXCEPT ![x] = <<>>]
        /\ blocks' = blocks - V!Has(vec[x])
    BY <1>4 DEF V!Delete, V!Becomes
  <2>2. Fits(V!Dead, <<>>) /\ V!Has(V!Dead) = 0
    BY EmptiesFit, Zenon
  <2>3. blocks' = blocks + V!Has(V!Dead) - V!Has(vec[x])
    BY <1>1, <2>1, <2>2
  <2>4. QED
    BY <1>2, <2>1, <2>2, <2>3, Emptying
<1>5. QED
  BY <1>3, <1>4

LEMMA NewRight ==
  ASSUME VectorsNow, NEW x \in Vecs, NEW n \in Nat, V!New(x, n)
  PROVE  VectorsNow'
<1>1. ~vec[x].on /\ V!Has(vec[x]) = 0 /\ seq[x] = <<>> /\ blocks \in Int /\ live \in [Vals -> Int]
  BY VectorFacts DEF V!New
<1>2. live' = [e \in Vals |-> live[e] - Occurs(e, seq[x])]
  BY <1>1, NoneOccur DEF V!New
<1>3. ASSUME NEW v, Fits(v, <<>>), V!Has(v) \in Int, V!Becomes(x, v, <<>>), blocks' = blocks + V!Has(v)
      PROVE  VectorsNow'
  <2>1. blocks' = blocks + V!Has(v) - V!Has(vec[x])
    BY <1>1, <1>3
  <2>2. QED
    BY <1>2, <1>3, <2>1, Emptying DEF V!Becomes
<1>4. CASE V!Becomes(x, V!Empty, <<>>) /\ UNCHANGED <<live, blocks>>
  <2>1. Fits(V!Empty, <<>>) /\ V!Has(V!Empty) = 0
    BY EmptiesFit, Zenon
  <2>2. V!Has(V!Empty) \in Int /\ blocks' = blocks + V!Has(V!Empty)
    BY <1>1, <1>4, <2>1
  <2>3. QED
    BY <1>3, <1>4, <2>1, <2>2
<1>5. CASE /\ V!Fits(n) /\ blocks' = blocks + 1
           /\ V!Becomes(x, [V!Empty EXCEPT !.has = TRUE, !.mem = V!Raw(n)], <<>>)
  <2> DEFINE v == [V!Empty EXCEPT !.has = TRUE, !.mem = V!Raw(n)]
  <2>1. Fits(v, <<>>) /\ V!Has(v) = 1
    BY <1>5, EmptiesFit, Zenon DEF V!Fits
  <2>2. V!Becomes(x, v, <<>>)
    BY <1>5
  <2> HIDE DEF v
  <2>3. QED
    BY <1>3, <1>5, <2>1, <2>2
<1>6. QED
  BY <1>4, <1>5 DEF V!New

LEMMA CopyRight ==
  ASSUME VectorsNow, NEW x \in Vecs, NEW r \in Vecs, V!NewCopy(x, r) \/ V!Copy(x, r)
  PROVE  VectorsNow'
<1>1. /\ Fits(vec[r], seq[r]) /\ V!Prefix(vec[r]) = seq[r] /\ V!Prefix(vec[x]) = seq[x]
      /\ V!Has(vec[x]) \in Int /\ blocks \in Int /\ live \in [Vals -> Int]
      /\ \A e : V!Occurrences(e, seq[x]) = Occurs(e, seq[x]) /\ Occurs(e, seq[x]) \in Nat
      /\ \A e : V!Occurrences(e, seq[r]) = Occurs(e, seq[r]) /\ Occurs(e, seq[r]) \in Nat
  BY VectorFacts
<1>2. vec[r].on /\ (V!NewCopy(x, r) => V!Has(vec[x]) = 0 /\ seq[x] = <<>>)
  BY VectorFacts DEF V!NewCopy, V!Copy
<1>3. Fits(V!CopyOf(r), seq[r]) /\ V!Has(V!CopyOf(r)) = 1 /\ Fits(V!Empty, <<>>) /\ V!Has(V!Empty) = 0
  BY <1>1, <1>2, CopyFits, EmptiesFit, Zenon
<1>4. ASSUME V!Becomes(x, V!Empty, <<>>), live' = [e \in Vals |-> live[e] - Occurs(e, seq[x])],
             blocks' = blocks - V!Has(vec[x])
      PROVE  VectorsNow'
  <2>1. blocks' = blocks + V!Has(V!Empty) - V!Has(vec[x])
    BY <1>1, <1>3, <1>4
  <2>2. QED
    BY <1>3, <1>4, <2>1, Emptying DEF V!Becomes
<1>5. ASSUME V!Becomes(x, V!CopyOf(r), seq[r]),
             live' = [e \in Vals |-> live[e] + Occurs(e, seq[r]) - Occurs(e, seq[x])],
             blocks' = blocks + 1 - V!Has(vec[x])
      PROVE  VectorsNow'
  BY <1>3, <1>5, Becoming DEF V!Becomes
<1>6. CASE V!NewCopy(x, r)
  <2>1. CASE V!Becomes(x, V!Empty, <<>>) /\ UNCHANGED <<live, blocks>>
    <3>1. live' = [e \in Vals |-> live[e] - Occurs(e, seq[x])]
      BY <1>1, <1>2, <1>6, <2>1, NoneOccur
    <3>2. QED
      BY <1>1, <1>2, <1>4, <1>6, <2>1, <3>1
  <2>2. CASE V!Becomes(x, V!CopyOf(r), seq[r]) /\ V!Construct(V!Prefix(vec[r])) /\ blocks' = blocks + 1
    <3>1. live' = [e \in Vals |-> live[e] + Occurs(e, seq[r])]
      BY <1>1, <2>2 DEF V!Construct
    <3>2. live' = [e \in Vals |-> live[e] + Occurs(e, seq[r]) - Occurs(e, seq[x])]
      BY <1>1, <1>2, <1>6, <3>1, NoneOccur
    <3>3. QED
      BY <1>1, <1>2, <1>5, <1>6, <2>2, <3>2
  <2>3. QED
    BY <1>6, <2>1, <2>2 DEF V!NewCopy
<1>7. CASE V!Copy(x, r)
  <2>1. CASE /\ V!Becomes(x, V!Empty, <<>>) /\ V!Destroy(V!Prefix(vec[x]))
             /\ blocks' = blocks - V!Has(vec[x])
    <3>1. live' = [e \in Vals |-> live[e] - Occurs(e, seq[x])]
      BY <1>1, <2>1 DEF V!Destroy
    <3>2. QED
      BY <1>4, <2>1, <3>1
  <2>2. CASE /\ V!Becomes(x, V!CopyOf(r), seq[r]) /\ blocks' = blocks + 1 - V!Has(vec[x])
             /\ live' = [e \in Vals |-> live[e] + V!Occurrences(e, V!Prefix(vec[r]))
                                                - V!Occurrences(e, V!Prefix(vec[x]))]
    <3>1. live' = [e \in Vals |-> live[e] + Occurs(e, seq[r]) - Occurs(e, seq[x])]
      BY <1>1, <2>2
    <3>2. QED
      BY <1>5, <2>2, <3>1
  <2>3. QED
    BY <1>7, <2>1, <2>2 DEF V!Copy
<1>8. QED
  BY <1>6, <1>7

LEMMA ExchangeRight ==
  ASSUME VectorsNow, NEW x \in Vecs, NEW r \in Vecs, V!NewMove(x, r) \/ V!Swap(x, r)
  PROVE  VectorsNow'
<1>1. /\ vec \in [Vecs -> VecType] /\ seq \in [Vecs -> Seq(Vals)] /\ live \in [Vals -> Int]
      /\ Fits(vec[r], seq[r]) /\ Fits(vec[x], seq[x])
      /\ V!Has(vec[x]) \in Int /\ V!Has(vec[r]) \in Int /\ blocks \in Int
      /\ \A e : Occurs(e, seq[x]) \in Nat /\ Occurs(e, seq[r]) \in Nat
  BY VectorFacts
<1>2. CASE V!NewMove(x, r)
  <2>1. /\ x # r /\ V!Has(vec[x]) = 0 /\ seq[x] = <<>> /\ live' = live /\ blocks' = blocks
        /\ vec' = [vec EXCEPT ![x] = vec[r], ![r] = V!Empty]
        /\ seq' = [seq EXCEPT ![x] = seq[r], ![r] = <<>>]
    BY <1>2, VectorFacts DEF V!NewMove
  <2>2. Fits(V!Empty, <<>>) /\ V!Has(V!Empty) = 0
    BY EmptiesFit, Zenon
  <2>3. live' = [e \in Vals |-> live[e] + (Occurs(e, seq[r]) - Occurs(e, seq[x]))
                                        + (Occurs(e, <<>>) - Occurs(e, seq[r]))]
    <3>1. \A e : Occurs(e, seq[x]) = 0 /\ Occurs(e, <<>>) = 0
      BY <2>1, NoneOccur
    <3>2. ASSUME NEW e \in Vals
          PROVE  live[e] = live[e] + (Occurs(e, seq[r]) - Occurs(e, seq[x]))
                                   + (Occurs(e, <<>>) - Occurs(e, seq[r]))
      BY <1>1, <3>1
    <3>3. QED
      BY <1>1, <2>1, <3>2
  <2>4. blocks' = blocks + (V!Has(vec[r]) - V!Has(vec[x])) + (V!Has(V!Empty) - V!Has(vec[r]))
    BY <1>1, <2>1, <2>2
  <2>5. BothBecome(x, r, vec[r], seq[r], V!Empty, <<>>)
    BY <2>1, <2>3, <2>4 DEF BothBecome
  <2>6. QED
    BY <1>1, <2>1, <2>2, <2>5, BothBecoming
<1>3. CASE V!Swap(x, r) /\ x # r
  <2>1. /\ live' = live /\ blocks' = blocks
        /\ vec' = [vec EXCEPT ![x] = vec[r], ![r] = vec[x]]
        /\ seq' = [seq EXCEPT ![x] = seq[r], ![r] = seq[x]]
    BY <1>3 DEF V!Swap
  <2>2. live' = [e \in Vals |-> live[e] + (Occurs(e, seq[r]) - Occurs(e, seq[x]))
                                        + (Occurs(e, seq[x]) - Occurs(e, seq[r]))]
    <3>1. ASSUME NEW e \in Vals
          PROVE  live[e] = live[e] + (Occurs(e, seq[r]) - Occurs(e, seq[x]))
                                   + (Occurs(e, seq[x]) - Occurs(e, seq[r]))
      BY <1>1
    <3>2. QED
      BY <1>1, <2>1, <3>1
  <2>3. blocks' = blocks + (V!Has(vec[r]) - V!Has(vec[x])) + (V!Has(vec[x]) - V!Has(vec[r]))
    BY <1>1, <2>1
  <2>4. BothBecome(x, r, vec[r], seq[r], vec[x], seq[x])
    BY <2>1, <2>2, <2>3 DEF BothBecome
  <2>5. QED
    BY <1>1, <1>3, <2>4, BothBecoming
<1>4. CASE V!Swap(x, r) /\ x = r
  <2>1. vec' = vec /\ seq' = seq /\ live' = live /\ blocks' = blocks
    BY <1>1, <1>4 DEF V!Swap
  <2>2. QED
    BY <2>1, SameVectors
<1>5. QED
  BY <1>2, <1>3, <1>4

LEMMA AssignIteratorRight ==
  ASSUME VectorsNow, NEW x \in Vecs, NEW r \in Vecs, V!AssignIterator(x, r)
  PROVE  VectorsNow'
<1> DEFINE owner == [V!Empty EXCEPT !.has = TRUE]
           gain(y, e) == V!Occurrences(e, V!Prefix(vec'[y])) - V!Occurrences(e, V!Prefix(vec[y]))
           more(y) == V!Has(vec'[y]) - V!Has(vec[y])
<1>1. /\ vec \in [Vecs -> VecType] /\ seq \in [Vecs -> Seq(Vals)] /\ live \in [Vals -> Int]
      /\ Fits(vec[r], seq[r]) /\ Fits(vec[x], seq[x]) /\ blocks \in Int
      /\ V!Prefix(vec[x]) = seq[x] /\ V!Prefix(vec[r]) = seq[r]
      /\ \A e : V!Occurrences(e, seq[x]) = Occurs(e, seq[x]) /\ Occurs(e, seq[x]) \in Nat
      /\ \A e : V!Occurrences(e, seq[r]) = Occurs(e, seq[r]) /\ Occurs(e, seq[r]) \in Nat
      /\ V!Has(vec[x]) \in Int /\ V!Has(vec[r]) \in Int
  BY VectorFacts
<1>2. /\ vec[x].on /\ vec[r].on
      /\ live' = [e \in Vals |-> live[e] + gain(x, e) + (IF x = r THEN 0 ELSE gain(r, e))]
      /\ blocks' = blocks + more(x) + (IF x = r THEN 0 ELSE more(r))
  BY DEF V!AssignIterator
<1>3. PICK a \in {V!CopyOf(r), V!Empty, owner}, b \in {V!CopyOf(x), V!Empty} :
        /\ vec' = [vec EXCEPT ![r] = b, ![x] = a]
        /\ seq' = [seq EXCEPT ![r] = IF b = V!Empty THEN <<>> ELSE seq[x],
                              ![x] = IF a = V!CopyOf(r) THEN seq[r] ELSE <<>>]
  BY DEF V!AssignIterator
<1> DEFINE s == IF a = V!CopyOf(r) THEN seq[r] ELSE <<>>
           t == IF b = V!Empty THEN <<>> ELSE seq[x]
<1>4. Fits(a, s) /\ V!Has(a) \in Int
  <2>1. Fits(V!CopyOf(r), seq[r]) /\ V!Has(V!CopyOf(r)) = 1
    BY <1>1, <1>2, CopyFits
  <2>2. Fits(V!Empty, <<>>) /\ Fits(owner, <<>>) /\ V!Has(V!Empty) = 0 /\ V!Has(owner) = 1
    BY EmptiesFit, Zenon
  <2> HIDE DEF owner
  <2>3. QED
    BY <2>1, <2>2
<1>5. Fits(b, t) /\ V!Has(b) \in Int
  <2>1. Fits(V!CopyOf(x), seq[x]) /\ V!Has(V!CopyOf(x)) = 1
    BY <1>1, <1>2, CopyFits
  <2>2. Fits(V!Empty, <<>>) /\ V!Has(V!Empty) = 0
    BY EmptiesFit, Zenon
  <2>3. QED
    BY <2>1, <2>2
<1>6. /\ \A e : V!Occurrences(e, s) = Occurs(e, s) /\ Occurs(e, s) \in Nat
      /\ \A e : V!Occurrences(e, t) = Occurs(e, t) /\ Occurs(e, t) \in Nat
      /\ V!Prefix(a) = s /\ V!Prefix(b) = t
  <2>1. s \in Seq(Vals) /\ t \in Seq(Vals)
    BY <1>4, <1>5 DEF Fits
  <2> HIDE DEF s, t, owner
  <2>2. QED
    BY <1>4, <1>5, <2>1, OccursIs, PrefixIs
<1>7. vec' = [vec EXCEPT ![r] = b, ![x] = a] /\ seq' = [seq EXCEPT ![r] = t, ![x] = s]
  BY <1>3
<1> HIDE DEF s, t, owner
<1>8. CASE x = r
  <2>1. vec' = [vec EXCEPT ![x] = a] /\ seq' = [seq EXCEPT ![x] = s] /\ vec'[x] = a
    BY <1>1, <1>7, <1>8
  <2>2. \A e : gain(x, e) = Occurs(e, s) - Occurs(e, seq[x])
    BY <1>1, <1>6, <2>1
  <2>3. more(x) = V!Has(a) - V!Has(vec[x])
    BY <2>1
  <2> HIDE DEF gain, more
  <2>4. live' = [e \in Vals |-> live[e] + Occurs(e, s) - Occurs(e, seq[x])]
    <3>1. ASSUME NEW e \in Vals
          PROVE  live[e] + gain(x, e) + 0 = live[e] + Occurs(e, s) - Occurs(e, seq[x])
      BY <1>1, <1>6, <2>2
    <3>2. live' = [e \in Vals |-> live[e] + gain(x, e) + 0]
      BY <1>2, <1>8
    <3>3. QED
      BY <3>1, <3>2
  <2>5. blocks' = blocks + V!Has(a) - V!Has(vec[x])
    BY <1>1, <1>2, <1>4, <1>8, <2>3
  <2>6. QED
    BY <1>4, <2>1, <2>4, <2>5, Becoming
<1>9. CASE x # r
  <2>1. vec'[x] = a /\ vec'[r] = b
    BY <1>1, <1>7, <1>9
  <2>2. \A e : gain(x, e) = Occurs(e, s) - Occurs(e, seq[x]) /\ gain(r, e) = Occurs(e, t) - Occurs(e, seq[r])
    BY <1>1, <1>6, <2>1
  <2>3. more(x) = V!Has(a) - V!Has(vec[x]) /\ more(r) = V!Has(b) - V!Has(vec[r])
    BY <2>1
  <2> HIDE DEF gain, more
  <2>4. live' = [e \in Vals |-> live[e] + (Occurs(e, t) - Occurs(e, seq[r]))
                                        + (Occurs(e, s) - Occurs(e, seq[x]))]
    <3>1. ASSUME NEW e \in Vals
          PROVE  live[e] + gain(x, e) + gain(r, e) = live[e] + (Occurs(e, t) - Occurs(e, seq[r]))
                                                             + (Occurs(e, s) - Occurs(e, seq[x]))
      BY <1>1, <1>6, <2>2
    <3>2. live' = [e \in Vals |-> live[e] + gain(x, e) + gain(r, e)]
      BY <1>2, <1>9
    <3>3. QED
      BY <3>1, <3>2
  <2>5. blocks' = blocks + (V!Has(b) - V!Has(vec[r])) + (V!Has(a) - V!Has(vec[x]))
    BY <1>1, <1>2, <1>4, <1>5, <1>9, <2>3
  <2>6. BothBecome(r, x, b, t, a, s)
    BY <1>7, <2>4, <2>5 DEF BothBecome
  <2>7. QED
    BY <1>4, <1>5, <1>9, <2>6, BothBecoming
<1>10. QED
  BY <1>8, <1>9

-----------------------------------------------------------------------------
(* The vectors are right                                                   *)

LEMMA VectorSteps ==
  ASSUME VectorsNow, [Next]_<<unit, lists, vectors, tables, others>>
  PROVE  VectorsNow'
<1>1. ASSUME NEW x \in Vecs, NEW n \in 1..2, V!New(x, n) \/ V!Reserve(x, n + 1)
      PROVE  VectorsNow'
  BY <1>1, NewRight, ReserveRight
<1>2. ASSUME NEW x \in Vecs, V!Delete(x) \/ V!Clear(x) \/ V!PopBack(x)
      PROVE  VectorsNow'
  <2>1. CASE V!PopBack(x)
    <3>1. vec[x].size - 1 \in Nat /\ V!Erase(x, vec[x].size - 1)
      BY <2>1, VectorFacts DEF V!PopBack
    <3>2. QED
      BY <3>1, EraseRight
  <2>2. QED
    BY <1>2, <2>1, EmptyingRight
<1>3. ASSUME NEW x \in Vecs, NEW p \in 0..vec[x].size + 1,
             \/ \E e \in Vals : V!Insert(x, p, e)
             \/ \E es \in V!Pairs : V!InsertRange(x, p, es)
             \/ V!Erase(x, p)
      PROVE  VectorsNow'
  <2>1. p \in Nat
    BY VectorFacts
  <2>2. QED
    BY <1>3, <2>1, InsertsRight, EraseRight DEF V!Pairs
<1>4. ASSUME NEW x \in Vecs, NEW r \in Vecs,
             \/ V!NewCopy(x, r) \/ V!NewMove(x, r) \/ V!Copy(x, r) \/ V!Swap(x, r)
             \/ V!AppendAll(x, r) \/ V!AssignIterator(x, r)
      PROVE  VectorsNow'
  BY <1>4, CopyRight, ExchangeRight, AppendRight, AssignIteratorRight
<1>5. V!Next => VectorsNow'
  BY <1>1, <1>2, <1>3, <1>4 DEF V!Next
<1>6. V!Next \/ UNCHANGED vectors
  BY DEF Next, others
<1>7. QED
  BY <1>5, <1>6, SameVectors DEF vectors

LEMMA VectorsInit == V!Init => VectorsNow
<1> SUFFICES ASSUME V!Init PROVE VectorsNow
  OBVIOUS
<1>1. /\ vec = [x \in Vecs |-> V!Dead] /\ seq = [x \in Vecs |-> <<>>]
      /\ live = [e \in Vals |-> 0] /\ blocks = 0
  BY DEF V!Init
<1>2. Fits(V!Dead, <<>>) /\ V!Has(V!Dead) = 0
  BY EmptiesFit, Zenon
<1>3. V!Dead \in VecType /\ <<>> \in Seq(Vals)
  BY <1>2 DEF Fits
<1>4. vec \in [Vecs -> VecType] /\ seq \in [Vecs -> Seq(Vals)] /\ live \in [Vals -> Int]
      /\ \A x \in Vecs : Fits(vec[x], seq[x])
  BY <1>1, <1>2, <1>3
<1>5. \A e \in Vals : live[e] = Cardinality(Places(seq, e))
  <2>1. ASSUME NEW e \in Vals PROVE Places(seq, e) = {}
    <3>1. ASSUME NEW at \in Vecs \X (1..MaxCap), at[2] <= Len(seq[at[1]]) PROVE FALSE
      <4>1. seq[at[1]] = <<>> /\ Len(<<>>) = 0 /\ at[2] \in 1..MaxCap
        BY <1>1
      <4>2. QED
        BY <3>1, <4>1, VectorsAre
    <3>2. QED
      BY <3>1 DEF Places
  <2>2. QED
    BY <1>1, <2>1, FS_EmptySet
<1>6. blocks = Blocked(vec)
  <2> DEFINE has == [y \in Vecs |-> V!Has(vec[y])]
  <2>1. \A y \in Vecs : has[y] # 1
    BY <1>1, <1>2
  <2> HIDE DEF has
  <2>2. Count(Vecs, has, 1) = 0
    BY <2>1, VectorsAre, CountFacts
  <2>3. QED
    BY <1>1, <2>2 DEF Blocked, has
<1>7. QED
  BY <1>4, <1>5, <1>6 DEF VectorsNow, VectorsHold

LEMMA VectorsNowRight == VectorsNow => V!VectorRight /\ V!CopiesExact
<1> SUFFICES ASSUME VectorsNow PROVE V!VectorRight /\ V!CopiesExact
  OBVIOUS
<1>1. V!VectorRight
  <2> SUFFICES ASSUME NEW x \in Vecs
               PROVE  /\ vec[x].size <= V!Cap(vec[x]) /\ V!Prefix(vec[x]) = seq[x]
                      /\ \A k \in vec[x].size + 1..V!Cap(vec[x]) : vec[x].mem[k] = RAW
    BY DEF V!VectorRight
  <2>1. /\ vec[x].size <= V!Cap(vec[x]) /\ V!Prefix(vec[x]) = seq[x] /\ Fits(vec[x], seq[x])
        /\ vec[x].size \in Nat /\ V!Cap(vec[x]) \in Nat /\ vec[x].size = Len(seq[x])
    BY VectorFacts
  <2>2. ASSUME NEW k \in vec[x].size + 1..V!Cap(vec[x]) PROVE vec[x].mem[k] = RAW
    <3>1. k \in 1..Len(vec[x].mem) /\ ~(k <= Len(seq[x]))
      BY <2>1 DEF V!Cap
    <3>2. QED
      BY <2>1, <3>1 DEF Fits
  <2>3. QED
    BY <2>1, <2>2
<1>2. ASSUME NEW e \in Vals
      PROVE  live[e] = Cardinality({at \in Vecs \X (1..MaxCap) :
                         at[2] <= vec[at[1]].size /\ vec[at[1]].mem[at[2]] = e})
  <2>1. ASSUME NEW at \in Vecs \X (1..MaxCap)
        PROVE  at[2] <= vec[at[1]].size /\ vec[at[1]].mem[at[2]] = e
                 <=> at[2] <= Len(seq[at[1]]) /\ seq[at[1]][at[2]] = e
    <3> DEFINE x == at[1]
               k == at[2]
    <3>1. x \in Vecs /\ k \in 1..MaxCap
      OBVIOUS
    <3> HIDE DEF x, k
    <3>2. Fits(vec[x], seq[x]) /\ vec[x].size = Len(seq[x]) /\ vec[x].size <= V!Cap(vec[x])
          /\ vec[x].size \in Nat /\ V!Cap(vec[x]) \in Nat
      BY <3>1, VectorFacts
    <3>3. k <= Len(seq[x]) => vec[x].mem[k] = seq[x][k]
      <4>1. k <= Len(seq[x]) => k \in 1..Len(vec[x].mem)
        BY <3>1, <3>2, VectorsAre DEF V!Cap
      <4>2. QED
        BY <3>2, <4>1 DEF Fits
    <3>4. k <= vec[x].size /\ vec[x].mem[k] = e <=> k <= Len(seq[x]) /\ seq[x][k] = e
      BY <3>2, <3>3
    <3>5. QED
      BY <3>4 DEF x, k
  <2>2. live[e] = Cardinality(Places(seq, e))
    BY DEF VectorsNow, VectorsHold
  <2>3. QED
    BY <2>1, <2>2 DEF Places
<1>3. blocks = Cardinality({x \in Vecs : vec[x].has})
  <2>1. {x \in Vecs : [y \in Vecs |-> V!Has(vec[y])][x] = 1} = {x \in Vecs : vec[x].has}
    BY VectorFacts, HasIs
  <2>2. blocks = Blocked(vec)
    BY DEF VectorsNow, VectorsHold
  <2>3. QED
    BY <2>1, <2>2 DEF Blocked, Count
<1>4. V!CopiesExact
  BY <1>2, <1>3 DEF V!CopiesExact, V!Cardinality, Cardinality
<1>5. QED
  BY <1>1, <1>4

\* Whatever is done with vectors, and wherever memory runs out, each of them
\* holds what the calls have put there, inside its block and in constructed
\* memory, every object is constructed and destroyed once, and no block is lost,
\* until a range is inserted behind the end of a vector or a vector is appended
\* to itself, which overruns the block (vector's operations).
THEOREM VectorsAreRight == Spec => []VectorRight
<1>1. Init => VectorsNow
  BY VectorsInit DEF Init
<1>2. VectorsNow /\ [Next]_<<unit, lists, vectors, tables, others>> => VectorsNow'
  BY VectorSteps
<1>3. VectorsNow => VectorRight
  BY VectorsNowRight DEF VectorRight
<1>4. QED
  BY <1>1, <1>2, <1>3, PTL DEF Spec
================================================================================
