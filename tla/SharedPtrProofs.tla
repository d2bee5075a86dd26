----------------------------- MODULE SharedPtrProofs -----------------------------
(***************************************************************************)
(* Proofs about SharedPtr, for every finite set of threads, variables and  *)
(* objects.                                                                *)
(***************************************************************************)
EXTENDS SharedPtr, FiniteSetTheorems, TLAPS

\* The kinds of slots are disjoint.
LEMMA SlotKinds ==
  /\ NoSlot \notin Slots
  /\ Variables \subseteq Slots /\ Members \subseteq Slots /\ Shared \subseteq Variables
  /\ Variables \cap Members = {}
  /\ \A t \in Threads :
       /\ Locals(t) \subseteq Variables /\ Locals(t) \cap Shared = {}
       /\ Temp(t) \in Slots /\ Temp(t) \notin Variables \cup Members
       /\ \A u \in Threads \ {t} :
            Temp(t) /= Temp(u) /\ Locals(t) \cap Locals(u) = {}
  /\ \A o \in Objects :
       /\ Member(o) \in Members
       /\ \A r \in Objects : Member(o) = Member(r) => o = r
<1>1. /\ NoSlot[1] = "none"
      /\ \A s \in Shared : s[1] = "global"
      /\ \A s \in Members : s[1] = "next"
  BY DEF NoSlot, Shared, Members, Member
<1>2. \A t \in Threads :
        /\ \A s \in Locals(t) : s[1] = "local" /\ s[2] = t
        /\ Temp(t)[1] = "temp" /\ Temp(t)[2] = t
  BY DEF Locals, Temp
<1>3. Variables = Shared \cup UNION {Locals(t) : t \in Threads}
  BY DEF Variables
<1>4. Slots = Variables \cup {Temp(t) : t \in Threads} \cup Members
  BY DEF Slots, Members
<1>5. ASSUME NEW s \in Variables
      PROVE  s[1] \in {"local", "global"}
  <2>1. (\E t \in Threads : s \in Locals(t)) \/ s \in Shared
    BY DEF Variables
  <2>2. QED
    BY <1>1, <1>2, <2>1
<1>6. \A s \in Slots : s[1] \in {"local", "global", "temp", "next"}
  BY <1>1, <1>2, <1>4, <1>5
<1>7. \A o \in Objects :
        /\ Member(o) \in Members
        /\ \A r \in Objects : Member(o) = Member(r) => o = r
  BY DEF Members, Member
<1>8. NoSlot \notin Slots /\ Variables \cap Members = {}
  BY <1>1, <1>5, <1>6
<1>9. ASSUME NEW t \in Threads
      PROVE  /\ Locals(t) \subseteq Variables /\ Locals(t) \cap Shared = {}
             /\ Temp(t) \in Slots /\ Temp(t) \notin Variables \cup Members
             /\ \A u \in Threads \ {t} :
                  Temp(t) /= Temp(u) /\ Locals(t) \cap Locals(u) = {}
  BY <1>1, <1>2, <1>3, <1>4, <1>5
<1>10. Variables \subseteq Slots /\ Members \subseteq Slots /\ Shared \subseteq Variables
  BY <1>3, <1>4
<1>11. QED
  BY <1>7, <1>8, <1>9, <1>10


LEMMA SlotsFinite == IsFiniteSet(Slots)
<1>1. IsFiniteSet(Shared)
  <2> DEFINE f == [g \in Globals |-> <<"global", g>>]
  <2>1. f \in Surjection(Globals, Shared)
    BY DEF Surjection, Shared
  <2>2. QED
    BY <2>1, FS_Surjection, FiniteAssumption
<1>2. IsFiniteSet({Temp(t) : t \in Threads})
  <2> DEFINE T == {Temp(t) : t \in Threads}
  <2> DEFINE f == [t \in Threads |-> Temp(t)]
  <2>1. f \in Surjection(Threads, T)
    BY DEF Surjection
  <2>2. QED
    BY <2>1, FS_Surjection, FiniteAssumption
<1>3. IsFiniteSet({Member(o) : o \in Objects})
  <2> DEFINE T == {Member(o) : o \in Objects}
  <2> DEFINE f == [o \in Objects |-> Member(o)]
  <2>1. f \in Surjection(Objects, T)
    BY DEF Surjection
  <2>2. QED
    BY <2>1, FS_Surjection, FiniteAssumption
<1>4. IsFiniteSet(UNION {Locals(t) : t \in Threads})
  <2> DEFINE T == UNION {Locals(t) : t \in Threads}
  <2> DEFINE P == Threads \X Names
  <2> DEFINE f == [q \in P |-> <<"local", q[1], q[2]>>]
  <2>1. f \in [P -> T]
    BY DEF Locals
  <2>2. ASSUME NEW s \in T PROVE \E q \in P : f[q] = s
    <3>1. PICK t \in Threads, n \in Names : s = <<"local", t, n>>
      BY DEF Locals
    <3>2. <<t, n>> \in P /\ f[<<t, n>>] = s
      BY <3>1
    <3>3. QED
      BY <3>2
  <2>3. f \in Surjection(P, T)
    BY <2>1, <2>2 DEF Surjection
  <2>4. IsFiniteSet(P)
    BY FS_Product, FiniteAssumption
  <2>5. QED
    BY <2>3, <2>4, FS_Surjection
<1>5. IsFiniteSet(Variables)
  <2> DEFINE T == UNION {Locals(t) : t \in Threads}
  <2>1. IsFiniteSet(T)
    BY <1>4
  <2>2. Variables = T \cup Shared
    BY DEF Variables
  <2> HIDE DEF T
  <2>3. QED
    BY <1>1, <2>1, <2>2, FS_Union
<1>6. IsFiniteSet(Variables \cup {Temp(t) : t \in Threads})
  BY <1>2, <1>5, FS_Union
<1>7. QED
  BY <1>3, <1>6, FS_Union DEF Slots


--------------------------------------------------------------------------------
(* What the invariant says of the slots.                                   *)

LEMMA OwnersFinite ==
  \A o \in Objects : IsFiniteSet(Owners(o)) /\ Cardinality(Owners(o)) \in Nat
<1>1. ASSUME NEW o \in Objects
      PROVE  IsFiniteSet(Owners(o))
  BY SlotsFinite, FS_Subset DEF Owners
<1>2. QED
  BY <1>1, FS_CardinalityType

\* A counted pointer keeps its object in existence.
LEMMA OwnedExists ==
  ASSUME IInv, NEW s \in Slots \ Borrowed, ptr[s] /= Null
  PROVE  ptr[s] \in Objects /\ Exists(ptr[s])
<1>1. ptr[s] \in Objects
  BY DEF IInv, TypeOK
<1>2. s \in Owners(ptr[s])
  BY DEF Owners
<1>3. Cardinality(Owners(ptr[s])) > 0
  BY <1>1, <1>2, OwnersFinite, FS_EmptySet
<1>4. cnt[ptr[s]] > 0
  BY <1>1, <1>3 DEF IInv, CountExact
<1>5. QED
  BY <1>1, <1>4 DEF IInv

\* The slots in which a pointer is borrowed, and those it is borrowed from.
LEMMA BorrowedSlots ==
  ASSUME IInv
  PROVE  /\ Variables \cap {Temp(t) : t \in Threads} = {}
         /\ \A t \in Threads : pc[t] = "inc" => src[t] \in Slots \ Borrowed
         /\ \A t \in Threads : pc[t] = "retain" => src[t] \in Slots \ Borrowed
         /\ \A t \in Threads : Temp(t) \in Borrowed <=> pc[t] = "inc"
         /\ \A t \in Threads : dst[t] \in Borrowed <=> pc[t] = "retain"
         /\ \A t \in Threads : \A l \in Locals(t) :
              l \in Borrowed => pc[t] = "retain" /\ l = dst[t]
<1>1. Variables \cap {Temp(t) : t \in Threads} = {}
  BY SlotKinds
<1>2. \A t, u \in Threads : {dst[t], src[t]} \cap {Temp(u)} = {}
  <2>1. \A u \in Threads : Temp(u) \notin Variables \cup Members \cup {NoSlot}
    BY SlotKinds
  <2>2. \A t \in Threads :
          {dst[t], src[t]} \subseteq Locals(t) \cup Shared \cup Members \cup {NoSlot}
    BY DEF IInv, PrivateInv
  <2>3. QED
    BY <2>1, <2>2, SlotKinds
<1>3. \A t, u \in Threads : t /= u => {dst[t], src[t]} \cap {dst[u], src[u]} \subseteq {NoSlot}
  BY DEF IInv, PrivateInv
<1>4. \A t \in Threads : HandInv(t)
  BY DEF IInv
<1>5. \A t \in Threads : pc[t] = "retain" =>
        src[t] \in Variables /\ dst[t] \in Slots /\ src[t] /= dst[t]
  BY <1>4 DEF HandInv
<1>6. NoSlot \notin Slots
  BY SlotKinds
<1>7. ASSUME NEW t \in Threads, pc[t] \in {"inc", "retain"}
      PROVE  src[t] \in Slots \ Borrowed
  <2>1. src[t] \in Slots
    BY <1>4, <1>5, <1>7, SlotKinds DEF HandInv
  <2>2. \A u \in Threads : src[t] /= Temp(u)
    BY <1>2
  <2>3. \A u \in Threads \ {t} : src[t] /= dst[u]
    BY <1>3, <1>6, <2>1
  <2>4. pc[t] = "retain" => src[t] /= dst[t]
    BY <1>5
  <2>5. \A u \in Threads : pc[u] = "retain" => src[t] /= dst[u]
    BY <1>7, <2>3, <2>4
  <2>6. QED
    BY <2>1, <2>2, <2>5 DEF Borrowed
<1>9. \A t \in Threads : Temp(t) \in Borrowed <=> pc[t] = "inc"
  BY <1>2, SlotKinds DEF Borrowed
<1>10. \A t \in Threads : dst[t] \in Borrowed <=> pc[t] = "retain"
  BY <1>2, <1>3, <1>5, <1>6 DEF Borrowed
<1>11. ASSUME NEW t \in Threads, NEW l \in Locals(t), l \in Borrowed
       PROVE  pc[t] = "retain" /\ l = dst[t]
  <2>1. PICK u \in Threads : pc[u] = "retain" /\ l = dst[u]
    BY <1>1, <1>11, SlotKinds DEF Borrowed
  <2>2. dst[u] \in Locals(u) \cup Shared \cup Members \cup {NoSlot}
    BY DEF IInv, PrivateInv
  <2>3. u = t
    BY <2>1, <2>2, SlotKinds
  <2>4. QED
    BY <2>1, <2>3
<1>12. QED
  BY <1>1, <1>7, <1>9, <1>10, <1>11

\* No pointer dangles: a borrowed one has the source it was read from.
LEMMA NothingDangles == ASSUME IInv PROVE NoDangling
<1>1. ASSUME NEW s \in Slots, ptr[s] /= Null
      PROVE  Exists(ptr[s])
  <2>1. CASE s \notin Borrowed
    BY <1>1, <2>1, OwnedExists
  <2>2. CASE s \in Borrowed
    <3>1. PICK t \in Threads :
            \/ pc[t] = "inc" /\ s = Temp(t)
            \/ pc[t] = "retain" /\ s = dst[t]
      BY <2>2 DEF Borrowed
    <3>2. ptr[s] = ptr[src[t]]
      BY <3>1 DEF IInv, HandInv
    <3>3. src[t] \in Slots \ Borrowed
      BY <3>1, BorrowedSlots
    <3>4. QED
      BY <1>1, <3>2, <3>3, OwnedExists
  <2>3. QED
    BY <2>1, <2>2
<1>2. ASSUME NEW t \in Threads, NEW o \in Objects, Member(o) \in {dst[t], src[t]}
      PROVE  status[o] = "live"
  <2>1. PICK l \in Locals(t) : ptr[l] = o
    BY <1>2 DEF IInv, PrivateInv
  <2>2. l \in Slots /\ \A u \in Threads : l /= Temp(u)
    BY SlotKinds
  <2>3. Exists(o)
    BY <1>1, <2>1, <2>2, NullAssumption
  <2>4. status[o] /= "counter"
    BY <2>1, <2>2, NullAssumption DEF IInv, NewInv
  <2>5. QED
    BY <2>3, <2>4 DEF Exists
<1>3. QED
  BY <1>1, <1>2 DEF NoDangling

\* Thread t alone has its hands on slot s.
Private(t, s) ==
  /\ s \in Slots
  /\ \A u \in Threads \ {t} : s \notin Locals(u) \cup {Temp(u), dst[u], src[u]}

LEMMA PrivateSlots ==
  ASSUME IInv, NEW t \in Threads
  PROVE  /\ Private(t, Temp(t))
         /\ dst[t] \in Slots => Private(t, dst[t])
         /\ src[t] \in Slots => Private(t, src[t])
         /\ \A s \in Usable(t) :
              Private(t, s) /\ s \in Locals(t) \cup Shared \cup Members
         /\ \A o \in Objects : status[o] = "dying" => Private(t, Member(o))
<1>1. \A u \in Threads :
        {dst[u], src[u]} \subseteq Locals(u) \cup Shared \cup Members \cup {NoSlot}
  BY DEF IInv, PrivateInv
<1>2. Private(t, Temp(t))
  BY <1>1, SlotKinds DEF Private
<1>3. ASSUME NEW s \in {dst[t], src[t]}, s \in Slots
      PROVE  Private(t, s)
  <2>1. ASSUME NEW u \in Threads \ {t}
        PROVE  s \notin Locals(u) \cup {Temp(u)}
    BY <1>1, <1>3, SlotKinds
  <2>2. ASSUME NEW u \in Threads \ {t}
        PROVE  s \notin {dst[u], src[u]}
    <3>1. {dst[t], src[t]} \cap {dst[u], src[u]} \subseteq {NoSlot}
      BY DEF IInv, PrivateInv
    <3>2. s /= NoSlot
      BY <1>3, SlotKinds
    <3>3. QED
      BY <3>1, <3>2
  <2>3. QED
    BY <1>3, <2>1, <2>2 DEF Private
<1>4. ASSUME NEW s \in Usable(t)
      PROVE  Private(t, s) /\ s \in Locals(t) \cup Shared \cup Members
  <2>1. \A l \in Locals(t) : ptr[l] \in Objects \cup {Null}
    BY SlotKinds DEF IInv, TypeOK
  <2>2. s \in Locals(t) \cup Shared \cup Members
    BY <2>1 DEF Usable, Reachable, Members
  <2>3. ASSUME NEW u \in Threads \ {t}
        PROVE  s \notin Locals(u) \cup {Temp(u)}
    BY <2>2, SlotKinds
  <2>4. ASSUME NEW u \in Threads \ {t}
        PROVE  s \notin {dst[u], src[u]}
    BY DEF Usable, InUse
  <2>5. s \in Slots
    BY <2>2, SlotKinds
  <2>6. QED
    BY <2>2, <2>3, <2>4, <2>5 DEF Private
<1>5. ASSUME NEW o \in Objects, status[o] = "dying"
      PROVE  Private(t, Member(o))
  <2>1. \A u \in Threads : Member(o) \notin {dst[u], src[u]}
    BY <1>5, NothingDangles DEF NoDangling
  <2>2. QED
    BY <2>1, SlotKinds DEF Private
<1>6. QED
  BY <1>2, <1>3, <1>4, <1>5


--------------------------------------------------------------------------------
(* What a step of one thread leaves alone.                                 *)

\* A step of t changes no other thread's locals and writes private slots only.
StepOf(t) ==
  /\ \A u \in Threads \ {t} :
       /\ pc'[u] = pc[u] /\ dst'[u] = dst[u] /\ src'[u] = src[u]
       /\ pc[u] = "new" => status'[ptr[Temp(u)]] = "counter"
  /\ \A s \in Slots : ptr'[s] = ptr[s] \/ Private(t, s)

\* What the other threads have in hand stays as it is, and so does the
\* separation if what t takes in hand is private and well held.
LEMMA Frame ==
  ASSUME IInv, NEW t \in Threads, StepOf(t),
         \A s \in {dst'[t], src'[t]} : 
           \/ s = NoSlot
           \/ Private(t, s) /\ s \in Locals(t) \cup Shared \cup Members,
         \A o \in Objects :
           Member(o) \in {dst'[t], src'[t]} => \E l \in Locals(t) : ptr'[l] = o,
         HandInv(t)'
  PROVE  PrivateInv' /\ \A u \in Threads : HandInv(u)'
<1>1. ASSUME NEW u \in Threads \ {t}
      PROVE  /\ ptr'[Temp(u)] = ptr[Temp(u)]
             /\ dst[u] \in Slots => ptr'[dst[u]] = ptr[dst[u]]
             /\ src[u] \in Slots => ptr'[src[u]] = ptr[src[u]]
             /\ \A l \in Locals(u) : ptr'[l] = ptr[l]
  <2>1. Temp(u) \in Slots /\ Locals(u) \subseteq Slots
    BY SlotKinds
  <2>2. \A s \in Slots : Private(t, s) => s \notin Locals(u) \cup {Temp(u), dst[u], src[u]}
    BY DEF Private
  <2>3. QED
    BY <2>1, <2>2 DEF StepOf
<1>2. ASSUME NEW u \in Threads \ {t}
      PROVE  HandInv(u)'
  <2>1. HandInv(u)
    BY DEF IInv
  <2>2. Temp(u)' = Temp(u) /\ Variables \subseteq Slots
    BY SlotKinds DEF Temp
  <2>3. QED
    BY <1>1, <2>1, <2>2 DEF HandInv, StepOf
<1>3. \A u \in Threads :
        {dst'[u], src'[u]} \subseteq Locals(u) \cup Shared \cup Members \cup {NoSlot}
  BY DEF IInv, PrivateInv, StepOf
<1>4. ASSUME NEW u \in Threads, NEW v \in Threads, u /= v
      PROVE  {dst'[u], src'[u]} \cap {dst'[v], src'[v]} \subseteq {NoSlot}
  <2>1. CASE u /= t /\ v /= t
    BY <1>4, <2>1 DEF IInv, PrivateInv, StepOf
  <2>2. CASE u = t
    BY <1>4, <2>2 DEF StepOf, Private
  <2>3. CASE v = t
    BY <1>4, <2>3 DEF StepOf, Private
  <2>4. QED
    BY <2>1, <2>2, <2>3
<1>5. ASSUME NEW u \in Threads, NEW o \in Objects, Member(o) \in {dst'[u], src'[u]}
      PROVE  \E l \in Locals(u) : ptr'[l] = o
  <2>1. CASE u = t
    BY <1>5, <2>1
  <2>2. CASE u /= t
    <3>1. Member(o) \in {dst[u], src[u]}
      BY <1>5, <2>2 DEF StepOf
    <3>2. QED
      BY <1>1, <2>2, <3>1 DEF IInv, PrivateInv
  <2>3. QED
    BY <2>1, <2>2
<1>6. PrivateInv'
  BY <1>3, <1>4, <1>5 DEF PrivateInv, Locals, Shared, Members, Member, NoSlot
<1>7. QED
  BY <1>2, <1>6

\* A step that makes no counter and moves no pointer to an unmade object.
LEMMA NewKept ==
  ASSUME IInv, TypeOK',
         \A u \in Threads : pc[u] = "new" => pc'[u] = "new"
           \/ status'[ptr[Temp(u)]] /= "counter",
         \A o \in Objects : status'[o] = "counter" => status[o] = "counter",
         \A s \in Slots : ptr'[s] /= Null /\ status[ptr'[s]] = "counter" =>
           ptr'[s] = ptr[s]
  PROVE  NewInv'
<1>1. SUFFICES ASSUME NEW s \in Slots, ptr'[s] /= Null, status'[ptr'[s]] = "counter"
               PROVE  /\ \E t \in Threads : s = Temp(t) /\ pc'[t] = "new"
                      /\ \A r \in Slots : ptr'[r] = ptr'[s] => r = s
  BY DEF NewInv, Slots, Temp, Variables, Locals, Shared, Member
<1>2. ptr'[s] \in Objects
  BY <1>1 DEF TypeOK, Slots, Variables, Shared, Locals, Temp, Member
<1>3. status[ptr'[s]] = "counter" /\ ptr'[s] = ptr[s]
  BY <1>1, <1>2
<1>4. PICK t \in Threads : s = Temp(t) /\ pc[t] = "new"
  BY <1>1, <1>3 DEF IInv, NewInv
<1>5. pc'[t] = "new"
  BY <1>1, <1>3, <1>4
<1>6. ASSUME NEW r \in Slots, ptr'[r] = ptr'[s]
      PROVE  r = s
  <2>1. ptr[r] = ptr[s]
    BY <1>1, <1>3, <1>6
  <2>2. QED
    BY <1>1, <1>3, <2>1 DEF IInv, NewInv
<1>7. QED
  BY <1>4, <1>5, <1>6


--------------------------------------------------------------------------------
(* Counting.                                                               *)

Positive == \A o \in Objects : cnt[o] > 0 <=> Exists(o)

StateOK ==
  /\ ptr \in [Slots -> Objects \cup {Null}]
  /\ cnt \in [Objects -> Nat]
  /\ status \in [Objects -> {"none", "counter", "live", "dying", "freed"}]
  /\ dying \in [Threads -> Seq(Objects)]

Counting == StateOK /\ CountExact /\ Positive /\ Nested

\* In which slots the owners of an object are counted does not move.
LEMMA OwnersNext ==
  ASSUME NEW o \in Objects
  PROVE  Owners(o)' = {s \in Slots \ Borrowed' : ptr'[s] = o}
BY DEF Owners, Slots, Variables, Locals, Shared, Temp, Member

LEMMA InvParts ==
  ASSUME IInv
  PROVE  Counting /\ Positive /\ Nested /\ CountExact /\ StateOK
BY DEF IInv, TypeOK, Counting, Positive, Nested, StateOK

\* The elements of a sequence with one more at its end.
LEMMA AppendElements ==
  ASSUME NEW S, NEW q \in Seq(S), NEW e \in S
  PROVE  /\ Len(q) \in Nat /\ Len(Append(q, e)) = Len(q) + 1
         /\ \A i \in 1..Len(q) : Append(q, e)[i] = q[i] /\ q[i] \in S
         /\ Append(q, e)[Len(q) + 1] = e
  OBVIOUS

\* dec(): one owner and one count less; the last one starts a deletion.
LEMMA Releases ==
  ASSUME IInv, NEW t \in Threads, NEW s \in Slots \ Borrowed,
         Borrowed' = Borrowed, LetGo(t, s)
  PROVE  /\ Counting'
         /\ ptr' = [ptr EXCEPT ![s] = Null]
         /\ \A o \in Objects : status'[o] = "counter" => status[o] = "counter"
         /\ \A o \in Objects : o /= ptr[s] => status'[o] = status[o]
<1> DEFINE o == ptr[s]
<1>1. StateOK /\ CountExact /\ Positive /\ Nested
  BY InvParts
<1>2. ptr' = [ptr EXCEPT ![s] = Null]
  BY DEF LetGo
<1>3. Slots' = Slots
  BY DEF Slots, Variables, Locals, Shared, Temp, Member
<1>4. CASE o = Null
  <2>1. ptr' = ptr /\ cnt' = cnt /\ status' = status /\ dying' = dying
    BY <1>1, <1>2, <1>4 DEF LetGo, StateOK
  <2>2. \A x \in Objects : Owners(x)' = Owners(x)
    BY <2>1, OwnersNext DEF Owners
  <2>3. CountExact'
    BY <1>1, <2>1, <2>2 DEF CountExact
  <2>4. QED
    BY <1>1, <1>2, <1>3, <2>1, <2>3 DEF Counting, StateOK, Positive, Nested, Exists
<1>5. CASE o /= Null
  <2>1. o \in Objects /\ Exists(o) /\ cnt[o] \in Nat /\ cnt[o] > 0
    BY <1>1, <1>5, OwnedExists DEF StateOK, Positive
  <2>2. cnt' = [cnt EXCEPT ![o] = @ - 1]
    BY <1>5 DEF LetGo
  <2>3. ASSUME NEW x \in Objects
        PROVE  cnt'[x] = Cardinality(Owners(x)')
    <3>1. CASE x = o
      <4>1. Owners(x)' = Owners(x) \ {s}
        BY <1>1, <1>2, <2>1, <3>1, OwnersNext, NullAssumption DEF Owners, StateOK
      <4>2. s \in Owners(x)
        BY <3>1 DEF Owners
      <4>3. Cardinality(Owners(x)') = Cardinality(Owners(x)) - 1
        BY <4>1, <4>2, OwnersFinite, FS_RemoveElement
      <4>4. QED
        BY <1>1, <2>1, <2>2, <3>1, <4>3 DEF StateOK, CountExact
    <3>2. CASE x /= o
      <4>1. Owners(x)' = Owners(x)
        BY <1>1, <1>2, <3>2, OwnersNext, NullAssumption DEF Owners, StateOK
      <4>2. QED
        BY <1>1, <2>2, <3>2, <4>1 DEF StateOK, CountExact
    <3>3. QED
      BY <3>1, <3>2
  <2>4. CASE cnt[o] = 1
    <3>1. status' = [status EXCEPT ![o] = "dying"] /\ dying' = [dying EXCEPT ![t] = Append(@, o)]
      BY <1>5, <2>4 DEF LetGo
    <3>2. Positive'
      BY <1>1, <2>1, <2>2, <2>4, <3>1 DEF Positive, Exists, StateOK
    <3>3. StateOK'
      BY <1>1, <1>2, <1>3, <2>1, <2>2, <3>1 DEF StateOK
    <3>4. \A u \in Threads :
            dying'[u] = IF u = t THEN Append(dying[t], o) ELSE dying[u]
      BY <1>1, <3>1 DEF StateOK
    <3>5. \A u \in Threads : dying[u] \in Seq(Objects) /\ Len(dying[u]) \in Nat
      BY <1>1 DEF StateOK
    <3> DEFINE n == Len(dying[t])
    <3>app. /\ Len(dying'[t]) = n + 1 /\ dying'[t][n + 1] = o /\ n \in Nat
           /\ \A i \in 1..n : dying'[t][i] = dying[t][i]
      <4>1. dying'[t] = Append(dying[t], o) /\ dying[t] \in Seq(Objects) /\ o \in Objects
        BY <2>1, <3>4, <3>5
      <4> HIDE DEF o
      <4>2. QED
        BY <4>1, AppendElements
    <3>6. ASSUME NEW u \in Threads, NEW i \in 1..Len(dying'[u])
          PROVE  \/ i \in 1..Len(dying[u]) /\ dying'[u][i] = dying[u][i]
                 \/ u = t /\ i = n + 1 /\ dying'[u][i] = o
      <4>1. CASE u = t
        <5>1. i \in 1..n \/ i = n + 1
          BY <3>app, <4>1
        <5>2. QED
          BY <3>app, <4>1, <5>1
      <4>2. CASE u /= t
        BY <3>4, <4>2
      <4>3. QED
        BY <4>1, <4>2
    <3>7. ASSUME NEW u \in Threads, NEW i \in 1..Len(dying[u])
          PROVE  /\ i \in 1..Len(dying'[u]) /\ dying'[u][i] = dying[u][i]
                 /\ dying[u][i] \in Objects /\ status[dying[u][i]] = "dying"
                 /\ dying[u][i] /= o
      <4>1. dying[u][i] \in Objects /\ status[dying[u][i]] = "dying"
        BY <1>1, <3>5 DEF Nested
      <4>2. i \in 1..Len(dying'[u]) /\ dying'[u][i] = dying[u][i]
        BY <3>4, <3>app
      <4>3. QED
        BY <2>1, <4>1, <4>2 DEF Exists
    <3>8. \A x \in Objects : status'[x] = IF x = o THEN "dying" ELSE status[x]
      BY <1>1, <3>1 DEF StateOK
    <3>9. ASSUME NEW u \in Threads, NEW v \in Threads,
                 NEW i \in 1..Len(dying'[u]), NEW j \in 1..Len(dying'[v]),
                 dying'[u][i] = dying'[v][j]
          PROVE  u = v /\ i = j
      <4>1. CASE i \in 1..Len(dying[u]) /\ j \in 1..Len(dying[v])
        <5>1. dying[u][i] = dying[v][j]
          BY <3>7, <3>9, <4>1
        <5>2. QED
          BY <1>1, <4>1, <5>1 DEF Nested
      <4>2. CASE i \notin 1..Len(dying[u])
        <5>1. u = t /\ i = n + 1 /\ dying'[u][i] = o
          BY <3>6, <4>2
        <5>2. j \notin 1..Len(dying[v])
          BY <3>7, <3>9, <5>1
        <5>3. v = t /\ j = n + 1
          BY <3>6, <5>2
        <5>4. QED
          BY <5>1, <5>3
      <4>3. CASE j \notin 1..Len(dying[v])
        <5>1. v = t /\ j = n + 1 /\ dying'[v][j] = o
          BY <3>6, <4>3
        <5>2. i \notin 1..Len(dying[u])
          BY <3>7, <3>9, <5>1
        <5>3. u = t /\ i = n + 1
          BY <3>6, <5>2
        <5>4. QED
          BY <5>1, <5>3
      <4>4. QED
        BY <4>1, <4>2, <4>3
    <3>10. ASSUME NEW u \in Threads, NEW i \in 1..Len(dying'[u])
           PROVE  status'[dying'[u][i]] = "dying"
      BY <2>1, <3>6, <3>7, <3>8
    <3>11. ASSUME NEW x \in Objects, status'[x] = "dying"
           PROVE  \E u \in Threads : \E i \in 1..Len(dying'[u]) : dying'[u][i] = x
      <4>1. CASE x = o
        <5>1. n + 1 \in 1..Len(dying'[t]) /\ dying'[t][n + 1] = o
          BY <3>app
        <5>2. QED
          BY <4>1, <5>1
      <4>2. CASE x /= o
        <5>1. PICK u \in Threads : \E i \in 1..Len(dying[u]) : dying[u][i] = x
          BY <1>1, <3>8, <3>11, <4>2 DEF Nested
        <5>2. QED
          BY <3>7, <5>1
      <4>3. QED
        BY <4>1, <4>2
    <3>12. Nested'
      BY <3>9, <3>10, <3>11 DEF Nested
    <3>13. QED
      BY <1>1, <1>2, <2>3, <3>2, <3>3, <3>8, <3>12 DEF Counting, CountExact, StateOK
  <2>5. CASE cnt[o] /= 1
    <3>1. status' = status /\ dying' = dying
      BY <1>5, <2>5 DEF LetGo
    <3>2. Positive'
      BY <1>1, <2>1, <2>2, <2>5, <3>1 DEF Positive, Exists, StateOK
    <3>3. StateOK'
      BY <1>1, <1>2, <1>3, <2>1, <2>2, <3>1 DEF StateOK
    <3>4. Nested'
      BY <1>1, <3>1 DEF Nested
    <3>5. QED
      BY <1>2, <2>3, <3>1, <3>2, <3>3, <3>4 DEF Counting, CountExact
  <2>6. QED
    BY <2>4, <2>5
<1>6. QED
  BY <1>4, <1>5

\* Two counted pointers are exchanged: nobody's number of owners changes.
LEMMA Exchanges ==
  ASSUME IInv, NEW a \in Slots \ Borrowed, NEW b \in Slots \ Borrowed,
         Borrowed' = Borrowed, Exchange(a, b), UNCHANGED <<cnt, status, dying>>
  PROVE  Counting'
<1>1. StateOK /\ CountExact /\ Positive /\ Nested
  BY InvParts
<1>2. Slots' = Slots
  BY DEF Slots, Variables, Locals, Shared, Temp, Member
<1>3. \A s \in Slots : ptr'[s] = IF s = b THEN ptr[a] ELSE IF s = a THEN ptr[b] ELSE ptr[s]
  BY <1>1 DEF Exchange, StateOK
<1>4. ASSUME NEW x \in Objects
      PROVE  Cardinality(Owners(x)') = Cardinality(Owners(x))
  <2>1. CASE (ptr[a] = x) = (ptr[b] = x)
    <3>1. Owners(x)' = Owners(x)
      BY <1>3, <2>1, OwnersNext DEF Owners
    <3>2. QED
      BY <3>1
  <2>2. ASSUME NEW c \in {a, b}, NEW d \in {a, b}, c /= d, ptr[c] = x, ptr[d] /= x
        PROVE  Cardinality(Owners(x)') = Cardinality(Owners(x))
    <3>1. Owners(x)' = (Owners(x) \ {c}) \cup {d}
      BY <1>3, <2>2, OwnersNext DEF Owners
    <3>2. c \in Owners(x) /\ d \notin Owners(x)
      BY <2>2 DEF Owners
    <3>3. IsFiniteSet(Owners(x)) /\ Cardinality(Owners(x)) \in Nat
      BY OwnersFinite
    <3>4. IsFiniteSet(Owners(x) \ {c}) /\ Cardinality(Owners(x) \ {c}) = Cardinality(Owners(x)) - 1
      BY <3>2, <3>3, FS_RemoveElement
    <3>5. Cardinality((Owners(x) \ {c}) \cup {d}) = Cardinality(Owners(x) \ {c}) + 1
      BY <3>2, <3>4, FS_AddElement
    <3>6. QED
      BY <3>1, <3>3, <3>4, <3>5
  <2>3. QED
    BY <2>1, <2>2
<1>5. CountExact'
  BY <1>1, <1>4 DEF CountExact
<1>6. StateOK'
  BY <1>1, <1>2 DEF StateOK, Exchange
<1>7. QED
  BY <1>1, <1>5, <1>6 DEF Counting, Positive, Nested, Exists

\* ++ on the counter: a borrowed pointer becomes an owner.
LEMMA Retains ==
  ASSUME IInv, NEW s \in Borrowed, s \in Slots, ptr[s] /= Null,
         Borrowed' = Borrowed \ {s},
         cnt' = [cnt EXCEPT ![ptr[s]] = @ + 1], UNCHANGED <<ptr, status, dying>>
  PROVE  Counting'
<1>1. StateOK /\ CountExact /\ Positive /\ Nested
  BY InvParts
<1>2. ptr[s] \in Objects /\ Exists(ptr[s])
  BY <1>1, NothingDangles DEF StateOK, NoDangling
<1>3. ASSUME NEW x \in Objects
      PROVE  cnt'[x] = Cardinality(Owners(x)')
  <2>1. CASE x = ptr[s]
    <3>1. Owners(x)' = Owners(x) \cup {s}
      BY <2>1, OwnersNext DEF Owners
    <3>2. s \notin Owners(x)
      BY DEF Owners
    <3>3. Cardinality(Owners(x)') = Cardinality(Owners(x)) + 1
      BY <3>1, <3>2, OwnersFinite, FS_AddElement
    <3>4. QED
      BY <1>1, <2>1, <3>3 DEF StateOK, CountExact
  <2>2. CASE x /= ptr[s]
    <3>1. Owners(x)' = Owners(x)
      BY <2>2, OwnersNext DEF Owners
    <3>2. QED
      BY <1>1, <2>2, <3>1 DEF StateOK, CountExact
  <2>3. QED
    BY <2>1, <2>2
<1>4. StateOK'
  BY <1>1, <1>2 DEF StateOK, Slots, Variables, Locals, Shared, Temp, Member
<1>5. Positive'
  BY <1>1, <1>2 DEF Positive, Exists, StateOK
<1>6. QED
  BY <1>1, <1>3, <1>4, <1>5 DEF Counting, CountExact, Nested


--------------------------------------------------------------------------------
(* The steps.                                                              *)

Typed == /\ pc \in [Threads -> Labels]
         /\ dst \in [Threads -> Slots \cup {NoSlot}]
         /\ src \in [Threads -> Slots \cup {NoSlot}]

\* What t takes in hand is private to it and well held.
HeldBy(t, s) ==
  \/ s = NoSlot
  \/ /\ Private(t, s)
     /\ s \in Locals(t) \cup Shared \cup Members
     /\ \A o \in Objects : s = Member(o) => \E l \in Locals(t) : ptr[l] = o

LEMMA HandsHeld ==
  ASSUME IInv, NEW t \in Threads
  PROVE  /\ HeldBy(t, dst[t]) /\ HeldBy(t, src[t])
         /\ \A s \in Usable(t) : HeldBy(t, s)
<1>1. HeldBy(t, dst[t]) /\ HeldBy(t, src[t])
  <2>1. {dst[t], src[t]} \subseteq Slots \cup {NoSlot}
    BY DEF IInv, TypeOK
  <2>2. {dst[t], src[t]} \subseteq Locals(t) \cup Shared \cup Members \cup {NoSlot}
    BY DEF IInv, PrivateInv
  <2>3. \A o \in Objects : Member(o) \in {dst[t], src[t]} => \E l \in Locals(t) : ptr[l] = o
    BY DEF IInv, PrivateInv
  <2>4. QED
    BY <2>1, <2>2, <2>3, PrivateSlots DEF HeldBy
<1>2. ASSUME NEW s \in Usable(t), NEW o \in Objects, s = Member(o)
      PROVE  \E l \in Locals(t) : ptr[l] = o
  <2>1. s \notin Locals(t) \cup Shared
    BY <1>2, SlotKinds
  <2>2. PICK l \in Locals(t) : ptr[l] /= Null /\ s = Member(ptr[l])
    BY <2>1 DEF Usable, Reachable
  <2>3. ptr[l] \in Objects
    BY <2>2, SlotKinds DEF IInv, TypeOK
  <2>4. QED
    BY <1>2, <2>2, <2>3, SlotKinds
<1>3. QED
  BY <1>1, <1>2, PrivateSlots DEF HeldBy

\* The parts of the invariant that a step has to establish.
LEMMA Assemble ==
  ASSUME IInv, NEW t \in Threads, StepOf(t), Counting', Typed',
         HeldBy(t, dst'[t]), HeldBy(t, src'[t]),
         \A l \in Locals(t) :
           ptr'[l] = ptr[l] \/ (dst'[t] \notin Members /\ src'[t] \notin Members),
         HandInv(t)', NewInv'
  PROVE  IInv'
<1>1. ASSUME NEW s \in {dst'[t], src'[t]}
      PROVE  \/ s = NoSlot
             \/ Private(t, s) /\ s \in Locals(t) \cup Shared \cup Members
  <2>1. HeldBy(t, s)
    OBVIOUS
  <2>2. QED
    BY <2>1 DEF HeldBy
<1>2. ASSUME NEW o \in Objects, Member(o) \in {dst'[t], src'[t]}
      PROVE  \E l \in Locals(t) : ptr'[l] = o
  <2>1. Member(o) \in Members /\ NoSlot \notin Slots /\ Members \subseteq Slots
    BY SlotKinds
  <2>2. PICK l \in Locals(t) : ptr[l] = o
    BY <1>2, <2>1 DEF HeldBy
  <2>3. QED
    BY <1>2, <2>1, <2>2
<1>3. PrivateInv' /\ \A u \in Threads : HandInv(u)'
  BY <1>1, <1>2, Frame
<1>4. TypeOK'
  BY DEF Counting, StateOK, Typed, TypeOK
<1>5. QED
  BY <1>3, <1>4 DEF IInv, Counting, Positive, Nested

\* The other threads' control state is not touched by t.
OthersRest(t) ==
  \A u \in Threads \ {t} : pc'[u] = pc[u] /\ dst'[u] = dst[u] /\ src'[u] = src[u]

LEMMA BorrowedKept ==
  ASSUME NEW t \in Threads, OthersRest(t),
         pc[t] \notin {"inc", "retain"}, pc'[t] \notin {"inc", "retain"}
  PROVE  Borrowed' = Borrowed
<1>1. \A u \in Threads : Temp(u)' = Temp(u)
  BY DEF Temp
<1>2. QED
  BY <1>1 DEF Borrowed, OthersRest

\* A release of a private slot that t does not borrow.
LEMMA ReleaseStep ==
  ASSUME IInv, NEW t \in Threads, NEW s \in Slots \ Borrowed, Private(t, s),
         Borrowed' = Borrowed, LetGo(t, s), OthersRest(t),
         \/ pc'[t] = pc[t] /\ s /= Temp(t)
         \/ pc[t] /= "new"
  PROVE  StepOf(t) /\ NewInv' /\ Counting' /\ ptr' = [ptr EXCEPT ![s] = Null]
         /\ (pc[t] = "new" => status'[ptr[Temp(t)]] = "counter")
<1>1. /\ Counting' /\ ptr' = [ptr EXCEPT ![s] = Null]
      /\ \A o \in Objects : status'[o] = "counter" => status[o] = "counter"
      /\ \A o \in Objects : o /= ptr[s] => status'[o] = status[o]
  BY Releases
<1>2. \A r \in Slots : ptr'[r] = IF r = s THEN Null ELSE ptr[r]
  BY <1>1 DEF IInv, TypeOK
<1>3. ASSUME NEW u \in Threads, pc[u] = "new", s /= Temp(u)
      PROVE  status'[ptr[Temp(u)]] = "counter"
  <2>1. ptr[Temp(u)] /= Null /\ status[ptr[Temp(u)]] = "counter"
    BY <1>3 DEF IInv, HandInv
  <2>2. ptr[Temp(u)] /= ptr[s]
    BY <1>3, <2>1, SlotKinds DEF IInv, NewInv
  <2>3. ptr[Temp(u)] \in Objects
    BY <2>1, SlotKinds DEF IInv, TypeOK
  <2>4. QED
    BY <1>1, <2>1, <2>2, <2>3
<1>4. StepOf(t)
  <2>1. ASSUME NEW u \in Threads \ {t}, pc[u] = "new"
        PROVE  status'[ptr[Temp(u)]] = "counter"
    BY <1>3, <2>1 DEF Private
  <2>2. QED
    BY <1>2, <2>1 DEF StepOf, OthersRest
<1>5. NewInv'
  <2>1. \A u \in Threads : pc[u] = "new" => pc'[u] = "new"
    BY DEF OthersRest
  <2>2. ASSUME NEW r \in Slots, ptr'[r] /= Null
        PROVE  ptr'[r] = ptr[r]
    BY <1>2, <2>2
  <2>3. ASSUME NEW r \in Slots, ptr'[r] /= Null, status'[ptr'[r]] = "counter"
        PROVE  /\ \E u \in Threads : r = Temp(u) /\ pc'[u] = "new"
               /\ \A q \in Slots : ptr'[q] = ptr'[r] => q = r
    <3>1. ptr'[r] = ptr[r] /\ ptr[r] \in Objects
      BY <2>2, <2>3 DEF IInv, TypeOK
    <3>2. status[ptr[r]] = "counter"
      BY <1>1, <2>3, <3>1
    <3>3. PICK u \in Threads : r = Temp(u) /\ pc[u] = "new"
      BY <2>3, <3>1, <3>2 DEF IInv, NewInv
    <3>4. \A q \in Slots : ptr'[q] = ptr'[r] => q = r
      BY <2>2, <2>3, <3>1, <3>2 DEF IInv, NewInv
    <3>5. QED
      BY <2>1, <3>3, <3>4
  <2>4. Slots' = Slots
    BY DEF Slots, Variables, Locals, Shared, Temp, Member
  <2>5. QED
    BY <2>3, <2>4 DEF NewInv, Temp
<1>6. QED
  BY <1>1, <1>3, <1>4, <1>5

\* A private slot is borrowed only by the thread's own operation.
LEMMA PrivateOwned ==
  ASSUME NEW t \in Threads, NEW s, Private(t, s), s \in Borrowed
  PROVE  \/ s = Temp(t) /\ pc[t] = "inc"
         \/ s = dst[t] /\ pc[t] = "retain"
BY DEF Private, Borrowed

\* A thread at rest uses pointers that nobody borrows, and its temporary is empty.
LEMMA AtRest ==
  ASSUME IInv, NEW t \in Threads, Ready(t, "idle")
  PROVE  /\ \A s \in Usable(t) : Private(t, s) /\ s \in Slots \ Borrowed /\ s /= Temp(t)
         /\ ptr[Temp(t)] = Null /\ dst[t] = NoSlot /\ src[t] = NoSlot
         /\ pc[t] = "idle"
<1>1. pc[t] = "idle"
  BY DEF Ready
<1>2. \A s \in Usable(t) : Private(t, s) /\ s \in Locals(t) \cup Shared \cup Members
  BY PrivateSlots
<1>3. \A s \in Usable(t) : s \in Slots \ Borrowed
  BY <1>1, <1>2, PrivateOwned DEF Private
<1>4. \A s \in Usable(t) : s /= Temp(t)
  BY <1>2, SlotKinds
<1>5. QED
  BY <1>1, <1>2, <1>3, <1>4 DEF IInv, HandInv

LEMMA BeginStep ==
  ASSUME IInv, NEW t \in Threads, NEW l \in Labels, NEW d \in Slots \cup {NoSlot},
         NEW s \in Slots \cup {NoSlot}, Begin(t, l, d, s)
  PROVE  Typed' /\ OthersRest(t) /\ pc'[t] = l /\ dst'[t] = d /\ src'[t] = s
BY DEF Begin, IInv, TypeOK, Typed, OthersRest, Slots, NoSlot, Variables, Locals, Shared, Temp, Member

LEMMA FinishStep ==
  ASSUME IInv, NEW t \in Threads, Finish(t)
  PROVE  Typed' /\ OthersRest(t) /\ pc'[t] = "idle" /\ dst'[t] = NoSlot /\ src'[t] = NoSlot
BY DEF Finish, IInv, TypeOK, Typed, OthersRest, Labels, Slots, NoSlot, Variables, Locals,
       Shared, Temp, Member

LEMMA DestroyStep ==
  ASSUME IInv, NEW t \in Threads, Ready(t, "idle"), NEW d \in Usable(t), Destroy(t, d)
  PROVE  IInv'
<1>1. Private(t, d) /\ d \in Slots \ Borrowed /\ d /= Temp(t) /\ pc[t] = "idle"
      /\ ptr[Temp(t)] = Null /\ dst[t] = NoSlot /\ src[t] = NoSlot
  BY AtRest
<1>2. pc' = pc /\ dst' = dst /\ src' = src /\ LetGo(t, d)
  BY DEF Destroy
<1>3. OthersRest(t) /\ Borrowed' = Borrowed
  BY <1>1, <1>2, BorrowedKept DEF OthersRest
<1>4. StepOf(t) /\ NewInv' /\ Counting' /\ ptr' = [ptr EXCEPT ![d] = Null]
  BY <1>1, <1>2, <1>3, ReleaseStep
<1>5. HandInv(t)'
  BY <1>1, <1>2, <1>4, SlotKinds DEF HandInv, IInv, TypeOK, Temp
<1>6. Typed'
  BY <1>2 DEF IInv, TypeOK, Typed, Slots, Variables, Locals, Shared, Temp, Member, NoSlot
<1>7. HeldBy(t, dst'[t]) /\ HeldBy(t, src'[t]) /\ NoSlot \notin Members
  BY <1>1, <1>2, SlotKinds DEF HeldBy
<1>8. QED
  BY <1>1, <1>2, <1>4, <1>5, <1>6, <1>7, Assemble

\* ChildMoveAssign and HolderAssign begin in the same way.
LEMMA DropFirstStep ==
  ASSUME IInv, NEW t \in Threads, Ready(t, "idle"), NEW d \in Usable(t), NEW s \in Usable(t),
         s \in Variables, d /= s, NEW l \in {"take", "read"}, Begin(t, l, d, s), LetGo(t, d)
  PROVE  IInv'
<1>1. Private(t, d) /\ d \in Slots \ Borrowed /\ d /= Temp(t) /\ pc[t] = "idle"
      /\ ptr[Temp(t)] = Null /\ s \in Slots
  BY AtRest
<1>2. Typed' /\ OthersRest(t) /\ pc'[t] = l /\ dst'[t] = d /\ src'[t] = s
  BY <1>1, BeginStep DEF Labels
<1>3. Borrowed' = Borrowed
  BY <1>1, <1>2, BorrowedKept
<1>4. StepOf(t) /\ NewInv' /\ Counting' /\ ptr' = [ptr EXCEPT ![d] = Null]
  BY <1>1, <1>2, <1>3, ReleaseStep
<1>5. \A r \in Slots : ptr'[r] = IF r = d THEN Null ELSE ptr[r]
  BY <1>4 DEF IInv, TypeOK
<1>6. HandInv(t)'
  <2>1. ptr'[Temp(t)] = Null /\ ptr'[d] = Null
    BY <1>1, <1>5, SlotKinds
  <2>2. Slots' = Slots /\ Variables' = Variables /\ Temp(t)' = Temp(t)
    BY DEF Slots, Variables, Locals, Shared, Temp, Member
  <2>3. QED
    BY <1>1, <1>2, <2>1, <2>2 DEF HandInv
<1>7. HeldBy(t, d) /\ HeldBy(t, s)
  BY HandsHeld
<1>8. \A x \in Locals(t) : ptr'[x] = ptr[x] \/ (dst'[t] \notin Members /\ src'[t] \notin Members)
  BY <1>2, <1>5, SlotKinds
<1>9. QED
  BY <1>2, <1>4, <1>6, <1>7, <1>8, Assemble

LEMMA DropTempStep ==
  ASSUME IInv, NEW t \in Threads, DropTemp(t)
  PROVE  IInv'
<1>1. pc[t] = "drop" /\ LetGo(t, Temp(t)) /\ Finish(t)
  BY DEF DropTemp, Ready
<1>2. Typed' /\ OthersRest(t) /\ pc'[t] = "idle" /\ dst'[t] = NoSlot /\ src'[t] = NoSlot
  BY <1>1, FinishStep
<1>3. Borrowed' = Borrowed /\ Temp(t) \in Slots \ Borrowed /\ Private(t, Temp(t))
  BY <1>1, <1>2, BorrowedKept, BorrowedSlots, PrivateSlots, SlotKinds
<1>4. StepOf(t) /\ NewInv' /\ Counting' /\ ptr' = [ptr EXCEPT ![Temp(t)] = Null]
  BY <1>1, <1>2, <1>3, ReleaseStep
<1>5. ptr'[Temp(t)] = Null
  BY <1>3, <1>4 DEF IInv, TypeOK
<1>6. HandInv(t)'
  BY <1>2, <1>5 DEF HandInv, Temp
<1>7. HeldBy(t, dst'[t]) /\ HeldBy(t, src'[t]) /\ NoSlot \notin Members
  BY <1>2, SlotKinds DEF HeldBy
<1>8. QED
  BY <1>2, <1>4, <1>6, <1>7, Assemble

LEMMA InnermostDying ==
  ASSUME IInv, NEW t \in Threads, dying[t] /= <<>>
  PROVE  Innermost(t) \in Objects /\ status[Innermost(t)] = "dying"
         /\ Len(dying[t]) \in 1..Len(dying[t])
<1>1. dying[t] \in Seq(Objects)
  BY DEF IInv, TypeOK
<1>2. Len(dying[t]) \in 1..Len(dying[t]) /\ dying[t][Len(dying[t])] \in Objects
  BY <1>1
<1>3. QED
  BY <1>2 DEF IInv, Nested, Innermost

LEMMA DropMemberStep ==
  ASSUME IInv, NEW t \in Threads, DropMember(t)
  PROVE  IInv'
<1> DEFINE m == Member(Innermost(t))
<1>1. dying[t] /= <<>> /\ LetGo(t, m) /\ pc' = pc /\ dst' = dst /\ src' = src
  BY DEF DropMember
<1>2. Innermost(t) \in Objects /\ status[Innermost(t)] = "dying"
  BY <1>1, InnermostDying
<1>3. m \in Members /\ m \in Slots /\ Private(t, m)
  BY <1>2, PrivateSlots, SlotKinds
<1>4. m \notin {dst[t], src[t]}
  BY <1>2, NothingDangles DEF NoDangling
<1>5. m /= Temp(t) /\ m \notin Locals(t)
  BY <1>3, SlotKinds
<1>6. m \notin Borrowed
  BY <1>3, <1>4, <1>5, PrivateOwned
<1>7. OthersRest(t) /\ Borrowed' = Borrowed
  BY <1>1 DEF OthersRest, Borrowed, Temp
<1> HIDE DEF m
<1>8. /\ StepOf(t) /\ NewInv' /\ Counting' /\ ptr' = [ptr EXCEPT ![m] = Null]
      /\ pc[t] = "new" => status'[ptr[Temp(t)]] = "counter"
  BY <1>1, <1>3, <1>5, <1>6, <1>7, ReleaseStep
<1>9. \A r \in Slots : ptr'[r] = IF r = m THEN Null ELSE ptr[r]
  BY <1>8 DEF IInv, TypeOK
<1>10. HandInv(t)'
  <2>1. Slots' = Slots /\ Variables' = Variables /\ Temp(t)' = Temp(t)
    BY DEF Slots, Variables, Locals, Shared, Temp, Member
  <2>2. HandInv(t) /\ Temp(t) \in Slots /\ Variables \subseteq Slots
    BY SlotKinds DEF IInv
  <2>3. ptr'[Temp(t)] = ptr[Temp(t)]
    BY <1>5, <1>9, <2>2
  <2>4. dst[t] \in Slots => ptr'[dst[t]] = ptr[dst[t]]
    BY <1>4, <1>9
  <2>5. src[t] \in Slots => ptr'[src[t]] = ptr[src[t]]
    BY <1>4, <1>9
  <2>6. QED
    BY <1>1, <1>8, <2>1, <2>2, <2>3, <2>4, <2>5 DEF HandInv
<1>11. Typed'
  BY <1>1 DEF IInv, TypeOK, Typed, Slots, Variables, Locals, Shared, Temp, Member, NoSlot
<1>12. \A l \in Locals(t) : ptr'[l] = ptr[l]
  BY <1>5, <1>9, SlotKinds
<1>13. HeldBy(t, dst'[t]) /\ HeldBy(t, src'[t])
  BY <1>1, HandsHeld
<1>14. QED
  BY <1>8, <1>10, <1>11, <1>12, <1>13, Assemble

\* Nothing that the definitions of the slots mention ever changes.
LEMMA SlotsStay ==
  /\ Slots' = Slots /\ Variables' = Variables /\ Members' = Members /\ Shared' = Shared
  /\ \A t \in Threads : Temp(t)' = Temp(t) /\ Locals(t)' = Locals(t)
  /\ NoSlot' = NoSlot
BY DEF Slots, Variables, Locals, Shared, Members, Temp, Member, NoSlot

\* A step that changes no pointer and no status.
LEMMA StillStep ==
  ASSUME IInv, NEW t \in Threads, OthersRest(t), UNCHANGED <<ptr, status>>,
         pc[t] = "new" => pc'[t] = "new"
  PROVE  StepOf(t) /\ NewInv'
<1>1. StepOf(t)
  BY DEF StepOf, OthersRest, IInv, HandInv
<1>2. \A u \in Threads : pc[u] = "new" => pc'[u] = "new"
  BY DEF OthersRest
<1>3. NewInv'
  BY <1>2, SlotsStay DEF IInv, NewInv
<1>4. QED
  BY <1>1, <1>3

LEMMA FreeObjectStep ==
  ASSUME IInv, NEW t \in Threads, FreeObject(t)
  PROVE  IInv'
<1> DEFINE x == Innermost(t)
<1> DEFINE n == Len(dying[t])
<1>1. /\ dying[t] /= <<>> /\ status' = [status EXCEPT ![x] = "freed"]
      /\ dying' = [dying EXCEPT ![t] = SubSeq(@, 1, Len(@) - 1)]
      /\ UNCHANGED <<ptr, cnt, pc, dst, src>>
  BY DEF FreeObject
<1>2. x \in Objects /\ status[x] = "dying" /\ n \in 1..n /\ x = dying[t][n]
  BY <1>1, InnermostDying DEF Innermost
<1>3. StateOK /\ CountExact /\ Positive /\ Nested
  BY InvParts
<1>4. \A y \in Objects : status'[y] = IF y = x THEN "freed" ELSE status[y]
  BY <1>1, <1>3 DEF StateOK
<1>5. \A u \in Threads : dying[u] \in Seq(Objects)
  BY <1>3 DEF StateOK
<1>6. \A u \in Threads \ {t} : dying'[u] = dying[u]
  BY <1>1, <1>3 DEF StateOK
<1>7. /\ dying'[t] \in Seq(Objects) /\ Len(dying'[t]) = n - 1
      /\ \A i \in 1..(n - 1) : dying'[t][i] = dying[t][i]
  <2>1. dying'[t] = SubSeq(dying[t], 1, n - 1)
    BY <1>1, <1>3 DEF StateOK
  <2>2. QED
    BY <1>2, <1>5, <2>1
<1>8. ASSUME NEW u \in Threads, NEW i \in 1..Len(dying'[u])
      PROVE  /\ i \in 1..Len(dying[u]) /\ dying'[u][i] = dying[u][i]
             /\ dying[u][i] \in Objects /\ dying[u][i] /= x
  <2>1. i \in 1..Len(dying[u]) /\ dying'[u][i] = dying[u][i] /\ (u = t => i /= n)
    BY <1>2, <1>6, <1>7
  <2>2. dying[u][i] \in Objects
    BY <1>5, <2>1
  <2>3. dying[u][i] /= x
    BY <1>2, <1>3, <2>1 DEF Nested
  <2>4. QED
    BY <2>1, <2>2, <2>3
<1>9. ASSUME NEW y \in Objects, status'[y] = "dying"
      PROVE  \E u \in Threads : \E i \in 1..Len(dying'[u]) : dying'[u][i] = y
  <2>1. y /= x /\ status[y] = "dying"
    BY <1>4, <1>9
  <2>2. PICK u \in Threads : \E i \in 1..Len(dying[u]) : dying[u][i] = y
    BY <1>3, <2>1 DEF Nested
  <2>3. PICK i \in 1..Len(dying[u]) : dying[u][i] = y
    BY <2>2
  <2>4. i \in 1..Len(dying'[u]) /\ dying'[u][i] = y
    BY <1>2, <1>6, <1>7, <2>1, <2>3
  <2>5. QED
    BY <2>4
<1>10. Nested'
  <2>1. ASSUME NEW u \in Threads, NEW v \in Threads,
               NEW i \in 1..Len(dying'[u]), NEW j \in 1..Len(dying'[v]),
               dying'[u][i] = dying'[v][j]
        PROVE  u = v /\ i = j
    <3>1. i \in 1..Len(dying[u]) /\ dying'[u][i] = dying[u][i]
      BY <1>8
    <3>2. j \in 1..Len(dying[v]) /\ dying'[v][j] = dying[v][j]
      BY <1>8
    <3>3. dying[u][i] = dying[v][j]
      BY <2>1, <3>1, <3>2
    <3>4. QED
      BY <1>3, <3>1, <3>2, <3>3 DEF Nested
  <2>2. \A u \in Threads : \A i \in 1..Len(dying'[u]) : status'[dying'[u][i]] = "dying"
    BY <1>3, <1>4, <1>8 DEF Nested
  <2>3. QED
    BY <1>9, <2>1, <2>2 DEF Nested
<1>11. Positive' /\ CountExact'
  <2>1. Borrowed' = Borrowed
    BY <1>1 DEF Borrowed, Temp
  <2>2. \A y \in Objects : Owners(y)' = Owners(y)
    BY <1>1, <2>1, OwnersNext DEF Owners
  <2>3. \A y \in Objects : Exists(y)' <=> Exists(y)
    BY <1>2, <1>4 DEF Exists
  <2>4. QED
    BY <1>1, <1>3, <2>2, <2>3 DEF Positive, CountExact
<1>12. StateOK'
  BY <1>1, <1>2, <1>3, <1>6, <1>7, SlotsStay DEF StateOK
<1>13. Counting'
  BY <1>10, <1>11, <1>12 DEF Counting
<1>14. \A u \in Threads : pc[u] = "new" => status'[ptr[Temp(u)]] = "counter"
  BY <1>2, <1>4, SlotKinds DEF IInv, TypeOK, HandInv
<1>15. StepOf(t)
  BY <1>1, <1>14 DEF StepOf
<1>16. NewInv'
  BY <1>1, <1>2, <1>3, <1>4, SlotsStay DEF IInv, NewInv, StateOK
<1>17. HandInv(t)'
  BY <1>1, <1>14, SlotsStay DEF IInv, HandInv
<1>18. Typed' /\ HeldBy(t, dst'[t]) /\ HeldBy(t, src'[t])
  BY <1>1, HandsHeld, SlotsStay DEF IInv, TypeOK, Typed
<1>19. QED
  BY <1>1, <1>13, <1>15, <1>16, <1>17, <1>18, Assemble

\* Nobody owns an object that does not exist yet.
LEMMA Unowned ==
  ASSUME IInv, NEW x \in Objects, ~ Exists(x)
  PROVE  cnt[x] = 0 /\ Owners(x) = {} /\ \A s \in Slots : ptr[s] /= x
<1>1. \A s \in Slots : ptr[s] /= x
  BY NothingDangles, NullAssumption DEF NoDangling
<1>2. Owners(x) = {}
  BY <1>1 DEF Owners
<1>3. cnt[x] = 0
  BY <1>2, FS_EmptySet DEF IInv, CountExact
<1>4. QED
  BY <1>1, <1>2, <1>3

LEMMA MakeCounterStep ==
  ASSUME IInv, NEW t \in Threads, Ready(t, "idle"), NEW d \in Usable(t), MakeCounter(t, d)
  PROVE  IInv'
<1>1. /\ Private(t, d) /\ d \in Slots /\ d /= Temp(t) /\ pc[t] = "idle"
      /\ ptr[Temp(t)] = Null /\ HeldBy(t, d) /\ HeldBy(t, NoSlot)
  BY AtRest, HandsHeld DEF HeldBy
<1>2. dying' = dying
  BY DEF MakeCounter
<1>3. StateOK /\ CountExact /\ Positive /\ Nested
  BY InvParts
<1>4. CASE Begin(t, "swap", d, NoSlot) /\ UNCHANGED <<ptr, cnt, status>>
  <2>1. Typed' /\ OthersRest(t) /\ pc'[t] = "swap" /\ dst'[t] = d /\ src'[t] = NoSlot
    BY <1>1, <1>4, BeginStep DEF Labels
  <2>2. Borrowed' = Borrowed
    BY <1>1, <2>1, BorrowedKept
  <2>3. \A x \in Objects : Owners(x)' = Owners(x)
    BY <1>4, <2>2, OwnersNext DEF Owners
  <2>4. Counting'
    BY <1>2, <1>3, <1>4, <2>3, SlotsStay
      DEF Counting, StateOK, CountExact, Positive, Nested, Exists
  <2>5. HandInv(t)'
    BY <1>1, <2>1, SlotsStay DEF HandInv
  <2>6. StepOf(t) /\ NewInv'
    BY <1>1, <1>4, <2>1, StillStep
  <2>7. QED
    BY <1>1, <1>4, <2>1, <2>4, <2>5, <2>6, Assemble
<1>5. ASSUME NEW x \in Objects, status[x] = "none",
             status' = [status EXCEPT ![x] = "counter"], cnt' = [cnt EXCEPT ![x] = 1],
             ptr' = [ptr EXCEPT ![Temp(t)] = x], Begin(t, "new", d, NoSlot)
      PROVE  IInv'
  <2>1. Typed' /\ OthersRest(t) /\ pc'[t] = "new" /\ dst'[t] = d /\ src'[t] = NoSlot
    BY <1>1, <1>5, BeginStep DEF Labels
  <2>2. Borrowed' = Borrowed /\ Temp(t) \in Slots \ Borrowed
    BY <1>1, <2>1, BorrowedKept, BorrowedSlots, SlotKinds
  <2>3. cnt[x] = 0 /\ Owners(x) = {} /\ \A s \in Slots : ptr[s] /= x
    BY <1>5, Unowned DEF Exists
  <2>4. \A s \in Slots : ptr'[s] = IF s = Temp(t) THEN x ELSE ptr[s]
    BY <1>3, <1>5 DEF StateOK
  <2>5. \A y \in Objects : status'[y] = IF y = x THEN "counter" ELSE status[y]
    BY <1>3, <1>5 DEF StateOK
  <2>6. ASSUME NEW y \in Objects
        PROVE  cnt'[y] = Cardinality(Owners(y)')
    <3>1. CASE y = x
      <4>1. Owners(y)' = {Temp(t)}
        BY <2>2, <2>3, <2>4, <3>1, OwnersNext
      <4>2. QED
        BY <1>3, <1>5, <3>1, <4>1, FS_Singleton DEF StateOK
    <3>2. CASE y /= x
      <4>1. Owners(y)' = Owners(y)
        BY <1>1, <2>2, <2>4, <3>2, OwnersNext, NullAssumption DEF Owners
      <4>2. QED
        BY <1>3, <1>5, <3>2, <4>1 DEF StateOK, CountExact
    <3>3. QED
      BY <3>1, <3>2
  <2>7. Nested'
    <3>1. \A u \in Threads : \A i \in 1..Len(dying[u]) : dying[u][i] \in Objects
      BY <1>3 DEF StateOK
    <3>2. QED
      BY <1>2, <1>3, <1>5, <2>5, <3>1 DEF Nested
  <2>8. Counting'
    <3>1. StateOK'
      BY <1>2, <1>3, <1>5, SlotsStay DEF StateOK
    <3>2. CountExact'
      BY <2>6 DEF CountExact
    <3>3. Positive'
      BY <1>3, <1>5, <2>5 DEF StateOK, Positive, Exists
    <3>4. QED
      BY <2>7, <3>1, <3>2, <3>3 DEF Counting
  <2>9. HandInv(t)'
    BY <1>1, <1>5, <2>1, <2>2, <2>4, <2>5, SlotsStay, NullAssumption DEF HandInv
  <2>10. \A u \in Threads : pc[u] = "new" => status[ptr[Temp(u)]] = "counter" /\ ptr[Temp(u)] \in Objects
    BY SlotKinds DEF IInv, TypeOK, HandInv
  <2>11. StepOf(t)
    BY <2>1, <2>4, <2>5, <2>10, PrivateSlots DEF StepOf, OthersRest
  <2>12. ASSUME NEW s \in Slots, ptr'[s] /= Null, status'[ptr'[s]] = "counter"
         PROVE  /\ \E u \in Threads : s = Temp(u) /\ pc'[u] = "new"
                /\ \A r \in Slots : ptr'[r] = ptr'[s] => r = s
    <3>1. CASE s = Temp(t)
      BY <2>1, <2>3, <2>4, <3>1
    <3>2. CASE s /= Temp(t)
      <4>1. ptr'[s] = ptr[s] /\ ptr[s] \in Objects /\ ptr[s] /= x
        BY <1>3, <2>3, <2>4, <2>12, <3>2 DEF StateOK
      <4>2. status[ptr[s]] = "counter"
        BY <2>5, <2>12, <4>1
      <4>3. PICK u \in Threads : s = Temp(u) /\ pc[u] = "new"
        BY <2>12, <4>1, <4>2 DEF IInv, NewInv
      <4>4. \A r \in Slots : ptr[r] = ptr[s] => r = s
        BY <2>12, <4>1, <4>2 DEF IInv, NewInv
      <4>5. QED
        BY <2>1, <2>4, <3>2, <4>1, <4>3, <4>4 DEF OthersRest
    <3>3. QED
      BY <3>1, <3>2
  <2>13. NewInv'
    BY <2>12, SlotsStay DEF NewInv
  <2>14. \A l \in Locals(t) : ptr'[l] = ptr[l]
    BY <2>4, SlotKinds
  <2>15. QED
    BY <1>1, <2>1, <2>8, <2>9, <2>11, <2>13, <2>14, Assemble
<1>6. QED
  BY <1>4, <1>5 DEF MakeCounter

LEMMA MakeObjectStep ==
  ASSUME IInv, NEW t \in Threads, MakeObject(t)
  PROVE  IInv'
<1> DEFINE x == ptr[Temp(t)]
<1>1. /\ pc[t] = "new" /\ pc' = [pc EXCEPT ![t] = "swap"]
      /\ UNCHANGED <<dst, src, dying>>
  BY DEF MakeObject, Ready
<1>2. StateOK /\ CountExact /\ Positive /\ Nested
  BY InvParts
<1>3. /\ x /= Null /\ status[x] = "counter" /\ dst[t] \in Slots
      /\ x \in Objects /\ Temp(t) \in Slots
  BY <1>1, <1>2, SlotKinds DEF IInv, HandInv, StateOK
<1>4. \A s \in Slots : ptr[s] = x => s = Temp(t)
  BY <1>3 DEF IInv, NewInv
<1>5. Typed' /\ OthersRest(t) /\ pc'[t] = "swap" /\ dst'[t] = dst[t] /\ src'[t] = src[t]
  BY <1>1, SlotsStay DEF IInv, TypeOK, Typed, OthersRest, Labels
<1>6. Borrowed' = Borrowed /\ Temp(t) \in Slots \ Borrowed
  BY <1>1, <1>3, <1>5, BorrowedKept, BorrowedSlots
<1>7. \A u \in Threads \ {t} : pc[u] = "new" =>
        status[ptr[Temp(u)]] = "counter" /\ ptr[Temp(u)] \in Objects /\ ptr[Temp(u)] /= x
  BY <1>2, <1>4, SlotKinds DEF IInv, HandInv, StateOK
<1>8. HeldBy(t, dst'[t]) /\ HeldBy(t, src'[t])
  BY <1>5, HandsHeld
<1>9. \A u \in Threads : \A i \in 1..Len(dying[u]) :
        dying[u][i] \in Objects /\ dying[u][i] /= x
  BY <1>2, <1>3 DEF StateOK, Nested
<1>10. ASSUME NEW st \in {"live", "freed"}, status' = [status EXCEPT ![x] = st],
              \A s \in Slots \ {Temp(t)} : ptr'[s] = ptr[s], ptr'[Temp(t)] \in {x, Null},
              StateOK', CountExact', Positive'
       PROVE  IInv'
  <2>1. \A y \in Objects : status'[y] = IF y = x THEN st ELSE status[y]
    BY <1>2, <1>10 DEF StateOK
  <2>2. Nested'
    BY <1>1, <1>2, <1>3, <1>9, <2>1 DEF Nested
  <2>3. Counting'
    BY <1>10, <2>2 DEF Counting
  <2>4. StepOf(t)
    BY <1>5, <1>7, <1>10, <2>1, PrivateSlots DEF StepOf, OthersRest
  <2>5. ASSUME NEW s \in Slots, ptr'[s] /= Null, status'[ptr'[s]] = "counter"
        PROVE  /\ \E u \in Threads : s = Temp(u) /\ pc'[u] = "new"
               /\ \A r \in Slots : ptr'[r] = ptr'[s] => r = s
    <3>1. ptr'[s] \in Objects /\ ptr'[s] /= x /\ status[ptr'[s]] = "counter"
      BY <1>10, <2>1, <2>5, SlotsStay DEF StateOK
    <3>2. s /= Temp(t) /\ ptr'[s] = ptr[s]
      BY <1>10, <2>5, <3>1
    <3>3. PICK u \in Threads : s = Temp(u) /\ pc[u] = "new"
      BY <2>5, <3>1, <3>2 DEF IInv, NewInv
    <3>4. \A r \in Slots : ptr[r] = ptr[s] => r = s
      BY <2>5, <3>1, <3>2 DEF IInv, NewInv
    <3>5. \A r \in Slots : ptr'[r] = ptr'[s] => r = s
      BY <1>10, <2>5, <3>1, <3>2, <3>4
    <3>6. QED
      BY <1>5, <3>2, <3>3, <3>5 DEF OthersRest
  <2>6. NewInv'
    BY <2>5, SlotsStay DEF NewInv
  <2>7. HandInv(t)'
    BY <1>3, <1>5, SlotsStay DEF HandInv
  <2>8. \A l \in Locals(t) : ptr'[l] = ptr[l]
    BY <1>10, SlotKinds
  <2>9. QED
    BY <1>5, <1>8, <2>3, <2>4, <2>6, <2>7, <2>8, Assemble
<1>11. CASE status' = [status EXCEPT ![x] = "live"] /\ UNCHANGED <<ptr, cnt>>
  <2>1. \A y \in Objects : Owners(y)' = Owners(y)
    BY <1>6, <1>11, OwnersNext DEF Owners
  <2>2. CountExact'
    BY <1>2, <1>11, <2>1 DEF CountExact
  <2>3. StateOK'
    BY <1>1, <1>2, <1>11, SlotsStay DEF StateOK
  <2>4. Positive'
    BY <1>2, <1>3, <1>11 DEF Positive, Exists, StateOK
  <2>5. QED
    BY <1>10, <1>11, <2>2, <2>3, <2>4
<1>12. CASE /\ status' = [status EXCEPT ![x] = "freed"] /\ cnt' = [cnt EXCEPT ![x] = 0]
            /\ ptr' = [ptr EXCEPT ![Temp(t)] = Null]
  <2>1. \A s \in Slots : ptr'[s] = IF s = Temp(t) THEN Null ELSE ptr[s]
    BY <1>2, <1>12 DEF StateOK
  <2>2. ASSUME NEW y \in Objects
        PROVE  cnt'[y] = Cardinality(Owners(y)')
    <3>1. CASE y = x
      <4>1. Owners(y)' = {}
        BY <1>4, <2>1, <3>1, OwnersNext, NullAssumption
      <4>2. QED
        BY <1>2, <1>12, <3>1, <4>1, FS_EmptySet DEF StateOK
    <3>2. CASE y /= x
      <4>1. Owners(y)' = Owners(y)
        BY <1>6, <2>1, <3>2, OwnersNext, NullAssumption DEF Owners
      <4>2. QED
        BY <1>2, <1>12, <3>2, <4>1 DEF StateOK, CountExact
    <3>3. QED
      BY <3>1, <3>2
  <2>3. CountExact'
    BY <2>2 DEF CountExact
  <2>4. StateOK'
    BY <1>1, <1>2, <1>12, SlotsStay DEF StateOK
  <2>5. Positive'
    BY <1>2, <1>3, <1>12 DEF Positive, Exists, StateOK
  <2>6. ptr'[Temp(t)] = Null
    BY <1>3, <2>1
  <2>7. QED
    BY <1>10, <1>12, <2>1, <2>3, <2>4, <2>5, <2>6
<1>13. QED
  BY <1>11, <1>12 DEF MakeObject

LEMMA CopyAssignStep ==
  ASSUME IInv, NEW t \in Threads, Ready(t, "idle"),
         NEW d \in Usable(t), NEW s \in Usable(t), CopyAssign(t, d, s)
  PROVE  IInv'
<1>1. /\ pc[t] = "idle" /\ ptr[Temp(t)] = Null
      /\ {d, s} \subseteq Slots \ Borrowed /\ d /= Temp(t) /\ s /= Temp(t)
      /\ HeldBy(t, d) /\ HeldBy(t, s)
  BY AtRest, HandsHeld
<1> DEFINE l == IF ptr[s] = Null THEN "swap" ELSE "inc"
<1>2. /\ Begin(t, l, d, s) /\ ptr' = [ptr EXCEPT ![Temp(t)] = ptr[s]]
      /\ UNCHANGED <<cnt, status, dying>>
  BY DEF CopyAssign
<1>3. Typed' /\ OthersRest(t) /\ pc'[t] = l /\ dst'[t] = d /\ src'[t] = s
  BY <1>1, <1>2, BeginStep DEF Labels
<1>4. StateOK /\ CountExact /\ Positive /\ Nested /\ Temp(t) \in Slots
  BY InvParts, SlotKinds
<1>5. \A r \in Slots : ptr'[r] = IF r = Temp(t) THEN ptr[s] ELSE ptr[r]
  BY <1>2, <1>4 DEF StateOK
<1>6. Temp(t) \notin Borrowed
  BY <1>1, BorrowedSlots
<1>7. Borrowed' = IF ptr[s] = Null THEN Borrowed ELSE Borrowed \cup {Temp(t)}
  BY <1>1, <1>3, SlotsStay DEF Borrowed, OthersRest
<1>8. \A x \in Objects : Owners(x)' = Owners(x)
  BY <1>1, <1>5, <1>6, <1>7, OwnersNext, NullAssumption DEF Owners
<1>9. ptr[s] \in Objects \cup {Null}
  BY <1>1, <1>4 DEF StateOK
<1>10. StateOK'
  BY <1>2, <1>4, <1>9, SlotsStay DEF StateOK
<1>11. Counting'
  BY <1>2, <1>4, <1>8, <1>10 DEF Counting, CountExact, Positive, Nested, Exists
<1>12. HandInv(t)'
  BY <1>1, <1>3, <1>4, <1>5, SlotsStay DEF HandInv
<1>13. StepOf(t)
  BY <1>2, <1>3, <1>5, PrivateSlots DEF StepOf, OthersRest, IInv, HandInv
<1>14. ptr[s] /= Null => status[ptr[s]] /= "counter"
  <2>1. \A u \in Threads : pc[u] = "new" => s /= Temp(u)
    BY <1>1, SlotKinds DEF HeldBy, Private
  <2>2. QED
    BY <1>1, <2>1 DEF IInv, NewInv
<1>15. TypeOK'
  BY <1>3, <1>10 DEF TypeOK, Typed, StateOK
<1>16. NewInv'
  BY <1>1, <1>2, <1>3, <1>5, <1>14, <1>15, NewKept DEF OthersRest
<1>17. \A r \in Locals(t) : ptr'[r] = ptr[r]
  BY <1>5, SlotKinds
<1>18. QED
  BY <1>1, <1>3, <1>11, <1>12, <1>13, <1>16, <1>17, Assemble

LEMMA CountStep ==
  ASSUME IInv, NEW t \in Threads, Count(t)
  PROVE  IInv'
<1>1. /\ pc[t] = "inc" /\ pc' = [pc EXCEPT ![t] = "swap"]
      /\ cnt' = [cnt EXCEPT ![ptr[Temp(t)]] = @ + 1]
      /\ UNCHANGED <<ptr, status, dst, src, dying>>
  BY DEF Count, Ready
<1>2. Typed' /\ OthersRest(t) /\ pc'[t] = "swap"
  BY <1>1, SlotsStay DEF IInv, TypeOK, Typed, OthersRest, Labels
<1>3. /\ Temp(t) \in Borrowed /\ Temp(t) \in Slots
      /\ ptr[Temp(t)] /= Null /\ dst[t] \in Slots
  BY <1>1, BorrowedSlots, SlotKinds DEF IInv, HandInv
<1>4. \A u \in Threads : Temp(t) /= dst[u]
  BY SlotKinds DEF IInv, PrivateInv
<1>5. Borrowed' = Borrowed \ {Temp(t)}
  BY <1>1, <1>2, <1>4, SlotKinds, SlotsStay DEF Borrowed, OthersRest
<1>6. Counting'
  BY <1>1, <1>3, <1>5, Retains
<1>7. StepOf(t) /\ NewInv'
  BY <1>1, <1>2, StillStep
<1>8. HandInv(t)'
  BY <1>1, <1>2, <1>3, SlotsStay DEF HandInv
<1>9. HeldBy(t, dst'[t]) /\ HeldBy(t, src'[t])
  BY <1>1, HandsHeld
<1>10. QED
  BY <1>1, <1>2, <1>6, <1>7, <1>8, <1>9, Assemble

\* A pointer that no making thread holds is to an object that is made.
LEMMA MadeObject ==
  ASSUME IInv, NEW s \in Slots, ptr[s] /= Null,
         \A u \in Threads : pc[u] = "new" => s /= Temp(u)
  PROVE  status[ptr[s]] /= "counter"
BY DEF IInv, NewInv

\* Two private slots of t, not those of an object in the making, are exchanged.
LEMMA ExchangeStep ==
  ASSUME IInv, NEW t \in Threads, pc[t] /= "new",
         NEW a \in Slots \ Borrowed, NEW b \in Slots \ Borrowed,
         Private(t, a), Private(t, b), Exchange(a, b), OthersRest(t),
         Borrowed' = Borrowed, UNCHANGED <<cnt, status, dying>>, Typed'
  PROVE  /\ StepOf(t) /\ NewInv' /\ Counting'
         /\ \A s \in Slots :
              ptr'[s] = IF s = b THEN ptr[a] ELSE IF s = a THEN ptr[b] ELSE ptr[s]
<1>1. Counting'
  BY Exchanges
<1>2. \A s \in Slots :
        ptr'[s] = IF s = b THEN ptr[a] ELSE IF s = a THEN ptr[b] ELSE ptr[s]
  BY DEF Exchange, IInv, TypeOK
<1>3. StepOf(t)
  BY <1>2 DEF StepOf, OthersRest, IInv, HandInv
<1>4. \A u \in Threads : pc[u] = "new" => a /= Temp(u) /\ b /= Temp(u)
  BY DEF Private
<1>5. \A s \in {a, b} : ptr[s] /= Null => status[ptr[s]] /= "counter"
  BY <1>4, MadeObject
<1>6. \A s \in Slots : ptr'[s] /= Null /\ status[ptr'[s]] = "counter" => ptr'[s] = ptr[s]
  BY <1>2, <1>5
<1>7. TypeOK'
  BY <1>1 DEF TypeOK, Typed, Counting, StateOK
<1>8. NewInv'
  BY <1>6, <1>7, NewKept DEF OthersRest
<1>9. QED
  BY <1>1, <1>2, <1>3, <1>8

LEMMA SwapTempStep ==
  ASSUME IInv, NEW t \in Threads, SwapTemp(t)
  PROVE  IInv'
<1>1. /\ pc[t] = "swap" /\ Exchange(dst[t], Temp(t)) /\ pc' = [pc EXCEPT ![t] = "drop"]
      /\ dst' = [dst EXCEPT ![t] = NoSlot] /\ src' = [src EXCEPT ![t] = NoSlot]
      /\ UNCHANGED <<cnt, status, dying>>
  BY DEF SwapTemp, Ready
<1>2. /\ Typed' /\ OthersRest(t) /\ pc'[t] = "drop"
      /\ dst'[t] = NoSlot /\ src'[t] = NoSlot
  BY <1>1, SlotsStay DEF IInv, TypeOK, Typed, OthersRest, Labels
<1>3. dst[t] \in Slots /\ Temp(t) \in Slots
  BY <1>1, SlotKinds DEF IInv, HandInv
<1>4. Borrowed' = Borrowed /\ {dst[t], Temp(t)} \subseteq Slots \ Borrowed
  BY <1>1, <1>2, <1>3, BorrowedKept, BorrowedSlots
<1>5. Private(t, dst[t]) /\ Private(t, Temp(t))
  BY <1>3, PrivateSlots
<1>6. StepOf(t) /\ NewInv' /\ Counting'
  BY <1>1, <1>2, <1>4, <1>5, ExchangeStep
<1>7. HandInv(t)'
  BY <1>2, SlotsStay DEF HandInv
<1>8. HeldBy(t, dst'[t]) /\ HeldBy(t, src'[t]) /\ NoSlot \notin Members
  BY <1>2, SlotKinds DEF HeldBy
<1>9. QED
  BY <1>2, <1>6, <1>7, <1>8, Assemble

LEMMA MoveAssignStep ==
  ASSUME IInv, NEW t \in Threads, Ready(t, "idle"),
         NEW d \in Usable(t), NEW s \in Usable(t), MoveAssign(t, d, s)
  PROVE  IInv'
<1>1. /\ pc[t] = "idle" /\ ptr[Temp(t)] = Null /\ dst[t] = NoSlot /\ src[t] = NoSlot
      /\ {d, s} \subseteq Slots \ Borrowed /\ d /= Temp(t) /\ s /= Temp(t)
      /\ Private(t, d) /\ Private(t, s)
  BY AtRest
<1>2. Exchange(d, s) /\ UNCHANGED <<cnt, status, pc, dst, src, dying>>
  BY DEF MoveAssign
<1>3. /\ Typed' /\ OthersRest(t) /\ pc'[t] = "idle"
      /\ dst'[t] = NoSlot /\ src'[t] = NoSlot
  BY <1>1, <1>2, SlotsStay DEF IInv, TypeOK, Typed, OthersRest
<1>4. Borrowed' = Borrowed
  BY <1>1, <1>3, BorrowedKept
<1>5. /\ StepOf(t) /\ NewInv' /\ Counting'
      /\ \A r \in Slots :
           ptr'[r] = IF r = s THEN ptr[d] ELSE IF r = d THEN ptr[s] ELSE ptr[r]
  BY <1>1, <1>2, <1>3, <1>4, ExchangeStep
<1>6. ptr'[Temp(t)] = Null
  BY <1>1, <1>5, SlotKinds
<1>7. HandInv(t)'
  BY <1>3, <1>6, SlotsStay DEF HandInv
<1>8. HeldBy(t, dst'[t]) /\ HeldBy(t, src'[t]) /\ NoSlot \notin Members
  BY <1>3, SlotKinds DEF HeldBy
<1>9. QED
  BY <1>3, <1>5, <1>7, <1>8, Assemble

LEMMA TakeStep ==
  ASSUME IInv, NEW t \in Threads, Take(t)
  PROVE  IInv'
<1>1. /\ pc[t] = "take" /\ Finish(t) /\ UNCHANGED <<cnt, status, dying>>
      /\ ptr' = [ptr EXCEPT ![dst[t]] = ptr[src[t]], ![src[t]] = Null]
  BY DEF Take, Ready
<1>2. /\ Typed' /\ OthersRest(t) /\ pc'[t] = "idle"
      /\ dst'[t] = NoSlot /\ src'[t] = NoSlot
  BY <1>1, FinishStep
<1>3. /\ dst[t] \in Slots /\ src[t] \in Slots /\ src[t] /= dst[t]
      /\ ptr[dst[t]] = Null /\ ptr[Temp(t)] = Null
  BY <1>1, SlotKinds DEF IInv, HandInv
<1>4. Temp(t) \notin {dst[t], src[t]} /\ Temp(t) \in Slots
  BY SlotKinds DEF IInv, PrivateInv
<1>5. Private(t, dst[t]) /\ Private(t, src[t])
  BY <1>3, PrivateSlots
<1>6. Borrowed' = Borrowed /\ {dst[t], src[t]} \subseteq Slots \ Borrowed
  BY <1>1, <1>2, <1>3, <1>4, <1>5, BorrowedKept, PrivateOwned
<1>7. Exchange(dst[t], src[t])
  BY <1>1, <1>3 DEF Exchange
<1>8. /\ StepOf(t) /\ NewInv' /\ Counting'
      /\ \A r \in Slots :
           ptr'[r] = IF r = src[t] THEN ptr[dst[t]]
                     ELSE IF r = dst[t] THEN ptr[src[t]] ELSE ptr[r]
  BY <1>1, <1>2, <1>5, <1>6, <1>7, ExchangeStep
<1>9. ptr'[Temp(t)] = Null
  BY <1>3, <1>4, <1>8
<1>10. HandInv(t)'
  BY <1>2, <1>9, SlotsStay DEF HandInv
<1>11. HeldBy(t, dst'[t]) /\ HeldBy(t, src'[t]) /\ NoSlot \notin Members
  BY <1>2, SlotKinds DEF HeldBy
<1>12. QED
  BY <1>2, <1>8, <1>10, <1>11, Assemble

LEMMA HolderReadStep ==
  ASSUME IInv, NEW t \in Threads, HolderRead(t)
  PROVE  IInv'
<1> DEFINE x == ptr[src[t]]
<1>1. /\ pc[t] = "read" /\ ptr' = [ptr EXCEPT ![dst[t]] = x]
      /\ UNCHANGED <<cnt, status, dying>>
      /\ x = Null => Finish(t)
      /\ x /= Null => pc' = [pc EXCEPT ![t] = "retain"] /\ UNCHANGED <<dst, src>>
  BY DEF HolderRead, Ready
<1>2. /\ dst[t] \in Slots /\ src[t] \in Slots /\ src[t] /= dst[t]
      /\ src[t] \in Variables /\ ptr[dst[t]] = Null /\ ptr[Temp(t)] = Null
  BY <1>1, SlotKinds DEF IInv, HandInv
<1>3. Temp(t) \notin {dst[t], src[t]} /\ Temp(t) \in Slots
  BY SlotKinds DEF IInv, PrivateInv
<1>4. Private(t, dst[t]) /\ Private(t, src[t])
  BY <1>2, PrivateSlots
<1>5. {dst[t], src[t]} \subseteq Slots \ Borrowed
  BY <1>1, <1>2, <1>4, PrivateOwned
<1>6. StateOK /\ CountExact /\ Positive /\ Nested
  BY InvParts
<1>7. \A r \in Slots : ptr'[r] = IF r = dst[t] THEN x ELSE ptr[r]
  BY <1>1, <1>6 DEF StateOK
<1>8. /\ Typed' /\ OthersRest(t)
      /\ x = Null => pc'[t] = "idle" /\ dst'[t] = NoSlot /\ src'[t] = NoSlot
      /\ x /= Null => pc'[t] = "retain" /\ dst'[t] = dst[t] /\ src'[t] = src[t]
  <2>1. CASE x = Null
    BY <1>1, <2>1, FinishStep
  <2>2. CASE x /= Null
    BY <1>1, <2>2, SlotsStay DEF IInv, TypeOK, Typed, OthersRest, Labels
  <2>3. QED
    BY <2>1, <2>2
<1>9. Borrowed' = IF x = Null THEN Borrowed ELSE Borrowed \cup {dst[t]}
  BY <1>1, <1>8, SlotsStay DEF Borrowed, OthersRest
<1>10. \A y \in Objects : Owners(y)' = Owners(y)
  BY <1>2, <1>5, <1>7, <1>9, OwnersNext, NullAssumption DEF Owners
<1>11. StateOK'
  BY <1>1, <1>2, <1>6, SlotsStay DEF StateOK
<1>12. Counting'
  BY <1>1, <1>6, <1>10, <1>11 DEF Counting, CountExact, Positive, Nested, Exists
<1>13. StepOf(t)
  BY <1>1, <1>4, <1>7, <1>8 DEF StepOf, OthersRest, IInv, HandInv
<1>14. \A u \in Threads : pc[u] = "new" => src[t] /= Temp(u)
  BY <1>2, SlotKinds
<1>15. x /= Null => status[x] /= "counter"
  BY <1>2, <1>14, MadeObject
<1>16. TypeOK'
  BY <1>8, <1>11 DEF TypeOK, Typed, StateOK
<1>17. NewInv'
  <2>1. \A u \in Threads : pc[u] = "new" => pc'[u] = "new"
    BY <1>1, <1>8 DEF OthersRest
  <2>2. \A s \in Slots : ptr'[s] /= Null /\ status[ptr'[s]] = "counter" => ptr'[s] = ptr[s]
    BY <1>7, <1>15
  <2>3. QED
    BY <1>1, <1>16, <2>1, <2>2, NewKept
<1>18. HandInv(t)'
  <2>1. ptr'[Temp(t)] = Null /\ ptr'[dst[t]] = x /\ ptr'[src[t]] = x
    BY <1>2, <1>3, <1>7
  <2>2. QED
    BY <1>2, <1>8, <2>1, SlotsStay DEF HandInv
<1>19. HeldBy(t, dst'[t]) /\ HeldBy(t, src'[t])
  <2>1. CASE x = Null
    BY <1>8, <2>1 DEF HeldBy
  <2>2. CASE x /= Null
    BY <1>8, <2>2, HandsHeld
  <2>3. QED
    BY <2>1, <2>2
<1>20. \A l \in Locals(t) :
         ptr'[l] = ptr[l] \/ (dst'[t] \notin Members /\ src'[t] \notin Members)
  <2>1. src[t] \notin Members /\ NoSlot \notin Members
    BY <1>2, SlotKinds
  <2>2. \A l \in Locals(t) : l = dst[t] => dst[t] \notin Members
    BY SlotKinds
  <2>3. QED
    BY <1>7, <1>8, <2>1, <2>2, SlotKinds
<1>21. QED
  BY <1>8, <1>12, <1>13, <1>17, <1>18, <1>19, <1>20, Assemble

LEMMA HolderRetainStep ==
  ASSUME IInv, NEW t \in Threads, HolderRetain(t)
  PROVE  IInv'
<1>1. /\ pc[t] = "retain" /\ Finish(t) /\ UNCHANGED <<ptr, status, dying>>
      /\ cnt' = [cnt EXCEPT ![ptr[dst[t]]] = @ + 1]
  BY DEF HolderRetain, Ready
<1>2. /\ Typed' /\ OthersRest(t) /\ pc'[t] = "idle"
      /\ dst'[t] = NoSlot /\ src'[t] = NoSlot
  BY <1>1, FinishStep
<1>3. dst[t] \in Borrowed /\ dst[t] \in Slots /\ ptr[dst[t]] /= Null /\ ptr[Temp(t)] = Null
  BY <1>1, BorrowedSlots DEF IInv, HandInv
<1>4. ASSUME NEW u \in Threads \ {t}
      PROVE  dst[t] /= dst[u]
  <2>1. {dst[t], src[t]} \cap {dst[u], src[u]} \subseteq {NoSlot}
    BY DEF IInv, PrivateInv
  <2>2. dst[t] /= NoSlot
    BY <1>3, SlotKinds
  <2>3. QED
    BY <2>1, <2>2
<1>5. \A u \in Threads : dst[t] /= Temp(u)
  BY SlotKinds DEF IInv, PrivateInv
<1>6. Borrowed' = Borrowed \ {dst[t]}
  BY <1>1, <1>2, <1>4, <1>5, SlotsStay DEF Borrowed, OthersRest
<1>7. Counting'
  BY <1>1, <1>3, <1>6, Retains
<1>8. StepOf(t) /\ NewInv'
  BY <1>1, <1>2, StillStep
<1>9. HandInv(t)'
  BY <1>1, <1>2, <1>3, SlotsStay DEF HandInv
<1>10. HeldBy(t, dst'[t]) /\ HeldBy(t, src'[t])
  BY <1>2 DEF HeldBy
<1>11. QED
  BY <1>1, <1>2, <1>7, <1>8, <1>9, <1>10, Assemble

--------------------------------------------------------------------------------
(* The theorems.                                                           *)

LEMMA InitIInv == Init => IInv
<1> SUFFICES ASSUME Init
             PROVE  IInv
  OBVIOUS
<1> USE DEF Init
<1>1. TypeOK
  <2>1. Null \in Objects \cup {Null} /\ NoSlot \in Slots \cup {NoSlot} /\ "idle" \in Labels
    BY DEF Labels
  <2>2. <<>> \in Seq(Objects)
    OBVIOUS
  <2>3. QED
    BY <2>1, <2>2 DEF TypeOK
<1>2. \A s \in Slots : ptr[s] = Null
  OBVIOUS
<1>3. \A t \in Threads : HandInv(t)
  BY <1>2, SlotKinds DEF HandInv
<1>4. PrivateInv
  BY SlotKinds DEF PrivateInv
<1>5. NewInv
  BY <1>2 DEF NewInv
<1>6. ASSUME NEW o \in Objects
      PROVE  cnt[o] = Cardinality(Owners(o))
  <2>1. Owners(o) = {}
    BY <1>2, NullAssumption DEF Owners
  <2>2. QED
    BY <2>1, FS_EmptySet
<1>7. \A o \in Objects : cnt[o] > 0 <=> Exists(o)
  BY DEF Exists
<1>8. Nested
  BY DEF Nested
<1>9. QED
  BY <1>1, <1>3, <1>4, <1>5, <1>6, <1>7, <1>8 DEF IInv, CountExact

LEMMA Stutter ==
  ASSUME IInv, UNCHANGED vars
  PROVE  IInv'
<1>1. UNCHANGED <<ptr, cnt, status, pc, dst, src, dying>>
  BY DEF vars
<1>2. Borrowed' = Borrowed
  BY <1>1 DEF Borrowed, Temp
<1>3. \A o \in Objects : Owners(o)' = Owners(o)
  BY <1>1, <1>2, OwnersNext DEF Owners
<1>4. TypeOK' /\ NewInv' /\ PrivateInv' /\ Nested'
  BY <1>1, SlotsStay DEF IInv, TypeOK, NewInv, PrivateInv, Nested, Member
<1>5. \A t \in Threads : HandInv(t)'
  BY <1>1, SlotsStay DEF IInv, HandInv
<1>6. CountExact' /\ \A o \in Objects : cnt'[o] > 0 <=> Exists(o)'
  BY <1>1, <1>3 DEF IInv, CountExact, Exists
<1>7. QED
  BY <1>4, <1>5, <1>6 DEF IInv

LEMMA StepIInv ==
  ASSUME IInv, [Next]_vars
  PROVE  IInv'
<1>1. CASE UNCHANGED vars
  BY <1>1, Stutter
<1>2. ASSUME NEW t \in Threads, Assigning(t)
      PROVE  IInv'
  <2>1. Ready(t, "idle")
    BY <1>2 DEF Assigning
  <2>2. PICK d \in Usable(t), s \in Usable(t) :
          \/ MakeCounter(t, d) \/ Destroy(t, d)
          \/ CopyAssign(t, d, s) \/ MoveAssign(t, d, s) \/ ChildMoveAssign(t, d, s)
          \/ HolderAssign(t, d, s)
    BY <1>2 DEF Assigning
  <2>3. CASE MakeCounter(t, d)
    BY <2>1, <2>3, MakeCounterStep
  <2>4. CASE Destroy(t, d)
    BY <2>1, <2>4, DestroyStep
  <2>5. CASE CopyAssign(t, d, s)
    BY <2>1, <2>5, CopyAssignStep
  <2>6. CASE MoveAssign(t, d, s)
    BY <2>1, <2>6, MoveAssignStep
  <2>7. CASE ChildMoveAssign(t, d, s)
    BY <2>1, <2>7, DropFirstStep DEF ChildMoveAssign
  <2>8. CASE HolderAssign(t, d, s)
    BY <2>1, <2>8, DropFirstStep DEF HolderAssign
  <2>9. QED
    BY <2>2, <2>3, <2>4, <2>5, <2>6, <2>7, <2>8
<1>3. ASSUME NEW t \in Threads, Continue(t)
      PROVE  IInv'
  BY <1>3, MakeObjectStep, CountStep, SwapTempStep, DropTempStep, TakeStep,
     HolderReadStep, HolderRetainStep, DropMemberStep, FreeObjectStep DEF Continue
<1>4. QED
  BY <1>1, <1>2, <1>3 DEF Next

\* The inductive invariant: what every thread has in hand, that no two work on
\* one slot, and that every count is the number of counted pointers
\* (shared_ptr.hpp:294-356, refholder.hpp:26-87).
THEOREM Inductive == Spec => []IInv
<1>1. Init => IInv
  BY InitIInv
<1>2. IInv /\ [Next]_vars => IInv'
  BY StepIInv
<1>3. QED
  BY <1>1, <1>2, PTL DEF Spec

\* However many threads copy, move, assign and drop pointers to however many
\* objects, a count is at every step the number of pointers that it counts
\* (the interlocked operations of shared_ptr.hpp:294-305).
THEOREM CountsExact == Spec => []CountExact
<1>1. IInv => CountExact
  BY DEF IInv
<1>2. QED
  BY <1>1, Inductive, PTL

\* No pointer outlives its object, not even one that has been copied and is
\* about to be counted (shared_ptr.hpp:303-304 against 295-297).
THEOREM NeverDangling == Spec => []NoDangling
<1>1. IInv => NoDangling
  BY NothingDangles
<1>2. QED
  BY <1>1, Inductive, PTL

\* Nothing leaks: the last pointer to an object takes the object with it, and
\* so does a make_shared that fails half way (shared_ptr.hpp:294-299, 401-416).
THEOREM NothingLeaks == Spec => []UnheldIsFreed
<1>1. ASSUME IInv
      PROVE  UnheldIsFreed
  <2>1. SUFFICES ASSUME NEW o \in Objects, Exists(o)
                 PROVE  \E s \in Slots : ptr[s] = o
    BY DEF UnheldIsFreed
  <2>2. cnt[o] = Cardinality(Owners(o)) /\ cnt[o] > 0
    BY <1>1, <2>1 DEF IInv, CountExact
  <2>3. Owners(o) /= {}
    BY <2>2, FS_EmptySet
  <2>4. QED
    BY <2>3 DEF Owners
<1>2. IInv => UnheldIsFreed
  BY <1>1
<1>3. QED
  BY <1>2, Inductive, PTL

\* Deletions nest: each dying object is being deleted by one thread, once
\* (the test of the decremented count in shared_ptr.hpp:296-297).
THEOREM DeletedByOne == Spec => []Nested
<1>1. IInv => Nested
  BY DEF IInv
<1>2. QED
  BY <1>1, Inductive, PTL

\* A pointer that is let go pointed to an object in existence, which it may
\* send dying; every other object stays as it is.
LEMMA LetGoTurns ==
  ASSUME IInv, NEW t \in Threads, NEW s \in Slots \ Borrowed, LetGo(t, s),
         NEW o \in Objects, status'[o] /= status[o]
  PROVE  Exists(o) /\ o = ptr[s] /\ status'[o] = "dying"
<1>1. ptr[s] \in Objects \cup {Null} /\ status \in [Objects -> {"none", "counter", "live", "dying", "freed"}]
  BY DEF IInv, TypeOK
<1>2. ptr[s] /= Null
  BY DEF LetGo
<1>3. status' = [status EXCEPT ![ptr[s]] = "dying"]
  BY <1>2 DEF LetGo
<1>4. o = ptr[s] /\ status'[o] = "dying"
  BY <1>1, <1>2, <1>3
<1>5. QED
  BY <1>2, <1>4, OwnedExists

\* Where a step may take the status of an object.
Turns(o) ==
  \/ status[o] = "none" /\ status'[o] = "counter"
  \/ status[o] = "counter" /\ status'[o] \in {"live", "freed"}
  \/ status[o] = "live" /\ status'[o] = "dying"
  \/ status[o] = "dying" /\ status'[o] = "freed"

LEMMA LetGoLive ==
  ASSUME IInv, NEW t \in Threads, NEW s \in Slots \ Borrowed, LetGo(t, s),
         \A u \in Threads : pc[u] = "new" => s /= Temp(u),
         NEW o \in Objects, status'[o] /= status[o]
  PROVE  Turns(o)
<1>1. Exists(o) /\ o = ptr[s] /\ status'[o] = "dying"
  BY LetGoTurns
<1>2. status[o] /= "counter"
  BY <1>1, NullAssumption, MadeObject
<1>3. QED
  BY <1>1, <1>2 DEF Exists, Turns

LEMMA StatusTurns ==
  ASSUME IInv, Next, NEW o \in Objects, status'[o] /= status[o]
  PROVE  Turns(o)
<1>1. status \in [Objects -> {"none", "counter", "live", "dying", "freed"}]
  BY DEF IInv, TypeOK
<1>2. ASSUME NEW t \in Threads, Assigning(t)
      PROVE  Turns(o)
  <2>1. Ready(t, "idle")
    BY <1>2 DEF Assigning
  <2>2. PICK d \in Usable(t), s \in Usable(t) :
          \/ MakeCounter(t, d) \/ Destroy(t, d)
          \/ CopyAssign(t, d, s) \/ MoveAssign(t, d, s) \/ ChildMoveAssign(t, d, s)
          \/ HolderAssign(t, d, s)
    BY <1>2 DEF Assigning
  <2>3. CASE MakeCounter(t, d)
    BY <1>1, <2>3 DEF MakeCounter, Turns
  <2>4. CASE LetGo(t, d)
    <3>1. d \in Slots \ Borrowed /\ Private(t, d) /\ d /= Temp(t)
      BY <2>1, AtRest
    <3>2. \A u \in Threads : pc[u] = "new" => d /= Temp(u)
      BY <3>1 DEF Private
    <3>3. QED
      BY <2>4, <3>1, <3>2, LetGoLive
  <2>5. CASE UNCHANGED status
    BY <2>5
  <2>6. QED
    BY <2>2, <2>3, <2>4, <2>5 DEF Destroy, CopyAssign, MoveAssign, ChildMoveAssign,
       HolderAssign
<1>3. ASSUME NEW t \in Threads, Continue(t)
      PROVE  Turns(o)
  <2>1. CASE MakeObject(t)
    <3>1. pc[t] = "new"
      BY <2>1 DEF MakeObject, Ready
    <3>2. status[ptr[Temp(t)]] = "counter"
      BY <3>1 DEF IInv, HandInv
    <3>3. QED
      BY <1>1, <2>1, <3>2 DEF MakeObject, Turns
  <2>2. CASE DropTemp(t)
    <3>1. pc[t] = "drop" /\ LetGo(t, Temp(t))
      BY <2>2 DEF DropTemp, Ready
    <3>2. Temp(t) \in Slots \ Borrowed
      BY <3>1, BorrowedSlots, SlotKinds
    <3>3. \A u \in Threads : pc[u] = "new" => Temp(t) /= Temp(u)
      BY <3>1, SlotKinds
    <3>4. QED
      BY <3>1, <3>2, <3>3, LetGoLive
  <2>3. CASE DropMember(t)
    <3>1. Innermost(t) \in Objects /\ status[Innermost(t)] = "dying"
          /\ LetGo(t, Member(Innermost(t)))
      BY <2>3, InnermostDying DEF DropMember
    <3>2. Member(Innermost(t)) \in Members /\ Member(Innermost(t)) \in Slots
          /\ Private(t, Member(Innermost(t)))
      BY <3>1, SlotKinds, PrivateSlots
    <3>3. Member(Innermost(t)) \notin Borrowed
      <4>1. Member(Innermost(t)) /= Temp(t)
        BY <3>2, SlotKinds
      <4>2. pc[t] = "retain" => Member(Innermost(t)) /= dst[t]
        BY <3>1, NothingDangles DEF NoDangling
      <4>3. QED
        BY <3>2, <4>1, <4>2, PrivateOwned
    <3>4. \A u \in Threads : pc[u] = "new" => Member(Innermost(t)) /= Temp(u)
      BY <3>2, SlotKinds
    <3>5. QED
      BY <3>1, <3>2, <3>3, <3>4, LetGoLive
  <2>4. CASE FreeObject(t)
    <3>1. status[Innermost(t)] = "dying"
      BY <2>4, InnermostDying DEF FreeObject
    <3>2. QED
      BY <1>1, <2>4, <3>1 DEF FreeObject, Turns
  <2>5. CASE UNCHANGED status
    BY <2>5
  <2>6. QED
    BY <1>3, <2>1, <2>2, <2>3, <2>4, <2>5
       DEF Continue, Count, SwapTemp, Take, HolderRead, HolderRetain
<1>4. QED
  BY <1>2, <1>3 DEF Next

\* An object goes through its life once, and dies only when no counted pointer
\* to it is left, whoever else was copying one (shared_ptr.hpp:294-299).
THEOREM LivesOnce == Spec => Lifecycle
<1> DEFINE Step == \A o \in Objects : status'[o] /= status[o] =>
             \/ status[o] = "none" /\ status'[o] = "counter"
             \/ status[o] = "counter" /\ status'[o] \in {"live", "freed"}
             \/ status[o] = "live" /\ status'[o] = "dying" /\ Owners(o)' = {}
             \/ status[o] = "dying" /\ status'[o] = "freed"
<1>1. ASSUME IInv, [Next]_vars
      PROVE  [Step]_vars
  <2>1. CASE UNCHANGED vars
    BY <2>1
  <2>2. CASE Next
    <3>1. SUFFICES ASSUME NEW o \in Objects, status'[o] /= status[o]
                   PROVE  /\ Turns(o)
                          /\ status'[o] = "dying" => Owners(o)' = {}
      BY DEF Turns
    <3>2. Turns(o)
      BY <1>1, <2>2, <3>1, StatusTurns
    <3>3. status'[o] = "dying" => Owners(o)' = {}
      <4>1. SUFFICES ASSUME status'[o] = "dying"
                     PROVE  Owners(o)' = {}
        OBVIOUS
      <4>2. IInv'
        BY <1>1, StepIInv
      <4>3. ~ Exists(o)'
        BY <4>1 DEF Exists
      <4>4. cnt'[o] = Cardinality(Owners(o)') /\ ~ (cnt'[o] > 0) /\ cnt'[o] \in Nat
        BY <4>2, <4>3 DEF IInv, CountExact, TypeOK
      <4>5. IsFiniteSet(Owners(o)')
        BY SlotsFinite, FS_Subset, OwnersNext
      <4>6. QED
        BY <4>4, <4>5, FS_EmptySet
    <3>4. QED
      BY <3>2, <3>3
  <2>3. QED
    BY <1>1, <2>1, <2>2
<1>2. QED
  BY <1>1, Inductive, PTL DEF Lifecycle, Spec
================================================================================
