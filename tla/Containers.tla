------------------------------- MODULE Containers -------------------------------
(***************************************************************************)
(* The containers of skl, its functors and memory pools, and sl's Variant, *)
(* each checked on its own: unit says which of them a behaviour exercises. *)
(* They share no state, so the module only puts their runs together.       *)
(***************************************************************************)
EXTENDS Integers, FiniteSets, SequencesExt, TLC

CONSTANTS
  Lists, Stacks, Links, Holders,             \* LinkedList
  Vecs, Vals, RAW, DEF_RESERVE, STEP, MaxCap, \* Vector
  Maps, Sets, Plain, Keys, Memory, Items, Handles, \* AvlTable
  Strings, Texts, Words, MaxCalls, UShortBits, HashBits, \* String
  Variants, Types, SizeOf, MaxTypes,           \* Variant
  Functors, MaxMoves,                          \* Functor
  Blocks, PoolTypes, PoolSizes,                \* LookAside
  NULL

\* Heads and items of lists are different addresses.
ASSUME HeadsAssumption ==
  Lists \cap Stacks = {} /\ (Lists \cup Stacks) \cap Links = {} /\ IsFiniteSet(Holders)
\* Capacities are positive, and raw memory is no element.
ASSUME VectorAssumption ==
  /\ RAW \notin Vals /\ {DEF_RESERVE, STEP, MaxCap} \subseteq Nat \ {0} /\ DEF_RESERVE <= MaxCap
  /\ IsFiniteSet(Vecs)
\* Keys are ordered, and a number in a node is told from an item.
ASSUME TablesAssumption ==
  /\ Maps \cap Sets = {} /\ (Maps \cup Sets) \cap Plain = {}
  /\ Keys \subseteq Nat /\ Items \cap Keys = {}
  /\ IsFiniteSet(Maps \cup Sets \cup Plain) /\ IsFiniteSet(Keys) /\ IsFiniteSet(Handles)
\* Texts are C strings of ASCII, without the zero that ends them; a length
\* counts bytes, so that a USHORT of one letter has two bits or more.
ASSUME StringsAssumption ==
  /\ Texts \cup Words \subseteq Seq(1..127) /\ NULL \notin Seq(0..127)
  /\ UShortBits \in Nat \ {0, 1} /\ HashBits \in Nat /\ MaxCalls \in Nat
\* A variant without a value has no type.
ASSUME VariantsAssumption ==
  "void" \notin Types /\ SizeOf \in [Types -> Nat] /\ MaxTypes \in Nat /\ IsFiniteSet(Variants)
\* A functor that is not there refers to no memory.
ASSUME FunctorsAssumption == "none" \notin Memory \cup {NULL} /\ IsFiniteSet(Functors)
\* The lists of a pool are those of types and of sizes.
ASSUME PoolsAssumption == PoolTypes \in Seq(Types) /\ PoolSizes \in Seq(Nat)
\* The null pointer is nothing else.
ASSUME NullAssumption ==
  /\ NULL \notin Lists \cup Stacks \cup Links \cup Types
  /\ NULL \notin Maps \cup Sets \cup Keys \cup Memory \cup Items

VARIABLES
  unit,
  flink, blink, refs, taken, walker, order, due, met, strayed,
  vec, live, blocks, crashed, seq,
  node, cell, pool, key, count, held, erasing, it, fault, must, seen, gone, reused,
  str, val, lost, over, made,
  index, data, objects, wild, torn,
  param, pn, moves, dead,
  sort, block

L == INSTANCE LinkedList WITH
       Items <- Links, count <- refs, held <- taken, it <- walker, seq <- order,
       must <- due, seen <- met
V == INSTANCE Vector
T == INSTANCE AvlTable
S == INSTANCE String
W == INSTANCE Variant
F == INSTANCE Functor
P == INSTANCE LookAside

Init ==
  /\ unit \in {"list", "vector", "table", "string", "variant", "functor", "pool"}
  /\ L!Init /\ V!Init /\ T!Init /\ S!Init /\ W!Init /\ F!Init /\ P!Init
  /\ unit # "pool" => sort = "size"

lists == <<flink, blink, refs, taken, walker, order, due, met, strayed>>
vectors == <<vec, live, blocks, crashed, seq>>
tables == <<node, cell, pool, key, count, held, erasing, it, fault, must, seen, gone, reused>>
strings == <<str, val, lost, over, made>>
variants == <<index, data, objects, wild, torn>>
functors == <<param, pn, moves, dead>>
pools == <<sort, block>>
others == <<strings, variants, functors, pools>>

Next ==
  /\ UNCHANGED unit
  /\ \/ unit = "list" /\ L!Next /\ UNCHANGED <<vectors, tables, others>>
     \/ unit = "vector" /\ V!Next /\ UNCHANGED <<lists, tables, others>>
     \/ unit = "table" /\ T!Next /\ UNCHANGED <<lists, vectors, others>>
     \/ unit = "string" /\ S!Next /\ UNCHANGED <<lists, vectors, tables, variants, functors, pools>>
     \/ unit = "variant" /\ W!Next /\ UNCHANGED <<lists, vectors, tables, strings, functors, pools>>
     \/ unit = "functor" /\ F!Next /\ UNCHANGED <<lists, vectors, tables, strings, variants, pools>>
     \/ unit = "pool" /\ P!Next /\ UNCHANGED <<lists, vectors, tables, strings, variants, functors>>

Spec == Init /\ [][Next]_<<unit, lists, vectors, tables, others>>

\* Texts of 0, 1, 3 and 5 letters, in both cases, and the longest one that has
\* room for its zero (7), and one more.
SomeTexts ==
  {<<>>, <<97>>, <<65, 97, 98>>, <<97, 98, 97, 98, 98>>} \cup {[k \in 1..n |-> 97] : n \in {7, 8}}
SomeWords == {<<>>, <<97>>, <<97, 98>>, <<98, 65>>}

\* Sizes of two alternatives, and two types that share a list by size.
Sizes == [t \in Types |-> IF t = CHOOSE u \in Types : TRUE THEN 2 ELSE 1]
TypeList == SetToSeq(Types)
SizeList == <<1, 2>>

\* Links, memory, items and strings are interchangeable.
Symmetry ==
  UNION {Permutations(set) : set \in {Links, Memory, Items, Strings}}

-----------------------------------------------------------------------------
(* The properties of the components, where they are explained              *)

\* Every item is counted exactly and lives as long as it is reachable, and the
\* links of every list are its sequence of items, both ways (list, stack).
ListRight == unit = "list" => L!CountsExact /\ L!LinksRight
\* An iteration visits everything that stays there (list::iterator, map::iterator).
IterationsComplete ==
  /\ unit = "list" => L!IterationComplete
  /\ unit = "table" => T!WalkComplete
\* A vector holds what was put there, inside its block; its elements are
\* constructed and destroyed in pairs, and no block is lost, until a range is
\* inserted behind the end or a vector appended to itself (vector).
VectorRight == unit = "vector" => V!VectorRight /\ V!CopiesExact
\* Items of maps and sets are counted exactly unless clear() read a reused node (map, set).
TableCounts == unit = "table" => T!TableCounts
\* A string holds the text it was given, inside its block, unless memory or a
\* USHORT ran out (string).
TextsKept == unit = "string" => S!TextsKept
\* repalce() replaces every match but one that ends the text, and fills exactly
\* the block whose size it computed (string::repalce).
RepalceRight == unit = "string" => S!RepalceRight
\* The searches and comparisons of strings agree with each other, but for
\* rfind() at the start (string::find, rfind, compare); and a variant finds its
\* types where they are in the list of its alternatives (Index, IndexType).
SearchRight ==
  /\ unit = "string" => S!SearchRight
  /\ unit = "variant" => W!HelpersRight
\* Every object is destroyed once and as what it is, unless an assignment was
\* torn (Variant); a function goes with its last functor, unless it was moved by
\* the constructor (just_a_call); and an object lies in memory of its size
\* (LookAsidePool, LookAsideSizePool).
ObjectsRight ==
  /\ unit = "variant" => W!LivesRight
  /\ unit = "functor" => F!FunctorRight
  /\ unit = "pool" => P!PoolRight
================================================================================
