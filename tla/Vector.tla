--------------------------------- MODULE Vector ---------------------------------
(***************************************************************************)
(* skl::vector (skl/vector.hpp): a block of raw memory in which elements   *)
(* are constructed in place, moved by copying their bytes, and destroyed   *)
(* one by one.  ExAllocatePoolWithTag may fail whenever it is called.      *)
(*                                                                         *)
(* An element is a value; live counts the objects of a value that have     *)
(* been constructed and not destroyed.  Bytes whose object is gone or has  *)
(* been moved are RAW.  Positions count from 0 as in the code.             *)
(*                                                                         *)
(* Two calls write through memory that is not theirs until the machine     *)
(* stops: a range inserted behind the end, and a vector appended to        *)
(* itself.  A behaviour ends there, and nothing is said of what is left.   *)
(***************************************************************************)
EXTENDS Integers, Sequences, SequencesExt, FiniteSets

CONSTANTS
  Vecs, Vals,    \* the variables of type vector, and the values of elements
  RAW,           \* memory without an element
  DEF_RESERVE,   \* Def_Reserve
  STEP,          \* 1024: blocks beyond it grow by as much, others double
  MaxCap         \* bound: larger allocations always fail

VARIABLES
  vec,     \* each vector: has it been constructed, has it a block, the block, _size
  live,    \* constructed objects of each value
  blocks,  \* blocks that are allocated
  crashed, \* a copy has left the blocks of its vector
  seq      \* ghost: the sequence each vector should hold

vars == <<vec, live, blocks, crashed, seq>>

Dead == [on |-> FALSE, has |-> FALSE, mem |-> <<>>, size |-> 0]
Empty == [Dead EXCEPT !.on = TRUE]
Cap(v) == Len(v.mem)
Prefix(v) == SubSeq(v.mem, 1, v.size)
Has(v) == IF v.has THEN 1 ELSE 0

Init ==
  /\ vec = [x \in Vecs |-> Dead] /\ seq = [x \in Vecs |-> <<>>]
  /\ live = [e \in Vals |-> 0] /\ blocks = 0 /\ crashed = FALSE

-----------------------------------------------------------------------------
(* Memory                                                                  *)

Raw(n) == [k \in 1..n |-> RAW]
Grow(c) == IF c = 0 THEN DEF_RESERVE ELSE IF c > STEP THEN c + STEP ELSE 2 * c
Bigger(a, b) == IF a > b THEN a ELSE b

\* A block of n with the elements es constructed or moved there.
Block(es, n) == es \o Raw(n - Len(es))
Fits(n) == n <= MaxCap

\* Opens a gap of k elements at pos, in a block of n.
Gap_Bug(v, pos, k, n) == Block(Prefix(v), n)
Gap(v, pos, k, n) ==
  Block(SubSeq(v.mem, 1, pos) \o Raw(k) \o SubSeq(v.mem, pos + 1, v.size), n)

Occurrences(e, es) == Cardinality({k \in DOMAIN es : es[k] = e})
Construct(es) == live' = [e \in Vals |-> live[e] + Occurrences(e, es)]
Destroy(es) == live' = [e \in Vals |-> live[e] - Occurrences(e, es)]

Becomes(x, v, s) ==
  vec' = [vec EXCEPT ![x] = v] /\ seq' = [seq EXCEPT ![x] = s] /\ UNCHANGED crashed

\* The call has its block of n, and copies what is not there.
Overruns(n) == Fits(n) /\ crashed' = TRUE /\ UNCHANGED <<vec, live, blocks, seq>>

\* es are constructed at pos in a block of n: in place if that is the block
\* there is, in a new one otherwise.
Place(x, pos, es, n) ==
  LET v == vec[x] IN
  /\ Fits(n)
  /\ Becomes(x, [v EXCEPT !.has = @ \/ n > Cap(v), !.size = @ + Len(es),
                          !.mem = [k \in 1..n |-> IF k - pos \in DOMAIN es THEN es[k - pos]
                                                  ELSE Gap(v, pos, Len(es), n)[k]]],
             SubSeq(seq[x], 1, pos) \o es \o SubSeq(seq[x], pos + 1, Len(seq[x])))
  /\ Construct(es)
  /\ blocks' = IF v.has \/ n = Cap(v) THEN blocks ELSE blocks + 1

-----------------------------------------------------------------------------
(* Construction and destruction                                            *)

\* If the allocation fails, the vector is there and has no block.
New(x, n) ==
  /\ ~vec[x].on
  /\ \/ Becomes(x, Empty, <<>>) /\ UNCHANGED <<live, blocks>>
     \/ /\ Fits(n)
        /\ Becomes(x, [Empty EXCEPT !.has = TRUE, !.mem = Raw(n)], <<>>)
        /\ blocks' = blocks + 1 /\ UNCHANGED live

\* The copy of r that a constructor makes: with r's capacity, or nothing.
CopyOf(r) == [vec[r] EXCEPT !.mem = Block(Prefix(vec[r]), Cap(vec[r])), !.has = TRUE]

NewCopy(x, r) ==
  /\ ~vec[x].on /\ vec[r].on
  /\ \/ Becomes(x, Empty, <<>>) /\ UNCHANGED <<live, blocks>>
     \/ /\ Becomes(x, CopyOf(r), seq[r])
        /\ Construct(Prefix(vec[r]))
        /\ blocks' = blocks + 1

NewMove(x, r) ==
  /\ ~vec[x].on /\ vec[r].on
  /\ vec' = [vec EXCEPT ![x] = vec[r], ![r] = Empty]
  /\ seq' = [seq EXCEPT ![x] = seq[r], ![r] = <<>>]
  /\ UNCHANGED <<live, blocks, crashed>>

Delete(x) ==
  /\ vec[x].on
  /\ Destroy(Prefix(vec[x]))
  /\ blocks' = blocks - Has(vec[x])
  /\ Becomes(x, Dead, <<>>)

\* x = r: a copy is made and swapped in, and what x had is destroyed.  When
\* the copy gets no memory, x ends up empty.
Copy(x, r) ==
  /\ vec[x].on /\ vec[r].on
  /\ \/ /\ Becomes(x, Empty, <<>>)
        /\ Destroy(Prefix(vec[x]))
        /\ blocks' = blocks - Has(vec[x])
     \/ /\ Becomes(x, CopyOf(r), seq[r])
        /\ live' = [e \in Vals |-> live[e] + Occurrences(e, Prefix(vec[r]))
                                           - Occurrences(e, Prefix(vec[x]))]
        /\ blocks' = blocks + 1 - Has(vec[x])

\* swap, and x = move(r), which is a swap: what x had lives on in r.
Swap(x, r) ==
  /\ vec[x].on /\ vec[r].on
  /\ vec' = [vec EXCEPT ![x] = vec[r], ![r] = vec[x]]
  /\ seq' = [seq EXCEPT ![x] = seq[r], ![r] = seq[x]]
  /\ UNCHANGED <<live, blocks, crashed>>

-----------------------------------------------------------------------------
(* Elements.  A step that finds no memory changes nothing: it is no step.  *)

\* insert(pos, value); push_back(value) is the case pos = _size.
Insert(x, pos, e) ==
  LET v == vec[x] IN
  /\ v.on /\ pos <= v.size
  /\ Place(x, pos, <<e>>, IF v.size < Cap(v) THEN Cap(v) ELSE Grow(Cap(v)))

\* insert(pos, first, last), also of the constructor: as the grown capacity
\* is always larger, it always moves to a new block.  Nobody checks pos: behind
\* the end, _size - pos wraps, and as many elements are copied.
InsertRange(x, pos, es) ==
  LET v == vec[x]  n == Bigger(v.size + Len(es), Grow(Cap(v))) IN
  /\ v.on /\ es # <<>>
  /\ \/ pos <= v.size /\ Place(x, pos, es, n)
     \/ pos > v.size /\ Overruns(n)

Reserve(x, n) ==
  /\ vec[x].on /\ Cap(vec[x]) < n
  /\ Place(x, vec[x].size, <<>>, n)

\* The loop runs up to r's _size, which never comes when r is the vector itself.
AppendAll(x, r) ==
  LET v == vec[x]  es == Prefix(vec[r])  n == Bigger(Cap(v), v.size + Len(es)) IN
  /\ v.on /\ vec[r].on
  /\ \/ (x # r \/ es = <<>>) /\ Place(x, v.size, es, n)
     \/ x = r /\ es # <<>> /\ Overruns(n)

Erase(x, pos) ==
  LET v == vec[x] IN
  /\ v.on /\ pos < v.size
  /\ Becomes(x, [v EXCEPT !.mem = Block(RemoveAt(Prefix(v), pos + 1), Cap(v)), !.size = @ - 1],
             RemoveAt(seq[x], pos + 1))
  /\ Destroy(<<v.mem[pos + 1]>>)
  /\ UNCHANGED blocks

PopBack(x) == vec[x].size > 0 /\ Erase(x, vec[x].size - 1)

Clear(x) ==
  LET v == vec[x] IN
  /\ v.on
  /\ Becomes(x, [v EXCEPT !.mem = Raw(Cap(v)), !.size = 0], <<>>)
  /\ Destroy(Prefix(v))
  /\ UNCHANGED blocks

-----------------------------------------------------------------------------
(* Iterators: a position and a reference to the vector                     *)

\* Assigning an iterator on r to one on x exchanges the vectors themselves,
\* through three copies that may each get no memory.  The position goes with
\* it, and is checked by nobody.
AssignIterator(x, r) ==
  /\ vec[x].on /\ vec[r].on
  /\ \E a \in {CopyOf(r), Empty, [Empty EXCEPT !.has = TRUE]}, b \in {CopyOf(x), Empty} :
       /\ vec' = [vec EXCEPT ![r] = b, ![x] = a]
       /\ seq' = [seq EXCEPT ![r] = IF b = Empty THEN <<>> ELSE seq[x],
                             ![x] = IF a = CopyOf(r) THEN seq[r] ELSE <<>>]
  /\ LET gain(y, e) == Occurrences(e, Prefix(vec'[y])) - Occurrences(e, Prefix(vec[y]))
         more(y) == Has(vec'[y]) - Has(vec[y])
     IN
     /\ live' = [e \in Vals |-> live[e] + gain(x, e) + (IF x = r THEN 0 ELSE gain(r, e))]
     /\ blocks' = blocks + more(x) + (IF x = r THEN 0 ELSE more(r))
  /\ UNCHANGED crashed

Pairs == Vals \X Vals

Next ==
  /\ ~crashed
  /\ \/ \E x \in Vecs :
          \/ \E n \in 1..2 : New(x, n) \/ Reserve(x, n + 1)
          \/ Delete(x) \/ Clear(x) \/ PopBack(x)
          \/ \E pos \in 0..vec[x].size + 1 :
               \/ \E e \in Vals : Insert(x, pos, e)
               \/ \E es \in Pairs : InsertRange(x, pos, es)
               \/ Erase(x, pos)
     \/ \E x, r \in Vecs :
          NewCopy(x, r) \/ NewMove(x, r) \/ Copy(x, r) \/ Swap(x, r) \/ AppendAll(x, r)
          \/ AssignIterator(x, r)

Spec == Init /\ [][Next]_vars

-----------------------------------------------------------------------------
(* Properties                                                              *)

\* With allocations failing anywhere, a vector holds the elements the calls
\* have put there, in their order, each of them in constructed memory inside its
\* block, until a range is inserted behind the end of a vector or a vector is
\* appended to itself (vector's operations).
VectorRight ==
  ~crashed =>
    \A x \in Vecs :
      /\ vec[x].size <= Cap(vec[x])
      /\ Prefix(vec[x]) = seq[x]
      /\ \A k \in vec[x].size + 1..Cap(vec[x]) : vec[x].mem[k] = RAW

\* Elements are constructed and destroyed in pairs, although they are moved
\* as bytes, and a block belongs to exactly one vector: what lives are the
\* elements of the vectors, and nothing is lost, until one of those two calls
\* (vector's operations).
CopiesExact ==
  ~crashed =>
    /\ \A e \in Vals :
         live[e] = Cardinality({at \in Vecs \X (1..MaxCap) :
                                 at[2] <= vec[at[1]].size /\ vec[at[1]].mem[at[2]] = e})
    /\ blocks = Cardinality({x \in Vecs : vec[x].has})
================================================================================
