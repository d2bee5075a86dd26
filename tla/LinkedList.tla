------------------------------- MODULE LinkedList -------------------------------
(***************************************************************************)
(* skl::list with its counted items, its handles (itr_type) and an         *)
(* iterator, and skl::stack (skl/list.hpp, skl/refholder.hpp).  The links  *)
(* are modelled one by one; an item is an address that new hands out, free *)
(* when its count is zero.  The RTL's InsertHeadList, RemoveHeadList and   *)
(* their like are external and modelled by their two or four writes.       *)
(*                                                                         *)
(* A holder h stands for a variable of type itr_type of the caller: each   *)
(* call that returns a handle assigns it to one, which drops the old one.  *)
(***************************************************************************)
EXTENDS Naturals, Sequences, FiniteSets, Functions

CONSTANTS Lists, Stacks,  \* the heads
          Items,          \* the memory that new hands out
          Holders,        \* the caller's handles
          NULL

VARIABLES
  flink, blink,  \* the links of heads and items; a stack uses flink as Next
  count,         \* references to an item; a stack's item counts as one
  held,          \* what each handle refers to
  it,            \* the iterator: its list, its position and the item it retains
  seq,           \* ghost: the sequence of items that the calls have made
  must, seen,    \* ghosts: what an iteration has to visit, and has visited
  strayed        \* ghost: the iterator's position has left its list

vars == <<flink, blink, count, held, it, seq, must, seen, strayed>>
ghosts == <<seq, must, seen, strayed>>

Heads == Lists \cup Stacks
Addresses == Heads \cup Items
Idle == [on |-> FALSE, head |-> NULL, cur |-> NULL, value |-> NULL]

\* The items that a walk from the head meets: the least set that the links
\* from the head and from its own members do not leave for another item.
In(head) ==
  LET closed(S) == \A n \in S \cup {head} : flink[n] \in Items => flink[n] \in S
  IN  {i \in Items : \A S \in SUBSET Items : closed(S) => i \in S}

Init ==
  /\ flink = [n \in Addresses |-> IF n \in Lists THEN n ELSE NULL]
  /\ blink = [n \in Addresses |-> IF n \in Lists THEN n ELSE NULL]
  /\ count = [i \in Items |-> 0]
  /\ held = [h \in Holders |-> NULL]
  /\ it = Idle /\ must = {} /\ seen = {} /\ strayed = FALSE
  /\ seq = [x \in Heads |-> <<>>]

\* A sequence of different items without i.
Without(s, i) ==
  LET k == CHOOSE j \in DOMAIN s : s[j] = i
  IN  IF i \in Range(s) THEN SubSeq(s, 1, k - 1) \o SubSeq(s, k + 1, Len(s)) ELSE s

-----------------------------------------------------------------------------
(* Counting and linking                                                    *)

Retain(c, i) == IF i = NULL THEN c ELSE [c EXCEPT ![i] = @ + 1]
Release(c, i) == IF i = NULL THEN c ELSE [c EXCEPT ![i] = @ - 1]

\* h = i: c is the count with the new reference already in it.
Assign(h, i, c) == held' = [held EXCEPT ![h] = i] /\ count' = Release(c, held[h])

Insert(i, prev, next) ==
  /\ flink' = [flink EXCEPT ![prev] = i, ![i] = next]
  /\ blink' = [blink EXCEPT ![next] = i, ![i] = prev]

\* Takes i out and leaves null links in it.
Unlink_Bug(i) ==
  /\ flink' = [flink EXCEPT ![blink[i]] = flink[i]]
  /\ blink' = [blink EXCEPT ![flink[i]] = blink[i]]
Unlink(i) ==
  /\ flink' = [flink EXCEPT ![blink[i]] = flink[i], ![i] = NULL]
  /\ blink' = [blink EXCEPT ![flink[i]] = blink[i], ![i] = NULL]

\* The ghosts after a step that changes lists.
Watch ==
  /\ UNCHANGED <<it, seen>>
  /\ strayed' = (strayed \/ (it.on /\ it.cur \in In(it.head) \ In(it.head)'))
  /\ must' = IF it.on THEN must \cap In(it.head)' ELSE must

-----------------------------------------------------------------------------
(* list                                                                    *)

Push(i, h, prev, next) ==
  /\ count[i] = 0
  /\ Insert(i, prev, next)
  /\ Assign(h, i, [count EXCEPT ![i] = 2])
  /\ Watch

PushBack(l, h) ==
  \E i \in Items : Push(i, h, blink[l], l) /\ seq' = [seq EXCEPT ![l] = Append(@, i)]

PushFront(l, h) ==
  \E i \in Items : Push(i, h, l, flink[l]) /\ seq' = [seq EXCEPT ![l] = <<i>> \o @]

\* new fails, or check_valid refuses the value: an empty handle.
PushFails(h) == Assign(h, NULL, count) /\ UNCHANGED <<flink, blink, it, ghosts>>

PopFront(l, h) ==
  IF flink[l] = l
  THEN PushFails(h)
  ELSE LET i == flink[l] IN
       /\ Unlink(i)
       /\ Assign(h, i, Release(Retain(count, i), i))
       /\ seq' = [seq EXCEPT ![l] = Tail(@)]
       /\ Watch

Remove(h) ==
  LET i == held[h] IN
  /\ i # NULL /\ flink[i] # NULL /\ blink[i] # NULL
  /\ Unlink(i)
  /\ count' = Release(count, i)
  /\ seq' = [x \in Heads |-> Without(seq[x], i)]
  /\ UNCHANGED held
  /\ Watch

Clear(l) ==
  LET gone == In(l) IN
  /\ flink' = [n \in Addresses |-> IF n = l THEN l ELSE IF n \in gone THEN NULL ELSE flink[n]]
  /\ blink' = [n \in Addresses |-> IF n = l THEN l ELSE IF n \in gone THEN NULL ELSE blink[n]]
  /\ count' = [i \in Items |-> IF i \in gone THEN count[i] - 1 ELSE count[i]]
  /\ seq' = [seq EXCEPT ![l] = <<>>]
  /\ UNCHANGED held
  /\ Watch

\* The static swap of two heads: f's writes to x and to the node that ties it in.
Rehang(f, x, empty, to, from) ==
  IF empty THEN [f EXCEPT ![x] = x] ELSE [f EXCEPT ![x] = to, ![from] = x]

Swap(l, r) ==
  LET thisempty == flink[l] = l
      otherempty == flink[r] = r
      Exchange(f, b) == Rehang(Rehang(f, l, otherempty, f[r], b[r]), r, thisempty, f[l], b[l])
  IN
  /\ l # r
  /\ flink' = Exchange(flink, blink)
  /\ blink' = Exchange(blink, flink)
  /\ seq' = [seq EXCEPT ![l] = seq[r], ![r] = seq[l]]
  /\ UNCHANGED <<count, held>>
  /\ Watch

\* append(l, r): the last of r is tied to the first of l, and r is emptied.
AppendTo(l, r) ==
  /\ flink[r] # r /\ l # r
  /\ flink' = [flink EXCEPT ![blink[r]] = flink[l], ![l] = flink[r], ![r] = r]
  /\ blink' = [blink EXCEPT ![flink[l]] = blink[r], ![flink[r]] = l, ![r] = r]
  /\ seq' = [seq EXCEPT ![l] = seq[r] \o @, ![r] = <<>>]
  /\ UNCHANGED <<count, held>>
  /\ Watch

\* A handle of the caller goes out of scope.
Drop(h) == held[h] # NULL /\ PushFails(h)

-----------------------------------------------------------------------------
(* list::iterator                                                          *)

\* The position moves to node, and value refers to the item there; past the
\* end, and at a null link (where the program stops), it refers to nothing.
MoveTo(head, node) ==
  LET v == IF node \in Items THEN node ELSE NULL IN
  /\ it' = [on |-> TRUE, head |-> head, cur |-> node, value |-> v]
  /\ count' = Release(Retain(count, v), it.value)
  /\ UNCHANGED <<flink, blink, held, seq>>

Begin(l) ==
  /\ ~it.on
  /\ MoveTo(l, flink[l])
  /\ must' = In(l) /\ seen' = {flink[l]} /\ strayed' = FALSE

\* ++ of a loop that goes on until end(), which is the head.
Advance_Bug ==
  /\ it.head \in Lists /\ it.cur \in Items
  /\ MoveTo(it.head, IF flink[it.cur] \in Items THEN flink[flink[it.cur]] ELSE flink[it.cur])
  /\ seen' = seen \cup {it'.cur}
  /\ UNCHANGED <<must, strayed>>
Advance ==
  /\ it.head \in Lists /\ it.cur \in Items
  /\ MoveTo(it.head, flink[it.cur])
  /\ seen' = seen \cup {it'.cur}
  /\ UNCHANGED <<must, strayed>>

\* Where an iteration ends.
EndOf(head) == IF head \in Lists THEN head ELSE NULL
End ==
  /\ it.on /\ it.cur \in Items \cup {EndOf(it.head)}
  /\ it' = Idle /\ count' = Release(count, it.value)
  /\ must' = {} /\ seen' = {} /\ strayed' = FALSE
  /\ UNCHANGED <<flink, blink, held, seq>>

-----------------------------------------------------------------------------
(* stack: the item is not counted, it is deleted when it is popped          *)

StackPush(s) ==
  \E i \in Items :
    /\ count[i] = 0
    /\ flink' = [flink EXCEPT ![s] = i, ![i] = flink[s]]
    /\ count' = [count EXCEPT ![i] = 1]
    /\ seq' = [seq EXCEPT ![s] = <<i>> \o @]
    /\ UNCHANGED <<blink, held>>
    /\ Watch

StackPop(s) ==
  /\ flink[s] # NULL
  /\ flink' = [flink EXCEPT ![s] = flink[flink[s]]]
  /\ count' = [count EXCEPT ![flink[s]] = 0]
  /\ seq' = [seq EXCEPT ![s] = Tail(@)]
  /\ UNCHANGED <<blink, held>>
  /\ Watch

StackClear(s) ==
  /\ flink' = [flink EXCEPT ![s] = NULL]
  /\ count' = [i \in Items |-> IF i \in In(s) THEN 0 ELSE count[i]]
  /\ seq' = [seq EXCEPT ![s] = <<>>]
  /\ UNCHANGED <<blink, held>>
  /\ Watch

\* stack::iterator retains nothing, and end() is a null position.
StackBegin(s) ==
  /\ ~it.on
  /\ it' = [on |-> TRUE, head |-> s, cur |-> flink[s], value |-> NULL]
  /\ must' = In(s) /\ seen' = {flink[s]} /\ strayed' = FALSE
  /\ UNCHANGED <<flink, blink, count, held, seq>>

\* What the position's memory says when its item has been deleted is not followed.
StackAdvance ==
  /\ it.head \in Stacks /\ it.cur \in Items /\ ~strayed
  /\ it' = [it EXCEPT !.cur = flink[it.cur]]
  /\ seen' = seen \cup {it'.cur}
  /\ UNCHANGED <<flink, blink, count, held, seq, must, strayed>>

Next ==
  \/ \E l \in Lists, h \in Holders : PushBack(l, h) \/ PushFront(l, h) \/ PopFront(l, h)
  \/ \E h \in Holders : PushFails(h) \/ Remove(h) \/ Drop(h)
  \/ \E l \in Lists : Clear(l) \/ Begin(l)
  \/ \E l, r \in Lists : Swap(l, r) \/ AppendTo(l, r)
  \/ Advance \/ End
  \/ \E s \in Stacks : StackPush(s) \/ StackPop(s) \/ StackClear(s) \/ StackBegin(s)
  \/ StackAdvance

Spec == Init /\ [][Next]_vars

-----------------------------------------------------------------------------
(* Properties                                                              *)

TypeOK ==
  /\ flink \in [Addresses -> Addresses \cup {NULL}] /\ blink \in [Addresses -> Addresses \cup {NULL}]
  /\ count \in [Items -> Nat] /\ held \in [Holders -> Items \cup {NULL}]
  /\ it.on \in BOOLEAN /\ it.value \in Items \cup {NULL} /\ strayed \in BOOLEAN

References(i) ==
  Cardinality({x \in Heads : i \in In(x)}) + Cardinality({h \in Holders : held[h] = i})
  + (IF it.value = i THEN 1 ELSE 0)

\* An item's count is the number of its references - the list it is in, the
\* handles, the iterator - so it is deleted with the last of them, and no
\* list, handle or iterator refers to deleted memory (ref_item::release).
CountsExact == TypeOK /\ \A i \in Items : count[i] = References(i)

\* The links of every list and stack are those of the sequence its calls
\* have made, in both directions: append has put the other list's items in
\* front, and an item that was taken out has null links (list's operations).
LinksRight ==
  /\ \A l \in Heads :
       LET n == Len(seq[l])
           node(k) == IF k \in 1..n THEN seq[l][k] ELSE l
       IN  IF l \in Lists
           THEN \A k \in 0..n : flink[node(k)] = node(k + 1) /\ blink[node(k + 1)] = node(k)
           ELSE flink[l] = (IF n = 0 THEN NULL ELSE node(1))
                /\ \A k \in 1..n : flink[node(k)] = (IF k = n THEN NULL ELSE node(k + 1))
  /\ \A h \in Holders :
       held[h] # NULL /\ (\A l \in Heads : held[h] \notin Range(seq[l])) =>
         flink[held[h]] = NULL /\ blink[held[h]] = NULL

\* An iteration whose position has not been taken out of its list stays in
\* that list, never meets a null link or another head, and when it ends it
\* has visited all that was there from its begin on (list::iterator).
IterationComplete ==
  it.on /\ ~strayed =>
    /\ it.cur \in In(it.head) \cup {EndOf(it.head)}
    /\ it.cur = EndOf(it.head) => must \subseteq seen
================================================================================
