--------------------------------- MODULE String ---------------------------------
(***************************************************************************)
(* skl/string.hpp: strings of wide characters over UNICODE_STRING, whose   *)
(* lengths are bytes in a USHORT.  A block that new[] gives is zeroed.     *)
(* Positions count from 0, as in the code; npos is "nowhere".              *)
(*                                                                         *)
(* A repalce() of the empty text never ends (i += osl - 1 takes back what  *)
(* ++i adds); it is left out.                                              *)
(***************************************************************************)
EXTENDS Integers, Sequences, FiniteSetsExt

CONSTANTS
  Strings,     \* string objects
  Texts,       \* texts that callers have at hand, as sequences of characters
  Words,       \* texts that they search for and put in place of what they find
  MaxCalls,    \* bound: calls in a behaviour
  UShortBits,  \* width of USHORT: 16 in the code
  HashBits,    \* width of a hash: 64 in the code; here 131 * 2^HashBits is a TLC integer
  NULL

VARIABLES
  str,   \* of each object: its block, its length and maximum length in bytes
  val,   \* ghost: the text that the object was last given
  lost,  \* ghost: objects that got no memory for it
  over,  \* ghost: a copy has gone beyond its block
  made   \* calls so far

vars == <<str, val, lost, over, made>>

\* Powers of two as a recursion, which is all that the provers know of them.
power[k \in 0..UShortBits + HashBits] == IF k = 0 THEN 1 ELSE 2 * power[k - 1]
UShortMod == power[UShortBits]
HashMod == power[HashBits]
USHORT(n) == n % UShortMod
Limit == power[UShortBits - 1] - 1
npos == -1

Nothing == [buf |-> NULL, len |-> 0, max |-> 0]
Init ==
  /\ str = [x \in Strings |-> Nothing] /\ val = [x \in Strings |-> <<>>]
  /\ lost = {} /\ over = FALSE /\ made = 0

Content(st) == IF st.buf = NULL THEN <<>> ELSE SubSeq(st.buf, 1, st.len \div 2)
Text(x) == Content(str[x])

-----------------------------------------------------------------------------
(* Storage                                                                 *)

Block(n, t) == [k \in 1..n |-> IF k <= Len(t) THEN t[k] ELSE 0]

Initialize_Bug(t, real) ==
  [buf |-> Block(real \div 2, t), len |-> real, max |-> USHORT(real + 2)]
\* Room for the text and a zero, from a length that is already a USHORT.
Initialize(t, real) ==
  LET max == USHORT(real + 2) IN [buf |-> Block(max \div 2, t), len |-> real, max |-> max]

FromUnicode(t) == Initialize(t, USHORT(Len(t)) * 2)
FromRaw(t) == Initialize(t, USHORT(USHORT(Len(t)) * 2))
Sized(n) == IF n = 0 THEN Nothing ELSE [buf |-> Block(n, <<>>), len |-> 0, max |-> USHORT(n * 2)]

\* A copy of an empty string has no block, and counts as invalid.
CopyOf(st) ==
  IF st.len = 0 \/ st.buf = NULL THEN Nothing
  ELSE LET n == st.len \div 2 + 1 IN
       [buf |-> Block(n, Content(st)), len |-> st.len, max |-> USHORT(n * 2)]

Put(x, st, t) ==
  /\ str' = [str EXCEPT ![x] = st] /\ val' = [val EXCEPT ![x] = t]
  /\ over' = (st.buf # NULL /\ st.len \div 2 > Len(st.buf))

\* Any constructor, given what it makes and what it is meant to hold.
Make(x, st, t) == Put(x, st, t) /\ lost' = lost \ {x}
MakeFails(x, t) == Put(x, Nothing, t) /\ lost' = lost \cup {x}

\* Assignment keeps a block that is large enough.
Assign(x, y) ==
  /\ x # y
  /\ LET st == str[x]  from == str[y]  kept == [st EXCEPT !.len = 0] IN
     Put(x, IF from.buf = NULL \/ from.len = 0 THEN kept
            ELSE IF from.len >= st.max THEN CopyOf(from)
            ELSE IF st.buf = NULL THEN kept
            ELSE [st EXCEPT !.buf = Text(y) \o SubSeq(@, from.len \div 2 + 1, Len(@)), !.len = from.len],
            Text(y))
  /\ lost' = lost \ {x}
\* Without memory the old block is gone all the same, but not its length.
AssignFails(x, y) ==
  /\ x # y /\ str[y].buf # NULL /\ str[y].len > 0 /\ str[y].len >= str[x].max
  /\ Put(x, [str[x] EXCEPT !.buf = NULL, !.len = 0], Text(y))
  /\ lost' = lost \cup {x}

\* Move assignment exchanges the two.
Swap(x, y) ==
  /\ x # y
  /\ str' = [str EXCEPT ![x] = str[y], ![y] = str[x]]
  /\ val' = [val EXCEPT ![x] = val[y], ![y] = val[x]]
  /\ lost' = {z \in Strings : (IF z = x THEN y ELSE IF z = y THEN x ELSE z) \in lost}
  /\ UNCHANGED over

MakeMove(x, y) ==
  /\ x # y
  /\ str' = [str EXCEPT ![x] = str[y], ![y] = Nothing]
  /\ val' = [val EXCEPT ![x] = val[y], ![y] = <<>>]
  /\ lost' = (lost \ {x, y}) \cup (IF y \in lost THEN {x} ELSE {})
  /\ UNCHANGED over

Clear(x) == Put(x, [str[x] EXCEPT !.len = 0], <<>>) /\ lost' = lost \ {x}

Replaced(t, old, nc) == [k \in DOMAIN t |-> IF t[k] = old THEN nc ELSE t[k]]
Replace(x, old, nc) ==
  /\ str[x].buf # NULL /\ str[x].len > 0
  /\ Put(x, [str[x] EXCEPT !.buf = Replaced(Text(x), old, nc) \o SubSeq(@, Len(Text(x)) + 1, Len(@))],
         Replaced(val[x], old, nc))
  /\ UNCHANGED lost

-----------------------------------------------------------------------------
(* Comparison and search; fold is tolower in the operations that ignore    *)
(* case                                                                    *)

\* Characters of ASCII; tolower leaves all others alone.
Letters == 0..127
tolower == [c \in Letters |-> IF c \in 65..90 THEN c + 32 ELSE c]
same == [c \in Letters |-> c]
At(t, pos, u, fold) == \A k \in 1..Len(u) : fold[t[pos + k]] = fold[u[k]]

compare(t, u, fold) ==
  LET apart == {k \in 1..Min({Len(t), Len(u)}) : fold[t[k]] # fold[u[k]]} IN
  IF apart # {} THEN IF fold[t[Min(apart)]] < fold[u[Min(apart)]] THEN -1 ELSE 1
  ELSE IF Len(u) < Len(t) THEN 1 ELSE IF Len(t) < Len(u) THEN -1 ELSE 0
icompare(t, u) == compare(t, u, tolower)

\* The comparison goes on to the end of what it is given or to a zero in it.
startwith(t, u, fold) ==
  LET n == Min({Len(t), Len(u)})
      i == Min({k \in 0..n : k = n \/ u[k + 1] = 0 \/ fold[t[k + 1]] # fold[u[k + 1]]}) IN
  i = Len(u) \/ u[i + 1] = 0
endwith(t, u, fold) ==
  Len(u) <= Len(t) /\ \A i \in 1..Len(u) : fold[t[Len(t) - i + 1]] = fold[u[Len(u) - i + 1]]

find(t, u, from, fold) ==
  LET at == {p \in from..(Len(t) - Len(u)) : At(t, p, u, fold)} IN
  IF Len(u) = 0 \/ at = {} THEN npos ELSE Min(at)
rfind_Bug(t, u, fold) ==
  LET at == {p \in 1..(Len(t) - Len(u) - 1) : At(t, p, u, fold)} IN
  IF at = {} THEN npos ELSE Max(at)
\* The loop ends before position 0.
rfind(t, u, fold) ==
  LET at == {p \in 1..(Len(t) - Len(u)) : At(t, p, u, fold)} IN
  IF at = {} THEN npos ELSE Max(at)
rfindChar(t, c, fold) ==
  LET at == {p \in 1..Len(t) : fold[t[p]] = fold[c]} IN IF at = {} THEN npos ELSE Max(at) - 1

\* BKDRHash, of a string as it is or in lower case: 131 is the radix, and the
\* unsigned 64 bit arithmetic is that of HashBits here.
BKDRHash_Bug(t, fold) ==
  LET hash[i \in 0..Len(t)] == IF i = 0 THEN 0 ELSE (hash[i - 1] * 131 + t[i]) % HashMod
  IN  hash[Len(t)]
BKDRHash(t, fold) ==
  LET hash[i \in 0..Len(t)] == IF i = 0 THEN 0 ELSE (hash[i - 1] * 131 + fold[t[i]]) % HashMod
  IN  hash[Len(t)]

substr(t, pos, count) ==
  SubSeq(t, pos + 1, pos + Min({IF Len(t) > pos THEN Len(t) - pos ELSE 0, count}))

\* One turn of repalce(), at position i: what it has copied to the new block,
\* from where it will go on, and how often it has replaced.  A match hides those
\* that begin inside it, and both of its loops end before a match that ends the
\* text.
Turn(t, old, ns, fold, i, c) ==
  IF c.pre <= i /\ i + Len(old) < Len(t) /\ At(t, i, old, fold)
  THEN [pre |-> i + Len(old), out |-> c.out \o SubSeq(t, c.pre + 1, i) \o ns, hits |-> c.hits + 1]
  ELSE c
Copied(t, old, ns, fold) ==
  LET copied[i \in 0..Len(t)] ==
        IF i = 0 THEN [pre |-> 0, out |-> <<>>, hits |-> 0]
        ELSE Turn(t, old, ns, fold, i - 1, copied[i - 1])
  IN  copied

\* What repalce() leaves in the new block, and how large that block is.
Pieces(t, old, ns, fold) ==
  LET c == Copied(t, old, ns, fold)[Len(t)] IN c.out \o SubSeq(t, c.pre + 1, Len(t))
NewSize_Bug(t, old, ns, fold) == Len(t) + (Len(ns) - Len(old))
NewSize(t, old, ns, fold) == Len(t) + Copied(t, old, ns, fold)[Len(t)].hits * (Len(ns) - Len(old))

Repalced(t, old, ns, fold) ==
  IF Copied(t, old, ns, fold)[Len(t)].hits = 0 THEN FromRaw(t)
  ELSE LET new == Pieces(t, old, ns, fold)  n == NewSize(t, old, ns, fold) IN
       [buf |-> Block(n, new), len |-> USHORT(USHORT(Len(new)) * 2), max |-> USHORT(n * 2)]
repalce(st, old, ns) == IF st.buf = NULL THEN Nothing ELSE Repalced(Content(st), old, ns, same)
irepalce(st, old, ns) == IF st.buf = NULL THEN Nothing ELSE Repalced(Content(st), old, ns, tolower)

-----------------------------------------------------------------------------
Next ==
  /\ ~over /\ made < MaxCalls /\ made' = made + 1
  /\ \E x \in Strings :
       \/ \E t \in Texts :
            \/ Make(x, FromRaw(t), t) \/ MakeFails(x, t)
            \/ Len(t) <= Limit /\ Make(x, FromUnicode(t), t)
            \/ Make(x, Sized(Len(t)), <<>>)
       \/ \E y \in Strings \ {x} :
            \/ Make(x, CopyOf(str[y]), Text(y)) \/ MakeMove(x, y)
            \/ Assign(x, y) \/ AssignFails(x, y) \/ Swap(x, y)
            \/ \E pos, count \in 0..2 :
                 LET t == substr(Text(y), pos, count) IN
                 Make(x, IF t = <<>> THEN Nothing ELSE FromRaw(t), t)
            \/ \E old \in Words \ {<<>>}, ns \in Words, fold \in BOOLEAN :
                 LET t == Text(y) IN
                 IF fold THEN Make(x, irepalce(str[y], old, ns), Pieces(t, old, ns, tolower))
                 ELSE Make(x, repalce(str[y], old, ns), Pieces(t, old, ns, same))
       \/ Clear(x)
       \/ \E old, nc \in {65, 97} : Replace(x, old, nc)

Spec == Init /\ [][Next]_vars

-----------------------------------------------------------------------------
(* Properties                                                              *)

\* An object holds the text it was given, inside its block, unless there was no
\* memory, now or when its block was last replaced (operator= leaves the old
\* MaximumLength then), or the text is too long for a USHORT (Initialize).
TextsKept ==
  /\ over => \E x \in Strings : Len(val[x]) >= Limit
  /\ ~over => \A x \in Strings :
       LET st == str[x] IN
       /\ st.buf # NULL => st.len <= 2 * Len(st.buf) /\ st.max <= 2 * Len(st.buf)
       /\ Text(x) = val[x] \/ x \in lost \/ Len(val[x]) > Limit \/ (st.buf = NULL /\ st.max > 0)

\* The inductive invariant of StringProofs: letters of a C string are not zero, also
\* those that an object has, and a block is there for the length it goes with.
Signs == 1..127
Storage == [buf : Seq(Letters) \cup {NULL}, len : Nat, max : Nat]
IInv ==
  /\ str \in [Strings -> Storage] /\ val \in [Strings -> Seq(Signs)]
  /\ TextsKept
  /\ ~over => \A x \in Strings : Text(x) \in Seq(Signs)

\* Replacing letter by letter, from the left, in the last n letters.
Rest(t, old, ns) ==
  LET rest[n \in 0..Len(t)] ==
        IF n = 0 THEN <<>>
        ELSE IF Len(old) <= n /\ At(t, Len(t) - n, old, same) THEN ns \o rest[n - Len(old)]
        ELSE <<t[Len(t) - n + 1]>> \o rest[n - 1]
  IN  rest
Reference(t, old, ns) == Rest(t, old, ns)[Len(t)]

\* repalce() is what its name says, but for a match that ends the text, and
\* fills the block whose size it has computed (repalce).
RepalceRight ==
  ~over => \A x \in Strings, old \in Words \ {<<>>}, ns \in Words :
    LET t == Text(x)  new == Pieces(t, old, ns, same) IN
    /\ Len(new) = NewSize(t, old, ns, same)
    /\ endwith(t, old, same) \/ new = Reference(t, old, ns)

\* Texts that compare equal have one hash, in the sense of the comparison;
\* others of one length have another, while it is too short to wrap and the
\* letters are less than the radix.
HashRight(t, u, fold) ==
  LET equal == BKDRHash(t, fold) = BKDRHash(u, fold) IN
  /\ compare(t, u, fold) = 0 => equal
  /\ Len(t) = Len(u) /\ Len(t) <= HashBits \div 8 => (equal => compare(t, u, fold) = 0)

\* find() and rfind() are the two ends of the matches, but for one at the very
\* start, which rfind() misses; startwith() and endwith() agree with them;
\* compare() is an order, as map needs it of its keys, and the hashes agree with
\* it (find, rfind, compare, icompare, startwith, endwith, BKDRHash).
SearchRight ==
  ~over => \A x \in Strings, u \in Words :
    LET t == Text(x)  f == find(t, u, 0, same)  r == rfind(t, u, same) IN
    /\ u # <<>> =>
         /\ f = npos => r = npos
         /\ f > 0 => f <= r /\ find(t, u, r + 1, same) = npos
         /\ f = 0 <=> startwith(t, u, same)
         /\ endwith(t, u, same) => find(t, u, Len(t) - Len(u), same) = Len(t) - Len(u)
         /\ rfindChar(t, u[1], same) >= r
    /\ compare(t, u, same) = -compare(u, t, same)
    /\ compare(t, u, same) = 0 <=> t = u
    /\ \A y \in Strings : compare(t, u, same) < 0 /\ compare(u, Text(y), same) < 0
                            => compare(t, Text(y), same) < 0
    /\ find(t, u, 0, same) # npos => find(t, u, 0, tolower) \in 0..f
    /\ icompare(t, u) = 0 <=> startwith(t, u, tolower) /\ Len(t) = Len(u)
    /\ HashRight(t, u, tolower) /\ HashRight(t, u, same)
================================================================================
