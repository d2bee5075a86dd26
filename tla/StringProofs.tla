------------------------------ MODULE StringProofs ------------------------------
(***************************************************************************)
(* Proofs about strings and about what the compiler computes from a list   *)
(* of types, for any texts, words, widths and types: loops and recursive   *)
(* templates are recursive functions, which are first shown to exist.      *)
(***************************************************************************)
EXTENDS Containers, SequenceTheorems, WellFoundedInduction, TLAPS

-----------------------------------------------------------------------------
(* Recursion and induction over numbers                                    *)

LEMMA LeastOf ==
  ASSUME NEW N \in SUBSET Nat, N # {}
  PROVE  \E x \in N : \A y \in N : x <= y
<1>1. PICK x \in N : \A y \in N : <<y, x>> \notin OpToRel(<, Nat)
  BY NatLessThanWellFounded, WFMin
<1>2. ASSUME NEW y \in N PROVE ~(y < x)
  BY <1>1, <1>2 DEF OpToRel
<1>3. QED
  BY <1>2

\* What holds of 0, and of the next number with every one up to m, holds up to m.
LEMMA UpTo ==
  ASSUME NEW m \in Nat, NEW Good, 0 \in Good,
         \A i \in 0..(m - 1) : i \in Good => i + 1 \in Good
  PROVE  \A i \in 0..m : i \in Good
<1> DEFINE N == {i \in 0..m : i \notin Good}
<1> SUFFICES ASSUME N # {} PROVE FALSE
  OBVIOUS
<1>1. N \in SUBSET Nat
  OBVIOUS
<1>2. PICK i \in N : \A j \in N : i <= j
  BY <1>1, LeastOf
<1>3. i # 0 /\ i - 1 \in 0..(m - 1) /\ i - 1 \notin N /\ i - 1 \in 0..m /\ (i - 1) + 1 = i
  BY <1>2
<1>4. QED
  BY <1>2, <1>3

\* g is what a recursion with value c at 0 and step G at i, from its value at
\* p[i], computes up to n.
Computes(g, n, c, G, p, R) ==
  /\ g \in [0..n -> R]
  /\ \A i \in 0..n : g[i] = IF i = 0 THEN c ELSE G[<<i, g[p[i]]>>]

Descends(p, n) == \A i \in 1..n : p[i] \in 0..(i - 1)

LEMMA Recursion ==
  ASSUME NEW n \in Nat, NEW R, NEW c \in R, NEW G \in [(1..n) \X R -> R],
         NEW p, Descends(p, n)
  PROVE  \E g : Computes(g, n, c, G, p, R)
<1> DEFINE Good == {j \in 0..n : \E g : Computes(g, j, c, G, p, R)}
<1>1. 0 \in Good
  <2>1. Computes([k \in 0..0 |-> c], 0, c, G, p, R)
    BY DEF Computes
  <2>2. QED
    BY <2>1
<1>2. ASSUME NEW i \in 0..(n - 1), i \in Good PROVE i + 1 \in Good
  <2>1. PICK h : Computes(h, i, c, G, p, R)
    BY <1>2
  <2>2. DEFINE j == i + 1
  <2>3. j \in 1..n /\ j \in 0..n /\ j - 1 = i /\ 0..(j - 1) = 0..i
    OBVIOUS
  <2>4. p[j] \in 0..i
    BY <2>3 DEF Descends
  <2>5. h[p[j]] \in R
    BY <2>1, <2>4 DEF Computes
  <2>6. DEFINE v == G[<<j, h[p[j]]>>]
               g == [k \in 0..j |-> IF k = j THEN v ELSE h[k]]
  <2>7. v \in R
    BY <2>3, <2>5
  <2>8. \A k \in 0..i : k \in 0..j /\ k # j /\ h[k] \in R
    BY <2>1 DEF Computes
  <2>9. \A k \in 0..j : k = j \/ k \in 0..i
    OBVIOUS
  <2> HIDE DEF v, j
  <2>10. g \in [0..j -> R]
    BY <2>7, <2>8, <2>9
  <2>11. \A k \in 0..i : g[k] = h[k]
    BY <2>8
  <2>12. ASSUME NEW k \in 0..j PROVE g[k] = IF k = 0 THEN c ELSE G[<<k, g[p[k]]>>]
    <3>1. CASE k = j
      <4>1. g[k] = v /\ g[p[j]] = h[p[j]] /\ k # 0
        BY <2>3, <2>4, <2>11, <3>1
      <4>2. QED
        BY <3>1, <4>1 DEF v
    <3>2. CASE k \in 0..i
      <4>1. g[k] = h[k] /\ h[k] = IF k = 0 THEN c ELSE G[<<k, h[p[k]]>>]
        BY <2>1, <2>11, <3>2 DEF Computes
      <4>2. ASSUME k # 0 PROVE g[p[k]] = h[p[k]]
        <5>1. k \in 1..n /\ 0..(k - 1) \subseteq 0..i
          BY <3>2, <4>2
        <5>2. QED
          BY <2>11, <5>1 DEF Descends
      <4> HIDE DEF g
      <4>3. QED
        BY <4>1, <4>2
    <3>3. QED
      BY <2>9, <3>1, <3>2
  <2>13. Computes(g, j, c, G, p, R)
    <3> HIDE DEF g
    <3>1. QED
      BY <2>10, <2>12 DEF Computes
  <2>14. QED
    BY <2>3, <2>13 DEF j
<1>3. n \in 0..n
  OBVIOUS
<1> HIDE DEF Good
<1>4. \A i \in 0..n : i \in Good
  BY <1>1, <1>2, UpTo
<1>5. QED
  BY <1>3, <1>4 DEF Good

-----------------------------------------------------------------------------
(* Widths                                                                  *)

LEMMA ModDef ==
  ASSUME NEW m \in Nat \ {0}, NEW x \in Int
  PROVE  x \div m \in Int /\ x = m * (x \div m) + (x % m) /\ x % m \in 0..(m - 1)
OBVIOUS

LEMMA ModUnique ==
  ASSUME NEW m \in Nat \ {0}, NEW x \in Int, NEW k \in Int,
         NEW r \in 0..(m - 1), x = m * k + r
  PROVE  x % m = r
OBVIOUS

LEMMA ModSmall ==
  ASSUME NEW m \in Nat \ {0}, NEW x \in 0..(m - 1)
  PROVE  x % m = x
OBVIOUS

LEMMA ModLess ==
  ASSUME NEW m \in Nat \ {0}, NEW x \in Nat
  PROVE  x % m \in Nat /\ x % m <= x
<1>1. CASE x < m
  BY <1>1, ModSmall
<1>2. CASE ~(x < m)
  BY <1>2, ModDef
<1>3. QED
  BY <1>1, <1>2

Bits == UShortBits + HashBits

LEMMA PowerIs ==
  /\ S!power \in [0..Bits -> Nat \ {0}]
  /\ S!power[0] = 1
  /\ \A k \in 1..Bits : S!power[k] = 2 * S!power[k - 1]
<1> DEFINE R == Nat \ {0}
           G == [z \in (1..Bits) \X R |-> 2 * z[2]]
           p == [k \in 1..Bits |-> k - 1]
<1>1. Bits \in Nat
  BY StringsAssumption DEF Bits
<1>2. PICK g : Computes(g, Bits, 1, G, p, R)
  <2>1. G \in [(1..Bits) \X R -> R]
    OBVIOUS
  <2>2. Descends(p, Bits)
    BY <1>1 DEF Descends
  <2>3. 1 \in R
    OBVIOUS
  <2> HIDE DEF G, p, R
  <2>4. QED
    BY <1>1, <2>1, <2>2, <2>3, Recursion
<1>3. ASSUME NEW k \in 0..Bits PROVE g[k] = IF k = 0 THEN 1 ELSE 2 * g[k - 1]
  <2>1. ASSUME k # 0 PROVE p[k] = k - 1 /\ g[k - 1] \in R /\ k \in 1..Bits
    BY <1>1, <1>2, <2>1 DEF Computes
  <2>2. ASSUME k # 0, NEW v \in R PROVE G[<<k, v>>] = 2 * v
    BY <2>1, <2>2
  <2> HIDE DEF G, p, R
  <2>3. QED
    BY <1>2, <2>1, <2>2 DEF Computes
<1>4. g \in [0..Bits -> R]
  BY <1>2 DEF Computes
<1>5. g = [k \in 0..Bits |-> IF k = 0 THEN 1 ELSE 2 * g[k - 1]]
  BY <1>3, <1>4
<1>6. S!power = [k \in 0..Bits |-> IF k = 0 THEN 1 ELSE 2 * S!power[k - 1]]
  BY <1>5 DEF S!power, Bits
<1>7. S!power[0] = 1 /\ \A k \in 1..Bits : S!power[k] = 2 * S!power[k - 1]
  BY <1>1, <1>6
<1>8. S!power \in [0..Bits -> Nat \ {0}]
  <2> DEFINE Good == {k \in 0..Bits : S!power[k] \in Nat \ {0}}
  <2>1. 0 \in Good
    BY <1>1, <1>7
  <2>2. ASSUME NEW i \in 0..(Bits - 1), i \in Good PROVE i + 1 \in Good
    <3>1. i + 1 \in 1..Bits /\ (i + 1) - 1 = i
      BY <1>1
    <3>2. S!power[i + 1] = 2 * S!power[i]
      BY <1>7, <3>1
    <3>3. QED
      BY <2>2, <3>1, <3>2
  <2> HIDE DEF Good
  <2>3. \A k \in 0..Bits : k \in Good
    BY <1>1, <2>1, <2>2, UpTo
  <2>4. QED
    BY <1>6, <2>3 DEF Good
<1>9. QED
  BY <1>7, <1>8

\* Half of the lengths that a USHORT counts.
Half == S!power[UShortBits - 1]

LEMMA WidthsAre ==
  /\ Half \in Nat \ {0} /\ S!UShortMod = 2 * Half /\ S!Limit = Half - 1
  /\ S!HashMod \in Nat \ {0}
<1>1. UShortBits - 1 \in 0..Bits /\ UShortBits \in 1..Bits /\ HashBits \in 0..Bits
  BY StringsAssumption DEF Bits
<1>2. QED
  BY <1>1, PowerIs DEF Half, S!UShortMod, S!Limit, S!HashMod

\* What a USHORT keeps of a length in letters, and of the room for a zero behind.
LEMMA Lengths ==
  ASSUME NEW n \in Nat
  PROVE  /\ S!USHORT(S!USHORT(n) * 2) = 2 * (n % Half)
         /\ n < Half => S!USHORT(n) = n
         /\ n % Half \in 0..(Half - 1)
         /\ n < Half => n % Half = n
         /\ S!USHORT(2 * n) \in Nat /\ S!USHORT(2 * n) <= 2 * n
         /\ S!USHORT(2 * (n % Half) + 2) = IF n % Half = Half - 1 THEN 0 ELSE 2 * (n % Half) + 2
<1> DEFINE h == Half
           m == S!UShortMod
<1>1. h \in Nat \ {0} /\ m = 2 * h /\ m \in Nat \ {0}
  BY WidthsAre
<1>2. \A x : S!USHORT(x) = x % m
  BY DEF S!USHORT
<1> HIDE DEF h, m
<1>3. n % h \in 0..(h - 1) /\ (n < h => n % h = n)
  BY <1>1
<1>4. ASSUME NEW x \in 0..(m - 1) PROVE x % m = x
  BY <1>1
<1>5. ((n % m) * 2) % m = 2 * (n % h)
  <2>1. PICK a \in Int : n = h * a + (n % h)
    <3>1. n \div h \in Int /\ n = h * (n \div h) + (n % h)
      BY <1>1, ModDef
    <3>2. QED
      BY <3>1
  <2>2. PICK b \in Int : n = m * b + (n % m) /\ n % m \in 0..(m - 1)
    <3>1. ASSUME NEW q \in Nat \ {0}
          PROVE  n \div q \in Int /\ n = q * (n \div q) + (n % q) /\ n % q \in 0..(q - 1)
      BY ModDef
    <3>2. QED
      BY <1>1, <3>1
  <2>3. (n % m) * 2 = m * (a - 2 * b) + 2 * (n % h)
    <3>1. m * (a - 2 * b) = m * a - 2 * (m * b)
      BY <1>1
    <3>2. m * a = 2 * (h * a)
      BY <1>1
    <3>3. h * a \in Int /\ m * b \in Int /\ m * a \in Int
      BY <1>1
    <3>4. QED
      BY <1>3, <2>1, <2>2, <3>1, <3>2, <3>3
  <2>4. 2 * (n % h) \in 0..(m - 1) /\ a - 2 * b \in Int
    BY <1>1, <1>3
  <2>6. (n % m) * 2 \in Int
    BY <1>1
  <2>7. QED
    BY <1>1, <2>3, <2>4, <2>6, ModUnique
<1>6. n < h => n % m = n
  BY <1>1, <1>4
<1>7. (2 * n) % m \in Nat /\ (2 * n) % m <= 2 * n
  <2>1. ASSUME NEW x \in Nat PROVE x % m \in Nat /\ x % m <= x
    BY <1>1, ModLess
  <2>2. 2 * n \in Nat
    OBVIOUS
  <2>3. QED
    BY <2>1, <2>2
<1>8. (2 * (n % h) + 2) % m = IF n % h = h - 1 THEN 0 ELSE 2 * (n % h) + 2
  <2>1. CASE n % h = h - 1
    <3>1. 2 * (n % h) + 2 = m
      BY <1>1, <2>1
    <3>2. m % m = 0
      BY <1>1
    <3>3. QED
      BY <2>1, <3>1, <3>2
  <2>2. CASE n % h # h - 1
    <3>1. 2 * (n % h) + 2 \in 0..(m - 1)
      BY <1>1, <1>3, <2>2
    <3>2. QED
      BY <1>4, <2>2, <3>1
  <2>3. QED
    BY <2>1, <2>2
<1>9. QED
  BY <1>2, <1>3, <1>5, <1>6, <1>7, <1>8 DEF h, m

-----------------------------------------------------------------------------
(* What an object holds                                                    *)

Over(st) == st.buf # NULL /\ st.len \div 2 > Len(st.buf)

\* An object that was given t.
Holds(st, t) ==
  /\ st \in S!Storage
  /\ Over(st) => Len(t) >= S!Limit
  /\ ~Over(st) =>
       /\ st.buf # NULL => st.len <= 2 * Len(st.buf) /\ st.max <= 2 * Len(st.buf)
       /\ S!Content(st) \in Seq(S!Signs)
       /\ S!Content(st) = t \/ Len(t) > S!Limit \/ (st.buf = NULL /\ st.max > 0)

LEMMA SignsAre ==
  /\ S!Signs = 1..127 /\ S!Letters = 0..127 /\ NULL \notin Seq(S!Letters)
  /\ \A t \in Seq(S!Signs) : t \in Seq(S!Letters)
<1>1. S!Signs \subseteq S!Letters
  BY DEF S!Signs, S!Letters
<1>2. QED
  BY <1>1, SeqMonotonic, StringsAssumption DEF S!Signs, S!Letters

LEMMA First ==
  ASSUME NEW X, NEW t \in Seq(X), NEW k \in 0..Len(t)
  PROVE  /\ SubSeq(t, 1, k) \in Seq(X) /\ Len(SubSeq(t, 1, k)) = k
         /\ \A i \in 1..k : SubSeq(t, 1, k)[i] = t[i]
<1>1. Len(t) \in Nat /\ \A i \in 1..Len(t) : t[i] \in X
  BY ElementOfSeq, LenProperties
<1>2. k \in Int /\ \A i \in 1..k : t[i] \in X
  BY <1>1
<1>3. /\ SubSeq(t, 1, k) \in Seq(X)
      /\ Len(SubSeq(t, 1, k)) = IF 1 <= k THEN k - 1 + 1 ELSE 0
      /\ \A i \in 1..k - 1 + 1 : SubSeq(t, 1, k)[i] = t[1 + i - 1]
  BY <1>2, SubSeqProperties
<1>4. k - 1 + 1 = k /\ \A i \in 1..k : 1 + i - 1 = i
  BY <1>2
<1>5. QED
  BY <1>1, <1>3, <1>4

LEMMA BlockIs ==
  ASSUME NEW n \in Nat, NEW t \in Seq(S!Letters)
  PROVE  /\ S!Block(n, t) \in Seq(S!Letters) /\ Len(S!Block(n, t)) = n
         /\ \A k \in 1..n : S!Block(n, t)[k] = IF k <= Len(t) THEN t[k] ELSE 0
         /\ S!Block(n, t) # NULL
<1>1. Len(t) \in Nat /\ \A k \in 1..Len(t) : t[k] \in S!Letters
  BY ElementOfSeq, LenProperties
<1>2. \A k \in 1..n : (IF k <= Len(t) THEN t[k] ELSE 0) \in S!Letters
  BY <1>1 DEF S!Letters
<1>3. S!Block(n, t) \in [1..n -> S!Letters]
  BY <1>2 DEF S!Block
<1>4. S!Block(n, t) \in Seq(S!Letters) /\ Len(S!Block(n, t)) = n
  BY <1>3
<1>5. QED
  BY <1>4, SignsAre DEF S!Block

\* The first letters of a block are those of the text.
LEMMA BlockHolds ==
  ASSUME NEW t \in Seq(S!Signs), NEW n \in Nat, NEW k \in 0..n, k <= Len(t)
  PROVE  /\ SubSeq(S!Block(n, t), 1, k) \in Seq(S!Signs)
         /\ k = Len(t) => SubSeq(S!Block(n, t), 1, k) = t
<1>0. t \in Seq(S!Letters) /\ Len(t) \in Nat /\ k \in 0..Len(t) /\ k \in Nat
  BY SignsAre, LenProperties
<1> DEFINE b == S!Block(n, t)
<1>1. /\ b \in Seq(S!Letters) /\ Len(b) = n
      /\ \A i \in 1..n : b[i] = IF i <= Len(t) THEN t[i] ELSE 0
  BY <1>0, BlockIs
<1> HIDE DEF b
<1>2. /\ SubSeq(b, 1, k) \in Seq(S!Letters) /\ Len(SubSeq(b, 1, k)) = k
      /\ \A i \in 1..k : SubSeq(b, 1, k)[i] = b[i]
  BY <1>1, First
<1>3. /\ SubSeq(t, 1, k) \in Seq(S!Signs) /\ Len(SubSeq(t, 1, k)) = k
      /\ \A i \in 1..k : SubSeq(t, 1, k)[i] = t[i]
  BY <1>0, First
<1>4. SubSeq(t, 1, k) \in Seq(S!Letters)
  BY <1>3, SignsAre
<1>5. \A i \in 1..k : SubSeq(b, 1, k)[i] = SubSeq(t, 1, k)[i]
  BY <1>0, <1>1, <1>2, <1>3
<1>6. SubSeq(b, 1, k) = SubSeq(t, 1, k)
  BY <1>2, <1>3, <1>4, <1>5, SeqEqual
<1>7. SubSeq(t, 1, Len(t)) = t
  BY SubSeqFull
<1>8. QED
  BY <1>3, <1>6, <1>7 DEF b

LEMMA NothingHolds == Holds(S!Nothing, <<>>) /\ ~Over(S!Nothing) /\ S!Content(S!Nothing) = <<>>
BY EmptySeq DEF Holds, Over, S!Nothing, S!Content, S!Storage

LEMMA RawHolds ==
  ASSUME NEW t \in Seq(S!Signs)
  PROVE  Holds(S!FromRaw(t), t)
<1> DEFINE r == Len(t) % Half
           st == S!FromRaw(t)
<1>1. Len(t) \in Nat /\ t \in Seq(S!Letters)
  BY SignsAre, LenProperties
<1>2. /\ Half \in Nat \ {0} /\ r \in 0..(Half - 1) /\ S!Limit = Half - 1
      /\ S!USHORT(S!USHORT(Len(t)) * 2) = 2 * r
      /\ S!USHORT(2 * r + 2) = IF r = Half - 1 THEN 0 ELSE 2 * r + 2
      /\ (Len(t) < Half => r = Len(t))
  BY <1>1, Lengths, WidthsAre
<1>3. r <= Len(t)
  BY <1>1, <1>2, ModLess
<1> HIDE DEF r
<1>4. (2 * r) \div 2 = r /\ (2 * r + 2) \div 2 = r + 1 /\ 0 \div 2 = 0 /\ r \in Nat
  BY <1>2
<1>5. CASE r = Half - 1
  <2>1. st = [buf |-> S!Block(0, t), len |-> 2 * r, max |-> 0]
    BY <1>2, <1>4, <1>5 DEF S!FromRaw, S!Initialize
  <2>2. S!Block(0, t) \in Seq(S!Letters) /\ Len(S!Block(0, t)) = 0 /\ S!Block(0, t) # NULL
    BY <1>1, BlockIs
  <2>3. st \in S!Storage
    BY <1>4, <2>1, <2>2 DEF S!Storage
  <2>4. Over(st) => Len(t) >= S!Limit
    BY <1>1, <1>2, <1>3, <1>5
  <2>5. ASSUME ~Over(st) PROVE r = 0
    BY <1>4, <2>1, <2>2, <2>5 DEF Over
  <2>6. ASSUME r = 0 PROVE S!Content(st) \in Seq(S!Signs) /\ (Len(t) = 0 => S!Content(st) = t)
    <3>1. S!Content(st) = SubSeq(S!Block(0, t), 1, 0)
      BY <1>4, <2>1, <2>2, <2>6 DEF S!Content
    <3>2. 0 \in 0..0 /\ 0 <= Len(t)
      BY <1>1
    <3>3. QED
      BY <3>1, <3>2, BlockHolds
  <2>7. ASSUME r = 0 PROVE Len(t) = 0 \/ Len(t) > S!Limit
    BY <1>1, <1>2, <1>5, <2>7
  <2>8. ASSUME r = 0 PROVE st.len <= 2 * Len(st.buf) /\ st.max <= 2 * Len(st.buf)
    BY <2>1, <2>2, <2>8
  <2> HIDE DEF st
  <2>9. Holds(st, t)
    BY <2>3, <2>4, <2>5, <2>6, <2>7, <2>8 DEF Holds
  <2>10. QED
    BY <2>9 DEF st
<1>6. CASE r < Half - 1
  <2>1. st = [buf |-> S!Block(r + 1, t), len |-> 2 * r, max |-> 2 * r + 2]
    BY <1>2, <1>4, <1>6 DEF S!FromRaw, S!Initialize
  <2>2. S!Block(r + 1, t) \in Seq(S!Letters) /\ Len(S!Block(r + 1, t)) = r + 1 /\ S!Block(r + 1, t) # NULL
    <3>1. r + 1 \in Nat
      BY <1>4
    <3>2. QED
      BY <1>1, <3>1, BlockIs
  <2>3. st \in S!Storage
    BY <1>4, <2>1, <2>2 DEF S!Storage
  <2>4. ~Over(st)
    BY <1>4, <2>1, <2>2 DEF Over
  <2>5. S!Content(st) = SubSeq(S!Block(r + 1, t), 1, r)
    BY <1>4, <2>1, <2>2 DEF S!Content
  <2>6. r + 1 \in Nat /\ r \in 0..(r + 1)
    BY <1>4
  <2>7. S!Content(st) \in Seq(S!Signs) /\ (r = Len(t) => S!Content(st) = t)
    BY <1>3, <2>5, <2>6, BlockHolds
  <2>8. r = Len(t) \/ Len(t) > S!Limit
    BY <1>1, <1>2
  <2>9. st.len <= 2 * Len(st.buf) /\ st.max <= 2 * Len(st.buf)
    BY <1>4, <2>1, <2>2
  <2> HIDE DEF st
  <2>10. Holds(st, t)
    BY <2>3, <2>4, <2>7, <2>8, <2>9 DEF Holds
  <2>11. QED
    BY <2>10 DEF st
<1>7. QED
  BY <1>2, <1>5, <1>6

LEMMA UnicodeHolds ==
  ASSUME NEW t \in Seq(S!Signs), Len(t) <= S!Limit
  PROVE  Holds(S!FromUnicode(t), t)
<1>1. Len(t) \in Nat /\ Half \in Nat \ {0} /\ Len(t) < Half
  BY LenProperties, WidthsAre
<1>2. S!USHORT(Len(t)) = Len(t) /\ S!USHORT(S!USHORT(Len(t)) * 2) = 2 * Len(t)
  BY <1>1, Lengths
<1>3. Len(t) * 2 = 2 * Len(t)
  BY <1>1
<1>4. S!FromUnicode(t) = S!FromRaw(t)
  BY <1>2, <1>3 DEF S!FromUnicode, S!FromRaw
<1>5. QED
  BY <1>4, RawHolds

LEMMA SizedHolds ==
  ASSUME NEW n \in Nat
  PROVE  Holds(S!Sized(n), <<>>)
<1>1. CASE n = 0
  BY <1>1, NothingHolds DEF S!Sized
<1>2. CASE n # 0
  <2> DEFINE st == S!Sized(n)
  <2>1. st = [buf |-> S!Block(n, <<>>), len |-> 0, max |-> S!USHORT(n * 2)]
    BY <1>2 DEF S!Sized
  <2>2. <<>> \in Seq(S!Letters) /\ <<>> \in Seq(S!Signs)
    BY EmptySeq
  <2>3. S!Block(n, <<>>) \in Seq(S!Letters) /\ Len(S!Block(n, <<>>)) = n /\ S!Block(n, <<>>) # NULL
    BY <2>2, BlockIs
  <2>4. n * 2 = 2 * n
    OBVIOUS
  <2>5. S!USHORT(n * 2) \in Nat /\ S!USHORT(n * 2) <= 2 * n
    BY <2>4, Lengths
  <2>6. st \in S!Storage
    BY <2>1, <2>3, <2>5 DEF S!Storage
  <2>7. 0 \div 2 = 0
    OBVIOUS
  <2>8. S!Content(st) = <<>>
    <3>1. S!Content(st) = SubSeq(S!Block(n, <<>>), 1, 0)
      BY <2>1, <2>3, <2>7 DEF S!Content
    <3>2. QED
      BY <3>1, SubSeqEmpty
  <2>9. ~Over(st) /\ st.len <= 2 * Len(st.buf) /\ st.max <= 2 * Len(st.buf)
    BY <2>1, <2>3, <2>5, <2>7 DEF Over
  <2> HIDE DEF st
  <2>10. Holds(st, <<>>)
    BY <2>2, <2>6, <2>8, <2>9 DEF Holds
  <2>11. QED
    BY <2>10 DEF st
<1>3. QED
  BY <1>1, <1>2

\* What every object has while no copy has gone beyond its block.
Sound(st) ==
  /\ st \in S!Storage /\ ~Over(st)
  /\ st.buf # NULL => st.len <= 2 * Len(st.buf) /\ st.max <= 2 * Len(st.buf)
  /\ S!Content(st) \in Seq(S!Signs)

LEMMA ObjectIs ==
  ASSUME S!IInv, ~over, NEW y \in Strings
  PROVE  /\ Sound(str[y]) /\ S!Text(y) = S!Content(str[y])
         /\ val[y] \in Seq(S!Signs)
         /\ \/ S!Text(y) = val[y] \/ y \in lost \/ Len(val[y]) > S!Limit
            \/ (str[y].buf = NULL /\ str[y].max > 0)
<1>1. str[y] \in S!Storage /\ val[y] \in Seq(S!Signs) /\ S!Text(y) \in Seq(S!Signs)
  BY DEF S!IInv
<1>2. str[y].buf # NULL => str[y].len <= 2 * Len(str[y].buf) /\ str[y].max <= 2 * Len(str[y].buf)
  BY DEF S!IInv, S!TextsKept
<1>3. ~Over(str[y])
  <2>1. ASSUME str[y].buf # NULL PROVE ~(str[y].len \div 2 > Len(str[y].buf))
    <3>1. str[y].buf \in Seq(S!Letters) /\ str[y].len \in Nat
      BY <1>1, <2>1 DEF S!Storage
    <3>2. Len(str[y].buf) \in Nat
      BY <3>1, LenProperties
    <3>3. QED
      BY <1>2, <2>1, <3>1, <3>2
  <2>2. QED
    BY <2>1 DEF Over
<1>4. QED
  BY <1>1, <1>2, <1>3 DEF S!IInv, S!TextsKept, S!Text, Sound

\* Where an object is given a text, the others are left alone.
LEMMA Putting ==
  ASSUME S!IInv, ~over, NEW x \in Strings, NEW st, NEW t \in Seq(S!Signs),
         S!Put(x, st, t), lost \ {x} \subseteq lost',
         Holds(st, t) \/ (Sound(st) /\ x \in lost')
  PROVE  S!IInv'
<1>1. /\ str' = [str EXCEPT ![x] = st] /\ val' = [val EXCEPT ![x] = t]
      /\ over' = Over(st)
  BY DEF S!Put, Over
<1>2. st \in S!Storage
  BY DEF Holds, Sound
<1>3. str \in [Strings -> S!Storage] /\ val \in [Strings -> Seq(S!Signs)]
  BY DEF S!IInv
<1>4. str' \in [Strings -> S!Storage] /\ val' \in [Strings -> Seq(S!Signs)]
  BY <1>1, <1>2, <1>3
<1>5. str'[x] = st /\ val'[x] = t
  BY <1>1, <1>3
<1>6. CASE Over(st)
  <2>1. Len(t) >= S!Limit
    BY <1>6 DEF Holds, Sound
  <2>2. \E z \in Strings : Len(val'[z]) >= S!Limit
    BY <1>5, <2>1
  <2>3. over'
    BY <1>1, <1>6
  <2>4. QED
    BY <1>4, <2>2, <2>3 DEF S!IInv, S!TextsKept
<1>7. CASE ~Over(st)
  <2>1. ~over'
    BY <1>1, <1>7
  <2>2. ASSUME NEW z \in Strings
        PROVE  /\ str'[z].buf # NULL =>
                    str'[z].len <= 2 * Len(str'[z].buf) /\ str'[z].max <= 2 * Len(str'[z].buf)
               /\ \/ S!Content(str'[z]) = val'[z] \/ z \in lost' \/ Len(val'[z]) > S!Limit
                  \/ (str'[z].buf = NULL /\ str'[z].max > 0)
               /\ S!Content(str'[z]) \in Seq(S!Signs)
    <3>1. CASE z = x
      BY <1>5, <1>7, <3>1 DEF Holds, Sound
    <3>2. CASE z # x
      <4>1. str'[z] = str[z] /\ val'[z] = val[z]
        BY <1>1, <1>3, <3>2
      <4>2. z \in lost => z \in lost'
        BY <3>2
      <4>3. QED
        BY <4>1, <4>2, ObjectIs DEF Sound
    <3>3. QED
      BY <3>1, <3>2
  <2>3. QED
    BY <1>4, <2>1, <2>2 DEF S!IInv, S!TextsKept, S!Text
<1>8. QED
  BY <1>6, <1>7

\* A text in a new block.
LEMMA CopyHolds ==
  ASSUME NEW from, Sound(from)
  PROVE  Holds(S!CopyOf(from), S!Content(from)) /\ ~Over(S!CopyOf(from))
<1>1. CASE from.len = 0 \/ from.buf = NULL
  <2>1. S!Content(from) = <<>>
    <3>1. CASE from.buf = NULL
      BY <3>1 DEF S!Content
    <3>2. CASE from.buf # NULL
      <4>1. from.len = 0
        BY <1>1, <3>2
      <4>2. S!Content(from) = SubSeq(from.buf, 1, 0 \div 2) /\ 0 \div 2 = 0
        BY <3>2, <4>1 DEF S!Content
      <4>3. QED
        BY <4>2, SubSeqEmpty
    <3>3. QED
      BY <3>1, <3>2
  <2>2. S!CopyOf(from) = S!Nothing
    BY <1>1 DEF S!CopyOf
  <2>3. QED
    BY <2>1, <2>2, NothingHolds
<1>2. CASE ~(from.len = 0 \/ from.buf = NULL)
  <2> DEFINE k == from.len \div 2
             t == S!Content(from)
             st == S!CopyOf(from)
  <2>1. /\ from.buf \in Seq(S!Letters) /\ from.len \in Nat /\ Len(from.buf) \in Nat
        /\ t \in Seq(S!Signs) /\ from.len <= 2 * Len(from.buf)
    <3>1. from \in S!Storage
      BY DEF Sound
    <3>2. from.buf \in Seq(S!Letters) /\ from.len \in Nat
      BY <1>2, <3>1 DEF S!Storage
    <3>3. QED
      BY <1>2, <3>2, LenProperties DEF Sound
  <2>2. k \in Nat /\ k \in 0..Len(from.buf) /\ from.len <= 2 * (k + 1) /\ k + 1 \in Nat /\ k \in 0..(k + 1)
    BY <2>1
  <2>3. t = SubSeq(from.buf, 1, k)
    BY <1>2 DEF S!Content
  <2>4. Len(t) = k
    BY <2>1, <2>2, <2>3, First
  <2>5. st = [buf |-> S!Block(k + 1, t), len |-> from.len, max |-> S!USHORT((k + 1) * 2)]
    BY <1>2 DEF S!CopyOf
  <2>6. (k + 1) * 2 = 2 * (k + 1)
    BY <2>2
  <2> HIDE DEF k, t
  <2>7. S!USHORT((k + 1) * 2) \in Nat /\ S!USHORT((k + 1) * 2) <= 2 * (k + 1)
    BY <2>2, <2>6, Lengths
  <2>8. t \in Seq(S!Letters)
    BY <2>1, SignsAre
  <2>9. S!Block(k + 1, t) \in Seq(S!Letters) /\ Len(S!Block(k + 1, t)) = k + 1 /\ S!Block(k + 1, t) # NULL
    BY <2>2, <2>8, BlockIs
  <2>10. st \in S!Storage
    BY <2>1, <2>5, <2>7, <2>9 DEF S!Storage
  <2>11. S!Content(st) = t
    <3>0. st.buf = S!Block(k + 1, t) /\ st.len = from.len
      BY <2>5
    <3>1. S!Content(st) = SubSeq(S!Block(k + 1, t), 1, k)
      <4> HIDE DEF st
      <4>1. QED
        BY <2>9, <3>0 DEF S!Content, k
    <3>2. k <= Len(t)
      BY <2>2, <2>4
    <3>3. QED
      BY <2>1, <2>2, <2>4, <3>1, <3>2, BlockHolds
  <2>12. ~Over(st)
    BY <2>2, <2>5, <2>9 DEF Over, k
  <2>13. st.len <= 2 * Len(st.buf) /\ st.max <= 2 * Len(st.buf)
    BY <2>2, <2>5, <2>7, <2>9
  <2> HIDE DEF st
  <2>14. Holds(st, t)
    BY <2>1, <2>10, <2>11, <2>12, <2>13 DEF Holds
  <2>15. QED
    BY <2>12, <2>14 DEF st, t
<1>3. QED
  BY <1>1, <1>2

\* A shorter text goes over the beginning of the block that is there.
LEMMA OverwriteHolds ==
  ASSUME NEW st, Sound(st), st.buf # NULL, NEW t \in Seq(S!Signs), NEW n \in Nat,
         n \div 2 = Len(t), n <= 2 * Len(st.buf)
  PROVE  /\ Holds([st EXCEPT !.buf = t \o SubSeq(@, n \div 2 + 1, Len(@)), !.len = n], t)
         /\ ~Over([st EXCEPT !.buf = t \o SubSeq(@, n \div 2 + 1, Len(@)), !.len = n])
<1> DEFINE k == Len(t)
           m == Len(st.buf)
           rest == SubSeq(st.buf, k + 1, m)
           new == t \o rest
           ob == [st EXCEPT !.buf = new, !.len = n]
<1>1. /\ st.buf \in Seq(S!Letters) /\ m \in Nat /\ st.max \in Nat /\ st.max <= 2 * m
      /\ k \in Nat /\ t \in Seq(S!Letters) /\ k <= m
  <2>1. st \in S!Storage
    BY DEF Sound
  <2>2. st.buf \in Seq(S!Letters) /\ st.max \in Nat
    BY <2>1 DEF S!Storage
  <2>3. m \in Nat /\ k \in Nat
    BY <2>2, LenProperties
  <2>4. k <= m
    BY <2>3
  <2>5. QED
    BY <2>2, <2>3, <2>4, SignsAre DEF Sound
<1>2. rest \in Seq(S!Letters) /\ Len(rest) = m - k
  <2>1. \A i \in k + 1..m : st.buf[i] \in S!Letters
    BY <1>1, ElementOfSeq
  <2>2. k + 1 \in Int /\ m \in Int
    BY <1>1
  <2>3. rest \in Seq(S!Letters) /\ Len(rest) = IF k + 1 <= m THEN m - (k + 1) + 1 ELSE 0
    BY <2>1, <2>2, SubSeqProperties
  <2>4. QED
    BY <1>1, <2>3
<1> HIDE DEF rest, k, m
<1>3. /\ new \in Seq(S!Letters) /\ Len(new) = k + (m - k)
      /\ \A i \in 1..k + (m - k) : new[i] = IF i <= k THEN t[i] ELSE rest[i - k]
  BY <1>1, <1>2, ConcatProperties DEF k
<1>4. Len(new) = m /\ new # NULL /\ \A i \in 1..k : new[i] = t[i]
  <2> HIDE DEF new
  <2>1. k + (m - k) = m /\ \A i \in 1..k : i \in 1..m /\ i <= k
    BY <1>1
  <2>2. new # NULL
    BY <1>3, SignsAre
  <2>3. QED
    BY <1>3, <2>1, <2>2
<1>5. SubSeq(new, 1, k) = t
  <2>1. k \in 0..Len(new)
    BY <1>1, <1>4
  <2>2. /\ SubSeq(new, 1, k) \in Seq(S!Letters) /\ Len(SubSeq(new, 1, k)) = k
        /\ \A i \in 1..k : SubSeq(new, 1, k)[i] = new[i]
    BY <1>3, <2>1, First
  <2> HIDE DEF new
  <2>3. QED
    BY <1>1, <1>4, <2>2, SeqEqual DEF k
<1>6. ob.buf = new /\ ob.len = n /\ ob.max = st.max /\ ob \in S!Storage
  <2>1. st \in S!Storage
    BY DEF Sound
  <2> HIDE DEF new
  <2>2. QED
    BY <1>3, <2>1 DEF S!Storage
<1> HIDE DEF ob, new
<1>7. S!Content(ob) = t
  BY <1>4, <1>5, <1>6 DEF S!Content, k
<1>8. ~Over(ob)
  BY <1>1, <1>4, <1>6 DEF Over, k
<1>9. ob.len <= 2 * Len(ob.buf) /\ ob.max <= 2 * Len(ob.buf)
  BY <1>1, <1>4, <1>6 DEF m
<1>10. Holds(ob, t)
  BY <1>6, <1>7, <1>8, <1>9 DEF Holds
<1>11. QED
  BY <1>8, <1>10 DEF ob, new, rest, k, m

\* The length is taken away, and the block stays.
LEMMA EmptiedHolds ==
  ASSUME NEW st, Sound(st)
  PROVE  /\ Holds([st EXCEPT !.len = 0], <<>>)
         /\ \A t \in Seq(S!Signs) : st.buf = NULL /\ st.max > 0 => Holds([st EXCEPT !.len = 0], t)
<1> DEFINE ob == [st EXCEPT !.len = 0]
<1>1. st \in S!Storage
  BY DEF Sound
<1>2. ob.buf = st.buf /\ ob.len = 0 /\ ob.max = st.max /\ ob \in S!Storage
  BY <1>1 DEF S!Storage
<1> HIDE DEF ob
<1>3. S!Content(ob) = <<>>
  <2>1. 0 \div 2 = 0
    OBVIOUS
  <2>2. CASE ob.buf = NULL
    BY <2>2 DEF S!Content
  <2>3. CASE ob.buf # NULL
    <3>1. S!Content(ob) = SubSeq(ob.buf, 1, 0)
      BY <1>2, <2>1, <2>3 DEF S!Content
    <3>2. QED
      BY <3>1, SubSeqEmpty
  <2>4. QED
    BY <2>2, <2>3
<1>4. ob.buf # NULL => Len(ob.buf) \in Nat
  BY <1>1, <1>2, LenProperties DEF S!Storage
<1>5. ~Over(ob) /\ (ob.buf # NULL => ob.len <= 2 * Len(ob.buf) /\ ob.max <= 2 * Len(ob.buf))
  BY <1>2, <1>4 DEF Over, Sound
<1>6. <<>> \in Seq(S!Signs)
  BY EmptySeq
<1>7. Holds(ob, <<>>)
  BY <1>2, <1>3, <1>5, <1>6 DEF Holds
<1>8. \A t \in Seq(S!Signs) : st.buf = NULL /\ st.max > 0 => Holds(ob, t)
  BY <1>2, <1>3, <1>5, <1>6 DEF Holds
<1>9. QED
  BY <1>7, <1>8 DEF ob

-----------------------------------------------------------------------------
(* repalce                                                                 *)

Copies == [pre : Nat, out : Seq(S!Signs), hits : Nat]

LEMMA TurnIs ==
  ASSUME NEW t \in Seq(S!Signs), NEW old \in Seq(S!Signs), NEW ns \in Seq(S!Signs),
         NEW fold, NEW i \in 0..(Len(t) - 1), NEW c \in Copies
  PROVE  /\ S!Turn(t, old, ns, fold, i, c) \in Copies
         /\ c.pre <= i =>
              /\ SubSeq(t, c.pre + 1, i) \in Seq(S!Signs)
              /\ Len(SubSeq(t, c.pre + 1, i)) = i - c.pre
              /\ Len(c.out \o SubSeq(t, c.pre + 1, i) \o ns) = Len(c.out) + (i - c.pre) + Len(ns)
<1>1. /\ c.pre \in Nat /\ c.out \in Seq(S!Signs) /\ c.hits \in Nat
      /\ Len(t) \in Nat /\ Len(old) \in Nat /\ Len(ns) \in Nat /\ Len(c.out) \in Nat /\ i \in Nat
  BY LenProperties DEF Copies
<1> DEFINE piece == SubSeq(t, c.pre + 1, i)
<1>2. piece \in Seq(S!Signs) /\ Len(piece) = IF c.pre + 1 <= i THEN i - (c.pre + 1) + 1 ELSE 0
  <2>1. c.pre + 1 \in Int /\ i \in Int /\ \A j \in c.pre + 1..i : j \in 1..Len(t)
    BY <1>1
  <2>2. \A j \in c.pre + 1..i : t[j] \in S!Signs
    BY <2>1, ElementOfSeq
  <2>3. QED
    BY <2>1, <2>2, SubSeqProperties
<1>3. c.pre <= i => Len(piece) = i - c.pre
  BY <1>1, <1>2
<1> HIDE DEF piece
<1>4. /\ c.out \o piece \in Seq(S!Signs) /\ Len(c.out \o piece) = Len(c.out) + Len(piece)
  BY <1>1, <1>2, ConcatProperties
<1>5. /\ (c.out \o piece) \o ns \in Seq(S!Signs)
      /\ Len((c.out \o piece) \o ns) = Len(c.out) + Len(piece) + Len(ns)
  BY <1>4, ConcatProperties
<1>6. [pre |-> i + Len(old), out |-> (c.out \o piece) \o ns, hits |-> c.hits + 1] \in Copies
  BY <1>1, <1>5 DEF Copies
<1>7. S!Turn(t, old, ns, fold, i, c) \in Copies
  BY <1>6 DEF S!Turn, piece
<1>8. QED
  BY <1>2, <1>3, <1>5, <1>7 DEF piece

LEMMA CopiedIs ==
  ASSUME NEW t \in Seq(S!Signs), NEW old \in Seq(S!Signs), NEW ns \in Seq(S!Signs), NEW fold
  PROVE  /\ S!Copied(t, old, ns, fold) \in [0..Len(t) -> Copies]
         /\ S!Copied(t, old, ns, fold)[0] = [pre |-> 0, out |-> <<>>, hits |-> 0]
         /\ \A i \in 1..Len(t) : S!Copied(t, old, ns, fold)[i] =
              S!Turn(t, old, ns, fold, i - 1, S!Copied(t, old, ns, fold)[i - 1])
<1> DEFINE n == Len(t)
           c0 == [pre |-> 0, out |-> <<>>, hits |-> 0]
           G == [z \in (1..n) \X Copies |-> S!Turn(t, old, ns, fold, z[1] - 1, z[2])]
           p == [i \in 1..n |-> i - 1]
           cd == S!Copied(t, old, ns, fold)
<1>1. n \in Nat /\ c0 \in Copies
  BY LenProperties, EmptySeq DEF Copies
<1>2. G \in [(1..n) \X Copies -> Copies]
  <2>1. ASSUME NEW z \in (1..n) \X Copies
        PROVE  S!Turn(t, old, ns, fold, z[1] - 1, z[2]) \in Copies
    <3>1. z[1] - 1 \in 0..(Len(t) - 1) /\ z[2] \in Copies
      BY <1>1
    <3>2. QED
      BY <3>1, TurnIs
  <2>2. QED
    BY <2>1
<1>3. Descends(p, n)
  BY <1>1 DEF Descends
<1>4. PICK g : Computes(g, n, c0, G, p, Copies)
  <2> HIDE DEF n, c0, G, p
  <2>1. QED
    BY <1>1, <1>2, <1>3, Recursion
<1>5. ASSUME NEW i \in 0..n
      PROVE  g[i] = IF i = 0 THEN c0 ELSE S!Turn(t, old, ns, fold, i - 1, g[i - 1])
  <2>1. ASSUME i # 0 PROVE p[i] = i - 1 /\ g[i - 1] \in Copies /\ i \in 1..n
    BY <1>1, <1>4, <2>1 DEF Computes
  <2>2. ASSUME i # 0, NEW v \in Copies PROVE G[<<i, v>>] = S!Turn(t, old, ns, fold, i - 1, v)
    BY <2>1, <2>2
  <2> HIDE DEF G, p, n, c0
  <2>3. QED
    BY <1>4, <2>1, <2>2 DEF Computes
<1>6. g \in [0..n -> Copies]
  BY <1>4 DEF Computes
<1>7. g = [i \in 0..Len(t) |-> IF i = 0 THEN [pre |-> 0, out |-> <<>>, hits |-> 0]
                               ELSE S!Turn(t, old, ns, fold, i - 1, g[i - 1])]
  BY <1>5, <1>6
<1>8. cd = [i \in 0..Len(t) |-> IF i = 0 THEN [pre |-> 0, out |-> <<>>, hits |-> 0]
                                ELSE S!Turn(t, old, ns, fold, i - 1, cd[i - 1])]
  BY <1>7 DEF S!Copied
<1> HIDE DEF cd
<1>9. /\ cd[0] = [pre |-> 0, out |-> <<>>, hits |-> 0]
      /\ \A i \in 1..Len(t) : cd[i] = S!Turn(t, old, ns, fold, i - 1, cd[i - 1])
  <2>1. ASSUME NEW i \in 0..Len(t)
        PROVE  cd[i] = IF i = 0 THEN [pre |-> 0, out |-> <<>>, hits |-> 0]
                       ELSE S!Turn(t, old, ns, fold, i - 1, cd[i - 1])
    BY <1>8
  <2>2. 0 \in 0..Len(t) /\ \A i \in 1..Len(t) : i \in 0..Len(t) /\ i # 0
    BY <1>1
  <2>3. QED
    BY <2>1, <2>2
<1>10. cd \in [0..Len(t) -> Copies]
  <2> DEFINE Good == {i \in 0..n : cd[i] \in Copies}
  <2>1. 0 \in Good
    BY <1>1, <1>9
  <2>2. ASSUME NEW i \in 0..(n - 1), i \in Good PROVE i + 1 \in Good
    <3>1. i + 1 \in 1..n /\ (i + 1) - 1 = i /\ i \in 0..(Len(t) - 1)
      BY <1>1
    <3>2. cd[i + 1] = S!Turn(t, old, ns, fold, i, cd[i])
      BY <1>9, <3>1
    <3>3. cd[i] \in Copies /\ i + 1 \in 0..n
      BY <1>1, <2>2
    <3>4. S!Turn(t, old, ns, fold, i, cd[i]) \in Copies
      BY <3>1, <3>3, TurnIs
    <3>5. QED
      BY <3>2, <3>3, <3>4
  <2> HIDE DEF Good
  <2>3. \A i \in 0..n : i \in Good
    BY <1>1, <2>1, <2>2, UpTo
  <2>4. QED
    BY <1>8, <2>3 DEF Good
<1>11. QED
  BY <1>9, <1>10 DEF cd

\* How much has been copied when the loop stands at i.
LEMMA CopiedFits ==
  ASSUME NEW t \in Seq(S!Signs), NEW old \in Seq(S!Signs), NEW ns \in Seq(S!Signs), NEW fold,
         NEW i \in 0..Len(t)
  PROVE  LET c == S!Copied(t, old, ns, fold)[i] IN
         /\ c \in Copies /\ c.pre <= Len(t)
         /\ Len(c.out) = c.pre + c.hits * (Len(ns) - Len(old))
         /\ c.hits = 0 => c.pre = 0 /\ c.out = <<>>
<1> DEFINE cd == S!Copied(t, old, ns, fold)
           d == Len(ns) - Len(old)
           Fit(c) == /\ c \in Copies /\ c.pre <= Len(t)
                     /\ Len(c.out) = c.pre + c.hits * d
                     /\ c.hits = 0 => c.pre = 0 /\ c.out = <<>>
           Good == {j \in 0..Len(t) : Fit(cd[j])}
<1>1. /\ cd \in [0..Len(t) -> Copies] /\ cd[0] = [pre |-> 0, out |-> <<>>, hits |-> 0]
      /\ \A j \in 1..Len(t) : cd[j] = S!Turn(t, old, ns, fold, j - 1, cd[j - 1])
  BY CopiedIs
<1>2. Len(t) \in Nat /\ Len(old) \in Nat /\ Len(ns) \in Nat /\ d \in Int
  BY LenProperties
<1> HIDE DEF cd, d
<1>3. 0 \in Good
  <2>1. cd[0].pre = 0 /\ cd[0].out = <<>> /\ cd[0].hits = 0 /\ cd[0] \in Copies
    BY <1>1, <1>2
  <2>2. Len(<<>>) = 0 /\ 0 * d = 0
    BY <1>2
  <2>3. QED
    BY <1>2, <2>1, <2>2
<1>4. ASSUME NEW j \in 0..(Len(t) - 1), j \in Good PROVE j + 1 \in Good
  <2> DEFINE c == cd[j]
             w == cd[j + 1]
  <2>1. j + 1 \in 1..Len(t) /\ (j + 1) - 1 = j /\ j + 1 \in 0..Len(t) /\ j \in Nat
    BY <1>2
  <2>2. w = S!Turn(t, old, ns, fold, j, c) /\ Fit(c)
    BY <1>1, <1>4, <2>1
  <2> HIDE DEF c, w
  <2>3. CASE c.pre <= j /\ j + Len(old) < Len(t) /\ S!At(t, j, old, fold)
    <3>1. /\ w = [pre |-> j + Len(old), out |-> c.out \o SubSeq(t, c.pre + 1, j) \o ns,
                  hits |-> c.hits + 1]
      BY <2>2, <2>3 DEF S!Turn
    <3>2. w \in Copies /\ Len(c.out \o SubSeq(t, c.pre + 1, j) \o ns) = Len(c.out) + (j - c.pre) + Len(ns)
      BY <2>2, <2>3, TurnIs
    <3>3. w.pre = j + Len(old) /\ w.hits = c.hits + 1 /\ Len(w.out) = Len(c.out) + (j - c.pre) + Len(ns)
      BY <3>1, <3>2
    <3>4. c.hits \in Nat /\ c.pre \in Nat /\ Len(c.out) = c.pre + c.hits * d
      BY <2>2 DEF Copies
    <3>5. PICK q \in Int : q = c.hits * d
      BY <1>2, <3>4
    <3>6. w.hits * d = q + d /\ Len(c.out) = c.pre + q
      BY <1>2, <3>3, <3>4, <3>5
    <3>7. j + Len(old) < Len(t) /\ c.pre \in Nat /\ c.hits + 1 # 0
      BY <2>3, <3>4
    <3>8. d = Len(ns) - Len(old)
      BY DEF d
    <3>9. Len(w.out) = w.pre + (q + d)
      <4>1. Len(c.out) = c.pre + q
        BY <3>6
      <4>2. PICK a \in Int, e \in Int, f \in Int : a = c.pre /\ e = Len(ns) /\ f = Len(old)
        BY <1>2, <3>7
      <4>3. Len(w.out) = (a + q) + (j - a) + e /\ w.pre = j + f /\ d = e - f
        BY <3>3, <3>8, <4>1, <4>2
      <4>4. (a + q) + (j - a) + e = j + f + (q + (e - f))
        BY <2>1
      <4>5. QED
        BY <4>3, <4>4
    <3>10. Len(w.out) = w.pre + w.hits * d
      BY <3>6, <3>9
    <3>11. w.pre <= Len(t) /\ w.hits # 0
      BY <1>2, <2>1, <3>3, <3>7
    <3>12. QED
      BY <2>1, <3>2, <3>10, <3>11 DEF w
  <2>4. CASE ~(c.pre <= j /\ j + Len(old) < Len(t) /\ S!At(t, j, old, fold))
    <3>1. w = c
      BY <2>2, <2>4 DEF S!Turn
    <3>2. QED
      BY <2>1, <2>2, <3>1 DEF w
  <2>5. QED
    BY <2>3, <2>4
<1> HIDE DEF Good
<1>5. \A j \in 0..Len(t) : j \in Good
  BY <1>2, <1>3, <1>4, UpTo
<1>6. QED
  BY <1>5 DEF Good, cd, d

LEMMA PiecesAre ==
  ASSUME NEW t \in Seq(S!Signs), NEW old \in Seq(S!Signs), NEW ns \in Seq(S!Signs), NEW fold
  PROVE  /\ S!Pieces(t, old, ns, fold) \in Seq(S!Signs)
         /\ Len(S!Pieces(t, old, ns, fold)) = S!NewSize(t, old, ns, fold)
         /\ S!Copied(t, old, ns, fold)[Len(t)].hits = 0 => S!Pieces(t, old, ns, fold) = t
<1> DEFINE c == S!Copied(t, old, ns, fold)[Len(t)]
           tail == SubSeq(t, c.pre + 1, Len(t))
<1>1. Len(t) \in Nat /\ Len(t) \in 0..Len(t) /\ Len(old) \in Nat /\ Len(ns) \in Nat
  BY LenProperties
<1>2. /\ c \in Copies /\ c.pre <= Len(t)
      /\ Len(c.out) = c.pre + c.hits * (Len(ns) - Len(old))
      /\ c.hits = 0 => c.pre = 0 /\ c.out = <<>>
  BY <1>1, CopiedFits
<1> HIDE DEF c
<1>3. c.pre \in Nat /\ c.out \in Seq(S!Signs) /\ c.hits \in Nat /\ Len(c.out) \in Nat
  BY <1>2, LenProperties DEF Copies
<1>4. tail \in Seq(S!Signs) /\ Len(tail) = Len(t) - c.pre
  <2>1. c.pre + 1 \in Int /\ Len(t) \in Int /\ \A j \in c.pre + 1..Len(t) : j \in 1..Len(t)
    BY <1>1, <1>3
  <2>2. \A j \in c.pre + 1..Len(t) : t[j] \in S!Signs
    BY <2>1, ElementOfSeq
  <2>3. tail \in Seq(S!Signs) /\ Len(tail) = IF c.pre + 1 <= Len(t) THEN Len(t) - (c.pre + 1) + 1 ELSE 0
    BY <2>1, <2>2, SubSeqProperties
  <2>4. QED
    BY <1>1, <1>2, <1>3, <2>3
<1>5. S!Pieces(t, old, ns, fold) = c.out \o tail
  BY DEF S!Pieces, c
<1>6. ASSUME c.hits = 0 PROVE c.out \o tail = t
  <2>1. c.pre = 0 /\ c.out = <<>> /\ c.pre + 1 = 1
    BY <1>2, <1>6
  <2>2. tail = t
    BY <2>1, SubSeqFull
  <2>3. QED
    BY <2>1, <2>2, ConcatEmptySeq
<1> HIDE DEF tail
<1>7. c.out \o tail \in Seq(S!Signs) /\ Len(c.out \o tail) = Len(c.out) + Len(tail)
  BY <1>3, <1>4, ConcatProperties
<1>8. S!NewSize(t, old, ns, fold) = Len(t) + c.hits * (Len(ns) - Len(old))
  BY DEF S!NewSize, c
<1>9. c.hits * (Len(ns) - Len(old)) \in Int
  BY <1>1, <1>3
<1>10. Len(c.out \o tail) = Len(t) + c.hits * (Len(ns) - Len(old))
  <2>1. PICK q \in Int : q = c.hits * (Len(ns) - Len(old))
    BY <1>9
  <2>2. Len(c.out) = c.pre + q
    BY <1>2, <2>1
  <2>3. Len(c.out \o tail) = Len(t) + q
    BY <1>1, <1>3, <1>4, <1>7, <2>2
  <2>4. QED
    BY <2>1, <2>3
<1>11. QED
  BY <1>5, <1>6, <1>7, <1>8, <1>10 DEF c

LEMMA RepalcedHolds ==
  ASSUME NEW t \in Seq(S!Signs), NEW old \in Seq(S!Signs), NEW ns \in Seq(S!Signs), NEW fold
  PROVE  Holds(S!Repalced(t, old, ns, fold), S!Pieces(t, old, ns, fold))
<1> DEFINE new == S!Pieces(t, old, ns, fold)
           hits == S!Copied(t, old, ns, fold)[Len(t)].hits
           st == S!Repalced(t, old, ns, fold)
           n == Len(new)
           r == n % Half
<1>1. /\ new \in Seq(S!Signs) /\ n = S!NewSize(t, old, ns, fold)
      /\ hits = 0 => new = t
  BY PiecesAre
<1>2. CASE hits = 0
  BY <1>1, <1>2, RawHolds DEF S!Repalced
<1>3. CASE hits # 0
  <2>1. st = [buf |-> S!Block(n, new), len |-> S!USHORT(S!USHORT(n) * 2), max |-> S!USHORT(n * 2)]
    BY <1>1, <1>3 DEF S!Repalced
  <2> HIDE DEF new
  <2>2. n \in Nat /\ new \in Seq(S!Letters) /\ Half \in Nat \ {0} /\ S!Limit = Half - 1
    BY <1>1, SignsAre, LenProperties, WidthsAre
  <2> HIDE DEF n
  <2>3. /\ S!USHORT(S!USHORT(n) * 2) = 2 * r /\ r \in 0..(Half - 1) /\ (n < Half => r = n)
        /\ S!USHORT(2 * n) \in Nat /\ S!USHORT(2 * n) <= 2 * n
    BY <2>2, Lengths
  <2>4. r <= n /\ n * 2 = 2 * n
    BY <2>2, ModLess
  <2> HIDE DEF r
  <2>5. S!Block(n, new) \in Seq(S!Letters) /\ Len(S!Block(n, new)) = n /\ S!Block(n, new) # NULL
    BY <2>2, BlockIs
  <2>6. (2 * r) \div 2 = r /\ r \in Nat /\ r \in 0..n
    BY <2>2, <2>3, <2>4
  <2>7. /\ st.buf = S!Block(n, new) /\ st.len = 2 * r /\ st.max = S!USHORT(2 * n)
        /\ st \in S!Storage
    BY <2>1, <2>3, <2>4, <2>5, <2>6 DEF S!Storage
  <2> HIDE DEF st
  <2>8. ~Over(st) /\ st.len <= 2 * Len(st.buf) /\ st.max <= 2 * Len(st.buf)
    BY <2>2, <2>3, <2>4, <2>5, <2>6, <2>7 DEF Over
  <2>9. S!Content(st) = SubSeq(S!Block(n, new), 1, r)
    BY <2>5, <2>6, <2>7 DEF S!Content
  <2>10. S!Content(st) \in Seq(S!Signs) /\ (r = n => S!Content(st) = new)
    BY <1>1, <2>2, <2>4, <2>6, <2>9, BlockHolds DEF n
  <2>11. r = n \/ n > S!Limit
    BY <2>2, <2>3
  <2>12. Holds(st, new)
    BY <2>7, <2>8, <2>10, <2>11 DEF Holds, n
  <2>13. QED
    BY <2>12 DEF st, new
<1>4. QED
  BY <1>2, <1>3

-----------------------------------------------------------------------------
(* Every step keeps the invariant                                          *)

LEMMA Makes ==
  ASSUME S!IInv, ~over, NEW x \in Strings, NEW st, NEW t \in Seq(S!Signs),
         S!Make(x, st, t), Holds(st, t)
  PROVE  S!IInv'
<1>1. S!Put(x, st, t) /\ lost \ {x} \subseteq lost'
  BY DEF S!Make
<1>2. QED
  BY <1>1, Putting

LEMMA LeastIs ==
  ASSUME NEW N \in SUBSET Nat, N # {}
  PROVE  S!Min(N) \in N /\ \A y \in N : S!Min(N) <= y
<1>1. \E x \in N : \A y \in N : x <= y
  BY LeastOf
<1>2. QED
  BY <1>1 DEF S!Min

LEMMA SubstrIs ==
  ASSUME NEW t \in Seq(S!Signs), NEW pos \in Nat, NEW chars \in Nat
  PROVE  S!substr(t, pos, chars) \in Seq(S!Signs)
<1> DEFINE a == IF Len(t) > pos THEN Len(t) - pos ELSE 0
           n == S!Min({a, chars})
<1>1. Len(t) \in Nat /\ a \in Nat
  BY LenProperties
<1>2. n \in {a, chars} /\ n <= a
  <2> HIDE DEF a
  <2>1. {a, chars} \in SUBSET Nat /\ {a, chars} # {}
    BY <1>1
  <2> HIDE DEF n
  <2>2. n \in {a, chars} /\ \A y \in {a, chars} : n <= y
    BY <2>1, LeastIs DEF n
  <2>3. QED
    BY <2>2
<1> HIDE DEF n
<1>3. n \in Nat
  BY <1>1, <1>2
<1>4. pos + 1 \in Int /\ pos + n \in Int /\ \A i \in pos + 1..pos + n : i \in 1..Len(t)
  BY <1>1, <1>2, <1>3
<1>5. \A i \in pos + 1..pos + n : t[i] \in S!Signs
  BY <1>4, ElementOfSeq
<1>6. SubSeq(t, pos + 1, pos + n) \in Seq(S!Signs)
  BY <1>4, <1>5, SubSeqProperties
<1>7. QED
  BY <1>6 DEF S!substr, n, a

\* A string that was searched and had its matches replaced.
LEMMA ResultHolds ==
  ASSUME NEW st, Sound(st), NEW old \in Seq(S!Signs), NEW ns \in Seq(S!Signs)
  PROVE  /\ Holds(S!repalce(st, old, ns), S!Pieces(S!Content(st), old, ns, S!same))
         /\ Holds(S!irepalce(st, old, ns), S!Pieces(S!Content(st), old, ns, S!tolower))
<1>1. S!Content(st) \in Seq(S!Signs)
  BY DEF Sound
<1>2. CASE st.buf # NULL
  BY <1>1, <1>2, RepalcedHolds DEF S!repalce, S!irepalce
<1>3. CASE st.buf = NULL
  <2>1. S!Content(st) = <<>> /\ Len(<<>>) = 0 /\ <<>> \in Seq(S!Signs)
    BY <1>3, EmptySeq DEF S!Content
  <2>2. ASSUME NEW fold, NEW t \in Seq(S!Signs), Len(t) = 0 PROVE S!Pieces(t, old, ns, fold) = t
    <3>1. S!Copied(t, old, ns, fold)[0] = [pre |-> 0, out |-> <<>>, hits |-> 0]
      BY CopiedIs
    <3>2. S!Copied(t, old, ns, fold)[Len(t)].hits = 0
      BY <2>2, <3>1
    <3>3. QED
      BY <3>2, PiecesAre
  <2>3. S!repalce(st, old, ns) = S!Nothing /\ S!irepalce(st, old, ns) = S!Nothing
    BY <1>3 DEF S!repalce, S!irepalce
  <2>4. QED
    BY <2>1, <2>2, <2>3, NothingHolds
<1>4. QED
  BY <1>2, <1>3

LEMMA MakesKeep ==
  ASSUME S!IInv, ~over, NEW x \in Strings
  PROVE  /\ \A t \in Texts : S!Make(x, S!FromRaw(t), t) => S!IInv'
         /\ \A t \in Texts : S!MakeFails(x, t) => S!IInv'
         /\ \A t \in Texts : Len(t) <= S!Limit /\ S!Make(x, S!FromUnicode(t), t) => S!IInv'
         /\ \A t \in Texts : S!Make(x, S!Sized(Len(t)), <<>>) => S!IInv'
<1> SUFFICES ASSUME NEW t \in Texts
             PROVE  /\ S!Make(x, S!FromRaw(t), t) => S!IInv'
                    /\ S!MakeFails(x, t) => S!IInv'
                    /\ Len(t) <= S!Limit /\ S!Make(x, S!FromUnicode(t), t) => S!IInv'
                    /\ S!Make(x, S!Sized(Len(t)), <<>>) => S!IInv'
  OBVIOUS
<1>1. t \in Seq(S!Signs) /\ Len(t) \in Nat /\ <<>> \in Seq(S!Signs)
  <2>1. t \in Seq(S!Signs)
    BY StringsAssumption, SignsAre
  <2>2. QED
    BY <2>1, LenProperties, EmptySeq
<1>2. ASSUME S!Make(x, S!FromRaw(t), t) PROVE S!IInv'
  BY <1>1, <1>2, RawHolds, Makes
<1>3. ASSUME S!MakeFails(x, t) PROVE S!IInv'
  <2>1. S!Put(x, S!Nothing, t) /\ lost \ {x} \subseteq lost' /\ x \in lost'
    BY <1>3 DEF S!MakeFails
  <2>2. Sound(S!Nothing)
    BY NothingHolds DEF Sound, Holds
  <2>3. QED
    BY <1>1, <2>1, <2>2, Putting
<1>4. ASSUME Len(t) <= S!Limit, S!Make(x, S!FromUnicode(t), t) PROVE S!IInv'
  BY <1>1, <1>4, UnicodeHolds, Makes
<1>5. ASSUME S!Make(x, S!Sized(Len(t)), <<>>) PROVE S!IInv'
  BY <1>1, <1>5, SizedHolds, Makes
<1>6. QED
  BY <1>2, <1>3, <1>4, <1>5

LEMMA CopiesKeep ==
  ASSUME S!IInv, ~over, NEW x \in Strings, NEW y \in Strings
  PROVE  /\ S!Make(x, S!CopyOf(str[y]), S!Text(y)) => S!IInv'
         /\ \A pos, chars \in 0..2 :
              LET t == S!substr(S!Text(y), pos, chars) IN
              S!Make(x, IF t = <<>> THEN S!Nothing ELSE S!FromRaw(t), t) => S!IInv'
         /\ \A old, ns \in Words :
              /\ S!Make(x, S!irepalce(str[y], old, ns), S!Pieces(S!Text(y), old, ns, S!tolower)) => S!IInv'
              /\ S!Make(x, S!repalce(str[y], old, ns), S!Pieces(S!Text(y), old, ns, S!same)) => S!IInv'
<1>1. Sound(str[y]) /\ S!Text(y) = S!Content(str[y]) /\ S!Text(y) \in Seq(S!Signs)
  BY ObjectIs DEF Sound
<1>2. ASSUME S!Make(x, S!CopyOf(str[y]), S!Text(y)) PROVE S!IInv'
  BY <1>1, <1>2, CopyHolds, Makes
<1>3. ASSUME NEW pos \in 0..2, NEW chars \in 0..2, NEW t, t = S!substr(S!Text(y), pos, chars),
             S!Make(x, IF t = <<>> THEN S!Nothing ELSE S!FromRaw(t), t)
      PROVE  S!IInv'
  <2>1. t \in Seq(S!Signs)
    <3>1. pos \in Nat /\ chars \in Nat
      OBVIOUS
    <3>2. QED
      BY <1>1, <1>3, <3>1, SubstrIs
  <2>2. Holds(IF t = <<>> THEN S!Nothing ELSE S!FromRaw(t), t)
    BY <2>1, NothingHolds, RawHolds
  <2>3. QED
    BY <1>3, <2>1, <2>2, Makes
<1>4. ASSUME NEW old \in Words, NEW ns \in Words
      PROVE  /\ S!Make(x, S!irepalce(str[y], old, ns), S!Pieces(S!Text(y), old, ns, S!tolower)) => S!IInv'
             /\ S!Make(x, S!repalce(str[y], old, ns), S!Pieces(S!Text(y), old, ns, S!same)) => S!IInv'
  <2>1. old \in Seq(S!Signs) /\ ns \in Seq(S!Signs)
    BY StringsAssumption, SignsAre
  <2>2. ASSUME NEW fold PROVE S!Pieces(S!Text(y), old, ns, fold) \in Seq(S!Signs)
    BY <1>1, <2>1, PiecesAre
  <2>3. /\ Holds(S!irepalce(str[y], old, ns), S!Pieces(S!Text(y), old, ns, S!tolower))
        /\ Holds(S!repalce(str[y], old, ns), S!Pieces(S!Text(y), old, ns, S!same))
    BY <1>1, <2>1, ResultHolds
  <2>4. QED
    BY <2>2, <2>3, Makes
<1>5. QED
  BY <1>2, <1>3, <1>4

LEMMA AssignKeeps ==
  ASSUME S!IInv, ~over, NEW x \in Strings, NEW y \in Strings, S!Assign(x, y)
  PROVE  S!IInv'
<1> DEFINE st == str[x]
           from == str[y]
           t == S!Text(y)
           kept == [st EXCEPT !.len = 0]
           new == IF from.buf = NULL \/ from.len = 0 THEN kept
                  ELSE IF from.len >= st.max THEN S!CopyOf(from)
                  ELSE IF st.buf = NULL THEN kept
                  ELSE [st EXCEPT !.buf = t \o SubSeq(@, from.len \div 2 + 1, Len(@)), !.len = from.len]
<1>1. S!Put(x, new, t) /\ lost \ {x} \subseteq lost'
  BY DEF S!Assign
<1>2. Sound(st) /\ Sound(from) /\ t = S!Content(from) /\ t \in Seq(S!Signs)
  BY ObjectIs DEF Sound
<1> HIDE DEF st, from, t
<1>3. /\ st.max \in Nat /\ from.len \in Nat /\ (from.buf # NULL => from.buf \in Seq(S!Letters))
      /\ (st.buf # NULL => st.buf \in Seq(S!Letters) /\ st.max <= 2 * Len(st.buf))
      /\ (from.buf # NULL => from.len <= 2 * Len(from.buf))
  BY <1>2 DEF Sound, S!Storage
<1>4. Holds(new, t)
  <2>1. CASE from.buf = NULL \/ from.len = 0
    <3>1. t = <<>>
      <4>1. CASE from.buf = NULL
        BY <1>2, <4>1 DEF S!Content
      <4>2. CASE from.buf # NULL /\ from.len = 0
        <5>1. t = SubSeq(from.buf, 1, 0 \div 2) /\ 0 \div 2 = 0
          BY <1>2, <4>2 DEF S!Content
        <5>2. QED
          BY <5>1, SubSeqEmpty
      <4>3. QED
        BY <2>1, <4>1, <4>2
    <3>2. QED
      BY <1>2, <2>1, <3>1, EmptiedHolds
  <2>2. CASE ~(from.buf = NULL \/ from.len = 0) /\ from.len >= st.max
    BY <1>2, <2>2, CopyHolds
  <2>3. CASE ~(from.buf = NULL \/ from.len = 0) /\ ~(from.len >= st.max) /\ st.buf = NULL
    <3>1. st.max > 0
      BY <1>3, <2>3
    <3>2. QED
      BY <1>2, <2>3, <3>1, EmptiedHolds
  <2>4. CASE ~(from.buf = NULL \/ from.len = 0) /\ ~(from.len >= st.max) /\ st.buf # NULL
    <3>1. t = SubSeq(from.buf, 1, from.len \div 2)
      BY <1>2, <2>4 DEF S!Content
    <3>2. Len(from.buf) \in Nat /\ Len(st.buf) \in Nat
      BY <1>3, <2>4, LenProperties
    <3>3. from.len \div 2 \in 0..Len(from.buf)
      BY <1>3, <2>4, <3>2
    <3>4. from.len \div 2 = Len(t)
      BY <1>3, <2>4, <3>1, <3>3, First
    <3>5. from.len <= 2 * Len(st.buf)
      BY <1>3, <2>4, <3>2
    <3>6. Holds([st EXCEPT !.buf = t \o SubSeq(@, from.len \div 2 + 1, Len(@)), !.len = from.len], t)
      BY <1>2, <1>3, <2>4, <3>4, <3>5, OverwriteHolds
    <3>7. QED
      BY <2>4, <3>6
  <2> HIDE DEF new
  <2>5. QED
    BY <2>1, <2>2, <2>3, <2>4
<1> HIDE DEF new
<1>5. QED
  BY <1>1, <1>2, <1>4, Putting

LEMMA AssignFailsKeeps ==
  ASSUME S!IInv, ~over, NEW x \in Strings, NEW y \in Strings, S!AssignFails(x, y)
  PROVE  S!IInv'
<1> DEFINE st == str[x]
           new == [st EXCEPT !.buf = NULL, !.len = 0]
<1>1. S!Put(x, new, S!Text(y)) /\ lost \ {x} \subseteq lost' /\ x \in lost'
  BY DEF S!AssignFails
<1>2. st \in S!Storage /\ S!Text(y) \in Seq(S!Signs)
  BY ObjectIs DEF Sound
<1> HIDE DEF st
<1>3. new.buf = NULL /\ new.len = 0 /\ new \in S!Storage
  BY <1>2 DEF S!Storage
<1> HIDE DEF new
<1>4. S!Content(new) = <<>> /\ <<>> \in Seq(S!Signs)
  BY <1>3, EmptySeq DEF S!Content
<1>5. Sound(new)
  BY <1>3, <1>4 DEF Sound, Over
<1>6. QED
  BY <1>1, <1>2, <1>5, Putting

LEMMA ClearKeeps ==
  ASSUME S!IInv, ~over, NEW x \in Strings, S!Clear(x)
  PROVE  S!IInv'
<1>1. S!Put(x, [str[x] EXCEPT !.len = 0], <<>>) /\ lost \ {x} \subseteq lost'
  BY DEF S!Clear
<1>2. Holds([str[x] EXCEPT !.len = 0], <<>>) /\ <<>> \in Seq(S!Signs)
  BY ObjectIs, EmptiedHolds, EmptySeq
<1>3. QED
  BY <1>1, <1>2, Putting

LEMMA ReplacedIs ==
  ASSUME NEW t \in Seq(S!Signs), NEW old \in S!Signs, NEW nc \in S!Signs
  PROVE  S!Replaced(t, old, nc) \in Seq(S!Signs) /\ Len(S!Replaced(t, old, nc)) = Len(t)
<1>1. Len(t) \in Nat /\ DOMAIN t = 1..Len(t) /\ \A k \in 1..Len(t) : t[k] \in S!Signs
  BY LenProperties, ElementOfSeq
<1>2. S!Replaced(t, old, nc) \in [1..Len(t) -> S!Signs]
  BY <1>1 DEF S!Replaced
<1>3. QED
  BY <1>1, <1>2

LEMMA ReplaceKeeps ==
  ASSUME S!IInv, ~over, NEW x \in Strings, NEW old \in S!Signs, NEW nc \in S!Signs,
         S!Replace(x, old, nc)
  PROVE  S!IInv'
<1> DEFINE st == str[x]
           n == st.len
           t == S!Text(x)
           u == S!Replaced(t, old, nc)
           v == S!Replaced(val[x], old, nc)
           new == [st EXCEPT !.buf = u \o SubSeq(@, Len(t) + 1, Len(@))]
           same == [st EXCEPT !.buf = u \o SubSeq(@, n \div 2 + 1, Len(@)), !.len = n]
<1>1. S!Put(x, new, v) /\ lost \ {x} \subseteq lost' /\ lost' = lost /\ st.buf # NULL
  BY DEF S!Replace
<1>2. /\ Sound(st) /\ t = S!Content(st) /\ t \in Seq(S!Signs) /\ val[x] \in Seq(S!Signs)
      /\ t = val[x] \/ x \in lost \/ Len(val[x]) > S!Limit
  <2>1. /\ Sound(str[x]) /\ S!Text(x) = S!Content(str[x]) /\ val[x] \in Seq(S!Signs)
        /\ \/ S!Text(x) = val[x] \/ x \in lost \/ Len(val[x]) > S!Limit
           \/ (str[x].buf = NULL /\ str[x].max > 0)
    BY ObjectIs
  <2>2. QED
    BY <1>1, <2>1 DEF Sound
<1>3. u \in Seq(S!Signs) /\ Len(u) = Len(t) /\ v \in Seq(S!Signs) /\ Len(v) = Len(val[x])
  BY <1>2, ReplacedIs
<1>4. t = val[x] => u = v
  OBVIOUS
<1> HIDE DEF st, t, u, v
<1>5. st \in S!Storage /\ n \in Nat /\ st.buf \in Seq(S!Letters) /\ n <= 2 * Len(st.buf)
  BY <1>1, <1>2 DEF Sound, S!Storage
<1>6. Len(st.buf) \in Nat /\ n \div 2 \in 0..Len(st.buf)
  <2>1. Len(st.buf) \in Nat
    BY <1>5, LenProperties
  <2>2. QED
    BY <1>5, <2>1
<1>7. n \div 2 = Len(t)
  <2>1. t = SubSeq(st.buf, 1, n \div 2)
    BY <1>1, <1>2 DEF S!Content
  <2>2. QED
    BY <1>5, <1>6, <2>1, First
<1>8. new = same
  BY <1>5, <1>7 DEF S!Storage
<1>9. Holds(same, u) /\ ~Over(same)
  <2>1. n \in Nat /\ n \div 2 = Len(u) /\ n <= 2 * Len(st.buf)
    BY <1>3, <1>5, <1>7
  <2> HIDE DEF n
  <2>2. QED
    BY <1>1, <1>2, <1>3, <2>1, OverwriteHolds
<1> HIDE DEF same, n, new
<1>10. Holds(new, v) \/ (Sound(new) /\ x \in lost')
  <2>1. CASE t = val[x]
    BY <1>4, <1>8, <1>9, <2>1
  <2>2. CASE Len(val[x]) > S!Limit
    <3>1. Len(val[x]) >= S!Limit
      BY <1>2, <2>2, LenProperties, WidthsAre
    <3>2. QED
      BY <1>3, <1>8, <1>9, <2>2, <3>1 DEF Holds
  <2>3. CASE x \in lost
    <3>1. QED
      BY <1>1, <1>8, <1>9, <2>3 DEF Holds, Sound
  <2>4. QED
    BY <1>2, <2>1, <2>2, <2>3
<1>11. QED
  BY <1>1, <1>3, <1>10, Putting DEF new, v

\* An exchange, and what is left of an object that was moved from.
LEMMA SwapKeeps ==
  ASSUME S!IInv, ~over, NEW x \in Strings, NEW y \in Strings, S!Swap(x, y)
  PROVE  S!IInv'
<1> DEFINE other(z) == IF z = x THEN y ELSE IF z = y THEN x ELSE z
<1>1. /\ str \in [Strings -> S!Storage] /\ val \in [Strings -> Seq(S!Signs)]
      /\ str' = [str EXCEPT ![x] = str[y], ![y] = str[x]]
      /\ val' = [val EXCEPT ![x] = val[y], ![y] = val[x]]
      /\ lost' = {z \in Strings : other(z) \in lost} /\ over' = over
  BY DEF S!IInv, S!Swap
<1>2. str' \in [Strings -> S!Storage] /\ val' \in [Strings -> Seq(S!Signs)]
  BY <1>1
<1>3. ASSUME NEW z \in Strings
      PROVE  /\ other(z) \in Strings /\ str'[z] = str[other(z)] /\ val'[z] = val[other(z)]
             /\ (other(z) \in lost => z \in lost')
  BY <1>1
<1> HIDE DEF other
<1>4. ASSUME NEW z \in Strings
      PROVE  /\ str'[z].buf # NULL =>
                  str'[z].len <= 2 * Len(str'[z].buf) /\ str'[z].max <= 2 * Len(str'[z].buf)
             /\ \/ S!Content(str'[z]) = val'[z] \/ z \in lost' \/ Len(val'[z]) > S!Limit
                \/ (str'[z].buf = NULL /\ str'[z].max > 0)
             /\ S!Content(str'[z]) \in Seq(S!Signs)
  <2>1. /\ other(z) \in Strings /\ str'[z] = str[other(z)] /\ val'[z] = val[other(z)]
        /\ (other(z) \in lost => z \in lost')
    BY <1>3
  <2>2. PICK w \in Strings : /\ str'[z] = str[w] /\ val'[z] = val[w] /\ (w \in lost => z \in lost')
    BY <2>1
  <2>3. QED
    BY <2>2, ObjectIs DEF Sound
<1>5. ~over'
  BY <1>1
<1>6. QED
  BY <1>2, <1>4, <1>5 DEF S!IInv, S!TextsKept, S!Text

LEMMA MoveKeeps ==
  ASSUME S!IInv, ~over, NEW x \in Strings, NEW y \in Strings, S!MakeMove(x, y)
  PROVE  S!IInv'
<1>1. /\ str \in [Strings -> S!Storage] /\ val \in [Strings -> Seq(S!Signs)] /\ x # y
      /\ str' = [str EXCEPT ![x] = str[y], ![y] = S!Nothing]
      /\ val' = [val EXCEPT ![x] = val[y], ![y] = <<>>]
      /\ lost' = (lost \ {x, y}) \cup (IF y \in lost THEN {x} ELSE {}) /\ over' = over
  BY DEF S!IInv, S!MakeMove
<1>2. /\ S!Nothing \in S!Storage /\ S!Content(S!Nothing) = <<>> /\ <<>> \in Seq(S!Signs)
      /\ S!Nothing.buf = NULL
  BY NothingHolds, EmptySeq DEF Holds, S!Nothing
<1>3. str' \in [Strings -> S!Storage] /\ val' \in [Strings -> Seq(S!Signs)]
  BY <1>1, <1>2
<1>4. /\ str'[x] = str[y] /\ val'[x] = val[y] /\ (y \in lost => x \in lost')
      /\ str'[y] = S!Nothing /\ val'[y] = <<>>
      /\ \A z \in Strings \ {x, y} : str'[z] = str[z] /\ val'[z] = val[z] /\ (z \in lost => z \in lost')
  BY <1>1
<1>5. ASSUME NEW z \in Strings
      PROVE  /\ str'[z].buf # NULL =>
                  str'[z].len <= 2 * Len(str'[z].buf) /\ str'[z].max <= 2 * Len(str'[z].buf)
             /\ \/ S!Content(str'[z]) = val'[z] \/ z \in lost' \/ Len(val'[z]) > S!Limit
                \/ (str'[z].buf = NULL /\ str'[z].max > 0)
             /\ S!Content(str'[z]) \in Seq(S!Signs)
  <2>1. CASE z = y
    BY <1>2, <1>4, <2>1
  <2>2. CASE z # y
    <3>1. PICK w \in Strings : /\ str'[z] = str[w] /\ val'[z] = val[w] /\ (w \in lost => z \in lost')
      BY <1>4, <2>2
    <3>2. QED
      BY <3>1, ObjectIs DEF Sound
  <2>3. QED
    BY <2>1, <2>2
<1>6. ~over'
  BY <1>1
<1>7. QED
  BY <1>3, <1>5, <1>6 DEF S!IInv, S!TextsKept, S!Text

LEMMA StringsStart == S!Init => S!IInv
<1> SUFFICES ASSUME S!Init PROVE S!IInv
  OBVIOUS
<1>1. str = [x \in Strings |-> S!Nothing] /\ val = [x \in Strings |-> <<>>] /\ over = FALSE
  BY DEF S!Init
<1>2. /\ S!Nothing \in S!Storage /\ S!Content(S!Nothing) = <<>> /\ <<>> \in Seq(S!Signs)
      /\ S!Nothing.buf = NULL
  BY NothingHolds, EmptySeq DEF Holds, S!Nothing
<1>3. QED
  BY <1>1, <1>2 DEF S!IInv, S!TextsKept, S!Text

LEMMA StringsStep == S!IInv /\ S!Next => S!IInv'
<1> SUFFICES ASSUME S!IInv, S!Next PROVE S!IInv'
  OBVIOUS
<1>1. ~over
  BY DEF S!Next
<1>2. PICK x \in Strings :
       \/ \E t \in Texts :
            \/ S!Make(x, S!FromRaw(t), t) \/ S!MakeFails(x, t)
            \/ Len(t) <= S!Limit /\ S!Make(x, S!FromUnicode(t), t)
            \/ S!Make(x, S!Sized(Len(t)), <<>>)
       \/ \E y \in Strings \ {x} :
            \/ S!Make(x, S!CopyOf(str[y]), S!Text(y)) \/ S!MakeMove(x, y)
            \/ S!Assign(x, y) \/ S!AssignFails(x, y) \/ S!Swap(x, y)
            \/ \E pos, chars \in 0..2 :
                 LET t == S!substr(S!Text(y), pos, chars) IN
                 S!Make(x, IF t = <<>> THEN S!Nothing ELSE S!FromRaw(t), t)
            \/ \E old \in Words \ {<<>>}, ns \in Words, fold \in BOOLEAN :
                 LET t == S!Text(y) IN
                 IF fold THEN S!Make(x, S!irepalce(str[y], old, ns), S!Pieces(t, old, ns, S!tolower))
                 ELSE S!Make(x, S!repalce(str[y], old, ns), S!Pieces(t, old, ns, S!same))
       \/ S!Clear(x)
       \/ \E old, nc \in {65, 97} : S!Replace(x, old, nc)
  BY DEF S!Next
<1>3. CASE \E t \in Texts :
            \/ S!Make(x, S!FromRaw(t), t) \/ S!MakeFails(x, t)
            \/ Len(t) <= S!Limit /\ S!Make(x, S!FromUnicode(t), t)
            \/ S!Make(x, S!Sized(Len(t)), <<>>)
  BY <1>1, <1>3, MakesKeep
<1>4. ASSUME NEW y \in Strings \ {x},
            \/ S!Make(x, S!CopyOf(str[y]), S!Text(y)) \/ S!MakeMove(x, y)
            \/ S!Assign(x, y) \/ S!AssignFails(x, y) \/ S!Swap(x, y)
      PROVE S!IInv'
  BY <1>1, <1>4, CopiesKeep, MoveKeeps, AssignKeeps, AssignFailsKeeps, SwapKeeps
<1>5. ASSUME NEW y \in Strings \ {x},
             \E pos, chars \in 0..2 :
                 LET t == S!substr(S!Text(y), pos, chars) IN
                 S!Make(x, IF t = <<>> THEN S!Nothing ELSE S!FromRaw(t), t)
      PROVE S!IInv'
  BY <1>1, <1>5, CopiesKeep
<1>6. ASSUME NEW y \in Strings \ {x}, NEW old \in Words \ {<<>>}, NEW ns \in Words, NEW fold \in BOOLEAN,
                 IF fold THEN S!Make(x, S!irepalce(str[y], old, ns), S!Pieces(S!Text(y), old, ns, S!tolower))
                 ELSE S!Make(x, S!repalce(str[y], old, ns), S!Pieces(S!Text(y), old, ns, S!same))
      PROVE S!IInv'
  BY <1>1, <1>6, CopiesKeep
<1>7. CASE S!Clear(x)
  BY <1>1, <1>7, ClearKeeps
<1>8. ASSUME NEW old \in {65, 97}, NEW nc \in {65, 97}, S!Replace(x, old, nc) PROVE S!IInv'
  <2>1. old \in S!Signs /\ nc \in S!Signs
    BY DEF S!Signs
  <2>2. QED
    BY <1>1, <1>8, <2>1, ReplaceKeeps
<1>9. QED
  BY <1>2, <1>3, <1>4, <1>5, <1>6, <1>7, <1>8

LEMMA StringsNow == Spec => []S!IInv
<1>1. Init => S!IInv
  BY StringsStart DEF Init
<1>2. S!IInv /\ [Next]_<<unit, lists, vectors, tables, others>> => S!IInv'
  <2> SUFFICES ASSUME S!IInv, [Next]_<<unit, lists, vectors, tables, others>> PROVE S!IInv'
    OBVIOUS
  <2>1. CASE S!Next
    BY <2>1, StringsStep
  <2>2. CASE UNCHANGED strings
    <3>1. str' = str /\ val' = val /\ lost' = lost /\ over' = over
      BY <2>2 DEF strings
    <3>2. QED
      BY <3>1 DEF S!IInv, S!TextsKept, S!Text, S!Content, S!Storage, S!Signs, S!Letters, S!Limit, S!power
  <2>3. QED
    BY <2>1, <2>2 DEF Next, others
<1>3. QED
  BY <1>1, <1>2, PTL DEF Spec

\* An object holds the text it was given, inside its block, unless memory or a
\* USHORT ran out (string).
THEOREM TextsStay == Spec => []TextsKept
<1>1. S!IInv => TextsKept
  BY DEF S!IInv, TextsKept
<1>2. QED
  BY <1>1, StringsNow, PTL

-----------------------------------------------------------------------------
(* repalce() and the replacement letter by letter                          *)

LEMMA RestIs ==
  ASSUME NEW t \in Seq(S!Signs), NEW old \in Seq(S!Signs), old # <<>>, NEW ns \in Seq(S!Signs)
  PROVE  /\ S!Rest(t, old, ns) \in [0..Len(t) -> Seq(S!Signs)]
         /\ S!Rest(t, old, ns)[0] = <<>>
         /\ \A n \in 1..Len(t) :
              /\ Len(old) <= n /\ S!At(t, Len(t) - n, old, S!same) =>
                   n - Len(old) \in 0..Len(t) /\ S!Rest(t, old, ns)[n] = ns \o S!Rest(t, old, ns)[n - Len(old)]
              /\ ~(Len(old) <= n /\ S!At(t, Len(t) - n, old, S!same)) =>
                   S!Rest(t, old, ns)[n] = <<t[Len(t) - n + 1]>> \o S!Rest(t, old, ns)[n - 1]
<1> DEFINE l == Len(t)
           R == Seq(S!Signs)
           Hit(n) == Len(old) <= n /\ S!At(t, Len(t) - n, old, S!same)
           G == [z \in (1..l) \X R |-> IF Hit(z[1]) THEN ns \o z[2] ELSE <<t[Len(t) - z[1] + 1]>> \o z[2]]
           p == [n \in 1..l |-> IF Hit(n) THEN n - Len(old) ELSE n - 1]
           rest == S!Rest(t, old, ns)
<1>1. l \in Nat /\ Len(old) \in Nat /\ Len(old) # 0 /\ <<>> \in R
  BY LenProperties, EmptySeq
<1>2. G \in [(1..l) \X R -> R]
  <2>1. ASSUME NEW n \in 1..l, NEW v \in R
        PROVE  ns \o v \in R /\ <<t[Len(t) - n + 1]>> \o v \in R
    <3>1. Len(t) - n + 1 \in 1..Len(t)
      BY <1>1
    <3>2. t[Len(t) - n + 1] \in S!Signs
      BY <3>1, ElementOfSeq
    <3>3. <<t[Len(t) - n + 1]>> \in R
      BY <3>2
    <3>4. QED
      BY <3>3, ConcatProperties
  <2> HIDE DEF Hit, R, l
  <2>2. QED
    BY <2>1
<1>3. Descends(p, l)
  <2>1. ASSUME NEW n \in 1..l PROVE p[n] \in 0..(n - 1)
    <3> HIDE DEF Hit
    <3>1. Hit(n) => n - Len(old) \in 0..(n - 1)
      BY <1>1 DEF Hit
    <3>2. n - 1 \in 0..(n - 1)
      BY <1>1
    <3>3. QED
      BY <3>1, <3>2
  <2> HIDE DEF p
  <2>2. QED
    BY <2>1 DEF Descends
<1>4. PICK g : Computes(g, l, <<>>, G, p, R)
  <2> HIDE DEF l, G, p, R
  <2>1. QED
    BY <1>1, <1>2, <1>3, Recursion
<1>5. g \in [0..l -> R]
  BY <1>4 DEF Computes
<1>6. ASSUME NEW n \in 0..l
      PROVE  g[n] = IF n = 0 THEN <<>> ELSE IF Hit(n) THEN ns \o g[n - Len(old)]
                    ELSE <<t[Len(t) - n + 1]>> \o g[n - 1]
  <2> HIDE DEF Hit
  <2>1. ASSUME n # 0 PROVE n \in 1..l /\ p[n] = IF Hit(n) THEN n - Len(old) ELSE n - 1
    BY <1>1, <2>1
  <2>2. ASSUME n # 0 PROVE g[p[n]] \in R
    <3>1. p[n] \in 0..(n - 1) /\ n \in 1..l
      BY <1>3, <2>1, <2>2 DEF Descends
    <3>2. p[n] \in 0..l
      BY <1>1, <3>1
    <3>3. QED
      BY <1>5, <3>2
  <2>3. ASSUME n # 0, NEW v \in R PROVE G[<<n, v>>] = IF Hit(n) THEN ns \o v ELSE <<t[Len(t) - n + 1]>> \o v
    BY <2>1, <2>3
  <2> HIDE DEF G, p, l, R
  <2>4. QED
    BY <1>4, <2>1, <2>2, <2>3 DEF Computes
<1>7. g = [n \in 0..Len(t) |->
            IF n = 0 THEN <<>>
            ELSE IF Len(old) <= n /\ S!At(t, Len(t) - n, old, S!same) THEN ns \o g[n - Len(old)]
            ELSE <<t[Len(t) - n + 1]>> \o g[n - 1]]
  BY <1>5, <1>6
<1>8. rest = [n \in 0..Len(t) |->
            IF n = 0 THEN <<>>
            ELSE IF Len(old) <= n /\ S!At(t, Len(t) - n, old, S!same) THEN ns \o rest[n - Len(old)]
            ELSE <<t[Len(t) - n + 1]>> \o rest[n - 1]]
  BY <1>7, Zenon DEF S!Rest
<1> HIDE DEF rest
<1>9. ASSUME NEW n \in 0..Len(t)
      PROVE  rest[n] = IF n = 0 THEN <<>> ELSE IF Hit(n) THEN ns \o rest[n - Len(old)]
                       ELSE <<t[Len(t) - n + 1]>> \o rest[n - 1]
  BY <1>8
<1>12. rest[0] = <<>>
  <2>1. 0 \in 0..Len(t)
    BY <1>1
  <2>2. ASSUME NEW n \in 0..Len(t), n = 0 PROVE rest[n] = <<>>
    <3> HIDE DEF Hit
    <3>1. QED
      BY <1>9, <2>2
  <2>3. QED
    BY <2>1, <2>2
<1>10. rest \in [0..l -> R]
  <2>1. \A n \in 1..l : n \in 0..l /\ n # 0 /\ p[n] \in 0..(n - 1) /\ p[n] \in 0..l
    <3> HIDE DEF p
    <3>1. QED
      BY <1>1, <1>3 DEF Descends
  <2>2. ASSUME NEW n \in 1..l, rest[p[n]] \in R PROVE rest[n] \in R
    <3> HIDE DEF Hit, G
    <3>1. G[<<n, rest[p[n]]>>] \in R /\ p[n] = IF Hit(n) THEN n - Len(old) ELSE n - 1
      BY <1>2, <2>2
    <3>2. n \in 0..Len(t) /\ n # 0
      BY <2>1
    <3>3. rest[n] = IF Hit(n) THEN ns \o rest[n - Len(old)] ELSE <<t[Len(t) - n + 1]>> \o rest[n - 1]
      BY <1>9, <3>2
    <3>4. G[<<n, rest[p[n]]>>] = IF Hit(n) THEN ns \o rest[p[n]] ELSE <<t[Len(t) - n + 1]>> \o rest[p[n]]
      BY <2>2 DEF G
    <3> HIDE DEF p, l, R
    <3>5. QED
      BY <3>1, <3>3, <3>4
  <2> DEFINE Good == {n \in 0..l : \A m \in 0..n : rest[m] \in R}
  <2>3. 0 \in Good
    <3>1. 0 \in 0..l /\ \A m \in 0..0 : m = 0
      BY <1>1
    <3>2. QED
      BY <1>1, <1>12, <3>1
  <2>4. ASSUME NEW i \in 0..(l - 1), i \in Good PROVE i + 1 \in Good
    <3>1. i + 1 \in 1..l /\ i + 1 \in 0..l /\ (i + 1) - 1 = i /\ \A m \in 0..(i + 1) : m \in 0..i \/ m = i + 1
      BY <1>1
    <3>2. p[i + 1] \in 0..i
      <4> HIDE DEF p
      <4>1. QED
        BY <1>3, <3>1 DEF Descends
    <3> HIDE DEF p, R, l
    <3>3. rest[p[i + 1]] \in R
      BY <2>4, <3>2
    <3>4. rest[i + 1] \in R
      BY <2>2, <3>1, <3>3
    <3>5. QED
      BY <2>4, <3>1, <3>4
  <2> HIDE DEF Good
  <2>5. \A n \in 0..l : n \in Good
    BY <1>1, <2>3, <2>4, UpTo
  <2>6. \A n \in 0..l : rest[n] \in R
    <3>1. \A n \in 0..l : n \in 0..n
      BY <1>1
    <3>2. QED
      BY <2>5, <3>1 DEF Good
  <2> HIDE DEF R, l
  <2>7. QED
    BY <1>8, <2>6 DEF l
<1>11. ASSUME NEW n \in 1..Len(t)
       PROVE  /\ Hit(n) => n - Len(old) \in 0..Len(t) /\ rest[n] = ns \o rest[n - Len(old)]
              /\ ~Hit(n) => rest[n] = <<t[Len(t) - n + 1]>> \o rest[n - 1]
  <2>1. n \in 0..Len(t) /\ n # 0
    BY <1>1
  <2>2. Hit(n) => n - Len(old) \in 0..Len(t)
    <3> HIDE DEF rest
    <3>1. Hit(n) => Len(old) <= n
      OBVIOUS
    <3>2. QED
      BY <1>1, <3>1
  <2> HIDE DEF Hit
  <2>3. QED
    BY <1>9, <2>1, <2>2
<1>13. QED
  BY <1>10, <1>11, <1>12 DEF rest

\* How far the loop has come, and that it has replaced like the reference so far.
Reached(c, i) == IF c.pre <= i THEN i ELSE c.pre
Follows(t, old, ns, c, i) ==
  S!Reference(t, old, ns) =
    (c.out \o SubSeq(t, c.pre + 1, Reached(c, i))) \o S!Rest(t, old, ns)[Len(t) - Reached(c, i)]

LEMMA PieceIs ==
  ASSUME NEW t \in Seq(S!Signs), NEW a \in Nat, NEW b \in 0..Len(t)
  PROVE  /\ SubSeq(t, a + 1, b) \in Seq(S!Signs)
         /\ b <= a => SubSeq(t, a + 1, b) = <<>>
         /\ a <= b /\ b < Len(t) => SubSeq(t, a + 1, b + 1) = SubSeq(t, a + 1, b) \o <<t[b + 1]>>
<1>1. Len(t) \in Nat /\ b \in Nat /\ a + 1 \in Int /\ \A i \in a + 1..b : i \in 1..Len(t)
  BY LenProperties
<1>2. \A i \in a + 1..b : t[i] \in S!Signs
  BY <1>1, ElementOfSeq
<1>3. SubSeq(t, a + 1, b) \in Seq(S!Signs)
  BY <1>1, <1>2, SubSeqProperties
<1>4. ASSUME b <= a PROVE SubSeq(t, a + 1, b) = <<>>
  <2>1. b < a + 1
    BY <1>1, <1>4
  <2>2. QED
    BY <1>1, <2>1, SubSeqEmpty
<1>5. ASSUME a <= b, b < Len(t)
      PROVE  SubSeq(t, a + 1, b + 1) = SubSeq(t, a + 1, b) \o <<t[b + 1]>>
  <2>1. a + 1 \in 1..Len(t) /\ b + 1 \in (a + 1)..Len(t) /\ (b + 1) - 1 = b
    BY <1>1, <1>5
  <2>2. SubSeq(t, a + 1, b + 1) = SubSeq(t, a + 1, (b + 1) - 1) \o <<t[b + 1]>>
    BY <2>1, SubSeqRecursiveSecond
  <2>3. QED
    BY <2>1, <2>2
<1>6. QED
  BY <1>3, <1>4, <1>5

\* A match that ends the text is what endwith() finds.
LEMMA EndIs ==
  ASSUME NEW t \in Seq(S!Signs), NEW old \in Seq(S!Signs), Len(old) <= Len(t)
  PROVE  S!At(t, Len(t) - Len(old), old, S!same) <=> S!endwith(t, old, S!same)
<1>1. Len(t) \in Nat /\ Len(old) \in Nat
  BY LenProperties
<1>2. ASSUME S!At(t, Len(t) - Len(old), old, S!same), NEW i \in 1..Len(old)
      PROVE  S!same[t[Len(t) - i + 1]] = S!same[old[Len(old) - i + 1]]
  <2>1. Len(old) - i + 1 \in 1..Len(old) /\ Len(t) - Len(old) + (Len(old) - i + 1) = Len(t) - i + 1
    BY <1>1
  <2>2. S!same[t[Len(t) - Len(old) + (Len(old) - i + 1)]] = S!same[old[Len(old) - i + 1]]
    BY <1>2, <2>1 DEF S!At
  <2>3. QED
    BY <2>1, <2>2
<1>3. ASSUME S!endwith(t, old, S!same), NEW k \in 1..Len(old)
      PROVE  S!same[t[Len(t) - Len(old) + k]] = S!same[old[k]]
  <2> DEFINE i == Len(old) - k + 1
  <2>1. i \in 1..Len(old) /\ Len(t) - i + 1 = Len(t) - Len(old) + k /\ Len(old) - i + 1 = k
    BY <1>1
  <2> HIDE DEF i
  <2>2. S!same[t[Len(t) - i + 1]] = S!same[old[Len(old) - i + 1]]
    BY <1>3, <2>1 DEF S!endwith
  <2>3. QED
    BY <2>1, <2>2
<1>4. QED
  BY <1>2, <1>3 DEF S!At, S!endwith

LEMMA TurnHits ==
  ASSUME NEW t, NEW old, NEW ns, NEW fold, NEW i, NEW c,
         c.pre <= i /\ i + Len(old) < Len(t) /\ S!At(t, i, old, fold)
  PROVE  S!Turn(t, old, ns, fold, i, c) =
           [pre |-> i + Len(old), out |-> (c.out \o SubSeq(t, c.pre + 1, i)) \o ns, hits |-> c.hits + 1]
BY DEF S!Turn

LEMMA Regroup ==
  \A a, b, e \in Seq(S!Signs) : (a \o b) \o e = a \o (b \o e)
BY ConcatAssociative

LEMMA TurnFollows ==
  ASSUME NEW t \in Seq(S!Signs), NEW old \in Seq(S!Signs), old # <<>>, NEW ns \in Seq(S!Signs),
         ~S!endwith(t, old, S!same),
         NEW i \in 0..(Len(t) - 1), NEW c \in Copies, c.pre <= Len(t), Follows(t, old, ns, c, i)
  PROVE  Follows(t, old, ns, S!Turn(t, old, ns, S!same, i, c), i + 1)
<1> DEFINE l == Len(t)
           w == S!Turn(t, old, ns, S!same, i, c)
           rest == S!Rest(t, old, ns)
           ref == S!Reference(t, old, ns)
           hit == S!At(t, i, old, S!same)
           R == Seq(S!Signs)
<1>1. /\ l \in Nat /\ i \in Nat /\ i + 1 \in 0..l /\ i \in 0..l /\ i < l /\ l - i \in 1..l /\ l - (l - i) = i
      /\ Len(old) \in Nat /\ Len(old) # 0 /\ c.pre \in Nat /\ c.out \in R
  <2>1. l \in Nat /\ Len(old) \in Nat /\ Len(old) # 0
    BY LenProperties, EmptySeq
  <2>2. c.pre \in Nat /\ c.out \in R
    BY DEF Copies
  <2> HIDE DEF l, R
  <2>3. i \in 0..(l - 1)
    BY DEF l
  <2>4. QED
    BY <2>1, <2>2, <2>3
<1>2. /\ rest \in [0..l -> R]
      /\ Len(old) <= l - i /\ hit => (l - i) - Len(old) \in 0..l /\ rest[l - i] = ns \o rest[(l - i) - Len(old)]
      /\ ~(Len(old) <= l - i /\ hit) => rest[l - i] = <<t[l - (l - i) + 1]>> \o rest[(l - i) - 1]
  <2>1. /\ rest \in [0..l -> R]
        /\ \A n \in 1..l :
              /\ Len(old) <= n /\ S!At(t, l - n, old, S!same) =>
                   n - Len(old) \in 0..l /\ rest[n] = ns \o rest[n - Len(old)]
              /\ ~(Len(old) <= n /\ S!At(t, l - n, old, S!same)) =>
                   rest[n] = <<t[l - n + 1]>> \o rest[n - 1]
    BY RestIs
  <2> HIDE DEF rest, l, R
  <2>2. QED
    BY <1>1, <2>1
<1>3. ASSUME NEW k \in 0..l PROVE rest[k] \in R
  BY <1>2
<1>4. ref = (c.out \o SubSeq(t, c.pre + 1, Reached(c, i))) \o rest[l - Reached(c, i)]
  BY DEF Follows
<1>5. CASE c.pre > i
  <2>1. w = c /\ Reached(c, i) = c.pre /\ Reached(c, i + 1) = c.pre
    BY <1>1, <1>5 DEF S!Turn, Reached
  <2> HIDE DEF w, rest, ref, l
  <2>2. Follows(t, old, ns, w, i + 1)
    BY <1>4, <2>1 DEF Follows, rest, ref, l
  <2>3. QED
    BY <2>2 DEF w
<1>6. CASE c.pre <= i
  <2> DEFINE piece == SubSeq(t, c.pre + 1, i)
  <2>1. Reached(c, i) = i /\ Reached(c, i + 1) = i + 1
    BY <1>1, <1>6 DEF Reached
  <2>2. ref = (c.out \o piece) \o rest[l - i] /\ piece \in R
    BY <1>1, <1>4, <2>1, PieceIs
  <2>3. c.out \o piece \in R
    BY <1>1, <2>2, ConcatProperties
  <2>4. CASE Len(old) <= l - i /\ hit
    <3> DEFINE b == i + Len(old)
    <3>1. b \in 0..l /\ (l - i) - Len(old) = l - b /\ l - b \in 0..l /\ b >= i + 1 /\ b \in Nat
      BY <1>1, <2>4
    <3>2. b < l
      <4>1. CASE b = l
        <5>1. i = Len(t) - Len(old) /\ Len(old) <= Len(t)
          BY <1>1, <4>1
        <5>2. S!At(t, Len(t) - Len(old), old, S!same)
          BY <2>4, <5>1
        <5>3. QED
          BY <5>1, <5>2, EndIs
      <4>2. l \in Nat
        BY <1>1
      <4> HIDE DEF b, l
      <4>3. QED
        BY <3>1, <4>1, <4>2
    <3>3. w = [pre |-> b, out |-> (c.out \o piece) \o ns, hits |-> c.hits + 1]
      <4>1. c.pre <= i /\ i + Len(old) < Len(t) /\ S!At(t, i, old, S!same)
        BY <1>6, <2>4, <3>2
      <4> HIDE DEF rest, ref, R, l, hit
      <4>2. QED
        BY <4>1, TurnHits
    <3> HIDE DEF b, w, piece, rest, ref, R, l, hit
    <3>4. w.pre = b /\ w.out = (c.out \o piece) \o ns
      BY <3>3
    <3>5. Reached(w, i + 1) = b
      BY <1>1, <3>1, <3>4 DEF Reached
    <3>6. rest[l - i] = ns \o rest[l - b] /\ rest[l - b] \in R
      BY <1>2, <1>3, <2>4, <3>1
    <3>7. ref = ((c.out \o piece) \o ns) \o rest[l - b]
      <4>1. ((c.out \o piece) \o ns) \o rest[l - b] = (c.out \o piece) \o (ns \o rest[l - b])
        BY <2>3, <3>6, Regroup, Zenon DEF R
      <4>2. QED
        BY <2>2, <3>6, <4>1
    <3>8. SubSeq(t, b + 1, b) = <<>>
      BY <3>1, PieceIs DEF l
    <3>9. w.out \o <<>> = w.out
      <4>1. w.out \in R
        BY <2>3, <3>4, ConcatProperties DEF R
      <4>2. QED
        BY <4>1, ConcatEmptySeq DEF R
    <3>10. Follows(t, old, ns, w, i + 1)
      <4>1. ref = (w.out \o SubSeq(t, w.pre + 1, Reached(w, i + 1))) \o rest[l - Reached(w, i + 1)]
        BY <3>4, <3>5, <3>7, <3>8, <3>9
      <4>2. QED
        BY <4>1 DEF Follows, ref, rest, l
    <3>11. QED
      BY <3>10 DEF w
  <2>5. CASE ~(Len(old) <= l - i /\ hit)
    <3>1. w = c
      <4>1. ~(i + Len(old) < l /\ hit)
        BY <1>1, <2>5
      <4>2. QED
        BY <4>1 DEF S!Turn
    <3>2. rest[l - i] = <<t[i + 1]>> \o rest[l - (i + 1)] /\ l - (i + 1) \in 0..l
      <4>1. (l - i) - 1 = l - (i + 1) /\ l - (i + 1) \in 0..l
        BY <1>1
      <4>2. QED
        BY <1>1, <1>2, <2>5, <4>1
    <3>3. SubSeq(t, c.pre + 1, i + 1) = piece \o <<t[i + 1]>> /\ <<t[i + 1]>> \in R
      <4>1. i + 1 \in 1..Len(t)
        BY <1>1
      <4>2. t[i + 1] \in S!Signs
        BY <4>1, ElementOfSeq
      <4>3. <<t[i + 1]>> \in R
        BY <4>2
      <4>4. QED
        BY <1>1, <1>6, <4>3, PieceIs
    <3> HIDE DEF w, piece, rest, ref, R, l, hit
    <3>4. rest[l - (i + 1)] \in R
      BY <1>3, <3>2
    <3>5. ref = (c.out \o (piece \o <<t[i + 1]>>)) \o rest[l - (i + 1)]
      <4> DEFINE e == <<t[i + 1]>>
                 v == rest[l - (i + 1)]
      <4>1. ref = (c.out \o piece) \o (e \o v) /\ e \in R /\ v \in R
        BY <2>2, <3>2, <3>3, <3>4
      <4> HIDE DEF e, v
      <4>2. (c.out \o piece) \o (e \o v) = ((c.out \o piece) \o e) \o v
        BY <2>3, <4>1, Regroup, Zenon DEF R
      <4>3. (c.out \o piece) \o e = c.out \o (piece \o e)
        <5>1. PICK a \in R : a = c.out
          BY <1>1
        <5>2. a \o piece \in R /\ (a \o piece) \o e = a \o (piece \o e)
          BY <2>2, <4>1, Regroup, ConcatProperties DEF R
        <5>3. QED
          BY <5>1, <5>2
      <4>4. QED
        BY <4>1, <4>2, <4>3 DEF e, v
    <3>6. Follows(t, old, ns, w, i + 1)
      BY <2>1, <3>1, <3>3, <3>5 DEF Follows, ref, rest, l
    <3>7. QED
      BY <3>6 DEF w
  <2>6. QED
    BY <2>4, <2>5
<1>7. QED
  BY <1>1, <1>5, <1>6

LEMMA PiecesFollow ==
  ASSUME NEW t \in Seq(S!Signs), NEW old \in Seq(S!Signs), old # <<>>, NEW ns \in Seq(S!Signs),
         ~S!endwith(t, old, S!same)
  PROVE  S!Pieces(t, old, ns, S!same) = S!Reference(t, old, ns)
<1> DEFINE cd == S!Copied(t, old, ns, S!same)
           l == Len(t)
           rest == S!Rest(t, old, ns)
           Good == {i \in 0..l : Follows(t, old, ns, cd[i], i)}
<1>1. l \in Nat
  BY LenProperties
<1>2. /\ cd \in [0..l -> Copies] /\ cd[0] = [pre |-> 0, out |-> <<>>, hits |-> 0]
      /\ \A i \in 1..l : cd[i] = S!Turn(t, old, ns, S!same, i - 1, cd[i - 1])
  BY CopiedIs
<1>3. ASSUME NEW i \in 0..l PROVE cd[i] \in Copies /\ cd[i].pre <= l
  BY CopiedFits
<1>4. rest \in [0..l -> Seq(S!Signs)] /\ rest[0] = <<>>
  BY RestIs
<1>5. 0 \in Good
  <2>1. cd[0].pre = 0 /\ cd[0].out = <<>>
    BY <1>2
  <2>2. Reached(cd[0], 0) = 0
    BY <2>1 DEF Reached
  <2>3. 0 \in Nat /\ 0 \in 0..l /\ l \in 0..l /\ l - 0 = l /\ 0 <= 0
    BY <1>1
  <2>4. SubSeq(t, 0 + 1, 0) = <<>>
    BY <2>3, PieceIs
  <2>5. <<>> \o <<>> = <<>> /\ <<>> \o rest[l] = rest[l]
    <3>1. <<>> \in Seq(S!Signs) /\ rest[l] \in Seq(S!Signs)
      BY <1>4, <2>3, EmptySeq
    <3>2. QED
      BY <3>1, ConcatEmptySeq
  <2> HIDE DEF cd, rest, l
  <2>6. S!Reference(t, old, ns) = rest[l]
    BY DEF S!Reference, rest, l
  <2>7. Follows(t, old, ns, cd[0], 0)
    BY <2>1, <2>2, <2>3, <2>4, <2>5, <2>6 DEF Follows, rest, l
  <2>8. QED
    BY <2>3, <2>7
<1>6. ASSUME NEW i \in 0..(l - 1), i \in Good PROVE i + 1 \in Good
  <2>1. i + 1 \in 1..l /\ i + 1 \in 0..l /\ (i + 1) - 1 = i /\ i \in 0..l
    BY <1>1
  <2>2. cd[i + 1] = S!Turn(t, old, ns, S!same, i, cd[i])
    BY <1>2, <2>1
  <2>3. cd[i] \in Copies /\ cd[i].pre <= l /\ Follows(t, old, ns, cd[i], i)
    BY <1>3, <1>6, <2>1
  <2> HIDE DEF cd
  <2>4. Follows(t, old, ns, cd[i + 1], i + 1)
    BY <2>2, <2>3, TurnFollows
  <2>5. QED
    BY <2>1, <2>4
<1> HIDE DEF Good
<1>7. \A i \in 0..l : i \in Good
  BY <1>1, <1>5, <1>6, UpTo
<1>8. l \in 0..l /\ l - l = 0
  BY <1>1
<1>9. Follows(t, old, ns, cd[l], l)
  BY <1>7, <1>8 DEF Good
<1> DEFINE c == cd[l]
<1>10. c.pre \in Nat /\ c.out \in Seq(S!Signs) /\ c.pre <= l
  BY <1>3, <1>8 DEF Copies
<1>11. S!Pieces(t, old, ns, S!same) = c.out \o SubSeq(t, c.pre + 1, l)
  BY DEF S!Pieces
<1> HIDE DEF c
<1>12. Reached(c, l) = l
  BY <1>10 DEF Reached
<1>13. S!Reference(t, old, ns) = (c.out \o SubSeq(t, c.pre + 1, l)) \o rest[0]
  <2> HIDE DEF l, rest, cd
  <2>1. QED
    BY <1>8, <1>9, <1>12 DEF Follows, rest, l, c
<1>14. SubSeq(t, c.pre + 1, l) \in Seq(S!Signs)
  BY <1>8, <1>10, PieceIs
<1>15. c.out \o SubSeq(t, c.pre + 1, l) \in Seq(S!Signs)
  <2> HIDE DEF l
  <2>1. QED
    BY <1>10, <1>14, ConcatProperties
<1>16. QED
  BY <1>4, <1>11, <1>13, <1>15, ConcatEmptySeq

\* repalce() replaces every match, from the left, but one that ends the text, and
\* fills exactly the block whose size it computed (string::repalce).
THEOREM RepalceIsRight == Spec => []RepalceRight
<1>1. S!IInv => RepalceRight
  <2> SUFFICES ASSUME S!IInv, ~over, NEW x \in Strings, NEW old \in Words \ {<<>>}, NEW ns \in Words
               PROVE  LET t == S!Text(x)  new == S!Pieces(t, old, ns, S!same) IN
                      /\ Len(new) = S!NewSize(t, old, ns, S!same)
                      /\ S!endwith(t, old, S!same) \/ new = S!Reference(t, old, ns)
    BY DEF RepalceRight, S!RepalceRight
  <2>1. S!Text(x) \in Seq(S!Signs) /\ old \in Seq(S!Signs) /\ ns \in Seq(S!Signs) /\ old # <<>>
    BY StringsAssumption, SignsAre DEF S!IInv
  <2>2. QED
    BY <2>1, PiecesAre, PiecesFollow
<1>2. QED
  BY <1>1, StringsNow, PTL

-----------------------------------------------------------------------------
(* Searches                                                                *)

LEMMA GreatestIs ==
  ASSUME NEW m \in Nat, NEW N \in SUBSET (0..m), N # {}
  PROVE  S!Max(N) \in N /\ \A y \in N : y <= S!Max(N)
<1> DEFINE M == {m - x : x \in N}
<1>1. M \in SUBSET Nat /\ M # {}
  <2>1. \A x \in N : x \in 0..m
    OBVIOUS
  <2>2. \A x \in N : m - x \in Nat
    BY <2>1
  <2>3. QED
    BY <2>2
<1>2. PICK d \in M : \A y \in M : d <= y
  <2> HIDE DEF M
  <2>1. QED
    BY <1>1, LeastOf
<1>3. PICK x \in N : d = m - x
  BY <1>2
<1>4. ASSUME NEW y \in N PROVE x >= y
  <2>1. m - y \in M
    OBVIOUS
  <2>2. d <= m - y
    BY <1>2, <2>1
  <2>3. QED
    BY <1>3, <2>2
<1>5. \E z \in N : \A y \in N : z >= y
  BY <1>4
<1>6. S!Max(N) \in N /\ \A y \in N : S!Max(N) >= y
  BY <1>5 DEF S!Max
<1>7. QED
  BY <1>6

LEMMA FindIs ==
  ASSUME NEW t \in Seq(S!Signs), NEW u \in Seq(S!Signs), u # <<>>, NEW fold, NEW from \in Nat
  PROVE  LET f == S!find(t, u, from, fold) IN
         /\ f = S!npos \/ (f \in from..(Len(t) - Len(u)) /\ S!At(t, f, u, fold))
         /\ \A p \in from..(Len(t) - Len(u)) : S!At(t, p, u, fold) => f # S!npos /\ f <= p
<1> DEFINE at == {p \in from..(Len(t) - Len(u)) : S!At(t, p, u, fold)}
           f == S!find(t, u, from, fold)
<1>1. Len(t) \in Nat /\ Len(u) \in Nat /\ Len(u) # 0
  BY LenProperties, EmptySeq
<1>2. f = IF at = {} THEN S!npos ELSE S!Min(at)
  BY <1>1 DEF S!find
<1>3. at \in SUBSET Nat
  BY <1>1
<1> HIDE DEF f
<1>4. CASE at = {}
  BY <1>2, <1>4 DEF f
<1>5. CASE at # {}
  <2>1. f \in at /\ \A y \in at : f <= y
    <3> HIDE DEF at
    <3>1. QED
      BY <1>2, <1>3, <1>5, LeastIs
  <2>2. f \in Nat /\ f # S!npos
    BY <1>3, <2>1 DEF S!npos
  <2>3. QED
    BY <2>1, <2>2 DEF f
<1>6. QED
  BY <1>4, <1>5 DEF f

LEMMA RfindIs ==
  ASSUME NEW t \in Seq(S!Signs), NEW u \in Seq(S!Signs), NEW fold
  PROVE  LET r == S!rfind(t, u, fold) IN
         /\ r = S!npos \/ (r \in 1..(Len(t) - Len(u)) /\ S!At(t, r, u, fold))
         /\ \A p \in 1..(Len(t) - Len(u)) : S!At(t, p, u, fold) => r # S!npos /\ p <= r
<1> DEFINE at == {p \in 1..(Len(t) - Len(u)) : S!At(t, p, u, fold)}
           r == S!rfind(t, u, fold)
<1>1. Len(t) \in Nat /\ Len(u) \in Nat
  BY LenProperties
<1>2. r = IF at = {} THEN S!npos ELSE S!Max(at)
  BY DEF S!rfind
<1>3. at \in SUBSET (0..Len(t))
  BY <1>1
<1> HIDE DEF r
<1>4. CASE at = {}
  BY <1>2, <1>4 DEF r
<1>5. CASE at # {}
  <2>1. r \in at /\ \A y \in at : y <= r
    <3> HIDE DEF at
    <3>1. QED
      BY <1>1, <1>2, <1>3, <1>5, GreatestIs
  <2>2. r \in Nat /\ r # S!npos
    BY <1>3, <2>1 DEF S!npos
  <2>3. QED
    BY <2>1, <2>2 DEF r
<1>6. QED
  BY <1>4, <1>5

LEMMA RfindCharIs ==
  ASSUME NEW t \in Seq(S!Signs), NEW c, NEW fold
  PROVE  LET r == S!rfindChar(t, c, fold) IN
         /\ r \in Int /\ r >= S!npos
         /\ \A p \in 1..Len(t) : fold[t[p]] = fold[c] => p - 1 <= r
<1> DEFINE at == {p \in 1..Len(t) : fold[t[p]] = fold[c]}
           r == S!rfindChar(t, c, fold)
<1>1. Len(t) \in Nat
  BY LenProperties
<1>2. r = IF at = {} THEN S!npos ELSE S!Max(at) - 1
  BY DEF S!rfindChar
<1>3. at \in SUBSET (0..Len(t)) /\ at \in SUBSET (1..Len(t))
  BY <1>1
<1> HIDE DEF r
<1>4. CASE at = {}
  BY <1>2, <1>4 DEF S!npos, r
<1>5. CASE at # {}
  <2>1. S!Max(at) \in at /\ \A y \in at : y <= S!Max(at)
    <3> HIDE DEF at
    <3>1. QED
      BY <1>1, <1>3, <1>5, GreatestIs
  <2>2. PICK x \in at : x = S!Max(at) /\ r = x - 1 /\ \A y \in at : y <= x
    BY <1>2, <1>5, <2>1
  <2>3. x \in 1..Len(t) /\ \A y \in at : y \in 1..Len(t)
    BY <1>3
  <2>4. r \in Int /\ r >= S!npos
    BY <1>1, <2>2, <2>3 DEF S!npos
  <2>5. ASSUME NEW p \in 1..Len(t), fold[t[p]] = fold[c] PROVE p - 1 <= r
    <3>1. p \in at
      BY <2>5
    <3>2. QED
      BY <1>1, <2>2, <2>3, <3>1
  <2>6. QED
    BY <2>4, <2>5 DEF r
<1>6. QED
  BY <1>4, <1>5

LEMMA StartIs ==
  ASSUME NEW t \in Seq(S!Signs), NEW u \in Seq(S!Signs), NEW fold
  PROVE  S!startwith(t, u, fold) <=>
           Len(u) <= Len(t) /\ \A k \in 1..Len(u) : fold[t[k]] = fold[u[k]]
<1> DEFINE n == S!Min({Len(t), Len(u)})
           N == {k \in 0..n : k = n \/ u[k + 1] = 0 \/ fold[t[k + 1]] # fold[u[k + 1]]}
           i == S!Min(N)
<1>1. Len(t) \in Nat /\ Len(u) \in Nat
  BY LenProperties
<1>2. n \in {Len(t), Len(u)} /\ n <= Len(t) /\ n <= Len(u) /\ n \in Nat
  <2>1. {Len(t), Len(u)} \in SUBSET Nat /\ {Len(t), Len(u)} # {}
    BY <1>1
  <2>2. n \in {Len(t), Len(u)} /\ \A y \in {Len(t), Len(u)} : n <= y
    <3> HIDE DEF n
    <3>1. QED
      BY <2>1, LeastIs DEF n
  <2> HIDE DEF n
  <2>3. QED
    BY <2>1, <2>2
<1> HIDE DEF n
<1>3. i \in N /\ \A k \in N : i <= k
  <2>1. N \in SUBSET Nat /\ n \in N
    BY <1>2
  <2> HIDE DEF N
  <2>2. QED
    BY <2>1, LeastIs
<1>4. S!startwith(t, u, fold) <=> (i = Len(u) \/ u[i + 1] = 0)
  BY DEF S!startwith, n
<1> HIDE DEF i
<1>5. \A k \in 1..Len(u) : u[k] \in S!Signs /\ u[k] # 0
  <2>1. \A k \in 1..Len(u) : u[k] \in S!Signs
    BY ElementOfSeq
  <2>2. \A c \in S!Signs : c # 0
    BY DEF S!Signs
  <2>3. QED
    BY <2>1, <2>2
<1>6. ASSUME i = Len(u) \/ u[i + 1] = 0
      PROVE  Len(u) <= Len(t) /\ \A k \in 1..Len(u) : fold[t[k]] = fold[u[k]]
  <2>1. i = Len(u)
    <3>1. CASE i < Len(u)
      <4>1. i + 1 \in 1..Len(u)
        BY <1>1, <1>2, <1>3, <3>1
      <4>2. QED
        BY <1>5, <1>6, <4>1
    <3>2. CASE ~(i < Len(u))
      BY <1>1, <1>2, <1>3, <3>2
    <3>3. QED
      BY <3>1, <3>2
  <2>2. n = Len(u) /\ Len(u) <= Len(t)
    BY <1>1, <1>2, <1>3, <2>1
  <2>3. ASSUME NEW k \in 1..Len(u) PROVE fold[t[k]] = fold[u[k]]
    <3>1. k - 1 \in 0..n /\ ~(i <= k - 1) /\ (k - 1) + 1 = k
      BY <1>1, <2>1, <2>2
    <3>2. k - 1 \notin N
      BY <1>3, <3>1
    <3>3. QED
      BY <3>1, <3>2
  <2>4. QED
    BY <2>2, <2>3
<1>7. ASSUME Len(u) <= Len(t), \A k \in 1..Len(u) : fold[t[k]] = fold[u[k]]
      PROVE  i = Len(u)
  <2>1. n = Len(u)
    BY <1>1, <1>2, <1>7
  <2>2. CASE i = n
    BY <2>1, <2>2
  <2>3. CASE i # n
    <3>1. i \in 0..n /\ (u[i + 1] = 0 \/ fold[t[i + 1]] # fold[u[i + 1]])
      BY <1>3, <2>3
    <3>2. i + 1 \in 1..Len(u)
      BY <1>1, <2>1, <2>3, <3>1
    <3>3. QED
      BY <1>5, <1>7, <3>1, <3>2
  <2>4. QED
    BY <2>2, <2>3
<1>8. QED
  BY <1>4, <1>6, <1>7

LEMMA FoldsAre ==
  /\ S!same \in [S!Letters -> S!Letters] /\ S!tolower \in [S!Letters -> S!Letters]
  /\ \A c \in S!Letters : S!same[c] = c
  /\ \A c \in S!Letters : c \in Int
BY DEF S!same, S!tolower, S!Letters

LEMMA LettersAre ==
  ASSUME NEW t \in Seq(S!Signs)
  PROVE  Len(t) \in Nat /\ \A k \in 1..Len(t) : t[k] \in S!Letters /\ t[k] \in S!Signs
<1>1. t \in Seq(S!Letters)
  BY SignsAre
<1>2. QED
  BY <1>1, LenProperties, ElementOfSeq

\* The first place where two texts differ, and that there is none.
Differ(t, u, fold, k) ==
  /\ k \in 1..Len(t) /\ k \in 1..Len(u) /\ fold[t[k]] # fold[u[k]]
  /\ \A j \in 1..(k - 1) : fold[t[j]] = fold[u[j]]
Alike(t, u, fold) == \A k \in 1..Len(t) : k \in 1..Len(u) => fold[t[k]] = fold[u[k]]

LEMMA CompareIs ==
  ASSUME NEW t \in Seq(S!Signs), NEW u \in Seq(S!Signs), NEW fold
  PROVE  \/ \E k \in 1..Len(t) : /\ Differ(t, u, fold, k)
                                 /\ S!compare(t, u, fold) = IF fold[t[k]] < fold[u[k]] THEN -1 ELSE 1
         \/ /\ Alike(t, u, fold)
            /\ S!compare(t, u, fold) =
                 IF Len(u) < Len(t) THEN 1 ELSE IF Len(t) < Len(u) THEN -1 ELSE 0
<1> DEFINE n == S!Min({Len(t), Len(u)})
           apart == {k \in 1..n : fold[t[k]] # fold[u[k]]}
           k0 == S!Min(apart)
           cmp == S!compare(t, u, fold)
<1>1. Len(t) \in Nat /\ Len(u) \in Nat
  BY LenProperties
<1>2. n \in {Len(t), Len(u)} /\ n <= Len(t) /\ n <= Len(u) /\ n \in Nat
  <2>1. {Len(t), Len(u)} \in SUBSET Nat /\ {Len(t), Len(u)} # {}
    BY <1>1
  <2>2. n \in {Len(t), Len(u)} /\ \A y \in {Len(t), Len(u)} : n <= y
    <3> HIDE DEF n
    <3>1. QED
      BY <2>1, LeastIs DEF n
  <2> HIDE DEF n
  <2>3. QED
    BY <2>1, <2>2
<1>3. cmp = IF apart # {} THEN IF fold[t[k0]] < fold[u[k0]] THEN -1 ELSE 1
            ELSE IF Len(u) < Len(t) THEN 1 ELSE IF Len(t) < Len(u) THEN -1 ELSE 0
  BY DEF S!compare
<1> HIDE DEF n, cmp
<1>4. CASE apart # {}
  <2>1. k0 \in apart /\ \A y \in apart : k0 <= y
    <3>1. apart \in SUBSET Nat
      BY <1>2
    <3> HIDE DEF apart
    <3>2. QED
      BY <1>4, <3>1, LeastIs
  <2> HIDE DEF k0
  <2>2. k0 \in 1..n /\ fold[t[k0]] # fold[u[k0]] /\ k0 \in 1..Len(t) /\ k0 \in 1..Len(u)
    BY <1>1, <1>2, <2>1
  <2>3. ASSUME NEW j \in 1..(k0 - 1) PROVE fold[t[j]] = fold[u[j]]
    <3>1. j \in 1..n /\ ~(k0 <= j)
      BY <1>2, <2>2
    <3>2. j \notin apart
      BY <2>1, <3>1
    <3>3. QED
      BY <3>1, <3>2
  <2>4. Differ(t, u, fold, k0)
    BY <2>2, <2>3 DEF Differ
  <2> HIDE DEF apart
  <2>5. cmp = IF fold[t[k0]] < fold[u[k0]] THEN -1 ELSE 1
    BY <1>3, <1>4
  <2>6. QED
    BY <2>2, <2>4, <2>5 DEF cmp
<1>5. CASE apart = {}
  <2>1. ASSUME NEW k \in 1..Len(t), k \in 1..Len(u) PROVE fold[t[k]] = fold[u[k]]
    <3>1. k \in 1..n
      BY <1>1, <1>2, <2>1
    <3>2. QED
      BY <1>5, <3>1
  <2>2. Alike(t, u, fold)
    BY <2>1 DEF Alike
  <2> HIDE DEF apart
  <2>3. QED
    BY <1>3, <1>5, <2>2 DEF cmp
<1>6. QED
  BY <1>4, <1>5

\* What the first difference, or the lack of one, says.
LEMMA CompareAt ==
  ASSUME NEW t \in Seq(S!Signs), NEW u \in Seq(S!Signs), NEW fold
  PROVE  /\ \A k : Differ(t, u, fold, k) =>
              S!compare(t, u, fold) = IF fold[t[k]] < fold[u[k]] THEN -1 ELSE 1
         /\ Alike(t, u, fold) =>
              S!compare(t, u, fold) =
                IF Len(u) < Len(t) THEN 1 ELSE IF Len(t) < Len(u) THEN -1 ELSE 0
<1>1. Len(t) \in Nat /\ Len(u) \in Nat
  BY LenProperties
<1>2. ASSUME NEW k, Differ(t, u, fold, k), NEW l, Differ(t, u, fold, l) PROVE k = l
  <2>1. k \in 1..Len(t) /\ l \in 1..Len(t)
    BY <1>2 DEF Differ
  <2>2. ~(k \in 1..(l - 1)) /\ ~(l \in 1..(k - 1))
    BY <1>2 DEF Differ
  <2>3. QED
    BY <1>1, <2>1, <2>2
<1>3. ASSUME NEW k, Differ(t, u, fold, k) PROVE ~Alike(t, u, fold)
  BY <1>3 DEF Differ, Alike
<1>4. QED
  BY <1>2, <1>3, CompareIs

LEMMA CompareTurns ==
  ASSUME NEW t \in Seq(S!Signs), NEW u \in Seq(S!Signs), NEW fold \in [S!Letters -> S!Letters]
  PROVE  S!compare(t, u, fold) = -S!compare(u, t, fold)
<1>1. Len(t) \in Nat /\ Len(u) \in Nat
  BY LenProperties
<1>2. ASSUME NEW k, Differ(t, u, fold, k)
      PROVE  S!compare(t, u, fold) = -S!compare(u, t, fold)
  <2>1. Differ(u, t, fold, k)
    BY <1>2 DEF Differ
  <2>2. fold[t[k]] \in Int /\ fold[u[k]] \in Int /\ fold[t[k]] # fold[u[k]]
    BY <1>2, LettersAre, FoldsAre DEF Differ
  <2>3. /\ S!compare(t, u, fold) = IF fold[t[k]] < fold[u[k]] THEN -1 ELSE 1
        /\ S!compare(u, t, fold) = IF fold[u[k]] < fold[t[k]] THEN -1 ELSE 1
    BY <1>2, <2>1, CompareAt
  <2>4. QED
    BY <2>2, <2>3
<1>3. ASSUME Alike(t, u, fold)
      PROVE  S!compare(t, u, fold) = -S!compare(u, t, fold)
  <2>1. Alike(u, t, fold)
    BY <1>3 DEF Alike
  <2>2. /\ S!compare(t, u, fold) = IF Len(u) < Len(t) THEN 1 ELSE IF Len(t) < Len(u) THEN -1 ELSE 0
        /\ S!compare(u, t, fold) = IF Len(t) < Len(u) THEN 1 ELSE IF Len(u) < Len(t) THEN -1 ELSE 0
    BY <1>3, <2>1, CompareAt
  <2>3. QED
    BY <1>1, <2>2
<1>4. QED
  BY <1>2, <1>3, CompareIs

\* The texts that compare equal.
LEMMA CompareNull ==
  ASSUME NEW t \in Seq(S!Signs), NEW u \in Seq(S!Signs), NEW fold
  PROVE  /\ S!compare(t, u, fold) = 0 <=> Alike(t, u, fold) /\ Len(t) = Len(u)
         /\ S!compare(t, u, fold) \in {-1, 0, 1}
<1>1. Len(t) \in Nat /\ Len(u) \in Nat
  BY LenProperties
<1>2. ASSUME NEW k, Differ(t, u, fold, k)
      PROVE  S!compare(t, u, fold) \in {-1, 1} /\ ~Alike(t, u, fold)
  <2>1. S!compare(t, u, fold) = IF fold[t[k]] < fold[u[k]] THEN -1 ELSE 1
    BY <1>2, CompareAt
  <2>2. ~Alike(t, u, fold)
    BY <1>2 DEF Differ, Alike
  <2>3. QED
    BY <2>1, <2>2
<1>3. ASSUME Alike(t, u, fold)
      PROVE  /\ S!compare(t, u, fold) \in {-1, 0, 1}
             /\ S!compare(t, u, fold) = 0 <=> Len(t) = Len(u)
  <2>1. S!compare(t, u, fold) = IF Len(u) < Len(t) THEN 1 ELSE IF Len(t) < Len(u) THEN -1 ELSE 0
    BY <1>3, CompareAt
  <2>2. QED
    BY <1>1, <2>1
<1>4. QED
  BY <1>2, <1>3, CompareIs

\* Equal as they are: the same text.
LEMMA CompareSame ==
  ASSUME NEW t \in Seq(S!Signs), NEW u \in Seq(S!Signs)
  PROVE  S!compare(t, u, S!same) = 0 <=> t = u
<1>1. ASSUME S!compare(t, u, S!same) = 0 PROVE t = u
  <2>1. Alike(t, u, S!same) /\ Len(t) = Len(u)
    BY <1>1, CompareNull
  <2>2. ASSUME NEW k \in 1..Len(t) PROVE t[k] = u[k]
    <3>1. S!same[t[k]] = S!same[u[k]] /\ t[k] \in S!Letters /\ u[k] \in S!Letters
      BY <2>1, LettersAre DEF Alike
    <3>2. QED
      BY <3>1, FoldsAre
  <2>3. QED
    BY <2>1, <2>2, SeqEqual
<1>2. ASSUME t = u PROVE S!compare(t, u, S!same) = 0
  <2>1. Alike(t, u, S!same) /\ Len(t) = Len(u)
    BY <1>2 DEF Alike
  <2>2. QED
    BY <2>1, CompareNull
<1>3. QED
  BY <1>1, <1>2

\* What comes before, as a relation.
Before(t, u, fold) ==
  \/ \E k \in 1..Len(t) : Differ(t, u, fold, k) /\ fold[t[k]] < fold[u[k]]
  \/ Alike(t, u, fold) /\ Len(t) < Len(u)

LEMMA CompareLess ==
  ASSUME NEW t \in Seq(S!Signs), NEW u \in Seq(S!Signs), NEW fold
  PROVE  S!compare(t, u, fold) < 0 <=> Before(t, u, fold)
<1>1. Len(t) \in Nat /\ Len(u) \in Nat
  BY LenProperties
<1>2. ASSUME NEW k \in 1..Len(t), Differ(t, u, fold, k)
      PROVE  S!compare(t, u, fold) < 0 <=> fold[t[k]] < fold[u[k]]
  <2>1. S!compare(t, u, fold) = IF fold[t[k]] < fold[u[k]] THEN -1 ELSE 1
    BY <1>2, CompareAt
  <2>2. CASE fold[t[k]] < fold[u[k]]
    BY <2>1, <2>2
  <2>3. CASE ~(fold[t[k]] < fold[u[k]])
    BY <2>1, <2>3
  <2>4. QED
    BY <2>2, <2>3
<1>3. ASSUME Alike(t, u, fold)
      PROVE  S!compare(t, u, fold) < 0 <=> Len(t) < Len(u)
  <2>1. S!compare(t, u, fold) = IF Len(u) < Len(t) THEN 1 ELSE IF Len(t) < Len(u) THEN -1 ELSE 0
    BY <1>3, CompareAt
  <2>2. QED
    BY <1>1, <2>1
<1>4. ASSUME NEW k, Differ(t, u, fold, k) PROVE ~Alike(t, u, fold)
  BY <1>4 DEF Differ, Alike
<1>5. QED
  BY <1>2, <1>3, <1>4, CompareIs DEF Before

LEMMA BeforeGoesOn ==
  ASSUME NEW t \in Seq(S!Signs), NEW u \in Seq(S!Signs), NEW v \in Seq(S!Signs),
         NEW fold \in [S!Letters -> S!Letters], Before(t, u, fold), Before(u, v, fold)
  PROVE  Before(t, v, fold)
<1>1. Len(t) \in Nat /\ Len(u) \in Nat /\ Len(v) \in Nat
  BY LenProperties
<1>2. /\ \A k \in 1..Len(t) : fold[t[k]] \in Int
      /\ \A k \in 1..Len(u) : fold[u[k]] \in Int
      /\ \A k \in 1..Len(v) : fold[v[k]] \in Int
  BY LettersAre, FoldsAre
<1>3. ASSUME NEW k \in 1..Len(t), Differ(t, u, fold, k), fold[t[k]] < fold[u[k]],
             NEW l \in 1..Len(u), Differ(u, v, fold, l), fold[u[l]] < fold[v[l]]
      PROVE  Before(t, v, fold)
  <2> DEFINE m == IF k <= l THEN k ELSE l
  <2>1. k \in 1..Len(u) /\ l \in 1..Len(v) /\ k \in Nat /\ l \in Nat
    BY <1>1, <1>3 DEF Differ
  <2>2. m \in 1..Len(t) /\ m \in 1..Len(u) /\ m \in 1..Len(v)
    BY <1>1, <2>1
  <2>3. fold[t[m]] < fold[v[m]]
    <3>1. CASE k < l
      <4>1. m = k /\ k \in 1..(l - 1)
        BY <2>1, <3>1
      <4>2. fold[u[k]] = fold[v[k]]
        BY <1>3, <4>1 DEF Differ
      <4>3. QED
        BY <1>3, <4>1, <4>2
    <3>2. CASE k = l
      <4>1. m = k
        BY <3>2
      <4>2. fold[t[k]] \in Int /\ fold[u[k]] \in Int /\ fold[v[k]] \in Int
        BY <1>2, <2>1, <3>2
      <4>3. QED
        BY <1>3, <3>2, <4>1, <4>2
    <3>3. CASE k > l
      <4>1. m = l /\ l \in 1..(k - 1)
        BY <2>1, <3>3
      <4>2. fold[t[l]] = fold[u[l]]
        BY <1>3, <4>1 DEF Differ
      <4>3. QED
        BY <1>3, <4>1, <4>2
    <3>4. QED
      BY <2>1, <3>1, <3>2, <3>3
  <2>4. ASSUME NEW j \in 1..(m - 1) PROVE fold[t[j]] = fold[v[j]]
    <3>1. j \in 1..(k - 1) /\ j \in 1..(l - 1)
      BY <2>1
    <3>2. QED
      BY <1>3, <3>1 DEF Differ
  <2>5. fold[t[m]] # fold[v[m]]
    <3>1. fold[t[m]] \in Int /\ fold[v[m]] \in Int
      BY <1>2, <2>2
    <3>2. QED
      BY <2>3, <3>1
  <2> HIDE DEF m
  <2>6. QED
    BY <2>2, <2>3, <2>4, <2>5 DEF Before, Differ
<1>4. ASSUME NEW k \in 1..Len(t), Differ(t, u, fold, k), fold[t[k]] < fold[u[k]],
             Alike(u, v, fold), Len(u) < Len(v)
      PROVE  Before(t, v, fold)
  <2>1. k \in 1..Len(u) /\ k \in 1..Len(v)
    BY <1>1, <1>4 DEF Differ
  <2>2. \A j \in 1..k : j \in 1..Len(u) /\ j \in 1..Len(v)
    BY <1>1, <2>1
  <2>3. \A j \in 1..k : fold[u[j]] = fold[v[j]]
    BY <1>4, <2>2 DEF Alike
  <2>4. \A j \in 1..(k - 1) : j \in 1..k
    BY <1>1, <2>1
  <2>5. k \in 1..k
    BY <1>1, <2>1
  <2>6. QED
    BY <1>4, <2>1, <2>3, <2>4, <2>5 DEF Differ, Before
<1>5. ASSUME Alike(t, u, fold), Len(t) < Len(u),
             NEW l \in 1..Len(u), Differ(u, v, fold, l), fold[u[l]] < fold[v[l]]
      PROVE  Before(t, v, fold)
  <2>1. CASE l <= Len(t)
    <3>1. l \in 1..Len(t) /\ l \in 1..Len(v) /\ \A j \in 1..l : j \in 1..Len(t) /\ j \in 1..Len(u)
      BY <1>1, <1>5, <2>1 DEF Differ
    <3>2. \A j \in 1..l : fold[t[j]] = fold[u[j]]
      BY <1>5, <3>1 DEF Alike
    <3>3. \A j \in 1..(l - 1) : j \in 1..l
      BY <1>1
    <3>4. l \in 1..l
      BY <1>1
    <3>5. QED
      BY <1>5, <3>1, <3>2, <3>3, <3>4 DEF Differ, Before
  <2>2. CASE Len(t) < l
    <3>1. \A j \in 1..Len(t) : j \in 1..(l - 1) /\ j \in 1..Len(u)
      BY <1>1, <2>2
    <3>2. Len(t) < Len(v)
      BY <1>1, <1>5, <2>2 DEF Differ
    <3>3. Alike(t, v, fold)
      BY <1>5, <3>1 DEF Alike, Differ
    <3>4. QED
      BY <3>2, <3>3 DEF Before
  <2>3. QED
    BY <1>1, <2>1, <2>2
<1>6. ASSUME Alike(t, u, fold), Len(t) < Len(u), Alike(u, v, fold), Len(u) < Len(v)
      PROVE  Before(t, v, fold)
  <2>1. Len(t) < Len(v) /\ \A j \in 1..Len(t) : j \in 1..Len(u) /\ j \in 1..Len(v)
    BY <1>1, <1>6
  <2>2. Alike(t, v, fold)
    BY <1>6, <2>1 DEF Alike
  <2>3. QED
    BY <2>1, <2>2 DEF Before
<1>7. QED
  BY <1>3, <1>4, <1>5, <1>6 DEF Before

LEMMA SearchesAgree ==
  ASSUME NEW t \in Seq(S!Signs), NEW u \in Seq(S!Signs), u # <<>>
  PROVE  LET f == S!find(t, u, 0, S!same)  r == S!rfind(t, u, S!same) IN
         /\ f = S!npos => r = S!npos
         /\ f > 0 => f <= r /\ S!find(t, u, r + 1, S!same) = S!npos
         /\ f = 0 <=> S!startwith(t, u, S!same)
         /\ S!endwith(t, u, S!same) =>
              S!find(t, u, Len(t) - Len(u), S!same) = Len(t) - Len(u)
         /\ S!rfindChar(t, u[1], S!same) >= r
         /\ f # S!npos => S!find(t, u, 0, S!tolower) \in 0..f
<1> DEFINE f == S!find(t, u, 0, S!same)
           r == S!rfind(t, u, S!same)
           d == Len(t) - Len(u)
           Here(p) == S!At(t, p, u, S!same)
<1>1. /\ Len(t) \in Nat /\ Len(u) \in Nat /\ Len(u) # 0 /\ d \in Int /\ S!npos = -1
      /\ 1 \in 1..Len(u)
  BY LenProperties, EmptySeq DEF S!npos
<1>2. /\ f = S!npos \/ (f \in 0..d /\ Here(f))
      /\ \A p \in 0..d : Here(p) => f # S!npos /\ f <= p
  BY FindIs
<1>3. /\ r = S!npos \/ (r \in 1..d /\ Here(r))
      /\ \A p \in 1..d : Here(p) => r # S!npos /\ p <= r
  BY RfindIs
<1> HIDE DEF f, r
<1>4. ASSUME f = S!npos PROVE r = S!npos
  <2>1. ASSUME r \in 1..d, Here(r) PROVE FALSE
    <3>1. r \in 0..d
      BY <1>1, <2>1
    <3>2. QED
      BY <1>2, <1>4, <2>1, <3>1
  <2>2. QED
    BY <1>3, <2>1
<1>5. ASSUME f > 0 PROVE f <= r /\ S!find(t, u, r + 1, S!same) = S!npos
  <2>1. f \in 1..d /\ Here(f)
    BY <1>1, <1>2, <1>5
  <2>2. f <= r /\ r # S!npos
    BY <1>3, <2>1
  <2>3. r \in 1..d /\ r + 1 \in Nat
    BY <1>1, <1>3, <2>2
  <2> DEFINE g == S!find(t, u, r + 1, S!same)
  <2>4. g = S!npos \/ (g \in (r + 1)..d /\ Here(g))
    BY <2>3, FindIs
  <2> HIDE DEF g
  <2>5. ASSUME g \in (r + 1)..d, Here(g) PROVE FALSE
    <3>1. g \in 1..d /\ ~(g <= r)
      BY <1>1, <2>3, <2>5
    <3>2. QED
      BY <1>3, <2>5, <3>1
  <2>6. QED
    BY <2>2, <2>4, <2>5 DEF g
<1>6. f = 0 <=> S!startwith(t, u, S!same)
  <2>1. S!startwith(t, u, S!same) <=> Len(u) <= Len(t) /\ \A k \in 1..Len(u) : S!same[t[k]] = S!same[u[k]]
    BY StartIs
  <2>2. Here(0) <=> \A k \in 1..Len(u) : S!same[t[k]] = S!same[u[k]]
    <3>1. \A k \in 1..Len(u) : 0 + k = k
      OBVIOUS
    <3>2. QED
      BY <3>1 DEF S!At
  <2> HIDE DEF Here, d
  <2>3. ASSUME f = 0 PROVE Len(u) <= Len(t) /\ Here(0)
    <3>1. 0 \in 0..d /\ Here(0)
      BY <1>1, <1>2, <2>3
    <3>2. QED
      BY <1>1, <3>1 DEF d
  <2>4. ASSUME Len(u) <= Len(t), Here(0) PROVE f = 0
    <3>1. 0 \in 0..d
      BY <1>1, <2>4 DEF d
    <3>2. f # S!npos /\ f <= 0
      BY <1>2, <2>4, <3>1
    <3>3. QED
      BY <1>1, <1>2, <3>2
  <2>5. QED
    BY <2>1, <2>2, <2>3, <2>4
<1>7. ASSUME S!endwith(t, u, S!same) PROVE S!find(t, u, d, S!same) = d
  <2>1. Len(u) <= Len(t)
    BY <1>7 DEF S!endwith
  <2>2. Here(d) /\ d \in Nat /\ d \in d..d
    BY <1>1, <1>7, <2>1, EndIs
  <2> DEFINE g == S!find(t, u, d, S!same)
  <2>3. g = S!npos \/ g \in d..d
    BY <2>2, FindIs
  <2>4. g # S!npos
    BY <2>2, FindIs
  <2> HIDE DEF g, d
  <2>5. g = d
    BY <2>2, <2>3, <2>4
  <2>6. QED
    BY <2>5 DEF g
<1>8. S!rfindChar(t, u[1], S!same) >= r
  <2> DEFINE g == S!rfindChar(t, u[1], S!same)
  <2>1. /\ g \in Int /\ g >= S!npos
        /\ \A p \in 1..Len(t) : S!same[t[p]] = S!same[u[1]] => p - 1 <= g
    BY RfindCharIs
  <2> HIDE DEF g
  <2>2. ASSUME r \in 1..d, Here(r) PROVE g >= r
    <3>1. r + 1 \in 1..Len(t) /\ (r + 1) - 1 = r
      BY <1>1, <2>2
    <3>2. S!same[t[r + 1]] = S!same[u[1]]
      BY <1>1, <2>2 DEF S!At
    <3>3. QED
      BY <2>1, <3>1, <3>2
  <2>3. QED
    BY <1>3, <2>1, <2>2 DEF g
<1>9. ASSUME f # S!npos PROVE S!find(t, u, 0, S!tolower) \in 0..f
  <2> DEFINE g == S!find(t, u, 0, S!tolower)
  <2>1. /\ g = S!npos \/ (g \in 0..d /\ S!At(t, g, u, S!tolower))
        /\ \A p \in 0..d : S!At(t, p, u, S!tolower) => g # S!npos /\ g <= p
    BY FindIs
  <2> HIDE DEF g
  <2>2. f \in 0..d /\ Here(f)
    BY <1>2, <1>9
  <2>3. ASSUME NEW k \in 1..Len(u) PROVE S!tolower[t[f + k]] = S!tolower[u[k]]
    <3>1. f + k \in 1..Len(t)
      BY <1>1, <2>2
    <3>2. t[f + k] \in S!Letters /\ u[k] \in S!Letters
      BY <3>1, LettersAre
    <3>3. S!same[t[f + k]] = S!same[u[k]]
      BY <2>2 DEF S!At
    <3>4. QED
      BY <3>2, <3>3, FoldsAre
  <2>4. S!At(t, f, u, S!tolower)
    BY <2>3 DEF S!At
  <2>5. g # S!npos /\ g <= f /\ g \in 0..d
    BY <2>1, <2>2, <2>4
  <2>6. QED
    BY <1>1, <2>2, <2>5 DEF g
<1>10. QED
  BY <1>4, <1>5, <1>6, <1>7, <1>8, <1>9 DEF f, r

-----------------------------------------------------------------------------
(* Hashes                                                                  *)

\* A recursion from each number to the next.
Steps(g, n, c, G, R) ==
  /\ g \in [0..n -> R] /\ g[0] = c
  /\ \A i \in 1..n : g[i] = G[<<i, g[i - 1]>>]

LEMMA Stepwise ==
  ASSUME NEW n \in Nat, NEW R, NEW c \in R, NEW G \in [(1..n) \X R -> R]
  PROVE  \E g : Steps(g, n, c, G, R)
<1> DEFINE p == [i \in 1..n |-> i - 1]
<1>1. Descends(p, n)
  BY DEF Descends
<1>2. \A i \in 1..n : p[i] = i - 1 /\ i # 0 /\ i \in 0..n
  OBVIOUS
<1>3. 0 \in 0..n
  OBVIOUS
<1> HIDE DEF p
<1>4. PICK g : Computes(g, n, c, G, p, R)
  BY <1>1, Recursion
<1>5. g[0] = c /\ \A i \in 1..n : g[i] = G[<<i, g[i - 1]>>]
  BY <1>2, <1>3, <1>4 DEF Computes
<1>6. QED
  BY <1>4, <1>5 DEF Computes, Steps

\* The function whose last value is the hash.
hash(t, fold) ==
  CHOOSE h : h = [i \in 0..Len(t) |-> IF i = 0 THEN 0 ELSE (h[i - 1] * 131 + fold[t[i]]) % S!HashMod]

LEMMA HashIs ==
  ASSUME NEW t \in Seq(S!Signs), NEW fold \in [S!Letters -> S!Letters]
  PROVE  /\ S!BKDRHash(t, fold) = hash(t, fold)[Len(t)]
         /\ hash(t, fold)[0] = 0
         /\ \A i \in 1..Len(t) : /\ hash(t, fold)[i - 1] \in Nat /\ hash(t, fold)[i] \in Nat
                                 /\ hash(t, fold)[i] =
                                      (hash(t, fold)[i - 1] * 131 + fold[t[i]]) % S!HashMod
<1> DEFINE n == Len(t)
           m == S!HashMod
           R == Nat
           G == [z \in (1..n) \X R |-> (z[2] * 131 + fold[t[z[1]]]) % m]
           h == hash(t, fold)
<1>1. n \in Nat /\ m \in Nat \ {0} /\ \A i \in 1..n : fold[t[i]] \in Nat
  <2>1. \A c \in S!Letters : c \in Nat
    BY DEF S!Letters
  <2>2. QED
    BY <2>1, LettersAre, WidthsAre
<1> HIDE DEF m
<1>2. ASSUME NEW i \in 1..n, NEW v \in Nat PROVE (v * 131 + fold[t[i]]) % m \in Nat
  <2>1. v * 131 + fold[t[i]] \in Nat
    BY <1>1
  <2>2. QED
    BY <1>1, <2>1, ModLess
<1>3. G \in [(1..n) \X R -> R]
  <2> HIDE DEF n
  <2>1. QED
    BY <1>2
<1>4. PICK g : Steps(g, n, 0, G, R)
  <2>1. n \in Nat /\ 0 \in R
    BY <1>1
  <2> HIDE DEF n, G, R
  <2>2. QED
    BY <1>3, <2>1, Stepwise
<1>5. ASSUME NEW i \in 1..n PROVE g[i - 1] \in Nat /\ g[i] = (g[i - 1] * 131 + fold[t[i]]) % m
  <2>1. i - 1 \in 0..n
    BY <1>1
  <2>2. g[i - 1] \in Nat
    BY <1>4, <2>1 DEF Steps
  <2>3. ASSUME NEW v \in Nat PROVE G[<<i, v>>] = (v * 131 + fold[t[i]]) % m
    OBVIOUS
  <2> HIDE DEF G
  <2>4. QED
    BY <1>4, <2>2, <2>3 DEF Steps
<1>6. g = [i \in 0..Len(t) |-> IF i = 0 THEN 0 ELSE (g[i - 1] * 131 + fold[t[i]]) % S!HashMod]
  <2>1. \A i \in 0..n : i = 0 \/ i \in 1..n
    BY <1>1
  <2>2. QED
    BY <1>4, <1>5, <2>1 DEF m, Steps
<1>7. h = [i \in 0..Len(t) |-> IF i = 0 THEN 0 ELSE (h[i - 1] * 131 + fold[t[i]]) % S!HashMod]
  BY <1>6, Zenon DEF hash
<1>8. S!BKDRHash(t, fold) = h[Len(t)]
  BY DEF S!BKDRHash, hash
<1> HIDE DEF h
<1>9. h[0] = 0 /\ \A i \in 1..n : h[i] = (h[i - 1] * 131 + fold[t[i]]) % m
  <2>1. 0 \in 0..n /\ \A i \in 1..n : i \in 0..n /\ i # 0
    BY <1>1
  <2>2. QED
    BY <1>7, <2>1 DEF m
<1>10. \A i \in 0..n : h[i] \in Nat
  <2> DEFINE Good == {i \in 0..n : h[i] \in Nat}
  <2>1. 0 \in Good
    BY <1>1, <1>9
  <2>2. ASSUME NEW i \in 0..(n - 1), i \in Good PROVE i + 1 \in Good
    <3>1. i + 1 \in 1..n /\ i + 1 \in 0..n /\ (i + 1) - 1 = i /\ h[i] \in Nat
      BY <1>1, <2>2
    <3>2. h[i + 1] = (h[i] * 131 + fold[t[i + 1]]) % m
      BY <1>9, <3>1
    <3>3. QED
      BY <1>2, <3>1, <3>2
  <2> HIDE DEF Good
  <2>3. \A i \in 0..n : i \in Good
    BY <1>1, <2>1, <2>2, UpTo
  <2>4. QED
    BY <2>3 DEF Good
<1>11. \A i \in 1..n : i - 1 \in 0..n /\ i \in 0..n
  BY <1>1
<1>12. QED
  BY <1>8, <1>9, <1>10, <1>11 DEF h, m

\* Texts that compare equal have one hash.
LEMMA HashFollows ==
  ASSUME NEW t \in Seq(S!Signs), NEW u \in Seq(S!Signs), NEW fold \in [S!Letters -> S!Letters],
         S!compare(t, u, fold) = 0
  PROVE  S!BKDRHash(t, fold) = S!BKDRHash(u, fold)
<1> DEFINE n == Len(t)
           h == hash(t, fold)
           g == hash(u, fold)
           Good == {i \in 0..n : h[i] = g[i]}
<1>1. n \in Nat /\ n = Len(u) /\ Alike(t, u, fold)
  BY CompareNull, LenProperties
<1>2. /\ S!BKDRHash(t, fold) = h[n] /\ h[0] = 0 /\ S!BKDRHash(u, fold) = g[n] /\ g[0] = 0
      /\ \A i \in 1..n : /\ h[i] = (h[i - 1] * 131 + fold[t[i]]) % S!HashMod
                         /\ g[i] = (g[i - 1] * 131 + fold[u[i]]) % S!HashMod
  <2>1. /\ S!BKDRHash(t, fold) = h[n] /\ h[0] = 0
        /\ \A i \in 1..n : h[i] = (h[i - 1] * 131 + fold[t[i]]) % S!HashMod
    BY HashIs
  <2>2. /\ S!BKDRHash(u, fold) = g[Len(u)] /\ g[0] = 0
        /\ \A i \in 1..Len(u) : g[i] = (g[i - 1] * 131 + fold[u[i]]) % S!HashMod
    BY HashIs
  <2> HIDE DEF h, g
  <2>3. QED
    BY <1>1, <2>1, <2>2
<1> HIDE DEF h, g
<1>3. 0 \in Good
  BY <1>1, <1>2
<1>4. ASSUME NEW i \in 0..(n - 1), i \in Good PROVE i + 1 \in Good
  <2>1. i + 1 \in 1..n /\ i + 1 \in 0..n /\ (i + 1) - 1 = i /\ h[i] = g[i]
    BY <1>1, <1>4
  <2>2. fold[t[i + 1]] = fold[u[i + 1]]
    BY <1>1, <2>1 DEF Alike
  <2>3. /\ h[i + 1] = (h[i] * 131 + fold[t[i + 1]]) % S!HashMod
        /\ g[i + 1] = (g[i] * 131 + fold[u[i + 1]]) % S!HashMod
    BY <1>2, <2>1
  <2>4. h[i + 1] = g[i + 1]
    BY <2>1, <2>2, <2>3
  <2>5. QED
    BY <2>1, <2>4
<1> HIDE DEF Good
<1>5. \A i \in 0..n : i \in Good
  BY <1>1, <1>3, <1>4, UpTo
<1>6. n \in 0..n
  BY <1>1
<1>7. QED
  BY <1>2, <1>5, <1>6 DEF Good

LEMMA PowersGrow ==
  ASSUME NEW b \in 0..Bits, NEW a \in 0..b
  PROVE  S!power[a] \in Nat /\ S!power[b] \in Nat /\ S!power[a] <= S!power[b]
<1> DEFINE Good == {d \in 0..(b - a) : S!power[a] <= S!power[a + d]}
<1>1. Bits \in Nat /\ b \in Nat /\ a \in Nat /\ b - a \in Nat /\ b <= Bits
  BY StringsAssumption DEF Bits
<1>2. \A k \in 0..Bits : S!power[k] \in Nat
  BY PowerIs
<1>3. 0 \in Good
  <2>1. a + 0 = a /\ a \in 0..Bits /\ 0 \in 0..(b - a)
    BY <1>1
  <2>2. S!power[a] <= S!power[a]
    BY <1>2, <2>1
  <2>3. QED
    BY <2>1, <2>2
<1>4. ASSUME NEW d \in 0..((b - a) - 1), d \in Good PROVE d + 1 \in Good
  <2>1. a + d \in 0..Bits /\ a + (d + 1) \in 1..Bits /\ (a + (d + 1)) - 1 = a + d /\ d + 1 \in 0..(b - a)
        /\ a \in 0..Bits
    BY <1>1
  <2>2. S!power[a + (d + 1)] = 2 * S!power[a + d]
    BY <2>1, PowerIs
  <2>3. S!power[a] \in Nat /\ S!power[a + d] \in Nat /\ S!power[a] <= S!power[a + d]
    BY <1>2, <1>4, <2>1
  <2>4. S!power[a] <= S!power[a + (d + 1)]
    BY <2>2, <2>3
  <2>5. QED
    BY <2>1, <2>4
<1> HIDE DEF Good
<1>5. \A d \in 0..(b - a) : d \in Good
  BY <1>1, <1>3, <1>4, UpTo
<1>6. b - a \in 0..(b - a) /\ a + (b - a) = b /\ a \in 0..Bits
  BY <1>1
<1>7. S!power[a] <= S!power[a + (b - a)]
  BY <1>5, <1>6 DEF Good
<1>8. QED
  BY <1>2, <1>6, <1>7

LEMMA ByteIs ==
  ASSUME NEW k \in Nat, k + 8 <= Bits
  PROVE  S!power[k] \in Nat /\ S!power[k + 8] = 256 * S!power[k]
<1>1. Bits \in Nat
  BY StringsAssumption DEF Bits
<1>2. ASSUME NEW j \in 0..7 PROVE S!power[k + (j + 1)] = 2 * S!power[k + j] /\ S!power[k + j] \in Nat
  <2>1. k + (j + 1) \in 1..Bits /\ (k + (j + 1)) - 1 = k + j /\ k + j \in 0..Bits
    BY <1>1
  <2>2. QED
    BY <2>1, PowerIs
<1> DEFINE Q(j) == S!power[k + j]
<1>3. \A j \in 0..7 : Q(j + 1) = 2 * Q(j) /\ Q(j) \in Nat
  BY <1>2
<1> HIDE DEF Q
<1>4. /\ Q(0) \in Nat /\ Q(0 + 1) = 2 * Q(0) /\ Q(1 + 1) = 2 * Q(1) /\ Q(2 + 1) = 2 * Q(2)
      /\ Q(3 + 1) = 2 * Q(3) /\ Q(4 + 1) = 2 * Q(4) /\ Q(5 + 1) = 2 * Q(5) /\ Q(6 + 1) = 2 * Q(6)
      /\ Q(7 + 1) = 2 * Q(7)
  BY <1>3
<1>5. Q(8) = 256 * Q(0)
  BY <1>4
<1>6. k + 0 = k
  OBVIOUS
<1>7. QED
  BY <1>4, <1>5, <1>6 DEF Q

\* 131 is more than a letter, and less than a byte.
LEMMA DigitFits ==
  ASSUME NEW p \in Nat, NEW a \in Nat, a < p, NEW x \in 0..127
  PROVE  a * 131 + x \in Nat /\ a * 131 + x < 256 * p
<1>1. a + 1 <= p
  OBVIOUS
<1>2. QED
  BY <1>1

\* A hash of a short text has not wrapped.
LEMMA HashSmall ==
  ASSUME NEW t \in Seq(S!Signs), NEW fold \in [S!Letters -> S!Letters], Len(t) <= HashBits \div 8
  PROVE  \A i \in 1..Len(t) : hash(t, fold)[i] = hash(t, fold)[i - 1] * 131 + fold[t[i]]
<1> DEFINE n == Len(t)
           h == hash(t, fold)
           m == S!HashMod
           Good == {i \in 0..n : h[i] < S!power[8 * i]}
<1>1. /\ n \in Nat /\ HashBits \in Nat /\ HashBits <= Bits /\ Bits \in Nat /\ 8 * n <= HashBits
      /\ \A i \in 1..n : fold[t[i]] \in 0..127
  <2>1. n \in Nat /\ \A i \in 1..n : fold[t[i]] \in 0..127
    BY LettersAre DEF S!Letters
  <2>2. HashBits \in Nat /\ HashBits <= Bits /\ Bits \in Nat
    BY StringsAssumption DEF Bits
  <2> HIDE DEF n
  <2>3. 8 * (HashBits \div 8) <= HashBits
    BY <2>2
  <2>4. HashBits \div 8 \in Nat /\ n <= HashBits \div 8
    BY <2>2 DEF n
  <2>5. 8 * n <= 8 * (HashBits \div 8)
    BY <2>1, <2>4
  <2>6. QED
    BY <2>1, <2>2, <2>3, <2>4, <2>5
<1>2. /\ h[0] = 0
      /\ \A i \in 1..n : h[i - 1] \in Nat /\ h[i] \in Nat /\ h[i] = (h[i - 1] * 131 + fold[t[i]]) % m
  BY HashIs
<1> HIDE DEF n, h
<1>3. ASSUME NEW i \in 1..n, h[i - 1] < S!power[8 * (i - 1)]
      PROVE  h[i] = h[i - 1] * 131 + fold[t[i]] /\ h[i] < S!power[8 * i]
  <2> DEFINE k == 8 * (i - 1)
  <2>1. k \in Nat /\ k + 8 = 8 * i /\ 8 * i <= 8 * n /\ 8 * i \in 0..HashBits /\ HashBits \in 0..Bits
        /\ k + 8 <= Bits
    BY <1>1
  <2>2. S!power[k] \in Nat /\ S!power[8 * i] = 256 * S!power[k]
    BY <2>1, ByteIs
  <2>3. S!power[8 * i] <= m /\ m \in Nat \ {0}
    <3>1. S!power[8 * i] <= S!power[HashBits]
      BY <2>1, PowersGrow
    <3>2. QED
      BY <3>1, WidthsAre DEF S!HashMod
  <2>4. h[i - 1] \in Nat /\ h[i - 1] < S!power[k] /\ fold[t[i]] \in 0..127
    BY <1>1, <1>2, <1>3
  <2>5. h[i] = (h[i - 1] * 131 + fold[t[i]]) % m
    BY <1>2
  <2> HIDE DEF k, m
  <2> DEFINE v == h[i - 1] * 131 + fold[t[i]]
  <2> HIDE DEF Good, v
  <2>6. v \in Nat /\ v < 256 * S!power[k]
    <3>1. PICK a \in Nat, p \in Nat, x \in 0..127 :
            a = h[i - 1] /\ p = S!power[k] /\ x = fold[t[i]] /\ a < p
      BY <2>2, <2>4
    <3>2. a * 131 + x \in Nat /\ a * 131 + x < 256 * p
      BY <3>1, DigitFits
    <3>3. QED
      BY <3>1, <3>2 DEF v
  <2>7. v \in 0..(m - 1)
    BY <2>2, <2>3, <2>6
  <2>8. v % m = v
    BY <2>3, <2>7, ModSmall
  <2>9. QED
    BY <2>2, <2>5, <2>6, <2>8 DEF v
<1>4. 0 \in Good
  <2>1. 8 * 0 = 0 /\ S!power[0] = 1 /\ 0 \in 0..n
    BY <1>1, PowerIs
  <2>2. QED
    BY <1>2, <2>1
<1>5. ASSUME NEW i \in 0..(n - 1), i \in Good PROVE i + 1 \in Good
  <2>1. i + 1 \in 1..n /\ (i + 1) - 1 = i /\ i + 1 \in 0..n
    BY <1>1
  <2>2. h[(i + 1) - 1] < S!power[8 * ((i + 1) - 1)]
    BY <1>5, <2>1
  <2>3. h[i + 1] < S!power[8 * (i + 1)]
    BY <1>3, <2>1, <2>2
  <2>4. QED
    BY <2>1, <2>3
<1> HIDE DEF Good
<1>6. \A i \in 0..n : i \in Good
  BY <1>1, <1>4, <1>5, UpTo
<1>7. ASSUME NEW i \in 1..n PROVE h[i] = h[i - 1] * 131 + fold[t[i]]
  <2>1. i - 1 \in 0..n
    BY <1>1
  <2>2. h[i - 1] < S!power[8 * (i - 1)]
    BY <1>6, <2>1 DEF Good
  <2>3. QED
    BY <1>3, <2>2
<1>8. QED
  BY <1>7 DEF h, n

\* Short texts of one length and one hash compare equal.
LEMMA HashTells ==
  ASSUME NEW t \in Seq(S!Signs), NEW u \in Seq(S!Signs), NEW fold \in [S!Letters -> S!Letters],
         Len(t) = Len(u), Len(t) <= HashBits \div 8,
         S!BKDRHash(t, fold) = S!BKDRHash(u, fold)
  PROVE  S!compare(t, u, fold) = 0
<1> DEFINE n == Len(t)
           h == hash(t, fold)
           g == hash(u, fold)
           Good == {d \in 0..n : h[n - d] = g[n - d]}
<1>1. n \in Nat
  BY LenProperties
<1>2. /\ h[n] = g[n]
      /\ \A i \in 1..n : /\ h[i - 1] \in Nat /\ g[i - 1] \in Nat
                         /\ h[i] = h[i - 1] * 131 + fold[t[i]] /\ g[i] = g[i - 1] * 131 + fold[u[i]]
                         /\ fold[t[i]] \in 0..127 /\ fold[u[i]] \in 0..127
  <2>0. /\ \A i \in 1..Len(t) : fold[t[i]] \in 0..127
        /\ \A i \in 1..Len(u) : fold[u[i]] \in 0..127
    BY LettersAre DEF S!Letters
  <2>1. S!BKDRHash(t, fold) = h[n] /\ \A i \in 1..n : h[i - 1] \in Nat
    BY HashIs
  <2>2. \A i \in 1..n : h[i] = h[i - 1] * 131 + fold[t[i]]
    BY HashSmall
  <2>3. S!BKDRHash(u, fold) = g[Len(u)] /\ \A i \in 1..Len(u) : g[i - 1] \in Nat
    BY HashIs
  <2>4. \A i \in 1..Len(u) : g[i] = g[i - 1] * 131 + fold[u[i]]
    <3>1. Len(u) <= HashBits \div 8
      OBVIOUS
    <3>2. QED
      BY <3>1, HashSmall
  <2>5. Len(u) = n
    OBVIOUS
  <2> HIDE DEF h, g
  <2>6. h[n] = g[n]
    BY <2>1, <2>3, <2>5
  <2>7. ASSUME NEW i \in 1..n
        PROVE  /\ h[i - 1] \in Nat /\ g[i - 1] \in Nat
               /\ h[i] = h[i - 1] * 131 + fold[t[i]] /\ g[i] = g[i - 1] * 131 + fold[u[i]]
               /\ fold[t[i]] \in 0..127 /\ fold[u[i]] \in 0..127
    <3>1. i \in 1..Len(t) /\ i \in 1..Len(u)
      BY <2>5
    <3>2. QED
      BY <2>0, <2>1, <2>2, <2>3, <2>4, <3>1
  <2>8. QED
    BY <2>6, <2>7
<1> HIDE DEF h, g
<1>3. ASSUME NEW i \in 1..n, h[i] = g[i] PROVE h[i - 1] = g[i - 1] /\ fold[t[i]] = fold[u[i]]
  <2> DEFINE a == h[i - 1]
             b == g[i - 1]
             x == fold[t[i]]
             y == fold[u[i]]
  <2>1. /\ a \in Nat /\ b \in Nat /\ x \in 0..127 /\ y \in 0..127
        /\ h[i] = a * 131 + x /\ g[i] = b * 131 + y
    BY <1>2
  <2> HIDE DEF a, b, x, y
  <2>2. a * 131 + x = b * 131 + y
    BY <1>3, <2>1
  <2>3. ~(a + 1 <= b) /\ ~(b + 1 <= a)
    BY <2>1, <2>2
  <2>4. a = b
    BY <2>1, <2>3
  <2>5. x = y
    BY <2>1, <2>2, <2>4
  <2>6. QED
    BY <2>4, <2>5 DEF a, b, x, y
<1>4. 0 \in Good
  BY <1>1, <1>2
<1>5. ASSUME NEW d \in 0..(n - 1), d \in Good PROVE d + 1 \in Good
  <2>1. n - d \in 1..n /\ (n - d) - 1 = n - (d + 1) /\ d + 1 \in 0..n
    BY <1>1
  <2>2. h[n - (d + 1)] = g[n - (d + 1)]
    BY <1>3, <1>5, <2>1
  <2>3. QED
    BY <2>1, <2>2
<1> HIDE DEF Good
<1>6. \A d \in 0..n : d \in Good
  BY <1>1, <1>4, <1>5, UpTo
<1>7. ASSUME NEW i \in 1..n PROVE fold[t[i]] = fold[u[i]]
  <2>1. n - i \in 0..n /\ n - (n - i) = i
    BY <1>1
  <2>2. h[n - (n - i)] = g[n - (n - i)]
    BY <1>6, <2>1 DEF Good
  <2>3. QED
    BY <1>3, <2>1, <2>2
<1>8. Alike(t, u, fold)
  BY <1>7 DEF Alike
<1>9. QED
  BY <1>8, CompareNull

LEMMA HashIsRight ==
  ASSUME NEW t \in Seq(S!Signs), NEW u \in Seq(S!Signs), NEW fold \in [S!Letters -> S!Letters]
  PROVE  S!HashRight(t, u, fold)
BY HashFollows, HashTells DEF S!HashRight

LEMMA SearchRightNow == S!IInv => S!SearchRight
<1> SUFFICES ASSUME S!IInv, ~over, NEW x \in Strings, NEW u \in Words
             PROVE
    LET t == S!Text(x)  f == S!find(t, u, 0, S!same)  r == S!rfind(t, u, S!same) IN
    /\ u # <<>> =>
         /\ f = S!npos => r = S!npos
         /\ f > 0 => f <= r /\ S!find(t, u, r + 1, S!same) = S!npos
         /\ f = 0 <=> S!startwith(t, u, S!same)
         /\ S!endwith(t, u, S!same) => S!find(t, u, Len(t) - Len(u), S!same) = Len(t) - Len(u)
         /\ S!rfindChar(t, u[1], S!same) >= r
    /\ S!compare(t, u, S!same) = -S!compare(u, t, S!same)
    /\ S!compare(t, u, S!same) = 0 <=> t = u
    /\ \A y \in Strings : S!compare(t, u, S!same) < 0 /\ S!compare(u, S!Text(y), S!same) < 0
                            => S!compare(t, S!Text(y), S!same) < 0
    /\ S!find(t, u, 0, S!same) # S!npos => S!find(t, u, 0, S!tolower) \in 0..f
    /\ S!icompare(t, u) = 0 <=> S!startwith(t, u, S!tolower) /\ Len(t) = Len(u)
    /\ S!HashRight(t, u, S!tolower) /\ S!HashRight(t, u, S!same)
  BY DEF S!SearchRight
<1> DEFINE t == S!Text(x)
<1>1. t \in Seq(S!Signs) /\ u \in Seq(S!Signs) /\ Len(t) \in Nat /\ Len(u) \in Nat
  <2>1. t \in Seq(S!Signs) /\ u \in Seq(S!Signs)
    BY StringsAssumption, SignsAre DEF S!IInv
  <2>2. QED
    BY <2>1, LenProperties
<1>2. \A y \in Strings : S!Text(y) \in Seq(S!Signs)
  BY DEF S!IInv
<1> HIDE DEF t
<1>3. u = <<>> => S!find(t, u, 0, S!same) = S!npos
  BY DEF S!find
<1>4. ASSUME NEW y \in Strings, S!compare(t, u, S!same) < 0, S!compare(u, S!Text(y), S!same) < 0
      PROVE  S!compare(t, S!Text(y), S!same) < 0
  <2>1. Before(t, u, S!same) /\ Before(u, S!Text(y), S!same)
    BY <1>1, <1>2, <1>4, CompareLess
  <2>2. Before(t, S!Text(y), S!same)
    BY <1>1, <1>2, <2>1, BeforeGoesOn, FoldsAre
  <2>3. QED
    BY <1>1, <1>2, <2>2, CompareLess
<1>5. S!compare(t, u, S!same) = -S!compare(u, t, S!same) /\ (S!compare(t, u, S!same) = 0 <=> t = u)
  BY <1>1, CompareTurns, CompareSame, FoldsAre
<1>6. S!icompare(t, u) = 0 <=> S!startwith(t, u, S!tolower) /\ Len(t) = Len(u)
  <2>1. S!icompare(t, u) = 0 <=> Alike(t, u, S!tolower) /\ Len(t) = Len(u)
    BY <1>1, CompareNull DEF S!icompare
  <2>2. S!startwith(t, u, S!tolower) <=>
          Len(u) <= Len(t) /\ \A k \in 1..Len(u) : S!tolower[t[k]] = S!tolower[u[k]]
    BY <1>1, StartIs
  <2>3. ASSUME Len(t) = Len(u)
        PROVE  Alike(t, u, S!tolower) <=> \A k \in 1..Len(u) : S!tolower[t[k]] = S!tolower[u[k]]
    BY <2>3 DEF Alike
  <2>4. Len(t) = Len(u) => Len(u) <= Len(t)
    BY <1>1
  <2>5. QED
    BY <2>1, <2>2, <2>3, <2>4
<1>7. S!HashRight(t, u, S!tolower) /\ S!HashRight(t, u, S!same)
  BY <1>1, HashIsRight, FoldsAre
<1>8. u # <<>> =>
        LET f == S!find(t, u, 0, S!same)  r == S!rfind(t, u, S!same) IN
         /\ f = S!npos => r = S!npos
         /\ f > 0 => f <= r /\ S!find(t, u, r + 1, S!same) = S!npos
         /\ f = 0 <=> S!startwith(t, u, S!same)
         /\ S!endwith(t, u, S!same) => S!find(t, u, Len(t) - Len(u), S!same) = Len(t) - Len(u)
         /\ S!rfindChar(t, u[1], S!same) >= r
         /\ f # S!npos => S!find(t, u, 0, S!tolower) \in 0..f
  BY <1>1, SearchesAgree
<1>9. QED
  BY <1>3, <1>4, <1>5, <1>6, <1>7, <1>8 DEF t

-----------------------------------------------------------------------------
(* What the compiler computes from a list of types                         *)

LEMMA ContainsIs ==
  ASSUME NEW t, NEW list \in Seq(Types)
  PROVE  W!Contains(t, list) <=> \E k \in 1..Len(list) : list[k] = t
<1> DEFINE n == Len(list)
           Hit(i) == t = list[Len(list) - i + 1]
           G == [z \in (1..n) \X BOOLEAN |-> Hit(z[1]) \/ z[2]]
           has == CHOOSE f : f = [i \in 0..Len(list) |-> i > 0 /\ (t = list[Len(list) - i + 1] \/ f[i - 1])]
           Good == {i \in 0..n : has[i] <=> \E k \in (n - i + 1)..n : list[k] = t}
<1>1. n \in Nat /\ FALSE \in BOOLEAN
  BY LenProperties
<1>2. G \in [(1..n) \X BOOLEAN -> BOOLEAN]
  OBVIOUS
<1>3. PICK g : Steps(g, n, FALSE, G, BOOLEAN)
  <2> HIDE DEF n, G
  <2>1. QED
    BY <1>1, <1>2, Stepwise
<1>4. ASSUME NEW i \in 0..n PROVE g[i] = (i > 0 /\ (t = list[Len(list) - i + 1] \/ g[i - 1]))
  <2>1. CASE i = 0
    <3>1. g[i] = FALSE /\ ~(i > 0)
      BY <2>1, <1>3 DEF Steps
    <3>2. QED
      BY <3>1
  <2>2. CASE i # 0
    <3>1. i \in 1..n /\ i > 0 /\ i - 1 \in 0..n
      BY <1>1, <2>2
    <3>2. g[i - 1] \in BOOLEAN
      BY <1>3, <3>1 DEF Steps
    <3>3. G[<<i, g[i - 1]>>] = (Hit(i) \/ g[i - 1])
      BY <3>1, <3>2
    <3>4. g[i] = G[<<i, g[i - 1]>>]
      <4> HIDE DEF G
      <4>1. QED
        BY <1>3, <3>1 DEF Steps
    <3> HIDE DEF G
    <3>5. QED
      BY <3>1, <3>3, <3>4
  <2>3. QED
    BY <2>1, <2>2
<1>5. g = [i \in 0..Len(list) |-> i > 0 /\ (t = list[Len(list) - i + 1] \/ g[i - 1])]
  BY <1>3, <1>4 DEF Steps
<1>6. has = [i \in 0..Len(list) |-> i > 0 /\ (t = list[Len(list) - i + 1] \/ has[i - 1])]
  BY <1>5, Zenon
<1>7. W!Contains(t, list) = has[Len(list)]
  BY DEF W!Contains
<1> HIDE DEF has
<1>8. ASSUME NEW i \in 0..n PROVE has[i] = (i > 0 /\ (t = list[Len(list) - i + 1] \/ has[i - 1]))
  BY <1>6
<1>9. 0 \in Good
  <2>1. 0 \in 0..n /\ ~(0 > 0) /\ \A k \in (n - 0 + 1)..n : FALSE
    BY <1>1
  <2>2. ~has[0]
    BY <1>8, <2>1
  <2>3. QED
    BY <2>1, <2>2
<1>10. ASSUME NEW i \in 0..(n - 1), i \in Good PROVE i + 1 \in Good
  <2> DEFINE j == i + 1
  <2>1. j \in 0..n /\ j > 0 /\ j - 1 = i /\ n - j + 1 \in 1..n /\ n - j + 1 = n - i
    BY <1>1
  <2>2. \A k \in (n - j + 1)..n : k = n - j + 1 \/ k \in (n - i + 1)..n
    BY <1>1
  <2>3. /\ \A k \in (n - i + 1)..n : k \in (n - j + 1)..n
        /\ n - j + 1 \in (n - j + 1)..n
    BY <1>1
  <2> HIDE DEF j
  <2>4. has[j] <=> (t = list[n - j + 1] \/ has[i])
    BY <1>8, <2>1
  <2>5. has[i] <=> \E k \in (n - i + 1)..n : list[k] = t
    BY <1>10
  <2>6. has[j] <=> \E k \in (n - j + 1)..n : list[k] = t
    BY <2>2, <2>3, <2>4, <2>5
  <2>7. QED
    BY <2>1, <2>6 DEF j
<1> HIDE DEF Good
<1>11. \A i \in 0..n : i \in Good
  BY <1>1, <1>9, <1>10, UpTo
<1>12. n \in 0..n /\ n - n + 1 = 1
  BY <1>1
<1>13. has[n] <=> \E k \in 1..n : list[k] = t
  BY <1>11, <1>12 DEF Good
<1>14. QED
  BY <1>7, <1>13

\* Where the first t of the last i types is, counted from the end; -1 without one.
Left(t, list, i, v) ==
  LET last == (Len(list) - i + 1)..Len(list) IN
  \/ v = -1 /\ \A k \in last : list[k] # t
  \/ \E k \in last : v = Len(list) - k /\ list[k] = t /\ \A j \in last : j < k => list[j] # t

LEMMA GetLeftSizeIs ==
  ASSUME NEW t, NEW list \in Seq(Types)
  PROVE  Left(t, list, Len(list), W!GetLeftSize(t, list))
<1> DEFINE n == Len(list)
           R == Int
           Hit(i) == list[Len(list) - i + 1] = t
           G == [z \in (1..n) \X R |-> IF Hit(z[1]) THEN z[1] - 1 ELSE z[2]]
           lf == CHOOSE f : f = [i \in 0..Len(list) |->
                   IF i = 0 THEN -1 ELSE IF list[Len(list) - i + 1] = t THEN i - 1 ELSE f[i - 1]]
           Good == {i \in 0..n : Left(t, list, i, lf[i])}
<1>1. n \in Nat /\ -1 \in R
  BY LenProperties
<1>2. G \in [(1..n) \X R -> R]
  <2>1. \A i \in 1..n : i - 1 \in R
    OBVIOUS
  <2> HIDE DEF R, Hit, n
  <2>2. QED
    BY <2>1
<1>3. PICK g : Steps(g, n, -1, G, R)
  <2> HIDE DEF n, G, R
  <2>1. QED
    BY <1>1, <1>2, Stepwise
<1>4. ASSUME NEW i \in 0..n
      PROVE  g[i] = IF i = 0 THEN -1 ELSE IF list[Len(list) - i + 1] = t THEN i - 1 ELSE g[i - 1]
  <2>1. CASE i = 0
    BY <2>1, <1>3 DEF Steps
  <2>2. CASE i # 0
    <3>1. i \in 1..n /\ i - 1 \in 0..n
      BY <1>1, <2>2
    <3>2. g[i - 1] \in R
      <4> HIDE DEF R
      <4>1. QED
        BY <1>3, <3>1 DEF Steps
    <3>3. G[<<i, g[i - 1]>>] = IF Hit(i) THEN i - 1 ELSE g[i - 1]
      BY <3>1, <3>2
    <3>4. g[i] = G[<<i, g[i - 1]>>]
      <4> HIDE DEF G
      <4>1. QED
        BY <1>3, <3>1 DEF Steps
    <3> HIDE DEF G
    <3>5. QED
      BY <2>2, <3>3, <3>4
  <2>3. QED
    BY <2>1, <2>2
<1>5. g = [i \in 0..Len(list) |->
             IF i = 0 THEN -1 ELSE IF list[Len(list) - i + 1] = t THEN i - 1 ELSE g[i - 1]]
  BY <1>3, <1>4 DEF Steps
<1>6. lf = [i \in 0..Len(list) |->
              IF i = 0 THEN -1 ELSE IF list[Len(list) - i + 1] = t THEN i - 1 ELSE lf[i - 1]]
  BY <1>5, Zenon
<1>7. W!GetLeftSize(t, list) = lf[Len(list)]
  BY DEF W!GetLeftSize
<1> HIDE DEF lf
<1>8. ASSUME NEW i \in 0..n
      PROVE  lf[i] = IF i = 0 THEN -1 ELSE IF list[Len(list) - i + 1] = t THEN i - 1 ELSE lf[i - 1]
  BY <1>6
<1>9. 0 \in Good
  <2>1. 0 \in 0..n /\ \A k \in (n - 0 + 1)..n : FALSE
    BY <1>1
  <2>2. lf[0] = -1
    BY <1>8, <2>1
  <2>3. Left(t, list, 0, lf[0])
    BY <2>1, <2>2 DEF Left
  <2>4. QED
    BY <2>1, <2>3
<1>10. ASSUME NEW i \in 0..(n - 1), i \in Good PROVE i + 1 \in Good
  <2> DEFINE j == i + 1
             m == n - i
  <2>1. j \in 0..n /\ j # 0 /\ j - 1 = i /\ n - j + 1 = m /\ m \in 1..n /\ n - m = i
    BY <1>1
  <2>2. /\ \A k \in m..n : k = m \/ k \in (n - i + 1)..n
        /\ \A k \in (n - i + 1)..n : k \in m..n /\ m < k
        /\ m \in m..n /\ \A k \in m..n : ~(k < m)
    BY <1>1
  <2>3. Left(t, list, i, lf[i])
    BY <1>10
  <2>4. lf[j] = IF list[m] = t THEN i ELSE lf[i]
    <3> HIDE DEF j, m
    <3>1. QED
      BY <1>8, <2>1
  <2> HIDE DEF m, j
  <2>5. Left(t, list, j, lf[j])
    <3>1. CASE list[m] = t
      <4>1. lf[j] = n - m /\ m \in (n - j + 1)..n /\ \A k \in (n - j + 1)..n : ~(k < m)
        BY <2>1, <2>2, <2>4, <3>1
      <4>2. QED
        BY <3>1, <4>1 DEF Left
    <3>2. CASE list[m] # t
      <4>1. lf[j] = lf[i]
        BY <2>4, <3>2
      <4>2. CASE lf[i] = -1 /\ \A k \in (n - i + 1)..n : list[k] # t
        <5>1. \A k \in (n - j + 1)..n : list[k] # t
          BY <2>1, <2>2, <3>2, <4>2
        <5>2. QED
          BY <4>1, <4>2, <5>1 DEF Left
      <4>3. ASSUME NEW k \in (n - i + 1)..n, lf[i] = n - k, list[k] = t,
                   \A l \in (n - i + 1)..n : l < k => list[l] # t
            PROVE  Left(t, list, j, lf[j])
        <5>1. k \in (n - j + 1)..n /\ \A l \in (n - j + 1)..n : l < k => list[l] # t
          BY <2>1, <2>2, <3>2, <4>3
        <5>2. QED
          BY <4>1, <4>3, <5>1 DEF Left
      <4>4. QED
        BY <2>3, <4>2, <4>3 DEF Left
    <3>3. QED
      BY <3>1, <3>2
  <2>6. QED
    BY <2>1, <2>5 DEF j
<1> HIDE DEF Good
<1>11. \A i \in 0..n : i \in Good
  BY <1>1, <1>9, <1>10, UpTo
<1>12. n \in 0..n
  BY <1>1
<1>13. QED
  BY <1>7, <1>11, <1>12 DEF Good

\* The greatest number of a list.
LEMMA IntegerMaxIs ==
  ASSUME NEW args \in Seq(Nat), args # <<>>
  PROVE  /\ \A k \in 1..Len(args) : args[k] <= W!IntegerMax(args)
         /\ \E k \in 1..Len(args) : args[k] = W!IntegerMax(args)
<1> DEFINE n == Len(args) - 1
           R == Nat
           G == [z \in (1..n) \X R |-> IF z[2] >= args[z[1] + 1] THEN z[2] ELSE args[z[1] + 1]]
           mx == CHOOSE f : f = [i \in 0..Len(args) - 1 |->
                   IF i = 0 THEN args[1] ELSE IF f[i - 1] >= args[i + 1] THEN f[i - 1] ELSE args[i + 1]]
           Top(i) == /\ mx[i] \in Nat
                     /\ \A k \in 1..(i + 1) : args[k] <= mx[i]
                     /\ \E k \in 1..(i + 1) : args[k] = mx[i]
           Good == {i \in 0..n : Top(i)}
<1>1. n \in Nat /\ args[1] \in R /\ \A i \in 0..n : args[i + 1] \in Nat
  <2>1. Len(args) \in Nat /\ Len(args) # 0
    BY LenProperties, EmptySeq
  <2>2. n \in Nat /\ 1 \in 1..Len(args) /\ \A i \in 0..n : i + 1 \in 1..Len(args)
    BY <2>1
  <2>3. QED
    BY <2>2, ElementOfSeq
<1>2. G \in [(1..n) \X R -> R]
  <2>1. \A i \in 1..n : args[i + 1] \in R
    BY <1>1
  <2> HIDE DEF R, n
  <2>2. QED
    BY <2>1
<1>3. PICK g : Steps(g, n, args[1], G, R)
  <2> HIDE DEF n, G, R
  <2>1. QED
    BY <1>1, <1>2, Stepwise
<1>4. ASSUME NEW i \in 0..n
      PROVE  g[i] = IF i = 0 THEN args[1] ELSE IF g[i - 1] >= args[i + 1] THEN g[i - 1] ELSE args[i + 1]
  <2>1. CASE i = 0
    BY <2>1, <1>3 DEF Steps
  <2>2. CASE i # 0
    <3>1. i \in 1..n /\ i - 1 \in 0..n
      BY <1>1, <2>2
    <3>2. g[i - 1] \in R
      <4> HIDE DEF R
      <4>1. QED
        BY <1>3, <3>1 DEF Steps
    <3>3. G[<<i, g[i - 1]>>] = IF g[i - 1] >= args[i + 1] THEN g[i - 1] ELSE args[i + 1]
      BY <3>1, <3>2
    <3>4. g[i] = G[<<i, g[i - 1]>>]
      <4> HIDE DEF G
      <4>1. QED
        BY <1>3, <3>1 DEF Steps
    <3> HIDE DEF G
    <3>5. QED
      BY <2>2, <3>3, <3>4
  <2>3. QED
    BY <2>1, <2>2
<1>5. g = [i \in 0..Len(args) - 1 |->
             IF i = 0 THEN args[1] ELSE IF g[i - 1] >= args[i + 1] THEN g[i - 1] ELSE args[i + 1]]
  BY <1>3, <1>4 DEF Steps
<1>6. mx = [i \in 0..Len(args) - 1 |->
              IF i = 0 THEN args[1] ELSE IF mx[i - 1] >= args[i + 1] THEN mx[i - 1] ELSE args[i + 1]]
  BY <1>5, Zenon
<1>7. W!IntegerMax(args) = mx[Len(args) - 1]
  BY DEF W!IntegerMax
<1> HIDE DEF mx
<1>8. ASSUME NEW i \in 0..n
      PROVE  mx[i] = IF i = 0 THEN args[1] ELSE IF mx[i - 1] >= args[i + 1] THEN mx[i - 1] ELSE args[i + 1]
  BY <1>6
<1>9. 0 \in Good
  <2>1. 0 \in 0..n /\ 0 + 1 = 1 /\ 1 \in 1..1 /\ \A k \in 1..1 : k = 1
    BY <1>1
  <2>2. mx[0] = args[1]
    BY <1>8, <2>1
  <2>3. args[1] <= mx[0] /\ mx[0] \in Nat
    BY <1>1, <2>2
  <2>4. Top(0)
    BY <2>1, <2>2, <2>3
  <2>5. QED
    BY <2>1, <2>4
<1>10. ASSUME NEW i \in 0..(n - 1), i \in Good PROVE i + 1 \in Good
  <2> DEFINE j == i + 1
  <2>1. j \in 0..n /\ j # 0 /\ j - 1 = i /\ Top(i) /\ args[j + 1] \in Nat
    BY <1>1, <1>10
  <2>2. /\ \A k \in 1..(j + 1) : k = j + 1 \/ k \in 1..(i + 1)
        /\ \A k \in 1..(i + 1) : k \in 1..(j + 1)
        /\ j + 1 \in 1..(j + 1)
    BY <1>1
  <2> HIDE DEF j
  <2>3. mx[j] = IF mx[i] >= args[j + 1] THEN mx[i] ELSE args[j + 1]
    BY <1>8, <2>1
  <2>4. CASE mx[i] >= args[j + 1]
    <3>1. mx[j] = mx[i]
      BY <2>3, <2>4
    <3>2. QED
      BY <2>1, <2>2, <2>4, <3>1 DEF j
  <2>5. CASE ~(mx[i] >= args[j + 1])
    <3>1. mx[j] = args[j + 1]
      BY <2>3, <2>5
    <3>2. \A k \in 1..(i + 1) : args[k] \in Nat
      <4>1. i + 1 \in 1..n
        BY <1>1
      <4>2. \A k \in 1..(i + 1) : k \in 1..Len(args)
        BY <4>1
      <4>3. QED
        BY <4>2, ElementOfSeq
    <3>3. ASSUME NEW k \in 1..(i + 1) PROVE args[k] <= mx[j]
      BY <2>1, <2>5, <3>1, <3>2
    <3>4. QED
      BY <2>1, <2>2, <3>1, <3>3 DEF j
  <2>6. QED
    BY <2>4, <2>5
<1> HIDE DEF Good
<1>11. \A i \in 0..n : i \in Good
  BY <1>1, <1>9, <1>10, UpTo
<1>12. n \in 0..n /\ n + 1 = Len(args)
  <2>1. Len(args) \in Nat
    BY LenProperties
  <2>2. QED
    BY <1>1, <2>1
<1>13. Top(n)
  BY <1>11, <1>12 DEF Good
<1>14. QED
  BY <1>7, <1>12, <1>13

LEMMA HelpersAreRight == W!HelpersRight
<1> SUFFICES ASSUME NEW n \in 1..MaxTypes, NEW list \in [1..n -> Types], NEW t \in Types
             PROVE  LET i == W!Index(t, list) IN
                    /\ W!Contains(t, list) <=> i < Len(list)
                    /\ W!Contains(t, list) => W!IndexType(i, list) = t /\ SizeOf[t] <= W!data_size(list)
                    /\ \A k \in 0..Len(list) - 1 : k < i => W!IndexType(k, list) # t
                    /\ \E u \in Types : W!Contains(u, list) /\ SizeOf[u] = W!data_size(list)
  BY DEF W!HelpersRight
<1> DEFINE i == W!Index(t, list)
           args == [k \in DOMAIN list |-> SizeOf[list[k]]]
           size == W!data_size(list)
<1>1. n \in Nat /\ n # 0 /\ list \in Seq(Types) /\ Len(list) = n /\ DOMAIN list = 1..n
  <2>1. n \in Nat /\ n # 0
    BY VariantsAssumption
  <2>2. QED
    BY <2>1
<1>2. ASSUME NEW k \in 0..(n - 1) PROVE W!IndexType(k, list) = list[k + 1]
  <2>1. k + 1 \in Int /\ Len(list) \in Int /\ \A j \in (k + 1)..Len(list) : list[j] \in Types
    <3>1. \A j \in (k + 1)..Len(list) : j \in 1..n
      BY <1>1
    <3>2. QED
      BY <1>1, <3>1
  <2> DEFINE rest == SubSeq(list, k + 1, Len(list))
  <2>2. /\ rest \in Seq(Types)
        /\ Len(rest) = IF k + 1 <= Len(list) THEN Len(list) - (k + 1) + 1 ELSE 0
        /\ \A j \in 1..(Len(list) - (k + 1) + 1) : rest[j] = list[(k + 1) + j - 1]
    BY <2>1, SubSeqProperties
  <2>3. 1 \in 1..(Len(list) - (k + 1) + 1) /\ (k + 1) + 1 - 1 = k + 1 /\ Len(rest) # 0
    BY <1>1, <2>2
  <2>4. rest[1] = list[k + 1]
    BY <2>2, <2>3
  <2>5. Head(rest) = rest[1]
    BY <2>2, <2>3
  <2> HIDE DEF rest
  <2>6. W!IndexType(k, list) = Head(rest)
    BY DEF W!IndexType, rest
  <2>7. QED
    BY <2>4, <2>5, <2>6
<1>3. ASSUME NEW u PROVE W!Contains(u, list) <=> \E k \in 1..n : list[k] = u
  BY <1>1, ContainsIs
<1>4. args \in Seq(Nat) /\ Len(args) = n /\ args # <<>> /\ \A k \in 1..n : args[k] = SizeOf[list[k]]
  <2>1. \A k \in 1..n : SizeOf[list[k]] \in Nat
    BY VariantsAssumption
  <2>2. args \in [1..n -> Nat]
    BY <1>1, <2>1
  <2>3. args \in Seq(Nat) /\ Len(args) = n
    BY <1>1, <2>2
  <2>4. args # <<>>
    BY <1>1, <2>3, EmptySeq
  <2>5. QED
    BY <1>1, <2>3, <2>4
<1>5. size = W!IntegerMax(args)
  BY DEF W!data_size
<1> HIDE DEF args, size
<1>6. (\A k \in 1..n : SizeOf[list[k]] <= size) /\ \E k \in 1..n : SizeOf[list[k]] = size
  BY <1>4, <1>5, IntegerMaxIs
<1>7. /\ i = n /\ (\A k \in 1..n : list[k] # t)
      \/ \E k \in 1..n : i = k - 1 /\ list[k] = t /\ \A j \in 1..n : j < k => list[j] # t
  <2> DEFINE v == W!GetLeftSize(t, list)
  <2>1. Left(t, list, n, v) /\ i = n - v - 1 /\ n - n + 1 = 1
    BY <1>1, GetLeftSizeIs DEF W!Index
  <2> HIDE DEF v, i
  <2>2. \/ v = -1 /\ \A k \in 1..n : list[k] # t
        \/ \E k \in 1..n : v = n - k /\ list[k] = t /\ \A j \in 1..n : j < k => list[j] # t
    BY <1>1, <2>1 DEF Left
  <2>3. CASE v = -1 /\ \A k \in 1..n : list[k] # t
    BY <1>1, <2>1, <2>3
  <2>4. ASSUME NEW k \in 1..n, v = n - k, list[k] = t, \A j \in 1..n : j < k => list[j] # t
        PROVE  i = k - 1
    BY <1>1, <2>1, <2>4
  <2>5. QED
    BY <2>2, <2>3, <2>4
<1> HIDE DEF i
<1>8. \E u \in Types : W!Contains(u, list) /\ SizeOf[u] = size
  <2>1. PICK k \in 1..n : SizeOf[list[k]] = size
    BY <1>6
  <2>2. list[k] \in Types /\ W!Contains(list[k], list)
    BY <1>3, <2>1
  <2>3. QED
    BY <2>1, <2>2
<1>9. CASE i = n /\ \A k \in 1..n : list[k] # t
  <2>1. ~W!Contains(t, list)
    BY <1>3, <1>9
  <2>2. ASSUME NEW k \in 0..(n - 1) PROVE W!IndexType(k, list) # t
    <3>1. k + 1 \in 1..n
      BY <1>1
    <3>2. QED
      BY <1>2, <1>9, <3>1
  <2>3. ~(i < Len(list))
    BY <1>1, <1>9
  <2>4. QED
    BY <1>1, <1>8, <2>1, <2>2, <2>3 DEF i, size
<1>10. ASSUME NEW k \in 1..n, i = k - 1, list[k] = t, \A j \in 1..n : j < k => list[j] # t
       PROVE  /\ W!Contains(t, list) /\ i < n /\ W!IndexType(i, list) = t /\ SizeOf[t] <= size
              /\ \A l \in 0..(n - 1) : l < i => W!IndexType(l, list) # t
  <2>1. W!Contains(t, list) /\ SizeOf[t] <= size
    BY <1>3, <1>6, <1>10
  <2>2. i \in 0..(n - 1) /\ i + 1 = k /\ i < n
    BY <1>1, <1>10
  <2>3. W!IndexType(i, list) = t
    BY <1>2, <1>10, <2>2
  <2>4. ASSUME NEW l \in 0..(n - 1), l < i PROVE W!IndexType(l, list) # t
    <3>1. l + 1 \in 1..n /\ l + 1 < k
      BY <1>1, <1>10, <2>4
    <3>2. QED
      BY <1>2, <1>10, <3>1
  <2>5. QED
    BY <2>1, <2>2, <2>3, <2>4
<1>11. CASE \E k \in 1..n : i = k - 1 /\ list[k] = t /\ \A j \in 1..n : j < k => list[j] # t
  <2>1. /\ W!Contains(t, list) /\ i < n /\ W!IndexType(i, list) = t /\ SizeOf[t] <= size
        /\ \A l \in 0..(n - 1) : l < i => W!IndexType(l, list) # t
    BY <1>10, <1>11
  <2>2. QED
    BY <1>1, <1>8, <2>1 DEF i, size
<1>12. QED
  BY <1>7, <1>9, <1>11

\* The searches and comparisons of strings agree with each other, but for rfind()
\* at the start, comparison is an order and the hashes agree with it
\* (string::find, rfind, compare, BKDRHash); and a variant finds its types where
\* they are in the list of its alternatives, and room for each (Index, IndexType).
THEOREM SearchIsRight == Spec => []SearchRight
<1>1. S!IInv => SearchRight
  BY SearchRightNow, HelpersAreRight DEF SearchRight
<1>2. QED
  BY <1>1, StringsNow, PTL
================================================================================
