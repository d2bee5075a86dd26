------------------------------- MODULE KfifoProofs ------------------------------
(***************************************************************************)
(* Proofs about Kfifo for every index width, size and set of lengths.      *)
(***************************************************************************)
EXTENDS Kfifo, WellFoundedInduction, TLAPS

--------------------------------------------------------------------------------
(* Facts about %.                                                          *)

LEMMA ModRange ==
  ASSUME NEW m \in Nat \ {0}, NEW x \in Int
  PROVE  x % m \in 0..(m - 1)
OBVIOUS

LEMMA ModDef ==
  ASSUME NEW m \in Nat \ {0}, NEW x \in Int
  PROVE  x \div m \in Int /\ x = m * (x \div m) + (x % m)
OBVIOUS

LEMMA ModUnique ==
  ASSUME NEW m \in Nat \ {0}, NEW x \in Int, NEW k \in Int,
         NEW r \in 0..(m - 1), x = m * k + r
  PROVE  x % m = r
OBVIOUS

LEMMA ModSmall ==
  ASSUME NEW m \in Nat \ {0}, NEW x \in 0..(m - 1)
  PROVE  x % m = x
OBVIOUS

\* Numbers that differ by a multiple of m have the same remainder.
LEMMA ModShift ==
  ASSUME NEW m \in Nat \ {0}, NEW x \in Int, NEW y \in Int,
         \E k \in Int : x = y + m * k
  PROVE  x % m = y % m
<1>0. PICK k \in Int : x = y + m * k
  OBVIOUS
<1>1. y \div m \in Int /\ y = m * (y \div m) + (y % m)
  BY ModDef
<1>2. (y \div m) + k \in Int
  BY <1>1
<1>3. x = m * ((y \div m) + k) + (y % m)
  BY <1>0, <1>1
<1>4. y % m \in 0..(m - 1)
  BY ModRange
<1> QED
  BY <1>2, <1>3, <1>4, ModUnique

\* Adding to an index that has wrapped.
LEMMA ModAdd ==
  ASSUME NEW m \in Nat \ {0}, NEW x \in Int, NEW y \in Int
  PROVE  ((x % m) + y) % m = (x + y) % m
<1>1. x \div m \in Int /\ x = m * (x \div m) + (x % m) /\ x % m \in Int
  BY ModDef, ModRange
<1>2. -(x \div m) \in Int
  BY <1>1
<1>3. (x % m) + y = (x + y) + m * (-(x \div m))
  BY <1>1
<1>4. \E k \in Int : (x % m) + y = (x + y) + m * k
  BY <1>2, <1>3
<1>5. (x % m) + y \in Int /\ x + y \in Int
  BY <1>1
<1> QED
  BY <1>4, <1>5, ModShift

\* Subtracting two indices that have wrapped.
LEMMA ModSub ==
  ASSUME NEW m \in Nat \ {0}, NEW x \in Int, NEW y \in Int, NEW z \in Int,
         z + x - y \in 0..(m - 1)
  PROVE  ((z + (x % m)) - (y % m)) % m = z + x - y
<1>1. x \div m \in Int /\ x = m * (x \div m) + (x % m) /\ x % m \in Int
  BY ModDef, ModRange
<1>2. y \div m \in Int /\ y = m * (y \div m) + (y % m) /\ y % m \in Int
  BY ModDef, ModRange
<1>3. (y \div m) - (x \div m) \in Int
  BY <1>1, <1>2
<1>4. (z + (x % m)) - (y % m)
        = (z + x - y) + m * ((y \div m) - (x \div m))
  <2>1. ASSUME NEW a \in Int, NEW b \in Int
        PROVE  m * (b - a) = m * b - m * a
    OBVIOUS
  <2>2. m * ((y \div m) - (x \div m)) = m * (y \div m) - m * (x \div m)
    BY <1>1, <1>2, <2>1
  <2>3. m * (x \div m) \in Int /\ m * (y \div m) \in Int
    BY <1>1, <1>2
  <2> QED
    BY <1>1, <1>2, <2>2, <2>3
<1>5. \E k \in Int : (z + (x % m)) - (y % m) = (z + x - y) + m * k
  BY <1>3, <1>4
<1>6. (z + (x % m)) - (y % m) \in Int /\ z + x - y \in Int
  BY <1>1, <1>2
<1>7. ((z + (x % m)) - (y % m)) % m = (z + x - y) % m
  BY <1>5, <1>6, ModShift
<1>8. (z + x - y) % m = z + x - y
  BY ModSmall
<1> QED
  BY <1>7, <1>8

\* ModSub for z = 0.
LEMMA ModDifference ==
  ASSUME NEW m \in Nat \ {0}, NEW x \in Int, NEW y \in Int,
         x - y \in 0..(m - 1)
  PROVE  ((x % m) - (y % m)) % m = x - y
<1>1. x % m \in Int /\ y % m \in Int
  BY ModRange
<1>2. PICK z \in Int : z = 0
  OBVIOUS
<1>3. z + x - y \in 0..(m - 1)
  BY <1>2
<1>4. ((z + (x % m)) - (y % m)) % m = z + x - y
  BY <1>3, ModSub
<1>5. (z + (x % m)) - (y % m) = (x % m) - (y % m) /\ z + x - y = x - y
  BY <1>1, <1>2
<1>6. QED
  BY <1>4, <1>5

\* The offset of an index does not change when the index wraps, because the
\* size divides the range of the indices.
LEMMA ModMod ==
  ASSUME NEW m \in Nat \ {0}, NEW s \in Nat \ {0}, m % s = 0, NEW x \in Int
  PROVE  (x % m) % s = x % s
<1>1. x \div m \in Int /\ x = m * (x \div m) + (x % m) /\ x % m \in Int
  BY ModDef, ModRange
<1>2. m \div s \in Int /\ m = s * (m \div s)
  BY ModDef
<1>3. DEFINE k == -((m \div s) * (x \div m))
<1>4. k \in Int
  BY <1>1, <1>2
<1>5. m * (x \div m) = s * ((m \div s) * (x \div m))
  BY <1>1, <1>2
<1>6. x % m = x + s * k
  BY <1>1, <1>2, <1>5
<1>7. \E j \in Int : x % m = x + s * j
  BY <1>4, <1>6
<1> QED
  BY <1>1, <1>7, ModShift

\* The place of a byte a little further on.
LEMMA ModAhead ==
  ASSUME NEW s \in Nat \ {0}, NEW x \in Nat, NEW i \in 0..(s - 1)
  PROVE  (x + i) % s = IF (x % s) + i < s THEN (x % s) + i ELSE (x % s) + i - s
<1>1. x % s \in 0..(s - 1)
  BY ModRange
<1>2. ((x % s) + i) % s = (x + i) % s
  <2>1. x \in Int /\ i \in Int
    OBVIOUS
  <2> QED
    BY <2>1, ModAdd
<1>3. CASE (x % s) + i < s
  <2>1. (x % s) + i \in 0..(s - 1)
    BY <1>1, <1>3
  <2> QED
    BY <1>2, <1>3, <2>1, ModSmall
<1>4. CASE ~((x % s) + i < s)
  <2>1. (x % s) + i - s \in 0..(s - 1)
    BY <1>1, <1>4
  <2>2. ((x % s) + i) % s = (x % s) + i - s
    BY <1>1, <2>1, ModUnique, (x % s) + i = s * 1 + ((x % s) + i - s)
  <2> QED
    BY <1>2, <1>4, <2>2
<1> QED
  BY <1>3, <1>4

\* Bytes less than a size apart have different places.
LEMMA ModDistinct ==
  ASSUME NEW s \in Nat \ {0}, NEW x \in Nat, NEW i \in 1..(s - 1)
  PROVE  (x + i) % s # x % s
<1>1. x % s \in 0..(s - 1)
  BY ModRange
<1>2. i \in 0..(s - 1)
  OBVIOUS
<1>3. (x + i) % s = IF (x % s) + i < s THEN (x % s) + i ELSE (x % s) + i - s
  BY <1>2, ModAhead
<1> QED
  BY <1>1, <1>3

--------------------------------------------------------------------------------
(* Powers of two and the highest bit.                                      *)

LEMMA LeastOf ==
  ASSUME NEW N \in SUBSET Nat, N # {}
  PROVE  \E x \in N : \A y \in N : x <= y
<1>1. PICK x \in N : \A y \in N : <<y, x>> \notin OpToRel(<, Nat)
  BY NatLessThanWellFounded, WFMin
<1>2. ASSUME NEW y \in N PROVE ~(y < x)
  BY <1>1, <1>2 DEF OpToRel
<1>3. QED
  BY <1>2

\* g is what a recursion with value c at 0 and step F at i, from its value at
\* p[i], computes up to n.
Computes(g, n, c, F, p) ==
  /\ g \in [0..n -> Nat]
  /\ \A i \in 0..n : g[i] = IF i = 0 THEN c ELSE F[<<i, g[p[i]]>>]

Descends(p) == \A n \in Nat : n > 0 => p[n] < n

LEMMA ComputedOnce ==
  ASSUME NEW c \in Nat, NEW F \in [Nat \X Nat -> Nat], NEW p \in [Nat -> Nat], Descends(p),
         NEW n \in Nat, NEW m \in Nat, NEW g, NEW h,
         Computes(g, n, c, F, p), Computes(h, m, c, F, p),
         NEW i \in Nat, i <= n, i <= m
  PROVE  g[i] = h[i]
<1> DEFINE N == {j \in Nat : j <= n /\ j <= m /\ g[j] # h[j]}
<1> SUFFICES ASSUME i \in N PROVE FALSE
  OBVIOUS
<1>1. PICK j \in N : \A k \in N : j <= k
  BY LeastOf
<1>2. j \in Nat /\ j <= n /\ j <= m /\ g[j] # h[j] /\ j \in 0..n /\ j \in 0..m
  OBVIOUS
<1>3. j # 0
  BY <1>2 DEF Computes
<1>4. p[j] \in Nat /\ p[j] < j
  BY <1>2, <1>3 DEF Descends
<1>5. p[j] \notin N
  BY <1>1, <1>2, <1>4
<1>6. g[p[j]] = h[p[j]]
  BY <1>2, <1>4, <1>5
<1>7. g[j] = F[<<j, g[p[j]]>>] /\ h[j] = F[<<j, h[p[j]]>>]
  BY <1>2, <1>3 DEF Computes
<1>8. QED
  BY <1>2, <1>6, <1>7

LEMMA Computable ==
  ASSUME NEW c \in Nat, NEW F \in [Nat \X Nat -> Nat], NEW p \in [Nat -> Nat], Descends(p),
         NEW n \in Nat
  PROVE  \E g : Computes(g, n, c, F, p)
<1> DEFINE N == {j \in Nat : ~\E g : Computes(g, j, c, F, p)}
<1> SUFFICES ASSUME n \in N PROVE FALSE
  OBVIOUS
<1>1. PICK j \in N : \A k \in N : j <= k
  BY LeastOf
<1>2. j \in Nat /\ ~\E g : Computes(g, j, c, F, p)
  OBVIOUS
<1>3. j # 0
  <2>1. SUFFICES ASSUME j = 0 PROVE FALSE
    OBVIOUS
  <2>2. DEFINE g == [k \in 0..0 |-> c]
  <2>3. Computes(g, 0, c, F, p)
    BY DEF Computes
  <2>4. QED
    BY <1>2, <2>1, <2>3
<1>4. j - 1 \in Nat /\ j - 1 \notin N
  BY <1>1, <1>2, <1>3
<1>5. PICK h : Computes(h, j - 1, c, F, p)
  BY <1>4
<1>6. p[j] \in 0..(j - 1)
  BY <1>2, <1>3 DEF Descends
<1>7. h[p[j]] \in Nat
  BY <1>5, <1>6 DEF Computes
<1>8. DEFINE g == [k \in 0..j |-> IF k = j THEN F[<<j, h[p[j]]>>] ELSE h[k]]
<1>9. \A k \in 0..(j - 1) : g[k] = h[k]
  BY <1>2
<1>10. g \in [0..j -> Nat]
  <2>1. F[<<j, h[p[j]]>>] \in Nat
    BY <1>2, <1>7
  <2>2. ASSUME NEW k \in 0..j, k # j PROVE h[k] \in Nat
    <3>1. k \in 0..(j - 1)
      BY <1>2, <2>2
    <3>2. QED
      BY <1>5, <3>1 DEF Computes
  <2>3. QED
    BY <2>1, <2>2
<1>11. ASSUME NEW k \in 0..j
       PROVE  g[k] = IF k = 0 THEN c ELSE F[<<k, g[p[k]]>>]
  <2>1. CASE k = j
    <3>1. g[k] = F[<<j, h[p[j]]>>]
      BY <1>2, <2>1
    <3>2. g[p[j]] = h[p[j]]
      BY <1>6, <1>9
    <3>3. QED
      BY <1>3, <2>1, <3>1, <3>2
  <2>2. CASE k # j
    <3>1. k \in 0..(j - 1) /\ k \in Nat
      BY <1>2, <2>2
    <3>2. g[k] = h[k]
      BY <1>9, <3>1
    <3>3. h[k] = IF k = 0 THEN c ELSE F[<<k, h[p[k]]>>]
      BY <1>5, <3>1 DEF Computes
    <3>4. CASE k = 0
      BY <3>2, <3>3, <3>4
    <3>5. CASE k # 0
      <4>1. p[k] \in 0..(j - 1)
        BY <1>2, <3>1, <3>5 DEF Descends
      <4>2. g[p[k]] = h[p[k]]
        BY <1>9, <4>1
      <4>3. QED
        BY <3>2, <3>3, <3>5, <4>2
    <3>6. QED
      BY <3>4, <3>5
  <2>3. QED
    BY <2>1, <2>2
<1>12. Computes(g, j, c, F, p)
  BY <1>10, <1>11 DEF Computes
<1>13. QED
  BY <1>2, <1>12

\* The same for all numbers.
Recurs(g, c, F, p) == \A n \in Nat : g[n] = IF n = 0 THEN c ELSE F[<<n, g[p[n]]>>]

LEMMA Recursion ==
  ASSUME NEW c \in Nat, NEW F \in [Nat \X Nat -> Nat], NEW p \in [Nat -> Nat], Descends(p)
  PROVE  \E g \in [Nat -> Nat] : Recurs(g, c, F, p)
<1> DEFINE A(n) == CHOOSE g : Computes(g, n, c, F, p)
<1>1. ASSUME NEW n \in Nat PROVE Computes(A(n), n, c, F, p)
  <2>1. \E g : Computes(g, n, c, F, p)
    BY Computable
  <2>2. QED
    BY <2>1
<1>2. ASSUME NEW n \in Nat, NEW m \in Nat, n <= m PROVE A(n)[n] = A(m)[n]
  <2>1. Computes(A(n), n, c, F, p) /\ Computes(A(m), m, c, F, p)
    BY <1>1
  <2> HIDE DEF A
  <2>2. QED
    BY <1>2, <2>1, ComputedOnce
<1> HIDE DEF A
<1> DEFINE g == [n \in Nat |-> A(n)[n]]
<1>3. g \in [Nat -> Nat]
  <2>1. ASSUME NEW n \in Nat PROVE A(n)[n] \in Nat
    <3>1. n \in 0..n
      OBVIOUS
    <3>2. QED
      BY <1>1, <3>1 DEF Computes
  <2>2. QED
    BY <2>1
<1>4. ASSUME NEW n \in Nat PROVE g[n] = IF n = 0 THEN c ELSE F[<<n, g[p[n]]>>]
  <2>1. n \in 0..n
    OBVIOUS
  <2>2. A(n)[n] = IF n = 0 THEN c ELSE F[<<n, A(n)[p[n]]>>]
    BY <1>1, <2>1 DEF Computes
  <2>3. ASSUME n # 0 PROVE A(n)[p[n]] = g[p[n]]
    <3>1. p[n] \in Nat /\ p[n] < n
      BY <2>3 DEF Descends
    <3>2. A(p[n])[p[n]] = A(n)[p[n]]
      BY <1>2, <3>1
    <3>3. QED
      BY <3>1, <3>2
  <2>4. QED
    BY <2>2, <2>3
<1> HIDE DEF g
<1>5. QED
  BY <1>3, <1>4 DEF Recurs

LEMMA PowerIs ==
  /\ power \in [Nat -> Nat]
  /\ power[0] = 1
  /\ \A k \in Nat : power[k + 1] = 2 * power[k]
<1> DEFINE F == [z \in Nat \X Nat |-> 2 * z[2]]
           p == [k \in Nat |-> IF k = 0 THEN 0 ELSE k - 1]
<1>1. 1 \in Nat /\ F \in [Nat \X Nat -> Nat] /\ p \in [Nat -> Nat] /\ Descends(p)
  BY DEF Descends
<1>2. PICK g \in [Nat -> Nat] : Recurs(g, 1, F, p)
  <2> HIDE DEF F, p
  <2>1. QED
    BY <1>1, Recursion
<1>3. ASSUME NEW k \in Nat PROVE g[k] = IF k = 0 THEN 1 ELSE 2 * g[k - 1]
  <2>1. ASSUME k # 0 PROVE p[k] = k - 1 /\ g[p[k]] \in Nat
    BY <2>1
  <2>2. ASSUME NEW v \in Nat PROVE F[<<k, v>>] = 2 * v
    OBVIOUS
  <2> HIDE DEF F, p
  <2>3. QED
    BY <1>2, <2>1, <2>2 DEF Recurs
<1>4. g = [k \in Nat |-> IF k = 0 THEN 1 ELSE 2 * g[k - 1]]
  BY <1>3
<1>5. power = [k \in Nat |-> IF k = 0 THEN 1 ELSE 2 * power[k - 1]]
  BY <1>4 DEF power
<1>6. power \in [Nat -> Nat]
  <2> DEFINE N == {k \in Nat : power[k] \notin Nat}
  <2>1. SUFFICES ASSUME N # {} PROVE FALSE
    BY <1>5
  <2>2. PICK k \in N : \A j \in N : k <= j
    BY <2>1, LeastOf
  <2>3. power[k] = IF k = 0 THEN 1 ELSE 2 * power[k - 1]
    BY <1>5
  <2>4. k # 0 /\ k - 1 \in Nat /\ k - 1 \notin N
    BY <2>2, <2>3
  <2>5. QED
    BY <2>2, <2>3, <2>4
<1>7. power[0] = 1
  BY <1>5
<1>8. ASSUME NEW k \in Nat PROVE power[k + 1] = 2 * power[k]
  <2>1. k + 1 \in Nat /\ k + 1 # 0 /\ (k + 1) - 1 = k
    OBVIOUS
  <2>2. power[k + 1] = 2 * power[(k + 1) - 1]
    BY <1>5, <2>1
  <2>3. QED
    BY <2>1, <2>2
<1>9. QED
  BY <1>6, <1>7, <1>8

LEMMA HighestBitIs ==
  /\ highest_bit \in [Nat -> Nat]
  /\ highest_bit[0] = 0
  /\ \A n \in Nat : n > 0 => highest_bit[n] = 1 + highest_bit[n \div 2]
<1> DEFINE F == [z \in Nat \X Nat |-> 1 + z[2]]
           p == [n \in Nat |-> n \div 2]
<1>1. 0 \in Nat /\ F \in [Nat \X Nat -> Nat] /\ p \in [Nat -> Nat] /\ Descends(p)
  BY DEF Descends
<1>2. PICK g \in [Nat -> Nat] : Recurs(g, 0, F, p)
  <2> HIDE DEF F, p
  <2>1. QED
    BY <1>1, Recursion
<1>3. ASSUME NEW n \in Nat PROVE g[n] = IF n = 0 THEN 0 ELSE 1 + g[n \div 2]
  <2>1. ASSUME n # 0 PROVE p[n] = n \div 2 /\ g[p[n]] \in Nat
    BY <2>1
  <2>2. ASSUME NEW v \in Nat PROVE F[<<n, v>>] = 1 + v
    OBVIOUS
  <2> HIDE DEF F, p
  <2>3. QED
    BY <1>2, <2>1, <2>2 DEF Recurs
<1>4. g = [n \in Nat |-> IF n = 0 THEN 0 ELSE 1 + g[n \div 2]]
  BY <1>3
<1>5. highest_bit = [n \in Nat |-> IF n = 0 THEN 0 ELSE 1 + highest_bit[n \div 2]]
  BY <1>4 DEF highest_bit
<1>6. highest_bit \in [Nat -> Nat]
  <2> DEFINE N == {n \in Nat : highest_bit[n] \notin Nat}
  <2>1. SUFFICES ASSUME N # {} PROVE FALSE
    BY <1>5
  <2>2. PICK n \in N : \A j \in N : n <= j
    BY <2>1, LeastOf
  <2>3. highest_bit[n] = IF n = 0 THEN 0 ELSE 1 + highest_bit[n \div 2]
    BY <1>5
  <2>4. n # 0 /\ n \div 2 \in Nat /\ n \div 2 < n
    BY <2>2, <2>3
  <2>5. n \div 2 \notin N
    BY <2>2, <2>4
  <2>6. QED
    BY <2>2, <2>3, <2>4, <2>5
<1>7. QED
  BY <1>5, <1>6

LEMMA PowerPositive == \A k \in Nat : power[k] \in Nat \ {0}
<1> DEFINE N == {k \in Nat : power[k] \notin Nat \ {0}}
<1>1. SUFFICES ASSUME N # {} PROVE FALSE
  OBVIOUS
<1>2. PICK k \in N : \A j \in N : k <= j
  BY <1>1, LeastOf
<1>3. k # 0 /\ k - 1 \in Nat /\ k - 1 \notin N
  BY <1>2, PowerIs
<1>4. power[(k - 1) + 1] = 2 * power[k - 1] /\ (k - 1) + 1 = k
  BY <1>3, PowerIs
<1>5. QED
  BY <1>2, <1>3, <1>4

\* A power of two divides every higher one.
LEMMA PowersDivide ==
  ASSUME NEW k \in Nat, NEW m \in Nat, k <= m
  PROVE  power[k] <= power[m] /\ power[m] % power[k] = 0
<1> DEFINE N == {j \in Nat : k <= j /\ ~\E q \in Nat \ {0} : power[j] = power[k] * q}
<1>1. N = {}
  <2>1. SUFFICES ASSUME N # {} PROVE FALSE
    OBVIOUS
  <2>2. PICK j \in N : \A i \in N : j <= i
    BY <2>1, LeastOf
  <2>3. j # k
    <3>1. power[k] = power[k] * 1
      BY PowerPositive
    <3>2. QED
      BY <2>2, <3>1
  <2>4. j - 1 \in Nat /\ k <= j - 1 /\ j - 1 \notin N
    BY <2>2, <2>3
  <2>5. PICK q \in Nat \ {0} : power[j - 1] = power[k] * q
    BY <2>4
  <2>6. power[(j - 1) + 1] = 2 * power[j - 1] /\ (j - 1) + 1 = j
    BY <2>4, PowerIs
  <2>7. power[k] \in Nat
    BY PowerPositive
  <2>8. 2 * q \in Nat \ {0} /\ power[j] = power[k] * (2 * q)
    <3>1. ASSUME NEW a \in Nat PROVE 2 * (a * q) = a * (2 * q)
      OBVIOUS
    <3>2. QED
      BY <2>5, <2>6, <2>7, <3>1
  <2>9. QED
    BY <2>2, <2>8
<1>2. PICK q \in Nat \ {0} : power[m] = power[k] * q
  BY <1>1
<1>3. power[k] \in Nat \ {0} /\ power[m] \in Nat \ {0}
  BY PowerPositive
<1>4. ASSUME NEW a \in Nat \ {0}, NEW b \in Nat \ {0}, b = a * q
      PROVE  a <= b /\ b % a = 0
  <2>1. a <= b
    <3>1. q = 1 + (q - 1) /\ q - 1 \in Nat
      OBVIOUS
    <3>2. a * q = a + a * (q - 1) /\ a * (q - 1) \in Nat
      BY <3>1
    <3>3. QED
      BY <1>4, <3>2
  <2>2. b = a * q + 0 /\ 0 \in 0..(a - 1) /\ b \in Int /\ q \in Int
    BY <1>4
  <2>3. b % a = 0
    BY <2>2, ModUnique
  <2>4. QED
    BY <2>1, <2>3
<1>5. QED
  BY <1>2, <1>3, <1>4

\* The highest bit is the one below which n lies.
LEMMA BitsHold ==
  ASSUME NEW n \in Nat
  PROVE  /\ highest_bit[n] \in Nat
         /\ n < power[highest_bit[n]]
         /\ n > 0 => highest_bit[n] > 0 /\ power[highest_bit[n] - 1] <= n
<1> DEFINE Holds(i) == /\ i < power[highest_bit[i]]
                       /\ i > 0 => highest_bit[i] > 0 /\ power[highest_bit[i] - 1] <= i
           N == {i \in Nat : ~Holds(i)}
<1>1. \A i \in Nat : highest_bit[i] \in Nat
  BY HighestBitIs
<1>2. N = {}
  <2>1. SUFFICES ASSUME N # {} PROVE FALSE
    OBVIOUS
  <2>2. PICK i \in N : \A j \in N : i <= j
    BY <2>1, LeastOf
  <2>3. i # 0
    BY <2>2, HighestBitIs, PowerIs
  <2>4. DEFINE h == i \div 2
  <2>5. h \in Nat /\ h < i /\ 2 * h <= i /\ i <= 2 * h + 1
    BY <2>3
  <2>6. highest_bit[i] = 1 + highest_bit[h]
    BY <2>3, HighestBitIs
  <2> HIDE DEF h
  <2>7. h \notin N
    BY <2>2, <2>5
  <2>8. Holds(h)
    BY <2>5, <2>7
  <2>9. PICK b \in Nat : b = highest_bit[h]
    BY <1>1, <2>5
  <2>10. /\ power[b + 1] = 2 * power[b] /\ power[b] \in Nat /\ power[0] = 1
    BY PowerIs, <2>9
  <2>11. i < power[b + 1]
    BY <2>5, <2>8, <2>9, <2>10
  <2>12. power[b] <= i
    <3>1. CASE h = 0
      BY <2>3, <2>5, <2>9, <2>10, <3>1, HighestBitIs
    <3>2. CASE h > 0
      <4>1. b - 1 \in Nat /\ power[b - 1] <= h
        BY <2>8, <2>9, <3>2
      <4>2. power[(b - 1) + 1] = 2 * power[b - 1] /\ (b - 1) + 1 = b /\ power[b - 1] \in Nat
        BY <4>1, PowerIs
      <4>3. QED
        BY <2>5, <4>1, <4>2
    <3>3. QED
      BY <2>5, <3>1, <3>2
  <2>13. highest_bit[i] = b + 1 /\ highest_bit[i] - 1 = b
    BY <2>6, <2>9
  <2>14. Holds(i)
    BY <2>11, <2>12, <2>13
  <2>15. QED
    BY <2>2, <2>14
<1>3. Holds(n)
  BY <1>2
<1>4. QED
  BY <1>1, <1>3

LEMMA WidthIs == IndexMod \in Nat \ {0}
BY WidthAssumption, PowerPositive DEF IndexMod

\* What the rounding yields for a size that does not shift by the full width.
LEMMA Roundings ==
  ASSUME AsksFit, NEW n \in Asks, NEW s \in Rounded(n)
  PROVE  /\ \E k \in 0..(IndexBits - 1) : s = power[k]
         /\ n <= s /\ s < 2 * n
<1>1. /\ n \in Nat /\ n >= 1 /\ n < IndexMod /\ n <= power[IndexBits - 1]
      /\ IndexBits \in Nat /\ IndexBits - 1 \in Nat
  BY WidthAssumption, WidthIs, LengthsAssumption, PowerPositive DEF AsksFit
<1>2. CASE IsPowerOfTwo(n)
  <2>1. s = n
    BY <1>2 DEF Rounded
  <2>2. PICK k \in 0..IndexBits : n = power[k]
    BY <1>2 DEF IsPowerOfTwo
  <2>3. k # IndexBits
    BY <1>1, <2>2, WidthIs DEF IndexMod
  <2>4. k \in 0..(IndexBits - 1)
    BY <1>1, <2>2, <2>3
  <2>5. QED
    BY <1>1, <2>1, <2>2, <2>4
<1>3. CASE ~IsPowerOfTwo(n)
  <2>1. n # 1
    <3>1. 0 \in 0..IndexBits
      BY <1>1
    <3>2. QED
      BY <1>3, <3>1, PowerIs DEF IsPowerOfTwo
  <2>2. n - 1 \in Nat /\ n - 1 > 0
    BY <1>1, <2>1
  <2>3. PICK b \in Nat : b = highest_bit[n - 1]
    BY <2>2, BitsHold
  <2>4. n - 1 < power[b] /\ b > 0 /\ power[b - 1] <= n - 1
    BY <2>2, <2>3, BitsHold
  <2>5. b - 1 \in Nat /\ power[(b - 1) + 1] = 2 * power[b - 1] /\ (b - 1) + 1 = b
        /\ power[b - 1] \in Nat /\ power[b] \in Nat
    BY <2>4, PowerIs
  <2>6. b < IndexBits
    <3>1. SUFFICES ASSUME IndexBits - 1 <= b - 1 PROVE FALSE
      BY <1>1
    <3>2. power[IndexBits - 1] <= power[b - 1]
      BY <1>1, <2>5, <3>1, PowersDivide
    <3>3. power[IndexBits - 1] \in Nat
      BY <1>1, PowerIs
    <3>4. QED
      BY <1>1, <2>4, <2>5, <3>2, <3>3
  <2>7. s = power[b]
    BY <1>3, <2>3, <2>6 DEF Rounded, roundup_pow_of_two
  <2>8. b \in 0..(IndexBits - 1)
    BY <1>1, <2>6
  <2>9. QED
    BY <1>1, <2>4, <2>5, <2>7, <2>8
<1>4. QED
  BY <1>2, <1>3

LEMMA SizesDivide == AsksFit => SizesFit
<1> SUFFICES ASSUME AsksFit, NEW n \in Asks, NEW s \in Rounded(n)
             PROVE  s \in 1..(IndexMod - 1) /\ IndexMod % s = 0
  BY DEF SizesFit
<1>1. PICK k \in 0..(IndexBits - 1) : s = power[k]
  BY Roundings
<1>2. /\ IndexBits \in Nat /\ IndexBits - 1 \in Nat /\ (IndexBits - 1) + 1 = IndexBits
      /\ k \in Nat /\ k <= IndexBits - 1 /\ k <= IndexBits
  BY WidthAssumption
<1>3. power[k] <= power[IndexBits - 1] /\ IndexMod % power[k] = 0
  BY <1>2, PowersDivide DEF IndexMod
<1>4. IndexMod = 2 * power[IndexBits - 1]
  BY <1>2, PowerIs DEF IndexMod
<1>5. power[k] \in Nat \ {0} /\ power[IndexBits - 1] \in Nat \ {0}
  BY <1>2, PowerPositive
<1>6. QED
  BY <1>1, <1>3, <1>4, <1>5

--------------------------------------------------------------------------------
(* The ring: indices and lengths, in every build.                          *)

LEMMA Fits ==
  ASSUME NEW a \in Nat, NEW b \in Nat, NEW c \in Nat, NEW d \in Nat,
         d <= c + b - a
  PROVE  a - b + d <= c
OBVIOUS

LEMMA SpaceIs ==
  ASSUME RingInv, fifo = "ready"
  PROVE  Space = size + got - sent
<1>1. /\ IndexMod \in Nat \ {0}
      /\ size \in Int /\ got \in Int /\ sent \in Int
      /\ size + got - sent \in 0..(IndexMod - 1)
  BY WidthIs DEF RingInv, TypeOK, NoOverrun, Allocated
<1>2. ((size + (got % IndexMod)) - (sent % IndexMod)) % IndexMod
        = size + got - sent
  BY <1>1, ModSub
<1> QED
  BY <1>2 DEF Space, Sub, RingInv, IndicesCount

LEMMA LengthIs ==
  ASSUME RingInv, fifo = "ready"
  PROVE  Length = sent - got
<1>1. /\ IndexMod \in Nat \ {0}
      /\ size \in Int /\ got \in Int /\ sent \in Int
      /\ sent - got \in 0..(IndexMod - 1)
  BY WidthIs DEF RingInv, TypeOK, NoOverrun, Allocated
<1>2. ((sent % IndexMod) - (got % IndexMod)) % IndexMod = sent - got
  BY <1>1, ModDifference
<1>3. in \in Int /\ out \in Int
  BY <1>1 DEF RingInv, TypeOK
<1>4. in - out = (0 + (sent % IndexMod)) - (got % IndexMod)
  BY <1>1, <1>3 DEF RingInv, IndicesCount
<1> QED
  BY <1>1, <1>2, <1>4 DEF Length, Sub

\* Where a side starts to copy and how much fits before the end of the buffer.
LEMMA OffsetRange ==
  ASSUME RingInv, fifo = "ready", NEW i \in Nat
  PROVE  Offset(i) = i % size /\ Offset(i) \in 0..(size - 1)
<1>1. size \in Nat \ {0}
  BY DEF RingInv, TypeOK, Allocated
<1>2. i % size \in 0..(size - 1)
  BY <1>1, ModRange
<1> QED
  BY <1>1, <1>2 DEF Offset

LEMMA SplitRange ==
  ASSUME RingInv, fifo = "ready"
  PROVE  /\ PutSplit \in 0..wlen
         /\ PutSplit = IF wlen < size - Offset(in) THEN wlen ELSE size - Offset(in)
         /\ GetSplit \in 0..rlen
         /\ GetSplit = IF rlen < size - Offset(out) THEN rlen ELSE size - Offset(out)
<1>1. in \in Nat /\ out \in Nat /\ size \in Nat /\ wlen \in Nat /\ rlen \in Nat
  BY DEF RingInv, TypeOK
<1>2. Offset(in) \in 0..(size - 1) /\ Offset(out) \in 0..(size - 1)
  BY <1>1, OffsetRange
<1> QED
  BY <1>1, <1>2 DEF PutSplit, GetSplit, Least

LEMMA RingInit == Init => RingInv
<1> SUFFICES ASSUME Init PROVE RingInv
  OBVIOUS
<1>1. 0 % IndexMod = 0 /\ 0 \in 0..(IndexMod - 1)
  <2>1. IndexMod \in Nat \ {0} /\ 0 \in 0..(IndexMod - 1)
    BY WidthIs
  <2> QED
    BY <2>1, ModSmall
<1>2. TypeOK
  BY <1>1 DEF Init, TypeOK, NoSize
<1>3. NoOverrun
  BY DEF Init, NoOverrun, Writing, Reading, NoSize
<1>4. IndicesCount
  BY <1>1 DEF Init, IndicesCount
<1>5. Allocated
  BY DEF Init, Allocated, Quiet, NoSize
<1> QED
  BY <1>2, <1>3, <1>4, <1>5 DEF RingInv

LEMMA RingStep == SizesFit /\ RingInv /\ [Next]_vars => RingInv'
<1> SUFFICES ASSUME SizesFit, RingInv, [Next]_vars
             PROVE  RingInv'
  OBVIOUS
<1> USE DEF RingInv
<1>0. /\ IndexMod \in Nat \ {0}
      /\ 0 % IndexMod = 0 /\ 0 \in 0..(IndexMod - 1)
  <2>1. IndexMod \in Nat \ {0} /\ 0 \in 0..(IndexMod - 1)
    BY WidthIs
  <2> QED
    BY <2>1, ModSmall
<1>1. ASSUME NEW n \in Asks, Alloc(n)
      PROVE  RingInv'
  <2>1. size' \in 1..(IndexMod - 1) /\ IndexMod % size' = 0
    BY <1>1 DEF Alloc, SizesFit
  <2>2. Quiet /\ size = NoSize /\ sent = 0 /\ got = 0
    BY <1>1 DEF Alloc, Allocated
  <2>3. TypeOK'
    BY <1>0, <1>1, <2>1, LengthsAssumption
    DEF Alloc, TypeOK, writer, reader, history, Garbage
  <2>4. NoOverrun'
    BY <1>1, <2>1, <2>2
    DEF Alloc, NoOverrun, Writing, Reading, Quiet, writer, reader, history
  <2>5. IndicesCount'
    BY <1>0, <1>1, <2>2 DEF Alloc, IndicesCount, history
  <2>6. Allocated'
    BY <1>1, <2>1 DEF Alloc, Allocated
  <2> QED
    BY <2>3, <2>4, <2>5, <2>6
<1>2. ASSUME NEW n \in Asks, AllocFails(n)
      PROVE  RingInv'
  BY <1>2 DEF AllocFails, TypeOK, NoOverrun, IndicesCount, Allocated, Quiet,
     Writing, Reading, Space, writer, reader, history
<1>3. ASSUME NEW n \in Wants, PutCall(n)
      PROVE  RingInv'
  BY <1>3, LengthsAssumption
  DEF PutCall, TypeOK, NoOverrun, IndicesCount, Allocated, Quiet,
     Writing, Reading, ring, reader, history
<1>4. ASSUME NEW n \in Wants, GetCall(n)
      PROVE  RingInv'
  BY <1>4, LengthsAssumption
  DEF GetCall, TypeOK, NoOverrun, IndicesCount, Allocated, Quiet,
     Writing, Reading, ring, writer, history
<1>5. CASE PutMin \/ PutMinAgain
  <2>1. fifo = "ready"
    BY <1>5 DEF PutMin, PutMinAgain, Allocated, Quiet
  <2>2. Space = size + got - sent /\ Space \in Nat
    BY <2>1, SpaceIs DEF TypeOK, NoOverrun
  <2>3. /\ wlen' \in Nat
        /\ wpc' \in {"min2", "copy"}
        /\ wpc' = "copy" => wlen' <= Space
    BY <1>5, <2>2 DEF PutMin, PutMinAgain, Least, TypeOK
  <2>4. UNCHANGED <<ring, in, out, buf, wwant, reader, history>>
    BY <1>5 DEF PutMin, PutMinAgain
  <2>5. TypeOK'
    BY <2>3, <2>4 DEF TypeOK, ring, reader, history
  <2>6. NoOverrun'
    <3>1. /\ sent' = sent /\ got' = got /\ size' = size
          /\ rpc' = rpc /\ rlen' = rlen
      BY <2>4 DEF ring, reader, history
    <3>2. sent \in Nat /\ got \in Nat /\ size \in Nat
      BY DEF TypeOK
    <3>3. wpc' = "copy" => wlen' <= size + got - sent
      BY <2>2, <2>3
    <3>4. wlen' \in Nat /\ (Writing' => wpc' = "copy")
      BY <2>3 DEF Writing
    <3>5. ASSUME wpc' = "copy" PROVE sent - got + wlen' <= size
      <4>1. wlen' \in Nat /\ wlen' <= size + got - sent
        BY <3>3, <3>4, <3>5
      <4> QED
        BY <3>2, <4>1, Fits
    <3>6. Writing' => sent' - got' + wlen' <= size'
      BY <3>1, <3>2, <3>4, <3>5
    <3> QED
      BY <3>1, <3>6 DEF NoOverrun, Reading
  <2>7. IndicesCount' /\ Allocated'
    BY <2>1, <2>4 DEF IndicesCount, Allocated, Quiet, ring, history
  <2> QED
    BY <2>5, <2>6, <2>7
<1>6. CASE GetMin \/ GetMinAgain
  <2>1. fifo = "ready"
    BY <1>6 DEF GetMin, GetMinAgain, Allocated, Quiet
  <2>2. Length = sent - got /\ Length \in Nat
    BY <2>1, LengthIs DEF TypeOK, NoOverrun
  <2>3. /\ rlen' \in Nat
        /\ rpc' \in {"min2", "copy"}
        /\ rpc' = "copy" => rlen' <= Length
    BY <1>6, <2>2 DEF GetMin, GetMinAgain, Least, TypeOK
  <2>4. UNCHANGED <<ring, in, out, buf, writer, rwant, dest, history>>
    BY <1>6 DEF GetMin, GetMinAgain
  <2> QED
    BY <2>1, <2>2, <2>3, <2>4
    DEF TypeOK, NoOverrun, IndicesCount, Allocated, Quiet,
     Writing, Reading, ring, writer, history
<1>7. CASE PutFirst \/ PutRest
  <2>0. fifo = "ready"
    BY <1>7 DEF PutFirst, PutRest, Allocated, Quiet
  <2>1. buf' \in [0..(size - 1) -> Nat]
    <3>1. in \in Nat /\ sent \in Nat /\ wlen \in Nat
      BY DEF TypeOK
    <3>2. Offset(in) \in Int /\ PutSplit \in Nat
      BY <2>0, <3>1, OffsetRange, SplitRange
    <3>3. \A i \in Nat : Source(i) \in Nat
      BY <3>1 DEF Source, Garbage
    <3>4. buf \in [0..(size - 1) -> Nat] /\ size \in Nat
      BY DEF TypeOK
    <3>5. CASE PutFirst
      <4>1. \A b \in 0..(size - 1) :
              b \in Offset(in)..(Offset(in) + PutSplit - 1)
                => b - Offset(in) + 1 \in Nat
        BY <3>2, <3>4
      <4> QED
        BY <3>3, <3>4, <3>5, <4>1 DEF PutFirst
    <3>6. CASE PutRest
      <4>1. \A b \in 0..(size - 1) : PutSplit + b + 1 \in Nat
        BY <3>2, <3>4
      <4> QED
        BY <3>3, <3>4, <3>6, <4>1 DEF PutRest
    <3> QED
      BY <1>7, <3>5, <3>6
  <2>2. /\ UNCHANGED <<ring, in, out, wwant, wlen, reader, history>>
        /\ wpc \in {"copy", "rest"} /\ wpc' \in {"rest", "advance"}
    BY <1>7 DEF PutFirst, PutRest
  <2> QED
    BY <2>1, <2>2
    DEF TypeOK, NoOverrun, IndicesCount, Allocated, Quiet,
     Writing, Reading, ring, reader, history
<1>8. CASE GetFirst \/ GetRest
  <2>0. fifo = "ready"
    BY <1>8 DEF GetFirst, GetRest, Allocated, Quiet
  <2>1. dest' \in Seq(Nat)
    <3>1. out \in Nat /\ size \in Nat /\ rlen \in Nat /\ rlen <= size
      BY <1>8 DEF TypeOK, NoOverrun, Reading, GetFirst, GetRest
    <3>2. /\ Offset(out) \in 0..(size - 1)
          /\ GetSplit \in 0..rlen
          /\ GetSplit <= size - Offset(out)
      BY <2>0, <3>1, OffsetRange, SplitRange
    <3>3. \A b \in 0..(size - 1) : buf[b] \in Nat
      BY DEF TypeOK
    <3>4. CASE GetFirst
      <4>1. \A i \in 1..GetSplit : Offset(out) + i - 1 \in 0..(size - 1)
        BY <3>1, <3>2
      <4>2. \A i \in 1..GetSplit : buf[Offset(out) + i - 1] \in Nat
        BY <3>3, <4>1
      <4>3. GetSplit \in Nat
        BY <3>1, <3>2
      <4>4. [i \in 1..GetSplit |-> buf[Offset(out) + i - 1]] \in Seq(Nat)
        BY <4>2, <4>3
      <4> QED
        BY <3>4, <4>4 DEF GetFirst
    <3>5. CASE GetRest
      <4>1. rlen - GetSplit \in Nat /\ rlen - GetSplit <= size
        BY <3>1, <3>2
      <4>2. \A i \in 1..(rlen - GetSplit) : buf[i - 1] \in Nat
        BY <3>1, <3>3, <4>1
      <4>3. [i \in 1..(rlen - GetSplit) |-> buf[i - 1]] \in Seq(Nat)
        BY <4>1, <4>2
      <4>4. dest \in Seq(Nat)
        BY DEF TypeOK
      <4> QED
        BY <3>5, <4>3, <4>4 DEF GetRest
    <3> QED
      BY <1>8, <3>4, <3>5
  <2>2. /\ UNCHANGED <<ring, in, out, buf, writer, rwant, rlen, history>>
        /\ rpc \in {"copy", "rest"} /\ rpc' \in {"rest", "advance"}
    BY <1>8 DEF GetFirst, GetRest
  <2> QED
    BY <2>1, <2>2
    DEF TypeOK, NoOverrun, IndicesCount, Allocated, Quiet,
     Writing, Reading, ring, writer, history
<1>9. CASE PutAdvance
  <2>1. sent \in Int /\ wlen \in Int /\ sent + wlen \in Int
    BY DEF TypeOK
  <2>2. ((sent % IndexMod) + wlen) % IndexMod = (sent + wlen) % IndexMod
    BY <1>0, <2>1, ModAdd
  <2>3. in' = (sent + wlen) % IndexMod
    BY <1>9, <2>2 DEF PutAdvance, IndicesCount
  <2>4. (sent + wlen) % IndexMod \in 0..(IndexMod - 1)
    BY <1>0, <2>1, ModRange
  <2>6. TypeOK'
    BY <1>9, <2>3, <2>4 DEF PutAdvance, TypeOK, ring, reader
  <2>7. NoOverrun'
    BY <1>9 DEF PutAdvance, TypeOK, NoOverrun, Writing, Reading, ring, reader
  <2>8. IndicesCount' /\ Allocated'
    BY <1>9, <2>3 DEF PutAdvance, IndicesCount, Allocated, Quiet, ring, reader
  <2> QED
    BY <2>6, <2>7, <2>8
<1>10. CASE GetAdvance
  <2>1. got \in Int /\ rlen \in Int /\ got + rlen \in Int
    BY DEF TypeOK
  <2>2. ((got % IndexMod) + rlen) % IndexMod = (got + rlen) % IndexMod
    BY <1>0, <2>1, ModAdd
  <2>3. out' = (got + rlen) % IndexMod
    BY <1>10, <2>2 DEF GetAdvance, IndicesCount
  <2>4. (got + rlen) % IndexMod \in 0..(IndexMod - 1)
    BY <1>0, <2>1, ModRange
  <2>5. last' \in Seq(Nat) /\ dest' \in Seq(Nat)
    BY <1>10 DEF GetAdvance, TypeOK
  <2>6. TypeOK'
    BY <1>10, <2>3, <2>4, <2>5 DEF GetAdvance, TypeOK, ring, writer
  <2>7. NoOverrun'
    BY <1>10 DEF GetAdvance, TypeOK, NoOverrun, Writing, Reading, ring, writer
  <2>8. IndicesCount' /\ Allocated'
    BY <1>10, <2>3 DEF GetAdvance, IndicesCount, Allocated, Quiet, ring, writer
  <2> QED
    BY <2>6, <2>7, <2>8
<1>11. CASE Reset
  BY <1>0, <1>11
  DEF Reset, TypeOK, NoOverrun, IndicesCount, Allocated, Quiet,
     Writing, Reading, ring, writer, reader
<1>12. CASE Free
  BY <1>12
  DEF Free, TypeOK, NoOverrun, IndicesCount, Allocated, Quiet,
     Writing, Reading, writer, reader, history
<1>13. CASE UNCHANGED vars
  BY <1>13
  DEF vars, TypeOK, NoOverrun, IndicesCount, Allocated, Quiet,
     Writing, Reading
<1> QED
  BY <1>1, <1>2, <1>3, <1>4, <1>5, <1>6, <1>7, <1>8, <1>9, <1>10, <1>11,
     <1>12, <1>13
  DEF Next, Putting, Getting

\* kfifo.hpp:32: a ring is the smallest power of two that holds what was asked
\* for, and nothing that put and get do changes that.
THEOREM RoundsRight == ASSUME AsksFit PROVE Spec => []RoundsUp
<1>1. Init => RoundsUp
  BY DEF Init, RoundsUp
<1>2. RoundsUp /\ [Next]_vars => RoundsUp'
  <2> SUFFICES ASSUME RoundsUp, [Next]_vars PROVE RoundsUp'
    OBVIOUS
  <2>1. ASSUME NEW n \in Asks, Alloc(n) PROVE RoundsUp'
    <3>1. PICK k \in 0..(IndexBits - 1) : size' = power[k]
      BY <2>1, Roundings DEF Alloc
    <3>2. k \in 0..IndexBits
      BY WidthAssumption
    <3>3. IsPowerOfTwo(size')
      BY <3>1, <3>2 DEF IsPowerOfTwo
    <3>4. n <= size' /\ size' < 2 * n /\ n \in Nat
      BY <2>1, Roundings, LengthsAssumption DEF Alloc
    <3>5. size' \in Nat
      BY <3>1, PowerIs
    <3>6. QED
      BY <2>1, <3>3, <3>4, <3>5 DEF Alloc, RoundsUp, IsPowerOfTwo
  <2>2. ASSUME NEW n \in Asks, AllocFails(n) PROVE RoundsUp'
    BY <2>2 DEF AllocFails, RoundsUp
  <2>3. ASSUME Free PROVE RoundsUp'
    BY <2>3 DEF Free, RoundsUp
  <2>4. CASE UNCHANGED ring
    BY <2>4 DEF ring, RoundsUp, IsPowerOfTwo
  <2>5. CASE Putting \/ Getting \/ Reset \/ \E n \in Wants : PutCall(n) \/ GetCall(n)
    <3>1. UNCHANGED ring
      BY <2>5 DEF Putting, Getting, Reset, PutCall, GetCall, PutMin, PutMinAgain, PutFirst,
                  PutRest, PutAdvance, GetMin, GetMinAgain, GetFirst, GetRest, GetAdvance
    <3>2. QED
      BY <2>4, <3>1
  <2>6. UNCHANGED vars => UNCHANGED ring
    BY DEF vars, ring
  <2>7. QED
    BY <2>1, <2>2, <2>3, <2>4, <2>5, <2>6 DEF Next
<1>3. QED
  BY <1>1, <1>2, PTL DEF Spec

\* kfifo.hpp:86: one reader and one writer need no lock for the lengths.  Neither
\* passes the other, in a build that reads the other side's index once or twice.
THEOREM RingSafe == ASSUME AsksFit PROVE Spec => []NoOverrun
<1>1. RingInv => NoOverrun
  BY DEF RingInv
<1> QED
  BY <1>1, RingInit, RingStep, SizesDivide, AsksFit, PTL DEF Spec

--------------------------------------------------------------------------------
(* The elements of a Fifo.                                                 *)

\* Multiples of e stay multiples of e under sums and differences.
LEMMA MultipleSum ==
  ASSUME NEW e \in Nat \ {0}, NEW x \in Int, NEW y \in Int,
         x % e = 0, y % e = 0
  PROVE  (x + y) % e = 0
<1>1. ((x % e) + y) % e = (x + y) % e
  BY ModAdd
<1>2. (x % e) + y = y
  OBVIOUS
<1>3. QED
  BY <1>1, <1>2

LEMMA MultipleDifference ==
  ASSUME NEW e \in Nat \ {0}, NEW x \in Int, NEW y \in Int,
         x % e = 0, y % e = 0
  PROVE  (x - y) % e = 0
<1>1. x - y \in Int /\ (x - y) + y = x
  OBVIOUS
<1>2. (((x - y) % e) + y) % e = 0
  BY <1>1, ModAdd
<1>3. (x - y) % e \in 0..(e - 1) /\ (x - y) % e \in Int
  BY <1>1, ModRange
<1>4. ((y % e) + ((x - y) % e)) % e = (y + ((x - y) % e)) % e
  BY <1>3, ModAdd
<1>5. y + ((x - y) % e) = ((x - y) % e) + y
  BY <1>3
<1>6. (y % e) + ((x - y) % e) = (x - y) % e
  BY <1>3
<1>7. ((x - y) % e) % e = 0
  BY <1>2, <1>4, <1>5, <1>6
<1>8. ((x - y) % e) % e = (x - y) % e
  BY <1>3, ModSmall
<1>9. QED
  BY <1>7, <1>8

LEMMA MultipleSelf ==
  ASSUME NEW e \in Nat \ {0}
  PROVE  e % e = 0 /\ 0 % e = 0
<1>1. e = e * 1 + 0 /\ 0 \in 0..(e - 1) /\ 1 \in Int
  OBVIOUS
<1>2. e % e = 0
  BY <1>1, ModUnique
<1>3. 0 % e = 0
  BY <1>1, ModSmall
<1>4. QED
  BY <1>2, <1>3

LEMMA WholeInit == ElementFits /\ Init => WholeInv
<1> SUFFICES ASSUME ElementFits, Init, NEW e \in Wants PROVE Whole(e)
  BY DEF WholeInv
<1>1. 0 % e = 0
  BY MultipleSelf, LengthsAssumption
<1>2. QED
  BY <1>1 DEF Init, Whole, Writing, Reading

\* Each side computes its length from an index that the other may be about to
\* move; what it sees is still a whole number of elements.
LEMMA WholeStep ==
  ElementFits /\ RingInv /\ WholeInv /\ [Next]_vars => WholeInv'
<1> SUFFICES ASSUME ElementFits, RingInv, WholeInv, [Next]_vars, NEW e \in Wants
             PROVE  Whole(e)'
  BY DEF WholeInv
<1>0. /\ Whole(e) /\ e \in Nat \ {0} /\ e % e = 0 /\ 0 % e = 0
      /\ size \in Int /\ sent \in Int /\ got \in Int
      /\ wlen \in Int /\ rlen \in Int
      /\ Wants = {e} /\ \A n \in Asks : \A s \in Rounded(n) : s % e = 0
  <2>1. Wants = {e} /\ \A n \in Asks : \A s \in Rounded(n) : s % e = 0
    BY DEF ElementFits
  <2>2. e \in Nat \ {0}
    BY LengthsAssumption
  <2>3. QED
    <3>1. e % e = 0 /\ 0 % e = 0
      BY <2>2, MultipleSelf
    <3>2. Whole(e)
      BY DEF WholeInv
    <3>3. /\ size \in Int /\ sent \in Int /\ got \in Int
          /\ wlen \in Int /\ rlen \in Int
      BY DEF RingInv, TypeOK
    <3>4. QED
      BY <2>1, <2>2, <3>1, <3>2, <3>3
<1>a. fifo = "ready" => Space % e = 0
  <2> SUFFICES ASSUME fifo = "ready" PROVE Space % e = 0
    OBVIOUS
  <2>0. /\ e \in Nat \ {0} /\ size \in Int /\ sent \in Int /\ got \in Int
        /\ size % e = 0 /\ sent % e = 0 /\ got % e = 0
    BY <1>0 DEF Whole
  <2>1. (sent - got) % e = 0
    BY ONLY <2>0, MultipleDifference
  <2>2. sent - got \in Int
    BY ONLY <2>0
  <2>3. (size - (sent - got)) % e = 0
    BY ONLY <2>0, <2>1, <2>2, MultipleDifference
  <2>4. size - (sent - got) = size + got - sent
    BY ONLY <2>0
  <2>5. QED
    BY <2>3, <2>4, SpaceIs
<1>b. fifo = "ready" => Length % e = 0
  <2>1. (sent - got) % e = 0
    BY <1>0, MultipleDifference DEF Whole
  <2>2. QED
    BY <2>1, LengthIs
<1> USE DEF Writing, Reading
<1>1. ASSUME NEW n \in Asks, Alloc(n) PROVE Whole(e)'
  <2>1. size' % e = 0
    BY <1>0, <1>1 DEF Alloc
  <2>2. QED
    BY <1>0, <1>1, <2>1 DEF Alloc, Whole, writer, reader, history
<1>2. ASSUME NEW n \in Asks, AllocFails(n) PROVE Whole(e)'
  BY <1>0, <1>2 DEF AllocFails, Whole, writer, reader, history
<1>3. ASSUME NEW n \in Wants, PutCall(n) PROVE Whole(e)'
  BY <1>0, <1>3 DEF PutCall, Whole, ring, reader, history
<1>4. ASSUME NEW n \in Wants, GetCall(n) PROVE Whole(e)'
  BY <1>0, <1>4 DEF GetCall, Whole, ring, writer, history
<1>5. CASE PutMin \/ PutMinAgain
  <2>1. fifo = "ready" /\ wpc /= "idle"
    BY <1>5 DEF PutMin, PutMinAgain, RingInv, Allocated, Quiet
  <2>2. Space % e = 0 /\ wwant = e
    BY <1>0, <1>a, <2>1 DEF Whole
  <2>3. wpc' = "min2" \/ wlen' % e = 0
    BY <1>0, <1>5, <2>2 DEF PutMin, PutMinAgain, Least
  <2>4. wpc' /= "idle" /\ (Writing' => wpc' = "copy")
    BY <1>5 DEF PutMin, PutMinAgain
  <2>5. QED
    BY <1>0, <1>5, <2>1, <2>3, <2>4
       DEF PutMin, PutMinAgain, Whole, ring, reader, history
<1>6. CASE GetMin \/ GetMinAgain
  <2>1. fifo = "ready" /\ rpc /= "idle"
    BY <1>6 DEF GetMin, GetMinAgain, RingInv, Allocated, Quiet
  <2>2. Length % e = 0 /\ rwant = e
    BY <1>0, <1>b, <2>1 DEF Whole
  <2>3. rpc' = "min2" \/ rlen' % e = 0
    BY <1>0, <1>6, <2>2 DEF GetMin, GetMinAgain, Least
  <2>4. rpc' /= "idle" /\ (Reading' => rpc' = "copy")
    BY <1>6 DEF GetMin, GetMinAgain
  <2>5. QED
    BY <1>0, <1>6, <2>1, <2>3, <2>4
       DEF GetMin, GetMinAgain, Whole, ring, writer, history
<1>7. CASE PutFirst \/ PutRest
  BY <1>0, <1>7 DEF PutFirst, PutRest, Whole, ring, reader, history
<1>8. CASE GetFirst \/ GetRest
  BY <1>0, <1>8 DEF GetFirst, GetRest, Whole, ring, writer, history
<1>9. CASE PutAdvance
  <2>1. wlen % e = 0
    BY <1>0, <1>9 DEF PutAdvance, Whole
  <2>2. (sent + wlen) % e = 0
    BY <1>0, <2>1, MultipleSum DEF Whole
  <2>3. QED
    BY <1>0, <1>9, <2>2 DEF PutAdvance, Whole, ring, reader
<1>10. CASE GetAdvance
  <2>1. rlen % e = 0
    BY <1>0, <1>10 DEF GetAdvance, Whole
  <2>2. (got + rlen) % e = 0
    BY <1>0, <2>1, MultipleSum DEF Whole
  <2>3. QED
    BY <1>0, <1>10, <2>2 DEF GetAdvance, Whole, ring, writer
<1>11. CASE Reset \/ Free
  <2>1. CASE Reset
    BY <1>0, <2>1 DEF Reset, Whole, ring, writer, reader
  <2>2. CASE Free
    BY <1>0, <2>2 DEF Free, Whole, writer, reader, history
  <2>3. QED
    BY <1>11, <2>1, <2>2
<1>12. CASE UNCHANGED vars
  <2>1. UNCHANGED <<fifo, size, sent, got, wpc, wwant, wlen, rpc, rwant, rlen>>
    BY <1>12 DEF vars
  <2>2. QED
    BY <1>0, <2>1 DEF Whole, Writing, Reading
<1>13. QED
  BY <1>1, <1>2, <1>3, <1>4, <1>5, <1>6, <1>7, <1>8, <1>9, <1>10, <1>11,
     <1>12
     DEF Next, Putting, Getting

\* Fifo::push and Fifo::pop (kfifo.hpp:210, 221) never move a part of an
\* element, although they report success for any positive number of bytes.
THEOREM Elements ==
  ASSUME AsksFit, ElementFits
  PROVE  Spec => []WholeElements
<1>1. Init => RingInv /\ WholeInv
  BY RingInit, WholeInit, ElementFits
<1>2. RingInv /\ WholeInv /\ [Next]_vars => (RingInv /\ WholeInv)'
  BY RingStep, WholeStep, SizesDivide, AsksFit, ElementFits
<1>3. WholeInv => WholeElements
  <2>1. PICK e \in Wants : Wants = {e}
    BY DEF ElementFits
  <2>2. WholeInv => Whole(e)
    BY DEF WholeInv
  <2>3. QED
    BY <2>2 DEF Whole, WholeElements, Writing, Reading
<1>4. QED
  BY <1>1, <1>2, <1>3, PTL DEF Spec

--------------------------------------------------------------------------------
(* The bytes, in a build that merges the two reads.                        *)

\* The place of the byte i further on than the writer, or than the reader.
LEMMA WriterPlace ==
  ASSUME RingInv, fifo = "ready", NEW i \in 0..(size - 1)
  PROVE  (sent + i) % size = IF Offset(in) + i < size THEN Offset(in) + i
                             ELSE Offset(in) + i - size
<1>1. /\ size \in Nat \ {0} /\ IndexMod \in Nat \ {0} /\ IndexMod % size = 0
      /\ sent \in Nat /\ in \in Nat /\ in = sent % IndexMod
  BY WidthIs DEF RingInv, TypeOK, Allocated, IndicesCount
<1>2. (sent % IndexMod) % size = sent % size
  <2>1. sent \in Int
    BY <1>1
  <2> QED
    BY <1>1, <2>1, ModMod
<1>3. Offset(in) = sent % size
  BY <1>1, <1>2, OffsetRange
<1>4. (sent + i) % size = IF (sent % size) + i < size THEN (sent % size) + i
                          ELSE (sent % size) + i - size
  BY <1>1, ModAhead
<1> QED
  BY <1>3, <1>4

LEMMA ReaderPlace ==
  ASSUME RingInv, fifo = "ready", NEW i \in 0..(size - 1)
  PROVE  (got + i) % size = IF Offset(out) + i < size THEN Offset(out) + i
                            ELSE Offset(out) + i - size
<1>1. /\ size \in Nat \ {0} /\ IndexMod \in Nat \ {0} /\ IndexMod % size = 0
      /\ got \in Nat /\ out \in Nat /\ out = got % IndexMod
  BY WidthIs DEF RingInv, TypeOK, Allocated, IndicesCount
<1>2. (got % IndexMod) % size = got % size
  <2>1. got \in Int
    BY <1>1
  <2> QED
    BY <1>1, <2>1, ModMod
<1>3. Offset(out) = got % size
  BY <1>1, <1>2, OffsetRange
<1>4. (got + i) % size = IF (got % size) + i < size THEN (got % size) + i
                         ELSE (got % size) + i - size
  BY <1>1, ModAhead
<1> QED
  BY <1>3, <1>4

\* No byte that the writer is about to write has the place of an unread one.
LEMMA Apart ==
  ASSUME RingInv, fifo = "ready", Writing,
         NEW k \in got..(sent - 1), NEW i \in 0..(wlen - 1)
  PROVE  (sent + i) % size # k % size
<1>1. /\ size \in Nat \ {0} /\ sent \in Nat /\ got \in Nat /\ wlen \in Nat
      /\ sent - got + wlen <= size
  BY DEF RingInv, TypeOK, Allocated, NoOverrun
<1>2. PICK d \in Int : d = sent + i - k
  BY <1>1
<1>3. k \in Nat /\ d \in 1..(size - 1) /\ sent + i = k + d
  BY <1>1, <1>2
<1>4. (k + d) % size # k % size
  BY <1>1, <1>3, ModDistinct
<1> QED
  BY <1>3, <1>4

LEMMA BytesInit == Init => BytesInv
  BY DEF Init, BytesInv, AtMostLen, Writing, Reading, WriterCopied, ReaderCopied

\* Two runs of consecutive bytes one after the other.
LEMMA Joined ==
  ASSUME NEW g \in Nat, NEW a \in Nat, NEW b \in Nat
  PROVE  [i \in 1..a |-> g + i] \o [i \in 1..b |-> g + a + i]
           = [i \in 1..(a + b) |-> g + i]
<1>1. [i \in 1..a |-> g + i] \in Seq(Nat) /\ Len([i \in 1..a |-> g + i]) = a
  OBVIOUS
<1>2. /\ [i \in 1..b |-> g + a + i] \in Seq(Nat)
      /\ Len([i \in 1..b |-> g + a + i]) = b
  OBVIOUS
<1> QED
  BY <1>1, <1>2

\* The steps of put that move bytes or the index.
LEMMA PutBytes ==
  ASSUME RingInv, BytesInv, PutFirst \/ PutRest \/ PutAdvance
  PROVE  BytesInv'
<1>0. /\ fifo = "ready" /\ Writing
      /\ size \in Nat \ {0} /\ sent \in Nat /\ got \in Nat /\ wlen \in Nat
      /\ rlen \in Nat /\ wwant \in Nat /\ in \in Nat /\ out \in Nat
      /\ got <= sent /\ sent - got + wlen <= size
      /\ wlen <= wwant /\ wlen <= size
      /\ DOMAIN buf = 0..(size - 1)
  BY DEF RingInv, TypeOK, Allocated, Quiet, NoOverrun, Writing, BytesInv,
     AtMostLen, PutFirst, PutRest, PutAdvance
<1>1. /\ Offset(in) \in 0..(size - 1)
      /\ PutSplit \in 0..wlen
      /\ PutSplit = IF wlen < size - Offset(in) THEN wlen ELSE size - Offset(in)
  BY <1>0, OffsetRange, SplitRange
<1>2. \A i \in 0..(wlen - 1) :
        (sent + i) % size = IF Offset(in) + i < size THEN Offset(in) + i
                            ELSE Offset(in) + i - size
  <2> SUFFICES ASSUME NEW i \in 0..(wlen - 1)
               PROVE  (sent + i) % size =
                        IF Offset(in) + i < size THEN Offset(in) + i
                        ELSE Offset(in) + i - size
    OBVIOUS
  <2>1. i \in 0..(size - 1)
    BY <1>0
  <2> QED
    BY <1>0, <2>1, WriterPlace
<1>3. \A k \in got..(sent - 1) : \A i \in 0..(wlen - 1) :
        (sent + i) % size # k % size
  BY <1>0, Apart
<1>4. \A k \in got..(sent - 1) : k % size \in 0..(size - 1)
  <2> SUFFICES ASSUME NEW k \in got..(sent - 1)
               PROVE  k % size \in 0..(size - 1)
    OBVIOUS
  <2>1. k \in Int
    BY <1>0
  <2> QED
    BY <1>0, <2>1, ModRange
<1>5. CASE PutFirst
  <2>1. /\ UNCHANGED <<size, in, out, wlen, wwant, rpc, rlen, rwant, dest, sent, got>>
        /\ wpc' = "rest"
    BY <1>5 DEF PutFirst, ring, reader, history
  <2>2. \A b \in 0..(size - 1) :
          buf'[b] = IF b \in Offset(in)..(Offset(in) + PutSplit - 1)
                    THEN Source(b - Offset(in) + 1) ELSE buf[b]
    BY <1>0, <1>5 DEF PutFirst
  <2>3. \A k \in got..(sent - 1) : Placed(k)'
    <3> SUFFICES ASSUME NEW k \in got..(sent - 1)
                 PROVE  buf'[k % size] = k + 1
      BY <2>1 DEF Placed
    <3>1. buf[k % size] = k + 1
      BY DEF BytesInv, Placed
    <3>2. k % size \notin Offset(in)..(Offset(in) + PutSplit - 1)
      <4> SUFFICES ASSUME k % size \in Offset(in)..(Offset(in) + PutSplit - 1)
                   PROVE  FALSE
        OBVIOUS
      <4>1. PICK i \in Int : i = (k % size) - Offset(in)
        BY <1>1
      <4>2. i \in 0..(wlen - 1) /\ Offset(in) + i < size
        BY <1>0, <1>1, <1>4, <4>1
      <4>3. (sent + i) % size = Offset(in) + i
        BY <1>2, <4>2
      <4> QED
        BY <1>1, <1>3, <1>4, <4>1, <4>2, <4>3
    <3> QED
      BY <1>4, <2>2, <3>1, <3>2
  <2>4. \A i \in 0..(PutSplit - 1) : buf'[(sent + i) % size] = sent + i + 1
    <3> SUFFICES ASSUME NEW i \in 0..(PutSplit - 1)
                 PROVE  buf'[(sent + i) % size] = sent + i + 1
      OBVIOUS
    <3>1. i \in 0..(wlen - 1) /\ Offset(in) + i < size
      BY <1>0, <1>1
    <3>2. (sent + i) % size = Offset(in) + i
      BY <1>2, <3>1
    <3>3. /\ Offset(in) + i \in 0..(size - 1)
          /\ Offset(in) + i \in Offset(in)..(Offset(in) + PutSplit - 1)
          /\ (Offset(in) + i) - Offset(in) + 1 = i + 1
      BY <1>0, <1>1, <3>1
    <3>4. buf'[Offset(in) + i] = Source(i + 1)
      BY <2>2, <3>3
    <3> QED
      BY <1>0, <3>1, <3>2, <3>4 DEF Source
  <2>5. PutSplit' = PutSplit /\ GetSplit' = GetSplit
    BY <2>1 DEF PutSplit, GetSplit, Least, Offset
  <2>6. WriterCopied'
    BY <2>1, <2>4, <2>5 DEF WriterCopied, Placed
  <2> QED
    BY <1>0, <2>1, <2>3, <2>5, <2>6
    DEF BytesInv, AtMostLen, Writing, Reading, ReaderCopied
<1>6. CASE PutRest
  <2>1. /\ UNCHANGED <<size, in, out, wlen, wwant, rpc, rlen, rwant, dest, sent, got>>
        /\ wpc' = "advance" /\ wpc = "rest"
    BY <1>6 DEF PutRest, ring, reader, history
  <2>2. \A b \in 0..(size - 1) :
          buf'[b] = IF b < wlen - PutSplit THEN Source(PutSplit + b + 1)
                    ELSE buf[b]
    BY <1>0, <1>6 DEF PutRest
  <2>3. \A k \in got..(sent - 1) : Placed(k)'
    <3> SUFFICES ASSUME NEW k \in got..(sent - 1)
                 PROVE  buf'[k % size] = k + 1
      BY <2>1 DEF Placed
    <3>1. buf[k % size] = k + 1
      BY DEF BytesInv, Placed
    <3>2. ~(k % size < wlen - PutSplit)
      <4> SUFFICES ASSUME k % size < wlen - PutSplit
                   PROVE  FALSE
        OBVIOUS
      <4>1. PICK i \in Int : i = (k % size) + PutSplit
        BY <1>1, <1>4
      <4>2. /\ i \in 0..(wlen - 1) /\ ~(Offset(in) + i < size)
            /\ Offset(in) + i - size = k % size
        BY <1>0, <1>1, <1>4, <4>1
      <4>3. (sent + i) % size = k % size
        BY <1>2, <4>2
      <4> QED
        BY <1>3, <4>2, <4>3
    <3> QED
      BY <1>4, <2>2, <3>1, <3>2
  <2>4. \A i \in 0..(wlen - 1) : buf'[(sent + i) % size] = sent + i + 1
    <3> SUFFICES ASSUME NEW i \in 0..(wlen - 1)
                 PROVE  buf'[(sent + i) % size] = sent + i + 1
      OBVIOUS
    <3>1. CASE i < PutSplit
      <4>0. Offset(in) + i < size /\ Offset(in) + i \in 0..(size - 1)
        BY <1>0, <1>1, <3>1
      <4>1. (sent + i) % size = Offset(in) + i /\ Offset(in) + i \in 0..(size - 1)
        BY <1>2, <4>0
      <4>2. buf[(sent + i) % size] = sent + i + 1
        BY <1>1, <2>1, <3>1 DEF BytesInv, WriterCopied, Placed
      <4>3. ~(Offset(in) + i < wlen - PutSplit)
        BY <1>0, <1>1, <3>1
      <4>4. buf'[Offset(in) + i] = buf[Offset(in) + i]
        BY <2>2, <4>1, <4>3
      <4> QED
        BY <4>1, <4>2, <4>4
    <3>2. CASE ~(i < PutSplit)
      <4>1. /\ PutSplit = size - Offset(in)
            /\ ~(Offset(in) + i < size)
            /\ Offset(in) + i - size = i - PutSplit
        BY <1>0, <1>1, <3>2
      <4>2. (sent + i) % size = i - PutSplit
        BY <1>2, <4>1
      <4>3. i - PutSplit \in 0..(size - 1) /\ i - PutSplit < wlen - PutSplit
        BY <1>0, <1>1, <3>2
      <4>4. PutSplit + (i - PutSplit) + 1 = i + 1
        BY <1>1
      <4>5. buf'[i - PutSplit] = Source(i + 1)
        BY <2>2, <4>3, <4>4
      <4> QED
        BY <1>0, <4>2, <4>5 DEF Source
    <3> QED
      BY <3>1, <3>2
  <2>5. GetSplit' = GetSplit
    BY <2>1 DEF GetSplit, Least, Offset
  <2>6. WriterCopied'
    BY <2>1, <2>4 DEF WriterCopied, Placed
  <2> QED
    BY <1>0, <2>1, <2>3, <2>5, <2>6
    DEF BytesInv, AtMostLen, Writing, Reading, ReaderCopied
<1>7. CASE PutAdvance
  <2>1. /\ UNCHANGED <<size, out, buf, rpc, rlen, rwant, dest, got>>
        /\ wpc' = "idle" /\ wpc = "advance" /\ sent' = sent + wlen
    BY <1>7 DEF PutAdvance, ring, reader
  <2>2. \A k \in got..(sent + wlen - 1) : buf[k % size] = k + 1
    <3> SUFFICES ASSUME NEW k \in got..(sent + wlen - 1)
                 PROVE  buf[k % size] = k + 1
      OBVIOUS
    <3>1. CASE k < sent
      <4>1. k \in got..(sent - 1)
        BY <1>0, <3>1
      <4> QED
        BY <4>1 DEF BytesInv, Placed
    <3>2. CASE ~(k < sent)
      <4>1. PICK i \in Int : i = k - sent
        BY <1>0
      <4>2. i \in 0..(wlen - 1) /\ k = sent + i
        BY <1>0, <3>2, <4>1
      <4> QED
        BY <2>1, <4>2 DEF BytesInv, WriterCopied, Placed
    <3> QED
      BY <3>1, <3>2
  <2>3. \A k \in (got')..(sent' - 1) : Placed(k)'
    <3>1. got' = got /\ sent' - 1 = sent + wlen - 1
      BY <1>0, <2>1
    <3>2. buf' = buf /\ size' = size
      BY <2>1
    <3>3. \A k \in got..(sent + wlen - 1) : buf'[k % size'] = k + 1
      BY <2>2, <3>2
    <3>4. \A k \in (got')..(sent' - 1) : buf'[k % size'] = k + 1
      BY <3>1, <3>3
    <3> QED
      BY <3>4 DEF Placed
  <2>4. GetSplit' = GetSplit
    BY <2>1 DEF GetSplit, Least, Offset
  <2> QED
    BY <1>0, <2>1, <2>3, <2>4
    DEF BytesInv, AtMostLen, Writing, Reading, ReaderCopied, WriterCopied
<1> QED
  BY <1>5, <1>6, <1>7

\* The steps of get that move bytes or the index.
LEMMA GetBytes ==
  ASSUME RingInv, BytesInv, GetFirst \/ GetRest \/ GetAdvance
  PROVE  BytesInv'
<1>0. /\ fifo = "ready" /\ Reading
      /\ size \in Nat \ {0} /\ sent \in Nat /\ got \in Nat /\ wlen \in Nat
      /\ rlen \in Nat /\ rwant \in Nat /\ in \in Nat /\ out \in Nat
      /\ got <= sent /\ sent - got <= size /\ rlen <= sent - got
      /\ rlen <= rwant /\ rlen <= size
  BY DEF RingInv, TypeOK, Allocated, Quiet, NoOverrun, Reading, BytesInv,
     AtMostLen, GetFirst, GetRest, GetAdvance
<1>1. /\ Offset(out) \in 0..(size - 1)
      /\ GetSplit \in 0..rlen
      /\ GetSplit = IF rlen < size - Offset(out) THEN rlen ELSE size - Offset(out)
  BY <1>0, OffsetRange, SplitRange
<1>2. \A i \in 0..(rlen - 1) :
        /\ Offset(out) + i < size => buf[Offset(out) + i] = got + i + 1
        /\ ~(Offset(out) + i < size) => buf[Offset(out) + i - size] = got + i + 1
  <2> SUFFICES ASSUME NEW i \in 0..(rlen - 1)
               PROVE  buf[IF Offset(out) + i < size THEN Offset(out) + i
                          ELSE Offset(out) + i - size] = got + i + 1
    OBVIOUS
  <2>1. i \in 0..(size - 1)
    BY <1>0
  <2>2. (got + i) % size = IF Offset(out) + i < size THEN Offset(out) + i
                           ELSE Offset(out) + i - size
    BY <1>0, <2>1, ReaderPlace
  <2>3. got + i \in got..(sent - 1)
    BY <1>0
  <2>4. buf[(got + i) % size] = got + i + 1
    BY <2>3 DEF BytesInv, Placed
  <2> QED
    BY <2>2, <2>4
<1>3. CASE GetFirst
  <2>1. /\ UNCHANGED <<size, in, out, buf, wpc, wlen, wwant, rlen, rwant, sent, got>>
        /\ rpc' = "rest"
    BY <1>3 DEF GetFirst, ring, writer, history
  <2>2. dest' = [i \in 1..GetSplit |-> got + i]
    <3>1. ASSUME NEW i \in 1..GetSplit
          PROVE  buf[Offset(out) + i - 1] = got + i
      <4>1. PICK j \in Int : j = i - 1
        OBVIOUS
      <4>2. /\ j \in 0..(rlen - 1) /\ Offset(out) + j < size
            /\ Offset(out) + j = Offset(out) + i - 1 /\ got + j + 1 = got + i
        BY <1>0, <1>1, <4>1
      <4> QED
        BY <1>2, <4>2
    <3> QED
      BY <1>3, <3>1 DEF GetFirst
  <2>3. PutSplit' = PutSplit /\ GetSplit' = GetSplit
    BY <2>1 DEF PutSplit, GetSplit, Least, Offset
  <2>4. ReaderCopied'
    BY <2>1, <2>2, <2>3 DEF ReaderCopied
  <2> QED
    BY <1>0, <2>1, <2>3, <2>4
    DEF BytesInv, AtMostLen, Writing, Reading, WriterCopied, Placed
<1>4. CASE GetRest
  <2>1. /\ UNCHANGED <<size, in, out, buf, wpc, wlen, wwant, rlen, rwant, sent, got>>
        /\ rpc' = "advance" /\ rpc = "rest"
    BY <1>4 DEF GetRest, ring, writer, history
  <2>2. dest' = [i \in 1..rlen |-> got + i]
    <3>1. dest = [i \in 1..GetSplit |-> got + i]
      BY <2>1 DEF BytesInv, ReaderCopied
    <3>2. PICK n \in Nat : n = rlen - GetSplit
      BY <1>0, <1>1
    <3>3. ASSUME NEW i \in 1..n
          PROVE  buf[i - 1] = got + GetSplit + i
      <4>1. PICK j \in Int : j = GetSplit + i - 1
        BY <1>1
      <4>2. /\ j \in 0..(rlen - 1) /\ ~(Offset(out) + j < size)
            /\ Offset(out) + j - size = i - 1 /\ got + j + 1 = got + GetSplit + i
        BY <1>0, <1>1, <3>2, <4>1
      <4> QED
        BY <1>2, <4>2
    <3>4. [i \in 1..n |-> buf[i - 1]] = [i \in 1..n |-> got + GetSplit + i]
      BY <3>3
    <3>5. dest' = dest \o [i \in 1..n |-> got + GetSplit + i]
      BY <1>4, <3>2, <3>4 DEF GetRest
    <3>6. GetSplit \in Nat /\ rlen = GetSplit + n
      BY <1>0, <1>1, <3>2
    <3> QED
      BY <1>0, <3>1, <3>2, <3>5, <3>6, Joined
  <2>3. PutSplit' = PutSplit
    BY <2>1 DEF PutSplit, Least, Offset
  <2>4. ReaderCopied'
    BY <2>1, <2>2 DEF ReaderCopied
  <2> QED
    BY <1>0, <2>1, <2>3, <2>4
    DEF BytesInv, AtMostLen, Writing, Reading, WriterCopied, Placed
<1>5. CASE GetAdvance
  <2>1. /\ UNCHANGED <<size, in, buf, wpc, wlen, wwant, sent>>
        /\ rpc' = "idle" /\ got' = got + rlen
    BY <1>5 DEF GetAdvance, ring, writer
  <2>2. \A k \in (got')..(sent' - 1) : Placed(k)'
    <3>1. \A k \in (got + rlen)..(sent - 1) : k \in got..(sent - 1)
      BY <1>0
    <3>2. \A k \in (got + rlen)..(sent - 1) : buf[k % size] = k + 1
      BY <3>1 DEF BytesInv, Placed
    <3> QED
      BY <2>1, <3>2 DEF Placed
  <2>3. PutSplit' = PutSplit
    BY <2>1 DEF PutSplit, Least, Offset
  <2> QED
    BY <1>0, <2>1, <2>2, <2>3
    DEF BytesInv, AtMostLen, Writing, Reading, ReaderCopied, WriterCopied, Placed
<1> QED
  BY <1>3, <1>4, <1>5

LEMMA BytesStep ==
  SizesFit /\ ~ReadsTwice /\ RingInv /\ BytesInv /\ [Next]_vars => BytesInv'
<1> SUFFICES ASSUME SizesFit, ~ReadsTwice, RingInv, BytesInv, [Next]_vars
             PROVE  BytesInv'
  OBVIOUS
<1> USE DEF BytesInv, AtMostLen, Writing, Reading, WriterCopied, ReaderCopied,
        Placed, PutSplit, GetSplit, Least, Offset
<1>1. ASSUME NEW n \in Asks, Alloc(n)
      PROVE  BytesInv'
  <2>1. /\ sent = 0 /\ got = 0 /\ wpc = "idle" /\ rpc = "idle"
        /\ UNCHANGED <<sent, got, wpc, rpc>>
    BY <1>1 DEF Alloc, RingInv, Allocated, Quiet, writer, reader, history
  <2> QED
    BY <2>1
<1>2. ASSUME NEW n \in Asks, AllocFails(n)
      PROVE  BytesInv'
  BY <1>2 DEF AllocFails, writer, reader, history
<1>3. ASSUME NEW n \in Wants, PutCall(n)
      PROVE  BytesInv'
  BY <1>3 DEF PutCall, ring, reader, history
<1>4. ASSUME NEW n \in Wants, GetCall(n)
      PROVE  BytesInv'
  BY <1>4 DEF GetCall, ring, writer, history
<1>5. CASE PutMin
  <2>1. fifo = "ready" /\ wwant \in Nat /\ Space \in Nat
    <3>1. fifo = "ready"
      BY <1>5 DEF PutMin, RingInv, Allocated, Quiet
    <3> QED
      BY <1>5, <3>1, SpaceIs DEF PutMin, RingInv, TypeOK, NoOverrun
  <2>2. wpc' = "copy" /\ wlen' <= wwant
    BY <1>5, <2>1 DEF PutMin
  <2> QED
    BY <1>5, <2>2 DEF PutMin, ring, reader, history
<1>6. CASE GetMin
  <2>1. fifo = "ready" /\ rwant \in Nat /\ Length \in Nat
    <3>1. fifo = "ready"
      BY <1>6 DEF GetMin, RingInv, Allocated, Quiet
    <3> QED
      BY <1>6, <3>1, LengthIs DEF GetMin, RingInv, TypeOK, NoOverrun
  <2>2. rpc' = "copy" /\ rlen' <= rwant
    BY <1>6, <2>1 DEF GetMin
  <2> QED
    BY <1>6, <2>2 DEF GetMin, ring, writer, history
<1>7. CASE PutMinAgain \/ GetMinAgain
  BY <1>7 DEF PutMinAgain, GetMinAgain
<1>8. CASE PutFirst \/ PutRest \/ PutAdvance
  BY <1>8, PutBytes
<1>9. CASE GetFirst \/ GetRest \/ GetAdvance
  BY <1>9, GetBytes
<1>10. CASE Reset
  <2>1. /\ sent' = 0 /\ got' = 0 /\ wpc = "idle" /\ rpc = "idle"
        /\ UNCHANGED <<wpc, rpc>>
    BY <1>10 DEF Reset, Quiet, writer, reader
  <2> QED
    BY <2>1
<1>11. CASE Free
  BY <1>11 DEF Free, writer, reader, history
<1>12. CASE UNCHANGED vars
  BY <1>12 DEF vars
<1> QED
  BY <1>1, <1>2, <1>3, <1>4, <1>5, <1>6, <1>7, <1>8, <1>9, <1>10, <1>11, <1>12
  DEF Next, Putting, Getting

LEMMA IntactFollows == ASSUME IInv PROVE Intact
<1> SUFFICES ASSUME NEW n \in 1..(sent - got)
             PROVE  buf[Offset((out + n - 1) % IndexMod)] = got + n
  BY DEF Intact
<1>1. /\ size \in Nat \ {0} /\ IndexMod \in Nat \ {0} /\ IndexMod % size = 0
      /\ sent \in Nat /\ got \in Nat /\ got <= sent /\ out = got % IndexMod
      /\ out \in Int
  <2>1. TypeOK /\ NoOverrun /\ IndicesCount /\ Allocated
    BY DEF IInv, RingInv
  <2>2. sent \in Nat /\ got \in Nat /\ size \in Nat /\ out \in Int /\ got <= sent
    BY <2>1, WidthIs DEF TypeOK, NoOverrun
  <2>3. size /= 0
    BY <2>1, <2>2 DEF NoOverrun
  <2>4. fifo \in {"ready", "freed"}
    BY <2>1, <2>3 DEF TypeOK, Allocated, NoSize
  <2> QED
    BY <2>1, <2>2, <2>3, <2>4, WidthIs DEF IndicesCount, Allocated
<1>2. PICK j \in Nat : j = n - 1
  BY <1>1
<1>3. /\ out + n - 1 = out + j /\ got + j \in got..(sent - 1)
      /\ got + j + 1 = got + n /\ got + j \in Int /\ j \in Int /\ got \in Int
  BY <1>1, <1>2
<1>4. ((got % IndexMod) + j) % IndexMod = (got + j) % IndexMod
  BY <1>1, <1>3, ModAdd
<1>5. ((got + j) % IndexMod) % size = (got + j) % size
  BY <1>1, <1>3, ModMod
<1>6. Offset((out + n - 1) % IndexMod) = (got + j) % size
  BY <1>1, <1>3, <1>4, <1>5 DEF Offset
<1>7. buf[(got + j) % size] = got + j + 1
  BY <1>3 DEF IInv, BytesInv, Placed
<1> QED
  BY <1>3, <1>6, <1>7

\* The bytes are safe without a lock.
THEOREM BytesSafe ==
  ASSUME AsksFit, ~ReadsTwice
  PROVE  Spec => [](TypeOK /\ AtMostLen /\ Intact)
<1>1. Init => IInv
  BY RingInit, BytesInit DEF IInv
<1>2. IInv /\ [Next]_vars => IInv'
  BY RingStep, BytesStep, SizesDivide, AsksFit, ~ReadsTwice DEF IInv
<1>3. IInv => TypeOK /\ AtMostLen /\ Intact
  BY IntactFollows DEF IInv, RingInv, BytesInv
<1> QED
  BY <1>1, <1>2, <1>3, PTL DEF Spec

--------------------------------------------------------------------------------
(* Refinement.                                                             *)

\* n consecutive bytes after the first g.
Run(g, n) == [i \in 1..n |-> g + i]

LEMMA RunIsSeq ==
  ASSUME NEW g \in Nat, NEW n \in Nat
  PROVE  Run(g, n) \in Seq(Nat) /\ Len(Run(g, n)) = n
BY DEF Run

LEMMA RunFront ==
  ASSUME NEW g \in Nat, NEW n \in Nat, NEW k \in 0..n
  PROVE  SubSeq(Run(g, n), 1, k) = Run(g, k)
BY DEF Run

LEMMA RunBack ==
  ASSUME NEW g \in Nat, NEW n \in Nat, NEW k \in 0..n
  PROVE  SubSeq(Run(g, n), k + 1, n) = Run(g + k, n - k)
<1>1. \A i \in 1..(n - k) : k + 1 + i - 1 \in 1..n /\ g + (k + 1 + i - 1) = g + k + i
  OBVIOUS
<1> QED
  BY <1>1 DEF Run

LEMMA RefinesInit == Init => Abstract!Init
<1> SUFFICES ASSUME Init PROVE Abstract!Init
  OBVIOUS
<1>1. sent - got = 0
  BY DEF Init
<1>2. [i \in 1..(sent - got) |-> got + i] = <<>>
  BY <1>1
<1> QED
  BY <1>2 DEF Init, Abstract!Init, NoSize

LEMMA RefinesStep ==
  ASSUME IInv, IInv', [Next]_vars
  PROVE  [Abstract!Next]_(Abstract!vars)
<1>0. /\ size \in Nat /\ sent \in Nat /\ got \in Nat /\ got <= sent
      /\ wlen \in Nat /\ rlen \in Nat
  BY DEF IInv, RingInv, TypeOK, NoOverrun
<1>1. CASE UNCHANGED <<size, sent, got, last>>
  BY <1>1 DEF Abstract!vars
<1>2. ASSUME NEW n \in Asks, Alloc(n)
      PROVE  Abstract!Allocate
  <2>1. size = 0 /\ UNCHANGED <<sent, got, last>>
    BY <1>2 DEF IInv, RingInv, Allocated, Alloc, NoSize, history
  <2>2. size' \in Nat
    BY DEF IInv, RingInv, TypeOK
  <2> QED
    BY <2>1, <2>2 DEF Abstract!Allocate
<1>3. CASE PutAdvance
  <2>1. PICK n \in Nat : n = sent - got
    BY <1>0
  <2>2. /\ UNCHANGED <<size, got, last>> /\ sent' - got' = n + wlen
    BY <1>0, <1>3, <2>1 DEF PutAdvance, ring
  <2>3. n + wlen <= size
    BY <1>3, <2>1 DEF PutAdvance, IInv, RingInv, NoOverrun, Writing
  <2>4. /\ Run(got, n) \in Seq(Nat) /\ Len(Run(got, n)) = n
        /\ Len(Run(got, n + wlen)) = n + wlen
        /\ SubSeq(Run(got, n + wlen), 1, n) = Run(got, n)
    <3>1. n + wlen \in Nat /\ n \in 0..(n + wlen)
      BY <1>0
    <3> QED
      BY <1>0, <3>1, RunIsSeq, RunFront
  <2>5. Len(Run(got, n + wlen)) \in Len(Run(got, n))..size
    BY <1>0, <2>3, <2>4
  <2>6. /\ [i \in 1..(sent - got) |-> got + i] = Run(got, n)
        /\ [i \in 1..(sent' - got') |-> got' + i] = Run(got, n + wlen)
    BY <2>1, <2>2 DEF Run
  <2>7. Abstract!Put
    BY <2>2, <2>4, <2>5, <2>6 DEF Abstract!Put
  <2> QED
    BY <2>7 DEF Abstract!Next
<1>4. CASE GetAdvance
  <2>1. PICK n \in Nat : n = sent - got
    BY <1>0
  <2>2. rlen \in 0..n
    BY <1>0, <1>4, <2>1 DEF GetAdvance, IInv, RingInv, NoOverrun, Reading
  <2>3. /\ UNCHANGED <<size, sent>> /\ got' = got + rlen
        /\ sent' - got' = n - rlen
    BY <1>0, <1>4, <2>1 DEF GetAdvance, ring
  <2>4. last' = Run(got, rlen)
    BY <1>4 DEF GetAdvance, IInv, BytesInv, ReaderCopied, Run
  <2>5. /\ SubSeq(Run(got, n), 1, rlen) = Run(got, rlen)
        /\ SubSeq(Run(got, n), rlen + 1, n) = Run(got + rlen, n - rlen)
        /\ Len(Run(got, n)) = n
    <3>1. SubSeq(Run(got, n), 1, rlen) = Run(got, rlen)
      BY <1>0, <2>2, RunFront
    <3>2. SubSeq(Run(got, n), rlen + 1, n) = Run(got + rlen, n - rlen)
      BY <1>0, <2>2, RunBack
    <3>3. Len(Run(got, n)) = n
      BY <1>0, RunIsSeq
    <3>4. QED
      BY <3>1, <3>2, <3>3
  <2>6. /\ [i \in 1..(sent - got) |-> got + i] = Run(got, n)
        /\ [i \in 1..(sent' - got') |-> got' + i] = Run(got + rlen, n - rlen)
    BY <2>1, <2>3 DEF Run
  <2>7. Abstract!Get
    BY <2>2, <2>3, <2>4, <2>5, <2>6 DEF Abstract!Get
  <2> QED
    BY <2>7 DEF Abstract!Next
<1>5. CASE Reset
  <2>1. UNCHANGED <<size, last>> /\ sent' - got' = 0
    BY <1>5 DEF Reset, ring
  <2>2. [i \in 1..(sent' - got') |-> got' + i] = <<>>
    BY <2>1
  <2>3. Abstract!Reset
    BY <2>1, <2>2 DEF Abstract!Reset
  <2> QED
    BY <2>3 DEF Abstract!Next
<1>6. CASE \/ \E n \in Asks : AllocFails(n)
           \/ \E n \in Wants : PutCall(n) \/ GetCall(n)
           \/ PutMin \/ PutMinAgain \/ PutFirst \/ PutRest
           \/ GetMin \/ GetMinAgain \/ GetFirst \/ GetRest
           \/ Free \/ UNCHANGED vars
  <2>1. UNCHANGED <<size, sent, got, last>>
    BY <1>6
    DEF AllocFails, PutCall, GetCall, PutMin, PutMinAgain, PutFirst, PutRest,
        GetMin, GetMinAgain, GetFirst, GetRest, Free, vars, ring, history
  <2> QED
    BY <1>1, <2>1
<1> QED
  BY <1>2, <1>3, <1>4, <1>5, <1>6 DEF Next, Putting, Getting, Abstract!Next

\* Every step of the ring is a step of the bounded byte sequence or changes
\* nothing that it shows.
THEOREM Implements ==
  ASSUME AsksFit, ~ReadsTwice
  PROVE  Spec => ImplementsByteFifo
<1>1. Init => IInv
  BY RingInit, BytesInit DEF IInv
<1>2. IInv /\ [Next]_vars => IInv'
  BY RingStep, BytesStep, SizesDivide, AsksFit, ~ReadsTwice DEF IInv
<1>3. IInv /\ IInv' /\ [Next]_vars => [Abstract!Next]_(Abstract!vars)
  BY RefinesStep
<1> QED
  BY <1>1, <1>2, <1>3, RefinesInit, PTL
  DEF Spec, ImplementsByteFifo, Abstract!Spec
================================================================================
