---------------------------- MODULE IntegerLemmas ----------------------------
(***************************************************************************)
(* Facts about integers that the proofs of several components need: the    *)
(* least and the greatest element of a set, remainders next to the         *)
(* modulus (how the counters of the code wrap), and products.              *)
(***************************************************************************)
EXTENDS Integers, FiniteSetsExt, WellFoundedInduction, TLAPS

\* A non-empty set of naturals has a least element, and Min is it.
LEMMA MinNat ==
  ASSUME NEW S, S \subseteq Nat, S # {}
  PROVE  Min(S) \in S /\ \A y \in S : Min(S) <= y
<1>1. PICK x \in S : \A y \in S : ~(<<y, x>> \in OpToRel(<, Nat))
  BY NatLessThanWellFounded, WFMin
<1>2. ASSUME NEW y \in S PROVE x <= y
  <2>1. <<y, x>> \notin {ss \in Nat \X Nat : ss[1] < ss[2]}
    BY <1>1, Zenon DEF OpToRel
  <2>2. QED
    BY <2>1
<1>3. QED
  BY <1>2 DEF Min

\* A non-empty bounded set of naturals has a greatest element, and Max is it.
LEMMA MaxNat ==
  ASSUME NEW S, NEW n \in Nat, S \subseteq 0 .. n, S # {}
  PROVE  Max(S) \in S /\ \A y \in S : Max(S) >= y
<1> DEFINE T == {n - x : x \in S}
<1>1. ASSUME NEW t \in T PROVE t \in Nat
  <2>1. PICK x \in S : t = n - x
    OBVIOUS
  <2>2. x \in 0..n
    OBVIOUS
  <2>3. QED
    BY <2>1, <2>2
<1>2. T # {}
  <2>1. PICK x : x \in S
    OBVIOUS
  <2>2. n - x \in T
    BY <2>1
  <2>3. QED
    BY <2>2
<1>3. T \subseteq Nat /\ T # {}
  BY <1>1, <1>2
<1>4. PICK x \in S : Min(T) = n - x
  <2>1. Min(T) \in T
    BY <1>3, MinNat
  <2>2. QED
    BY <2>1
<1>5. ASSUME NEW y \in S PROVE x >= y
  <2>1. n - y \in T
    OBVIOUS
  <2>2. n - x <= n - y
    BY <1>3, <1>4, <2>1, MinNat
  <2>3. x \in 0..n /\ y \in 0..n
    OBVIOUS
  <2>4. QED
    BY <2>2, <2>3
<1>6. QED
  BY <1>5 DEF Max

\* Of two integers, Min is the smaller and Max the greater.
LEMMA MinMaxPair ==
  ASSUME NEW a \in Int, NEW b \in Int
  PROVE  /\ Min({a, b}) = IF a <= b THEN a ELSE b
         /\ Max({a, b}) = IF a >= b THEN a ELSE b
  BY DEF Min, Max

\* How a remainder wraps: once below zero, not at all, or once at the top.
LEMMA ModWrap ==
  ASSUME NEW n \in Nat \ {0}, NEW x \in Int
  PROVE  /\ x % n \in 0 .. n - 1
         /\ 0 <= x /\ x < n => x % n = x
         /\ n <= x /\ x < 2 * n => x % n = x - n
         /\ -n <= x /\ x < 0 => x % n = x + n
  OBVIOUS

\* Multiplication by a natural number keeps an order.
LEMMA TimesMonotone ==
  ASSUME NEW k \in Nat, NEW a \in Int, NEW b \in Int, a <= b
  PROVE  k * a <= k * b /\ k * a \in Int /\ k * b \in Int
  OBVIOUS

\* Multiplication distributes over sums and differences.
LEMMA TimesDistributes ==
  ASSUME NEW k \in Int, NEW a \in Int, NEW b \in Int
  PROVE  /\ k * (a + b) = k * a + k * b /\ k * (a - b) = k * a - k * b
         /\ k * a \in Int /\ k * b \in Int
  OBVIOUS

\* A natural number is a multiple of the divisor plus a remainder below it.
LEMMA DivMod ==
  ASSUME NEW b \in Nat \ {0}, NEW x \in Nat
  PROVE  /\ x \div b \in Nat /\ x % b \in 0 .. b - 1
         /\ x % b = x - b * (x \div b)
  OBVIOUS

\* There is only one way to write it so.
LEMMA DivUnique ==
  ASSUME NEW b \in Nat \ {0}, NEW q \in Nat, NEW r \in 0 .. b - 1, NEW x \in Nat,
         x = b * q + r
  PROVE  x \div b = q /\ x % b = r
  OBVIOUS

\* A multiple of the divisor has no remainder.
LEMMA DivMultiple ==
  ASSUME NEW b \in Nat \ {0}, NEW q \in Nat, NEW x \in Nat, x = b * q
  PROVE  x \div b = q /\ x % b = 0
<1>1. x \div b \in Nat /\ x % b \in 0 .. b - 1 /\ x % b = x - b * (x \div b)
  BY DivMod
<1>2. PICK k \in Nat : k = x \div b /\ b * q - b * k \in 0 .. b - 1
  BY <1>1
<1>3. k = q
  <2>1. CASE k < q
    <3>1. b * (k + 1) <= b * q /\ b * (k + 1) = b * k + b /\ b * k \in Int /\ b * q \in Int
      BY <2>1, TimesMonotone
    <3>2. QED
      BY <1>2, <3>1
  <2>2. CASE k > q
    <3>1. b * (q + 1) <= b * k /\ b * (q + 1) = b * q + b /\ b * k \in Int /\ b * q \in Int
      BY <2>2, TimesMonotone
    <3>2. QED
      BY <1>2, <3>1
  <2>3. QED
    BY <2>1, <2>2
<1>4. QED
  BY <1>1, <1>2, <1>3

\* The quotient of the next number is the same, or one more where the remainder
\* is zero.
LEMMA DivNext ==
  ASSUME NEW b \in Nat \ {0}, b > 1, NEW x \in Nat
  PROVE  (x + 1) \div b = (x \div b) + IF (x + 1) % b = 0 THEN 1 ELSE 0
<1> DEFINE q == x \div b
           r == x % b
<1>1. q \in Nat /\ r \in 0 .. b - 1 /\ r = x - b * q
  BY DivMod
<1> HIDE DEF q, r
<1>2. CASE r + 1 < b
  <2>1. x + 1 = b * q + (r + 1) /\ r + 1 \in 0 .. b - 1
    BY <1>1, <1>2
  <2>2. (x + 1) \div b = q /\ (x + 1) % b = r + 1
    BY <1>1, <2>1, DivUnique
  <2>3. QED
    BY <1>1, <2>2 DEF q
<1>3. CASE ~(r + 1 < b)
  <2>1. PICK k \in Nat, y \in Nat : k = q + 1 /\ y = x + 1 /\ y = b * k
    BY <1>1, <1>3
  <2>2. y \div b = k /\ y % b = 0
    BY <2>1, DivMultiple, Zenon
  <2>3. QED
    BY <1>1, <2>1, <2>2 DEF q
<1>4. QED
  BY <1>2, <1>3

\* A number is below a multiple of the divisor exactly when its quotient is.
LEMMA DivBelow ==
  ASSUME NEW b \in Nat \ {0}, NEW x \in Nat, NEW y \in Nat, y % b = 0
  PROVE  /\ x < y <=> x \div b < y \div b
         /\ y = b * (y \div b)
<1> DEFINE q == x \div b
           k == y \div b
<1>1. q \in Nat /\ k \in Nat /\ x - b * q \in 0 .. b - 1 /\ y - b * k = 0
  BY DivMod
<1> HIDE DEF q, k
<1>2. b * q \in Int /\ b * k \in Int
  BY <1>1
<1>3. y = b * k
  BY <1>1, <1>2
<1>4. CASE q < k
  <2>1. b * (q + 1) <= b * k /\ b * (q + 1) = b * q + b
    BY <1>1, <1>4, TimesMonotone
  <2>2. x < y
    BY <1>1, <1>2, <1>3, <2>1
  <2>3. QED
    BY <1>3, <1>4, <2>2 DEF q, k
<1>5. CASE ~(q < k)
  <2>1. b * k <= b * q
    BY <1>1, <1>5, TimesMonotone
  <2>2. ~(x < y)
    BY <1>1, <1>2, <1>3, <2>1
  <2>3. QED
    BY <1>3, <1>5, <2>2 DEF q, k
<1>6. QED
  BY <1>4, <1>5

==============================================================================
