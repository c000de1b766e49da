---------------------------- MODULE NaturalFacts ----------------------------
(* Facts about natural numbers that the proofs of Nvic and Demo rest on.   *)
EXTENDS Integers, WellFoundedInduction, TLAPS

(* A non-empty set of natural numbers has a least element.                 *)
LEMMA LeastNatural ==
  ASSUME NEW T \in SUBSET Nat, T # {}
  PROVE  \E x \in T : \A y \in T : x <= y
  <1> DEFINE R == {ss \in Nat \X Nat : ss[1] < ss[2]}
  <1>1. IsWellFoundedOn(R, Nat)
    BY NatLessThanWellFounded, Zenon DEF OpToRel
  <1>2. \A x, y \in Nat : <<y, x>> \in R <=> y < x
    OBVIOUS
  <1> HIDE DEF R
  <1>3. PICK x \in T : \A y \in T : ~(<<y, x>> \in R)
    BY <1>1, WFMin, Zenon
  <1>4. \A y \in T : ~(y < x)
    BY <1>2, <1>3, Zenon
  <1>5. QED
    BY <1>4

(* Rounding down to a multiple of m keeps the order.                       *)
LEMMA FloorOrder ==
  ASSUME NEW m \in Nat \ {0}, NEW a \in Nat, NEW b \in Nat, a <= b
  PROVE  /\ a - (a % m) \in 0..a
         /\ a - (a % m) <= b - (b % m)
  <1> DEFINE qa == a \div m
             qb == b \div m
             ra == a % m
             rb == b % m
  <1>1. qa \in Nat /\ ra \in 0..(m - 1) /\ a = m * qa + ra
    OBVIOUS
  <1>2. qb \in Nat /\ rb \in 0..(m - 1) /\ b = m * qb + rb
    OBVIOUS
  <1> HIDE DEF qa, qb, ra, rb
  <1>3. qa <= qb
    <2> SUFFICES ASSUME qa > qb PROVE FALSE
      BY <1>1, <1>2
    <2> DEFINE d == qa - qb - 1
    <2>1. d \in Nat /\ qa = qb + 1 + d
      BY <1>1, <1>2
    <2> HIDE DEF d
    <2>2. m * qa = m * qb + m + m * d /\ m * d \in Nat
      BY <2>1, <1>1, <1>2
    <2>3. QED
      BY <2>2, <1>1, <1>2
  <1>4. m * qa <= m * qb /\ m * qa \in Nat /\ m * qb \in Nat
    BY <1>1, <1>2, <1>3
  <1>5. a - ra = m * qa /\ b - rb = m * qb
    BY <1>1, <1>2, <1>4
  <1>6. a - ra \in 0..a /\ a - ra <= b - rb
    BY <1>1, <1>4, <1>5
  <1>7. QED
    BY <1>6 DEF ra, rb

(* The greater multiple of m has the greater factor.                       *)
LEMMA MultipleOrder ==
  ASSUME NEW m \in Nat \ {0}, NEW x \in Nat, NEW y \in Nat, m * x < m * y
  PROVE  x < y
  <1> SUFFICES ASSUME y <= x PROVE FALSE
    OBVIOUS
  <1> DEFINE d == x - y
  <1>1. d \in Nat /\ x = y + d
    OBVIOUS
  <1> HIDE DEF d
  <1>2. m * x = m * y + m * d /\ m * d \in Nat /\ m * y \in Nat
    BY <1>1
  <1>3. QED
    BY <1>2

(* A strictly falling sequence of n integers from -2 up to k - 1 has at    *)
(* most k + 2 of them.                                                     *)
LEMMA FallingIsShort ==
  ASSUME NEW n \in Nat, NEW k \in Nat, NEW f \in [1..n -> Int],
         \A i \in 1..n : -2 <= f[i] /\ f[i] < k,
         \A i, j \in 1..n : i < j => f[j] < f[i]
  PROVE  n <= k + 2
  <1> DEFINE T == {i \in 1..n : f[i] > k - i}
  <1>1. T = {}
    <2> SUFFICES ASSUME T # {} PROVE FALSE
      OBVIOUS
    <2>1. T \in SUBSET Nat
      OBVIOUS
    <2> HIDE DEF T
    <2>2. PICK x \in T : \A y \in T : x <= y
      BY <2>1, LeastNatural
    <2>3. x \in 1..n /\ f[x] > k - x /\ f[x] \in Int
      BY DEF T
    <2>4. f[x] < k /\ x # 1
      <3>1. f[x] < k
        BY <2>3
      <3>2. QED
        BY <2>3, <3>1
    <2>5. x - 1 \in 1..n /\ x - 1 < x /\ f[x - 1] \in Int
      BY <2>3, <2>4
    <2>6. x - 1 \notin T
      BY <2>2, <2>3, <2>5
    <2>7. f[x - 1] <= k - (x - 1)
      BY <2>5, <2>6 DEF T
    <2>8. f[x] < f[x - 1]
      BY <2>3, <2>5
    <2>9. QED
      BY <2>3, <2>5, <2>7, <2>8
  <1>2. CASE n = 0
    BY <1>2
  <1>3. CASE n # 0
    <2>1. n \in 1..n /\ f[n] \in Int
      BY <1>3
    <2>2. f[n] <= k - n
      BY <1>1, <2>1
    <2>3. QED
      BY <2>1, <2>2
  <1>4. QED
    BY <1>2, <1>3
=============================================================================
