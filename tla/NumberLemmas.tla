---------------------------- MODULE NumberLemmas ----------------------------
(***************************************************************************)
(* Facts about numbers that the proofs share.                              *)
(***************************************************************************)
EXTENDS Integers, FiniteSetsExt, WellFoundedInduction, TLAPS

\* A set of numbers that is not empty has a smallest one.
LEMMA MinIsMember ==
    ASSUME NEW S \in SUBSET Nat, S # {}
    PROVE  Min(S) \in S /\ \A m \in S : Min(S) =< m
  <1> DEFINE Less == OpToRel(<, Nat)
  <1>1. Less = {p \in Nat \X Nat : p[1] < p[2]}
    BY Zenon DEF OpToRel
  <1>2. IsWellFoundedOn(Less, Nat)
    BY Zenon, NatLessThanWellFounded
  <1> HIDE DEF Less
  <1>3. PICK n \in S : \A m \in S : ~ (<<m, n>> \in Less)
    BY <1>2, WFMin
  <1>4. ASSUME NEW m \in S PROVE n =< m
    <2>1. m \in Nat /\ n \in Nat
      OBVIOUS
    <2>2. CASE m < n
      <3> DEFINE p == <<m, n>>
      <3>1. p \in Nat \X Nat /\ p[1] < p[2]
        BY <2>1, <2>2
      <3>2. p \in Less
        BY <1>1, <3>1, Zenon
      <3> QED
        BY <1>3, <3>2
    <2> QED
      BY <2>1, <2>2
  <1> QED
    BY <1>4 DEF Min

-----------------------------------------------------------------------------
(* Modular arithmetic, for any modulus *)

\* A remainder lies below the modulus.
LEMMA ModRange ==
    ASSUME NEW m \in Nat \ {0}, NEW a \in Int
    PROVE  a % m \in 0..(m - 1)
  BY SMT

\* A quotient is an integer.
LEMMA DivRange ==
    ASSUME NEW m \in Nat \ {0}, NEW a \in Int
    PROVE  a \div m \in Int
  BY SMT

\* Quotient and remainder make up the number.
LEMMA DivMod ==
    ASSUME NEW m \in Nat \ {0}, NEW a \in Int
    PROVE  a = m * (a \div m) + (a % m)
  BY SMT

\* The remainder is the only number below the modulus that does.
LEMMA ModUnique ==
    ASSUME NEW m \in Nat \ {0}, NEW q \in Int, NEW r \in 0..(m - 1)
    PROVE  (m * q + r) % m = r
  BY SMT

\* A multiple of the modulus does not change the remainder.
LEMMA ModAddMul ==
    ASSUME NEW m \in Nat \ {0}, NEW a \in Int, NEW q \in Int
    PROVE  (a + m * q) % m = a % m
  <1> DEFINE d == a \div m
             r == a % m
  <1>1. r \in 0..(m - 1) /\ a = m * d + r /\ d \in Int
    BY DivMod, DivRange, ModRange
  <1> HIDE DEF d, r
  <1>2. a + m * q = m * (d + q) + r /\ d + q \in Int
    BY <1>1
  <1> QED
    BY <1>1, <1>2, ModUnique DEF r

\* Reducing a summand does not change the remainder of the sum.
LEMMA ModAdd ==
    ASSUME NEW m \in Nat \ {0}, NEW a \in Int, NEW b \in Int
    PROVE  (a + (b % m)) % m = (a + b) % m
  <1> DEFINE d == b \div m
             r == b % m
  <1>1. b = m * d + r /\ d \in Int /\ r \in Int
    BY DivMod, DivRange, ModRange
  <1> HIDE DEF d, r
  <1>2. a + b = (a + r) + m * d /\ a + r \in Int
    BY <1>1
  <1>3. (a + b) % m = (a + r) % m
    <2> DEFINE c == a + r
    <2>1. c \in Int /\ a + b = c + m * d
      BY <1>2
    <2> HIDE DEF c
    <2>2. (c + m * d) % m = c % m
      BY <1>1, <2>1, ModAddMul
    <2> QED
      BY <2>1, <2>2 DEF c
  <1> QED
    BY <1>3 DEF r

\* Nor does reducing what is subtracted from.
LEMMA ModSub ==
    ASSUME NEW m \in Nat \ {0}, NEW a \in Int, NEW b \in Int
    PROVE  ((a % m) - b) % m = (a - b) % m
  <1> DEFINE c == -b
             r == a % m
  <1>1. c \in Int /\ r \in Int /\ c + r = r - b /\ c + a = a - b
    BY ModRange
  <1>2. (c + r) % m = (c + a) % m
    <2> HIDE DEF c
    <2> QED
      BY <1>1, ModAdd, Zenon
  <1> HIDE DEF c, r
  <1>3. (r - b) % m = (a - b) % m
    BY <1>1, <1>2, Zenon
  <1> QED
    BY <1>3 DEF r

\* What is moved from one summand to the other does not change the sum: b
\* bytes that have been sent wait for their acknowledgment instead.
LEMMA ModMoved ==
    ASSUME NEW m \in Nat \ {0}, NEW u \in Int, NEW x \in Int, NEW y \in Int,
           NEW b \in Int
    PROVE  ((u - b) + ((((x + b) % m) - y) % m)) % m = (u + ((x - y) % m)) % m
  <1> DEFINE v == u - b
             z == x + b
             d == z - y
             e == x - y
  <1>1. v \in Int /\ z \in Int /\ d \in Int /\ e \in Int /\ v + d = u + e
    OBVIOUS
  <1> HIDE DEF v, z, d, e
  <1>2. ((z % m) - y) % m = d % m
    BY <1>1, ModSub, Zenon DEF d
  <1>3. (v + (d % m)) % m = (v + d) % m
    BY <1>1, ModAdd, Zenon
  <1>4. (u + (e % m)) % m = (u + e) % m
    BY <1>1, ModAdd, Zenon
  <1>5. (v + (((z % m) - y) % m)) % m = (u + (e % m)) % m
    BY <1>1, <1>2, <1>3, <1>4, Zenon
  <1> QED
    BY <1>5 DEF v, z, e

\* A smaller number of whole segments is shorter by at least one of them.
LEMMA FewerSegments ==
    ASSUME NEW a \in Nat, NEW b \in Nat, NEW c \in Nat
    PROVE  /\ a * c \in Nat
           /\ a < b => a * c + c =< b * c
           /\ a =< b => a * c =< b * c
  BY SMT

=============================================================================
