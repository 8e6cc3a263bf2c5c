-------------------------- MODULE CborFloatProofs --------------------------
(***************************************************************************)
(* For every double and every 32-bit number: no encoder changes it, D-CBOR  *)
(* chooses the shortest format in both builds, and the decoder returns it.  *)
(* A pattern is taken apart into sign, exponent and significand, and these  *)
(* into the powers of two the number is the sum of.                         *)
(***************************************************************************)
EXTENDS CborFloat, SequenceTheorems, WellFoundedInduction, TLAPS

-----------------------------------------------------------------------------
(* A least element                                                          *)

\* A set of natural numbers that is not empty has a least element.
LEMMA LeastElement ==
  ASSUME NEW T, T \subseteq Nat, T # {}
  PROVE  \E x \in T : \A y \in T : x <= y
<1> DEFINE R == OpToRel(<, Nat)
<1>1. IsWellFoundedOn(R, Nat)
  BY NatLessThanWellFounded, Zenon
<1>2. \A a, b \in Nat : a < b => <<a, b>> \in R
  BY DEF OpToRel
<1> HIDE DEF R
<1>3. PICK x \in T : \A y \in T : ~(<<y, x>> \in R)
  BY <1>1, WFMin
<1>4. \A y \in T : ~(y < x)
  BY <1>2, <1>3
<1> QED BY <1>4

-----------------------------------------------------------------------------
(* Exponents of up to eleven bits                                           *)

Bit(s, b, n) == IF b \in s THEN n ELSE 0
Sum5(s)  == Bit(s, 0, 1) + Bit(s, 1, 2) + Bit(s, 2, 4) + Bit(s, 3, 8) + Bit(s, 4, 16)
Sum8(s)  == Sum5(s) + Bit(s, 5, 32) + Bit(s, 6, 64) + Bit(s, 7, 128)
Sum11(s) == Sum8(s) + Bit(s, 8, 256) + Bit(s, 9, 512) + Bit(s, 10, 1024)

LEMMA Powers ==
  /\ 2 ^ 0 = 1 /\ 2 ^ 1 = 2 /\ 2 ^ 2 = 4 /\ 2 ^ 3 = 8 /\ 2 ^ 4 = 16 /\ 2 ^ 5 = 32
  /\ 2 ^ 6 = 64 /\ 2 ^ 7 = 128 /\ 2 ^ 8 = 256 /\ 2 ^ 9 = 512 /\ 2 ^ 10 = 1024
OBVIOUS

\* The eleven bits, as numbers.
Ints(s) ==
  /\ Bit(s, 0, 1) \in {0, 1} /\ Bit(s, 1, 2) \in {0, 2} /\ Bit(s, 2, 4) \in {0, 4}
  /\ Bit(s, 3, 8) \in {0, 8} /\ Bit(s, 4, 16) \in {0, 16} /\ Bit(s, 5, 32) \in {0, 32}
  /\ Bit(s, 6, 64) \in {0, 64} /\ Bit(s, 7, 128) \in {0, 128} /\ Bit(s, 8, 256) \in {0, 256}
  /\ Bit(s, 9, 512) \in {0, 512} /\ Bit(s, 10, 1024) \in {0, 1024}

LEMMA BitsAreInts == ASSUME NEW s PROVE Ints(s)
BY DEF Ints, Bit

LEMMA BitIsInt == \A s, b : \A n \in Nat : Bit(s, b, n) \in Int
BY DEF Bit

\* One bit less.
LEMMA SumWithout ==
  ASSUME NEW s, s \subseteq 0..10, NEW x \in s
  PROVE  2 ^ x \in Nat \ {0} /\ Sum11(s) = 2 ^ x + Sum11(s \ {x})
<1> DEFINE r == s \ {x}
<1>1. \A t \in {s, r} :
        /\ Bit(t, 0, 1) \in Int /\ Bit(t, 1, 2) \in Int /\ Bit(t, 2, 4) \in Int /\ Bit(t, 3, 8) \in Int
        /\ Bit(t, 4, 16) \in Int /\ Bit(t, 5, 32) \in Int /\ Bit(t, 6, 64) \in Int
        /\ Bit(t, 7, 128) \in Int /\ Bit(t, 8, 256) \in Int /\ Bit(t, 9, 512) \in Int
        /\ Bit(t, 10, 1024) \in Int
  BY DEF Bit
<1>2. \A b, n : b # x => Bit(s, b, n) = Bit(r, b, n)
  BY DEF Bit
<1>3. \A n : Bit(s, x, n) = n /\ Bit(r, x, n) = 0
  BY DEF Bit
<1> SUFFICES 2 ^ x \in Nat \ {0} /\ Sum11(s) = 2 ^ x + Sum11(r)
  OBVIOUS
<1> HIDE DEF r
<1>4. CASE x = 0
  <2>1. /\ Bit(s, 1, 2) = Bit(r, 1, 2) /\ Bit(s, 2, 4) = Bit(r, 2, 4)
        /\ Bit(s, 3, 8) = Bit(r, 3, 8) /\ Bit(s, 4, 16) = Bit(r, 4, 16)
        /\ Bit(s, 5, 32) = Bit(r, 5, 32) /\ Bit(s, 6, 64) = Bit(r, 6, 64)
        /\ Bit(s, 7, 128) = Bit(r, 7, 128) /\ Bit(s, 8, 256) = Bit(r, 8, 256)
        /\ Bit(s, 9, 512) = Bit(r, 9, 512) /\ Bit(s, 10, 1024) = Bit(r, 10, 1024)
        /\ Bit(s, 0, 1) = 1 /\ Bit(r, 0, 1) = 0
    BY ONLY <1>2, <1>3, <1>4
  <2>2. Sum11(s) = 1 + Sum11(r)
    BY ONLY <1>1, <2>1 DEF Sum11, Sum8, Sum5
  <2>3. 2 ^ x = 1
    BY ONLY <1>4, Powers
  <2> QED BY ONLY <2>2, <2>3
<1>5. CASE x = 1
  <2>1. /\ Bit(s, 0, 1) = Bit(r, 0, 1) /\ Bit(s, 2, 4) = Bit(r, 2, 4)
        /\ Bit(s, 3, 8) = Bit(r, 3, 8) /\ Bit(s, 4, 16) = Bit(r, 4, 16)
        /\ Bit(s, 5, 32) = Bit(r, 5, 32) /\ Bit(s, 6, 64) = Bit(r, 6, 64)
        /\ Bit(s, 7, 128) = Bit(r, 7, 128) /\ Bit(s, 8, 256) = Bit(r, 8, 256)
        /\ Bit(s, 9, 512) = Bit(r, 9, 512) /\ Bit(s, 10, 1024) = Bit(r, 10, 1024)
        /\ Bit(s, 1, 2) = 2 /\ Bit(r, 1, 2) = 0
    BY ONLY <1>2, <1>3, <1>5
  <2>2. Sum11(s) = 2 + Sum11(r)
    BY ONLY <1>1, <2>1 DEF Sum11, Sum8, Sum5
  <2>3. 2 ^ x = 2
    BY ONLY <1>5, Powers
  <2> QED BY ONLY <2>2, <2>3
<1>6. CASE x = 2
  <2>1. /\ Bit(s, 0, 1) = Bit(r, 0, 1) /\ Bit(s, 1, 2) = Bit(r, 1, 2)
        /\ Bit(s, 3, 8) = Bit(r, 3, 8) /\ Bit(s, 4, 16) = Bit(r, 4, 16)
        /\ Bit(s, 5, 32) = Bit(r, 5, 32) /\ Bit(s, 6, 64) = Bit(r, 6, 64)
        /\ Bit(s, 7, 128) = Bit(r, 7, 128) /\ Bit(s, 8, 256) = Bit(r, 8, 256)
        /\ Bit(s, 9, 512) = Bit(r, 9, 512) /\ Bit(s, 10, 1024) = Bit(r, 10, 1024)
        /\ Bit(s, 2, 4) = 4 /\ Bit(r, 2, 4) = 0
    BY ONLY <1>2, <1>3, <1>6
  <2>2. Sum11(s) = 4 + Sum11(r)
    BY ONLY <1>1, <2>1 DEF Sum11, Sum8, Sum5
  <2>3. 2 ^ x = 4
    BY ONLY <1>6, Powers
  <2> QED BY ONLY <2>2, <2>3
<1>7. CASE x = 3
  <2>1. /\ Bit(s, 0, 1) = Bit(r, 0, 1) /\ Bit(s, 1, 2) = Bit(r, 1, 2)
        /\ Bit(s, 2, 4) = Bit(r, 2, 4) /\ Bit(s, 4, 16) = Bit(r, 4, 16)
        /\ Bit(s, 5, 32) = Bit(r, 5, 32) /\ Bit(s, 6, 64) = Bit(r, 6, 64)
        /\ Bit(s, 7, 128) = Bit(r, 7, 128) /\ Bit(s, 8, 256) = Bit(r, 8, 256)
        /\ Bit(s, 9, 512) = Bit(r, 9, 512) /\ Bit(s, 10, 1024) = Bit(r, 10, 1024)
        /\ Bit(s, 3, 8) = 8 /\ Bit(r, 3, 8) = 0
    BY ONLY <1>2, <1>3, <1>7
  <2>2. Sum11(s) = 8 + Sum11(r)
    BY ONLY <1>1, <2>1 DEF Sum11, Sum8, Sum5
  <2>3. 2 ^ x = 8
    BY ONLY <1>7, Powers
  <2> QED BY ONLY <2>2, <2>3
<1>8. CASE x = 4
  <2>1. /\ Bit(s, 0, 1) = Bit(r, 0, 1) /\ Bit(s, 1, 2) = Bit(r, 1, 2)
        /\ Bit(s, 2, 4) = Bit(r, 2, 4) /\ Bit(s, 3, 8) = Bit(r, 3, 8)
        /\ Bit(s, 5, 32) = Bit(r, 5, 32) /\ Bit(s, 6, 64) = Bit(r, 6, 64)
        /\ Bit(s, 7, 128) = Bit(r, 7, 128) /\ Bit(s, 8, 256) = Bit(r, 8, 256)
        /\ Bit(s, 9, 512) = Bit(r, 9, 512) /\ Bit(s, 10, 1024) = Bit(r, 10, 1024)
        /\ Bit(s, 4, 16) = 16 /\ Bit(r, 4, 16) = 0
    BY ONLY <1>2, <1>3, <1>8
  <2>2. Sum11(s) = 16 + Sum11(r)
    BY ONLY <1>1, <2>1 DEF Sum11, Sum8, Sum5
  <2>3. 2 ^ x = 16
    BY ONLY <1>8, Powers
  <2> QED BY ONLY <2>2, <2>3
<1>9. CASE x = 5
  <2>1. /\ Bit(s, 0, 1) = Bit(r, 0, 1) /\ Bit(s, 1, 2) = Bit(r, 1, 2)
        /\ Bit(s, 2, 4) = Bit(r, 2, 4) /\ Bit(s, 3, 8) = Bit(r, 3, 8)
        /\ Bit(s, 4, 16) = Bit(r, 4, 16) /\ Bit(s, 6, 64) = Bit(r, 6, 64)
        /\ Bit(s, 7, 128) = Bit(r, 7, 128) /\ Bit(s, 8, 256) = Bit(r, 8, 256)
        /\ Bit(s, 9, 512) = Bit(r, 9, 512) /\ Bit(s, 10, 1024) = Bit(r, 10, 1024)
        /\ Bit(s, 5, 32) = 32 /\ Bit(r, 5, 32) = 0
    BY ONLY <1>2, <1>3, <1>9
  <2>2. Sum11(s) = 32 + Sum11(r)
    BY ONLY <1>1, <2>1 DEF Sum11, Sum8, Sum5
  <2>3. 2 ^ x = 32
    BY ONLY <1>9, Powers
  <2> QED BY ONLY <2>2, <2>3
<1>10. CASE x = 6
  <2>1. /\ Bit(s, 0, 1) = Bit(r, 0, 1) /\ Bit(s, 1, 2) = Bit(r, 1, 2)
        /\ Bit(s, 2, 4) = Bit(r, 2, 4) /\ Bit(s, 3, 8) = Bit(r, 3, 8)
        /\ Bit(s, 4, 16) = Bit(r, 4, 16) /\ Bit(s, 5, 32) = Bit(r, 5, 32)
        /\ Bit(s, 7, 128) = Bit(r, 7, 128) /\ Bit(s, 8, 256) = Bit(r, 8, 256)
        /\ Bit(s, 9, 512) = Bit(r, 9, 512) /\ Bit(s, 10, 1024) = Bit(r, 10, 1024)
        /\ Bit(s, 6, 64) = 64 /\ Bit(r, 6, 64) = 0
    BY ONLY <1>2, <1>3, <1>10
  <2>2. Sum11(s) = 64 + Sum11(r)
    BY ONLY <1>1, <2>1 DEF Sum11, Sum8, Sum5
  <2>3. 2 ^ x = 64
    BY ONLY <1>10, Powers
  <2> QED BY ONLY <2>2, <2>3
<1>11. CASE x = 7
  <2>1. /\ Bit(s, 0, 1) = Bit(r, 0, 1) /\ Bit(s, 1, 2) = Bit(r, 1, 2)
        /\ Bit(s, 2, 4) = Bit(r, 2, 4) /\ Bit(s, 3, 8) = Bit(r, 3, 8)
        /\ Bit(s, 4, 16) = Bit(r, 4, 16) /\ Bit(s, 5, 32) = Bit(r, 5, 32)
        /\ Bit(s, 6, 64) = Bit(r, 6, 64) /\ Bit(s, 8, 256) = Bit(r, 8, 256)
        /\ Bit(s, 9, 512) = Bit(r, 9, 512) /\ Bit(s, 10, 1024) = Bit(r, 10, 1024)
        /\ Bit(s, 7, 128) = 128 /\ Bit(r, 7, 128) = 0
    BY ONLY <1>2, <1>3, <1>11
  <2>2. Sum11(s) = 128 + Sum11(r)
    BY ONLY <1>1, <2>1 DEF Sum11, Sum8, Sum5
  <2>3. 2 ^ x = 128
    BY ONLY <1>11, Powers
  <2> QED BY ONLY <2>2, <2>3
<1>12. CASE x = 8
  <2>1. /\ Bit(s, 0, 1) = Bit(r, 0, 1) /\ Bit(s, 1, 2) = Bit(r, 1, 2)
        /\ Bit(s, 2, 4) = Bit(r, 2, 4) /\ Bit(s, 3, 8) = Bit(r, 3, 8)
        /\ Bit(s, 4, 16) = Bit(r, 4, 16) /\ Bit(s, 5, 32) = Bit(r, 5, 32)
        /\ Bit(s, 6, 64) = Bit(r, 6, 64) /\ Bit(s, 7, 128) = Bit(r, 7, 128)
        /\ Bit(s, 9, 512) = Bit(r, 9, 512) /\ Bit(s, 10, 1024) = Bit(r, 10, 1024)
        /\ Bit(s, 8, 256) = 256 /\ Bit(r, 8, 256) = 0
    BY ONLY <1>2, <1>3, <1>12
  <2>2. Sum11(s) = 256 + Sum11(r)
    BY ONLY <1>1, <2>1 DEF Sum11, Sum8, Sum5
  <2>3. 2 ^ x = 256
    BY ONLY <1>12, Powers
  <2> QED BY ONLY <2>2, <2>3
<1>13. CASE x = 9
  <2>1. /\ Bit(s, 0, 1) = Bit(r, 0, 1) /\ Bit(s, 1, 2) = Bit(r, 1, 2)
        /\ Bit(s, 2, 4) = Bit(r, 2, 4) /\ Bit(s, 3, 8) = Bit(r, 3, 8)
        /\ Bit(s, 4, 16) = Bit(r, 4, 16) /\ Bit(s, 5, 32) = Bit(r, 5, 32)
        /\ Bit(s, 6, 64) = Bit(r, 6, 64) /\ Bit(s, 7, 128) = Bit(r, 7, 128)
        /\ Bit(s, 8, 256) = Bit(r, 8, 256) /\ Bit(s, 10, 1024) = Bit(r, 10, 1024)
        /\ Bit(s, 9, 512) = 512 /\ Bit(r, 9, 512) = 0
    BY ONLY <1>2, <1>3, <1>13
  <2>2. Sum11(s) = 512 + Sum11(r)
    BY ONLY <1>1, <2>1 DEF Sum11, Sum8, Sum5
  <2>3. 2 ^ x = 512
    BY ONLY <1>13, Powers
  <2> QED BY ONLY <2>2, <2>3
<1>14. CASE x = 10
  <2>1. /\ Bit(s, 0, 1) = Bit(r, 0, 1) /\ Bit(s, 1, 2) = Bit(r, 1, 2)
        /\ Bit(s, 2, 4) = Bit(r, 2, 4) /\ Bit(s, 3, 8) = Bit(r, 3, 8)
        /\ Bit(s, 4, 16) = Bit(r, 4, 16) /\ Bit(s, 5, 32) = Bit(r, 5, 32)
        /\ Bit(s, 6, 64) = Bit(r, 6, 64) /\ Bit(s, 7, 128) = Bit(r, 7, 128)
        /\ Bit(s, 8, 256) = Bit(r, 8, 256) /\ Bit(s, 9, 512) = Bit(r, 9, 512)
        /\ Bit(s, 10, 1024) = 1024 /\ Bit(r, 10, 1024) = 0
    BY ONLY <1>2, <1>3, <1>14
  <2>2. Sum11(s) = 1024 + Sum11(r)
    BY ONLY <1>1, <2>1 DEF Sum11, Sum8, Sum5
  <2>3. 2 ^ x = 1024
    BY ONLY <1>14, Powers
  <2> QED BY ONLY <2>2, <2>3
<1>15. x \in {0, 1, 2, 3, 4, 5, 6, 7, 8, 9, 10}
  OBVIOUS
<1> QED BY ONLY <1>4, <1>5, <1>6, <1>7, <1>8, <1>9, <1>10, <1>11, <1>12, <1>13, <1>14, <1>15

LEMMA SumIsNat == ASSUME NEW s PROVE Sum11(s) \in Nat
<1>1. Ints(s)
  BY BitsAreInts
<1> QED BY ONLY <1>1 DEF Ints, Sum11, Sum8, Sum5

LEMMA SumIsBelow == ASSUME NEW s PROVE Sum11(s) <= 2047
<1>1. Ints(s)
  BY BitsAreInts
<1> QED BY ONLY <1>1 DEF Ints, Sum11, Sum8, Sum5

LEMMA SumIsZero ==
  ASSUME NEW s, s \subseteq 0..10
  PROVE  (Sum11(s) = 0) <=> (s = {})
<1>1. Ints(s)
  BY BitsAreInts
<1>2. \A b, n : Bit(s, b, n) = IF b \in s THEN n ELSE 0
  BY DEF Bit
<1>3. ASSUME Sum11(s) = 0
      PROVE  s = {}
  <2>1. /\ Bit(s, 0, 1) = 0 /\ Bit(s, 1, 2) = 0 /\ Bit(s, 2, 4) = 0 /\ Bit(s, 3, 8) = 0
        /\ Bit(s, 4, 16) = 0 /\ Bit(s, 5, 32) = 0 /\ Bit(s, 6, 64) = 0 /\ Bit(s, 7, 128) = 0
        /\ Bit(s, 8, 256) = 0 /\ Bit(s, 9, 512) = 0 /\ Bit(s, 10, 1024) = 0
    BY ONLY <1>1, <1>3 DEF Ints, Sum11, Sum8, Sum5
  <2>2. \A b \in {0, 1, 2, 3, 4, 5, 6, 7, 8, 9, 10} : b \notin s
    BY ONLY <1>2, <2>1
  <2>3. \A b \in s : b \in {0, 1, 2, 3, 4, 5, 6, 7, 8, 9, 10}
    OBVIOUS
  <2> QED BY ONLY <2>2, <2>3
<1>4. Sum11({}) = 0
  BY DEF Sum11, Sum8, Sum5, Bit
<1>5. s = {} => Sum11(s) = 0
  BY ONLY <1>4
<1> QED BY ONLY <1>3, <1>5

\* Without the upper bits.
LEMMA SumOfEight ==
  ASSUME NEW s, s \subseteq 0..7
  PROVE  Sum11(s) = Sum8(s) /\ Sum8(s) <= 255
<1>1. Ints(s)
  BY BitsAreInts
<1>2. \A b, n : b \notin s => Bit(s, b, n) = 0
  BY DEF Bit
<1>3. 8 \notin s /\ 9 \notin s /\ 10 \notin s
  OBVIOUS
<1>4. Bit(s, 8, 256) = 0 /\ Bit(s, 9, 512) = 0 /\ Bit(s, 10, 1024) = 0
  BY ONLY <1>2, <1>3
<1> QED BY ONLY <1>1, <1>4 DEF Ints, Sum11, Sum8, Sum5

LEMMA SumOfFive ==
  ASSUME NEW s, s \subseteq 0..4
  PROVE  Sum11(s) <= 31
<1>1. Ints(s)
  BY BitsAreInts
<1>2. \A b, n : b \notin s => Bit(s, b, n) = 0
  BY DEF Bit
<1>3. 5 \notin s /\ 6 \notin s /\ 7 \notin s /\ s \subseteq 0..7
  OBVIOUS
<1>4. Bit(s, 5, 32) = 0 /\ Bit(s, 6, 64) = 0 /\ Bit(s, 7, 128) = 0
  BY ONLY <1>2, <1>3
<1>5. Sum11(s) = Sum8(s)
  BY ONLY <1>3, SumOfEight
<1> QED BY ONLY <1>1, <1>4, <1>5 DEF Ints, Sum8, Sum5

\* The sum that ValueOf() takes bit by bit is that of the eleven bits.
LEMMA ValueIsSum ==
  ASSUME NEW w, w \subseteq 0..10
  PROVE  ValueOf(w) = Sum11(w)
<1> DEFINE Pick(s) == CHOOSE x \in s : TRUE
           P(g) == g = [s \in SUBSET w |-> IF s = {} THEN 0 ELSE 2 ^ Pick(s) + g[s \ {Pick(s)}]]
           h == [s \in SUBSET w |-> Sum11(s)]
           f == CHOOSE g : P(g)
<1>1. ValueOf(w) = f[w]
  BY DEF ValueOf, MapThenSumSet, MapThenFoldSet
<1>2. \A s \in SUBSET w : s # {} => Pick(s) \in s
  OBVIOUS
<1> HIDE DEF Pick
<1>3. Sum11({}) = 0
  BY DEF Sum11, Sum8, Sum5, Bit
<1>4. \A s \in SUBSET w :
        s # {} => /\ Sum11(s) = 2 ^ Pick(s) + Sum11(s \ {Pick(s)})
                  /\ 2 ^ Pick(s) \in Nat \ {0}
  BY <1>2, SumWithout
<1>5. P(h)
  BY <1>2, <1>3, <1>4
<1>6. P(f)
  BY <1>5
<1> HIDE DEF f
<1>7. \A s \in SUBSET w : Sum11(s) \in Nat
  <2>1. \A s \in SUBSET w : s \subseteq 0..10
    OBVIOUS
  <2> QED BY ONLY <2>1, SumIsNat
<1> DEFINE T == {Sum11(s) : s \in {r \in SUBSET w : f[r] # Sum11(r)}}
<1>8. T = {}
  <2> SUFFICES ASSUME T # {} PROVE FALSE
    OBVIOUS
  <2>1. T \subseteq Nat
    BY <1>7
  <2>2. PICK n \in T : \A y \in T : n <= y
    BY <2>1, LeastElement
  <2>3. PICK s \in SUBSET w : f[s] # Sum11(s) /\ n = Sum11(s)
    OBVIOUS
  <2>4. s # {}
    BY <1>3, <1>6, <2>3
  <2> DEFINE r == s \ {Pick(s)}
  <2>5. r \in SUBSET w /\ f[s] = 2 ^ Pick(s) + f[r]
    BY <1>6, <2>4
  <2>6. Sum11(s) = 2 ^ Pick(s) + Sum11(r) /\ Sum11(r) < n
    BY <1>4, <1>7, <2>3, <2>4, <2>5
  <2>7. Sum11(r) \notin T
    BY <1>7, <2>1, <2>2, <2>5, <2>6
  <2>8. f[r] = Sum11(r)
    BY <2>5, <2>7
  <2> QED BY <2>3, <2>5, <2>6, <2>8
<1>9. f[w] = Sum11(w)
  BY <1>8
<1> QED BY <1>1, <1>9

LEMMA TwoHalves == ASSUME NEW q \in Nat PROVE q = 2 * (q \div 2) + (q % 2) /\ q % 2 \in {0, 1} /\ q \div 2 \in Nat
OBVIOUS

LEMMA Halving ==
  ASSUME NEW q \in Nat, NEW p, p = q \div 2, NEW s, NEW b, b \in s <=> q % 2 = 1
  PROVE  q = 2 * p + Bit(s, b, 1)
<1>1. q = 2 * (q \div 2) + (q % 2) /\ q % 2 \in {0, 1} /\ q \div 2 \in Nat
  BY ONLY q \in Nat, TwoHalves
<1>2. CASE b \in s
  BY ONLY <1>1, <1>2, p = q \div 2, b \in s <=> q % 2 = 1 DEF Bit
<1>3. CASE b \notin s
  BY ONLY <1>1, <1>3, p = q \div 2, b \in s <=> q % 2 = 1 DEF Bit
<1> QED BY <1>2, <1>3

\* The bits of a number below 2 to the power of 11, and of smaller ones.
LEMMA BitsSum ==
  ASSUME NEW n \in Nat, n <= 2047
  PROVE  Sum11(WordOf(n)) = n
<1> DEFINE q0 == n
           q1 == n \div 2
           q2 == n \div 4
           q3 == n \div 8
           q4 == n \div 16
           q5 == n \div 32
           q6 == n \div 64
           q7 == n \div 128
           q8 == n \div 256
           q9 == n \div 512
           q10 == n \div 1024
<1>1. /\ 0 \in WordOf(n) <=> q0 % 2 = 1
      /\ 1 \in WordOf(n) <=> q1 % 2 = 1
      /\ 2 \in WordOf(n) <=> q2 % 2 = 1
      /\ 3 \in WordOf(n) <=> q3 % 2 = 1
      /\ 4 \in WordOf(n) <=> q4 % 2 = 1
      /\ 5 \in WordOf(n) <=> q5 % 2 = 1
      /\ 6 \in WordOf(n) <=> q6 % 2 = 1
      /\ 7 \in WordOf(n) <=> q7 % 2 = 1
      /\ 8 \in WordOf(n) <=> q8 % 2 = 1
      /\ 9 \in WordOf(n) <=> q9 % 2 = 1
      /\ 10 \in WordOf(n) <=> q10 % 2 = 1
  <2>1. n \div 1 = n
    OBVIOUS
  <2> QED BY <2>1, Powers DEF WordOf
<1>3. /\ q0 \in Nat /\ q1 \in Nat /\ q2 \in Nat /\ q3 \in Nat /\ q4 \in Nat /\ q5 \in Nat
      /\ q6 \in Nat /\ q7 \in Nat /\ q8 \in Nat /\ q9 \in Nat /\ q10 \in {0, 1}
  <2>1. q0 \in Nat
    OBVIOUS
  <2>2. q1 \in Nat
    BY ONLY n \in Nat, n <= 2047
  <2>3. q2 \in Nat
    BY ONLY n \in Nat, n <= 2047
  <2>4. q3 \in Nat
    BY ONLY n \in Nat, n <= 2047
  <2>5. q4 \in Nat
    BY ONLY n \in Nat, n <= 2047
  <2>6. q5 \in Nat
    BY ONLY n \in Nat, n <= 2047
  <2>7. q6 \in Nat
    BY ONLY n \in Nat, n <= 2047
  <2>8. q7 \in Nat
    BY ONLY n \in Nat, n <= 2047
  <2>9. q8 \in Nat
    BY ONLY n \in Nat, n <= 2047
  <2>10. q9 \in Nat
    BY ONLY n \in Nat, n <= 2047
  <2>11. q10 \in {0, 1}
    BY ONLY n \in Nat, n <= 2047
  <2> QED BY ONLY <2>1, <2>2, <2>3, <2>4, <2>5, <2>6, <2>7, <2>8, <2>9, <2>10, <2>11
<1>4. /\ q1 = q0 \div 2 /\ q2 = q1 \div 2 /\ q3 = q2 \div 2 /\ q4 = q3 \div 2 /\ q5 = q4 \div 2
      /\ q6 = q5 \div 2 /\ q7 = q6 \div 2 /\ q8 = q7 \div 2 /\ q9 = q8 \div 2 /\ q10 = q9 \div 2
  <2>1. q1 = q0 \div 2
    OBVIOUS
  <2>2. q2 = q1 \div 2
    BY ONLY n \in Nat, n <= 2047
  <2>3. q3 = q2 \div 2
    BY ONLY n \in Nat, n <= 2047
  <2>4. q4 = q3 \div 2
    BY ONLY n \in Nat, n <= 2047
  <2>5. q5 = q4 \div 2
    BY ONLY n \in Nat, n <= 2047
  <2>6. q6 = q5 \div 2
    BY ONLY n \in Nat, n <= 2047
  <2>7. q7 = q6 \div 2
    BY ONLY n \in Nat, n <= 2047
  <2>8. q8 = q7 \div 2
    BY ONLY n \in Nat, n <= 2047
  <2>9. q9 = q8 \div 2
    BY ONLY n \in Nat, n <= 2047
  <2>10. q10 = q9 \div 2
    BY ONLY n \in Nat, n <= 2047
  <2> QED BY ONLY <2>1, <2>2, <2>3, <2>4, <2>5, <2>6, <2>7, <2>8, <2>9, <2>10
<1> HIDE DEF q0, q1, q2, q3, q4, q5, q6, q7, q8, q9, q10
<1> DEFINE s == WordOf(n)
<1> HIDE DEF s
<1>5. q10 = Bit(s, 10, 1)
  <2>1. q10 % 2 = q10
    BY ONLY <1>3
  <2> QED BY ONLY <1>1, <1>3, <2>1 DEF Bit, s
<1>6. q9 = 2 * q10 + Bit(s, 9, 1) /\ q8 = 2 * q9 + Bit(s, 8, 1) /\ q7 = 2 * q8 + Bit(s, 7, 1)
  <2>1. q9 = 2 * q10 + Bit(s, 9, 1)
    <3>1. q9 \in Nat
      BY ONLY <1>3
    <3>2. q10 = q9 \div 2
      BY ONLY <1>4
    <3>3. 9 \in s <=> q9 % 2 = 1
      BY ONLY <1>1, Zenon DEF s
    <3> QED BY ONLY <3>1, <3>2, <3>3, Halving
  <2>2. q8 = 2 * q9 + Bit(s, 8, 1)
    <3>1. q8 \in Nat
      BY ONLY <1>3
    <3>2. q9 = q8 \div 2
      BY ONLY <1>4
    <3>3. 8 \in s <=> q8 % 2 = 1
      BY ONLY <1>1, Zenon DEF s
    <3> QED BY ONLY <3>1, <3>2, <3>3, Halving
  <2>3. q7 = 2 * q8 + Bit(s, 7, 1)
    <3>1. q7 \in Nat
      BY ONLY <1>3
    <3>2. q8 = q7 \div 2
      BY ONLY <1>4
    <3>3. 7 \in s <=> q7 % 2 = 1
      BY ONLY <1>1, Zenon DEF s
    <3> QED BY ONLY <3>1, <3>2, <3>3, Halving
  <2> QED BY ONLY <2>1, <2>2, <2>3
<1>7. q6 = 2 * q7 + Bit(s, 6, 1) /\ q5 = 2 * q6 + Bit(s, 5, 1) /\ q4 = 2 * q5 + Bit(s, 4, 1)
  <2>1. q6 = 2 * q7 + Bit(s, 6, 1)
    <3>1. q6 \in Nat
      BY ONLY <1>3
    <3>2. q7 = q6 \div 2
      BY ONLY <1>4
    <3>3. 6 \in s <=> q6 % 2 = 1
      BY ONLY <1>1, Zenon DEF s
    <3> QED BY ONLY <3>1, <3>2, <3>3, Halving
  <2>2. q5 = 2 * q6 + Bit(s, 5, 1)
    <3>1. q5 \in Nat
      BY ONLY <1>3
    <3>2. q6 = q5 \div 2
      BY ONLY <1>4
    <3>3. 5 \in s <=> q5 % 2 = 1
      BY ONLY <1>1, Zenon DEF s
    <3> QED BY ONLY <3>1, <3>2, <3>3, Halving
  <2>3. q4 = 2 * q5 + Bit(s, 4, 1)
    <3>1. q4 \in Nat
      BY ONLY <1>3
    <3>2. q5 = q4 \div 2
      BY ONLY <1>4
    <3>3. 4 \in s <=> q4 % 2 = 1
      BY ONLY <1>1, Zenon DEF s
    <3> QED BY ONLY <3>1, <3>2, <3>3, Halving
  <2> QED BY ONLY <2>1, <2>2, <2>3
<1>8. /\ q3 = 2 * q4 + Bit(s, 3, 1) /\ q2 = 2 * q3 + Bit(s, 2, 1) /\ q1 = 2 * q2 + Bit(s, 1, 1)
      /\ q0 = 2 * q1 + Bit(s, 0, 1)
  <2>1. q3 = 2 * q4 + Bit(s, 3, 1)
    <3>1. q3 \in Nat
      BY ONLY <1>3
    <3>2. q4 = q3 \div 2
      BY ONLY <1>4
    <3>3. 3 \in s <=> q3 % 2 = 1
      BY ONLY <1>1, Zenon DEF s
    <3> QED BY ONLY <3>1, <3>2, <3>3, Halving
  <2>2. q2 = 2 * q3 + Bit(s, 2, 1)
    <3>1. q2 \in Nat
      BY ONLY <1>3
    <3>2. q3 = q2 \div 2
      BY ONLY <1>4
    <3>3. 2 \in s <=> q2 % 2 = 1
      BY ONLY <1>1, Zenon DEF s
    <3> QED BY ONLY <3>1, <3>2, <3>3, Halving
  <2>3. q1 = 2 * q2 + Bit(s, 1, 1)
    <3>1. q1 \in Nat
      BY ONLY <1>3
    <3>2. q2 = q1 \div 2
      BY ONLY <1>4
    <3>3. 1 \in s <=> q1 % 2 = 1
      BY ONLY <1>1, Zenon DEF s
    <3> QED BY ONLY <3>1, <3>2, <3>3, Halving
  <2>4. q0 = 2 * q1 + Bit(s, 0, 1)
    <3>1. q0 \in Nat
      BY ONLY <1>3
    <3>2. q1 = q0 \div 2
      BY ONLY <1>4
    <3>3. 0 \in s <=> q0 % 2 = 1
      BY ONLY <1>1, Zenon DEF s
    <3> QED BY ONLY <3>1, <3>2, <3>3, Halving
  <2> QED BY ONLY <2>1, <2>2, <2>3, <2>4
<1>9. /\ Bit(s, 0, 1) \in Int /\ Bit(s, 1, 1) \in Int /\ Bit(s, 2, 1) \in Int /\ Bit(s, 3, 1) \in Int
      /\ Bit(s, 4, 1) \in Int /\ Bit(s, 5, 1) \in Int /\ Bit(s, 6, 1) \in Int /\ Bit(s, 7, 1) \in Int
      /\ Bit(s, 8, 1) \in Int /\ Bit(s, 9, 1) \in Int /\ Bit(s, 10, 1) \in Int
  BY DEF Bit
<1>10. Sum11(s) = q0
  <2>1. /\ Bit(s, 1, 2) = 2 * Bit(s, 1, 1) /\ Bit(s, 2, 4) = 4 * Bit(s, 2, 1) /\ Bit(s, 3, 8) = 8 * Bit(s, 3, 1)
        /\ Bit(s, 4, 16) = 16 * Bit(s, 4, 1) /\ Bit(s, 5, 32) = 32 * Bit(s, 5, 1)
        /\ Bit(s, 6, 64) = 64 * Bit(s, 6, 1) /\ Bit(s, 7, 128) = 128 * Bit(s, 7, 1)
        /\ Bit(s, 8, 256) = 256 * Bit(s, 8, 1) /\ Bit(s, 9, 512) = 512 * Bit(s, 9, 1)
        /\ Bit(s, 10, 1024) = 1024 * Bit(s, 10, 1)
    BY DEF Bit
  <2>2. q8 = 4 * Bit(s, 10, 1) + 2 * Bit(s, 9, 1) + Bit(s, 8, 1)
    BY ONLY <1>3, <1>5, <1>6, <1>9
  <2>3. q5 = 8 * q8 + 4 * Bit(s, 7, 1) + 2 * Bit(s, 6, 1) + Bit(s, 5, 1)
    BY ONLY <1>3, <1>6, <1>7, <1>9
  <2>4. q2 = 8 * q5 + 4 * Bit(s, 4, 1) + 2 * Bit(s, 3, 1) + Bit(s, 2, 1)
    BY ONLY <1>3, <1>7, <1>8, <1>9
  <2>5. q0 = 4 * q2 + 2 * Bit(s, 1, 1) + Bit(s, 0, 1)
    BY ONLY <1>3, <1>8, <1>9
  <2>6. Sum5(s) + 32 * q5 = q0
    BY ONLY <1>3, <1>9, <2>1, <2>4, <2>5 DEF Sum5
  <2>7. Sum5(s) \in Int
    BY ONLY <1>9, <2>1 DEF Sum5
  <2>8. Sum8(s) = Sum5(s) + 32 * Bit(s, 5, 1) + 64 * Bit(s, 6, 1) + 128 * Bit(s, 7, 1)
    BY ONLY <2>1 DEF Sum8
  <2>9. Sum11(s) = Sum8(s) + 256 * Bit(s, 8, 1) + 512 * Bit(s, 9, 1) + 1024 * Bit(s, 10, 1)
    BY ONLY <2>1 DEF Sum11
  <2> QED BY ONLY <1>3, <1>9, <2>2, <2>3, <2>6, <2>7, <2>8, <2>9
<1> QED BY <1>10 DEF s, q0

-----------------------------------------------------------------------------
(* Formats                                                                  *)

Formats == {Half, Single, Double}

\* What is used of their sizes.
LEMMA FormatIs ==
  ASSUME NEW f \in Formats
  PROVE  /\ f.sig \in Nat /\ f.exp \in Nat /\ f.bias \in Nat /\ f.size \in Nat
         /\ f.sig >= 10 /\ f.bias >= 15 /\ f.exp >= 1 /\ f.exp <= 11
         /\ SignBit(f) = f.sig + f.exp /\ SignBit(f) = 8 * f.size - 1 /\ SignBit(f) <= 63
         /\ AllOnes(f) = 2 * f.bias + 1 /\ AllOnes(f) <= 2047
         /\ \/ f.exp = 5 /\ AllOnes(f) = 31
            \/ f.exp = 8 /\ AllOnes(f) = 255
            \/ f.exp = 11 /\ AllOnes(f) = 2047
<1>1. CASE f = Half
  BY <1>1 DEF Half, SignBit, AllOnes
<1>2. CASE f = Single
  BY <1>2 DEF Single, SignBit, AllOnes
<1>3. CASE f = Double
  BY <1>3 DEF Double, SignBit, AllOnes
<1> QED BY <1>1, <1>2, <1>3 DEF Formats

\* A number of so many bits has no others.
LEMMA NoLargeBits ==
  ASSUME NEW n \in Nat
  PROVE  /\ n <= 2047 => WordOf(n) \subseteq 0..10
         /\ n <= 255 => WordOf(n) \subseteq 0..7
         /\ n <= 31 => WordOf(n) \subseteq 0..4
<1> DEFINE f == [b \in 0..30 |-> 2 ^ b]
<1>1. \A b \in 0..30 : f[b] = 2 ^ b
  OBVIOUS
<1>2. /\ f[0] >= 1 /\ f[1] >= 1 /\ f[2] >= 1 /\ f[3] >= 1
      /\ f[4] >= 1 /\ f[5] >= 1 /\ f[6] >= 1 /\ f[7] >= 1
      /\ f[8] >= 1 /\ f[9] >= 1 /\ f[10] >= 1
  OBVIOUS
<1>3. /\ f[5] >= 32 /\ f[6] >= 32 /\ f[7] >= 32 /\ f[8] >= 32
      /\ f[9] >= 32 /\ f[10] >= 32
  OBVIOUS
<1>4. /\ f[8] >= 256 /\ f[9] >= 256 /\ f[10] >= 256
  OBVIOUS
<1>5. /\ f[11] >= 2048 /\ f[12] >= 2048 /\ f[13] >= 2048 /\ f[14] >= 2048
      /\ f[15] >= 2048 /\ f[16] >= 2048 /\ f[17] >= 2048 /\ f[18] >= 2048
      /\ f[19] >= 2048 /\ f[20] >= 2048 /\ f[21] >= 2048 /\ f[22] >= 2048
      /\ f[23] >= 2048 /\ f[24] >= 2048 /\ f[25] >= 2048 /\ f[26] >= 2048
      /\ f[27] >= 2048 /\ f[28] >= 2048 /\ f[29] >= 2048 /\ f[30] >= 2048
  OBVIOUS
<1>6. /\ f[0] \in Int /\ f[1] \in Int /\ f[2] \in Int /\ f[3] \in Int /\ f[4] \in Int
      /\ f[5] \in Int /\ f[6] \in Int /\ f[7] \in Int /\ f[8] \in Int /\ f[9] \in Int
      /\ f[10] \in Int /\ f[11] \in Int /\ f[12] \in Int /\ f[13] \in Int /\ f[14] \in Int
      /\ f[15] \in Int /\ f[16] \in Int /\ f[17] \in Int /\ f[18] \in Int /\ f[19] \in Int
      /\ f[20] \in Int /\ f[21] \in Int /\ f[22] \in Int /\ f[23] \in Int /\ f[24] \in Int
      /\ f[25] \in Int /\ f[26] \in Int /\ f[27] \in Int /\ f[28] \in Int /\ f[29] \in Int
      /\ f[30] \in Int
  OBVIOUS
<1> HIDE DEF f
<1>7. ASSUME NEW b \in 0..30
      PROVE  /\ f[b] \in Int /\ f[b] >= 1
             /\ b \notin 0..10 => f[b] >= 2048
             /\ b \notin 0..7 => f[b] >= 256
             /\ b \notin 0..4 => f[b] >= 32
  <2>1. \/ b \in {0, 1, 2, 3, 4} \/ b \in {5, 6, 7} \/ b \in {8, 9, 10}
        \/ b \in {11, 12, 13, 14, 15, 16, 17, 18, 19, 20, 21, 22, 23, 24, 25, 26, 27, 28, 29, 30}
    OBVIOUS
  <2>2. CASE b \in {11, 12, 13, 14, 15, 16, 17, 18, 19, 20, 21, 22, 23, 24, 25, 26, 27, 28, 29, 30}
    <3>1. f[b] >= 2048 /\ f[b] \in Int
      BY ONLY <1>5, <1>6, <2>2
    <3> QED BY ONLY <3>1
  <2>3. CASE b \in {8, 9, 10}
    <3>1. f[b] >= 256 /\ f[b] \in Int /\ b \in 0..10
      BY ONLY <1>4, <1>6, <2>3
    <3> QED BY ONLY <3>1
  <2>4. CASE b \in {5, 6, 7}
    <3>1. f[b] >= 32 /\ f[b] \in Int /\ b \in 0..10 /\ b \in 0..7
      BY ONLY <1>3, <1>6, <2>4
    <3> QED BY ONLY <3>1
  <2>5. CASE b \in {0, 1, 2, 3, 4}
    <3>1. f[b] >= 1 /\ f[b] \in Int /\ b \in 0..10 /\ b \in 0..7 /\ b \in 0..4
      BY ONLY <1>2, <1>6, <2>5
    <3> QED BY ONLY <3>1
  <2> QED BY ONLY <2>1, <2>2, <2>3, <2>4, <2>5
<1>8. ASSUME NEW b \in WordOf(n)
      PROVE  b \in 0..30 /\ f[b] <= n
  <2>1. b \in 0..30 /\ (n \div (2 ^ b)) % 2 = 1
    BY ONLY <1>8 DEF WordOf
  <2> DEFINE d == f[b]
  <2>2. d \in Int /\ d >= 1
    BY ONLY <1>7, <2>1
  <2>3. (n \div d) % 2 = 1
    BY ONLY <1>1, <2>1
  <2> HIDE DEF d
  <2>4. ASSUME d > n
        PROVE  FALSE
    <3>1. n \div d = 0
      BY ONLY <2>2, <2>4, n \in Nat
    <3>2. 0 % 2 = 0
      OBVIOUS
    <3>3. (n \div d) % 2 = 0
      BY ONLY <3>1, <3>2
    <3> QED BY ONLY <2>3, <3>3
  <2>5. d <= n
    BY ONLY <2>2, <2>4, n \in Nat
  <2> QED BY ONLY <2>1, <2>5 DEF d
<1>9. ASSUME NEW b \in WordOf(n)
      PROVE  /\ n <= 2047 => b \in 0..10
             /\ n <= 255 => b \in 0..7
             /\ n <= 31 => b \in 0..4
  <2>1. b \in 0..30 /\ f[b] <= n
    BY ONLY <1>8, <1>9
  <2>2. /\ f[b] \in Int
        /\ b \notin 0..10 => f[b] >= 2048
        /\ b \notin 0..7 => f[b] >= 256
        /\ b \notin 0..4 => f[b] >= 32
    BY ONLY <1>7, <2>1
  <2> QED BY ONLY <2>1, <2>2, n \in Nat
<1> QED BY ONLY <1>9

LEMMA FieldHas ==
  ASSUME NEW w, w \subseteq Nat, NEW low \in Nat, NEW width \in Nat
  PROVE  \A x : x \in Field(w, low, width) <=> x \in 0..(width - 1) /\ x + low \in w
BY DEF Field, ShiftRight

\* The exponent of a format fits in its field, and is read from there.
LEMMA ExponentRight ==
  ASSUME NEW f \in Formats, NEW n \in Nat, n <= AllOnes(f)
  PROVE  WordOf(n) \subseteq 0..(f.exp - 1) /\ ValueOf(WordOf(n)) = n
<1>1. n <= 2047 /\ f.exp \in Nat /\ AllOnes(f) \in Nat
  BY FormatIs
<1>2. WordOf(n) \subseteq 0..10 /\ (n <= 255 => WordOf(n) \subseteq 0..7) /\ (n <= 31 => WordOf(n) \subseteq 0..4)
  BY ONLY <1>1, n \in Nat, NoLargeBits
<1>3. ValueOf(WordOf(n)) = n
  <2>1. ValueOf(WordOf(n)) = Sum11(WordOf(n))
    BY ONLY <1>2, ValueIsSum
  <2>2. Sum11(WordOf(n)) = n
    BY ONLY <1>1, n \in Nat, BitsSum
  <2> QED BY ONLY <2>1, <2>2
<1>4. \/ f.exp = 5 /\ n <= 31
      \/ f.exp = 8 /\ n <= 255
      \/ f.exp = 11
  BY FormatIs
<1>5. WordOf(n) \subseteq 0..(f.exp - 1)
  <2>1. CASE f.exp = 5 /\ n <= 31
    BY ONLY <1>2, <2>1
  <2>2. CASE f.exp = 8 /\ n <= 255
    BY ONLY <1>2, <2>2
  <2>3. CASE f.exp = 11
    BY ONLY <1>2, <2>3
  <2> QED BY ONLY <1>4, <2>1, <2>2, <2>3
<1> QED BY ONLY <1>3, <1>5

LEMMA ExponentFieldIs ==
  ASSUME NEW f \in Formats, NEW w, w \subseteq Nat
  PROVE  /\ ExponentField(w, f) \in Nat /\ ExponentField(w, f) <= AllOnes(f)
         /\ ExponentField(w, f) = 0 <=> Field(w, f.sig, f.exp) = {}
<1> DEFINE x == Field(w, f.sig, f.exp)
<1>1. f.sig \in Nat /\ f.exp \in Nat
  BY FormatIs
<1>2. x \subseteq 0..(f.exp - 1)
  BY ONLY <1>1, w \subseteq Nat, FieldHas
<1>3. \/ f.exp = 5 /\ AllOnes(f) = 31
      \/ f.exp = 8 /\ AllOnes(f) = 255
      \/ f.exp = 11 /\ AllOnes(f) = 2047
  BY FormatIs
<1> HIDE DEF x
<1>4. x \subseteq 0..10
  BY ONLY <1>2, <1>3
<1>5. ValueOf(x) = Sum11(x)
  BY ONLY <1>4, ValueIsSum
<1>6. Sum11(x) \in Nat /\ Sum11(x) <= 2047
  BY ONLY SumIsNat, SumIsBelow
<1>7. Sum11(x) <= AllOnes(f)
  <2>1. CASE f.exp = 5 /\ AllOnes(f) = 31
    <3>1. x \subseteq 0..4
      BY ONLY <1>2, <2>1
    <3>2. Sum11(x) <= 31
      BY ONLY <3>1, SumOfFive
    <3> QED BY ONLY <2>1, <3>2
  <2>2. CASE f.exp = 8 /\ AllOnes(f) = 255
    <3>1. x \subseteq 0..7
      BY ONLY <1>2, <2>2
    <3>2. Sum11(x) = Sum8(x) /\ Sum8(x) <= 255
      BY ONLY <3>1, SumOfEight
    <3> QED BY ONLY <2>2, <3>2
  <2>3. CASE f.exp = 11 /\ AllOnes(f) = 2047
    BY ONLY <1>6, <2>3
  <2> QED BY ONLY <1>3, <2>1, <2>2, <2>3
<1>8. (Sum11(x) = 0) <=> (x = {})
  BY ONLY <1>4, SumIsZero
<1> QED BY ONLY <1>5, <1>6, <1>7, <1>8 DEF ExponentField, x

-----------------------------------------------------------------------------
(* Patterns                                                                 *)

\* What a pattern of a format is put together from.
Parts(e, g, f) == e \in Nat /\ e <= AllOnes(f) /\ g \subseteq 0..(f.sig - 1)

\* The bits there are in a format.
Width(f) == 0..(8 * f.size - 1)

LEMMA PartsOf ==
  ASSUME NEW f \in Formats, NEW w, w \subseteq Nat
  PROVE  Parts(ExponentField(w, f), Significand(w, f), f) /\ Sign(w, f) \in BOOLEAN
<1>1. f.sig \in Nat /\ 0 \in Nat
  BY FormatIs
<1>2. Significand(w, f) \subseteq 0..(f.sig - 1)
  BY <1>1, FieldHas DEF Significand
<1> QED BY <1>2, ExponentFieldIs DEF Parts, Sign

LEMMA Packed ==
  ASSUME NEW f \in Formats, NEW e, NEW g, NEW s \in BOOLEAN, Parts(e, g, f)
  PROVE  LET w == Pack(s, e, g, f)
         IN  /\ Significand(w, f) = g /\ ExponentField(w, f) = e /\ Sign(w, f) = s
             /\ w \subseteq Width(f)
<1> DEFINE w == Pack(s, e, g, f)
           x == WordOf(e)
<1>1. /\ f.sig \in Nat /\ f.exp \in Nat /\ f.size \in Nat /\ SignBit(f) = f.sig + f.exp
      /\ SignBit(f) = 8 * f.size - 1 /\ SignBit(f) <= 63 /\ f.exp >= 1 /\ f.sig >= 10
  BY FormatIs
<1>2. e \in Nat /\ e <= AllOnes(f) /\ g \subseteq 0..(f.sig - 1)
  BY DEF Parts
<1>3. x \subseteq 0..(f.exp - 1) /\ ValueOf(x) = e
  BY ONLY <1>2, f \in Formats, ExponentRight
<1> HIDE DEF x
<1>4. \A b : b \in w <=> \/ b \in g
                         \/ b - f.sig \in x /\ b \in Int
                         \/ b = SignBit(f) /\ s
  <2>1. \A b : b \in ShiftLeft(x, f.sig) <=> b - f.sig \in x /\ b \in Int
    <3>1. \A b \in x : b + f.sig <= 63 /\ b \in Int
      BY ONLY <1>1, <1>3
    <3>2. \A b : b \in ShiftLeft(x, f.sig) <=> \E y \in x : b = y + f.sig
      BY ONLY <3>1 DEF ShiftLeft
    <3>3. \A y \in x : (y + f.sig) - f.sig = y /\ y + f.sig \in Int
      BY ONLY <1>1, <3>1
    <3>4. \A b \in Int : (b - f.sig) + f.sig = b
      BY ONLY <1>1
    <3> QED BY ONLY <3>2, <3>3, <3>4
  <2> QED BY <2>1 DEF Pack, x
<1> HIDE DEF w
<1>5. w \subseteq Nat /\ w \subseteq Width(f)
  <2>1. \A b \in g : b \in 0..(8 * f.size - 1)
    BY ONLY <1>1, <1>2
  <2>2. \A b \in Int : b - f.sig \in x => b \in 0..(8 * f.size - 1)
    BY ONLY <1>1, <1>3
  <2>3. SignBit(f) \in 0..(8 * f.size - 1)
    BY ONLY <1>1
  <2>4. w \subseteq 0..(8 * f.size - 1)
    BY ONLY <1>4, <2>1, <2>2, <2>3
  <2>5. 0..(8 * f.size - 1) \subseteq Nat
    BY ONLY <1>1
  <2> QED BY ONLY <2>4, <2>5 DEF Width
<1>6. Significand(w, f) = g
  <2>1. \A b : b \in Significand(w, f) <=> b \in 0..(f.sig - 1) /\ b + 0 \in w
    BY ONLY <1>1, <1>5, FieldHas, 0 \in Nat DEF Significand
  <2>2. \A b \in 0..(f.sig - 1) : b + 0 = b /\ ~(b - f.sig \in x) /\ b # SignBit(f)
    BY ONLY <1>1, <1>3
  <2>3. \A b : b \in Significand(w, f) <=> b \in g
    BY ONLY <1>2, <1>4, <2>1, <2>2
  <2> QED BY ONLY <2>3
<1>7. ExponentField(w, f) = e
  <2>1. \A b : b \in Field(w, f.sig, f.exp) <=> b \in 0..(f.exp - 1) /\ b + f.sig \in w
    BY ONLY <1>1, <1>5, FieldHas
  <2>2. \A b \in 0..(f.exp - 1) : /\ b + f.sig \notin g /\ b + f.sig # SignBit(f)
                                  /\ (b + f.sig) - f.sig = b /\ b + f.sig \in Int
    BY ONLY <1>1, <1>2
  <2>3. ASSUME NEW b \in 0..(f.exp - 1)
        PROVE  b + f.sig \in w <=> b \in x
    <3> DEFINE c == b + f.sig
    <3>1. c \notin g /\ c # SignBit(f) /\ c - f.sig = b /\ c \in Int
      BY ONLY <2>2
    <3> HIDE DEF c
    <3>2. c \in w <=> b \in x
      BY ONLY <1>4, <3>1
    <3> QED BY ONLY <3>2 DEF c
  <2>4. \A b : b \in Field(w, f.sig, f.exp) <=> b \in x
    BY ONLY <1>3, <2>1, <2>3
  <2>5. Field(w, f.sig, f.exp) = x
    BY ONLY <2>4
  <2> QED BY ONLY <1>3, <2>5 DEF ExponentField
<1>8. Sign(w, f) = s
  <2>1. SignBit(f) \notin g /\ SignBit(f) - f.sig \notin x
    BY ONLY <1>1, <1>2, <1>3
  <2>2. SignBit(f) \in w <=> s
    BY ONLY <1>4, <2>1
  <2>3. Sign(w, f) <=> SignBit(f) \in w
    BY DEF Sign
  <2>4. Sign(w, f) \in BOOLEAN
    BY DEF Sign
  <2> QED BY ONLY <2>2, <2>3, <2>4, s \in BOOLEAN
<1> QED BY ONLY <1>5, <1>6, <1>7, <1>8 DEF w

-----------------------------------------------------------------------------
(* Numbers                                                                  *)

NotANumber  == [kind |-> "NaN", sign |-> FALSE, weights |-> {}]
Infinity(s) == [kind |-> "Inf", sign |-> s, weights |-> {}]
Finite(s, W) == [kind |-> "finite", sign |-> s, weights |-> W]

WeightsOf(e, g, f) ==
  IF e = 0 THEN {b + 1 - f.bias - f.sig : b \in g}
           ELSE {b + e - f.bias - f.sig : b \in g \cup {f.sig}}

\* The number these parts are.
NumberOf(s, e, g, f) ==
  IF e # AllOnes(f) THEN Finite(s, WeightsOf(e, g, f))
  ELSE IF g = {} THEN Infinity(s) ELSE NotANumber

LEMMA NumberIs ==
  ASSUME NEW w, NEW f
  PROVE  Number(w, f) = NumberOf(Sign(w, f), ExponentField(w, f), Significand(w, f), f)
<1>1. CASE ExponentField(w, f) # AllOnes(f)
  BY <1>1 DEF Number, NumberOf, IsNaN, IsInf, Weights, WeightsOf, Finite
<1>2. CASE ExponentField(w, f) = AllOnes(f) /\ Significand(w, f) = {}
  BY <1>2 DEF Number, NumberOf, IsNaN, IsInf, Infinity
<1>3. CASE ExponentField(w, f) = AllOnes(f) /\ Significand(w, f) # {}
  BY <1>3 DEF Number, NumberOf, IsNaN, IsInf, NotANumber
<1> QED BY <1>1, <1>2, <1>3

LEMMA PackedNumber ==
  ASSUME NEW f \in Formats, NEW e, NEW g, NEW s \in BOOLEAN, Parts(e, g, f)
  PROVE  Number(Pack(s, e, g, f), f) = NumberOf(s, e, g, f)
<1> DEFINE w == Pack(s, e, g, f)
<1>1. Significand(w, f) = g /\ ExponentField(w, f) = e /\ Sign(w, f) = s
  BY Packed
<1>2. Number(w, f) = NumberOf(Sign(w, f), ExponentField(w, f), Significand(w, f), f)
  BY NumberIs
<1> HIDE DEF w
<1> QED BY ONLY <1>1, <1>2 DEF w

\* A sum of these powers of two is a number of the format.
Fits(W, f) == \A x, y \in W : x <= f.bias /\ x >= 1 - f.bias - f.sig /\ x - y <= f.sig

\* The first and the last bit of a number.
IsTop(x, W)    == x \in W /\ \A y \in W : x >= y
IsBottom(x, W) == x \in W /\ \A y \in W : x <= y

Bounded(W) == W # {} /\ \E a, b \in Int : W \subseteq a..b

LEMMA BottomIs ==
  ASSUME NEW W, Bounded(W)
  PROVE  IsBottom(Min(W), W)
<1>1. PICK a \in Int, b \in Int : W \subseteq a..b
  BY DEF Bounded
<1> DEFINE T == {x - a : x \in W}
<1>2. T \subseteq Nat /\ T # {}
  <2>1. W # {}
    BY DEF Bounded
  <2>2. T # {}
    BY ONLY <2>1
  <2>3. T \subseteq Nat
    BY ONLY <1>1, a \in Int, b \in Int
  <2> QED BY ONLY <2>2, <2>3
<1>3. PICK t \in T : \A y \in T : t <= y
  BY <1>2, LeastElement
<1>4. PICK x \in W : t = x - a
  OBVIOUS
<1>5. ASSUME NEW y \in W
      PROVE  x <= y
  <2>1. y - a \in T /\ x \in Int /\ y \in Int
    BY <1>1
  <2>2. t <= y - a
    BY ONLY <1>3, <2>1
  <2> QED BY ONLY <1>4, <2>1, <2>2, a \in Int
<1> QED BY <1>4, <1>5 DEF IsBottom, Min

LEMMA TopIs ==
  ASSUME NEW W, Bounded(W)
  PROVE  IsTop(Max(W), W)
<1>1. PICK a \in Int, b \in Int : W \subseteq a..b
  BY DEF Bounded
<1> DEFINE T == {b - x : x \in W}
<1>2. T \subseteq Nat /\ T # {}
  <2>1. W # {}
    BY DEF Bounded
  <2>2. T # {}
    BY ONLY <2>1
  <2>3. T \subseteq Nat
    BY ONLY <1>1, a \in Int, b \in Int
  <2> QED BY ONLY <2>2, <2>3
<1>3. PICK t \in T : \A y \in T : t <= y
  BY <1>2, LeastElement
<1>4. PICK x \in W : t = b - x
  OBVIOUS
<1>5. ASSUME NEW y \in W
      PROVE  x >= y
  <2>1. b - y \in T /\ x \in Int /\ y \in Int
    BY <1>1
  <2>2. t <= b - y
    BY ONLY <1>3, <2>1
  <2> QED BY ONLY <1>4, <2>1, <2>2, b \in Int
<1> QED BY <1>4, <1>5 DEF IsTop, Max

LEMMA OneTop ==
  ASSUME NEW W, W \subseteq Int, NEW x, NEW y, IsTop(x, W), IsTop(y, W)
  PROVE  x = y
BY DEF IsTop

LEMMA RepresentableIs ==
  ASSUME NEW f \in Formats, NEW s, NEW W, Bounded(W)
  PROVE  Representable(Finite(s, W), f) <=> Fits(W, f)
<1>1. IsTop(Max(W), W) /\ IsBottom(Min(W), W) /\ W \subseteq Int /\ W # {}
  <2>1. W \subseteq Int /\ W # {}
    BY DEF Bounded
  <2> QED BY <2>1, TopIs, BottomIs
<1>2. f.bias \in Nat /\ f.sig \in Nat
  BY FormatIs
<1> DEFINE t == Max(W)
           l == Min(W)
<1>3. Representable(Finite(s, W), f) <=> t <= f.bias /\ l >= 1 - f.bias - f.sig /\ t - l <= f.sig
  BY <1>1 DEF Representable, Finite
<1> HIDE DEF t, l
<1>4. t \in Int /\ l \in Int /\ t \in W /\ l \in W /\ \A y \in W : y \in Int /\ t >= y /\ l <= y
  BY ONLY <1>1 DEF IsTop, IsBottom, t, l
<1>5. ASSUME t <= f.bias /\ l >= 1 - f.bias - f.sig /\ t - l <= f.sig
      PROVE  Fits(W, f)
  BY ONLY <1>2, <1>4, <1>5 DEF Fits
<1>6. ASSUME Fits(W, f)
      PROVE  t <= f.bias /\ l >= 1 - f.bias - f.sig /\ t - l <= f.sig
  BY ONLY <1>2, <1>4, <1>6 DEF Fits
<1> QED BY ONLY <1>3, <1>5, <1>6

\* No bits are a number of every format.
LEMMA ZeroRepresentable == \A s, f : Representable(Finite(s, {}), f)
BY DEF Representable, Finite

-----------------------------------------------------------------------------
(* Patterns of numbers                                                      *)

\* Exponent and significand of the number whose first bit is top.
ExponentAt(top, f) == IF top < 1 - f.bias THEN 0 ELSE top + f.bias
SignificandAt(top, W, f) ==
  IF top < 1 - f.bias THEN {b - (1 - f.bias - f.sig) : b \in W}
  ELSE {b - (top - f.sig) : b \in W \ {top}}

LEMMA PatternIs ==
  ASSUME NEW f, NEW s, NEW W, W \subseteq Int, W # {}, NEW top, IsTop(top, W)
  PROVE  PatternOf(Finite(s, W), f) = Pack(s, ExponentAt(top, f), SignificandAt(top, W, f), f)
<1>1. Max(W) = top
  <2>1. IsTop(Max(W), W)
    BY DEF IsTop, Max
  <2> QED BY ONLY <2>1, W \subseteq Int, IsTop(top, W), OneTop
<1>2. CASE top < 1 - f.bias
  BY <1>1, <1>2 DEF PatternOf, Finite, ExponentAt, SignificandAt
<1>3. CASE ~(top < 1 - f.bias)
  BY <1>1, <1>3 DEF PatternOf, Finite, ExponentAt, SignificandAt
<1> QED BY <1>2, <1>3

\* If the number is one of the format, these are its parts.
LEMMA PartsAt ==
  ASSUME NEW f \in Formats, NEW W, W \subseteq Int, NEW top, IsTop(top, W), Fits(W, f)
  PROVE  LET e == ExponentAt(top, f)
             g == SignificandAt(top, W, f)
         IN  Parts(e, g, f) /\ e # AllOnes(f) /\ WeightsOf(e, g, f) = W
<1> DEFINE e == ExponentAt(top, f)
           g == SignificandAt(top, W, f)
           B == f.bias
           S == f.sig
<1>1. B \in Nat /\ S \in Nat /\ AllOnes(f) = 2 * B + 1 /\ B >= 15
  BY FormatIs
<1>2. top \in Int /\ top \in W /\ \A x \in W : /\ x \in Int /\ x <= top /\ x <= B
                                               /\ x >= 1 - B - S /\ top - x <= S
  BY DEF IsTop, Fits
<1>3. CASE top < 1 - B
  <2>1. e = 0 /\ g = {b - (1 - B - S) : b \in W}
    BY <1>3 DEF ExponentAt, SignificandAt
  <2> HIDE DEF e, g, B, S
  <2>2. \A b \in W : b - (1 - B - S) \in 0..(S - 1) /\ (b - (1 - B - S)) + 1 - B - S = b
    BY ONLY <1>1, <1>2, <1>3
  <2>3. g \subseteq 0..(S - 1)
    BY ONLY <2>1, <2>2
  <2>4. {b + 1 - B - S : b \in g} = W
    BY ONLY <2>1, <2>2
  <2>5. 0 # AllOnes(f) /\ 0 <= AllOnes(f)
    BY ONLY <1>1
  <2> QED BY ONLY <2>1, <2>3, <2>4, <2>5 DEF Parts, WeightsOf, B, S, e, g
<1>4. CASE ~(top < 1 - B)
  <2>1. e = top + B /\ g = {b - (top - S) : b \in W \ {top}}
    BY <1>4 DEF ExponentAt, SignificandAt
  <2> HIDE DEF e, g, B, S
  <2>2. \A b \in W \ {top} : b - (top - S) \in 0..(S - 1) /\ (b - (top - S)) + (top + B) - B - S = b
    BY ONLY <1>1, <1>2
  <2>3. g \subseteq 0..(S - 1)
    BY ONLY <2>1, <2>2
  <2>4. S + (top + B) - B - S = top
    BY ONLY <1>1, <1>2
  <2>5. {b + e - B - S : b \in g \cup {S}} = W
    <3>1. \A x : x \in {b + e - B - S : b \in g \cup {S}}
                   <=> (\E b \in g : x = b + e - B - S) \/ x = top
      BY ONLY <2>1, <2>4
    <3>2. \A x : (\E b \in g : x = b + e - B - S) <=> x \in W \ {top}
      BY ONLY <2>1, <2>2
    <3> QED BY ONLY <1>2, <3>1, <3>2
  <2>6. e # 0 /\ e # AllOnes(f) /\ e <= AllOnes(f) /\ e \in Nat
    BY ONLY <1>1, <1>2, <1>4, <2>1
  <2> QED BY ONLY <2>3, <2>5, <2>6 DEF Parts, WeightsOf, B, S, e, g
<1> QED BY ONLY <1>3, <1>4 DEF e, g, B, S

\* A pattern of a number of the format is that number.
LEMMA PatternRight ==
  ASSUME NEW f \in Formats, NEW s \in BOOLEAN, NEW W, W = {} \/ (Bounded(W) /\ Fits(W, f))
  PROVE  /\ Number(PatternOf(Finite(s, W), f), f) = Finite(s, W)
         /\ PatternOf(Finite(s, W), f) \subseteq Width(f)
<1>1. CASE W = {}
  <2>1. PatternOf(Finite(s, {}), f) = Pack(s, 0, {}, f)
    BY DEF PatternOf, Finite
  <2>2. AllOnes(f) \in Nat /\ AllOnes(f) # 0 /\ 0 <= AllOnes(f)
    BY FormatIs
  <2>3. Parts(0, {}, f)
    BY ONLY <2>2 DEF Parts
  <2>4. NumberOf(s, 0, {}, f) = Finite(s, {})
    BY ONLY <2>2 DEF NumberOf, WeightsOf
  <2>5. Pack(s, 0, {}, f) \subseteq Width(f)
    BY ONLY <2>3, f \in Formats, s \in BOOLEAN, Packed
  <2>6. Number(Pack(s, 0, {}, f), f) = NumberOf(s, 0, {}, f)
    BY ONLY <2>3, f \in Formats, s \in BOOLEAN, PackedNumber
  <2> QED BY ONLY <1>1, <2>1, <2>4, <2>5, <2>6
<1>2. CASE Bounded(W) /\ Fits(W, f)
  <2> DEFINE top == Max(W)
             e == ExponentAt(top, f)
             g == SignificandAt(top, W, f)
  <2>1. W \subseteq Int /\ W # {}
    BY <1>2 DEF Bounded
  <2>2. IsTop(top, W)
    BY <1>2, TopIs
  <2> HIDE DEF top
  <2>3. Parts(e, g, f) /\ e # AllOnes(f) /\ WeightsOf(e, g, f) = W
    BY ONLY <1>2, <2>1, <2>2, f \in Formats, PartsAt
  <2>4. PatternOf(Finite(s, W), f) = Pack(s, e, g, f)
    BY ONLY <2>1, <2>2, PatternIs
  <2> HIDE DEF e, g
  <2>5. Pack(s, e, g, f) \subseteq Width(f)
    BY ONLY <2>3, f \in Formats, s \in BOOLEAN, Packed
  <2>6. Number(Pack(s, e, g, f), f) = NumberOf(s, e, g, f)
    BY ONLY <2>3, f \in Formats, s \in BOOLEAN, PackedNumber
  <2>7. NumberOf(s, e, g, f) = Finite(s, W)
    BY ONLY <2>3 DEF NumberOf
  <2> QED BY ONLY <2>4, <2>5, <2>6, <2>7
<1> QED BY <1>1, <1>2

\* What the weights are of parts.
LEMMA NormalWeights ==
  ASSUME NEW f \in Formats, NEW e, NEW g, Parts(e, g, f), e # 0
  PROVE  LET W == WeightsOf(e, g, f)
         IN  Bounded(W) /\ W \subseteq Int /\ IsTop(e - f.bias, W)
<1> DEFINE B == f.bias
           S == f.sig
           W == WeightsOf(e, g, f)
<1>1. B \in Nat /\ S \in Nat /\ e \in Nat /\ g \subseteq 0..(S - 1)
  BY FormatIs DEF Parts
<1>2. W = {b + e - B - S : b \in g \cup {S}}
  BY DEF WeightsOf
<1> HIDE DEF B, S, W
<1>3. \A b \in g \cup {S} : b + e - B - S \in (e - B - S)..(e - B)
  BY ONLY <1>1
<1>4. W \subseteq (e - B - S)..(e - B)
  BY ONLY <1>2, <1>3
<1>5. S + e - B - S = e - B /\ S \in g \cup {S}
  BY ONLY <1>1
<1>6. e - B \in W
  BY ONLY <1>2, <1>5
<1>7. e - B \in Int /\ e - B - S \in Int
  BY ONLY <1>1
<1>8. W \subseteq Int /\ IsTop(e - B, W)
  BY ONLY <1>4, <1>6, <1>7 DEF IsTop
<1>9. Bounded(W)
  BY ONLY <1>4, <1>6, <1>7 DEF Bounded
<1> QED BY ONLY <1>8, <1>9 DEF B, W

LEMMA SubnormalWeights ==
  ASSUME NEW f \in Formats, NEW g, Parts(0, g, f)
  PROVE  LET W == WeightsOf(0, g, f)
         IN  W \subseteq (1 - f.bias - f.sig)..(-f.bias) /\ (W = {} <=> g = {}) /\ (g # {} => Bounded(W))
<1> DEFINE B == f.bias
           S == f.sig
           W == WeightsOf(0, g, f)
<1>1. B \in Nat /\ S \in Nat /\ g \subseteq 0..(S - 1)
  BY FormatIs DEF Parts
<1>2. W = {b + 1 - B - S : b \in g}
  BY DEF WeightsOf
<1> HIDE DEF B, S, W
<1>3. \A b \in g : b + 1 - B - S \in (1 - B - S)..(-B)
  BY ONLY <1>1
<1>4. W \subseteq (1 - B - S)..(-B)
  BY ONLY <1>2, <1>3
<1>5. W = {} <=> g = {}
  BY ONLY <1>2
<1>6. 1 - B - S \in Int /\ -B \in Int
  BY ONLY <1>1
<1>7. g # {} => Bounded(W)
  BY ONLY <1>4, <1>5, <1>6 DEF Bounded
<1> QED BY ONLY <1>4, <1>5, <1>7 DEF B, S, W

-----------------------------------------------------------------------------
(* Narrowing                                                                *)

\* Shifted right and left again, a word is the same if no bit was lost.
LEMMA ShiftBack ==
  ASSUME NEW w, w \subseteq 0..63, NEW n \in Nat
  PROVE  ShiftLeft(ShiftRight(w, n), n) = w <=> \A c \in w : c >= n
<1>1. \A b : b \in ShiftRight(w, n) <=> \E c \in w : c >= n /\ b = c - n
  BY DEF ShiftRight
<1>2. \A c \in w : c >= n => (c - n) + n = c /\ (c - n) + n <= 63
  OBVIOUS
<1> DEFINE r == ShiftRight(w, n)
<1> HIDE DEF r
<1>3. \A b : b \in ShiftLeft(r, n) <=> \E x \in r : x + n <= 63 /\ b = x + n
  BY DEF ShiftLeft
<1>4. \A b : b \in ShiftLeft(r, n) <=> b \in w /\ b >= n
  <2>1. \A x : x \in r <=> \E c \in w : c >= n /\ x = c - n
    BY ONLY <1>1 DEF r
  <2> QED BY ONLY <1>2, <1>3, <2>1
<1> QED BY ONLY <1>4 DEF r

\* What Narrow() makes of a number whose exponent is not 0, by its bits: the parts
\* of the number in the format, or none if it is no number of the format.
LEMMA NarrowIs ==
  ASSUME NEW from \in Formats, NEW to \in Formats, to.sig <= from.sig,
         NEW n \in Int, NEW g, g \subseteq 0..(from.sig - 1)
  PROVE  LET W == {b + n - to.bias - from.sig : b \in g \cup {from.sig}}
             r == Narrow(n, g, from, to)
             e == ExponentAt(n - to.bias, to)
             x == SignificandAt(n - to.bias, W, to)
         IN  r = IF Fits(W, to) THEN [fits |-> TRUE, exponent |-> e, significand |-> x] ELSE DoesNotFit
<1> DEFINE B == to.bias
           S == to.sig
           F == from.sig
           W == {b + n - B - F : b \in g \cup {F}}
           k == F - S
           short == ShiftRight(g, k)
           full  == short \cup {S}
           r == Narrow(n, g, from, to)
           e == ExponentAt(n - B, to)
           x == SignificandAt(n - B, W, to)
<1>1. B \in Nat /\ S \in Nat /\ F \in Nat /\ F >= S /\ B >= 15 /\ S >= 10 /\ S <= 63
  BY FormatIs
<1>2. g \subseteq 0..(F - 1) /\ k \in Nat /\ k = F - S
  BY <1>1
<1>3. Fits(W, to) <=> \A a, b \in W : a <= B /\ a >= 1 - B - S /\ a - b <= S
  BY DEF Fits
<1>4. e = (IF n - B < 1 - B THEN 0 ELSE (n - B) + B)
  BY DEF ExponentAt
<1>5. x = IF n - B < 1 - B THEN {b - (1 - B - S) : b \in W} ELSE {b - ((n - B) - S) : b \in W \ {n - B}}
  BY DEF SignificandAt
<1>6. r = IF n < -S \/ n > 2 * B \/ \E b \in g : b < k THEN DoesNotFit
          ELSE IF n > 0 THEN [fits |-> TRUE, exponent |-> n, significand |-> short]
          ELSE IF ShiftLeft(ShiftRight(full, 1 - n), 1 - n) # full THEN DoesNotFit
          ELSE [fits |-> TRUE, exponent |-> 0, significand |-> ShiftRight(full, 1 - n)]
  BY DEF Narrow
<1> SUFFICES r = IF Fits(W, to) THEN [fits |-> TRUE, exponent |-> e, significand |-> x] ELSE DoesNotFit
  OBVIOUS
<1> HIDE DEF B, S, F, k, r, e, x
<1>7. \A c : c \in W <=> \E b \in g \cup {F} : c = b + n - B - F
  OBVIOUS
<1>8. short = {b - k : b \in {y \in g : y >= k}}
  BY DEF ShiftRight
<1> HIDE DEF W, short
<1>9. n - B \in W /\ \A b \in g : b + n - B - F \in W
  <2>1. n - B = F + n - B - F
    BY ONLY <1>1, n \in Int
  <2> QED BY ONLY <1>7, <2>1
<1>10. Fits(W, to) <=> n <= 2 * B /\ (\A b \in g : b >= k) /\ n + S >= 1 /\ \A b \in g : b + n >= 1 + k
  <2>1. ASSUME n <= 2 * B, \A b \in g : b >= k, n + S >= 1, \A b \in g : b + n >= 1 + k,
               NEW a \in W, NEW c \in W
        PROVE  a <= B /\ a >= 1 - B - S /\ a - c <= S
    <3>1. PICK b \in g \cup {F} : a = b + n - B - F
      BY ONLY <1>7
    <3>2. PICK d \in g \cup {F} : c = d + n - B - F
      BY ONLY <1>7
    <3>3. b \in Int /\ b <= F /\ b + n >= 1 + k /\ d \in Int /\ d >= k
      BY ONLY <1>1, <1>2, <2>1, n \in Int
    <3> QED BY ONLY <1>1, <1>2, <2>1, <3>1, <3>2, <3>3, n \in Int
  <2>2. ASSUME \A a, c \in W : a <= B /\ a >= 1 - B - S /\ a - c <= S, NEW b \in g
        PROVE  b >= k /\ b + n >= 1 + k
    <3>1. b + n - B - F >= 1 - B - S /\ (n - B) - (b + n - B - F) <= S
      BY ONLY <1>9, <2>2
    <3> QED BY ONLY <1>1, <1>2, <3>1, n \in Int, b \in g
  <2>3. ASSUME \A a, c \in W : a <= B /\ a >= 1 - B - S /\ a - c <= S
        PROVE  n <= 2 * B /\ n + S >= 1
    <3>1. n - B <= B /\ n - B >= 1 - B - S
      BY ONLY <1>9, <2>3
    <3> QED BY ONLY <1>1, <3>1, n \in Int
  <2> QED BY ONLY <1>3, <2>1, <2>2, <2>3
<1>11. CASE n < -S \/ n > 2 * B \/ \E b \in g : b < k
  <2>1. ~Fits(W, to)
    BY ONLY <1>1, <1>2, <1>10, <1>11, n \in Int
  <2> QED BY ONLY <1>6, <1>11, <2>1
<1>12. CASE /\ ~(n < -S \/ n > 2 * B \/ \E b \in g : b < k)
            /\ n > 0
  <2>1. Fits(W, to)
    <3>1. \A b \in g : b >= k /\ b \in Int
      BY ONLY <1>2, <1>12
    <3> QED BY ONLY <1>1, <1>2, <1>10, <1>12, <3>1, n \in Int
  <2>2. e = n
    BY ONLY <1>1, <1>4, <1>12, n \in Int
  <2>3. \A b \in g : b >= k /\ b \in Int /\ b + n - B - F # n - B /\ (b + n - B - F) - ((n - B) - S) = b - k
    BY ONLY <1>1, <1>2, <1>12, n \in Int
  <2>4. F + n - B - F = n - B
    BY ONLY <1>1, n \in Int
  <2>5. x = {b - ((n - B) - S) : b \in W \ {n - B}}
    BY ONLY <1>1, <1>5, <1>12, n \in Int
  <2>6. \A c : c \in W \ {n - B} <=> \E b \in g : c = b + n - B - F
    BY ONLY <1>7, <2>3, <2>4
  <2>7. \A y : y \in x <=> \E b \in g : y = b - k
    BY ONLY <2>3, <2>5, <2>6
  <2>8. \A y : y \in short <=> \E b \in g : y = b - k
    BY ONLY <1>8, <2>3
  <2>9. x = short
    <3>1. \A y : y \in x <=> y \in short
      BY ONLY <2>7, <2>8
    <3>2. x = {y \in x : TRUE}
      OBVIOUS
    <3> QED BY ONLY <2>5, <1>8, <3>1
  <2> QED BY ONLY <1>6, <1>12, <2>1, <2>2, <2>9
<1>13. CASE /\ ~(n < -S \/ n > 2 * B \/ \E b \in g : b < k)
            /\ ~(n > 0)
  <2>1. \A b \in g : b >= k /\ b \in Int /\ b < F
    BY ONLY <1>1, <1>2, <1>13
  <2>2. \A c : c \in full <=> \E b \in g \cup {F} : c = b - k
    <3>1. F - k = S
      BY ONLY <1>1, <1>2
    <3>2. \A c : c \in short <=> \E b \in g : c = b - k
      BY ONLY <1>8, <2>1
    <3> QED BY ONLY <3>1, <3>2
  <2> DEFINE u == full
  <2>3. u \subseteq 0..63
    BY ONLY <1>1, <1>2, <2>1, <2>2
  <2>4. 1 - n \in Nat /\ n \in Int
    BY ONLY <1>13, n \in Int
  <2> HIDE DEF u
  <2>5. ShiftLeft(ShiftRight(u, 1 - n), 1 - n) = u <=> \A c \in u : c >= 1 - n
    BY ONLY <2>3, <2>4, ShiftBack
  <2>6. Fits(W, to) <=> \A c \in u : c >= 1 - n
    <3>1. \A b \in g : b - k >= 1 - n <=> b + n >= 1 + k
      BY ONLY <1>1, <1>2, <2>1, n \in Int
    <3>2. F - k >= 1 - n <=> n + S >= 1
      BY ONLY <1>1, <1>2, n \in Int
    <3>3. (\A c \in u : c >= 1 - n) <=> \A b \in g \cup {F} : b - k >= 1 - n
      BY ONLY <2>2 DEF u
    <3>4. n <= 2 * B
      BY ONLY <1>1, <1>13, n \in Int
    <3> QED BY ONLY <1>10, <2>1, <3>1, <3>2, <3>3, <3>4
  <2>7. ASSUME Fits(W, to)
        PROVE  ShiftRight(u, 1 - n) = x
    <3>1. \A c \in u : c >= 1 - n
      BY ONLY <2>6, <2>7
    <3>2. \A y : y \in ShiftRight(u, 1 - n) <=> \E c \in u : y = c - (1 - n)
      BY ONLY <3>1 DEF ShiftRight
    <3>3. x = {b - (1 - B - S) : b \in W}
      BY ONLY <1>1, <1>5, <1>13, n \in Int
    <3>4. \A b \in g \cup {F} : (b + n - B - F) - (1 - B - S) = (b - k) - (1 - n)
      BY ONLY <1>1, <1>2, <2>1, n \in Int
    <3>5. \A y : y \in x <=> \E b \in g \cup {F} : y = (b - k) - (1 - n)
      BY ONLY <1>7, <3>3, <3>4
    <3>6. \A y : y \in ShiftRight(u, 1 - n) <=> y \in x
      BY ONLY <2>2, <3>2, <3>5 DEF u
    <3> QED BY ONLY <3>3, <3>6 DEF ShiftRight
  <2>8. e = 0
    BY ONLY <1>1, <1>4, <1>13, n \in Int
  <2> QED BY ONLY <1>6, <1>13, <2>5, <2>6, <2>7, <2>8 DEF u
<1> QED BY ONLY <1>11, <1>12, <1>13

\* A format and a shorter one: what is subnormal in the longer is no number of the
\* shorter, and the numbers of the shorter are normal in the longer.
Wider(from, to) ==
  /\ from \in Formats /\ to \in Formats
  /\ to.sig <= from.sig /\ from.bias > to.bias + to.sig

LEMMA WiderAre == Wider(Double, Single) /\ Wider(Single, Half) /\ Wider(Double, Half)
BY DEF Wider, Formats, Double, Single, Half

LEMMA FitsWider ==
  ASSUME NEW from, NEW to, Wider(from, to), NEW W, W \subseteq Int, Fits(W, to)
  PROVE  Fits(W, from) /\ \A x \in W : x >= 1 - from.bias
<1>1. /\ from.sig \in Nat /\ from.bias \in Nat /\ to.sig \in Nat /\ to.bias \in Nat
      /\ to.sig <= from.sig /\ from.bias > to.bias + to.sig
  BY FormatIs DEF Wider
<1>2. \A x, y \in W : /\ x \in Int /\ y \in Int
                      /\ x <= to.bias /\ x >= 1 - to.bias - to.sig /\ x - y <= to.sig
  BY DEF Fits
<1>3. \A x, y \in W : /\ x <= from.bias /\ x >= 1 - from.bias - from.sig /\ x - y <= from.sig
                      /\ x >= 1 - from.bias
  BY ONLY <1>1, <1>2
<1> QED BY ONLY <1>3 DEF Fits

LEMMA UnfitSmall ==
  ASSUME NEW from, NEW to, Wider(from, to), NEW g, Parts(0, g, from), g # {}
  PROVE  ~Fits(WeightsOf(0, g, from), to)
<1> DEFINE W == WeightsOf(0, g, from)
<1>1. from \in Formats /\ from.bias \in Nat /\ from.sig \in Nat
  BY FormatIs DEF Wider
<1>2. W \subseteq (1 - from.bias - from.sig)..(-from.bias) /\ (W = {} <=> g = {})
  BY ONLY <1>1, Parts(0, g, from), SubnormalWeights
<1> HIDE DEF W
<1>3. W # {} /\ W \subseteq Int /\ \A x \in W : x <= -from.bias
  BY ONLY <1>1, <1>2, g # {}
<1>4. ASSUME Fits(W, to)
      PROVE  FALSE
  <2>1. \A x \in W : x >= 1 - from.bias
    BY ONLY <1>3, <1>4, Wider(from, to), FitsWider
  <2>2. PICK x \in W : TRUE
    BY ONLY <1>3
  <2>3. x \in Int /\ x <= -from.bias /\ x >= 1 - from.bias
    BY ONLY <1>3, <2>1
  <2> QED BY ONLY <1>1, <2>3
<1> QED BY ONLY <1>4 DEF W

\* A narrowing of a number by its parts; a subnormal one is not narrowed.
LEMMA NarrowParts ==
  ASSUME NEW from, NEW to, Wider(from, to), NEW e, NEW g, Parts(e, g, from), e = 0 => g # {}
  PROVE  LET W == WeightsOf(e, g, from)
             t == e - from.bias
         IN  Narrow(e - (from.bias - to.bias), g, from, to)
               = IF Fits(W, to)
                 THEN [fits |-> TRUE, exponent |-> ExponentAt(t, to), significand |-> SignificandAt(t, W, to)]
                 ELSE DoesNotFit
<1> DEFINE W == WeightsOf(e, g, from)
           t == e - from.bias
           n == e - (from.bias - to.bias)
<1>1. /\ from \in Formats /\ to \in Formats
      /\ from.sig \in Nat /\ from.bias \in Nat /\ to.sig \in Nat /\ to.bias \in Nat
      /\ to.sig <= from.sig /\ from.bias > to.bias + to.sig
  BY FormatIs DEF Wider
<1>2. e \in Nat /\ g \subseteq 0..(from.sig - 1)
  BY DEF Parts
<1>3. n \in Int /\ n - to.bias = t
  BY ONLY <1>1, <1>2
<1> HIDE DEF n
<1>4. CASE e # 0
  <2> DEFINE V == {b + n - to.bias - from.sig : b \in g \cup {from.sig}}
  <2>1. W = {b + e - from.bias - from.sig : b \in g \cup {from.sig}}
    BY <1>4 DEF WeightsOf
  <2>2. \A b \in g \cup {from.sig} : b + n - to.bias - from.sig = b + e - from.bias - from.sig
    BY ONLY <1>1, <1>2 DEF n
  <2>3. V = W
    BY ONLY <2>1, <2>2
  <2>4. Narrow(n, g, from, to)
          = IF Fits(V, to)
            THEN [fits |-> TRUE, exponent |-> ExponentAt(n - to.bias, to),
                  significand |-> SignificandAt(n - to.bias, V, to)]
            ELSE DoesNotFit
    BY ONLY <1>1, <1>2, <1>3, NarrowIs
  <2> HIDE DEF V, W, t
  <2> QED BY ONLY <1>3, <2>3, <2>4 DEF n, W, t
<1>5. CASE e = 0
  <2>1. ~Fits(W, to)
    BY <1>5, UnfitSmall
  <2>2. n < -to.sig
    BY ONLY <1>1, <1>5 DEF n
  <2>3. Narrow(n, g, from, to) = DoesNotFit
    BY ONLY <2>2 DEF Narrow
  <2> HIDE DEF W, t
  <2> QED BY ONLY <2>1, <2>3 DEF n, W, t
<1> QED BY ONLY <1>4, <1>5

-----------------------------------------------------------------------------
(* addDouble()                                                              *)

\* Sign, exponent and significand of a finite number that is not zero, and the
\* powers of two it is the sum of.
Given3(s, e, g, f) == s \in BOOLEAN /\ Parts(e, g, f) /\ e # AllOnes(f) /\ (e = 0 => g # {})

LEMMA GivenIs ==
  ASSUME NEW f \in Formats, NEW s, NEW e, NEW g, Given3(s, e, g, f)
  PROVE  LET W == WeightsOf(e, g, f)
         IN  /\ Bounded(W) /\ W # {} /\ W \subseteq Int
             /\ e # 0 => IsTop(e - f.bias, W)
             /\ Number(Pack(s, e, g, f), f) = Finite(s, W)
             /\ Pack(s, e, g, f) \subseteq Width(f)
<1> DEFINE W == WeightsOf(e, g, f)
<1>1. s \in BOOLEAN /\ Parts(e, g, f) /\ e # AllOnes(f) /\ (e = 0 => g # {})
  BY DEF Given3
<1>2. Number(Pack(s, e, g, f), f) = NumberOf(s, e, g, f)
  BY ONLY <1>1, f \in Formats, PackedNumber
<1>3. NumberOf(s, e, g, f) = Finite(s, W)
  BY <1>1 DEF NumberOf
<1>4. Pack(s, e, g, f) \subseteq Width(f)
  BY ONLY <1>1, f \in Formats, Packed
<1>5. Bounded(W) /\ (e # 0 => IsTop(e - f.bias, W))
  <2>1. CASE e = 0
    BY <1>1, <2>1, SubnormalWeights
  <2>2. CASE e # 0
    BY <1>1, <2>2, NormalWeights
  <2> QED BY ONLY <2>1, <2>2
<1>6. W # {} /\ W \subseteq Int
  BY ONLY <1>5 DEF Bounded
<1> QED BY ONLY <1>2, <1>3, <1>4, <1>5, <1>6

\* From 32 to 16 bits, if the number is one of 16 bits.
LEMMA ToHalfIs ==
  ASSUME NEW s, NEW e, NEW g, Given3(s, e, g, Single)
  PROVE  LET W == WeightsOf(e, g, Single)
         IN  ToHalf(s, e, g) = IF Fits(W, Half) THEN Encoded(Half, PatternOf(Finite(s, W), Half))
                               ELSE Encoded(Single, Pack(s, e, g, Single))
<1> DEFINE W == WeightsOf(e, g, Single)
           t == e - Single.bias
           r == Narrow(e - (Single.bias - Half.bias), g, Single, Half)
<1>1. Parts(e, g, Single) /\ (e = 0 => g # {})
  BY DEF Given3
<1>2. r = IF Fits(W, Half)
          THEN [fits |-> TRUE, exponent |-> ExponentAt(t, Half), significand |-> SignificandAt(t, W, Half)]
          ELSE DoesNotFit
  BY ONLY <1>1, WiderAre, NarrowParts
<1>3. ToHalf(s, e, g) = IF r.fits THEN Encoded(Half, Pack(s, r.exponent, r.significand, Half))
                        ELSE Encoded(Single, Pack(s, e, g, Single))
  BY DEF ToHalf
<1>4. ASSUME Fits(W, Half)
      PROVE  IsTop(t, W) /\ W \subseteq Int /\ W # {}
  <2>1. e # 0
    BY ONLY <1>1, <1>4, WiderAre, UnfitSmall
  <2>2. Single \in Formats
    BY DEF Formats
  <2> QED BY ONLY <2>1, <2>2, Given3(s, e, g, Single), GivenIs
<1> HIDE DEF r, W, t
<1>5. CASE Fits(W, Half)
  <2>1. PatternOf(Finite(s, W), Half) = Pack(s, ExponentAt(t, Half), SignificandAt(t, W, Half), Half)
    BY ONLY <1>4, <1>5, PatternIs
  <2> QED BY ONLY <1>2, <1>3, <1>5, <2>1 DEF W
<1>6. CASE ~Fits(W, Half)
  BY ONLY <1>2, <1>3, <1>6 DEF DoesNotFit, W
<1> QED BY ONLY <1>5, <1>6

LEMMA FormatsAre == Half \in Formats /\ Single \in Formats /\ Double \in Formats
BY DEF Formats

\* The shortest item of a number of so many bits; item where neither 16 nor 32 do.
Shortest(s, W, item) ==
  IF Fits(W, Half) THEN Encoded(Half, PatternOf(Finite(s, W), Half))
  ELSE IF Fits(W, Single) THEN Encoded(Single, PatternOf(Finite(s, W), Single)) ELSE item

LEMMA IntegersOnly ==
  ASSUME NEW s, NEW e, NEW g, Given3(s, e, g, Double), NEW d
  PROVE  LET n == Narrow(e - (Double.bias - Single.bias), g, Double, Single)
         IN  (IF n.fits THEN ToHalf(s, n.exponent, n.significand) ELSE Encoded(Double, d))
               = Shortest(s, WeightsOf(e, g, Double), Encoded(Double, d))
<1> DEFINE W == WeightsOf(e, g, Double)
           t == e - Double.bias
           r == Narrow(e - (Double.bias - Single.bias), g, Double, Single)
           i == ExponentAt(t, Single)
           x == SignificandAt(t, W, Single)
<1>1. Parts(e, g, Double) /\ (e = 0 => g # {}) /\ s \in BOOLEAN
  BY DEF Given3
<1>2. r = IF Fits(W, Single)
          THEN [fits |-> TRUE, exponent |-> i, significand |-> x]
          ELSE DoesNotFit
  BY ONLY <1>1, WiderAre, NarrowParts
<1>3. W # {} /\ W \subseteq Int /\ (e # 0 => IsTop(t, W))
  BY ONLY FormatsAre, Given3(s, e, g, Double), GivenIs
<1>4. Fits(W, Single) => e # 0
  BY ONLY <1>1, WiderAre, UnfitSmall
<1> HIDE DEF r, W, t, i, x
<1>5. CASE ~Fits(W, Single)
  <2>1. ~Fits(W, Half)
    BY ONLY <1>3, <1>5, WiderAre, FitsWider
  <2>2. ~r.fits
    BY ONLY <1>2, <1>5 DEF DoesNotFit
  <2> QED BY <1>5, <2>1, <2>2 DEF Shortest, r, W
<1>6. CASE Fits(W, Single)
  <2>1. IsTop(t, W)
    BY ONLY <1>3, <1>4, <1>6
  <2>2. Parts(i, x, Single) /\ i # AllOnes(Single) /\ WeightsOf(i, x, Single) = W
    BY ONLY <1>3, <1>6, <2>1, FormatsAre, PartsAt DEF i, x
  <2>3. i = 0 => x # {}
    BY ONLY <1>3, <2>2 DEF WeightsOf
  <2>4. Given3(s, i, x, Single)
    BY ONLY <1>1, <2>2, <2>3 DEF Given3
  <2>5. PatternOf(Finite(s, W), Single) = Pack(s, i, x, Single)
    BY ONLY <1>3, <2>1, PatternIs DEF i, x
  <2>6. ToHalf(s, i, x) = IF Fits(WeightsOf(i, x, Single), Half)
                          THEN Encoded(Half, PatternOf(Finite(s, WeightsOf(i, x, Single)), Half))
                          ELSE Encoded(Single, Pack(s, i, x, Single))
    BY ONLY <2>4, ToHalfIs
  <2>7. ToHalf(s, i, x) = IF Fits(W, Half) THEN Encoded(Half, PatternOf(Finite(s, W), Half))
                          ELSE Encoded(Single, PatternOf(Finite(s, W), Single))
    BY ONLY <2>2, <2>5, <2>6
  <2>8. r.fits /\ r.exponent = i /\ r.significand = x
    BY ONLY <1>2, <1>6
  <2> QED BY ONLY <1>6, <2>7, <2>8 DEF Shortest, r, W
<1> QED BY ONLY <1>5, <1>6

LEMMA FloatCast ==
  ASSUME NEW s, NEW e, NEW g, Given3(s, e, g, Double), NEW d
  PROVE  LET x == Finite(s, WeightsOf(e, g, Double))
             p == PatternOf(x, Single)
         IN  (IF ~Representable(x, Single) THEN Encoded(Double, d)
              ELSE ToHalf(s, ExponentField(p, Single), Significand(p, Single)))
               = Shortest(s, WeightsOf(e, g, Double), Encoded(Double, d))
<1> DEFINE W == WeightsOf(e, g, Double)
           t == Max(W)
           i == ExponentAt(t, Single)
           x == SignificandAt(t, W, Single)
           p == PatternOf(Finite(s, W), Single)
<1>1. s \in BOOLEAN
  BY DEF Given3
<1>2. W # {} /\ W \subseteq Int /\ Bounded(W)
  BY ONLY FormatsAre, Given3(s, e, g, Double), GivenIs
<1> HIDE DEF W
<1>3. IsTop(t, W)
  BY ONLY <1>2, TopIs
<1>4. Representable(Finite(s, W), Single) <=> Fits(W, Single)
  BY ONLY <1>2, FormatsAre, RepresentableIs
<1> HIDE DEF t, i, x, p
<1>5. CASE ~Fits(W, Single)
  <2>1. ~Fits(W, Half)
    BY ONLY <1>2, <1>5, WiderAre, FitsWider
  <2> QED BY ONLY <1>4, <1>5, <2>1 DEF Shortest, W
<1>6. CASE Fits(W, Single)
  <2>2. Parts(i, x, Single) /\ i # AllOnes(Single) /\ WeightsOf(i, x, Single) = W
    BY ONLY <1>2, <1>3, <1>6, FormatsAre, PartsAt DEF i, x
  <2>3. i = 0 => x # {}
    BY ONLY <1>2, <2>2 DEF WeightsOf
  <2>4. Given3(s, i, x, Single)
    BY ONLY <1>1, <2>2, <2>3 DEF Given3
  <2>5. p = Pack(s, i, x, Single)
    BY ONLY <1>2, <1>3, PatternIs DEF i, x, p
  <2>6. ToHalf(s, i, x) = IF Fits(WeightsOf(i, x, Single), Half)
                          THEN Encoded(Half, PatternOf(Finite(s, WeightsOf(i, x, Single)), Half))
                          ELSE Encoded(Single, Pack(s, i, x, Single))
    BY ONLY <2>4, ToHalfIs
  <2>7. ToHalf(s, i, x) = IF Fits(W, Half) THEN Encoded(Half, PatternOf(Finite(s, W), Half))
                          ELSE Encoded(Single, PatternOf(Finite(s, W), Single))
    BY ONLY <2>2, <2>5, <2>6 DEF p
  <2>8. ExponentField(p, Single) = i /\ Significand(p, Single) = x
    <3>1. Significand(Pack(s, i, x, Single), Single) = x /\ ExponentField(Pack(s, i, x, Single), Single) = i
      BY ONLY <1>1, <2>2, FormatsAre, Packed
    <3> QED BY ONLY <2>5, <3>1
  <2> QED BY ONLY <1>4, <1>6, <2>7, <2>8 DEF Shortest, W, p
<1> QED BY ONLY <1>5, <1>6

\* An item that is this number.
Keeps(item, x) ==
  /\ item.format \in Formats /\ item.bits \subseteq Width(item.format)
  /\ Meaning(item) = x

LEMMA MadeKeeps ==
  ASSUME NEW f \in Formats, NEW s \in BOOLEAN, NEW e, NEW g, Parts(e, g, f)
  PROVE  Keeps(Encoded(f, Pack(s, e, g, f)), NumberOf(s, e, g, f))
<1> DEFINE w == Pack(s, e, g, f)
<1>1. w \subseteq Width(f) /\ Number(w, f) = NumberOf(s, e, g, f)
  BY Packed, PackedNumber
<1> HIDE DEF w
<1>2. Encoded(f, w).format = f /\ Encoded(f, w).bits = w
  BY DEF Encoded
<1> DEFINE i == Encoded(f, w)
<1> HIDE DEF i
<1>3. i.format \in Formats /\ i.bits \subseteq Width(i.format) /\ Number(i.bits, i.format) = NumberOf(s, e, g, f)
  BY ONLY <1>1, <1>2, f \in Formats DEF i
<1> QED BY ONLY <1>3 DEF Keeps, Meaning, i, w

LEMMA ShortestKeeps ==
  ASSUME NEW s \in BOOLEAN, NEW W, Bounded(W), NEW item, Keeps(item, Finite(s, W))
  PROVE  Keeps(Shortest(s, W, item), Finite(s, W))
<1>1. ASSUME NEW f \in Formats, Fits(W, f)
      PROVE  Keeps(Encoded(f, PatternOf(Finite(s, W), f)), Finite(s, W))
  <2> DEFINE w == PatternOf(Finite(s, W), f)
  <2>1. Number(w, f) = Finite(s, W) /\ w \subseteq Width(f)
    BY <1>1, PatternRight
  <2> HIDE DEF w
  <2>2. Encoded(f, w).format = f /\ Encoded(f, w).bits = w
    BY DEF Encoded
  <2> DEFINE i == Encoded(f, w)
  <2> HIDE DEF i
  <2>3. i.format \in Formats /\ i.bits \subseteq Width(i.format) /\ Number(i.bits, i.format) = Finite(s, W)
    BY ONLY <2>1, <2>2, f \in Formats DEF i
  <2> QED BY ONLY <2>3 DEF Keeps, Meaning, i, w
<1>2. CASE Fits(W, Half)
  BY ONLY <1>1, <1>2, FormatsAre DEF Shortest
<1>3. CASE ~Fits(W, Half) /\ Fits(W, Single)
  BY ONLY <1>1, <1>3, FormatsAre DEF Shortest
<1>4. CASE ~Fits(W, Half) /\ ~Fits(W, Single)
  BY <1>4 DEF Shortest
<1> QED BY ONLY <1>2, <1>3, <1>4

\* A double by its parts.
LEMMA DoubleIs ==
  ASSUME NEW d \in Word
  PROVE  LET s == Sign(d, Double)
             e == ExponentField(d, Double)
             g == Significand(d, Double)
         IN  /\ d \subseteq Nat /\ s \in BOOLEAN /\ Parts(e, g, Double) /\ (63 \in d) = s
             /\ d \subseteq {63} <=> e = 0 /\ g = {}
             /\ Number(d, Double) = NumberOf(s, e, g, Double)
<1> DEFINE s == Sign(d, Double)
           e == ExponentField(d, Double)
           g == Significand(d, Double)
<1>1. d \subseteq 0..63 /\ d \subseteq Nat
  BY DEF Word
<1>2. Parts(e, g, Double) /\ s \in BOOLEAN
  BY ONLY <1>1, FormatsAre, PartsOf
<1>3. (63 \in d) = s
  BY DEF Sign, SignBit, Double
<1>4. Number(d, Double) = NumberOf(s, e, g, Double)
  BY NumberIs
<1>5. e = 0 <=> Field(d, 52, 11) = {}
  <2>1. Double.sig = 52 /\ Double.exp = 11
    BY DEF Double
  <2>2. e = 0 <=> Field(d, Double.sig, Double.exp) = {}
    BY ONLY <1>1, FormatsAre, ExponentFieldIs
  <2> QED BY ONLY <2>1, <2>2
<1>6. g = Field(d, 0, 52)
  BY DEF Significand, Double
<1> HIDE DEF e, g, s
<1>7. \A b : b \in Field(d, 52, 11) <=> b \in 0..10 /\ b + 52 \in d
  <2>1. \A b : b \in Field(d, 52, 11) <=> b \in 0..(11 - 1) /\ b + 52 \in d
    BY ONLY <1>1, FieldHas, 52 \in Nat, 11 \in Nat
  <2> QED BY ONLY <2>1
<1>8. \A b : b \in Field(d, 0, 52) <=> b \in 0..51 /\ b \in d
  <2>1. \A b : b \in Field(d, 0, 52) <=> b \in 0..(52 - 1) /\ b + 0 \in d
    BY ONLY <1>1, FieldHas, 52 \in Nat, 0 \in Nat
  <2> QED BY ONLY <2>1
<1>9. d \subseteq {63} <=> Field(d, 52, 11) = {} /\ Field(d, 0, 52) = {}
  <2>1. ASSUME d \subseteq {63}
        PROVE  Field(d, 52, 11) = {} /\ Field(d, 0, 52) = {}
    <3>1. \A b \in 0..10 : b + 52 # 63
      OBVIOUS
    <3>2. \A b \in 0..51 : b # 63
      OBVIOUS
    <3>3. \A b : b \notin Field(d, 52, 11)
      BY ONLY <1>7, <2>1, <3>1
    <3>4. \A b : b \notin Field(d, 0, 52)
      BY ONLY <1>8, <2>1, <3>2
    <3> QED BY ONLY <3>3, <3>4
  <2>2. ASSUME Field(d, 52, 11) = {}, Field(d, 0, 52) = {}, NEW b \in d
        PROVE  b = 63
    <3>1. b \in 0..63 /\ b \notin 0..51
      BY ONLY <1>1, <1>8, <2>2
    <3>2. CASE b <= 62
      <4>1. b - 52 \in 0..10 /\ (b - 52) + 52 = b
        BY ONLY <3>1, <3>2
      <4>2. b - 52 \in Field(d, 52, 11)
        BY ONLY <1>7, <4>1, b \in d
      <4> QED BY ONLY <2>2, <4>2
    <3> QED BY ONLY <3>1, <3>2
  <2> QED BY ONLY <2>1, <2>2
<1> QED BY ONLY <1>1, <1>2, <1>3, <1>4, <1>5, <1>6, <1>9 DEF e, g, s

\* Zeroes, infinities and NaNs keep what they are.
LEMMA SpecialKeeps ==
  ASSUME NEW d \in Word, IsSpecial(d)
  PROVE  Keeps(Special(d), Number(d, Double)) /\ Special(d).format = Half
<1> DEFINE s == Sign(d, Double)
           e == ExponentField(d, Double)
           g == Significand(d, Double)
<1>1. /\ s \in BOOLEAN /\ (63 \in d) = s
      /\ d \subseteq {63} <=> e = 0 /\ g = {}
      /\ Number(d, Double) = NumberOf(s, e, g, Double)
  BY DoubleIs
<1>2. e = AllOnes(Double) \/ d \subseteq {63}
  BY DEF IsSpecial
<1>3. AllOnes(Double) # 0 /\ AllOnes(Half) = 31 /\ Half.sig = 10
  BY DEF AllOnes, Double, Half
<1>4. Special(d) = IF e = AllOnes(Double) /\ g # {}
                   THEN Encoded(Half, Pack(FALSE, AllOnes(Half), {9}, Half))
                   ELSE Encoded(Half, Pack(63 \in d, IF d \subseteq {63} THEN 0 ELSE AllOnes(Half), {}, Half))
  BY DEF Special, IsNaN
<1> HIDE DEF s, e, g
<1>5. Parts(31, {9}, Half) /\ Parts(31, {}, Half) /\ Parts(0, {}, Half)
  BY ONLY <1>3 DEF Parts
<1>6. CASE e = AllOnes(Double) /\ g # {}
  <2>1. Keeps(Encoded(Half, Pack(FALSE, 31, {9}, Half)), NumberOf(FALSE, 31, {9}, Half))
    BY ONLY <1>5, FormatsAre, MadeKeeps
  <2>2. NumberOf(FALSE, 31, {9}, Half) = NotANumber
    BY ONLY <1>3 DEF NumberOf
  <2>3. NumberOf(s, e, g, Double) = NotANumber
    BY ONLY <1>6 DEF NumberOf
  <2>4. Special(d) = Encoded(Half, Pack(FALSE, 31, {9}, Half))
    BY ONLY <1>3, <1>4, <1>6
  <2>5. Special(d).format = Half
    BY ONLY <2>4 DEF Encoded
  <2>6. Number(d, Double) = NumberOf(FALSE, 31, {9}, Half)
    BY ONLY <1>1, <2>2, <2>3
  <2> QED BY ONLY <2>1, <2>4, <2>5, <2>6
<1>7. CASE e = AllOnes(Double) /\ g = {}
  <2>1. Keeps(Encoded(Half, Pack(s, 31, {}, Half)), NumberOf(s, 31, {}, Half))
    BY ONLY <1>1, <1>5, FormatsAre, MadeKeeps
  <2>2. NumberOf(s, 31, {}, Half) = Infinity(s)
    BY ONLY <1>3 DEF NumberOf
  <2>3. NumberOf(s, e, g, Double) = Infinity(s)
    BY ONLY <1>7 DEF NumberOf
  <2>4. Special(d) = Encoded(Half, Pack(s, 31, {}, Half))
    BY ONLY <1>1, <1>3, <1>4, <1>7
  <2> QED BY ONLY <1>1, <2>1, <2>2, <2>3, <2>4 DEF Encoded
<1>8. CASE e = 0 /\ g = {}
  <2>1. Keeps(Encoded(Half, Pack(s, 0, {}, Half)), NumberOf(s, 0, {}, Half))
    BY ONLY <1>1, <1>5, FormatsAre, MadeKeeps
  <2>2. NumberOf(s, 0, {}, Half) = Finite(s, {})
    BY ONLY <1>3 DEF NumberOf, WeightsOf
  <2>3. NumberOf(s, e, g, Double) = Finite(s, {})
    BY ONLY <1>3, <1>8 DEF NumberOf, WeightsOf
  <2>4. Special(d) = Encoded(Half, Pack(s, 0, {}, Half))
    BY ONLY <1>1, <1>3, <1>4, <1>8
  <2> QED BY ONLY <1>1, <2>1, <2>2, <2>3, <2>4 DEF Encoded
<1> QED BY ONLY <1>1, <1>2, <1>6, <1>7, <1>8

\* Every other number.
LEMMA OrdinaryIs ==
  ASSUME NEW d \in Word, ~IsSpecial(d)
  PROVE  LET s == Sign(d, Double)
             e == ExponentField(d, Double)
             g == Significand(d, Double)
             W == WeightsOf(e, g, Double)
         IN  /\ Given3(s, e, g, Double) /\ s \in BOOLEAN /\ Bounded(W) /\ W # {} /\ W \subseteq Int
             /\ Number(d, Double) = Finite(s, W)
             /\ e # 0 => IsTop(e - Double.bias, W)
<1> DEFINE s == Sign(d, Double)
           e == ExponentField(d, Double)
           g == Significand(d, Double)
           W == WeightsOf(e, g, Double)
<1>1. /\ s \in BOOLEAN /\ Parts(e, g, Double)
      /\ d \subseteq {63} <=> e = 0 /\ g = {}
      /\ Number(d, Double) = NumberOf(s, e, g, Double)
  BY DoubleIs
<1>2. e # AllOnes(Double) /\ ~(d \subseteq {63})
  BY DEF IsSpecial
<1> HIDE DEF s, e, g
<1>3. Given3(s, e, g, Double)
  BY ONLY <1>1, <1>2 DEF Given3
<1>4. Number(d, Double) = Finite(s, W)
  BY ONLY <1>1, <1>2 DEF NumberOf
<1>5. Bounded(W) /\ W # {} /\ W \subseteq Int /\ (e # 0 => IsTop(e - Double.bias, W))
  BY ONLY <1>3, FormatsAre, GivenIs
<1> QED BY ONLY <1>1, <1>3, <1>4, <1>5 DEF s, e, g

LEMMA AddDoubleIs ==
  ASSUME NEW d \in Word, ~IsSpecial(d)
  PROVE  LET W == WeightsOf(ExponentField(d, Double), Significand(d, Double), Double)
             i == Shortest(Sign(d, Double), W, Encoded(Double, d))
         IN  AddDouble(d) = i /\ AddDoubleCast(d) = i
<1> DEFINE s == Sign(d, Double)
           e == ExponentField(d, Double)
           g == Significand(d, Double)
           W == WeightsOf(e, g, Double)
           i == Shortest(s, W, Encoded(Double, d))
<1>1. Given3(s, e, g, Double) /\ Number(d, Double) = Finite(s, W)
  BY OrdinaryIs
<1>2. (63 \in d) = s
  BY DoubleIs
<1> HIDE DEF s, e, g
<1>3. AddDouble(d) = i
  <2> DEFINE n == Narrow(e - (Double.bias - Single.bias), g, Double, Single)
  <2>1. AddDouble(d) = IF n.fits THEN ToHalf(63 \in d, n.exponent, n.significand) ELSE Encoded(Double, d)
    BY DEF AddDouble, e, g
  <2>2. (IF n.fits THEN ToHalf(s, n.exponent, n.significand) ELSE Encoded(Double, d)) = i
    BY ONLY <1>1, IntegersOnly
  <2> QED BY ONLY <1>2, <2>1, <2>2
<1>4. AddDoubleCast(d) = i
  <2> DEFINE x == Finite(s, W)
             p == PatternOf(x, Single)
  <2>1. AddDoubleCast(d) = IF ~Representable(x, Single) THEN Encoded(Double, d)
                           ELSE ToHalf(63 \in d, ExponentField(p, Single), Significand(p, Single))
    BY <1>1 DEF AddDoubleCast
  <2>2. (IF ~Representable(x, Single) THEN Encoded(Double, d)
         ELSE ToHalf(s, ExponentField(p, Single), Significand(p, Single))) = i
    BY ONLY <1>1, FloatCast
  <2> QED BY ONLY <1>2, <2>1, <2>2
<1> QED BY ONLY <1>3, <1>4 DEF s, e, g

-----------------------------------------------------------------------------
(* QCBOR's encoder                                                          *)

\* Which numbers FitsNormal() lets through: those of the format, normal in it.
LEMMA FitsNormalIs ==
  ASSUME NEW from, NEW f, Wider(from, f), NEW w, w \subseteq Nat,
         NEW e, e = ExponentField(w, from), NEW g, g = Significand(w, from), e = 0 => g # {}
  PROVE  /\ FitsNormal(w, from, f) <=> Fits(WeightsOf(e, g, from), f) /\ e - from.bias >= 1 - f.bias
         /\ FitsNormal(w, from, f) => e # 0 /\ e # AllOnes(from)
<1> DEFINE W == WeightsOf(e, g, from)
           t == e - from.bias
           n == e - (from.bias - f.bias)
           r == Narrow(n, g, from, f)
<1>1. /\ from \in Formats /\ f \in Formats
      /\ from.sig \in Nat /\ from.bias \in Nat /\ f.sig \in Nat /\ f.bias \in Nat
      /\ f.sig <= from.sig /\ from.bias > f.bias + f.sig /\ AllOnes(from) = 2 * from.bias + 1
  BY FormatIs DEF Wider
<1>2. Parts(e, g, from)
  BY ONLY <1>1, w \subseteq Nat, e = ExponentField(w, from), g = Significand(w, from), PartsOf
<1>3. r = IF Fits(W, f)
          THEN [fits |-> TRUE, exponent |-> ExponentAt(t, f), significand |-> SignificandAt(t, W, f)]
          ELSE DoesNotFit
  BY ONLY <1>2, Wider(from, f), e = 0 => g # {}, NarrowParts
<1>4. r.fits <=> Fits(W, f)
  BY ONLY <1>3 DEF DoesNotFit
<1>5. e \in Nat /\ g \subseteq 0..(from.sig - 1)
  BY ONLY <1>2 DEF Parts
<1>6. FitsNormal(w, from, f) <=> t \in (1 - f.bias)..f.bias /\ ~\E b \in g : b \in 0..(from.sig - f.sig - 1)
  BY e = ExponentField(w, from), g = Significand(w, from) DEF FitsNormal
<1>7. ~(n < -f.sig) /\ n > 0 /\ n <= 2 * f.bias <=> t \in (1 - f.bias)..f.bias
  BY ONLY <1>1, <1>5
<1>8. \A b \in g : b \in 0..(from.sig - f.sig - 1) <=> b < from.sig - f.sig
  BY ONLY <1>1, <1>5
<1>9. n > 0 => (r.fits <=> ~(n < -f.sig \/ n > 2 * f.bias \/ \E b \in g : b < from.sig - f.sig))
  BY DEF Narrow, DoesNotFit
<1>10. n \in Int /\ (n > 0 <=> t >= 1 - f.bias)
  BY ONLY <1>1, <1>5
<1>11. t \in (1 - f.bias)..f.bias => e # 0 /\ e # 2 * from.bias + 1
  BY ONLY <1>1, <1>5
<1>12. n > 0 => ~(n < -f.sig)
  BY ONLY <1>1, <1>10
<1>13. n <= 2 * f.bias <=> ~(n > 2 * f.bias)
  BY ONLY <1>1, <1>10
<1> HIDE DEF t, n, r, W
<1>14. FitsNormal(w, from, f) <=> r.fits /\ n > 0
  <2>1. (\E b \in g : b \in 0..(from.sig - f.sig - 1)) <=> \E b \in g : b < from.sig - f.sig
    BY ONLY <1>8
  <2> QED BY ONLY <1>6, <1>7, <1>9, <1>12, <1>13, <2>1
<1>15. FitsNormal(w, from, f) => e # 0 /\ e # AllOnes(from)
  BY ONLY <1>1, <1>6, <1>11
<1> QED BY ONLY <1>4, <1>10, <1>14, <1>15 DEF t, W

\* Then IEEE754_DoubleToHalf() and IEEE754_FloatToHalf() make the number's pattern.
LEMMA DownToHalfIs ==
  ASSUME NEW from, Wider(from, Half), NEW w, w \subseteq Nat,
         NEW e, e = ExponentField(w, from), NEW g, g = Significand(w, from),
         FitsNormal(w, from, Half)
  PROVE  LET W == WeightsOf(e, g, from)
         IN  DownToHalf(w, from) = PatternOf(Finite(Sign(w, from), W), Half)
<1> DEFINE W == WeightsOf(e, g, from)
           s == Sign(w, from)
           t == e - from.bias
           B == from.bias
           S == from.sig
<1>1. from \in Formats /\ Parts(e, g, from) /\ B \in Nat /\ S \in Nat /\ S >= 10 /\ B > 15
  <2>1. from \in Formats /\ from.bias > Half.bias + Half.sig /\ Half.sig <= from.sig
    BY DEF Wider
  <2>2. Half.bias = 15 /\ Half.sig = 10
    BY DEF Half
  <2>3. B \in Nat /\ S \in Nat
    BY <2>1, FormatIs
  <2>4. Parts(e, g, from)
    BY <2>1, PartsOf
  <2> QED BY ONLY <2>1, <2>2, <2>3, <2>4
<1>2. e \in Nat /\ g \subseteq 0..(S - 1) /\ e <= AllOnes(from)
  BY <1>1 DEF Parts
<1>3. t \in (-14)..15 /\ \A b \in g : b \notin 0..(S - 11)
  <2>1. Half.bias = 15 /\ Half.sig = 10
    BY DEF Half
  <2>2. t \in (1 - Half.bias)..Half.bias /\ ~\E b \in g : b \in 0..(from.sig - Half.sig - 1)
    BY e = ExponentField(w, from), g = Significand(w, from) DEF FitsNormal
  <2>3. S - 11 = from.sig - Half.sig - 1
    BY ONLY <1>1, <2>1
  <2> QED BY ONLY <2>1, <2>2, <2>3
<1>4. e # 0 /\ t # B + 1 /\ ~(t > 15) /\ ~(t < 1 - 15) /\ t \in Int
  BY ONLY <1>1, <1>2, <1>3
<1>5. DownToHalf(w, from) = Pack(s, t + 15, ShiftRight(g, S - 10), Half)
  <2>1. Half.bias = 15 /\ Half.sig = 10
    BY DEF Half
  <2>2. t = ExponentField(w, from) - from.bias /\ g = Significand(w, from)
    BY e = ExponentField(w, from), g = Significand(w, from)
  <2>3. t \in (1 - 15)..15
    BY ONLY <1>3
  <2> QED BY ONLY <1>4, <2>1, <2>2, <2>3 DEF DownToHalf, s, S, B
<1>6. IsTop(t, W) /\ W \subseteq Int /\ W # {}
  <2>1. Bounded(W) /\ W \subseteq Int /\ IsTop(e - from.bias, W)
    BY ONLY <1>1, <1>4, NormalWeights
  <2> QED BY ONLY <2>1 DEF Bounded
<1>7. PatternOf(Finite(s, W), Half) = Pack(s, ExponentAt(t, Half), SignificandAt(t, W, Half), Half)
  BY ONLY <1>6, PatternIs
<1>8. ExponentAt(t, Half) = t + 15 /\ SignificandAt(t, W, Half) = {b - (t - 10) : b \in W \ {t}}
  BY <1>4 DEF ExponentAt, SignificandAt, Half
<1>9. W = {b + e - B - S : b \in g \cup {S}}
  BY <1>4 DEF WeightsOf
<1>10. t = e - B
  OBVIOUS
<1> HIDE DEF W, t, B, S
<1>11. \A c : c \in W \ {t} <=> \E b \in g : c = b + e - B - S
  <2>1. S + e - B - S = t /\ \A b \in g : b + e - B - S # t
    BY ONLY <1>1, <1>2, <1>10
  <2> QED BY ONLY <1>9, <2>1
<1>12. \A b \in g : (b + e - B - S) - (t - 10) = b - (S - 10) /\ b >= S - 10
  BY ONLY <1>1, <1>2, <1>3, <1>10
<1>13. \A x : x \in SignificandAt(t, W, Half) <=> \E b \in g : x = b - (S - 10)
  BY ONLY <1>8, <1>11, <1>12
<1>14. \A x : x \in ShiftRight(g, S - 10) <=> \E b \in g : x = b - (S - 10)
  BY ONLY <1>12 DEF ShiftRight
<1>15. SignificandAt(t, W, Half) = ShiftRight(g, S - 10)
  BY ONLY <1>8, <1>13, <1>14 DEF ShiftRight
<1> QED BY ONLY <1>5, <1>7, <1>8, <1>15 DEF W

\* And zeroes, infinities and NaNs stay what they are.
LEMMA DownToHalfSpecial ==
  ASSUME NEW from, Wider(from, Half), NEW w, w \subseteq Nat,
         \/ ExponentField(w, from) = AllOnes(from)
         \/ ExponentField(w, from) = 0 /\ Significand(w, from) = {}
  PROVE  Keeps(Encoded(Half, DownToHalf(w, from)), Number(w, from))
<1> DEFINE e == ExponentField(w, from)
           g == Significand(w, from)
           s == Sign(w, from)
           m == NaNToHalf(g, from)
           B == from.bias
<1>1. from \in Formats /\ B \in Nat /\ B > 15 /\ AllOnes(from) = 2 * B + 1
  <2>1. from \in Formats /\ from.bias > Half.bias + Half.sig
    BY DEF Wider
  <2>2. Half.bias = 15 /\ Half.sig = 10
    BY DEF Half
  <2>3. B \in Nat /\ AllOnes(from) = 2 * B + 1
    BY <2>1, FormatIs
  <2> QED BY ONLY <2>1, <2>2, <2>3
<1>2. s \in BOOLEAN /\ Number(w, from) = NumberOf(s, e, g, from)
  BY <1>1, PartsOf, NumberIs
<1>3. AllOnes(Half) = 31 /\ Half.sig = 10 /\ Half.bias = 15
  BY DEF AllOnes, Half
<1>4. m \subseteq 0..9 /\ m # {}
  <2>1. 0..8 \subseteq 0..9 /\ 9 \in 0..9 /\ 0 \in 0..9
    OBVIOUS
  <2>2. m = IF from.sig - 1 \in g THEN (g \cap (0..8)) \cup {9}
            ELSE IF g \cap (0..8) = {} THEN {0} ELSE g \cap (0..8)
    BY DEF NaNToHalf
  <2> HIDE DEF m
  <2> QED BY ONLY <2>1, <2>2
<1>5. Parts(31, m, Half) /\ Parts(31, {}, Half) /\ Parts(0, {}, Half)
  <2>1. m \subseteq 0..(10 - 1)
    BY ONLY <1>4
  <2> QED BY ONLY <1>3, <2>1 DEF Parts
<1>6. e = AllOnes(from) => DownToHalf(w, from) = Pack(s, 31, IF g = {} THEN {} ELSE m, Half)
  BY ONLY <1>1, <1>3 DEF DownToHalf, e, g, s, m, B
<1>7. e = 0 => DownToHalf(w, from) = Pack(s, 0, {}, Half)
  <2>1. 0 - B # B + 1 /\ ~(0 - B > 15) /\ 0 - B < 1 - 15 /\ 0 - B \notin (1 - 15)..15
    BY ONLY <1>1
  <2> QED BY ONLY <1>3, <2>1 DEF DownToHalf, e, g, s, B
<1> HIDE DEF s, e, g, m
<1>8. CASE e = AllOnes(from) /\ g # {}
  <2>1. Keeps(Encoded(Half, Pack(s, 31, m, Half)), NumberOf(s, 31, m, Half))
    BY ONLY <1>2, <1>5, FormatsAre, MadeKeeps
  <2>2. NumberOf(s, 31, m, Half) = NotANumber
    BY ONLY <1>3, <1>4 DEF NumberOf
  <2>3. NumberOf(s, e, g, from) = NotANumber
    BY ONLY <1>8 DEF NumberOf
  <2>4. DownToHalf(w, from) = Pack(s, 31, m, Half)
    BY ONLY <1>6, <1>8
  <2> QED BY ONLY <1>2, <2>1, <2>2, <2>3, <2>4
<1>9. CASE e = AllOnes(from) /\ g = {}
  <2>1. Keeps(Encoded(Half, Pack(s, 31, {}, Half)), NumberOf(s, 31, {}, Half))
    BY ONLY <1>2, <1>5, FormatsAre, MadeKeeps
  <2>2. NumberOf(s, 31, {}, Half) = Infinity(s)
    BY ONLY <1>3 DEF NumberOf
  <2>3. NumberOf(s, e, g, from) = Infinity(s)
    BY ONLY <1>9 DEF NumberOf
  <2>4. DownToHalf(w, from) = Pack(s, 31, {}, Half)
    BY ONLY <1>6, <1>9
  <2> QED BY ONLY <1>2, <2>1, <2>2, <2>3, <2>4
<1>10. CASE e = 0 /\ g = {}
  <2>1. Keeps(Encoded(Half, Pack(s, 0, {}, Half)), NumberOf(s, 0, {}, Half))
    BY ONLY <1>2, <1>5, FormatsAre, MadeKeeps
  <2>2. NumberOf(s, 0, {}, Half) = Finite(s, {})
    BY ONLY <1>3 DEF NumberOf, WeightsOf
  <2>3. 0 # AllOnes(from)
    BY ONLY <1>1
  <2>4. NumberOf(s, e, g, from) = Finite(s, {})
    BY ONLY <1>10, <2>3 DEF NumberOf, WeightsOf
  <2>5. DownToHalf(w, from) = Pack(s, 0, {}, Half)
    BY ONLY <1>7, <1>10
  <2> QED BY ONLY <1>2, <2>1, <2>2, <2>4, <2>5
<1> QED BY <1>8, <1>9, <1>10 DEF e, g

\* What either of QCBOR's encoders of a number writes in a shorter format.
LEMMA ShorterKeeps ==
  ASSUME NEW from, NEW f, Wider(from, f), NEW s \in BOOLEAN, NEW e, NEW g, Given3(s, e, g, from),
         Fits(WeightsOf(e, g, from), f)
  PROVE  Keeps(Encoded(f, PatternOf(Finite(s, WeightsOf(e, g, from)), f)),
               Finite(s, WeightsOf(e, g, from)))
<1> DEFINE W == WeightsOf(e, g, from)
           w == PatternOf(Finite(s, W), f)
           i == Encoded(f, w)
<1>1. from \in Formats /\ f \in Formats
  BY DEF Wider
<1>2. Bounded(W)
  BY ONLY <1>1, Given3(s, e, g, from), GivenIs
<1>3. Number(w, f) = Finite(s, W) /\ w \subseteq Width(f)
  BY ONLY <1>1, <1>2, s \in BOOLEAN, Fits(WeightsOf(e, g, from), f), PatternRight
<1> HIDE DEF w, W
<1>4. i.format = f /\ i.bits = w
  BY DEF Encoded
<1> HIDE DEF i
<1>5. i.format \in Formats /\ i.bits \subseteq Width(i.format) /\ Number(i.bits, i.format) = Finite(s, W)
  BY ONLY <1>1, <1>3, <1>4
<1> QED BY ONLY <1>5 DEF Keeps, Meaning, i, w, W

LEMMA WordKeeps ==
  ASSUME NEW d \in Word
  PROVE  Keeps(Encoded(Double, d), Number(d, Double))
<1>1. d \subseteq Width(Double)
  BY DEF Word, Width, Double
<1>2. Encoded(Double, d).format = Double /\ Encoded(Double, d).bits = d
  BY DEF Encoded
<1> QED BY <1>1, <1>2, FormatsAre DEF Keeps, Meaning

\* IEEE754_DoubleToSmallest() changes no number, and its format is 16 bits if the
\* number is special or normal in it, otherwise 32 bits if it is normal there.
LEMMA DoubleToSmallestIs ==
  ASSUME NEW d \in Word
  PROVE  LET W == WeightsOf(ExponentField(d, Double), Significand(d, Double), Double)
             t == ExponentField(d, Double) - Double.bias
             f == DoubleToSmallest(d).format
         IN  /\ Keeps(DoubleToSmallest(d), Number(d, Double))
             /\ IsSpecial(d) => f = Half
             /\ ~IsSpecial(d) => f = IF Fits(W, Half) /\ t >= -14 THEN Half
                                     ELSE IF Fits(W, Single) /\ t >= -126 THEN Single ELSE Double
<1> DEFINE s == Sign(d, Double)
           e == ExponentField(d, Double)
           g == Significand(d, Double)
           W == WeightsOf(e, g, Double)
           t == e - Double.bias
           f == DoubleToSmallest(d).format
<1>1. /\ d \subseteq Nat /\ s \in BOOLEAN
      /\ d \subseteq {63} <=> e = 0 /\ g = {}
  BY DoubleIs
<1>2. CASE IsSpecial(d)
  <2>1. DoubleToSmallest(d) = Encoded(Half, DownToHalf(d, Double))
    BY <1>2 DEF DoubleToSmallest, IsSpecial
  <2>2. e = AllOnes(Double) \/ (e = 0 /\ g = {})
    <3>1. e = AllOnes(Double) \/ d \subseteq {63}
      BY <1>2 DEF IsSpecial
    <3> HIDE DEF e, g
    <3> QED BY ONLY <1>1, <3>1
  <2>3. Keeps(Encoded(Half, DownToHalf(d, Double)), Number(d, Double))
    BY ONLY <1>1, <2>2, WiderAre, DownToHalfSpecial
  <2>4. Encoded(Half, DownToHalf(d, Double)).format = Half
    BY DEF Encoded
  <2> QED BY <1>2, <2>1, <2>3, <2>4
<1>3. CASE ~IsSpecial(d)
  <2>1. Given3(s, e, g, Double) /\ Number(d, Double) = Finite(s, W)
    BY <1>3, OrdinaryIs
  <2>2. e = 0 => g # {}
    BY ONLY <2>1 DEF Given3
  <2>3. FitsNormal(d, Double, Half) <=> Fits(W, Half) /\ t >= 1 - Half.bias
    BY ONLY <1>1, <2>2, WiderAre, FitsNormalIs
  <2>4. FitsNormal(d, Double, Single) <=> Fits(W, Single) /\ t >= 1 - Single.bias
    BY ONLY <1>1, <2>2, WiderAre, FitsNormalIs
  <2>5. 1 - Half.bias = -14 /\ 1 - Single.bias = -126
    BY DEF Half, Single
  <2>6. DoubleToSmallest(d) = IF FitsNormal(d, Double, Half) THEN Encoded(Half, DownToHalf(d, Double))
                              ELSE IF FitsNormal(d, Double, Single)
                              THEN Encoded(Single, PatternOf(Finite(s, W), Single))
                              ELSE Encoded(Double, d)
    BY <1>3, <2>1 DEF DoubleToSmallest, IsSpecial
  <2>7. FitsNormal(d, Double, Half) => DownToHalf(d, Double) = PatternOf(Finite(s, W), Half)
    BY ONLY <1>1, WiderAre, DownToHalfIs
  <2>8. \A h, b : Encoded(h, b).format = h
    BY DEF Encoded
  <2> HIDE DEF W, t
  <2>9. f = IF Fits(W, Half) /\ t >= -14 THEN Half
            ELSE IF Fits(W, Single) /\ t >= -126 THEN Single ELSE Double
    BY ONLY <2>3, <2>4, <2>5, <2>6, <2>8
  <2>10. Keeps(DoubleToSmallest(d), Finite(s, W))
    <3>1. CASE FitsNormal(d, Double, Half)
      <4>1. Keeps(Encoded(Half, PatternOf(Finite(s, W), Half)), Finite(s, W))
        BY ONLY <1>1, <2>1, <2>3, <3>1, WiderAre, ShorterKeeps DEF W
      <4> QED BY ONLY <2>6, <2>7, <3>1, <4>1
    <3>2. CASE ~FitsNormal(d, Double, Half) /\ FitsNormal(d, Double, Single)
      <4>1. Keeps(Encoded(Single, PatternOf(Finite(s, W), Single)), Finite(s, W))
        BY ONLY <1>1, <2>1, <2>4, <3>2, WiderAre, ShorterKeeps DEF W
      <4> QED BY ONLY <2>6, <3>2, <4>1
    <3>3. CASE ~FitsNormal(d, Double, Half) /\ ~FitsNormal(d, Double, Single)
      <4>1. Keeps(Encoded(Double, d), Finite(s, W))
        BY ONLY <2>1, d \in Word, WordKeeps
      <4> QED BY ONLY <2>6, <3>3, <4>1
    <3> QED BY ONLY <3>1, <3>2, <3>3
  <2> QED BY ONLY <1>3, <2>1, <2>9, <2>10 DEF W, t
<1> QED BY ONLY <1>2, <1>3

\* IEEE754_FloatToSmallest() changes no number.
LEMMA FloatToSmallestIs ==
  ASSUME NEW d, d \subseteq 0..31
  PROVE  Keeps(FloatToSmallest(d), Number(d, Single))
<1> DEFINE s == Sign(d, Single)
           e == ExponentField(d, Single)
           g == Significand(d, Single)
           W == WeightsOf(e, g, Single)
<1>1. d \subseteq Nat /\ s \in BOOLEAN /\ Parts(e, g, Single)
  <2>1. d \subseteq Nat
    OBVIOUS
  <2> QED BY ONLY <2>1, FormatsAre, PartsOf
<1>2. Number(d, Single) = NumberOf(s, e, g, Single)
  BY NumberIs
<1>3. AllOnes(Single) # 0
  BY DEF AllOnes, Single
<1>4. CASE d = {} \/ e = AllOnes(Single)
  <2>1. FloatToSmallest(d) = Encoded(Half, DownToHalf(d, Single))
    BY <1>4 DEF FloatToSmallest
  <2>2. e = AllOnes(Single) \/ (e = 0 /\ g = {})
    <3>1. CASE d = {}
      <4>1. Field(d, Single.sig, Single.exp) = {} /\ Field(d, 0, Single.sig) = {}
        BY <3>1 DEF Field, ShiftRight
      <4>2. e = 0
        BY ONLY <1>1, <4>1, FormatsAre, ExponentFieldIs
      <4>3. g = {}
        BY <4>1 DEF Significand
      <4> QED BY ONLY <4>2, <4>3
    <3> HIDE DEF e, g
    <3> QED BY ONLY <1>4, <3>1
  <2>3. Keeps(Encoded(Half, DownToHalf(d, Single)), Number(d, Single))
    BY ONLY <1>1, <2>2, WiderAre, DownToHalfSpecial
  <2> QED BY ONLY <2>1, <2>3
<1>5. CASE d # {} /\ e # AllOnes(Single) /\ FitsNormal(d, Single, Half)
  <2>1. FloatToSmallest(d) = Encoded(Half, DownToHalf(d, Single))
    BY <1>5 DEF FloatToSmallest
  <2>2. CASE e = 0 /\ g = {}
    <3>1. Keeps(Encoded(Half, DownToHalf(d, Single)), Number(d, Single))
      BY ONLY <1>1, <2>2, WiderAre, DownToHalfSpecial
    <3> QED BY ONLY <2>1, <3>1
  <2>3. CASE e = 0 => g # {}
    <3>1. Fits(W, Half)
      BY ONLY <1>1, <1>5, <2>3, WiderAre, FitsNormalIs
    <3>2. Given3(s, e, g, Single)
      BY ONLY <1>1, <1>5, <2>3 DEF Given3
    <3>3. DownToHalf(d, Single) = PatternOf(Finite(s, W), Half)
      BY ONLY <1>1, <1>5, WiderAre, DownToHalfIs
    <3>4. Keeps(Encoded(Half, PatternOf(Finite(s, W), Half)), Finite(s, W))
      BY ONLY <1>1, <3>1, <3>2, WiderAre, ShorterKeeps
    <3>5. NumberOf(s, e, g, Single) = Finite(s, W)
      BY ONLY <1>5 DEF NumberOf
    <3> QED BY ONLY <1>2, <2>1, <3>3, <3>4, <3>5
  <2> QED BY ONLY <2>2, <2>3
<1>6. CASE ~(d = {} \/ e = AllOnes(Single) \/ FitsNormal(d, Single, Half))
  <2>1. FloatToSmallest(d) = Encoded(Single, d)
    BY <1>6 DEF FloatToSmallest
  <2>2. d \subseteq Width(Single)
    BY DEF Width, Single
  <2>3. Encoded(Single, d).format = Single /\ Encoded(Single, d).bits = d
    BY DEF Encoded
  <2> QED BY <2>1, <2>2, <2>3, FormatsAre DEF Keeps, Meaning
<1> QED BY ONLY <1>4, <1>5, <1>6

-----------------------------------------------------------------------------
(* What a double becomes                                                    *)

\* addDouble() changes no number, either build, and finds the shortest format.
LEMMA AddDoubleKeeps ==
  ASSUME NEW d \in Word
  PROVE  /\ Keeps(AddDouble(d), Number(d, Double))
         /\ AddDoubleCast(d) = AddDouble(d)
<1>1. CASE IsSpecial(d)
  <2>1. AddDouble(d) = Special(d) /\ AddDoubleCast(d) = Special(d)
    BY <1>1 DEF AddDouble, AddDoubleCast
  <2> QED BY <1>1, <2>1, SpecialKeeps
<1>2. CASE ~IsSpecial(d)
  <2> DEFINE s == Sign(d, Double)
             W == WeightsOf(ExponentField(d, Double), Significand(d, Double), Double)
  <2>1. s \in BOOLEAN /\ Bounded(W) /\ Number(d, Double) = Finite(s, W)
    BY <1>2, OrdinaryIs
  <2>2. /\ AddDouble(d) = Shortest(s, W, Encoded(Double, d))
        /\ AddDoubleCast(d) = Shortest(s, W, Encoded(Double, d))
    BY <1>2, AddDoubleIs
  <2> HIDE DEF s, W
  <2>3. Keeps(Encoded(Double, d), Finite(s, W))
    BY ONLY <2>1, d \in Word, WordKeeps
  <2>4. Keeps(Shortest(s, W, Encoded(Double, d)), Finite(s, W))
    BY ONLY <2>1, <2>3, ShortestKeeps
  <2> QED BY ONLY <2>1, <2>2, <2>4
<1> QED BY ONLY <1>1, <1>2

LEMMA AddDoubleShortest ==
  ASSUME NEW d \in Word
  PROVE  \A f \in {Half, Single} :
           f.size < AddDouble(d).format.size => ~Representable(Number(d, Double), f)
<1>1. Half.size = 2 /\ Single.size = 4 /\ Double.size = 8
  BY DEF Half, Single, Double
<1>2. CASE IsSpecial(d)
  <2>1. AddDouble(d) = Special(d)
    BY <1>2 DEF AddDouble
  <2>2. AddDouble(d).format = Half
    BY <1>2, <2>1, SpecialKeeps
  <2> QED BY ONLY <1>1, <2>2
<1>3. CASE ~IsSpecial(d)
  <2> DEFINE s == Sign(d, Double)
             W == WeightsOf(ExponentField(d, Double), Significand(d, Double), Double)
  <2>1. Bounded(W) /\ Number(d, Double) = Finite(s, W)
    BY <1>3, OrdinaryIs
  <2>2. AddDouble(d) = Shortest(s, W, Encoded(Double, d))
    BY <1>3, AddDoubleIs
  <2>3. AddDouble(d).format = IF Fits(W, Half) THEN Half ELSE IF Fits(W, Single) THEN Single ELSE Double
    BY <2>2 DEF Shortest, Encoded
  <2> HIDE DEF s, W
  <2>4. \A f \in {Half, Single} : Representable(Finite(s, W), f) <=> Fits(W, f)
    BY ONLY <2>1, FormatsAre, RepresentableIs
  <2>5. CASE Fits(W, Half)
    <3>1. AddDouble(d).format.size = 2
      BY ONLY <1>1, <2>3, <2>5
    <3> QED BY ONLY <1>1, <3>1
  <2>6. CASE ~Fits(W, Half) /\ Fits(W, Single)
    <3>1. AddDouble(d).format.size = 4
      BY ONLY <1>1, <2>3, <2>6
    <3> QED BY ONLY <1>1, <2>1, <2>4, <2>6, <3>1
  <2>7. CASE ~Fits(W, Half) /\ ~Fits(W, Single)
    BY ONLY <2>1, <2>4, <2>7
  <2> QED BY ONLY <2>5, <2>6, <2>7
<1> QED BY ONLY <1>2, <1>3

\* It is never longer than QCBOR's, and shorter only for what is subnormal.
LEMMA AddDoubleNotLonger ==
  ASSUME NEW d \in Word
  PROVE  LET i == AddDouble(d)
             q == DoubleToSmallest(d)
         IN  /\ i.format.size <= q.format.size
             /\ i.format # q.format => ExponentField(i.bits, i.format) = 0
<1>1. Half.size = 2 /\ Single.size = 4 /\ Double.size = 8
  BY DEF Half, Single, Double
<1>2. CASE IsSpecial(d)
  <2>1. AddDouble(d) = Special(d)
    BY <1>2 DEF AddDouble
  <2>2. AddDouble(d).format = Half /\ DoubleToSmallest(d).format = Half
    BY <1>2, <2>1, SpecialKeeps, DoubleToSmallestIs
  <2> QED BY ONLY <1>1, <2>2
<1>3. CASE ~IsSpecial(d)
  <2> DEFINE s == Sign(d, Double)
             e == ExponentField(d, Double)
             W == WeightsOf(e, Significand(d, Double), Double)
             t == e - Double.bias
             i == AddDouble(d)
             h == DoubleToSmallest(d).format
  <2>1. s \in BOOLEAN /\ W # {} /\ W \subseteq Int /\ (e # 0 => IsTop(t, W))
    BY <1>3, OrdinaryIs
  <2>2. i = Shortest(s, W, Encoded(Double, d))
    BY <1>3, AddDoubleIs
  <2>3. h = IF Fits(W, Half) /\ t >= -14 THEN Half
            ELSE IF Fits(W, Single) /\ t >= -126 THEN Single ELSE Double
    BY <1>3, DoubleToSmallestIs
  <2>4. e = 0 => ~Fits(W, Half) /\ ~Fits(W, Single)
    <3>1. Given3(s, e, Significand(d, Double), Double)
      BY <1>3, OrdinaryIs
    <3>2. Parts(e, Significand(d, Double), Double) /\ (e = 0 => Significand(d, Double) # {})
      BY ONLY <3>1 DEF Given3
    <3> QED BY ONLY <3>2, WiderAre, UnfitSmall
  <2>5. e \in Nat /\ Double.bias \in Nat
    BY DoubleIs, FormatsAre, FormatIs DEF Parts
  <2>6. t \in Int
    BY ONLY <2>5
  <2> HIDE DEF s, e, W, t, i, h
  <2>7. ASSUME NEW f \in {Half, Single}, Fits(W, f), t < 1 - f.bias
        PROVE  ExponentField(PatternOf(Finite(s, W), f), f) = 0
    <3>1. IsTop(t, W)
      BY ONLY <2>1, <2>4, <2>7
    <3>2. f \in Formats
      BY ONLY FormatsAre, <2>7
    <3>3. PatternOf(Finite(s, W), f) = Pack(s, ExponentAt(t, f), SignificandAt(t, W, f), f)
      <4>1. W # {} /\ W \subseteq Int
        BY ONLY <2>1
      <4>2. ASSUME NEW x
            PROVE  PatternOf(Finite(s, W), x) = Pack(s, ExponentAt(t, x), SignificandAt(t, W, x), x)
        BY ONLY <3>1, <4>1, PatternIs
      <4> QED BY ONLY <4>2
    <3>4. Parts(ExponentAt(t, f), SignificandAt(t, W, f), f)
      BY ONLY <2>1, <2>7, <3>1, <3>2, PartsAt
    <3>5. ExponentField(Pack(s, ExponentAt(t, f), SignificandAt(t, W, f), f), f) = ExponentAt(t, f)
      BY ONLY <2>1, <3>2, <3>4, Packed
    <3>6. ExponentAt(t, f) = 0
      BY ONLY <2>7 DEF ExponentAt
    <3> QED BY ONLY <3>3, <3>5, <3>6
  <2>8. 1 - Half.bias = -14 /\ 1 - Single.bias = -126
    BY DEF Half, Single
  <2>9. \A x, b : Encoded(x, b).format = x /\ Encoded(x, b).bits = b
    BY DEF Encoded
  <2>10. CASE Fits(W, Half)
    <3>1. i.format = Half /\ i.bits = PatternOf(Finite(s, W), Half)
      BY ONLY <2>2, <2>9, <2>10 DEF Shortest
    <3>2. CASE t >= -14
      BY ONLY <1>1, <2>3, <2>10, <3>1, <3>2 DEF h, i
    <3>3. CASE ~(t >= -14)
      <4>1. t < 1 - Half.bias
        BY ONLY <2>6, <2>8, <3>3
      <4>2. ExponentField(i.bits, i.format) = 0
        BY ONLY <2>7, <2>10, <3>1, <4>1
      <4>3. h.size = 2 \/ h.size = 4 \/ h.size = 8
        BY ONLY <1>1, <2>3
      <4> QED BY ONLY <1>1, <3>1, <4>2, <4>3 DEF h, i
    <3> QED BY ONLY <3>2, <3>3 DEF h, i
  <2>11. CASE ~Fits(W, Half) /\ Fits(W, Single)
    <3>1. i.format = Single /\ i.bits = PatternOf(Finite(s, W), Single)
      BY ONLY <2>2, <2>9, <2>11 DEF Shortest
    <3>2. CASE t >= -126
      BY ONLY <1>1, <2>3, <2>11, <3>1, <3>2 DEF h, i
    <3>3. CASE ~(t >= -126)
      <4>1. t < 1 - Single.bias
        BY ONLY <2>6, <2>8, <3>3
      <4>2. ExponentField(i.bits, i.format) = 0
        BY ONLY <2>7, <2>11, <3>1, <4>1
      <4>3. h.size = 4 \/ h.size = 8
        BY ONLY <1>1, <2>3, <2>11
      <4> QED BY ONLY <1>1, <3>1, <4>2, <4>3 DEF h, i
    <3> QED BY ONLY <3>2, <3>3 DEF h, i
  <2>12. CASE ~Fits(W, Half) /\ ~Fits(W, Single)
    <3>1. i.format = Double
      BY ONLY <2>2, <2>9, <2>12 DEF Shortest
    <3>2. h = Double
      BY ONLY <2>3, <2>12
    <3> QED BY ONLY <1>1, <3>1, <3>2 DEF h, i
  <2> QED BY ONLY <2>10, <2>11, <2>12 DEF h, i
<1> QED BY ONLY <1>2, <1>3

-----------------------------------------------------------------------------
(* The decoder                                                              *)

LEMMA LeftHas ==
  ASSUME NEW w, NEW n \in Nat, \A b \in w : b \in Int /\ b + n <= 63
  PROVE  \A x : x \in ShiftLeft(w, n) <=> \E b \in w : x = b + n
BY DEF ShiftLeft

\* IEEE754_HalfToDouble(), case by case.
HalfCases(h, s, e, g, n) ==
  /\ e = 0 /\ g = {} => HalfToDouble(h) = Pack(s, 0, {}, Double)
  /\ e = 0 /\ g # {} => HalfToDouble(h) = Pack(s, 1009 - n, ShiftLeft(ShiftLeft(g, n) \ {10}, 42), Double)
  /\ e = 31 => HalfToDouble(h) = Pack(s, 2047, (g \ {9}) \cup (IF 9 \in g THEN {51} ELSE {}), Double)
  /\ e \in 1..30 => HalfToDouble(h) = Pack(s, e + 1008, ShiftLeft(g, 42), Double)

LEMMA HalfToDoubleParts ==
  ASSUME NEW h, h \subseteq Nat
  PROVE  HalfCases(h, Sign(h, Half), ExponentField(h, Half), Significand(h, Half), 10 - Max(Significand(h, Half)))
<1> DEFINE s == Sign(h, Half)
           e == ExponentField(h, Half)
           g == Significand(h, Half)
           n == 10 - Max(g)
<1>1. Half.sig = 10 /\ Half.bias = 15 /\ Double.sig = 52 /\ Double.bias = 1023
  BY DEF Half, Double
<1>2. AllOnes(Half) = 31 /\ AllOnes(Double) = 2047
  BY DEF AllOnes, Half, Double
<1>3. HalfToDouble(h) =
        CASE e = 0 /\ g = {} -> Pack(s, 0, {}, Double)
          [] e = 0 /\ g # {} -> Pack(s, 1 - 15 + 1023 - n, ShiftLeft(ShiftLeft(g, n) \ {10}, 52 - 10), Double)
          [] e = 31 -> Pack(s, 2047, (g \ {9}) \cup (IF 9 \in g THEN {51} ELSE {}), Double)
          [] e \in 1..(2 * 15) -> Pack(s, e - 15 + 1023, ShiftLeft(g, 52 - 10), Double)
  BY ONLY <1>1, <1>2 DEF HalfToDouble, s, e, g, n
<1>4. g \subseteq 0..9 /\ e \in Nat
  <2>1. Parts(e, g, Half)
    BY FormatsAre, PartsOf
  <2>2. 10 - 1 = 9
    OBVIOUS
  <2> QED BY ONLY <1>1, <2>1, <2>2 DEF Parts
<1>5. g # {} => n \in Int
  <2>1. ASSUME g # {}
        PROVE  Max(g) \in Int
    <3>1. Bounded(g)
      BY <1>4, <2>1 DEF Bounded
    <3>2. Max(g) \in g
      BY <3>1, TopIs DEF IsTop
    <3> QED BY ONLY <1>4, <3>2
  <2> QED BY <2>1
<1> SUFFICES HalfCases(h, s, e, g, n)
  OBVIOUS
<1> HIDE DEF s, e, g, n
<1>6. 52 - 10 = 42 /\ 2 * 15 = 30 /\ e - 15 + 1023 = e + 1008 /\ (g # {} => 1 - 15 + 1023 - n = 1009 - n)
  BY ONLY <1>4, <1>5
<1>7. CASE e = 0 /\ g = {}
  <2>1. HalfToDouble(h) = Pack(s, 0, {}, Double)
    BY ONLY <1>3, <1>7
  <2> QED BY ONLY <1>7, <2>1 DEF HalfCases
<1>8. CASE e = 0 /\ g # {}
  <2>1. HalfToDouble(h) = Pack(s, 1009 - n, ShiftLeft(ShiftLeft(g, n) \ {10}, 42), Double)
    BY ONLY <1>3, <1>6, <1>8
  <2> QED BY ONLY <1>8, <2>1 DEF HalfCases
<1>9. CASE e = 31
  <2>1. HalfToDouble(h) = Pack(s, 2047, (g \ {9}) \cup (IF 9 \in g THEN {51} ELSE {}), Double)
    BY ONLY <1>3, <1>9
  <2> QED BY ONLY <1>9, <2>1 DEF HalfCases
<1>10. CASE e \in 1..30
  <2>1. HalfToDouble(h) = Pack(s, e + 1008, ShiftLeft(g, 42), Double)
    BY ONLY <1>3, <1>6, <1>10
  <2> QED BY ONLY <1>10, <2>1 DEF HalfCases
<1>11. CASE ~(e = 0 \/ e = 31 \/ e \in 1..30)
  BY ONLY <1>11 DEF HalfCases
<1> QED BY ONLY <1>7, <1>8, <1>9, <1>10, <1>11

\* A normal number of 16 bits as a double, and a subnormal one.
IsNormal(e, g, i) == e \in 1..30 /\ g \subseteq 0..9 /\ i = e + 1008
IsSubnormal(g, m, n, i) == g \subseteq 0..9 /\ IsTop(m, g) /\ n = 10 - m /\ i = 1009 - n

LEMMA WidenNormal ==
  ASSUME NEW e, NEW g, NEW i, IsNormal(e, g, i)
  PROVE  LET x == ShiftLeft(g, 42)
         IN  Parts(i, x, Double) /\ WeightsOf(i, x, Double) = WeightsOf(e, g, Half)
<1> DEFINE x == ShiftLeft(g, 42)
<1>1. Half.sig = 10 /\ Half.bias = 15 /\ Double.sig = 52 /\ Double.bias = 1023 /\ AllOnes(Double) = 2047
  BY DEF Half, Double, AllOnes
<1>0. e \in 1..30 /\ g \subseteq 0..9 /\ i = e + 1008
  BY DEF IsNormal
<1>2. \A b \in g : b \in Int /\ b + 42 <= 63 /\ b + 42 \in 0..51
  BY ONLY <1>0
<1>3. \A y : y \in x <=> \E b \in g : y = b + 42
  BY ONLY <1>2, LeftHas, 42 \in Nat
<1>4. i \in Nat /\ i <= 2047 /\ i # 0 /\ i = e + 1008 /\ e # 0
  BY ONLY <1>0
<1> HIDE DEF x
<1>5. Parts(i, x, Double)
  <2>1. x \subseteq 0..51
    BY ONLY <1>2, <1>3
  <2>2. 0..51 = 0..(52 - 1)
    OBVIOUS
  <2> QED BY ONLY <1>1, <1>4, <2>1, <2>2 DEF Parts
<1>6. WeightsOf(i, x, Double) = {b + i - 1023 - 52 : b \in x \cup {52}}
  BY ONLY <1>1, <1>4 DEF WeightsOf
<1>7. WeightsOf(e, g, Half) = {b + e - 15 - 10 : b \in g \cup {10}}
  BY ONLY <1>1, <1>4 DEF WeightsOf
<1>8. \A b \in g \cup {10} : (b + 42) + i - 1023 - 52 = b + e - 15 - 10
  BY ONLY <1>2, <1>0, <1>4
<1>9. \A y : y \in x \cup {52} <=> \E b \in g \cup {10} : y = b + 42
  <2>1. 10 + 42 = 52
    OBVIOUS
  <2> QED BY ONLY <1>3, <2>1
<1>10. WeightsOf(i, x, Double) = WeightsOf(e, g, Half)
  BY ONLY <1>6, <1>7, <1>8, <1>9
<1> QED BY ONLY <1>5, <1>10 DEF x

LEMMA WidenSubnormal ==
  ASSUME NEW g, NEW m, NEW n, NEW i, IsSubnormal(g, m, n, i)
  PROVE  LET x == ShiftLeft(ShiftLeft(g, n) \ {10}, 42)
         IN  Parts(i, x, Double) /\ WeightsOf(i, x, Double) = WeightsOf(0, g, Half)
<1> DEFINE u == ShiftLeft(g, n)
           v == u \ {10}
           x == ShiftLeft(v, 42)
<1>1. Half.sig = 10 /\ Half.bias = 15 /\ Double.sig = 52 /\ Double.bias = 1023 /\ AllOnes(Double) = 2047
  BY DEF Half, Double, AllOnes
<1>2. m \in g /\ m \in 0..9 /\ \A b \in g : b \in 0..9 /\ b <= m
  BY DEF IsTop, IsSubnormal
<1>3. n \in Nat /\ n = 10 - m /\ n <= 10 /\ i = 999 + m
  BY <1>2 DEF IsSubnormal
<1>4. \A b \in g : b \in Int /\ b + n <= 10 /\ b + n <= 63 /\ (b + n = 10 <=> b = m)
  BY ONLY <1>2, <1>3
<1>5. \A y : y \in u <=> \E b \in g : y = b + n
  BY ONLY <1>3, <1>4, LeftHas
<1> HIDE DEF u
<1>6. \A y : y \in v <=> \E b \in g : b # m /\ y = b + n
  BY ONLY <1>4, <1>5
<1> HIDE DEF v
<1>7. \A y \in v : y \in Int /\ y + 42 <= 63 /\ y \in 0..9
  BY ONLY <1>2, <1>3, <1>4, <1>6
<1>8. \A y : y \in x <=> \E z \in v : y = z + 42
  BY ONLY <1>7, LeftHas, 42 \in Nat
<1> HIDE DEF x
<1>9. i \in Nat /\ i <= 2047 /\ i # 0
  BY ONLY <1>2, <1>3
<1>10. Parts(i, x, Double)
  <2>1. x \subseteq 0..51
    BY ONLY <1>7, <1>8
  <2>2. 0..51 = 0..(52 - 1)
    OBVIOUS
  <2> QED BY ONLY <1>1, <1>9, <2>1, <2>2 DEF Parts
<1>11. WeightsOf(i, x, Double) = {b + i - 1023 - 52 : b \in x \cup {52}}
  BY ONLY <1>1, <1>9 DEF WeightsOf
<1>12. WeightsOf(0, g, Half) = {b + 1 - 15 - 10 : b \in g}
  BY ONLY <1>1 DEF WeightsOf
<1>13. \A y : y \in x \cup {52} <=> \E b \in g : y = b + n + 42
  <2>1. m + n + 42 = 52
    BY ONLY <1>2, <1>3
  <2>2. \A y : y \in x <=> \E b \in g : b # m /\ y = b + n + 42
    BY ONLY <1>6, <1>8
  <2> QED BY ONLY <1>2, <2>1, <2>2
<1>14. \A b \in g : (b + n + 42) + i - 1023 - 52 = b + 1 - 15 - 10
  BY ONLY <1>2, <1>3
<1>15. WeightsOf(i, x, Double) = WeightsOf(0, g, Half)
  BY ONLY <1>11, <1>12, <1>13, <1>14
<1> QED BY ONLY <1>10, <1>15 DEF u, v, x

\* 16 bits are decoded as the number they are.
LEMMA HalfDecoded ==
  ASSUME NEW h, h \subseteq Nat
  PROVE  Number(HalfToDouble(h), Double) = Number(h, Half)
<1> DEFINE s == Sign(h, Half)
           e == ExponentField(h, Half)
           g == Significand(h, Half)
           m == Max(g)
           n == 10 - m
           i == 1009 - n
           j == e + 1008
           x == ShiftLeft(ShiftLeft(g, n) \ {10}, 42)
           y == (g \ {9}) \cup (IF 9 \in g THEN {51} ELSE {})
<1>1. s \in BOOLEAN /\ Parts(e, g, Half) /\ Number(h, Half) = NumberOf(s, e, g, Half)
  BY FormatsAre, PartsOf, NumberIs
<1>2. AllOnes(Half) = 31 /\ AllOnes(Double) = 2047 /\ Half.sig - 1 = 9 /\ Double.sig - 1 = 51
  BY DEF AllOnes, Half, Double
<1>3. e \in 0..31 /\ g \subseteq 0..9
  BY ONLY <1>1, <1>2 DEF Parts
<1>4. /\ e = 0 /\ g = {} => HalfToDouble(h) = Pack(s, 0, {}, Double)
      /\ e = 0 /\ g # {} => HalfToDouble(h) = Pack(s, i, x, Double)
      /\ e = 31 => HalfToDouble(h) = Pack(s, 2047, y, Double)
      /\ e \in 1..30 => HalfToDouble(h) = Pack(s, j, ShiftLeft(g, 42), Double)
  <2>1. HalfCases(h, s, e, g, n)
    BY ONLY h \subseteq Nat, HalfToDoubleParts
  <2> HIDE DEF s, e, g, m
  <2> QED BY ONLY <2>1 DEF HalfCases
<1>5. ASSUME NEW k, NEW z, Parts(k, z, Double)
      PROVE  Number(Pack(s, k, z, Double), Double) = NumberOf(s, k, z, Double)
  BY ONLY <1>1, <1>5, FormatsAre, PackedNumber
<1>5a. n = 10 - m /\ i = 1009 - n /\ j = e + 1008
  OBVIOUS
<1> HIDE DEF s, e, g, x, y, m, n, i, j
<1>6. CASE e = 0 /\ g = {}
  <2>1. Parts(0, {}, Double)
    BY ONLY <1>2 DEF Parts
  <2>2. NumberOf(s, 0, {}, Double) = Finite(s, {}) /\ NumberOf(s, 0, {}, Half) = Finite(s, {})
    BY ONLY <1>2 DEF NumberOf, WeightsOf
  <2> QED BY ONLY <1>1, <1>4, <1>5, <1>6, <2>1, <2>2
<1>7. CASE e = 0 /\ g # {}
  <2>1. IsTop(m, g)
    <3>1. Bounded(g)
      BY ONLY <1>3, <1>7, 0 \in Int, 9 \in Int DEF Bounded
    <3> QED BY ONLY <3>1, TopIs DEF m
  <2>2. Parts(i, x, Double) /\ WeightsOf(i, x, Double) = WeightsOf(0, g, Half)
    <3>1. IsSubnormal(g, m, n, i)
      BY ONLY <1>3, <1>5a, <2>1 DEF IsSubnormal
    <3> QED BY ONLY <3>1, WidenSubnormal DEF x
  <2>3. i # 2047
    BY ONLY <1>3, <1>5a, <2>1 DEF IsTop
  <2>4. NumberOf(s, i, x, Double) = NumberOf(s, 0, g, Half)
    BY ONLY <1>2, <2>2, <2>3, 0 # 31 DEF NumberOf
  <2> QED BY ONLY <1>1, <1>4, <1>5, <1>7, <2>2, <2>4
<1>8. CASE e = 31
  <2>1. y = {} <=> g = {}
    BY DEF y
  <2>2. y \subseteq 0..51
    BY ONLY <1>3 DEF y
  <2>3. Parts(2047, y, Double)
    <3>1. 2047 \in Nat /\ 2047 <= 2047
      OBVIOUS
    <3> QED BY ONLY <1>2, <2>2, <3>1 DEF Parts
  <2>4. NumberOf(s, 2047, y, Double) = NumberOf(s, 31, g, Half)
    BY ONLY <1>2, <2>1 DEF NumberOf
  <2> QED BY ONLY <1>1, <1>4, <1>5, <1>8, <2>3, <2>4
<1>9. CASE e \in 1..30
  <2> DEFINE z == ShiftLeft(g, 42)
  <2>1. Parts(j, z, Double) /\ WeightsOf(j, z, Double) = WeightsOf(e, g, Half)
    <3>1. IsNormal(e, g, j)
      BY ONLY <1>3, <1>5a, <1>9 DEF IsNormal
    <3> QED BY ONLY <3>1, WidenNormal
  <2>2. j # 2047 /\ e # 31
    BY ONLY <1>5a, <1>9
  <2> HIDE DEF z
  <2>4. NumberOf(s, j, z, Double) = NumberOf(s, e, g, Half)
    BY ONLY <1>2, <2>1, <2>2 DEF NumberOf
  <2>5. HalfToDouble(h) = Pack(s, j, z, Double)
    BY ONLY <1>4, <1>9 DEF z
  <2> QED BY ONLY <1>1, <1>5, <2>1, <2>4, <2>5
<1>10. e = 0 \/ e = 31 \/ e \in 1..30
  BY ONLY <1>3
<1> QED BY ONLY <1>6, <1>7, <1>8, <1>9, <1>10

\* The number of a pattern is one of its format.
LEMMA PartsFit ==
  ASSUME NEW f \in Formats, NEW e, NEW g, Parts(e, g, f), e # AllOnes(f)
  PROVE  Fits(WeightsOf(e, g, f), f)
<1> DEFINE B == f.bias
           S == f.sig
           W == WeightsOf(e, g, f)
<1>1. /\ B \in Nat /\ S \in Nat /\ e \in Nat /\ g \subseteq 0..(S - 1) /\ e <= 2 * B
      /\ B >= 15
  BY FormatIs DEF Parts
<1> SUFFICES ASSUME NEW x \in W, NEW y \in W
             PROVE  x <= B /\ x >= 1 - B - S /\ x - y <= S
  BY DEF Fits
<1>2. CASE e = 0
  <2>1. W = {b + 1 - B - S : b \in g}
    BY <1>2 DEF WeightsOf
  <2> HIDE DEF W, B, S
  <2>2. PICK b \in g, c \in g : x = b + 1 - B - S /\ y = c + 1 - B - S
    BY ONLY <2>1, x \in W, y \in W
  <2> QED BY ONLY <1>1, <2>2
<1>3. CASE e # 0
  <2>1. W = {b + e - B - S : b \in g \cup {S}}
    BY <1>3 DEF WeightsOf
  <2> HIDE DEF W, B, S
  <2>2. PICK b \in g \cup {S}, c \in g \cup {S} : x = b + e - B - S /\ y = c + e - B - S
    BY ONLY <2>1, x \in W, y \in W
  <2>3. b \in 0..S /\ c \in 0..S
    BY ONLY <1>1, <2>2
  <2> QED BY ONLY <1>1, <1>3, <2>2, <2>3
<1> QED BY ONLY <1>2, <1>3

\* What is decoded is the number of the item, whatever its format.
LEMMA DecodedRight ==
  ASSUME NEW item, item.format \in Formats, item.bits \subseteq Width(item.format)
  PROVE  Number(Decode(item), Double) = Meaning(item)
<1> DEFINE w == item.bits
<1>1. Half # Single /\ Half # Double /\ Single # Double
  BY DEF Half, Single, Double
<1>2. w \subseteq Nat
  <2>1. 8 * item.format.size - 1 \in Int
    BY FormatIs
  <2> QED BY ONLY <2>1, item.bits \subseteq Width(item.format) DEF Width, w
<1>3. CASE item.format = Half
  <2>1. Decode(item) = HalfToDouble(w)
    BY <1>1, <1>3 DEF Decode
  <2>2. Number(HalfToDouble(w), Double) = Number(w, Half)
    BY ONLY <1>2, HalfDecoded
  <2> QED BY ONLY <1>3, <2>1, <2>2 DEF Meaning, w
<1>4. CASE item.format = Double
  <2>1. Decode(item) = w
    BY <1>1, <1>4 DEF Decode
  <2> QED BY ONLY <1>4, <2>1 DEF Meaning, w
<1>5. CASE item.format = Single
  <2> DEFINE s == Sign(w, Single)
             e == ExponentField(w, Single)
             g == Significand(w, Single)
             x == Number(w, Single)
  <2>1. Decode(item) = IF x.kind = "finite" THEN PatternOf(x, Double)
                       ELSE Pack(s, AllOnes(Double), ShiftLeft(g, 29), Double)
    BY <1>1, <1>5 DEF Decode
  <2>2. s \in BOOLEAN /\ Parts(e, g, Single) /\ x = NumberOf(s, e, g, Single)
    BY <1>2, FormatsAre, PartsOf, NumberIs
  <2>3. AllOnes(Double) \in Nat /\ AllOnes(Single) \in Nat /\ Single.sig - 1 = 22 /\ Double.sig - 1 = 51
    BY DEF AllOnes, Single, Double
  <2>4. Meaning(item) = x
    BY <1>5 DEF Meaning
  <2> HIDE DEF s, e, g, x
  <2>5. CASE e # AllOnes(Single) /\ ~(e = 0 /\ g = {})
    <3> DEFINE W == WeightsOf(e, g, Single)
    <3>1. x = Finite(s, W) /\ x.kind = "finite"
      BY ONLY <2>2, <2>5 DEF NumberOf, Finite
    <3>2. Given3(s, e, g, Single)
      BY ONLY <2>2, <2>5 DEF Given3
    <3>3. Bounded(W) /\ W \subseteq Int
      BY ONLY <3>2, FormatsAre, GivenIs
    <3>4. Fits(W, Single)
      BY ONLY <2>2, <2>5, FormatsAre, PartsFit
    <3> HIDE DEF W
    <3>5. Fits(W, Double)
      BY ONLY <3>3, <3>4, WiderAre, FitsWider
    <3>6. Number(PatternOf(Finite(s, W), Double), Double) = Finite(s, W)
      BY ONLY <2>2, <3>3, <3>5, FormatsAre, PatternRight
    <3> QED BY ONLY <2>1, <2>4, <3>1, <3>6
  <2>6. CASE e = 0 /\ g = {}
    <3>1. 0 # AllOnes(Single)
      BY DEF AllOnes, Single
    <3>2. x = Finite(s, {}) /\ x.kind = "finite"
      BY ONLY <2>2, <2>6, <3>1 DEF NumberOf, WeightsOf, Finite
    <3>3. Number(PatternOf(Finite(s, {}), Double), Double) = Finite(s, {})
      BY ONLY <2>2, FormatsAre, PatternRight
    <3> QED BY ONLY <2>1, <2>4, <3>2, <3>3
  <2>7. CASE e = AllOnes(Single)
    <3> DEFINE y == ShiftLeft(g, 29)
    <3>1. \A b \in g : b \in Int /\ b + 29 <= 63 /\ b + 29 \in 0..51
      BY ONLY <2>2, <2>3 DEF Parts
    <3>2. \A z : z \in y <=> \E b \in g : z = b + 29
      BY ONLY <3>1, LeftHas, 29 \in Nat
    <3>3. y = {} <=> g = {}
      BY ONLY <3>2
    <3>4. y \subseteq 0..51
      BY ONLY <3>1, <3>2
    <3> HIDE DEF y
    <3>5. Parts(AllOnes(Double), y, Double)
      BY ONLY <2>3, <3>4 DEF Parts
    <3>6. Number(Pack(s, AllOnes(Double), y, Double), Double) = NumberOf(s, AllOnes(Double), y, Double)
      BY ONLY <2>2, <3>5, FormatsAre, PackedNumber
    <3>7. NumberOf(s, AllOnes(Double), y, Double) = x
      BY ONLY <2>2, <2>7, <3>3 DEF NumberOf
    <3>8. x.kind # "finite"
      BY ONLY <2>2, <2>7 DEF NumberOf, Infinity, NotANumber
    <3> QED BY ONLY <2>1, <2>4, <3>6, <3>7, <3>8 DEF y
  <2> QED BY ONLY <2>5, <2>6, <2>7
<1> QED BY ONLY <1>3, <1>4, <1>5, item.format \in Formats DEF Formats

-----------------------------------------------------------------------------
(* The invariant                                                            *)

InputTyped ==
  \/ input.format = Double /\ input.bits \in Word
  \/ input.format = Single /\ input.bits \subseteq 0..31

\* Every item is the number that was given, and comes from the encoder it is of.
IInv ==
  /\ pc \in {"encode", "decode", "done"}
  /\ InputTyped
  /\ Keeps(dcbor, Given) /\ Keeps(qcbor, Given)
  /\ cast = dcbor
  /\ pc = "decode" /\ input.format = Double =>
       dcbor = AddDouble(input.bits) /\ qcbor = DoubleToSmallest(input.bits)
  /\ pc = "done" => decoded = <<Decode(dcbor), Decode(qcbor)>>

LEMMA InputKeeps ==
  ASSUME InputTyped
  PROVE  Keeps(input, Given)
<1>1. CASE input.format = Double /\ input.bits \in Word
  <2>1. input.bits \subseteq Width(Double)
    BY <1>1 DEF Word, Width, Double
  <2> QED BY <1>1, <2>1, FormatsAre DEF Keeps, Meaning, Given
<1>2. CASE input.format = Single /\ input.bits \subseteq 0..31
  <2>1. input.bits \subseteq Width(Single)
    BY <1>2 DEF Width, Single
  <2> QED BY <1>2, <2>1, FormatsAre DEF Keeps, Meaning, Given
<1> QED BY <1>1, <1>2 DEF InputTyped

LEMMA InitIInv == Init => IInv
<1> SUFFICES ASSUME Init PROVE IInv
  OBVIOUS
<1>1. /\ pc = "encode" /\ dcbor = input /\ cast = input /\ qcbor = input
      /\ input \in {Encoded(Double, d) : d \in Doubles} \cup {Encoded(Single, s) : s \in Singles}
  BY DEF Init
<1>2. InputTyped
  <2>1. CASE input \in {Encoded(Double, d) : d \in Doubles}
    <3>1. PICK d \in Doubles : input = Encoded(Double, d)
      BY <2>1
    <3>2. input.format = Double /\ input.bits = d
      BY <3>1 DEF Encoded
    <3>3. d \in Word
      BY DoublesAssumption
    <3> QED BY ONLY <3>2, <3>3 DEF InputTyped
  <2>2. CASE input \in {Encoded(Single, s) : s \in Singles}
    <3>1. PICK s \in Singles : input = Encoded(Single, s)
      BY <2>2
    <3>2. input.format = Single /\ input.bits = s
      BY <3>1 DEF Encoded
    <3>3. s \subseteq 0..31
      BY SinglesAssumption
    <3> QED BY ONLY <3>2, <3>3 DEF InputTyped
  <2> QED BY ONLY <1>1, <2>1, <2>2
<1>3. Keeps(input, Given)
  BY ONLY <1>2, InputKeeps
<1> QED BY ONLY <1>1, <1>2, <1>3 DEF IInv

LEMMA NextIInv == IInv /\ [Next]_vars => IInv'
<1> SUFFICES ASSUME IInv, [Next]_vars PROVE IInv'
  OBVIOUS
<1>0. /\ pc \in {"encode", "decode", "done"} /\ InputTyped
      /\ Keeps(dcbor, Given) /\ Keeps(qcbor, Given) /\ cast = dcbor
      /\ pc = "decode" /\ input.format = Double =>
           dcbor = AddDouble(input.bits) /\ qcbor = DoubleToSmallest(input.bits)
      /\ pc = "done" => decoded = <<Decode(dcbor), Decode(qcbor)>>
  BY DEF IInv
<1>a. Double # Single
  BY DEF Double, Single
<1>1. CASE EncodeDouble
  <2>1. /\ input.format = Double /\ input' = input /\ pc' = "decode"
        /\ dcbor' = AddDouble(input.bits) /\ cast' = AddDoubleCast(input.bits)
        /\ qcbor' = DoubleToSmallest(input.bits)
    BY <1>1 DEF EncodeDouble
  <2>2. input.bits \in Word
    BY ONLY <1>0, <1>a, <2>1 DEF InputTyped
  <2>3. Given = Number(input.bits, Double) /\ Given' = Given
    BY ONLY <2>1 DEF Given
  <2>4. Keeps(AddDouble(input.bits), Given) /\ AddDoubleCast(input.bits) = AddDouble(input.bits)
    BY ONLY <2>2, <2>3, AddDoubleKeeps
  <2>5. Keeps(DoubleToSmallest(input.bits), Given)
    BY ONLY <2>2, <2>3, DoubleToSmallestIs
  <2>6. Keeps(dcbor', Given') /\ Keeps(qcbor', Given') /\ cast' = dcbor'
    BY ONLY <2>1, <2>3, <2>4, <2>5
  <2>7. Keeps(dcbor, Given)' /\ Keeps(qcbor, Given)'
    BY ONLY <2>6 DEF Keeps, Meaning
  <2>8. InputTyped'
    BY ONLY <1>0, <2>1 DEF InputTyped
  <2> QED BY ONLY <2>1, <2>6, <2>7, <2>8 DEF IInv
<1>2. CASE EncodeFloat
  <2>1. /\ input.format = Single /\ input' = input /\ pc' = "decode"
        /\ dcbor' = dcbor /\ cast' = cast /\ qcbor' = FloatToSmallest(input.bits)
    BY <1>2 DEF EncodeFloat
  <2>2. input.bits \subseteq 0..31
    BY ONLY <1>0, <1>a, <2>1 DEF InputTyped
  <2>3. Given = Number(input.bits, Single) /\ Given' = Given
    BY ONLY <2>1 DEF Given
  <2>5. Keeps(FloatToSmallest(input.bits), Given)
    BY ONLY <2>2, <2>3, FloatToSmallestIs
  <2>6. Keeps(dcbor', Given') /\ Keeps(qcbor', Given') /\ cast' = dcbor'
    BY ONLY <1>0, <2>1, <2>3, <2>5
  <2>7. Keeps(dcbor, Given)' /\ Keeps(qcbor, Given)'
    BY ONLY <2>6 DEF Keeps, Meaning
  <2>8. InputTyped'
    BY ONLY <1>0, <2>1 DEF InputTyped
  <2> QED BY ONLY <1>a, <2>1, <2>6, <2>7, <2>8 DEF IInv
<1>3. CASE DecodeBoth
  <2>1. /\ decoded' = <<Decode(dcbor), Decode(qcbor)>> /\ pc' = "done"
        /\ input' = input /\ dcbor' = dcbor /\ cast' = cast /\ qcbor' = qcbor
    BY <1>3 DEF DecodeBoth
  <2>2. InputTyped' /\ Keeps(dcbor, Given)' /\ Keeps(qcbor, Given)'
    BY ONLY <1>0, <2>1 DEF InputTyped, Keeps, Meaning, Given
  <2>3. Decode(dcbor)' = Decode(dcbor) /\ Decode(qcbor)' = Decode(qcbor)
    BY ONLY <2>1 DEF Decode
  <2> QED BY ONLY <1>0, <2>1, <2>2, <2>3 DEF IInv
<1>4. CASE UNCHANGED vars
  <2>1. /\ pc' = pc /\ decoded' = decoded
        /\ input' = input /\ dcbor' = dcbor /\ cast' = cast /\ qcbor' = qcbor
    BY <1>4 DEF vars
  <2>2. InputTyped' /\ Keeps(dcbor, Given)' /\ Keeps(qcbor, Given)'
    BY ONLY <1>0, <2>1 DEF InputTyped, Keeps, Meaning, Given
  <2>3. Decode(dcbor)' = Decode(dcbor) /\ Decode(qcbor)' = Decode(qcbor)
    BY ONLY <2>1 DEF Decode
  <2> QED BY ONLY <1>0, <2>1, <2>2, <2>3 DEF IInv
<1> QED BY <1>1, <1>2, <1>3, <1>4 DEF Next

LEMMA Invariance == Spec => []IInv
BY InitIInv, NextIInv, PTL DEF Spec

-----------------------------------------------------------------------------
(* Theorems                                                                 *)

\* For every double and every 32-bit number: addDouble() in both builds and QCBOR's
\* IEEE754_DoubleToSmallest() and IEEE754_FloatToSmallest() write the number they
\* were given, and addDouble()'s item is never the longer one, the shorter only
\* where the number is subnormal in its format.
THEOREM NothingLost == Spec => []Lossless
<1>1. IInv => Lossless
  <2> SUFFICES ASSUME IInv PROVE Lossless
    OBVIOUS
  <2>1. Meaning(dcbor) = Given /\ Meaning(qcbor) = Given
    BY DEF IInv, Keeps
  <2>2. ASSUME pc = "decode" /\ input.format = Double
        PROVE  /\ dcbor.format.size <= qcbor.format.size
               /\ dcbor.format # qcbor.format => ExponentField(dcbor.bits, dcbor.format) = 0
    <3>1. dcbor = AddDouble(input.bits) /\ qcbor = DoubleToSmallest(input.bits)
      BY <2>2 DEF IInv
    <3>2. InputTyped /\ Double # Single
      BY DEF IInv, Double, Single
    <3>3. input.bits \in Word
      BY ONLY <2>2, <3>2 DEF InputTyped
    <3> QED BY ONLY <3>1, <3>3, AddDoubleNotLonger
  <2> QED BY ONLY <2>1, <2>2 DEF Lossless
<1> QED BY <1>1, Invariance, PTL

\* For every double: addDouble() chooses the shortest format that has the number,
\* and the build with PLATFORM_SUPPORTS_FLOAT_CAST the same as the one without.
THEOREM ShortestFormat == Spec => []Deterministic
<1>1. IInv => Deterministic
  <2> SUFFICES ASSUME IInv PROVE Deterministic
    OBVIOUS
  <2>1. cast = dcbor
    BY DEF IInv
  <2>2. ASSUME pc = "decode" /\ input.format = Double
        PROVE  \A f \in {Half, Single} : f.size < dcbor.format.size => ~Representable(Given, f)
    <3>1. dcbor = AddDouble(input.bits) /\ qcbor = DoubleToSmallest(input.bits)
      BY <2>2 DEF IInv
    <3>2. InputTyped /\ Double # Single
      BY DEF IInv, Double, Single
    <3>3. input.bits \in Word
      BY ONLY <2>2, <3>2 DEF InputTyped
    <3>4. Given = Number(input.bits, Double)
      BY ONLY <2>2 DEF Given
    <3> QED BY ONLY <3>1, <3>3, <3>4, AddDoubleShortest
  <2> QED BY ONLY <2>1, <2>2 DEF Deterministic
<1> QED BY <1>1, Invariance, PTL

\* For every number given to any of the encoders, QCBOR's DecodeType7() returns a
\* double that is that number.
THEOREM ReadBack == Spec => []DecoderReturnsIt
<1>1. IInv => DecoderReturnsIt
  <2> SUFFICES ASSUME IInv, pc = "done", NEW n \in 1..2
               PROVE  Number(decoded[n], Double) = Given
    BY DEF DecoderReturnsIt
  <2>1. decoded = <<Decode(dcbor), Decode(qcbor)>> /\ Keeps(dcbor, Given) /\ Keeps(qcbor, Given)
    BY DEF IInv
  <2>2. ASSUME NEW item, Keeps(item, Given)
        PROVE  Number(Decode(item), Double) = Given
    <3>1. item.format \in Formats /\ item.bits \subseteq Width(item.format) /\ Meaning(item) = Given
      BY <2>2 DEF Keeps
    <3> QED BY ONLY <3>1, DecodedRight
  <2>3. decoded[1] = Decode(dcbor) /\ decoded[2] = Decode(qcbor)
    BY ONLY <2>1
  <2>4. n = 1 \/ n = 2
    OBVIOUS
  <2> QED BY ONLY <2>1, <2>2, <2>3, <2>4
<1> QED BY <1>1, Invariance, PTL

============================================================================
